---------------------------- MODULE PublishJobs ----------------------------
(***************************************************************************)
(* Publishing an article to several platforms through ALQQ: immediate and  *)
(* scheduled jobs, the minute job that starts due ones, the refreshes that *)
(* bring results back, and the article's deletion (PublisherService).      *)
(*                                                                         *)
(* Nothing here is a transaction.  A job keeps its targets in one JSON     *)
(* column, which every writer replaces as a whole by what it read earlier  *)
(* and changed.  Workers are requests, background dispatches and runs of   *)
(* the minute job; the jobs of one article only meet through that article, *)
(* so there is one.  ALQQ is external: it accepts batches and settles each *)
(* platform's publication at some time.                                    *)
(***************************************************************************)
EXTENDS Integers, FiniteSets

CONSTANTS
    Platforms,
    Executors,     \* 'desktop', 'edge': ALQQ takes one batch for each
    None,
    Workers,       \* handlers in flight
    MaxJobs        \* bound: jobs of the article

ASSUME PublishAssumption ==
    /\ None \notin Executors
    /\ MaxJobs \in Nat
    /\ Platforms # {}

Jobs == 1..MaxJobs     \* numbered in the order of create_date

VARIABLES
    article,   \* content_article.status, or "gone"
    job,       \* content_publish_job rows; "none" not yet, "gone" deleted
    remote,    \* ALQQ: per job and platform, submissions and the outcome
    pc,        \* where each worker is
    claim      \* what it carries

vars == <<article, job, remote, pc, claim>>

Outcomes == {"success", "failed", "skipped"}

(* A target of a job; `batch`: its alqqBatchId is set.                     *)
Target  == [status : {"queued"} \cup Outcomes, batch : BOOLEAN]
Targets == [Platforms -> Target]
Modes   == {"publish", "schedule"}

JobRow == [status : {"none", "gone", "scheduled", "running", "done", "failed"},
           mode : Modes, due : BOOLEAN, bound : SUBSET Platforms, targets : Targets]

Skipped == [status |-> "skipped", batch |-> FALSE]
NoTargets == [p \in Platforms |-> Skipped]
NoJob == [status |-> "none", mode |-> "publish", due |-> FALSE, bound |-> {},
          targets |-> NoTargets]

(* role: what the worker was started for; job and targets: the row it      *)
(* works on, as it read it; to: the executor each platform still has to be *)
(* submitted to; sync, synced: the row a refresh works on.                 *)
NoPlan == [p \in Platforms |-> None]

Claim == [role : {"none", "now", "due", "refresh", "delete"}, job : Jobs \cup {0},
          targets : Targets, to : [Platforms -> Executors \cup {None}],
          sync : Jobs \cup {0}, synced : Targets]

NoClaim == [role |-> "none", job |-> 0, targets |-> NoTargets, to |-> NoPlan,
            sync |-> 0, synced |-> NoTargets]

Steps == {"idle", "publish", "announce", "dispatch", "claim", "latest", "sync", "syncwrite",
          "syncarticle", "load", "submit", "write", "article", "fail", "failarticle",
          "deletearticle"}

Init ==
    /\ article = "draft"
    /\ job = [j \in Jobs |-> NoJob]
    /\ remote = [j \in Jobs |-> [p \in Platforms |-> [sent |-> 0, outcome |-> "none"]]]
    /\ pc = [w \in Workers |-> "idle"]
    /\ claim = [w \in Workers |-> NoClaim]

Goto(w, step, k) ==
    /\ pc' = [pc EXCEPT ![w] = step]
    /\ claim' = [claim EXCEPT ![w] = k]

Move(w, step) == Goto(w, step, claim[w])
Answer(w)     == Goto(w, "idle", NoClaim)

Exists(j) == job[j].status \notin {"none", "gone"}

(***************************************************************************)
(* The statuses derived from a job's targets.                              *)
(***************************************************************************)
Some(targets, status) == \E p \in Platforms : targets[p].status = status

(* jobStatusFromTargets                                                    *)
JobStatus(targets) ==
    CASE Some(targets, "queued") -> "running"
      [] ~Some(targets, "queued") /\ Some(targets, "success") -> "done"
      [] OTHER -> "failed"

(* Mutant of ArticleStatus: published as soon as nothing is pending.       *)
ArticleStatusSettled(mode, targets) ==
    IF Some(targets, "queued") THEN "publishing"
    ELSE IF mode = "publish" THEN "published" ELSE "draft"

(* articleStatusFromTargets                                                *)
ArticleStatus(mode, targets) ==
    IF Some(targets, "queued") THEN "publishing"
    ELSE IF mode = "publish" /\ Some(targets, "success") THEN "published"
    ELSE "draft"

(* Mutant of MarkTargetsFailed: unbound platforms are marked too.          *)
MarkTargetsFailedAll(targets) == [p \in Platforms |-> [status |-> "failed", batch |-> FALSE]]

(* markTargetsFailed, of the row as it was read: no batch was known then.  *)
MarkTargetsFailed(targets) ==
    [p \in Platforms |-> IF targets[p].status = "skipped" THEN targets[p]
                         ELSE [status |-> "failed", batch |-> FALSE]]

(***************************************************************************)
(* publish: read the article, create the job, update the article, then     *)
(* dispatch an immediate job in the background.                            *)
(***************************************************************************)
Publish(w) ==
    /\ pc[w] = "idle"
    /\ article # "gone"
    /\ Goto(w, "publish", [NoClaim EXCEPT !.role = "now"])
    /\ UNCHANGED <<article, job, remote>>

LocalTargets(bound) ==
    [p \in Platforms |-> IF p \in bound THEN [status |-> "queued", batch |-> FALSE] ELSE Skipped]

PublishCreate(w) ==
    /\ pc[w] = "publish"
    /\ \E j \in Jobs, mode \in Modes, bound \in SUBSET Platforms :
          /\ job[j].status = "none"
          /\ \A i \in 1..(j - 1) : job[i].status # "none"
          /\ job' = [job EXCEPT ![j] =
                [status  |-> IF mode = "schedule" /\ bound # {} THEN "scheduled"
                             ELSE JobStatus(LocalTargets(bound)),
                 mode    |-> mode, due |-> FALSE, bound |-> bound,
                 targets |-> LocalTargets(bound)]]
          /\ Goto(w, "announce", [claim[w] EXCEPT !.job = j])
    /\ UNCHANGED <<article, remote>>

(* An article deleted meanwhile makes the update throw: no dispatch then.  *)
PublishAnnounce(w) ==
    LET row == job[claim[w].job]
    IN  /\ pc[w] = "announce"
        /\ article # "gone"
        /\ article' = IF row.mode = "schedule" THEN "draft"
                      ELSE ArticleStatus("publish", LocalTargets(row.bound))
        /\ IF row.mode = "publish" /\ row.bound # {} THEN Move(w, "dispatch") ELSE Answer(w)
        /\ UNCHANGED <<job, remote>>

DispatchRead(w) ==
    LET j == claim[w].job
    IN  /\ pc[w] = "dispatch"
        /\ IF job[j].status = "running"
           THEN Goto(w, "submit", [claim[w] EXCEPT !.targets = job[j].targets])
           ELSE Answer(w)
        /\ UNCHANGED <<article, job, remote>>

(***************************************************************************)
(* executeDueScheduledJobs: the due rows are read, each is claimed by a    *)
(* conditional update, and getArticle refreshes the article's latest job   *)
(* if that one is running.                                                 *)
(***************************************************************************)
DueRead(w) ==
    /\ pc[w] = "idle"
    /\ \E j \in Jobs :
          /\ job[j].status = "scheduled"
          /\ job[j].due
          /\ Goto(w, "claim", [NoClaim EXCEPT !.role = "due", !.job = j,
                                              !.targets = job[j].targets])
    /\ UNCHANGED <<article, job, remote>>

Claimable(j) == job[j].status = "scheduled"

DueClaim(w) ==
    LET j == claim[w].job
    IN  /\ pc[w] = "claim"
        /\ IF Claimable(j)
           THEN job' = [job EXCEPT ![j].status = "running"] /\ Move(w, "latest")
           ELSE UNCHANGED job /\ Answer(w)
        /\ UNCHANGED <<article, remote>>

Latest(j) == Exists(j) /\ \A i \in Jobs : Exists(i) => i <= j

DueLatest(w) ==
    /\ pc[w] = "latest"
    /\ \/ \E j \in Jobs :
             /\ Latest(j)
             /\ job[j].status = "running"
             /\ Goto(w, "sync", [claim[w] EXCEPT !.sync = j, !.synced = job[j].targets])
       \/ /\ \A j \in Jobs : Latest(j) => job[j].status # "running"
          /\ Move(w, "load")
    /\ UNCHANGED <<article, job, remote>>

DueLoad(w) ==
    /\ pc[w] = "load"
    /\ Move(w, IF article = "gone" THEN "fail" ELSE "submit")
    /\ UNCHANGED <<article, job, remote>>

(***************************************************************************)
(* publishViaAlqq: each queued platform is refused or put on an executor,  *)
(* then every executor gets one batch.                                     *)
(***************************************************************************)
Planned(w) == \E p \in Platforms : claim[w].to[p] # None

SubmitPlan(w) ==
    LET ts == claim[w].targets
    IN  /\ pc[w] = "submit"
        /\ ~Planned(w)
        /\ \E to \in [Platforms -> Executors \cup {None}] :
              /\ \A p \in Platforms : to[p] # None => ts[p].status # "skipped"
              /\ Goto(w, IF to = NoPlan THEN "write" ELSE "submit",
                    [claim[w] EXCEPT !.to = to,
                        !.targets = [p \in Platforms |->
                            IF ts[p].status = "skipped" THEN ts[p]
                            ELSE [status |-> IF to[p] = None THEN "failed" ELSE "queued",
                                  batch  |-> ts[p].batch]]])
        /\ UNCHANGED <<article, job, remote>>

Accepted(j, group) ==
    remote' = [remote EXCEPT ![j] = [p \in Platforms |->
        IF p \in group THEN [sent |-> remote[j][p].sent + 1, outcome |-> "queued"]
        ELSE remote[j][p]]]

Group(w, e) == {p \in Platforms : claim[w].to[p] = e}

SubmitBatch(w, e) ==
    LET k     == claim[w]
        group == Group(w, e)
        left  == [p \in Platforms |-> IF p \in group THEN None ELSE k.to[p]]
    IN  /\ pc[w] = "submit"
        /\ group # {}
        /\ Accepted(k.job, group)
        /\ Goto(w, IF left = NoPlan THEN "write" ELSE "submit",
              [k EXCEPT !.to = left,
                        !.targets = [p \in Platforms |->
                            IF p \in group THEN [status |-> "queued", batch |-> TRUE]
                            ELSE k.targets[p]]])
        /\ UNCHANGED <<article, job>>

(* Mutant of SubmitFail: a batch whose call threw is sent again.           *)
SubmitFailRetries(w) ==
    /\ pc[w] = "submit"
    /\ \/ UNCHANGED remote
       \/ \E e \in Executors : Group(w, e) # {} /\ Accepted(claim[w].job, Group(w, e))
    /\ UNCHANGED <<article, job, pc, claim>>

(* A call to ALQQ throws, perhaps a timeout after the batch was accepted:  *)
(* runAlqqOrFail turns every target that is not skipped into a failure,    *)
(* also those of the batches it had submitted before.                      *)
SubmitFail(w) ==
    LET k == claim[w]
    IN  /\ pc[w] = "submit"
        /\ \/ UNCHANGED remote
           \/ \E e \in Executors : Group(w, e) # {} /\ Accepted(k.job, Group(w, e))
        /\ Goto(w, "write", [k EXCEPT !.to = NoPlan,
              !.targets = [p \in Platforms |->
                  IF k.targets[p].status = "skipped" THEN k.targets[p]
                  ELSE [status |-> "failed", batch |-> k.targets[p].batch]]])
        /\ UNCHANGED <<article, job>>

Write(j, targets) ==
    job' = [job EXCEPT ![j] = [@ EXCEPT !.status = JobStatus(targets), !.targets = targets]]

SubmitWrite(w) ==
    /\ pc[w] = "write"
    /\ Exists(claim[w].job)
    /\ Write(claim[w].job, claim[w].targets)
    /\ Move(w, "article")
    /\ UNCHANGED <<article, remote>>

(* dispatchImmediatePublish is for mode publish; the minute job says so.   *)
SubmitArticle(w) ==
    /\ pc[w] = "article"
    /\ article # "gone"
    /\ article' = ArticleStatus("publish", claim[w].targets)
    /\ Answer(w)
    /\ UNCHANGED <<job, remote>>

(* The catch block; only an immediate dispatch resets the article.         *)
FailWrite(w) ==
    LET j == claim[w].job
    IN  /\ pc[w] = "fail"
        /\ Exists(j)
        /\ job' = [job EXCEPT ![j] =
              [@ EXCEPT !.status = "failed", !.targets = MarkTargetsFailed(claim[w].targets)]]
        /\ IF claim[w].role = "now" THEN Move(w, "failarticle") ELSE Answer(w)
        /\ UNCHANGED <<article, remote>>

FailArticle(w) ==
    /\ pc[w] = "failarticle"
    /\ article # "gone"
    /\ article' = "draft"
    /\ Answer(w)
    /\ UNCHANGED <<job, remote>>

(***************************************************************************)
(* syncJobRowFromAlqq: for a running job on the minute, on opening the     *)
(* article or the job, and for any job on the author's refresh.            *)
(***************************************************************************)
SyncRead(w) ==
    /\ pc[w] = "idle"
    /\ \E j \in Jobs :
          /\ Exists(j)
          /\ Goto(w, "sync", [NoClaim EXCEPT !.role = "refresh", !.sync = j,
                                             !.synced = job[j].targets])
    /\ UNCHANGED <<article, job, remote>>

(* applyRemoteJob: an unknown or missing status counts as queued.          *)
RemoteStatus(j, p) ==
    IF remote[j][p].outcome \in Outcomes THEN remote[j][p].outcome ELSE "queued"

SyncFetch(w) ==
    LET k == claim[w]
    IN  /\ pc[w] = "sync"
        /\ Goto(w, "syncwrite", [k EXCEPT !.synced = [p \in Platforms |->
              IF k.synced[p].status = "skipped" \/ ~k.synced[p].batch THEN k.synced[p]
              ELSE [status |-> RemoteStatus(k.sync, p), batch |-> TRUE]]])
        /\ UNCHANGED <<article, job, remote>>

SyncWrite(w) ==
    /\ pc[w] = "syncwrite"
    /\ Exists(claim[w].sync)
    /\ Write(claim[w].sync, claim[w].synced)
    /\ Move(w, "syncarticle")
    /\ UNCHANGED <<article, remote>>

SyncArticle(w) ==
    LET k == claim[w]
    IN  /\ pc[w] = "syncarticle"
        /\ article # "gone"
        /\ article' = ArticleStatus(job[k.sync].mode, k.synced)
        /\ IF k.role = "due" THEN Move(w, "load") ELSE Answer(w)
        /\ UNCHANGED <<job, remote>>

(* A database or ALQQ call throws, always so when the row is gone: inside  *)
(* the try blocks of a dispatch the catch block takes over, elsewhere the  *)
(* handler ends.  Submission has a catch of its own, SubmitFail.           *)
Guarded(w) ==
    \/ pc[w] \in {"write", "article"}
    \/ claim[w].role = "due" /\ pc[w] \in {"latest", "sync", "syncwrite", "syncarticle", "load"}

Throw(w) ==
    /\ pc[w] \notin {"idle", "submit"}
    /\ IF Guarded(w) THEN Move(w, "fail") ELSE Answer(w)
    /\ UNCHANGED <<article, job, remote>>

(***************************************************************************)
(* deleteArticle and the clean-up of old drafts: the jobs, then the row.   *)
(* updateArticle may carry a status.                                       *)
(***************************************************************************)
DeleteJobs(w) ==
    /\ pc[w] = "idle"
    /\ article # "gone"
    /\ job' = [j \in Jobs |-> IF Exists(j) THEN [job[j] EXCEPT !.status = "gone"] ELSE job[j]]
    /\ Goto(w, "deletearticle", [NoClaim EXCEPT !.role = "delete"])
    /\ UNCHANGED <<article, remote>>

DeleteArticle(w) ==
    /\ pc[w] = "deletearticle"
    /\ article # "gone"
    /\ article' = "gone"
    /\ Answer(w)
    /\ UNCHANGED <<job, remote>>

UpdateArticle ==
    /\ article # "gone"
    /\ \E s \in {"draft", "publishing", "published"} : article' = s
    /\ UNCHANGED <<job, remote, pc, claim>>

(***************************************************************************)
(* Time, ALQQ, and restarts of the server.                                 *)
(***************************************************************************)
ComeDue(j) ==
    /\ Exists(j)
    /\ job[j].mode = "schedule"
    /\ ~job[j].due
    /\ job' = [job EXCEPT ![j].due = TRUE]
    /\ UNCHANGED <<article, remote, pc, claim>>

Settle(j, p) ==
    /\ remote[j][p].outcome = "queued"
    /\ \E s \in Outcomes : remote' = [remote EXCEPT ![j][p].outcome = s]
    /\ UNCHANGED <<article, job, pc, claim>>

Crash ==
    /\ \E w \in Workers : pc[w] # "idle"
    /\ pc' = [w \in Workers |-> "idle"]
    /\ claim' = [w \in Workers |-> NoClaim]
    /\ UNCHANGED <<article, job, remote>>

Handle(w) == \/ Publish(w) \/ PublishCreate(w) \/ PublishAnnounce(w) \/ DispatchRead(w)
             \/ DueRead(w) \/ DueClaim(w) \/ DueLatest(w) \/ DueLoad(w)
             \/ SubmitPlan(w) \/ SubmitFail(w) \/ SubmitWrite(w) \/ SubmitArticle(w)
             \/ \E e \in Executors : SubmitBatch(w, e)
             \/ FailWrite(w) \/ FailArticle(w)
             \/ SyncRead(w) \/ SyncFetch(w) \/ SyncWrite(w) \/ SyncArticle(w)
             \/ Throw(w)
             \/ DeleteJobs(w) \/ DeleteArticle(w)

Next == \/ \E w \in Workers : Handle(w)
        \/ UpdateArticle
        \/ \E j \in Jobs : ComeDue(j) \/ \E p \in Platforms : Settle(j, p)
        \/ Crash

Spec == Init /\ [][Next]_vars
-----------------------------------------------------------------------------
(* Every row and every carried value has its type; a worker past its first *)
(* step knows its row.                                                     *)
TypeOK ==
    /\ article \in {"gone", "draft", "publishing", "published"}
    /\ job \in [Jobs -> JobRow]
    /\ remote \in [Jobs -> [Platforms -> [sent : Nat,
                                          outcome : {"none", "queued"} \cup Outcomes]]]
    /\ pc \in [Workers -> Steps]
    /\ claim \in [Workers -> Claim]
    /\ \A w \in Workers :
          /\ pc[w] \in {"announce", "dispatch", "claim", "latest", "load", "submit", "write",
                        "article", "fail", "failarticle"} => claim[w].job \in Jobs
          /\ pc[w] \in {"sync", "syncwrite", "syncarticle"} => claim[w].sync \in Jobs

(* No platform is asked twice to publish a job, although runs of the       *)
(* minute job overlap, ALQQ calls time out and dispatches race refreshes:  *)
(* the conditional update claims a due job for one run, and nothing is     *)
(* submitted again after a failure or a restart.                           *)
SubmittedOnce == \A j \in Jobs, p \in Platforms : remote[j][p].sent <= 1

(* A job's status is the one of its targets, whichever of its writers      *)
(* (create, claim, dispatch, catch block, refresh) came last with whatever *)
(* stale targets: they are replaced together.                              *)
StatusMatches ==
    \A j \in Jobs : Exists(j) =>
        IF job[j].status = "scheduled"
        THEN job[j].targets = LocalTargets(job[j].bound)
        ELSE job[j].status = JobStatus(job[j].targets)

(* What the author sees as published was published, even when a stale      *)
(* refresh overwrites a newer one.                                         *)
SuccessIsReal ==
    \A j \in Jobs, p \in Platforms :
        job[j].targets[p].status = "success" => remote[j][p].outcome = "success"

(* A platform that was not bound when the job was created stays skipped    *)
(* and is never asked.                                                     *)
UnboundUntouched ==
    \A j \in Jobs : Exists(j) =>
        \A p \in Platforms \ job[j].bound :
            job[j].targets[p].status = "skipped" /\ remote[j][p].sent = 0

(* What a job's row says of its platforms is true: the row's status is     *)
(* that of its targets, a success happened at ALQQ, and no platform        *)
(* without an account was asked.                                           *)
TargetsTrue == TypeOK /\ StatusMatches /\ SuccessIsReal /\ UnboundUntouched

(* The service calls an article published only if a platform has it.       *)
PublishedIsReal ==
    [][(article' = "published" /\ article # "published" /\ pc' # pc)
           => \E j \in Jobs, p \in Platforms : remote[j][p].outcome = "success"]_vars

(* buildLocalTargets: '已预约，到点后发布': a scheduled job waits for its time.     *)
ScheduledUntilDue ==
    [][\A j \in Jobs : (job[j].status = "scheduled" /\ job'[j].status = "running")
                           => job[j].due]_vars
=============================================================================

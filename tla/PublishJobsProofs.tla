-------------------------- MODULE PublishJobsProofs --------------------------
(***************************************************************************)
(* Theorems about PublishJobs, for any number of platforms, executors,     *)
(* workers and jobs of the article, and about the services that            *)
(* MCPublishJobs puts beside it (Feedback, DailyVisits, ChatDelivery,      *)
(* StaffDays, PublishMetrics, FinanceReports), for any number of handlers, *)
(* users, messages, files and records.                                     *)
(***************************************************************************)
EXTENDS MCPublishJobs, Sequences, SumTheorems, TLAPS

(***************************************************************************)
(* The inductive invariant.  Rows are replaced by what their writers read  *)
(* earlier, so what makes it inductive is what remains true of a copy of a *)
(* row's targets while the row moves on: a success stays one at ALQQ, and  *)
(* the platforms bound at creation stay the bound ones.                    *)
(***************************************************************************)
Known(j, targets) ==
    /\ job[j].status # "none"
    /\ \A p \in Platforms :
          /\ targets[p].status = "success" => remote[j][p].outcome = "success"
          /\ p \notin job[j].bound => targets[p].status = "skipped"

Carries(step, k) ==
    /\ k.role = "due" => k.job \in Jobs
    /\ k.job # 0 => Known(k.job, k.targets)
    /\ k.sync # 0 => Known(k.sync, k.synced)
    /\ step = "publish" => k.targets = NoTargets
    /\ step # "submit" => k.to = NoPlan
    /\ \A p \in Platforms : k.to[p] # None => k.targets[p].status # "skipped"

(* The worker that may still submit a job: the one that created it, or the *)
(* run of the minute job that claimed it.                                  *)
MaySubmit(step, k) ==
    \/ step = "announce" /\ job[k.job].mode = "publish"
    \/ step \in {"dispatch", "latest", "load", "submit"}
    \/ step \in {"sync", "syncwrite", "syncarticle"} /\ k.role = "due"

(* It has asked none of the platforms that its plan still names, or none   *)
(* at all if it has no plan.                                               *)
NotAsked(k) ==
    /\ job[k.job].status \notin {"none", "scheduled"}
    /\ \A p \in Platforms : k.to = NoPlan \/ k.to[p] # None => remote[k.job][p].sent = 0

Row(j) ==
    /\ job[j].status = "scheduled" => job[j].mode = "schedule" /\ job[j].bound # {}
    /\ \A p \in Platforms :
          /\ job[j].status \in {"none", "scheduled"} => remote[j][p].sent = 0
          /\ remote[j][p].sent = 0 => remote[j][p].outcome = "none"
          /\ job[j].targets[p].status = "success" => remote[j][p].outcome = "success"
          /\ p \notin job[j].bound => /\ job[j].targets[p].status = "skipped"
                                      /\ remote[j][p].sent = 0

Rows == \A j \in Jobs : Row(j)

Carried == \A w \in Workers : Carries(pc[w], claim[w])

Submitters == \A w \in Workers : MaySubmit(pc[w], claim[w]) => NotAsked(claim[w])

OneSubmitter ==
    \A v, w \in Workers :
        (/\ MaySubmit(pc[v], claim[v])
         /\ MaySubmit(pc[w], claim[w])
         /\ claim[v].job = claim[w].job) => v = w

PublishInv ==
    /\ TypeOK
    /\ SubmittedOnce
    /\ StatusMatches
    /\ Rows
    /\ Carried
    /\ Submitters
    /\ OneSubmitter

(* A worker past its first step knows its row.                             *)
Placed(step, k) ==
    /\ step \in {"announce", "dispatch", "claim", "latest", "load", "submit", "write", "article",
                "fail", "failarticle"} => k.job \in Jobs
    /\ step \in {"sync", "syncwrite", "syncarticle"} => k.sync \in Jobs

(***************************************************************************)
(* Records and derived statuses.                                           *)
(***************************************************************************)
LEMMA NoClaimTyped ==
  /\ Skipped \in Target
  /\ NoTargets \in Targets
  /\ NoClaim \in Claim
  /\ NoClaim.job = 0 /\ NoClaim.sync = 0 /\ NoClaim.role = "none" /\ NoClaim.to = NoPlan
  <1>1. Skipped \in Target
    BY DEF Skipped, Target, Outcomes
  <1>2. NoTargets \in Targets
    BY <1>1 DEF NoTargets, Targets
  <1>3. NoPlan \in [Platforms -> Executors \cup {None}]
    BY DEF NoPlan
  <1>4. QED
    BY <1>1, <1>2, <1>3 DEF NoClaim, Claim

LEMMA ClaimFields ==
  ASSUME NEW c \in Claim
  PROVE  c = [role |-> c.role, job |-> c.job, targets |-> c.targets, to |-> c.to,
              sync |-> c.sync, synced |-> c.synced]
  BY DEF Claim

LEMMA ClaimTypes ==
  ASSUME NEW c \in Claim
  PROVE  /\ c.job \in Jobs \cup {0} /\ c.sync \in Jobs \cup {0}
         /\ c.targets \in Targets /\ c.synced \in Targets
         /\ c.to \in [Platforms -> Executors \cup {None}]
         /\ c.role \in {"none", "now", "due", "refresh", "delete"}
  BY DEF Claim

LEMMA LocalTargetsTyped ==
  ASSUME NEW bound \in SUBSET Platforms
  PROVE  /\ LocalTargets(bound) \in Targets
         /\ \A p \in Platforms :
               LocalTargets(bound)[p].status = IF p \in bound THEN "queued" ELSE "skipped"
         /\ bound # {} => JobStatus(LocalTargets(bound)) = "running"
         /\ bound = {} => JobStatus(LocalTargets(bound)) = "failed"
  <1> DEFINE queued == [status |-> "queued", batch |-> FALSE]
  <1>1. /\ queued \in Target /\ queued.status = "queued"
        /\ Skipped \in Target /\ Skipped.status = "skipped"
    BY DEF Target, Skipped, Outcomes
  <1>2. LocalTargets(bound) = [p \in Platforms |-> IF p \in bound THEN queued ELSE Skipped]
    BY DEF LocalTargets
  <1> HIDE DEF queued
  <1>3. /\ LocalTargets(bound) \in Targets
        /\ \A p \in Platforms :
              LocalTargets(bound)[p].status = IF p \in bound THEN "queued" ELSE "skipped"
    BY <1>1, <1>2 DEF Targets
  <1>4. QED
    BY <1>3 DEF JobStatus, Some

LEMMA StatusTyped ==
  ASSUME NEW targets
  PROVE  /\ JobStatus(targets) \in {"running", "done", "failed"}
         /\ ArticleStatus("publish", targets) = "published" => Some(targets, "success")
         /\ \A mode : /\ ArticleStatus(mode, targets) \in {"publishing", "published", "draft"}
                      /\ ArticleStatus(mode, targets) = "published" => Some(targets, "success")
  BY DEF JobStatus, ArticleStatus

LEMMA InitInv == Init => PublishInv
  <1> SUFFICES ASSUME Init PROVE PublishInv
    OBVIOUS
  <1>1. NoJob \in JobRow /\ NoJob.status = "none" /\ NoJob.targets = NoTargets /\ NoJob.bound = {}
    BY NoClaimTyped DEF NoJob, JobRow, Modes
  <1>2. \A p \in Platforms : NoTargets[p].status = "skipped"
    BY DEF NoTargets, Skipped
  <1>3. /\ \A j \in Jobs : job[j] = NoJob
        /\ \A j \in Jobs, p \in Platforms : remote[j][p].sent = 0 /\ remote[j][p].outcome = "none"
        /\ \A w \in Workers : pc[w] = "idle" /\ claim[w] = NoClaim
    BY DEF Init
  <1>4. TypeOK
    <2>1. [sent |-> 0, outcome |-> "none"] \in [sent : Nat, outcome : {"none", "queued"} \cup Outcomes]
      OBVIOUS
    <2>2. QED
      BY <2>1, <1>1, NoClaimTyped DEF Init, TypeOK, Steps
  <1>5. Rows /\ StatusMatches /\ SubmittedOnce
    BY <1>1, <1>2, <1>3 DEF Rows, Row, StatusMatches, SubmittedOnce, Exists
  <1>6. Carried
    <2>1. \A p \in Platforms : NoPlan[p] = None
      BY DEF NoPlan
    <2>2. Carries("idle", NoClaim)
      BY <2>1, NoClaimTyped DEF Carries
    <2>3. QED
      BY <2>2, <1>3 DEF Carried
  <1>7. Submitters /\ OneSubmitter
    BY <1>3 DEF Submitters, OneSubmitter, MaySubmit
  <1>8. QED
    BY <1>4, <1>5, <1>6, <1>7 DEF PublishInv

(***************************************************************************)
(* What a step leaves true of the copies that other workers carry.  A job  *)
(* keeps its accounts and mode, is scheduled only once, and ALQQ does not  *)
(* take a success back.                                                    *)
(***************************************************************************)
RowsKeep ==
    \A j \in Jobs :
        /\ job[j].status # "none" => /\ job'[j].status # "none"
                                     /\ job'[j].bound = job[j].bound
                                     /\ job'[j].mode = job[j].mode
        /\ job[j].status \notin {"none", "scheduled"} =>
              job'[j].status \notin {"none", "scheduled"}
        /\ \A p \in Platforms :
              remote[j][p].outcome = "success" => remote'[j][p].outcome = "success"

LEMMA CarriesOn ==
  ASSUME RowsKeep, NEW step, NEW k \in Claim, Placed(step, k), Carries(step, k)
  PROVE  /\ Carries(step, k)'
         /\ MaySubmit(step, k)' <=> MaySubmit(step, k)
  <1>1. k.job \in Jobs \cup {0} /\ k.sync \in Jobs \cup {0}
    BY ClaimTypes
  <1>2. ASSUME NEW j \in Jobs, NEW targets, Known(j, targets)
        PROVE  Known(j, targets)'
    BY <1>2 DEF RowsKeep, Known
  <1>3. Carries(step, k)'
    BY <1>1, <1>2 DEF Carries
  <1>4. MaySubmit(step, k)' <=> MaySubmit(step, k)
    <2>1. CASE step = "announce"
      <3>1. k.job \in Jobs /\ job[k.job].status # "none"
        <4>1. k.job \in Jobs /\ k.job # 0
          BY <2>1 DEF Placed, Jobs
        <4>2. QED
          BY <4>1 DEF Carries, Known
      <3>2. job'[k.job].mode = job[k.job].mode
        BY <3>1 DEF RowsKeep
      <3>3. QED
        BY <2>1, <3>2 DEF MaySubmit
    <2>2. CASE step # "announce"
      BY <2>2 DEF MaySubmit
    <2>3. QED
      BY <2>1, <2>2
  <1>5. QED
    BY <1>3, <1>4

LEMMA SubmitsOwn ==
  ASSUME NEW step, NEW k \in Claim, Placed(step, k), Carries(step, k), MaySubmit(step, k)
  PROVE  k.job \in Jobs
  BY DEF Placed, Carries, MaySubmit

LEMMA NotAskedOn ==
  ASSUME RowsKeep, NEW k \in Claim, k.job \in Jobs, NotAsked(k),
         \A p \in Platforms : remote'[k.job][p].sent = remote[k.job][p].sent
  PROVE  NotAsked(k)'
  BY DEF RowsKeep, NotAsked

(* The rows after a step.                                                  *)
RowsAfter ==
    /\ article' \in {"gone", "draft", "publishing", "published"}
    /\ job' \in [Jobs -> JobRow]
    /\ remote' \in [Jobs -> [Platforms -> [sent : Nat, outcome : {"none", "queued"} \cup Outcomes]]]
    /\ Rows'
    /\ StatusMatches'
    /\ SubmittedOnce'
    /\ RowsKeep

(* A step of one worker: it may change what was submitted of its own job,  *)
(* and become the submitter of a job that was not yet under way.           *)
LEMMA WorkerStep ==
  ASSUME PublishInv, RowsAfter, NEW w \in Workers, NEW step \in Steps, NEW k \in Claim,
         Goto(w, step, k), Placed(step, k), Carries(step, k)',
         \A j \in Jobs : \/ MaySubmit(pc[w], claim[w]) /\ claim[w].job = j
                         \/ \A p \in Platforms : remote'[j][p].sent = remote[j][p].sent,
         MaySubmit(step, k)' => /\ NotAsked(k)'
                                /\ \/ MaySubmit(pc[w], claim[w]) /\ claim[w].job = k.job
                                   \/ job[k.job].status \in {"none", "scheduled"}
  PROVE  PublishInv'
  <1>1. /\ pc' = [pc EXCEPT ![w] = step]
        /\ claim' = [claim EXCEPT ![w] = k]
        /\ pc \in [Workers -> Steps]
        /\ claim \in [Workers -> Claim]
    BY DEF Goto, PublishInv, TypeOK
  <1>2. \A v \in Workers : Placed(pc[v], claim[v])
    BY DEF PublishInv, TypeOK, Placed
  <1>3. TypeOK'
    <2>1. pc' \in [Workers -> Steps] /\ claim' \in [Workers -> Claim]
      BY <1>1
    <2>2. \A v \in Workers : Placed(pc'[v], claim'[v])
      BY <1>1, <1>2
    <2>3. QED
      BY <2>1, <2>2 DEF RowsAfter, TypeOK, Placed
  (* The other workers.                                                    *)
  <1>4. ASSUME NEW v \in Workers, v # w
        PROVE  /\ Carries(pc[v], claim[v])'
               /\ MaySubmit(pc[v], claim[v])' => /\ MaySubmit(pc[v], claim[v])
                                                 /\ NotAsked(claim[v])'
                                                 /\ claim'[v].job = claim[v].job
                                                 /\ job[claim[v].job].status \notin {"none", "scheduled"}
    <2>1. PICK st, c : st = pc[v] /\ c = claim[v]
      OBVIOUS
    <2>2. /\ pc'[v] = st /\ claim'[v] = c
          /\ c \in Claim /\ Placed(st, c) /\ Carries(st, c)
      BY <2>1, <1>1, <1>2, <1>4 DEF PublishInv, Carried
    <2>3. Carries(st, c)' /\ (MaySubmit(st, c)' <=> MaySubmit(st, c))
      BY <2>2, CarriesOn DEF RowsAfter
    <2>4. Carries(pc[v], claim[v])'
      BY <2>2, <2>3 DEF Carries
    <2>5. ASSUME MaySubmit(st, c)
          PROVE  NotAsked(c)' /\ job[c.job].status \notin {"none", "scheduled"}
      <3>1. NotAsked(c) /\ c.job \in Jobs
        BY <2>1, <2>2, <2>5, SubmitsOwn DEF PublishInv, Submitters
      <3>2. ~(MaySubmit(pc[w], claim[w]) /\ claim[w].job = c.job)
        BY <2>1, <2>5, <1>4 DEF PublishInv, OneSubmitter
      <3>3. \A p \in Platforms : remote'[c.job][p].sent = remote[c.job][p].sent
        BY <3>1, <3>2
      <3>4. QED
        BY <3>1, <3>3, <2>2, NotAskedOn DEF RowsAfter, NotAsked
    <2>6. MaySubmit(pc[v], claim[v])' => MaySubmit(st, c)'
      BY <2>2 DEF MaySubmit
    <2>7. NotAsked(c)' => NotAsked(claim[v])'
      BY <2>2 DEF NotAsked
    <2>8. QED
      BY <2>1, <2>2, <2>3, <2>4, <2>5, <2>6, <2>7
  (* Its own new step.                                                     *)
  <1>5. /\ pc'[w] = step /\ claim'[w] = k
        /\ Carries(pc[w], claim[w])'
        /\ MaySubmit(pc[w], claim[w])' => MaySubmit(step, k)' /\ NotAsked(claim[w])'
    <2>1. pc'[w] = step /\ claim'[w] = k
      BY <1>1
    <2>2. QED
      BY <2>1 DEF Carries, MaySubmit, NotAsked
  <1>6. Carried'
    BY <1>4, <1>5 DEF Carried
  <1>7. Submitters'
    BY <1>4, <1>5 DEF Submitters
  <1>8. OneSubmitter'
    <2>1. ASSUME NEW v \in Workers, v # w,
                 MaySubmit(pc[v], claim[v])', MaySubmit(pc[w], claim[w])',
                 claim'[v].job = claim'[w].job
          PROVE  FALSE
      <3>1. /\ MaySubmit(pc[v], claim[v])
            /\ claim[v].job = k.job
            /\ job[claim[v].job].status \notin {"none", "scheduled"}
        BY <2>1, <1>4, <1>5
      <3>2. MaySubmit(pc[w], claim[w]) /\ claim[w].job = k.job
        BY <2>1, <3>1, <1>5
      <3>3. QED
        BY <2>1, <3>1, <3>2 DEF PublishInv, OneSubmitter
    <2>2. ASSUME NEW u \in Workers, NEW v \in Workers, u # w, v # w,
                 MaySubmit(pc[u], claim[u])', MaySubmit(pc[v], claim[v])',
                 claim'[u].job = claim'[v].job
          PROVE  u = v
      BY <2>2, <1>4 DEF PublishInv, OneSubmitter
    <2>3. QED
      BY <2>1, <2>2 DEF OneSubmitter
  <1>9. QED
    BY <1>3, <1>6, <1>7, <1>8 DEF RowsAfter, PublishInv

LEMMA SameRows ==
  ASSUME PublishInv, UNCHANGED <<job, remote>>,
         article' \in {"gone", "draft", "publishing", "published"}
  PROVE  RowsAfter
  BY DEF PublishInv, TypeOK, RowsAfter, RowsKeep, Rows, Row, StatusMatches, SubmittedOnce, Exists

LEMMA MoveStep ==
  ASSUME PublishInv, UNCHANGED <<job, remote>>,
         article' \in {"gone", "draft", "publishing", "published"},
         NEW w \in Workers, NEW step \in Steps, NEW k \in Claim,
         Goto(w, step, k), Placed(step, k), Carries(step, k),
         MaySubmit(step, k) => /\ MaySubmit(pc[w], claim[w])
                               /\ claim[w].job = k.job
                               /\ NotAsked(k)
  PROVE  PublishInv'
  <1>1. RowsAfter
    BY SameRows
  <1>2. Carries(step, k)' /\ (MaySubmit(step, k)' <=> MaySubmit(step, k))
    BY <1>1, CarriesOn DEF RowsAfter
  <1>3. NotAsked(k) => NotAsked(k)'
    BY DEF NotAsked
  <1>4. QED
    BY <1>1, <1>2, <1>3, WorkerStep

(* What a worker carries before its step.                                  *)
LEMMA Carrying ==
  ASSUME PublishInv, NEW w \in Workers
  PROVE  /\ claim[w] \in Claim
         /\ pc[w] \in Steps
         /\ Placed(pc[w], claim[w])
         /\ Carries(pc[w], claim[w])
         /\ MaySubmit(pc[w], claim[w]) => NotAsked(claim[w]) /\ claim[w].job \in Jobs
         /\ article \in {"gone", "draft", "publishing", "published"}
  <1>1. /\ claim[w] \in Claim
        /\ pc[w] \in Steps
        /\ Placed(pc[w], claim[w])
        /\ Carries(pc[w], claim[w])
        /\ MaySubmit(pc[w], claim[w]) => NotAsked(claim[w])
        /\ article \in {"gone", "draft", "publishing", "published"}
    BY DEF PublishInv, TypeOK, Placed, Carried, Submitters
  <1>2. PICK st, c : st = pc[w] /\ c = claim[w]
    OBVIOUS
  <1>3. MaySubmit(st, c) => c.job \in Jobs
    BY <1>1, <1>2, SubmitsOwn
  <1>4. QED
    BY <1>1, <1>2, <1>3

(* A claim with nothing in it.                                             *)
LEMMA NoClaimCarries ==
  /\ \A step \in {"idle", "publish", "deletearticle"} :
        Placed(step, NoClaim) /\ Carries(step, NoClaim) /\ ~MaySubmit(step, NoClaim)
  /\ \A step \in {"idle", "publish", "deletearticle"}, role \in {"now", "delete"} :
        \E k \in Claim : /\ k = [NoClaim EXCEPT !.role = role]
                         /\ k.targets = NoTargets /\ k.job = 0 /\ k.sync = 0
                         /\ Placed(step, k) /\ Carries(step, k) /\ ~MaySubmit(step, k)
  <1>1. \A p \in Platforms : NoPlan[p] = None
    BY DEF NoPlan
  <1>2. NoClaim.targets = NoTargets
    BY DEF NoClaim
  <1>3. \A step \in {"idle", "publish", "deletearticle"} :
           Placed(step, NoClaim) /\ Carries(step, NoClaim) /\ ~MaySubmit(step, NoClaim)
    BY <1>1, <1>2, NoClaimTyped DEF Placed, Carries, MaySubmit
  <1>4. ASSUME NEW step \in {"idle", "publish", "deletearticle"}, NEW role \in {"now", "delete"}
        PROVE  \E k \in Claim : /\ k = [NoClaim EXCEPT !.role = role]
                                /\ k.targets = NoTargets /\ k.job = 0 /\ k.sync = 0
                                /\ Placed(step, k) /\ Carries(step, k) /\ ~MaySubmit(step, k)
    <2>1. PICK k : k = [NoClaim EXCEPT !.role = role]
      OBVIOUS
    <2>2. k = [role |-> role, job |-> 0, targets |-> NoTargets, to |-> NoPlan, sync |-> 0,
               synced |-> NoTargets]
      BY <2>1 DEF NoClaim
    <2>3. k \in Claim
      <3>1. NoPlan \in [Platforms -> Executors \cup {None}]
        BY DEF NoPlan
      <3>2. QED
        BY <3>1, <2>2, NoClaimTyped DEF Claim
    <2>4. Placed(step, k) /\ Carries(step, k) /\ ~MaySubmit(step, k)
      BY <2>2, <1>1 DEF Placed, Carries, MaySubmit
    <2>5. QED
      BY <2>1, <2>2, <2>3, <2>4
  <1>5. QED
    BY <1>3, <1>4

LEMMA AnswerStep ==
  ASSUME PublishInv, NEW w \in Workers, Answer(w), UNCHANGED <<job, remote>>,
         article' \in {"gone", "draft", "publishing", "published"}
  PROVE  PublishInv'
  BY NoClaimCarries, NoClaimTyped, MoveStep DEF Answer, Steps

(***************************************************************************)
(* publish, and the reads of the dispatch.                                 *)
(***************************************************************************)
LEMMA PublishStep ==
  ASSUME PublishInv, NEW w \in Workers, Publish(w)
  PROVE  PublishInv'
  <1>1. PICK k \in Claim : /\ k = [NoClaim EXCEPT !.role = "now"]
                           /\ Placed("publish", k) /\ Carries("publish", k)
                           /\ ~MaySubmit("publish", k)
    BY NoClaimCarries
  <1>2. Goto(w, "publish", k)
    BY <1>1 DEF Publish
  <1>3. QED
    BY <1>1, <1>2, Carrying, MoveStep DEF Publish, Steps

LEMMA PublishAnnounceStep ==
  ASSUME PublishInv, NEW w \in Workers, PublishAnnounce(w)
  PROVE  PublishInv'
  <1>1. article' \in {"gone", "draft", "publishing", "published"}
    BY StatusTyped DEF PublishAnnounce
  <1>2. CASE Answer(w)
    BY <1>1, <1>2, AnswerStep DEF PublishAnnounce
  <1>3. CASE Move(w, "dispatch") /\ job[claim[w].job].mode = "publish"
    <2>1. PICK k : k = claim[w]
      OBVIOUS
    <2>2. /\ k \in Claim /\ Placed("announce", k) /\ Carries("announce", k)
          /\ MaySubmit("announce", k) /\ NotAsked(k)
      BY <2>1, <1>3, Carrying DEF PublishAnnounce, MaySubmit
    <2>3. Placed("dispatch", k) /\ Carries("dispatch", k)
      BY <2>2 DEF Placed, Carries
    <2>4. QED
      BY <2>1, <2>2, <2>3, <1>1, <1>3, MoveStep DEF PublishAnnounce, Move, Steps
  <1>4. QED
    BY <1>2, <1>3 DEF PublishAnnounce

(***************************************************************************)
(* A claim with some of its fields replaced.                               *)
(***************************************************************************)
LEMMA WithJob ==
  ASSUME NEW c \in Claim, NEW j \in Jobs
  PROVE  \E k \in Claim : /\ k = [c EXCEPT !.job = j]
                          /\ k.job = j /\ k.role = c.role /\ k.targets = c.targets /\ k.to = c.to
                          /\ k.sync = c.sync /\ k.synced = c.synced
  <1>1. PICK k : k = [c EXCEPT !.job = j]
    OBVIOUS
  <1>2. k = [role |-> c.role, job |-> j, targets |-> c.targets, to |-> c.to, sync |-> c.sync,
             synced |-> c.synced]
    BY <1>1 DEF Claim
  <1>3. QED
    BY <1>1, <1>2, ClaimTypes DEF Claim

LEMMA WithTargets ==
  ASSUME NEW c \in Claim, NEW targets \in Targets
  PROVE  \E k \in Claim : /\ k = [c EXCEPT !.targets = targets]
                          /\ k.job = c.job /\ k.role = c.role /\ k.targets = targets /\ k.to = c.to
                          /\ k.sync = c.sync /\ k.synced = c.synced
  <1>1. PICK k : k = [c EXCEPT !.targets = targets]
    OBVIOUS
  <1>2. k = [role |-> c.role, job |-> c.job, targets |-> targets, to |-> c.to, sync |-> c.sync,
             synced |-> c.synced]
    BY <1>1 DEF Claim
  <1>3. QED
    BY <1>1, <1>2, ClaimTypes DEF Claim

LEMMA ClaimOf ==
  ASSUME NEW c \in Claim, NEW targets \in Targets, NEW to \in [Platforms -> Executors \cup {None}],
         NEW j \in Jobs \cup {0}, NEW synced \in Targets
  PROVE  [role |-> c.role, job |-> c.job, targets |-> targets, to |-> to, sync |-> j,
          synced |-> synced] \in Claim
  BY ClaimTypes DEF Claim

(* The row a handler reads.                                                *)
LEMMA RowRead ==
  ASSUME PublishInv, NEW j \in Jobs, job[j].status # "none"
  PROVE  job[j].targets \in Targets /\ Known(j, job[j].targets)
  <1>1. job[j] \in JobRow /\ Row(j)
    BY DEF PublishInv, TypeOK, Rows
  <1>2. QED
    BY <1>1 DEF JobRow, Row, Known

LEMMA ZeroIsNoJob == 0 \notin Jobs
  BY DEF Jobs

LEMMA DispatchReadStep ==
  ASSUME PublishInv, NEW w \in Workers, DispatchRead(w)
  PROVE  PublishInv'
  <1>1. article' \in {"gone", "draft", "publishing", "published"} /\ UNCHANGED <<job, remote>>
    BY Carrying DEF DispatchRead
  <1>2. CASE Answer(w)
    BY <1>1, <1>2, AnswerStep
  <1>3. CASE ~Answer(w)
    <2>1. PICK c, j : c = claim[w] /\ j = claim[w].job
      OBVIOUS
    <2>2. /\ c \in Claim /\ Placed("dispatch", c) /\ Carries("dispatch", c)
          /\ MaySubmit("dispatch", c) /\ NotAsked(c)
          /\ j \in Jobs /\ c.job = j
      BY <2>1, Carrying DEF DispatchRead, MaySubmit
    <2>3. job[j].status = "running"
      BY <2>1, <1>3 DEF DispatchRead
    <2>4. job[j].targets \in Targets /\ Known(j, job[j].targets)
      BY <2>2, <2>3, RowRead
    <2>5. PICK targets : targets = job[j].targets
      OBVIOUS
    <2>6. PICK k \in Claim : /\ k = [c EXCEPT !.targets = targets]
                             /\ k.job = c.job /\ k.role = c.role /\ k.targets = targets
                             /\ k.to = c.to /\ k.sync = c.sync /\ k.synced = c.synced
      BY <2>2, <2>4, <2>5, WithTargets
    <2>7. \A p \in Platforms : NoPlan[p] = None
      BY DEF NoPlan
    <2>8. Placed("submit", k) /\ Carries("submit", k) /\ NotAsked(k)
      BY <2>2, <2>4, <2>5, <2>6, <2>7 DEF Placed, Carries, NotAsked
    <2>9. Goto(w, "submit", k)
      BY <2>1, <2>3, <2>5, <2>6 DEF DispatchRead
    <2>10. MaySubmit(pc[w], claim[w]) /\ claim[w].job = k.job
      BY <2>1, <2>2, <2>6 DEF DispatchRead
    <2>11. QED
      BY <1>1, <2>8, <2>9, <2>10, MoveStep DEF Steps
  <1>4. QED
    BY <1>2, <1>3

(***************************************************************************)
(* The minute job's reads.                                                 *)
(***************************************************************************)
LEMMA DueReadStep ==
  ASSUME PublishInv, NEW w \in Workers, DueRead(w)
  PROVE  PublishInv'
  <1>1. PICK j \in Jobs : /\ job[j].status = "scheduled"
                          /\ Goto(w, "claim", [NoClaim EXCEPT !.role = "due", !.job = j,
                                                              !.targets = job[j].targets])
    BY DEF DueRead
  <1>2. PICK targets : targets = job[j].targets
    OBVIOUS
  <1>3. targets \in Targets /\ Known(j, targets)
    BY <1>1, <1>2, RowRead
  <1>4. PICK k : k = [NoClaim EXCEPT !.role = "due", !.job = j, !.targets = targets]
    OBVIOUS
  <1>5. k = [role |-> "due", job |-> j, targets |-> targets, to |-> NoPlan, sync |-> 0,
             synced |-> NoTargets]
    BY <1>4 DEF NoClaim
  <1>6. k \in Claim
    <2>1. NoPlan \in [Platforms -> Executors \cup {None}]
      BY DEF NoPlan
    <2>2. QED
      BY <2>1, <1>3, <1>5, NoClaimTyped DEF Claim
  <1>7. \A p \in Platforms : NoPlan[p] = None
    BY DEF NoPlan
  <1>8. Placed("claim", k) /\ Carries("claim", k) /\ ~MaySubmit("claim", k)
    BY <1>3, <1>5, <1>7 DEF Placed, Carries, MaySubmit
  <1>9. Goto(w, "claim", k)
    BY <1>1, <1>2, <1>4
  <1>10. QED
    BY <1>6, <1>8, <1>9, Carrying, MoveStep DEF DueRead, Steps

(* A worker goes on with what it carries.                                  *)
LEMMA MoveOn ==
  ASSUME PublishInv, UNCHANGED <<job, remote>>,
         article' \in {"gone", "draft", "publishing", "published"},
         NEW w \in Workers, NEW step \in Steps \ {"publish"}, Move(w, step),
         pc[w] # "submit", Placed(step, claim[w]),
         MaySubmit(step, claim[w]) => MaySubmit(pc[w], claim[w])
  PROVE  PublishInv'
  <1>1. PICK k, st : k = claim[w] /\ st = pc[w]
    OBVIOUS
  <1>2. /\ k \in Claim /\ Carries(st, k) /\ Placed(step, k)
        /\ MaySubmit(step, k) => MaySubmit(st, k) /\ NotAsked(k)
    BY <1>1, Carrying
  <1>3. Carries(step, k)
    BY <1>1, <1>2 DEF Carries
  <1>4. QED
    BY <1>1, <1>2, <1>3, MoveStep DEF Move

LEMMA DueLatestStep ==
  ASSUME PublishInv, NEW w \in Workers, DueLatest(w)
  PROVE  PublishInv'
  <1>1. PICK c : c = claim[w]
    OBVIOUS
  <1>2. /\ c \in Claim /\ Placed("latest", c) /\ Carries("latest", c)
        /\ MaySubmit("latest", c) /\ NotAsked(c)
        /\ article' \in {"gone", "draft", "publishing", "published"}
        /\ UNCHANGED <<job, remote>>
    BY <1>1, Carrying DEF DueLatest, MaySubmit
  <1>3. CASE Move(w, "load")
    <2>1. Placed("load", c)
      BY <1>2 DEF Placed
    <2>2. QED
      BY <2>1, <1>1, <1>2, <1>3, MoveOn DEF DueLatest, Steps
  <1>4. ASSUME NEW j \in Jobs, job[j].status = "running",
               Goto(w, "sync", [claim[w] EXCEPT !.sync = j, !.synced = job[j].targets])
        PROVE  PublishInv'
    <2>1. PICK targets : targets = job[j].targets
      OBVIOUS
    <2>2. targets \in Targets /\ Known(j, targets)
      BY <2>1, <1>4, RowRead
    <2>3. PICK k : k = [c EXCEPT !.sync = j, !.synced = targets]
      OBVIOUS
    <2>4. k = [role |-> c.role, job |-> c.job, targets |-> c.targets, to |-> c.to, sync |-> j,
               synced |-> targets]
      BY <1>2, <2>3 DEF Claim
    <2>5. k \in Claim
      BY <1>2, <2>2, <2>4, ClaimTypes, ClaimOf
    <2>6. Placed("sync", k) /\ Carries("sync", k) /\ NotAsked(k)
      BY <1>2, <2>2, <2>4 DEF Placed, Carries, NotAsked
    <2>7. Goto(w, "sync", k)
      BY <1>1, <1>4, <2>1, <2>3
    <2>8. MaySubmit(pc[w], claim[w]) /\ claim[w].job = k.job
      BY <1>1, <1>2, <2>4 DEF DueLatest
    <2>9. QED
      BY <1>2, <2>5, <2>6, <2>7, <2>8, MoveStep DEF Steps
  <1>5. QED
    BY <1>3, <1>4 DEF DueLatest

LEMMA DueLoadStep ==
  ASSUME PublishInv, NEW w \in Workers, DueLoad(w)
  PROVE  PublishInv'
  <1>1. PICK step : /\ step = IF article = "gone" THEN "fail" ELSE "submit"
                    /\ Move(w, step)
    BY DEF DueLoad
  <1>2. step \in Steps \ {"publish"} /\ step \in {"fail", "submit"}
    BY <1>1 DEF Steps
  <1>3. Placed(step, claim[w])
    BY <1>2, Carrying DEF DueLoad, Placed
  <1>4. QED
    BY <1>1, <1>2, <1>3, Carrying, MoveOn DEF DueLoad, MaySubmit

(***************************************************************************)
(* publishViaAlqq.                                                         *)
(***************************************************************************)
LEMMA TargetOf ==
  ASSUME NEW status \in {"queued"} \cup Outcomes, NEW batch \in BOOLEAN
  PROVE  /\ [status |-> status, batch |-> batch] \in Target
         /\ [status |-> status, batch |-> batch].status = status
  BY DEF Target

LEMMA TargetParts ==
  ASSUME NEW targets \in Targets, NEW p \in Platforms
  PROVE  /\ targets[p] \in Target
         /\ targets[p].status \in {"queued"} \cup Outcomes
         /\ targets[p].batch \in BOOLEAN
  <1>1. targets[p] \in Target
    BY DEF Targets
  <1>2. QED
    BY <1>1 DEF Target

LEMMA SubmitPlanStep ==
  ASSUME PublishInv, NEW w \in Workers, SubmitPlan(w)
  PROVE  PublishInv'
  <1>1. PICK c : c = claim[w]
    OBVIOUS
  <1>2. /\ c \in Claim /\ Placed("submit", c) /\ Carries("submit", c)
        /\ MaySubmit("submit", c) /\ NotAsked(c) /\ c.job \in Jobs
        /\ c.targets \in Targets
        /\ article' \in {"gone", "draft", "publishing", "published"}
        /\ UNCHANGED <<job, remote>>
    BY <1>1, Carrying, ClaimTypes DEF SubmitPlan, MaySubmit
  <1>3. PICK to \in [Platforms -> Executors \cup {None}] :
           /\ \A p \in Platforms : to[p] # None => c.targets[p].status # "skipped"
           /\ Goto(w, IF to = NoPlan THEN "write" ELSE "submit",
                   [c EXCEPT !.to = to,
                       !.targets = [p \in Platforms |->
                           IF c.targets[p].status = "skipped" THEN c.targets[p]
                           ELSE [status |-> IF to[p] = None THEN "failed" ELSE "queued",
                                 batch  |-> c.targets[p].batch]]])
    BY <1>1 DEF SubmitPlan
  <1>4. PICK step, targets :
           /\ step = IF to = NoPlan THEN "write" ELSE "submit"
           /\ targets = [p \in Platforms |->
                           IF c.targets[p].status = "skipped" THEN c.targets[p]
                           ELSE [status |-> IF to[p] = None THEN "failed" ELSE "queued",
                                 batch  |-> c.targets[p].batch]]
           /\ Goto(w, step, [c EXCEPT !.to = to, !.targets = targets])
    BY <1>3
  <1>5. ASSUME NEW p \in Platforms
        PROVE  /\ targets[p] \in Target
               /\ targets[p].status # "success" \/ targets[p] = c.targets[p]
               /\ targets[p].status = "skipped" <=> c.targets[p].status = "skipped"
    <2>1. CASE c.targets[p].status = "skipped"
      BY <2>1, <1>2, <1>3, <1>4, TargetParts
    <2>2. CASE c.targets[p].status # "skipped"
      <3>1. PICK st \in {"failed", "queued"} : st = IF to[p] = None THEN "failed" ELSE "queued"
        OBVIOUS
      <3>2. targets[p] = [status |-> st, batch |-> c.targets[p].batch]
        BY <2>2, <3>1, <1>4
      <3>3. PICK batch \in BOOLEAN : batch = c.targets[p].batch
        BY <1>2, TargetParts
      <3>4. targets[p] \in Target /\ targets[p].status = st
        BY <3>1, <3>2, <3>3, TargetOf DEF Outcomes
      <3>5. QED
        BY <2>2, <3>1, <3>4
    <2>3. QED
      BY <2>1, <2>2
  <1>6. targets \in Targets
    BY <1>3, <1>4, <1>5 DEF Targets
  <1>7. PICK k : k = [c EXCEPT !.to = to, !.targets = targets]
    OBVIOUS
  <1>8. k = [role |-> c.role, job |-> c.job, targets |-> targets, to |-> to, sync |-> c.sync,
             synced |-> c.synced]
    BY <1>2, <1>7 DEF Claim
  <1>9. k \in Claim
    BY <1>2, <1>6, <1>8, ClaimTypes, ClaimOf
  <1>10. \A p \in Platforms : c.to[p] = None
    <2>1. ~\E p \in Platforms : claim[w].to[p] # None
      BY DEF SubmitPlan, Planned
    <2>2. QED
      BY <2>1, <1>1
  <1>11. NotAsked(k)
    <2>1. c.to = NoPlan
      BY <1>2, <1>10, ClaimTypes DEF NoPlan
    <2>2. QED
      BY <2>1, <1>2, <1>8 DEF NotAsked
  <1>12. Known(c.job, targets)
    <2>1. Known(c.job, c.targets)
      BY <1>2, ZeroIsNoJob DEF Carries
    <2>2. QED
      BY <2>1, <1>5 DEF Known
  <1>13. Placed(step, k) /\ Carries(step, k)
    BY <1>2, <1>3, <1>4, <1>5, <1>8, <1>12 DEF Placed, Carries
  <1>14. step \in Steps
    BY <1>4 DEF Steps
  <1>15. MaySubmit(pc[w], claim[w]) /\ claim[w].job = k.job
    BY <1>1, <1>2, <1>8 DEF SubmitPlan
  <1>16. Goto(w, step, k)
    BY <1>3, <1>4, <1>7
  <1>17. QED
    BY <1>2, <1>9, <1>11, <1>13, <1>14, <1>15, <1>16, MoveStep

(* ALQQ takes a batch of platforms none of which was asked before.         *)
LEMMA AcceptedRows ==
  ASSUME PublishInv, NEW j \in Jobs, NEW group \in SUBSET Platforms,
         job[j].status \notin {"none", "scheduled"},
         \A p \in group : p \in job[j].bound /\ remote[j][p].sent = 0,
         Accepted(j, group), UNCHANGED <<article, job>>
  PROVE  /\ RowsAfter
         /\ \A i \in Jobs : i # j => remote'[i] = remote[i]
         /\ \A p \in Platforms \ group : remote'[j][p] = remote[j][p]
  <1>1. remote \in [Jobs -> [Platforms -> [sent : Nat, outcome : {"none", "queued"} \cup Outcomes]]]
    BY DEF PublishInv, TypeOK
  <1>2. /\ \A i \in Jobs : i # j => remote'[i] = remote[i]
        /\ \A p \in Platforms \ group : remote'[j][p] = remote[j][p]
        /\ \A p \in group : remote'[j][p] = [sent |-> remote[j][p].sent + 1, outcome |-> "queued"]
    BY <1>1 DEF Accepted
  <1>3. \A p \in group : /\ remote[j][p].sent = 0 /\ remote[j][p].outcome = "none"
                         /\ remote'[j][p].sent = 1 /\ remote'[j][p].outcome = "queued"
    <2> SUFFICES ASSUME NEW p \in group
                 PROVE  /\ remote[j][p].sent = 0 /\ remote[j][p].outcome = "none"
                        /\ remote'[j][p].sent = 1 /\ remote'[j][p].outcome = "queued"
      OBVIOUS
    <2>1. Row(j)
      BY DEF PublishInv, Rows
    <2>2. remote[j][p].sent = 0 /\ remote[j][p].outcome = "none"
      BY <2>1 DEF Row
    <2>3. remote'[j][p] = [sent |-> 1, outcome |-> "queued"]
      BY <1>2, <2>2
    <2>4. QED
      BY <2>2, <2>3
  <1>4. remote' \in [Jobs -> [Platforms -> [sent : Nat, outcome : {"none", "queued"} \cup Outcomes]]]
    <2>1. ASSUME NEW p \in Platforms
          PROVE  (IF p \in group THEN [sent |-> remote[j][p].sent + 1, outcome |-> "queued"]
                  ELSE remote[j][p]) \in [sent : Nat, outcome : {"none", "queued"} \cup Outcomes]
      <3>1. remote[j][p] \in [sent : Nat, outcome : {"none", "queued"} \cup Outcomes]
        BY <1>1
      <3>2. QED
        BY <3>1
    <2>2. QED
      BY <2>1, <1>1 DEF Accepted
  <1>5. Rows'
    <2> SUFFICES ASSUME NEW i \in Jobs PROVE Row(i)'
      BY DEF Rows
    <2>1. Row(i)
      BY DEF PublishInv, Rows
    <2>2. CASE i # j
      BY <2>1, <2>2, <1>2 DEF Row
    <2>3. CASE i = j
      BY <2>1, <2>3, <1>2, <1>3 DEF Row
    <2>4. QED
      BY <2>2, <2>3
  <1>6. SubmittedOnce'
    <2> SUFFICES ASSUME NEW i \in Jobs, NEW p \in Platforms PROVE remote'[i][p].sent <= 1
      BY DEF SubmittedOnce
    <2>1. remote[i][p].sent <= 1
      BY DEF PublishInv, SubmittedOnce
    <2>2. QED
      BY <2>1, <1>2, <1>3
  <1>7. RowsKeep
    <2> SUFFICES ASSUME NEW i \in Jobs, NEW p \in Platforms, remote[i][p].outcome = "success"
                 PROVE  remote'[i][p].outcome = "success"
      BY DEF RowsKeep
    <2>1. QED
      BY <1>2, <1>3
  <1>8. StatusMatches'
    BY DEF PublishInv, StatusMatches, Exists
  <1>9. QED
    BY <1>2, <1>4, <1>5, <1>6, <1>7, <1>8 DEF RowsAfter, PublishInv, TypeOK

(* The platforms of a batch have accounts and were not asked before.       *)
LEMMA GroupFresh ==
  ASSUME PublishInv, NEW w \in Workers, pc[w] = "submit", NEW e \in Executors,
         Accepted(claim[w].job, Group(w, e)), UNCHANGED <<article, job>>
  PROVE  /\ RowsAfter
         /\ \A j \in Jobs \ {claim[w].job} : remote'[j] = remote[j]
         /\ \A p \in Platforms \ Group(w, e) : remote'[claim[w].job][p] = remote[claim[w].job][p]
  <1>1. PICK c, j, group : c = claim[w] /\ j = claim[w].job /\ group = Group(w, e)
    OBVIOUS
  <1>2. /\ c \in Claim /\ Carries("submit", c) /\ NotAsked(c) /\ j \in Jobs /\ c.job = j
    BY <1>1, Carrying DEF MaySubmit
  <1>3. group \in SUBSET Platforms /\ \A p \in group : c.to[p] = e /\ e # None
    BY <1>1, PublishAssumption DEF Group
  <1>4. Known(j, c.targets)
    BY <1>2, ZeroIsNoJob DEF Carries
  <1>5. \A p \in group : p \in job[j].bound /\ remote[j][p].sent = 0
    BY <1>2, <1>3, <1>4 DEF Carries, Known, NotAsked
  <1>6. job[j].status \notin {"none", "scheduled"}
    BY <1>2 DEF NotAsked
  <1>7. Accepted(j, group)
    BY <1>1
  <1>8. QED
    BY <1>1, <1>2, <1>3, <1>5, <1>6, <1>7, AcceptedRows

LEMMA SubmitFailStep ==
  ASSUME PublishInv, NEW w \in Workers, SubmitFail(w)
  PROVE  PublishInv'
  <1>1. PICK c : c = claim[w]
    OBVIOUS
  <1>2. /\ c \in Claim /\ Placed("submit", c) /\ Carries("submit", c) /\ c.job \in Jobs
        /\ MaySubmit(pc[w], claim[w])
        /\ c.targets \in Targets
        /\ article \in {"gone", "draft", "publishing", "published"}
        /\ UNCHANGED <<article, job>>
    BY <1>1, Carrying, ClaimTypes DEF SubmitFail, MaySubmit
  <1>3. PICK targets : targets = [p \in Platforms |->
                  IF c.targets[p].status = "skipped" THEN c.targets[p]
                  ELSE [status |-> "failed", batch |-> c.targets[p].batch]]
    OBVIOUS
  <1>4. ASSUME NEW p \in Platforms
        PROVE  /\ targets[p] \in Target
               /\ targets[p].status # "success" \/ targets[p] = c.targets[p]
               /\ c.targets[p].status = "skipped" => targets[p].status = "skipped"
    <2>1. CASE c.targets[p].status = "skipped"
      BY <2>1, <1>2, <1>3, TargetParts
    <2>2. CASE c.targets[p].status # "skipped"
      <3>1. PICK batch \in BOOLEAN : batch = c.targets[p].batch
        BY <1>2, TargetParts
      <3>2. targets[p] = [status |-> "failed", batch |-> batch]
        BY <2>2, <3>1, <1>3
      <3>3. targets[p] \in Target /\ targets[p].status = "failed"
        BY <3>2, TargetOf DEF Outcomes
      <3>4. QED
        BY <2>2, <3>3
    <2>3. QED
      BY <2>1, <2>2
  <1>5. targets \in Targets
    BY <1>3, <1>4 DEF Targets
  <1>6. PICK k : k = [c EXCEPT !.to = NoPlan, !.targets = targets]
    OBVIOUS
  <1>7. k = [role |-> c.role, job |-> c.job, targets |-> targets, to |-> NoPlan, sync |-> c.sync,
             synced |-> c.synced]
    BY <1>2, <1>6 DEF Claim
  <1>8. NoPlan \in [Platforms -> Executors \cup {None}] /\ \A p \in Platforms : NoPlan[p] = None
    BY DEF NoPlan
  <1>9. k \in Claim
    BY <1>2, <1>5, <1>7, <1>8, ClaimTypes, ClaimOf
  <1>10. Known(c.job, targets)
    <2>1. Known(c.job, c.targets)
      BY <1>2, ZeroIsNoJob DEF Carries
    <2>2. QED
      BY <2>1, <1>4 DEF Known
  <1>11. Placed("write", k) /\ Carries("write", k) /\ ~MaySubmit("write", k)
    BY <1>2, <1>7, <1>8, <1>10 DEF Placed, Carries, MaySubmit
  <1>12. Goto(w, "write", k)
    BY <1>1, <1>3, <1>6 DEF SubmitFail
  <1>13. CASE UNCHANGED remote
    BY <1>2, <1>9, <1>11, <1>12, <1>13, MoveStep DEF Steps
  <1>14. ASSUME NEW e \in Executors, Accepted(c.job, Group(w, e))
         PROVE  PublishInv'
    <2>1. RowsAfter /\ \A j \in Jobs \ {claim[w].job} : remote'[j] = remote[j]
      BY <1>1, <1>2, <1>14, GroupFresh DEF SubmitFail
    <2>2. Carries("write", k)' /\ ~MaySubmit("write", k)'
      BY <2>1, <1>9, <1>11, CarriesOn DEF RowsAfter
    <2>3. QED
      BY <2>1, <2>2, <1>2, <1>9, <1>11, <1>12, WorkerStep DEF Steps
  <1>15. QED
    BY <1>1, <1>13, <1>14 DEF SubmitFail

LEMMA SubmitBatchStep ==
  ASSUME PublishInv, NEW w \in Workers, NEW e \in Executors, SubmitBatch(w, e)
  PROVE  PublishInv'
  <1>1. PICK c, group : c = claim[w] /\ group = Group(w, e)
    OBVIOUS
  <1>2. /\ c \in Claim /\ Placed("submit", c) /\ Carries("submit", c) /\ c.job \in Jobs
        /\ MaySubmit(pc[w], claim[w]) /\ NotAsked(c)
        /\ c.targets \in Targets /\ c.to \in [Platforms -> Executors \cup {None}]
    BY <1>1, Carrying, ClaimTypes DEF SubmitBatch, MaySubmit
  <1>3. /\ RowsAfter
        /\ \A j \in Jobs \ {claim[w].job} : remote'[j] = remote[j]
        /\ \A p \in Platforms \ group : remote'[c.job][p] = remote[c.job][p]
    BY <1>1, GroupFresh DEF SubmitBatch
  <1>4. group \in SUBSET Platforms /\ \A p \in group : c.to[p] # None
    BY <1>1, PublishAssumption DEF Group
  <1>5. PICK rest : rest = [p \in Platforms |-> IF p \in group THEN None ELSE c.to[p]]
    OBVIOUS
  <1>6. /\ rest \in [Platforms -> Executors \cup {None}]
        /\ \A p \in Platforms : rest[p] # None => p \notin group /\ rest[p] = c.to[p]
    BY <1>2, <1>5
  <1>7. PICK targets : targets = [p \in Platforms |->
                            IF p \in group THEN [status |-> "queued", batch |-> TRUE]
                            ELSE c.targets[p]]
    OBVIOUS
  <1>8. ASSUME NEW p \in Platforms
        PROVE  /\ targets[p] \in Target
               /\ targets[p].status = "queued" \/ targets[p] = c.targets[p]
               /\ targets[p].status = "skipped" <=> c.targets[p].status = "skipped"
    <2>1. CASE p \in group
      <3>1. targets[p] \in Target /\ targets[p].status = "queued"
        BY <2>1, <1>7, TargetOf
      <3>2. c.targets[p].status # "skipped"
        BY <2>1, <1>2, <1>4 DEF Carries
      <3>3. QED
        BY <3>1, <3>2
    <2>2. CASE p \notin group
      BY <2>2, <1>2, <1>7, TargetParts
    <2>3. QED
      BY <2>1, <2>2
  <1>9. targets \in Targets
    BY <1>7, <1>8 DEF Targets
  <1>10. PICK k : k = [c EXCEPT !.to = rest, !.targets = targets]
    OBVIOUS
  <1>11. k = [role |-> c.role, job |-> c.job, targets |-> targets, to |-> rest, sync |-> c.sync,
              synced |-> c.synced]
    BY <1>2, <1>10 DEF Claim
  <1>12. k \in Claim
    BY <1>2, <1>6, <1>9, <1>11, ClaimTypes, ClaimOf
  <1>13. PICK step : step = IF rest = NoPlan THEN "write" ELSE "submit"
    OBVIOUS
  <1>14. step \in Steps /\ Goto(w, step, k)
    BY <1>1, <1>5, <1>7, <1>10, <1>13 DEF SubmitBatch, Steps
  <1>15. Placed(step, k) /\ Carries(step, k)
    <2>1. Known(c.job, c.targets)
      BY <1>2, ZeroIsNoJob DEF Carries
    <2>2. Known(c.job, targets)
      BY <2>1, <1>8 DEF Known
    <2>3. QED
      BY <2>2, <1>2, <1>6, <1>8, <1>11, <1>13 DEF Placed, Carries
  <1>16. Carries(step, k)' /\ (MaySubmit(step, k)' <=> MaySubmit(step, k))
    BY <1>3, <1>12, <1>15, CarriesOn DEF RowsAfter
  <1>17. MaySubmit(step, k)' => NotAsked(k)'
    <2>1. MaySubmit(step, k)' => rest # NoPlan
      BY <1>13 DEF MaySubmit
    <2>2. rest # NoPlan => NotAsked(k)'
      <3>1. UNCHANGED job /\ job[c.job].status \notin {"none", "scheduled"}
        BY <1>2 DEF SubmitBatch, NotAsked
      <3>2. \A p \in Platforms : rest[p] # None => remote'[c.job][p].sent = 0
        BY <1>2, <1>3, <1>6 DEF NotAsked
      <3>3. QED
        BY <3>1, <3>2, <1>11 DEF NotAsked
    <2>3. QED
      BY <2>1, <2>2
  <1>18. claim[w].job = k.job
    BY <1>1, <1>11
  <1>19. QED
    BY <1>2, <1>3, <1>12, <1>14, <1>15, <1>16, <1>17, <1>18, WorkerStep

LEMMA ArticleStep ==
  ASSUME PublishInv, NEW w \in Workers, SubmitArticle(w) \/ FailArticle(w) \/ DeleteArticle(w)
  PROVE  PublishInv'
  BY StatusTyped, AnswerStep DEF SubmitArticle, FailArticle, DeleteArticle

(***************************************************************************)
(* The refresh.                                                            *)
(***************************************************************************)
LEMMA SyncReadStep ==
  ASSUME PublishInv, NEW w \in Workers, SyncRead(w)
  PROVE  PublishInv'
  <1>1. PICK j \in Jobs : /\ Exists(j)
                          /\ Goto(w, "sync", [NoClaim EXCEPT !.role = "refresh", !.sync = j,
                                                             !.synced = job[j].targets])
    BY DEF SyncRead
  <1>2. PICK targets : targets = job[j].targets
    OBVIOUS
  <1>3. targets \in Targets /\ Known(j, targets)
    BY <1>1, <1>2, RowRead DEF Exists
  <1>4. PICK k : k = [NoClaim EXCEPT !.role = "refresh", !.sync = j, !.synced = targets]
    OBVIOUS
  <1>5. k = [role |-> "refresh", job |-> 0, targets |-> NoTargets, to |-> NoPlan, sync |-> j,
             synced |-> targets]
    BY <1>4 DEF NoClaim
  <1>6. NoPlan \in [Platforms -> Executors \cup {None}] /\ \A p \in Platforms : NoPlan[p] = None
    BY DEF NoPlan
  <1>7. k \in Claim
    BY <1>3, <1>5, <1>6, NoClaimTyped DEF Claim
  <1>8. Placed("sync", k) /\ Carries("sync", k) /\ ~MaySubmit("sync", k)
    BY <1>3, <1>5, <1>6 DEF Placed, Carries, MaySubmit
  <1>9. Goto(w, "sync", k)
    BY <1>1, <1>2, <1>4
  <1>10. QED
    BY <1>7, <1>8, <1>9, Carrying, MoveStep DEF SyncRead, Steps

LEMMA SyncFetchStep ==
  ASSUME PublishInv, NEW w \in Workers, SyncFetch(w)
  PROVE  PublishInv'
  <1>1. PICK c, j : c = claim[w] /\ j = claim[w].sync
    OBVIOUS
  <1>2. /\ c \in Claim /\ Placed("sync", c) /\ Carries("sync", c) /\ c.sync = j
        /\ pc[w] = "sync"
        /\ MaySubmit("sync", c) => NotAsked(c) /\ c.job \in Jobs
        /\ c.synced \in Targets
        /\ article' \in {"gone", "draft", "publishing", "published"}
        /\ UNCHANGED <<job, remote>>
    BY <1>1, Carrying, ClaimTypes DEF SyncFetch
  <1>3. j \in Jobs /\ Known(j, c.synced)
    BY <1>2, ZeroIsNoJob DEF Placed, Carries
  <1>4. PICK targets : targets = [p \in Platforms |->
              IF c.synced[p].status = "skipped" \/ ~c.synced[p].batch THEN c.synced[p]
              ELSE [status |-> RemoteStatus(j, p), batch |-> TRUE]]
    OBVIOUS
  <1>5. ASSUME NEW p \in Platforms
        PROVE  /\ targets[p] \in Target
               /\ targets[p].status = "success" => remote[j][p].outcome = "success"
               /\ p \notin job[j].bound => targets[p].status = "skipped"
    <2>1. CASE targets[p] = c.synced[p]
      BY <2>1, <1>2, <1>3, TargetParts DEF Known
    <2>2. CASE targets[p] # c.synced[p]
      <3>1. PICK st : st = RemoteStatus(j, p)
        OBVIOUS
      <3>2. /\ st \in {"queued"} \cup Outcomes
            /\ st = "success" => remote[j][p].outcome = "success"
        BY <3>1 DEF RemoteStatus, Outcomes
      <3>3. targets[p] = [status |-> st, batch |-> TRUE] /\ c.synced[p].status # "skipped"
        BY <2>2, <3>1, <1>4
      <3>4. targets[p] \in Target /\ targets[p].status = st
        BY <3>2, <3>3, TargetOf
      <3>5. QED
        BY <3>2, <3>3, <3>4, <1>3 DEF Known
    <2>3. QED
      BY <2>1, <2>2
  <1>6. targets \in Targets /\ Known(j, targets)
    BY <1>3, <1>4, <1>5 DEF Targets, Known
  <1>7. PICK k : k = [c EXCEPT !.synced = targets]
    OBVIOUS
  <1>8. k = [role |-> c.role, job |-> c.job, targets |-> c.targets, to |-> c.to, sync |-> c.sync,
             synced |-> targets]
    BY <1>2, <1>7 DEF Claim
  <1>9. k \in Claim
    BY <1>2, <1>6, <1>8, ClaimTypes, ClaimOf
  <1>10. Placed("syncwrite", k) /\ Carries("syncwrite", k)
    BY <1>2, <1>6, <1>8 DEF Placed, Carries
  <1>11. MaySubmit("syncwrite", k) => /\ MaySubmit(pc[w], claim[w])
                                      /\ claim[w].job = k.job
                                      /\ NotAsked(k)
    BY <1>1, <1>2, <1>8 DEF MaySubmit, NotAsked
  <1>12. Goto(w, "syncwrite", k)
    BY <1>1, <1>4, <1>7 DEF SyncFetch
  <1>13. QED
    BY <1>2, <1>9, <1>10, <1>11, <1>12, MoveStep DEF Steps

LEMMA SyncArticleStep ==
  ASSUME PublishInv, NEW w \in Workers, SyncArticle(w)
  PROVE  PublishInv'
  <1>1. /\ article' \in {"gone", "draft", "publishing", "published"}
        /\ UNCHANGED <<job, remote>>
    BY StatusTyped DEF SyncArticle
  <1>2. CASE Answer(w)
    BY <1>1, <1>2, AnswerStep
  <1>3. CASE claim[w].role = "due" /\ Move(w, "load")
    <2>1. Placed("load", claim[w])
      BY <1>3, Carrying DEF Placed, Carries
    <2>2. QED
      BY <2>1, <1>1, <1>3, MoveOn DEF SyncArticle, MaySubmit, Steps
  <1>4. QED
    BY <1>2, <1>3 DEF SyncArticle

LEMMA ThrowStep ==
  ASSUME PublishInv, NEW w \in Workers, Throw(w)
  PROVE  PublishInv'
  <1>1. CASE Answer(w)
    BY <1>1, Carrying, AnswerStep DEF Throw
  <1>2. CASE Guarded(w) /\ Move(w, "fail")
    <2>1. Placed("fail", claim[w])
      BY <1>2, Carrying DEF Guarded, Placed, Carries
    <2>2. QED
      BY <2>1, <1>2, Carrying, MoveOn DEF Throw, MaySubmit, Steps
  <1>3. QED
    BY <1>1, <1>2 DEF Throw

(***************************************************************************)
(* Steps that replace a row.                                               *)
(***************************************************************************)
LEMMA RowReplaced ==
  ASSUME PublishInv, NEW j \in Jobs, NEW row \in JobRow, job' = [job EXCEPT ![j] = row],
         UNCHANGED <<article, remote>>,
         row.status # "none",
         job[j].status # "none" => row.bound = job[j].bound /\ row.mode = job[j].mode,
         row.status = "scheduled" => /\ job[j].status \in {"none", "scheduled"}
                                     /\ row.mode = "schedule" /\ row.bound # {}
                                     /\ row.targets = LocalTargets(row.bound),
         row.status \in {"running", "done", "failed"} => row.status = JobStatus(row.targets),
         \A p \in Platforms :
            /\ row.targets[p].status = "success" => remote[j][p].outcome = "success"
            /\ p \notin row.bound => row.targets[p].status = "skipped"
  PROVE  RowsAfter
  <1>1. /\ job' \in [Jobs -> JobRow]
        /\ job'[j] = row
        /\ \A i \in Jobs : i # j => job'[i] = job[i]
    BY DEF PublishInv, TypeOK
  <1>2. Row(j)
    BY DEF PublishInv, Rows
  <1>3. Rows'
    <2> SUFFICES ASSUME NEW i \in Jobs PROVE Row(i)'
      BY DEF Rows
    <2>1. CASE i # j
      BY <2>1, <1>1 DEF PublishInv, Rows, Row
    <2>2. CASE i = j
      <3>1. ASSUME NEW p \in Platforms
            PROVE  /\ row.status = "scheduled" => remote[j][p].sent = 0
                   /\ p \notin row.bound => remote[j][p].sent = 0
        <4>1. CASE job[j].status = "none"
          BY <4>1, <1>2 DEF Row
        <4>2. CASE job[j].status # "none"
          BY <4>2, <1>2 DEF Row
        <4>3. QED
          BY <4>1, <4>2
      <3>2. QED
        BY <3>1, <2>2, <1>1, <1>2 DEF Row
    <2>3. QED
      BY <2>1, <2>2
  <1>4. StatusMatches'
    <2> SUFFICES ASSUME NEW i \in Jobs, Exists(i)'
                 PROVE  IF job'[i].status = "scheduled"
                        THEN job'[i].targets = LocalTargets(job'[i].bound)
                        ELSE job'[i].status = JobStatus(job'[i].targets)
      BY DEF StatusMatches, LocalTargets, JobStatus, Some
    <2>1. CASE i # j
      BY <2>1, <1>1 DEF PublishInv, StatusMatches, Exists
    <2>2. CASE i = j
      <3>1. row.status \in {"scheduled", "running", "done", "failed"}
        BY <2>2, <1>1 DEF Exists, JobRow
      <3>2. QED
        BY <3>1, <2>2, <1>1
    <2>3. QED
      BY <2>1, <2>2
  <1>5. SubmittedOnce'
    BY DEF PublishInv, SubmittedOnce
  <1>6. RowsKeep
    BY <1>1 DEF RowsKeep
  <1>7. QED
    BY <1>1, <1>3, <1>4, <1>5, <1>6 DEF RowsAfter, PublishInv, TypeOK

LEMMA WriteRows ==
  ASSUME PublishInv, NEW j \in Jobs, Exists(j), NEW targets \in Targets, Known(j, targets),
         Write(j, targets), UNCHANGED <<article, remote>>
  PROVE  RowsAfter
  <1>1. job \in [Jobs -> JobRow]
    BY DEF PublishInv, TypeOK
  <1>2. PICK status : status = JobStatus(targets)
    OBVIOUS
  <1>3. status \in {"running", "done", "failed"}
    BY <1>2, StatusTyped
  <1>4. PICK r \in JobRow : r = job[j]
    BY <1>1
  <1>5. PICK row : row = [r EXCEPT !.status = status, !.targets = targets]
    OBVIOUS
  <1>6. row = [status |-> status, mode |-> r.mode, due |-> r.due, bound |-> r.bound,
               targets |-> targets]
    BY <1>4, <1>5 DEF JobRow
  <1>7. row \in JobRow
    BY <1>3, <1>4, <1>6 DEF JobRow
  <1>8. job' = [job EXCEPT ![j] = row]
    BY <1>1, <1>2, <1>4, <1>5 DEF Write
  <1>9. QED
    BY <1>2, <1>3, <1>4, <1>6, <1>7, <1>8, RowReplaced DEF Known

LEMMA PublishCreateStep ==
  ASSUME PublishInv, NEW w \in Workers, PublishCreate(w)
  PROVE  PublishInv'
  <1>1. PICK j \in Jobs, mode \in Modes, bound \in SUBSET Platforms :
          /\ job[j].status = "none"
          /\ job' = [job EXCEPT ![j] =
                [status  |-> IF mode = "schedule" /\ bound # {} THEN "scheduled"
                             ELSE JobStatus(LocalTargets(bound)),
                 mode    |-> mode, due |-> FALSE, bound |-> bound,
                 targets |-> LocalTargets(bound)]]
          /\ Goto(w, "announce", [claim[w] EXCEPT !.job = j])
    BY DEF PublishCreate
  <1>2. UNCHANGED <<article, remote>> /\ pc[w] = "publish"
    BY DEF PublishCreate
  <1>3. PICK status, targets :
           /\ status = IF mode = "schedule" /\ bound # {} THEN "scheduled"
                       ELSE JobStatus(LocalTargets(bound))
           /\ targets = LocalTargets(bound)
    OBVIOUS
  <1>4. /\ targets \in Targets
        /\ \A p \in Platforms : targets[p].status = IF p \in bound THEN "queued" ELSE "skipped"
        /\ status \in {"scheduled", "running", "done", "failed"}
        /\ status = "scheduled" => mode = "schedule" /\ bound # {}
        /\ status # "scheduled" => status = JobStatus(targets)
    BY <1>3, LocalTargetsTyped, StatusTyped
  <1>5. PICK row : row = [status |-> status, mode |-> mode, due |-> FALSE, bound |-> bound,
                          targets |-> targets]
    OBVIOUS
  <1>6. row \in JobRow
    BY <1>4, <1>5 DEF JobRow
  <1>7. job' = [job EXCEPT ![j] = row]
    BY <1>1, <1>3, <1>5
  <1>8. RowsAfter
    <2>1. /\ row.status = status /\ row.mode = mode /\ row.bound = bound
          /\ row.targets = targets
      BY <1>5
    <2>2. row.status = "scheduled" => row.targets = LocalTargets(row.bound)
      BY <2>1, <1>3
    <2>3. QED
      BY <2>1, <2>2, <1>1, <1>2, <1>4, <1>6, <1>7, RowReplaced
  <1>9. PICK c : c = claim[w]
    OBVIOUS
  <1>10. c \in Claim /\ Carries("publish", c)
    BY <1>2, <1>9, Carrying
  <1>11. PICK k \in Claim :
            /\ k = [c EXCEPT !.job = j]
            /\ k.job = j /\ k.role = c.role /\ k.targets = c.targets /\ k.to = c.to
            /\ k.sync = c.sync /\ k.synced = c.synced
    BY <1>10, WithJob
  <1>12. job'[j] = row
    BY <1>7 DEF PublishInv, TypeOK
  <1>13. Placed("announce", k) /\ Carries("announce", k)'
    <2>1. \A p \in Platforms : NoTargets[p].status = "skipped" /\ NoPlan[p] = None
      BY DEF NoTargets, NoPlan, Skipped
    <2>2. Known(k.job, k.targets)'
      BY <2>1, <1>4, <1>5, <1>10, <1>11, <1>12 DEF Carries, Known
    <2>3. ASSUME k.sync # 0 PROVE Known(k.sync, k.synced)'
      <3>1. Known(c.sync, c.synced) /\ c.sync \in Jobs
        BY <2>3, <1>10, <1>11, ClaimTypes DEF Carries
      <3>2. Known(c.sync, c.synced)'
        BY <3>1, <1>8 DEF RowsAfter, RowsKeep, Known
      <3>3. QED
        BY <3>2, <1>11 DEF Known
    <2>4. QED
      BY <2>1, <2>2, <2>3, <1>10, <1>11 DEF Placed, Carries
  <1>14. MaySubmit("announce", k)' => NotAsked(k)'
    <2>1. ASSUME MaySubmit("announce", k)' PROVE status # "scheduled"
      BY <2>1, <1>4, <1>5, <1>11, <1>12 DEF MaySubmit
    <2>2. \A p \in Platforms : remote'[j][p].sent = 0
      BY <1>1, <1>2 DEF PublishInv, Rows, Row
    <2>3. QED
      BY <2>1, <2>2, <1>4, <1>5, <1>11, <1>12 DEF NotAsked
  <1>15. Goto(w, "announce", k)
    BY <1>1, <1>9, <1>11
  <1>16. QED
    BY <1>1, <1>2, <1>8, <1>11, <1>13, <1>14, <1>15, WorkerStep DEF Steps

LEMMA DueClaimStep ==
  ASSUME PublishInv, NEW w \in Workers, DueClaim(w)
  PROVE  PublishInv'
  <1>1. PICK c, j : c = claim[w] /\ j = claim[w].job
    OBVIOUS
  <1>2. /\ c \in Claim /\ Placed("claim", c) /\ Carries("claim", c) /\ c.job = j
        /\ j \in Jobs
        /\ UNCHANGED <<article, remote>>
        /\ article \in {"gone", "draft", "publishing", "published"}
    BY <1>1, Carrying DEF DueClaim, Placed
  <1>3. CASE UNCHANGED job /\ Answer(w)
    BY <1>2, <1>3, AnswerStep
  <1>4. CASE Claimable(j) /\ job' = [job EXCEPT ![j].status = "running"] /\ Move(w, "latest")
    <2>1. job[j] \in JobRow /\ job[j].status = "scheduled" /\ Row(j)
      BY <1>2, <1>4 DEF Claimable, PublishInv, TypeOK, Rows
    <2>2. PICK r \in JobRow : r = job[j]
      BY <2>1
    <2>3. PICK row : row = [r EXCEPT !.status = "running"]
      OBVIOUS
    <2>4. row = [status |-> "running", mode |-> r.mode, due |-> r.due, bound |-> r.bound,
                 targets |-> r.targets]
      BY <2>2, <2>3 DEF JobRow
    <2>5. row \in JobRow
      BY <2>2, <2>4 DEF JobRow
    <2>6. job' = [job EXCEPT ![j] = row]
      BY <1>2, <1>4, <2>2, <2>3 DEF PublishInv, TypeOK
    <2>7. JobStatus(r.targets) = "running"
      <3>1. job[j].targets = LocalTargets(job[j].bound)
        BY <1>2, <2>1 DEF PublishInv, StatusMatches, Exists
      <3>2. r.bound # {} /\ r.bound \in SUBSET Platforms
        BY <2>1, <2>2 DEF Row, JobRow
      <3>3. QED
        BY <2>2, <3>1, <3>2, LocalTargetsTyped
    <2>8. RowsAfter
      BY <1>2, <2>1, <2>2, <2>4, <2>5, <2>6, <2>7, RowReplaced DEF Row
    <2>9. Placed("latest", c) /\ Carries("latest", c)
      BY <1>2 DEF Placed, Carries
    <2>10. Carries("latest", c)'
      BY <1>2, <2>8, <2>9, CarriesOn DEF RowsAfter
    <2>11. NotAsked(c)'
      <3>1. job'[j] = row
        BY <1>2, <2>6 DEF PublishInv, TypeOK
      <3>2. \A p \in Platforms : remote'[j][p].sent = 0
        BY <1>2, <2>1 DEF Row
      <3>3. QED
        BY <3>1, <3>2, <1>2, <2>4 DEF NotAsked
    <2>12. Goto(w, "latest", c)
      BY <1>1, <1>4 DEF Move
    <2>13. QED
      BY <1>2, <2>1, <2>8, <2>9, <2>10, <2>11, <2>12, WorkerStep DEF Steps
  <1>5. QED
    BY <1>1, <1>3, <1>4 DEF DueClaim

LEMMA WriteStep ==
  ASSUME PublishInv, NEW w \in Workers, SubmitWrite(w) \/ SyncWrite(w)
  PROVE  PublishInv'
  <1>1. PICK c : c = claim[w]
    OBVIOUS
  <1>2. /\ c \in Claim /\ Placed(pc[w], c) /\ Carries(pc[w], c)
        /\ c.targets \in Targets /\ c.synced \in Targets
        /\ MaySubmit(pc[w], c) => NotAsked(c) /\ c.job \in Jobs
        /\ UNCHANGED <<article, remote>>
    BY <1>1, Carrying, ClaimTypes DEF SubmitWrite, SyncWrite
  <1>3. CASE SubmitWrite(w)
    <2>1. c.job \in Jobs /\ Known(c.job, c.targets)
      BY <1>2, <1>3, ZeroIsNoJob DEF SubmitWrite, Placed, Carries
    <2>2. RowsAfter
      BY <1>1, <1>2, <1>3, <2>1, WriteRows DEF SubmitWrite
    <2>3. Placed("article", c) /\ Carries("article", c) /\ ~MaySubmit("article", c)
      BY <1>2, <1>3 DEF SubmitWrite, Placed, Carries, MaySubmit
    <2>4. Carries("article", c)' /\ ~MaySubmit("article", c)'
      BY <1>2, <2>2, <2>3, CarriesOn DEF RowsAfter
    <2>5. Goto(w, "article", c)
      BY <1>1, <1>3 DEF SubmitWrite, Move
    <2>6. QED
      BY <1>2, <2>2, <2>3, <2>4, <2>5, WorkerStep DEF Steps
  <1>4. CASE SyncWrite(w)
    <2>1. c.sync \in Jobs /\ Known(c.sync, c.synced)
      BY <1>2, <1>4, ZeroIsNoJob DEF SyncWrite, Placed, Carries
    <2>2. RowsAfter
      BY <1>1, <1>2, <1>4, <2>1, WriteRows DEF SyncWrite
    <2>3. /\ Placed("syncarticle", c) /\ Carries("syncarticle", c)
          /\ MaySubmit("syncarticle", c) => MaySubmit(pc[w], c)
      BY <1>2, <1>4 DEF SyncWrite, Placed, Carries, MaySubmit
    <2>4. /\ Carries("syncarticle", c)'
          /\ MaySubmit("syncarticle", c)' <=> MaySubmit("syncarticle", c)
      BY <1>2, <2>2, <2>3, CarriesOn DEF RowsAfter
    <2>5. MaySubmit("syncarticle", c)' => NotAsked(c)'
      BY <1>2, <2>2, <2>3, <2>4, NotAskedOn DEF RowsAfter
    <2>6. Goto(w, "syncarticle", c)
      BY <1>1, <1>4 DEF SyncWrite, Move
    <2>7. QED
      BY <1>1, <1>2, <2>2, <2>3, <2>4, <2>5, <2>6, WorkerStep DEF Steps
  <1>5. QED
    BY <1>3, <1>4

LEMMA FailWriteStep ==
  ASSUME PublishInv, NEW w \in Workers, FailWrite(w)
  PROVE  PublishInv'
  <1>1. PICK c, j : c = claim[w] /\ j = claim[w].job
    OBVIOUS
  <1>2. /\ c \in Claim /\ Placed("fail", c) /\ Carries("fail", c) /\ c.job = j
        /\ c.targets \in Targets
        /\ UNCHANGED <<article, remote>>
        /\ article \in {"gone", "draft", "publishing", "published"}
        /\ Exists(j)
    BY <1>1, Carrying, ClaimTypes DEF FailWrite
  <1>3. j \in Jobs /\ Known(j, c.targets)
    BY <1>2, ZeroIsNoJob DEF Placed, Carries
  <1>4. PICK targets : targets = MarkTargetsFailed(c.targets)
    OBVIOUS
  <1>5. ASSUME NEW p \in Platforms
        PROVE  /\ targets[p] \in Target
               /\ targets[p].status \in {"failed", "skipped"}
               /\ c.targets[p].status = "skipped" => targets[p].status = "skipped"
    <2>1. /\ [status |-> "failed", batch |-> FALSE] \in Target
          /\ [status |-> "failed", batch |-> FALSE].status = "failed"
      BY TargetOf DEF Outcomes
    <2>2. targets[p] = IF c.targets[p].status = "skipped" THEN c.targets[p]
                       ELSE [status |-> "failed", batch |-> FALSE]
      BY <1>4 DEF MarkTargetsFailed
    <2>3. QED
      BY <2>1, <2>2, <1>2, TargetParts
  <1>6. targets \in Targets
    BY <1>4, <1>5 DEF Targets, MarkTargetsFailed
  <1>7. JobStatus(targets) = "failed"
    BY <1>5 DEF JobStatus, Some
  <1>8. PICK r \in JobRow : r = job[j]
    BY <1>3 DEF PublishInv, TypeOK
  <1>9. PICK row : row = [r EXCEPT !.status = "failed", !.targets = targets]
    OBVIOUS
  <1>10. row = [status |-> "failed", mode |-> r.mode, due |-> r.due, bound |-> r.bound,
                targets |-> targets]
    BY <1>8, <1>9 DEF JobRow
  <1>11. row \in JobRow
    BY <1>6, <1>8, <1>10 DEF JobRow
  <1>12. job' = [job EXCEPT ![j] = row]
    BY <1>1, <1>3, <1>4, <1>8, <1>9 DEF FailWrite, PublishInv, TypeOK
  <1>13. RowsAfter
    BY <1>2, <1>3, <1>5, <1>7, <1>8, <1>10, <1>11, <1>12, RowReplaced DEF Known
  <1>14. CASE Move(w, "failarticle")
    <2>1. Placed("failarticle", c) /\ Carries("failarticle", c) /\ ~MaySubmit("failarticle", c)
      BY <1>2 DEF Placed, Carries, MaySubmit
    <2>2. Carries("failarticle", c)' /\ ~MaySubmit("failarticle", c)'
      BY <2>1, <1>2, <1>13, CarriesOn DEF RowsAfter
    <2>3. Goto(w, "failarticle", c)
      BY <1>1, <1>14 DEF Move
    <2>4. QED
      BY <2>1, <2>2, <2>3, <1>2, <1>13, WorkerStep DEF Steps
  <1>15. CASE Answer(w)
    <2>1. Carries("idle", NoClaim)' /\ ~MaySubmit("idle", NoClaim)'
      BY <1>13, NoClaimTyped, NoClaimCarries, CarriesOn DEF RowsAfter
    <2>2. QED
      BY <2>1, <1>2, <1>13, <1>15, NoClaimTyped, NoClaimCarries, WorkerStep DEF Answer, Steps
  <1>16. QED
    BY <1>14, <1>15 DEF FailWrite

LEMMA DeleteJobsStep ==
  ASSUME PublishInv, NEW w \in Workers, DeleteJobs(w)
  PROVE  PublishInv'
  <1>1. /\ UNCHANGED <<article, remote>>
        /\ article \in {"gone", "draft", "publishing", "published"}
    BY Carrying DEF DeleteJobs
  <1>2. ASSUME NEW j \in Jobs
        PROVE  /\ job'[j] \in JobRow
               /\ job'[j].mode = job[j].mode /\ job'[j].bound = job[j].bound
               /\ job'[j].targets = job[j].targets
               /\ job'[j].status = IF job[j].status = "none" THEN "none" ELSE "gone"
    <2>1. job[j] \in JobRow
      BY DEF PublishInv, TypeOK
    <2>2. job'[j] = IF Exists(j) THEN [job[j] EXCEPT !.status = "gone"] ELSE job[j]
      BY DEF DeleteJobs
    <2>3. CASE Exists(j)
      <3>1. PICK r \in JobRow : r = job[j]
        BY <2>1
      <3>2. job'[j] = [status |-> "gone", mode |-> r.mode, due |-> r.due, bound |-> r.bound,
                       targets |-> r.targets]
        BY <2>2, <2>3, <3>1 DEF JobRow
      <3>3. job'[j] \in JobRow
        BY <3>1, <3>2 DEF JobRow
      <3>4. QED
        BY <2>3, <3>1, <3>2, <3>3 DEF Exists
    <2>4. CASE ~Exists(j)
      BY <2>1, <2>2, <2>4 DEF Exists
    <2>5. QED
      BY <2>3, <2>4
  <1>3. job' \in [Jobs -> JobRow]
    BY <1>2 DEF DeleteJobs
  <1>4. Rows'
    BY <1>1, <1>2 DEF PublishInv, Rows, Row
  <1>5. StatusMatches' /\ SubmittedOnce' /\ RowsKeep
    BY <1>1, <1>2 DEF PublishInv, StatusMatches, SubmittedOnce, RowsKeep, Exists
  <1>6. RowsAfter
    BY <1>1, <1>3, <1>4, <1>5 DEF RowsAfter, PublishInv, TypeOK
  <1>7. PICK k \in Claim : /\ k = [NoClaim EXCEPT !.role = "delete"]
                           /\ Placed("deletearticle", k) /\ Carries("deletearticle", k)
                           /\ ~MaySubmit("deletearticle", k)
    BY NoClaimCarries
  <1>8. Carries("deletearticle", k)' /\ ~MaySubmit("deletearticle", k)'
    BY <1>6, <1>7, CarriesOn DEF RowsAfter
  <1>9. Goto(w, "deletearticle", k)
    BY <1>7 DEF DeleteJobs
  <1>10. QED
    BY <1>1, <1>6, <1>7, <1>8, <1>9, WorkerStep DEF Steps

(***************************************************************************)
(* Steps of no worker.                                                     *)
(***************************************************************************)
LEMMA OutsideStep ==
  ASSUME PublishInv, RowsAfter, UNCHANGED <<pc, claim>>,
         \A j \in Jobs, p \in Platforms : remote'[j][p].sent = remote[j][p].sent
  PROVE  PublishInv'
  <1>1. TypeOK'
    BY DEF PublishInv, RowsAfter, TypeOK
  <1>2. ASSUME NEW w \in Workers
        PROVE  /\ Carries(pc[w], claim[w])'
               /\ MaySubmit(pc[w], claim[w])' => /\ MaySubmit(pc[w], claim[w])
                                                 /\ NotAsked(claim[w])'
    <2>1. PICK st, c : st = pc[w] /\ c = claim[w]
      OBVIOUS
    <2>2. /\ c \in Claim /\ Placed(st, c) /\ Carries(st, c)
          /\ MaySubmit(st, c) => NotAsked(c) /\ c.job \in Jobs
      BY <2>1, Carrying
    <2>3. Carries(st, c)' /\ (MaySubmit(st, c)' <=> MaySubmit(st, c))
      BY <2>2, CarriesOn DEF RowsAfter
    <2>4. MaySubmit(st, c) => NotAsked(c)'
      BY <2>2, NotAskedOn DEF RowsAfter
    <2>5. pc'[w] = st /\ claim'[w] = c
      BY <2>1
    <2>6. Carries(pc[w], claim[w])'
      BY <2>3, <2>5 DEF Carries
    <2>7. MaySubmit(pc[w], claim[w])' => MaySubmit(st, c)'
      BY <2>5 DEF MaySubmit
    <2>8. NotAsked(c)' => NotAsked(claim[w])'
      BY <2>5 DEF NotAsked
    <2>9. QED
      BY <2>1, <2>3, <2>4, <2>6, <2>7, <2>8
  <1>3. Carried' /\ Submitters'
    BY <1>2 DEF Carried, Submitters
  <1>4. OneSubmitter'
    BY <1>2 DEF PublishInv, OneSubmitter
  <1>5. QED
    BY <1>1, <1>3, <1>4 DEF PublishInv, RowsAfter

LEMMA ComeDueStep ==
  ASSUME PublishInv, NEW j \in Jobs, ComeDue(j)
  PROVE  PublishInv'
  <1>1. PICK r \in JobRow : r = job[j]
    BY DEF PublishInv, TypeOK
  <1>2. PICK row : row = [r EXCEPT !.due = TRUE]
    OBVIOUS
  <1>3. row = [status |-> r.status, mode |-> r.mode, due |-> TRUE, bound |-> r.bound,
               targets |-> r.targets]
    BY <1>1, <1>2 DEF JobRow
  <1>4. row \in JobRow
    BY <1>1, <1>3 DEF JobRow
  <1>5. job' = [job EXCEPT ![j] = row] /\ UNCHANGED <<article, remote, pc, claim>>
    BY <1>1, <1>2 DEF ComeDue, PublishInv, TypeOK
  <1>6. Row(j) /\ job[j].status \notin {"none", "gone"}
    BY DEF PublishInv, Rows, ComeDue, Exists
  <1>7. r.status \in {"running", "done", "failed"} => r.status = JobStatus(r.targets)
    BY <1>1, <1>6 DEF PublishInv, StatusMatches, Exists
  <1>8. r.status = "scheduled" => r.targets = LocalTargets(r.bound)
    BY <1>1, <1>6 DEF PublishInv, StatusMatches, Exists
  <1>9. RowsAfter
    BY <1>1, <1>3, <1>4, <1>5, <1>6, <1>7, <1>8, RowReplaced DEF Row
  <1>10. QED
    BY <1>5, <1>9, OutsideStep

LEMMA SettleStep ==
  ASSUME PublishInv, NEW j \in Jobs, NEW q \in Platforms, Settle(j, q)
  PROVE  PublishInv'
  <1>1. PICK s \in Outcomes : remote' = [remote EXCEPT ![j][q].outcome = s]
    BY DEF Settle
  <1>2. /\ remote[j][q].outcome = "queued"
        /\ UNCHANGED <<article, job, pc, claim>>
    BY DEF Settle
  <1>3. remote \in [Jobs -> [Platforms -> [sent : Nat, outcome : {"none", "queued"} \cup Outcomes]]]
    BY DEF PublishInv, TypeOK
  <1>4. ASSUME NEW i \in Jobs, NEW p \in Platforms
        PROVE  /\ remote'[i][p] \in [sent : Nat, outcome : {"none", "queued"} \cup Outcomes]
               /\ remote'[i][p].sent = remote[i][p].sent
               /\ ~(i = j /\ p = q) => remote'[i][p] = remote[i][p]
    <2>1. remote[i][p] \in [sent : Nat, outcome : {"none", "queued"} \cup Outcomes]
      BY <1>3
    <2>2. remote'[i][p] = IF i = j /\ p = q THEN [remote[i][p] EXCEPT !.outcome = s] ELSE remote[i][p]
      BY <1>1, <1>3
    <2>3. QED
      BY <2>1, <2>2
  <1>5. remote' \in [Jobs -> [Platforms -> [sent : Nat, outcome : {"none", "queued"} \cup Outcomes]]]
    <2>1. PICK f : f = [remote[j] EXCEPT ![q].outcome = s]
      OBVIOUS
    <2>2. remote' = [remote EXCEPT ![j] = f]
      BY <1>1, <1>3, <2>1
    <2>3. \A p \in Platforms : f[p] \in [sent : Nat, outcome : {"none", "queued"} \cup Outcomes]
      BY <1>3, <1>4, <2>2
    <2>4. f \in [Platforms -> [sent : Nat, outcome : {"none", "queued"} \cup Outcomes]]
      BY <1>3, <2>1, <2>3
    <2>5. QED
      BY <1>3, <2>2, <2>4
  <1>6. remote[j][q].sent # 0
    BY <1>2 DEF PublishInv, Rows, Row
  <1>7. RowsKeep
    BY <1>2, <1>4 DEF RowsKeep
  <1>8. Rows'
    <2> SUFFICES ASSUME NEW i \in Jobs PROVE Row(i)'
      BY DEF Rows
    <2>1. Row(i)
      BY DEF PublishInv, Rows
    <2>2. QED
      BY <2>1, <1>2, <1>4, <1>6 DEF Row
  <1>9. StatusMatches' /\ SubmittedOnce'
    BY <1>2, <1>4 DEF PublishInv, StatusMatches, SubmittedOnce, Exists
  <1>10. RowsAfter
    BY <1>2, <1>5, <1>7, <1>8, <1>9 DEF RowsAfter, PublishInv, TypeOK
  <1>11. QED
    BY <1>2, <1>4, <1>10, OutsideStep

LEMMA UpdateArticleStep ==
  ASSUME PublishInv, UpdateArticle
  PROVE  PublishInv'
  BY SameRows, OutsideStep DEF UpdateArticle

LEMMA CrashStep ==
  ASSUME PublishInv, Crash
  PROVE  PublishInv'
  <1>1. UNCHANGED <<article, job, remote>>
    BY DEF Crash
  <1>2. RowsAfter
    BY <1>1, SameRows DEF PublishInv, TypeOK
  <1>3. \A w \in Workers : pc'[w] = "idle" /\ claim'[w] = NoClaim
    BY DEF Crash
  <1>4. TypeOK'
    BY <1>2, <1>3, NoClaimTyped DEF Crash, RowsAfter, TypeOK, Steps
  <1>5. Carried'
    <2>1. Carries("idle", NoClaim)'
      BY <1>2, NoClaimTyped, NoClaimCarries, CarriesOn DEF RowsAfter
    <2>2. QED
      BY <2>1, <1>3 DEF Carried, Carries
  <1>6. Submitters' /\ OneSubmitter'
    BY <1>3 DEF Submitters, OneSubmitter, MaySubmit
  <1>7. QED
    BY <1>2, <1>4, <1>5, <1>6 DEF RowsAfter, PublishInv

LEMMA StutterStep ==
  ASSUME PublishInv, UNCHANGED vars
  PROVE  PublishInv'
  BY SameRows, OutsideStep DEF vars, PublishInv, TypeOK

LEMMA StepInv == PublishInv /\ [Next]_vars => PublishInv'
  <1> SUFFICES ASSUME PublishInv, [Next]_vars PROVE PublishInv'
    OBVIOUS
  <1>1. ASSUME NEW w \in Workers, Handle(w) PROVE PublishInv'
    <2>1. CASE Publish(w) \/ PublishCreate(w) \/ PublishAnnounce(w) \/ DispatchRead(w)
      BY <2>1, PublishStep, PublishCreateStep, PublishAnnounceStep, DispatchReadStep
    <2>2. CASE DueRead(w) \/ DueClaim(w) \/ DueLatest(w) \/ DueLoad(w)
      BY <2>2, DueReadStep, DueClaimStep, DueLatestStep, DueLoadStep
    <2>3. CASE SubmitPlan(w) \/ SubmitFail(w) \/ SubmitWrite(w) \/ SubmitArticle(w)
      BY <2>3, SubmitPlanStep, SubmitFailStep, WriteStep, ArticleStep
    <2>4. ASSUME NEW e \in Executors, SubmitBatch(w, e) PROVE PublishInv'
      BY <2>4, SubmitBatchStep
    <2>5. CASE FailWrite(w) \/ FailArticle(w) \/ Throw(w) \/ DeleteJobs(w) \/ DeleteArticle(w)
      BY <2>5, FailWriteStep, ArticleStep, ThrowStep, DeleteJobsStep
    <2>6. CASE SyncRead(w) \/ SyncFetch(w) \/ SyncWrite(w) \/ SyncArticle(w)
      BY <2>6, SyncReadStep, SyncFetchStep, WriteStep, SyncArticleStep
    <2>7. QED
      BY <1>1, <2>1, <2>2, <2>3, <2>4, <2>5, <2>6 DEF Handle
  <1>2. CASE UpdateArticle
    BY <1>2, UpdateArticleStep
  <1>3. ASSUME NEW j \in Jobs, ComeDue(j) \/ \E p \in Platforms : Settle(j, p)
        PROVE  PublishInv'
    BY <1>3, ComeDueStep, SettleStep
  <1>4. CASE Crash
    BY <1>4, CrashStep
  <1>5. CASE UNCHANGED vars
    BY <1>5, StutterStep
  <1>6. QED
    BY <1>1, <1>2, <1>3, <1>4, <1>5 DEF Next

LEMMA Inductive == Spec => []PublishInv
  BY InitInv, StepInv, PTL DEF Spec

(* A worker that shows an article published knows a platform that has it.  *)
LEMMA PublishedKnown ==
  ASSUME PublishInv, NEW j \in Jobs, NEW targets, Known(j, targets), Some(targets, "success")
  PROVE  \E i \in Jobs, p \in Platforms : remote[i][p].outcome = "success"
  BY DEF Known, Some

LEMMA PublishedStep ==
  ASSUME PublishInv, Next, article' = "published", article # "published", pc' # pc
  PROVE  \E j \in Jobs, p \in Platforms : remote[j][p].outcome = "success"
  <1>1. PICK w \in Workers : Handle(w)
    BY DEF Next, UpdateArticle, ComeDue, Settle, Crash
  <1>2. PICK c : c = claim[w]
    OBVIOUS
  <1>3. c \in Claim /\ Placed(pc[w], c) /\ Carries(pc[w], c)
    BY <1>2, Carrying
  <1>4. CASE PublishAnnounce(w)
    <2>1. PICK j \in Jobs : j = c.job
      BY <1>3, <1>4 DEF PublishAnnounce, Placed
    <2>2. job[j].bound \in SUBSET Platforms
      <3>1. job[j] \in JobRow
        BY DEF PublishInv, TypeOK
      <3>2. QED
        BY <3>1 DEF JobRow
    <2>3. Some(LocalTargets(job[j].bound), "success")
      BY <1>2, <1>4, <2>1, StatusTyped DEF PublishAnnounce
    <2>4. QED
      BY <2>2, <2>3, LocalTargetsTyped DEF Some
  <1>5. CASE SubmitArticle(w)
    <2>1. c.job \in Jobs /\ Known(c.job, c.targets)
      BY <1>3, <1>5, ZeroIsNoJob DEF SubmitArticle, Placed, Carries
    <2>2. Some(c.targets, "success")
      BY <1>2, <1>5, StatusTyped DEF SubmitArticle
    <2>3. QED
      BY <2>1, <2>2, PublishedKnown
  <1>6. CASE SyncArticle(w)
    <2>1. c.sync \in Jobs /\ Known(c.sync, c.synced)
      BY <1>3, <1>6, ZeroIsNoJob DEF SyncArticle, Placed, Carries
    <2>2. Some(c.synced, "success")
      BY <1>2, <1>6, StatusTyped DEF SyncArticle
    <2>3. QED
      BY <2>1, <2>2, PublishedKnown
  <1>7. CASE FailArticle(w) \/ DeleteArticle(w)
    BY <1>7 DEF FailArticle, DeleteArticle
  <1>8. CASE UNCHANGED article
    BY <1>8
  <1>9. QED
    <2>1. CASE Publish(w) \/ PublishCreate(w) \/ DispatchRead(w) \/ DueRead(w) \/ DueClaim(w)
               \/ DueLatest(w) \/ DueLoad(w)
      BY <2>1, <1>8 DEF Publish, PublishCreate, DispatchRead, DueRead, DueClaim, DueLatest, DueLoad
    <2>2. CASE SubmitPlan(w) \/ SubmitFail(w) \/ SubmitWrite(w) \/ FailWrite(w)
               \/ \E e \in Executors : SubmitBatch(w, e)
      BY <2>2, <1>8 DEF SubmitPlan, SubmitFail, SubmitWrite, FailWrite, SubmitBatch
    <2>3. CASE SyncRead(w) \/ SyncFetch(w) \/ SyncWrite(w) \/ Throw(w) \/ DeleteJobs(w)
      BY <2>3, <1>8 DEF SyncRead, SyncFetch, SyncWrite, Throw, DeleteJobs
    <2>4. QED
      BY <1>1, <1>4, <1>5, <1>6, <1>7, <2>1, <2>2, <2>3 DEF Handle

(***************************************************************************)
(* Results.                                                                *)
(***************************************************************************)
(* No platform is asked twice to publish a job, whichever dispatches, runs *)
(* of the minute job, timeouts and restarts overlap: at any time at most   *)
(* one worker may submit a job, and only what it has not asked.            *)
THEOREM NeverSubmittedTwice == Spec => []SubmittedOnce
  <1>1. PublishInv => SubmittedOnce
    BY DEF PublishInv
  <1>2. QED
    BY <1>1, Inductive, PTL

(* However stale the targets a writer puts back: the row's status is the   *)
(* one of its targets, a success it shows happened at ALQQ, and a platform *)
(* without an account stays skipped and is not asked.                      *)
THEOREM RowsTellTheTruth == Spec => []TargetsTrue
  <1>1. PublishInv => TargetsTrue
    <2> SUFFICES ASSUME PublishInv PROVE TargetsTrue
      OBVIOUS
    <2>1. SuccessIsReal /\ UnboundUntouched
      BY DEF PublishInv, Rows, Row, SuccessIsReal, UnboundUntouched
    <2>2. QED
      BY <2>1 DEF PublishInv, TargetsTrue
  <1>2. QED
    BY <1>1, Inductive, PTL

(* dispatchImmediatePublish, the minute job and the refresh call an        *)
(* article published only if a platform has it.                            *)
THEOREM PublishedArticlesExist == Spec => PublishedIsReal
  <1>1. PublishInv /\ [Next]_vars =>
          [(article' = "published" /\ article # "published" /\ pc' # pc)
              => \E j \in Jobs, p \in Platforms : remote[j][p].outcome = "success"]_vars
    BY PublishedStep
  <1>2. QED
    BY <1>1, Inductive, PTL DEF Spec, PublishedIsReal

(***************************************************************************)
(* The other parts: a step of the services is a step of the part that a    *)
(* behaviour is about.                                                     *)
(***************************************************************************)
servicesVars == <<part, vars, metricVars, chatVars, feedbackVars, visitsVars, staffVars, financeVars>>

LEMMA PartsStep ==
  ASSUME [ServicesNext]_servicesVars
  PROVE  /\ UNCHANGED part
         /\ part = "feedback" => [Given!FeedbackNext]_feedbackVars
         /\ part = "visits" => [Nightly!VisitsNext]_visitsVars
         /\ part = "chat" => [Chat!ChatNext]_chatVars
         /\ part = "staff" => [Presence!StaffNext]_staffVars
         /\ part = "metrics" => [Metrics!MetricsNext]_metricVars
         /\ part = "finance" => [Finance!FinanceNext]_financeVars
  BY DEF ServicesNext, servicesVars

LEMMA PartsStart ==
  ASSUME ServicesInit
  PROVE  /\ part = "feedback" => Given!FeedbackInit
         /\ part = "visits" => Nightly!VisitsInit
         /\ part = "chat" => Chat!ChatInit
         /\ part = "staff" => Presence!StaffInit
         /\ part = "metrics" => Metrics!MetricsInit
         /\ part = "finance" => Finance!FinanceInit
  BY DEF ServicesInit

(***************************************************************************)
(* Feedback.  A call about to create its row counted fewer than the limit, *)
(* and its files are attached or on their way until it has failed.         *)
(***************************************************************************)
CallFits(c) ==
    /\ fStep[c] \in {"none", "create", "refused"} => fRow[c] = None
    /\ fRow[c] = None => attached[c] = {} /\ uploads[c] = {} /\ fStep[c] \notin {"attach", "ok"}
    /\ fStep[c] = "create" => Cardinality(counted[c].others) < DailyLimit
    /\ fStep[c] = "attach" => attached[c] \cup uploads[c] = fRow[c].asked
    /\ fStep[c] = "ok" => attached[c] = fRow[c].asked /\ uploads[c] = {}

FeedbackInv ==
    /\ Given!FeedbackTypeOK
    /\ Given!LimitOvertaken
    /\ \A c \in Reports : CallFits(c)

LEMMA FeedbackStarts == Given!FeedbackInit => FeedbackInv
  <1> SUFFICES ASSUME Given!FeedbackInit PROVE FeedbackInv
    OBVIOUS
  <1> USE DEF Given!FeedbackInit
  <1>1. Given!FeedbackTypeOK
    BY ServicesAssumption DEF Given!FeedbackTypeOK, Given!Days, Given!Count, Given!NoCount
  <1>2. \A d : Given!Of(d) = {}
    BY DEF Given!Of
  <1>3. Given!LimitOvertaken
    <2>1. Cardinality({}) = 0 /\ ~(0 > DailyLimit)
      BY ServicesAssumption, FS_EmptySet
    <2>2. QED
      BY <1>2, <2>1 DEF Given!LimitOvertaken, Cardinality, Given!Cardinality
  <1>4. \A c \in Reports : CallFits(c)
    BY DEF CallFits
  <1>5. QED
    BY <1>1, <1>3, <1>4 DEF FeedbackInv

LEMMA SameCount == \A S : Given!Cardinality(S) = Cardinality(S)
  BY DEF Given!Cardinality, Cardinality

(* What a step leaves of a call that it is not about.                      *)
LEMMA CallFitsOn ==
  ASSUME NEW c, CallFits(c), UNCHANGED <<fRow[c], fStep[c], uploads[c], attached[c], counted[c]>>
  PROVE  CallFits(c)'
  BY DEF CallFits

LEMMA DaysKept ==
  ASSUME Given!LimitOvertaken, \A d \in Given!Days : Given!Of(d)' = Given!Of(d), fLate' = fLate
  PROVE  Given!LimitOvertaken'
  BY SameCount DEF Given!LimitOvertaken

LEMMA FeedbackStep == FeedbackInv /\ [Given!FeedbackNext]_feedbackVars => FeedbackInv'
  <1> SUFFICES ASSUME FeedbackInv, [Given!FeedbackNext]_feedbackVars PROVE FeedbackInv'
    OBVIOUS
  <1> USE DEF FeedbackInv, Given!FeedbackTypeOK
  <1>0. None \notin Given!Row
    BY ServicesAssumption DEF Given!Row, Given!Days
  (* Rows keep their days.                                                 *)
  <1>1. ASSUME \A c \in Reports : /\ fRow'[c] = None <=> fRow[c] = None
                                  /\ fRow[c] # None => fRow'[c].day = fRow[c].day,
               fLate' = fLate
        PROVE  Given!LimitOvertaken'
    <2>1. \A d : Given!Of(d)' = Given!Of(d)
      BY <1>1 DEF Given!Of
    <2>2. QED
      BY <1>1, <2>1, SameCount DEF Given!LimitOvertaken
  <1>2. CASE UNCHANGED feedbackVars
    <2>1. Given!FeedbackTypeOK'
      BY <1>2 DEF feedbackVars
    <2>2. \A c \in Reports : CallFits(c)'
      BY <1>2, CallFitsOn DEF feedbackVars
    <2>3. QED
      BY <1>1, <1>2, <2>1, <2>2 DEF feedbackVars
  <1>3. CASE Given!Midnight
    <2>1. Given!FeedbackTypeOK'
      BY <1>3, ServicesAssumption DEF Given!Midnight, Given!Days
    <2>2. \A c \in Reports : CallFits(c)'
      BY <1>3, CallFitsOn DEF Given!Midnight
    <2>3. QED
      BY <1>1, <1>3, <2>1, <2>2 DEF Given!Midnight
  <1>4. CASE Given!Restart
    <2>1. Given!FeedbackTypeOK'
      BY <1>4 DEF Given!Restart
    <2>2. ASSUME NEW c \in Reports PROVE CallFits(c)'
      BY <1>4 DEF Given!Restart, CallFits
    <2>3. QED
      BY <1>1, <1>4, <2>1, <2>2 DEF Given!Restart
  <1>5. ASSUME NEW c \in Reports, Given!CreateCount(c) PROVE FeedbackInv'
    <2>1. fStep' \in [Reports -> {"none", "create", "attach", "ok", "failed", "refused"}]
      BY <1>5 DEF Given!CreateCount
    <2>2. [day |-> fToday, others |-> Given!Of(fToday)] \in Given!Count
      BY DEF Given!Count, Given!Of
    <2>3. Given!FeedbackTypeOK'
      BY <1>5, <2>1, <2>2 DEF Given!CreateCount
    <2>4. ASSUME NEW b \in Reports, b # c PROVE CallFits(b)'
      BY <1>5, <2>4, CallFitsOn DEF Given!CreateCount
    <2>5. CallFits(c)'
      <3>1. CASE Given!HasRoom
        <4>1. fStep'[c] = "create" /\ counted'[c].others = Given!Of(fToday)
          BY <1>5, <3>1 DEF Given!CreateCount
        <4>2. Cardinality(counted'[c].others) < DailyLimit
          BY <3>1, <4>1, SameCount DEF Given!HasRoom
        <4>3. QED
          BY <1>5, <4>1, <4>2 DEF Given!CreateCount, CallFits
      <3>2. CASE ~Given!HasRoom
        BY <1>5, <3>2 DEF Given!CreateCount, CallFits
      <3>3. QED
        BY <3>1, <3>2
    <2>6. Given!LimitOvertaken'
      BY <1>1, <1>5 DEF Given!CreateCount
    <2>7. QED
      BY <2>3, <2>4, <2>5, <2>6
  <1>6. ASSUME NEW c \in Reports, Given!CreateRow(c) PROVE FeedbackInv'
    <2>1. PICK asked \in SUBSET Files :
             /\ fRow' = [fRow EXCEPT ![c] = [day |-> fToday, status |-> "open", asked |-> asked]]
             /\ uploads' = [uploads EXCEPT ![c] = asked]
      BY <1>6 DEF Given!CreateRow
    <2>2. PICK new \in Given!Row : new = [day |-> fToday, status |-> "open", asked |-> asked]
      BY DEF Given!Row
    <2>3. new # None /\ new.day = fToday /\ new.asked = asked
      BY <1>0, <2>2
    <2>4. /\ fStep[c] = "create" /\ fStep' = [fStep EXCEPT ![c] = "attach"]
          /\ UNCHANGED <<fToday, attached, counted>>
          /\ fLate' = fLate \cup {d \in {fToday} : counted[c] # [day |-> d, others |-> Given!Of(d)]}
      BY <1>6 DEF Given!CreateRow
    <2>5. Given!FeedbackTypeOK'
      BY <2>1, <2>2, <2>4
    <2>6. ASSUME NEW b \in Reports, b # c PROVE CallFits(b)'
      BY <2>1, <2>4, <2>6, CallFitsOn
    <2>7. fRow'[c] = new /\ fStep'[c] = "attach" /\ uploads'[c] = asked
      BY <2>1, <2>2, <2>4
    <2>8. CallFits(c)'
      <3>1. attached'[c] = {}
        BY <2>4 DEF CallFits
      <3>2. QED
        BY <2>3, <2>7, <3>1 DEF CallFits
    <2>9. ASSUME NEW d \in Given!Days, d # fToday PROVE Given!Of(d)' = Given!Of(d)
      BY <2>1, <2>2, <2>3, <2>4, <2>9 DEF Given!Of, CallFits
    <2>10. Given!Of(fToday)' = Given!Of(fToday) \cup {c}
      BY <2>1, <2>2, <2>3, <2>4, <2>7 DEF Given!Of, CallFits
    <2>11. Given!LimitOvertaken'
      <3>1. ASSUME NEW d \in Given!Days, Given!Cardinality(Given!Of(d)') > DailyLimit PROVE d \in fLate'
        <4>1. CASE d # fToday
          BY <2>4, <2>9, <3>1, <4>1 DEF Given!LimitOvertaken
        <4>2. CASE d = fToday /\ d \notin fLate'
          <5>1. counted[c].others = Given!Of(fToday)
            BY <2>4, <4>2
          <5>2. Cardinality(Given!Of(fToday)) < DailyLimit
            BY <2>4, <5>1 DEF CallFits
          <5>3. IsFiniteSet(Given!Of(fToday)) /\ c \notin Given!Of(fToday)
            BY <2>4, ServicesAssumption, FS_Subset DEF Given!Of, CallFits
          <5>4. Cardinality(Given!Of(fToday) \cup {c}) = Cardinality(Given!Of(fToday)) + 1
                /\ Cardinality(Given!Of(fToday)) \in Nat
            BY <5>3, FS_AddElement, FS_CardinalityType
          <5>5. ~(Cardinality(Given!Of(fToday) \cup {c}) > DailyLimit)
            BY <5>2, <5>4, ServicesAssumption
          <5>6. Cardinality(Given!Of(fToday) \cup {c}) > DailyLimit
            <6>1. PICK S : S = Given!Of(d)'
              OBVIOUS
            <6>2. Given!Cardinality(S) > DailyLimit
              BY <3>1, <6>1
            <6>3. S = Given!Of(fToday) \cup {c}
              BY <2>4, <2>10, <4>2, <6>1 DEF Given!Of
            <6>4. QED
              BY <6>2, <6>3, SameCount
          <5>7. QED
            BY <5>5, <5>6
        <4>3. QED
          BY <4>1, <4>2
      <3>2. QED
        BY <3>1 DEF Given!LimitOvertaken
    <2>12. QED
      BY <2>5, <2>6, <2>8, <2>11
  <1>7. ASSUME NEW c \in Reports, Given!Answer(c) PROVE FeedbackInv'
    <2>1. Given!FeedbackTypeOK'
      BY <1>7 DEF Given!Answer
    <2>2. ASSUME NEW b \in Reports, b # c PROVE CallFits(b)'
      BY <1>7, <2>2, CallFitsOn DEF Given!Answer
    <2>3. CallFits(c)'
      BY <1>7 DEF Given!Answer, CallFits
    <2>4. QED
      BY <1>1, <1>7, <2>1, <2>2, <2>3 DEF Given!Answer
  <1>8. ASSUME NEW c \in Reports, NEW f \in Files, Given!Attach(c, f) PROVE FeedbackInv'
    <2>1. Given!FeedbackTypeOK'
      BY <1>8 DEF Given!Attach
    <2>2. ASSUME NEW b \in Reports, b # c PROVE CallFits(b)'
      BY <1>8, <2>2, CallFitsOn DEF Given!Attach
    <2>3. CallFits(c)'
      <3>1. /\ attached'[c] = attached[c] \cup {f} /\ uploads'[c] = uploads[c] \ {f}
            /\ f \in uploads[c] /\ UNCHANGED <<fStep, fRow, counted>>
        BY <1>8 DEF Given!Attach
      <3>2. QED
        BY <3>1 DEF CallFits
    <2>4. QED
      BY <1>1, <1>8, <2>1, <2>2, <2>3 DEF Given!Attach
  <1>9. ASSUME NEW c \in Reports, NEW f \in Files, Given!UploadFails(c, f) PROVE FeedbackInv'
    <2>1. Given!FeedbackTypeOK'
      BY <1>9 DEF Given!UploadFails, Given!AfterFailure
    <2>2. ASSUME NEW b \in Reports, b # c PROVE CallFits(b)'
      BY <1>9, <2>2, CallFitsOn DEF Given!UploadFails
    <2>3. CallFits(c)'
      BY <1>9 DEF Given!UploadFails, Given!AfterFailure, CallFits
    <2>4. QED
      BY <1>1, <1>9, <2>1, <2>2, <2>3 DEF Given!UploadFails
  <1>10. ASSUME NEW c \in Reports, Given!UpdateStatus(c) PROVE FeedbackInv'
    <2>1. PICK s \in {"open", "done"} : fRow' = [fRow EXCEPT ![c].status = s]
      BY <1>10 DEF Given!UpdateStatus
    <2>2. fRow[c] \in Given!Row /\ UNCHANGED <<fToday, attached, fStep, uploads, counted, fLate>>
      BY <1>10 DEF Given!UpdateStatus
    <2>3. PICK new : new = [fRow[c] EXCEPT !.status = s]
      OBVIOUS
    <2>4. new \in Given!Row /\ new.day = fRow[c].day /\ new.asked = fRow[c].asked
      BY <2>2, <2>3 DEF Given!Row
    <2>5. fRow' = [fRow EXCEPT ![c] = new] /\ fRow'[c] = new
      BY <2>1, <2>3
    <2>6. Given!FeedbackTypeOK'
      BY <2>2, <2>4, <2>5
    <2>7. ASSUME NEW b \in Reports, b # c PROVE CallFits(b)'
      BY <2>2, <2>5, <2>7, CallFitsOn
    <2>8. CallFits(c)'
      BY <1>0, <2>2, <2>4, <2>5 DEF CallFits
    <2>9. Given!LimitOvertaken'
      BY <1>0, <1>1, <2>2, <2>4, <2>5
    <2>10. QED
      BY <2>6, <2>7, <2>8, <2>9
  <1>11. QED
    BY <1>2, <1>3, <1>4, <1>5, <1>6, <1>7, <1>8, <1>9, <1>10 DEF Given!FeedbackNext

(* A day has more feedbacks than the limit only if a count was overtaken,  *)
(* and a feedback whose call succeeded has all its files, whatever calls   *)
(* overlap, fail and are ended by restarts (FeedbackService.create).       *)
THEOREM FeedbackAlwaysKept == ServicesSpec => []FeedbackKept
  <1> DEFINE Inv == part = "feedback" => FeedbackInv
  <1>1. ServicesInit => Inv
    BY PartsStart, FeedbackStarts
  <1>2. Inv /\ [ServicesNext]_servicesVars => Inv'
    BY PartsStep, FeedbackStep
  <1>3. Inv => FeedbackKept
    BY DEF FeedbackInv, CallFits, FeedbackKept, Given!AnsweredWhole
  <1>4. QED
    BY <1>1, <1>2, <1>3, PTL DEF ServicesSpec, servicesVars

(***************************************************************************)
(* Visits.  A job is about a day that is over, holds that day's visits of  *)
(* the users it has yet to store, and has stored or failed for the others. *)
(***************************************************************************)
VisitsTyped ==
    /\ vDay \in Nightly!Days
    /\ visits \in [Users -> [Nightly!Days -> Nat]]
    /\ vReport \in [Users -> [Nightly!Days -> {None} \cup Nat]]
    /\ skipped \in [Nightly!Days -> SUBSET Users]

JobHolds ==
    vJob # Nightly!NoJob =>
        /\ vJob \in [of : Nightly!Days, left : [Users -> Nat]]
        /\ vJob.of < vDay
        /\ \A u \in Users : vJob.left[u] \in {0, visits[u][vJob.of]}
        /\ \A u \in Users : visits[u][vJob.of] > 0 /\ vJob.left[u] = 0
                                => vReport[u][vJob.of] # None \/ u \in skipped[vJob.of]

FoundHolds == found # Nightly!NotFound => vJob # Nightly!NoJob /\ found.user \in Users /\ vJob.left[found.user] > 0

PastDays ==
    /\ \A u \in Users, d \in Nightly!Days : vReport[u][d] # None => d < vDay
    /\ \A d \in ran : d \in Nightly!Days /\ d < vDay

VisitsInv ==
    /\ VisitsTyped
    /\ JobHolds
    /\ FoundHolds
    /\ PastDays
    /\ Nightly!ReportsFinal
    /\ Nightly!OthersReported

LEMMA VisitsStart == Nightly!VisitsInit => VisitsInv
  <1> SUFFICES ASSUME Nightly!VisitsInit PROVE VisitsInv
    OBVIOUS
  <1> USE DEF Nightly!VisitsInit
  <1>1. VisitsTyped
    BY ServicesAssumption DEF VisitsTyped, Nightly!Days
  <1>2. QED
    BY <1>1 DEF VisitsInv, JobHolds, FoundHolds, PastDays, Nightly!ReportsFinal, Nightly!OthersReported

LEMMA VisitsStep == VisitsInv /\ [Nightly!VisitsNext]_visitsVars => VisitsInv'
  <1> SUFFICES ASSUME VisitsInv, [Nightly!VisitsNext]_visitsVars PROVE VisitsInv'
    OBVIOUS
  <1> USE DEF VisitsInv
  <1> DEFINE Days == Nightly!Days
  <1>0. /\ None \notin Days /\ None \notin Nat /\ vDay \in Nat
        /\ \A d \in Days : d \in Nat
    BY ServicesAssumption DEF Nightly!Days, VisitsTyped
  <1>1. CASE UNCHANGED visitsVars
    BY <1>1 DEF visitsVars, VisitsTyped, JobHolds, FoundHolds, PastDays, Nightly!ReportsFinal, Nightly!OthersReported
  <1>2. CASE Nightly!Tomorrow
    <2>1. vDay' = vDay + 1 /\ vDay' \in Days /\ UNCHANGED <<visits, vReport, vJob, found, ran, skipped>>
      BY <1>2, ServicesAssumption DEF Nightly!Tomorrow, Nightly!Days, VisitsTyped
    <2>2. VisitsTyped' /\ FoundHolds' /\ Nightly!ReportsFinal' /\ Nightly!OthersReported'
      BY <2>1 DEF VisitsTyped, FoundHolds, Nightly!ReportsFinal, Nightly!OthersReported
    <2>3. PastDays'
      <3>1. \A d \in Days : d < vDay => d < vDay'
        BY <1>0, <2>1
      <3>2. QED
        BY <2>1, <3>1 DEF PastDays
    <2>4. JobHolds'
      BY <1>0, <2>1 DEF JobHolds
    <2>5. QED
      BY <2>2, <2>3, <2>4
  <1>3. ASSUME NEW u \in Users, Nightly!Visit(u) PROVE VisitsInv'
    <2>1. PICK row : row = [visits[u] EXCEPT ![vDay] = @ + 1]
      OBVIOUS
    <2>2. /\ visits' = [visits EXCEPT ![u] = row]
          /\ UNCHANGED <<vDay, vReport, vJob, found, ran, skipped>>
      BY <1>3, <2>1 DEF Nightly!Visit
    <2>3. row \in [Days -> Nat] /\ \A d \in Days : d < vDay => row[d] = visits[u][d]
      BY <1>0, <2>1 DEF VisitsTyped
    <2>4. VisitsTyped'
      BY <2>2, <2>3 DEF VisitsTyped
    <2>5. \A w \in Users, d \in Days : d < vDay => visits'[w][d] = visits[w][d]
      BY <2>2, <2>3 DEF VisitsTyped
    <2>6. PastDays' /\ FoundHolds'
      BY <2>2 DEF PastDays, FoundHolds
    <2>7. JobHolds'
      BY <2>2, <2>5 DEF JobHolds
    <2>8. Nightly!ReportsFinal' /\ Nightly!OthersReported'
      BY <2>2, <2>5 DEF PastDays, Nightly!ReportsFinal, Nightly!OthersReported
    <2>9. QED
      BY <2>4, <2>6, <2>7, <2>8
  (* Steps that store nothing.                                             *)
  <1>4. ASSUME UNCHANGED <<vDay, visits, vReport, ran, skipped>>, JobHolds', FoundHolds' PROVE VisitsInv'
    BY <1>4 DEF VisitsTyped, PastDays, Nightly!ReportsFinal, Nightly!OthersReported
  <1>5. CASE Nightly!Start
    <2>1. vJob = Nightly!NoJob /\ found = Nightly!NotFound
      BY <1>5 DEF Nightly!Start, FoundHolds
    <2>2. FoundHolds'
      BY <1>5, <2>1 DEF Nightly!Start, FoundHolds
    <2>3. JobHolds'
      <3>1. CASE vDay > 1
        <4>1. PICK d : d = vDay - 1
          OBVIOUS
        <4>2. d \in Days /\ d < vDay
          BY <1>0, <3>1, <4>1, ServicesAssumption DEF Nightly!Days, VisitsTyped
        <4>3. PICK rest : rest = [u \in Users |-> visits[u][d]]
          OBVIOUS
        <4>4. rest \in [Users -> Nat]
          BY <4>2, <4>3 DEF VisitsTyped
        <4>5. vJob' = [of |-> d, left |-> rest] /\ UNCHANGED <<vDay, visits, vReport, skipped>>
          BY <1>5, <3>1, <4>1, <4>3 DEF Nightly!Start, Nightly!Grouped
        <4>6. vJob'.of = d /\ vJob'.left = rest /\ vJob' \in [of : Days, left : [Users -> Nat]]
          BY <4>2, <4>4, <4>5
        <4>7. \A u \in Users : vJob'.left[u] = visits[u][d]
          BY <4>3, <4>6
        <4>8. QED
          BY <4>2, <4>5, <4>6, <4>7 DEF JobHolds
      <3>2. CASE ~(vDay > 1)
        BY <1>5, <2>1, <3>2 DEF Nightly!Start, JobHolds
      <3>3. QED
        BY <3>1, <3>2
    <2>4. QED
      BY <1>4, <1>5, <2>2, <2>3 DEF Nightly!Start
  <1>6. CASE Nightly!Down
    BY <1>4, <1>6 DEF Nightly!Down, JobHolds, FoundHolds
  <1>7. ASSUME NEW u \in Users, Nightly!Find(u) PROVE VisitsInv'
    <2>1. FoundHolds'
      BY <1>7 DEF Nightly!Find, FoundHolds
    <2>2. JobHolds'
      BY <1>7 DEF Nightly!Find, JobHolds
    <2>3. QED
      BY <1>4, <1>7, <2>1, <2>2 DEF Nightly!Find
  <1>8. CASE Nightly!Restart
    BY <1>4, <1>8 DEF Nightly!Restart, JobHolds, FoundHolds
  <1>9. CASE Nightly!Finish
    <2>1. UNCHANGED <<vDay, visits, vReport, skipped, found>> /\ vJob' = Nightly!NoJob /\ ran' = ran \cup {vJob.of}
      BY <1>9 DEF Nightly!Finish
    <2>2. \A u \in Users : ~(vJob.left[u] > 0)
      BY <1>9 DEF Nightly!Finish
    <2>3. found = Nightly!NotFound
      BY <2>2 DEF FoundHolds
    <2>4. VisitsTyped' /\ JobHolds' /\ FoundHolds' /\ Nightly!ReportsFinal'
      BY <2>1, <2>3 DEF VisitsTyped, JobHolds, FoundHolds, Nightly!ReportsFinal
    <2>5. vJob.of \in Days /\ vJob.of < vDay
      BY <1>9 DEF Nightly!Finish, JobHolds
    <2>6. PastDays'
      BY <2>1, <2>5 DEF PastDays
    <2>7. \A u \in Users : visits[u][vJob.of] > 0 => vReport[u][vJob.of] # None \/ u \in skipped[vJob.of]
      BY <1>9 DEF Nightly!Finish, JobHolds
    <2>8. Nightly!OthersReported'
      BY <2>1, <2>7 DEF Nightly!OthersReported
    <2>9. QED
      BY <2>4, <2>6, <2>8
  (* Steps that are done with one user.                                    *)
  <1>10. ASSUME NEW u \in Users, vJob # Nightly!NoJob, vJob' = [vJob EXCEPT !.left[u] = 0]
         PROVE  /\ vJob.of \in Days /\ vJob.of < vDay /\ vJob'.of = vJob.of
                /\ vJob' \in [of : Days, left : [Users -> Nat]]
                /\ \A w \in Users : vJob'.left[w] = IF w = u THEN 0 ELSE vJob.left[w]
    BY <1>10 DEF JobHolds
  <1>11. CASE Nightly!Upsert
    <2>1. vJob # Nightly!NoJob /\ found.user \in Users /\ found # Nightly!NotFound
      BY <1>11 DEF Nightly!Upsert, FoundHolds
    <2>2. PICK u \in Users : u = found.user
      BY <2>1
    <2>3. PICK d \in Days : d = vJob.of
      BY <2>1 DEF JobHolds
    <2>4. /\ vReport' = [vReport EXCEPT ![u][d] = vJob.left[u]]
          /\ vJob' = [vJob EXCEPT !.left[u] = 0] /\ found' = Nightly!NotFound
          /\ UNCHANGED <<vDay, visits, ran, skipped>>
      BY <1>11, <2>2, <2>3 DEF Nightly!Upsert
    <2>5. vJob.left[u] > 0 /\ vJob.left[u] \in Nat /\ vJob.left[u] = visits[u][d]
      BY <2>1, <2>2, <2>3 DEF FoundHolds, JobHolds
    <2>6. /\ vReport' \in [Users -> [Days -> {None} \cup Nat]]
          /\ vReport'[u][d] = visits[u][d]
          /\ \A w \in Users, e \in Days : w # u \/ e # d => vReport'[w][e] = vReport[w][e]
      BY <2>4, <2>5 DEF VisitsTyped
    <2>7. vReport'[u][d] # None
      BY <1>0, <2>5, <2>6
    <2>8. VisitsTyped' /\ FoundHolds'
      BY <2>4, <2>6 DEF VisitsTyped, FoundHolds
    <2>9. d < vDay /\ vJob'.of = d /\ vJob' \in [of : Days, left : [Users -> Nat]]
          /\ \A w \in Users : vJob'.left[w] = IF w = u THEN 0 ELSE vJob.left[w]
      BY <1>10, <2>1, <2>3, <2>4
    <2>10. JobHolds'
      BY <2>1, <2>3, <2>4, <2>6, <2>7, <2>9 DEF JobHolds
    <2>11. PastDays'
      BY <2>4, <2>6, <2>9 DEF PastDays
    <2>12. Nightly!ReportsFinal'
      BY <2>4, <2>6 DEF Nightly!ReportsFinal
    <2>13. Nightly!OthersReported'
      <3>1. ran \subseteq Days
        BY DEF PastDays
      <3>2. \A w \in Users, e \in Days : vReport'[w][e] = None => vReport[w][e] = None
        BY <2>6, <2>7
      <3>3. QED
        BY <2>4, <3>1, <3>2 DEF Nightly!OthersReported
    <2>14. QED
      BY <2>8, <2>10, <2>11, <2>12, <2>13
  <1>12. ASSUME NEW u \in Users, Nightly!Skip(u) PROVE VisitsInv'
    <2>1. vJob # Nightly!NoJob
      BY <1>12 DEF Nightly!Skip
    <2>2. PICK d \in Days : d = vJob.of
      BY <2>1 DEF JobHolds
    <2>3. /\ vJob' = [vJob EXCEPT !.left[u] = 0] /\ found' = Nightly!NotFound
          /\ skipped' = [skipped EXCEPT ![d] = @ \cup {u}]
          /\ UNCHANGED <<vDay, visits, vReport, ran>>
      BY <1>12, <2>1, <2>2 DEF Nightly!Skip, Nightly!LeftAfter, JobHolds
    <2>4. VisitsTyped' /\ FoundHolds' /\ u \in skipped'[d] /\ \A e \in Days : skipped[e] \subseteq skipped'[e]
      BY <2>3 DEF VisitsTyped, FoundHolds
    <2>5. d < vDay /\ vJob'.of = d /\ vJob' \in [of : Days, left : [Users -> Nat]]
          /\ \A w \in Users : vJob'.left[w] = IF w = u THEN 0 ELSE vJob.left[w]
      BY <1>10, <2>1, <2>2, <2>3
    <2>6. JobHolds'
      BY <2>1, <2>2, <2>3, <2>4, <2>5 DEF JobHolds
    <2>7. PastDays' /\ Nightly!ReportsFinal'
      BY <2>3 DEF PastDays, Nightly!ReportsFinal
    <2>8. Nightly!OthersReported'
      BY <2>3, <2>4 DEF Nightly!OthersReported, PastDays
    <2>9. QED
      BY <2>4, <2>6, <2>7, <2>8
  <1>13. QED
    BY <1>1, <1>2, <1>3, <1>5, <1>6, <1>7, <1>8, <1>9, <1>11, <1>12 DEF Nightly!VisitsNext

(* A report made in the night equals the visits of its day, and a user     *)
(* whose own step did not fail is in it once the job has run to its end,   *)
(* whatever restarts and failures the nights have (UsersFetchService).     *)
THEOREM VisitsAlwaysReported == ServicesSpec => []VisitsReported
  <1> DEFINE Inv == part = "visits" => VisitsInv
  <1>1. ServicesInit => Inv
    BY PartsStart, VisitsStart
  <1>2. Inv /\ [ServicesNext]_servicesVars => Inv'
    BY PartsStep, VisitsStep
  <1>3. Inv => VisitsReported
    BY DEF VisitsInv, VisitsReported
  <1>4. QED
    BY <1>1, <1>2, <1>3, PTL DEF ServicesSpec, servicesVars

(***************************************************************************)
(* Chat.  While no connection has gone, the process knows every open one;  *)
(* a socket id that a disconnection is about to take off was listed, and a *)
(* connecting socket has yet to be told what waited when it was listed.    *)
(***************************************************************************)
SocketKnown(s) ==
    /\ client[s] = "new" <=> cPhase[s] = "none"
    /\ client[s] = "new" => leaving[s] = "no" /\ s \notin cListed
    /\ leaving[s] # "no" => client[s] = "gone"
    /\ client[s] = "open" => cPhase[s] # "ended"

NoneGone == \A s \in Sockets : client[s] # "gone"

OpenKnown == NoneGone => \A s \in Sockets : client[s] = "open" => s \in cKnown

IdsListed == \A m \in Messages : \A s \in ids[m] : client[s] # "new"

TakenOff == \A s \in cListed : leaving[s] = "asked" => s \in taken[s]

StillTold ==
    \A s \in Sockets :
        /\ cPhase[s] = "up" => left[s] = {}
        /\ s \in cListed /\ cPhase[s] \in {"connecting", "telling", "up"} => queue \subseteq left[s] \cup cLate

ChatInv ==
    /\ Chat!ChatTypeOK
    /\ \A s \in Sockets : SocketKnown(s)
    /\ OpenKnown
    /\ IdsListed
    /\ TakenOff
    /\ StillTold
    /\ Chat!NoneDisappears
    /\ Chat!DeadIdsAfterRestart

LEMMA ChatStarts == Chat!ChatInit => ChatInv
  <1> SUFFICES ASSUME Chat!ChatInit PROVE ChatInv
    OBVIOUS
  <1> USE DEF Chat!ChatInit
  <1>1. Chat!ChatTypeOK
    BY DEF Chat!ChatTypeOK
  <1>2. \A s \in Sockets : SocketKnown(s)
    BY DEF SocketKnown
  <1>3. OpenKnown /\ IdsListed /\ TakenOff /\ StillTold
    BY DEF NoneGone, OpenKnown, IdsListed, TakenOff, StillTold
  <1>4. Chat!NoneDisappears /\ Chat!DeadIdsAfterRestart
    BY DEF Chat!NoneDisappears, Chat!DeadIdsAfterRestart
  <1>5. QED
    BY <1>1, <1>2, <1>3, <1>4 DEF ChatInv

LEMMA ChatStep == ChatInv /\ [Chat!ChatNext]_chatVars => ChatInv'
  <1> SUFFICES ASSUME ChatInv, [Chat!ChatNext]_chatVars PROVE ChatInv'
    OBVIOUS
  <1> USE DEF ChatInv
  <1>1. CASE UNCHANGED chatVars
    BY <1>1 DEF chatVars, Chat!ChatTypeOK, SocketKnown, NoneGone, OpenKnown, IdsListed, TakenOff, StillTold,
       Chat!NoneDisappears, Chat!DeadIdsAfterRestart
  <1>2. ASSUME NEW s \in Sockets, Chat!Connect(s) PROVE ChatInv'
    <2> USE <1>2 DEF Chat!Connect
    <2>1. Chat!ChatTypeOK'
      BY DEF Chat!ChatTypeOK
    <2>2. /\ client'[s] = "open" /\ cPhase'[s] = "connecting" /\ left'[s] = queue
          /\ \A z \in Sockets \ {s} : client'[z] = client[z] /\ cPhase'[z] = cPhase[z] /\ left'[z] = left[z]
      BY DEF Chat!ChatTypeOK
    <2>3. client[s] = "new" /\ cPhase[s] = "none" /\ leaving[s] = "no" /\ s \notin cListed
      BY DEF SocketKnown
    <2>4. \A z \in Sockets : SocketKnown(z)'
      BY <2>2, <2>3 DEF SocketKnown
    <2>5. OpenKnown'
      BY <2>2, <2>3 DEF OpenKnown, NoneGone
    <2>6. IdsListed'
      BY <2>2 DEF IdsListed, Chat!ChatTypeOK
    <2>7. TakenOff' /\ Chat!DeadIdsAfterRestart'
      BY <2>2, <2>3 DEF TakenOff, Chat!DeadIdsAfterRestart, Chat!ChatTypeOK
    <2>8. StillTold'
      BY <2>2, <2>3 DEF StillTold, Chat!ChatTypeOK
    <2>9. Chat!NoneDisappears'
      BY <2>2, <2>3 DEF Chat!NoneDisappears
    <2>10. QED
      BY <2>1, <2>4, <2>5, <2>6, <2>7, <2>8, <2>9
  <1>3. ASSUME NEW s \in Sockets, Chat!StartTelling(s) PROVE ChatInv'
    <2> USE <1>3 DEF Chat!StartTelling
    <2>1. Chat!ChatTypeOK'
      BY DEF Chat!ChatTypeOK
    <2>2. cPhase[s] = "connecting" /\ cPhase'[s] = "telling" /\ \A z \in Sockets \ {s} : cPhase'[z] = cPhase[z]
      BY DEF Chat!ChatTypeOK
    <2>3. \A z \in Sockets : SocketKnown(z)'
      BY <2>2 DEF SocketKnown
    <2>4. StillTold' /\ Chat!DeadIdsAfterRestart'
      BY <2>2 DEF StillTold, Chat!DeadIdsAfterRestart, Chat!ChatTypeOK
    <2>5. QED
      BY <2>1, <2>3, <2>4 DEF OpenKnown, NoneGone, IdsListed, TakenOff, Chat!NoneDisappears
  <1>4. ASSUME NEW s \in Sockets, Chat!TellingDone(s) PROVE ChatInv'
    <2> USE <1>4 DEF Chat!TellingDone
    <2>1. Chat!ChatTypeOK'
      BY DEF Chat!ChatTypeOK
    <2>2. cPhase[s] = "telling" /\ cPhase'[s] = "up" /\ \A z \in Sockets \ {s} : cPhase'[z] = cPhase[z]
      BY DEF Chat!ChatTypeOK
    <2>3. \A z \in Sockets : SocketKnown(z)'
      BY <2>2 DEF SocketKnown
    <2>4. StillTold' /\ Chat!DeadIdsAfterRestart'
      BY <2>2 DEF StillTold, Chat!DeadIdsAfterRestart, Chat!ChatTypeOK
    <2>5. QED
      BY <2>1, <2>3, <2>4 DEF OpenKnown, NoneGone, IdsListed, TakenOff, Chat!NoneDisappears
  <1>5. ASSUME NEW s \in Sockets, NEW m \in Messages, Chat!Tell(s, m) PROVE ChatInv'
    <2> USE <1>5 DEF Chat!Tell
    <2>1. \A z \in Sockets : got'[z] = got[z] \cup {k \in {m} : z \in {s} /\ client[z] = "open"}
      BY DEF Chat!Hear
    <2>2. got' \in [Sockets -> SUBSET Messages]
      BY DEF Chat!Hear, Chat!ChatTypeOK
    <2>3. left' = [left EXCEPT ![s] = left[s] \ {m}]
      BY DEF Chat!Told
    <2>4. Chat!ChatTypeOK'
      <3>1. expiring' \in BOOLEAN
        BY DEF Chat!ChatTypeOK
      <3>2. left' \in [Sockets -> SUBSET Messages] /\ queue' \subseteq Messages
        BY <2>3 DEF Chat!ChatTypeOK
      <3>3. UNCHANGED <<cListed, cKnown, client, cPhase, leaving, taken, sent, ids, restarted, expired, cLate>>
        OBVIOUS
      <3>4. QED
        BY <2>2, <3>1, <3>2, <3>3 DEF Chat!ChatTypeOK
    <2>5. client[s] = "open" \/ client[s] = "gone"
      BY DEF SocketKnown, Chat!ChatTypeOK
    <2>6. Chat!NoneDisappears'
      <3>1. CASE client[s] = "gone"
        BY <3>1 DEF Chat!NoneDisappears
      <3>2. CASE client[s] = "open"
        <4>1. m \in got'[s] /\ \A z \in Sockets : got[z] \subseteq got'[z]
          BY <2>1, <3>2
        <4>2. QED
          BY <4>1 DEF Chat!NoneDisappears
      <3>3. QED
        BY <2>5, <3>1, <3>2
    <2>7. StillTold'
      BY <2>3 DEF StillTold, Chat!ChatTypeOK
    <2>8. \A z \in Sockets : SocketKnown(z)'
      BY DEF SocketKnown
    <2>9. QED
      BY <2>4, <2>6, <2>7, <2>8 DEF OpenKnown, NoneGone, IdsListed, TakenOff, Chat!DeadIdsAfterRestart
  <1>6. ASSUME NEW s \in Sockets, Chat!ClientCloses(s) PROVE ChatInv'
    <2> USE <1>6 DEF Chat!ClientCloses
    <2>1. Chat!ChatTypeOK'
      BY DEF Chat!ChatTypeOK
    <2>2. client[s] = "open" /\ client'[s] = "gone" /\ \A z \in Sockets \ {s} : client'[z] = client[z]
      BY DEF Chat!ChatTypeOK
    <2>3. \A z \in Sockets : SocketKnown(z)'
      BY <2>2 DEF SocketKnown
    <2>4. OpenKnown' /\ Chat!NoneDisappears'
      BY <2>2 DEF OpenKnown, NoneGone, Chat!NoneDisappears
    <2>5. IdsListed'
      BY <2>2 DEF IdsListed, Chat!ChatTypeOK
    <2>6. QED
      BY <2>1, <2>3, <2>4, <2>5 DEF TakenOff, StillTold, Chat!DeadIdsAfterRestart
  <1>7. ASSUME NEW s \in Sockets, Chat!Disconnect(s) PROVE ChatInv'
    <2> USE <1>7 DEF Chat!Disconnect
    <2>1. Chat!ChatTypeOK'
      BY DEF Chat!ChatTypeOK
    <2>2. /\ leaving'[s] = "asked" /\ taken'[s] = cListed /\ client[s] = "gone"
          /\ \A z \in Sockets \ {s} : leaving'[z] = leaving[z] /\ taken'[z] = taken[z]
      BY DEF Chat!ChatTypeOK
    <2>3. \A z \in Sockets : SocketKnown(z)'
      BY <2>2 DEF SocketKnown
    <2>4. OpenKnown' /\ Chat!NoneDisappears'
      BY <2>2 DEF OpenKnown, NoneGone, Chat!NoneDisappears
    <2>5. TakenOff' /\ Chat!DeadIdsAfterRestart'
      BY <2>2 DEF TakenOff, Chat!DeadIdsAfterRestart, Chat!ChatTypeOK
    <2>6. QED
      BY <2>1, <2>3, <2>4, <2>5 DEF IdsListed, StillTold
  <1>8. ASSUME NEW s \in Sockets, Chat!Remove(s) PROVE ChatInv'
    <2> USE <1>8 DEF Chat!Remove, Chat!Removed
    <2>1. Chat!ChatTypeOK'
      BY DEF Chat!ChatTypeOK
    <2>2. /\ leaving[s] = "asked" /\ leaving'[s] = "done" /\ cListed' = cListed \ taken[s]
          /\ \A z \in Sockets \ {s} : leaving'[z] = leaving[z] /\ taken'[z] = taken[z]
      BY DEF Chat!ChatTypeOK
    <2>3. client[s] = "gone"
      BY <2>2 DEF SocketKnown
    <2>4. \A z \in Sockets : SocketKnown(z)'
      BY <2>2, <2>3 DEF SocketKnown
    <2>5. OpenKnown' /\ Chat!NoneDisappears'
      BY <2>3 DEF OpenKnown, NoneGone, Chat!NoneDisappears
    <2>6. s \notin cListed'
      BY <2>2 DEF TakenOff
    <2>7. TakenOff' /\ Chat!DeadIdsAfterRestart'
      BY <2>2, <2>6 DEF TakenOff, Chat!DeadIdsAfterRestart, Chat!ChatTypeOK
    <2>8. StillTold'
      BY <2>2 DEF StillTold
    <2>9. QED
      BY <2>1, <2>4, <2>5, <2>7, <2>8 DEF IdsListed
  <1>9. ASSUME NEW m \in Messages, Chat!Send(m) PROVE ChatInv'
    <2> USE <1>9 DEF Chat!Send
    <2>1. Chat!ChatTypeOK'
      BY DEF Chat!ChatTypeOK
    <2>2. \A n \in Messages : sent'[n] = "done" => sent[n] = "done"
      BY DEF Chat!ChatTypeOK
    <2>3. ids'[m] = cListed /\ \A n \in Messages \ {m} : ids'[n] = ids[n]
      BY DEF Chat!ChatTypeOK
    <2>4. IdsListed'
      BY <2>3 DEF IdsListed, SocketKnown, Chat!ChatTypeOK
    <2>5. Chat!NoneDisappears'
      BY <2>2 DEF Chat!NoneDisappears
    <2>6. \A z \in Sockets : SocketKnown(z)'
      BY DEF SocketKnown
    <2>7. QED
      BY <2>1, <2>4, <2>5, <2>6 DEF OpenKnown, NoneGone, TakenOff, StillTold, Chat!DeadIdsAfterRestart
  <1>10. ASSUME NEW m \in Messages, Chat!Deliver(m) PROVE ChatInv'
    <2> USE <1>10 DEF Chat!Deliver, Chat!MustWait
    <2>0. UNCHANGED <<cListed, expiring, cKnown, client, cPhase, left, leaving, taken, ids, restarted, expired>>
      OBVIOUS
    <2>1. sent' = [sent EXCEPT ![m] = "done"] /\ \A n \in Messages \ {m} : sent'[n] = sent[n]
      BY DEF Chat!ChatTypeOK
    <2>2. \A z \in Sockets : SocketKnown(z)'
      BY <2>0 DEF SocketKnown
    <2>3. OpenKnown' /\ IdsListed' /\ TakenOff' /\ Chat!DeadIdsAfterRestart'
      BY <2>0 DEF OpenKnown, NoneGone, IdsListed, TakenOff, Chat!DeadIdsAfterRestart
    <2>4. CASE ids[m] = {}
      <3>1. /\ queue' = queue \cup {m} /\ got' = got
            /\ cLate' = cLate \cup {k \in {m} : cListed # {}}
        BY <2>4
      <3>2. Chat!ChatTypeOK'
        BY <2>0, <2>1, <3>1 DEF Chat!ChatTypeOK
      <3>3. Chat!NoneDisappears'
        BY <2>0, <2>1, <3>1 DEF Chat!NoneDisappears
      <3>4. StillTold'
        BY <2>0, <3>1 DEF StillTold
      <3>5. QED
        BY <2>2, <2>3, <3>2, <3>3, <3>4
    <2>5. CASE ids[m] # {}
      <3>1. got' = Chat!Hear(ids[m] \cap cKnown, m) /\ UNCHANGED <<queue, cLate>>
        BY <2>5
      <3>2. \A z \in Sockets : got'[z] = got[z] \cup {k \in {m} : z \in ids[m] \cap cKnown /\ client[z] = "open"}
        BY <3>1 DEF Chat!Hear
      <3>3. got' \in [Sockets -> SUBSET Messages]
        BY <3>1 DEF Chat!Hear, Chat!ChatTypeOK
      <3>4. Chat!ChatTypeOK'
        BY <2>0, <2>1, <3>1, <3>3 DEF Chat!ChatTypeOK
      <3>5. (\E z \in Sockets : client[z] = "gone") \/ \E z \in Sockets : m \in got'[z]
        <4>1. PICK z \in Sockets : z \in ids[m]
          BY <2>5 DEF Chat!ChatTypeOK
        <4>2. client[z] \in {"open", "gone"}
          BY <4>1 DEF IdsListed, Chat!ChatTypeOK
        <4>3. NoneGone => z \in cKnown
          BY <4>2 DEF OpenKnown, NoneGone
        <4>4. QED
          BY <3>2, <4>1, <4>2, <4>3 DEF NoneGone
      <3>6. \A z \in Sockets : got[z] \subseteq got'[z]
        BY <3>2
      <3>7. Chat!NoneDisappears'
        BY <2>0, <2>1, <3>1, <3>5, <3>6 DEF Chat!NoneDisappears
      <3>8. StillTold'
        BY <2>0, <3>1 DEF StillTold
      <3>9. QED
        BY <2>2, <2>3, <3>4, <3>7, <3>8
    <2>6. QED
      BY <2>4, <2>5
  <1>11. CASE Chat!ListExpires
    BY <1>11 DEF Chat!ListExpires, Chat!ChatTypeOK, SocketKnown, NoneGone, OpenKnown, IdsListed, TakenOff, StillTold,
       Chat!NoneDisappears, Chat!DeadIdsAfterRestart
  <1>12. CASE Chat!QueueExpires
    BY <1>12 DEF Chat!QueueExpires, Chat!ChatTypeOK, SocketKnown, NoneGone, OpenKnown, IdsListed, TakenOff, StillTold,
       Chat!NoneDisappears, Chat!DeadIdsAfterRestart
  <1>13. CASE Chat!Restart
    <2> USE <1>13 DEF Chat!Restart
    <2>1. Chat!ChatTypeOK'
      BY DEF Chat!ChatTypeOK
    <2>2. \A z \in Sockets : /\ client'[z] = IF client[z] = "open" THEN "gone" ELSE client[z]
                             /\ cPhase'[z] = IF cPhase[z] = "none" THEN "none" ELSE "ended"
                             /\ leaving'[z] = "no"
      OBVIOUS
    <2>3. \A z \in Sockets : SocketKnown(z)'
      BY <2>2 DEF SocketKnown, Chat!ChatTypeOK
    <2>4. OpenKnown'
      BY <2>2 DEF OpenKnown
    <2>5. IdsListed'
      BY <2>2 DEF IdsListed, Chat!ChatTypeOK
    <2>6. TakenOff' /\ StillTold' /\ Chat!DeadIdsAfterRestart'
      BY <2>2 DEF TakenOff, StillTold, Chat!DeadIdsAfterRestart, Chat!ChatTypeOK
    <2>7. Chat!NoneDisappears'
      BY <2>2 DEF Chat!NoneDisappears
    <2>8. QED
      BY <2>1, <2>3, <2>4, <2>5, <2>6, <2>7
  <1>14. QED
    BY <1>1, <1>2, <1>3, <1>4, <1>5, <1>6, <1>7, <1>8, <1>9, <1>10, <1>11, <1>12, <1>13 DEF Chat!ChatNext

(* A message that was sent is received or waits unless it ran out of time  *)
(* or a connection had ended, only a restart leaves dead socket ids, and   *)
(* beside a socket that was told waits only what a race queued, for any    *)
(* number of sockets and messages (ChatGateway).                           *)
THEOREM ChatAlwaysAccounted == ServicesSpec => []ChatAccounted
  <1> DEFINE Inv == part = "chat" => ChatInv
  <1>1. ServicesInit => Inv
    BY PartsStart, ChatStarts
  <1>2. Inv /\ [ServicesNext]_servicesVars => Inv'
    BY PartsStep, ChatStep
  <1>3. Inv => ChatAccounted
    BY DEF ChatInv, ChatAccounted, StillTold, Chat!WaitsBesideSocket, Chat!ChatTypeOK
  <1>4. QED
    BY <1>1, <1>2, <1>3, PTL DEF ServicesSpec, servicesVars

(***************************************************************************)
(* The days of staff.  A call that nobody overtook knows the row it read:  *)
(* the row without an account it links, and the day it punches or adjusts. *)
(***************************************************************************)
DayRow == [in : 0..LastHour, out : 0..LastHour, inBy : {"-", "self", "owner"}, outBy : {"-", "self", "owner"}]

WorkRow ==
    [user : Users \cup {Presence!Nobody}, staff : Staff \cup {Presence!Nobody}, type : {"-", "in", "out", "sign in"},
     at : 0..LastHour, in : 0..LastHour, out : 0..LastHour, row : DayRow, met : BOOLEAN]

StaffTyped ==
    /\ hour \in 1..LastHour
    /\ phone \in [Staff -> Users \cup {Presence!Nobody}]
    /\ staff \in [Staff -> {"none", "off", "on"}]
    /\ linked \in [Staff -> Users \cup {Presence!Nobody}]
    /\ sDay \in [Staff -> DayRow]
    /\ sStep \in [Punches -> {"idle", "link", "read", "punch", "adjust"}]
    /\ sHeld \in [Punches -> WorkRow]

DayFits(d) ==
    /\ d # Presence!NoDay => d.in \in 1..LastHour /\ d.inBy \in {"self", "owner"}
    /\ d.out # 0 <=> d.outBy \in {"self", "owner"}

DayStands(s) ==
    /\ DayFits(sDay[s])
    /\ s \notin oneSided => IF sDay[s].out = 0 THEN sDay[s].in <= hour ELSE sDay[s].in <= sDay[s].out

CallStands(step, k) ==
    /\ step # "idle" => k.staff \in Staff
    /\ step = "link" => staff[k.staff] # "none" /\ (k.met \/ linked[k.staff] = Presence!Nobody)
    /\ step = "punch" =>
          /\ k.at \in 1..hour
          /\ IF k.row = Presence!NoDay THEN k.type = "in"
             ELSE k.type = "out" /\ k.row.in # 0 /\ k.row.out = 0 /\ sDay[k.staff] # Presence!NoDay
          /\ k.met \/ (sDay[k.staff] = k.row /\ (k.staff \in oneSided \/ k.row.in <= k.at))
    /\ step = "adjust" =>
          /\ Presence!Ordered(k.in, k.out)
          /\ IF k.row = Presence!NoDay THEN k.in # 0 ELSE sDay[k.staff] # Presence!NoDay

StaffInv ==
    /\ StaffTyped
    /\ \A s \in Staff : DayStands(s)
    /\ \A c \in Punches : CallStands(sStep[c], sHeld[c])

LEMMA NoDayTyped ==
  /\ Presence!NoDay \in DayRow /\ Presence!NoDay.in = 0 /\ Presence!NoDay.out = 0 /\ DayFits(Presence!NoDay)
  /\ Presence!NoWork \in WorkRow
  <1>1. Presence!NoDay \in DayRow /\ Presence!NoDay.in = 0 /\ Presence!NoDay.out = 0
    BY ServicesAssumption DEF Presence!NoDay, DayRow
  <1>2. DayFits(Presence!NoDay)
    BY DEF Presence!NoDay, DayFits
  <1>3. Presence!NoWork \in WorkRow
    BY <1>1, ServicesAssumption DEF Presence!NoWork, WorkRow
  <1>4. QED
    BY <1>1, <1>2, <1>3

LEMMA StaffStarts == Presence!StaffInit => StaffInv
  <1> SUFFICES ASSUME Presence!StaffInit PROVE StaffInv
    OBVIOUS
  <1> USE DEF Presence!StaffInit
  <1>1. StaffTyped
    BY NoDayTyped, ServicesAssumption DEF StaffTyped
  <1>2. ASSUME NEW s \in Staff PROVE DayStands(s)
    BY NoDayTyped DEF DayStands
  <1>3. \A c \in Punches : CallStands(sStep[c], sHeld[c])
    BY DEF CallStands
  <1>4. QED
    BY <1>1, <1>2, <1>3 DEF StaffInv

(* A call that stays where it is, perhaps overtaken.                       *)
LEMMA StandsOn ==
  ASSUME StaffTyped, NEW b \in Punches, CallStands(sStep[b], sHeld[b]), sStep'[b] = sStep[b], NEW m \in BOOLEAN,
         sHeld[b].met => m, sHeld'[b] = [sHeld[b] EXCEPT !.met = m],
         sStep[b] = "link" /\ ~m => linked'[sHeld[b].staff] = linked[sHeld[b].staff],
         sStep[b] = "punch" /\ ~m => sDay'[sHeld[b].staff] = sDay[sHeld[b].staff],
         \A s \in Staff : /\ sDay[s] # Presence!NoDay => sDay'[s] # Presence!NoDay
                          /\ staff[s] # "none" => staff'[s] # "none",
         hour' \in 1..LastHour, hour <= hour', oneSided \subseteq oneSided'
  PROVE  CallStands(sStep[b], sHeld[b])'
  <1>1. PICK k \in WorkRow : k = sHeld[b]
    BY DEF StaffTyped
  <1>2. PICK n : n = [k EXCEPT !.met = m]
    OBVIOUS
  <1>3. /\ n.met = m /\ n.staff = k.staff /\ n.at = k.at /\ n.row = k.row /\ n.type = k.type
        /\ n.in = k.in /\ n.out = k.out
    BY <1>1, <1>2 DEF WorkRow
  <1>4. PICK step : step = sStep[b]
    OBVIOUS
  <1>5. CallStands(step, k)
    BY <1>1, <1>4
  <1>6. step = "punch" => k.at \in 1..hour'
    BY <1>5, ServicesAssumption DEF CallStands, StaffTyped
  <1>7. CallStands(step, n)'
    <2>1. step # "idle" => k.staff \in Staff
      BY <1>5 DEF CallStands
    <2>2. step = "link" => staff'[k.staff] # "none" /\ (m \/ linked'[k.staff] = Presence!Nobody)
      BY <1>1, <1>4, <1>5, <2>1 DEF CallStands
    <2>3. ASSUME step = "punch"
          PROVE  /\ IF k.row = Presence!NoDay THEN k.type = "in"
                    ELSE k.type = "out" /\ k.row.in # 0 /\ k.row.out = 0 /\ sDay'[k.staff] # Presence!NoDay
                 /\ m \/ (sDay'[k.staff] = k.row /\ (k.staff \in oneSided' \/ k.row.in <= k.at))
      BY <1>1, <1>4, <1>5, <2>1, <2>3 DEF CallStands
    <2>4. step = "adjust" => IF k.row = Presence!NoDay THEN k.in # 0 ELSE sDay'[k.staff] # Presence!NoDay
      BY <1>5, <2>1 DEF CallStands
    <2>5. step = "adjust" => Presence!Ordered(k.in, k.out)
      BY <1>5 DEF CallStands
    <2>6. QED
      BY <1>3, <1>6, <2>1, <2>2, <2>3, <2>4, <2>5 DEF CallStands
  <1>8. QED
    BY <1>1, <1>2, <1>4, <1>7

LEMMA StandsStill ==
  ASSUME StaffTyped, NEW b \in Punches, CallStands(sStep[b], sHeld[b]),
         UNCHANGED <<sStep[b], sHeld[b], sDay, oneSided>>,
         sStep[b] = "link" => linked'[sHeld[b].staff] = linked[sHeld[b].staff],
         \A s \in Staff : staff[s] # "none" => staff'[s] # "none",
         hour' \in 1..LastHour, hour <= hour'
  PROVE  CallStands(sStep[b], sHeld[b])'
  <1>1. PICK m \in BOOLEAN : m = sHeld[b].met
    BY DEF StaffTyped, WorkRow
  <1>2. sHeld'[b] = [sHeld[b] EXCEPT !.met = m]
    BY <1>1 DEF StaffTyped, WorkRow
  <1>3. QED
    BY <1>1, <1>2, StandsOn

(* Another call wrote the row of s.                                        *)
LEMMA StandsDone ==
  ASSUME StaffTyped, NEW b \in Punches, CallStands(sStep[b], sHeld[b]), NEW c \in Punches, b # c, NEW s, Presence!Done(c, s),
         UNCHANGED <<hour, staff, linked>>, oneSided \subseteq oneSided',
         \A t \in Staff : /\ t # s => sDay'[t] = sDay[t]
                          /\ sDay[t] # Presence!NoDay => sDay'[t] # Presence!NoDay
  PROVE  CallStands(sStep[b], sHeld[b])'
  <1>1. PICK m : m = (sHeld[b].met \/ sHeld[b].staff = s)
    OBVIOUS
  <1>2. m \in BOOLEAN /\ (sHeld[b].met => m) /\ (~m => sHeld[b].staff # s)
    BY <1>1 DEF StaffTyped, WorkRow
  <1>3. sStep'[b] = sStep[b] /\ sHeld'[b] = [sHeld[b] EXCEPT !.met = m]
    BY <1>1 DEF Presence!Done, StaffTyped
  <1>4. sStep[b] = "punch" => sHeld[b].staff \in Staff
    BY DEF CallStands
  <1>5. hour' \in 1..LastHour /\ hour <= hour'
    BY ServicesAssumption DEF StaffTyped
  <1>6. sStep[b] = "punch" /\ ~m => sDay'[sHeld[b].staff] = sDay[sHeld[b].staff]
    BY <1>2, <1>4
  <1>7. QED
    BY <1>2, <1>3, <1>5, <1>6, StandsOn

(* Another call, or the owner, wrote the account of s.                     *)
LEMMA StandsLinked ==
  ASSUME StaffTyped, NEW b \in Punches, CallStands(sStep[b], sHeld[b]), NEW c, b # c, NEW s,
         sHeld' = Presence!Overtaken(c, s), sStep'[b] = sStep[b],
         UNCHANGED <<hour, staff, sDay, oneSided>>,
         \A t \in Staff : t # s => linked'[t] = linked[t]
  PROVE  CallStands(sStep[b], sHeld[b])'
  <1>1. PICK m : m = (sHeld[b].met \/ (sStep[b] = "link" /\ sHeld[b].staff = s))
    OBVIOUS
  <1>2. m \in BOOLEAN /\ (sHeld[b].met => m) /\ (sStep[b] = "link" /\ ~m => sHeld[b].staff # s)
    BY <1>1 DEF StaffTyped, WorkRow
  <1>3. sHeld'[b] = [sHeld[b] EXCEPT !.met = m]
    <2>1. CASE sStep[b] = "link" /\ sHeld[b].staff = s
      BY <1>1, <2>1 DEF Presence!Overtaken
    <2>2. CASE ~(sStep[b] = "link" /\ sHeld[b].staff = s)
      <3>1. sHeld'[b] = sHeld[b] /\ m = sHeld[b].met
        BY <1>1, <2>2 DEF Presence!Overtaken, StaffTyped, WorkRow
      <3>2. QED
        BY <3>1 DEF StaffTyped, WorkRow
    <2>3. QED
      BY <2>1, <2>2
  <1>4. sStep[b] = "link" => sHeld[b].staff \in Staff
    BY DEF CallStands
  <1>5. hour' \in 1..LastHour /\ hour <= hour'
    BY ServicesAssumption DEF StaffTyped
  <1>6. sStep[b] = "link" /\ ~m => linked'[sHeld[b].staff] = linked[sHeld[b].staff]
    BY <1>2, <1>4
  <1>7. QED
    BY <1>2, <1>3, <1>5, <1>6, StandsOn

(* Flags alone change in what calls carry.                                 *)
LEMMA FlagsTyped ==
  ASSUME StaffTyped, NEW c, NEW s
  PROVE  /\ Presence!Overtaken(c, s) \in [Punches -> WorkRow]
         /\ Presence!Done(c, s) => /\ sStep' \in [Punches -> {"idle", "link", "read", "punch", "adjust"}]
                                   /\ sHeld' \in [Punches -> WorkRow]
  <1>1. ASSUME NEW k \in WorkRow, NEW m \in BOOLEAN PROVE [k EXCEPT !.met = m] \in WorkRow
    BY DEF WorkRow
  <1>2. \A b \in Punches : sHeld[b] \in WorkRow /\ [sHeld[b] EXCEPT !.met = TRUE] \in WorkRow
    BY <1>1 DEF StaffTyped
  <1>3. Presence!Overtaken(c, s) \in [Punches -> WorkRow]
    BY <1>2 DEF Presence!Overtaken
  <1>4. ASSUME NEW b \in Punches PROVE [sHeld[b] EXCEPT !.met = (@ \/ sHeld[b].staff = s)] \in WorkRow
    <2>1. PICK k \in WorkRow : k = sHeld[b]
      BY <1>2
    <2>2. PICK m \in BOOLEAN : m = (k.met \/ k.staff = s)
      BY <2>1 DEF WorkRow
    <2>3. QED
      BY <1>1, <2>1, <2>2
  <1>5. Presence!Done(c, s) => /\ sStep' \in [Punches -> {"idle", "link", "read", "punch", "adjust"}]
                               /\ sHeld' \in [Punches -> WorkRow]
    <2> SUFFICES ASSUME Presence!Done(c, s)
                 PROVE  /\ sStep' \in [Punches -> {"idle", "link", "read", "punch", "adjust"}]
                        /\ sHeld' \in [Punches -> WorkRow]
      OBVIOUS
    <2>1. sStep' \in [Punches -> {"idle", "link", "read", "punch", "adjust"}]
      BY DEF Presence!Done, StaffTyped
    <2>2. \A b \in Punches : (IF b = c THEN Presence!NoWork ELSE [sHeld[b] EXCEPT !.met = (@ \/ sHeld[b].staff = s)]) \in WorkRow
      BY <1>4, NoDayTyped
    <2>3. sHeld' \in [Punches -> WorkRow]
      BY <2>2 DEF Presence!Done
    <2>4. QED
      BY <2>1, <2>3
  <1>6. QED
    BY <1>3, <1>5

LEMMA StaffStep == StaffInv /\ [Presence!StaffNext]_staffVars => StaffInv'
  <1> SUFFICES ASSUME StaffInv, [Presence!StaffNext]_staffVars PROVE StaffInv'
    OBVIOUS
  <1> USE DEF StaffInv
  <1> DEFINE Calls == \A c \in Punches : CallStands(sStep[c], sHeld[c])
             Days == \A s \in Staff : DayStands(s)
  <1>0. hour \in Nat /\ hour \in 1..LastHour /\ hour <= hour /\ LastHour \in Nat
    BY ServicesAssumption DEF StaffTyped
  (* Days that nothing is written to.                                      *)
  <1>1. ASSUME UNCHANGED <<sDay, oneSided>>, hour' \in Nat, hour <= hour' PROVE Days'
    <2>1. ASSUME NEW s \in Staff PROVE DayStands(s)'
      <3>1. sDay[s] \in DayRow /\ sDay[s].in \in Nat
        BY ServicesAssumption DEF StaffTyped, DayRow
      <3>2. DayStands(s)
        OBVIOUS
      <3>3. QED
        BY <1>0, <1>1, <3>1, <3>2 DEF DayStands
    <2>2. QED
      BY <2>1
  (* A call goes on, and writes nothing.                                   *)
  <1>2. ASSUME NEW c \in Punches, NEW to \in {"idle", "link", "read", "punch", "adjust"}, NEW n \in WorkRow,
               Presence!Put(c, to, n), CallStands(to, n), UNCHANGED <<hour, phone, staff, linked, sDay, oneSided>>
        PROVE  StaffInv'
    <2>1. /\ sStep'[c] = to /\ sHeld'[c] = n
          /\ \A b \in Punches \ {c} : sStep'[b] = sStep[b] /\ sHeld'[b] = sHeld[b]
      BY <1>2 DEF Presence!Put, StaffTyped
    <2>2. StaffTyped'
      BY <1>2 DEF Presence!Put, StaffTyped
    <2>3. CallStands(to, n)'
      BY <1>2 DEF CallStands, Presence!Ordered
    <2>4. ASSUME NEW b \in Punches, b # c PROVE CallStands(sStep[b], sHeld[b])'
      BY <1>0, <1>2, <2>1, <2>4, StandsStill
    <2>5. Calls'
      BY <2>1, <2>3, <2>4
    <2>6. QED
      BY <1>0, <1>1, <1>2, <2>2, <2>5
  <1>3. ASSUME NEW c \in Punches, Presence!Quit(c), UNCHANGED <<hour, phone, staff, linked, sDay, oneSided>>
        PROVE  StaffInv'
    <2>1. CallStands("idle", Presence!NoWork)
      BY DEF CallStands
    <2>2. QED
      BY <1>2, <1>3, <2>1, NoDayTyped DEF Presence!Quit
  (* The row of a day is written.                                          *)
  <1>4. ASSUME NEW c \in Punches, NEW s \in Staff, NEW d \in DayRow, sDay' = [sDay EXCEPT ![s] = d], Presence!Done(c, s),
               UNCHANGED <<hour, phone, staff, linked>>, oneSided \subseteq oneSided', d # Presence!NoDay, DayFits(d),
               \A t \in oneSided' : t = s \/ t \in oneSided,
               s \notin oneSided' => IF d.out = 0 THEN d.in <= hour ELSE d.in <= d.out
        PROVE  StaffInv'
    <2>1. sDay'[s] = d /\ \A t \in Staff \ {s} : sDay'[t] = sDay[t]
      BY <1>4 DEF StaffTyped
    <2>2. StaffTyped'
      <3>1. /\ sStep' \in [Punches -> {"idle", "link", "read", "punch", "adjust"}]
            /\ sHeld' \in [Punches -> WorkRow]
        BY <1>4, FlagsTyped
      <3>2. QED
        BY <1>4, <3>1 DEF StaffTyped
    <2>3. ASSUME NEW t \in Staff PROVE DayStands(t)'
      BY <1>4, <2>1 DEF DayStands
    <2>4. ASSUME NEW b \in Punches, b # c PROVE CallStands(sStep[b], sHeld[b])'
      <3>1. \A t \in Staff : /\ t # s => sDay'[t] = sDay[t]
                             /\ sDay[t] # Presence!NoDay => sDay'[t] # Presence!NoDay
        BY <1>4, <2>1
      <3>2. QED
        BY <1>4, <2>4, <3>1, StandsDone
    <2>5. CallStands(sStep[c], sHeld[c])'
      <3>1. sStep'[c] = "idle"
        BY <1>4 DEF Presence!Done, StaffTyped
      <3>2. QED
        BY <3>1 DEF CallStands
    <2>6. QED
      BY <2>2, <2>3, <2>4, <2>5
  <1>5. CASE UNCHANGED staffVars
    <2>1. StaffTyped'
      BY <1>5 DEF staffVars, StaffTyped
    <2>2. Calls'
      BY <1>0, <1>5, StandsStill DEF staffVars
    <2>3. QED
      BY <1>0, <1>1, <1>5, <2>1, <2>2 DEF staffVars
  <1>6. CASE Presence!Tick
    <2>1. hour' \in 1..LastHour /\ hour <= hour' /\ hour' \in Nat
          /\ UNCHANGED <<phone, staff, linked, sDay, sStep, sHeld, oneSided>>
      BY <1>0, <1>6 DEF Presence!Tick
    <2>2. StaffTyped'
      BY <2>1 DEF StaffTyped
    <2>3. Calls'
      BY <2>1, StandsStill
    <2>4. QED
      BY <1>1, <2>1, <2>2, <2>3
  <1>7. ASSUME NEW u \in Users, NEW s \in Staff, Presence!TakePhone(u, s) PROVE StaffInv'
    <2>1. phone' = [phone EXCEPT ![s] = u] /\ UNCHANGED <<hour, staff, linked, sDay, sStep, sHeld, oneSided>>
      BY <1>7 DEF Presence!TakePhone
    <2>2. StaffTyped'
      BY <2>1 DEF StaffTyped
    <2>3. Calls'
      BY <1>0, <2>1, StandsStill
    <2>4. QED
      BY <1>0, <1>1, <2>1, <2>2, <2>3
  <1>8. ASSUME NEW s \in Staff, Presence!CreateStaff(s) PROVE StaffInv'
    <2>1. PICK u \in {Presence!Nobody, phone[s]} : linked' = [linked EXCEPT ![s] = u]
      BY <1>8 DEF Presence!CreateStaff
    <2>2. /\ staff[s] = "none" /\ staff' = [staff EXCEPT ![s] = "on"]
          /\ UNCHANGED <<hour, phone, sDay, sStep, sHeld, oneSided>>
      BY <1>8 DEF Presence!CreateStaff
    <2>3. StaffTyped'
      BY <2>1, <2>2 DEF StaffTyped
    <2>4. \A t \in Staff \ {s} : linked'[t] = linked[t] /\ staff'[t] = staff[t]
      BY <2>1, <2>2 DEF StaffTyped
    <2>5. ASSUME NEW b \in Punches PROVE CallStands(sStep[b], sHeld[b])'
      <3>1. sStep[b] = "link" => sHeld[b].staff \in Staff \ {s}
        BY <2>2 DEF CallStands
      <3>2. sStep[b] = "link" => linked'[sHeld[b].staff] = linked[sHeld[b].staff]
        BY <2>4, <3>1
      <3>3. \A t \in Staff : staff[t] # "none" => staff'[t] # "none"
        BY <2>2, <2>4
      <3>4. QED
        BY <1>0, <2>2, <3>2, <3>3, StandsStill
    <2>6. QED
      BY <1>0, <1>1, <2>2, <2>3, <2>5
  <1>9. ASSUME NEW s \in Staff, Presence!UpdateStaff(s) PROVE StaffInv'
    <2>1. /\ staff' = [staff EXCEPT ![s] = IF @ = "on" THEN "off" ELSE "on"]
          /\ UNCHANGED <<hour, phone, linked, sDay, sStep, sHeld, oneSided>>
      BY <1>9 DEF Presence!UpdateStaff
    <2>2. StaffTyped' /\ \A t \in Staff : staff[t] # "none" => staff'[t] # "none"
      BY <2>1 DEF StaffTyped
    <2>3. Calls'
      BY <1>0, <2>1, <2>2, StandsStill
    <2>4. QED
      BY <1>0, <1>1, <2>1, <2>2, <2>3
  <1>10. ASSUME NEW s \in Staff, NEW u \in Users, Presence!Reassign(s, u) PROVE StaffInv'
    <2>1. /\ linked' = [linked EXCEPT ![s] = u] /\ sHeld' = Presence!Overtaken(Presence!Nobody, s)
          /\ UNCHANGED <<hour, phone, staff, sDay, sStep, oneSided>>
      BY <1>10 DEF Presence!Reassign
    <2>2. StaffTyped' /\ \A t \in Staff : t # s => linked'[t] = linked[t]
      BY <2>1, FlagsTyped DEF StaffTyped
    <2>3. ASSUME NEW b \in Punches PROVE CallStands(sStep[b], sHeld[b])'
      <3>1. b # Presence!Nobody
        BY ServicesAssumption DEF Presence!Nobody
      <3>2. QED
        BY <2>1, <2>2, <3>1, StandsLinked
    <2>4. QED
      BY <1>0, <1>1, <2>1, <2>2, <2>3
  <1>11. ASSUME NEW c \in Punches, NEW u \in Users, NEW t \in {"in", "out", "sign in"}, Presence!ResolveStaff(c, u, t)
         PROVE  StaffInv'
    <2>1. PICK s \in Staff :
             /\ staff[s] = "on"
             /\ Presence!Put(c, IF Presence!Unlinked(s, u) THEN "link" ELSE "read",
                             [Presence!NoWork EXCEPT !.user = u, !.staff = s, !.type = t])
      BY <1>11 DEF Presence!ResolveStaff
    <2>2. PICK n : n = [Presence!NoWork EXCEPT !.user = u, !.staff = s, !.type = t]
      OBVIOUS
    <2>3. n \in WorkRow /\ n.staff = s
      <3>1. PICK w \in WorkRow : w = Presence!NoWork
        BY NoDayTyped
      <3>2. n = [w EXCEPT !.user = u, !.staff = s, !.type = t]
        BY <2>2, <3>1
      <3>3. QED
        BY <3>2 DEF WorkRow
    <2>4. PICK to \in {"link", "read"} : to = IF Presence!Unlinked(s, u) THEN "link" ELSE "read"
      OBVIOUS
    <2>5. CallStands(to, n)
      BY <2>1, <2>3, <2>4 DEF CallStands, Presence!Unlinked
    <2>6. UNCHANGED <<hour, phone, staff, linked, sDay, oneSided>>
      BY <1>11 DEF Presence!ResolveStaff
    <2>7. QED
      BY <1>2, <2>1, <2>2, <2>3, <2>4, <2>5, <2>6
  <1>12. ASSUME NEW c \in Punches, Presence!Link(c) PROVE StaffInv'
    <2>1. PICK k \in WorkRow : k = sHeld[c]
      BY DEF StaffTyped
    <2>2. sStep[c] = "link" /\ k.staff \in Staff
      BY <1>12, <2>1 DEF Presence!Link, CallStands
    <2>3. /\ linked' = [linked EXCEPT ![k.staff] = k.user] /\ sStep' = [sStep EXCEPT ![c] = "read"]
          /\ sHeld' = Presence!Overtaken(c, k.staff) /\ UNCHANGED <<hour, phone, staff, sDay, oneSided>>
      BY <1>12, <2>1 DEF Presence!Link
    <2>4. k.user \in Users \cup {Presence!Nobody}
      BY <2>1 DEF WorkRow
    <2>5. StaffTyped' /\ \A t \in Staff : t # k.staff => linked'[t] = linked[t]
      BY <2>2, <2>3, <2>4, FlagsTyped DEF StaffTyped
    <2>6. ASSUME NEW b \in Punches, b # c PROVE CallStands(sStep[b], sHeld[b])'
      <3>1. sStep'[b] = sStep[b]
        BY <2>3, <2>6 DEF StaffTyped
      <3>2. QED
        BY <2>3, <2>5, <2>6, <3>1, StandsLinked
    <2>7. sStep'[c] = "read" /\ sHeld'[c] = k
      BY <2>1, <2>3 DEF StaffTyped, Presence!Overtaken
    <2>8. CallStands(sStep[c], sHeld[c])'
      BY <2>2, <2>7 DEF CallStands
    <2>9. QED
      BY <1>0, <1>1, <2>3, <2>5, <2>6, <2>8
  <1>13. ASSUME NEW c \in Punches, Presence!SignedIn(c) PROVE StaffInv'
    BY <1>3, <1>13 DEF Presence!SignedIn
  <1>14. ASSUME NEW c \in Punches, Presence!PunchRead(c) PROVE StaffInv'
    <2>1. UNCHANGED <<hour, phone, staff, linked, sDay, oneSided>>
      BY <1>14 DEF Presence!PunchRead
    <2>2. PICK k \in WorkRow : k = sHeld[c]
      BY DEF StaffTyped
    <2>3. k.staff \in Staff /\ k.type \in {"in", "out"}
      BY <1>14, <2>2 DEF Presence!PunchRead, CallStands
    <2>4. PICK row \in DayRow : row = sDay[k.staff]
      BY <2>3 DEF StaffTyped
    <2>5. CASE Presence!MayPunch(k.type, row)
      <3>1. PICK n : n = [k EXCEPT !.at = hour, !.row = row, !.met = FALSE]
        OBVIOUS
      <3>2. Presence!Put(c, "punch", n)
        BY <1>14, <2>2, <2>4, <2>5, <3>1 DEF Presence!PunchRead
      <3>3. hour \in 0..LastHour
        BY <1>0
      <3>4. n \in WorkRow /\ n.staff = k.staff /\ n.type = k.type /\ n.at = hour /\ n.row = row /\ n.met = FALSE
        BY <3>1, <3>3 DEF WorkRow
      <3>5. DayStands(k.staff) /\ row.in \in Nat /\ row.out \in Nat
        BY <2>3, <2>4, <1>0 DEF DayRow
      <3>6. IF row = Presence!NoDay THEN k.type = "in" ELSE k.type = "out" /\ row.in # 0 /\ row.out = 0
        <4>1. row # Presence!NoDay => row.in # 0
          BY <1>0, <2>4, <3>5 DEF DayStands, DayFits
        <4>2. row = Presence!NoDay => row.in = 0
          BY NoDayTyped
        <4>3. QED
          BY <2>3, <2>5, <4>1, <4>2 DEF Presence!MayPunch
      <3>7. k.staff \in oneSided \/ row.in <= hour
        <4>1. row.out = 0
          BY <3>6, NoDayTyped
        <4>2. QED
          BY <2>4, <3>5, <4>1 DEF DayStands
      <3>8. CallStands("punch", n)
        BY <1>0, <2>3, <2>4, <3>4, <3>6, <3>7 DEF CallStands
      <3>9. QED
        BY <1>2, <2>1, <3>2, <3>4, <3>8
    <2>6. CASE ~Presence!MayPunch(k.type, row)
      <3>1. Presence!Quit(c)
        BY <1>14, <2>2, <2>4, <2>6 DEF Presence!PunchRead
      <3>2. QED
        BY <1>3, <2>1, <3>1
    <2>7. QED
      BY <2>5, <2>6
  <1>15. ASSUME NEW c \in Punches, Presence!PunchCreate(c) PROVE StaffInv'
    <2>1. PICK k \in WorkRow : k = sHeld[c] /\ CallStands("punch", k)
      BY <1>15 DEF Presence!PunchCreate, StaffTyped
    <2>2. k.staff \in Staff /\ k.at \in 1..hour /\ UNCHANGED <<hour, phone, staff, linked, oneSided>>
      BY <1>15, <2>1 DEF Presence!PunchCreate, CallStands
    <2>3. CASE sDay[k.staff] # Presence!NoDay
      BY <1>3, <1>15, <2>1, <2>2, <2>3 DEF Presence!PunchCreate
    <2>4. CASE sDay[k.staff] = Presence!NoDay
      <3>1. PICK d : d = [in |-> k.at, out |-> 0, inBy |-> "self", outBy |-> "-"]
        OBVIOUS
      <3>2. d.in \in 1..LastHour /\ d.in <= hour /\ d.out = 0 /\ d.in # 0
        BY <1>0, <2>2, <3>1
      <3>3. d \in DayRow
        BY <1>0, <3>1, <3>2 DEF DayRow
      <3>4. d # Presence!NoDay
        BY <3>2, NoDayTyped
      <3>5. DayFits(d)
        BY <3>1, <3>2 DEF DayFits
      <3>6. sDay' = [sDay EXCEPT ![k.staff] = d] /\ Presence!Done(c, k.staff)
        BY <1>15, <2>1, <2>4, <3>1 DEF Presence!PunchCreate
      <3>7. QED
        BY <1>4, <2>2, <3>2, <3>3, <3>4, <3>5, <3>6
    <2>5. QED
      BY <2>3, <2>4
  <1>16. ASSUME NEW c \in Punches, Presence!PunchUpdate(c) PROVE StaffInv'
    <2>1. PICK k \in WorkRow : k = sHeld[c] /\ CallStands("punch", k) /\ k.row # Presence!NoDay
      BY <1>16 DEF Presence!PunchUpdate, StaffTyped
    <2>2. k.staff \in Staff /\ k.at \in 1..hour /\ k.type = "out" /\ sDay[k.staff] # Presence!NoDay
      BY <2>1 DEF CallStands
    <2>3. PICK o \in DayRow : o = sDay[k.staff]
      BY <2>2 DEF StaffTyped
    <2>4. PICK d : d = [in |-> o.in, out |-> k.at, inBy |-> o.inBy, outBy |-> "self"]
      OBVIOUS
    <2>5. /\ sDay' = [sDay EXCEPT ![k.staff] = d] /\ Presence!Done(c, k.staff)
          /\ oneSided' = IF k.met THEN oneSided \cup {k.staff} ELSE oneSided
          /\ UNCHANGED <<hour, phone, staff, linked>>
      BY <1>16, <2>1, <2>2, <2>3, <2>4 DEF Presence!PunchUpdate
    <2>6. o.in \in 1..LastHour /\ o.inBy \in {"self", "owner"}
      BY <2>2, <2>3 DEF DayStands, DayFits
    <2>7. d.in = o.in /\ d.out = k.at /\ d.out # 0 /\ k.at \in 0..LastHour
      BY <1>0, <2>2, <2>4
    <2>8. d \in DayRow
      BY <2>3, <2>4, <2>7 DEF DayRow
    <2>9. d # Presence!NoDay /\ DayFits(d)
      BY <2>4, <2>6, <2>7, NoDayTyped DEF DayFits
    <2>10. k.staff \notin oneSided' => d.in <= d.out
      BY <2>1, <2>3, <2>5, <2>7 DEF CallStands
    <2>11. oneSided \subseteq oneSided' /\ \A t \in oneSided' : t = k.staff \/ t \in oneSided
      BY <2>5
    <2>12. QED
      BY <1>4, <2>2, <2>5, <2>7, <2>8, <2>9, <2>10, <2>11
  <1>17. ASSUME NEW c \in Punches, NEW s \in Staff, NEW in \in 0..LastHour, NEW out \in 0..LastHour,
                Presence!AdjustRead(c, s, in, out)
         PROVE  StaffInv'
    <2>1. UNCHANGED <<hour, phone, staff, linked, sDay, oneSided>> /\ Presence!Ordered(in, out)
      BY <1>17 DEF Presence!AdjustRead
    <2>2. PICK row \in DayRow : row = sDay[s]
      BY DEF StaffTyped
    <2>3. CASE row = Presence!NoDay /\ in = 0
      BY <1>3, <1>17, <2>1, <2>2, <2>3 DEF Presence!AdjustRead
    <2>4. CASE ~(row = Presence!NoDay /\ in = 0)
      <3>1. PICK n : n = [Presence!NoWork EXCEPT !.staff = s, !.in = in, !.out = out, !.row = row]
        OBVIOUS
      <3>2. PICK w \in WorkRow : w = Presence!NoWork
        BY NoDayTyped
      <3>3. n = [w EXCEPT !.staff = s, !.in = in, !.out = out, !.row = row]
        BY <3>1, <3>2
      <3>4. n \in WorkRow /\ n.staff = s /\ n.in = in /\ n.out = out /\ n.row = row
        BY <3>3 DEF WorkRow
      <3>5. Presence!Put(c, "adjust", n)
        BY <1>17, <2>2, <2>4, <3>1 DEF Presence!AdjustRead
      <3>6. CallStands("adjust", n)
        BY <2>1, <2>2, <2>4, <3>4 DEF CallStands
      <3>7. QED
        BY <1>2, <2>1, <3>4, <3>5, <3>6
    <2>5. QED
      BY <2>3, <2>4
  <1>18. ASSUME NEW c \in Punches, Presence!Adjust(c) PROVE StaffInv'
    <2>1. PICK k \in WorkRow : k = sHeld[c] /\ CallStands("adjust", k)
      BY <1>18 DEF Presence!Adjust, StaffTyped
    <2>2. k.staff \in Staff /\ Presence!Ordered(k.in, k.out) /\ UNCHANGED <<hour, phone, staff, linked>>
          /\ IF k.row = Presence!NoDay THEN k.in # 0 ELSE sDay[k.staff] # Presence!NoDay
      BY <1>18, <2>1 DEF Presence!Adjust, CallStands
    <2>3. PICK o \in DayRow : o = sDay[k.staff] /\ DayFits(o)
      BY <2>2 DEF StaffTyped, DayStands
    <2>4. CASE k.row = Presence!NoDay /\ o # Presence!NoDay
      BY <1>3, <1>18, <2>1, <2>2, <2>3, <2>4 DEF Presence!Adjust
    <2>5. CASE ~(k.row = Presence!NoDay /\ o # Presence!NoDay)
      <3>1. PICK d : d = [in    |-> IF k.in = 0 THEN o.in ELSE k.in,
                          out   |-> IF k.out = 0 THEN o.out ELSE k.out,
                          inBy  |-> IF k.in = 0 THEN o.inBy ELSE "owner",
                          outBy |-> IF k.out = 0 THEN o.outBy ELSE "owner"]
        OBVIOUS
      <3>2. /\ sDay' = [sDay EXCEPT ![k.staff] = d] /\ Presence!Done(c, k.staff)
            /\ oneSided' = IF 0 \in {k.in, k.out} THEN oneSided \cup {k.staff} ELSE oneSided
        BY <1>18, <2>1, <2>3, <2>5, <3>1 DEF Presence!Adjust
      <3>3. k.in \in 0..LastHour /\ k.out \in 0..LastHour
        BY <2>1 DEF WorkRow
      <3>4. k.in = 0 => o # Presence!NoDay
        BY <2>2, <2>3
      <3>5. d.in \in 1..LastHour /\ d.inBy \in {"self", "owner"}
        BY <1>0, <2>3, <3>1, <3>3, <3>4 DEF DayFits
      <3>6. d \in DayRow
        BY <3>1, <3>3 DEF DayRow
      <3>7. d # Presence!NoDay
        BY <1>0, <3>5, NoDayTyped
      <3>8. DayFits(d)
        BY <2>3, <3>1, <3>5 DEF DayFits
      <3>9. k.staff \notin oneSided' => d.out # 0 /\ d.in <= d.out
        BY <2>2, <3>1, <3>2 DEF Presence!Ordered
      <3>10. oneSided \subseteq oneSided' /\ \A t \in oneSided' : t = k.staff \/ t \in oneSided
        BY <3>2
      <3>11. QED
        BY <1>4, <2>2, <3>2, <3>6, <3>7, <3>8, <3>9, <3>10
    <2>6. QED
      BY <2>4, <2>5
  <1>19. QED
    BY <1>5, <1>6, <1>7, <1>8, <1>9, <1>10, <1>11, <1>12, <1>13, <1>14, <1>15, <1>16, <1>17, <1>18 DEF Presence!StaffNext

(* What a step may never do.                                               *)
StaffActs == Presence!CheckInStays /\ Presence!OwnerStays /\ Presence!LinkStays

LEMMA StaffActsStep == StaffInv /\ [Presence!StaffNext]_staffVars => [StaffActs]_staffVars
  <1> SUFFICES ASSUME StaffInv, Presence!StaffNext PROVE StaffActs
    OBVIOUS
  <1> USE DEF StaffInv
  (* A step that writes no day.                                            *)
  <1>1. ASSUME sDay' = sDay, linked' = linked \/ sStep' = sStep PROVE StaffActs
    BY <1>1 DEF StaffActs, Presence!CheckInStays, Presence!OwnerStays, Presence!LinkStays
  <1>2. ASSUME NEW c \in Punches, Presence!Link(c) PROVE StaffActs
    <2>1. PICK k \in WorkRow : k = sHeld[c]
      BY DEF StaffTyped
    <2>2. CallStands("link", k) /\ sStep[c] = "link"
      BY <1>2, <2>1 DEF Presence!Link
    <2>3. sDay' = sDay /\ linked' = [linked EXCEPT ![k.staff] = k.user]
      BY <1>2, <2>1 DEF Presence!Link
    <2>4. ASSUME NEW s \in Staff, linked[s] # Presence!Nobody, linked'[s] # linked[s]
          PROVE  \E b \in Punches : sStep[b] = "link" /\ sHeld[b].staff = s /\ sHeld[b].met
      <3>1. s = k.staff
        BY <2>3, <2>4 DEF StaffTyped
      <3>2. k.met
        BY <2>2, <2>4, <3>1 DEF CallStands
      <3>3. QED
        BY <2>1, <2>2, <3>1, <3>2
    <2>5. QED
      BY <2>3, <2>4 DEF StaffActs, Presence!CheckInStays, Presence!OwnerStays, Presence!LinkStays
  (* A step that writes the day of s.                                      *)
  <1>3. ASSUME NEW c \in Punches, NEW s \in Staff, NEW d, sDay' = [sDay EXCEPT ![s] = d], linked' = linked,
               sDay[s].in # 0 /\ d.in # sDay[s].in => d.inBy = "owner",
               sStep[c] = "punch" => sHeld[c].met \/ sDay[s].outBy # "owner" \/ d.outBy = "owner",
               sStep[c] = "punch" => sHeld[c].staff = s,
               Presence!Done(c, s)
        PROVE  StaffActs
    <2>1. sDay'[s] = d /\ \A t \in Staff \ {s} : sDay'[t] = sDay[t]
      BY <1>3 DEF StaffTyped
    <2>2. Presence!CheckInStays
      BY <1>3, <2>1 DEF Presence!CheckInStays
    <2>3. Presence!LinkStays
      BY <1>3 DEF Presence!LinkStays
    <2>4. \A b \in Punches : sStep[b] = "punch" /\ sStep'[b] = "idle" => b = c
      BY <1>3 DEF Presence!Done, StaffTyped
    <2>5. Presence!OwnerStays
      BY <1>3, <2>1, <2>4 DEF Presence!OwnerStays
    <2>6. QED
      BY <2>2, <2>3, <2>5 DEF StaffActs
  <1>4. ASSUME NEW c \in Punches, Presence!PunchCreate(c) PROVE StaffActs
    <2>1. PICK k \in WorkRow : k = sHeld[c] /\ CallStands("punch", k)
      BY <1>4 DEF Presence!PunchCreate, StaffTyped
    <2>2. k.staff \in Staff /\ UNCHANGED linked
      BY <1>4, <2>1 DEF Presence!PunchCreate, CallStands
    <2>3. CASE sDay[k.staff] # Presence!NoDay
      BY <1>1, <1>4, <2>1, <2>2, <2>3 DEF Presence!PunchCreate
    <2>4. CASE sDay[k.staff] = Presence!NoDay
      <3>1. PICK d : d = [in |-> k.at, out |-> 0, inBy |-> "self", outBy |-> "-"]
        OBVIOUS
      <3>2. sDay' = [sDay EXCEPT ![k.staff] = d] /\ Presence!Done(c, k.staff)
        BY <1>4, <2>1, <2>4, <3>1 DEF Presence!PunchCreate
      <3>3. sDay[k.staff].in = 0 /\ sDay[k.staff].outBy # "owner"
        BY <2>4 DEF Presence!NoDay
      <3>4. QED
        BY <1>3, <2>1, <2>2, <3>2, <3>3
    <2>5. QED
      BY <2>3, <2>4
  <1>5. ASSUME NEW c \in Punches, Presence!PunchUpdate(c) PROVE StaffActs
    <2>1. PICK k \in WorkRow : k = sHeld[c] /\ CallStands("punch", k) /\ k.row # Presence!NoDay
      BY <1>5 DEF Presence!PunchUpdate, StaffTyped
    <2>2. k.staff \in Staff /\ k.type = "out" /\ (k.met \/ sDay[k.staff].out = 0)
      BY <2>1 DEF CallStands
    <2>3. PICK o \in DayRow : o = sDay[k.staff] /\ DayFits(o)
      BY <2>2 DEF StaffTyped, DayStands
    <2>4. PICK d : d = [in |-> o.in, out |-> k.at, inBy |-> o.inBy, outBy |-> "self"]
      OBVIOUS
    <2>5. sDay' = [sDay EXCEPT ![k.staff] = d] /\ Presence!Done(c, k.staff) /\ linked' = linked
      BY <1>5, <2>1, <2>2, <2>3, <2>4 DEF Presence!PunchUpdate
    <2>6. d.in = o.in
      BY <2>4
    <2>7. k.met \/ o.outBy # "owner"
      BY <2>2, <2>3 DEF DayFits
    <2>8. QED
      BY <1>3, <2>1, <2>2, <2>3, <2>5, <2>6, <2>7
  <1>6. ASSUME NEW c \in Punches, Presence!Adjust(c) PROVE StaffActs
    <2>1. PICK k \in WorkRow : k = sHeld[c] /\ CallStands("adjust", k)
      BY <1>6 DEF Presence!Adjust, StaffTyped
    <2>2. k.staff \in Staff /\ UNCHANGED linked /\ sStep[c] = "adjust"
      BY <1>6, <2>1 DEF Presence!Adjust, CallStands
    <2>3. PICK o \in DayRow : o = sDay[k.staff]
      BY <2>2 DEF StaffTyped
    <2>4. CASE k.row = Presence!NoDay /\ o # Presence!NoDay
      BY <1>1, <1>6, <2>1, <2>2, <2>3, <2>4 DEF Presence!Adjust
    <2>5. CASE ~(k.row = Presence!NoDay /\ o # Presence!NoDay)
      <3>1. PICK d : d = [in    |-> IF k.in = 0 THEN o.in ELSE k.in,
                          out   |-> IF k.out = 0 THEN o.out ELSE k.out,
                          inBy  |-> IF k.in = 0 THEN o.inBy ELSE "owner",
                          outBy |-> IF k.out = 0 THEN o.outBy ELSE "owner"]
        OBVIOUS
      <3>2. sDay' = [sDay EXCEPT ![k.staff] = d] /\ Presence!Done(c, k.staff)
        BY <1>6, <2>1, <2>3, <2>5, <3>1 DEF Presence!Adjust
      <3>3. d.in # o.in => d.inBy = "owner"
        BY <3>1
      <3>4. QED
        BY <1>3, <2>2, <2>3, <3>2, <3>3
    <2>6. QED
      BY <2>4, <2>5
  <1>7. ASSUME NEW c \in Punches,
               \/ Presence!SignedIn(c) \/ Presence!PunchRead(c)
               \/ \E u, t : Presence!ResolveStaff(c, u, t)
               \/ \E s, in, out : Presence!AdjustRead(c, s, in, out)
        PROVE  StaffActs
    BY <1>1, <1>7 DEF Presence!SignedIn, Presence!PunchRead, Presence!ResolveStaff, Presence!AdjustRead
  <1>8. ASSUME \/ Presence!Tick
               \/ \E s : \/ Presence!CreateStaff(s) \/ Presence!UpdateStaff(s)
                         \/ \E u : Presence!TakePhone(u, s) \/ Presence!Reassign(s, u)
        PROVE  StaffActs
    BY <1>1, <1>8 DEF Presence!Tick, Presence!CreateStaff, Presence!UpdateStaff, Presence!TakePhone, Presence!Reassign
  <1>9. QED
    BY <1>2, <1>4, <1>5, <1>6, <1>7, <1>8 DEF Presence!StaffNext

(* A check-out that was compared is not before its check-in; a check-in    *)
(* stays until the owner moves it, what he entered is replaced only by a   *)
(* punch that read before, and only a call that was overtaken takes a row  *)
(* from an account, for any staff, users and overlapping calls             *)
(* (AttendanceService.punch and adjust, StaffService, resolveStaff).       *)
THEOREM StaffDaysAlwaysStand == ServicesSpec => StaffDaysStand
  <1> DEFINE Inv == part = "staff" => StaffInv
  <1>1. ServicesInit => Inv
    BY PartsStart, StaffStarts
  <1>2. Inv /\ [ServicesNext]_servicesVars => Inv'
    BY PartsStep, StaffStep
  <1>3. Inv => (part = "staff" => Presence!StaffTypeOK /\ Presence!OutAfterIn)
    <2> SUFFICES ASSUME StaffInv PROVE Presence!StaffTypeOK /\ Presence!OutAfterIn
      OBVIOUS
    <2>1. Presence!StaffTypeOK
      BY DEF StaffInv, StaffTyped, DayStands, DayFits, Presence!StaffTypeOK
    <2>2. Presence!OutAfterIn
      BY DEF StaffInv, DayStands, Presence!OutAfterIn
    <2>3. QED
      BY <2>1, <2>2
  <1>4. Inv /\ [ServicesNext]_servicesVars => [part = "staff" => StaffActs]_staffVars
    BY PartsStep, StaffActsStep
  <1>5. QED
    BY <1>1, <1>2, <1>3, <1>4, PTL DEF ServicesSpec, servicesVars, StaffDaysStand, StaffActs

(***************************************************************************)
(* The reads of articles.  What a refresh carries is its own job's until   *)
(* the records made another's record of it, and after a batch that tells   *)
(* ids a success has its own.                                              *)
(***************************************************************************)
OwnReads(j, t) == t.reads # None => mRecord[j].reads # None /\ t.reads <= mRecord[j].reads

OwnLog(j, t) == t.status = "success" /\ api.named /\ ~broken => t.log = j

RefreshHolds(at, k) ==
    at # "idle" =>
        /\ k.job \in Posts
        /\ k.base.reads # None => k.now.reads # None
        /\ \/ OwnReads(k.job, k.now) \/ k.job \in mMixed
           \/ at = "write" /\ k.now.log \notin {None, k.job}
        /\ at \in {"list", "write"} => OwnLog(k.job, k.now)

MetricsInv ==
    /\ Metrics!MetricsTypeOK /\ recent \in Seq(Posts)
    /\ \A j \in Posts :
          /\ mRecord[j].status = "queued" => mRecord[j].reads = None
          /\ OwnLog(j, mTarget[j])
          /\ j \in mMixed \/ OwnReads(j, mTarget[j])
    /\ \A w \in Viewers : RefreshHolds(mStep[w], mHeld[w])

(* The first item that is one of the chosen.                               *)
LEMMA MinOf ==
  ASSUME NEW S, S \subseteq Nat, S # {}
  PROVE  Metrics!Min(S) \in S /\ \A n \in S : Metrics!Min(S) <= n
  BY Least DEF Metrics!Min

(* The same for positions: those of a sequence, or of a part of it.        *)
LEMMA MinPlace ==
  ASSUME NEW n \in Nat, NEW S, S \subseteq 1..n, S # {}
  PROVE  Metrics!Min(S) \in S /\ Metrics!Min(S) # 0 /\ \A m \in S : Metrics!Min(S) <= m
  <1>1. S \subseteq Nat /\ 0 \notin S
    OBVIOUS
  <1>2. QED
    BY <1>1, MinOf

LEMMA FirstChosen ==
  ASSUME NEW items \in Seq(Posts), NEW S
  PROVE  /\ Metrics!FirstIn(items, S) \in Posts \cup {None}
         /\ items # <<>> /\ items[1] \in S => Metrics!FirstIn(items, S) = items[1]
  <1>1. PICK at : at = {n \in 1..Len(items) : items[n] \in S}
    OBVIOUS
  <1>2. Metrics!FirstIn(items, S) = IF at = {} THEN None ELSE items[Metrics!Min(at)]
    <2>1. Metrics!SelectInSeq(items, LAMBDA r : r \in S) = IF at # {} THEN Metrics!Min(at) ELSE 0
      BY <1>1 DEF Metrics!SelectInSeq
    <2>2. at # {} => Metrics!Min(at) # 0
      <3>1. at \subseteq 1..Len(items) /\ Len(items) \in Nat
        BY <1>1
      <3>2. QED
        BY <3>1, MinPlace
    <2>3. Metrics!FirstIn(items, S)
            = IF Metrics!SelectInSeq(items, LAMBDA r : r \in S) = 0 THEN None
              ELSE items[Metrics!SelectInSeq(items, LAMBDA r : r \in S)]
      BY DEF Metrics!FirstIn
    <2>4. QED
      BY <2>1, <2>2, <2>3
  <1>3. at # {} => Metrics!Min(at) \in at /\ \A n \in at : Metrics!Min(at) <= n
    <2>1. at \subseteq 1..Len(items) /\ Len(items) \in Nat
      BY <1>1
    <2>2. QED
      BY <2>1, MinPlace
  <1>4. Metrics!FirstIn(items, S) \in Posts \cup {None}
    BY <1>1, <1>2, <1>3
  <1>5. ASSUME items # <<>>, items[1] \in S PROVE Metrics!FirstIn(items, S) = items[1]
    <2>1. 1 \in at
      BY <1>1, <1>5
    <2>2. Metrics!Min(at) = 1
      BY <1>1, <1>3, <2>1
    <2>3. QED
      BY <1>2, <2>1, <2>2
  <1>6. QED
    BY <1>4, <1>5

LEMMA ChoicesFind ==
  ASSUME NEW items \in Seq(Posts), NEW choices, Len(choices) \in Nat
  PROVE  /\ Metrics!FirstChoice(items, choices) \in Posts \cup {None}
         /\ Len(choices) > 0 /\ Metrics!FirstIn(items, choices[1]) # None
              => Metrics!FirstChoice(items, choices) = Metrics!FirstIn(items, choices[1])
  <1>1. PICK at : at = {n \in 1..Len(choices) : Metrics!FirstIn(items, choices[n]) # None}
    OBVIOUS
  <1>2. Metrics!FirstChoice(items, choices)
          = IF at = {} THEN None ELSE Metrics!FirstIn(items, choices[Metrics!Min(at)])
    <2>1. Metrics!SelectInSeq(choices, LAMBDA s : Metrics!FirstIn(items, s) # None)
            = IF at # {} THEN Metrics!Min(at) ELSE 0
      BY <1>1 DEF Metrics!SelectInSeq
    <2>2. at # {} => Metrics!Min(at) # 0
      BY <1>1, MinPlace
    <2>3. Metrics!FirstChoice(items, choices)
            = IF Metrics!SelectInSeq(choices, LAMBDA s : Metrics!FirstIn(items, s) # None) = 0 THEN None
              ELSE Metrics!FirstIn(items, choices[Metrics!SelectInSeq(choices, LAMBDA s : Metrics!FirstIn(items, s) # None)])
      BY DEF Metrics!FirstChoice
    <2>4. QED
      BY <2>1, <2>2, <2>3
  <1>3. at # {} => Metrics!Min(at) \in at /\ \A n \in at : Metrics!Min(at) <= n
    BY <1>1, MinPlace
  <1>4. Metrics!FirstChoice(items, choices) \in Posts \cup {None}
    BY <1>2, FirstChosen
  <1>5. ASSUME Len(choices) > 0, Metrics!FirstIn(items, choices[1]) # None
        PROVE  Metrics!FirstChoice(items, choices) = Metrics!FirstIn(items, choices[1])
    <2>1. 1 \in at
      BY <1>1, <1>5
    <2>2. Metrics!Min(at) = 1
      BY <1>1, <1>3, <2>1
    <2>3. QED
      BY <1>2, <2>1, <2>2
  <1>6. QED
    BY <1>4, <1>5

(* What matchAnalyticsItem answers, and that an id on the list decides.    *)
LEMMA MatchedKinds ==
  ASSUME NEW items \in Seq(Posts), NEW t, NEW j
  PROVE  /\ Metrics!Matched(t, j, items) \in Posts \cup {None}
         /\ items # <<>> /\ items[1] = t.log /\ t.log # None => Metrics!Matched(t, j, items) = t.log
  <1>1. PICK choices : choices = <<{t.log}, Metrics!SameTitle(j), Metrics!NearTitle(j), Metrics!Only(items)>>
    OBVIOUS
  <1>2. Len(choices) = 4 /\ choices[1] = {t.log}
    BY <1>1
  <1>3. Metrics!Matched(t, j, items) = Metrics!FirstChoice(items, choices)
    BY <1>1 DEF Metrics!Matched
  <1>4. Metrics!Matched(t, j, items) \in Posts \cup {None}
    BY <1>2, <1>3, ChoicesFind
  <1>5. ASSUME items # <<>>, items[1] = t.log, t.log # None PROVE Metrics!Matched(t, j, items) = t.log
    <2>1. Metrics!FirstIn(items, choices[1]) = t.log
      <3>1. items[1] \in choices[1]
        BY <1>2, <1>5
      <3>2. QED
        BY <1>5, <3>1, FirstChosen
    <2>2. Metrics!FirstChoice(items, choices) = Metrics!FirstIn(items, choices[1])
      <3>1. Metrics!FirstIn(items, choices[1]) # None /\ Len(choices) > 0 /\ Len(choices) \in Nat
        BY <1>2, <1>5, <2>1
      <3>2. QED
        BY <3>1, ChoicesFind
    <2>3. QED
      BY <1>3, <2>1, <2>2
  <1>6. QED
    BY <1>4, <1>5

(* The listings.                                                           *)
LEMMA ListingsOfPosts ==
  ASSUME recent \in Seq(Posts), NEW newest \in Metrics!Listings
  PROVE  newest \in Seq(Posts)
  <1>1. PICK n \in 0..MaxPages : newest = Metrics!Pages(n)
    BY DEF Metrics!Listings
  <1>2. n * PageSize \in Nat
    BY ServicesAssumption
  <1>3. PICK m \in Nat : m = n * PageSize
    BY <1>2
  <1>4. newest = SubSeq(recent, 1, IF m < Len(recent) THEN m ELSE Len(recent))
    BY <1>1, <1>3 DEF Metrics!Pages
  <1>5. PICK last \in 0..Len(recent) : last = IF m < Len(recent) THEN m ELSE Len(recent)
    OBVIOUS
  <1>6. QED
    BY <1>4, <1>5

LEMMA ListedFirst ==
  ASSUME NEW newest \in Seq(Posts), NEW id \in Posts
  PROVE  /\ Metrics!Listed(id, newest) \in Seq(Posts)
         /\ Metrics!Listed(id, newest) # <<>> /\ Metrics!Listed(id, newest)[1] = id
  <1>1. Metrics!RemoveFirst(newest, id) \in Seq(Posts)
    <2>1. CASE ~\E n \in 1..Len(newest) : newest[n] = id
      BY <2>1 DEF Metrics!RemoveFirst
    <2>2. CASE \E n \in 1..Len(newest) : newest[n] = id
      <3>1. PICK at : at = {n \in 1..Len(newest) : newest[n] = id}
        OBVIOUS
      <3>2. Metrics!SelectInSeq(newest, LAMBDA v : v = id) = Metrics!Min(at)
        BY <2>2, <3>1 DEF Metrics!SelectInSeq
      <3>3. Metrics!Min(at) \in at
        <4>1. at \subseteq 1..Len(newest) /\ Len(newest) \in Nat /\ at # {}
          BY <2>2, <3>1
        <4>2. QED
          BY <4>1, MinPlace
      <3>4. PICK n \in 1..Len(newest) : n = Metrics!Min(at)
        BY <3>1, <3>3
      <3>5. Metrics!RemoveFirst(newest, id) = SubSeq(newest, 1, n - 1) \o SubSeq(newest, n + 1, Len(newest))
        BY <2>2, <3>2, <3>4 DEF Metrics!RemoveFirst, Metrics!RemoveAt
      <3>6. SubSeq(newest, 1, n - 1) \in Seq(Posts) /\ SubSeq(newest, n + 1, Len(newest)) \in Seq(Posts)
        OBVIOUS
      <3>7. QED
        BY <3>5, <3>6
    <2>3. QED
      BY <2>1, <2>2
  <1>2. PICK rest \in Seq(Posts) : rest = Metrics!RemoveFirst(newest, id)
    BY <1>1
  <1>3. Metrics!Listed(id, newest) = <<id>> \o rest
    BY <1>2, ServicesAssumption DEF Metrics!Listed
  <1>4. QED
    BY <1>3

(* Rows, records and refreshes, by what a step changes of them.            *)
LEMMA MetricKinds ==
  /\ \A s, l, n, u, c : (/\ s \in {"none", "queued", "success", "failed"} /\ l \in Posts \cup {None}
                         /\ n \in Metrics!Reads /\ u \in BOOLEAN /\ c \in BOOLEAN) =>
        [status |-> s, log |-> l, reads |-> n, link |-> u, checked |-> c] \in Metrics!JobTarget
  /\ \A t \in Metrics!JobTarget :
        /\ t.status \in {"none", "queued", "success", "failed"} /\ t.log \in Posts \cup {None}
        /\ t.reads \in {None} \cup Nat /\ t.link \in BOOLEAN /\ t.checked \in BOOLEAN
  /\ Metrics!NoTarget \in Metrics!JobTarget /\ Metrics!NoHeld \in Metrics!HeldRefresh
  /\ Metrics!NoTarget.reads = None /\ Metrics!NoTarget.status = "none"
  /\ Metrics!NewRecord \in Metrics!RemoteRecord
  /\ Metrics!NewRecord.status = "queued" /\ Metrics!NewRecord.reads = None
  BY ServicesAssumption
  DEF Metrics!JobTarget, Metrics!Reads, Metrics!NoTarget, Metrics!NoHeld, Metrics!HeldRefresh,
      Metrics!RemoteRecord, Metrics!NewRecord

LEMMA MetricsStarts ==
  ASSUME Metrics!MetricsInit
  PROVE  MetricsInv
  <1>1. /\ mTarget = [j \in Posts |-> Metrics!NoTarget] /\ api \in Metrics!Api
        /\ mRecord = [j \in Posts |-> Metrics!NewRecord] /\ recent = <<>> /\ mMixed = {}
        /\ mStep = [w \in Viewers |-> "idle"] /\ mHeld = [w \in Viewers |-> Metrics!NoHeld]
    BY DEF Metrics!MetricsInit
  <1>2. Metrics!MetricsTypeOK
    BY <1>1, MetricKinds DEF Metrics!MetricsTypeOK
  <1>3. recent \in Seq(Posts)
    BY <1>1
  <1>4. \A w \in Viewers : RefreshHolds(mStep[w], mHeld[w])
    BY <1>1 DEF RefreshHolds
  <1>5. \A j \in Posts :
          /\ mRecord[j].status = "queued" => mRecord[j].reads = None
          /\ OwnLog(j, mTarget[j])
          /\ j \in mMixed \/ OwnReads(j, mTarget[j])
    BY <1>1, MetricKinds DEF OwnLog, OwnReads
  <1>6. QED
    BY <1>2, <1>3, <1>4, <1>5 DEF MetricsInv

(* ALQQ goes on: what a record told it still tells, or more.               *)
LEMMA RecordsGrow ==
  ASSUME MetricsInv, NEW j \in Posts, NEW r \in Metrics!RemoteRecord,
         mRecord' = [mRecord EXCEPT ![j] = r], r.status = "queued" => r.reads = None,
         mRecord[j].reads # None => r.reads # None /\ mRecord[j].reads <= r.reads,
         recent' \in Seq(Posts),
         UNCHANGED <<mTarget, api, mStep, mHeld, broken, mMixed>>
  PROVE  MetricsInv'
  <1>1. /\ mRecord'[j] = r /\ \A i \in Posts \ {j} : mRecord'[i] = mRecord[i]
        /\ mRecord' \in [Posts -> Metrics!RemoteRecord]
    BY DEF MetricsInv, Metrics!MetricsTypeOK
  <1>2. r.reads \in {None} \cup Nat /\ mRecord[j].reads \in {None} \cup Nat
    BY ServicesAssumption DEF MetricsInv, Metrics!MetricsTypeOK, Metrics!RemoteRecord, Metrics!Reads
  <1>3. ASSUME NEW i \in Posts, NEW t \in Metrics!JobTarget, OwnReads(i, t) PROVE OwnReads(i, t)'
    <2>1. CASE i # j
      BY <1>1, <1>3, <2>1 DEF OwnReads
    <2>2. CASE i = j /\ t.reads = None
      BY <2>2 DEF OwnReads
    <2>3. CASE i = j /\ t.reads # None
      <3>1. mRecord[j].reads # None /\ t.reads <= mRecord[j].reads
        BY <1>3, <2>3 DEF OwnReads
      <3>2. r.reads # None /\ mRecord[j].reads <= r.reads
        BY <3>1
      <3>3. t.reads \in Nat /\ mRecord[j].reads \in Nat /\ r.reads \in Nat
        BY <1>2, <2>3, <3>1, <3>2, MetricKinds
      <3>4. t.reads <= r.reads
        BY <3>1, <3>2, <3>3
      <3>5. QED
        BY <1>1, <2>3, <3>2, <3>4 DEF OwnReads
    <2>4. QED
      BY <2>1, <2>2, <2>3
  <1>4. ASSUME NEW w \in Viewers PROVE RefreshHolds(mStep[w], mHeld[w])'
    <2>1. PICK k \in Metrics!HeldRefresh : k = mHeld[w]
      BY DEF MetricsInv, Metrics!MetricsTypeOK
    <2>2. RefreshHolds(mStep[w], k) /\ k.now \in Metrics!JobTarget
      BY <2>1 DEF MetricsInv, Metrics!HeldRefresh
    <2>3. OwnLog(k.job, k.now)' <=> OwnLog(k.job, k.now)
      BY DEF OwnLog
    <2>4. RefreshHolds(mStep[w], k)'
      BY <1>3, <2>2, <2>3 DEF RefreshHolds
    <2>5. QED
      BY <2>1, <2>4 DEF RefreshHolds
  <1>5. ASSUME NEW i \in Posts
        PROVE  /\ mRecord'[i].status = "queued" => mRecord'[i].reads = None
               /\ OwnLog(i, mTarget[i])'
               /\ i \in mMixed' \/ OwnReads(i, mTarget[i])'
    <2>1. PICK t \in Metrics!JobTarget : t = mTarget[i]
      BY DEF MetricsInv, Metrics!MetricsTypeOK
    <2>2. OwnLog(i, t) /\ (i \in mMixed \/ OwnReads(i, t))
      BY <2>1 DEF MetricsInv
    <2>3. OwnLog(i, t)' /\ (i \in mMixed' \/ OwnReads(i, t)')
      BY <1>3, <2>2 DEF OwnLog
    <2>4. mRecord'[i].status = "queued" => mRecord'[i].reads = None
      BY <1>1 DEF MetricsInv
    <2>5. QED
      BY <2>1, <2>3, <2>4 DEF OwnLog, OwnReads
  <1>6. Metrics!MetricsTypeOK'
    <2>1. recent' \in {<<>>} \cup [1..Len(recent') -> Posts]
      OBVIOUS
    <2>2. QED
      BY <1>1, <2>1 DEF MetricsInv, Metrics!MetricsTypeOK
  <1>7. QED
    BY <1>4, <1>5, <1>6 DEF MetricsInv

LEMMA EndsStep ==
  ASSUME MetricsInv, NEW j \in Posts, Metrics!Ends(j)
  PROVE  MetricsInv'
  <1>1. /\ mRecord[j].status = "queued" /\ mRecord[j].reads = None
        /\ UNCHANGED <<mTarget, api, mStep, mHeld, broken, mMixed>>
    BY DEF Metrics!Ends, MetricsInv
  <1>2. mRecord[j] \in Metrics!RemoteRecord
    BY DEF MetricsInv, Metrics!MetricsTypeOK
  <1>3. CASE mRecord' = [mRecord EXCEPT ![j].status = "failed"] /\ UNCHANGED recent
    <2>1. PICK r : r = [mRecord[j] EXCEPT !.status = "failed"]
      OBVIOUS
    <2>2. r \in Metrics!RemoteRecord /\ r.status = "failed" /\ r.reads = None
      BY <1>1, <1>2, <2>1 DEF Metrics!RemoteRecord
    <2>3. mRecord' = [mRecord EXCEPT ![j] = r] /\ recent' \in Seq(Posts)
      BY <1>3, <2>1 DEF MetricsInv
    <2>4. QED
      BY <1>1, <2>2, <2>3, RecordsGrow
  <1>4. ASSUME NEW shown \in BOOLEAN,
               mRecord' = [mRecord EXCEPT ![j] = [status |-> "success", reads |-> None, titled |-> shown]],
               recent' = <<j>> \o recent
        PROVE  MetricsInv'
    <2>1. PICK r : r = [status |-> "success", reads |-> None, titled |-> shown]
      OBVIOUS
    <2>2. r \in Metrics!RemoteRecord /\ r.status = "success" /\ r.reads = None
      BY <2>1 DEF Metrics!RemoteRecord, Metrics!Reads
    <2>3. mRecord' = [mRecord EXCEPT ![j] = r] /\ recent' \in Seq(Posts)
      BY <1>4, <2>1 DEF MetricsInv
    <2>4. QED
      BY <1>1, <2>2, <2>3, RecordsGrow
  <1>5. QED
    BY <1>3, <1>4 DEF Metrics!Ends

LEMMA IsReadStep ==
  ASSUME MetricsInv, NEW j \in Posts, Metrics!IsRead(j)
  PROVE  MetricsInv'
  <1>1. PICK n \in 0..MaxReads :
           /\ mRecord[j].reads \in {None} \cup 0..(n - 1)
           /\ mRecord' = [mRecord EXCEPT ![j].reads = n]
    BY DEF Metrics!IsRead
  <1>2. mRecord[j].status = "success" /\ UNCHANGED <<mTarget, api, recent, mStep, mHeld, broken, mMixed>>
    BY DEF Metrics!IsRead
  <1>3. mRecord[j] \in Metrics!RemoteRecord
    BY DEF MetricsInv, Metrics!MetricsTypeOK
  <1>4. PICK r : r = [mRecord[j] EXCEPT !.reads = n]
    OBVIOUS
  <1>5. r \in Metrics!RemoteRecord /\ r.status = "success" /\ r.reads = n
    BY <1>2, <1>3, <1>4 DEF Metrics!RemoteRecord, Metrics!Reads
  <1>6. n \in Nat /\ n # None
    BY ServicesAssumption
  <1>7. mRecord[j].reads # None => mRecord[j].reads <= r.reads
    BY <1>1, <1>5, <1>6
  <1>8. mRecord' = [mRecord EXCEPT ![j] = r] /\ recent' \in Seq(Posts)
    BY <1>1, <1>2, <1>4 DEF MetricsInv
  <1>9. QED
    BY <1>2, <1>5, <1>6, <1>7, <1>8, RecordsGrow

(* Steps of a refresh.  The records stay.                                  *)
LEMMA RefreshMoves ==
  ASSUME MetricsInv, NEW w \in Viewers, NEW at \in {"idle", "batch", "list", "write"},
         NEW k \in Metrics!HeldRefresh,
         mStep' = [mStep EXCEPT ![w] = at], mHeld' = [mHeld EXCEPT ![w] = k],
         broken => broken',
         UNCHANGED <<mTarget, api, mRecord, recent, mMixed>>,
         RefreshHolds(at, k)'
  PROVE  MetricsInv'
  <1>1. /\ mStep'[w] = at /\ mHeld'[w] = k
        /\ \A v \in Viewers \ {w} : mStep'[v] = mStep[v] /\ mHeld'[v] = mHeld[v]
        /\ mStep' \in [Viewers -> {"idle", "batch", "list", "write"}]
        /\ mHeld' \in [Viewers -> Metrics!HeldRefresh]
    BY DEF MetricsInv, Metrics!MetricsTypeOK
  <1>2. Metrics!MetricsTypeOK'
    BY <1>1 DEF MetricsInv, Metrics!MetricsTypeOK
  <1>3. ASSUME NEW v \in Viewers PROVE RefreshHolds(mStep[v], mHeld[v])'
    <2>1. CASE v = w
      BY <1>1, <2>1 DEF RefreshHolds
    <2>2. CASE v # w
      <3>1. RefreshHolds(mStep[v], mHeld[v])
        BY DEF MetricsInv
      <3>2. QED
        BY <1>1, <2>2, <3>1 DEF RefreshHolds, OwnReads, OwnLog
    <2>3. QED
      BY <2>1, <2>2
  <1>4. \A j \in Posts :
          /\ mRecord'[j].status = "queued" => mRecord'[j].reads = None
          /\ OwnLog(j, mTarget[j])'
          /\ j \in mMixed' \/ OwnReads(j, mTarget[j])'
    BY DEF MetricsInv, OwnLog, OwnReads
  <1>5. QED
    BY <1>2, <1>3, <1>4 DEF MetricsInv

LEMMA ViewStep ==
  ASSUME MetricsInv, NEW w \in Viewers, NEW j \in Posts, Metrics!View(w, j)
  PROVE  MetricsInv'
  <1>1. PICK forced \in BOOLEAN :
           mHeld' = [mHeld EXCEPT ![w] = [job |-> j, forced |-> forced, base |-> mTarget[j], now |-> mTarget[j]]]
    BY DEF Metrics!View
  <1>2. /\ mStep' = [mStep EXCEPT ![w] = "batch"]
        /\ UNCHANGED <<mTarget, api, mRecord, recent, broken, mMixed>>
    BY DEF Metrics!View
  <1>3. PICK t \in Metrics!JobTarget : t = mTarget[j]
    BY DEF MetricsInv, Metrics!MetricsTypeOK
  <1>4. PICK k : k = [job |-> j, forced |-> forced, base |-> t, now |-> t]
    OBVIOUS
  <1>5. k \in Metrics!HeldRefresh /\ k.job = j /\ k.base = t /\ k.now = t
    BY <1>4 DEF Metrics!HeldRefresh
  <1>6. RefreshHolds("batch", k)'
    <2>1. j \in mMixed \/ OwnReads(j, t)
      BY <1>3 DEF MetricsInv
    <2>2. QED
      BY <1>2, <1>5, <2>1 DEF RefreshHolds, OwnReads
  <1>7. QED
    BY <1>1, <1>2, <1>3, <1>4, <1>5, <1>6, RefreshMoves

LEMMA ReadBatchStep ==
  ASSUME MetricsInv, NEW w \in Viewers, Metrics!ReadBatch(w)
  PROVE  MetricsInv'
  <1>1. PICK k \in Metrics!HeldRefresh : k = mHeld[w]
    BY DEF MetricsInv, Metrics!MetricsTypeOK
  <1>2. mStep[w] = "batch" /\ UNCHANGED <<mTarget, api, mRecord, recent, broken, mMixed>>
    BY DEF Metrics!ReadBatch
  <1>3. RefreshHolds("batch", k) /\ k.job \in Posts /\ k.now \in Metrics!JobTarget
    BY <1>1, <1>2 DEF MetricsInv, RefreshHolds, Metrics!HeldRefresh
  <1>4. PICK r \in Metrics!RemoteRecord : r = mRecord[k.job]
    BY <1>3 DEF MetricsInv, Metrics!MetricsTypeOK
  <1>5. PICK t : t = Metrics!FromBatch(k.now, r, k.job)
    OBVIOUS
  <1>6. PICK public \in BOOLEAN : public = (k.now.link \/ (api.public /\ r.status = "success"))
    BY <1>3
  <1>7. PICK log \in Posts \cup {None} :
           log = IF api.named /\ r.status = "success" THEN k.job ELSE k.now.log
    BY <1>3, MetricKinds
  <1>8. t = [status |-> r.status, log |-> log, reads |-> k.now.reads, link |-> public, checked |-> k.now.checked]
    BY <1>3, <1>5, <1>6, <1>7 DEF Metrics!FromBatch, Metrics!JobTarget
  <1>9. /\ t \in Metrics!JobTarget /\ t.status = r.status /\ t.log = log /\ t.reads = k.now.reads
    BY <1>3, <1>8 DEF Metrics!JobTarget, Metrics!RemoteRecord
  <1>10. PICK n : n = [k EXCEPT !.now = t]
    OBVIOUS
  <1>11. n \in Metrics!HeldRefresh /\ n.job = k.job /\ n.base = k.base /\ n.now = t
    BY <1>9, <1>10 DEF Metrics!HeldRefresh
  <1>12. PICK at \in {"list", "write"} : at = IF Metrics!Enriches(n) THEN "list" ELSE "write"
    OBVIOUS
  <1>13. mHeld' = [mHeld EXCEPT ![w] = n] /\ mStep' = [mStep EXCEPT ![w] = at]
    BY <1>1, <1>4, <1>5, <1>10, <1>12 DEF Metrics!ReadBatch
  <1>14. RefreshHolds(at, n)'
    <2>1. k.base.reads # None => t.reads # None
      BY <1>3, <1>9 DEF RefreshHolds
    <2>2. OwnReads(k.job, t)' \/ k.job \in mMixed'
      BY <1>2, <1>3, <1>9 DEF RefreshHolds, OwnReads
    <2>3. OwnLog(k.job, t)'
      BY <1>2, <1>7, <1>9 DEF OwnLog
    <2>4. QED
      BY <1>3, <1>11, <2>1, <2>2, <2>3 DEF RefreshHolds
  <1>15. QED
    BY <1>2, <1>11, <1>13, <1>14, RefreshMoves

LEMMA BatchFailsStep ==
  ASSUME MetricsInv, NEW w \in Viewers, Metrics!BatchFails(w)
  PROVE  MetricsInv'
  <1>1. /\ mStep' = [mStep EXCEPT ![w] = "idle"] /\ mHeld' = [mHeld EXCEPT ![w] = Metrics!NoHeld]
        /\ UNCHANGED <<mTarget, api, mRecord, recent, broken, mMixed>>
    BY DEF Metrics!BatchFails
  <1>2. RefreshHolds("idle", Metrics!NoHeld)'
    BY DEF RefreshHolds
  <1>3. QED
    BY <1>1, <1>2, MetricKinds, RefreshMoves

LEMMA ReadRecordsStep ==
  ASSUME MetricsInv, NEW w \in Viewers, Metrics!ReadRecords(w)
  PROVE  MetricsInv'
  <1>1. PICK k \in Metrics!HeldRefresh : k = mHeld[w]
    BY DEF MetricsInv, Metrics!MetricsTypeOK
  <1>2. /\ mStep[w] = "list" /\ mStep' = [mStep EXCEPT ![w] = "write"]
        /\ UNCHANGED <<mTarget, api, mRecord, recent, mMixed>>
    BY DEF Metrics!ReadRecords
  <1>3. PICK newest \in Metrics!Listings, byId \in BOOLEAN :
           /\ mHeld' = [mHeld EXCEPT ![w].now = Metrics!Enriched(@, k.job,
                                        IF byId THEN Metrics!Listed(k.now.log, newest) ELSE newest)]
           /\ broken' = (broken \/ ~byId \/ newest # Metrics!AllPages)
    BY <1>1 DEF Metrics!ReadRecords
  <1>4. RefreshHolds("list", k) /\ k.job \in Posts /\ k.job # None /\ k.now \in Metrics!JobTarget
    BY <1>1, <1>2, ServicesAssumption DEF MetricsInv, RefreshHolds, Metrics!HeldRefresh
  <1>5. PICK b \in Metrics!JobTarget : b = k.now
    BY <1>4
  <1>6. newest \in Seq(Posts)
    BY ListingsOfPosts DEF MetricsInv
  <1>7. PICK items \in Seq(Posts) : items = IF byId THEN Metrics!Listed(b.log, newest) ELSE newest
    <2>1. CASE byId /\ b.log # None
      <3>1. b.log \in Posts
        BY <2>1, MetricKinds
      <3>2. Metrics!Listed(b.log, newest) \in Seq(Posts)
        BY <1>6, <3>1, ListedFirst
      <3>3. QED
        BY <2>1, <3>2
    <2>2. CASE ~(byId /\ b.log # None)
      BY <1>6, <2>2 DEF Metrics!Listed
    <2>3. QED
      BY <2>1, <2>2
  <1>8. PICK m \in Posts \cup {None} : m = Metrics!Matched(b, k.job, items)
    BY <1>7, MatchedKinds
  <1>9. broken' = FALSE /\ b.log = k.job => m = k.job
    <2> SUFFICES ASSUME broken' = FALSE, b.log = k.job PROVE m = k.job
      OBVIOUS
    <2>1. byId
      BY <1>3
    <2>2. items # <<>> /\ items[1] = k.job
      BY <1>4, <1>6, <1>7, <2>1, ListedFirst
    <2>3. QED
      BY <1>4, <1>8, <2>2, MatchedKinds
  <1>10. PICK t : t = Metrics!Enriched(b, k.job, items)
    OBVIOUS
  <1>11. PICK n : n = [k EXCEPT !.now = t]
    OBVIOUS
  <1>12. mHeld' = [mHeld EXCEPT ![w] = n]
    BY <1>1, <1>3, <1>5, <1>7, <1>10, <1>11 DEF MetricsInv, Metrics!MetricsTypeOK
  <1>13. OwnReads(k.job, b) \/ k.job \in mMixed
    BY <1>4, <1>5 DEF RefreshHolds
  <1>14. \A r : OwnReads(k.job, r)' <=> OwnReads(k.job, r)
    BY <1>2 DEF OwnReads
  <1>15. /\ t \in Metrics!JobTarget
         /\ b.reads # None => t.reads # None
         /\ \/ OwnReads(k.job, t) \/ k.job \in mMixed
            \/ t.log \notin {None, k.job}
         /\ OwnLog(k.job, t)'
    <2>1. OwnLog(k.job, b) /\ (OwnLog(k.job, b)' \/ broken' # FALSE)
      BY <1>2, <1>3, <1>4, <1>5 DEF RefreshHolds, OwnLog
    <2>2. CASE b.status \notin {"success", "queued"}
      <3>1. t = b
        BY <1>10, <2>2 DEF Metrics!Enriched
      <3>2. OwnLog(k.job, t)'
        BY <2>2, <3>1 DEF OwnLog
      <3>3. QED
        BY <1>13, <3>1, <3>2
    <2>3. CASE b.status \in {"success", "queued"} /\ m = None
      <3>1. t = [b EXCEPT !.checked = TRUE]
        BY <1>8, <1>10, <2>3 DEF Metrics!Enriched, Metrics!Applied
      <3>2. t \in Metrics!JobTarget /\ t.log = b.log /\ t.reads = b.reads /\ t.status = b.status
        BY <3>1 DEF Metrics!JobTarget
      <3>3. OwnLog(k.job, t)'
        <4> SUFFICES ASSUME t.status = "success", api.named, broken' = FALSE PROVE t.log = k.job
          BY <1>2, <1>3 DEF OwnLog
        <4>1. ~broken
          BY <1>3
        <4>2. b.log = k.job
          BY <2>1, <3>2, <4>1 DEF OwnLog
        <4>3. QED
          BY <1>9, <2>3, <3>2, <4>2
      <3>4. QED
        BY <1>13, <3>2, <3>3 DEF OwnReads
    <2>4. CASE b.status \in {"success", "queued"} /\ m # None
      <3>1. PICK reads \in {None} \cup Nat : reads = IF mRecord[m].reads # None THEN mRecord[m].reads ELSE b.reads
        <4>1. mRecord[m] \in Metrics!RemoteRecord
          BY <2>4 DEF MetricsInv, Metrics!MetricsTypeOK
        <4>2. mRecord[m].reads \in {None} \cup Nat
          BY <4>1, ServicesAssumption DEF Metrics!RemoteRecord, Metrics!Reads
        <4>3. QED
          BY <4>2, MetricKinds
      <3>2. reads \in Metrics!Reads
        <4>1. mRecord[m] \in Metrics!RemoteRecord
          BY <2>4 DEF MetricsInv, Metrics!MetricsTypeOK
        <4>2. QED
          BY <3>1, <4>1 DEF Metrics!RemoteRecord, Metrics!JobTarget
      <3>3. PICK public \in BOOLEAN : public = (b.link \/ api.public)
        BY MetricKinds
      <3>4. t = [status |-> b.status, log |-> m, reads |-> reads, link |-> public, checked |-> TRUE]
        BY <1>8, <1>10, <2>4, <3>1, <3>3 DEF Metrics!Enriched, Metrics!Applied, Metrics!JobTarget
      <3>5. t \in Metrics!JobTarget /\ t.status = b.status /\ t.log = m /\ t.reads = reads
        BY <2>4, <3>2, <3>4 DEF Metrics!JobTarget
      <3>6. b.reads # None => t.reads # None
        BY <3>1, <3>5
      <3>7. OwnLog(k.job, t)'
        <4> SUFFICES ASSUME t.status = "success", api.named, broken' = FALSE PROVE t.log = k.job
          BY <1>2, <1>3 DEF OwnLog
        <4>1. ~broken
          BY <1>3
        <4>2. b.log = k.job
          BY <2>1, <3>5, <4>1 DEF OwnLog
        <4>3. QED
          BY <1>9, <3>5, <4>2
      <3>8. OwnReads(k.job, t) \/ k.job \in mMixed \/ t.log \notin {None, k.job}
        <4>1. CASE m # k.job
          BY <2>4, <3>5, <4>1
        <4>2. CASE m = k.job /\ mRecord[k.job].reads # None
          <5>1. mRecord[k.job] \in Metrics!RemoteRecord
            BY <1>4 DEF MetricsInv, Metrics!MetricsTypeOK
          <5>2. mRecord[k.job].reads \in Nat
            BY <4>2, <5>1, ServicesAssumption DEF Metrics!RemoteRecord, Metrics!Reads
          <5>3. QED
            BY <3>1, <3>5, <4>2, <5>2 DEF OwnReads
        <4>3. CASE m = k.job /\ mRecord[k.job].reads = None
          <5>1. t.reads = b.reads
            BY <3>1, <3>5, <4>3
          <5>2. QED
            BY <1>13, <5>1 DEF OwnReads
        <4>4. QED
          BY <4>1, <4>2, <4>3
      <3>9. QED
        BY <3>5, <3>6, <3>7, <3>8
    <2>5. QED
      BY <2>2, <2>3, <2>4
  <1>16. n \in Metrics!HeldRefresh /\ n.job = k.job /\ n.base = k.base /\ n.now = t
    BY <1>11, <1>15 DEF Metrics!HeldRefresh
  <1>17. RefreshHolds("write", n)'
    <2>1. n.base.reads # None => n.now.reads # None
      BY <1>4, <1>5, <1>15, <1>16 DEF RefreshHolds
    <2>2. QED
      BY <1>2, <1>4, <1>14, <1>15, <1>16, <2>1 DEF RefreshHolds
  <1>18. broken => broken'
    BY <1>3
  <1>19. QED
    BY <1>2, <1>12, <1>16, <1>17, <1>18, RefreshMoves

LEMMA WriteTargetStep ==
  ASSUME MetricsInv, NEW w \in Viewers, Metrics!WriteTarget(w)
  PROVE  /\ MetricsInv'
         /\ Metrics!ReadsVanishLate
  <1>1. PICK k \in Metrics!HeldRefresh : k = mHeld[w]
    BY DEF MetricsInv, Metrics!MetricsTypeOK
  <1>2. /\ mStep[w] = "write"
        /\ mStep' = [mStep EXCEPT ![w] = "idle"] /\ mHeld' = [mHeld EXCEPT ![w] = Metrics!NoHeld]
        /\ UNCHANGED <<api, mRecord, recent, broken>>
    BY DEF Metrics!WriteTarget
  <1>3. RefreshHolds("write", k) /\ k.job \in Posts /\ k.now \in Metrics!JobTarget
    BY <1>1, <1>2 DEF MetricsInv, RefreshHolds, Metrics!HeldRefresh
  <1>4. PICK j \in Posts : j = k.job
    BY <1>3
  <1>5. PICK t \in Metrics!JobTarget : t = k.now
    BY <1>3
  <1>6. /\ mTarget' = [mTarget EXCEPT ![j] = t]
        /\ mMixed' = mMixed \cup {i \in {j} : t.log \notin {None, i}}
    BY <1>1, <1>4, <1>5 DEF Metrics!WriteTarget
  <1>7. /\ mTarget'[j] = t /\ \A i \in Posts \ {j} : mTarget'[i] = mTarget[i]
        /\ mTarget' \in [Posts -> Metrics!JobTarget]
        /\ mStep'[w] = "idle" /\ \A v \in Viewers \ {w} : mStep'[v] = mStep[v] /\ mHeld'[v] = mHeld[v]
        /\ mStep' \in [Viewers -> {"idle", "batch", "list", "write"}]
        /\ mHeld' \in [Viewers -> Metrics!HeldRefresh]
    BY <1>2, <1>6, MetricKinds DEF MetricsInv, Metrics!MetricsTypeOK
  <1>8. mMixed \subseteq mMixed' /\ mMixed' \subseteq Posts
    BY <1>6 DEF MetricsInv, Metrics!MetricsTypeOK
  <1>9. \A i \in Posts : \A r : (OwnReads(i, r)' <=> OwnReads(i, r)) /\ (OwnLog(i, r)' <=> OwnLog(i, r))
    BY <1>2 DEF OwnReads, OwnLog
  <1>10. Metrics!MetricsTypeOK'
    BY <1>2, <1>7, <1>8 DEF MetricsInv, Metrics!MetricsTypeOK
  <1>11. \A v \in Viewers : RefreshHolds(mStep[v], mHeld[v])'
    <2> SUFFICES ASSUME NEW v \in Viewers PROVE RefreshHolds(mStep[v], mHeld[v])'
      OBVIOUS
    <2>1. CASE v = w
      BY <1>7, <2>1 DEF RefreshHolds
    <2>2. CASE v # w
      <3>1. RefreshHolds(mStep[v], mHeld[v])
        BY DEF MetricsInv
      <3>2. QED
        BY <1>2, <1>7, <1>8, <2>2, <3>1 DEF RefreshHolds, OwnReads, OwnLog
    <2>3. QED
      BY <2>1, <2>2
  <1>12. \A i \in Posts :
          /\ mRecord'[i].status = "queued" => mRecord'[i].reads = None
          /\ OwnLog(i, mTarget[i])'
          /\ i \in mMixed' \/ OwnReads(i, mTarget[i])'
    <2> SUFFICES ASSUME NEW i \in Posts
                 PROVE  /\ mRecord'[i].status = "queued" => mRecord'[i].reads = None
                        /\ OwnLog(i, mTarget[i])'
                        /\ i \in mMixed' \/ OwnReads(i, mTarget[i])'
      OBVIOUS
    <2>1. CASE i = j
      <3>1. OwnLog(j, t) /\ (OwnReads(j, t) \/ j \in mMixed \/ t.log \notin {None, j})
        BY <1>3, <1>4, <1>5 DEF RefreshHolds
      <3>2. OwnReads(j, t) \/ j \in mMixed'
        BY <1>6, <3>1
      <3>3. QED
        BY <1>2, <1>7, <2>1, <3>1, <3>2 DEF MetricsInv, OwnLog, OwnReads
    <2>2. CASE i # j
      BY <1>2, <1>7, <1>8, <2>2 DEF MetricsInv, OwnLog, OwnReads
    <2>3. QED
      BY <2>1, <2>2
  <1>13. MetricsInv'
    BY <1>2, <1>10, <1>11, <1>12 DEF MetricsInv
  <1>14. Metrics!ReadsVanishLate
    <2> SUFFICES ASSUME NEW i \in Posts, mTarget[i].reads # None, mTarget'[i].reads = None
                 PROVE  \E v \in Viewers : mStep[v] = "write" /\ mHeld[v].job = i /\ mHeld[v].base.reads = None
      BY DEF Metrics!ReadsVanishLate
    <2>1. i = j
      BY <1>7
    <2>2. t.reads = None
      BY <1>7, <2>1
    <2>3. k.base.reads = None
      BY <1>3, <1>5, <2>2 DEF RefreshHolds
    <2>4. QED
      BY <1>1, <1>2, <1>4, <2>1, <2>3
  <1>15. QED
    BY <1>13, <1>14

LEMMA SubmitTargetStep ==
  ASSUME MetricsInv, NEW j \in Posts, Metrics!Submit(j)
  PROVE  /\ MetricsInv'
         /\ Metrics!ReadsVanishLate
  <1>1. /\ mTarget' = [mTarget EXCEPT ![j].status = "queued"]
        /\ UNCHANGED <<api, mRecord, recent, mStep, mHeld, broken, mMixed>>
    BY DEF Metrics!Submit
  <1>2. PICK b \in Metrics!JobTarget : b = mTarget[j]
    BY DEF MetricsInv, Metrics!MetricsTypeOK
  <1>3. PICK t : t = [b EXCEPT !.status = "queued"]
    OBVIOUS
  <1>4. t \in Metrics!JobTarget /\ t.status = "queued" /\ t.reads = b.reads
    BY <1>3 DEF Metrics!JobTarget
  <1>5. /\ mTarget'[j] = t /\ \A i \in Posts \ {j} : mTarget'[i] = mTarget[i]
        /\ mTarget' \in [Posts -> Metrics!JobTarget]
    BY <1>1, <1>2, <1>3, <1>4 DEF MetricsInv, Metrics!MetricsTypeOK
  <1>6. Metrics!MetricsTypeOK'
    BY <1>1, <1>5 DEF MetricsInv, Metrics!MetricsTypeOK
  <1>7. \A w \in Viewers : RefreshHolds(mStep[w], mHeld[w])'
    BY <1>1 DEF MetricsInv, RefreshHolds, OwnReads, OwnLog
  <1>8. \A i \in Posts :
          /\ mRecord'[i].status = "queued" => mRecord'[i].reads = None
          /\ OwnLog(i, mTarget[i])'
          /\ i \in mMixed' \/ OwnReads(i, mTarget[i])'
    <2> SUFFICES ASSUME NEW i \in Posts
                 PROVE  /\ mRecord'[i].status = "queued" => mRecord'[i].reads = None
                        /\ OwnLog(i, mTarget[i])'
                        /\ i \in mMixed' \/ OwnReads(i, mTarget[i])'
      OBVIOUS
    <2>1. /\ mRecord[i].status = "queued" => mRecord[i].reads = None
          /\ OwnLog(i, mTarget[i])
          /\ i \in mMixed \/ OwnReads(i, mTarget[i])
      BY DEF MetricsInv
    <2>2. CASE i = j
      BY <1>1, <1>2, <1>4, <1>5, <2>1, <2>2 DEF OwnLog, OwnReads
    <2>3. CASE i # j
      BY <1>1, <1>5, <2>1, <2>3 DEF OwnLog, OwnReads
    <2>4. QED
      BY <2>2, <2>3
  <1>9. MetricsInv'
    BY <1>1, <1>6, <1>7, <1>8 DEF MetricsInv
  <1>10. Metrics!ReadsVanishLate
    <2>1. \A i \in Posts : mTarget'[i].reads = mTarget[i].reads
      BY <1>2, <1>4, <1>5
    <2>2. QED
      BY <2>1 DEF Metrics!ReadsVanishLate
  <1>11. QED
    BY <1>9, <1>10

LEMMA MetricsStep ==
  ASSUME MetricsInv, [Metrics!MetricsNext]_metricVars
  PROVE  /\ MetricsInv'
         /\ Metrics!ReadsVanishLate
  <1>1. UNCHANGED mTarget => Metrics!ReadsVanishLate
    BY DEF Metrics!ReadsVanishLate
  <1>2. ASSUME NEW j \in Posts, Metrics!Submit(j) PROVE MetricsInv' /\ Metrics!ReadsVanishLate
    BY <1>2, SubmitTargetStep
  <1>3. ASSUME NEW j \in Posts, Metrics!Ends(j) \/ Metrics!IsRead(j) PROVE MetricsInv' /\ Metrics!ReadsVanishLate
    <2>1. UNCHANGED mTarget
      BY <1>3 DEF Metrics!Ends, Metrics!IsRead
    <2>2. QED
      BY <1>1, <1>3, <2>1, EndsStep, IsReadStep
  <1>4. ASSUME NEW w \in Viewers, NEW j \in Posts, Metrics!View(w, j) PROVE MetricsInv' /\ Metrics!ReadsVanishLate
    <2>1. UNCHANGED mTarget
      BY <1>4 DEF Metrics!View
    <2>2. QED
      BY <1>1, <1>4, <2>1, ViewStep
  <1>5. ASSUME NEW w \in Viewers, Metrics!ReadBatch(w) \/ Metrics!BatchFails(w)
        PROVE  MetricsInv' /\ Metrics!ReadsVanishLate
    <2>1. UNCHANGED mTarget
      BY <1>5 DEF Metrics!ReadBatch, Metrics!BatchFails
    <2>2. QED
      BY <1>1, <1>5, <2>1, ReadBatchStep, BatchFailsStep
  <1>6. ASSUME NEW w \in Viewers, Metrics!ReadRecords(w) PROVE MetricsInv' /\ Metrics!ReadsVanishLate
    <2>1. UNCHANGED mTarget
      BY <1>6 DEF Metrics!ReadRecords
    <2>2. QED
      BY <1>1, <1>6, <2>1, ReadRecordsStep
  <1>7. ASSUME NEW w \in Viewers, Metrics!WriteTarget(w) PROVE MetricsInv' /\ Metrics!ReadsVanishLate
    BY <1>7, WriteTargetStep
  <1>8. CASE UNCHANGED metricVars
    BY <1>1, <1>8
    DEF metricVars, MetricsInv, Metrics!MetricsTypeOK, RefreshHolds, OwnReads, OwnLog
  <1>9. QED
    BY <1>2, <1>3, <1>4, <1>5, <1>6, <1>7, <1>8 DEF Metrics!MetricsNext

(* A job's target holds the record of its own publication when its batch   *)
(* names it and no listing failed, the reads it shows were reported for it *)
(* unless it has held another job's record, and reads disappear only when  *)
(* a refresh that read the row without them writes it back (MetricsOwn).   *)
THEOREM MetricsAlwaysOwn == ServicesSpec => MetricsOwn
  <1> DEFINE Inv == part = "metrics" => MetricsInv
  <1>1. ServicesInit => Inv
    BY PartsStart, MetricsStarts
  <1>2. Inv /\ [ServicesNext]_servicesVars => Inv'
    BY PartsStep, MetricsStep
  <1>3. Inv => (part = "metrics" => /\ Metrics!MetricsTypeOK
                                    /\ Metrics!OwnRecord
                                    /\ Metrics!ReadsAreOwn)
    <2> SUFFICES ASSUME MetricsInv PROVE Metrics!OwnRecord /\ Metrics!ReadsAreOwn
      BY DEF MetricsInv
    <2>1. Metrics!OwnRecord
      BY DEF MetricsInv, OwnLog, Metrics!OwnRecord
    <2>2. Metrics!ReadsAreOwn
      BY DEF MetricsInv, OwnReads, Metrics!ReadsAreOwn
    <2>3. QED
      BY <2>1, <2>2
  <1>4. Inv /\ [ServicesNext]_servicesVars => [part = "metrics" => Metrics!ReadsVanishLate]_metricVars
    BY PartsStep, MetricsStep
  <1>5. QED
    BY <1>1, <1>2, <1>3, <1>4, PTL DEF ServicesSpec, servicesVars, MetricsOwn

(***************************************************************************)
(* The books.  A record, a report and what a handler carries.              *)
(***************************************************************************)
RecordRow == [kind : Finance!Kinds \cup {"none", "gone"}, date : Dates, till : Nat, takeaway : Nat,
              amount : Nat, rent : Nat, power : Nat]

DailyReport == [revenue : Nat, ingredient_cost : Nat, rent_amount : Nat, electricity_amount : Nat]

BookSteps == {"idle", "create", "move", "update", "remove", "read", "put", "rebuild", "apply"}

BookWork == [op : {"none", "enter", "generate", "remove", "summary", "sync"}, entry : RecordRow,
             id : 0..MaxRecords, due : SUBSET Dates, bucket : DailyReport, met : BOOLEAN]

Ledger == [Finance!Ids -> RecordRow]

(***************************************************************************)
(* The sums of a day, of any records r: what the model's definitions are   *)
(* when r is bRecord.                                                      *)
(***************************************************************************)
FindIn(r, k, d) == {i \in Finance!Ids : r[i].kind = k /\ r[i].date = d}

Tills(r)     == [i \in Finance!Ids |-> r[i].till + r[i].takeaway]
Takeaways(r) == [i \in Finance!Ids |-> r[i].takeaway]
Amounts(r)   == [i \in Finance!Ids |-> r[i].amount]
Rents(r)     == [i \in Finance!Ids |-> r[i].rent]
Powers(r)    == [i \in Finance!Ids |-> r[i].power]

BucketOf(r, d) ==
    [revenue            |-> SumOver(Tills(r), FindIn(r, "daily_revenue", d)),
     ingredient_cost    |-> SumOver(Amounts(r), FindIn(r, "ingredient_cost", d)),
     rent_amount        |-> SumOver(Rents(r), FindIn(r, "monthly_overhead", d))
                            + SumOver(Amounts(r), FindIn(r, "rent", d)),
     electricity_amount |-> SumOver(Powers(r), FindIn(r, "monthly_overhead", d))
                            + SumOver(Amounts(r), FindIn(r, "utilities", d))]

TakeawayOf(r, d) == SumOver(Takeaways(r), FindIn(r, "daily_revenue", d))

LEMMA TillSums ==
  ASSUME NEW S \in SUBSET Finance!Ids
  PROVE  Finance!MapThenSumSet(LAMBDA i : bRecord[i].till + bRecord[i].takeaway, S) = SumOver(Tills(bRecord), S)
  <1>1. PICK f : f = Tills(bRecord)
    OBVIOUS
  <1>2. \A u \in SUBSET S : u # {} => f[Chosen(u)] = bRecord[Chosen(u)].till + bRecord[Chosen(u)].takeaway
    BY <1>1, ChosenIn DEF Tills
  <1>3. \A g : [u \in SUBSET S |-> Body(f, g, u)]
                = [u \in SUBSET S |-> IF u = {} THEN 0
                      ELSE (bRecord[Chosen(u)].till + bRecord[Chosen(u)].takeaway) + g[u \ {Chosen(u)}]]
    BY <1>2 DEF Body
  <1>4. SumOver(f, S)
          = (CHOOSE g : g = [u \in SUBSET S |-> IF u = {} THEN 0
                ELSE (bRecord[Chosen(u)].till + bRecord[Chosen(u)].takeaway) + g[u \ {Chosen(u)}]])[S]
    BY <1>3 DEF SumOver, PartialSums
  <1>5. Finance!MapThenSumSet(LAMBDA i : bRecord[i].till + bRecord[i].takeaway, S)
          = (CHOOSE g : g = [u \in SUBSET S |-> IF u = {} THEN 0
                ELSE (bRecord[Chosen(u)].till + bRecord[Chosen(u)].takeaway) + g[u \ {Chosen(u)}]])[S]
    BY DEF Finance!MapThenSumSet, Finance!MapThenFoldSet, Chosen
  <1>6. QED
    BY <1>1, <1>4, <1>5

LEMMA TakeawaySums ==
  ASSUME NEW S \in SUBSET Finance!Ids
  PROVE  Finance!MapThenSumSet(LAMBDA i : bRecord[i].takeaway, S) = SumOver(Takeaways(bRecord), S)
  <1>1. PICK f : f = Takeaways(bRecord)
    OBVIOUS
  <1>2. \A u \in SUBSET S : u # {} => f[Chosen(u)] = bRecord[Chosen(u)].takeaway
    BY <1>1, ChosenIn DEF Takeaways
  <1>3. \A g : [u \in SUBSET S |-> Body(f, g, u)]
                = [u \in SUBSET S |-> IF u = {} THEN 0 ELSE bRecord[Chosen(u)].takeaway + g[u \ {Chosen(u)}]]
    BY <1>2 DEF Body
  <1>4. SumOver(f, S)
          = (CHOOSE g : g = [u \in SUBSET S |-> IF u = {} THEN 0
                                ELSE bRecord[Chosen(u)].takeaway + g[u \ {Chosen(u)}]])[S]
    BY <1>3 DEF SumOver, PartialSums
  <1>5. Finance!MapThenSumSet(LAMBDA i : bRecord[i].takeaway, S)
          = (CHOOSE g : g = [u \in SUBSET S |-> IF u = {} THEN 0
                                ELSE bRecord[Chosen(u)].takeaway + g[u \ {Chosen(u)}]])[S]
    BY DEF Finance!MapThenSumSet, Finance!MapThenFoldSet, Chosen
  <1>6. QED
    BY <1>1, <1>4, <1>5

LEMMA AmountSums ==
  ASSUME NEW S \in SUBSET Finance!Ids
  PROVE  Finance!MapThenSumSet(LAMBDA i : bRecord[i].amount, S) = SumOver(Amounts(bRecord), S)
  <1>1. PICK f : f = Amounts(bRecord)
    OBVIOUS
  <1>2. \A u \in SUBSET S : u # {} => f[Chosen(u)] = bRecord[Chosen(u)].amount
    BY <1>1, ChosenIn DEF Amounts
  <1>3. \A g : [u \in SUBSET S |-> Body(f, g, u)]
                = [u \in SUBSET S |-> IF u = {} THEN 0 ELSE bRecord[Chosen(u)].amount + g[u \ {Chosen(u)}]]
    BY <1>2 DEF Body
  <1>4. SumOver(f, S)
          = (CHOOSE g : g = [u \in SUBSET S |-> IF u = {} THEN 0
                                ELSE bRecord[Chosen(u)].amount + g[u \ {Chosen(u)}]])[S]
    BY <1>3 DEF SumOver, PartialSums
  <1>5. Finance!MapThenSumSet(LAMBDA i : bRecord[i].amount, S)
          = (CHOOSE g : g = [u \in SUBSET S |-> IF u = {} THEN 0
                                ELSE bRecord[Chosen(u)].amount + g[u \ {Chosen(u)}]])[S]
    BY DEF Finance!MapThenSumSet, Finance!MapThenFoldSet, Chosen
  <1>6. QED
    BY <1>1, <1>4, <1>5

LEMMA RentSums ==
  ASSUME NEW S \in SUBSET Finance!Ids
  PROVE  Finance!MapThenSumSet(LAMBDA i : bRecord[i].rent, S) = SumOver(Rents(bRecord), S)
  <1>1. PICK f : f = Rents(bRecord)
    OBVIOUS
  <1>2. \A u \in SUBSET S : u # {} => f[Chosen(u)] = bRecord[Chosen(u)].rent
    BY <1>1, ChosenIn DEF Rents
  <1>3. \A g : [u \in SUBSET S |-> Body(f, g, u)]
                = [u \in SUBSET S |-> IF u = {} THEN 0 ELSE bRecord[Chosen(u)].rent + g[u \ {Chosen(u)}]]
    BY <1>2 DEF Body
  <1>4. SumOver(f, S)
          = (CHOOSE g : g = [u \in SUBSET S |-> IF u = {} THEN 0
                                ELSE bRecord[Chosen(u)].rent + g[u \ {Chosen(u)}]])[S]
    BY <1>3 DEF SumOver, PartialSums
  <1>5. Finance!MapThenSumSet(LAMBDA i : bRecord[i].rent, S)
          = (CHOOSE g : g = [u \in SUBSET S |-> IF u = {} THEN 0
                                ELSE bRecord[Chosen(u)].rent + g[u \ {Chosen(u)}]])[S]
    BY DEF Finance!MapThenSumSet, Finance!MapThenFoldSet, Chosen
  <1>6. QED
    BY <1>1, <1>4, <1>5

LEMMA PowerSums ==
  ASSUME NEW S \in SUBSET Finance!Ids
  PROVE  Finance!MapThenSumSet(LAMBDA i : bRecord[i].power, S) = SumOver(Powers(bRecord), S)
  <1>1. PICK f : f = Powers(bRecord)
    OBVIOUS
  <1>2. \A u \in SUBSET S : u # {} => f[Chosen(u)] = bRecord[Chosen(u)].power
    BY <1>1, ChosenIn DEF Powers
  <1>3. \A g : [u \in SUBSET S |-> Body(f, g, u)]
                = [u \in SUBSET S |-> IF u = {} THEN 0 ELSE bRecord[Chosen(u)].power + g[u \ {Chosen(u)}]]
    BY <1>2 DEF Body
  <1>4. SumOver(f, S)
          = (CHOOSE g : g = [u \in SUBSET S |-> IF u = {} THEN 0
                                ELSE bRecord[Chosen(u)].power + g[u \ {Chosen(u)}]])[S]
    BY <1>3 DEF SumOver, PartialSums
  <1>5. Finance!MapThenSumSet(LAMBDA i : bRecord[i].power, S)
          = (CHOOSE g : g = [u \in SUBSET S |-> IF u = {} THEN 0
                                ELSE bRecord[Chosen(u)].power + g[u \ {Chosen(u)}]])[S]
    BY DEF Finance!MapThenSumSet, Finance!MapThenFoldSet, Chosen
  <1>6. QED
    BY <1>1, <1>4, <1>5

LEMMA FoundIn ==
  /\ \A d : /\ Finance!Find("daily_revenue", d) = FindIn(bRecord, "daily_revenue", d)
            /\ Finance!Find("ingredient_cost", d) = FindIn(bRecord, "ingredient_cost", d)
            /\ Finance!Find("monthly_overhead", d) = FindIn(bRecord, "monthly_overhead", d)
            /\ Finance!Find("rent", d) = FindIn(bRecord, "rent", d)
            /\ Finance!Find("utilities", d) = FindIn(bRecord, "utilities", d)
  /\ \A k \in Finance!Kinds, d \in Dates : Finance!Find(k, d) = FindIn(bRecord, k, d)
  BY DEF Finance!Find, Finance!OfDay, Finance!Kept, Finance!Kinds, FindIn

LEMMA BucketsAreOf == \A d : Finance!Bucket(d) = BucketOf(bRecord, d)
  <1> SUFFICES ASSUME NEW d PROVE Finance!Bucket(d) = BucketOf(bRecord, d)
    OBVIOUS
  <1>1. \A k : FindIn(bRecord, k, d) \in SUBSET Finance!Ids
    BY DEF FindIn
  <1>2. /\ Finance!Find("daily_revenue", d) \in SUBSET Finance!Ids
        /\ Finance!Find("ingredient_cost", d) \in SUBSET Finance!Ids
        /\ Finance!Find("monthly_overhead", d) \in SUBSET Finance!Ids
        /\ Finance!Find("rent", d) \in SUBSET Finance!Ids
        /\ Finance!Find("utilities", d) \in SUBSET Finance!Ids
    BY <1>1, FoundIn
  <1>3. /\ Finance!MapThenSumSet(LAMBDA i : bRecord[i].till + bRecord[i].takeaway, Finance!Find("daily_revenue", d))
             = SumOver(Tills(bRecord), FindIn(bRecord, "daily_revenue", d))
        /\ Finance!MapThenSumSet(LAMBDA i : bRecord[i].amount, Finance!Find("ingredient_cost", d))
             = SumOver(Amounts(bRecord), FindIn(bRecord, "ingredient_cost", d))
    BY <1>2, FoundIn, TillSums, AmountSums
  <1>4. /\ Finance!MapThenSumSet(LAMBDA i : bRecord[i].rent, Finance!Find("monthly_overhead", d))
             = SumOver(Rents(bRecord), FindIn(bRecord, "monthly_overhead", d))
        /\ Finance!MapThenSumSet(LAMBDA i : bRecord[i].amount, Finance!Find("rent", d))
             = SumOver(Amounts(bRecord), FindIn(bRecord, "rent", d))
    BY <1>2, FoundIn, RentSums, AmountSums
  <1>5. /\ Finance!MapThenSumSet(LAMBDA i : bRecord[i].power, Finance!Find("monthly_overhead", d))
             = SumOver(Powers(bRecord), FindIn(bRecord, "monthly_overhead", d))
        /\ Finance!MapThenSumSet(LAMBDA i : bRecord[i].amount, Finance!Find("utilities", d))
             = SumOver(Amounts(bRecord), FindIn(bRecord, "utilities", d))
    BY <1>2, FoundIn, PowerSums, AmountSums
  <1>6. QED
    BY <1>3, <1>4, <1>5 DEF Finance!Bucket, BucketOf

LEMMA TakeawaysAreOf ==
  \A d : /\ Finance!Takeaway(d) = TakeawayOf(bRecord, d)
         /\ Finance!ExistingTakeaway(d) = TakeawayOf(bRecord, d)
  <1> SUFFICES ASSUME NEW d
               PROVE  /\ Finance!Takeaway(d) = TakeawayOf(bRecord, d)
                      /\ Finance!ExistingTakeaway(d) = TakeawayOf(bRecord, d)
    OBVIOUS
  <1>1. Finance!Find("daily_revenue", d) \in SUBSET Finance!Ids
    BY FoundIn DEF FindIn
  <1>2. Finance!MapThenSumSet(LAMBDA i : bRecord[i].takeaway, Finance!Find("daily_revenue", d))
          = SumOver(Takeaways(bRecord), FindIn(bRecord, "daily_revenue", d))
    BY <1>1, FoundIn, TakeawaySums
  <1>3. QED
    BY <1>2 DEF Finance!Takeaway, Finance!ExistingTakeaway, TakeawayOf

(* The same of the next state.                                             *)
LEMMA AreOfNext ==
  /\ (\A d : Finance!Bucket(d) = BucketOf(bRecord, d))'
  /\ (\A d : /\ Finance!Takeaway(d) = TakeawayOf(bRecord, d)
             /\ Finance!ExistingTakeaway(d) = TakeawayOf(bRecord, d))'
  /\ (\A k \in Finance!Kinds, d \in Dates : Finance!Find(k, d) = FindIn(bRecord, k, d))'
  BY BucketsAreOf, TakeawaysAreOf, FoundIn, PTL

(***************************************************************************)
(* Values.                                                                 *)
(***************************************************************************)
LEMMA BookValues ==
  /\ IsFiniteSet(Finance!Ids) /\ 1 \in Finance!Ids
  /\ Finance!NoRecord \in RecordRow /\ Finance!Gone \in RecordRow /\ Finance!Legacy \in RecordRow
  /\ Finance!Zero \in DailyReport
  /\ Finance!NoWork \in BookWork
  <1>1. IsFiniteSet(Finance!Ids) /\ 1 \in Finance!Ids
    BY ServicesAssumption, FS_Interval DEF Finance!Ids
  <1>2. (CHOOSE d \in Dates : TRUE) \in Dates
    BY ServicesAssumption
  <1>3. Finance!NoRecord \in RecordRow
    BY <1>2 DEF Finance!NoRecord, RecordRow, Finance!Kinds
  <1>4. Finance!Gone \in RecordRow /\ Finance!Legacy \in RecordRow
    BY <1>2 DEF Finance!Gone, Finance!Legacy, Finance!NoRecord, RecordRow, Finance!Kinds
  <1>5. Finance!Zero \in DailyReport
    BY DEF Finance!Zero, DailyReport
  <1>6. 0 \in 0..MaxRecords
    BY ServicesAssumption
  <1>7. Finance!NoWork \in BookWork
    BY <1>3, <1>5, <1>6 DEF Finance!NoWork, BookWork
  <1>8. QED
    BY <1>1, <1>3, <1>4, <1>5, <1>7

LEMMA LedgerSums ==
  ASSUME NEW r \in Ledger
  PROVE  \A i \in Finance!Ids :
            /\ r[i] \in RecordRow
            /\ Tills(r)[i] \in Nat /\ Takeaways(r)[i] \in Nat /\ Amounts(r)[i] \in Nat
            /\ Rents(r)[i] \in Nat /\ Powers(r)[i] \in Nat
  BY DEF Ledger, RecordRow, Tills, Takeaways, Amounts, Rents, Powers

LEMMA BucketTyped ==
  ASSUME NEW r \in Ledger, NEW d
  PROVE  BucketOf(r, d) \in DailyReport /\ TakeawayOf(r, d) \in Nat
  <1>1. \A k : FindIn(r, k, d) \subseteq Finance!Ids /\ IsFiniteSet(FindIn(r, k, d))
    BY BookValues, FS_Subset DEF FindIn
  <1>2. \A k : /\ SumOver(Tills(r), FindIn(r, k, d)) \in Nat
               /\ SumOver(Takeaways(r), FindIn(r, k, d)) \in Nat
               /\ SumOver(Amounts(r), FindIn(r, k, d)) \in Nat
               /\ SumOver(Rents(r), FindIn(r, k, d)) \in Nat
               /\ SumOver(Powers(r), FindIn(r, k, d)) \in Nat
    <2> TAKE k
    <2>1. IsFiniteSet(FindIn(r, k, d)) /\ \A i \in FindIn(r, k, d) : i \in Finance!Ids
      BY <1>1
    <2>2. SumOver(Tills(r), FindIn(r, k, d)) \in Nat
      BY <2>1, LedgerSums, SumIn
    <2>3. SumOver(Takeaways(r), FindIn(r, k, d)) \in Nat
      BY <2>1, LedgerSums, SumIn
    <2>4. SumOver(Amounts(r), FindIn(r, k, d)) \in Nat
      BY <2>1, LedgerSums, SumIn
    <2>5. SumOver(Rents(r), FindIn(r, k, d)) \in Nat
      BY <2>1, LedgerSums, SumIn
    <2>6. SumOver(Powers(r), FindIn(r, k, d)) \in Nat
      BY <2>1, LedgerSums, SumIn
    <2>7. QED
      BY <2>2, <2>3, <2>4, <2>5, <2>6
  <1>3. QED
    BY <1>2 DEF BucketOf, TakeawayOf, DailyReport

(* A record that is of day d neither before nor after changes nothing.     *)
Elsewhere(row, d) == row.kind \notin Finance!Kinds \/ row.date # d

LEMMA SameDay ==
  ASSUME NEW r \in Ledger, NEW q \in Ledger, NEW d \in Dates,
         \A i \in Finance!Ids : q[i] = r[i] \/ (Elsewhere(r[i], d) /\ Elsewhere(q[i], d))
  PROVE  /\ \A k \in Finance!Kinds : FindIn(q, k, d) = FindIn(r, k, d)
         /\ BucketOf(q, d) = BucketOf(r, d)
         /\ TakeawayOf(q, d) = TakeawayOf(r, d)
  <1>1. \A k \in Finance!Kinds : FindIn(q, k, d) = FindIn(r, k, d)
    BY DEF FindIn, Elsewhere
  <1>2. \A k \in Finance!Kinds : \A i \in FindIn(r, k, d) : i \in Finance!Ids /\ q[i] = r[i]
    BY DEF FindIn, Elsewhere
  <1>3. ASSUME NEW k \in Finance!Kinds
        PROVE  /\ SumOver(Tills(q), FindIn(q, k, d)) = SumOver(Tills(r), FindIn(r, k, d))
               /\ SumOver(Takeaways(q), FindIn(q, k, d)) = SumOver(Takeaways(r), FindIn(r, k, d))
               /\ SumOver(Amounts(q), FindIn(q, k, d)) = SumOver(Amounts(r), FindIn(r, k, d))
               /\ SumOver(Rents(q), FindIn(q, k, d)) = SumOver(Rents(r), FindIn(r, k, d))
               /\ SumOver(Powers(q), FindIn(q, k, d)) = SumOver(Powers(r), FindIn(r, k, d))
    <2> DEFINE S == FindIn(r, k, d)
    <2>1. FindIn(q, k, d) = S /\ \A i \in S : i \in Finance!Ids /\ q[i] = r[i]
      BY <1>1, <1>2
    <2>2. \A i \in S : /\ Tills(q)[i] = Tills(r)[i] /\ Takeaways(q)[i] = Takeaways(r)[i]
                       /\ Amounts(q)[i] = Amounts(r)[i] /\ Rents(q)[i] = Rents(r)[i]
                       /\ Powers(q)[i] = Powers(r)[i]
      BY <2>1 DEF Tills, Takeaways, Amounts, Rents, Powers
    <2> HIDE DEF S
    <2>3. SumOver(Tills(q), S) = SumOver(Tills(r), S)
      BY <2>2, SumSame
    <2>4. SumOver(Takeaways(q), S) = SumOver(Takeaways(r), S)
      BY <2>2, SumSame
    <2>5. SumOver(Amounts(q), S) = SumOver(Amounts(r), S)
      BY <2>2, SumSame
    <2>6. SumOver(Rents(q), S) = SumOver(Rents(r), S)
      BY <2>2, SumSame
    <2>7. SumOver(Powers(q), S) = SumOver(Powers(r), S)
      BY <2>2, SumSame
    <2>8. QED
      BY <2>1, <2>3, <2>4, <2>5, <2>6, <2>7 DEF S
  <1>4. BucketOf(q, d) = BucketOf(r, d)
    BY <1>3 DEF BucketOf, Finance!Kinds
  <1>5. TakeawayOf(q, d) = TakeawayOf(r, d)
    BY <1>3 DEF TakeawayOf, Finance!Kinds
  <1>6. QED
    BY <1>1, <1>4, <1>5

LEMMA RowIsBucket == \A b \in DailyReport : Finance!Row(b) = b
  <1> SUFFICES ASSUME NEW b \in DailyReport PROVE Finance!Row(b) = b
    OBVIOUS
  <1>1. CASE \E f \in DOMAIN b : b[f] > 0
    BY <1>1 DEF Finance!Row
  <1>2. CASE ~\E f \in DOMAIN b : b[f] > 0
    <2>1. /\ ~(b.revenue > 0) /\ ~(b.ingredient_cost > 0)
          /\ ~(b.rent_amount > 0) /\ ~(b.electricity_amount > 0)
      BY <1>2 DEF DailyReport
    <2>2. b.revenue = 0 /\ b.ingredient_cost = 0 /\ b.rent_amount = 0 /\ b.electricity_amount = 0
      BY <2>1 DEF DailyReport
    <2>3. b = Finance!Zero
      BY <2>2 DEF DailyReport, Finance!Zero
    <2>4. QED
      BY <1>2, <2>3 DEF Finance!Row
  <1>3. QED
    BY <1>1, <1>2

LEMMA FirstIn == ASSUME NEW S, S \subseteq Nat, S # {} PROVE Finance!Min(S) \in S
  <1>1. \E n \in S : \A m \in S : n <= m
    BY Least
  <1>2. QED
    BY <1>1 DEF Finance!Min

LEMMA GeneratedTyped == ASSUME NEW day \in TillDays PROVE Finance!Generated(day) \in Nat
  <1> DEFINE Col(f, col) == {m \in DOMAIN f : Finance!Column(m) = col}
             Of(f, col) == Finance!MapThenSumSet(LAMBDA m : f[m], Col(f, col))
             Net(col) == Finance!Max({0, Of(day.sold, col) - Of(day.refunded, col)})
  <1>1. ASSUME NEW f, IsFiniteSet(DOMAIN f), \A m \in DOMAIN f : f[m] \in Nat, NEW col
        PROVE  Of(f, col) \in Nat
    <2>1. PICK S : S = Col(f, col)
      OBVIOUS
    <2>2. Of(f, col) = SumOver(f, S)
      BY <2>1 DEF Finance!MapThenSumSet, Finance!MapThenFoldSet, SumOver, PartialSums, Body, Chosen
    <2>3. IsFiniteSet(S) /\ \A m \in S : f[m] \in Nat
      BY <1>1, <2>1, FS_Subset
    <2>4. QED
      BY <2>2, <2>3, SumIn
  <1>2. ASSUME NEW x \in Int PROVE Finance!Max({0, x}) \in Nat
    <2>1. \E m \in {0, x} : \A y \in {0, x} : m >= y
      OBVIOUS
    <2>2. Finance!Max({0, x}) \in {0, x} /\ Finance!Max({0, x}) >= 0
      BY <2>1 DEF Finance!Max
    <2>3. QED
      BY <2>2
  <1>3. ASSUME NEW col PROVE Net(col) \in Nat
    <2>1. Of(day.sold, col) \in Nat /\ Of(day.refunded, col) \in Nat
      BY <1>1, ServicesAssumption
    <2> HIDE DEF Of
    <2>2. QED
      BY <2>1, <1>2
  <1>4. Finance!Generated(day) = Net("alipay") + Net("wechat") + Net("cash") + day.recharged
    BY DEF Finance!Generated
  <1> HIDE DEF Net
  <1>5. QED
    BY <1>3, <1>4, ServicesAssumption

(***************************************************************************)
(* The invariant.  What a handler is about to put is the bucket of its     *)
(* day, unless the day was crossed; a generation that nobody met knows the *)
(* record and the takeaway of its day.                                     *)
(***************************************************************************)
OneOfAKind(r) ==
    \A i, j \in Finance!Ids :
        r[i].kind \in Finance!Kinds /\ r[i].kind = r[j].kind /\ r[i].date = r[j].date => i = j

(* The revenue of a generation's day, as its preview saw it.               *)
Foreseen(r, at, k) ==
    LET there == FindIn(r, "daily_revenue", k.entry.date)
    IN  /\ at \in {"apply", "create", "move"}
        /\ k.entry.takeaway = TakeawayOf(r, k.entry.date)
        /\ \/ k.id = 0 /\ there = {} /\ at # "move"
           \/ there = {k.id} /\ at # "create"

WorkHolds(r, crossed, at, k) ==
    /\ at \in {"create", "move", "update"} => k.entry.kind \in Finance!Kinds
    /\ at \in {"move", "update", "remove"} => k.id # 0
    /\ at = "apply" => k.op = "generate"
    /\ k.op = "generate" => /\ at \in {"apply", "create", "move", "update"}
                            /\ k.entry.kind = "daily_revenue"
                            /\ k.met \/ Foreseen(r, at, k)
    /\ at \in {"create", "move", "update", "remove", "read", "put"} => k.due # {}
    /\ at = "put" => /\ k.entry.date \in k.due
                     /\ k.entry.date \in crossed \/ k.bucket = BucketOf(r, k.entry.date)

(* The report of a day is right, or a handler is going to make it so.      *)
Explained(r, reports, steps, holds, crossed) ==
    \A d \in Dates \ crossed :
        \/ reports[d] = BucketOf(r, d)
        \/ \E c \in Clerks : steps[c] \in {"read", "put"} /\ d \in holds[c].due

BooksTyped ==
    /\ bRecord \in Ledger /\ bReport \in [Dates -> DailyReport]
    /\ bStep \in [Clerks -> BookSteps] /\ bHeld \in [Clerks -> BookWork]

BooksInv ==
    /\ BooksTyped /\ OneOfAKind(bRecord)
    /\ Explained(bRecord, bReport, bStep, bHeld, bCrossed)
    /\ \A c \in Clerks : WorkHolds(bRecord, bCrossed, bStep[c], bHeld[c])


LEMMA BooksStart == ASSUME Finance!FinanceInit PROVE BooksInv
  <1>1. BooksTyped
    <2>1. bRecord \in Ledger
      BY BookValues DEF Finance!FinanceInit, Ledger
    <2>2. bReport \in [Dates -> DailyReport] /\ bHeld \in [Clerks -> BookWork]
      BY BookValues DEF Finance!FinanceInit
    <2>3. bStep \in [Clerks -> BookSteps]
      BY DEF Finance!FinanceInit, BookSteps
    <2>4. QED
      BY <2>1, <2>2, <2>3 DEF BooksTyped
  <1>2. /\ \A i \in Finance!Ids : i # 1 => bRecord[i].kind = "none"
        /\ bRecord[1] = Finance!Legacy
    BY BookValues DEF Finance!FinanceInit, Finance!NoRecord
  <1>3. OneOfAKind(bRecord)
    BY <1>2 DEF OneOfAKind, Finance!Kinds
  <1>4. ASSUME NEW d \in Dates \ bCrossed PROVE bReport[d] = BucketOf(bRecord, d)
    <2>1. \A k \in Finance!Kinds : FindIn(bRecord, k, d) = {}
      BY <1>2, <1>4 DEF Finance!FinanceInit, FindIn, Finance!Kinds
    <2>2. /\ BucketOf(bRecord, d).revenue = 0 /\ BucketOf(bRecord, d).ingredient_cost = 0
          /\ BucketOf(bRecord, d).rent_amount = 0 /\ BucketOf(bRecord, d).electricity_amount = 0
      BY <2>1, SumEmpty DEF BucketOf, Finance!Kinds
    <2>3. BucketOf(bRecord, d) = Finance!Zero
      BY <1>1, <2>2, BucketTyped DEF BooksTyped, DailyReport, Finance!Zero
    <2>4. QED
      BY <2>3 DEF Finance!FinanceInit
  <1>5. \A c \in Clerks : WorkHolds(bRecord, bCrossed, bStep[c], bHeld[c])
    BY DEF Finance!FinanceInit, Finance!NoWork, WorkHolds
  <1>6. QED
    BY <1>1, <1>3, <1>4, <1>5 DEF BooksInv, Explained

(* A handler goes on and writes nothing.                                   *)
LEMMA ClerkGoesOn ==
  ASSUME BooksInv, NEW c \in Clerks, NEW at \in BookSteps, NEW k \in BookWork,
         Finance!Put(c, at, k), UNCHANGED <<bRecord, bReport, bCrossed>>,
         WorkHolds(bRecord, bCrossed, at, k),
         bStep[c] \in {"read", "put"} => at \in {"read", "put"} /\ bHeld[c].due \subseteq k.due
  PROVE  BooksInv'
  <1>1. bStep' = [bStep EXCEPT ![c] = at] /\ bHeld' = [bHeld EXCEPT ![c] = k]
    BY DEF Finance!Put
  <1>2. BooksTyped'
    BY <1>1 DEF BooksInv, BooksTyped
  <1>3. ASSUME NEW b \in Clerks
        PROVE  /\ b # c => bStep'[b] = bStep[b] /\ bHeld'[b] = bHeld[b]
               /\ b = c => bStep'[b] = at /\ bHeld'[b] = k
    BY <1>1 DEF BooksInv, BooksTyped
  <1>4. \A b \in Clerks : WorkHolds(bRecord', bCrossed', bStep'[b], bHeld'[b])
    BY <1>3 DEF BooksInv
  <1>5. Explained(bRecord', bReport', bStep', bHeld', bCrossed')
    BY <1>3 DEF BooksInv, Explained
  <1>6. QED
    BY <1>2, <1>4, <1>5 DEF BooksInv

(* A handler leaves off.                                                   *)
LEMMA ClerkQuits ==
  ASSUME BooksInv, NEW c \in Clerks, Finance!Quit(c), UNCHANGED <<bRecord, bReport, bCrossed>>,
         bStep[c] \notin {"read", "put"}
  PROVE  BooksInv'
  <1>1. Finance!Put(c, "idle", Finance!NoWork) /\ "idle" \in BookSteps /\ Finance!NoWork \in BookWork
    BY BookValues DEF Finance!Quit, BookSteps
  <1>2. WorkHolds(bRecord, bCrossed, "idle", Finance!NoWork)
    BY DEF WorkHolds, Finance!NoWork
  <1>3. QED
    BY <1>1, <1>2, ClerkGoesOn

(* A handler writes records of the days in ds.                             *)
LEMMA BooksChanged ==
  ASSUME BooksInv, NEW c \in Clerks, NEW ds \in SUBSET Dates, NEW q \in Ledger, bRecord' = q,
         Finance!Change(c, ds), UNCHANGED bReport, OneOfAKind(q),
         bStep[c] \in {"create", "move", "update", "remove"},
         \A i \in Finance!Ids : \A d \in Dates \ ds :
             q[i] = bRecord[i] \/ (Elsewhere(bRecord[i], d) /\ Elsewhere(q[i], d))
  PROVE  BooksInv'
  <1>1. PICK k : k = bHeld[c]
    OBVIOUS
  <1>2. k \in BookWork /\ k.due # {} /\ k.due \subseteq Dates
    BY <1>1 DEF BooksInv, BooksTyped, WorkHolds, BookWork
  <1>3. PICK n : n = [Finance!NoWork EXCEPT !.op = "sync", !.due = k.due]
    OBVIOUS
  <1>4. n \in BookWork /\ n.op = "sync" /\ n.due = k.due
    BY <1>2, <1>3, BookValues DEF BookWork
  <1>5. /\ bStep' = [bStep EXCEPT ![c] = "read"]
        /\ bHeld' = [b \in Clerks |-> IF b = c THEN n
                        ELSE [bHeld[b] EXCEPT !.met = (@ \/ bHeld[b].op = "generate")]]
        /\ ds \ k.due \subseteq bCrossed'
        /\ bCrossed \subseteq bCrossed'
    BY <1>1, <1>3 DEF Finance!Change
  <1>6. \A b \in Clerks : b # c /\ bStep[b] = "put" => bHeld[b].due \cap ds \subseteq bCrossed'
    BY DEF Finance!Change
  <1>7. bStep'[c] = "read" /\ bHeld'[c] = n
    BY <1>5 DEF BooksInv, BooksTyped
  <1>8. ASSUME NEW b \in Clerks, b # c
        PROVE  /\ bStep'[b] = bStep[b]
               /\ bHeld'[b] \in BookWork
               /\ bHeld'[b].op = bHeld[b].op /\ bHeld'[b].entry = bHeld[b].entry
               /\ bHeld'[b].id = bHeld[b].id /\ bHeld'[b].due = bHeld[b].due
               /\ bHeld'[b].bucket = bHeld[b].bucket
               /\ bHeld'[b].op = "generate" => bHeld'[b].met
    <2>1. bStep'[b] = bStep[b] /\ bHeld[b] \in BookWork
      BY <1>5, <1>8 DEF BooksInv, BooksTyped
    <2>2. bHeld'[b] = [bHeld[b] EXCEPT !.met = (bHeld[b].met \/ bHeld[b].op = "generate")]
      BY <1>5, <1>8, <2>1
    <2>3. QED
      BY <2>1, <2>2 DEF BookWork
  <1>9. \A d \in Dates \ ds : BucketOf(q, d) = BucketOf(bRecord, d)
    BY SameDay DEF BooksInv, BooksTyped
  <1>10. BooksTyped'
    <2>1. bStep' \in [Clerks -> BookSteps]
      BY <1>5 DEF BooksInv, BooksTyped, BookSteps
    <2>2. bHeld' \in [Clerks -> BookWork]
      <3>1. DOMAIN bHeld' = Clerks /\ bHeld' = [b \in Clerks |-> bHeld'[b]]
        BY <1>5
      <3>2. \A b \in Clerks : bHeld'[b] \in BookWork
        BY <1>4, <1>7, <1>8
      <3>3. QED
        BY <3>1, <3>2
    <2>3. QED
      BY <2>1, <2>2 DEF BooksInv, BooksTyped
  <1>11. ASSUME NEW b \in Clerks PROVE WorkHolds(q, bCrossed', bStep'[b], bHeld'[b])
    <2>1. CASE b = c
      BY <1>2, <1>4, <1>7, <2>1 DEF WorkHolds
    <2>2. CASE b # c
      <3>1. /\ WorkHolds(bRecord, bCrossed, bStep[b], bHeld[b])
            /\ bHeld[b].due \subseteq Dates
        BY DEF BooksInv, BooksTyped, BookWork
      <3>2. bStep[b] = "put" => /\ bHeld[b].entry.date \in bHeld[b].due
                                /\ \/ bHeld[b].entry.date \in bCrossed'
                                   \/ bHeld[b].bucket = BucketOf(q, bHeld[b].entry.date)
        BY <1>5, <1>6, <1>9, <2>2, <3>1 DEF WorkHolds
      <3>3. QED
        BY <1>8, <2>2, <3>1, <3>2 DEF WorkHolds
    <2>3. QED
      BY <2>1, <2>2
  <1>12. ASSUME NEW d \in Dates \ bCrossed'
         PROVE  \/ bReport'[d] = BucketOf(q, d)
                \/ \E b \in Clerks : bStep'[b] \in {"read", "put"} /\ d \in bHeld'[b].due
    <2>1. CASE d \in ds
      BY <1>4, <1>5, <1>7, <1>12, <2>1
    <2>2. CASE d \notin ds
      <3>1. CASE bReport[d] = BucketOf(bRecord, d)
        BY <1>9, <2>2, <3>1
      <3>2. CASE \E b \in Clerks : bStep[b] \in {"read", "put"} /\ d \in bHeld[b].due
        BY <1>8, <3>2
      <3>3. d \in Dates \ bCrossed
        BY <1>5, <1>12
      <3>4. QED
        BY <3>1, <3>2, <3>3 DEF BooksInv, Explained
    <2>3. QED
      BY <2>1, <2>2
  <1>13. QED
    BY <1>10, <1>11, <1>12 DEF BooksInv, Explained

(***************************************************************************)
(* The handlers.                                                           *)
(***************************************************************************)
LEMMA KeptOf == Finance!Kept = {i \in Finance!Ids : bRecord[i].kind \in Finance!Kinds}
  BY DEF Finance!Kept

LEMMA TakenOf ==
  \A k \in Finance!Kinds, d \in Dates : \A i : Finance!Taken(k, d, i) <=> FindIn(bRecord, k, d) \ {i} # {}
  BY FoundIn DEF Finance!Taken

LEMMA UpsertKeeps ==
  ASSUME BooksInv, NEW c \in Clerks, bStep[c] \notin {"read", "put"},
         NEW op \in {"enter", "generate"}, NEW e, NEW i \in 0..MaxRecords,
         e \in [kind : Finance!Kinds, date : Dates, till : Nat, takeaway : Nat \cup {-1},
                amount : Nat, rent : Nat, power : Nat],
         op = "generate" => /\ e.kind = "daily_revenue" /\ e.takeaway \in Nat
                            /\ \/ bHeld[c].met
                               \/ /\ e.takeaway = TakeawayOf(bRecord, e.date)
                                  /\ \/ i = 0 /\ FindIn(bRecord, "daily_revenue", e.date) = {}
                                     \/ FindIn(bRecord, "daily_revenue", e.date) = {i},
         Finance!Upsert(c, op, e, i), UNCHANGED <<bRecord, bReport, bCrossed>>
  PROVE  BooksInv'
  <1> DEFINE hit == IF i # 0 THEN {i} \cap Finance!Kept ELSE Finance!Find(e.kind, e.date)
             old   == IF hit = {} THEN Finance!NoRecord ELSE bRecord[CHOOSE x \in hit : TRUE]
             row   == [e EXCEPT !.takeaway = Finance!Filled(e, old)]
  <1>1. CASE i # 0 /\ hit = {}
    BY <1>1, ClerkQuits DEF Finance!Upsert
  <1>2. CASE ~(i # 0 /\ hit = {})
    <2>1. PICK at : at = IF i # 0 THEN "move" ELSE IF hit = {} THEN "create" ELSE "update"
      OBVIOUS
    <2>2. PICK id : id = IF hit = {} THEN 0 ELSE CHOOSE x \in hit : TRUE
      OBVIOUS
    <2>3. PICK ds : ds = IF i # 0 THEN {e.date, old.date} ELSE {e.date}
      OBVIOUS
    <2>4. PICK r : r = row
      OBVIOUS
    <2>5. Finance!Put(c, at, [Finance!NoWork EXCEPT !.op = op, !.entry = r, !.met = bHeld[c].met,
                                                       !.id = id, !.due = ds])
      BY <1>2, <2>1, <2>2, <2>3, <2>4 DEF Finance!Upsert
    <2>6. hit \subseteq Finance!Ids /\ (hit # {} => id \in hit)
      BY <2>2, FoundIn DEF Finance!Kept, FindIn
    <2>7. bHeld[c].met \in BOOLEAN /\ bRecord \in Ledger
      BY DEF BooksInv, BooksTyped, BookWork
    <2>8. old \in RecordRow
      <3>1. CASE hit = {}
        BY <3>1, BookValues
      <3>2. CASE hit # {}
        BY <2>2, <2>6, <2>7, <3>2 DEF Ledger
      <3>3. QED
        BY <3>1, <3>2
    <2>9. r = [e EXCEPT !.takeaway = Finance!Filled(e, old)]
      BY <2>4
    <2>10. /\ r \in RecordRow /\ r.kind = e.kind /\ r.date = e.date
           /\ e.takeaway \in Nat => r.takeaway = e.takeaway
      <3>1. Finance!Filled(e, old) \in Nat /\ (e.takeaway \in Nat => Finance!Filled(e, old) = e.takeaway)
        BY <2>8 DEF Finance!Filled, Finance!Absent, RecordRow
      <3> HIDE DEF old
      <3>2. PICK x : x = Finance!Filled(e, old)
        OBVIOUS
      <3>3. r = [e EXCEPT !.takeaway = x] /\ x \in Nat /\ (e.takeaway \in Nat => x = e.takeaway)
        BY <2>9, <3>1, <3>2
      <3>4. QED
        BY <3>3 DEF RecordRow
    <2>11. id \in 0..MaxRecords /\ (id # 0 <=> hit # {})
      BY <2>2, <2>6, ServicesAssumption DEF Finance!Ids
    <2>12. ds \subseteq Dates /\ ds # {}
      BY <2>3, <2>8 DEF RecordRow
    <2> HIDE DEF row, old
    <2>13. PICK k : k = [Finance!NoWork EXCEPT !.op = op, !.entry = r, !.met = bHeld[c].met, !.id = id, !.due = ds]
      OBVIOUS
    <2>14. /\ k \in BookWork /\ k.op = op /\ k.entry = r /\ k.met = bHeld[c].met /\ k.id = id
           /\ k.due = ds
      BY <2>7, <2>10, <2>11, <2>12, <2>13, BookValues DEF BookWork
    <2>15. at \in {"create", "move", "update"} /\ at \in BookSteps
      BY <2>1 DEF BookSteps
    <2>16. at \in {"move", "update"} => id # 0
      BY <1>2, <2>1, <2>11
    <2>17. ASSUME op = "generate", ~k.met PROVE Foreseen(bRecord, at, k)
      <3> DEFINE there == FindIn(bRecord, "daily_revenue", e.date)
      <3>1. /\ e.takeaway = TakeawayOf(bRecord, e.date) /\ e.takeaway \in Nat /\ e.kind = "daily_revenue"
            /\ (i = 0 /\ there = {}) \/ there = {i}
        BY <2>14, <2>17
      <3>2. k.entry.takeaway = TakeawayOf(bRecord, k.entry.date) /\ k.entry.date = e.date
        BY <2>10, <2>14, <3>1
      <3>3. CASE i = 0 /\ there = {}
        <4>1. hit = {}
          BY <3>1, <3>3, FoundIn
        <4>2. QED
          BY <2>1, <2>11, <2>14, <3>2, <3>3, <4>1 DEF Foreseen
      <3>4. CASE there = {i}
        <4>1. i # 0
          BY <3>4, ServicesAssumption DEF FindIn, Finance!Ids
        <4>2. hit = {i}
          BY <1>2, <4>1
        <4>3. QED
          BY <2>1, <2>6, <2>14, <3>2, <3>4, <4>1, <4>2 DEF Foreseen
      <3>5. QED
        BY <3>1, <3>3, <3>4
    <2>18. WorkHolds(bRecord, bCrossed, at, k)
      BY <2>10, <2>12, <2>14, <2>15, <2>16, <2>17 DEF WorkHolds
    <2>19. QED
      BY <2>5, <2>13, <2>14, <2>15, <2>18, ClerkGoesOn
  <1>3. QED
    BY <1>1, <1>2

LEMMA EnterKeeps ==
  ASSUME BooksInv, NEW c \in Clerks, NEW e \in Entries, NEW i \in 0..MaxRecords, Finance!Enter(c, e, i)
  PROVE  BooksInv'
  <1>1. e \in [kind : Finance!Kinds, date : Dates, till : Nat, takeaway : Nat \cup {-1},
               amount : Nat, rent : Nat, power : Nat]
    BY ServicesAssumption DEF Finance!Kinds
  <1>2. /\ bStep[c] = "idle" /\ Finance!Upsert(c, "enter", e, i)
        /\ UNCHANGED <<bRecord, bReport, bCrossed>>
    BY DEF Finance!Enter, Finance!Starts
  <1>3. QED
    BY <1>1, <1>2, UpsertKeeps

LEMMA ApplyKeeps == ASSUME BooksInv, NEW c \in Clerks, Finance!Apply(c) PROVE BooksInv'
  <1>1. PICK k : k = bHeld[c]
    OBVIOUS
  <1>2. /\ bStep[c] = "apply" /\ Finance!Upsert(c, "generate", k.entry, k.id)
        /\ UNCHANGED <<bRecord, bReport, bCrossed>>
    BY <1>1 DEF Finance!Apply
  <1>3. k \in BookWork /\ WorkHolds(bRecord, bCrossed, "apply", k)
    BY <1>1, <1>2 DEF BooksInv, BooksTyped
  <1>4. /\ k.id \in 0..MaxRecords /\ k.entry.kind = "daily_revenue" /\ k.entry.takeaway \in Nat
        /\ k.entry \in [kind : Finance!Kinds, date : Dates, till : Nat, takeaway : Nat \cup {-1},
                        amount : Nat, rent : Nat, power : Nat]
    BY <1>3 DEF WorkHolds, BookWork, RecordRow, Finance!Kinds
  <1>5. \/ bHeld[c].met
        \/ /\ k.entry.takeaway = TakeawayOf(bRecord, k.entry.date)
           /\ \/ k.id = 0 /\ FindIn(bRecord, "daily_revenue", k.entry.date) = {}
              \/ FindIn(bRecord, "daily_revenue", k.entry.date) = {k.id}
    BY <1>1, <1>3 DEF WorkHolds, Foreseen
  <1>6. QED
    BY <1>2, <1>4, <1>5, UpsertKeeps

LEMMA PreviewKeeps ==
  ASSUME BooksInv, NEW c \in Clerks, NEW d \in Dates, Finance!Preview(c, d) PROVE BooksInv'
  <1>1. PICK day \in TillDays :
           Finance!Put(c, "apply", [Finance!NoWork EXCEPT !.op = "generate",
              !.id = IF Finance!Find("daily_revenue", d) = {} THEN 0
                     ELSE Finance!Min(Finance!Find("daily_revenue", d)),
              !.entry = [Finance!NoRecord EXCEPT !.kind = "daily_revenue", !.date = d,
                            !.till = Finance!Generated(day),
                            !.takeaway = Finance!ExistingTakeaway(d)]])
    BY Zenon DEF Finance!Preview
  <1>2. bStep[c] = "idle" /\ UNCHANGED <<bRecord, bReport, bCrossed>>
    BY DEF Finance!Preview, Finance!Starts
  <1> DEFINE there == FindIn(bRecord, "daily_revenue", d)
  <1>3. PICK id : id = IF there = {} THEN 0 ELSE Finance!Min(there)
    OBVIOUS
  <1>4. PICK g : g = Finance!Generated(day)
    OBVIOUS
  <1>5. PICK t : t = TakeawayOf(bRecord, d)
    OBVIOUS
  <1>6. g \in Nat /\ t \in Nat
    BY <1>4, <1>5, GeneratedTyped, BucketTyped DEF BooksInv, BooksTyped
  <1>7. /\ id \in 0..MaxRecords
        /\ id = 0 => there = {}
        /\ id # 0 => there = {id}
    <2>1. there \subseteq Finance!Ids /\ there \subseteq Nat
      BY ServicesAssumption DEF FindIn, Finance!Ids
    <2>2. \A i, j \in there : i = j
      BY DEF FindIn, BooksInv, OneOfAKind, Finance!Kinds
    <2>3. CASE there = {}
      BY <1>3, <2>3, ServicesAssumption
    <2>4. CASE there # {}
      <3>1. id \in there
        BY <1>3, <2>1, <2>4, FirstIn
      <3>2. id # 0 /\ id \in 0..MaxRecords
        BY <2>1, <3>1, ServicesAssumption DEF Finance!Ids
      <3>3. QED
        BY <2>2, <3>1, <3>2
    <2>5. QED
      BY <2>3, <2>4
  <1>8. PICK r : r = [Finance!NoRecord EXCEPT !.kind = "daily_revenue", !.date = d, !.till = g, !.takeaway = t]
    OBVIOUS
  <1>9. r \in RecordRow /\ r.kind = "daily_revenue" /\ r.date = d /\ r.takeaway = t
    BY <1>6, <1>8, BookValues DEF RecordRow, Finance!Kinds
  <1>10. PICK k : k = [Finance!NoWork EXCEPT !.op = "generate", !.id = id, !.entry = r]
    OBVIOUS
  <1>11. k \in BookWork /\ k.op = "generate" /\ k.id = id /\ k.entry = r
    BY <1>7, <1>9, <1>10, BookValues DEF BookWork
  <1>12. Finance!Put(c, "apply", k)
    <2>1. Finance!Find("daily_revenue", d) = there /\ Finance!ExistingTakeaway(d) = t
      BY <1>5, FoundIn, TakeawaysAreOf
    <2>2. QED
      BY <1>1, <1>3, <1>4, <1>8, <1>10, <2>1
  <1>13. Foreseen(bRecord, "apply", k)
    BY <1>5, <1>7, <1>9, <1>11 DEF Foreseen
  <1>14. WorkHolds(bRecord, bCrossed, "apply", k) /\ "apply" \in BookSteps
    BY <1>9, <1>11, <1>13 DEF WorkHolds, BookSteps
  <1>15. QED
    BY <1>2, <1>11, <1>12, <1>14, ClerkGoesOn

LEMMA RemoveStartKeeps ==
  ASSUME BooksInv, NEW c \in Clerks, NEW i \in Finance!Ids, Finance!RemoveStart(c, i) PROVE BooksInv'
  <1>1. PICK d : d = bRecord[i].date
    OBVIOUS
  <1>2. d \in Dates
    BY <1>1 DEF BooksInv, BooksTyped, Ledger, RecordRow
  <1>3. PICK k : k = [Finance!NoWork EXCEPT !.op = "remove", !.id = i, !.due = {d}]
    OBVIOUS
  <1>4. i \in 0..MaxRecords /\ i # 0
    BY ServicesAssumption DEF Finance!Ids
  <1>5. k \in BookWork /\ k.op = "remove" /\ k.id # 0 /\ k.due # {}
    BY <1>2, <1>3, <1>4, BookValues DEF BookWork
  <1>6. /\ bStep[c] = "idle" /\ Finance!Put(c, "remove", k)
        /\ UNCHANGED <<bRecord, bReport, bCrossed>>
    BY <1>1, <1>3 DEF Finance!RemoveStart, Finance!Starts
  <1>7. WorkHolds(bRecord, bCrossed, "remove", k) /\ "remove" \in BookSteps
    BY <1>5 DEF WorkHolds, BookSteps
  <1>8. QED
    BY <1>5, <1>6, <1>7, ClerkGoesOn

LEMMA SummaryStartKeeps == ASSUME BooksInv, NEW c \in Clerks, Finance!SummaryStart(c) PROVE BooksInv'
  <1>1. PICK k : k = [Finance!NoWork EXCEPT !.op = "summary"]
    OBVIOUS
  <1>2. k \in BookWork /\ k.op = "summary"
    BY <1>1, BookValues DEF BookWork
  <1>3. /\ bStep[c] = "idle" /\ Finance!Put(c, "rebuild", k)
        /\ UNCHANGED <<bRecord, bReport, bCrossed>>
    BY <1>1 DEF Finance!SummaryStart, Finance!Starts
  <1>4. WorkHolds(bRecord, bCrossed, "rebuild", k) /\ "rebuild" \in BookSteps
    BY <1>2 DEF WorkHolds, BookSteps
  <1>5. QED
    BY <1>2, <1>3, <1>4, ClerkGoesOn

LEMMA RebuildKeeps == ASSUME BooksInv, NEW c \in Clerks, Finance!Rebuild(c) PROVE BooksInv'
  <1>1. bStep[c] = "rebuild" /\ UNCHANGED <<bRecord, bReport, bCrossed>>
    BY DEF Finance!Rebuild
  <1>2. CASE Finance!Kept = {}
    BY <1>1, <1>2, ClerkQuits DEF Finance!Rebuild
  <1>3. CASE Finance!Kept # {}
    <2>1. PICK ds : ds = {bRecord[i].date : i \in Finance!Kept}
      OBVIOUS
    <2>2. ds \subseteq Dates /\ ds # {}
      BY <1>3, <2>1 DEF Finance!Kept, BooksInv, BooksTyped, Ledger, RecordRow
    <2>3. PICK k : k = [bHeld[c] EXCEPT !.due = ds]
      OBVIOUS
    <2>4. bHeld[c] \in BookWork /\ bHeld[c].op # "generate"
      BY <1>1 DEF BooksInv, BooksTyped, WorkHolds
    <2>5. k \in BookWork /\ k.due = ds /\ k.op # "generate"
      BY <2>2, <2>3, <2>4 DEF BookWork
    <2>6. Finance!Put(c, "read", k)
      BY <1>3, <2>1, <2>3 DEF Finance!Rebuild
    <2>7. WorkHolds(bRecord, bCrossed, "read", k) /\ "read" \in BookSteps
      BY <2>2, <2>5 DEF WorkHolds, BookSteps
    <2>8. QED
      BY <1>1, <2>5, <2>6, <2>7, ClerkGoesOn
  <1>4. QED
    BY <1>2, <1>3

LEMMA SyncReadKeeps == ASSUME BooksInv, NEW c \in Clerks, Finance!SyncRead(c) PROVE BooksInv'
  <1>1. PICK d \in bHeld[c].due :
           Finance!Put(c, "put", [bHeld[c] EXCEPT !.bucket = Finance!Bucket(d),
                                                  !.entry = [Finance!NoRecord EXCEPT !.date = d]])
    BY Zenon DEF Finance!SyncRead
  <1>2. bStep[c] = "read" /\ UNCHANGED <<bRecord, bReport, bCrossed>>
    BY DEF Finance!SyncRead
  <1>3. bHeld[c] \in BookWork /\ bHeld[c].op # "generate" /\ d \in Dates
    BY <1>2 DEF BooksInv, BooksTyped, WorkHolds, BookWork
  <1>4. PICK r : r = [Finance!NoRecord EXCEPT !.date = d]
    OBVIOUS
  <1>5. r \in RecordRow /\ r.date = d
    BY <1>3, <1>4, BookValues DEF RecordRow
  <1>6. PICK b : b = BucketOf(bRecord, d)
    OBVIOUS
  <1>7. b \in DailyReport
    BY <1>6, BucketTyped DEF BooksInv, BooksTyped
  <1>8. PICK k : k = [bHeld[c] EXCEPT !.bucket = b, !.entry = r]
    OBVIOUS
  <1>9. /\ k \in BookWork /\ k.bucket = b /\ k.entry = r /\ k.due = bHeld[c].due
        /\ k.op # "generate"
    BY <1>3, <1>5, <1>7, <1>8 DEF BookWork
  <1>10. Finance!Put(c, "put", k)
    BY <1>1, <1>4, <1>6, <1>8, BucketsAreOf
  <1>11. WorkHolds(bRecord, bCrossed, "put", k) /\ "put" \in BookSteps
    BY <1>5, <1>6, <1>9 DEF WorkHolds, BookSteps
  <1>12. QED
    BY <1>2, <1>9, <1>10, <1>11, ClerkGoesOn

LEMMA SyncPutKeeps == ASSUME BooksInv, NEW c \in Clerks, Finance!SyncPut(c) PROVE BooksInv'
  <1>1. PICK k : k = bHeld[c]
    OBVIOUS
  <1>2. PICK e : e = k.entry.date
    OBVIOUS
  <1>3. /\ bStep[c] = "put" /\ bReport' = [bReport EXCEPT ![e] = Finance!Row(k.bucket)]
        /\ UNCHANGED <<bRecord, bCrossed>>
        /\ IF k.due \ {e} = {} THEN Finance!Quit(c)
           ELSE Finance!Put(c, "read", [k EXCEPT !.due = k.due \ {e}, !.bucket = Finance!Zero,
                                                 !.entry = Finance!NoRecord])
    BY <1>1, <1>2, Zenon DEF Finance!SyncPut
  <1>4. k \in BookWork /\ WorkHolds(bRecord, bCrossed, "put", k)
    BY <1>1, <1>3 DEF BooksInv, BooksTyped
  <1>5. /\ k.op # "generate" /\ e \in k.due /\ k.due \subseteq Dates /\ k.bucket \in DailyReport
        /\ e \in bCrossed \/ k.bucket = BucketOf(bRecord, e)
    BY <1>2, <1>4 DEF WorkHolds, BookWork
  <1>6. bReport' = [bReport EXCEPT ![e] = k.bucket]
    BY <1>3, <1>5, RowIsBucket
  <1>7. /\ bReport' \in [Dates -> DailyReport] /\ bReport'[e] = k.bucket
        /\ \A d \in Dates : d # e => bReport'[d] = bReport[d]
    BY <1>5, <1>6 DEF BooksInv, BooksTyped
  <1>8. \E at \in {"idle", "read"}, n \in BookWork :
           /\ Finance!Put(c, at, n) /\ n.op # "generate"
           /\ IF at = "read" THEN n.due = k.due \ {e} /\ n.due # {} ELSE k.due \ {e} = {}
    <2>1. CASE k.due \ {e} = {}
      <3>1. Finance!Put(c, "idle", Finance!NoWork)
        BY <1>3, <2>1 DEF Finance!Quit
      <3>2. Finance!NoWork \in BookWork /\ Finance!NoWork.op # "generate"
        BY BookValues DEF Finance!NoWork
      <3>3. QED
        BY <2>1, <3>1, <3>2
    <2>2. CASE k.due \ {e} # {}
      <3>1. PICK n : n = [k EXCEPT !.due = k.due \ {e}, !.bucket = Finance!Zero,
                                   !.entry = Finance!NoRecord]
        OBVIOUS
      <3>2. n \in BookWork /\ n.op = k.op /\ n.due = k.due \ {e}
        BY <1>4, <1>5, <3>1, BookValues DEF BookWork
      <3>3. Finance!Put(c, "read", n)
        BY <1>3, <2>2, <3>1
      <3>4. QED
        BY <1>5, <2>2, <3>2, <3>3
    <2>3. QED
      BY <2>1, <2>2
  <1>9. PICK at \in {"idle", "read"}, n \in BookWork :
           /\ Finance!Put(c, at, n) /\ n.op # "generate"
           /\ IF at = "read" THEN n.due = k.due \ {e} /\ n.due # {} ELSE k.due \ {e} = {}
    BY <1>8
  <1>10. bStep' = [bStep EXCEPT ![c] = at] /\ bHeld' = [bHeld EXCEPT ![c] = n]
    BY <1>9 DEF Finance!Put
  <1>11. BooksTyped'
    BY <1>3, <1>7, <1>10 DEF BooksInv, BooksTyped, BookSteps
  <1>12. ASSUME NEW b \in Clerks
         PROVE  /\ b # c => bStep'[b] = bStep[b] /\ bHeld'[b] = bHeld[b]
                /\ b = c => bStep'[b] = at /\ bHeld'[b] = n
    BY <1>10 DEF BooksInv, BooksTyped
  <1>13. \A b \in Clerks : WorkHolds(bRecord', bCrossed', bStep'[b], bHeld'[b])
    <2>1. WorkHolds(bRecord, bCrossed, at, n)
      BY <1>9 DEF WorkHolds
    <2>2. QED
      BY <1>3, <1>12, <2>1 DEF BooksInv
  <1>14. ASSUME NEW d \in Dates \ bCrossed'
         PROVE  \/ bReport'[d] = BucketOf(bRecord', d)
                \/ \E b \in Clerks : bStep'[b] \in {"read", "put"} /\ d \in bHeld'[b].due
    <2>1. CASE d = e
      BY <1>3, <1>5, <1>7, <1>14, <2>1
    <2>2. CASE d # e
      <3>1. CASE bReport[d] = BucketOf(bRecord, d)
        BY <1>3, <1>7, <2>2, <3>1
      <3>2. ASSUME NEW b \in Clerks, bStep[b] \in {"read", "put"}, d \in bHeld[b].due
            PROVE  bStep'[b] \in {"read", "put"} /\ d \in bHeld'[b].due
        <4>1. CASE b # c
          BY <1>12, <3>2, <4>1
        <4>2. CASE b = c
          <5>1. d \in k.due \ {e}
            BY <1>1, <2>2, <3>2, <4>2
          <5>2. at = "read" /\ d \in n.due
            BY <1>9, <5>1
          <5>3. QED
            BY <1>12, <4>2, <5>2
        <4>3. QED
          BY <4>1, <4>2
      <3>3. QED
        BY <1>3, <1>14, <3>1, <3>2 DEF BooksInv, Explained
    <2>3. QED
      BY <2>1, <2>2
  <1>15. QED
    BY <1>3, <1>11, <1>13, <1>14 DEF BooksInv, Explained

LEMMA BooksRestart == ASSUME BooksInv, Finance!Restart PROVE BooksInv'
  <1>1. /\ bStep' = [c \in Clerks |-> "idle"] /\ bHeld' = [c \in Clerks |-> Finance!NoWork]
        /\ UNCHANGED <<bRecord, bReport>> /\ bCrossed \subseteq bCrossed'
    BY DEF Finance!Restart
  <1>2. \A c \in Clerks : bStep[c] \in {"read", "put"} => bHeld[c].due \subseteq bCrossed'
    BY DEF Finance!Restart
  <1>3. BooksTyped'
    BY <1>1, BookValues DEF BooksInv, BooksTyped, BookSteps
  <1>4. \A c \in Clerks : WorkHolds(bRecord', bCrossed', bStep'[c], bHeld'[c])
    BY <1>1 DEF WorkHolds, Finance!NoWork
  <1>5. \A d \in Dates \ bCrossed' : bReport'[d] = BucketOf(bRecord', d)
    BY <1>1, <1>2 DEF BooksInv, Explained
  <1>6. QED
    BY <1>1, <1>3, <1>4, <1>5 DEF BooksInv, Explained

(* One record is written, and nothing else.                                *)
LEMMA OneRecordWritten ==
  ASSUME NEW r \in Ledger, NEW j \in Finance!Ids, NEW row \in RecordRow, OneOfAKind(r),
         row.kind \in Finance!Kinds =>
            \A i \in FindIn(r, row.kind, row.date) : i = j,
         NEW q \in Ledger, \A i \in Finance!Ids : q[i] = IF i = j THEN row ELSE r[i]
  PROVE  OneOfAKind(q)
  <1>1. ASSUME NEW i \in Finance!Ids, NEW h \in Finance!Ids, q[i].kind \in Finance!Kinds,
               q[i].kind = q[h].kind, q[i].date = q[h].date
        PROVE  i = h
    <2>1. CASE i = j
      <3>1. h # j => h \in FindIn(r, row.kind, row.date)
        BY <1>1, <2>1 DEF FindIn
      <3>2. QED
        BY <1>1, <2>1, <3>1
    <2>2. CASE h = j
      <3>1. i # j => i \in FindIn(r, row.kind, row.date)
        BY <1>1, <2>2 DEF FindIn
      <3>2. QED
        BY <1>1, <2>2, <3>1
    <2>3. CASE i # j /\ h # j
      BY <1>1, <2>3 DEF OneOfAKind
    <2>4. QED
      BY <2>1, <2>2, <2>3
  <1>2. QED
    BY <1>1 DEF OneOfAKind

LEMMA RecordWritten ==
  ASSUME BooksInv, NEW c \in Clerks, NEW j \in Finance!Ids, NEW row \in RecordRow,
         NEW ds \in SUBSET Dates, bRecord' = [bRecord EXCEPT ![j] = row],
         row.kind \in Finance!Kinds =>
            \A i \in FindIn(bRecord, row.kind, row.date) : i = j,
         bRecord[j].kind \in Finance!Kinds => bRecord[j].date \in ds,
         row.kind \in Finance!Kinds => row.date \in ds,
         Finance!Change(c, ds), UNCHANGED bReport,
         bStep[c] \in {"create", "move", "update", "remove"}
  PROVE  BooksInv'
  <1>1. PICK q : q = [bRecord EXCEPT ![j] = row]
    OBVIOUS
  <1>2. /\ q \in Ledger /\ OneOfAKind(q)
        /\ \A i \in Finance!Ids : q[i] = IF i = j THEN row ELSE bRecord[i]
    <2>1. PICK r : r = bRecord
      OBVIOUS
    <2>2. r \in Ledger /\ OneOfAKind(r)
      BY <2>1 DEF BooksInv, BooksTyped
    <2>3. row.kind \in Finance!Kinds => \A i \in FindIn(r, row.kind, row.date) : i = j
      BY <2>1
    <2>4. q \in Ledger /\ \A i \in Finance!Ids : q[i] = IF i = j THEN row ELSE r[i]
      BY <1>1, <2>1, <2>2 DEF Ledger
    <2>5. OneOfAKind(q)
      BY <2>2, <2>3, <2>4, OneRecordWritten
    <2>6. QED
      BY <2>1, <2>4, <2>5
  <1>3. ASSUME NEW i \in Finance!Ids, NEW d \in Dates \ ds
        PROVE  q[i] = bRecord[i] \/ (Elsewhere(bRecord[i], d) /\ Elsewhere(q[i], d))
    BY <1>2 DEF Elsewhere
  <1>4. QED
    BY <1>1, <1>2, <1>3, BooksChanged

LEMMA CreateKeeps == ASSUME BooksInv, NEW c \in Clerks, Finance!Create(c) PROVE BooksInv'
  <1>1. PICK k : k = bHeld[c]
    OBVIOUS
  <1>2. k \in BookWork /\ bStep[c] = "create" /\ k.entry.kind \in Finance!Kinds /\ k.entry \in RecordRow
    BY <1>1 DEF Finance!Create, BooksInv, BooksTyped, WorkHolds, BookWork
  <1>3. k.entry.date \in Dates
    BY <1>2 DEF RecordRow
  <1>4. CASE Finance!Taken(k.entry.kind, k.entry.date, 0)
    BY <1>1, <1>2, <1>4, ClerkQuits DEF Finance!Create
  <1>5. CASE ~Finance!Taken(k.entry.kind, k.entry.date, 0)
    <2> DEFINE new == {i \in Finance!Ids : bRecord[i].kind = "none"}
    <2>1. /\ new # {} /\ bRecord' = [bRecord EXCEPT ![Finance!Min(new)] = k.entry]
          /\ Finance!Change(c, {k.entry.date}) /\ UNCHANGED bReport
      BY <1>1, <1>5 DEF Finance!Create
    <2>2. new \subseteq Nat
      BY ServicesAssumption DEF Finance!Ids
    <2>3. PICK j : j = Finance!Min(new)
      OBVIOUS
    <2>4. j \in new
      BY <2>1, <2>2, <2>3, FirstIn
    <2>5. FindIn(bRecord, k.entry.kind, k.entry.date) = {}
      <3>1. FindIn(bRecord, k.entry.kind, k.entry.date) \ {0} = {}
        BY <1>2, <1>3, <1>5, TakenOf
      <3>2. 0 \notin Finance!Ids
        BY ServicesAssumption DEF Finance!Ids
      <3>3. QED
        BY <3>1, <3>2 DEF FindIn
    <2>6. /\ j \in Finance!Ids /\ bRecord[j].kind \notin Finance!Kinds
          /\ bRecord' = [bRecord EXCEPT ![j] = k.entry]
      BY <2>1, <2>3, <2>4 DEF Finance!Kinds
    <2>7. QED
      BY <1>2, <1>3, <2>1, <2>5, <2>6, RecordWritten
  <1>6. QED
    BY <1>4, <1>5

LEMMA MoveKeeps == ASSUME BooksInv, NEW c \in Clerks, Finance!Move(c) PROVE BooksInv'
  <1>1. PICK k : k = bHeld[c]
    OBVIOUS
  <1>2. k \in BookWork /\ bStep[c] = "move" /\ k.entry.kind \in Finance!Kinds /\ k.entry \in RecordRow
    BY <1>1 DEF Finance!Move, BooksInv, BooksTyped, WorkHolds, BookWork
  <1>3. k.entry.date \in Dates
    BY <1>2 DEF RecordRow
  <1>4. CASE k.id \notin Finance!Kept \/ Finance!Taken(k.entry.kind, k.entry.date, k.id)
    BY <1>1, <1>2, <1>4, ClerkQuits DEF Finance!Move
  <1>5. CASE ~(k.id \notin Finance!Kept \/ Finance!Taken(k.entry.kind, k.entry.date, k.id))
    <2>1. /\ bRecord' = [bRecord EXCEPT ![k.id] = k.entry]
          /\ Finance!Change(c, {k.entry.date, bRecord[k.id].date}) /\ UNCHANGED bReport
      BY <1>1, <1>5 DEF Finance!Move
    <2>2. k.id \in Finance!Ids /\ bRecord[k.id].date \in Dates
      BY <1>5 DEF Finance!Kept, BooksInv, BooksTyped, Ledger, RecordRow
    <2>3. \A i \in FindIn(bRecord, k.entry.kind, k.entry.date) : i = k.id
      BY <1>2, <1>3, <1>5, TakenOf
    <2>4. QED
      BY <1>2, <1>3, <2>1, <2>2, <2>3, RecordWritten
  <1>6. QED
    BY <1>4, <1>5

LEMMA UpdateKeeps == ASSUME BooksInv, NEW c \in Clerks, Finance!Update(c) PROVE BooksInv'
  <1>1. PICK k : k = bHeld[c]
    OBVIOUS
  <1>2. k \in BookWork /\ bStep[c] = "update" /\ k.entry \in RecordRow
    BY <1>1 DEF Finance!Update, BooksInv, BooksTyped, BookWork
  <1>3. CASE k.id \notin Finance!Kept
    BY <1>1, <1>2, <1>3, ClerkQuits DEF Finance!Update
  <1>4. CASE k.id \in Finance!Kept
    <2>1. PICK row : row = [k.entry EXCEPT !.kind = bRecord[k.id].kind, !.date = bRecord[k.id].date]
      OBVIOUS
    <2>2. /\ bRecord' = [bRecord EXCEPT ![k.id] = row]
          /\ Finance!Change(c, {bRecord[k.id].date}) /\ UNCHANGED bReport
      BY <1>1, <1>4, <2>1 DEF Finance!Update
    <2>3. k.id \in Finance!Ids /\ bRecord[k.id].kind \in Finance!Kinds /\ bRecord[k.id] \in RecordRow
      BY <1>4 DEF Finance!Kept, BooksInv, BooksTyped, Ledger
    <2>4. row \in RecordRow /\ row.kind = bRecord[k.id].kind /\ row.date = bRecord[k.id].date
      BY <1>2, <2>1, <2>3 DEF RecordRow
    <2>5. bRecord[k.id].date \in Dates
      BY <2>3 DEF RecordRow
    <2>6. \A i \in FindIn(bRecord, row.kind, row.date) : i = k.id
      BY <2>3, <2>4 DEF FindIn, BooksInv, OneOfAKind
    <2>7. QED
      BY <1>2, <2>2, <2>3, <2>4, <2>5, <2>6, RecordWritten
  <1>5. QED
    BY <1>3, <1>4

LEMMA DeleteKeeps == ASSUME BooksInv, NEW c \in Clerks, Finance!Delete(c) PROVE BooksInv'
  <1>1. PICK k : k = bHeld[c]
    OBVIOUS
  <1>2. bStep[c] = "remove"
    BY DEF Finance!Delete
  <1>3. CASE k.id \notin Finance!Kept
    BY <1>1, <1>2, <1>3, ClerkQuits DEF Finance!Delete
  <1>4. CASE k.id \in Finance!Kept
    <2>1. /\ bRecord' = [bRecord EXCEPT ![k.id] = Finance!Gone]
          /\ Finance!Change(c, {bRecord[k.id].date}) /\ UNCHANGED bReport
      BY <1>1, <1>4 DEF Finance!Delete
    <2>2. k.id \in Finance!Ids /\ bRecord[k.id].date \in Dates
      BY <1>4 DEF Finance!Kept, BooksInv, BooksTyped, Ledger, RecordRow
    <2>3. Finance!Gone \in RecordRow /\ Finance!Gone.kind \notin Finance!Kinds
      BY BookValues DEF Finance!Gone, Finance!NoRecord, Finance!Kinds
    <2>4. QED
      BY <1>2, <2>1, <2>2, <2>3, RecordWritten
  <1>5. QED
    BY <1>3, <1>4

LEMMA BooksStep == ASSUME BooksInv, [Finance!FinanceNext]_financeVars PROVE BooksInv'
  <1>1. CASE UNCHANGED financeVars
    <2>1. UNCHANGED <<bRecord, bReport, bStep, bHeld, bCrossed>>
      BY <1>1 DEF financeVars
    <2>2. QED
      BY <2>1 DEF BooksInv, BooksTyped
  <1>2. CASE Finance!FinanceNext
    <2>1. ASSUME NEW c \in Clerks, NEW e \in Entries, NEW i \in 0..MaxRecords, Finance!Enter(c, e, i)
          PROVE  BooksInv'
      BY <2>1, EnterKeeps
    <2>2. ASSUME NEW c \in Clerks, Finance!Create(c) \/ Finance!Move(c) \/ Finance!Update(c) PROVE BooksInv'
      BY <2>2, CreateKeeps, MoveKeeps, UpdateKeeps
    <2>3. ASSUME NEW c \in Clerks, NEW i \in Finance!Ids, Finance!RemoveStart(c, i) PROVE BooksInv'
      BY <2>3, RemoveStartKeeps
    <2>4. ASSUME NEW c \in Clerks,
                 Finance!Delete(c) \/ Finance!SyncRead(c) \/ Finance!SyncPut(c)
          PROVE  BooksInv'
      BY <2>4, DeleteKeeps, SyncReadKeeps, SyncPutKeeps
    <2>5. ASSUME NEW c \in Clerks,
                 Finance!SummaryStart(c) \/ Finance!Rebuild(c) \/ Finance!Apply(c)
          PROVE  BooksInv'
      BY <2>5, SummaryStartKeeps, RebuildKeeps, ApplyKeeps
    <2>6. ASSUME NEW c \in Clerks, NEW d \in Dates, Finance!Preview(c, d) PROVE BooksInv'
      BY <2>6, PreviewKeeps
    <2>7. QED
      BY <1>2, <2>1, <2>2, <2>3, <2>4, <2>5, <2>6, BooksRestart DEF Finance!FinanceNext
  <1>3. QED
    BY <1>1, <1>2

(***************************************************************************)
(* A generation writes.  Only its own handler takes it from a step to the  *)
(* next.                                                                   *)
(***************************************************************************)
LEMMA OwnStep ==
  ASSUME BooksInv, Finance!FinanceNext, NEW c \in Clerks, bStep[c] \in {"create", "move"},
         bStep'[c] = "read"
  PROVE  \/ Finance!Create(c) /\ bStep[c] = "create"
         \/ Finance!Move(c) /\ bStep[c] = "move"
  <1>1. bStep \in [Clerks -> BookSteps]
    BY DEF BooksInv, BooksTyped
  <1>2. ASSUME NEW b \in Clerks, NEW at, NEW k, Finance!Put(b, at, k) PROVE b = c /\ at = "read"
    BY <1>1, <1>2 DEF Finance!Put
  <1>3. ASSUME NEW b \in Clerks, Finance!Quit(b) PROVE FALSE
    BY <1>2, <1>3 DEF Finance!Quit
  <1>4. ASSUME NEW b \in Clerks, NEW ds, Finance!Change(b, ds) PROVE b = c
    BY <1>1, <1>4 DEF Finance!Change
  <1>5. ASSUME NEW b \in Clerks, NEW op, NEW e, NEW i, Finance!Upsert(b, op, e, i) PROVE FALSE
    <2> DEFINE hit == IF i # 0 THEN {i} \cap Finance!Kept ELSE Finance!Find(e.kind, e.date)
               at  == IF i # 0 THEN "move" ELSE IF hit = {} THEN "create" ELSE "update"
    <2>1. \E k : Finance!Quit(b) \/ Finance!Put(b, at, k)
      BY <1>5, Zenon DEF Finance!Upsert
    <2>2. at # "read"
      OBVIOUS
    <2> HIDE DEF at
    <2>3. QED
      BY <1>2, <1>3, <2>1, <2>2
  <1>6. ASSUME NEW b \in Clerks, NEW e \in Entries, NEW i \in 0..MaxRecords, Finance!Enter(b, e, i)
        PROVE  FALSE
    BY <1>5, <1>6 DEF Finance!Enter
  <1>7. ASSUME NEW b \in Clerks, Finance!Apply(b) PROVE FALSE
    BY <1>5, <1>7 DEF Finance!Apply
  <1>8. ASSUME NEW b \in Clerks, NEW i \in Finance!Ids, Finance!RemoveStart(b, i) PROVE FALSE
    <2>1. \E k : Finance!Put(b, "remove", k)
      BY <1>8, Zenon DEF Finance!RemoveStart
    <2>2. QED
      BY <1>2, <2>1
  <1>9. ASSUME NEW b \in Clerks, NEW d \in Dates, Finance!Preview(b, d) PROVE FALSE
    <2>1. \E k : Finance!Put(b, "apply", k)
      BY <1>9, Zenon DEF Finance!Preview
    <2>2. QED
      BY <1>2, <2>1
  <1>10. ASSUME NEW b \in Clerks, Finance!SummaryStart(b) PROVE FALSE
    <2>1. \E k : Finance!Put(b, "rebuild", k)
      BY <1>10, Zenon DEF Finance!SummaryStart
    <2>2. QED
      BY <1>2, <2>1
  <1>11. ASSUME NEW b \in Clerks, Finance!Rebuild(b) PROVE FALSE
    <2>1. bStep[b] = "rebuild" /\ \E k : Finance!Quit(b) \/ Finance!Put(b, "read", k)
      BY <1>11, Zenon DEF Finance!Rebuild
    <2>2. QED
      BY <1>2, <1>3, <2>1
  <1>12. ASSUME NEW b \in Clerks, Finance!SyncRead(b) PROVE FALSE
    <2>1. \E k : Finance!Put(b, "put", k)
      BY <1>12, Zenon DEF Finance!SyncRead
    <2>2. QED
      BY <1>2, <2>1
  <1>13. ASSUME NEW b \in Clerks, Finance!SyncPut(b) PROVE FALSE
    <2>1. bStep[b] = "put" /\ \E k : Finance!Quit(b) \/ Finance!Put(b, "read", k)
      BY <1>13, Zenon DEF Finance!SyncPut
    <2>2. QED
      BY <1>2, <1>3, <2>1
  <1>14. ASSUME NEW b \in Clerks, Finance!Update(b) \/ Finance!Delete(b) PROVE FALSE
    <2>1. bStep[b] \in {"update", "remove"} /\ \E ds : Finance!Quit(b) \/ Finance!Change(b, ds)
      BY <1>14, Zenon DEF Finance!Update, Finance!Delete
    <2>2. QED
      BY <1>3, <1>4, <2>1
  <1>15. ASSUME NEW b \in Clerks, Finance!Create(b)
         PROVE  Finance!Create(c) /\ bStep[c] = "create"
    <2>1. bStep[b] = "create" /\ \E ds : Finance!Quit(b) \/ Finance!Change(b, ds)
      BY <1>15, Zenon DEF Finance!Create
    <2>2. QED
      BY <1>3, <1>4, <1>15, <2>1
  <1>16. ASSUME NEW b \in Clerks, Finance!Move(b)
         PROVE  Finance!Move(c) /\ bStep[c] = "move"
    <2>1. bStep[b] = "move" /\ \E ds : Finance!Quit(b) \/ Finance!Change(b, ds)
      BY <1>16, Zenon DEF Finance!Move
    <2>2. QED
      BY <1>3, <1>4, <1>16, <2>1
  <1>17. ~Finance!Restart
    BY DEF Finance!Restart
  <1>18. QED
    BY <1>6, <1>7, <1>8, <1>9, <1>10, <1>11, <1>12, <1>13, <1>14, <1>15, <1>16, <1>17
       DEF Finance!FinanceNext

LEMMA OneTakeaway ==
  ASSUME NEW r \in Ledger, NEW d \in Dates, NEW j \in Finance!Ids,
         FindIn(r, "daily_revenue", d) = {j}
  PROVE  TakeawayOf(r, d) = r[j].takeaway
  <1>1. Takeaways(r)[j] = r[j].takeaway /\ r[j].takeaway \in Int
    BY DEF Takeaways, Ledger, RecordRow
  <1>2. SumOver(Takeaways(r), {j}) = r[j].takeaway
    <2>1. /\ IsFiniteSet({j}) /\ \A x \in {j} : Takeaways(r)[x] \in Int
          /\ {j} \ {j} = {}
      BY <1>1, FS_Singleton
    <2>2. SumOver(Takeaways(r), {j}) = Takeaways(r)[j] + SumOver(Takeaways(r), {j} \ {j})
      BY <2>1, SumWithout
    <2>3. QED
      BY <1>1, <2>1, <2>2, SumEmpty
  <1>3. QED
    BY <1>2 DEF TakeawayOf

LEMMA TakeawayStays ==
  ASSUME BooksInv, Finance!FinanceNext, NEW c \in Clerks, NEW d \in Dates,
         bHeld[c].op = "generate", ~bHeld[c].met, bHeld[c].entry.date = d,
         bStep[c] \in {"create", "move", "update"}, bStep'[c] = "read"
  PROVE  TakeawayOf(bRecord', d) = TakeawayOf(bRecord, d)
  <1>1. PICK k : k = bHeld[c]
    OBVIOUS
  <1>2. PICK r : r = bRecord
    OBVIOUS
  <1>3. /\ k \in BookWork /\ k.entry \in RecordRow /\ k.entry.date = d
        /\ k.entry.kind = "daily_revenue" /\ Foreseen(r, bStep[c], k)
        /\ r \in Ledger /\ OneOfAKind(r)
    BY <1>1, <1>2 DEF BooksInv, BooksTyped, WorkHolds, BookWork
  <1>4. bStep[c] \in {"create", "move"} /\ k.entry.takeaway = TakeawayOf(r, d)
    BY <1>3 DEF Foreseen
  <1>5. \/ Finance!Create(c) /\ bStep[c] = "create"
        \/ Finance!Move(c) /\ bStep[c] = "move"
    BY <1>4, OwnStep
  <1>6. ~Finance!Quit(c)
    BY DEF Finance!Quit, Finance!Put, BooksInv, BooksTyped
  <1>7. \E j \in Finance!Ids : /\ bRecord' = [r EXCEPT ![j] = k.entry]
                               /\ FindIn(r, "daily_revenue", d) \subseteq {j}
    <2>1. CASE Finance!Create(c) /\ bStep[c] = "create"
      <3> DEFINE new == {i \in Finance!Ids : bRecord[i].kind = "none"}
      <3>1. new # {} /\ bRecord' = [r EXCEPT ![Finance!Min(new)] = k.entry]
        BY <1>1, <1>2, <1>6, <2>1 DEF Finance!Create
      <3>2. Finance!Min(new) \in Finance!Ids
        BY <3>1, FirstIn, ServicesAssumption DEF Finance!Ids
      <3>3. FindIn(r, "daily_revenue", d) = {}
        BY <1>3, <2>1 DEF Foreseen
      <3>4. QED
        BY <3>1, <3>2, <3>3
    <2>2. CASE Finance!Move(c) /\ bStep[c] = "move"
      <3>1. bRecord' = [r EXCEPT ![k.id] = k.entry] /\ k.id \in Finance!Ids
        BY <1>1, <1>2, <1>6, <2>2 DEF Finance!Move, Finance!Kept
      <3>2. FindIn(r, "daily_revenue", d) = {k.id}
        BY <1>3, <2>2 DEF Foreseen
      <3>3. QED
        BY <3>1, <3>2
    <2>3. QED
      BY <1>5, <2>1, <2>2
  <1>8. PICK j \in Finance!Ids : /\ bRecord' = [r EXCEPT ![j] = k.entry]
                                 /\ FindIn(r, "daily_revenue", d) \subseteq {j}
    BY <1>7
  <1>9. PICK q : q = bRecord'
    OBVIOUS
  <1>10. q \in Ledger /\ q[j] = k.entry /\ \A i \in Finance!Ids : i # j => q[i] = r[i]
    BY <1>3, <1>8, <1>9 DEF Ledger
  <1>11. FindIn(q, "daily_revenue", d) = {j}
    BY <1>3, <1>8, <1>10 DEF FindIn
  <1>12. TakeawayOf(q, d) = k.entry.takeaway
    BY <1>10, <1>11, OneTakeaway
  <1>13. QED
    BY <1>2, <1>4, <1>9, <1>12

LEMMA TakeawayStep ==
  ASSUME BooksInv, [Finance!FinanceNext]_financeVars PROVE Finance!TakeawayKept
  <1>1. ASSUME NEW c \in Clerks, NEW d \in Dates,
               bHeld[c].op = "generate", ~bHeld[c].met, bHeld[c].entry.date = d,
               bStep[c] \in {"create", "move", "update"}, bStep'[c] = "read"
        PROVE  Finance!Takeaway(d)' = Finance!Takeaway(d)
    <2>1. CASE UNCHANGED financeVars
      <3>1. bStep' = bStep
        BY <2>1 DEF financeVars
      <3>2. QED
        BY <1>1, <3>1
    <2>2. CASE Finance!FinanceNext
      <3>1. TakeawayOf(bRecord', d) = TakeawayOf(bRecord, d)
        BY <1>1, <2>2, TakeawayStays
      <3>2. Finance!Takeaway(d) = TakeawayOf(bRecord, d)
        BY TakeawaysAreOf
      <3>3. Finance!Takeaway(d)' = TakeawayOf(bRecord', d)
        BY AreOfNext
      <3>4. QED
        BY <3>1, <3>2, <3>3
    <2>3. QED
      BY <2>1, <2>2
  <1>2. QED
    BY <1>1 DEF Finance!TakeawayKept

(***************************************************************************)
(* The questions about a day, of any records r.  The records of a kind     *)
(* share a sum over the records of the day with zeros for the others.      *)
(***************************************************************************)
DayIn(r, d) == {i \in Finance!Ids : r[i].kind \in Finance!Kinds /\ r[i].date = d}

OnKind(f, r, k) == [i \in Finance!Ids |-> IF r[i].kind = k THEN f[i] ELSE 0]

LEMMA SumOfKind ==
  ASSUME NEW r \in Ledger, NEW d, NEW k \in Finance!Kinds, NEW f,
         \A i \in Finance!Ids : f[i] \in Nat,
         NEW S, S \subseteq DayIn(r, d), FindIn(r, k, d) \subseteq S
  PROVE  /\ SumOver(OnKind(f, r, k), S) = SumOver(f, FindIn(r, k, d))
         /\ SumOver(f, FindIn(r, k, d)) \in Nat
         /\ \A i \in S : OnKind(f, r, k)[i] \in Nat
  <1>1. IsFiniteSet(S) /\ S \subseteq Finance!Ids
    BY BookValues, FS_Subset DEF DayIn
  <1>2. PICK T : T = FindIn(r, k, d)
    OBVIOUS
  <1>3. IsFiniteSet(T) /\ T \in SUBSET S /\ T \subseteq Finance!Ids
    BY <1>1, <1>2, FS_Subset
  <1>4. PICK h : h = OnKind(f, r, k)
    OBVIOUS
  <1>5. \A i \in S : h[i] \in Nat
    BY <1>1, <1>4 DEF OnKind
  <1>6. \A i \in S \ T : h[i] = 0
    BY <1>1, <1>2, <1>4 DEF OnKind, FindIn, DayIn
  <1>7. SumOver(h, S) = SumOver(h, T)
    BY <1>1, <1>3, <1>5, <1>6, SumZeros
  <1>8. \A i \in T : h[i] = f[i]
    BY <1>2, <1>4 DEF OnKind, FindIn
  <1>9. SumOver(h, T) = SumOver(f, T)
    BY <1>8, SumSame
  <1>10. SumOver(f, T) \in Nat
    BY <1>3, SumIn
  <1>11. QED
    BY <1>2, <1>4, <1>5, <1>7, <1>9, <1>10

(* The line of a record in the detail of its day.                          *)
LineOf(row) == CASE row.kind = "daily_revenue"    -> row.till + row.takeaway
                 [] row.kind = "monthly_overhead" -> -(row.rent + row.power)
                 [] OTHER                         -> -row.amount

Lines(r) == [i \in Finance!Ids |-> LineOf(r[i])]

LEMMA LineSums ==
  ASSUME NEW S \in SUBSET Finance!Ids
  PROVE  Finance!MapThenSumSet(LAMBDA i : LineOf(bRecord[i]), S) = SumOver(Lines(bRecord), S)
  <1>1. PICK f : f = Lines(bRecord)
    OBVIOUS
  <1>2. \A u \in SUBSET S : u # {} => f[Chosen(u)] = LineOf(bRecord[Chosen(u)])
    BY <1>1, ChosenIn DEF Lines
  <1>3. \A g : [u \in SUBSET S |-> Body(f, g, u)]
                = [u \in SUBSET S |-> IF u = {} THEN 0
                                      ELSE LineOf(bRecord[Chosen(u)]) + g[u \ {Chosen(u)}]]
    BY <1>2 DEF Body
  <1>4. SumOver(f, S)
          = (CHOOSE g : g = [u \in SUBSET S |-> IF u = {} THEN 0
                                ELSE LineOf(bRecord[Chosen(u)]) + g[u \ {Chosen(u)}]])[S]
    BY <1>3 DEF SumOver, PartialSums
  <1>5. Finance!MapThenSumSet(LAMBDA i : LineOf(bRecord[i]), S)
          = (CHOOSE g : g = [u \in SUBSET S |-> IF u = {} THEN 0
                                ELSE LineOf(bRecord[Chosen(u)]) + g[u \ {Chosen(u)}]])[S]
    BY DEF Finance!MapThenSumSet, Finance!MapThenFoldSet, Chosen
  <1>6. QED
    BY <1>1, <1>4, <1>5

LEMMA DetailIsSum == \A d : Finance!DayDetail(d) = SumOver(Lines(bRecord), DayIn(bRecord, d))
  <1>1. ASSUME NEW d
        PROVE  Finance!DayDetail(d) = SumOver(Lines(bRecord), DayIn(bRecord, d))
    <2>1. Finance!OfDay(d) = DayIn(bRecord, d) /\ Finance!OfDay(d) \in SUBSET Finance!Ids
      BY DEF Finance!OfDay, Finance!Kept, DayIn
    <2>2. Finance!DayDetail(d) = Finance!MapThenSumSet(LAMBDA i : LineOf(bRecord[i]), Finance!OfDay(d))
      BY DEF Finance!DayDetail, LineOf, Finance!MapThenSumSet, Finance!MapThenFoldSet
    <2>3. Finance!MapThenSumSet(LAMBDA i : LineOf(bRecord[i]), Finance!OfDay(d))
            = SumOver(Lines(bRecord), Finance!OfDay(d))
      BY <2>1, LineSums
    <2>4. QED
      BY <2>1, <2>2, <2>3
  <1>2. QED
    BY <1>1

LEMMA DetailAgrees ==
  ASSUME NEW r \in Ledger, NEW d, NEW b, b = BucketOf(r, d)
  PROVE  SumOver(Lines(r), DayIn(r, d))
           = b.revenue - b.ingredient_cost - b.rent_amount - b.electricity_amount
  <1>1. PICK S : S = DayIn(r, d)
    OBVIOUS
  <1>2. /\ IsFiniteSet(S) /\ S \subseteq Finance!Ids
        /\ \A k \in Finance!Kinds : FindIn(r, k, d) \subseteq S
    BY <1>1, BookValues, FS_Subset DEF DayIn, FindIn
  <1>3. PICK R, C, O, P, A, U :
           /\ R = OnKind(Tills(r), r, "daily_revenue")
           /\ C = OnKind(Amounts(r), r, "ingredient_cost")
           /\ O = OnKind(Rents(r), r, "monthly_overhead")
           /\ P = OnKind(Powers(r), r, "monthly_overhead")
           /\ A = OnKind(Amounts(r), r, "rent")
           /\ U = OnKind(Amounts(r), r, "utilities")
    OBVIOUS
  <1>4. /\ {"daily_revenue", "ingredient_cost", "monthly_overhead", "rent", "utilities"} \subseteq Finance!Kinds
         /\ \A i \in Finance!Ids : /\ Tills(r)[i] \in Nat /\ Amounts(r)[i] \in Nat
                                   /\ Rents(r)[i] \in Nat /\ Powers(r)[i] \in Nat
    BY LedgerSums DEF Finance!Kinds
  <1>5. /\ SumOver(R, S) = SumOver(Tills(r), FindIn(r, "daily_revenue", d))
        /\ SumOver(R, S) \in Nat /\ \A i \in S : R[i] \in Nat
    BY <1>1, <1>2, <1>3, <1>4, SumOfKind
  <1>6. /\ SumOver(C, S) = SumOver(Amounts(r), FindIn(r, "ingredient_cost", d))
        /\ SumOver(C, S) \in Nat /\ \A i \in S : C[i] \in Nat
    BY <1>1, <1>2, <1>3, <1>4, SumOfKind
  <1>7. /\ SumOver(O, S) = SumOver(Rents(r), FindIn(r, "monthly_overhead", d))
        /\ SumOver(O, S) \in Nat /\ \A i \in S : O[i] \in Nat
    BY <1>1, <1>2, <1>3, <1>4, SumOfKind
  <1>8. /\ SumOver(P, S) = SumOver(Powers(r), FindIn(r, "monthly_overhead", d))
        /\ SumOver(P, S) \in Nat /\ \A i \in S : P[i] \in Nat
    BY <1>1, <1>2, <1>3, <1>4, SumOfKind
  <1>9. /\ SumOver(A, S) = SumOver(Amounts(r), FindIn(r, "rent", d))
        /\ SumOver(A, S) \in Nat /\ \A i \in S : A[i] \in Nat
    BY <1>1, <1>2, <1>3, <1>4, SumOfKind
  <1>10. /\ SumOver(U, S) = SumOver(Amounts(r), FindIn(r, "utilities", d))
        /\ SumOver(U, S) \in Nat /\ \A i \in S : U[i] \in Nat
    BY <1>1, <1>2, <1>3, <1>4, SumOfKind
  <1>11. \A i \in S : Lines(r)[i] = R[i] - C[i] - O[i] - P[i] - A[i] - U[i]
    <2>1. ASSUME NEW i \in S
          PROVE  Lines(r)[i] = R[i] - C[i] - O[i] - P[i] - A[i] - U[i]
      <3>1. i \in Finance!Ids /\ r[i].kind \in Finance!Kinds /\ r[i] \in RecordRow
        BY <1>1, <2>1, LedgerSums DEF DayIn
      <3>2. /\ r[i].till \in Nat /\ r[i].takeaway \in Nat /\ r[i].amount \in Nat
            /\ r[i].rent \in Nat /\ r[i].power \in Nat
        BY <3>1 DEF RecordRow
      <3>3. /\ R[i] = IF r[i].kind = "daily_revenue" THEN r[i].till + r[i].takeaway ELSE 0
            /\ C[i] = IF r[i].kind = "ingredient_cost" THEN r[i].amount ELSE 0
            /\ O[i] = IF r[i].kind = "monthly_overhead" THEN r[i].rent ELSE 0
            /\ P[i] = IF r[i].kind = "monthly_overhead" THEN r[i].power ELSE 0
            /\ A[i] = IF r[i].kind = "rent" THEN r[i].amount ELSE 0
            /\ U[i] = IF r[i].kind = "utilities" THEN r[i].amount ELSE 0
        BY <1>3, <3>1 DEF OnKind, Tills, Amounts, Rents, Powers
      <3>4. Lines(r)[i] = LineOf(r[i])
        BY <3>1 DEF Lines
      <3>5. QED
        BY <3>1, <3>2, <3>3, <3>4 DEF LineOf, Finance!Kinds
    <2>2. QED
      BY <2>1
  <1>12. PICK f1, f2, f3, f4 :
            /\ f1 = [i \in S |-> R[i] - C[i]] /\ f2 = [i \in S |-> f1[i] - O[i]]
            /\ f3 = [i \in S |-> f2[i] - P[i]] /\ f4 = [i \in S |-> f3[i] - A[i]]
    OBVIOUS
  <1>13. SumOver(f1, S) = SumOver(R, S) - SumOver(C, S) /\ \A i \in S : f1[i] = R[i] - C[i] /\ f1[i] \in Int
    <2>1. \A i \in S : R[i] \in Int /\ C[i] \in Int /\ f1[i] = R[i] - C[i]
      BY <1>5, <1>6, <1>12
    <2>2. QED
      BY <1>2, <2>1, SumMinus
  <1>14. SumOver(f2, S) = SumOver(f1, S) - SumOver(O, S) /\ \A i \in S : f2[i] = f1[i] - O[i] /\ f2[i] \in Int
    <2>1. \A i \in S : f1[i] \in Int /\ O[i] \in Int /\ f2[i] = f1[i] - O[i]
      BY <1>7, <1>12, <1>13
    <2>2. QED
      BY <1>2, <2>1, SumMinus
  <1>15. SumOver(f3, S) = SumOver(f2, S) - SumOver(P, S) /\ \A i \in S : f3[i] = f2[i] - P[i] /\ f3[i] \in Int
    <2>1. \A i \in S : f2[i] \in Int /\ P[i] \in Int /\ f3[i] = f2[i] - P[i]
      BY <1>8, <1>12, <1>14
    <2>2. QED
      BY <1>2, <2>1, SumMinus
  <1>16. SumOver(f4, S) = SumOver(f3, S) - SumOver(A, S) /\ \A i \in S : f4[i] = f3[i] - A[i] /\ f4[i] \in Int
    <2>1. \A i \in S : f3[i] \in Int /\ A[i] \in Int /\ f4[i] = f3[i] - A[i]
      BY <1>9, <1>12, <1>15
    <2>2. QED
      BY <1>2, <2>1, SumMinus
  <1>17. SumOver(Lines(r), S) = SumOver(f4, S) - SumOver(U, S)
    <2>1. \A i \in S : f4[i] \in Int /\ U[i] \in Int /\ Lines(r)[i] = f4[i] - U[i]
      BY <1>10, <1>11, <1>13, <1>14, <1>15, <1>16
    <2>2. QED
      BY <1>2, <2>1, SumMinus
  <1>18. /\ b.revenue = SumOver(R, S) /\ b.ingredient_cost = SumOver(C, S)
         /\ b.rent_amount = SumOver(O, S) + SumOver(A, S)
         /\ b.electricity_amount = SumOver(P, S) + SumOver(U, S)
    BY <1>5, <1>6, <1>7, <1>8, <1>9, <1>10 DEF BucketOf
  <1>19. QED
    BY <1>1, <1>5, <1>6, <1>7, <1>8, <1>9, <1>10, <1>13, <1>14, <1>15, <1>16, <1>17, <1>18

(***************************************************************************)
(* mergeLegacyOverhead: what a record adds to the row of its day.  The row *)
(* that starts empty and takes the records of a list one after the other   *)
(* is the only solution of the fold's recursion, and its columns are sums. *)
(***************************************************************************)
RentShare(row)  == IF row.kind = "rent" THEN row.amount ELSE IF row.kind = "utilities" THEN 0 ELSE row.rent
PowerShare(row) == IF row.kind = "utilities" THEN row.amount ELSE IF row.kind = "rent" THEN 0 ELSE row.power

NoOverhead == [rent |-> 0, power |-> 0]

OverheadIn(r, d) == {i \in DayIn(r, d) : r[i].kind \in Finance!Overhead}

LEMMA LastIn == ASSUME NEW n \in Nat, NEW T \in SUBSET (1..n), T # {} PROVE Finance!Max(T) \in T
  <1>1. \E m \in T : \A x \in T : m >= x
    <2> DEFINE Gaps == {n - x : x \in T}
    <2>1. Gaps \subseteq Nat /\ Gaps # {}
      <3>1. \A x \in T : x \in 1..n /\ n - x \in Nat
        OBVIOUS
      <3>2. QED
        BY <3>1
    <2>2. PICK g \in Gaps : \A h \in Gaps : g <= h
      BY <2>1, Least
    <2>3. PICK m \in T : g = n - m
      BY <2>2
    <2>4. ASSUME NEW x \in T PROVE m >= x
      <3>1. n - x \in Gaps /\ n - m <= n - x
        BY <2>2, <2>3, <2>4
      <3>2. m \in Nat /\ x \in Nat
        BY <2>4
      <3>3. QED
        BY <3>1, <3>2
    <2>5. QED
      BY <2>4
  <1>2. QED
    BY <1>1 DEF Finance!Max

LEMMA MergeAdds ==
  ASSUME NEW a \in Int, NEW b \in Int, NEW row \in RecordRow
  PROVE  Finance!Merge([rent |-> a, power |-> b], row)
           = [rent |-> a + RentShare(row), power |-> b + PowerShare(row)]
  BY DEF Finance!Merge, RentShare, PowerShare, RecordRow

Merged(list, g, T) ==
    IF T = {} THEN NoOverhead
    ELSE Finance!Merge(g[T \ {Finance!Max(T)}], list[Finance!Max(T)])

LEMMA ListedIsFold ==
  \A list : Finance!ListedOverhead(list)
              = (CHOOSE g : g = [T \in SUBSET DOMAIN list |-> Merged(list, g, T)])[DOMAIN list]
  BY DEF Finance!ListedOverhead, Finance!FoldLeft, Finance!MapThenFoldSet, Merged, NoOverhead

LEMMA ListedIsSum ==
  ASSUME NEW n \in Nat, NEW list, DOMAIN list = 1..n, \A m \in 1..n : list[m] \in RecordRow
  PROVE  Finance!ListedOverhead(list)
           = [rent  |-> SumOver([m \in 1..n |-> RentShare(list[m])], 1..n),
              power |-> SumOver([m \in 1..n |-> PowerShare(list[m])], 1..n)]
  <1> DEFINE D == 1..n
  <1>1. PICK fr, fp : /\ fr = [m \in D |-> RentShare(list[m])]
                      /\ fp = [m \in D |-> PowerShare(list[m])]
    OBVIOUS
  <1>2. \A m \in D : fr[m] \in Int /\ fp[m] \in Int
    BY <1>1 DEF RentShare, PowerShare, RecordRow
  <1>3. \A T \in SUBSET D : /\ IsFiniteSet(T) /\ IsFiniteSet(T \ {Finance!Max(T)})
                            /\ T # {} => Finance!Max(T) \in T
    <2> SUFFICES ASSUME NEW T \in SUBSET D
                 PROVE  /\ IsFiniteSet(T) /\ IsFiniteSet(T \ {Finance!Max(T)})
                        /\ T # {} => Finance!Max(T) \in T
      OBVIOUS
    <2>1. IsFiniteSet(1..n)
      BY FS_Interval
    <2>2. IsFiniteSet(T)
      BY <2>1, FS_Subset
    <2>3. IsFiniteSet(T \ {Finance!Max(T)})
      BY <2>2, FS_Subset
    <2>4. T # {} => Finance!Max(T) \in T
      BY LastIn
    <2>5. QED
      BY <2>2, <2>3, <2>4
  <1> DEFINE G == [T \in SUBSET D |-> [rent |-> SumOver(fr, T), power |-> SumOver(fp, T)]]
  <1>4. ASSUME NEW T \in SUBSET D PROVE G[T] = Merged(list, G, T)
    <2>1. CASE T = {}
      BY <2>1, SumEmpty DEF Merged, NoOverhead
    <2>2. CASE T # {}
      <3>1. PICK m : m = Finance!Max(T)
        OBVIOUS
      <3>2. m \in T /\ m \in D /\ IsFiniteSet(T) /\ IsFiniteSet(T \ {m})
        BY <1>3, <2>2, <3>1
      <3>3. \A x \in T : fr[x] \in Int /\ fp[x] \in Int
        BY <1>2
      <3>4. SumOver(fr, T) = fr[m] + SumOver(fr, T \ {m})
        BY <3>2, <3>3, SumWithout
      <3>5. SumOver(fp, T) = fp[m] + SumOver(fp, T \ {m})
        BY <3>2, <3>3, SumWithout
      <3>6. PICK a, b : a = SumOver(fr, T \ {m}) /\ b = SumOver(fp, T \ {m})
        OBVIOUS
      <3>7. a \in Int /\ b \in Int
        BY <3>2, <3>3, <3>6, SumIn
      <3>8. G[T \ {m}] = [rent |-> a, power |-> b]
        BY <3>6
      <3>9. Finance!Merge([rent |-> a, power |-> b], list[m])
              = [rent |-> a + RentShare(list[m]), power |-> b + PowerShare(list[m])]
        BY <3>2, <3>7, MergeAdds
      <3>10. fr[m] = RentShare(list[m]) /\ fp[m] = PowerShare(list[m])
        BY <1>1, <3>2
      <3>11. SumOver(fr, T) = a + RentShare(list[m]) /\ SumOver(fp, T) = b + PowerShare(list[m])
        BY <1>2, <3>2, <3>4, <3>5, <3>6, <3>7, <3>10
      <3>12. G[T] = Finance!Merge([rent |-> a, power |-> b], list[m])
        BY <3>9, <3>11
      <3>13. QED
        BY <2>2, <3>1, <3>8, <3>12 DEF Merged
    <2>3. QED
      BY <2>1, <2>2
  <1>5. PICK G0 : G0 = G
    OBVIOUS
  <1>6. G0 = [T \in SUBSET D |-> Merged(list, G0, T)]
    BY <1>4, <1>5
  <1>7. PICK H : /\ H = [T \in SUBSET D |-> Merged(list, H, T)]
                 /\ Finance!ListedOverhead(list) = H[D]
    <2>1. PICK H : H = CHOOSE g : g = [T \in SUBSET D |-> Merged(list, g, T)]
      OBVIOUS
    <2>2. H = [T \in SUBSET D |-> Merged(list, H, T)]
      BY <1>6, <2>1
    <2>3. Finance!ListedOverhead(list) = H[D]
      BY <2>1, ListedIsFold
    <2>4. QED
      BY <2>2, <2>3
  <1> HIDE DEF G
  <1>8. H[D] = G0[D]
    <2> DEFINE Wrong == {T \in SUBSET D : H[T] # G0[T]}
    <2>1. SUFFICES ASSUME H[D] # G0[D] PROVE FALSE
      OBVIOUS
    <2>2. Wrong # {} /\ \A T \in Wrong : IsFiniteSet(T)
      BY <1>3, <2>1
    <2>3. PICK T \in Wrong : \A U \in Wrong : Cardinality(T) <= Cardinality(U)
      BY <2>2, SmallestSet
    <2>4. /\ T \in SUBSET D /\ H[T] # G0[T]
          /\ H[T] = Merged(list, H, T) /\ G0[T] = Merged(list, G0, T)
      BY <1>6, <1>7
    <2>5. T # {}
      BY <2>4 DEF Merged
    <2>6. PICK m : m = Finance!Max(T)
      OBVIOUS
    <2>7. /\ m \in T /\ T \ {m} \in SUBSET D
          /\ Cardinality(T \ {m}) = Cardinality(T) - 1 /\ Cardinality(T) \in Nat
      BY <1>3, <2>4, <2>5, <2>6, Without
    <2>8. H[T \ {m}] = G0[T \ {m}]
      BY <2>3, <2>7
    <2>9. Merged(list, H, T) = Merged(list, G0, T)
      BY <2>5, <2>6, <2>8 DEF Merged
    <2>10. QED
      BY <2>4, <2>9
  <1>9. G0[D] = [rent |-> SumOver(fr, D), power |-> SumOver(fp, D)]
    BY <1>5 DEF G
  <1>10. QED
    BY <1>1, <1>7, <1>8, <1>9

(* The columns of the merged row, summed over the records.                 *)
LEMMA SharesAgree ==
  ASSUME NEW r \in Ledger, NEW d, NEW b, b = BucketOf(r, d)
  PROVE  /\ SumOver([i \in Finance!Ids |-> RentShare(r[i])], OverheadIn(r, d)) = b.rent_amount
         /\ SumOver([i \in Finance!Ids |-> PowerShare(r[i])], OverheadIn(r, d)) = b.electricity_amount
  <1>1. PICK S : S = OverheadIn(r, d)
    OBVIOUS
  <1>2. /\ IsFiniteSet(S) /\ S \subseteq DayIn(r, d) /\ S \subseteq Finance!Ids
        /\ FindIn(r, "monthly_overhead", d) \subseteq S
        /\ FindIn(r, "rent", d) \subseteq S /\ FindIn(r, "utilities", d) \subseteq S
    BY <1>1, BookValues, FS_Subset DEF OverheadIn, DayIn, FindIn, Finance!Overhead, Finance!Kinds
  <1>3. PICK O, P, A, U :
           /\ O = OnKind(Rents(r), r, "monthly_overhead")
           /\ P = OnKind(Powers(r), r, "monthly_overhead")
           /\ A = OnKind(Amounts(r), r, "rent")
           /\ U = OnKind(Amounts(r), r, "utilities")
    OBVIOUS
  <1>4. /\ {"monthly_overhead", "rent", "utilities"} \subseteq Finance!Kinds
        /\ \A i \in Finance!Ids : /\ Amounts(r)[i] \in Nat
                                  /\ Rents(r)[i] \in Nat /\ Powers(r)[i] \in Nat
    BY LedgerSums DEF Finance!Kinds
  <1>5. /\ SumOver(O, S) = SumOver(Rents(r), FindIn(r, "monthly_overhead", d))
        /\ \A i \in S : O[i] \in Int
    BY <1>2, <1>3, <1>4, SumOfKind
  <1>6. /\ SumOver(P, S) = SumOver(Powers(r), FindIn(r, "monthly_overhead", d))
        /\ \A i \in S : P[i] \in Int
    BY <1>2, <1>3, <1>4, SumOfKind
  <1>7. /\ SumOver(A, S) = SumOver(Amounts(r), FindIn(r, "rent", d))
        /\ \A i \in S : A[i] \in Int
    BY <1>2, <1>3, <1>4, SumOfKind
  <1>8. /\ SumOver(U, S) = SumOver(Amounts(r), FindIn(r, "utilities", d))
        /\ \A i \in S : U[i] \in Int
    BY <1>2, <1>3, <1>4, SumOfKind
  <1>9. PICK fr, fp : /\ fr = [i \in Finance!Ids |-> RentShare(r[i])]
                      /\ fp = [i \in Finance!Ids |-> PowerShare(r[i])]
    OBVIOUS
  <1>10. \A i \in S : fr[i] = O[i] + A[i] /\ fp[i] = P[i] + U[i]
    <2>1. ASSUME NEW i \in S PROVE fr[i] = O[i] + A[i] /\ fp[i] = P[i] + U[i]
      <3>1. i \in Finance!Ids /\ r[i].kind \in Finance!Overhead /\ r[i] \in RecordRow
        BY <1>1, <1>2, <2>1, LedgerSums DEF OverheadIn
      <3>2. r[i].amount \in Nat /\ r[i].rent \in Nat /\ r[i].power \in Nat
        BY <3>1 DEF RecordRow
      <3>3. /\ O[i] = IF r[i].kind = "monthly_overhead" THEN r[i].rent ELSE 0
            /\ P[i] = IF r[i].kind = "monthly_overhead" THEN r[i].power ELSE 0
            /\ A[i] = IF r[i].kind = "rent" THEN r[i].amount ELSE 0
            /\ U[i] = IF r[i].kind = "utilities" THEN r[i].amount ELSE 0
        BY <1>3, <3>1 DEF OnKind, Amounts, Rents, Powers
      <3>4. fr[i] = RentShare(r[i]) /\ fp[i] = PowerShare(r[i])
        BY <1>9, <3>1
      <3>5. QED
        BY <3>1, <3>2, <3>3, <3>4 DEF RentShare, PowerShare, Finance!Overhead
    <2>2. QED
      BY <2>1
  <1>11. SumOver(fr, S) = SumOver(O, S) + SumOver(A, S)
    <2>1. \A i \in S : O[i] \in Int /\ A[i] \in Int /\ fr[i] = O[i] + A[i]
      BY <1>5, <1>7, <1>10
    <2>2. QED
      BY <1>2, <2>1, SumPlus
  <1>12. SumOver(fp, S) = SumOver(P, S) + SumOver(U, S)
    <2>1. \A i \in S : P[i] \in Int /\ U[i] \in Int /\ fp[i] = P[i] + U[i]
      BY <1>6, <1>8, <1>10
    <2>2. QED
      BY <1>2, <2>1, SumPlus
  <1>13. QED
    BY <1>1, <1>5, <1>6, <1>7, <1>8, <1>9, <1>11, <1>12 DEF BucketOf

(* A list has every record of its set once.                                *)
LEMMA ListsAll ==
  ASSUME NEW S, IsFiniteSet(S), NEW s \in Finance!SetToSeqs(S)
  PROVE  /\ Cardinality(S) \in Nat /\ s \in [1..Cardinality(S) -> S]
         /\ \A m, n \in 1..Cardinality(S) : s[m] = s[n] => m = n
         /\ {s[m] : m \in 1..Cardinality(S)} = S
  <1>1. PICK n : n = Cardinality(S)
    OBVIOUS
  <1>2. Finance!Cardinality(S) = n
    BY <1>1 DEF Finance!Cardinality, Cardinality, Finance!IsFiniteSet, IsFiniteSet
  <1>3. n \in Nat
    BY <1>1, FS_CardinalityType
  <1>4. s \in [1..n -> S] /\ \A x, y \in 1..n : x # y => s[x] # s[y]
    BY <1>2 DEF Finance!SetToSeqs
  <1>5. s \in Injection(1..n, S)
    BY <1>4 DEF Injection, IsInjective
  <1>6. Cardinality(1..n) = Cardinality(S)
    BY <1>1, <1>3, FS_Interval
  <1>7. s \in Surjection(1..n, S)
    BY <1>5, <1>6, FS_Injection
  <1>8. {s[m] : m \in 1..n} = S
    BY <1>4, <1>7 DEF Surjection
  <1>9. QED
    BY <1>1, <1>3, <1>4, <1>8

LEMMA ListAgrees ==
  ASSUME NEW r \in Ledger, NEW d, NEW b, b = BucketOf(r, d),
         NEW s \in Finance!SetToSeqs(OverheadIn(r, d))
  PROVE  Finance!ListedOverhead([n \in DOMAIN s |-> r[s[n]]])
           = [rent |-> b.rent_amount, power |-> b.electricity_amount]
  <1>1. PICK S : S = OverheadIn(r, d)
    OBVIOUS
  <1>2. IsFiniteSet(S) /\ S \subseteq Finance!Ids
    BY <1>1, BookValues, FS_Subset DEF OverheadIn, DayIn
  <1>3. PICK n : n = Cardinality(S)
    OBVIOUS
  <1>4. /\ n \in Nat /\ s \in [1..n -> S] /\ \A x, y \in 1..n : s[x] = s[y] => x = y
        /\ {s[x] : x \in 1..n} = S
    BY <1>1, <1>2, <1>3, ListsAll
  <1>5. PICK list : list = [x \in DOMAIN s |-> r[s[x]]]
    OBVIOUS
  <1>6. DOMAIN list = 1..n /\ \A x \in 1..n : list[x] = r[s[x]] /\ list[x] \in RecordRow
    BY <1>2, <1>4, <1>5, LedgerSums
  <1>7. PICK fr, fp : /\ fr = [i \in Finance!Ids |-> RentShare(r[i])]
                      /\ fp = [i \in Finance!Ids |-> PowerShare(r[i])]
    OBVIOUS
  <1>8. PICK hr, hp : /\ hr = [x \in 1..n |-> RentShare(list[x])]
                      /\ hp = [x \in 1..n |-> PowerShare(list[x])]
    OBVIOUS
  <1>9. \A x \in 1..n : hr[x] = fr[s[x]] /\ hp[x] = fp[s[x]]
    BY <1>2, <1>4, <1>6, <1>7, <1>8
  <1>10. \A i \in S : fr[i] \in Int /\ fp[i] \in Int
    <2>1. \A i \in S : r[i] \in RecordRow /\ fr[i] = RentShare(r[i]) /\ fp[i] = PowerShare(r[i])
      BY <1>2, <1>7, LedgerSums
    <2>2. \A row \in RecordRow : RentShare(row) \in Int /\ PowerShare(row) \in Int
      BY DEF RentShare, PowerShare, RecordRow
    <2>3. QED
      BY <2>1, <2>2
  <1>11. PICK D : D = 1..n
    OBVIOUS
  <1>12. /\ IsFiniteSet(D) /\ \A x \in D : s[x] \in S
         /\ \A x, y \in D : s[x] = s[y] => x = y
         /\ {s[x] : x \in D} = S
         /\ \A x \in D : hr[x] = fr[s[x]] /\ hp[x] = fp[s[x]]
    BY <1>4, <1>9, <1>11, FS_Interval
  <1>13. SumOver(hr, D) = SumOver(fr, {s[x] : x \in D})
    BY <1>2, <1>10, <1>12, SumRenamed
  <1>14. SumOver(hp, D) = SumOver(fp, {s[x] : x \in D})
    BY <1>2, <1>10, <1>12, SumRenamed
  <1>15. Finance!ListedOverhead(list) = [rent |-> SumOver(hr, D), power |-> SumOver(hp, D)]
    BY <1>4, <1>6, <1>8, <1>11, ListedIsSum
  <1>16. SumOver(fr, S) = b.rent_amount /\ SumOver(fp, S) = b.electricity_amount
    BY <1>1, <1>7, SharesAgree
  <1>17. QED
    BY <1>5, <1>12, <1>13, <1>14, <1>15, <1>16

(***************************************************************************)
(* The summary of a period and its calendar.                               *)
(***************************************************************************)
Columns(reports, f) == [d \in Dates |-> reports[d][f]]

Profits(reports) ==
    [d \in Dates |-> reports[d].revenue
                     - (reports[d].ingredient_cost + reports[d].rent_amount + reports[d].electricity_amount)]

LEMMA ColumnSums ==
  ASSUME NEW ds \in SUBSET Dates, NEW f
  PROVE  Finance!MapThenSumSet(LAMBDA d : bReport[d][f], ds) = SumOver(Columns(bReport, f), ds)
  <1>1. PICK col : col = Columns(bReport, f)
    OBVIOUS
  <1>2. \A u \in SUBSET ds : u # {} => col[Chosen(u)] = bReport[Chosen(u)][f]
    BY <1>1, ChosenIn DEF Columns
  <1>3. \A g : [u \in SUBSET ds |-> Body(col, g, u)]
                = [u \in SUBSET ds |-> IF u = {} THEN 0 ELSE bReport[Chosen(u)][f] + g[u \ {Chosen(u)}]]
    BY <1>2 DEF Body
  <1>4. SumOver(col, ds)
          = (CHOOSE g : g = [u \in SUBSET ds |-> IF u = {} THEN 0
                                ELSE bReport[Chosen(u)][f] + g[u \ {Chosen(u)}]])[ds]
    BY <1>3 DEF SumOver, PartialSums
  <1>5. Finance!MapThenSumSet(LAMBDA d : bReport[d][f], ds)
          = (CHOOSE g : g = [u \in SUBSET ds |-> IF u = {} THEN 0
                                ELSE bReport[Chosen(u)][f] + g[u \ {Chosen(u)}]])[ds]
    BY DEF Finance!MapThenSumSet, Finance!MapThenFoldSet, Chosen
  <1>6. QED
    BY <1>1, <1>4, <1>5

LEMMA CalendarSums ==
  ASSUME NEW ds \in SUBSET Dates
  PROVE  Finance!MapThenSumSet(LAMBDA d : Finance!Calendar(ds)[d], ds) = SumOver(Profits(bReport), ds)
  <1>1. PICK cal : cal = Finance!Calendar(ds)
    OBVIOUS
  <1>2. Finance!MapThenSumSet(LAMBDA d : cal[d], ds) = SumOver(cal, ds)
    BY DEF Finance!MapThenSumSet, Finance!MapThenFoldSet, SumOver, PartialSums, Body, Chosen
  <1>3. \A d \in ds : cal[d] = Profits(bReport)[d]
    BY <1>1 DEF Finance!Calendar, Finance!Expense, Profits
  <1>4. SumOver(cal, ds) = SumOver(Profits(bReport), ds)
    BY <1>3, SumSame
  <1>5. Finance!MapThenSumSet(LAMBDA d : Finance!Calendar(ds)[d], ds)
          = Finance!MapThenSumSet(LAMBDA d : cal[d], ds)
    BY <1>1 DEF Finance!MapThenSumSet, Finance!MapThenFoldSet
  <1>6. QED
    BY <1>2, <1>4, <1>5

LEMMA SummaryAgrees ==
  ASSUME BooksInv, NEW ds \in SUBSET Dates
  PROVE  Finance!Summary(ds) = Finance!MapThenSumSet(LAMBDA d : Finance!Calendar(ds)[d], ds)
  <1>1. PICK R, C, O, P, N :
           /\ R = Columns(bReport, "revenue") /\ C = Columns(bReport, "ingredient_cost")
           /\ O = Columns(bReport, "rent_amount") /\ P = Columns(bReport, "electricity_amount")
           /\ N = Profits(bReport)
    OBVIOUS
  <1>2. \A d \in ds : /\ R[d] \in Nat /\ C[d] \in Nat /\ O[d] \in Nat /\ P[d] \in Nat
                      /\ N[d] = R[d] - (C[d] + O[d] + P[d])
    <2>1. \A d \in ds : d \in Dates /\ bReport[d] \in DailyReport
      BY DEF BooksInv, BooksTyped
    <2>2. QED
      BY <1>1, <2>1 DEF Columns, Profits, DailyReport
  <1>3. IsFiniteSet(ds)
    BY ServicesAssumption, FS_Subset
  <1>4. Finance!Summary(ds) = SumOver(R, ds) - (SumOver(C, ds) + SumOver(O, ds) + SumOver(P, ds))
    BY <1>1, ColumnSums DEF Finance!Summary
  <1>5. PICK E1, E2 : E1 = [d \in ds |-> C[d] + O[d]] /\ E2 = [d \in ds |-> E1[d] + P[d]]
    OBVIOUS
  <1>6. SumOver(E1, ds) = SumOver(C, ds) + SumOver(O, ds)
    <2>1. \A d \in ds : C[d] \in Int /\ O[d] \in Int /\ E1[d] = C[d] + O[d]
      BY <1>2, <1>5
    <2>2. QED
      BY <1>3, <2>1, SumPlus
  <1>7. \A d \in ds : E1[d] \in Int /\ E2[d] \in Int /\ E2[d] = C[d] + O[d] + P[d]
    BY <1>2, <1>5
  <1>8. SumOver(E2, ds) = SumOver(E1, ds) + SumOver(P, ds)
    <2>1. \A d \in ds : E1[d] \in Int /\ P[d] \in Int /\ E2[d] = E1[d] + P[d]
      BY <1>2, <1>5, <1>7
    <2>2. QED
      BY <1>3, <2>1, SumPlus
  <1>9. SumOver(N, ds) = SumOver(R, ds) - SumOver(E2, ds)
    <2>1. \A d \in ds : R[d] \in Int /\ E2[d] \in Int /\ N[d] = R[d] - E2[d]
      BY <1>2, <1>7
    <2>2. QED
      BY <1>3, <2>1, SumMinus
  <1>10. Finance!MapThenSumSet(LAMBDA d : Finance!Calendar(ds)[d], ds) = SumOver(N, ds)
    BY <1>1, CalendarSums
  <1>11. QED
    BY <1>4, <1>6, <1>8, <1>9, <1>10

LEMMA SumsAlwaysAgree == ASSUME BooksInv PROVE Finance!SumsAgree
  <1>1. bRecord \in Ledger
    BY DEF BooksInv, BooksTyped
  <1>2. PICK r : r = bRecord
    OBVIOUS
  <1>3. ASSUME NEW d \in Dates
        PROVE  /\ Finance!DayDetail(d) = Finance!Bucket(d).revenue - Finance!Bucket(d).ingredient_cost
                      - Finance!Bucket(d).rent_amount - Finance!Bucket(d).electricity_amount
               /\ \A s \in Finance!SetToSeqs({i \in Finance!OfDay(d) : bRecord[i].kind \in Finance!Overhead}) :
                     Finance!ListedOverhead([n \in DOMAIN s |-> bRecord[s[n]]])
                       = [rent |-> Finance!Bucket(d).rent_amount,
                          power |-> Finance!Bucket(d).electricity_amount]
    <2>1. PICK b : b = BucketOf(r, d)
      OBVIOUS
    <2>2. Finance!Bucket(d) = b
      BY <1>2, <2>1, BucketsAreOf
    <2>3. Finance!DayDetail(d) = b.revenue - b.ingredient_cost - b.rent_amount - b.electricity_amount
      <3>1. Finance!DayDetail(d) = SumOver(Lines(r), DayIn(r, d))
        BY <1>2, DetailIsSum
      <3>2. QED
        BY <1>1, <1>2, <2>1, <3>1, DetailAgrees
    <2>4. {i \in Finance!OfDay(d) : bRecord[i].kind \in Finance!Overhead} = OverheadIn(r, d)
      BY <1>2 DEF OverheadIn, DayIn, Finance!OfDay, Finance!Kept
    <2>5. ASSUME NEW s \in Finance!SetToSeqs(OverheadIn(r, d))
          PROVE  Finance!ListedOverhead([n \in DOMAIN s |-> bRecord[s[n]]])
                   = [rent |-> b.rent_amount, power |-> b.electricity_amount]
      <3>1. Finance!ListedOverhead([n \in DOMAIN s |-> r[s[n]]])
              = [rent |-> b.rent_amount, power |-> b.electricity_amount]
        BY <1>1, <1>2, <2>1, <2>5, ListAgrees
      <3>2. [n \in DOMAIN s |-> r[s[n]]] = [n \in DOMAIN s |-> bRecord[s[n]]]
        BY <1>2
      <3>3. QED
        BY <3>1, <3>2
    <2>6. QED
      BY <2>2, <2>3, <2>4, <2>5
  <1>4. \A ds \in SUBSET Dates :
           Finance!Summary(ds) = Finance!MapThenSumSet(LAMBDA d : Finance!Calendar(ds)[d], ds)
    BY SummaryAgrees
  <1>5. QED
    BY <1>3, <1>4 DEF Finance!SumsAgree

LEMMA BooksTypesHold == ASSUME BooksInv PROVE Finance!FinanceTypeOK
  <1>1. ASSUME NEW i \in Finance!Ids
        PROVE  bRecord[i].kind \in Finance!Kinds \cup {"none", "gone"} /\ bRecord[i].takeaway >= 0
    BY DEF BooksInv, BooksTyped, Ledger, RecordRow
  <1>2. \A i, j \in Finance!Kept :
           bRecord[i].kind = bRecord[j].kind /\ bRecord[i].date = bRecord[j].date => i = j
    BY DEF BooksInv, OneOfAKind, Finance!Kept
  <1>3. ASSUME NEW d \in Dates, NEW f \in DOMAIN Finance!Zero PROVE bReport[d][f] \in Nat
    <2>1. bReport[d] \in DailyReport
      BY DEF BooksInv, BooksTyped
    <2>2. f \in {"revenue", "ingredient_cost", "rent_amount", "electricity_amount"}
      BY DEF Finance!Zero
    <2>3. QED
      BY <2>1, <2>2 DEF DailyReport
  <1>4. \A c \in Clerks : bStep[c] \in {"read", "put"} => bHeld[c].due # {}
    BY DEF BooksInv, WorkHolds
  <1>5. QED
    BY <1>1, <1>2, <1>3, <1>4 DEF Finance!FinanceTypeOK

(* The books of a store are right, or it is known why not: a day's report  *)
(* is its records' sum unless its change was overtaken or cut short, every *)
(* view of a day or a period gives the same sums, and a generated revenue  *)
(* leaves the day's takeaway alone.                                        *)
THEOREM BooksAlwaysAgree == ServicesSpec => BooksAgree
  <1> DEFINE Inv == part = "finance" => BooksInv
  <1>1. ServicesInit => Inv
    BY PartsStart, BooksStart
  <1>2. Inv /\ [ServicesNext]_servicesVars => Inv'
    <2>1. ASSUME Inv, [ServicesNext]_servicesVars PROVE Inv'
      BY <2>1, PartsStep, BooksStep
    <2>2. QED
      BY <2>1
  <1>3. Inv => (part = "finance" => /\ Finance!FinanceTypeOK
                                    /\ Finance!ReportExplained
                                    /\ Finance!SumsAgree)
    <2>1. ASSUME BooksInv PROVE Finance!ReportExplained
      BY <2>1, BucketsAreOf DEF BooksInv, Explained, Finance!ReportExplained
    <2>2. QED
      BY <2>1, BooksTypesHold, SumsAlwaysAgree
  <1>4. Inv /\ [ServicesNext]_servicesVars
          => [part = "finance" => Finance!TakeawayKept]_financeVars
    <2>1. ASSUME Inv, [ServicesNext]_servicesVars, part = "finance" PROVE Finance!TakeawayKept
      BY <2>1, PartsStep, TakeawayStep
    <2>2. QED
      BY <2>1
  <1> HIDE DEF Inv
  <1>5. QED
    BY <1>1, <1>2, <1>3, <1>4, PTL DEF ServicesSpec, servicesVars, BooksAgree
=============================================================================

--------------------------- MODULE PublishMetrics ---------------------------
(***************************************************************************)
(* How the reads of a published article are found (PublisherService,       *)
(* AlqqSession).  A refresh reads a job's row, asks ALQQ for its batch and *)
(* then for the publish records, picks the record it takes for the job's,  *)
(* by id, else by title, else because it is the only one, and writes the   *)
(* row back.  Refreshes of one job overlap; each request to ALQQ may fail. *)
(*                                                                         *)
(* Records of other platforms are filtered out first, so there is one      *)
(* platform, and a job has one target.  A job that ALQQ published has one  *)
(* record, which bears the job's name.  Titles are compared after their    *)
(* normalisation (blanks removed, lower case).  ALQQ is external.          *)
(***************************************************************************)
EXTENDS Naturals, Sequences, FiniteSets, SequencesExt

CONSTANTS
    Jobs,          \* jobs, and their publish records at ALQQ
    None,
    Titles,
    Within,        \* pairs of titles, the first a part of the second
    Viewers,       \* refreshes in flight
    PageSize,      \* 50: records of a page
    MaxPages,      \* 3: pages asked for
    MaxReads,      \* bound: reads a record counts up to
    MaxCalls       \* bound: refreshes in all

VARIABLES
    target,    \* content_publish_job.targets: per job, its only target
    title,     \* the jobs' titles; a record has its job's, or shows none
    api,       \* ALQQ: what a batch tells of a publication
    record,    \* ALQQ: per job, how it ended and what its record shows
    recent,    \* ALQQ: the records, newest first
    step,      \* where each refresh is
    held,      \* what it carries
    calls,     \* refreshes started
    broken,    \* history: some listing of records failed
    mixed      \* history: jobs whose row held another job's record

metricVars == <<target, title, api, record, recent, step, held, calls, broken, mixed>>

Reads == {None} \cup 0..MaxReads

(* log: alqqLogId; link: publishUrl or platformPublicUrl is set; checked:  *)
(* statsCheckedAt is set.                                                  *)
JobTarget == [status : {"none", "queued", "success", "failed"}, log : Jobs \cup {None},
              reads : Reads, link : BOOLEAN, checked : BOOLEAN]

NoTarget == [status |-> "none", log |-> None, reads |-> None, link |-> FALSE, checked |-> FALSE]

(* named: a batch tells the ids of the records; public: the posts have an  *)
(* address; titled: the record shows its title.                            *)
Api == [named : BOOLEAN, public : BOOLEAN]
RemoteRecord == [status : {"queued", "success", "failed"}, reads : Reads, titled : BOOLEAN]

NewRecord == [status |-> "queued", reads |-> None, titled |-> FALSE]

(* base: the target as it was read; now: as the refresh will write it.     *)
HeldRefresh == [job : Jobs \cup {None}, forced : BOOLEAN, base : JobTarget, now : JobTarget]
NoHeld == [job |-> None, forced |-> FALSE, base |-> NoTarget, now |-> NoTarget]

MetricsInit ==
    /\ target = [j \in Jobs |-> NoTarget]
    /\ title \in [Jobs -> Titles]
    /\ api \in Api
    /\ record = [j \in Jobs |-> NewRecord]
    /\ recent = <<>>
    /\ step = [w \in Viewers |-> "idle"]
    /\ held = [w \in Viewers |-> NoHeld]
    /\ calls = 0
    /\ broken = FALSE
    /\ mixed = {}

(***************************************************************************)
(* ALQQ (external): it publishes or fails, then counts readers.            *)
(***************************************************************************)
Submit(j) ==
    /\ target[j].status = "none"
    /\ target' = [target EXCEPT ![j].status = "queued"]
    /\ UNCHANGED <<title, api, record, recent, step, held, calls, broken, mixed>>

Ends(j) ==
    /\ target[j].status # "none"
    /\ record[j].status = "queued"
    /\ \/ /\ record' = [record EXCEPT ![j].status = "failed"]
          /\ UNCHANGED recent
       \/ \E titled \in BOOLEAN :
             /\ record' = [record EXCEPT ![j] =
                   [status |-> "success", reads |-> None, titled |-> titled]]
             /\ recent' = <<j>> \o recent
    /\ UNCHANGED <<target, title, api, step, held, calls, broken, mixed>>

IsRead(j) ==
    /\ record[j].status = "success"
    /\ \E n \in 0..MaxReads :
          /\ record[j].reads \in {None} \cup 0..(n - 1)
          /\ record' = [record EXCEPT ![j].reads = n]
    /\ UNCHANGED <<target, title, api, recent, step, held, calls, broken, mixed>>

(***************************************************************************)
(* getJob, refreshJob: a refresh asked for, or one the row calls for.      *)
(***************************************************************************)
NeedsSync(t)    == t.status = "success" /\ ~t.link
NeedsMetrics(t) == t.status = "success" /\ t.reads = None /\ ~t.checked

View(w, j) ==
    /\ step[w] = "idle"
    /\ calls < MaxCalls
    /\ target[j].status # "none"
    /\ \E forced \in BOOLEAN :
          /\ \/ forced
             \/ target[j].status = "queued"
             \/ NeedsSync(target[j])
             \/ NeedsMetrics(target[j])
          /\ held' = [held EXCEPT ![w] =
                [job |-> j, forced |-> forced, base |-> target[j], now |-> target[j]]]
    /\ step' = [step EXCEPT ![w] = "batch"]
    /\ calls' = calls + 1
    /\ UNCHANGED <<target, title, api, record, recent, broken, mixed>>

(* applyRemoteJob; a batch that tells no reads leaves those of the target. *)
FromBatch(t, r, j) ==
    [t EXCEPT !.status = r.status,
              !.log = IF api.named /\ r.status = "success" THEN j ELSE t.log,
              !.link = t.link \/ (api.public /\ r.status = "success")]

(* enrichTargetsWithAnalytics is only called for a reason.                 *)
Enriches(k) == k.forced \/ (k.now.status = "success" /\ k.now.reads = None)

ReadBatch(w) ==
    /\ step[w] = "batch"
    /\ LET j == held[w].job
           k == [held[w] EXCEPT !.now = FromBatch(@, record[j], j)]
       IN  /\ held' = [held EXCEPT ![w] = k]
           /\ step' = [step EXCEPT ![w] = IF Enriches(k) THEN "list" ELSE "write"]
    /\ UNCHANGED <<target, title, api, record, recent, calls, broken, mixed>>

(* getBatch throws: the refresh ends with an error.                        *)
BatchFails(w) ==
    /\ step[w] = "batch"
    /\ step' = [step EXCEPT ![w] = "idle"]
    /\ held' = [held EXCEPT ![w] = NoHeld]
    /\ UNCHANGED <<target, title, api, record, recent, calls, broken, mixed>>

(***************************************************************************)
(* The records: the one with the id held, then up to MaxPages pages of the *)
(* newest.  A failed request answers an empty list, so it is taken for the *)
(* last page.                                                              *)
(***************************************************************************)
Pages(n) == SubSeq(recent, 1, IF n * PageSize < Len(recent) THEN n * PageSize ELSE Len(recent))
AllPages == Pages(MaxPages)
Listings == {Pages(n) : n \in 0..MaxPages}

Listed(log, newest) == IF log = None THEN newest ELSE <<log>> \o RemoveFirst(newest, log)

FirstIn(items, chosen) ==
    LET n == SelectInSeq(items, LAMBDA r : r \in chosen)
    IN  IF n = 0 THEN None ELSE items[n]

SameTitle(j) == {r \in Jobs : record[r].titled /\ title[r] = title[j]}
NearTitle(j) == {r \in Jobs : /\ record[r].titled
                              /\ <<title[r], title[j]>> \in Within \/ <<title[j], title[r]>> \in Within}
Only(items)  == {r \in Jobs : items = <<r>>}

(* The first choice that finds a record decides.                           *)
FirstChoice(items, choices) ==
    LET n == SelectInSeq(choices, LAMBDA s : FirstIn(items, s) # None)
    IN  IF n = 0 THEN None ELSE FirstIn(items, choices[n])

(* Mutant of Matched: the title goes before the id.                        *)
MatchedByTitle(t, j, items) ==
    FirstChoice(items, <<SameTitle(j), {t.log}, NearTitle(j), Only(items)>>)

(* matchAnalyticsItem                                                      *)
Matched(t, j, items) ==
    FirstChoice(items, <<{t.log}, SameTitle(j), NearTitle(j), Only(items)>>)

(* Mutants of Applied: reads a record does not tell are cleared; the       *)
(* record's id is not taken along with its reads.                          *)
AppliedClear(t, r) ==
    IF r = None THEN t
    ELSE [t EXCEPT !.log = r, !.reads = record[r].reads, !.link = t.link \/ api.public]

AppliedReads(t, r) ==
    IF r = None THEN t
    ELSE [t EXCEPT !.log = None,
                   !.reads = IF record[r].reads # None THEN record[r].reads ELSE t.reads,
                   !.link = t.link \/ api.public]

(* applyAnalyticsMetrics                                                   *)
Applied(t, r) ==
    IF r = None THEN t
    ELSE [t EXCEPT !.log = r,
                   !.reads = IF record[r].reads # None THEN record[r].reads ELSE t.reads,
                   !.link = t.link \/ api.public]

(* What the records make of a target: a failed one is left alone.          *)
Enriched(t, j, items) ==
    IF t.status \in {"success", "queued"}
    THEN [Applied(t, Matched(t, j, items)) EXCEPT !.checked = TRUE]
    ELSE t

ReadRecords(w) ==
    /\ step[w] = "list"
    /\ LET k == held[w]
       IN  \E newest \in Listings, byId \in BOOLEAN :
              LET items == IF byId THEN Listed(k.now.log, newest) ELSE newest
              IN  /\ held' = [held EXCEPT ![w].now = Enriched(@, k.job, items)]
                  /\ broken' = (broken \/ ~byId \/ newest # AllPages)
    /\ step' = [step EXCEPT ![w] = "write"]
    /\ UNCHANGED <<target, title, api, record, recent, calls, mixed>>

(* syncJobRowFromAlqq replaces the whole list of targets.                  *)
WriteTarget(w) ==
    /\ step[w] = "write"
    /\ LET j == held[w].job
           t == held[w].now
       IN  /\ target' = [target EXCEPT ![j] = t]
           /\ mixed' = mixed \cup {i \in {j} : t.log \notin {None, i}}
    /\ step' = [step EXCEPT ![w] = "idle"]
    /\ held' = [held EXCEPT ![w] = NoHeld]
    /\ UNCHANGED <<title, api, record, recent, calls, broken>>

MetricsNext ==
    \/ \E j \in Jobs : Submit(j) \/ Ends(j) \/ IsRead(j)
    \/ \E w \in Viewers :
          \/ \E j \in Jobs : View(w, j)
          \/ ReadBatch(w) \/ BatchFails(w) \/ ReadRecords(w) \/ WriteTarget(w)

MetricsSpec == MetricsInit /\ [][MetricsNext]_metricVars

(***************************************************************************)
(* Properties                                                              *)
(***************************************************************************)
(* The columns, and the records of ALQQ, have their types.                *)
MetricsTypeOK ==
    /\ target \in [Jobs -> JobTarget]
    /\ api \in Api
    /\ record \in [Jobs -> RemoteRecord]
    /\ recent \in {<<>>} \cup [1..Len(recent) -> Jobs]
    /\ held \in [Viewers -> HeldRefresh]
    /\ step \in [Viewers -> {"idle", "batch", "list", "write"}]
    /\ mixed \subseteq Jobs

(* A published target whose batch tells the id of its record holds that    *)
(* record, and not one with a similar title, unless a listing failed: the  *)
(* title is then tried even though the id is known.                        *)
OwnRecord ==
    \A j \in Jobs :
        target[j].status = "success" /\ api.named /\ ~broken => target[j].log = j

(* The reads shown for a job that never held another job's record were     *)
(* reported for its own: a record's id and its reads are taken together.   *)
ReadsAreOwn ==
    \A j \in Jobs :
        target[j].reads # None /\ j \notin mixed =>
            /\ record[j].reads # None
            /\ target[j].reads <= record[j].reads

(* In every step: reads once shown only disappear when a refresh that had  *)
(* read the row before they were known writes it back after they were.     *)
ReadsVanishLate ==
    \A j \in Jobs : target[j].reads # None /\ target'[j].reads = None =>
       \E w \in Viewers : /\ step[w] = "write"
                          /\ held[w].job = j
                          /\ held[w].base.reads = None
=============================================================================

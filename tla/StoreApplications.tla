------------------------- MODULE StoreApplications -------------------------
(***************************************************************************)
(* The application of a store (StoreService): opened at once today, by     *)
(* preview, review and approval before; edited by its owner, frozen by an  *)
(* administrator.                                                          *)
(*                                                                         *)
(* Each call reads the store and later commits status and history in one   *)
(* transaction that checks nothing again.                                  *)
(***************************************************************************)
EXTENDS Integers, FiniteSets

CONSTANTS
    Stores,
    Callers,    \* calls in flight
    MaxCalls    \* bound: calls ever started

VARIABLES
    status,      \* store.status; "none": no such store
    newest,      \* action_type of the newest store_history row
    quota,       \* stores with a store_resource row
    granted,     \* free store_resource_order rows of a store
    content,     \* version of what was applied for: goes up by each edit
    seen,        \* history: the version that was there when a preview was asked for
    step, held,  \* where each call is, and its store
    calls,       \* calls started so far
    crossed      \* history: stores edited while another call was under way for them

applicationVars == <<status, newest, quota, granted, content, seen, step, held, calls, crossed>>

Existing == {s \in Stores : status[s] # "none"}
NoWork   == [store |-> "none", content |-> 0, pending |-> FALSE]

(* One store is an application from before, the others are none yet.       *)
ApplicationsInit ==
    LET legacy == CHOOSE s \in Stores : TRUE
    IN  /\ status = [s \in Stores |-> IF s = legacy THEN "pending" ELSE "none"]
        /\ newest = [s \in Stores |-> IF s = legacy THEN "apply" ELSE "none"]
        /\ quota = {}
        /\ granted = [s \in Stores |-> 0]
        /\ content = [s \in Stores |-> 1]
        /\ seen = [s \in Stores |-> 0]
        /\ step = [c \in Callers |-> "idle"]
        /\ held = [c \in Callers |-> NoWork]
        /\ calls = 0
        /\ crossed = {}

Put(c, to, k) ==
    /\ step' = [step EXCEPT ![c] = to]
    /\ held' = [held EXCEPT ![c] = k]

Begin(c, to, s) ==
    /\ step[c] = "idle"
    /\ calls < MaxCalls
    /\ calls' = calls + 1
    /\ Put(c, to, [store |-> s, content |-> content[s], pending |-> status[s] = "pending"])
    /\ UNCHANGED <<status, newest, quota, granted, content, seen, crossed>>

Quit(c) == Put(c, "idle", NoWork)

(* A transaction that writes a status and the history row that goes with it. *)
Commit(c, s, to, action) ==
    /\ status' = [status EXCEPT ![s] = to]
    /\ newest' = [newest EXCEPT ![s] = action]
    /\ Quit(c)

(* create without a store_id: approved, with its quota, in one transaction. *)
Open(s) ==
    /\ status[s] = "none"
    /\ status' = [status EXCEPT ![s] = "approved"]
    /\ newest' = [newest EXCEPT ![s] = "approved"]
    /\ quota' = quota \cup {s}
    /\ granted' = [granted EXCEPT ![s] = 1]
    /\ seen' = [seen EXCEPT ![s] = content[s]]
    /\ UNCHANGED <<content, step, held, calls, crossed>>

(* create with a store_id: whatever its status, it waits again.            *)
EditRead(c, s) == s \in Existing /\ Begin(c, "edit", s)

Edited(s) == "pending"

Edit(c) ==
    LET s == held[c].store
    IN  /\ step[c] = "edit"
        /\ Commit(c, s, Edited(s), "updated")
        /\ content' = [content EXCEPT ![s] = @ + 1]
        /\ crossed' = IF \E b \in Callers \ {c} : held[b].store = s THEN crossed \cup {s} ELSE crossed
        /\ UNCHANGED <<quota, granted, seen, calls>>

(* updateSettings, updatePaymentQrs: a history row and nothing else.       *)
Note(s) ==
    /\ s \in Existing
    /\ newest' = [newest EXCEPT ![s] = "updated"]
    /\ UNCHANGED <<status, quota, granted, content, seen, step, held, calls, crossed>>

(* previewApply.                                                           *)
PreviewRead(c, s) == status[s] = "pending" /\ Begin(c, "preview", s)

Preview(c) ==
    LET s == held[c].store
    IN  /\ step[c] = "preview"
        /\ Commit(c, s, "preview", "preview")
        /\ seen' = [seen EXCEPT ![s] = held[c].content]
        /\ UNCHANGED <<quota, granted, content, calls, crossed>>

(* reviewApply: the store, then its newest history row.                    *)
ReviewRead(c, s) == s \in Existing /\ Begin(c, "history", s)

(* Mutant of Reviewable: any application that does not wait.               *)
ReviewableAny(s, pending) == ~pending

Reviewable(s, pending) == ~pending /\ newest[s] = "preview"

ReviewHistory(c) ==
    /\ step[c] = "history"
    /\ IF Reviewable(held[c].store, held[c].pending) THEN Put(c, "review", held[c]) ELSE Quit(c)
    /\ UNCHANGED <<status, newest, quota, granted, content, seen, calls, crossed>>

Review(c) ==
    /\ step[c] = "review"
    /\ Commit(c, held[c].store, "reviewed", "reviewed")
    /\ UNCHANGED <<quota, granted, content, seen, calls, crossed>>

(* approvedForApply: a store that has a quota already cannot get another,  *)
(* and the transaction is undone.                                          *)
ApproveRead(c, s) == status[s] = "reviewed" /\ Begin(c, "approve", s)

HasQuota(s) == s \in quota

Approve(c) ==
    LET s == held[c].store
    IN  /\ step[c] = "approve"
        /\ IF HasQuota(s) THEN Quit(c) /\ UNCHANGED <<status, newest, quota, granted>>
           ELSE /\ Commit(c, s, "approved", "approved")
                /\ quota' = quota \cup {s}
                /\ granted' = [granted EXCEPT ![s] = @ + 1]
        /\ UNCHANGED <<content, seen, calls, crossed>>

(* frozen.                                                                 *)
FrozenRead(c, s) == s \in Existing /\ status[s] # "frozen" /\ Begin(c, "freeze", s)

Frozen(c) ==
    /\ step[c] = "freeze"
    /\ Commit(c, held[c].store, "frozen", "frozen")
    /\ UNCHANGED <<quota, granted, content, seen, calls, crossed>>

Restart ==
    /\ \E c \in Callers : step[c] # "idle"
    /\ step' = [c \in Callers |-> "idle"]
    /\ held' = [c \in Callers |-> NoWork]
    /\ UNCHANGED <<status, newest, quota, granted, content, seen, calls, crossed>>

ApplicationsNext ==
    \/ \E s \in Stores : Open(s) \/ Note(s)
    \/ \E c \in Callers :
          \/ \E s \in Stores :
                EditRead(c, s) \/ PreviewRead(c, s) \/ ReviewRead(c, s) \/ ApproveRead(c, s) \/ FrozenRead(c, s)
          \/ Edit(c) \/ Preview(c) \/ ReviewHistory(c) \/ Review(c) \/ Approve(c) \/ Frozen(c)
    \/ Restart

ApplicationsSpec == ApplicationsInit /\ [][ApplicationsNext]_applicationVars
-----------------------------------------------------------------------------
(* Whatever races for a store, an approved one has a quota row and the one *)
(* free order that paid for it, and no store gets a second of either.      *)
ApprovedHasQuota ==
    \A s \in Stores :
        /\ status[s] = "approved" => s \in quota
        /\ granted[s] = IF s \in quota THEN 1 ELSE 0

(* In every step: what is approved is what was previewed: an edit sends    *)
(* the application back to the start, unless it came in the middle of      *)
(* another call.                                                           *)
ApprovedAsSeen ==
    \A s \in Stores \ crossed :
       status[s] # "approved" /\ status'[s] = "approved" => seen'[s] = content'[s]

(* In every step: an application is reviewed only once it was previewed    *)
(* and stands as it was, unless it was edited in the middle of another     *)
(* call.                                                                   *)
ReviewFollowsPreview ==
    \A s \in Stores \ crossed :
       status[s] # "reviewed" /\ status'[s] = "reviewed" => seen[s] = content[s]
=============================================================================

------------------------------ MODULE Feedback ------------------------------
(***************************************************************************)
(* A user's feedback (FeedbackService).  At most DailyLimit of them a day: *)
(* create counts today's, creates the row, adds the attachments that are   *)
(* already uploaded, then uploads the files, all at once, and adds each as *)
(* an attachment.  Nothing is a transaction, so a call that fails leaves   *)
(* what it has done, and the count and the row may be on different days.   *)
(* Staff move the status; comments, which nothing counts, are left out.    *)
(***************************************************************************)
EXTENDS Naturals, FiniteSets

CONSTANTS
    Files,        \* files of a call
    None,
    Calls,        \* create requests; each is made once
    DailyLimit,   \* 3: feedbacks a day
    LastDay       \* bound: days

VARIABLES
    today,
    row,        \* per call: the feedback it created
    attached,   \* per call: the files attached to that feedback
    step,       \* where each call is
    uploads,    \* per call: the files whose upload is under way
    counted,    \* per call: the day it counted, and who had a row that day
    late        \* history: days on which a row was created that its call's
                \* count could not have seen

feedbackVars == <<today, row, attached, step, uploads, counted, late>>

Days == 1..LastDay
Row  == [day : Days, status : {"open", "done"}, asked : SUBSET Files]
Count == [day : {None} \cup Days, others : SUBSET Calls]
NoCount == [day |-> None, others |-> {}]

FeedbackInit ==
    /\ today = 1
    /\ row = [c \in Calls |-> None]
    /\ attached = [c \in Calls |-> {}]
    /\ step = [c \in Calls |-> "none"]
    /\ uploads = [c \in Calls |-> {}]
    /\ counted = [c \in Calls |-> NoCount]
    /\ late = {}

Midnight ==
    /\ today < LastDay
    /\ today' = today + 1
    /\ UNCHANGED <<row, attached, step, uploads, counted, late>>

Of(d) == {c \in Calls : row[c] # None /\ row[c].day = d}

(* Mutant of HasRoom: the limit itself passes.                             *)
HasRoomAtLimit == Cardinality(Of(today)) <= DailyLimit

(* create: today's rows are counted.                                       *)
HasRoom == Cardinality(Of(today)) < DailyLimit

CreateCount(c) ==
    /\ step[c] = "none"
    /\ IF HasRoom
       THEN /\ step' = [step EXCEPT ![c] = "create"]
            /\ counted' = [counted EXCEPT ![c] = [day |-> today, others |-> Of(today)]]
       ELSE /\ step' = [step EXCEPT ![c] = "refused"]
            /\ UNCHANGED counted
    /\ UNCHANGED <<today, row, attached, uploads, late>>

(* The row, with the files already uploaded: these are only linked.        *)
CreateRow(c) ==
    /\ step[c] = "create"
    /\ \E asked \in SUBSET Files :
          /\ row' = [row EXCEPT ![c] = [day |-> today, status |-> "open", asked |-> asked]]
          /\ uploads' = [uploads EXCEPT ![c] = asked]
    /\ late' = late \cup {d \in {today} : counted[c] # [day |-> d, others |-> Of(d)]}
    /\ step' = [step EXCEPT ![c] = "attach"]
    /\ UNCHANGED <<today, attached, counted>>

(* uploadFile, then the attachment; a failed one fails the call, and the   *)
(* others go on.                                                           *)
Attach(c, f) ==
    /\ f \in uploads[c]
    /\ attached' = [attached EXCEPT ![c] = @ \cup {f}]
    /\ uploads' = [uploads EXCEPT ![c] = @ \ {f}]
    /\ UNCHANGED <<today, row, step, counted, late>>

AfterFailure(c) == "failed"

UploadFails(c, f) ==
    /\ f \in uploads[c]
    /\ step' = [step EXCEPT ![c] = AfterFailure(c)]
    /\ uploads' = [uploads EXCEPT ![c] = @ \ {f}]
    /\ UNCHANGED <<today, row, attached, counted, late>>

Answer(c) ==
    /\ step[c] = "attach"
    /\ uploads[c] = {}
    /\ step' = [step EXCEPT ![c] = "ok"]
    /\ UNCHANGED <<today, row, attached, uploads, counted, late>>

(* The process restarts: what was under way ends there.                    *)
Restart ==
    /\ \E c \in Calls : step[c] \in {"create", "attach"}
    /\ step' = [c \in Calls |-> IF step[c] \in {"create", "attach"} THEN "failed" ELSE step[c]]
    /\ uploads' = [c \in Calls |-> {}]
    /\ UNCHANGED <<today, row, attached, counted, late>>

(* updateStatus                                                            *)
UpdateStatus(c) ==
    /\ row[c] # None
    /\ \E s \in {"open", "done"} : row' = [row EXCEPT ![c].status = s]
    /\ UNCHANGED <<today, attached, step, uploads, counted, late>>

FeedbackNext ==
    \/ Midnight \/ Restart
    \/ \E c \in Calls :
          \/ CreateCount(c) \/ CreateRow(c) \/ Answer(c) \/ UpdateStatus(c)
          \/ \E f \in Files : Attach(c, f) \/ UploadFails(c, f)

FeedbackSpec == FeedbackInit /\ [][FeedbackNext]_feedbackVars

(***************************************************************************)
(* Properties                                                              *)
(***************************************************************************)
(* Rows, attachments and calls have their types.                           *)
FeedbackTypeOK ==
    /\ today \in Days
    /\ row \in [Calls -> {None} \cup Row]
    /\ attached \in [Calls -> SUBSET Files]
    /\ step \in [Calls -> {"none", "create", "attach", "ok", "failed", "refused"}]
    /\ uploads \in [Calls -> SUBSET Files]
    /\ counted \in [Calls -> Count]
    /\ late \subseteq Days

(* A day has more than DailyLimit feedbacks only if one of them was        *)
(* created after a count that another call, or midnight, had overtaken.    *)
LimitOvertaken ==
    \A d \in Days : Cardinality(Of(d)) > DailyLimit => d \in late

(* A feedback lacks a file it was sent with only while the call is under   *)
(* way or when the user was told that it failed, also if other files of it *)
(* were stored: success means the whole of it.                             *)
AnsweredWhole ==
    \A c \in Calls : step[c] = "ok" => attached[c] = row[c].asked
=============================================================================

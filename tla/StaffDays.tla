------------------------------ MODULE StaffDays ------------------------------
(***************************************************************************)
(* One day of a store's staff: who is found by his account or by his       *)
(* phone, and the attendance row of each (StaffService, AttendanceService, *)
(* StoreService.findAllApprovedStoresBySessionUser).                       *)
(*                                                                         *)
(* A punch reads the clock next to the row, in one step here.  Rows are    *)
(* unique by staff and day; removing a staff row leaves its attendance.    *)
(***************************************************************************)
EXTENDS Integers, FiniteSets

CONSTANTS
    Staff,      \* supply of store_staff rows, each with a phone of its own
    Users,
    Calls,      \* calls in flight
    LastHour,   \* bound: the clock
    MaxCalls    \* bound: calls ever started

VARIABLES
    hour,
    phone,      \* whose phone a staff row's phone is
    staff,      \* store_staff: "none", "off" or "on"
    linked,     \* store_staff.user_id
    day,        \* store_attendance of today
    step, held, \* where each call is, and what it carries
    calls,      \* calls started so far
    oneSided    \* history: rows that got one time without a look at the other

staffVars == <<hour, phone, staff, linked, day, step, held, calls, oneSided>>

Nobody == "nobody"
NoDay  == [in |-> 0, out |-> 0, inBy |-> "-", outBy |-> "-"]
NoWork == [user |-> Nobody, staff |-> Nobody, type |-> "-", at |-> 0, in |-> 0, out |-> 0,
           row |-> NoDay, met |-> FALSE]

StaffInit ==
    /\ hour = 1
    /\ phone = [s \in Staff |-> Nobody]
    /\ staff = [s \in Staff |-> "none"]
    /\ linked = [s \in Staff |-> Nobody]
    /\ day = [s \in Staff |-> NoDay]
    /\ step = [c \in Calls |-> "idle"]
    /\ held = [c \in Calls |-> NoWork]
    /\ calls = 0
    /\ oneSided = {}

Put(c, to, k) ==
    /\ step' = [step EXCEPT ![c] = to]
    /\ held' = [held EXCEPT ![c] = k]

Quit(c) == Put(c, "idle", NoWork)

(* The row of s is written: other calls have read what is no longer so.    *)
Done(c, s) ==
    /\ step' = [step EXCEPT ![c] = "idle"]
    /\ held' = [b \in Calls |-> IF b = c THEN NoWork
                                ELSE [held[b] EXCEPT !.met = (@ \/ held[b].staff = s)]]

Starts(c) ==
    /\ step[c] = "idle"
    /\ calls < MaxCalls
    /\ calls' = calls + 1

Tick ==
    /\ hour < LastHour
    /\ hour' = hour + 1
    /\ UNCHANGED <<phone, staff, linked, day, step, held, calls, oneSided>>

(* A number comes to a user, from another one perhaps.                     *)
TakePhone(u, s) ==
    /\ phone[s] # u
    /\ phone' = [phone EXCEPT ![s] = u]
    /\ UNCHANGED <<hour, staff, linked, day, step, held, calls, oneSided>>

(***************************************************************************)
(* StaffService: create (the owner's own number is linked at once), update *)
(* of the status or the account, remove.                                   *)
(***************************************************************************)
CreateStaff(s) ==
    /\ staff[s] = "none"
    /\ staff' = [staff EXCEPT ![s] = "on"]
    /\ \E u \in {Nobody, phone[s]} : linked' = [linked EXCEPT ![s] = u]
    /\ UNCHANGED <<hour, phone, day, step, held, calls, oneSided>>

UpdateStaff(s) ==
    /\ staff[s] # "none"
    /\ staff' = [staff EXCEPT ![s] = IF @ = "on" THEN "off" ELSE "on"]
    /\ UNCHANGED <<hour, phone, linked, day, step, held, calls, oneSided>>

(* Calls that are about to link the row have been overtaken.               *)
Overtaken(c, s) ==
    [b \in Calls |-> IF b # c /\ step[b] = "link" /\ held[b].staff = s
                     THEN [held[b] EXCEPT !.met = TRUE] ELSE held[b]]

Reassign(s, u) ==
    /\ staff[s] # "none"
    /\ linked' = [linked EXCEPT ![s] = u]
    /\ held' = Overtaken(Nobody, s)
    /\ UNCHANGED <<hour, phone, staff, day, step, calls, oneSided>>

(***************************************************************************)
(* resolveStaff, and the same of every store at sign-in: an enabled row of *)
(* the user's account or of his phone; one without an account gets his.    *)
(***************************************************************************)
Unlinked(s, u) == linked[s] = Nobody

ResolveStaff(c, u, t) ==
    /\ Starts(c)
    /\ \E s \in Staff :
          /\ staff[s] = "on" /\ u \in {linked[s], phone[s]}
          /\ Put(c, IF Unlinked(s, u) THEN "link" ELSE "read",
                 [NoWork EXCEPT !.user = u, !.staff = s, !.type = t])
    /\ UNCHANGED <<hour, phone, staff, linked, day, oneSided>>

Link(c) ==
    LET k == held[c]
    IN  /\ step[c] = "link"
        /\ linked' = [linked EXCEPT ![k.staff] = k.user]
        /\ step' = [step EXCEPT ![c] = "read"]
        /\ held' = Overtaken(c, k.staff)
        /\ UNCHANGED <<hour, phone, staff, day, calls, oneSided>>

(***************************************************************************)
(* punch                                                                   *)
(***************************************************************************)
(* Mutants of MayPunch: a second check-in, or a second check-out, goes     *)
(* through.                                                                *)
MayPunchInAgain(t, row)  == IF t = "in" THEN TRUE ELSE row.in # 0 /\ row.out = 0
MayPunchOutAgain(t, row) == IF t = "in" THEN row.in = 0 ELSE row.in # 0

MayPunch(t, row) == IF t = "in" THEN row.in = 0 ELSE row.in # 0 /\ row.out = 0

PunchRead(c) ==
    LET row == day[held[c].staff]
    IN  /\ step[c] = "read" /\ held[c].type \in {"in", "out"}
        /\ IF MayPunch(held[c].type, row)
           THEN Put(c, "punch", [held[c] EXCEPT !.at = hour, !.row = row, !.met = FALSE])
           ELSE Quit(c)
        /\ UNCHANGED <<hour, phone, staff, linked, day, calls, oneSided>>

(* The row of the day is created, and throws if there is one by now.       *)
PunchCreate(c) ==
    LET k == held[c]
        s == k.staff
    IN  /\ step[c] = "punch" /\ k.row = NoDay
        /\ IF day[s] # NoDay THEN Quit(c) /\ UNCHANGED day
           ELSE /\ day' = [day EXCEPT ![s] = [in |-> k.at, out |-> 0, inBy |-> "self", outBy |-> "-"]]
                /\ Done(c, s)
        /\ UNCHANGED <<hour, phone, staff, linked, calls, oneSided>>

PunchUpdate(c) ==
    LET k == held[c]
        s == k.staff
    IN  /\ step[c] = "punch" /\ k.row # NoDay
        /\ day' = [day EXCEPT ![s] = IF k.type = "in"
                                     THEN [in |-> k.at, out |-> @.out, inBy |-> "self", outBy |-> @.outBy]
                                     ELSE [in |-> @.in, out |-> k.at, inBy |-> @.inBy, outBy |-> "self"]]
        /\ oneSided' = IF k.met THEN oneSided \cup {s} ELSE oneSided
        /\ Done(c, s)
        /\ UNCHANGED <<hour, phone, staff, linked, calls>>

(***************************************************************************)
(* adjust: the owner enters one time or both (0: none); a new row needs    *)
(* the first.                                                              *)
(***************************************************************************)
Ordered(in, out) == (in # 0 \/ out # 0) /\ (in # 0 /\ out # 0 => in <= out)

AdjustRead(c, s, in, out) ==
    /\ Starts(c)
    /\ staff[s] # "none"
    /\ Ordered(in, out)
    /\ IF day[s] = NoDay /\ in = 0 THEN Quit(c)
       ELSE Put(c, "adjust", [NoWork EXCEPT !.staff = s, !.in = in, !.out = out, !.row = day[s]])
    /\ UNCHANGED <<hour, phone, staff, linked, day, oneSided>>

Adjust(c) ==
    LET k == held[c]
        s == k.staff
        Side(new, old) == IF new = 0 THEN old ELSE new
        By(new, old)   == IF new = 0 THEN old ELSE "owner"
    IN  /\ step[c] = "adjust"
        /\ IF k.row = NoDay /\ day[s] # NoDay THEN Quit(c) /\ UNCHANGED <<day, oneSided>>
           ELSE /\ day' = [day EXCEPT ![s] = [in |-> Side(k.in, @.in), out |-> Side(k.out, @.out),
                                              inBy |-> By(k.in, @.inBy), outBy |-> By(k.out, @.outBy)]]
                /\ oneSided' = IF 0 \in {k.in, k.out} THEN oneSided \cup {s} ELSE oneSided
                /\ Done(c, s)
        /\ UNCHANGED <<hour, phone, staff, linked, calls>>

(* The sign-in of a user links too, and reads no attendance.               *)
SignedIn(c) ==
    /\ step[c] = "read" /\ held[c].type = "sign in"
    /\ Quit(c)
    /\ UNCHANGED <<hour, phone, staff, linked, day, calls, oneSided>>

StaffNext ==
    \/ Tick
    \/ \E s \in Staff : CreateStaff(s) \/ UpdateStaff(s) \/ \E u \in Users : TakePhone(u, s) \/ Reassign(s, u)
    \/ \E c \in Calls :
          \/ \E u \in Users, t \in {"in", "out", "sign in"} : ResolveStaff(c, u, t)
          \/ Link(c) \/ SignedIn(c)
          \/ PunchRead(c) \/ PunchCreate(c) \/ PunchUpdate(c)
          \/ \E s \in Staff, in, out \in 0..LastHour : AdjustRead(c, s, in, out)
          \/ Adjust(c)

StaffSpec == StaffInit /\ [][StaffNext]_staffVars
-----------------------------------------------------------------------------
(* A row has a check-in, and by whom each of its times was entered.        *)
StaffTypeOK ==
    \A s \in Staff :
        /\ staff[s] \in {"none", "off", "on"} /\ linked[s] \in Users \cup {Nobody}
        /\ day[s] # NoDay => day[s].in \in 1..LastHour /\ day[s].inBy \in {"self", "owner"}
        /\ day[s].out # 0 <=> day[s].outBy \in {"self", "owner"}

(* Nobody leaves before he came, unless the owner entered one of the two   *)
(* times without the other, or in the middle of a punch: those times are   *)
(* not compared.                                                           *)
OutAfterIn == \A s \in Staff \ oneSided : day[s].out # 0 => day[s].in <= day[s].out

(* '今日已上班打卡', in every step: however punches overlap, a check-in stays     *)
(* until the owner changes it.                                             *)
CheckInStays ==
    \A s \in Staff : day[s].in # 0 /\ day'[s].in # day[s].in => day'[s].inBy = "owner"

(* In every step: what the owner entered is not replaced by a punch,       *)
(* unless the punch had read the row before.                               *)
OwnerStays ==
    \A s \in Staff, c \in Calls :
       step[c] = "punch" /\ step'[c] = "idle" /\ held[c].staff = s /\ ~held[c].met /\ day[s].outBy = "owner"
       => day'[s].outBy = "owner"

(* In every step: a row that belongs to an account is not taken over by    *)
(* the next user of the phone, unless it was found before it was linked:   *)
(* only the owner of the store enters another account.                     *)
LinkStays ==
    \A s \in Staff :
       linked[s] # Nobody /\ linked'[s] # linked[s] =>
           \/ step' = step
           \/ \E c \in Calls : step[c] = "link" /\ held[c].staff = s /\ held[c].met
=============================================================================

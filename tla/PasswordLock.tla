---------------------------- MODULE PasswordLock ----------------------------
(***************************************************************************)
(* Login by password: the frozen status, the failure count and the day's   *)
(* lock (AuthService.loginByPassword, loginFail), with the resets that     *)
(* change the password meanwhile (UsersService).  One user.                *)
(*                                                                         *)
(* The password is hashed in the tick that compares it; the failure is     *)
(* counted by a read and a later write of the whole row's count and lock.  *)
(***************************************************************************)
EXTENDS Naturals

CONSTANTS
    Attempts,       \* requests in flight
    FailedTimes     \* FILED_LOGIN_TIMES, 3

VARIABLES
    active,     \* user.status
    row,        \* user_signin_password: failures, and the day of locked_date
    known,      \* the password in the row is the one requests know
    phase, read \* where each attempt is; the row it read

lockVars == <<active, row, known, phase, read>>

Locks == {"never", "today", "earlier"}

LockInit ==
    /\ active = TRUE
    /\ row = [failures |-> 0, locked |-> "never"]
    /\ known = TRUE
    /\ phase = [a \in Attempts |-> "idle"]
    /\ read = [a \in Attempts |-> row]

Step(a, to) == phase' = [phase EXCEPT ![a] = to]

Begin(a) ==
    /\ phase[a] = "idle"
    /\ active
    /\ Step(a, "compare")
    /\ UNCHANGED <<active, row, known, read>>

LockedOut(r) == r.locked = "today"

(* Reading the row, the day's lock and the comparison.                     *)
Compare(a, right) ==
    /\ phase[a] = "compare"
    /\ right => known
    /\ Step(a, IF LockedOut(row) THEN "idle" ELSE IF right THEN "in" ELSE "failed")
    /\ UNCHANGED <<active, row, known, read>>

(* loginFail: at the limit nothing is written any more.                    *)
FailRead(a) ==
    /\ phase[a] = "failed"
    /\ read' = [read EXCEPT ![a] = row]
    /\ Step(a, IF row.failures >= FailedTimes THEN "idle" ELSE "count")
    /\ UNCHANGED <<active, row, known>>

(* Mutant of Counted: the lock comes one failure late.                     *)
CountedLate(r) ==
    [failures |-> r.failures + 1,
     locked |-> IF r.failures >= FailedTimes THEN "today" ELSE "never"]

(* Both columns of the row, from the count read before.                    *)
Counted(r) ==
    [failures |-> r.failures + 1,
     locked |-> IF r.failures + 1 >= FailedTimes THEN "today" ELSE "never"]

FailCount(a) ==
    /\ phase[a] = "count"
    /\ row' = Counted(read[a])
    /\ Step(a, "idle")
    /\ UNCHANGED <<active, known, read>>

(* The guard logs in.                                                      *)
Enter(a) ==
    /\ phase[a] = "in"
    /\ Step(a, "idle")
    /\ UNCHANGED <<active, row, known, read>>

(* upsertSignInByPassword leaves count and lock as they are.               *)
ResetPassword ==
    /\ known' \in BOOLEAN
    /\ UNCHANGED <<active, row, phase, read>>

SetStatus ==
    /\ active' = ~active
    /\ UNCHANGED <<row, known, phase, read>>

(* Midnight: isSame(locked_date, 'day') no longer holds.                   *)
NextDay ==
    /\ row.locked = "today"
    /\ row' = [row EXCEPT !.locked = "earlier"]
    /\ UNCHANGED <<active, known, phase, read>>

LockNext ==
    \/ \E a \in Attempts :
          \/ Begin(a) \/ FailRead(a) \/ FailCount(a) \/ Enter(a)
          \/ \E right \in BOOLEAN : Compare(a, right)
    \/ ResetPassword \/ SetStatus \/ NextDay
-----------------------------------------------------------------------------
(* Rows and reads have their types.                                        *)
LockTypeOK ==
    LET Row == [failures : 0..FailedTimes, locked : Locks]
    IN  /\ active \in BOOLEAN /\ known \in BOOLEAN
        /\ row \in Row
        /\ phase \in [Attempts -> {"idle", "compare", "in", "failed", "count"}]
        /\ read \in [Attempts -> Row]

(* A row that has its failures together has a lock date and keeps it, also *)
(* after the day is over; short of them it has none.  Two failures that    *)
(* overlap cannot leave the one without the other.                         *)
LockedAtLimit == (row.failures = FailedTimes) <=> (row.locked # "never")

(* A lock holds out the day: with no failure still being counted, neither  *)
(* a right password, nor a wrong one, nor a reset gets anybody in before   *)
(* the next day.                                                           *)
LockLastsTheDay ==
    [][(row.locked = "today" /\ \A a \in Attempts : phase[a] \notin {"failed", "count", "in"})
           => \/ row'.locked = "earlier"
              \/ row' = row /\ \A a \in Attempts : phase'[a] # "in"]_lockVars
=============================================================================

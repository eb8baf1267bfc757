------------------------------ MODULE QrLogin ------------------------------
(***************************************************************************)
(* Logging a browser in by a QR code: the mini-program scans and confirms, *)
(* the browser polls (AuthService, LocalScanStrategy).  One code: codes do *)
(* not meet.                                                               *)
(*                                                                         *)
(* The code is one Redis entry that each handler reads, changes and writes *)
(* back without a lock.  `set` drops the time to live, `expire` puts back  *)
(* the one read before: an entry that had none, or was gone, is deleted.   *)
(***************************************************************************)
EXTENDS Naturals

CONSTANTS Phones, Bound,   \* openids, and those bound to a user
          None, Callers,   \* handlers in flight
          MaxRestarts      \* bound

VARIABLES
    ticket,     \* the entry
    timed,      \* it has a time to live
    frozen,     \* phones whose user is frozen
    step, held, \* where each handler is, and what it carries
    scanned, confirmed, \* history: phones that scanned, confirmed
    spent,      \* history: the code was polled while nobody else held it
    restarts

qrVars == <<ticket, timed, frozen, step, held, scanned, confirmed, spent, restarts>>

Pending == [status |-> "pending", openid |-> None, user |-> None]
NoTicket == [status |-> "gone", openid |-> None, user |-> None]
Empty   == [phone |-> None, data |-> NoTicket, ttl |-> "none"]

QrInit ==
    /\ ticket = Pending
    /\ timed = TRUE
    /\ frozen = {}
    /\ step = [c \in Callers |-> "idle"]
    /\ held = [c \in Callers |-> Empty]
    /\ scanned = {} /\ confirmed = {}
    /\ spent = FALSE
    /\ restarts = 0

Keep(c, at, h) ==
    /\ step' = [step EXCEPT ![c] = at]
    /\ held' = [held EXCEPT ![c] = h]

Done(c) == Keep(c, "idle", Empty)

(* _getCacheByQrCodeId                                                     *)
ScanRead(c, o) ==
    /\ step[c] = "idle"
    /\ ticket # NoTicket
    /\ Keep(c, "ttl", [phone |-> o, ttl |-> "none",
                       data |-> [status |-> "scanned", openid |-> o, user |-> ticket.user]])
    /\ UNCHANGED <<ticket, timed, frozen, scanned, confirmed, spent, restarts>>

Scanner(data, o) == data.openid = o

ConfirmRead(c, o) ==
    /\ step[c] = "idle"
    /\ ticket # NoTicket
    /\ Scanner(ticket, o)
    /\ Keep(c, "user", [phone |-> o, data |-> ticket, ttl |-> "none"])
    /\ UNCHANGED <<ticket, timed, frozen, scanned, confirmed, spent, restarts>>

ConfirmUser(c) ==
    LET o == held[c].phone
    IN  /\ step[c] = "user"
        /\ IF o \in Bound \ frozen
           THEN Keep(c, "ttl", [phone |-> o, ttl |-> "none",
                    data |-> [status |-> "confirmed", openid |-> held[c].data.openid, user |-> o]])
           ELSE Done(c)
        /\ UNCHANGED <<ticket, timed, frozen, scanned, confirmed, spent, restarts>>

ReadTtl(c) ==
    /\ step[c] = "ttl"
    /\ Keep(c, "set", [held[c] EXCEPT !.ttl =
              IF ticket = NoTicket THEN "gone" ELSE IF timed THEN "left" ELSE "none"])
    /\ UNCHANGED <<ticket, timed, frozen, scanned, confirmed, spent, restarts>>

SetTicket(c) ==
    LET h == held[c]
    IN  /\ step[c] = "set"
        /\ ticket' = h.data
        /\ timed' = FALSE
        /\ IF h.data.status = "scanned"
           THEN scanned' = scanned \cup {h.phone} /\ UNCHANGED confirmed
           ELSE confirmed' = confirmed \cup {h.phone} /\ UNCHANGED scanned
        /\ Keep(c, "expire", h)
        /\ UNCHANGED <<frozen, spent, restarts>>

(* A ttl of -1 or -2 deletes the key.                                      *)
Expire(c) ==
    /\ step[c] = "expire"
    /\ IF held[c].ttl = "left"
       THEN timed' = (ticket # NoTicket) /\ UNCHANGED ticket
       ELSE ticket' = NoTicket /\ timed' = FALSE
    /\ Done(c)
    /\ UNCHANGED <<frozen, scanned, confirmed, spent, restarts>>

(* checkQrCodeStatus: reading the entry and, once it is confirmed, its     *)
(* user; any other status ends the poll.                                   *)
PollRead(c) ==
    /\ step[c] = "idle"
    /\ ticket.status = "confirmed"
    /\ Keep(c, "del", [phone |-> ticket.user, data |-> ticket, ttl |-> "none"])
    /\ UNCHANGED <<ticket, timed, frozen, scanned, confirmed, spent, restarts>>

(* Mutant of PollTake: the code is left in the cache.                      *)
PollTakeKept(c) ==
    /\ step[c] = "del"
    /\ spent' = (spent \/ \A d \in Callers \ {c} : step[d] = "idle")
    /\ Done(c)
    /\ UNCHANGED <<ticket, timed, frozen, scanned, confirmed, restarts>>

(* The guard then logs the user in.                                        *)
PollTake(c) ==
    /\ step[c] = "del"
    /\ ticket' = NoTicket
    /\ timed' = FALSE
    /\ spent' = (spent \/ \A d \in Callers \ {c} : step[d] = "idle")
    /\ Done(c)
    /\ UNCHANGED <<frozen, scanned, confirmed, restarts>>

QrLapse ==
    /\ timed
    /\ ticket' = NoTicket
    /\ timed' = FALSE
    /\ UNCHANGED <<frozen, step, held, scanned, confirmed, spent, restarts>>

Freeze(o) ==
    /\ frozen' = frozen \cup {o}
    /\ UNCHANGED <<ticket, timed, step, held, scanned, confirmed, spent, restarts>>

Restart ==
    /\ restarts < MaxRestarts
    /\ restarts' = restarts + 1
    /\ step' = [c \in Callers |-> "idle"]
    /\ held' = [c \in Callers |-> Empty]
    /\ UNCHANGED <<ticket, timed, frozen, scanned, confirmed, spent>>

QrNext ==
    \/ \E c \in Callers :
          \/ \E o \in Phones : ScanRead(c, o) \/ ConfirmRead(c, o)
          \/ ConfirmUser(c) \/ ReadTtl(c) \/ SetTicket(c) \/ Expire(c)
          \/ PollRead(c) \/ PollTake(c)
    \/ QrLapse
    \/ \E o \in Bound : Freeze(o)
    \/ Restart
-----------------------------------------------------------------------------
(* The entry and everything carried have their types.                      *)
QrTypeOK ==
    LET Entry == {NoTicket, Pending}
                   \cup [status : {"scanned", "confirmed"}, openid : Phones, user : Phones \cup {None}]
    IN  /\ ticket \in Entry
        /\ timed \in BOOLEAN
        /\ step \in [Callers -> {"idle", "user", "ttl", "set", "expire", "del"}]
        /\ held \in [Callers -> [phone : Phones \cup {None}, data : Entry,
                                 ttl : {"none", "left", "gone"}]]
        /\ \A s \in {frozen, scanned, confirmed} : s \subseteq Phones

(* A browser is logged in only as the user of a phone that first scanned   *)
(* the code and then confirmed it, whatever other phones scan, confirm or  *)
(* overwrite meanwhile.                                                    *)
EnteredByScanner ==
    \A c \in Callers :
        step[c] = "del" => held[c].phone \in scanned \cap confirmed \cap Bound

(* Short of a restart between `set` and `expire`, a code always runs out:  *)
(* its time to live is missing only while a handler is about to restore it.*)
TicketTimed ==
    (ticket # NoTicket /\ ~timed /\ restarts = 0) => \E c \in Callers : step[c] = "expire"

(* A code that was polled while nobody else held it is of no use again; a  *)
(* scan or confirm that overlaps the poll may bring it back.               *)
SpentStaysSpent == spent => ticket = NoTicket
=============================================================================

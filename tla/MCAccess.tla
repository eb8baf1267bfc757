------------------------------ MODULE MCAccess ------------------------------
(***************************************************************************)
(* Small instances of the modules on getting in, for TLC.  They share no   *)
(* state, so a behaviour is one of `part`: interleaving them would         *)
(* multiply the states and show nothing more.                              *)
(***************************************************************************)
EXTENDS Sessions

CONSTANTS Phones, Bound, Callers, MaxRestarts,
          MaxTokens, Accounts, Senders, DailyLimit, IpLimit,
          Attempts, FailedTimes,
          Roles, Auths, Requests

ASSUME AccessAssumption ==
    /\ None \notin Phones
    /\ Bound \subseteq Phones
    /\ IsFiniteSet(Senders)
    /\ MaxTokens \in Nat
    /\ DailyLimit \in Nat \ {0}
    /\ FailedTimes \in Nat \ {0}

VARIABLES
    part,
    ticket, timed, frozen, step, held, scanned, confirmed, spent, restarts,
    token, cooldown, daily, ipCount, code, holder, at, job, sent, codes, dead,
    active, row, known, phase, read,
    authOn, link, grant, cached, place, roles, resources, barred

Qr    == INSTANCE QrLogin
Sms   == INSTANCE SmsCodes
Lock  == INSTANCE PasswordLock
Grant == INSTANCE RoleGrants

qr      == <<ticket, timed, frozen, step, held, scanned, confirmed, spent, restarts>>
sms     == <<token, cooldown, daily, ipCount, code, holder, at, job, sent, codes, dead>>
lock    == <<active, row, known, phase, read>>
granted == <<authOn, link, grant, cached, place, roles, resources, barred>>
accessVars == <<part, vars, qr, sms, lock, granted>>

AccessInit ==
    /\ part \in {"sessions", "qr", "sms", "lock", "grants"}
    /\ Init /\ Qr!QrInit /\ Sms!SmsInit /\ Lock!LockInit /\ Grant!GrantInit

AccessNext ==
    /\ part' = part
    /\ \/ part = "sessions" /\ Next         /\ UNCHANGED <<qr, sms, lock, granted>>
       \/ part = "qr"    /\ Qr!QrNext       /\ UNCHANGED <<vars, sms, lock, granted>>
       \/ part = "sms"   /\ Sms!SmsNext     /\ UNCHANGED <<vars, qr, lock, granted>>
       \/ part = "lock"  /\ Lock!LockNext   /\ UNCHANGED <<vars, qr, sms, granted>>
       \/ part = "grants" /\ Grant!GrantNext /\ UNCHANGED <<vars, qr, sms, lock>>

AccessSpec == AccessInit /\ [][AccessNext]_accessVars /\ WF_vars(part = "sessions" /\ Scan)
-----------------------------------------------------------------------------
(* A kick holds (Sessions), and every session of the model is well typed.  *)
KicksHold == TypeOK /\ KickHolds

(* QrLogin: a browser is logged in as a user who scanned and confirmed, a  *)
(* code always runs out, short of a restart, and one that was polled alone *)
(* is of no use again.                                                     *)
QrSound == Qr!QrTypeOK /\ Qr!EnteredByScanner /\ Qr!TicketTimed /\ Qr!SpentStaysSpent

(* SmsCodes: the daily limit is passed only by requests that overlap, a    *)
(* code that passed a check is dead, and a phone never passes from one     *)
(* user to another.                                                        *)
SmsSound ==
    /\ [](Sms!SmsTypeOK /\ Sms!SmsLimited /\ Sms!UsedCodesDie)
    /\ Sms!PhoneKept

(* PasswordLock: failures and lock date come and stay together, and a lock *)
(* holds out the day.                                                      *)
LockSound == [](Lock!LockTypeOK /\ Lock!LockedAtLimit) /\ Lock!LockLastsTheDay

(* RoleGrants: a withdrawn permission is gone at the next sign-in.         *)
WithdrawnIsGone == []Grant!GrantTypeOK /\ Grant!WithdrawnIsGone
=============================================================================

------------------------------ MODULE Sessions ------------------------------
(***************************************************************************)
(* Who is logged in: the sessions in Redis, the registry of each user's    *)
(* session, the mark of users who were thrown out, and the job that counts *)
(* who is online (CacheService, the auth guards, AuthController).          *)
(*                                                                         *)
(* Every await is a step.  Commands sent in one tick reach Redis together. *)
(* Session ids are random and never come back.                             *)
(***************************************************************************)
EXTENDS Integers, FiniteSets

CONSTANTS
    Users,
    Sids,          \* session ids, a supply
    None,
    Workers,       \* handlers in flight
    MaxCrashes     \* bound: restarts of the server

ASSUME SessionsAssumption ==
    /\ None \notin Users \cup Sids
    /\ MaxCrashes \in Nat

VARIABLES
    session,    \* sess:* keys: "new" not issued, a user, or "gone"
    registry,   \* user-session-map
    kicked,     \* kicked:* keys
    pc, claim,  \* where each handler is, and the user and session it serves
    scan,       \* the job: users still to visit, and the entry it looks at
    ousted,     \* history: users thrown out who have not logged in again
    crashes

redis == <<session, registry, kicked>>
vars  == <<session, registry, kicked, pc, claim, scan, ousted, crashes>>

Anonymous == [user |-> None, sid |-> None, old |-> None]
Asleep    == [left |-> {}, user |-> None, sid |-> None, step |-> "idle"]

Init ==
    /\ session = [s \in Sids |-> "new"]
    /\ registry = [u \in Users |-> None]
    /\ kicked = [u \in Users |-> FALSE]
    /\ pc = [w \in Workers |-> "idle"]
    /\ claim = [w \in Workers |-> Anonymous]
    /\ scan = Asleep
    /\ ousted = [u \in Users |-> FALSE]
    /\ crashes = 0

Goto(w, step, k) ==
    /\ pc' = [pc EXCEPT ![w] = step]
    /\ claim' = [claim EXCEPT ![w] = k]

Move(w, step) == Goto(w, step, claim[w])
Answer(w)     == Goto(w, "idle", Anonymous)

Live(s) == session[s] \in Users

(* passport's logIn: regenerate destroys the browser's session and genid,  *)
(* which already sees the user, registers the new one in the tick that     *)
(* saves it.                                                               *)
LogIn(s, u) ==
    /\ session' = [session EXCEPT ![s] = u]
    /\ registry' = [registry EXCEPT ![u] = s]

(***************************************************************************)
(* Login by password, WeChat, phone or QR code: the guard logs in and      *)
(* saves the session once more, the handler registers it.                  *)
(***************************************************************************)
LoginBegin(w, u) ==
    /\ pc[w] = "idle"
    /\ \E s \in Sids, before \in Sids \cup {None} :
          /\ session[s] = "new"
          /\ \A v \in Workers : claim[v].sid # s
          /\ before # None => Live(before)
          /\ session' = [x \in Sids |-> IF x = before THEN "gone" ELSE session[x]]
          /\ Goto(w, "login", [user |-> u, sid |-> s, old |-> None])
    /\ ousted' = [ousted EXCEPT ![u] = FALSE]
    /\ UNCHANGED <<registry, kicked, scan, crashes>>

LoginSave(w) ==
    /\ pc[w] = "login"
    /\ LogIn(claim[w].sid, claim[w].user)
    /\ Move(w, "resave")
    /\ UNCHANGED <<kicked, scan, ousted, crashes>>

LoginResave(w) ==
    /\ pc[w] = "resave"
    /\ session' = [session EXCEPT ![claim[w].sid] = claim[w].user]
    /\ Move(w, "bind")
    /\ UNCHANGED <<registry, kicked, scan, ousted, crashes>>

(* bindOnlineSession                                                       *)
BindRead(w) ==
    /\ pc[w] = "bind"
    /\ Goto(w, "drop", [claim[w] EXCEPT !.old = registry[claim[w].user]])
    /\ UNCHANGED <<redis, scan, ousted, crashes>>

BindDrop(w) ==
    LET k == claim[w]
    IN  /\ pc[w] = "drop"
        /\ session' = [s \in Sids |-> IF s = k.old /\ s # k.sid THEN "gone" ELSE session[s]]
        /\ Move(w, "register")
        /\ UNCHANGED <<registry, kicked, scan, ousted, crashes>>

BindSet(w) ==
    /\ pc[w] = "register"
    /\ registry' = [registry EXCEPT ![claim[w].user] = claim[w].sid]
    /\ Move(w, "pardon")
    /\ UNCHANGED <<session, kicked, scan, ousted, crashes>>

BindClear(w) ==
    /\ pc[w] = "pardon"
    /\ kicked' = [kicked EXCEPT ![claim[w].user] = FALSE]
    /\ Answer(w)
    /\ UNCHANGED <<session, registry, scan, ousted, crashes>>

(***************************************************************************)
(* A request of a logged-in browser: its session is loaded, SessionAuth-   *)
(* Guard looks for the mark.  getSignedUser and logout then go on.         *)
(***************************************************************************)
RequestLoad(w, s) ==
    /\ pc[w] = "idle"
    /\ Live(s)
    /\ Goto(w, "guard", [user |-> session[s], sid |-> s, old |-> None])
    /\ UNCHANGED <<redis, scan, ousted, crashes>>

(* Mutant of Admitted: the guard does not look for the mark.               *)
AdmittedAlways(u) == TRUE

Admitted(u) == ~kicked[u]

Guard(w) ==
    LET k == claim[w]
    IN  /\ pc[w] = "guard"
        /\ \/ /\ Admitted(k.user)
              /\ \E next \in {"refresh", "logout"} : Move(w, next)
              /\ UNCHANGED session
           \/ /\ ~Admitted(k.user)
              /\ session' = [session EXCEPT ![k.sid] = "gone"]
              /\ Answer(w)
        /\ UNCHANGED <<registry, kicked, scan, ousted, crashes>>

(* getSignedUser logs in again when the profile changed since.             *)
Refresh(w) ==
    LET k == claim[w]
    IN  /\ pc[w] = "refresh"
        /\ \/ Move(w, "bind") /\ UNCHANGED <<session, registry>>
           \/ \E s \in Sids :
                 /\ session[s] = "new"
                 /\ \A v \in Workers : claim[v].sid # s
                 /\ session' = [session EXCEPT ![k.sid] = "gone", ![s] = k.user]
                 /\ registry' = [registry EXCEPT ![k.user] = s]
                 /\ Goto(w, "bind", [k EXCEPT !.sid = s])
        /\ UNCHANGED <<kicked, scan, ousted, crashes>>

LogoutDestroy(w) ==
    /\ pc[w] = "logout"
    /\ session' = [session EXCEPT ![claim[w].sid] = "gone"]
    /\ Move(w, "unmap")
    /\ UNCHANGED <<registry, kicked, scan, ousted, crashes>>

(* delSessionIdByUserId, after the answer                                  *)
LogoutUnmap(w) ==
    /\ pc[w] = "unmap"
    /\ registry' = [registry EXCEPT ![claim[w].user] = None]
    /\ Move(w, "pardon")
    /\ UNCHANGED <<session, kicked, scan, ousted, crashes>>

(***************************************************************************)
(* kickUserOffline.                                                        *)
(***************************************************************************)
KickRead(w, u) ==
    /\ pc[w] = "idle"
    /\ Goto(w, "kick", [user |-> u, sid |-> None, old |-> registry[u]])
    /\ UNCHANGED <<redis, scan, ousted, crashes>>

KickDrop(w) ==
    /\ pc[w] = "kick"
    /\ session' = [s \in Sids |-> IF s = claim[w].old THEN "gone" ELSE session[s]]
    /\ Move(w, "mark")
    /\ UNCHANGED <<registry, kicked, scan, ousted, crashes>>

KickMark(w) ==
    /\ pc[w] = "mark"
    /\ kicked' = [kicked EXCEPT ![claim[w].user] = TRUE]
    /\ Move(w, "kickunmap")
    /\ UNCHANGED <<session, registry, scan, ousted, crashes>>

(* Nobody else is serving the user: only a kick may be.                    *)
Kicking == {"kick", "mark", "kickunmap"}
Alone(w) == \A v \in Workers \ {w} :
               claim[v].user = claim[w].user => pc[v] \in Kicking

KickUnmap(w) ==
    LET u == claim[w].user
    IN  /\ pc[w] = "kickunmap"
        /\ registry' = [registry EXCEPT ![u] = None]
        /\ ousted' = [ousted EXCEPT ![u] = @ \/ (Alone(w) /\ kicked[u])]
        /\ Answer(w)
        /\ UNCHANGED <<session, kicked, scan, crashes>>

(***************************************************************************)
(* getAllOnlineUserIds, run by the snapshot job every five minutes.        *)
(***************************************************************************)
ScanStart ==
    /\ scan.step = "idle"
    /\ scan' = [Asleep EXCEPT !.left = {u \in Users : registry[u] # None}, !.step = "next"]
    /\ UNCHANGED <<redis, pc, claim, ousted, crashes>>

ScanRead ==
    /\ scan.step = "next"
    /\ IF scan.left = {} THEN scan' = Asleep
       ELSE \E u \in scan.left :
               scan' = [left |-> scan.left \ {u}, user |-> u, sid |-> registry[u],
                        step |-> "check"]
    /\ UNCHANGED <<redis, pc, claim, ousted, crashes>>

ScanCheck ==
    /\ scan.step = "check"
    /\ scan' = [scan EXCEPT !.step = IF scan.sid # None /\ Live(scan.sid) THEN "next"
                                     ELSE "unmap"]
    /\ UNCHANGED <<redis, pc, claim, ousted, crashes>>

(* Mutant of ScanUnmap: dead registrations are counted out, not removed.   *)
ScanUnmapKept ==
    /\ scan.step = "unmap"
    /\ scan' = [scan EXCEPT !.step = "next"]
    /\ UNCHANGED <<session, registry, kicked, pc, claim, ousted, crashes>>

ScanUnmap ==
    /\ scan.step = "unmap"
    /\ registry' = [registry EXCEPT ![scan.user] = None]
    /\ scan' = [scan EXCEPT !.step = "next"]
    /\ UNCHANGED <<session, kicked, pc, claim, ousted, crashes>>

(***************************************************************************)
(* Keys lapse; the server restarts, Redis stays.                           *)
(***************************************************************************)
SessionLapse(s) ==
    /\ Live(s)
    /\ session' = [session EXCEPT ![s] = "gone"]
    /\ UNCHANGED <<registry, kicked, pc, claim, scan, ousted, crashes>>

(* After a day.                                                            *)
MarkLapse(u) ==
    /\ kicked[u]
    /\ kicked' = [kicked EXCEPT ![u] = FALSE]
    /\ ousted' = [ousted EXCEPT ![u] = FALSE]
    /\ UNCHANGED <<session, registry, pc, claim, scan, crashes>>

Crash ==
    /\ crashes < MaxCrashes
    /\ crashes' = crashes + 1
    /\ pc' = [w \in Workers |-> "idle"]
    /\ claim' = [w \in Workers |-> Anonymous]
    /\ scan' = Asleep
    /\ UNCHANGED <<redis, ousted>>

Serve(w) ==
    \/ \E u \in Users : LoginBegin(w, u) \/ KickRead(w, u)
    \/ LoginSave(w) \/ LoginResave(w)
    \/ BindRead(w) \/ BindDrop(w) \/ BindSet(w) \/ BindClear(w)
    \/ \E s \in Sids : RequestLoad(w, s)
    \/ Guard(w) \/ Refresh(w) \/ LogoutDestroy(w) \/ LogoutUnmap(w)
    \/ KickDrop(w) \/ KickMark(w) \/ KickUnmap(w)

Scan == ScanStart \/ ScanRead \/ ScanCheck \/ ScanUnmap

Next == \/ \E w \in Workers : Serve(w)
        \/ Scan
        \/ \E s \in Sids : SessionLapse(s)
        \/ \E u \in Users : MarkLapse(u)
        \/ Crash

Spec == Init /\ [][Next]_vars /\ WF_vars(Scan)
-----------------------------------------------------------------------------
(* Every key and every carried value has its type.                         *)
TypeOK ==
    /\ session \in [Sids -> {"new", "gone"} \cup Users]
    /\ registry \in [Users -> Sids \cup {None}]
    /\ kicked \in [Users -> BOOLEAN]
    /\ pc \in [Workers -> {"idle", "login", "resave", "bind", "drop", "register", "pardon",
                           "guard", "refresh", "logout", "unmap"} \cup Kicking]
    /\ claim \in [Workers -> [user : Users \cup {None}, sid : Sids \cup {None},
                              old : Sids \cup {None}]]
    /\ scan \in [left : SUBSET Users, user : Users \cup {None}, sid : Sids \cup {None},
                 step : {"idle", "next", "check", "unmap"}]
    /\ ousted \in [Users -> BOOLEAN]
    /\ crashes \in 0..MaxCrashes
    /\ \A w \in Workers : pc[w] # "idle" => claim[w].user \in Users

(* A user thrown out stays out until a new login or for a day: whichever   *)
(* sessions the kick did not know of, none gets past the guard, so that    *)
(* no refresh and no logout wipes the mark.                                *)
KickHolds ==
    \A u \in Users : ousted[u] =>
        /\ kicked[u]
        /\ \A w \in Workers : claim[w].user = u => pc[w] \in Kicking \cup {"guard"}

(* The online list gets rid of a user whose session is gone.               *)
DeadLeave ==
    \A u \in Users :
        (registry[u] # None /\ session[registry[u]] = "gone")
            ~> (registry[u] = None \/ Live(registry[u]))
=============================================================================

---------------------------- MODULE AccessProofs ----------------------------
(***************************************************************************)
(* Theorems about getting in: sessions and kicks, QR codes, SMS codes, the *)
(* password lock and permissions, for any number of users, sessions,       *)
(* phones, handlers and roles, and any limits.                             *)
(***************************************************************************)
EXTENDS MCAccess, TLAPS, FiniteSetTheorems

(* The parts share no state: a step of one leaves the others alone.        *)
LEMMA Parts ==
  ASSUME [AccessNext]_accessVars
  PROVE  /\ [Next]_vars
         /\ [Qr!QrNext]_qr
         /\ [Sms!SmsNext]_sms
         /\ [Lock!LockNext]_lock
         /\ [Grant!GrantNext]_granted
  BY DEF AccessNext, accessVars

(***************************************************************************)
(* Sessions.  What makes a kick hold: nobody but a kick or a request that  *)
(* the guard will turn away serves a user who is out, and a handler that   *)
(* has answered serves nobody.                                             *)
(***************************************************************************)
ServeSteps == {"idle", "login", "resave", "bind", "drop", "register", "pardon", "guard",
               "refresh", "logout", "unmap"} \cup Kicking

ClaimType == [user : Users \cup {None}, sid : Sids \cup {None}, old : Sids \cup {None}]

ScanType == [left : SUBSET Users, user : Users \cup {None}, sid : Sids \cup {None},
             step : {"idle", "next", "check", "unmap"}]

KeysTyped ==
    /\ session \in [Sids -> {"new", "gone"} \cup Users]
    /\ registry \in [Users -> Sids \cup {None}]
    /\ kicked \in [Users -> BOOLEAN]
    /\ scan \in ScanType
    /\ ousted \in [Users -> BOOLEAN]
    /\ crashes \in 0..MaxCrashes

ServesOnly(next, k) ==
    /\ next = "idle" => k.user = None
    /\ next # "idle" => k.user \in Users

KickInv ==
    /\ KeysTyped
    /\ pc \in [Workers -> ServeSteps]
    /\ claim \in [Workers -> ClaimType]
    /\ \A w \in Workers : ServesOnly(pc[w], claim[w])
    /\ KickHolds

LEMMA KickInvTyped == KickInv => TypeOK
  BY DEF KickInv, KeysTyped, TypeOK, ServeSteps, ClaimType, ScanType, ServesOnly

LEMMA AnonymousTyped == Anonymous \in ClaimType /\ Anonymous.user = None
  BY DEF Anonymous, ClaimType

LEMMA AsleepTyped == Asleep \in ScanType
  BY DEF Asleep, ScanType

LEMMA SessionsInit == Init => KickInv
  <1> SUFFICES ASSUME Init PROVE KickInv
    OBVIOUS
  <1>1. KeysTyped
    BY AsleepTyped, SessionsAssumption DEF Init, KeysTyped
  <1>2. pc \in [Workers -> ServeSteps] /\ claim \in [Workers -> ClaimType]
    BY AnonymousTyped DEF Init, ServeSteps
  <1>3. \A w \in Workers : ServesOnly(pc[w], claim[w])
    BY AnonymousTyped DEF Init, ServesOnly
  <1>4. KickHolds
    BY DEF Init, KickHolds
  <1>5. QED
    BY <1>1, <1>2, <1>3, <1>4 DEF KickInv

(* A step of one handler: it may bring nobody in who is out.               *)
LEMMA HandlerStep ==
  ASSUME KickInv, NEW w \in Workers, NEW next \in ServeSteps, NEW k \in ClaimType,
         Goto(w, next, k), KeysTyped', ServesOnly(next, k),
         \A u \in Users : ousted'[u] =>
            /\ kicked'[u]
            /\ k.user = u => next \in Kicking \cup {"guard"}
            /\ \A v \in Workers \ {w} : claim[v].user = u => pc[v] \in Kicking \cup {"guard"}
  PROVE  KickInv'
  <1>1. /\ pc' \in [Workers -> ServeSteps]
        /\ claim' \in [Workers -> ClaimType]
        /\ pc'[w] = next /\ claim'[w] = k
        /\ \A v \in Workers \ {w} : pc'[v] = pc[v] /\ claim'[v] = claim[v]
    BY DEF Goto, KickInv
  <1>2. \A v \in Workers : ServesOnly(pc[v], claim[v])'
    BY <1>1 DEF KickInv, ServesOnly
  <1>3. KickHolds'
    BY <1>1 DEF KickHolds
  <1>4. QED
    BY <1>1, <1>2, <1>3 DEF KickInv

(* The usual case: it leaves marks and expulsions alone.                   *)
LEMMA PlainStep ==
  ASSUME KickInv, NEW w \in Workers, NEW next \in ServeSteps, NEW k \in ClaimType,
         Goto(w, next, k), KeysTyped', ServesOnly(next, k),
         UNCHANGED <<kicked, ousted>>,
         \A u \in Users : ousted[u] /\ k.user = u => next \in Kicking \cup {"guard"}
  PROVE  KickInv'
  <1>1. \A u \in Users : ousted'[u] =>
            /\ kicked'[u]
            /\ k.user = u => next \in Kicking \cup {"guard"}
            /\ \A v \in Workers \ {w} : claim[v].user = u => pc[v] \in Kicking \cup {"guard"}
    BY DEF KickInv, KickHolds
  <1>2. QED
    BY <1>1, HandlerStep

(* A handler that is past the guard serves a user who is in.               *)
LEMMA Inside ==
  ASSUME KickInv, NEW w \in Workers, pc[w] \notin Kicking \cup {"guard", "idle"}
  PROVE  claim[w].user \in Users /\ ~ousted[claim[w].user]
  BY DEF KickInv, KickHolds, ServesOnly

(* A step that goes on serving the same user.                              *)
LEMMA MoveOn ==
  ASSUME KickInv, NEW w \in Workers, pc[w] \notin Kicking \cup {"guard", "idle"},
         NEW next \in ServeSteps \ {"idle"}, NEW k \in ClaimType, k.user = claim[w].user,
         Goto(w, next, k), KeysTyped', UNCHANGED <<kicked, ousted>>
  PROVE  KickInv'
  <1>1. k.user \in Users /\ ~ousted[k.user]
    BY Inside
  <1>2. ServesOnly(next, k)
    BY <1>1 DEF ServesOnly
  <1>3. QED
    BY <1>1, <1>2, PlainStep

LEMMA AnswerStep ==
  ASSUME KickInv, NEW w \in Workers, Answer(w), KeysTyped', UNCHANGED <<kicked, ousted>>
  PROVE  KickInv'
  <1>1. ServesOnly("idle", Anonymous) /\ "idle" \in ServeSteps
    BY AnonymousTyped DEF ServesOnly, ServeSteps
  <1>2. \A u \in Users : Anonymous.user # u
    BY AnonymousTyped, SessionsAssumption
  <1>3. QED
    BY <1>1, <1>2, AnonymousTyped, PlainStep DEF Answer

(* The session and the registration that carried values name.              *)
LEMMA Carried ==
  ASSUME KickInv, NEW w \in Workers
  PROVE  /\ claim[w] \in ClaimType
         /\ claim[w].user \in Users \cup {None}
         /\ claim[w].sid \in Sids \cup {None}
         /\ pc[w] # "idle" => claim[w].user \in Users
  BY DEF KickInv, ClaimType, ServesOnly

LEMMA LoginBeginStep ==
  ASSUME KickInv, NEW w \in Workers, NEW u \in Users, LoginBegin(w, u)
  PROVE  KickInv'
  <1>1. PICK s \in Sids, before \in Sids \cup {None} :
           /\ session' = [x \in Sids |-> IF x = before THEN "gone" ELSE session[x]]
           /\ Goto(w, "login", [user |-> u, sid |-> s, old |-> None])
    BY DEF LoginBegin
  <1>2. PICK k : k = [user |-> u, sid |-> s, old |-> None]
    OBVIOUS
  <1>3. ousted' = [ousted EXCEPT ![u] = FALSE] /\ UNCHANGED <<registry, kicked, scan, crashes>>
    BY DEF LoginBegin
  <1>4. KeysTyped'
    BY <1>1, <1>3 DEF KickInv, KeysTyped
  <1>5. ~ousted'[u] /\ \A x \in Users : ousted'[x] => ousted[x]
    BY <1>3 DEF KickInv, KeysTyped
  <1>6. ServesOnly("login", k) /\ "login" \in ServeSteps /\ k \in ClaimType
    BY <1>2 DEF ServesOnly, ServeSteps, ClaimType
  <1>7. \A x \in Users : ousted'[x] =>
            /\ kicked'[x]
            /\ k.user = x => "login" \in Kicking \cup {"guard"}
            /\ \A v \in Workers \ {w} : claim[v].user = x => pc[v] \in Kicking \cup {"guard"}
    BY <1>2, <1>3, <1>5 DEF KickInv, KickHolds
  <1>8. QED
    BY <1>1, <1>2, <1>4, <1>6, <1>7, HandlerStep

LEMMA LoginStep ==
  ASSUME KickInv, NEW w \in Workers, LoginSave(w) \/ LoginResave(w)
  PROVE  KickInv'
  <1>1. PICK k \in ClaimType : k = claim[w]
    BY Carried
  <1>2. k.user \in Users /\ k.sid \in Sids \cup {None}
    BY <1>1, Carried DEF LoginSave, LoginResave
  <1>3. k.sid # None => k.sid \in Sids
    BY <1>2
  <1>4. PICK next \in {"resave", "bind"} : Goto(w, next, k)
    BY <1>1 DEF LoginSave, LoginResave, Move
  <1>5. KeysTyped'
    BY <1>1, <1>2 DEF LoginSave, LoginResave, LogIn, KickInv, KeysTyped
  <1>6. pc[w] \notin Kicking \cup {"guard", "idle"} /\ UNCHANGED <<kicked, ousted>>
    BY DEF LoginSave, LoginResave, Kicking
  <1>7. next \in ServeSteps \ {"idle"}
    BY <1>4 DEF ServeSteps
  <1>8. QED
    BY <1>1, <1>4, <1>5, <1>6, <1>7, MoveOn

LEMMA BindStep ==
  ASSUME KickInv, NEW w \in Workers, BindRead(w) \/ BindDrop(w) \/ BindSet(w)
  PROVE  KickInv'
  <1>1. PICK c \in ClaimType : c = claim[w]
    BY Carried
  <1>2. c.user \in Users /\ pc[w] \notin Kicking \cup {"guard", "idle"}
    BY <1>1, Carried DEF BindRead, BindDrop, BindSet, Kicking
  <1>3. CASE BindRead(w)
    <2>1. PICK o \in Sids \cup {None} : o = registry[c.user]
      BY <1>2 DEF KickInv, KeysTyped
    <2>2. PICK k : k = [c EXCEPT !.old = o]
      OBVIOUS
    <2>3. k \in ClaimType /\ k.user = c.user
      BY <2>2 DEF ClaimType
    <2>4. KeysTyped'
      BY <1>3 DEF BindRead, redis, KickInv, KeysTyped
    <2>5. Goto(w, "drop", k) /\ UNCHANGED <<kicked, ousted>>
      BY <1>1, <1>3, <2>1, <2>2 DEF BindRead, redis
    <2>6. QED
      BY <1>1, <1>2, <2>3, <2>4, <2>5, MoveOn DEF ServeSteps
  <1>4. CASE BindDrop(w)
    <2>1. KeysTyped'
      BY <1>4 DEF BindDrop, KickInv, KeysTyped
    <2>2. Goto(w, "register", c) /\ UNCHANGED <<kicked, ousted>>
      BY <1>1, <1>4 DEF BindDrop, Move
    <2>3. QED
      BY <1>1, <1>2, <2>1, <2>2, MoveOn DEF ServeSteps
  <1>5. CASE BindSet(w)
    <2>1. c.sid \in Sids \cup {None}
      BY <1>1, Carried
    <2>2. KeysTyped'
      BY <1>1, <1>2, <1>5, <2>1 DEF BindSet, KickInv, KeysTyped
    <2>3. Goto(w, "pardon", c) /\ UNCHANGED <<kicked, ousted>>
      BY <1>1, <1>5 DEF BindSet, Move
    <2>4. QED
      BY <1>1, <1>2, <2>2, <2>3, MoveOn DEF ServeSteps
  <1>6. QED
    BY <1>3, <1>4, <1>5

(* The mark that is wiped is of a user who is in.                          *)
LEMMA BindClearStep ==
  ASSUME KickInv, NEW w \in Workers, BindClear(w)
  PROVE  KickInv'
  <1>1. PICK u \in Users : u = claim[w].user /\ ~ousted[u]
    BY Inside DEF BindClear, Kicking
  <1>2. kicked' = [kicked EXCEPT ![u] = FALSE] /\ UNCHANGED <<session, registry, scan, ousted, crashes>>
    BY <1>1 DEF BindClear
  <1>3. KeysTyped'
    BY <1>2 DEF KickInv, KeysTyped
  <1>4. ServesOnly("idle", Anonymous) /\ "idle" \in ServeSteps /\ Anonymous \in ClaimType
    BY AnonymousTyped DEF ServesOnly, ServeSteps
  <1>5. \A x \in Users : Anonymous.user # x
    BY AnonymousTyped, SessionsAssumption
  <1>6. \A x \in Users : ousted'[x] =>
            /\ kicked'[x]
            /\ Anonymous.user = x => "idle" \in Kicking \cup {"guard"}
            /\ \A v \in Workers \ {w} : claim[v].user = x => pc[v] \in Kicking \cup {"guard"}
    BY <1>1, <1>2, <1>5 DEF KickInv, KeysTyped, KickHolds
  <1>7. QED
    BY <1>3, <1>4, <1>6, HandlerStep DEF BindClear, Answer

LEMMA RequestLoadStep ==
  ASSUME KickInv, NEW w \in Workers, NEW s \in Sids, RequestLoad(w, s)
  PROVE  KickInv'
  <1>1. PICK u \in Users : u = session[s]
    BY DEF RequestLoad, Live
  <1>2. PICK k : k = [user |-> u, sid |-> s, old |-> None]
    OBVIOUS
  <1>3. k \in ClaimType /\ ServesOnly("guard", k) /\ "guard" \in ServeSteps
    BY <1>2 DEF ClaimType, ServesOnly, ServeSteps
  <1>4. KeysTyped' /\ UNCHANGED <<kicked, ousted>> /\ Goto(w, "guard", k)
    BY <1>1, <1>2 DEF RequestLoad, redis, KickInv, KeysTyped
  <1>5. QED
    BY <1>3, <1>4, PlainStep

LEMMA GuardStep ==
  ASSUME KickInv, NEW w \in Workers, Guard(w)
  PROVE  KickInv'
  <1>1. PICK k \in ClaimType : k = claim[w]
    BY Carried
  <1>2. k.user \in Users /\ k.sid \in Sids \cup {None}
    BY <1>1, Carried DEF Guard
  <1>3. KeysTyped' /\ UNCHANGED <<kicked, ousted>>
    BY <1>1, <1>2 DEF Guard, KickInv, KeysTyped
  <1>4. CASE Answer(w)
    BY <1>3, <1>4, AnswerStep
  <1>5. ASSUME NEW next \in {"refresh", "logout"}, ~kicked[k.user], Move(w, next)
        PROVE  KickInv'
    <2>1. ~ousted[k.user]
      BY <1>2, <1>5 DEF KickInv, KickHolds
    <2>2. ServesOnly(next, k) /\ next \in ServeSteps
      BY <1>2, <1>5 DEF ServesOnly, ServeSteps
    <2>3. Goto(w, next, k)
      BY <1>1, <1>5 DEF Move
    <2>4. QED
      BY <1>3, <2>1, <2>2, <2>3, PlainStep
  <1>6. QED
    BY <1>1, <1>4, <1>5 DEF Guard, Admitted

LEMMA RefreshStep ==
  ASSUME KickInv, NEW w \in Workers, Refresh(w)
  PROVE  KickInv'
  <1>1. PICK c \in ClaimType : c = claim[w]
    BY Carried
  <1>2. /\ c.user \in Users /\ c.sid \in Sids \cup {None}
        /\ pc[w] \notin Kicking \cup {"guard", "idle"}
        /\ UNCHANGED <<kicked, ousted>>
    BY <1>1, Carried DEF Refresh, Kicking
  <1>3. CASE Move(w, "bind") /\ UNCHANGED <<session, registry>>
    <2>1. KeysTyped'
      BY <1>3 DEF Refresh, KickInv, KeysTyped
    <2>2. QED
      BY <1>1, <1>2, <1>3, <2>1, MoveOn DEF Move, ServeSteps
  <1>4. ASSUME NEW s \in Sids,
               session' = [session EXCEPT ![c.sid] = "gone", ![s] = c.user],
               registry' = [registry EXCEPT ![c.user] = s],
               Goto(w, "bind", [c EXCEPT !.sid = s])
        PROVE  KickInv'
    <2>1. PICK k : k = [c EXCEPT !.sid = s]
      OBVIOUS
    <2>2. k \in ClaimType /\ k.user = c.user
      BY <2>1 DEF ClaimType
    <2>3. KeysTyped'
      BY <1>2, <1>4 DEF Refresh, KickInv, KeysTyped
    <2>4. QED
      BY <1>1, <1>2, <1>4, <2>1, <2>2, <2>3, MoveOn DEF ServeSteps
  <1>5. QED
    BY <1>1, <1>3, <1>4 DEF Refresh

LEMMA LogoutStep ==
  ASSUME KickInv, NEW w \in Workers, LogoutDestroy(w) \/ LogoutUnmap(w)
  PROVE  KickInv'
  <1>1. PICK c \in ClaimType : c = claim[w]
    BY Carried
  <1>2. /\ c.user \in Users
        /\ pc[w] \notin Kicking \cup {"guard", "idle"}
        /\ UNCHANGED <<kicked, ousted>>
    BY <1>1, Carried DEF LogoutDestroy, LogoutUnmap, Kicking
  <1>3. KeysTyped'
    BY <1>1, <1>2 DEF LogoutDestroy, LogoutUnmap, KickInv, KeysTyped
  <1>4. PICK next \in {"unmap", "pardon"} : Goto(w, next, c)
    BY <1>1 DEF LogoutDestroy, LogoutUnmap, Move
  <1>5. next \in ServeSteps \ {"idle"}
    BY <1>4 DEF ServeSteps
  <1>6. QED
    BY <1>1, <1>2, <1>3, <1>4, <1>5, MoveOn

(***************************************************************************)
(* kickUserOffline, and the end of it: nobody else serves the user, unless *)
(* to throw him out too.                                                   *)
(***************************************************************************)
LEMMA KickReadStep ==
  ASSUME KickInv, NEW w \in Workers, NEW u \in Users, KickRead(w, u)
  PROVE  KickInv'
  <1>1. PICK o \in Sids \cup {None} : o = registry[u]
    BY DEF KickInv, KeysTyped
  <1>2. PICK k : k = [user |-> u, sid |-> None, old |-> o]
    OBVIOUS
  <1>3. k \in ClaimType /\ ServesOnly("kick", k)
    BY <1>2 DEF ClaimType, ServesOnly
  <1>4. KeysTyped' /\ UNCHANGED <<kicked, ousted>> /\ Goto(w, "kick", k)
    BY <1>1, <1>2 DEF KickRead, redis, KickInv, KeysTyped
  <1>5. "kick" \in ServeSteps /\ "kick" \in Kicking
    BY DEF ServeSteps, Kicking
  <1>6. QED
    BY <1>3, <1>4, <1>5, PlainStep

LEMMA KickDropStep ==
  ASSUME KickInv, NEW w \in Workers, KickDrop(w) \/ KickMark(w)
  PROVE  KickInv'
  <1>1. PICK k \in ClaimType : k = claim[w]
    BY Carried
  <1>2. k.user \in Users
    BY <1>1, Carried DEF KickDrop, KickMark
  <1>3. PICK next \in {"mark", "kickunmap"} : Goto(w, next, k)
    BY <1>1 DEF KickDrop, KickMark, Move
  <1>4. KeysTyped'
    BY <1>1, <1>2 DEF KickDrop, KickMark, KickInv, KeysTyped
  <1>5. next \in ServeSteps /\ next \in Kicking /\ ServesOnly(next, k)
    BY <1>2, <1>3 DEF ServeSteps, Kicking, ServesOnly
  <1>6. UNCHANGED ousted /\ \A u \in Users : kicked[u] => kicked'[u]
    BY <1>1, <1>2 DEF KickDrop, KickMark, KickInv, KeysTyped
  <1>7. \A u \in Users : ousted'[u] =>
            /\ kicked'[u]
            /\ k.user = u => next \in Kicking \cup {"guard"}
            /\ \A v \in Workers \ {w} : claim[v].user = u => pc[v] \in Kicking \cup {"guard"}
    BY <1>5, <1>6 DEF KickInv, KickHolds
  <1>8. QED
    BY <1>3, <1>4, <1>5, <1>7, HandlerStep

LEMMA KickUnmapStep ==
  ASSUME KickInv, NEW w \in Workers, KickUnmap(w)
  PROVE  KickInv'
  <1>1. PICK u \in Users : u = claim[w].user
    BY Carried DEF KickUnmap
  <1>2. /\ registry' = [registry EXCEPT ![u] = None]
        /\ ousted' = [ousted EXCEPT ![u] = @ \/ (Alone(w) /\ kicked[u])]
        /\ UNCHANGED <<session, kicked, scan, crashes>>
    BY <1>1 DEF KickUnmap
  <1>3. (ousted[u] \/ (Alone(w) /\ kicked[u])) \in BOOLEAN
    BY SMT
  <1>4. PICK b \in BOOLEAN : b = (ousted[u] \/ (Alone(w) /\ kicked[u]))
    BY <1>3, Zenon
  <1>5. ousted' = [ousted EXCEPT ![u] = b]
    BY <1>2, <1>4 DEF KickInv, KeysTyped
  <1>6. KeysTyped'
    BY <1>2, <1>5 DEF KickInv, KeysTyped
  <1>7. ServesOnly("idle", Anonymous) /\ "idle" \in ServeSteps /\ Anonymous \in ClaimType
    BY AnonymousTyped DEF ServesOnly, ServeSteps
  <1>8. \A x \in Users : Anonymous.user # x
    BY AnonymousTyped, SessionsAssumption
  <1>9. \A x \in Users : ousted'[x] =>
            /\ kicked'[x]
            /\ \A v \in Workers \ {w} : claim[v].user = x => pc[v] \in Kicking \cup {"guard"}
    <2> SUFFICES ASSUME NEW x \in Users, ousted'[x]
                 PROVE  /\ kicked[x]
                        /\ \A v \in Workers \ {w} :
                              claim[v].user = x => pc[v] \in Kicking \cup {"guard"}
      BY <1>2
    <2>1. CASE ousted[x]
      BY <2>1 DEF KickInv, KickHolds
    <2>2. CASE ~ousted[x]
      <3>1. x = u /\ b
        BY <2>2, <1>5 DEF KickInv, KeysTyped
      <3>2. Alone(w) /\ kicked[u]
        BY <3>1, <2>2, <1>4
      <3>3. QED
        BY <3>1, <3>2, <1>1 DEF Alone
    <2>3. QED
      BY <2>1, <2>2
  <1>10. QED
    BY <1>6, <1>7, <1>8, <1>9, HandlerStep DEF KickUnmap, Answer

(***************************************************************************)
(* The online list, lapses and restarts touch no handler's user.           *)
(***************************************************************************)
LEMMA KeysStep ==
  ASSUME KickInv, KeysTyped', UNCHANGED <<pc, claim>>,
         \A u \in Users : ousted'[u] => ousted[u] /\ kicked'[u]
  PROVE  KickInv'
  BY DEF KickInv, KickHolds, ServesOnly

LEMMA ScanStep ==
  ASSUME KickInv, Scan
  PROVE  KickInv'
  <1>1. PICK sc \in ScanType : sc = scan
    BY DEF KickInv, KeysTyped
  <1>2. scan' \in ScanType
    <2>1. CASE ScanStart
      <3>1. PICK l \in SUBSET Users : l = {u \in Users : registry[u] # None}
        OBVIOUS
      <3>2. PICK k : k = [Asleep EXCEPT !.left = l, !.step = "next"]
        OBVIOUS
      <3>3. k \in ScanType
        BY <3>2 DEF Asleep, ScanType
      <3>4. QED
        BY <2>1, <3>1, <3>2, <3>3 DEF ScanStart
    <2>2. CASE ScanRead
      <3>1. CASE scan' = Asleep
        BY <3>1, AsleepTyped
      <3>2. ASSUME NEW u \in scan.left,
                   scan' = [left |-> scan.left \ {u}, user |-> u, sid |-> registry[u],
                            step |-> "check"]
            PROVE  scan' \in ScanType
        <4>1. u \in Users /\ scan.left \subseteq Users
          BY <1>1 DEF ScanType
        <4>2. PICK o \in Sids \cup {None} : o = registry[u]
          BY <4>1 DEF KickInv, KeysTyped
        <4>3. QED
          BY <3>2, <4>1, <4>2 DEF ScanType
      <3>3. QED
        BY <2>2, <3>1, <3>2 DEF ScanRead
    <2>3. CASE ScanCheck
      <3>1. PICK next \in {"next", "unmap"} : scan' = [sc EXCEPT !.step = next]
        BY <1>1, <2>3 DEF ScanCheck
      <3>2. QED
        BY <3>1 DEF ScanType
    <2>4. CASE ScanUnmap
      BY <1>1, <2>4 DEF ScanUnmap, ScanType
    <2>5. QED
      BY <2>1, <2>2, <2>3, <2>4 DEF Scan
  <1>3. /\ UNCHANGED <<session, kicked, pc, claim, ousted, crashes>>
        /\ registry' \in [Users -> Sids \cup {None}]
    BY DEF Scan, ScanStart, ScanRead, ScanCheck, ScanUnmap, redis, KickInv, KeysTyped
  <1>4. KeysTyped'
    BY <1>2, <1>3 DEF KickInv, KeysTyped
  <1>5. QED
    BY <1>3, <1>4, KeysStep DEF KickInv, KickHolds

LEMMA LapseStep ==
  ASSUME KickInv, \/ \E s \in Sids : SessionLapse(s)
                  \/ \E u \in Users : MarkLapse(u)
  PROVE  KickInv'
  <1>1. ASSUME NEW s \in Sids, SessionLapse(s)
        PROVE  KickInv'
    BY <1>1, KeysStep DEF SessionLapse, KickInv, KeysTyped, KickHolds
  <1>2. ASSUME NEW u \in Users, MarkLapse(u)
        PROVE  KickInv'
    <2>1. KeysTyped' /\ UNCHANGED <<pc, claim>>
      BY <1>2 DEF MarkLapse, KickInv, KeysTyped
    <2>2. \A x \in Users : ousted'[x] => ousted[x] /\ kicked'[x]
      BY <1>2 DEF MarkLapse, KickInv, KeysTyped, KickHolds
    <2>3. QED
      BY <2>1, <2>2, KeysStep
  <1>3. QED
    BY <1>1, <1>2

LEMMA SessionsCrashStep ==
  ASSUME KickInv, Crash
  PROVE  KickInv'
  <1>1. /\ pc' = [w \in Workers |-> "idle"] /\ claim' = [w \in Workers |-> Anonymous]
        /\ scan' = Asleep /\ UNCHANGED <<session, registry, kicked, ousted>>
        /\ crashes' \in 0..MaxCrashes
    BY SessionsAssumption DEF Crash, redis, KickInv, KeysTyped
  <1>2. KeysTyped'
    BY <1>1, AsleepTyped DEF KickInv, KeysTyped
  <1>3. /\ pc' \in [Workers -> ServeSteps] /\ claim' \in [Workers -> ClaimType]
        /\ \A w \in Workers : ServesOnly(pc[w], claim[w])'
    BY <1>1, AnonymousTyped DEF ServeSteps, ServesOnly
  <1>4. KickHolds'
    BY <1>1, AnonymousTyped, SessionsAssumption DEF KickInv, KickHolds
  <1>5. QED
    BY <1>2, <1>3, <1>4 DEF KickInv

LEMMA SessionsStep == KickInv /\ [Next]_vars => KickInv'
  <1> SUFFICES ASSUME KickInv, [Next]_vars PROVE KickInv'
    OBVIOUS
  <1>1. ASSUME NEW w \in Workers, Serve(w)
        PROVE  KickInv'
    <2>1. ASSUME NEW u \in Users, LoginBegin(w, u) \/ KickRead(w, u)
          PROVE  KickInv'
      BY <2>1, LoginBeginStep, KickReadStep
    <2>2. ASSUME NEW s \in Sids, RequestLoad(w, s)
          PROVE  KickInv'
      BY <2>2, RequestLoadStep
    <2>3. CASE LoginSave(w) \/ LoginResave(w)
      BY <2>3, LoginStep
    <2>4. CASE BindRead(w) \/ BindDrop(w) \/ BindSet(w)
      BY <2>4, BindStep
    <2>5. CASE BindClear(w)
      BY <2>5, BindClearStep
    <2>6. CASE Guard(w)
      BY <2>6, GuardStep
    <2>7. CASE Refresh(w)
      BY <2>7, RefreshStep
    <2>8. CASE LogoutDestroy(w) \/ LogoutUnmap(w)
      BY <2>8, LogoutStep
    <2>9. CASE KickDrop(w) \/ KickMark(w)
      BY <2>9, KickDropStep
    <2>10. CASE KickUnmap(w)
      BY <2>10, KickUnmapStep
    <2>11. QED
      BY <1>1, <2>1, <2>2, <2>3, <2>4, <2>5, <2>6, <2>7, <2>8, <2>9, <2>10 DEF Serve
  <1>2. CASE Scan
    BY <1>2, ScanStep
  <1>3. CASE \/ \E s \in Sids : SessionLapse(s)
             \/ \E u \in Users : MarkLapse(u)
    BY <1>3, LapseStep
  <1>4. CASE Crash
    BY <1>4, SessionsCrashStep
  <1>5. CASE UNCHANGED vars
    BY <1>5, KeysStep DEF vars, KickInv, KeysTyped, KickHolds
  <1>6. QED
    BY <1>1, <1>2, <1>3, <1>4, <1>5 DEF Next

(***************************************************************************)
(* A user who was thrown out stays out: of every request under way when    *)
(* the kick ended and every session it did not know of, none gets past the *)
(* guard before a new login or the day the mark lasts.                     *)
(***************************************************************************)
THEOREM KicksAlwaysHold == AccessSpec => []KicksHold
  <1>1. AccessInit => KickInv
    BY SessionsInit DEF AccessInit
  <1>2. KickInv /\ [AccessNext]_accessVars => KickInv'
    BY SessionsStep, Parts
  <1>3. KickInv => KicksHold
    BY KickInvTyped DEF KickInv, KicksHold
  <1>4. QED
    BY <1>1, <1>2, <1>3, PTL DEF AccessSpec

(***************************************************************************)
(* QR codes.  Whatever handlers hold or the entry says, a phone is named   *)
(* as the scanner only if it scanned, and as the user only if it scanned,  *)
(* was bound and confirmed.                                                *)
(***************************************************************************)
Entry == {Qr!NoTicket, Qr!Pending}
           \cup [status : {"scanned", "confirmed"}, openid : Phones, user : Phones \cup {None}]

HeldType == [phone : Phones \cup {None}, data : Entry, ttl : {"none", "left", "gone"}]

QrSteps == {"idle", "user", "ttl", "set", "expire", "del"}

Vouched(data) ==
    /\ data.openid # None => data.openid \in scanned
    /\ data.status = "confirmed" => data.user \in scanned \cap confirmed \cap Bound

(* What a handler is about to write is of its own phone.                   *)
Writes(where, h) ==
    /\ where = "user" => /\ h.data # Qr!NoTicket
                       /\ h.data.openid = h.phone
                       /\ h.phone \in scanned
    /\ where \in {"ttl", "set"} =>
          /\ h.phone \in Phones
          /\ h.data.status \in {"scanned", "confirmed"}
          /\ h.data.openid = h.phone
          /\ h.data.status = "confirmed" => /\ h.data.user = h.phone
                                            /\ h.phone \in scanned \cap Bound
    /\ where = "del" => h.phone \in scanned \cap confirmed \cap Bound

QrTyped ==
    /\ ticket \in Entry
    /\ timed \in BOOLEAN
    /\ step \in [Callers -> QrSteps]
    /\ held \in [Callers -> HeldType]
    /\ frozen \subseteq Phones /\ scanned \subseteq Phones /\ confirmed \subseteq Phones
    /\ restarts \in Nat

QrInv ==
    /\ QrTyped
    /\ Vouched(ticket)
    /\ \A c \in Callers : Writes(step[c], held[c])
    /\ Qr!TicketTimed
    /\ spent => ticket = Qr!NoTicket /\ \A c \in Callers : step[c] = "idle"

LEMMA QrInvSound == QrInv => QrSound
  BY DEF QrInv, QrTyped, Writes, QrSound, Qr!QrTypeOK, Qr!EnteredByScanner, Qr!SpentStaysSpent,
         Entry, HeldType, QrSteps

LEMMA EntryParts ==
  /\ Qr!NoTicket \in Entry /\ Qr!Pending \in Entry
  /\ Qr!NoTicket.status = "gone" /\ Qr!NoTicket.openid = None /\ Qr!NoTicket.user = None
  /\ Qr!Pending.status = "pending" /\ Qr!Pending.openid = None /\ Qr!Pending.user = None
  /\ \A e \in Entry : /\ e.openid \in Phones \cup {None}
                      /\ e.user \in Phones \cup {None}
                      /\ e.status = "confirmed" => e.openid \in Phones
                      /\ e.openid # None => e.status \in {"scanned", "confirmed"}
  BY AccessAssumption DEF Entry, Qr!NoTicket, Qr!Pending

LEMMA EmptyTyped == Qr!Empty \in HeldType
  BY EntryParts DEF Qr!Empty, HeldType

LEMMA QrInitInv == Qr!QrInit => QrInv
  <1> SUFFICES ASSUME Qr!QrInit PROVE QrInv
    OBVIOUS
  <1>1. QrTyped
    BY EntryParts, EmptyTyped DEF Qr!QrInit, QrTyped, QrSteps
  <1>2. Vouched(ticket) /\ \A c \in Callers : Writes(step[c], held[c])
    BY EntryParts DEF Qr!QrInit, Vouched, Writes
  <1>3. Qr!TicketTimed /\ ~spent
    BY DEF Qr!QrInit, Qr!TicketTimed
  <1>4. QED
    BY <1>1, <1>2, <1>3 DEF QrInv

EntryTyped ==
    /\ ticket \in Entry
    /\ timed \in BOOLEAN
    /\ frozen \subseteq Phones /\ scanned \subseteq Phones /\ confirmed \subseteq Phones
    /\ restarts \in Nat

(* A step of one handler, and what it must keep.                           *)
LEMMA CallerStep ==
  ASSUME QrInv, NEW c \in Callers, NEW next \in QrSteps, NEW h \in HeldType,
         Qr!Keep(c, next, h), EntryTyped',
         scanned \subseteq scanned', confirmed \subseteq confirmed',
         Vouched(ticket)', Writes(next, h)',
         ticket' # Qr!NoTicket /\ ~timed' /\ restarts' = 0 =>
            next = "expire" \/ \E d \in Callers \ {c} : step[d] = "expire",
         spent' => /\ ticket' = Qr!NoTicket /\ next = "idle"
                   /\ \A d \in Callers \ {c} : step[d] = "idle"
  PROVE  QrInv'
  <1>1. /\ step' \in [Callers -> QrSteps]
        /\ held' \in [Callers -> HeldType]
        /\ step'[c] = next /\ held'[c] = h
        /\ \A d \in Callers \ {c} : step'[d] = step[d] /\ held'[d] = held[d]
    BY DEF Qr!Keep, QrInv, QrTyped
  <1>2. QrTyped'
    BY <1>1 DEF EntryTyped, QrTyped
  <1>3. \A d \in Callers : Writes(step[d], held[d])'
    BY <1>1 DEF QrInv, Writes
  <1>4. Qr!TicketTimed'
    BY <1>1 DEF Qr!TicketTimed, Qr!NoTicket
  <1>5. spent' => ticket' = Qr!NoTicket /\ \A d \in Callers : step'[d] = "idle"
    BY <1>1
  <1>6. QED
    BY <1>2, <1>3, <1>4, <1>5 DEF QrInv, Qr!NoTicket

(* A handler that only reads, or gives up: the code was not spent.         *)
LEMMA CallerReads ==
  ASSUME QrInv, NEW c \in Callers, NEW next \in QrSteps, NEW h \in HeldType,
         Qr!Keep(c, next, h), step[c] # "expire",
         UNCHANGED <<ticket, timed, frozen, scanned, confirmed, spent, restarts>>,
         Writes(next, h), ~spent
  PROVE  QrInv'
  <1>1. EntryTyped' /\ Vouched(ticket)' /\ Writes(next, h)'
    BY DEF QrInv, QrTyped, EntryTyped, Vouched, Writes
  <1>2. ticket' # Qr!NoTicket /\ ~timed' /\ restarts' = 0 =>
            \E d \in Callers \ {c} : step[d] = "expire"
    BY DEF QrInv, Qr!TicketTimed
  <1>3. QED
    BY <1>1, <1>2, CallerStep

(* A handler that has something to do: nobody has spent the code.          *)
LEMMA Unspent ==
  ASSUME QrInv, \/ ticket # Qr!NoTicket
                \/ \E c \in Callers : step[c] # "idle"
  PROVE  ~spent
  BY DEF QrInv

LEMMA ScanReadStep ==
  ASSUME QrInv, NEW c \in Callers, NEW o \in Phones, Qr!ScanRead(c, o)
  PROVE  QrInv'
  <1>1. PICK u \in Phones \cup {None} : u = ticket.user
    BY EntryParts DEF QrInv, QrTyped
  <1>2. PICK data : data = [status |-> "scanned", openid |-> o, user |-> u]
    OBVIOUS
  <1>3. data \in Entry
    BY <1>2 DEF Entry
  <1>4. PICK h : h = [phone |-> o, ttl |-> "none", data |-> data]
    OBVIOUS
  <1>5. h \in HeldType
    BY <1>3, <1>4 DEF HeldType
  <1>6. Writes("ttl", h)
    BY <1>2, <1>4 DEF Writes
  <1>7. Qr!Keep(c, "ttl", h) /\ step[c] = "idle" /\ ticket # Qr!NoTicket
    BY <1>1, <1>2, <1>4 DEF Qr!ScanRead
  <1>8. QED
    BY <1>5, <1>6, <1>7, Unspent, CallerReads DEF Qr!ScanRead, QrSteps

LEMMA ConfirmReadStep ==
  ASSUME QrInv, NEW c \in Callers, NEW o \in Phones, Qr!ConfirmRead(c, o)
  PROVE  QrInv'
  <1>1. PICK data \in Entry : data = ticket
    BY DEF QrInv, QrTyped
  <1>2. PICK h : h = [phone |-> o, data |-> data, ttl |-> "none"]
    OBVIOUS
  <1>3. h \in HeldType
    BY <1>2 DEF HeldType
  <1>4. ticket # Qr!NoTicket /\ data.openid = o /\ o # None
    BY <1>1, AccessAssumption DEF Qr!ConfirmRead, Qr!Scanner
  <1>5. Writes("user", h)
    BY <1>1, <1>2, <1>4 DEF Writes, QrInv, Vouched
  <1>6. Qr!Keep(c, "user", h) /\ step[c] = "idle"
    BY <1>1, <1>2 DEF Qr!ConfirmRead
  <1>7. QED
    BY <1>3, <1>4, <1>5, <1>6, Unspent, CallerReads DEF Qr!ConfirmRead, QrSteps

LEMMA DoneReads ==
  ASSUME QrInv, NEW c \in Callers, Qr!Done(c), step[c] # "expire", step[c] # "idle",
         UNCHANGED <<ticket, timed, frozen, scanned, confirmed, spent, restarts>>
  PROVE  QrInv'
  <1>1. Writes("idle", Qr!Empty) /\ "idle" \in QrSteps
    BY DEF Writes, QrSteps
  <1>2. QED
    BY <1>1, EmptyTyped, Unspent, CallerReads DEF Qr!Done

LEMMA HeldParts ==
  ASSUME QrInv, NEW c \in Callers
  PROVE  /\ held[c] \in HeldType
         /\ held[c].phone \in Phones \cup {None}
         /\ held[c].data \in Entry
         /\ Writes(step[c], held[c])
  BY DEF QrInv, QrTyped, HeldType

LEMMA ConfirmUserStep ==
  ASSUME QrInv, NEW c \in Callers, Qr!ConfirmUser(c)
  PROVE  QrInv'
  <1>1. PICK o, old : o = held[c].phone /\ old = held[c].data
    OBVIOUS
  <1>2. old \in Entry /\ old.openid = o /\ o \in scanned /\ o \in Phones
    BY <1>1, HeldParts DEF Qr!ConfirmUser, Writes, QrInv, QrTyped
  <1>3. CASE Qr!Done(c)
    BY <1>3, DoneReads DEF Qr!ConfirmUser
  <1>4. CASE /\ o \in Bound \ frozen
             /\ Qr!Keep(c, "ttl", [phone |-> o, ttl |-> "none",
                   data |-> [status |-> "confirmed", openid |-> old.openid, user |-> o]])
    <2>1. PICK data : data = [status |-> "confirmed", openid |-> o, user |-> o]
      OBVIOUS
    <2>2. data \in Entry
      BY <1>2, <2>1 DEF Entry
    <2>3. PICK h : h = [phone |-> o, ttl |-> "none", data |-> data]
      OBVIOUS
    <2>4. h \in HeldType
      BY <1>2, <2>2, <2>3 DEF HeldType
    <2>5. Writes("ttl", h)
      BY <1>2, <1>4, <2>1, <2>3 DEF Writes
    <2>6. Qr!Keep(c, "ttl", h)
      BY <1>2, <1>4, <2>1, <2>3
    <2>7. QED
      BY <2>4, <2>5, <2>6, Unspent, CallerReads DEF Qr!ConfirmUser, QrSteps
  <1>5. QED
    BY <1>1, <1>3, <1>4 DEF Qr!ConfirmUser

LEMMA ReadTtlStep ==
  ASSUME QrInv, NEW c \in Callers, Qr!ReadTtl(c)
  PROVE  QrInv'
  <1>1. PICK old : old = held[c]
    OBVIOUS
  <1>2. PICK ttl \in {"none", "left", "gone"} :
           Qr!Keep(c, "set", [old EXCEPT !.ttl = ttl])
    BY <1>1 DEF Qr!ReadTtl
  <1>3. PICK h : h = [old EXCEPT !.ttl = ttl]
    OBVIOUS
  <1>4. h \in HeldType /\ h.phone = old.phone /\ h.data = old.data
    BY <1>1, <1>3, HeldParts DEF HeldType
  <1>5. Writes("set", h)
    BY <1>1, <1>4, HeldParts DEF Qr!ReadTtl, Writes
  <1>6. QED
    BY <1>2, <1>3, <1>4, <1>5, Unspent, CallerReads DEF Qr!ReadTtl, QrSteps

LEMMA SetTicketStep ==
  ASSUME QrInv, NEW c \in Callers, Qr!SetTicket(c)
  PROVE  QrInv'
  <1>1. PICK h \in HeldType : h = held[c]
    BY HeldParts
  <1>2. /\ h.phone \in Phones /\ h.data \in Entry
        /\ h.data.status \in {"scanned", "confirmed"}
        /\ h.data.openid = h.phone
        /\ h.data.status = "confirmed" => h.data.user = h.phone /\ h.phone \in scanned \cap Bound
    BY <1>1, HeldParts DEF Qr!SetTicket, Writes
  <1>3. /\ ticket' = h.data /\ timed' = FALSE
        /\ IF h.data.status = "scanned"
           THEN scanned' = scanned \cup {h.phone} /\ UNCHANGED confirmed
           ELSE confirmed' = confirmed \cup {h.phone} /\ UNCHANGED scanned
        /\ Qr!Keep(c, "expire", h)
        /\ UNCHANGED <<frozen, spent, restarts>>
    BY <1>1 DEF Qr!SetTicket
  <1>4. EntryTyped' /\ scanned \subseteq scanned' /\ confirmed \subseteq confirmed'
    BY <1>2, <1>3 DEF EntryTyped, QrInv, QrTyped
  <1>5. Vouched(ticket)'
    BY <1>2, <1>3 DEF Vouched
  <1>6. Writes("expire", h)' /\ "expire" \in QrSteps
    BY DEF Writes, QrSteps
  <1>7. ~spent'
    BY <1>3, Unspent DEF Qr!SetTicket
  <1>8. QED
    BY <1>3, <1>4, <1>5, <1>6, <1>7, CallerStep

(* The entry is gone, and the handler with it.                             *)
LEMMA GoneStep ==
  ASSUME QrInv, NEW c \in Callers, Qr!Done(c), ticket' = Qr!NoTicket, timed' = FALSE,
         UNCHANGED <<frozen, scanned, confirmed, restarts>>,
         spent' => \A d \in Callers \ {c} : step[d] = "idle"
  PROVE  QrInv'
  <1>1. EntryTyped' /\ Vouched(ticket)'
    BY EntryParts DEF EntryTyped, Vouched, QrInv, QrTyped
  <1>2. Writes("idle", Qr!Empty)' /\ "idle" \in QrSteps
    BY DEF Writes, QrSteps
  <1>3. Qr!NoTicket' = Qr!NoTicket
    BY DEF Qr!NoTicket
  <1>4. QED
    BY <1>1, <1>2, <1>3, EmptyTyped, CallerStep DEF Qr!Done

LEMMA ExpireStep ==
  ASSUME QrInv, NEW c \in Callers, Qr!Expire(c)
  PROVE  QrInv'
  <1>1. ~spent /\ ~spent'
    BY Unspent DEF Qr!Expire
  <1>2. CASE timed' = (ticket # Qr!NoTicket) /\ UNCHANGED ticket
    <2>1. (ticket # Qr!NoTicket) \in BOOLEAN
      BY SMT
    <2>2. PICK b \in BOOLEAN : b = (ticket # Qr!NoTicket)
      BY <2>1, Zenon
    <2>3. timed' \in BOOLEAN /\ (ticket # Qr!NoTicket => timed')
      BY <1>2, <2>2
    <2>4. EntryTyped' /\ Vouched(ticket)'
      BY <1>2, <2>3 DEF Qr!Expire, EntryTyped, Vouched, QrInv, QrTyped
    <2>5. Writes("idle", Qr!Empty)' /\ "idle" \in QrSteps
      BY DEF Writes, QrSteps
    <2>6. Qr!NoTicket' = Qr!NoTicket
      BY DEF Qr!NoTicket
    <2>7. QED
      BY <1>1, <1>2, <2>3, <2>4, <2>5, <2>6, EmptyTyped, CallerStep DEF Qr!Expire, Qr!Done
  <1>3. CASE ticket' = Qr!NoTicket /\ timed' = FALSE
    BY <1>1, <1>3, GoneStep DEF Qr!Expire
  <1>4. QED
    BY <1>2, <1>3 DEF Qr!Expire

LEMMA PollReadStep ==
  ASSUME QrInv, NEW c \in Callers, Qr!PollRead(c)
  PROVE  QrInv'
  <1>1. PICK data \in Entry : data = ticket
    BY DEF QrInv, QrTyped
  <1>2. PICK h : h = [phone |-> data.user, data |-> data, ttl |-> "none"]
    OBVIOUS
  <1>3. h \in HeldType
    BY <1>2, EntryParts DEF HeldType
  <1>4. ticket # Qr!NoTicket /\ data.user \in scanned \cap confirmed \cap Bound
    BY <1>1, EntryParts DEF Qr!PollRead, QrInv, Vouched
  <1>5. Writes("del", h)
    BY <1>2, <1>4 DEF Writes
  <1>6. Qr!Keep(c, "del", h) /\ step[c] = "idle"
    BY <1>1, <1>2 DEF Qr!PollRead
  <1>7. QED
    BY <1>3, <1>4, <1>5, <1>6, Unspent, CallerReads DEF Qr!PollRead, QrSteps

LEMMA PollTakeStep ==
  ASSUME QrInv, NEW c \in Callers, Qr!PollTake(c)
  PROVE  QrInv'
  <1>1. ~spent
    BY Unspent DEF Qr!PollTake
  <1>2. spent' => \A d \in Callers \ {c} : step[d] = "idle"
    BY <1>1 DEF Qr!PollTake
  <1>3. QED
    BY <1>2, GoneStep DEF Qr!PollTake

(* The entry lapses or stays.                                              *)
LEMMA EntryStep ==
  ASSUME QrInv, UNCHANGED <<step, held, scanned, confirmed, spent, restarts>>,
         EntryTyped',
         \/ ticket' = ticket /\ timed' = timed
         \/ ticket' = Qr!NoTicket
  PROVE  QrInv'
  <1>1. QrTyped'
    BY DEF EntryTyped, QrInv, QrTyped
  <1>2. Vouched(ticket)'
    BY EntryParts DEF QrInv, Vouched
  <1>3. \A c \in Callers : Writes(step[c], held[c])'
    BY DEF QrInv, Writes
  <1>4. Qr!NoTicket' = Qr!NoTicket
    BY DEF Qr!NoTicket
  <1>5. Qr!TicketTimed'
    BY <1>4 DEF QrInv, Qr!TicketTimed
  <1>6. spent' => ticket' = Qr!NoTicket' /\ \A c \in Callers : step'[c] = "idle"
    BY <1>4 DEF QrInv
  <1>7. QED
    BY <1>1, <1>2, <1>3, <1>5, <1>6 DEF QrInv

LEMMA QrOutsideStep ==
  ASSUME QrInv, \/ Qr!QrLapse
                \/ \E o \in Bound : Qr!Freeze(o)
                \/ UNCHANGED qr
  PROVE  QrInv'
  <1>1. EntryTyped'
    BY EntryParts, AccessAssumption DEF Qr!QrLapse, Qr!Freeze, qr, EntryTyped, QrInv, QrTyped
  <1>2. /\ UNCHANGED <<step, held, scanned, confirmed, spent, restarts>>
        /\ \/ ticket' = ticket /\ timed' = timed
           \/ ticket' = Qr!NoTicket
    BY DEF Qr!QrLapse, Qr!Freeze, qr
  <1>3. QED
    BY <1>1, <1>2, EntryStep

LEMMA RestartStep ==
  ASSUME QrInv, Qr!Restart
  PROVE  QrInv'
  <1>1. /\ step' = [c \in Callers |-> "idle"] /\ held' = [c \in Callers |-> Qr!Empty]
        /\ UNCHANGED <<ticket, timed, frozen, scanned, confirmed, spent>>
        /\ restarts' = restarts + 1
    BY DEF Qr!Restart
  <1>2. QrTyped'
    BY <1>1, EmptyTyped DEF QrInv, QrTyped, QrSteps
  <1>3. Vouched(ticket)' /\ \A c \in Callers : Writes(step[c], held[c])'
    BY <1>1 DEF QrInv, Vouched, Writes
  <1>4. restarts' # 0
    BY <1>1 DEF QrInv, QrTyped
  <1>5. QED
    BY <1>1, <1>2, <1>3, <1>4 DEF QrInv, Qr!TicketTimed, Qr!NoTicket

LEMMA QrStep == QrInv /\ [Qr!QrNext]_qr => QrInv'
  <1> SUFFICES ASSUME QrInv, [Qr!QrNext]_qr PROVE QrInv'
    OBVIOUS
  <1>1. ASSUME NEW c \in Callers, NEW o \in Phones, Qr!ScanRead(c, o) \/ Qr!ConfirmRead(c, o)
        PROVE  QrInv'
    BY <1>1, ScanReadStep, ConfirmReadStep
  <1>2. ASSUME NEW c \in Callers, Qr!ConfirmUser(c) \/ Qr!ReadTtl(c)
        PROVE  QrInv'
    BY <1>2, ConfirmUserStep, ReadTtlStep
  <1>3. ASSUME NEW c \in Callers, Qr!SetTicket(c) \/ Qr!Expire(c)
        PROVE  QrInv'
    BY <1>3, SetTicketStep, ExpireStep
  <1>4. ASSUME NEW c \in Callers, Qr!PollRead(c) \/ Qr!PollTake(c)
        PROVE  QrInv'
    BY <1>4, PollReadStep, PollTakeStep
  <1>5. CASE Qr!QrLapse \/ (\E o \in Bound : Qr!Freeze(o)) \/ UNCHANGED qr
    BY <1>5, QrOutsideStep
  <1>6. CASE Qr!Restart
    BY <1>6, RestartStep
  <1>7. QED
    BY <1>1, <1>2, <1>3, <1>4, <1>5, <1>6 DEF Qr!QrNext

(***************************************************************************)
(* A browser is logged in as a phone that scanned its code and confirmed   *)
(* it; the code runs out unless the server restarts between two commands,  *)
(* and is of no use again when nobody else held it: for handlers that      *)
(* read, change and write back one entry without a lock.                   *)
(***************************************************************************)
THEOREM QrAlwaysSound == AccessSpec => []QrSound
  <1>1. AccessInit => QrInv
    BY QrInitInv DEF AccessInit
  <1>2. QrInv /\ [AccessNext]_accessVars => QrInv'
    BY QrStep, Parts
  <1>3. QrInv => QrSound
    BY QrInvSound
  <1>4. QED
    BY <1>1, <1>2, <1>3, PTL DEF AccessSpec

(***************************************************************************)
(* Permissions.  Nothing of what was withdrawn while nobody signed in is   *)
(* active, nor in what a sign-in has read since; and it is in the cache    *)
(* only until a sign-in has written it.                                    *)
(***************************************************************************)
GrantRows ==
    /\ authOn \in [Auths -> Grant!Rows]
    /\ link \in [Roles -> [Auths -> Grant!Rows]]
    /\ grant \in [Roles -> Grant!Rows]

SignIns ==
    /\ cached \in {None} \cup SUBSET Auths
    /\ place \in [Requests -> {"idle", "join", "cache", "answer"}]
    /\ roles \in [Requests -> SUBSET Roles]
    /\ resources \in [Requests -> SUBSET Auths]

NoneBarred ==
    /\ barred \subseteq Auths
    /\ barred # {} => Grant!Linked(Grant!ActiveRoles) \cap barred = {}
    /\ \A q \in Requests :
          /\ place[q] = "join" /\ barred # {} => roles[q] = Grant!ActiveRoles
          /\ place[q] = "cache" => resources[q] \cap barred = {}
          /\ place[q] = "answer" => cached = None \/ cached \cap barred = {}

GrantInv == GrantRows /\ SignIns /\ NoneBarred

LEMMA GrantInvTyped == GrantInv => Grant!GrantTypeOK
  BY DEF GrantInv, GrantRows, SignIns, NoneBarred, Grant!GrantTypeOK

LEMMA GrantInitInv == Grant!GrantInit => GrantInv
  BY DEF Grant!GrantInit, GrantInv, GrantRows, SignIns, NoneBarred, Grant!Rows

LEMMA LinkedAuths == \A rs : Grant!Linked(rs) \subseteq Auths
  BY DEF Grant!Linked

(* An administrator's call withdraws and restores; nobody is signing in,   *)
(* or nothing counts as withdrawn.                                         *)
LEMMA NotedStep ==
  ASSUME GrantInv, GrantRows', Grant!Noted
  PROVE  GrantInv'
  <1>1. PICK on : on = Grant!Linked(Grant!ActiveRoles)'
    OBVIOUS
  <1>2. /\ UNCHANGED <<cached, place, roles, resources>>
        /\ barred' = IF \A q \in Requests : place[q] = "idle" THEN Auths \ on ELSE {}
    BY <1>1 DEF Grant!Noted
  <1>3. SignIns'
    BY <1>2 DEF GrantInv, SignIns
  <1>4. NoneBarred'
    <2>1. CASE \A q \in Requests : place[q] = "idle"
      BY <2>1, <1>1, <1>2 DEF NoneBarred
    <2>2. CASE barred' = {}
      BY <2>2, <1>2 DEF NoneBarred
    <2>3. QED
      BY <2>1, <2>2, <1>2
  <1>5. QED
    BY <1>3, <1>4 DEF GrantInv

LEMMA AdminStep ==
  ASSUME GrantInv,
         \/ \E a \in Auths :
               \/ Grant!CreateAuth(a) \/ Grant!UpdateAuth(a)
               \/ \E r \in Roles : \/ Grant!CreateAuthRole(r, a) \/ Grant!FrozenAuthRole(r, a)
                                   \/ Grant!ReactiveAuthRole(r, a)
         \/ \E r \in Roles : Grant!CreateUserRole(r) \/ \E to \in Roles : Grant!UpdateUserRole(r, to)
  PROVE  GrantInv'
  <1>1. ASSUME NEW a \in Auths, Grant!CreateAuth(a) \/ Grant!UpdateAuth(a)
        PROVE  GrantInv'
    <2>1. GrantRows'
      BY <1>1 DEF Grant!CreateAuth, Grant!UpdateAuth, GrantInv, GrantRows, Grant!Rows
    <2>2. QED
      BY <1>1, <2>1, NotedStep DEF Grant!CreateAuth, Grant!UpdateAuth
  <1>2. ASSUME NEW a \in Auths, NEW r \in Roles,
               \/ Grant!CreateAuthRole(r, a) \/ Grant!FrozenAuthRole(r, a)
               \/ Grant!ReactiveAuthRole(r, a)
        PROVE  GrantInv'
    <2>1. PICK s \in Grant!Rows :
             /\ link' = [link EXCEPT ![r][a] = s]
             /\ UNCHANGED <<authOn, grant>>
             /\ Grant!Noted
      BY <1>2 DEF Grant!CreateAuthRole, Grant!FrozenAuthRole, Grant!ReactiveAuthRole, Grant!Rows
    <2>2. link[r] \in [Auths -> Grant!Rows]
      BY DEF GrantInv, GrantRows
    <2>3. PICK links \in [Auths -> Grant!Rows] : link' = [link EXCEPT ![r] = links]
      BY <2>1, <2>2 DEF GrantInv, GrantRows
    <2>4. GrantRows'
      BY <2>1, <2>3 DEF GrantInv, GrantRows
    <2>5. QED
      BY <2>1, <2>4, NotedStep
  <1>3. ASSUME NEW r \in Roles, Grant!CreateUserRole(r)
        PROVE  GrantInv'
    <2>1. GrantRows'
      BY <1>3 DEF Grant!CreateUserRole, GrantInv, GrantRows, Grant!Rows
    <2>2. QED
      BY <1>3, <2>1, NotedStep DEF Grant!CreateUserRole
  <1>4. ASSUME NEW r \in Roles, NEW to \in Roles, Grant!UpdateUserRole(r, to)
        PROVE  GrantInv'
    <2>1. GrantRows'
      BY <1>4 DEF Grant!UpdateUserRole, GrantInv, GrantRows, Grant!Rows
    <2>2. QED
      BY <1>4, <2>1, NotedStep DEF Grant!UpdateUserRole
  <1>5. QED
    BY <1>1, <1>2, <1>3, <1>4

(* A step of the sign-ins leaves what is active and what is barred alone.  *)
LEMMA SignInStep ==
  ASSUME GrantInv, UNCHANGED <<authOn, link, grant, barred>>, SignIns',
         \A q \in Requests :
            /\ place'[q] = "join" /\ barred # {} => roles'[q] = Grant!ActiveRoles
            /\ place'[q] = "cache" => resources'[q] \cap barred = {}
            /\ place'[q] = "answer" => cached' = None \/ cached' \cap barred = {}
  PROVE  GrantInv'
  <1>1. GrantRows'
    BY DEF GrantInv, GrantRows
  <1>2. PICK on : on = Grant!ActiveRoles /\ on = Grant!ActiveRoles'
    BY DEF Grant!ActiveRoles
  <1>3. Grant!Linked(Grant!ActiveRoles)' = Grant!Linked(Grant!ActiveRoles)
    BY DEF Grant!Linked, Grant!ActiveRoles
  <1>4. NoneBarred'
    BY <1>2, <1>3 DEF GrantInv, NoneBarred
  <1>5. QED
    BY <1>1, <1>4 DEF GrantInv

LEMMA SignInSteps ==
  ASSUME GrantInv,
         \/ \E q \in Requests : \/ Grant!ReadRoles(q) \/ Grant!JoinResources(q)
                                \/ Grant!SetResources(q) \/ Grant!AnswerCached(q)
         \/ Grant!DropResources
         \/ UNCHANGED granted
  PROVE  GrantInv'
  <1>1. ASSUME NEW q \in Requests, Grant!ReadRoles(q)
        PROVE  GrantInv'
    <2>1. PICK on \in SUBSET Roles : on = Grant!ActiveRoles
      BY DEF Grant!ActiveRoles
    <2>2. /\ UNCHANGED <<authOn, link, grant, cached, resources, barred>>
          /\ roles' = [roles EXCEPT ![q] = on]
          /\ place' = [place EXCEPT ![q] = "join"]
      BY <1>1, <2>1 DEF Grant!ReadRoles, Grant!Turn
    <2>3. SignIns'
      BY <2>2 DEF GrantInv, SignIns
    <2>4. QED
      BY <2>1, <2>2, <2>3, SignInStep DEF GrantInv, SignIns, NoneBarred
  <1>2. ASSUME NEW q \in Requests, Grant!JoinResources(q)
        PROVE  GrantInv'
    <2>1. PICK have \in SUBSET Auths : have = Grant!Linked(roles[q])
      BY LinkedAuths
    <2>2. /\ UNCHANGED <<authOn, link, grant, cached, roles, barred>>
          /\ resources' = [resources EXCEPT ![q] = have]
          /\ place' = [place EXCEPT ![q] = "cache"]
          /\ place[q] = "join"
      BY <1>2, <2>1 DEF Grant!JoinResources, Grant!Turn
    <2>3. SignIns'
      BY <2>2 DEF GrantInv, SignIns
    <2>4. have \cap barred = {}
      BY <2>1, <2>2 DEF GrantInv, NoneBarred
    <2>5. QED
      BY <2>2, <2>3, <2>4, SignInStep DEF GrantInv, SignIns, NoneBarred
  <1>3. ASSUME NEW q \in Requests, Grant!SetResources(q)
        PROVE  GrantInv'
    <2>1. /\ UNCHANGED <<authOn, link, grant, roles, resources, barred>>
          /\ cached' = resources[q]
          /\ place' = [place EXCEPT ![q] = "answer"]
          /\ place[q] = "cache"
      BY <1>3 DEF Grant!SetResources, Grant!Turn
    <2>2. SignIns'
      BY <2>1 DEF GrantInv, SignIns
    <2>3. cached' \cap barred = {}
      BY <2>1 DEF GrantInv, NoneBarred
    <2>4. QED
      BY <2>1, <2>2, <2>3, SignInStep DEF GrantInv, SignIns, NoneBarred
  <1>4. ASSUME NEW q \in Requests, Grant!AnswerCached(q)
        PROVE  GrantInv'
    <2>1. PICK have : have = IF cached = None THEN {} ELSE cached
      OBVIOUS
    <2>2. have \subseteq Auths
      BY <2>1 DEF GrantInv, SignIns
    <2>3. /\ UNCHANGED <<authOn, link, grant, cached, barred>>
          /\ resources' = [resources EXCEPT ![q] = have]
          /\ roles' = [roles EXCEPT ![q] = {}]
          /\ place' = [place EXCEPT ![q] = "idle"]
      BY <1>4, <2>1 DEF Grant!AnswerCached, Grant!Turn
    <2>4. SignIns'
      BY <2>2, <2>3 DEF GrantInv, SignIns
    <2>5. QED
      BY <2>3, <2>4, SignInStep DEF GrantInv, SignIns, NoneBarred
  <1>5. CASE Grant!DropResources
    <2>1. SignIns'
      BY <1>5 DEF Grant!DropResources, GrantInv, SignIns
    <2>2. QED
      BY <1>5, <2>1, SignInStep DEF Grant!DropResources, GrantInv, NoneBarred
  <1>6. CASE UNCHANGED granted
    <2>1. SignIns'
      BY <1>6 DEF granted, GrantInv, SignIns
    <2>2. QED
      BY <1>6, <2>1, SignInStep DEF granted, GrantInv, NoneBarred
  <1>7. QED
    BY <1>1, <1>2, <1>3, <1>4, <1>5, <1>6

LEMMA GrantStep == GrantInv /\ [Grant!GrantNext]_granted => GrantInv'
  BY AdminStep, SignInSteps DEF Grant!GrantNext

(* An answer is what the cache holds when it is given.                     *)
LEMMA AnswerClean ==
  ASSUME GrantInv, [Grant!GrantNext]_granted, NEW q \in Requests,
         place[q] = "answer", place'[q] = "idle"
  PROVE  resources'[q] \cap barred = {}
  <1>1. CASE \E p \in Requests : Grant!AnswerCached(p)
    <2>1. PICK p \in Requests :
             /\ resources' = [resources EXCEPT ![p] = IF cached = None THEN {} ELSE cached]
             /\ place' = [place EXCEPT ![p] = "idle"]
      BY <1>1 DEF Grant!AnswerCached, Grant!Turn
    <2>2. p = q
      BY <2>1 DEF GrantInv, SignIns
    <2>3. QED
      BY <2>1, <2>2 DEF GrantInv, SignIns, NoneBarred
  <1>2. CASE ~\E p \in Requests : Grant!AnswerCached(p)
    <2>1. CASE UNCHANGED place
      BY <2>1
    <2>2. CASE \E p \in Requests : \/ Grant!ReadRoles(p) \/ Grant!JoinResources(p)
                                   \/ Grant!SetResources(p)
      <3>1. PICK p \in Requests, to \in {"join", "cache", "answer"} :
               place' = [place EXCEPT ![p] = to]
        BY <2>2 DEF Grant!ReadRoles, Grant!JoinResources, Grant!SetResources, Grant!Turn
      <3>2. QED
        BY <3>1 DEF GrantInv, SignIns
    <2>3. QED
      BY <1>2, <2>1, <2>2 DEF Grant!GrantNext, granted, Grant!Noted, Grant!CreateAuth,
             Grant!UpdateAuth, Grant!CreateAuthRole, Grant!FrozenAuthRole,
             Grant!ReactiveAuthRole, Grant!CreateUserRole, Grant!UpdateUserRole,
             Grant!DropResources
  <1>3. QED
    BY <1>1, <1>2

(***************************************************************************)
(* A permission that was withdrawn before a sign-in began is not in its    *)
(* answer, through a cache that other sign-ins write meanwhile and no      *)
(* administrator's call clears.                                            *)
(***************************************************************************)
THEOREM WithdrawnAlwaysGone == AccessSpec => WithdrawnIsGone
  <1>1. AccessInit => GrantInv
    BY GrantInitInv DEF AccessInit
  <1>2. GrantInv /\ [AccessNext]_accessVars => GrantInv'
    BY GrantStep, Parts
  <1>3. GrantInv => Grant!GrantTypeOK
    BY GrantInvTyped
  <1>4. GrantInv /\ [AccessNext]_accessVars =>
           [\A q \in Requests : (place[q] = "answer" /\ place'[q] = "idle") =>
               resources'[q] \cap barred = {}]_(Grant!grantVars)
    BY AnswerClean, Parts
  <1>5. QED
    BY <1>1, <1>2, <1>3, <1>4, PTL DEF AccessSpec, WithdrawnIsGone, Grant!WithdrawnIsGone

(***************************************************************************)
(* The password lock.  A failure that is about to be counted was read      *)
(* short of the limit, so the count that is written reaches it at most.    *)
(***************************************************************************)
LockRow == [failures : 0..FailedTimes, locked : Lock!Locks]

LockPhases == {"idle", "compare", "in", "failed", "count"}

AtLimit(r) == r.failures = FailedTimes <=> r.locked # "never"

LockInv ==
    /\ active \in BOOLEAN /\ known \in BOOLEAN
    /\ row \in LockRow /\ AtLimit(row)
    /\ phase \in [Attempts -> LockPhases]
    /\ read \in [Attempts -> LockRow]
    /\ \A a \in Attempts : phase[a] = "count" => read[a].failures < FailedTimes

LEMMA LockInvSound == LockInv => Lock!LockTypeOK /\ Lock!LockedAtLimit
  BY DEF LockInv, LockRow, LockPhases, AtLimit, Lock!LockTypeOK, Lock!LockedAtLimit

LEMMA LockInitInv == Lock!LockInit => LockInv
  <1> SUFFICES ASSUME Lock!LockInit PROVE LockInv
    OBVIOUS
  <1>1. row \in LockRow /\ AtLimit(row)
    BY AccessAssumption DEF Lock!LockInit, LockRow, AtLimit, Lock!Locks
  <1>2. QED
    BY <1>1 DEF Lock!LockInit, LockInv, LockPhases

LEMMA CountedRow ==
  ASSUME NEW r \in LockRow, r.failures < FailedTimes
  PROVE  Lock!Counted(r) \in LockRow /\ AtLimit(Lock!Counted(r))
  <1>1. r.failures \in Nat /\ r.failures + 1 \in 0..FailedTimes
    BY AccessAssumption DEF LockRow
  <1>2. QED
    BY <1>1, AccessAssumption DEF LockRow, AtLimit, Lock!Counted, Lock!Locks

LEMMA LockStep == LockInv /\ [Lock!LockNext]_lock => LockInv'
  <1> SUFFICES ASSUME LockInv, [Lock!LockNext]_lock PROVE LockInv'
    OBVIOUS
  <1> USE DEF LockInv, LockPhases, Lock!Step
  <1>1. ASSUME NEW a \in Attempts, Lock!Begin(a) \/ Lock!Enter(a)
        PROVE  LockInv'
    BY <1>1 DEF Lock!Begin, Lock!Enter, AtLimit
  <1>2. ASSUME NEW a \in Attempts, NEW right \in BOOLEAN, Lock!Compare(a, right)
        PROVE  LockInv'
    <2>1. PICK to \in {"idle", "in", "failed"} : phase' = [phase EXCEPT ![a] = to]
      BY <1>2 DEF Lock!Compare
    <2>2. QED
      BY <1>2, <2>1 DEF Lock!Compare, AtLimit
  <1>3. ASSUME NEW a \in Attempts, Lock!FailRead(a)
        PROVE  LockInv'
    <2>1. PICK to \in {"idle", "count"} :
             /\ phase' = [phase EXCEPT ![a] = to]
             /\ to = "count" => ~(row.failures >= FailedTimes)
      BY <1>3 DEF Lock!FailRead
    <2>2. read' = [read EXCEPT ![a] = row] /\ UNCHANGED <<active, row, known>>
      BY <1>3 DEF Lock!FailRead
    <2>3. row.failures \in Nat /\ (to = "count" => row.failures < FailedTimes)
      BY <2>1, AccessAssumption DEF LockRow
    <2>4. QED
      BY <2>1, <2>2, <2>3 DEF AtLimit
  <1>4. ASSUME NEW a \in Attempts, Lock!FailCount(a)
        PROVE  LockInv'
    <2>1. PICK r \in LockRow : r = read[a] /\ r.failures < FailedTimes
      BY <1>4 DEF Lock!FailCount
    <2>2. PICK new : new = Lock!Counted(r)
      OBVIOUS
    <2>3. new \in LockRow /\ AtLimit(new) /\ row' = new
      BY <1>4, <2>1, <2>2, CountedRow DEF Lock!FailCount
    <2>4. QED
      BY <1>4, <2>3 DEF Lock!FailCount, AtLimit
  <1>5. CASE Lock!ResetPassword \/ Lock!SetStatus \/ UNCHANGED lock
    BY <1>5 DEF Lock!ResetPassword, Lock!SetStatus, lock, AtLimit
  <1>6. CASE Lock!NextDay
    <2>1. PICK new : new = [row EXCEPT !.locked = "earlier"]
      OBVIOUS
    <2>2. new \in LockRow /\ AtLimit(new) /\ row' = new
      BY <1>6, <2>1 DEF Lock!NextDay, LockRow, AtLimit, Lock!Locks
    <2>3. QED
      BY <1>6, <2>2 DEF Lock!NextDay, AtLimit
  <1>7. QED
    BY <1>1, <1>2, <1>3, <1>4, <1>5, <1>6 DEF Lock!LockNext

LEMMA LockLasts ==
  ASSUME LockInv, [Lock!LockNext]_lock, row.locked = "today",
         \A a \in Attempts : phase[a] \notin {"failed", "count", "in"}
  PROVE  \/ row'.locked = "earlier"
         \/ row' = row /\ \A a \in Attempts : phase'[a] # "in"
  <1> USE DEF LockInv, Lock!Step
  <1>1. ASSUME NEW a \in Attempts, NEW right \in BOOLEAN, Lock!Compare(a, right)
        PROVE  row' = row /\ \A b \in Attempts : phase'[b] # "in"
    BY <1>1 DEF Lock!Compare, Lock!LockedOut
  <1>2. CASE Lock!NextDay
    BY <1>2 DEF Lock!NextDay, LockRow
  <1>3. CASE ~Lock!NextDay /\ ~\E a \in Attempts, right \in BOOLEAN : Lock!Compare(a, right)
    <2>1. row' = row
      BY <1>3 DEF Lock!LockNext, lock, Lock!Begin, Lock!Enter, Lock!FailRead, Lock!FailCount,
                  Lock!ResetPassword, Lock!SetStatus
    <2>2. \/ UNCHANGED phase
          \/ \E a \in Attempts, to \in {"idle", "compare", "count"} :
                phase' = [phase EXCEPT ![a] = to]
      BY <1>3 DEF Lock!LockNext, lock, Lock!Begin, Lock!Enter, Lock!FailRead, Lock!FailCount,
                  Lock!ResetPassword, Lock!SetStatus
    <2>3. QED
      BY <2>1, <2>2
  <1>4. QED
    BY <1>1, <1>2, <1>3

(***************************************************************************)
(* Failures and lock date come together and stay together, and a lock      *)
(* holds out the day, although a failure is counted from a row read before *)
(* and two of them may overlap.                                            *)
(***************************************************************************)
THEOREM LockAlwaysSound == AccessSpec => LockSound
  <1>1. AccessInit => LockInv
    BY LockInitInv DEF AccessInit
  <1>2. LockInv /\ [AccessNext]_accessVars => LockInv'
    BY LockStep, Parts
  <1>3. LockInv => Lock!LockTypeOK /\ Lock!LockedAtLimit
    BY LockInvSound
  <1>4. LockInv /\ [AccessNext]_accessVars =>
           [(row.locked = "today" /\ \A a \in Attempts : phase[a] \notin {"failed", "count", "in"})
               => \/ row'.locked = "earlier"
                  \/ row' = row /\ \A a \in Attempts : phase'[a] # "in"]_(Lock!lockVars)
    BY LockLasts, Parts
  <1>5. QED
    BY <1>1, <1>2, <1>3, <1>4, PTL DEF AccessSpec, LockSound, Lock!LockLastsTheDay

(***************************************************************************)
(* SMS codes.  What has been sent and counted, by senders that are counted *)
(* themselves: those past the limits and those that have still to count.   *)
(***************************************************************************)
LEMMA SameCardinality == \A S : Sms!Cardinality(S) = Cardinality(S)
  BY DEF Sms!Cardinality, Cardinality

LEMMA MaxCodesNat == Sms!MaxCodes \in Nat
  <1>1. Cardinality(Senders) \in Nat
    BY FS_CardinalityType, AccessAssumption
  <1>2. QED
    BY <1>1, SameCardinality, AccessAssumption DEF Sms!MaxCodes

(* The senders of some kinds that are at some steps.                       *)
Sending(steps, kinds) == {s \in Senders : at[s] \in steps /\ job[s].kind \in kinds}

SmsSteps == {"idle", "take", "cooldown", "daily", "ip", "sms", "store", "spend", "find", "claim"}

JobType == [kind : Sms!Kinds, token : 0..MaxTokens, purpose : {"none"} \cup Sms!Purposes,
            code : 0..Sms!MaxCodes]

SmsKeys ==
    /\ token \in [Sms!Tokens -> {"new", "used"} \cup Sms!Kinds]
    /\ cooldown \in [Sms!Kinds -> BOOLEAN]
    /\ daily \in [Sms!Kinds -> Nat] /\ sent \in [Sms!Kinds -> Nat]
    /\ ipCount \in Nat
    /\ codes \in 0..Sms!MaxCodes
    /\ code \in 0..Sms!MaxCodes /\ dead \in BOOLEAN
    /\ holder \in {None, "created"} \cup Accounts

(* A message is counted when it was sent or by the sender about to, and    *)
(* whoever is past the check of the count was within it then.              *)
Counted ==
    /\ \A k \in Sms!Kinds :
          /\ sent[k] = daily[k] + Cardinality(Sending({"store"}, {k}))
          /\ sent[k] <= codes
          /\ Cardinality(Sending({"ip", "sms"}, {k})) + sent[k]
                <= DailyLimit + Cardinality(Senders) - 1
    /\ ipCount + Cardinality(Sending({"store"}, Sms!Kinds)) <= codes

SmsInv ==
    /\ SmsKeys
    /\ at \in [Senders -> SmsSteps]
    /\ job \in [Senders -> JobType]
    /\ Counted
    /\ Sms!UsedCodesDie

LEMMA SendingFinite ==
  ASSUME NEW steps, NEW kinds
  PROVE  /\ IsFiniteSet(Sending(steps, kinds))
         /\ Cardinality(Sending(steps, kinds)) \in Nat
         /\ Cardinality(Senders) \in Nat
  <1>1. Sending(steps, kinds) \in SUBSET Senders
    BY DEF Sending
  <1>2. IsFiniteSet(Sending(steps, kinds))
    BY <1>1, FS_Subset, AccessAssumption
  <1>3. QED
    BY <1>2, FS_CardinalityType, AccessAssumption

LEMMA SmsInvSound ==
  ASSUME SmsInv
  PROVE  Sms!SmsTypeOK /\ Sms!SmsLimited /\ Sms!UsedCodesDie
  <1>1. ASSUME NEW k \in Sms!Kinds
        PROVE  /\ sent[k] \in Nat /\ daily[k] \in Nat
               /\ sent[k] <= codes /\ daily[k] <= codes
               /\ sent[k] <= DailyLimit + Cardinality(Senders) - 1
    <2>1. /\ Cardinality(Sending({"store"}, {k})) \in Nat
          /\ Cardinality(Sending({"ip", "sms"}, {k})) \in Nat
          /\ Cardinality(Senders) \in Nat
      BY SendingFinite
    <2>2. QED
      BY <2>1, AccessAssumption DEF SmsInv, SmsKeys, Counted
  <1>2. Cardinality(Sending({"store"}, Sms!Kinds)) \in Nat
    BY SendingFinite
  <1>3. ipCount \in Nat /\ ipCount <= codes /\ codes \in 0..Sms!MaxCodes
    BY <1>2, MaxCodesNat DEF SmsInv, SmsKeys, Counted
  <1>4. ipCount \in 0..Sms!MaxCodes
    BY <1>3, MaxCodesNat
  <1>5. daily \in [Sms!Kinds -> 0..Sms!MaxCodes] /\ sent \in [Sms!Kinds -> 0..Sms!MaxCodes]
    <2>1. \A k \in Sms!Kinds : daily[k] \in 0..Sms!MaxCodes /\ sent[k] \in 0..Sms!MaxCodes
      BY <1>1, <1>3, MaxCodesNat
    <2>2. QED
      BY <2>1 DEF SmsInv, SmsKeys
  <1>6. Sms!SmsTypeOK
    BY <1>4, <1>5 DEF SmsInv, SmsKeys, SmsSteps, JobType, Sms!SmsTypeOK
  <1>7. Sms!SmsLimited
    BY <1>1, SameCardinality DEF Sms!SmsLimited
  <1>8. QED
    BY <1>6, <1>7 DEF SmsInv

LEMMA SmsInitInv == Sms!SmsInit => SmsInv
  <1> SUFFICES ASSUME Sms!SmsInit PROVE SmsInv
    OBVIOUS
  <1>1. Sms!NoJob \in JobType
    BY MaxCodesNat, AccessAssumption DEF Sms!NoJob, JobType, Sms!Kinds
  <1>2. SmsKeys
    <2>1. 0 \in 0..Sms!MaxCodes
      BY MaxCodesNat
    <2>2. QED
      BY <2>1 DEF Sms!SmsInit, SmsKeys
  <1>3. \A kinds : Sending({"store"}, kinds) = {} /\ Sending({"ip", "sms"}, kinds) = {}
    BY DEF Sms!SmsInit, Sending
  <1>4. Counted
    BY <1>3, FS_EmptySet, SendingFinite, AccessAssumption DEF Sms!SmsInit, Counted
  <1>5. QED
    BY <1>1, <1>2, <1>4 DEF Sms!SmsInit, SmsInv, SmsSteps, Sms!UsedCodesDie

(* What a step of one sender does to a count of senders.                   *)
LEMMA CountMoves ==
  ASSUME SmsInv, NEW s \in Senders, NEW to, NEW j, Sms!To(s, to, j), NEW steps, NEW kinds
  PROVE  LET was == at[s] \in steps /\ job[s].kind \in kinds
             now == to \in steps /\ j.kind \in kinds
             n   == Cardinality(Sending(steps, kinds))
         IN  Cardinality(Sending(steps, kinds)') =
                IF now THEN (IF was THEN n ELSE n + 1) ELSE (IF was THEN n - 1 ELSE n)
  <1>1. PICK old : old = Sending(steps, kinds)
    OBVIOUS
  <1>2. IsFiniteSet(old) /\ (s \in old <=> at[s] \in steps /\ job[s].kind \in kinds)
    BY <1>1, SendingFinite DEF Sending
  <1>3. CASE to \in steps /\ j.kind \in kinds
    <2>1. Sending(steps, kinds)' = old \cup {s}
      BY <1>1, <1>3 DEF Sending, Sms!To, SmsInv
    <2>2. QED
      BY <1>1, <1>2, <1>3, <2>1, FS_AddElement
  <1>4. CASE ~(to \in steps /\ j.kind \in kinds)
    <2>1. Sending(steps, kinds)' = old \ {s}
      BY <1>1, <1>4 DEF Sending, Sms!To, SmsInv
    <2>2. QED
      BY <1>1, <1>2, <1>4, <2>1, FS_RemoveElement
  <1>5. QED
    BY <1>3, <1>4

LEMMA SenderStep ==
  ASSUME SmsInv, NEW s \in Senders, NEW to \in SmsSteps, NEW j \in JobType, Sms!To(s, to, j),
         SmsKeys', Counted', Sms!UsedCodesDie'
  PROVE  SmsInv'
  BY DEF SmsInv, Sms!To

(* A step that sends and counts nothing, and passes no limit.              *)
LEMMA CalmCount ==
  ASSUME SmsInv, NEW s \in Senders, NEW to, NEW j, Sms!To(s, to, j),
         UNCHANGED <<daily, ipCount, sent, codes>>,
         at[s] # "store", to # "store",
         to \in {"ip", "sms"} => at[s] \in {"ip", "sms"} /\ j.kind = job[s].kind
  PROVE  Counted'
  <1>1. \A kinds : Cardinality(Sending({"store"}, kinds)') = Cardinality(Sending({"store"}, kinds))
    BY CountMoves
  <1>2. \A k : Cardinality(Sending({"ip", "sms"}, {k})') <= Cardinality(Sending({"ip", "sms"}, {k}))
    <2> TAKE k
    <2>1. Cardinality(Sending({"ip", "sms"}, {k})) \in Nat
      BY SendingFinite
    <2>2. QED
      BY <2>1, CountMoves
  <1>3. ASSUME NEW k \in Sms!Kinds
        PROVE  Cardinality(Sending({"ip", "sms"}, {k})') + sent[k]
                  <= DailyLimit + Cardinality(Senders) - 1
    <2>1. /\ Cardinality(Sending({"ip", "sms"}, {k})) \in Nat
          /\ Cardinality(Sending({"ip", "sms"}, {k})') \in Int
          /\ Cardinality(Senders) \in Nat
          /\ sent[k] \in Nat
      BY SendingFinite, CountMoves DEF SmsInv, SmsKeys
    <2>2. Cardinality(Sending({"ip", "sms"}, {k})) + sent[k]
             <= DailyLimit + Cardinality(Senders) - 1
      BY DEF SmsInv, Counted
    <2>3. Cardinality(Sending({"ip", "sms"}, {k})') <= Cardinality(Sending({"ip", "sms"}, {k}))
      BY <1>2
    <2>4. QED
      BY <2>1, <2>2, <2>3, AccessAssumption
  <1>4. QED
    BY <1>1, <1>3 DEF SmsInv, Counted

(* A step that sends nothing, and leaves what the limits are counted by.   *)
LEMMA CalmStep ==
  ASSUME SmsInv, NEW s \in Senders, NEW to \in SmsSteps, NEW j \in JobType, Sms!To(s, to, j),
         UNCHANGED <<cooldown, daily, ipCount, sent, codes>>,
         token' \in [Sms!Tokens -> {"new", "used"} \cup Sms!Kinds],
         code' \in {0, code}, dead' \in BOOLEAN, dead' => code' = 0,
         holder' \in {None, "created"} \cup Accounts,
         at[s] # "store", to # "store",
         to \in {"ip", "sms"} => at[s] \in {"ip", "sms"} /\ j.kind = job[s].kind
  PROVE  SmsInv'
  <1>1. Counted'
    BY CalmCount
  <1>2. SmsKeys'
    BY MaxCodesNat DEF SmsInv, SmsKeys
  <1>3. QED
    BY <1>1, <1>2, SenderStep DEF Sms!UsedCodesDie

LEMMA NoJobTyped == Sms!NoJob \in JobType
  BY MaxCodesNat, AccessAssumption DEF Sms!NoJob, JobType, Sms!Kinds

LEMMA JobParts ==
  ASSUME SmsInv, NEW s \in Senders
  PROVE  /\ job[s] \in JobType
         /\ job[s].kind \in Sms!Kinds
         /\ job[s].code \in 0..Sms!MaxCodes
  BY DEF SmsInv, JobType

(* What a step that calls nothing but Redis or the phone column leaves.    *)
LEMMA Unmoved ==
  ASSUME SmsInv, UNCHANGED <<token, cooldown, daily, ipCount, sent, codes>>
  PROVE  /\ token' \in [Sms!Tokens -> {"new", "used"} \cup Sms!Kinds]
         /\ UNCHANGED <<cooldown, daily, ipCount, sent, codes>>
         /\ holder \in {None, "created"} \cup Accounts
         /\ dead \in BOOLEAN
         /\ dead => code = 0
  BY DEF SmsInv, SmsKeys, Sms!UsedCodesDie

LEMMA TokenStep ==
  ASSUME SmsInv, NEW s \in Senders,
         (\E t \in Sms!Tokens : Sms!TokenRead(s, t)) \/ Sms!TokenTake(s)
  PROVE  SmsInv'
  <1>1. ASSUME NEW t \in Sms!Tokens, Sms!TokenRead(s, t)
        PROVE  SmsInv'
    <2>1. PICK kind \in Sms!Kinds : kind = token[t]
      BY <1>1 DEF Sms!TokenRead
    <2>2. PICK j : j = [Sms!NoJob EXCEPT !.kind = kind, !.token = t]
      OBVIOUS
    <2>3. j = [kind |-> kind, token |-> t, purpose |-> "none", code |-> 0]
      BY <2>2 DEF Sms!NoJob
    <2>4. j \in JobType
      BY <2>3, MaxCodesNat, AccessAssumption DEF JobType, Sms!Tokens
    <2>5. Sms!To(s, "take", j) /\ at[s] = "idle"
      BY <1>1, <2>1, <2>2 DEF Sms!TokenRead
    <2>6. UNCHANGED <<token, cooldown, daily, ipCount, sent, codes, code, holder, dead>>
      BY <1>1 DEF Sms!TokenRead, Sms!limits
    <2>7. QED
      BY <2>4, <2>5, <2>6, Unmoved, CalmStep DEF SmsSteps
  <1>2. CASE Sms!TokenTake(s)
    <2>1. PICK j \in JobType : j = job[s]
      BY JobParts
    <2>2. Sms!To(s, "cooldown", j) /\ at[s] = "take"
      BY <1>2, <2>1 DEF Sms!TokenTake, Sms!On
    <2>3. token' \in [Sms!Tokens -> {"new", "used"} \cup Sms!Kinds]
      BY <1>2 DEF Sms!TokenTake, SmsInv, SmsKeys
    <2>4. QED
      BY <1>2, <2>1, <2>2, <2>3, CalmStep
         DEF Sms!TokenTake, SmsSteps, SmsInv, SmsKeys, Sms!UsedCodesDie
  <1>3. QED
    BY <1>1, <1>2

LEMMA CheckStep ==
  ASSUME SmsInv, NEW s \in Senders, Sms!CooldownCheck(s) \/ Sms!IpCheck(s)
  PROVE  SmsInv'
  <1>1. PICK j \in JobType : j = job[s]
    BY JobParts
  <1>2. /\ at[s] \in {"cooldown", "ip"}
        /\ UNCHANGED <<token, cooldown, daily, ipCount, sent, codes, code, holder, dead>>
    BY DEF Sms!CooldownCheck, Sms!IpCheck, Sms!limits
  <1>3. \/ Sms!To(s, "idle", Sms!NoJob)
        \/ at[s] = "cooldown" /\ Sms!To(s, "daily", j)
        \/ at[s] = "ip" /\ Sms!To(s, "sms", j)
    BY <1>1 DEF Sms!CooldownCheck, Sms!IpCheck, Sms!On, Sms!End
  <1>4. CASE Sms!To(s, "idle", Sms!NoJob)
    BY <1>2, <1>4, NoJobTyped, Unmoved, CalmStep DEF SmsSteps
  <1>5. CASE at[s] = "cooldown" /\ Sms!To(s, "daily", j)
    BY <1>2, <1>5, Unmoved, CalmStep DEF SmsSteps
  <1>6. CASE at[s] = "ip" /\ Sms!To(s, "sms", j)
    BY <1>1, <1>2, <1>6, Unmoved, CalmStep DEF SmsSteps
  <1>7. QED
    BY <1>3, <1>4, <1>5, <1>6

(* Who is within the limit is one of the senders, beside those that are    *)
(* past the check and those whose message is not counted yet.              *)
LEMMA WithinLimit ==
  ASSUME SmsInv, NEW s \in Senders, at[s] = "daily", NEW k \in Sms!Kinds, daily[k] < DailyLimit
  PROVE  Cardinality(Sending({"ip", "sms"}, {k})) + sent[k] + 1
            <= DailyLimit + Cardinality(Senders) - 1
  <1>1. PICK P, Q : P = Sending({"ip", "sms"}, {k}) /\ Q = Sending({"store"}, {k})
    OBVIOUS
  <1>2. /\ IsFiniteSet(P) /\ IsFiniteSet(Q)
        /\ Cardinality(P) \in Nat /\ Cardinality(Q) \in Nat /\ Cardinality(Senders) \in Nat
    BY <1>1, SendingFinite
  <1>3. P \cap Q = {} /\ s \notin P \cup Q /\ P \cup Q \cup {s} \subseteq Senders
    BY <1>1 DEF Sending
  <1>4. IsFiniteSet(P \cup Q) /\ Cardinality(P \cup Q) = Cardinality(P) + Cardinality(Q)
    BY <1>2, <1>3, FS_Union, FS_EmptySet
  <1>5. Cardinality(P \cup Q \cup {s}) = Cardinality(P) + Cardinality(Q) + 1
    BY <1>3, <1>4, FS_AddElement
  <1>6. Cardinality(P) + Cardinality(Q) + 1 <= Cardinality(Senders)
    BY <1>3, <1>5, FS_Subset, AccessAssumption
  <1>7. sent[k] = daily[k] + Cardinality(Q) /\ daily[k] \in Nat
    BY <1>1 DEF SmsInv, SmsKeys, Counted
  <1>8. QED
    BY <1>1, <1>2, <1>6, <1>7, AccessAssumption

LEMMA DailyCheckStep ==
  ASSUME SmsInv, NEW s \in Senders, Sms!DailyCheck(s)
  PROVE  SmsInv'
  <1>1. PICK j \in JobType : j = job[s] /\ j.kind \in Sms!Kinds
    BY JobParts
  <1>2. /\ at[s] = "daily"
        /\ UNCHANGED <<token, cooldown, daily, ipCount, sent, codes, code, holder, dead>>
    BY DEF Sms!DailyCheck, Sms!limits
  <1>3. CASE Sms!End(s)
    BY <1>2, <1>3, NoJobTyped, Unmoved, CalmStep DEF Sms!End, SmsSteps
  <1>4. CASE Sms!WithinDaily(j.kind) /\ Sms!To(s, "ip", j)
    <2>1. \A kinds : Cardinality(Sending({"store"}, kinds)') = Cardinality(Sending({"store"}, kinds))
      BY <1>2, <1>4, CountMoves
    <2>2. ASSUME NEW k \in Sms!Kinds
          PROVE  Cardinality(Sending({"ip", "sms"}, {k})') + sent[k]
                    <= DailyLimit + Cardinality(Senders) - 1
      <3>1. CASE k = j.kind
        <4>1. Cardinality(Sending({"ip", "sms"}, {k})') = Cardinality(Sending({"ip", "sms"}, {k})) + 1
          BY <1>2, <1>4, <3>1, CountMoves
        <4>2. Cardinality(Sending({"ip", "sms"}, {k})) + sent[k] + 1
                 <= DailyLimit + Cardinality(Senders) - 1
          BY <1>2, <1>4, <3>1, WithinLimit DEF Sms!WithinDaily
        <4>3. Cardinality(Sending({"ip", "sms"}, {k})) \in Nat /\ sent[k] \in Nat
          BY SendingFinite DEF SmsInv, SmsKeys
        <4>4. QED
          BY <4>1, <4>2, <4>3
      <3>2. CASE k # j.kind
        <4>1. Cardinality(Sending({"ip", "sms"}, {k})') = Cardinality(Sending({"ip", "sms"}, {k}))
          BY <1>1, <1>2, <1>4, <3>2, CountMoves
        <4>2. QED
          BY <4>1 DEF SmsInv, Counted
      <3>3. QED
        BY <3>1, <3>2
    <2>3. Counted'
      BY <1>2, <2>1, <2>2 DEF SmsInv, Counted
    <2>4. SmsKeys' /\ Sms!UsedCodesDie'
      BY <1>2 DEF SmsInv, SmsKeys, Sms!UsedCodesDie
    <2>5. QED
      BY <1>4, <2>3, <2>4, SenderStep DEF SmsSteps
  <1>5. QED
    BY <1>1, <1>3, <1>4 DEF Sms!DailyCheck, Sms!On

(* A message is sent: one more that is not counted yet.                    *)
LEMMA SendSmsStep ==
  ASSUME SmsInv, NEW s \in Senders, Sms!SendSms(s)
  PROVE  SmsInv'
  <1>1. PICK old \in JobType : old = job[s] /\ old.kind \in Sms!Kinds
    BY JobParts
  <1>2. /\ at[s] = "sms"
        /\ UNCHANGED <<token, cooldown, daily, ipCount, code, holder, dead>>
    BY DEF Sms!SendSms
  <1>3. CASE Sms!End(s) /\ UNCHANGED <<sent, codes>>
    BY <1>2, <1>3, NoJobTyped, Unmoved, CalmStep DEF Sms!End, SmsSteps
  <1>4. CASE /\ codes < Sms!MaxCodes
             /\ codes' = codes + 1
             /\ sent' = [sent EXCEPT ![old.kind] = @ + 1]
             /\ Sms!To(s, "store", [old EXCEPT !.code = codes'])
    <2>1. PICK n \in 0..Sms!MaxCodes : n = codes'
      BY <1>4, MaxCodesNat DEF SmsInv, SmsKeys
    <2>2. PICK j : j = [old EXCEPT !.code = n]
      OBVIOUS
    <2>3. j \in JobType /\ j.kind = old.kind
      BY <1>1, <2>2 DEF JobType
    <2>4. Sms!To(s, "store", j)
      BY <1>4, <2>1, <2>2
    <2>5. codes \in Nat /\ sent \in [Sms!Kinds -> Nat] /\ sent[old.kind] \in Nat
      BY <1>1, MaxCodesNat DEF SmsInv, SmsKeys
    <2>6. ASSUME NEW k \in Sms!Kinds
          PROVE  /\ sent'[k] = daily[k] + Cardinality(Sending({"store"}, {k})')
                 /\ sent'[k] <= codes'
                 /\ Cardinality(Sending({"ip", "sms"}, {k})') + sent'[k]
                       <= DailyLimit + Cardinality(Senders) - 1
      <3>1. /\ Cardinality(Sending({"store"}, {k})) \in Nat
            /\ Cardinality(Sending({"ip", "sms"}, {k})) \in Nat
            /\ sent[k] \in Nat /\ daily[k] \in Nat
        BY SendingFinite DEF SmsInv, SmsKeys
      <3>2. /\ sent[k] = daily[k] + Cardinality(Sending({"store"}, {k}))
            /\ sent[k] <= codes
            /\ Cardinality(Sending({"ip", "sms"}, {k})) + sent[k]
                  <= DailyLimit + Cardinality(Senders) - 1
        BY DEF SmsInv, Counted
      <3>3. CASE k = old.kind
        <4>1. sent'[k] = sent[k] + 1
          BY <1>4, <2>5, <3>3
        <4>2. Cardinality(Sending({"store"}, {k})') = Cardinality(Sending({"store"}, {k})) + 1
          BY <1>2, <2>3, <2>4, <3>3, CountMoves
        <4>3. Cardinality(Sending({"ip", "sms"}, {k})') = Cardinality(Sending({"ip", "sms"}, {k})) - 1
          BY <1>1, <1>2, <2>4, <3>3, CountMoves
        <4>4. QED
          BY <1>4, <2>5, <3>1, <3>2, <4>1, <4>2, <4>3
      <3>4. CASE k # old.kind
        <4>1. sent'[k] = sent[k]
          BY <1>4, <2>5, <3>4
        <4>2. /\ Cardinality(Sending({"store"}, {k})') = Cardinality(Sending({"store"}, {k}))
              /\ Cardinality(Sending({"ip", "sms"}, {k})') = Cardinality(Sending({"ip", "sms"}, {k}))
          BY <1>1, <2>3, <2>4, <3>4, CountMoves
        <4>3. QED
          BY <1>4, <2>5, <3>1, <3>2, <4>1, <4>2
      <3>5. QED
        BY <3>3, <3>4
    <2>7. ipCount + Cardinality(Sending({"store"}, Sms!Kinds)') <= codes'
      <3>1. Cardinality(Sending({"store"}, Sms!Kinds)') = Cardinality(Sending({"store"}, Sms!Kinds)) + 1
        BY <1>1, <1>2, <2>3, <2>4, CountMoves
      <3>2. /\ Cardinality(Sending({"store"}, Sms!Kinds)) \in Nat /\ ipCount \in Nat
            /\ ipCount + Cardinality(Sending({"store"}, Sms!Kinds)) <= codes
        BY SendingFinite DEF SmsInv, SmsKeys, Counted
      <3>3. QED
        BY <1>4, <2>5, <3>1, <3>2
    <2>8. Counted'
      BY <1>2, <2>6, <2>7 DEF Counted, Sms!Kinds
    <2>9. SmsKeys' /\ Sms!UsedCodesDie'
      BY <1>1, <1>2, <1>4, <2>1, <2>5 DEF SmsInv, SmsKeys, Sms!UsedCodesDie
    <2>10. QED
      BY <2>3, <2>4, <2>8, <2>9, SenderStep DEF SmsSteps
  <1>5. QED
    BY <1>1, <1>3, <1>4 DEF Sms!SendSms

(* The pipeline counts the message, and its sender is done.                *)
LEMMA StoreCodeStep ==
  ASSUME SmsInv, NEW s \in Senders, Sms!StoreCode(s)
  PROVE  SmsInv'
  <1>1. PICK old \in JobType : old = job[s] /\ old.kind \in Sms!Kinds /\ old.code \in 0..Sms!MaxCodes
    BY JobParts
  <1>2. PICK j \in JobType : j = Sms!NoJob
    BY NoJobTyped
  <1>3. /\ at[s] = "store" /\ Sms!To(s, "idle", j)
        /\ code' = old.code
        /\ cooldown' = [cooldown EXCEPT ![old.kind] = TRUE]
        /\ daily' = [daily EXCEPT ![old.kind] = @ + 1]
        /\ ipCount' = ipCount + 1
        /\ dead' = FALSE
        /\ UNCHANGED <<token, holder, sent, codes>>
    BY <1>1, <1>2 DEF Sms!StoreCode, Sms!End
  <1>4. daily \in [Sms!Kinds -> Nat] /\ ipCount \in Nat
    BY DEF SmsInv, SmsKeys
  <1>5. ASSUME NEW k \in Sms!Kinds
        PROVE  /\ sent[k] = daily'[k] + Cardinality(Sending({"store"}, {k})')
               /\ Cardinality(Sending({"ip", "sms"}, {k})') = Cardinality(Sending({"ip", "sms"}, {k}))
    <2>1. Cardinality(Sending({"store"}, {k})) \in Nat /\ daily[k] \in Nat
      BY <1>4, SendingFinite
    <2>2. sent[k] = daily[k] + Cardinality(Sending({"store"}, {k}))
      BY DEF SmsInv, Counted
    <2>3. Cardinality(Sending({"ip", "sms"}, {k})') = Cardinality(Sending({"ip", "sms"}, {k}))
      BY <1>3, CountMoves
    <2>4. CASE k = old.kind
      <3>1. Cardinality(Sending({"store"}, {k})') = Cardinality(Sending({"store"}, {k})) - 1
        BY <1>1, <1>3, <2>4, CountMoves
      <3>2. QED
        BY <1>3, <1>4, <2>1, <2>2, <2>3, <2>4, <3>1
    <2>5. CASE k # old.kind
      <3>1. Cardinality(Sending({"store"}, {k})') = Cardinality(Sending({"store"}, {k}))
        BY <1>1, <1>3, <2>5, CountMoves
      <3>2. QED
        BY <1>3, <1>4, <2>2, <2>3, <2>5, <3>1
    <2>6. QED
      BY <2>4, <2>5
  <1>6. ipCount' + Cardinality(Sending({"store"}, Sms!Kinds)') <= codes
    <2>1. Cardinality(Sending({"store"}, Sms!Kinds)') = Cardinality(Sending({"store"}, Sms!Kinds)) - 1
      BY <1>1, <1>3, CountMoves
    <2>2. /\ Cardinality(Sending({"store"}, Sms!Kinds)) \in Nat
          /\ ipCount + Cardinality(Sending({"store"}, Sms!Kinds)) <= codes
          /\ codes \in Nat
      BY SendingFinite, MaxCodesNat DEF SmsInv, SmsKeys, Counted
    <2>3. QED
      BY <1>3, <1>4, <2>1, <2>2
  <1>7. Counted'
    BY <1>3, <1>5, <1>6 DEF SmsInv, Counted, Sms!Kinds
  <1>8. daily' \in [Sms!Kinds -> Nat] /\ cooldown' \in [Sms!Kinds -> BOOLEAN]
    BY <1>1, <1>3, <1>4 DEF SmsInv, SmsKeys
  <1>9. ipCount' \in Nat /\ code' \in 0..Sms!MaxCodes /\ dead' \in BOOLEAN
    <2>1. ipCount' \in Nat
      BY <1>3, <1>4
    <2>2. code' \in 0..Sms!MaxCodes
      BY <1>1, <1>3, Zenon
    <2>3. dead' \in BOOLEAN
      BY <1>3, Zenon
    <2>4. QED
      BY <2>1, <2>2, <2>3
  <1>10. SmsKeys'
    <2>1. Sms!Kinds' = Sms!Kinds /\ Sms!Tokens' = Sms!Tokens /\ Sms!MaxCodes' = Sms!MaxCodes
      BY DEF Sms!Kinds, Sms!Tokens, Sms!MaxCodes
    <2>2. QED
      BY <1>3, <1>8, <1>9, <2>1 DEF SmsInv, SmsKeys
  <1>11. Sms!UsedCodesDie'
    BY <1>3 DEF Sms!UsedCodesDie
  <1>12. QED
    BY <1>3, <1>7, <1>10, <1>11, SenderStep DEF SmsInv, SmsSteps

(***************************************************************************)
(* The check of a code, and what it was for.                               *)
(***************************************************************************)
LEMMA VerifyStep ==
  ASSUME SmsInv, NEW s \in Senders,
         (\E p \in Sms!Purposes : Sms!VerifyRead(s, p)) \/ Sms!VerifySpend(s)
  PROVE  SmsInv'
  <1>1. ASSUME NEW p \in Sms!Purposes, Sms!VerifyRead(s, p)
        PROVE  SmsInv'
    <2>1. PICK n \in 0..Sms!MaxCodes : n = code
      BY DEF SmsInv, SmsKeys
    <2>2. PICK j : j = [Sms!NoJob EXCEPT !.purpose = p, !.code = n]
      OBVIOUS
    <2>3. j = [kind |-> "register", token |-> 0, purpose |-> p, code |-> n]
      BY <2>2 DEF Sms!NoJob
    <2>4. j \in JobType
      BY <2>3, AccessAssumption DEF JobType, Sms!Kinds
    <2>5. Sms!To(s, "spend", j) /\ at[s] = "idle"
      BY <1>1, <2>1, <2>2 DEF Sms!VerifyRead
    <2>6. UNCHANGED <<token, cooldown, daily, ipCount, sent, codes, code, holder, dead>>
      BY <1>1 DEF Sms!VerifyRead, Sms!limits
    <2>7. QED
      BY <2>4, <2>5, <2>6, Unmoved, CalmStep DEF SmsSteps
  <1>2. CASE Sms!VerifySpend(s)
    <2>1. PICK j \in JobType : j = job[s]
      BY JobParts
    <2>2. (dead \/ code = j.code) \in BOOLEAN
      BY SMT
    <2>3. /\ Sms!To(s, "find", j) /\ at[s] = "spend"
          /\ code' = 0 /\ dead' = (dead \/ code = j.code)
          /\ UNCHANGED <<token, cooldown, daily, ipCount, sent, codes, holder>>
      BY <1>2, <2>1 DEF Sms!VerifySpend, Sms!On, Sms!limits
    <2>4. dead' \in BOOLEAN
      BY <2>2, <2>3, Zenon
    <2>5. QED
      BY <2>3, <2>4, Unmoved, CalmStep DEF SmsSteps
  <1>3. QED
    BY <1>1, <1>2

LEMMA HolderTyped ==
  ASSUME SmsInv, NEW s \in Senders, Sms!ClaimPhone(s)
  PROVE  /\ holder' \in {None, "created"} \cup Accounts
         /\ holder # None => holder' = holder
  <1>1. PICK u : u = IF job[s].purpose \in Accounts THEN job[s].purpose ELSE "created"
    OBVIOUS
  <1>2. u \in {"created"} \cup Accounts
    BY <1>1
  <1>3. holder' = IF holder \in {None, u} THEN u ELSE holder
    BY <1>1 DEF Sms!ClaimPhone, Sms!PhoneFree
  <1>4. QED
    BY <1>2, <1>3 DEF SmsInv, SmsKeys

LEMMA HolderStep ==
  ASSUME SmsInv, NEW s \in Senders, Sms!FindHolder(s) \/ Sms!ClaimPhone(s)
  PROVE  SmsInv'
  <1>1. PICK j \in JobType : j = job[s]
    BY JobParts
  <1>2. CASE Sms!FindHolder(s)
    <2>1. /\ at[s] = "find"
          /\ UNCHANGED <<token, cooldown, daily, ipCount, sent, codes, code, holder, dead>>
      BY <1>2 DEF Sms!FindHolder, Sms!limits
    <2>2. Sms!To(s, "claim", j) \/ Sms!To(s, "idle", Sms!NoJob)
      BY <1>1, <1>2 DEF Sms!FindHolder, Sms!On, Sms!End
    <2>3. QED
      BY <2>1, <2>2, NoJobTyped, Unmoved, CalmStep DEF SmsSteps
  <1>3. CASE Sms!ClaimPhone(s)
    <2>1. /\ at[s] = "claim" /\ Sms!To(s, "idle", Sms!NoJob)
          /\ UNCHANGED <<token, cooldown, daily, ipCount, sent, codes, code, dead>>
      BY <1>3 DEF Sms!ClaimPhone, Sms!End, Sms!limits
    <2>2. holder' \in {None, "created"} \cup Accounts
      BY <1>3, HolderTyped
    <2>3. QED
      BY <2>1, <2>2, NoJobTyped, Unmoved, CalmStep DEF SmsSteps
  <1>4. QED
    BY <1>2, <1>3

(* A token issued, a key that lapses, a holder who leaves.                 *)
LEMMA SmsOutsideStep ==
  ASSUME SmsInv, \/ \E t \in Sms!Tokens, k \in Sms!Kinds : Sms!IssueToken(t, k)
                 \/ \E k \in Sms!Kinds : Sms!CooldownLapse(k)
                 \/ Sms!CodeLapse
                 \/ Sms!HolderLeaves
                 \/ UNCHANGED sms
  PROVE  SmsInv'
  <1>1. UNCHANGED <<daily, ipCount, sent, codes, at, job, dead>>
    BY DEF Sms!IssueToken, Sms!CooldownLapse, Sms!CodeLapse, Sms!HolderLeaves, Sms!limits, sms
  <1>2. Counted'
    <2>1. \A steps, kinds : Sending(steps, kinds)' = Sending(steps, kinds)
      BY <1>1 DEF Sending
    <2>2. QED
      BY <1>1, <2>1 DEF SmsInv, Counted, Sms!Kinds
  <1>3. /\ token' \in [Sms!Tokens -> {"new", "used"} \cup Sms!Kinds]
        /\ cooldown' \in [Sms!Kinds -> BOOLEAN]
        /\ holder' \in {None, "created"} \cup Accounts
        /\ code' \in {0, code}
    BY DEF Sms!IssueToken, Sms!CooldownLapse, Sms!CodeLapse, Sms!HolderLeaves, Sms!limits, sms,
           SmsInv, SmsKeys
  <1>4. SmsKeys' /\ Sms!UsedCodesDie'
    BY <1>1, <1>3, MaxCodesNat DEF SmsInv, SmsKeys, Sms!UsedCodesDie
  <1>5. QED
    BY <1>1, <1>2, <1>4 DEF SmsInv

LEMMA SmsStep == SmsInv /\ [Sms!SmsNext]_sms => SmsInv'
  <1> SUFFICES ASSUME SmsInv, [Sms!SmsNext]_sms PROVE SmsInv'
    OBVIOUS
  <1>1. CASE \/ \E t \in Sms!Tokens, k \in Sms!Kinds : Sms!IssueToken(t, k)
             \/ \E k \in Sms!Kinds : Sms!CooldownLapse(k)
             \/ Sms!CodeLapse
             \/ Sms!HolderLeaves
             \/ UNCHANGED sms
    BY <1>1, SmsOutsideStep
  <1>2. ASSUME NEW s \in Senders, (\E t \in Sms!Tokens : Sms!TokenRead(s, t)) \/ Sms!TokenTake(s)
        PROVE  SmsInv'
    BY <1>2, TokenStep
  <1>3. ASSUME NEW s \in Senders, Sms!CooldownCheck(s) \/ Sms!IpCheck(s)
        PROVE  SmsInv'
    BY <1>3, CheckStep
  <1>4. ASSUME NEW s \in Senders, Sms!DailyCheck(s)
        PROVE  SmsInv'
    BY <1>4, DailyCheckStep
  <1>5. ASSUME NEW s \in Senders, Sms!SendSms(s)
        PROVE  SmsInv'
    BY <1>5, SendSmsStep
  <1>6. ASSUME NEW s \in Senders, Sms!StoreCode(s)
        PROVE  SmsInv'
    BY <1>6, StoreCodeStep
  <1>7. ASSUME NEW s \in Senders,
               (\E p \in Sms!Purposes : Sms!VerifyRead(s, p)) \/ Sms!VerifySpend(s)
        PROVE  SmsInv'
    BY <1>7, VerifyStep
  <1>8. ASSUME NEW s \in Senders, Sms!FindHolder(s) \/ Sms!ClaimPhone(s)
        PROVE  SmsInv'
    BY <1>8, HolderStep
  <1>9. QED
    BY <1>1, <1>2, <1>3, <1>4, <1>5, <1>6, <1>7, <1>8 DEF Sms!SmsNext

LEMMA PhoneStays ==
  SmsInv /\ [Sms!SmsNext]_sms
    => [holder # None => holder' \in {None, holder}]_(Sms!smsVars)
  <1> SUFFICES ASSUME SmsInv, [Sms!SmsNext]_sms, holder # None
               PROVE  holder' \in {None, holder}
    BY DEF Sms!smsVars, sms
  <1>1. ASSUME NEW s \in Senders, Sms!ClaimPhone(s)
        PROVE  holder' = holder
    BY <1>1, HolderTyped
  <1>2. CASE Sms!HolderLeaves
    BY <1>2 DEF Sms!HolderLeaves
  <1>3. CASE \/ \E t \in Sms!Tokens, k \in Sms!Kinds : Sms!IssueToken(t, k)
             \/ \E k \in Sms!Kinds : Sms!CooldownLapse(k)
             \/ Sms!CodeLapse
             \/ UNCHANGED sms
    BY <1>3 DEF Sms!IssueToken, Sms!CooldownLapse, Sms!CodeLapse, Sms!limits, sms
  <1>4. ASSUME NEW s \in Senders,
               \/ \E t \in Sms!Tokens : Sms!TokenRead(s, t)
               \/ Sms!TokenTake(s) \/ Sms!CooldownCheck(s) \/ Sms!DailyCheck(s) \/ Sms!IpCheck(s)
               \/ Sms!SendSms(s) \/ Sms!StoreCode(s)
               \/ \E p \in Sms!Purposes : Sms!VerifyRead(s, p)
               \/ Sms!VerifySpend(s) \/ Sms!FindHolder(s)
        PROVE  holder' = holder
    BY <1>4 DEF Sms!TokenRead, Sms!TokenTake, Sms!CooldownCheck, Sms!DailyCheck, Sms!IpCheck,
                Sms!SendSms, Sms!StoreCode, Sms!VerifyRead, Sms!VerifySpend, Sms!FindHolder, Sms!limits
  <1>5. QED
    BY <1>1, <1>2, <1>3, <1>4 DEF Sms!SmsNext

(***************************************************************************)
(* A day's messages pass the limit by no more than the requests that were  *)
(* in flight together, whatever their awaits interleave; a code that       *)
(* passed a check never passes another; and the phone a sign-up, a login   *)
(* and a binding all want goes to one of them.                             *)
(***************************************************************************)
THEOREM SmsAlwaysSound == AccessSpec => SmsSound
  <1>1. AccessInit => SmsInv
    BY SmsInitInv DEF AccessInit
  <1>2. SmsInv /\ [AccessNext]_accessVars => SmsInv'
    BY SmsStep, Parts
  <1>3. SmsInv => Sms!SmsTypeOK /\ Sms!SmsLimited /\ Sms!UsedCodesDie
    BY SmsInvSound
  <1>4. SmsInv /\ [AccessNext]_accessVars
          => [holder # None => holder' \in {None, holder}]_(Sms!smsVars)
    BY PhoneStays, Parts
  <1>5. QED
    BY <1>1, <1>2, <1>3, <1>4, PTL DEF AccessSpec, SmsSound, Sms!PhoneKept
=============================================================================

---------------------------- MODULE StoreProofs ----------------------------
(***************************************************************************)
(* Theorems about a store: its orders, its application, the quota of its   *)
(* images, shelves and reports, and the platform's monthly settlement,     *)
(* for any number of orders, requests, stores, images, items and months.   *)
(***************************************************************************)
EXTENDS MCOnlineOrders, SumTheorems, TLAPS

storeVars == <<part, vars, reportVars, settlementVars, imagesVars, shelfVars, applicationVars>>

(* A behaviour is of one part: a step is one of that part, or of nobody.   *)
LEMMA Parts ==
  ASSUME [StoreNext]_storeVars
  PROVE  /\ part' = part
         /\ part = "orders" => [Next]_vars
         /\ part = "settlement" => [Monthly!SettlementsNext]_settlementVars
         /\ part = "images" => [Goodsroom!ImagesNext]_imagesVars
         /\ part = "application" => [Applied!ApplicationsNext]_applicationVars
         /\ part = "shelf" => [Shelf!ShelfNext]_shelfVars
         /\ part = "reports" => [Reports!ReportsNext]_reportVars
  BY DEF StoreNext, storeVars

(***************************************************************************)
(* Settlements.  What a call holds: items of its month, all payments and   *)
(* all purchases it has to have, if the month was over when it was read.   *)
(***************************************************************************)
CallSteps == {"idle", "payments", "purchases", "days", "fees", "charge", "create"}
PaidSteps == {"purchases", "days", "fees", "charge", "create"}
BoughtSteps == {"days", "fees", "charge", "create"}

TrayType == [month : Nat, details : SUBSET Monthly!Items, todo : SUBSET BusyDays]

CallHolds(p, k) ==
    /\ p = "idle" => k = Monthly!NoTray
    /\ p # "idle" => k.month \in Monthly!Months /\ k.month <= month
    /\ p = "payments" => k.details = {}
    /\ p = "charge" => k.todo # {}
    /\ \A i \in k.details \cup k.todo : made[i] = k.month
    /\ k.details \cap Purchases \subseteq approved
    /\ p \in PaidSteps /\ k.month \notin early =>
          k.month < month /\ Monthly!Of(Payments, k.month) \subseteq k.details
    /\ p \in BoughtSteps /\ k.month \notin early =>
          Monthly!Of(Purchases, k.month) \ mLate \subseteq k.details

(* A settled month has what the call that settled it held.                 *)
Settled(m) ==
    /\ \A i \in Monthly!Details(m) : made[i] = m
    /\ m \notin early => /\ m < month
                         /\ Monthly!Of(Payments, m) \subseteq Monthly!Details(m)
                         /\ Monthly!Of(Purchases, m) \ mLate \subseteq Monthly!Details(m)
    /\ Monthly!Details(m) \cap Purchases \subseteq approved

(* A fee is held by one call at most, stranded or settled.                 *)
FeesHeld ==
    /\ \A i \in BusyDays : i \in fee <=> \/ i \in stranded
                                         \/ \E j \in Jobs : i \in tray[j].details
                                         \/ \E m \in Monthly!Months : i \in Monthly!Details(m)
    /\ \A i \in BusyDays, j, b \in Jobs : i \in tray[j].details /\ i \in tray[b].details => j = b
    /\ \A i \in BusyDays, j \in Jobs : i \in tray[j].details => i \notin stranded
    /\ \A i \in BusyDays, m \in Monthly!Months :
          i \in Monthly!Details(m) => i \notin stranded /\ \A j \in Jobs : i \notin tray[j].details

MonthRows ==
    /\ month \in Nat
    /\ made \in [Monthly!Items -> Nat]
    /\ fee \subseteq BusyDays /\ stranded \subseteq BusyDays
    /\ settlement \in [Monthly!Months -> SUBSET (Monthly!Items \cup {0})]
    /\ \A m \in Monthly!Months : settlement[m] = {0} \/ 0 \notin settlement[m]
    /\ mPhase \in [Jobs -> CallSteps]
    /\ tray \in [Jobs -> TrayType]

SettlementInv ==
    /\ MonthRows
    /\ \A j \in Jobs : CallHolds(mPhase[j], tray[j])
    /\ \A m \in Monthly!Months \ Monthly!Open : Settled(m)
    /\ FeesHeld

(* As the invariant of a behaviour of this part.                           *)
SettlementPart == part = "settlement" => SettlementInv

LEMMA SettlementInvSound ==
  ASSUME SettlementInv
  PROVE  Monthly!MonthComplete /\ Monthly!FeeAccounted
  <1>1. Monthly!MonthComplete
    BY DEF SettlementInv, Settled, Monthly!MonthComplete
  <1>2. \A i : i \in Monthly!Held <=> i \in BusyDays /\ \E j \in Jobs : i \in tray[j].details
    BY DEF Monthly!Held
  <1>3. \A i : i \in UNION {Monthly!Details(m) \cap BusyDays : m \in Monthly!Months}
                 <=> i \in BusyDays /\ \E m \in Monthly!Months : i \in Monthly!Details(m)
    OBVIOUS
  <1>4. fee \subseteq BusyDays /\ stranded \subseteq BusyDays /\ FeesHeld
    BY DEF SettlementInv, MonthRows
  <1>5. fee = Monthly!Held \cup stranded
                \cup UNION {Monthly!Details(m) \cap BusyDays : m \in Monthly!Months}
    BY <1>2, <1>3, <1>4 DEF FeesHeld
  <1>6. stranded \cap Monthly!Held = {}
    BY <1>2, <1>4 DEF FeesHeld
  <1>7. \A m \in Monthly!Months : Monthly!Details(m) \cap (stranded \cup Monthly!Held) = {}
    BY <1>2, <1>4 DEF FeesHeld
  <1>8. QED
    BY <1>1, <1>5, <1>6, <1>7 DEF Monthly!FeeAccounted

LEMMA NoTrayTyped ==
  /\ Monthly!NoTray \in TrayType
  /\ Monthly!NoTray.month = 0 /\ Monthly!NoTray.details = {} /\ Monthly!NoTray.todo = {}
  BY DEF Monthly!NoTray, TrayType

LEMMA SettlementInitInv == Monthly!SettlementsInit => SettlementInv
  <1> SUFFICES ASSUME Monthly!SettlementsInit PROVE SettlementInv
    OBVIOUS
  <1>1. \A m \in Monthly!Months : settlement[m] = {0} /\ Monthly!Details(m) = {}
    BY DEF Monthly!SettlementsInit, Monthly!Details
  <1>2. MonthRows
    BY NoTrayTyped DEF Monthly!SettlementsInit, MonthRows, CallSteps
  <1>3. \A j \in Jobs : mPhase[j] = "idle" /\ tray[j] = Monthly!NoTray
    BY DEF Monthly!SettlementsInit
  <1>4. \A j \in Jobs : CallHolds(mPhase[j], tray[j])
    BY <1>3, NoTrayTyped DEF CallHolds, PaidSteps, BoughtSteps
  <1>5. FeesHeld
    BY <1>1, <1>3, NoTrayTyped DEF Monthly!SettlementsInit, FeesHeld
  <1>6. QED
    BY <1>1, <1>2, <1>4, <1>5 DEF SettlementInv, Monthly!Open

(* A call moves on with what it holds; the other calls stay where they are. *)
LEMMA CallMoves ==
  ASSUME SettlementInv, NEW j \in Jobs, NEW p \in CallSteps, NEW k \in TrayType, Monthly!Put(j, p, k)
  PROVE  /\ mPhase' \in [Jobs -> CallSteps]
         /\ tray' \in [Jobs -> TrayType]
         /\ mPhase'[j] = p /\ tray'[j] = k
         /\ \A b \in Jobs \ {j} : mPhase'[b] = mPhase[b] /\ tray'[b] = tray[b]
  BY DEF SettlementInv, MonthRows, Monthly!Put

(* The rows of items, months and approvals only grow.                      *)
RowsGrow ==
    /\ month' \in Nat /\ month <= month'
    /\ made' \in [Monthly!Items -> Nat]
    /\ \A i \in Monthly!Items : made'[i] = made[i] \/ (made[i] = 0 /\ made'[i] = month)
    /\ early \subseteq early' /\ mLate \subseteq mLate' /\ approved \subseteq approved'

LEMMA CallsKeep ==
  ASSUME SettlementInv, RowsGrow, NEW p, NEW k \in TrayType, CallHolds(p, k)
  PROVE  CallHolds(p, k)'
  <1>1. month \in Nat /\ month' \in Nat /\ month <= month' /\ made \in [Monthly!Items -> Nat]
    BY DEF SettlementInv, MonthRows, RowsGrow
  <1>2. k.month \in Nat /\ k.details \subseteq Monthly!Items /\ k.todo \subseteq Monthly!Items
    BY DEF TrayType, Monthly!Items
  <1>3. \A i \in k.details \cup k.todo : made'[i] = k.month
    <2>1. CASE p = "idle"
      BY <2>1, NoTrayTyped DEF CallHolds
    <2>2. CASE p # "idle"
      <3>1. k.month \in 1..LastMonth
        BY <2>2 DEF CallHolds, Monthly!Months
      <3>2. \A i \in k.details \cup k.todo : made[i] # 0
        BY <3>1 DEF CallHolds
      <3>3. QED
        BY <1>2, <3>2 DEF CallHolds, RowsGrow
    <2>3. QED
      BY <2>1, <2>2
  <1>4. \A kind : k.month < month /\ kind \subseteq Monthly!Items
                     => Monthly!Of(kind, k.month)' \subseteq Monthly!Of(kind, k.month)
    BY <1>1, <1>2 DEF RowsGrow, Monthly!Of
  <1>5. Payments \subseteq Monthly!Items /\ Purchases \subseteq Monthly!Items
    BY DEF Monthly!Items
  <1>6. p \in PaidSteps /\ k.month \notin early' =>
           k.month < month' /\ Monthly!Of(Payments, k.month)' \subseteq k.details
    BY <1>1, <1>2, <1>4, <1>5 DEF CallHolds, RowsGrow
  <1>7. p \in BoughtSteps /\ k.month \notin early' =>
           Monthly!Of(Purchases, k.month)' \ mLate' \subseteq k.details
    BY <1>2, <1>4, <1>5 DEF CallHolds, RowsGrow, BoughtSteps, PaidSteps
  <1>8. p # "idle" => k.month \in Monthly!Months' /\ k.month <= month'
    BY <1>1, <1>2 DEF CallHolds, Monthly!Months
  <1>9. QED
    BY <1>3, <1>6, <1>7, <1>8 DEF CallHolds, RowsGrow, Monthly!NoTray

LEMMA SettledKeeps ==
  ASSUME SettlementInv, RowsGrow, NEW m \in Monthly!Months, Settled(m),
         Monthly!Details(m)' = Monthly!Details(m)
  PROVE  Settled(m)'
  <1>1. month \in Nat /\ month' \in Nat /\ month <= month' /\ made \in [Monthly!Items -> Nat]
    BY DEF SettlementInv, MonthRows, RowsGrow
  <1>2. m \in Nat /\ m # 0 /\ Monthly!Details(m) \subseteq Monthly!Items
    BY DEF SettlementInv, MonthRows, Monthly!Months, Monthly!Details
  <1>4. \A i \in Monthly!Details(m) : made'[i] = m
    BY <1>2 DEF Settled, RowsGrow
  <1>5. \A kind : m < month /\ kind \subseteq Monthly!Items
                     => Monthly!Of(kind, m)' \subseteq Monthly!Of(kind, m)
    BY <1>1, <1>2 DEF RowsGrow, Monthly!Of
  <1>6. Payments \subseteq Monthly!Items /\ Purchases \subseteq Monthly!Items
    BY DEF Monthly!Items
  <1>7. m \notin early' => /\ m < month'
                           /\ Monthly!Of(Payments, m)' \subseteq Monthly!Details(m)
                           /\ Monthly!Of(Purchases, m)' \ mLate' \subseteq Monthly!Details(m)
    BY <1>1, <1>2, <1>5, <1>6 DEF Settled, RowsGrow
  <1>8. QED
    BY <1>4, <1>7 DEF Settled, RowsGrow

(* A step that touches neither fees nor settlements.                       *)
LEMMA FeesKeep ==
  ASSUME SettlementInv, RowsGrow, UNCHANGED <<fee, stranded, settlement>>,
         mPhase' \in [Jobs -> CallSteps], tray' \in [Jobs -> TrayType],
         \A b \in Jobs : CallHolds(mPhase[b], tray[b])',
         \A b \in Jobs : tray'[b].details \cap BusyDays = tray[b].details \cap BusyDays
  PROVE  SettlementInv'
  <1>1. MonthRows'
    BY DEF SettlementInv, MonthRows, RowsGrow, Monthly!Months, Monthly!Items, TrayType, CallSteps
  <1>2. \A m \in Monthly!Months : Monthly!Details(m)' = Monthly!Details(m)
    BY DEF Monthly!Details
  <1>3. FeesHeld'
    BY <1>2 DEF SettlementInv, FeesHeld, Monthly!Months
  <1>4. \A m \in (Monthly!Months \ Monthly!Open)' : Settled(m)'
    BY <1>2, SettledKeeps DEF SettlementInv, Monthly!Open, Monthly!Months
  <1>5. QED
    BY <1>1, <1>3, <1>4 DEF SettlementInv

LEMMA RowsStep ==
  ASSUME SettlementInv, \/ \E i \in Monthly!Items : Monthly!Make(i)
                        \/ \E i \in Purchases : Monthly!Approve(i)
                        \/ \E i \in BusyDays : Monthly!CancelOrder(i)
                        \/ Monthly!MonthEnds
                        \/ UNCHANGED settlementVars
  PROVE  SettlementInv'
  <1>1. UNCHANGED <<fee, settlement, mPhase, tray, early, mLate, stranded>>
    BY DEF Monthly!Make, Monthly!Approve, Monthly!CancelOrder, Monthly!MonthEnds, settlementVars
  <1>2. RowsGrow
    <2>1. month \in Nat /\ made \in [Monthly!Items -> Nat]
      BY DEF SettlementInv, MonthRows
    <2>2. CASE \E i \in Monthly!Items : Monthly!Make(i)
      BY <1>1, <2>1, <2>2 DEF Monthly!Make, RowsGrow
    <2>3. CASE \E i \in Purchases : Monthly!Approve(i)
      BY <1>1, <2>1, <2>3 DEF Monthly!Approve, RowsGrow
    <2>4. CASE \E i \in BusyDays : Monthly!CancelOrder(i)
      BY <1>1, <2>1, <2>4 DEF Monthly!CancelOrder, RowsGrow
    <2>5. CASE Monthly!MonthEnds
      BY <1>1, <2>1, <2>5 DEF Monthly!MonthEnds, RowsGrow
    <2>6. CASE UNCHANGED settlementVars
      BY <1>1, <2>1, <2>6 DEF settlementVars, RowsGrow
    <2>7. QED
      BY <2>2, <2>3, <2>4, <2>5, <2>6
  <1>3. \A b \in Jobs : tray[b] \in TrayType /\ CallHolds(mPhase[b], tray[b])
    BY DEF SettlementInv, MonthRows
  <1>4. \A b \in Jobs : CallHolds(mPhase[b], tray[b])'
    <2> SUFFICES ASSUME NEW b \in Jobs PROVE CallHolds(mPhase[b], tray[b])'
      OBVIOUS
    <2>1. PICK p : p = mPhase[b]
      OBVIOUS
    <2>2. PICK k \in TrayType : k = tray[b]
      BY <1>3
    <2>3. CallHolds(p, k)'
      BY <1>2, <1>3, <2>1, <2>2, CallsKeep
    <2>4. mPhase'[b] = p /\ tray'[b] = k
      BY <1>1, <2>1, <2>2
    <2>5. QED
      BY <2>3, <2>4 DEF CallHolds, Monthly!Of, Monthly!Months
  <1>5. QED
    BY <1>1, <1>2, <1>4, FeesKeep DEF SettlementInv, MonthRows

LEMMA OtherCalls ==
  ASSUME SettlementInv, RowsGrow, NEW j \in Jobs, NEW p, NEW k, CallHolds(p, k)',
         mPhase'[j] = p, tray'[j] = k,
         \A b \in Jobs \ {j} : mPhase'[b] = mPhase[b] /\ tray'[b] = tray[b]
  PROVE  \A b \in Jobs : CallHolds(mPhase[b], tray[b])'
  <1> SUFFICES ASSUME NEW b \in Jobs PROVE CallHolds(mPhase[b], tray[b])'
    OBVIOUS
  <1>1. CASE b = j
    BY <1>1 DEF CallHolds, Monthly!Of, Monthly!Months
  <1>2. CASE b # j
    <2>1. PICK q : q = mPhase[b]
      OBVIOUS
    <2>2. PICK c \in TrayType : c = tray[b]
      BY DEF SettlementInv, MonthRows
    <2>3. CallHolds(q, c)'
      BY <2>1, <2>2, CallsKeep DEF SettlementInv
    <2>4. mPhase'[b] = q /\ tray'[b] = c
      BY <1>2, <2>1, <2>2
    <2>5. QED
      BY <2>3, <2>4 DEF CallHolds, Monthly!Of, Monthly!Months
  <1>3. QED
    BY <1>1, <1>2

LEMMA QuietCall ==
  ASSUME SettlementInv, RowsGrow, UNCHANGED <<fee, stranded, settlement>>,
         NEW j \in Jobs, NEW p \in CallSteps, NEW k \in TrayType, Monthly!Put(j, p, k),
         k.details \cap BusyDays = tray[j].details \cap BusyDays, CallHolds(p, k)'
  PROVE  SettlementInv'
  <1>1. /\ mPhase' \in [Jobs -> CallSteps] /\ tray' \in [Jobs -> TrayType]
        /\ mPhase'[j] = p /\ tray'[j] = k
        /\ \A b \in Jobs \ {j} : mPhase'[b] = mPhase[b] /\ tray'[b] = tray[b]
    BY CallMoves
  <1>2. \A b \in Jobs : CallHolds(mPhase[b], tray[b])'
    BY <1>1, OtherCalls
  <1>3. QED
    BY <1>1, <1>2, FeesKeep

LEMMA GenerateStep ==
  ASSUME SettlementInv, NEW j \in Jobs, NEW m \in Monthly!Months, Monthly!Generate(j, m)
  PROVE  SettlementInv'
  <1>1. PICK k : k = [Monthly!NoTray EXCEPT !.month = m]
    OBVIOUS
  <1>2. k = [month |-> m, details |-> {}, todo |-> {}] /\ k \in TrayType
    BY <1>1 DEF Monthly!NoTray, TrayType, Monthly!Months
  <1>3. /\ mPhase[j] = "idle" /\ Monthly!Put(j, "payments", k) /\ m <= month
        /\ UNCHANGED <<month, made, approved, quiet, fee, settlement, early, mLate, stranded>>
    BY <1>1 DEF Monthly!Generate
  <1>4. RowsGrow
    BY <1>3 DEF SettlementInv, MonthRows, RowsGrow
  <1>5. tray[j].details = {}
    BY <1>3, NoTrayTyped DEF SettlementInv, CallHolds
  <1>6. CallHolds("payments", k)'
    BY <1>2, <1>3 DEF CallHolds, PaidSteps, BoughtSteps, Monthly!Months
  <1>7. QED
    BY <1>2, <1>3, <1>4, <1>5, <1>6, QuietCall DEF CallSteps

(***************************************************************************)
(* The queries: what they read is of the call's month, and complete if     *)
(* that month is over.                                                     *)
(***************************************************************************)
LEMMA PaymentsStep ==
  ASSUME SettlementInv, NEW j \in Jobs, Monthly!CollectPayments(j)
  PROVE  SettlementInv'
  <1>1. PICK old \in TrayType : old = tray[j]
    BY DEF SettlementInv, MonthRows
  <1>2. PICK ds : ds = Monthly!Of(Payments, old.month)
    OBVIOUS
  <1>3. PICK k : k = [old EXCEPT !.details = ds]
    OBVIOUS
  <1>4. ds \subseteq Payments
    BY <1>2 DEF Monthly!Of
  <1>5. k = [month |-> old.month, details |-> ds, todo |-> old.todo] /\ k \in TrayType
    BY <1>3, <1>4 DEF TrayType, Monthly!Items
  <1>6. /\ mPhase[j] = "payments" /\ Monthly!Put(j, "purchases", k)
        /\ early' = IF old.month = month THEN early \cup {old.month} ELSE early
        /\ UNCHANGED <<month, made, approved, quiet, fee, settlement, mLate, stranded>>
    BY <1>1, <1>2, <1>3 DEF Monthly!CollectPayments
  <1>7. RowsGrow
    BY <1>6 DEF SettlementInv, MonthRows, RowsGrow
  <1>8. CallHolds("payments", old)
    BY <1>1, <1>6 DEF SettlementInv
  <1>9. k.details \cap BusyDays = tray[j].details \cap BusyDays
    BY <1>1, <1>4, <1>5, <1>8, StoreAssumption DEF CallHolds
  <1>10. Monthly!Of(Payments, old.month)' = ds
    BY <1>2, <1>6 DEF Monthly!Of
  <1>11. CallHolds("purchases", k)'
    <2>1. \A i \in k.details \cup k.todo : made'[i] = k.month
      BY <1>2, <1>5, <1>6, <1>8 DEF CallHolds, Monthly!Of
    <2>2. k.details \cap Purchases = {}
      BY <1>4, <1>5, StoreAssumption
    <2>3. k.month <= month' /\ (k.month \notin early' => k.month < month')
      <3>1. old.month \in Nat /\ month \in Nat /\ old.month <= month
        BY <1>8 DEF CallHolds, SettlementInv, MonthRows, TrayType
      <3>2. k.month = old.month /\ month' = month
        BY <1>5, <1>6
      <3>3. old.month \notin early' => old.month # month
        BY <1>6
      <3>4. QED
        BY <3>1, <3>2, <3>3
    <2>4. QED
      BY <1>5, <1>8, <1>10, <2>1, <2>2, <2>3 DEF CallHolds, BoughtSteps, Monthly!Months
  <1>12. QED
    BY <1>5, <1>6, <1>7, <1>9, <1>11, QuietCall DEF CallSteps

LEMMA PurchasesStep ==
  ASSUME SettlementInv, NEW j \in Jobs, Monthly!CollectPurchases(j)
  PROVE  SettlementInv'
  <1>1. PICK old \in TrayType : old = tray[j]
    BY DEF SettlementInv, MonthRows
  <1>2. PICK ds : ds = old.details \cup Monthly!Bought(old.month)
    OBVIOUS
  <1>3. PICK k : k = [old EXCEPT !.details = ds]
    OBVIOUS
  <1>4. Monthly!Bought(old.month) = Monthly!Of(Purchases, old.month) \cap approved
    BY DEF Monthly!Bought
  <1>5. Monthly!Of(Purchases, old.month) \subseteq Purchases
    BY DEF Monthly!Of
  <1>6. k = [month |-> old.month, details |-> ds, todo |-> old.todo] /\ k \in TrayType
    BY <1>2, <1>3, <1>4, <1>5 DEF TrayType, Monthly!Items
  <1>7. /\ mPhase[j] = "purchases" /\ Monthly!Put(j, "days", k)
        /\ mLate' = mLate \cup (Monthly!Of(Purchases, old.month) \ approved)
        /\ UNCHANGED <<month, made, approved, quiet, fee, settlement, early, stranded>>
    BY <1>1, <1>2, <1>3 DEF Monthly!CollectPurchases
  <1>8. RowsGrow
    BY <1>7 DEF SettlementInv, MonthRows, RowsGrow
  <1>9. CallHolds("purchases", old)
    BY <1>1, <1>7 DEF SettlementInv
  <1>10. k.details \cap BusyDays = tray[j].details \cap BusyDays
    BY <1>1, <1>2, <1>4, <1>5, <1>6, StoreAssumption
  <1>11. \A kind : Monthly!Of(kind, old.month)' = Monthly!Of(kind, old.month)
    BY <1>7 DEF Monthly!Of
  <1>12. CallHolds("days", k)'
    <2>1. \A i \in k.details \cup k.todo : made'[i] = k.month
      BY <1>2, <1>4, <1>6, <1>7, <1>9 DEF CallHolds, Monthly!Of
    <2>2. k.details \cap Purchases \subseteq approved'
      BY <1>2, <1>4, <1>6, <1>7, <1>9 DEF CallHolds
    <2>3. Monthly!Of(Purchases, k.month)' \ mLate' \subseteq k.details
      BY <1>2, <1>4, <1>6, <1>7, <1>11
    <2>4. k.month \notin early' =>
             k.month < month' /\ Monthly!Of(Payments, k.month)' \subseteq k.details
      BY <1>2, <1>6, <1>7, <1>9, <1>11 DEF CallHolds, PaidSteps
    <2>5. k.month \in Monthly!Months' /\ k.month <= month'
      BY <1>6, <1>7, <1>9 DEF CallHolds, Monthly!Months
    <2>6. QED
      BY <2>1, <2>2, <2>3, <2>4, <2>5 DEF CallHolds
  <1>13. QED
    BY <1>6, <1>7, <1>8, <1>10, <1>12, QuietCall DEF CallSteps

(* A call that goes on with the same details, and other days to do.        *)
LEMMA SameDetails ==
  ASSUME SettlementInv, NEW j \in Jobs, NEW p \in BoughtSteps, NEW k \in TrayType,
         mPhase[j] \in BoughtSteps, Monthly!Put(j, p, k),
         k.month = tray[j].month, k.details = tray[j].details,
         \A i \in k.todo : made[i] = k.month,
         p = "charge" => k.todo # {},
         UNCHANGED <<month, made, approved, quiet, fee, settlement, early, mLate, stranded>>
  PROVE  SettlementInv'
  <1>1. RowsGrow
    BY DEF SettlementInv, MonthRows, RowsGrow
  <1>2. CallHolds(mPhase[j], tray[j])
    BY DEF SettlementInv
  <1>3. p \in PaidSteps /\ mPhase[j] \in PaidSteps /\ mPhase[j] # "idle" /\ p \notin {"idle", "payments"}
    BY DEF BoughtSteps, PaidSteps
  <1>4. \A kind : Monthly!Of(kind, k.month)' = Monthly!Of(kind, k.month)
    BY DEF Monthly!Of
  <1>5. CallHolds(p, k)'
    BY <1>2, <1>3, <1>4 DEF CallHolds, Monthly!Months
  <1>6. QED
    BY <1>1, <1>5, QuietCall DEF BoughtSteps, CallSteps

LEMMA DaysStep ==
  ASSUME SettlementInv, NEW j \in Jobs, Monthly!CollectDays(j) \/ Monthly!FeeLookup(j)
  PROVE  SettlementInv'
  <1>1. PICK old \in TrayType : old = tray[j]
    BY DEF SettlementInv, MonthRows
  <1>2. CallHolds(mPhase[j], old)
    BY <1>1 DEF SettlementInv
  <1>3. CASE Monthly!CollectDays(j)
    <2>1. PICK days : days = Monthly!Of(BusyDays, old.month) \ quiet
      OBVIOUS
    <2>2. PICK k : k = [old EXCEPT !.todo = days]
      OBVIOUS
    <2>3. days \subseteq BusyDays /\ \A i \in days : made[i] = old.month
      BY <2>1 DEF Monthly!Of
    <2>4. k = [month |-> old.month, details |-> old.details, todo |-> days] /\ k \in TrayType
      BY <2>2, <2>3 DEF TrayType
    <2>5. /\ mPhase[j] = "days" /\ Monthly!Put(j, "fees", k)
          /\ UNCHANGED <<month, made, approved, quiet, fee, settlement, early, mLate, stranded>>
      BY <1>1, <1>3, <2>1, <2>2 DEF Monthly!CollectDays
    <2>6. "days" \in BoughtSteps /\ "fees" \in BoughtSteps
      BY DEF BoughtSteps
    <2>7. QED
      BY <1>1, <2>3, <2>4, <2>5, <2>6, SameDetails
  <1>4. CASE Monthly!FeeLookup(j)
    <2>1. /\ mPhase[j] = "fees"
          /\ UNCHANGED <<month, made, approved, quiet, fee, settlement, early, mLate, stranded>>
      BY <1>4 DEF Monthly!FeeLookup
    <2>2. {"fees", "charge", "create"} \subseteq BoughtSteps
      BY DEF BoughtSteps
    <2>3. \A i \in old.todo : made[i] = old.month
      BY <1>2 DEF CallHolds
    <2>4. CASE Monthly!Put(j, "create", old)
      BY <1>1, <2>1, <2>2, <2>3, <2>4, SameDetails
    <2>5. CASE old.todo # {} /\ Monthly!Put(j, "charge", old)
      BY <1>1, <2>1, <2>2, <2>3, <2>5, SameDetails
    <2>6. ASSUME NEW i, Monthly!Put(j, "fees", Monthly!Passed(old, i))
          PROVE  SettlementInv'
      <3>1. PICK k : k = Monthly!Passed(old, i)
        OBVIOUS
      <3>2. k = [month |-> old.month, details |-> old.details, todo |-> old.todo \ {i}] /\ k \in TrayType
        BY <3>1 DEF Monthly!Passed, TrayType
      <3>3. Monthly!Put(j, "fees", k)
        BY <2>6, <3>1
      <3>4. QED
        BY <1>1, <2>1, <2>2, <2>3, <3>2, <3>3, SameDetails
    <2>7. QED
      BY <1>1, <1>4, <2>4, <2>5, <2>6 DEF Monthly!FeeLookup
  <1>5. QED
    BY <1>3, <1>4

(***************************************************************************)
(* The writes: a fee that was nobody's becomes the call's, and what the    *)
(* call holds the settlement's, or stranded.                               *)
(***************************************************************************)
LEMMA AbandonStep ==
  ASSUME SettlementInv, NEW j \in Jobs, mPhase[j] # "idle", Monthly!Abandon(j),
         UNCHANGED <<month, made, approved, quiet, fee, settlement, early, mLate>>
  PROVE  SettlementInv'
  <1>1. RowsGrow
    BY DEF SettlementInv, MonthRows, RowsGrow
  <1>2. /\ Monthly!Put(j, "idle", Monthly!NoTray)
        /\ stranded' = stranded \cup (tray[j].details \cap BusyDays)
    BY DEF Monthly!Abandon
  <1>3. /\ mPhase' \in [Jobs -> CallSteps] /\ tray' \in [Jobs -> TrayType]
        /\ mPhase'[j] = "idle" /\ tray'[j] = Monthly!NoTray
        /\ \A b \in Jobs \ {j} : mPhase'[b] = mPhase[b] /\ tray'[b] = tray[b]
    BY <1>2, CallMoves, NoTrayTyped DEF CallSteps
  <1>4. CallHolds("idle", Monthly!NoTray)'
    BY NoTrayTyped DEF CallHolds, PaidSteps, BoughtSteps, Monthly!NoTray
  <1>5. \A b \in Jobs : CallHolds(mPhase[b], tray[b])'
    BY <1>1, <1>3, <1>4, OtherCalls
  <1>6. MonthRows'
    BY <1>2, <1>3 DEF SettlementInv, MonthRows, Monthly!Months, Monthly!Items, TrayType, CallSteps
  <1>7. \A m \in Monthly!Months : Monthly!Details(m)' = Monthly!Details(m)
    BY DEF Monthly!Details
  <1>8. FeesHeld'
    <2>1. \A i \in BusyDays, b \in Jobs : i \in tray'[b].details <=> b # j /\ i \in tray[b].details
      BY <1>3, NoTrayTyped
    <2>2. \A i \in BusyDays : i \in stranded' <=> i \in stranded \/ i \in tray[j].details
      BY <1>2
    <2>3. FeesHeld
      BY DEF SettlementInv
    <2>4. QED
      BY <1>7, <2>1, <2>2, <2>3 DEF FeesHeld, Monthly!Months
  <1>9. \A m \in (Monthly!Months \ Monthly!Open)' : Settled(m)'
    BY <1>1, <1>7, SettledKeeps DEF SettlementInv, Monthly!Open, Monthly!Months
  <1>10. QED
    BY <1>5, <1>6, <1>8, <1>9 DEF SettlementInv

LEMMA FeeCreateStep ==
  ASSUME SettlementInv, NEW j \in Jobs, Monthly!FeeCreate(j)
  PROVE  SettlementInv'
  <1>1. PICK old \in TrayType : old = tray[j]
    BY DEF SettlementInv, MonthRows
  <1>2. /\ mPhase[j] = "charge"
        /\ UNCHANGED <<month, made, approved, quiet, settlement, early, mLate>>
    BY DEF Monthly!FeeCreate
  <1>3. CallHolds("charge", old) /\ old.todo # {}
    BY <1>1, <1>2 DEF SettlementInv, CallHolds
  <1>4. PICK i : i = CHOOSE x \in old.todo : TRUE
    OBVIOUS
  <1>5. i \in old.todo /\ i \in BusyDays
    BY <1>3, <1>4 DEF TrayType
  <1>6. CASE i \in fee /\ Monthly!Abandon(j) /\ UNCHANGED fee
    BY <1>2, <1>6, AbandonStep
  <1>7. CASE /\ i \notin fee /\ fee' = fee \cup {i} /\ UNCHANGED stranded
             /\ Monthly!Put(j, "fees", [old EXCEPT !.details = @ \cup {i}, !.todo = @ \ {i}])
    <2>1. PICK k : k = [old EXCEPT !.details = @ \cup {i}, !.todo = @ \ {i}]
      OBVIOUS
    <2>2. /\ k = [month |-> old.month, details |-> old.details \cup {i}, todo |-> old.todo \ {i}]
          /\ k \in TrayType
      BY <1>5, <2>1 DEF TrayType, Monthly!Items
    <2>3. Monthly!Put(j, "fees", k)
      BY <1>7, <2>1
    <2>4. /\ mPhase' \in [Jobs -> CallSteps] /\ tray' \in [Jobs -> TrayType]
          /\ mPhase'[j] = "fees" /\ tray'[j] = k
          /\ \A b \in Jobs \ {j} : mPhase'[b] = mPhase[b] /\ tray'[b] = tray[b]
      BY <2>2, <2>3, CallMoves DEF CallSteps
    <2>5. RowsGrow
      BY <1>2 DEF SettlementInv, MonthRows, RowsGrow
    <2>6. CallHolds("fees", k)'
      <3>1. \A kind : Monthly!Of(kind, k.month)' = Monthly!Of(kind, k.month)
        BY <1>2 DEF Monthly!Of
      <3>2. i \notin Purchases
        BY <1>5, StoreAssumption
      <3>3. QED
        BY <1>2, <1>3, <1>5, <2>2, <3>1, <3>2 DEF CallHolds, PaidSteps, BoughtSteps, Monthly!Months
    <2>7. \A b \in Jobs : CallHolds(mPhase[b], tray[b])'
      BY <2>4, <2>5, <2>6, OtherCalls
    <2>8. MonthRows'
      BY <1>2, <1>5, <1>7, <2>4 DEF SettlementInv, MonthRows, Monthly!Months, Monthly!Items, TrayType, CallSteps
    <2>9. \A m \in Monthly!Months : Monthly!Details(m)' = Monthly!Details(m)
      BY <1>2 DEF Monthly!Details
    <2>10. FeesHeld'
      <3>1. \A d \in BusyDays, b \in Jobs :
               d \in tray'[b].details <=> d \in tray[b].details \/ (b = j /\ d = i)
        BY <1>1, <2>2, <2>4
      <3>2. FeesHeld /\ i \notin fee /\ fee' = fee \cup {i} /\ stranded' = stranded
        BY <1>7 DEF SettlementInv
      <3>3. QED
        BY <1>5, <2>9, <3>1, <3>2 DEF FeesHeld, Monthly!Months
    <2>11. \A m \in (Monthly!Months \ Monthly!Open)' : Settled(m)'
      BY <1>2, <2>5, <2>9, SettledKeeps DEF SettlementInv, Monthly!Open, Monthly!Months
    <2>12. QED
      BY <2>7, <2>8, <2>10, <2>11 DEF SettlementInv
  <1>8. QED
    BY <1>1, <1>4, <1>6, <1>7 DEF Monthly!FeeCreate

LEMMA CreateStep ==
  ASSUME SettlementInv, NEW j \in Jobs, Monthly!Create(j)
  PROVE  SettlementInv'
  <1>1. PICK old \in TrayType : old = tray[j]
    BY DEF SettlementInv, MonthRows
  <1>2. /\ mPhase[j] = "create"
        /\ UNCHANGED <<month, made, approved, quiet, fee, early, mLate>>
    BY DEF Monthly!Create
  <1>3. CallHolds("create", old) /\ old.month \in Monthly!Months
    BY <1>1, <1>2 DEF SettlementInv, CallHolds
  <1>4. CASE Monthly!Abandon(j) /\ UNCHANGED settlement
    BY <1>2, <1>4, AbandonStep
  <1>5. CASE /\ old.month \in Monthly!Open /\ UNCHANGED stranded
             /\ settlement' = [settlement EXCEPT ![old.month] = old.details]
             /\ Monthly!Put(j, "idle", Monthly!NoTray)
    <2>1. /\ mPhase' \in [Jobs -> CallSteps] /\ tray' \in [Jobs -> TrayType]
          /\ mPhase'[j] = "idle" /\ tray'[j] = Monthly!NoTray
          /\ \A b \in Jobs \ {j} : mPhase'[b] = mPhase[b] /\ tray'[b] = tray[b]
      BY <1>5, CallMoves, NoTrayTyped DEF CallSteps
    <2>2. RowsGrow
      BY <1>2 DEF SettlementInv, MonthRows, RowsGrow
    <2>3. CallHolds("idle", Monthly!NoTray)'
      BY NoTrayTyped DEF CallHolds, PaidSteps, BoughtSteps, Monthly!NoTray
    <2>4. \A b \in Jobs : CallHolds(mPhase[b], tray[b])'
      BY <2>1, <2>2, <2>3, OtherCalls
    <2>5. old.details \subseteq Monthly!Items /\ 0 \notin old.details
      BY StoreAssumption DEF TrayType, Monthly!Items
    <2>6. settlement \in [Monthly!Months -> SUBSET (Monthly!Items \cup {0})]
      BY DEF SettlementInv, MonthRows
    <2>7. /\ settlement'[old.month] = old.details
          /\ \A m \in Monthly!Months \ {old.month} : settlement'[m] = settlement[m]
          /\ settlement' \in [Monthly!Months -> SUBSET (Monthly!Items \cup {0})]
      BY <1>3, <1>5, <2>5, <2>6
    <2>8. MonthRows'
      BY <1>2, <1>5, <2>1, <2>5, <2>7
         DEF SettlementInv, MonthRows, Monthly!Months, Monthly!Items, TrayType, CallSteps
    <2>9. /\ Monthly!Details(old.month) = {}
          /\ Monthly!Details(old.month)' = old.details
          /\ \A m \in Monthly!Months \ {old.month} : Monthly!Details(m)' = Monthly!Details(m)
      BY <1>5, <2>5, <2>7 DEF Monthly!Details, Monthly!Open
    <2>10. FeesHeld'
      <3>1. \A i \in BusyDays, b \in Jobs : i \in tray'[b].details <=> b # j /\ i \in tray[b].details
        BY <2>1, NoTrayTyped
      <3>2. \A i \in BusyDays, m \in Monthly!Months :
               i \in Monthly!Details(m)' <=> (i \in Monthly!Details(m) \/ (m = old.month /\ i \in tray[j].details))
        BY <1>1, <2>9
      <3>3. FeesHeld /\ fee' = fee /\ stranded' = stranded
        BY <1>2, <1>5 DEF SettlementInv
      <3>4. QED
        BY <1>3, <3>1, <3>2, <3>3 DEF FeesHeld, Monthly!Months
    <2>11. Settled(old.month)'
      <3>1. \A kind : Monthly!Of(kind, old.month)' = Monthly!Of(kind, old.month)
        BY <1>2 DEF Monthly!Of
      <3>2. QED
        BY <1>2, <1>3, <2>9, <3>1 DEF CallHolds, Settled, PaidSteps, BoughtSteps
    <2>12. \A m \in (Monthly!Months \ Monthly!Open)' : Settled(m)'
      <3>1. \A m \in (Monthly!Months \ Monthly!Open)' \ {old.month} : m \in Monthly!Months \ Monthly!Open
        BY <2>7 DEF Monthly!Open, Monthly!Months
      <3>2. QED
        BY <2>2, <2>9, <2>11, <3>1, SettledKeeps DEF SettlementInv, Monthly!Months
    <2>13. QED
      BY <2>4, <2>8, <2>10, <2>12 DEF SettlementInv
  <1>6. QED
    BY <1>1, <1>4, <1>5 DEF Monthly!Create

LEMMA SettlementStep ==
  SettlementInv /\ [Monthly!SettlementsNext]_settlementVars => SettlementInv'
  <1> SUFFICES ASSUME SettlementInv, [Monthly!SettlementsNext]_settlementVars
               PROVE  SettlementInv'
    OBVIOUS
  <1>1. CASE \/ \E i \in Monthly!Items : Monthly!Make(i)
             \/ \E i \in Purchases : Monthly!Approve(i)
             \/ \E i \in BusyDays : Monthly!CancelOrder(i)
             \/ Monthly!MonthEnds
             \/ UNCHANGED settlementVars
    BY <1>1, RowsStep
  <1>2. ASSUME NEW j \in Jobs, NEW m \in Monthly!Months, Monthly!Generate(j, m)
        PROVE  SettlementInv'
    BY <1>2, GenerateStep
  <1>3. ASSUME NEW j \in Jobs, Monthly!Collect(j)
        PROVE  SettlementInv'
    BY <1>3, PaymentsStep, PurchasesStep, DaysStep, FeeCreateStep, CreateStep DEF Monthly!Collect
  <1>4. ASSUME NEW j \in Jobs, Monthly!Fail(j)
        PROVE  SettlementInv'
    BY <1>4, AbandonStep DEF Monthly!Fail
  <1>5. QED
    BY <1>1, <1>2, <1>3, <1>4 DEF Monthly!SettlementsNext

(***************************************************************************)
(* A month's settlement is complete and every fee is in one place, whoever *)
(* generates it when, how often, and wherever a call stops.                *)
(***************************************************************************)
THEOREM SettlementsStayWhole == StoreSpec => []SettlementWhole
  <1>1. StoreInit => SettlementPart
    BY SettlementInitInv DEF StoreInit, SettlementPart
  <1>2. SettlementPart /\ [StoreNext]_storeVars => SettlementPart'
    BY SettlementStep, Parts DEF SettlementPart
  <1>3. SettlementPart => SettlementWhole
    BY SettlementInvSound DEF SettlementPart, SettlementWhole
  <1>4. QED
    BY <1>1, <1>2, <1>3, PTL DEF StoreSpec, storeVars

(***************************************************************************)
(* Orders.  What a request that will write rests on: an order that was     *)
(* placed, and for a delivery one that was accepted.                       *)
(***************************************************************************)
OrderInv ==
    /\ TypeOK /\ StageExplained
    /\ \A o \in Orders : order[o].status # "none" => order[o].lines \in Baskets
    /\ \A r \in Reqs : pc[r] = "delivery" => Did(target[r], "accept")

OrderPart == part = "orders" => OrderInv

LEMMA OrdersInitInv == Init => OrderInv
  <1> SUFFICES ASSUME Init PROVE OrderInv
    OBVIOUS
  <1>1. TypeOK
    <2>1. NoOrder \in OrderRow
      BY DEF NoOrder, OrderRow, Statuses, Stages
    <2>2. order \in [Orders -> OrderRow]
      BY <2>1 DEF Init
    <2>3. stock \in [Versions -> Int] /\ supplied \in [Versions -> Int]
      <3>1. Counts \subseteq Int
        BY OrdersAssumption
      <3>2. stock \in [Versions -> Counts] /\ supplied = stock
        BY DEF Init
      <3>3. QED
        BY <3>1, <3>2
    <2>4. <<>> \in Seq(Actions)
      OBVIOUS
    <2>5. history \in [Orders -> Seq(Actions)]
      BY <2>4 DEF Init
    <2>6. QED
      BY <2>2, <2>3, <2>5 DEF Init, TypeOK
  <1>2. StageExplained
    BY DEF Init, StageExplained, NoOrder, Did
  <1>3. QED
    BY <1>1, <1>2 DEF Init, OrderInv, NoOrder

LEMMA Appended ==
  ASSUME NEW S, NEW q \in Seq(S), NEW x \in S
  PROVE  /\ DOMAIN Append(q, x) = 1..(Len(q) + 1) /\ DOMAIN q = 1..Len(q) /\ Len(q) \in Nat
         /\ \A i \in 1..Len(q) : Append(q, x)[i] = q[i]
         /\ Append(q, x)[Len(q) + 1] = x
  OBVIOUS

(* A request that only reads.                                              *)
LEMMA RequestReads ==
  ASSUME OrderInv, NEW r \in Reqs, UNCHANGED rows,
         NEW at \in {"idle", "cancel", "stock", "accept", "delivery"}, NEW o \in Orders \cup {None},
         Goto(r, at, o),
         at # "idle" => o \in Orders /\ order[o].status # "none",
         at = "delivery" => Did(o, "accept")
  PROVE  OrderInv'
  <1>1. /\ pc' \in [Reqs -> {"idle", "cancel", "stock", "accept", "delivery"}]
        /\ target' \in [Reqs -> Orders \cup {None}]
        /\ pc'[r] = at /\ target'[r] = o
        /\ \A q \in Reqs \ {r} : pc'[q] = pc[q] /\ target'[q] = target[q]
    BY DEF OrderInv, TypeOK, Goto
  <1>2. order' = order /\ history' = history /\ stock' = stock /\ listed' = listed /\ supplied' = supplied
    BY DEF rows
  <1>3. TypeOK'
    BY <1>1, <1>2 DEF OrderInv, TypeOK
  <1>4. StageExplained'
    BY <1>2 DEF OrderInv, StageExplained, Did
  <1>5. QED
    BY <1>1, <1>2, <1>3, <1>4 DEF OrderInv, Did

(* A request that commits: the row of its order, an action row and, as it  *)
(* may be, stock.                                                          *)
LEMMA RequestCommits ==
  ASSUME OrderInv, NEW r \in Reqs, NEW o \in Orders, order[o].status # "none",
         NEW row \in OrderRow, NEW action \in Actions,
         order' = [order EXCEPT ![o] = row], Log(o, action), Answer(r),
         stock' \in [Versions -> Int], UNCHANGED <<listed, supplied>>,
         row.status = (IF action = "cancel" THEN "cancel" ELSE order[o].status),
         row.stage = (IF action = "cancel" THEN order[o].stage ELSE action),
         row.lines = order[o].lines,
         action = "delivery" => Did(o, "accept")
  PROVE  OrderInv'
  <1>1. TypeOK /\ StageExplained
    BY DEF OrderInv
  <1>2. /\ pc' \in [Reqs -> {"idle", "cancel", "stock", "accept", "delivery"}]
        /\ target' \in [Reqs -> Orders \cup {None}]
        /\ pc'[r] = "idle"
        /\ \A q \in Reqs \ {r} : pc'[q] = pc[q] /\ target'[q] = target[q]
    BY <1>1 DEF TypeOK, Goto, Answer
  <1>3. /\ order' \in [Orders -> OrderRow] /\ order'[o] = row
        /\ \A p \in Orders \ {o} : order'[p] = order[p]
    BY <1>1 DEF TypeOK
  <1>4. /\ history' \in [Orders -> Seq(Actions)] /\ history'[o] = Append(history[o], action)
        /\ \A p \in Orders \ {o} : history'[p] = history[p]
    BY <1>1 DEF TypeOK, Log
  <1>5. history[o] \in Seq(Actions)
    BY <1>1 DEF TypeOK
  <1>6. row.status # "none"
    OBVIOUS
  <1>7. TypeOK'
    <2>1. \A q \in Reqs : pc'[q] # "idle" => target'[q] \in Orders /\ order'[target'[q]].status # "none"
      <3> SUFFICES ASSUME NEW q \in Reqs, pc'[q] # "idle"
                   PROVE  target'[q] \in Orders /\ order'[target'[q]].status # "none"
        OBVIOUS
      <3>1. q # r /\ pc[q] # "idle" /\ target'[q] = target[q]
        BY <1>2
      <3>2. PICK t \in Orders : t = target[q] /\ order[t].status # "none"
        BY <1>1, <3>1 DEF TypeOK
      <3>3. order'[t].status # "none"
        BY <1>3, <1>6, <3>2
      <3>4. QED
        BY <3>1, <3>2, <3>3
    <2>2. listed' \subseteq Versions /\ supplied' \in [Versions -> Int]
      BY <1>1 DEF TypeOK
    <2>3. QED
      BY <1>2, <1>3, <1>4, <2>1, <2>2 DEF TypeOK
  <1>8. /\ DOMAIN history'[o] = 1..(Len(history[o]) + 1) /\ Len(history[o]) \in Nat
        /\ DOMAIN history[o] = 1..Len(history[o])
        /\ \A i \in 1..Len(history[o]) : history'[o][i] = history[o][i]
        /\ history'[o][Len(history[o]) + 1] = action
    BY <1>4, <1>5, Appended
  <1>9. \A a : Did(o, a)' <=> (Did(o, a) \/ a = action)
    BY <1>8 DEF Did
  <1>10. \A p \in Orders \ {o} : \A a : Did(p, a)' <=> Did(p, a)
    BY <1>4 DEF Did
  <1>11. \A i \in DOMAIN history'[o] : history'[o][i] = "delivery" =>
            \E j \in 1..(i - 1) : history'[o][j] = "accept"
    <2> SUFFICES ASSUME NEW i \in 1..(Len(history[o]) + 1), history'[o][i] = "delivery"
                 PROVE  \E j \in 1..(i - 1) : history'[o][j] = "accept"
      BY <1>8
    <2>1. CASE i \in 1..Len(history[o])
      <3>1. PICK j \in 1..(i - 1) : history[o][j] = "accept"
        BY <1>1, <1>8, <2>1 DEF StageExplained
      <3>2. j \in 1..Len(history[o])
        BY <1>8, <2>1
      <3>3. QED
        BY <1>8, <3>1, <3>2
    <2>2. CASE i = Len(history[o]) + 1
      <3>1. action = "delivery"
        BY <1>8, <2>2
      <3>2. PICK j \in 1..Len(history[o]) : history[o][j] = "accept"
        BY <1>8, <3>1 DEF Did
      <3>3. QED
        BY <1>8, <2>2, <3>2
    <2>3. QED
      BY <1>8, <2>1, <2>2
  <1>12. StageExplained'
    <2>1. order'[o].status = "cancel" <=> Did(o, "cancel")'
      BY <1>1, <1>3, <1>9 DEF StageExplained
    <2>2. PICK st : st = row.stage
      OBVIOUS
    <2>3. st # "create" => Did(o, st)'
      <3>1. CASE action = "cancel"
        BY <1>1, <1>9, <2>2, <3>1 DEF StageExplained
      <3>2. CASE action # "cancel"
        BY <1>9, <2>2, <3>2
      <3>3. QED
        BY <3>1, <3>2
    <2>4. (order[o].stage # "create" => Did(o, order[o].stage))'
      BY <1>3, <2>2, <2>3 DEF Did
    <2>5. \A p \in Orders \ {o} : order'[p] = order[p] /\ history'[p] = history[p]
      BY <1>3, <1>4
    <2>6. QED
      BY <1>1, <1>11, <2>1, <2>4, <2>5 DEF StageExplained, Did
  <1>13. \A p \in Orders : order'[p].status # "none" => order'[p].lines \in Baskets
    BY <1>3 DEF OrderInv
  <1>14. \A q \in Reqs : pc'[q] = "delivery" => Did(target[q], "accept")'
    <2> SUFFICES ASSUME NEW q \in Reqs, pc'[q] = "delivery"
                 PROVE  Did(target[q], "accept")'
      OBVIOUS
    <2>1. q # r /\ pc[q] = "delivery" /\ target'[q] = target[q]
      BY <1>2
    <2>2. PICK t \in Orders : t = target[q]
      BY <1>1, <2>1 DEF TypeOK
    <2>3. Did(t, "accept")
      BY <2>1, <2>2 DEF OrderInv
    <2>4. Did(t, "accept")'
      BY <1>9, <1>10, <2>3
    <2>5. QED
      BY <2>1, <2>2, <2>4 DEF Did
  <1>15. QED
    BY <1>7, <1>12, <1>13, <1>14 DEF OrderInv

LEMMA OrderParts ==
  ASSUME OrderInv, NEW r \in Reqs, pc[r] # "idle"
  PROVE  \E o \in Orders : o = target[r] /\ order[o].status # "none" /\ order[o] \in OrderRow
  BY DEF OrderInv, TypeOK

LEMMA ReadSteps ==
  ASSUME OrderInv, NEW r \in Reqs,
         \/ CancelRead(r) \/ AcceptRead(r) \/ StockRead(r) \/ AcceptFail(r) \/ DeliveryRead(r)
  PROVE  OrderInv'
  <1>1. CASE CancelRead(r)
    BY <1>1, RequestReads DEF CancelRead
  <1>2. CASE AcceptRead(r)
    BY <1>2, RequestReads DEF AcceptRead, Acceptable
  <1>3. CASE StockRead(r)
    <2>1. PICK o \in Orders : o = target[r] /\ order[o].status # "none"
      BY <1>3, OrderParts DEF StockRead
    <2>2. UNCHANGED rows /\ (Goto(r, "accept", o) \/ Goto(r, "idle", None))
      BY <1>3, <2>1 DEF StockRead, Answer
    <2>3. QED
      BY <2>1, <2>2, RequestReads
  <1>4. CASE AcceptFail(r)
    BY <1>4, RequestReads DEF AcceptFail, Answer
  <1>5. CASE DeliveryRead(r)
    <2>1. PICK o \in Orders : order[o].status = "active" /\ order[o].stage = "accept"
                              /\ Goto(r, "delivery", o)
      BY <1>5 DEF DeliveryRead
    <2>2. Did(o, "accept")
      BY <2>1 DEF OrderInv, StageExplained
    <2>3. QED
      BY <1>5, <2>1, <2>2, RequestReads DEF DeliveryRead
  <1>6. QED
    BY <1>1, <1>2, <1>3, <1>4, <1>5

(* What an order takes of a version is a sum over its lines.               *)
LEMMA TakenNat == \A b \in Baskets, v \in Versions : Taken(b, v) \in Nat
  <1> SUFFICES ASSUME NEW b \in Baskets, NEW v \in Versions PROVE Taken(b, v) \in Nat
    OBVIOUS
  <1>1. b \in Seq(LineType)
    BY OrdersAssumption
  <1>2. DOMAIN b = 1..Len(b) /\ Len(b) \in Nat /\ \A i \in 1..Len(b) : b[i] \in LineType
    BY <1>1
  <1>3. IsFiniteSet(DOMAIN b)
    BY <1>2, FS_Interval
  <1>4. PICK f : f = [i \in DOMAIN b |-> IF b[i].version = v THEN b[i].count ELSE 0]
    OBVIOUS
  <1>5. \A i \in DOMAIN b : f[i] \in Nat
    BY <1>2, <1>4 DEF LineType
  <1>6. Taken(b, v) = SumOver(f, DOMAIN b)
    <2>1. MapThenSumSet(LAMBDA i : IF b[i].version = v THEN b[i].count ELSE 0, DOMAIN b)
            = SumOver([i \in DOMAIN b |-> IF b[i].version = v THEN b[i].count ELSE 0], DOMAIN b)
      BY DEF MapThenSumSet, MapThenFoldSet, SumOver, PartialSums, Body, Chosen
    <2>2. QED
      BY <1>4, <2>1 DEF Taken
  <1>7. QED
    BY <1>3, <1>5, <1>6, SumIn

LEMMA CommitSteps ==
  ASSUME OrderInv, NEW r \in Reqs, CancelCommit(r) \/ AcceptCommit(r) \/ DeliveryCommit(r)
  PROVE  OrderInv'
  <1>1. PICK o \in Orders : o = target[r] /\ order[o].status # "none" /\ order[o] \in OrderRow
    BY OrderParts DEF CancelCommit, AcceptCommit, DeliveryCommit
  <1>2. order \in [Orders -> OrderRow] /\ stock \in [Versions -> Int]
    BY DEF OrderInv, TypeOK
  <1>3. CASE CancelCommit(r)
    <2>1. PICK new : new = [order[o] EXCEPT !.status = "cancel"]
      OBVIOUS
    <2>2. /\ new \in OrderRow /\ new.status = "cancel"
          /\ new.stage = order[o].stage /\ new.lines = order[o].lines
      BY <1>1, <2>1 DEF OrderRow, Statuses
    <2>3. /\ order' = [order EXCEPT ![o] = new] /\ Log(o, "cancel") /\ Answer(r)
          /\ UNCHANGED <<stock, listed, supplied>>
      BY <1>1, <1>2, <1>3, <2>1 DEF CancelCommit
    <2>4. QED
      BY <1>1, <1>2, <2>2, <2>3, RequestCommits DEF Actions
  <1>4. CASE AcceptCommit(r)
    <2>1. PICK new : new = [order[o] EXCEPT !.stage = "accept"]
      OBVIOUS
    <2>2. /\ new \in OrderRow /\ new.status = order[o].status
          /\ new.stage = "accept" /\ new.lines = order[o].lines
      BY <1>1, <2>1 DEF OrderRow, Stages
    <2>3. /\ order' = [order EXCEPT ![o] = new] /\ Log(o, "accept") /\ Answer(r)
          /\ stock' = [v \in Versions |-> stock[v] - Taken(order[o].lines, v)]
          /\ UNCHANGED <<listed, supplied>>
      BY <1>1, <1>2, <1>4, <2>1 DEF AcceptCommit
    <2>4. PICK b \in Baskets : b = order[o].lines
      BY <1>1 DEF OrderInv
    <2>5. \A v \in Versions : stock[v] - Taken(b, v) \in Int
      BY <1>2, TakenNat
    <2>6. stock' \in [Versions -> Int]
      BY <2>3, <2>4, <2>5
    <2>7. QED
      BY <1>1, <2>2, <2>3, <2>6, RequestCommits DEF Actions, Stages
  <1>5. CASE DeliveryCommit(r)
    <2>1. PICK new : new = [order[o] EXCEPT !.stage = "delivery"]
      OBVIOUS
    <2>2. /\ new \in OrderRow /\ new.status = order[o].status
          /\ new.stage = "delivery" /\ new.lines = order[o].lines
      BY <1>1, <2>1 DEF OrderRow, Stages
    <2>3. /\ order' = [order EXCEPT ![o] = new] /\ Log(o, "delivery") /\ Answer(r)
          /\ UNCHANGED <<stock, listed, supplied>>
      BY <1>1, <1>2, <1>5, <2>1 DEF DeliveryCommit
    <2>4. Did(o, "accept")
      BY <1>1, <1>5 DEF OrderInv, DeliveryCommit
    <2>5. QED
      BY <1>1, <1>2, <2>2, <2>3, <2>4, RequestCommits DEF Actions, Stages
  <1>6. QED
    BY <1>3, <1>4, <1>5

(* Steps that leave the action rows alone, and no request further.         *)
LEMMA ShopSteps ==
  ASSUME OrderInv, \/ \E o \in Orders : ConfirmPayment(o)
                   \/ \E v \in Versions : UpdateGoodsVersion(v) \/ RemoveVersion(v)
                   \/ Crash
                   \/ UNCHANGED vars
  PROVE  OrderInv'
  <1>1. TypeOK /\ StageExplained /\ history' = history
    BY DEF OrderInv, ConfirmPayment, UpdateGoodsVersion, RemoveVersion, Crash, rows, vars
  <1>2. /\ order' \in [Orders -> OrderRow]
        /\ \A o \in Orders : /\ order'[o].status = order[o].status
                             /\ order'[o].stage = order[o].stage
                             /\ order'[o].lines = order[o].lines
    <2>1. CASE \E o \in Orders : ConfirmPayment(o)
      <3>1. PICK o \in Orders : ConfirmPayment(o)
        BY <2>1
      <3>2. order[o] \in OrderRow
        BY <1>1 DEF TypeOK
      <3>3. PICK new : new = [order[o] EXCEPT !.paid = TRUE]
        OBVIOUS
      <3>4. /\ new \in OrderRow /\ new.status = order[o].status
            /\ new.stage = order[o].stage /\ new.lines = order[o].lines
        BY <3>2, <3>3 DEF OrderRow
      <3>5. order' = [order EXCEPT ![o] = new]
        BY <1>1, <3>1, <3>3 DEF ConfirmPayment, TypeOK
      <3>6. QED
        BY <1>1, <3>4, <3>5 DEF TypeOK
    <2>2. CASE order' = order
      BY <1>1, <2>2 DEF TypeOK
    <2>3. QED
      BY <2>1, <2>2 DEF UpdateGoodsVersion, RemoveVersion, Crash, rows, vars
  <1>3. stock' \in [Versions -> Int] /\ supplied' \in [Versions -> Int] /\ listed' \subseteq Versions
    <2>1. CASE \E v \in Versions : UpdateGoodsVersion(v)
      <3>1. PICK v \in Versions, n \in Counts :
               /\ stock' = [stock EXCEPT ![v] = n]
               /\ supplied' = [supplied EXCEPT ![v] = @ + n - stock[v]]
               /\ listed' = listed
        BY <2>1 DEF UpdateGoodsVersion
      <3>2. n \in Int
        BY OrdersAssumption
      <3>3. QED
        BY <1>1, <3>1, <3>2 DEF TypeOK
    <2>2. CASE \E v \in Versions : RemoveVersion(v)
      BY <1>1, <2>2 DEF RemoveVersion, TypeOK
    <2>3. CASE UNCHANGED <<stock, listed, supplied>>
      BY <1>1, <2>3 DEF TypeOK
    <2>4. QED
      BY <2>1, <2>2, <2>3 DEF ConfirmPayment, Crash, rows, vars
  <1>4. /\ pc' \in [Reqs -> {"idle", "cancel", "stock", "accept", "delivery"}]
        /\ target' \in [Reqs -> Orders \cup {None}]
        /\ \A r \in Reqs : pc'[r] # "idle" => pc'[r] = pc[r] /\ target'[r] = target[r]
    BY <1>1 DEF TypeOK, ConfirmPayment, UpdateGoodsVersion, RemoveVersion, Crash, vars
  <1>5. TypeOK'
    <2>1. \A r \in Reqs : pc'[r] # "idle" =>
             target'[r] \in Orders /\ order'[target'[r]].status # "none"
      BY <1>1, <1>2, <1>4 DEF TypeOK
    <2>2. QED
      BY <1>1, <1>2, <1>3, <1>4, <2>1 DEF TypeOK
  <1>6. StageExplained'
    BY <1>1, <1>2 DEF StageExplained, Did
  <1>7. QED
    BY <1>1, <1>2, <1>4, <1>5, <1>6 DEF OrderInv, Did

LEMMA PlaceStep ==
  ASSUME OrderInv, NEW o \in Orders, Create(o)
  PROVE  OrderInv'
  <1>1. TypeOK /\ StageExplained
    BY DEF OrderInv
  <1>2. PICK b \in Baskets :
           order' = [order EXCEPT ![o] = [status |-> "active", stage |-> "create", paid |-> FALSE, lines |-> b]]
    BY DEF Create
  <1>3. PICK new : new = [status |-> "active", stage |-> "create", paid |-> FALSE, lines |-> b]
    OBVIOUS
  <1>4. new \in OrderRow /\ new.status = "active" /\ new.stage = "create" /\ new.lines = b
    BY <1>3 DEF OrderRow, Statuses, Stages
  <1>5. /\ order' \in [Orders -> OrderRow] /\ order'[o] = new
        /\ \A p \in Orders \ {o} : order'[p] = order[p]
    BY <1>1, <1>2, <1>3, <1>4 DEF TypeOK
  <1>6. /\ history' \in [Orders -> Seq(Actions)] /\ history'[o] = Append(history[o], "create")
        /\ \A p \in Orders \ {o} : history'[p] = history[p]
        /\ history[o] \in Seq(Actions)
    BY <1>1 DEF Create, Log, TypeOK, Actions, Stages
  <1>7. order[o].status = "none" /\ UNCHANGED <<stock, listed, supplied, pc, target>>
    BY DEF Create
  <1>8. /\ DOMAIN history'[o] = 1..(Len(history[o]) + 1) /\ Len(history[o]) \in Nat
        /\ DOMAIN history[o] = 1..Len(history[o])
        /\ \A i \in 1..Len(history[o]) : history'[o][i] = history[o][i]
        /\ history'[o][Len(history[o]) + 1] = "create"
    BY <1>6, Appended DEF Actions, Stages
  <1>9. ~Did(o, "cancel")'
    <2>1. ~Did(o, "cancel")
      BY <1>1, <1>7 DEF StageExplained
    <2>2. QED
      BY <1>8, <2>1 DEF Did
  <1>10. \A i \in DOMAIN history'[o] : history'[o][i] = "delivery" =>
            \E j \in 1..(i - 1) : history'[o][j] = "accept"
    <2> SUFFICES ASSUME NEW i \in 1..Len(history[o]), history[o][i] = "delivery"
                 PROVE  \E j \in 1..(i - 1) : history'[o][j] = "accept"
      BY <1>8
    <2>1. PICK j \in 1..(i - 1) : history[o][j] = "accept"
      BY <1>1, <1>8 DEF StageExplained
    <2>2. QED
      BY <1>8, <2>1
  <1>11. StageExplained'
    <2>1. \A p \in Orders \ {o} : order'[p] = order[p] /\ history'[p] = history[p]
      BY <1>5, <1>6
    <2>2. order'[o].status # "cancel" /\ order'[o].stage = "create"
      BY <1>4, <1>5
    <2>3. QED
      BY <1>1, <1>9, <1>10, <2>1, <2>2 DEF StageExplained, Did
  <1>12. TypeOK'
    <2>1. \A q \in Reqs : pc'[q] # "idle" => target'[q] \in Orders /\ order'[target'[q]].status # "none"
      BY <1>1, <1>5, <1>7 DEF TypeOK
    <2>2. QED
      BY <1>1, <1>5, <1>6, <1>7, <2>1 DEF TypeOK
  <1>13. \A q \in Reqs : pc'[q] = "delivery" => Did(target[q], "accept")'
    <2> SUFFICES ASSUME NEW q \in Reqs, pc'[q] = "delivery"
                 PROVE  Did(target[q], "accept")'
      OBVIOUS
    <2>1. pc[q] = "delivery" /\ target'[q] = target[q]
      BY <1>7
    <2>2. PICK t \in Orders : t = target[q] /\ t # o
      BY <1>1, <1>7, <2>1 DEF TypeOK
    <2>3. Did(t, "accept")'
      BY <1>6, <2>1, <2>2 DEF OrderInv, Did
    <2>4. QED
      BY <2>1, <2>2, <2>3 DEF Did
  <1>14. QED
    BY <1>4, <1>5, <1>11, <1>12, <1>13 DEF OrderInv

LEMMA OrdersStep == OrderInv /\ [Next]_vars => OrderInv'
  <1> SUFFICES ASSUME OrderInv, [Next]_vars PROVE OrderInv'
    OBVIOUS
  <1>1. ASSUME NEW r \in Reqs, Handle(r)
        PROVE  OrderInv'
    BY <1>1, ReadSteps, CommitSteps DEF Handle
  <1>2. ASSUME NEW o \in Orders, Create(o)
        PROVE  OrderInv'
    BY <1>2, PlaceStep
  <1>3. CASE \/ \E o \in Orders : ConfirmPayment(o)
             \/ \E v \in Versions : UpdateGoodsVersion(v) \/ RemoveVersion(v)
             \/ Crash
             \/ UNCHANGED vars
    BY <1>3, ShopSteps
  <1>4. QED
    BY <1>1, <1>2, <1>3 DEF Next

(* The status of a cancelled order: of those who write a row, only create  *)
(* writes another one, and not there.                                      *)
LEMMA CancelledStep ==
  OrderInv /\ [Next]_vars
    => [\A o \in Orders : order[o].status = "cancel" => order'[o].status = "cancel"]_vars
  <1> SUFFICES ASSUME OrderInv, [Next]_vars, NEW o \in Orders, order[o].status = "cancel"
               PROVE  order'[o].status = "cancel"
    OBVIOUS
  <1>1. order \in [Orders -> OrderRow] /\ \A p \in Orders : order[p] \in OrderRow
    BY DEF OrderInv, TypeOK
  <1>2. ASSUME NEW r \in Reqs, Handle(r)
        PROVE  order'[o].status = "cancel"
    <2>1. CASE CancelCommit(r) \/ AcceptCommit(r) \/ DeliveryCommit(r)
      BY <1>1, <2>1 DEF CancelCommit, AcceptCommit, DeliveryCommit, OrderRow
    <2>2. CASE \/ CancelRead(r) \/ AcceptRead(r) \/ StockRead(r) \/ AcceptFail(r) \/ DeliveryRead(r)
      BY <2>2 DEF CancelRead, AcceptRead, StockRead, AcceptFail, DeliveryRead, rows
    <2>3. QED
      BY <1>2, <2>1, <2>2 DEF Handle
  <1>3. ASSUME NEW p \in Orders, Create(p) \/ ConfirmPayment(p)
        PROVE  order'[o].status = "cancel"
    BY <1>1, <1>3 DEF Create, ConfirmPayment, OrderRow
  <1>4. CASE \/ \E v \in Versions : UpdateGoodsVersion(v) \/ RemoveVersion(v)
             \/ Crash \/ UNCHANGED vars
    BY <1>4 DEF UpdateGoodsVersion, RemoveVersion, Crash, rows, vars
  <1>5. QED
    BY <1>2, <1>3, <1>4 DEF Next

(***************************************************************************)
(* An order's row is what its action rows say, and a cancelled order stays *)
(* cancelled, although every commit rests on a read that may be old.       *)
(***************************************************************************)
THEOREM OrdersAlwaysFollow == StoreSpec => OrdersFollowActions
  <1>1. StoreInit => OrderInv
    BY OrdersInitInv DEF StoreInit
  <1>2. OrderPart /\ [StoreNext]_storeVars => OrderPart'
    BY OrdersStep, Parts DEF OrderPart
  <1>3. StoreInit => OrderPart
    BY <1>1 DEF OrderPart
  <1>4. OrderPart => (part = "orders" => TypeOK /\ StageExplained)
    BY DEF OrderPart, OrderInv
  <1>5. OrderPart /\ [StoreNext]_storeVars
          => [\A o \in Orders : order[o].status = "cancel" => order'[o].status = "cancel"]_vars
    <2>1. CASE part = "orders"
      BY <2>1, CancelledStep, Parts DEF OrderPart
    <2>2. CASE part # "orders"
      BY <2>2 DEF StoreNext, storeVars
    <2>3. QED
      BY <2>1, <2>2
  <1>6. QED
    BY <1>2, <1>3, <1>4, <1>5, PTL DEF StoreSpec, storeVars, OrdersFollowActions, CancelledStays

(***************************************************************************)
(* Stock.  What accepted orders took of a version is a sum over the placed *)
(* orders: every accept row adds its order's lines to it in the            *)
(* transaction that takes them from the stock.                             *)
(***************************************************************************)
PlacedOf(a) == {o \in Orders : a[o].status # "none"}

Accepts(q) == Cardinality({i \in DOMAIN q : q[i] = "accept"})

Takes(a, h, v) == [o \in Orders |-> Accepts(h[o]) * Taken(a[o].lines, v)]

Gone(a, h, v) == SumOver(Takes(a, h, v), PlacedOf(a))

LedgerInv ==
    /\ IsFiniteSet(PlacedOf(order))
    /\ \A o \in Orders : order[o].status = "none" => history[o] = <<>>
    /\ \A v \in Versions : supplied[v] - stock[v] = Gone(order, history, v)

LEMMA LedgerSums == LedgerInv => StockLedger
  <1> SUFFICES ASSUME LedgerInv, NEW v \in Versions
               PROVE  supplied[v] - stock[v] =
                        MapThenSumSet(LAMBDA o : Times(o, "accept") * Taken(order[o].lines, v), Placed)
    BY DEF StockLedger
  <1>1. \A o \in Placed : Takes(order, history, v)[o] = Times(o, "accept") * Taken(order[o].lines, v)
    BY DEF Takes, Placed, Times, Accepts
  <1>2. MapThenSumSet(LAMBDA o : Times(o, "accept") * Taken(order[o].lines, v), Placed)
          = SumOver([o \in Placed |-> Times(o, "accept") * Taken(order[o].lines, v)], Placed)
    BY DEF MapThenSumSet, MapThenFoldSet, SumOver, PartialSums, Body, Chosen
  <1>3. Placed = PlacedOf(order)
    BY DEF Placed, PlacedOf
  <1>4. SumOver([o \in Placed |-> Times(o, "accept") * Taken(order[o].lines, v)], Placed)
          = Gone(order, history, v)
    BY <1>1, <1>3, SumSame DEF Gone
  <1>5. QED
    BY <1>2, <1>4 DEF LedgerInv

LEMMA AcceptsAppended ==
  ASSUME NEW q \in Seq(Actions), NEW x \in Actions
  PROVE  /\ Accepts(q) \in Nat
         /\ Accepts(Append(q, x)) = Accepts(q) + (IF x = "accept" THEN 1 ELSE 0)
  <1> DEFINE A(r) == {i \in DOMAIN r : r[i] = "accept"}
  <1>1. /\ DOMAIN Append(q, x) = 1..(Len(q) + 1) /\ DOMAIN q = 1..Len(q) /\ Len(q) \in Nat
        /\ \A i \in 1..Len(q) : Append(q, x)[i] = q[i]
        /\ Append(q, x)[Len(q) + 1] = x
    BY Appended
  <1>2. IsFiniteSet(A(q)) /\ Len(q) + 1 \notin A(q)
    <2>1. IsFiniteSet(1..Len(q))
      BY <1>1, FS_Interval
    <2>2. A(q) \subseteq 1..Len(q)
      BY <1>1
    <2>3. Len(q) + 1 \notin 1..Len(q)
      BY <1>1
    <2>4. QED
      BY <2>1, <2>2, <2>3, FS_Subset
  <1>3. A(Append(q, x)) = IF x = "accept" THEN A(q) \cup {Len(q) + 1} ELSE A(q)
    <2>1. 1..(Len(q) + 1) = (1..Len(q)) \cup {Len(q) + 1}
      BY <1>1
    <2>2. \A i \in 1..Len(q) : i # Len(q) + 1
      BY <1>1
    <2>3. QED
      BY <1>1, <2>1, <2>2
  <1>4. Cardinality(A(q)) \in Nat
    BY <1>2, FS_CardinalityType
  <1>5. Cardinality(A(q) \cup {Len(q) + 1}) = Cardinality(A(q)) + 1
    BY <1>2, FS_AddElement
  <1>6. Accepts(q) = Cardinality(A(q)) /\ Accepts(Append(q, x)) = Cardinality(A(Append(q, x)))
    BY DEF Accepts
  <1> HIDE DEF A
  <1>7. PICK n \in Nat : n = Cardinality(A(q))
    BY <1>4
  <1>8. CASE x = "accept"
    <2>1. Cardinality(A(Append(q, x))) = n + 1
      BY <1>3, <1>5, <1>7, <1>8
    <2>2. QED
      BY <1>6, <1>7, <1>8, <2>1
  <1>9. CASE x # "accept"
    <2>1. Cardinality(A(Append(q, x))) = n
      BY <1>3, <1>7, <1>9
    <2>2. n + 0 = n
      OBVIOUS
    <2>3. QED
      BY <1>6, <1>7, <1>9, <2>1, <2>2
  <1>10. QED
    BY <1>8, <1>9

LEMMA TakesInt ==
  ASSUME NEW a, NEW h \in [Orders -> Seq(Actions)], NEW v \in Versions,
         NEW o \in Orders, a[o].lines \in Baskets
  PROVE  /\ Taken(a[o].lines, v) \in Nat
         /\ Takes(a, h, v)[o] = Accepts(h[o]) * Taken(a[o].lines, v)
         /\ Takes(a, h, v)[o] \in Int
  <1>1. Taken(a[o].lines, v) \in Nat
    BY TakenNat
  <1>2. Accepts(h[o]) \in Nat
    BY AcceptsAppended DEF Actions
  <1>3. \A m, n \in Nat : m * n \in Int
    OBVIOUS
  <1>4. QED
    BY <1>1, <1>2, <1>3 DEF Takes

(* An action row of a placed order.                                        *)
Logged(a, b, h, g, o, x) ==
    /\ h \in [Orders -> Seq(Actions)]
    /\ o \in PlacedOf(a)
    /\ x \in Actions
    /\ g = [h EXCEPT ![o] = Append(h[o], x)]
    /\ \A p \in Orders : b[p].lines = a[p].lines
    /\ \A p \in Orders : b[p].status = "none" <=> a[p].status = "none"
    /\ \A p \in PlacedOf(a) : a[p].lines \in Baskets
    /\ IsFiniteSet(PlacedOf(a))

LEMMA GoneAfter ==
  ASSUME NEW a, NEW b, NEW h, NEW g, NEW o, NEW x, Logged(a, b, h, g, o, x), NEW v \in Versions
  PROVE  /\ PlacedOf(b) = PlacedOf(a)
         /\ Gone(a, h, v) \in Int
         /\ Gone(b, g, v) = Gone(a, h, v) + (IF x = "accept" THEN Taken(a[o].lines, v) ELSE 0)
  <1> USE DEF Logged
  <1>1. PlacedOf(b) = PlacedOf(a) /\ PlacedOf(a) \subseteq Orders /\ o \in Orders
    BY DEF PlacedOf
  <1>2. g \in [Orders -> Seq(Actions)]
    <2>1. Append(h[o], x) \in Seq(Actions)
      BY <1>1
    <2>2. QED
      BY <2>1
  <1>3. \A p \in PlacedOf(a) : b[p].lines \in Baskets
    BY <1>1
  <1>4. \A p \in PlacedOf(a) : Takes(a, h, v)[p] \in Int /\ Takes(b, g, v)[p] \in Int
    BY <1>1, <1>2, <1>3, TakesInt
  <1>5. \A p \in PlacedOf(a) \ {o} : Takes(b, g, v)[p] = Takes(a, h, v)[p]
    BY <1>1 DEF Takes
  <1>6. Gone(b, g, v) = Gone(a, h, v) - Takes(a, h, v)[o] + Takes(b, g, v)[o]
    <2>1. PICK S, f, k : S = PlacedOf(a) /\ f = Takes(a, h, v) /\ k = Takes(b, g, v)
      OBVIOUS
    <2>2. /\ IsFiniteSet(S) /\ o \in S
          /\ \A p \in S : f[p] \in Int /\ k[p] \in Int
          /\ \A p \in S \ {o} : k[p] = f[p]
      BY <1>4, <1>5, <2>1
    <2>3. SumOver(k, S) = SumOver(f, S) - f[o] + k[o]
      BY <2>2, SumChanged
    <2>4. QED
      BY <1>1, <2>1, <2>3 DEF Gone
  <1>7. Gone(a, h, v) \in Int
    BY <1>4, SumIn DEF Gone
  <1>8. PICK n \in Nat : n = Accepts(h[o])
    BY <1>1, AcceptsAppended
  <1>9. PICK t \in Nat : t = Taken(a[o].lines, v)
    BY <1>1, TakesInt
  <1>10. Takes(a, h, v)[o] = n * t
    BY <1>1, <1>8, <1>9 DEF Takes
  <1>11. Takes(b, g, v)[o] = (n + (IF x = "accept" THEN 1 ELSE 0)) * t
    <2>1. Accepts(g[o]) = n + (IF x = "accept" THEN 1 ELSE 0)
      BY <1>1, <1>8, AcceptsAppended
    <2>2. QED
      BY <1>1, <1>9, <2>1 DEF Takes
  <1>12. n * t \in Int /\ (n + 1) * t = n * t + t /\ (n + 0) * t = n * t
    OBVIOUS
  <1>13. CASE x = "accept"
    <2>1. Takes(b, g, v)[o] = n * t + t
      BY <1>11, <1>12, <1>13
    <2>2. PICK m \in Int : m = n * t
      BY <1>12
    <2>3. Gone(b, g, v) = Gone(a, h, v) + t
      BY <1>6, <1>7, <1>10, <2>1, <2>2
    <2>4. QED
      BY <1>1, <1>7, <1>9, <1>13, <2>3
  <1>14. CASE x # "accept"
    <2>1. Takes(b, g, v)[o] = n * t
      BY <1>11, <1>12, <1>14
    <2>2. PICK m \in Int : m = n * t
      BY <1>12
    <2>3. Gone(b, g, v) = Gone(a, h, v)
      BY <1>6, <1>7, <1>10, <2>1, <2>2
    <2>4. QED
      BY <1>1, <1>7, <1>14, <2>3
  <1>15. QED
    BY <1>13, <1>14

(* A newly placed order has taken nothing.                                 *)
NewOrder(a, b, h, g, o) ==
    /\ h \in [Orders -> Seq(Actions)]
    /\ o \in Orders
    /\ a[o].status = "none"
    /\ h[o] = <<>>
    /\ g = [h EXCEPT ![o] = Append(h[o], "create")]
    /\ \A p \in Orders \ {o} : b[p] = a[p]
    /\ b[o].status # "none"
    /\ \A p \in PlacedOf(b) : b[p].lines \in Baskets
    /\ IsFiniteSet(PlacedOf(a))

LEMMA GonePlaced ==
  ASSUME NEW a, NEW b, NEW h, NEW g, NEW o, NewOrder(a, b, h, g, o), NEW v \in Versions
  PROVE  /\ IsFiniteSet(PlacedOf(b))
         /\ Gone(b, g, v) = Gone(a, h, v)
  <1> USE DEF NewOrder
  <1>1. PlacedOf(b) = PlacedOf(a) \cup {o} /\ o \notin PlacedOf(a) /\ PlacedOf(b) \subseteq Orders
    BY DEF PlacedOf
  <1>2. IsFiniteSet(PlacedOf(b))
    BY <1>1, FS_AddElement
  <1>3. "create" \in Actions
    BY DEF Actions, Stages
  <1>4. g \in [Orders -> Seq(Actions)]
    <2>1. Append(h[o], "create") \in Seq(Actions)
      BY <1>3
    <2>2. QED
      BY <2>1
  <1>5. \A p \in PlacedOf(b) : Takes(b, g, v)[p] \in Int
    BY <1>1, <1>4, TakesInt
  <1>6. Takes(b, g, v)[o] = 0
    <2>1. Accepts(h[o]) = 0
      <3>1. PICK q : q = h[o] /\ q = <<>>
        OBVIOUS
      <3>2. DOMAIN q = {}
        BY <3>1
      <3>3. {i \in DOMAIN q : q[i] = "accept"} = {}
        BY <3>2, Zenon
      <3>4. Accepts(q) = 0
        BY <3>3, FS_EmptySet DEF Accepts
      <3>5. QED
        BY <3>1, <3>4
    <2>2. Accepts(g[o]) = 0
      <3>1. PICK q \in Seq(Actions) : q = h[o]
        OBVIOUS
      <3>2. Accepts(Append(q, "create")) = Accepts(q) + 0
        BY <1>3, AcceptsAppended
      <3>3. PICK z : z = Append(q, "create")
        OBVIOUS
      <3>4. Accepts(z) = 0
        <4>1. Accepts(q) = 0
          BY <2>1, <3>1
        <4>2. QED
          BY <3>2, <3>3, <4>1
      <3>5. g[o] = z
        BY <3>1, <3>3
      <3>6. QED
        BY <3>4, <3>5
    <2>3. PICK t \in Nat : t = Taken(b[o].lines, v)
      BY <1>1, TakesInt, <1>4
    <2>4. 0 * t = 0
      OBVIOUS
    <2>5. Takes(b, g, v)[o] = Accepts(g[o]) * Taken(b[o].lines, v)
      BY DEF Takes
    <2>6. QED
      BY <2>2, <2>3, <2>4, <2>5
  <1>7. SumOver(Takes(b, g, v), PlacedOf(b)) = Takes(b, g, v)[o] + SumOver(Takes(b, g, v), PlacedOf(a))
    <2>1. \A p \in PlacedOf(a) : Takes(b, g, v)[p] \in Int
      BY <1>1, <1>5
    <2>2. Takes(b, g, v)[o] \in Int
      BY <1>6
    <2>3. QED
      BY <1>1, <2>1, <2>2, SumWith
  <1>8. \A p \in PlacedOf(a) : Takes(b, g, v)[p] = Takes(a, h, v)[p]
    BY <1>1 DEF Takes
  <1>9. SumOver(Takes(b, g, v), PlacedOf(a)) = Gone(a, h, v)
    BY <1>8, SumSame DEF Gone
  <1>10. Gone(a, h, v) \in Int
    <2>1. \A p \in PlacedOf(a) : Takes(a, h, v)[p] \in Int
      BY <1>1, <1>5, <1>8
    <2>2. QED
      BY <2>1, SumIn DEF Gone
  <1>11. QED
    BY <1>2, <1>6, <1>7, <1>9, <1>10 DEF Gone

LEMMA LedgerUnmoved ==
  ASSUME LedgerInv, UNCHANGED history,
         \A o \in Orders : order'[o].status = order[o].status /\ order'[o].lines = order[o].lines,
         \A v \in Versions : supplied'[v] - stock'[v] = supplied[v] - stock[v]
  PROVE  LedgerInv'
  <1>1. PlacedOf(order') = PlacedOf(order)
    BY DEF PlacedOf
  <1>2. \A v \in Versions : Takes(order', history', v) = Takes(order, history, v)
    BY DEF Takes
  <1>3. \A v \in Versions : Gone(order', history', v) = Gone(order, history, v)
    BY <1>1, <1>2 DEF Gone
  <1>4. QED
    BY <1>1, <1>3 DEF LedgerInv

LEMMA LedgerCommit ==
  ASSUME OrderInv, LedgerInv, NEW r \in Reqs,
         CancelCommit(r) \/ AcceptCommit(r) \/ DeliveryCommit(r)
  PROVE  LedgerInv'
  <1>1. PICK o \in Orders : o = target[r] /\ order[o].status # "none" /\ order[o] \in OrderRow
    BY OrderParts DEF CancelCommit, AcceptCommit, DeliveryCommit
  <1>2. PICK a \in [Orders -> OrderRow], h \in [Orders -> Seq(Actions)] : a = order /\ h = history
    BY DEF OrderInv, TypeOK
  <1>3. PICK b, g : b = order' /\ g = history'
    OBVIOUS
  <1>4. PICK x \in Actions :
           /\ g = [h EXCEPT ![o] = Append(h[o], x)]
           /\ x = "accept" => stock' = [v \in Versions |-> stock[v] - Taken(a[o].lines, v)]
           /\ x # "accept" => stock' = stock
    BY <1>1, <1>2, <1>3 DEF CancelCommit, AcceptCommit, DeliveryCommit, Log, Actions, Stages
  <1>5. \A p \in Orders : b[p].lines = a[p].lines /\ (b[p].status = "none" <=> a[p].status = "none")
    <2>1. PICK row \in OrderRow : row = a[o] /\ row.status # "none"
      BY <1>1, <1>2
    <2>2. PICK new : /\ new = [row EXCEPT !.status = "cancel"] \/ \E s : new = [row EXCEPT !.stage = s]
                     /\ b = [a EXCEPT ![o] = new]
      BY <1>1, <1>2, <1>3, <2>1 DEF CancelCommit, AcceptCommit, DeliveryCommit
    <2>3. new.lines = row.lines /\ new.status # "none"
      BY <2>1, <2>2 DEF OrderRow
    <2>4. b[o] = new /\ \A p \in Orders \ {o} : b[p] = a[p]
      BY <1>1, <1>2, <2>2
    <2>5. QED
      BY <2>1, <2>3, <2>4
  <1>6. o \in PlacedOf(a) /\ IsFiniteSet(PlacedOf(a)) /\ \A p \in PlacedOf(a) : a[p].lines \in Baskets
    BY <1>1, <1>2 DEF PlacedOf, LedgerInv, OrderInv
  <1>7. ASSUME NEW v \in Versions
        PROVE  /\ PlacedOf(b) = PlacedOf(a)
               /\ Gone(a, h, v) \in Int
               /\ Gone(b, g, v) = Gone(a, h, v) + (IF x = "accept" THEN Taken(a[o].lines, v) ELSE 0)
    <2>1. g = [h EXCEPT ![o] = Append(h[o], x)]
      BY <1>4
    <2>2. \A p \in Orders : b[p].lines = a[p].lines
      BY <1>5
    <2>3. \A p \in Orders : b[p].status = "none" <=> a[p].status = "none"
      BY <1>5
    <2>4. IsFiniteSet(PlacedOf(a)) /\ \A p \in PlacedOf(a) : a[p].lines \in Baskets
      BY <1>6
    <2>5. o \in PlacedOf(a)
      BY <1>6
    <2>6. Logged(a, b, h, g, o, x)
      BY <2>1, <2>2, <2>3, <2>4, <2>5 DEF Logged
    <2>7. QED
      BY <2>6, GoneAfter
  <1>8. PlacedOf(b) = PlacedOf(a)
    BY <1>5 DEF PlacedOf
  <1>9. ASSUME NEW v \in Versions PROVE supplied'[v] - stock'[v] = Gone(b, g, v)
    <2>1. supplied' = supplied
      BY DEF CancelCommit, AcceptCommit, DeliveryCommit
    <2>2. supplied[v] \in Int /\ stock[v] \in Int /\ supplied[v] - stock[v] = Gone(a, h, v)
      BY <1>2 DEF OrderInv, TypeOK, LedgerInv
    <2>3. PICK m \in Int : m = Gone(a, h, v)
      BY <1>7
    <2>4. CASE x = "accept"
      <3>1. PICK t \in Nat : t = Taken(a[o].lines, v)
        BY <1>6, TakenNat
      <3>2. stock'[v] = stock[v] - t
        BY <1>4, <2>4, <3>1
      <3>3. Gone(b, g, v) = m + t
        BY <1>7, <2>3, <2>4, <3>1
      <3>4. QED
        BY <2>1, <2>2, <2>3, <3>2, <3>3
    <2>5. CASE x # "accept"
      <3>1. stock'[v] = stock[v]
        BY <1>4, <2>5
      <3>2. Gone(b, g, v) = m
        BY <1>7, <2>3, <2>5
      <3>3. QED
        BY <2>1, <2>2, <2>3, <3>1, <3>2
    <2>6. QED
      BY <2>4, <2>5
  <1>10. \A p \in Orders : b[p].status = "none" => g[p] = <<>>
    <2>1. \A p \in Orders : a[p].status = "none" => h[p] = <<>>
      BY <1>2 DEF LedgerInv
    <2>2. \A p \in Orders \ {o} : g[p] = h[p]
      BY <1>4
    <2>3. QED
      BY <1>1, <1>2, <1>5, <2>1, <2>2
  <1>11. QED
    BY <1>3, <1>6, <1>8, <1>9, <1>10 DEF LedgerInv

LEMMA LedgerPlace ==
  ASSUME OrderInv, LedgerInv, NEW o \in Orders, Create(o)
  PROVE  LedgerInv'
  <1>1. PICK a \in [Orders -> OrderRow], h \in [Orders -> Seq(Actions)] : a = order /\ h = history
    BY DEF OrderInv, TypeOK
  <1>2. PICK b, g : b = order' /\ g = history'
    OBVIOUS
  <1>3. PICK l \in Baskets :
           b = [a EXCEPT ![o] = [status |-> "active", stage |-> "create", paid |-> FALSE, lines |-> l]]
    BY <1>1, <1>2 DEF Create
  <1>4. /\ b[o].status = "active" /\ b[o].lines = l
        /\ \A p \in Orders \ {o} : b[p] = a[p]
    BY <1>3
  <1>5. g = [h EXCEPT ![o] = Append(h[o], "create")] /\ a[o].status = "none" /\ h[o] = <<>>
    BY <1>1, <1>2 DEF Create, Log, LedgerInv
  <1>6. UNCHANGED <<stock, supplied>>
    BY DEF Create
  <1>7. \A p \in PlacedOf(b) : b[p].lines \in Baskets
    BY <1>1, <1>4 DEF PlacedOf, OrderInv
  <1>8. IsFiniteSet(PlacedOf(a))
    BY <1>1 DEF LedgerInv
  <1>9. ASSUME NEW v \in Versions
        PROVE  IsFiniteSet(PlacedOf(b)) /\ Gone(b, g, v) = Gone(a, h, v)
    <2>1. b[o].status # "none"
      BY <1>4
    <2>2. g = [h EXCEPT ![o] = Append(h[o], "create")]
      BY <1>5
    <2>3. a[o].status = "none" /\ h[o] = <<>>
      BY <1>5
    <2>4. \A p \in Orders \ {o} : b[p] = a[p]
      BY <1>4
    <2>5. NewOrder(a, b, h, g, o)
      BY <1>7, <1>8, <2>1, <2>2, <2>3, <2>4 DEF NewOrder
    <2>6. QED
      BY <2>5, GonePlaced
  <1>10. IsFiniteSet(PlacedOf(b))
    <2>1. PlacedOf(b) = PlacedOf(a) \cup {o}
      BY <1>4 DEF PlacedOf
    <2>2. QED
      BY <1>8, <2>1, FS_AddElement
  <1>11. \A p \in Orders : b[p].status = "none" => g[p] = <<>>
    <2>1. \A p \in Orders \ {o} : g[p] = h[p]
      BY <1>5
    <2>2. QED
      BY <1>1, <1>4, <2>1 DEF LedgerInv
  <1>12. \A v \in Versions : supplied'[v] - stock'[v] = Gone(b, g, v)
    BY <1>1, <1>6, <1>9 DEF LedgerInv
  <1>13. QED
    BY <1>2, <1>10, <1>11, <1>12 DEF LedgerInv

LEMMA LedgerStep == OrderInv /\ LedgerInv /\ [Next]_vars => LedgerInv'
  <1> SUFFICES ASSUME OrderInv, LedgerInv, [Next]_vars PROVE LedgerInv'
    OBVIOUS
  <1>1. ASSUME UNCHANGED <<order, history, stock, supplied>> PROVE LedgerInv'
    BY <1>1, LedgerUnmoved
  <1>2. ASSUME NEW r \in Reqs, Handle(r)
        PROVE  LedgerInv'
    <2>1. CASE \/ CancelRead(r) \/ AcceptRead(r) \/ StockRead(r) \/ AcceptFail(r) \/ DeliveryRead(r)
      BY <1>1, <2>1 DEF CancelRead, AcceptRead, StockRead, AcceptFail, DeliveryRead, rows
    <2>2. QED
      BY <1>2, <2>1, LedgerCommit DEF Handle
  <1>3. ASSUME NEW o \in Orders, ConfirmPayment(o)
        PROVE  LedgerInv'
    <2>1. order \in [Orders -> OrderRow]
      BY DEF OrderInv, TypeOK
    <2>2. order' = [order EXCEPT ![o].paid = TRUE] /\ UNCHANGED <<history, stock, supplied>>
      BY <1>3 DEF ConfirmPayment
    <2>3. \A p \in Orders : order'[p].status = order[p].status /\ order'[p].lines = order[p].lines
      BY <2>1, <2>2 DEF OrderRow
    <2>4. QED
      BY <2>2, <2>3, LedgerUnmoved
  <1>4. ASSUME NEW v \in Versions, UpdateGoodsVersion(v)
        PROVE  LedgerInv'
    <2>1. PICK n \in Counts : /\ stock' = [stock EXCEPT ![v] = n]
                              /\ supplied' = [supplied EXCEPT ![v] = supplied[v] + n - stock[v]]
      BY <1>4 DEF UpdateGoodsVersion
    <2>2. n \in Int
      BY OrdersAssumption
    <2>3. stock \in [Versions -> Int] /\ supplied \in [Versions -> Int]
      BY DEF OrderInv, TypeOK
    <2>4. \A w \in Versions : supplied'[w] - stock'[w] = supplied[w] - stock[w]
      BY <2>1, <2>2, <2>3
    <2>5. UNCHANGED <<order, history>>
      BY <1>4 DEF UpdateGoodsVersion
    <2>6. QED
      BY <2>4, <2>5, LedgerUnmoved
  <1>5. ASSUME \/ \E v \in Versions : RemoveVersion(v)
               \/ Crash
               \/ UNCHANGED vars
        PROVE  UNCHANGED <<order, history, stock, supplied>>
    BY <1>5 DEF RemoveVersion, Crash, rows, vars
  <1>6. QED
    BY <1>1, <1>2, <1>3, <1>4, <1>5, LedgerPlace DEF Next

LEMMA LedgerInit == Init => LedgerInv
  <1> SUFFICES ASSUME Init PROVE LedgerInv
    OBVIOUS
  <1>1. PlacedOf(order) = {}
    BY DEF Init, PlacedOf, NoOrder
  <1>2. \A v \in Versions : Gone(order, history, v) = 0
    BY <1>1, SumEmpty DEF Gone
  <1>3. \A v \in Versions : supplied[v] - stock[v] = 0
    <2>1. stock \in [Versions -> Counts] /\ supplied = stock
      BY DEF Init
    <2>2. \A v \in Versions : stock[v] \in Int
      <3>1. \A n \in Counts : n \in Int
        BY OrdersAssumption
      <3>2. \A v \in Versions : stock[v] \in Counts
        BY <2>1
      <3>3. QED
        BY <3>1, <3>2
    <2>3. QED
      BY <2>1, <2>2
  <1>4. \A o \in Orders : history[o] = <<>>
    BY DEF Init
  <1>5. QED
    BY <1>1, <1>2, <1>3, <1>4, FS_EmptySet DEF LedgerInv

(***************************************************************************)
(* Stock is what merchants entered less what the accepts took, whichever   *)
(* requests race, fail or die.                                             *)
(***************************************************************************)
THEOREM StockAlwaysExplained == StoreSpec => []StockLedger
  <1>1. StoreInit => OrderPart /\ LedgerInv
    BY OrdersInitInv, LedgerInit DEF StoreInit, OrderPart
  <1>2. OrderPart /\ [StoreNext]_storeVars => OrderPart'
    BY OrdersStep, Parts DEF OrderPart
  <1>3. OrderPart /\ LedgerInv /\ [StoreNext]_storeVars => LedgerInv'
    <2> SUFFICES ASSUME OrderPart, LedgerInv, [StoreNext]_storeVars PROVE LedgerInv'
      OBVIOUS
    <2>1. CASE part = "orders"
      BY <2>1, LedgerStep, Parts DEF OrderPart
    <2>2. CASE part # "orders"
      <3>1. UNCHANGED <<order, history, stock, supplied>>
        BY <2>2 DEF StoreNext, storeVars, vars
      <3>2. QED
        BY <3>1, LedgerUnmoved
    <2>3. QED
      BY <2>1, <2>2
  <1>4. QED
    BY <1>1, <1>2, <1>3, LedgerSums, PTL DEF StoreSpec, storeVars

(***************************************************************************)
(* Applications.  What was previewed is what is there, for an application  *)
(* no edit has crossed: where it stands reviewed or previewed, and where a *)
(* call is about to review or to approve it.                               *)
(***************************************************************************)
ReviewSteps == {"idle", "edit", "preview", "history", "review", "approve", "freeze"}

StoreStatuses  == {"none", "pending", "approved", "preview", "reviewed", "frozen"}
HistoryActions == {"none", "apply", "approved", "updated", "preview", "reviewed", "frozen"}

FolderType == [store : Stores \cup {"none"}, content : Nat, pending : BOOLEAN]

SeenAsIs(s) == s \notin aCrossed => seen[s] = content[s]

(* What a call carries.                                                    *)
FolderHolds(at, k) ==
    /\ at # "idle" => k.store \in Stores
    /\ at # "idle" /\ k.store \notin aCrossed => k.content = content[k.store]
    /\ at \in {"review", "approve"} => SeenAsIs(k.store)

ApplicationsTyped ==
    /\ status \in [Stores -> StoreStatuses] /\ newest \in [Stores -> HistoryActions]
    /\ quota \subseteq Stores
    /\ granted \in [Stores -> Nat]
    /\ content \in [Stores -> Nat] /\ seen \in [Stores -> Nat]
    /\ aStep \in [Callers -> ReviewSteps]
    /\ aHeld \in [Callers -> FolderType]

ApplicationInv ==
    /\ ApplicationsTyped
    /\ Applied!ApprovedHasQuota
    /\ \A s \in Stores : status[s] = "reviewed" \/ newest[s] = "preview" => SeenAsIs(s)
    /\ \A c \in Callers : FolderHolds(aStep[c], aHeld[c])

ApplicationPart == part = "application" => ApplicationInv

LEMMA EmptyFolder ==
  Applied!NoWork \in FolderType /\ FolderHolds("idle", Applied!NoWork)
  BY DEF Applied!NoWork, FolderType, FolderHolds

LEMMA ApplicationsInitInv == Applied!ApplicationsInit => ApplicationInv
  <1> SUFFICES ASSUME Applied!ApplicationsInit PROVE ApplicationInv
    OBVIOUS
  <1>1. ApplicationsTyped
    <2>1. PICK legacy : legacy = CHOOSE s \in Stores : TRUE
      OBVIOUS
    <2>2. /\ status = [s \in Stores |-> IF s = legacy THEN "pending" ELSE "none"]
          /\ newest = [s \in Stores |-> IF s = legacy THEN "apply" ELSE "none"]
      BY <2>1 DEF Applied!ApplicationsInit
    <2>3. status \in [Stores -> StoreStatuses] /\ newest \in [Stores -> HistoryActions]
      BY <2>2 DEF StoreStatuses, HistoryActions
    <2>4. QED
      BY <2>3, EmptyFolder DEF Applied!ApplicationsInit, ApplicationsTyped, ReviewSteps
  <1>2. Applied!ApprovedHasQuota
    BY DEF Applied!ApplicationsInit, Applied!ApprovedHasQuota
  <1>3. \A s \in Stores : status[s] # "reviewed" /\ newest[s] # "preview"
    BY DEF Applied!ApplicationsInit
  <1>4. \A c \in Callers : aStep[c] = "idle" /\ aHeld[c] = Applied!NoWork
    BY DEF Applied!ApplicationsInit
  <1>5. \A c \in Callers : FolderHolds(aStep[c], aHeld[c])
    BY <1>4, EmptyFolder
  <1>6. QED
    BY <1>1, <1>2, <1>3, <1>5 DEF ApplicationInv

LEMMA FolderMoves ==
  ASSUME ApplicationInv, NEW c \in Callers, NEW at \in ReviewSteps, NEW k \in FolderType,
         Applied!Put(c, at, k)
  PROVE  /\ aStep' \in [Callers -> ReviewSteps] /\ aHeld' \in [Callers -> FolderType]
         /\ aStep'[c] = at /\ aHeld'[c] = k
         /\ \A b \in Callers \ {c} : aStep'[b] = aStep[b] /\ aHeld'[b] = aHeld[b]
  BY DEF ApplicationInv, ApplicationsTyped, Applied!Put

(* No step of another one spoils what a call carries: it sees the content  *)
(* as it was, or its store is crossed.                                     *)
LEMMA FoldersKeep ==
  ASSUME NEW at, NEW k, FolderHolds(at, k),
         aCrossed \subseteq aCrossed',
         k.store \notin aCrossed' => content'[k.store] = content[k.store],
         k.store \notin aCrossed' => seen'[k.store] \in {seen[k.store], content[k.store]}
  PROVE  FolderHolds(at, k)'
  BY DEF FolderHolds, SeenAsIs

LEMMA OtherFolders ==
  ASSUME ApplicationInv, NEW c \in Callers, NEW at, NEW k, FolderHolds(at, k)',
         aStep'[c] = at, aHeld'[c] = k,
         \A b \in Callers \ {c} : aStep'[b] = aStep[b] /\ aHeld'[b] = aHeld[b],
         aCrossed \subseteq aCrossed',
         \A b \in Callers \ {c}, s \in Stores :
             aHeld[b].store = s /\ s \notin aCrossed' =>
                 content'[s] = content[s] /\ seen'[s] \in {seen[s], content[s]}
  PROVE  \A b \in Callers : FolderHolds(aStep[b], aHeld[b])'
  <1> SUFFICES ASSUME NEW b \in Callers PROVE FolderHolds(aStep[b], aHeld[b])'
    OBVIOUS
  <1>1. CASE b = c
    BY <1>1 DEF FolderHolds, SeenAsIs
  <1>2. CASE b # c
    <2>1. PICK q : q = aStep[b]
      OBVIOUS
    <2>2. PICK h : h = aHeld[b]
      OBVIOUS
    <2>3. FolderHolds(q, h)
      BY <2>1, <2>2 DEF ApplicationInv
    <2>4. FolderHolds(q, h)'
      <3>1. CASE q = "idle"
        BY <3>1 DEF FolderHolds
      <3>2. CASE q # "idle"
        BY <1>2, <2>2, <2>3, <3>2, FoldersKeep DEF FolderHolds
      <3>3. QED
        BY <3>1, <3>2
    <2>5. aStep'[b] = q /\ aHeld'[b] = h
      BY <1>2, <2>1, <2>2
    <2>6. QED
      BY <2>4, <2>5 DEF FolderHolds, SeenAsIs
  <1>3. QED
    BY <1>1, <1>2

(* A call that only reads goes on with what it read.                       *)
LEMMA FolderReads ==
  ASSUME ApplicationInv, NEW c \in Callers, NEW at \in ReviewSteps, NEW k \in FolderType,
         Applied!Put(c, at, k), FolderHolds(at, k),
         UNCHANGED <<status, newest, quota, granted, content, seen, aCrossed>>
  PROVE  ApplicationInv'
  <1>1. /\ aStep' \in [Callers -> ReviewSteps] /\ aHeld' \in [Callers -> FolderType]
        /\ aStep'[c] = at /\ aHeld'[c] = k
        /\ \A b \in Callers \ {c} : aStep'[b] = aStep[b] /\ aHeld'[b] = aHeld[b]
    BY FolderMoves
  <1>2. FolderHolds(at, k)'
    BY DEF FolderHolds, SeenAsIs
  <1>3. \A b \in Callers : FolderHolds(aStep[b], aHeld[b])'
    BY <1>1, <1>2, OtherFolders
  <1>4. ApplicationsTyped'
    BY <1>1 DEF ApplicationInv, ApplicationsTyped
  <1>5. QED
    BY <1>3, <1>4 DEF ApplicationInv, Applied!ApprovedHasQuota, SeenAsIs

LEMMA BeginStep ==
  ASSUME ApplicationInv, NEW c \in Callers, NEW s \in Stores,
         NEW at \in {"edit", "preview", "history", "approve", "freeze"}, Applied!Begin(c, at, s),
         at = "approve" => status[s] = "reviewed"
  PROVE  ApplicationInv'
  <1>1. PICK waits \in BOOLEAN : waits = (status[s] = "pending")
    OBVIOUS
  <1>2. PICK k : k = [store |-> s, content |-> content[s], pending |-> waits]
    OBVIOUS
  <1>3. Applied!Put(c, at, k) /\ UNCHANGED <<status, newest, quota, granted, content, seen, aCrossed>>
    BY <1>1, <1>2 DEF Applied!Begin
  <1>4. k \in FolderType /\ k.store = s /\ k.content = content[s]
    BY <1>2 DEF ApplicationInv, ApplicationsTyped, FolderType
  <1>5. FolderHolds(at, k)
    BY <1>4 DEF FolderHolds, ApplicationInv
  <1>6. QED
    BY <1>3, <1>4, <1>5, FolderReads DEF ReviewSteps

(* A status is written, with its history row.                              *)
LEMMA StoreWritten ==
  ASSUME ApplicationInv, NEW s \in Stores, NEW to \in StoreStatuses, NEW action \in HistoryActions,
         status' = [status EXCEPT ![s] = to], newest' = [newest EXCEPT ![s] = action],
         quota' \subseteq Stores, granted' \in [Stores -> Nat],
         content' \in [Stores -> Nat], seen' \in [Stores -> Nat],
         aStep' \in [Callers -> ReviewSteps], aHeld' \in [Callers -> FolderType],
         Applied!ApprovedHasQuota', aCrossed \subseteq aCrossed',
         \A r \in Stores \ {s} : content'[r] = content[r] /\ seen'[r] = seen[r],
         to = "reviewed" \/ action = "preview" => SeenAsIs(s)',
         \A b \in Callers : FolderHolds(aStep[b], aHeld[b])'
  PROVE  ApplicationInv'
  <1>1. /\ status' \in [Stores -> StoreStatuses] /\ newest' \in [Stores -> HistoryActions]
        /\ status'[s] = to /\ newest'[s] = action
        /\ \A r \in Stores \ {s} : status'[r] = status[r] /\ newest'[r] = newest[r]
    BY DEF ApplicationInv, ApplicationsTyped
  <1>2. ApplicationsTyped'
    BY <1>1 DEF ApplicationsTyped, StoreStatuses, HistoryActions, ReviewSteps, FolderType
  <1>3. \A r \in Stores \ {s} : SeenAsIs(r) => SeenAsIs(r)'
    BY DEF SeenAsIs
  <1>4. \A r \in Stores : status'[r] = "reviewed" \/ newest'[r] = "preview" => SeenAsIs(r)'
    BY <1>1, <1>3 DEF ApplicationInv
  <1>5. QED
    BY <1>2, <1>4 DEF ApplicationInv

LEMMA FolderStore ==
  ASSUME ApplicationInv, NEW c \in Callers, aStep[c] # "idle"
  PROVE  /\ aHeld[c].store \in Stores /\ aHeld[c].content \in Nat
         /\ FolderHolds(aStep[c], aHeld[c])
  BY DEF ApplicationInv, ApplicationsTyped, FolderHolds, FolderType

(* A call commits and is done.                                             *)
LEMMA CallCommits ==
  ASSUME ApplicationInv, NEW c \in Callers, NEW s \in Stores,
         NEW to \in StoreStatuses, NEW action \in HistoryActions, Applied!Commit(c, s, to, action),
         quota' \subseteq Stores, granted' \in [Stores -> Nat],
         content' \in [Stores -> Nat], seen' \in [Stores -> Nat],
         Applied!ApprovedHasQuota', aCrossed \subseteq aCrossed',
         \A r \in Stores \ {s} : content'[r] = content[r] /\ seen'[r] = seen[r],
         to = "reviewed" \/ action = "preview" => SeenAsIs(s)',
         \A b \in Callers \ {c} : aHeld[b].store = s /\ s \notin aCrossed' =>
             content'[s] = content[s] /\ seen'[s] \in {seen[s], content[s]}
  PROVE  ApplicationInv'
  <1>1. /\ aStep' \in [Callers -> ReviewSteps] /\ aHeld' \in [Callers -> FolderType]
        /\ aStep'[c] = "idle" /\ aHeld'[c] = Applied!NoWork
        /\ \A b \in Callers \ {c} : aStep'[b] = aStep[b] /\ aHeld'[b] = aHeld[b]
    BY FolderMoves, EmptyFolder DEF Applied!Commit, Applied!Quit, ReviewSteps
  <1>2. FolderHolds("idle", Applied!NoWork)'
    BY DEF FolderHolds
  <1>3. \A b \in Callers \ {c}, r \in Stores :
           aHeld[b].store = r /\ r \notin aCrossed' =>
               content'[r] = content[r] /\ seen'[r] \in {seen[r], content[r]}
    OBVIOUS
  <1>4. \A b \in Callers : FolderHolds(aStep[b], aHeld[b])'
    BY <1>1, <1>2, <1>3, OtherFolders
  <1>5. QED
    BY <1>1, <1>4, StoreWritten DEF Applied!Commit

LEMMA EditStep ==
  ASSUME ApplicationInv, NEW c \in Callers, Applied!Edit(c)
  PROVE  ApplicationInv'
  <1>1. PICK s \in Stores : s = aHeld[c].store
    BY FolderStore DEF Applied!Edit
  <1>2. /\ Applied!Commit(c, s, "pending", "updated")
        /\ content' = [content EXCEPT ![s] = @ + 1]
        /\ aCrossed' = IF \E b \in Callers \ {c} : aHeld[b].store = s THEN aCrossed \cup {s} ELSE aCrossed
        /\ UNCHANGED <<quota, granted, seen>>
    BY <1>1 DEF Applied!Edit, Applied!Edited
  <1>3. content \in [Stores -> Nat] /\ ApplicationsTyped
    BY DEF ApplicationInv, ApplicationsTyped
  <1>4. content' \in [Stores -> Nat] /\ \A r \in Stores \ {s} : content'[r] = content[r]
    BY <1>2, <1>3
  <1>5. Applied!ApprovedHasQuota'
    BY <1>2, <1>3 DEF ApplicationInv, ApplicationsTyped, Applied!ApprovedHasQuota, Applied!Commit
  <1>6. QED
    BY <1>2, <1>3, <1>4, <1>5, CallCommits DEF ApplicationsTyped, StoreStatuses, HistoryActions

LEMMA PreviewStep ==
  ASSUME ApplicationInv, NEW c \in Callers, Applied!Preview(c)
  PROVE  ApplicationInv'
  <1>1. PICK s \in Stores : s = aHeld[c].store
    BY FolderStore DEF Applied!Preview
  <1>2. PICK n \in Nat : n = aHeld[c].content
    BY FolderStore DEF Applied!Preview
  <1>3. /\ Applied!Commit(c, s, "preview", "preview")
        /\ seen' = [seen EXCEPT ![s] = n]
        /\ UNCHANGED <<quota, granted, content, aCrossed>>
    BY <1>1, <1>2 DEF Applied!Preview
  <1>4. s \notin aCrossed => n = content[s]
    BY <1>1, <1>2, FolderStore DEF Applied!Preview, FolderHolds
  <1>5. ApplicationsTyped
    BY DEF ApplicationInv
  <1>6. /\ seen' \in [Stores -> Nat] /\ seen'[s] = n
        /\ \A r \in Stores \ {s} : seen'[r] = seen[r]
    BY <1>3, <1>5 DEF ApplicationsTyped
  <1>7. SeenAsIs(s)'
    BY <1>3, <1>4, <1>6 DEF SeenAsIs
  <1>8. Applied!ApprovedHasQuota'
    BY <1>3, <1>5 DEF ApplicationInv, ApplicationsTyped, Applied!ApprovedHasQuota, Applied!Commit
  <1>9. QED
    BY <1>3, <1>4, <1>5, <1>6, <1>7, <1>8, CallCommits DEF ApplicationsTyped, StoreStatuses, HistoryActions

LEMMA StatusSteps ==
  ASSUME ApplicationInv, NEW c \in Callers, Applied!Review(c) \/ Applied!Frozen(c)
  PROVE  ApplicationInv'
  <1>1. PICK s \in Stores : s = aHeld[c].store
    BY FolderStore DEF Applied!Review, Applied!Frozen
  <1>2. UNCHANGED <<quota, granted, content, seen, aCrossed>>
    BY DEF Applied!Review, Applied!Frozen
  <1>3. PICK to \in {"reviewed", "frozen"} :
           Applied!Commit(c, s, to, to) /\ (to = "reviewed" => aStep[c] = "review")
    BY <1>1 DEF Applied!Review, Applied!Frozen
  <1>4. to = "reviewed" => SeenAsIs(s)'
    BY <1>1, <1>2, <1>3, FolderStore DEF FolderHolds, SeenAsIs
  <1>5. ApplicationsTyped
    BY DEF ApplicationInv
  <1>6. Applied!ApprovedHasQuota'
    BY <1>2, <1>3, <1>5 DEF ApplicationInv, ApplicationsTyped, Applied!ApprovedHasQuota, Applied!Commit
  <1>7. QED
    BY <1>2, <1>3, <1>4, <1>5, <1>6, CallCommits DEF ApplicationsTyped, StoreStatuses, HistoryActions

LEMMA ApproveStep ==
  ASSUME ApplicationInv, NEW c \in Callers, Applied!Approve(c)
  PROVE  ApplicationInv'
  <1>1. PICK s \in Stores : s = aHeld[c].store
    BY FolderStore DEF Applied!Approve
  <1>2. UNCHANGED <<content, seen, aCrossed>>
    BY DEF Applied!Approve
  <1>3. ApplicationsTyped
    BY DEF ApplicationInv
  <1>4. CASE Applied!Quit(c) /\ UNCHANGED <<status, newest, quota, granted>>
    BY <1>2, <1>4, EmptyFolder, FolderReads DEF Applied!Quit, ReviewSteps
  <1>5. CASE /\ s \notin quota
             /\ Applied!Commit(c, s, "approved", "approved")
             /\ quota' = quota \cup {s}
             /\ granted' = [granted EXCEPT ![s] = @ + 1]
    <2>1. granted[s] = 0
      BY <1>5 DEF ApplicationInv, Applied!ApprovedHasQuota
    <2>2. /\ granted' \in [Stores -> Nat] /\ granted'[s] = 1
          /\ \A r \in Stores \ {s} : granted'[r] = granted[r]
      BY <1>3, <1>5, <2>1 DEF ApplicationsTyped
    <2>3. Applied!ApprovedHasQuota'
      BY <1>3, <1>5, <2>2 DEF ApplicationInv, ApplicationsTyped, Applied!ApprovedHasQuota, Applied!Commit
    <2>4. quota' \subseteq Stores
      BY <1>3, <1>5 DEF ApplicationsTyped
    <2>5. QED
      BY <1>2, <1>3, <1>5, <2>2, <2>3, <2>4, CallCommits
         DEF ApplicationsTyped, StoreStatuses, HistoryActions
  <1>6. QED
    BY <1>1, <1>4, <1>5 DEF Applied!Approve, Applied!HasQuota

(* Calls that no caller has begun: they write at once.                     *)
LEMMA OpenStep ==
  ASSUME ApplicationInv, NEW s \in Stores, Applied!Open(s)
  PROVE  ApplicationInv'
  <1>1. ApplicationsTyped
    BY DEF ApplicationInv
  <1>2. /\ status' = [status EXCEPT ![s] = "approved"] /\ newest' = [newest EXCEPT ![s] = "approved"]
        /\ quota' = quota \cup {s} /\ granted' = [granted EXCEPT ![s] = 1]
        /\ seen' = [seen EXCEPT ![s] = content[s]]
        /\ UNCHANGED <<content, aStep, aHeld, aCrossed>>
    BY DEF Applied!Open
  <1>3. /\ seen' \in [Stores -> Nat] /\ seen'[s] = content[s]
        /\ \A r \in Stores \ {s} : seen'[r] = seen[r]
    BY <1>1, <1>2 DEF ApplicationsTyped
  <1>4. granted' \in [Stores -> Nat] /\ quota' \subseteq Stores
    BY <1>1, <1>2 DEF ApplicationsTyped
  <1>5. Applied!ApprovedHasQuota'
    BY <1>1, <1>2 DEF ApplicationInv, ApplicationsTyped, Applied!ApprovedHasQuota
  <1>6. \A b \in Callers : FolderHolds(aStep[b], aHeld[b])'
    <2> SUFFICES ASSUME NEW b \in Callers PROVE FolderHolds(aStep[b], aHeld[b])'
      OBVIOUS
    <2>1. PICK q : q = aStep[b]
      OBVIOUS
    <2>2. PICK h : h = aHeld[b]
      OBVIOUS
    <2>3. FolderHolds(q, h)
      BY <2>1, <2>2 DEF ApplicationInv
    <2>4. FolderHolds(q, h)'
      <3>1. CASE q = "idle"
        BY <3>1 DEF FolderHolds
      <3>2. CASE q # "idle"
        BY <1>2, <1>3, <2>3, <3>2, FoldersKeep DEF FolderHolds
      <3>3. QED
        BY <3>1, <3>2
    <2>5. QED
      BY <1>2, <2>1, <2>2, <2>4 DEF FolderHolds, SeenAsIs
  <1>7. QED
    BY <1>1, <1>2, <1>3, <1>4, <1>5, <1>6, StoreWritten
       DEF ApplicationsTyped, StoreStatuses, HistoryActions

LEMMA NoteStep ==
  ASSUME ApplicationInv, NEW s \in Stores, Applied!Note(s)
  PROVE  ApplicationInv'
  <1>1. /\ newest' = [newest EXCEPT ![s] = "updated"]
        /\ UNCHANGED <<status, quota, granted, content, seen, aStep, aHeld, aCrossed>>
    BY DEF Applied!Note
  <1>2. ApplicationsTyped'
    BY <1>1 DEF ApplicationInv, ApplicationsTyped, HistoryActions
  <1>3. \A r \in Stores : newest'[r] = "preview" => newest[r] = "preview"
    BY <1>1 DEF ApplicationInv, ApplicationsTyped
  <1>4. QED
    BY <1>1, <1>2, <1>3 DEF ApplicationInv, Applied!ApprovedHasQuota, SeenAsIs, FolderHolds

LEMMA ReviewHistoryStep ==
  ASSUME ApplicationInv, NEW c \in Callers, Applied!ReviewHistory(c)
  PROVE  ApplicationInv'
  <1>1. PICK k \in FolderType : k = aHeld[c]
    BY DEF ApplicationInv, ApplicationsTyped
  <1>2. /\ aStep[c] = "history" /\ UNCHANGED <<status, newest, quota, granted, content, seen, aCrossed>>
        /\ \/ newest[k.store] = "preview" /\ Applied!Put(c, "review", k)
           \/ Applied!Put(c, "idle", Applied!NoWork)
    BY <1>1 DEF Applied!ReviewHistory, Applied!Reviewable, Applied!Quit
  <1>3. FolderHolds("history", k)
    BY <1>1, <1>2 DEF ApplicationInv
  <1>4. newest[k.store] = "preview" => FolderHolds("review", k)
    BY <1>3 DEF ApplicationInv, FolderHolds
  <1>5. QED
    BY <1>2, <1>4, EmptyFolder, FolderReads DEF ReviewSteps

LEMMA ApplicationsRestart ==
  ASSUME ApplicationInv, Applied!Restart \/ UNCHANGED applicationVars
  PROVE  ApplicationInv'
  <1>1. UNCHANGED <<status, newest, quota, granted, content, seen, aCrossed>>
    BY DEF Applied!Restart, applicationVars
  <1>2. /\ aStep' \in [Callers -> ReviewSteps] /\ aHeld' \in [Callers -> FolderType]
        /\ \A c \in Callers : \/ aStep'[c] = "idle"
                              \/ aStep'[c] = aStep[c] /\ aHeld'[c] = aHeld[c]
    <2>1. CASE Applied!Restart
      BY <2>1, EmptyFolder DEF Applied!Restart, ReviewSteps
    <2>2. CASE UNCHANGED applicationVars
      BY <2>2 DEF applicationVars, ApplicationInv, ApplicationsTyped
    <2>3. QED
      BY <2>1, <2>2
  <1>3. ApplicationsTyped'
    BY <1>1, <1>2 DEF ApplicationInv, ApplicationsTyped
  <1>4. \A c \in Callers : FolderHolds(aStep[c], aHeld[c])'
    BY <1>1, <1>2 DEF ApplicationInv, FolderHolds, SeenAsIs
  <1>5. QED
    BY <1>1, <1>3, <1>4 DEF ApplicationInv, Applied!ApprovedHasQuota, SeenAsIs

LEMMA ApplicationsStep ==
  ApplicationInv /\ [Applied!ApplicationsNext]_applicationVars => ApplicationInv'
  <1> SUFFICES ASSUME ApplicationInv, [Applied!ApplicationsNext]_applicationVars
               PROVE  ApplicationInv'
    OBVIOUS
  <1>1. ASSUME NEW s \in Stores, Applied!Open(s) \/ Applied!Note(s)
        PROVE  ApplicationInv'
    BY <1>1, OpenStep, NoteStep
  <1>2. ASSUME NEW c \in Callers, NEW s \in Stores,
               \/ Applied!EditRead(c, s) \/ Applied!PreviewRead(c, s) \/ Applied!ReviewRead(c, s)
               \/ Applied!ApproveRead(c, s) \/ Applied!FrozenRead(c, s)
        PROVE  ApplicationInv'
    BY <1>2, BeginStep DEF Applied!EditRead, Applied!PreviewRead, Applied!ReviewRead,
                           Applied!ApproveRead, Applied!FrozenRead
  <1>3. ASSUME NEW c \in Callers,
               \/ Applied!Edit(c) \/ Applied!Preview(c) \/ Applied!ReviewHistory(c)
               \/ Applied!Review(c) \/ Applied!Approve(c) \/ Applied!Frozen(c)
        PROVE  ApplicationInv'
    BY <1>3, EditStep, PreviewStep, ReviewHistoryStep, StatusSteps, ApproveStep
  <1>4. CASE Applied!Restart \/ UNCHANGED applicationVars
    BY <1>4, ApplicationsRestart
  <1>5. QED
    BY <1>1, <1>2, <1>3, <1>4 DEF Applied!ApplicationsNext

(* Who writes the two statuses that matter: an approval, with what was     *)
(* seen; and a review of what was previewed.                               *)
LEMMA StatusWriters ==
  ASSUME ApplicationInv, [Applied!ApplicationsNext]_applicationVars,
         NEW s \in Stores, status'[s] # status[s]
  PROVE  \/ Applied!Open(s)
         \/ \E c \in Callers : /\ aHeld[c].store = s
                               /\ \/ Applied!Edit(c) /\ status'[s] = "pending"
                                  \/ Applied!Preview(c) /\ status'[s] = "preview"
                                  \/ Applied!Review(c) /\ status'[s] = "reviewed"
                                  \/ Applied!Approve(c) /\ status'[s] = "approved"
                                  \/ Applied!Frozen(c) /\ status'[s] = "frozen"
  <1>1. status \in [Stores -> StoreStatuses]
    BY DEF ApplicationInv, ApplicationsTyped
  <1>2. ASSUME NEW r \in Stores, Applied!Open(r) \/ Applied!Note(r)
        PROVE  Applied!Open(s)
    BY <1>1, <1>2 DEF Applied!Open, Applied!Note
  <1>3. ASSUME NEW c \in Callers, NEW r \in Stores,
               \/ Applied!EditRead(c, r) \/ Applied!PreviewRead(c, r) \/ Applied!ReviewRead(c, r)
               \/ Applied!ApproveRead(c, r) \/ Applied!FrozenRead(c, r)
        PROVE  FALSE
    BY <1>3 DEF Applied!EditRead, Applied!PreviewRead, Applied!ReviewRead, Applied!ApproveRead,
                Applied!FrozenRead, Applied!Begin
  <1>4. ASSUME NEW c \in Callers,
               \/ Applied!Edit(c) \/ Applied!Preview(c) \/ Applied!ReviewHistory(c)
               \/ Applied!Review(c) \/ Applied!Approve(c) \/ Applied!Frozen(c)
        PROVE  /\ aHeld[c].store = s
               /\ \/ Applied!Edit(c) /\ status'[s] = "pending"
                  \/ Applied!Preview(c) /\ status'[s] = "preview"
                  \/ Applied!Review(c) /\ status'[s] = "reviewed"
                  \/ Applied!Approve(c) /\ status'[s] = "approved"
                  \/ Applied!Frozen(c) /\ status'[s] = "frozen"
    BY <1>1, <1>4 DEF Applied!Edit, Applied!Edited, Applied!Preview, Applied!ReviewHistory,
                      Applied!Review, Applied!Approve, Applied!Frozen, Applied!Commit
  <1>5. ~(Applied!Restart \/ UNCHANGED applicationVars)
    BY DEF Applied!Restart, applicationVars
  <1>6. QED
    BY <1>2, <1>3, <1>4, <1>5 DEF Applied!ApplicationsNext

LEMMA ApprovalsStep ==
  ASSUME ApplicationInv, [Applied!ApplicationsNext]_applicationVars
  PROVE  Applied!ApprovedAsSeen /\ Applied!ReviewFollowsPreview
  <1>1. ASSUME NEW s \in Stores \ aCrossed, status[s] # "approved", status'[s] = "approved"
        PROVE  seen'[s] = content'[s]
    <2>1. CASE Applied!Open(s)
      BY <2>1 DEF Applied!Open, ApplicationInv, ApplicationsTyped
    <2>2. ASSUME NEW c \in Callers, aHeld[c].store = s, Applied!Approve(c)
          PROVE  seen'[s] = content'[s]
      <3>1. FolderHolds("approve", aHeld[c])
        BY <2>2 DEF Applied!Approve, ApplicationInv
      <3>2. QED
        BY <1>1, <2>2, <3>1 DEF Applied!Approve, FolderHolds, SeenAsIs
    <2>3. QED
      BY <1>1, <2>1, <2>2, StatusWriters
  <1>2. ASSUME NEW s \in Stores \ aCrossed, status[s] # "reviewed", status'[s] = "reviewed"
        PROVE  seen[s] = content[s]
    <2>1. ~Applied!Open(s)
      BY <1>2 DEF Applied!Open, ApplicationInv, ApplicationsTyped
    <2>2. ASSUME NEW c \in Callers, aHeld[c].store = s, Applied!Review(c)
          PROVE  seen[s] = content[s]
      <3>1. FolderHolds("review", aHeld[c])
        BY <2>2 DEF Applied!Review, ApplicationInv
      <3>2. QED
        BY <1>2, <2>2, <3>1 DEF FolderHolds, SeenAsIs
    <2>3. QED
      BY <1>2, <2>1, <2>2, StatusWriters
  <1>3. QED
    BY <1>1, <1>2 DEF Applied!ApprovedAsSeen, Applied!ReviewFollowsPreview

(***************************************************************************)
(* A store is approved as its application was previewed and reviewed, if   *)
(* no edit crossed it, and with one quota row and one free order, whatever *)
(* calls race for it.                                                      *)
(***************************************************************************)
THEOREM ApprovalsAlwaysStand == StoreSpec => ApprovalsStand
  <1>1. StoreInit => ApplicationPart
    BY ApplicationsInitInv DEF StoreInit, ApplicationPart
  <1>2. ApplicationPart /\ [StoreNext]_storeVars => ApplicationPart'
    BY ApplicationsStep, Parts DEF ApplicationPart
  <1>3. ApplicationPart => (part = "application" => Applied!ApprovedHasQuota)
    BY DEF ApplicationPart, ApplicationInv
  <1>4. ApplicationPart /\ [StoreNext]_storeVars
          => [part = "application" =>
                 Applied!ApprovedAsSeen /\ Applied!ReviewFollowsPreview]_applicationVars
    BY ApprovalsStep, Parts DEF ApplicationPart
  <1>5. QED
    BY <1>1, <1>2, <1>3, <1>4, PTL DEF StoreSpec, storeVars, ApprovalsStand

(***************************************************************************)
(* The quota of images.  Sets of images and what a write does to them.     *)
(***************************************************************************)
LEMMA SameCardinality == \A S : Goodsroom!Cardinality(S) = Cardinality(S)
  BY DEF Goodsroom!Cardinality, Cardinality

Pictures == {{Goodsroom!Nothing}, {}} \cup {{h} : h \in Images}

Others(v) == UNION {image[w] : w \in Goodsroom!Listed \ {v}}

LEMMA ShownFinite ==
  ASSUME image \in [Pictured -> Pictures]
  PROVE  /\ Goodsroom!Shown \subseteq Images
         /\ IsFiniteSet(Goodsroom!Shown)
         /\ Goodsroom!Used = Cardinality(Goodsroom!Shown) /\ Goodsroom!Used \in Nat
         /\ \A v : /\ Others(v) \subseteq Goodsroom!Shown
                   /\ IsFiniteSet(Others(v)) /\ Cardinality(Others(v)) \in Nat
                   /\ Cardinality(Others(v)) <= Goodsroom!Used
  <1>1. \A v \in Goodsroom!Listed : image[v] \subseteq Images
    BY DEF Goodsroom!Listed, Pictures
  <1>2. Goodsroom!Shown \subseteq Images
    BY <1>1 DEF Goodsroom!Shown
  <1>3. IsFiniteSet(Goodsroom!Shown)
    BY <1>2, FS_Subset, StoreAssumption
  <1>4. Goodsroom!Used = Cardinality(Goodsroom!Shown) /\ Goodsroom!Used \in Nat
    BY <1>3, FS_CardinalityType, SameCardinality DEF Goodsroom!Used
  <1>5. \A v : Others(v) \subseteq Goodsroom!Shown
    BY DEF Others, Goodsroom!Shown
  <1>6. \A v : /\ IsFiniteSet(Others(v)) /\ Cardinality(Others(v)) \in Nat
               /\ Cardinality(Others(v)) <= Goodsroom!Used
    BY <1>3, <1>4, <1>5, FS_Subset, FS_CardinalityType
  <1>7. QED
    BY <1>2, <1>3, <1>4, <1>5, <1>6

(* A version's image and those of the others are all there is.             *)
LEMMA ShownParts ==
  ASSUME image \in [Pictured -> Pictures]
  PROVE  /\ \A v : v \notin Goodsroom!Listed => Others(v) = Goodsroom!Shown
         /\ \A v \in Goodsroom!Listed :
               /\ Goodsroom!Shown = Others(v) \cup image[v]
               /\ Cardinality(image[v]) \in Nat
               /\ Goodsroom!Used <= Cardinality(Others(v)) + Cardinality(image[v])
               /\ (\A w \in Goodsroom!Listed \ {v} : image[v] \cap image[w] = {}) =>
                     Goodsroom!Used = Cardinality(Others(v)) + Cardinality(image[v])
  <1>1. \A v : v \notin Goodsroom!Listed => Others(v) = Goodsroom!Shown
    BY DEF Others, Goodsroom!Shown
  <1>2. ASSUME NEW v \in Goodsroom!Listed
        PROVE  /\ Goodsroom!Shown = Others(v) \cup image[v]
               /\ Cardinality(image[v]) \in Nat
               /\ Goodsroom!Used <= Cardinality(Others(v)) + Cardinality(image[v])
               /\ (\A w \in Goodsroom!Listed \ {v} : image[v] \cap image[w] = {}) =>
                     Goodsroom!Used = Cardinality(Others(v)) + Cardinality(image[v])
    <2>1. Goodsroom!Shown = Others(v) \cup image[v]
      BY DEF Others, Goodsroom!Shown
    <2>2. IsFiniteSet(image[v]) /\ Cardinality(image[v]) \in Nat
      <3>1. image[v] = {} \/ \E h \in Images : image[v] = {h}
        BY DEF Goodsroom!Listed, Pictures
      <3>2. CASE image[v] = {}
        BY <3>2, FS_EmptySet
      <3>3. ASSUME NEW h \in Images, image[v] = {h}
            PROVE  IsFiniteSet(image[v]) /\ Cardinality(image[v]) \in Nat
        <4>1. IsFiniteSet({h}) /\ Cardinality({h}) = 1
          BY FS_Singleton
        <4>2. QED
          BY <3>3, <4>1
      <3>4. QED
        BY <3>1, <3>2, <3>3
    <2>3. PICK i : i = Cardinality(Others(v) \cap image[v])
      OBVIOUS
    <2>4. i \in Nat
      BY <2>2, <2>3, ShownFinite, FS_Intersection, FS_CardinalityType
    <2>5. Goodsroom!Used = Cardinality(Others(v)) + Cardinality(image[v]) - i
      BY <2>1, <2>2, <2>3, ShownFinite, FS_Union
    <2>6. (\A w \in Goodsroom!Listed \ {v} : image[v] \cap image[w] = {}) => i = 0
      <3>1. (\A w \in Goodsroom!Listed \ {v} : image[v] \cap image[w] = {})
               => Others(v) \cap image[v] = {}
        BY DEF Others
      <3>2. QED
        BY <2>3, <3>1, FS_EmptySet
    <2>7. Cardinality(Others(v)) \in Nat
      BY ShownFinite
    <2>8. QED
      BY <2>1, <2>2, <2>4, <2>5, <2>6, <2>7
  <1>3. QED
    BY <1>1, <1>2

LEMMA OneMore ==
  ASSUME NEW S, IsFiniteSet(S), NEW h
  PROVE  /\ IsFiniteSet(S \cup {h})
         /\ Cardinality(S) \in Nat /\ Cardinality(S \cup {h}) \in Nat
         /\ Cardinality(S \cup {h}) <= Cardinality(S) + 1
         /\ h \notin S => Cardinality(S \cup {h}) = Cardinality(S) + 1
  <1>1. Cardinality(S) \in Nat
    BY FS_CardinalityType
  <1>2. /\ IsFiniteSet(S \cup {h})
        /\ Cardinality(S \cup {h}) = IF h \in S THEN Cardinality(S) ELSE Cardinality(S) + 1
    BY FS_AddElement
  <1>3. QED
    BY <1>1, <1>2

(* A version gets an image, or loses its own.                              *)
LEMMA ImageWritten ==
  ASSUME image \in [Pictured -> Pictures], NEW v \in Pictured, NEW h \in Images,
         image' = [image EXCEPT ![v] = {h}]
  PROVE  /\ image' \in [Pictured -> Pictures]
         /\ Goodsroom!Listed' = Goodsroom!Listed \cup {v}
         /\ Goodsroom!Shown' = Others(v) \cup {h}
         /\ Goodsroom!Used' \in Nat /\ Goodsroom!Used' <= Cardinality(Others(v)) + 1
  <1>1. image' \in [Pictured -> Pictures]
    BY DEF Pictures
  <1>2. {h} # {Goodsroom!Nothing}
    BY StoreAssumption DEF Goodsroom!Nothing
  <1>3. /\ image'[v] = {h}
        /\ \A w \in Pictured \ {v} : image'[w] = image[w]
    OBVIOUS
  <1>4. Goodsroom!Listed' = Goodsroom!Listed \cup {v}
    BY <1>2, <1>3 DEF Goodsroom!Listed
  <1>5. Goodsroom!Shown' = UNION {image'[w] : w \in Goodsroom!Listed \cup {v}}
    BY <1>4 DEF Goodsroom!Shown
  <1>6. \A w \in Goodsroom!Listed \ {v} : image'[w] = image[w]
    BY <1>3 DEF Goodsroom!Listed
  <1>7. Goodsroom!Shown' = Others(v) \cup {h}
    BY <1>3, <1>5, <1>6 DEF Others
  <1>8. Goodsroom!Used' = Cardinality(Goodsroom!Shown')
    BY SameCardinality DEF Goodsroom!Used
  <1>9. QED
    BY <1>1, <1>4, <1>7, <1>8, ShownFinite, OneMore

LEMMA ImageRemoved ==
  ASSUME image \in [Pictured -> Pictures], NEW v \in Pictured, NEW none \in {{}, {Goodsroom!Nothing}},
         image' = [image EXCEPT ![v] = none]
  PROVE  /\ image' \in [Pictured -> Pictures]
         /\ Goodsroom!Used' \in Nat /\ Goodsroom!Used' <= Goodsroom!Used
  <1>1. image' \in [Pictured -> Pictures]
    BY DEF Pictures
  <1>2. /\ image'[v] = none
        /\ \A w \in Pictured \ {v} : image'[w] = image[w]
    OBVIOUS
  <1>3. Goodsroom!Shown' \subseteq Goodsroom!Shown
    BY <1>2 DEF Goodsroom!Shown, Goodsroom!Listed
  <1>4. Goodsroom!Used' = Cardinality(Goodsroom!Shown')
    BY SameCardinality DEF Goodsroom!Used
  <1>5. QED
    BY <1>1, <1>3, <1>4, ShownFinite, FS_Subset, FS_CardinalityType

(***************************************************************************)
(* Handlers.  Which of them are under way, and that those of one kind are  *)
(* alone as long as no two have met.                                       *)
(***************************************************************************)
ApproveSteps == {"mark", "read quota", "add"}
UploadSteps  == {"quota", "compute", "fill", "check", "write"}
ImageSteps   == UploadSteps \cup {"drop"}
AdminSteps   == {"idle"} \cup ApproveSteps \cup ImageSteps

WorkType == [op : {"none", "approve", "upload", "remove image"},
             app : Applications \cup {Goodsroom!Nothing},
             version : Pictured \cup {Goodsroom!Nothing},
             image : Images \cup {Goodsroom!Nothing},
             old : Nat, read : Nat, dated : BOOLEAN, quota : Nat]

StepFits(at, k) ==
    /\ at = "idle" => k = Goodsroom!NoWork
    /\ at \in ApproveSteps => k.op = "approve" /\ k.app \in Applications
    /\ at \in UploadSteps => k.op = "upload" /\ k.image \in Images
    /\ at = "drop" => k.op \in {"upload", "remove image"}

GoodsTyped ==
    /\ total \in Nat
    /\ application \in [Applications -> {"none", "waiting", "granted"}]
    /\ image \in [Pictured -> Pictures]
    /\ cache \in Nat \cup {Goodsroom!Nothing}
    /\ iStep \in [Admins -> AdminSteps]
    /\ iHeld \in [Admins -> WorkType]
    /\ \A c \in Admins : StepFits(iStep[c], iHeld[c])
    /\ shared \in BOOLEAN /\ dated \in BOOLEAN
    /\ iLost \subseteq Applications

AloneAt(places) == \A b, c \in Admins : iStep[b] \in places /\ iStep[c] \in places => b = c

Adding == {c \in Admins : iStep[c] \in {"read quota", "add"}}

(* What an approval rests on, and what it has done so far.                 *)
ApprovalHolds(at, k) ==
    /\ at = "mark" => application[k.app] = "waiting"
    /\ at \in {"read quota", "add"} => k.app \notin iLost
    /\ at = "add" => k.quota = total

QuotaRows ==
    /\ iLost \subseteq Goodsroom!Granted
    /\ \A c \in Adding : iHeld[c].app \in Goodsroom!Granted
    /\ "quota" \notin iMixed =>
          /\ AloneAt(ApproveSteps)
          /\ \A c \in Admins : ApprovalHolds(iStep[c], iHeld[c])
          /\ total = FreeQuota + Cardinality(Goodsroom!Granted \ iLost) - Cardinality(Adding)

(* What an upload rests on: its version as it is, the sum of what is shown *)
(* or one that is larger because it is dated, and a quota that only grows. *)
UploadHolds(at, k) ==
    /\ at \in UploadSteps =>
          \/ k.version \in Goodsroom!Listed /\ k.old = Cardinality(image[k.version])
          \/ k.version = Goodsroom!Nothing /\ k.old = 0
    /\ at \in {"quota", "compute", "fill"} => ~k.dated
    /\ at \in {"fill", "check", "write"} => Goodsroom!Used <= k.read
                                            /\ (~k.dated => k.read = Goodsroom!Used)
    /\ at = "write" => cache = Goodsroom!Nothing /\ Goodsroom!Needed(k) <= k.quota

ImageRows ==
    /\ "images" \notin iMixed =>
          /\ AloneAt(ImageSteps)
          /\ \A c \in Admins : UploadHolds(iStep[c], iHeld[c])
          /\ cache # Goodsroom!Nothing =>
                Goodsroom!Used <= cache /\ (~dated => cache = Goodsroom!Used)
    /\ iMixed = {} =>
          /\ \A c \in Admins : iStep[c] \in {"compute", "fill", "check", "write"} => iHeld[c].quota <= total
          /\ shared \/ Goodsroom!Used <= total

GoodsInv == GoodsTyped /\ QuotaRows /\ ImageRows

GoodsPart == part = "images" => GoodsInv

LEMMA NoWorkFits ==
  /\ Goodsroom!NoWork \in WorkType /\ StepFits("idle", Goodsroom!NoWork)
  /\ ~Goodsroom!NoWork.dated
  BY DEF Goodsroom!NoWork, WorkType, StepFits, ApproveSteps, UploadSteps

LEMMA GoodsInitInv == Goodsroom!ImagesInit => GoodsInv
  <1> SUFFICES ASSUME Goodsroom!ImagesInit PROVE GoodsInv
    OBVIOUS
  <1>1. GoodsTyped
    BY NoWorkFits, StoreAssumption DEF Goodsroom!ImagesInit, GoodsTyped, Pictures, AdminSteps
  <1>2. \A c \in Admins : iStep[c] = "idle"
    BY DEF Goodsroom!ImagesInit
  <1>3. Adding = {} /\ Goodsroom!Granted = {} /\ iLost = {} /\ total = FreeQuota /\ FreeQuota \in Nat
    BY <1>2, StoreAssumption DEF Goodsroom!ImagesInit, Adding, Goodsroom!Granted
  <1>4. QuotaRows
    <2>1. Goodsroom!Granted \ iLost = {} /\ Cardinality({}) = 0
      BY <1>3, FS_EmptySet
    <2>2. total = FreeQuota + Cardinality(Goodsroom!Granted \ iLost) - Cardinality(Adding)
      BY <1>3, <2>1
    <2>3. AloneAt(ApproveSteps) /\ \A c \in Admins : ApprovalHolds(iStep[c], iHeld[c])
      BY <1>2 DEF AloneAt, ApproveSteps, ApprovalHolds
    <2>4. QED
      BY <1>3, <2>2, <2>3 DEF QuotaRows
  <1>5. Goodsroom!Used = 0
    <2>1. Goodsroom!Shown = {}
      BY DEF Goodsroom!ImagesInit, Goodsroom!Shown, Goodsroom!Listed
    <2>2. QED
      BY <2>1, FS_EmptySet, SameCardinality DEF Goodsroom!Used
  <1>6. ImageRows
    BY <1>2, <1>3, <1>5 DEF Goodsroom!ImagesInit, ImageRows, AloneAt, ImageSteps, UploadSteps, UploadHolds
  <1>7. QED
    BY <1>1, <1>4, <1>6 DEF GoodsInv

LEMMA GoodsInvSound ==
  ASSUME GoodsInv
  PROVE  /\ Goodsroom!QuotaExplained /\ Goodsroom!UsageKept
         /\ Goodsroom!CacheCovers /\ Goodsroom!RefusalsExplained
  <1>1. Goodsroom!QuotaExplained
    BY SameCardinality DEF GoodsInv, QuotaRows, Adding, Goodsroom!QuotaExplained
  <1>2. Goodsroom!UsageKept
    BY DEF GoodsInv, ImageRows, Goodsroom!UsageKept
  <1>3. Goodsroom!CacheCovers
    BY DEF GoodsInv, ImageRows, Goodsroom!CacheCovers
  <1>4. ASSUME NEW c \in Admins, iStep[c] = "check", Goodsroom!Needed(iHeld[c]) > iHeld[c].quota,
               "images" \notin iMixed, ~iHeld[c].dated, iHeld[c].image \notin Goodsroom!Shown
        PROVE  Goodsroom!Cardinality((UNION {image[v] : v \in Goodsroom!Listed \ {iHeld[c].version}})
                                       \cup {iHeld[c].image}) > iHeld[c].quota
    <2>1. PICK k \in WorkType : k = iHeld[c]
      BY DEF GoodsInv, GoodsTyped
    <2>2. UploadHolds("check", k)
      BY <1>4, <2>1 DEF GoodsInv, ImageRows
    <2>3. image \in [Pictured -> Pictures]
      BY DEF GoodsInv, GoodsTyped
    <2>4. k.read = Goodsroom!Used
      BY <1>4, <2>1, <2>2 DEF UploadHolds
    <2>5. /\ Goodsroom!Used \in Nat /\ Cardinality(Others(k.version)) \in Nat
          /\ IsFiniteSet(Others(k.version)) /\ Others(k.version) \subseteq Goodsroom!Shown
      BY <2>3, ShownFinite
    <2>6. Goodsroom!Used <= Cardinality(Others(k.version)) + k.old
      <3>1. CASE k.version \in Goodsroom!Listed /\ k.old = Cardinality(image[k.version])
        BY <2>3, <3>1, ShownParts
      <3>2. CASE k.version = Goodsroom!Nothing /\ k.old = 0
        <4>1. k.version \notin Goodsroom!Listed
          BY <3>2, StoreAssumption DEF Goodsroom!Listed, Goodsroom!Nothing
        <4>2. Others(k.version) = Goodsroom!Shown
          BY <2>3, <4>1, ShownParts
        <4>3. QED
          BY <2>3, <2>5, <3>2, <4>2, ShownFinite
      <3>3. QED
        BY <2>2, <3>1, <3>2 DEF UploadHolds, UploadSteps
    <2>7. k.image \notin Others(k.version)
      BY <1>4, <2>1, <2>5
    <2>8. Cardinality(Others(k.version) \cup {k.image}) = Cardinality(Others(k.version)) + 1
      BY <2>5, <2>7, OneMore
    <2>9. k.old \in Nat /\ k.quota \in Nat
      BY DEF WorkType
    <2>10. Cardinality(Others(k.version) \cup {k.image}) > k.quota
      BY <1>4, <2>1, <2>4, <2>5, <2>6, <2>8, <2>9 DEF Goodsroom!Needed
    <2>11. QED
      BY <2>1, <2>10, SameCardinality DEF Others
  <1>5. Goodsroom!RefusalsExplained
    BY <1>4 DEF Goodsroom!RefusalsExplained
  <1>6. QED
    BY <1>1, <1>2, <1>3, <1>5

LEMMA WorkMoves ==
  ASSUME GoodsInv, NEW c \in Admins, NEW at \in AdminSteps, NEW k \in WorkType, Goodsroom!Put(c, at, k)
  PROVE  /\ iStep' \in [Admins -> AdminSteps] /\ iHeld' \in [Admins -> WorkType]
         /\ iStep'[c] = at /\ iHeld'[c] = k
         /\ \A b \in Admins \ {c} : iStep'[b] = iStep[b] /\ iHeld'[b] = iHeld[b]
  BY DEF GoodsInv, GoodsTyped, Goodsroom!Put

(* Steps that are not about the quota, and steps that are not about images. *)
LEMMA QuotaStays ==
  ASSUME GoodsInv, UNCHANGED <<total, application, iLost>>, iMixed \subseteq iMixed',
         \A b \in Admins : iStep[b] \in ApproveSteps \/ iStep'[b] \in ApproveSteps =>
                               iStep'[b] = iStep[b] /\ iHeld'[b] = iHeld[b]
  PROVE  QuotaRows'
  <1>1. \A b \in Admins : iStep'[b] \in {"read quota", "add"} <=> iStep[b] \in {"read quota", "add"}
    BY DEF ApproveSteps
  <1>2. Adding' = Adding
    BY <1>1 DEF Adding
  <1>3. Goodsroom!Granted' = Goodsroom!Granted
    BY DEF Goodsroom!Granted
  <1>4. \A b \in Adding : iHeld'[b].app = iHeld[b].app
    BY DEF Adding, ApproveSteps
  <1>5. AloneAt(ApproveSteps) => AloneAt(ApproveSteps)'
    BY DEF AloneAt, ApproveSteps
  <1>6. \A b \in Admins : ApprovalHolds(iStep[b], iHeld[b]) => ApprovalHolds(iStep[b], iHeld[b])'
    <2> SUFFICES ASSUME NEW b \in Admins, ApprovalHolds(iStep[b], iHeld[b])
                 PROVE  ApprovalHolds(iStep[b], iHeld[b])'
      OBVIOUS
    <2>1. CASE iStep'[b] \in ApproveSteps
      BY <2>1 DEF ApprovalHolds
    <2>2. CASE iStep'[b] \notin ApproveSteps
      BY <2>2 DEF ApprovalHolds, ApproveSteps
    <2>3. QED
      BY <2>1, <2>2
  <1>7. QED
    BY <1>2, <1>3, <1>4, <1>5, <1>6 DEF GoodsInv, QuotaRows

LEMMA ImagesStay ==
  ASSUME GoodsInv, UNCHANGED <<image, cache, shared, dated>>, iMixed \subseteq iMixed',
         total' \in Nat, "quota" \notin iMixed' => total <= total',
         \A b \in Admins : iStep[b] \in ImageSteps \/ iStep'[b] \in ImageSteps =>
                               iStep'[b] = iStep[b] /\ iHeld'[b] = iHeld[b]
  PROVE  ImageRows'
  <1>1. AloneAt(ImageSteps) => AloneAt(ImageSteps)'
    BY DEF AloneAt, ImageSteps, UploadSteps
  <1>2. /\ Goodsroom!Used' = Goodsroom!Used
        /\ Goodsroom!Listed' = Goodsroom!Listed
    BY DEF Goodsroom!Used, Goodsroom!Shown, Goodsroom!Listed
  <1>3. \A b \in Admins : UploadHolds(iStep[b], iHeld[b]) => UploadHolds(iStep[b], iHeld[b])'
    <2> SUFFICES ASSUME NEW b \in Admins, UploadHolds(iStep[b], iHeld[b])
                 PROVE  UploadHolds(iStep[b], iHeld[b])'
      OBVIOUS
    <2>1. CASE iStep'[b] \in ImageSteps
      BY <1>2, <2>1 DEF UploadHolds, Goodsroom!Needed
    <2>2. CASE iStep'[b] \notin ImageSteps
      BY <2>2 DEF UploadHolds, ImageSteps, UploadSteps
    <2>3. QED
      BY <2>1, <2>2
  <1>4. ASSUME iMixed' = {}
        PROVE  /\ \A b \in Admins : iStep'[b] \in {"compute", "fill", "check", "write"}
                                       => iHeld'[b].quota <= total'
               /\ shared' \/ Goodsroom!Used' <= total'
    <2>1. iMixed = {} /\ total <= total'
      BY <1>4
    <2>2. total \in Nat /\ Goodsroom!Used \in Nat
      BY ShownFinite DEF GoodsInv, GoodsTyped
    <2>3. \A b \in Admins : iHeld[b].quota \in Nat
      BY DEF GoodsInv, GoodsTyped, WorkType
    <2>4. QED
      BY <1>2, <2>1, <2>2, <2>3 DEF GoodsInv, ImageRows, ImageSteps, UploadSteps
  <1>5. QED
    BY <1>1, <1>2, <1>3, <1>4 DEF GoodsInv, ImageRows

(* Who meets: a handler that starts notes the others of its kind.          *)
LEMMA BusyMeans ==
  ASSUME GoodsInv
  PROVE  /\ Goodsroom!Busy("quota") <=> \E b \in Admins : iStep[b] \in ApproveSteps
         /\ Goodsroom!Busy("images") <=> \E b \in Admins : iStep[b] \in ImageSteps
  <1>1. ASSUME NEW b \in Admins
        PROVE  /\ iStep[b] # "idle" /\ Goodsroom!Kind(iHeld[b].op) = "quota" <=> iStep[b] \in ApproveSteps
               /\ iStep[b] # "idle" /\ Goodsroom!Kind(iHeld[b].op) = "images" <=> iStep[b] \in ImageSteps
    BY DEF GoodsInv, GoodsTyped, StepFits, AdminSteps, ImageSteps, UploadSteps, ApproveSteps, Goodsroom!Kind
  <1>2. QED
    BY <1>1 DEF Goodsroom!Busy

LEMMA MetMeans ==
  ASSUME GoodsInv, NEW op \in {"approve", "upload", "remove image"}, Goodsroom!Met(Goodsroom!Kind(op))
  PROVE  /\ iMixed \subseteq iMixed'
         /\ op = "approve" /\ "quota" \notin iMixed' => \A b \in Admins : iStep[b] \notin ApproveSteps
         /\ op # "approve" /\ "images" \notin iMixed' => \A b \in Admins : iStep[b] \notin ImageSteps
  BY BusyMeans DEF Goodsroom!Met, Goodsroom!Kind

(***************************************************************************)
(* Approvals.                                                              *)
(***************************************************************************)
LEMMA ApplyStep ==
  ASSUME GoodsInv, NEW a \in Applications, Goodsroom!Apply(a)
  PROVE  GoodsInv'
  <1>1. /\ application[a] = "none" /\ application' = [application EXCEPT ![a] = "waiting"]
        /\ UNCHANGED <<total, image, cache, iStep, iHeld, iMixed, shared, dated, iLost>>
    BY DEF Goodsroom!Apply
  <1>2. GoodsTyped'
    BY <1>1 DEF GoodsInv, GoodsTyped
  <1>3. Goodsroom!Granted' = Goodsroom!Granted
    BY <1>1 DEF Goodsroom!Granted, GoodsInv, GoodsTyped
  <1>4. \A b \in Admins : ApprovalHolds(iStep[b], iHeld[b]) => ApprovalHolds(iStep[b], iHeld[b])'
    <2> SUFFICES ASSUME NEW b \in Admins, ApprovalHolds(iStep[b], iHeld[b])
                 PROVE  ApprovalHolds(iStep[b], iHeld[b])'
      OBVIOUS
    <2>1. application'[iHeld[b].app] = application[iHeld[b].app] \/ iHeld[b].app = a
             \/ iStep[b] # "mark"
      BY <1>1 DEF GoodsInv, GoodsTyped, StepFits, ApproveSteps
    <2>2. iHeld[b].app = a => iStep[b] # "mark"
      BY <1>1 DEF ApprovalHolds
    <2>3. QED
      BY <1>1, <2>1, <2>2 DEF ApprovalHolds
  <1>5. QuotaRows'
    BY <1>1, <1>3, <1>4 DEF GoodsInv, QuotaRows, Adding, AloneAt
  <1>6. ImageRows'
    BY <1>1, ImagesStay DEF GoodsInv, GoodsTyped
  <1>7. QED
    BY <1>2, <1>5, <1>6 DEF GoodsInv

LEMMA ApproveStartStep ==
  ASSUME GoodsInv, NEW c \in Admins, NEW a \in Applications, Goodsroom!ApproveStart(c, a)
  PROVE  GoodsInv'
  <1>1. PICK k : k = [Goodsroom!NoWork EXCEPT !.op = "approve", !.app = a]
    OBVIOUS
  <1>2. k \in WorkType /\ StepFits("mark", k) /\ k.app = a
    BY <1>1 DEF Goodsroom!NoWork, WorkType, StepFits, ApproveSteps, UploadSteps
  <1>3. /\ iStep[c] = "idle" /\ application[a] = "waiting" /\ Goodsroom!Put(c, "mark", k)
        /\ Goodsroom!Met(Goodsroom!Kind("approve"))
        /\ UNCHANGED <<total, application, image, cache, shared, dated, iLost>>
    BY <1>1 DEF Goodsroom!ApproveStart, Goodsroom!Starts, Goodsroom!Approvable
  <1>4. /\ iStep' \in [Admins -> AdminSteps] /\ iHeld' \in [Admins -> WorkType]
        /\ iStep'[c] = "mark" /\ iHeld'[c] = k
        /\ \A b \in Admins \ {c} : iStep'[b] = iStep[b] /\ iHeld'[b] = iHeld[b]
    BY <1>2, <1>3, WorkMoves DEF AdminSteps, ApproveSteps
  <1>5. /\ iMixed \subseteq iMixed'
        /\ "quota" \notin iMixed' => \A b \in Admins : iStep[b] \notin ApproveSteps
    BY <1>3, MetMeans
  <1>6. GoodsTyped'
    BY <1>2, <1>3, <1>4 DEF GoodsInv, GoodsTyped
  <1>7. Adding' = Adding /\ Goodsroom!Granted' = Goodsroom!Granted
    BY <1>3, <1>4 DEF Adding, Goodsroom!Granted
  <1>8. \A b \in Adding : iHeld'[b] = iHeld[b]
    BY <1>3, <1>4 DEF Adding
  <1>9. "quota" \notin iMixed' => /\ AloneAt(ApproveSteps)'
                                  /\ \A b \in Admins : ApprovalHolds(iStep[b], iHeld[b])'
    BY <1>2, <1>3, <1>4, <1>5 DEF AloneAt, ApprovalHolds, ApproveSteps
  <1>10. QuotaRows'
    BY <1>3, <1>5, <1>7, <1>8, <1>9 DEF GoodsInv, QuotaRows
  <1>11. ImageRows'
    BY <1>3, <1>4, <1>5, ImagesStay DEF GoodsInv, GoodsTyped, ImageSteps, UploadSteps
  <1>12. QED
    BY <1>6, <1>10, <1>11 DEF GoodsInv

LEMMA MarkStep ==
  ASSUME GoodsInv, NEW c \in Admins, Goodsroom!Mark(c)
  PROVE  GoodsInv'
  <1>1. PICK k \in WorkType : k = iHeld[c]
    BY DEF GoodsInv, GoodsTyped
  <1>2. PICK a \in Applications : a = k.app
    BY <1>1 DEF Goodsroom!Mark, GoodsInv, GoodsTyped, StepFits, ApproveSteps
  <1>3. /\ iStep[c] = "mark" /\ application' = [application EXCEPT ![a] = "granted"]
        /\ Goodsroom!Put(c, "read quota", k)
        /\ UNCHANGED <<total, image, cache, iMixed, shared, dated, iLost>>
    BY <1>1, <1>2 DEF Goodsroom!Mark
  <1>4. /\ iStep' \in [Admins -> AdminSteps] /\ iHeld' \in [Admins -> WorkType]
        /\ iStep'[c] = "read quota" /\ iHeld'[c] = k
        /\ \A b \in Admins \ {c} : iStep'[b] = iStep[b] /\ iHeld'[b] = iHeld[b]
    BY <1>1, <1>3, WorkMoves DEF AdminSteps, ApproveSteps
  <1>5. GoodsTyped'
    <2>1. StepFits("read quota", k)
      BY <1>1, <1>3 DEF GoodsInv, GoodsTyped, StepFits, ApproveSteps, UploadSteps
    <2>2. \A b \in Admins : StepFits(iStep[b], iHeld[b])'
      BY <1>4, <2>1 DEF GoodsInv, GoodsTyped, StepFits
    <2>3. QED
      BY <1>3, <1>4, <2>2 DEF GoodsInv, GoodsTyped
  <1>6. Goodsroom!Granted' = Goodsroom!Granted \cup {a}
    BY <1>3 DEF Goodsroom!Granted, GoodsInv, GoodsTyped
  <1>7. Adding' = Adding \cup {c}
    BY <1>4 DEF Adding
  <1>8. /\ iLost' \subseteq Goodsroom!Granted'
        /\ \A b \in Adding' : iHeld'[b].app \in Goodsroom!Granted'
    BY <1>2, <1>3, <1>4, <1>6, <1>7 DEF GoodsInv, QuotaRows, Adding
  <1>9. ASSUME "quota" \notin iMixed'
        PROVE  /\ AloneAt(ApproveSteps)'
               /\ \A b \in Admins : ApprovalHolds(iStep[b], iHeld[b])'
               /\ total' = FreeQuota + Cardinality((Goodsroom!Granted \ iLost)') - Cardinality(Adding')
    <2>1. /\ AloneAt(ApproveSteps)
          /\ \A b \in Admins : ApprovalHolds(iStep[b], iHeld[b])
          /\ total = FreeQuota + Cardinality(Goodsroom!Granted \ iLost) - Cardinality(Adding)
      BY <1>3, <1>9 DEF GoodsInv, QuotaRows
    <2>2. \A b \in Admins \ {c} : iStep[b] \notin ApproveSteps
      BY <1>3, <2>1 DEF AloneAt, ApproveSteps
    <2>3. Adding = {}
      BY <1>3, <2>2 DEF Adding, ApproveSteps
    <2>4. application[a] = "waiting" /\ a \notin Goodsroom!Granted /\ a \notin iLost
      <3>1. ApprovalHolds("mark", k)
        BY <1>1, <1>3, <2>1
      <3>2. application[a] = "waiting"
        BY <1>2, <3>1 DEF ApprovalHolds
      <3>3. QED
        BY <3>2 DEF Goodsroom!Granted, GoodsInv, QuotaRows
    <2>5. (Goodsroom!Granted \ iLost)' = (Goodsroom!Granted \ iLost) \cup {a}
      BY <1>3, <1>6, <2>4
    <2>6. /\ Cardinality((Goodsroom!Granted \ iLost) \cup {a}) = Cardinality(Goodsroom!Granted \ iLost) + 1
          /\ Cardinality(Goodsroom!Granted \ iLost) \in Nat
      <3>1. IsFiniteSet(Goodsroom!Granted \ iLost)
        BY FS_Subset, StoreAssumption DEF Goodsroom!Granted
      <3>2. QED
        BY <2>4, <3>1, OneMore
    <2>7. Cardinality(Adding) = 0 /\ Cardinality(Adding') = 1
      BY <1>7, <2>3, FS_EmptySet, FS_Singleton
    <2>8. total' = FreeQuota + Cardinality((Goodsroom!Granted \ iLost)') - Cardinality(Adding')
      <3>1. total' = FreeQuota + Cardinality(Goodsroom!Granted \ iLost) - 0
        BY <1>3, <2>1, <2>7
      <3>2. FreeQuota + Cardinality(Goodsroom!Granted \ iLost) - 0
              = FreeQuota + (Cardinality(Goodsroom!Granted \ iLost) + 1) - 1
        BY <2>6, StoreAssumption
      <3>3. Cardinality((Goodsroom!Granted \ iLost)') = Cardinality(Goodsroom!Granted \ iLost) + 1
        BY <2>5, <2>6
      <3>4. QED
        BY <2>7, <3>1, <3>2, <3>3
    <2>9. AloneAt(ApproveSteps)'
      BY <1>4, <2>2 DEF AloneAt
    <2>10. \A b \in Admins : ApprovalHolds(iStep[b], iHeld[b])'
      <3>1. k.app \notin iLost' /\ iStep'[c] = "read quota" /\ iHeld'[c] = k
        BY <1>2, <1>3, <1>4, <2>4
      <3>2. ApprovalHolds(iStep[c], iHeld[c])'
        BY <3>1 DEF ApprovalHolds
      <3>3. \A b \in Admins \ {c} : iStep'[b] \notin ApproveSteps
        BY <1>4, <2>2
      <3>4. QED
        BY <3>2, <3>3 DEF ApprovalHolds, ApproveSteps
    <2>11. QED
      BY <2>8, <2>9, <2>10
  <1>10. QuotaRows'
    BY <1>8, <1>9 DEF QuotaRows
  <1>11. ImageRows'
    <2>1. total' \in Nat /\ total <= total'
      <3>1. total \in Nat
        BY DEF GoodsInv, GoodsTyped
      <3>2. total' = total
        BY <1>3
      <3>3. QED
        BY <3>1, <3>2
    <2>2. \A b \in Admins : iStep[b] \in ImageSteps \/ iStep'[b] \in ImageSteps =>
             iStep'[b] = iStep[b] /\ iHeld'[b] = iHeld[b]
      BY <1>3, <1>4 DEF ImageSteps, UploadSteps
    <2>3. QED
      BY <1>3, <2>1, <2>2, ImagesStay
  <1>12. QED
    BY <1>5, <1>10, <1>11 DEF GoodsInv

LEMMA ReadQuotaStep ==
  ASSUME GoodsInv, NEW c \in Admins, Goodsroom!ReadQuota(c)
  PROVE  GoodsInv'
  <1>1. PICK old \in WorkType : old = iHeld[c]
    BY DEF GoodsInv, GoodsTyped
  <1>2. PICK k : k = [old EXCEPT !.quota = total]
    OBVIOUS
  <1>3. k \in WorkType /\ k.op = old.op /\ k.app = old.app /\ k.quota = total
    BY <1>2 DEF WorkType, GoodsInv, GoodsTyped
  <1>4. /\ iStep[c] = "read quota" /\ Goodsroom!Put(c, "add", k)
        /\ UNCHANGED <<total, application, image, cache, iMixed, shared, dated, iLost>>
    BY <1>1, <1>2 DEF Goodsroom!ReadQuota
  <1>5. /\ iStep' \in [Admins -> AdminSteps] /\ iHeld' \in [Admins -> WorkType]
        /\ iStep'[c] = "add" /\ iHeld'[c] = k
        /\ \A b \in Admins \ {c} : iStep'[b] = iStep[b] /\ iHeld'[b] = iHeld[b]
    BY <1>3, <1>4, WorkMoves DEF AdminSteps, ApproveSteps
  <1>6. GoodsTyped'
    <2>1. StepFits("add", k)
      BY <1>1, <1>3, <1>4 DEF GoodsInv, GoodsTyped, StepFits, ApproveSteps, UploadSteps
    <2>2. \A b \in Admins : StepFits(iStep[b], iHeld[b])'
      BY <1>5, <2>1 DEF GoodsInv, GoodsTyped
    <2>3. QED
      BY <1>4, <1>5, <2>2 DEF GoodsInv, GoodsTyped
  <1>7. Goodsroom!Granted' = Goodsroom!Granted
    BY <1>4 DEF Goodsroom!Granted
  <1>8. Adding' = Adding
    BY <1>4, <1>5 DEF Adding
  <1>9. \A b \in Adding : iHeld'[b].app = iHeld[b].app
    BY <1>1, <1>3, <1>5 DEF Adding
  <1>10. AloneAt(ApproveSteps) => AloneAt(ApproveSteps)'
    <2>1. \A b \in Admins : iStep'[b] \in ApproveSteps <=> iStep[b] \in ApproveSteps
      BY <1>4, <1>5 DEF ApproveSteps
    <2>2. QED
      BY <2>1 DEF AloneAt
  <1>11. (\A b \in Admins : ApprovalHolds(iStep[b], iHeld[b])) => \A b \in Admins : ApprovalHolds(iStep[b], iHeld[b])'
    BY <1>1, <1>3, <1>4, <1>5 DEF ApprovalHolds
  <1>12. QuotaRows'
    BY <1>4, <1>7, <1>8, <1>9, <1>10, <1>11 DEF GoodsInv, QuotaRows
  <1>13. ImageRows'
    <2>1. total' \in Nat /\ total <= total'
      <3>1. total \in Nat
        BY DEF GoodsInv, GoodsTyped
      <3>2. total' = total
        BY <1>4
      <3>3. QED
        BY <3>1, <3>2
    <2>2. \A b \in Admins : iStep[b] \in ImageSteps \/ iStep'[b] \in ImageSteps =>
             iStep'[b] = iStep[b] /\ iHeld'[b] = iHeld[b]
      BY <1>4, <1>5 DEF ImageSteps, UploadSteps
    <2>3. QED
      BY <1>4, <2>1, <2>2, ImagesStay
  <1>14. QED
    BY <1>6, <1>12, <1>13 DEF GoodsInv

LEMMA AddQuotaStep ==
  ASSUME GoodsInv, NEW c \in Admins, Goodsroom!AddQuota(c)
  PROVE  GoodsInv'
  <1>1. PICK k \in WorkType : k = iHeld[c]
    BY DEF GoodsInv, GoodsTyped
  <1>2. /\ iStep[c] = "add" /\ total' = k.quota + 1
        /\ Goodsroom!Put(c, "idle", Goodsroom!NoWork)
        /\ UNCHANGED <<application, image, cache, iMixed, shared, dated, iLost>>
    BY <1>1 DEF Goodsroom!AddQuota, Goodsroom!Quit
  <1>3. /\ iStep' \in [Admins -> AdminSteps] /\ iHeld' \in [Admins -> WorkType]
        /\ iStep'[c] = "idle" /\ iHeld'[c] = Goodsroom!NoWork
        /\ \A b \in Admins \ {c} : iStep'[b] = iStep[b] /\ iHeld'[b] = iHeld[b]
    BY <1>2, NoWorkFits, WorkMoves DEF AdminSteps
  <1>4. total' \in Nat
    <2>1. k.quota \in Nat
      BY DEF WorkType
    <2>2. QED
      BY <1>2, <2>1
  <1>5. GoodsTyped'
    <2>1. \A b \in Admins : StepFits(iStep[b], iHeld[b])'
      BY <1>3, NoWorkFits DEF GoodsInv, GoodsTyped
    <2>2. QED
      BY <1>2, <1>3, <1>4, <2>1 DEF GoodsInv, GoodsTyped
  <1>6. Goodsroom!Granted' = Goodsroom!Granted
    BY <1>2 DEF Goodsroom!Granted
  <1>7. Adding' = Adding \ {c} /\ c \in Adding
    BY <1>2, <1>3 DEF Adding
  <1>8. \A b \in Adding' : iHeld'[b] = iHeld[b] /\ b \in Adding
    BY <1>3, <1>7 DEF Adding
  <1>9. ASSUME "quota" \notin iMixed
        PROVE  /\ AloneAt(ApproveSteps)'
               /\ \A b \in Admins : ApprovalHolds(iStep[b], iHeld[b])'
               /\ total' = FreeQuota + Cardinality(Goodsroom!Granted \ iLost) - Cardinality(Adding')
               /\ total <= total'
    <2>1. /\ AloneAt(ApproveSteps)
          /\ ApprovalHolds("add", k)
          /\ total = FreeQuota + Cardinality(Goodsroom!Granted \ iLost) - Cardinality(Adding)
      BY <1>1, <1>2, <1>9 DEF GoodsInv, QuotaRows
    <2>2. \A b \in Admins \ {c} : iStep[b] \notin ApproveSteps
      BY <1>2, <2>1 DEF AloneAt, ApproveSteps
    <2>3. \A b \in Admins : iStep'[b] \notin ApproveSteps
      BY <1>3, <2>2 DEF ApproveSteps
    <2>4. Adding = {c} /\ Adding' = {}
      BY <1>7, <2>2 DEF Adding, ApproveSteps
    <2>5. Cardinality(Adding) = 1 /\ Cardinality(Adding') = 0
      BY <2>4, FS_EmptySet, FS_Singleton
    <2>6. k.quota = total /\ total \in Nat
      BY <2>1 DEF ApprovalHolds, GoodsInv, GoodsTyped
    <2>7. Cardinality(Goodsroom!Granted \ iLost) \in Nat
      <3>1. IsFiniteSet(Goodsroom!Granted \ iLost)
        BY FS_Subset, StoreAssumption DEF Goodsroom!Granted
      <3>2. QED
        BY <3>1, FS_CardinalityType
    <2>8. total' = FreeQuota + Cardinality(Goodsroom!Granted \ iLost) - Cardinality(Adding') /\ total <= total'
      BY <1>2, <2>1, <2>5, <2>6, <2>7, StoreAssumption
    <2>9. AloneAt(ApproveSteps)' /\ \A b \in Admins : ApprovalHolds(iStep[b], iHeld[b])'
      BY <2>3 DEF AloneAt, ApprovalHolds, ApproveSteps
    <2>10. QED
      BY <2>8, <2>9
  <1>10. QuotaRows'
    BY <1>2, <1>6, <1>8, <1>9 DEF GoodsInv, QuotaRows
  <1>11. ImageRows'
    <2>1. \A b \in Admins : iStep[b] \in ImageSteps \/ iStep'[b] \in ImageSteps =>
             iStep'[b] = iStep[b] /\ iHeld'[b] = iHeld[b]
      BY <1>2, <1>3 DEF ImageSteps, UploadSteps
    <2>2. QED
      BY <1>2, <1>4, <1>9, <2>1, ImagesStay
  <1>12. QED
    BY <1>5, <1>10, <1>11 DEF GoodsInv

(* A restart strands the application whose quota was not added yet.        *)
LEMMA GoodsRestart ==
  ASSUME GoodsInv, Goodsroom!Restart
  PROVE  GoodsInv'
  <1>1. /\ iStep' = [c \in Admins |-> "idle"] /\ iHeld' = [c \in Admins |-> Goodsroom!NoWork]
        /\ iLost' = iLost \cup {iHeld[c].app : c \in Adding}
        /\ UNCHANGED <<total, application, image, cache, iMixed, shared, dated>>
    BY DEF Goodsroom!Restart, Adding
  <1>2. \A b \in Admins : iStep'[b] = "idle" /\ iHeld'[b] = Goodsroom!NoWork
    BY <1>1
  <1>3. Goodsroom!Granted' = Goodsroom!Granted /\ Goodsroom!Granted \subseteq Applications
    BY <1>1 DEF Goodsroom!Granted
  <1>4. iLost' \subseteq Goodsroom!Granted
    BY <1>1 DEF GoodsInv, QuotaRows
  <1>5. GoodsTyped'
    <2>1. iStep' \in [Admins -> AdminSteps] /\ iHeld' \in [Admins -> WorkType]
      BY <1>1, NoWorkFits DEF AdminSteps
    <2>2. \A b \in Admins : StepFits(iStep[b], iHeld[b])'
      BY <1>2, NoWorkFits
    <2>3. QED
      BY <1>1, <1>3, <1>4, <2>1, <2>2 DEF GoodsInv, GoodsTyped
  <1>6. Adding' = {}
    BY <1>2 DEF Adding
  <1>7. ASSUME "quota" \notin iMixed
        PROVE  total' = FreeQuota + Cardinality((Goodsroom!Granted \ iLost)') - Cardinality(Adding')
    <2>1. total = FreeQuota + Cardinality(Goodsroom!Granted \ iLost) - Cardinality(Adding)
      BY <1>7 DEF GoodsInv, QuotaRows
    <2>2. CASE Adding = {}
      <3>1. (Goodsroom!Granted \ iLost)' = Goodsroom!Granted \ iLost
        BY <1>1, <1>3, <2>2
      <3>2. QED
        BY <1>1, <1>6, <2>1, <2>2, <3>1
    <2>3. CASE Adding # {}
      <3>1. PICK c \in Adding : TRUE
        BY <2>3
      <3>2. AloneAt(ApproveSteps) /\ ApprovalHolds(iStep[c], iHeld[c])
        BY <1>7, <3>1 DEF GoodsInv, QuotaRows, Adding
      <3>3. Adding = {c}
        BY <3>1, <3>2 DEF AloneAt, ApproveSteps, Adding
      <3>4. PICK a : a = iHeld[c].app
        OBVIOUS
      <3>5. a \in Goodsroom!Granted /\ a \notin iLost
        BY <3>1, <3>2, <3>4 DEF ApprovalHolds, Adding, GoodsInv, QuotaRows
      <3>6. iLost' = iLost \cup {a}
        BY <1>1, <3>3, <3>4
      <3>7. /\ a \notin (Goodsroom!Granted \ iLost)'
            /\ Goodsroom!Granted \ iLost = (Goodsroom!Granted \ iLost)' \cup {a}
        BY <1>3, <3>5, <3>6
      <3>8. PICK left : left = (Goodsroom!Granted \ iLost)'
        OBVIOUS
      <3>9. IsFiniteSet(left)
        BY <1>3, <3>8, FS_Subset, StoreAssumption
      <3>10. Cardinality(Goodsroom!Granted \ iLost) = Cardinality(left) + 1 /\ Cardinality(left) \in Nat
        BY <3>7, <3>8, <3>9, OneMore
      <3>11. Cardinality(Adding) = 1 /\ Cardinality(Adding') = 0
        BY <1>6, <3>3, FS_EmptySet, FS_Singleton
      <3>12. FreeQuota + (Cardinality(left) + 1) - 1 = FreeQuota + Cardinality(left) - 0
        BY <3>10, StoreAssumption
      <3>13. QED
        BY <1>1, <2>1, <3>8, <3>10, <3>11, <3>12
    <2>4. QED
      BY <2>2, <2>3
  <1>8. QuotaRows'
    BY <1>1, <1>2, <1>3, <1>4, <1>6, <1>7 DEF QuotaRows, AloneAt, ApproveSteps, ApprovalHolds
  <1>9. Goodsroom!Used' = Goodsroom!Used
    BY <1>1 DEF Goodsroom!Used, Goodsroom!Shown, Goodsroom!Listed
  <1>10. ImageRows'
    BY <1>1, <1>2, <1>9 DEF GoodsInv, ImageRows, AloneAt, ImageSteps, UploadSteps, UploadHolds
  <1>11. QED
    BY <1>5, <1>8, <1>10 DEF GoodsInv

(***************************************************************************)
(* Images.  A handler of images moves: while no two of them met it is the  *)
(* only one, so what it leaves is all there is to hold.                    *)
(***************************************************************************)
CacheRight == cache # Goodsroom!Nothing =>
                 Goodsroom!Used <= cache /\ (~dated => cache = Goodsroom!Used)

QuotaSteps == {"compute", "fill", "check", "write"}

LEMMA SameImages ==
  ASSUME image' = image
  PROVE  /\ Goodsroom!Listed' = Goodsroom!Listed /\ Goodsroom!Shown' = Goodsroom!Shown
         /\ Goodsroom!Used' = Goodsroom!Used
  BY DEF Goodsroom!Used, Goodsroom!Shown, Goodsroom!Listed

LEMMA ImageMove ==
  ASSUME GoodsInv, NEW c \in Admins, NEW at \in {"idle"} \cup ImageSteps, NEW k \in WorkType,
         Goodsroom!Put(c, at, k), StepFits(at, k), iStep[c] \notin ApproveSteps,
         UNCHANGED <<total, application, iLost>>, iMixed \subseteq iMixed',
         image' \in [Pictured -> Pictures], cache' \in Nat \cup {Goodsroom!Nothing},
         shared' \in BOOLEAN, dated' \in BOOLEAN,
         "images" \notin iMixed' => /\ \A b \in Admins \ {c} : iStep[b] \notin ImageSteps
                                    /\ UploadHolds(at, k)' /\ CacheRight',
         iMixed' = {} => /\ at \in QuotaSteps => k.quota <= total
                         /\ shared' \/ Goodsroom!Used' <= total
  PROVE  GoodsInv'
  <1>1. at \in AdminSteps /\ at \notin ApproveSteps
    BY DEF AdminSteps, ImageSteps, UploadSteps, ApproveSteps
  <1>2. /\ iStep' \in [Admins -> AdminSteps] /\ iHeld' \in [Admins -> WorkType]
        /\ iStep'[c] = at /\ iHeld'[c] = k
        /\ \A b \in Admins \ {c} : iStep'[b] = iStep[b] /\ iHeld'[b] = iHeld[b]
    BY <1>1, WorkMoves
  <1>3. GoodsTyped'
    <2>1. \A b \in Admins : StepFits(iStep[b], iHeld[b])'
      BY <1>2 DEF GoodsInv, GoodsTyped
    <2>2. QED
      BY <1>2, <2>1 DEF GoodsInv, GoodsTyped
  <1>4. QuotaRows'
    <2>1. \A b \in Admins : iStep[b] \in ApproveSteps \/ iStep'[b] \in ApproveSteps =>
             iStep'[b] = iStep[b] /\ iHeld'[b] = iHeld[b]
      BY <1>1, <1>2
    <2>2. QED
      BY <2>1, QuotaStays
  <1>5. ASSUME "images" \notin iMixed'
        PROVE  /\ AloneAt(ImageSteps)'
               /\ \A b \in Admins : UploadHolds(iStep[b], iHeld[b])'
               /\ CacheRight'
    <2>1. \A b \in Admins \ {c} : iStep'[b] \notin ImageSteps
      BY <1>2, <1>5
    <2>2. AloneAt(ImageSteps)'
      BY <2>1 DEF AloneAt
    <2>3. UploadHolds(iStep[c], iHeld[c])'
      BY <1>2, <1>5
    <2>4. \A b \in Admins \ {c} : UploadHolds(iStep[b], iHeld[b])'
      BY <2>1 DEF UploadHolds, ImageSteps, UploadSteps
    <2>5. QED
      BY <1>5, <2>2, <2>3, <2>4
  <1>6. ASSUME iMixed' = {}
        PROVE  /\ \A b \in Admins : iStep'[b] \in QuotaSteps => iHeld'[b].quota <= total'
               /\ shared' \/ Goodsroom!Used' <= total'
    <2>1. \A b \in Admins : iStep[b] \in QuotaSteps => iHeld[b].quota <= total
      BY <1>6 DEF GoodsInv, ImageRows, QuotaSteps
    <2>2. QED
      BY <1>2, <1>6, <2>1
  <1>7. ImageRows'
    BY <1>5, <1>6 DEF ImageRows, CacheRight, QuotaSteps
  <1>8. QED
    BY <1>3, <1>4, <1>7 DEF GoodsInv

(* What a handler that is under way may rely on.                           *)
LEMMA ImageStarts ==
  ASSUME GoodsInv, NEW c \in Admins, iStep[c] \in ImageSteps
  PROVE  /\ iHeld[c] \in WorkType /\ StepFits(iStep[c], iHeld[c]) /\ iStep[c] \notin ApproveSteps
         /\ total \in Nat /\ image \in [Pictured -> Pictures]
         /\ cache \in Nat \cup {Goodsroom!Nothing}
         /\ shared \in BOOLEAN /\ dated \in BOOLEAN
         /\ "images" \notin iMixed => /\ \A b \in Admins \ {c} : iStep[b] \notin ImageSteps
                                      /\ UploadHolds(iStep[c], iHeld[c]) /\ CacheRight
         /\ iMixed = {} => /\ iStep[c] \in QuotaSteps => iHeld[c].quota <= total
                           /\ shared \/ Goodsroom!Used <= total
  <1>1. /\ iHeld[c] \in WorkType /\ StepFits(iStep[c], iHeld[c])
        /\ total \in Nat /\ image \in [Pictured -> Pictures]
        /\ cache \in Nat \cup {Goodsroom!Nothing}
        /\ shared \in BOOLEAN /\ dated \in BOOLEAN
    BY DEF GoodsInv, GoodsTyped
  <1>2. iStep[c] \notin ApproveSteps
    BY DEF ImageSteps, UploadSteps, ApproveSteps
  <1>3. "images" \notin iMixed => /\ \A b \in Admins \ {c} : iStep[b] \notin ImageSteps
                                  /\ UploadHolds(iStep[c], iHeld[c]) /\ CacheRight
    BY DEF GoodsInv, ImageRows, AloneAt, CacheRight
  <1>4. iMixed = {} => /\ iStep[c] \in QuotaSteps => iHeld[c].quota <= total
                       /\ shared \/ Goodsroom!Used <= total
    BY DEF GoodsInv, ImageRows, QuotaSteps
  <1>5. QED
    BY <1>1, <1>2, <1>3, <1>4

LEMMA UploadStartStep ==
  ASSUME GoodsInv, NEW c \in Admins, NEW v \in Pictured \cup {Goodsroom!Nothing}, NEW h \in Images,
         Goodsroom!UploadStart(c, v, h)
  PROVE  GoodsInv'
  <1>1. PICK o : o = IF v \in Goodsroom!Listed THEN Goodsroom!Cardinality(image[v]) ELSE 0
    OBVIOUS
  <1>2. PICK k : k = [Goodsroom!NoWork EXCEPT !.op = "upload", !.version = v, !.image = h, !.old = o]
    OBVIOUS
  <1>3. /\ iStep[c] = "idle" /\ Goodsroom!Put(c, "quota", k) /\ v \in Goodsroom!Listed \cup {Goodsroom!Nothing}
        /\ Goodsroom!Met(Goodsroom!Kind("upload"))
        /\ UNCHANGED <<total, application, image, cache, shared, dated, iLost>>
    BY <1>1, <1>2 DEF Goodsroom!UploadStart, Goodsroom!Starts
  <1>4. /\ total \in Nat /\ image \in [Pictured -> Pictures] /\ cache \in Nat \cup {Goodsroom!Nothing}
        /\ shared \in BOOLEAN /\ dated \in BOOLEAN
    BY DEF GoodsInv, GoodsTyped
  <1>5. /\ o \in Nat
        /\ \/ v \in Goodsroom!Listed /\ o = Cardinality(image[v])
           \/ v = Goodsroom!Nothing /\ o = 0
    <2>1. CASE v \in Goodsroom!Listed
      BY <1>1, <1>4, <2>1, ShownParts, SameCardinality
    <2>2. CASE v \notin Goodsroom!Listed
      BY <1>1, <1>3, <2>2
    <2>3. QED
      BY <2>1, <2>2
  <1>6. k = [op |-> "upload", app |-> Goodsroom!Nothing, version |-> v, image |-> h,
             old |-> o, read |-> 0, dated |-> FALSE, quota |-> 0]
    BY <1>2 DEF Goodsroom!NoWork
  <1>7. k \in WorkType
    BY <1>5, <1>6 DEF WorkType
  <1>8. StepFits("quota", k) /\ k.version = v /\ k.old = o /\ ~k.dated
    BY <1>6 DEF StepFits, ApproveSteps, UploadSteps
  <1>9. /\ iMixed \subseteq iMixed'
        /\ "images" \notin iMixed' => \A b \in Admins : iStep[b] \notin ImageSteps
    BY <1>3, MetMeans
  <1>10. Goodsroom!Used' = Goodsroom!Used /\ Goodsroom!Listed' = Goodsroom!Listed
    BY <1>3, SameImages
  <1>11. UploadHolds("quota", k)'
    BY <1>3, <1>5, <1>8, <1>10 DEF UploadHolds, UploadSteps
  <1>12. "images" \notin iMixed' => CacheRight'
    BY <1>3, <1>9, <1>10 DEF GoodsInv, ImageRows, CacheRight
  <1>13. iMixed' = {} => shared' \/ Goodsroom!Used' <= total
    BY <1>3, <1>9, <1>10 DEF GoodsInv, ImageRows
  <1>14. "quota" \in {"idle"} \cup ImageSteps /\ "quota" \notin QuotaSteps /\ iStep[c] \notin ApproveSteps
    BY <1>3 DEF ImageSteps, UploadSteps, QuotaSteps, ApproveSteps
  <1>15. QED
    BY <1>3, <1>4, <1>7, <1>8, <1>9, <1>11, <1>12, <1>13, <1>14, ImageMove

LEMMA QuotaReadStep ==
  ASSUME GoodsInv, NEW c \in Admins, Goodsroom!QuotaRead(c)
  PROVE  GoodsInv'
  <1>1. iStep[c] = "quota" /\ iStep[c] \in ImageSteps
    BY DEF Goodsroom!QuotaRead, ImageSteps, UploadSteps
  <1>2. PICK old \in WorkType : old = iHeld[c]
    BY DEF GoodsInv, GoodsTyped
  <1>3. /\ UNCHANGED <<total, application, image, cache, iMixed, shared, dated, iLost>>
        /\ Goodsroom!Used' = Goodsroom!Used /\ Goodsroom!Listed' = Goodsroom!Listed
    BY SameImages DEF Goodsroom!QuotaRead
  <1>4. CacheRight => CacheRight'
    BY <1>3 DEF CacheRight
  <1>5. CASE cache = Goodsroom!Nothing
    <2>1. PICK k : k = [old EXCEPT !.quota = total]
      OBVIOUS
    <2>2. /\ k \in WorkType /\ k.op = old.op /\ k.image = old.image /\ k.version = old.version
          /\ k.old = old.old /\ k.dated = old.dated /\ k.quota = total
      BY <2>1 DEF WorkType, GoodsInv, GoodsTyped
    <2>3. Goodsroom!Put(c, "compute", k)
      BY <1>2, <1>5, <2>1 DEF Goodsroom!QuotaRead
    <2>4. StepFits("compute", k)
      BY <1>1, <1>2, <2>2, ImageStarts DEF StepFits, UploadSteps, ApproveSteps
    <2>5. UploadHolds("quota", old) => UploadHolds("compute", k)'
      BY <1>3, <2>2 DEF UploadHolds, UploadSteps
    <2>6. total <= total
      BY DEF GoodsInv, GoodsTyped
    <2>7. "compute" \in {"idle"} \cup ImageSteps
      BY DEF ImageSteps, UploadSteps
    <2>8. QED
      BY <1>1, <1>2, <1>3, <1>4, <2>2, <2>3, <2>4, <2>5, <2>6, <2>7, ImageStarts, ImageMove
  <1>6. CASE cache # Goodsroom!Nothing
    <2>1. PICK k : k = [old EXCEPT !.quota = total, !.read = cache, !.dated = dated]
      OBVIOUS
    <2>2. /\ k \in WorkType /\ k.op = old.op /\ k.image = old.image /\ k.version = old.version
          /\ k.old = old.old /\ k.dated = dated /\ k.read = cache /\ k.quota = total
      BY <1>6, <2>1 DEF WorkType, GoodsInv, GoodsTyped
    <2>3. Goodsroom!Put(c, "check", k)
      BY <1>2, <1>6, <2>1 DEF Goodsroom!QuotaRead
    <2>4. StepFits("check", k)
      BY <1>1, <1>2, <2>2, ImageStarts DEF StepFits, UploadSteps, ApproveSteps
    <2>5. UploadHolds("quota", old) /\ CacheRight => UploadHolds("check", k)'
      BY <1>3, <1>6, <2>2 DEF UploadHolds, UploadSteps, CacheRight
    <2>6. total <= total
      BY DEF GoodsInv, GoodsTyped
    <2>7. "check" \in {"idle"} \cup ImageSteps
      BY DEF ImageSteps, UploadSteps
    <2>8. QED
      BY <1>1, <1>2, <1>3, <1>4, <2>2, <2>3, <2>4, <2>5, <2>6, <2>7, ImageStarts, ImageMove
  <1>7. QED
    BY <1>5, <1>6

LEMMA CalculateStep ==
  ASSUME GoodsInv, NEW c \in Admins, Goodsroom!CalculateUsedQuota(c)
  PROVE  GoodsInv'
  <1>1. iStep[c] = "compute" /\ iStep[c] \in ImageSteps
    BY DEF Goodsroom!CalculateUsedQuota, ImageSteps, UploadSteps
  <1>2. PICK old \in WorkType : old = iHeld[c]
    BY DEF GoodsInv, GoodsTyped
  <1>3. /\ UNCHANGED <<total, application, image, cache, iMixed, shared, dated, iLost>>
        /\ Goodsroom!Used' = Goodsroom!Used /\ Goodsroom!Listed' = Goodsroom!Listed
    BY SameImages DEF Goodsroom!CalculateUsedQuota
  <1>4. PICK u : u = Goodsroom!Used
    OBVIOUS
  <1>5. u \in Nat
    BY <1>1, <1>4, ImageStarts, ShownFinite
  <1>6. PICK k : k = [old EXCEPT !.read = u]
    OBVIOUS
  <1>7. /\ k \in WorkType /\ k.op = old.op /\ k.image = old.image /\ k.version = old.version
        /\ k.old = old.old /\ k.dated = old.dated /\ k.read = u /\ k.quota = old.quota
    BY <1>5, <1>6 DEF WorkType
  <1>8. Goodsroom!Put(c, "fill", k)
    BY <1>2, <1>4, <1>6 DEF Goodsroom!CalculateUsedQuota
  <1>9. StepFits("fill", k)
    BY <1>1, <1>2, <1>7, ImageStarts DEF StepFits, UploadSteps, ApproveSteps
  <1>10. UploadHolds("compute", old) => UploadHolds("fill", k)'
    BY <1>3, <1>4, <1>5, <1>7 DEF UploadHolds, UploadSteps
  <1>11. CacheRight => CacheRight'
    BY <1>3 DEF CacheRight
  <1>12. iMixed = {} => k.quota <= total
    BY <1>1, <1>2, <1>7, ImageStarts DEF QuotaSteps
  <1>13. "fill" \in {"idle"} \cup ImageSteps
    BY DEF ImageSteps, UploadSteps
  <1>14. QED
    BY <1>1, <1>2, <1>3, <1>7, <1>8, <1>9, <1>10, <1>11, <1>12, <1>13, ImageStarts, ImageMove

LEMMA SetUsedQuotaStep ==
  ASSUME GoodsInv, NEW c \in Admins, Goodsroom!SetUsedQuota(c)
  PROVE  GoodsInv'
  <1>1. iStep[c] = "fill" /\ iStep[c] \in ImageSteps
    BY DEF Goodsroom!SetUsedQuota, ImageSteps, UploadSteps
  <1>2. PICK k \in WorkType : k = iHeld[c]
    BY DEF GoodsInv, GoodsTyped
  <1>3. /\ UNCHANGED <<total, application, image, iMixed, shared, iLost>>
        /\ cache' = k.read /\ dated' = FALSE /\ Goodsroom!Put(c, "check", k)
        /\ Goodsroom!Used' = Goodsroom!Used /\ Goodsroom!Listed' = Goodsroom!Listed
    BY <1>2, SameImages DEF Goodsroom!SetUsedQuota
  <1>4. StepFits("check", k)
    BY <1>1, <1>2, ImageStarts DEF StepFits, UploadSteps, ApproveSteps
  <1>5. UploadHolds("fill", k) => UploadHolds("check", k)' /\ CacheRight'
    BY <1>3 DEF UploadHolds, UploadSteps, CacheRight
  <1>6. iMixed = {} => k.quota <= total
    BY <1>1, <1>2, ImageStarts DEF QuotaSteps
  <1>7. "check" \in {"idle"} \cup ImageSteps /\ cache' \in Nat
    BY <1>3 DEF ImageSteps, UploadSteps, WorkType
  <1>8. QED
    BY <1>1, <1>2, <1>3, <1>4, <1>5, <1>6, <1>7, ImageStarts, ImageMove

(* A handler that ends, having changed nothing but the cached sum, which   *)
(* it drops, or not.                                                       *)
LEMMA ImageQuit ==
  ASSUME GoodsInv, NEW c \in Admins, iStep[c] \in ImageSteps, Goodsroom!Quit(c),
         UNCHANGED <<total, application, image, iMixed, shared, iLost>>,
         \/ UNCHANGED <<cache, dated>>
         \/ cache' = Goodsroom!Nothing /\ dated' = FALSE
  PROVE  GoodsInv'
  <1>1. Goodsroom!Used' = Goodsroom!Used /\ Goodsroom!Put(c, "idle", Goodsroom!NoWork)
    BY SameImages DEF Goodsroom!Quit
  <1>2. UploadHolds("idle", Goodsroom!NoWork)'
    BY DEF UploadHolds, UploadSteps
  <1>3. CacheRight => CacheRight'
    BY <1>1 DEF CacheRight
  <1>4. "idle" \notin QuotaSteps
    BY DEF QuotaSteps
  <1>5. QED
    BY <1>1, <1>2, <1>3, <1>4, NoWorkFits, ImageStarts, ImageMove

LEMMA QuitSteps ==
  ASSUME GoodsInv, NEW c \in Admins,
         Goodsroom!Refuse(c) \/ Goodsroom!UpdateFails(c) \/ Goodsroom!InvalidateUsedQuota(c)
  PROVE  GoodsInv'
  <1>1. iStep[c] \in ImageSteps
    BY DEF ImageSteps, UploadSteps, Goodsroom!Refuse, Goodsroom!UpdateFails, Goodsroom!InvalidateUsedQuota
  <1>2. CASE Goodsroom!Refuse(c)
    BY <1>1, <1>2, ImageQuit DEF Goodsroom!Refuse
  <1>3. CASE Goodsroom!UpdateFails(c)
    BY <1>1, <1>3, ImageQuit DEF Goodsroom!UpdateFails
  <1>4. CASE Goodsroom!InvalidateUsedQuota(c)
    BY <1>1, <1>4, ImageQuit DEF Goodsroom!InvalidateUsedQuota
  <1>5. QED
    BY <1>2, <1>3, <1>4

LEMMA PassStep ==
  ASSUME GoodsInv, NEW c \in Admins, Goodsroom!Pass(c)
  PROVE  GoodsInv'
  <1>1. iStep[c] = "check" /\ iStep[c] \in ImageSteps
    BY DEF Goodsroom!Pass, ImageSteps, UploadSteps
  <1>2. PICK k \in WorkType : k = iHeld[c]
    BY DEF GoodsInv, GoodsTyped
  <1>3. /\ UNCHANGED <<total, application, image, iMixed, shared, iLost>>
        /\ cache' = Goodsroom!Nothing /\ dated' = FALSE /\ Goodsroom!Put(c, "write", k)
        /\ Goodsroom!Needed(k) <= k.quota
        /\ Goodsroom!Used' = Goodsroom!Used /\ Goodsroom!Listed' = Goodsroom!Listed
    BY <1>2, SameImages DEF Goodsroom!Pass, Goodsroom!Cleared
  <1>4. StepFits("write", k)
    BY <1>1, <1>2, ImageStarts DEF StepFits, UploadSteps, ApproveSteps
  <1>5. UploadHolds("check", k) => UploadHolds("write", k)'
    BY <1>3 DEF UploadHolds, UploadSteps, Goodsroom!Needed
  <1>6. CacheRight'
    BY <1>3 DEF CacheRight
  <1>7. iMixed = {} => k.quota <= total
    BY <1>1, <1>2, ImageStarts DEF QuotaSteps
  <1>8. "write" \in {"idle"} \cup ImageSteps
    BY DEF ImageSteps, UploadSteps
  <1>9. QED
    BY <1>1, <1>2, <1>3, <1>4, <1>5, <1>6, <1>7, <1>8, ImageStarts, ImageMove

LEMMA CreateVersionStep ==
  ASSUME GoodsInv, NEW c \in Admins, Goodsroom!CreateVersion(c)
  PROVE  GoodsInv'
  <1>1. iStep[c] = "write" /\ iStep[c] \in ImageSteps
    BY DEF Goodsroom!CreateVersion, ImageSteps, UploadSteps
  <1>2. PICK k \in WorkType : k = iHeld[c]
    BY DEF GoodsInv, GoodsTyped
  <1>3. PICK v \in Pictured \ Goodsroom!Listed : image' = [image EXCEPT ![v] = {k.image}]
    BY <1>2 DEF Goodsroom!CreateVersion
  <1>4. /\ k.version = Goodsroom!Nothing /\ Goodsroom!Put(c, "idle", Goodsroom!NoWork)
        /\ UNCHANGED <<total, application, cache, iMixed, shared, dated, iLost>>
    BY <1>2 DEF Goodsroom!CreateVersion, Goodsroom!Quit
  <1>5. k.image \in Images
    BY <1>1, <1>2, ImageStarts DEF StepFits, UploadSteps
  <1>6. image \in [Pictured -> Pictures]
    BY <1>1, ImageStarts
  <1>7. /\ image' \in [Pictured -> Pictures]
        /\ Goodsroom!Used' \in Nat /\ Goodsroom!Used' <= Cardinality(Others(v)) + 1
    BY <1>3, <1>5, <1>6, ImageWritten
  <1>8. Cardinality(Others(v)) = Goodsroom!Used /\ Goodsroom!Used \in Nat
    BY <1>6, ShownParts, ShownFinite
  <1>9. UploadHolds("write", k) => CacheRight'
    BY <1>4 DEF UploadHolds, CacheRight
  <1>10. ASSUME iMixed = {}
         PROVE  Goodsroom!Used' <= total
    <2>1. UploadHolds("write", k) /\ k.quota <= total /\ total \in Nat
      BY <1>1, <1>2, <1>10, ImageStarts DEF QuotaSteps
    <2>2. k.version \notin Goodsroom!Listed
      BY <1>4, StoreAssumption DEF Goodsroom!Listed, Goodsroom!Nothing
    <2>3. k.old = 0 /\ Goodsroom!Used <= k.read /\ Goodsroom!Needed(k) <= k.quota
      BY <2>1, <2>2 DEF UploadHolds, UploadSteps
    <2>4. k.read \in Nat /\ k.quota \in Nat
      BY DEF WorkType
    <2>5. QED
      BY <1>7, <1>8, <2>1, <2>3, <2>4 DEF Goodsroom!Needed
  <1>11. UploadHolds("idle", Goodsroom!NoWork)' /\ "idle" \notin QuotaSteps
    BY DEF UploadHolds, UploadSteps, QuotaSteps
  <1>12. QED
    BY <1>1, <1>2, <1>4, <1>7, <1>9, <1>10, <1>11, NoWorkFits, ImageStarts, ImageMove

LEMMA UpdateVersionStep ==
  ASSUME GoodsInv, NEW c \in Admins, Goodsroom!UpdateVersion(c)
  PROVE  GoodsInv'
  <1>1. iStep[c] = "write" /\ iStep[c] \in ImageSteps
    BY DEF Goodsroom!UpdateVersion, ImageSteps, UploadSteps
  <1>2. PICK k \in WorkType : k = iHeld[c]
    BY DEF GoodsInv, GoodsTyped
  <1>3. PICK v \in Goodsroom!Listed : v = k.version
    BY <1>2 DEF Goodsroom!UpdateVersion
  <1>4. /\ image' = [image EXCEPT ![v] = {k.image}]
        /\ shared' = (shared \/ \E w \in Goodsroom!Listed \ {v} : image[v] \cap image[w] # {})
        /\ Goodsroom!Put(c, "drop", k)
        /\ UNCHANGED <<total, application, cache, iMixed, dated, iLost>>
    BY <1>2, <1>3 DEF Goodsroom!UpdateVersion
  <1>5. k.image \in Images /\ StepFits("drop", k)
    BY <1>1, <1>2, ImageStarts DEF StepFits, UploadSteps, ApproveSteps
  <1>6. image \in [Pictured -> Pictures]
    BY <1>1, ImageStarts
  <1>7. v \in Pictured
    BY DEF Goodsroom!Listed
  <1>8. /\ image' \in [Pictured -> Pictures]
        /\ Goodsroom!Used' \in Nat /\ Goodsroom!Used' <= Cardinality(Others(v)) + 1
    BY <1>4, <1>5, <1>6, <1>7, ImageWritten
  <1>9. UploadHolds("write", k) => CacheRight'
    BY <1>4 DEF UploadHolds, CacheRight
  <1>10. ASSUME iMixed = {}, ~shared'
         PROVE  Goodsroom!Used' <= total
    <2>1. UploadHolds("write", k) /\ k.quota <= total /\ total \in Nat
      BY <1>1, <1>2, <1>10, ImageStarts DEF QuotaSteps
    <2>2. v # Goodsroom!Nothing
      BY <1>7, StoreAssumption DEF Goodsroom!Nothing
    <2>3. /\ k.old = Cardinality(image[v]) /\ Goodsroom!Used <= k.read
          /\ Goodsroom!Needed(k) <= k.quota
      BY <1>3, <2>1, <2>2 DEF UploadHolds, UploadSteps
    <2>4. \A w \in Goodsroom!Listed \ {v} : image[v] \cap image[w] = {}
      BY <1>4, <1>10
    <2>5. Goodsroom!Used = Cardinality(Others(v)) + k.old
      BY <1>6, <2>3, <2>4, ShownParts
    <2>6. k.read \in Nat /\ k.quota \in Nat /\ k.old \in Nat
      BY DEF WorkType
    <2>7. Goodsroom!Used \in Nat /\ Cardinality(Others(v)) \in Nat
      BY <1>6, ShownFinite
    <2>8. k.read - k.old + 1 <= k.quota
      BY <2>3 DEF Goodsroom!Needed
    <2>9. QED
      BY <1>8, <2>1, <2>3, <2>5, <2>6, <2>7, <2>8
  <1>11. UploadHolds("drop", k)' /\ "drop" \notin QuotaSteps /\ "drop" \in ImageSteps
    BY DEF UploadHolds, UploadSteps, QuotaSteps, ImageSteps
  <1>12. shared' \in BOOLEAN
    BY <1>1, <1>4, ImageStarts
  <1>13. QED
    BY <1>1, <1>2, <1>4, <1>5, <1>8, <1>9, <1>10, <1>11, <1>12, ImageStarts, ImageMove

(* An image less keeps what bounds the images, and dates the cached sum.   *)
LEMMA ImageGone ==
  ASSUME Goodsroom!Used' \in Nat, Goodsroom!Used \in Nat, Goodsroom!Used' <= Goodsroom!Used,
         cache \in Nat \cup {Goodsroom!Nothing}, cache' = cache,
         dated' = (dated \/ cache # Goodsroom!Nothing), total \in Nat
  PROVE  /\ CacheRight => CacheRight'
         /\ Goodsroom!Used <= total => Goodsroom!Used' <= total
  <1>1. ASSUME NEW n \in Nat, Goodsroom!Used <= n PROVE Goodsroom!Used' <= n
    BY <1>1
  <1>2. Goodsroom!Used <= total => Goodsroom!Used' <= total
    BY <1>1
  <1>3. ASSUME CacheRight, cache' # Goodsroom!Nothing
        PROVE  Goodsroom!Used' <= cache' /\ dated'
    <2>1. cache \in Nat /\ Goodsroom!Used <= cache
      BY <1>3 DEF CacheRight
    <2>2. Goodsroom!Used' <= cache'
      BY <1>1, <2>1
    <2>3. cache # Goodsroom!Nothing
      BY <1>3
    <2>4. dated'
      BY <2>3, Zenon
    <2>5. QED
      BY <2>2, <2>4
  <1>4. CacheRight => CacheRight'
    BY <1>3 DEF CacheRight
  <1>5. QED
    BY <1>2, <1>4

LEMMA RemoveImageStep ==
  ASSUME GoodsInv, NEW c \in Admins, NEW v \in Pictured, Goodsroom!RemoveImage(c, v)
  PROVE  GoodsInv'
  <1>1. PICK k : k = [Goodsroom!NoWork EXCEPT !.op = "remove image"]
    OBVIOUS
  <1>2. /\ iStep[c] = "idle" /\ Goodsroom!Put(c, "drop", k)
        /\ Goodsroom!Met(Goodsroom!Kind("remove image"))
        /\ image' = [image EXCEPT ![v] = {}] /\ dated' = (dated \/ cache # Goodsroom!Nothing)
        /\ UNCHANGED <<total, application, cache, shared, iLost>>
    BY <1>1 DEF Goodsroom!RemoveImage, Goodsroom!Starts
  <1>3. /\ total \in Nat /\ image \in [Pictured -> Pictures] /\ cache \in Nat \cup {Goodsroom!Nothing}
        /\ shared \in BOOLEAN /\ dated \in BOOLEAN
    BY DEF GoodsInv, GoodsTyped
  <1>4. /\ image' \in [Pictured -> Pictures] /\ dated' \in BOOLEAN
        /\ Goodsroom!Used' \in Nat /\ Goodsroom!Used' <= Goodsroom!Used /\ Goodsroom!Used \in Nat
    BY <1>2, <1>3, ImageRemoved, ShownFinite
  <1>5. k = [op |-> "remove image", app |-> Goodsroom!Nothing, version |-> Goodsroom!Nothing,
             image |-> Goodsroom!Nothing, old |-> 0, read |-> 0, dated |-> FALSE, quota |-> 0]
    BY <1>1 DEF Goodsroom!NoWork
  <1>6. k \in WorkType
    BY <1>5 DEF WorkType
  <1>7. StepFits("drop", k)
    BY <1>5 DEF StepFits, ApproveSteps, UploadSteps
  <1>8. /\ iMixed \subseteq iMixed'
        /\ "images" \notin iMixed' => \A b \in Admins : iStep[b] \notin ImageSteps
    BY <1>2, MetMeans
  <1>9. UploadHolds("drop", k)'
    BY DEF UploadHolds, UploadSteps
  <1>10. "images" \notin iMixed' => CacheRight'
    <2>1. "images" \notin iMixed' => CacheRight
      BY <1>8 DEF GoodsInv, ImageRows, CacheRight
    <2>2. CacheRight => CacheRight'
      BY <1>2, <1>3, <1>4, ImageGone
    <2>3. QED
      BY <2>1, <2>2
  <1>11. iMixed' = {} => shared' \/ Goodsroom!Used' <= total
    <2>1. iMixed' = {} => shared \/ Goodsroom!Used <= total
      BY <1>8 DEF GoodsInv, ImageRows
    <2>2. Goodsroom!Used <= total => Goodsroom!Used' <= total
      BY <1>2, <1>3, <1>4, ImageGone
    <2>3. QED
      BY <1>2, <2>1, <2>2
  <1>12. "drop" \in {"idle"} \cup ImageSteps /\ "drop" \notin QuotaSteps /\ iStep[c] \notin ApproveSteps
    BY <1>2 DEF ImageSteps, UploadSteps, QuotaSteps, ApproveSteps
  <1>13. QED
    BY <1>2, <1>3, <1>4, <1>6, <1>7, <1>8, <1>9, <1>10, <1>11, <1>12, ImageMove

LEMMA RemoveStep ==
  ASSUME GoodsInv, NEW v \in Pictured, Goodsroom!Remove(v)
  PROVE  GoodsInv'
  <1>1. /\ image' = [image EXCEPT ![v] = {Goodsroom!Nothing}]
        /\ dated' = (dated \/ cache # Goodsroom!Nothing) /\ Goodsroom!Met("images")
        /\ UNCHANGED <<total, application, cache, iStep, iHeld, shared, iLost>>
    BY DEF Goodsroom!Remove
  <1>2. /\ total \in Nat /\ image \in [Pictured -> Pictures] /\ cache \in Nat \cup {Goodsroom!Nothing}
        /\ shared \in BOOLEAN /\ dated \in BOOLEAN
    BY DEF GoodsInv, GoodsTyped
  <1>3. /\ image' \in [Pictured -> Pictures] /\ dated' \in BOOLEAN
        /\ Goodsroom!Used' \in Nat /\ Goodsroom!Used' <= Goodsroom!Used /\ Goodsroom!Used \in Nat
    BY <1>1, <1>2, ImageRemoved, ShownFinite
  <1>4. /\ iMixed \subseteq iMixed'
        /\ "images" \notin iMixed' => \A b \in Admins : iStep[b] \notin ImageSteps
    BY <1>1, MetMeans DEF Goodsroom!Kind
  <1>5. GoodsTyped'
    <2>1. \A b \in Admins : StepFits(iStep[b], iHeld[b])'
      BY <1>1 DEF GoodsInv, GoodsTyped
    <2>2. QED
      BY <1>1, <1>3, <2>1 DEF GoodsInv, GoodsTyped
  <1>6. QuotaRows'
    BY <1>1, <1>4, QuotaStays
  <1>7. ASSUME "images" \notin iMixed'
        PROVE  /\ AloneAt(ImageSteps)'
               /\ \A b \in Admins : UploadHolds(iStep[b], iHeld[b])'
               /\ CacheRight'
    <2>1. \A b \in Admins : iStep'[b] \notin ImageSteps
      BY <1>1, <1>4, <1>7
    <2>2. AloneAt(ImageSteps)' /\ \A b \in Admins : UploadHolds(iStep[b], iHeld[b])'
      BY <2>1 DEF AloneAt, UploadHolds, ImageSteps, UploadSteps
    <2>3. CacheRight
      BY <1>4, <1>7 DEF GoodsInv, ImageRows, CacheRight
    <2>4. CacheRight'
      BY <1>1, <1>2, <1>3, <2>3, ImageGone
    <2>5. QED
      BY <2>2, <2>4
  <1>8. ASSUME iMixed' = {}
        PROVE  /\ \A b \in Admins : iStep'[b] \in QuotaSteps => iHeld'[b].quota <= total'
               /\ shared' \/ Goodsroom!Used' <= total'
    <2>1. /\ \A b \in Admins : iStep[b] \in QuotaSteps => iHeld[b].quota <= total
          /\ shared \/ Goodsroom!Used <= total
      BY <1>4, <1>8 DEF GoodsInv, ImageRows, QuotaSteps
    <2>2. shared' \/ Goodsroom!Used' <= total'
      BY <1>1, <1>2, <1>3, <2>1, ImageGone
    <2>3. QED
      BY <1>1, <2>1, <2>2
  <1>9. ImageRows'
    BY <1>7, <1>8 DEF ImageRows, CacheRight, QuotaSteps
  <1>10. QED
    BY <1>5, <1>6, <1>9 DEF GoodsInv

LEMMA CacheLapseStep ==
  ASSUME GoodsInv, Goodsroom!CacheLapse
  PROVE  GoodsInv'
  <1>1. /\ cache' = Goodsroom!Nothing /\ dated' = FALSE
        /\ UNCHANGED <<total, application, image, iStep, iHeld, iMixed, shared, iLost>>
    BY DEF Goodsroom!CacheLapse
  <1>2. GoodsTyped'
    <2>1. \A b \in Admins : StepFits(iStep[b], iHeld[b])'
      BY <1>1 DEF GoodsInv, GoodsTyped
    <2>2. QED
      BY <1>1, <2>1 DEF GoodsInv, GoodsTyped
  <1>3. QuotaRows'
    BY <1>1, QuotaStays
  <1>4. Goodsroom!Used' = Goodsroom!Used /\ Goodsroom!Listed' = Goodsroom!Listed
    BY <1>1, SameImages
  <1>5. \A b \in Admins : UploadHolds(iStep[b], iHeld[b]) => UploadHolds(iStep[b], iHeld[b])'
    BY <1>1, <1>4 DEF UploadHolds, Goodsroom!Needed
  <1>6. AloneAt(ImageSteps) => AloneAt(ImageSteps)'
    BY <1>1 DEF AloneAt
  <1>7. ImageRows'
    BY <1>1, <1>4, <1>5, <1>6 DEF GoodsInv, ImageRows
  <1>8. QED
    BY <1>2, <1>3, <1>7 DEF GoodsInv

LEMMA GoodsStays ==
  ASSUME GoodsInv, UNCHANGED imagesVars
  PROVE  GoodsInv'
  <1>1. UNCHANGED <<total, application, image, cache, iStep, iHeld, iMixed, shared, dated, iLost>>
    BY DEF imagesVars
  <1>2. GoodsTyped'
    <2>1. \A b \in Admins : StepFits(iStep[b], iHeld[b])'
      BY <1>1 DEF GoodsInv, GoodsTyped
    <2>2. QED
      BY <1>1, <2>1 DEF GoodsInv, GoodsTyped
  <1>3. QuotaRows'
    BY <1>1, QuotaStays
  <1>4. total' \in Nat /\ total <= total'
    <2>1. total \in Nat
      BY DEF GoodsInv, GoodsTyped
    <2>2. total' = total
      BY <1>1
    <2>3. QED
      BY <2>1, <2>2
  <1>5. ImageRows'
    BY <1>1, <1>4, ImagesStay
  <1>6. QED
    BY <1>2, <1>3, <1>5 DEF GoodsInv

LEMMA GoodsStep == GoodsInv /\ [Goodsroom!ImagesNext]_imagesVars => GoodsInv'
  <1> SUFFICES ASSUME GoodsInv, [Goodsroom!ImagesNext]_imagesVars
               PROVE  GoodsInv'
    OBVIOUS
  <1>1. ASSUME NEW a \in Applications, Goodsroom!Apply(a) PROVE GoodsInv'
    BY <1>1, ApplyStep
  <1>2. ASSUME NEW v \in Pictured, Goodsroom!Remove(v) PROVE GoodsInv'
    BY <1>2, RemoveStep
  <1>3. ASSUME NEW c \in Admins, NEW a \in Applications, Goodsroom!ApproveStart(c, a) PROVE GoodsInv'
    BY <1>3, ApproveStartStep
  <1>4. ASSUME NEW c \in Admins,
               Goodsroom!Mark(c) \/ Goodsroom!ReadQuota(c) \/ Goodsroom!AddQuota(c)
        PROVE  GoodsInv'
    BY <1>4, MarkStep, ReadQuotaStep, AddQuotaStep
  <1>5. ASSUME NEW c \in Admins, NEW v \in Pictured \cup {Goodsroom!Nothing}, NEW h \in Images,
               Goodsroom!UploadStart(c, v, h)
        PROVE  GoodsInv'
    BY <1>5, UploadStartStep
  <1>6. ASSUME NEW c \in Admins,
               Goodsroom!QuotaRead(c) \/ Goodsroom!CalculateUsedQuota(c) \/ Goodsroom!SetUsedQuota(c)
        PROVE  GoodsInv'
    BY <1>6, QuotaReadStep, CalculateStep, SetUsedQuotaStep
  <1>7. ASSUME NEW c \in Admins,
               Goodsroom!Refuse(c) \/ Goodsroom!UpdateFails(c) \/ Goodsroom!InvalidateUsedQuota(c)
        PROVE  GoodsInv'
    BY <1>7, QuitSteps
  <1>8. ASSUME NEW c \in Admins,
               Goodsroom!Pass(c) \/ Goodsroom!CreateVersion(c) \/ Goodsroom!UpdateVersion(c)
        PROVE  GoodsInv'
    BY <1>8, PassStep, CreateVersionStep, UpdateVersionStep
  <1>9. ASSUME NEW c \in Admins, NEW v \in Pictured, Goodsroom!RemoveImage(c, v) PROVE GoodsInv'
    BY <1>9, RemoveImageStep
  <1>10. CASE Goodsroom!CacheLapse
    BY <1>10, CacheLapseStep
  <1>11. CASE Goodsroom!Restart
    BY <1>11, GoodsRestart
  <1>12. CASE UNCHANGED imagesVars
    BY <1>12, GoodsStays
  <1>13. CASE Goodsroom!ImagesNext
    BY <1>1, <1>2, <1>3, <1>4, <1>5, <1>6, <1>7, <1>8, <1>9, <1>10, <1>11, <1>13
       DEF Goodsroom!ImagesNext
  <1>14. QED
    BY <1>12, <1>13

(* A store's quota is what its granted applications made of it, its images *)
(* fit it, the cached sum hides no image and a refusal has a reason: in    *)
(* every behaviour of any number of images, versions and handlers, as long *)
(* as no two of a kind met (GoodsService, StoreResourceService).           *)
THEOREM QuotaAlwaysHolds == StoreSpec => []QuotaHolds
  <1>1. StoreInit => GoodsPart
    BY GoodsInitInv DEF StoreInit, GoodsPart
  <1>2. GoodsPart /\ [StoreNext]_storeVars => GoodsPart'
    BY GoodsStep, Parts DEF GoodsPart
  <1>3. GoodsPart => QuotaHolds
    BY GoodsInvSound DEF GoodsPart, QuotaHolds
  <1>4. QED
    BY <1>1, <1>2, <1>3, PTL DEF StoreSpec, storeVars

(***************************************************************************)
(* The shelves.  A rank that a call is about to write is above every rank  *)
(* of its list as long as nobody wrote to that list in between, and of two *)
(* neighbours a call is about to exchange, each still has the rank it read *)
(* and nothing came between them.                                          *)
(***************************************************************************)
LEMMA Highest ==
  ASSUME NEW S, IsFiniteSet(S), S # {}, NEW f, \A x \in S : f[x] \in Nat
  PROVE  \E x \in S : \A y \in S : f[x] >= f[y]
  <1> DEFINE bad == {s \in SUBSET S : s # {} /\ ~\E x \in s : \A y \in s : f[x] >= f[y]}
  <1>1. ASSUME bad # {} PROVE FALSE
    <2>1. \A s \in bad : IsFiniteSet(s)
      BY FS_Subset
    <2>2. PICK s \in bad : \A t \in bad : Cardinality(s) <= Cardinality(t)
      BY <1>1, <2>1, SmallestSet
    <2>3. PICK x \in s : TRUE
      OBVIOUS
    <2>4. /\ Cardinality(s) \in Nat /\ Cardinality(s \ {x}) \in Nat
          /\ Cardinality(s \ {x}) = Cardinality(s) - 1
      BY <2>1, Without
    <2>5. s \ {x} \notin bad
      <3>1. ~(Cardinality(s) <= Cardinality(s \ {x}))
        BY <2>4
      <3>2. QED
        BY <2>2, <3>1
    <2>6. CASE s \ {x} = {}
      <3>1. \A y \in s : y = x /\ f[x] >= f[y]
        BY <2>6
      <3>2. QED
        BY <3>1
    <2>7. CASE s \ {x} # {}
      <3>1. PICK z \in s \ {x} : \A y \in s \ {x} : f[z] >= f[y]
        BY <2>5, <2>7
      <3>2. f[x] \in Nat /\ f[z] \in Nat /\ \A y \in s : f[y] \in Nat
        OBVIOUS
      <3>3. CASE f[z] >= f[x]
        BY <3>1, <3>3
      <3>4. CASE f[x] >= f[z]
        <4>1. \A y \in s \ {x} : f[x] >= f[y]
          BY <3>1, <3>2, <3>4
        <4>2. f[x] >= f[x]
          BY <3>2
        <4>3. \A y \in s : f[x] >= f[y]
          BY <4>1, <4>2
        <4>4. QED
          BY <4>3
      <3>5. QED
        BY <3>2, <3>3, <3>4
    <2>8. QED
      BY <2>6, <2>7
  <1>2. S \in SUBSET S /\ S \notin bad
    BY <1>1
  <1>3. QED
    BY <1>2

ShelfSteps == {"idle", "create", "move", "switch"}

ShelfRow == [list : Shelf!Lists \cup {"none"}, rank : Nat, active : BOOLEAN]

ShelfWork == [item : Shelf!Items \cup {"none"}, other : Shelf!Items \cup {"none"},
              list : Shelf!Lists \cup {"none"}, rank : Nat, mine : Nat, met : BOOLEAN]

(* Goods stand on their list, categories on the others.                    *)
Belongs(i, l) == i \in Goods <=> l = "goods"

RowsTyped ==
    /\ sRow \in [Shelf!Items -> ShelfRow]
    /\ \A i \in Shelf!Items : sRow[i].list = "none" => sRow[i] = Shelf!NoRow
    /\ \A i \in Shelf!There : Belongs(i, sRow[i].list)
    /\ tied \subseteq Shelf!Lists

CallsTyped ==
    /\ sStep \in [Merchants -> ShelfSteps]
    /\ sHeld \in [Merchants -> ShelfWork]
    /\ \A m \in Merchants : sStep[m] = "idle" <=> sHeld[m] = Shelf!NoWork

Above(l, n) == \A j \in Shelf!In(l) : sRow[j].rank < n

(* Item i has the rank a and item j the rank b, if they are still there.   *)
StillNeighbours(i, j, l, a, b) ==
    /\ i \in Shelf!There => sRow[i].list = l /\ sRow[i].rank = a
    /\ j \in Shelf!There => sRow[j].list = l /\ sRow[j].rank = b
    /\ \A x \in Shelf!In(l) : /\ ~(a < sRow[x].rank /\ sRow[x].rank < b)
                              /\ ~(b < sRow[x].rank /\ sRow[x].rank < a)

ShelfHolds(at, k) ==
    /\ at # "idle" => k.item \in Shelf!Items /\ k.list \in Shelf!Lists /\ Belongs(k.item, k.list)
    /\ at = "move" => k.item \in Categories \cap Shelf!There /\ k.list \in Categories
    /\ at \in {"create", "move"} /\ ~k.met => Above(k.list, k.rank)
    /\ at = "switch" =>
          /\ k.other \in Shelf!Items \ {k.item} /\ Belongs(k.other, k.list)
          /\ {k.item, k.other} \cap Categories \subseteq Shelf!There
          /\ ~k.met => StillNeighbours(k.item, k.other, k.list, k.mine, k.rank)

ShelfInv ==
    /\ RowsTyped /\ CallsTyped
    /\ \A m \in Merchants : ShelfHolds(sStep[m], sHeld[m])
    /\ Shelf!RanksDistinct

ShelfPart == part = "shelf" => ShelfInv

LEMMA ShelfNames ==
    /\ "none" \notin Shelf!Lists /\ "goods" \in Shelf!Lists /\ "0" \in Shelf!Lists
    /\ Categories \subseteq Shelf!Lists /\ Categories \subseteq Shelf!Items /\ Goods \subseteq Shelf!Items
    /\ IsFiniteSet(Shelf!Items)
    /\ \A c \in Categories, l \in Shelf!Lists : Belongs(c, l) <=> l # "goods"
    /\ \A g \in Goods, l \in Shelf!Lists : Belongs(g, l) <=> l = "goods"
  <1>1. IsFiniteSet(Shelf!Items)
    BY StoreAssumption, FS_Union DEF Shelf!Items
  <1>2. QED
    BY <1>1, StoreAssumption DEF Shelf!Lists, Shelf!Items, Belongs

(* The items that have a row are those that have a list.                   *)
LEMMA ThereMeans ==
  ASSUME RowsTyped, NEW i \in Shelf!Items
  PROVE  /\ i \in Shelf!There <=> sRow[i].list # "none"
         /\ i \in Shelf!There <=> sRow[i].list \in Shelf!Lists
         /\ sRow[i] \in ShelfRow /\ sRow[i].rank \in Nat
  <1>1. sRow[i] \in ShelfRow /\ (sRow[i].list = "none" => sRow[i] = Shelf!NoRow)
    BY DEF RowsTyped
  <1>2. PICK r \in ShelfRow : r = sRow[i]
    BY <1>1
  <1>3. r = Shelf!NoRow => r.list = "none"
    BY DEF Shelf!NoRow
  <1>4. QED
    BY <1>1, <1>2, <1>3, ShelfNames DEF Shelf!There, ShelfRow

LEMMA InMeans ==
  ASSUME RowsTyped, NEW l \in Shelf!Lists, NEW i
  PROVE  i \in Shelf!In(l) <=> i \in Shelf!Items /\ sRow[i].list = l
  BY ThereMeans, ShelfNames DEF Shelf!In, Shelf!There

(* What goes last goes behind every other.                                 *)
LEMMA AfterAll ==
  ASSUME RowsTyped, NEW is \in SUBSET Shelf!There
  PROVE  Shelf!After(is) \in Nat /\ \A j \in is : sRow[j].rank < Shelf!After(is)
  <1>1. CASE is = {}
    BY <1>1 DEF Shelf!After
  <1>2. CASE is # {}
    <2>1. is \subseteq Shelf!Items /\ IsFiniteSet(is)
      BY ShelfNames, FS_Subset DEF Shelf!There
    <2>2. PICK f : f = [j \in is |-> sRow[j].rank]
      OBVIOUS
    <2>3. \A j \in is : f[j] = sRow[j].rank /\ f[j] \in Nat
      BY <2>1, <2>2, ThereMeans
    <2>4. PICK x \in is : \A y \in is : f[x] >= f[y]
      BY <1>2, <2>1, <2>3, Highest
    <2>5. PICK rs : rs = Shelf!Ranks(is)
      OBVIOUS
    <2>6. rs = {f[j] : j \in is}
      BY <2>3, <2>5 DEF Shelf!Ranks
    <2>7. f[x] \in rs /\ \A y \in rs : f[x] >= y
      BY <2>4, <2>6
    <2>8. Shelf!Max(rs) \in rs /\ \A y \in rs : Shelf!Max(rs) >= y
      BY <2>7 DEF Shelf!Max
    <2>9. Shelf!Max(rs) \in Nat
      BY <2>3, <2>6, <2>8
    <2>10. Shelf!After(is) = Shelf!Max(rs) + 1
      BY <1>2, <2>5 DEF Shelf!After
    <2>11. ASSUME NEW j \in is PROVE sRow[j].rank < Shelf!After(is)
      <3>1. f[j] \in rs /\ f[j] \in Nat /\ sRow[j].rank = f[j]
        BY <2>3, <2>6
      <3>2. Shelf!Max(rs) >= f[j]
        BY <2>8, <3>1
      <3>3. QED
        BY <2>9, <2>10, <3>1, <3>2
    <2>12. QED
      BY <2>9, <2>10, <2>11
  <1>3. QED
    BY <1>1, <1>2

LEMMA ShelfInitInv == Shelf!ShelfInit => ShelfInv
  <1> SUFFICES ASSUME Shelf!ShelfInit PROVE ShelfInv
    OBVIOUS
  <1>1. Shelf!NoRow \in ShelfRow /\ Shelf!NoWork \in ShelfWork
    BY DEF Shelf!NoRow, Shelf!NoWork, ShelfRow, ShelfWork
  <1>2. Shelf!There = {}
    BY DEF Shelf!ShelfInit, Shelf!There
  <1>3. RowsTyped /\ CallsTyped
    BY <1>1, <1>2 DEF Shelf!ShelfInit, RowsTyped, CallsTyped, ShelfSteps
  <1>4. \A m \in Merchants : ShelfHolds(sStep[m], sHeld[m])
    BY DEF Shelf!ShelfInit, ShelfHolds
  <1>5. Shelf!RanksDistinct
    BY <1>2 DEF Shelf!RanksDistinct, Shelf!In
  <1>6. QED
    BY <1>3, <1>4, <1>5 DEF ShelfInv

LEMMA ThereNext ==
  ASSUME RowsTyped', NEW i \in Shelf!Items
  PROVE  /\ i \in Shelf!There' <=> sRow'[i].list # "none"
         /\ i \in Shelf!There' <=> sRow'[i].list \in Shelf!Lists
         /\ \A l \in Shelf!Lists : i \in Shelf!In(l)' <=> sRow'[i].list = l
  <1>1. sRow'[i] \in ShelfRow /\ (sRow'[i].list = "none" => sRow'[i] = Shelf!NoRow)
    BY DEF RowsTyped
  <1>2. PICK r \in ShelfRow : r = sRow'[i]
    BY <1>1
  <1>3. r = Shelf!NoRow => r.list = "none"
    BY DEF Shelf!NoRow
  <1>4. i \in Shelf!There' <=> r.list # "none"
    BY <1>1, <1>2, <1>3 DEF Shelf!There
  <1>5. r.list # "none" <=> r.list \in Shelf!Lists
    BY <1>2, ShelfNames DEF ShelfRow
  <1>6. \A l \in Shelf!Lists : i \in Shelf!In(l)' <=> r.list = l
    BY <1>2, <1>4, <1>5, ShelfNames DEF Shelf!In
  <1>7. QED
    BY <1>2, <1>4, <1>5, <1>6

(* What a step does to a list: nothing enters it, what stays has its rank, *)
(* and what leaves it is gone.                                             *)
Shrinks(l) ==
    \A i \in Shelf!Items : sRow'[i].list = l => sRow[i].list = l /\ sRow'[i].rank = sRow[i].rank

ListKept(l) ==
    /\ Shrinks(l)
    /\ \A i \in Shelf!Items : sRow[i].list = l => sRow'[i].list \in {l, "none"}

CategoriesStay == \A c \in Categories : sRow[c].list # "none" => sRow'[c].list # "none"

SameCall(k, q) ==
    /\ q.item = k.item /\ q.other = k.other /\ q.list = k.list /\ q.rank = k.rank /\ q.mine = k.mine
    /\ k.met => q.met

LEMMA HoldsKept ==
  ASSUME ShelfInv, RowsTyped', CategoriesStay, NEW at \in ShelfSteps, NEW k \in ShelfWork, NEW q \in ShelfWork,
         ShelfHolds(at, k), SameCall(k, q), ~q.met => ListKept(k.list)
  PROVE  ShelfHolds(at, q)'
  <1>1. CASE at = "idle"
    BY <1>1 DEF ShelfHolds
  <1>2. CASE at # "idle"
    <2>1. k.item \in Shelf!Items /\ k.list \in Shelf!Lists /\ Belongs(k.item, k.list)
      BY <1>2 DEF ShelfHolds
    <2>2. RowsTyped
      BY DEF ShelfInv
    <2>3. \A i \in Categories \cap Shelf!There : i \in Shelf!There'
      BY <2>2, ThereMeans, ThereNext, ShelfNames DEF CategoriesStay
    <2>4. at = "move" => q.item \in Categories \cap Shelf!There' /\ q.list \in Categories
      BY <2>3 DEF ShelfHolds, SameCall
    <2>5. at \in {"create", "move"} /\ ~q.met => Above(q.list, q.rank)'
      <3>1. SUFFICES ASSUME at \in {"create", "move"}, ~q.met, NEW j \in Shelf!In(k.list)'
                     PROVE  sRow'[j].rank < k.rank
        BY DEF Above, SameCall
      <3>2. j \in Shelf!Items /\ sRow'[j].list = k.list
        BY <2>1, <3>1, ThereNext DEF Shelf!In, Shelf!There
      <3>3. sRow[j].list = k.list /\ sRow'[j].rank = sRow[j].rank
        BY <3>1, <3>2 DEF ListKept, Shrinks
      <3>4. j \in Shelf!In(k.list)
        BY <2>1, <2>2, <3>2, <3>3, InMeans
      <3>5. ~k.met
        BY <3>1 DEF SameCall, ShelfWork
      <3>6. QED
        BY <3>1, <3>3, <3>4, <3>5 DEF ShelfHolds, Above
    <2>6. ASSUME at = "switch"
          PROVE  /\ q.other \in Shelf!Items \ {q.item} /\ Belongs(q.other, q.list)
                 /\ {q.item, q.other} \cap Categories \subseteq Shelf!There'
                 /\ ~q.met => StillNeighbours(q.item, q.other, q.list, q.mine, q.rank)'
      <3>1. /\ k.other \in Shelf!Items \ {k.item} /\ Belongs(k.other, k.list)
            /\ {k.item, k.other} \cap Categories \subseteq Shelf!There
            /\ ~k.met => StillNeighbours(k.item, k.other, k.list, k.mine, k.rank)
        BY <2>6 DEF ShelfHolds
      <3>2. {q.item, q.other} \cap Categories \subseteq Shelf!There'
        BY <2>3, <3>1 DEF SameCall
      <3>3. ASSUME ~q.met
            PROVE  StillNeighbours(k.item, k.other, k.list, k.mine, k.rank)'
        <4>1. StillNeighbours(k.item, k.other, k.list, k.mine, k.rank)
          BY <3>1, <3>3 DEF SameCall
        <4>2. ASSUME NEW i \in Shelf!Items, i \in {k.item, k.other}, i \in Shelf!There'
              PROVE  i \in Shelf!There /\ sRow'[i].list = k.list /\ sRow'[i].rank = sRow[i].rank
          <5>1. CASE i \in Categories
            <6>1. i \in Shelf!There
              BY <3>1, <4>2, <5>1
            <6>2. sRow[i].list = k.list
              BY <4>1, <4>2, <6>1 DEF StillNeighbours
            <6>3. sRow'[i].list = k.list
              BY <3>3, <4>2, <6>2, ThereNext DEF ListKept
            <6>4. QED
              BY <3>3, <6>1, <6>3 DEF ListKept, Shrinks
          <5>2. CASE i \in Goods
            <6>1. k.list = "goods"
              BY <2>1, <3>1, <4>2, <5>2, ShelfNames
            <6>2. sRow'[i].list = "goods"
              BY <4>2, <5>2 DEF RowsTyped, Belongs
            <6>3. sRow[i].list = k.list /\ sRow'[i].rank = sRow[i].rank
              BY <3>3, <6>1, <6>2 DEF ListKept, Shrinks
            <6>4. QED
              BY <2>1, <2>2, <6>1, <6>2, <6>3, ThereMeans
          <5>3. QED
            BY <5>1, <5>2 DEF Shelf!Items
        <4>3. ASSUME NEW x \in Shelf!In(k.list)'
              PROVE  x \in Shelf!In(k.list) /\ sRow'[x].rank = sRow[x].rank
          <5>1. x \in Shelf!Items /\ sRow'[x].list = k.list
            BY <2>1, <4>3, ThereNext DEF Shelf!In, Shelf!There
          <5>2. QED
            BY <2>1, <2>2, <3>3, <5>1, InMeans DEF ListKept, Shrinks
        <4>4. QED
          BY <2>1, <3>1, <4>1, <4>2, <4>3 DEF StillNeighbours
      <3>4. QED
        BY <3>1, <3>2, <3>3 DEF SameCall
    <2>7. q.item \in Shelf!Items /\ q.list \in Shelf!Lists /\ Belongs(q.item, q.list)
      BY <2>1 DEF SameCall
    <2>8. QED
      BY <2>4, <2>5, <2>6, <2>7 DEF ShelfHolds
  <1>3. QED
    BY <1>1, <1>2

LEMMA DistinctKept ==
  ASSUME ShelfInv, RowsTyped', NEW l \in Shelf!Lists \ tied, Shrinks(l)
  PROVE  \A i, j \in Shelf!In(l)' : sRow'[i].rank = sRow'[j].rank => i = j
  <1>1. \A i \in Shelf!In(l)' : i \in Shelf!In(l) /\ sRow'[i].rank = sRow[i].rank
    BY ThereNext, InMeans DEF ShelfInv, Shelf!In, Shelf!There, Shrinks
  <1>2. QED
    BY <1>1 DEF ShelfInv, Shelf!RanksDistinct

(* A step that writes rows and lets every other call go on.                *)
LEMMA ShelfWritten ==
  ASSUME ShelfInv, RowsTyped', CallsTyped', CategoriesStay, tied \subseteq tied',
         \A b \in Merchants : \/ sStep'[b] = "idle"
                              \/ /\ sStep'[b] = sStep[b] /\ SameCall(sHeld[b], sHeld'[b])
                                 /\ sStep[b] # "idle" /\ ~sHeld'[b].met => ListKept(sHeld[b].list),
         \A l \in Shelf!Lists \ tied' : \/ Shrinks(l)
                                        \/ \A i, j \in Shelf!In(l)' : sRow'[i].rank = sRow'[j].rank => i = j
  PROVE  ShelfInv'
  <1>1. ASSUME NEW b \in Merchants PROVE ShelfHolds(sStep[b], sHeld[b])'
    <2>1. CASE sStep'[b] = "idle"
      BY <2>1 DEF ShelfHolds
    <2>2. CASE sStep'[b] # "idle"
      <3>1. /\ sStep'[b] = sStep[b] /\ SameCall(sHeld[b], sHeld'[b])
            /\ ~sHeld'[b].met => ListKept(sHeld[b].list)
        BY <2>2
      <3>2. PICK k \in ShelfWork : k = sHeld[b]
        BY DEF ShelfInv, CallsTyped
      <3>3. PICK q \in ShelfWork : q = sHeld'[b]
        BY DEF CallsTyped
      <3>4. PICK at \in ShelfSteps : at = sStep[b]
        BY DEF ShelfInv, CallsTyped
      <3>5. ShelfHolds(at, k)
        BY <3>2, <3>4 DEF ShelfInv
      <3>6. ShelfHolds(at, q)'
        BY <3>1, <3>2, <3>3, <3>5, HoldsKept
      <3>7. QED
        BY <3>1, <3>3, <3>4, <3>6 DEF ShelfHolds, Above, StillNeighbours
    <2>3. QED
      BY <2>1, <2>2
  <1>2. Shelf!RanksDistinct'
    BY DistinctKept DEF Shelf!RanksDistinct
  <1>3. QED
    BY <1>1, <1>2 DEF ShelfInv

(* A call that begins writes no row.                                       *)
LEMMA ShelfBegins ==
  ASSUME ShelfInv, NEW m \in Merchants, NEW at \in ShelfSteps \ {"idle"}, NEW k \in ShelfWork,
         k.list \in Shelf!Lists, Shelf!Put(m, at, k), UNCHANGED <<sRow, tied>>, ShelfHolds(at, k)
  PROVE  ShelfInv'
  <1>1. RowsTyped'
    BY DEF ShelfInv, RowsTyped, Shelf!There
  <1>2. k # Shelf!NoWork
    BY ShelfNames DEF Shelf!NoWork
  <1>3. /\ sStep' \in [Merchants -> ShelfSteps] /\ sHeld' \in [Merchants -> ShelfWork]
        /\ sStep'[m] = at /\ sHeld'[m] = k
        /\ \A b \in Merchants \ {m} : sStep'[b] = sStep[b] /\ sHeld'[b] = sHeld[b]
    BY DEF ShelfInv, CallsTyped, Shelf!Put
  <1>4. CallsTyped'
    BY <1>2, <1>3 DEF ShelfInv, CallsTyped
  <1>5. Shelf!There' = Shelf!There /\ \A l : Shelf!In(l)' = Shelf!In(l)
    BY DEF Shelf!There, Shelf!In
  <1>6. \A b \in Merchants \ {m} : ShelfHolds(sStep[b], sHeld[b])'
    BY <1>3, <1>5 DEF ShelfInv, ShelfHolds, Above, StillNeighbours
  <1>7. ShelfHolds(at, k)'
    BY <1>5 DEF ShelfHolds, Above, StillNeighbours
  <1>8. ShelfHolds(sStep[m], sHeld[m])'
    BY <1>3, <1>7 DEF ShelfHolds, Above, StillNeighbours
  <1>9. Shelf!RanksDistinct'
    BY <1>5 DEF ShelfInv, Shelf!RanksDistinct
  <1>10. QED
    BY <1>1, <1>4, <1>6, <1>8, <1>9 DEF ShelfInv

(* A call that ends overtakes those that read the lists it wrote.          *)
LEMMA ShelfEnds ==
  ASSUME ShelfInv, NEW m \in Merchants, NEW ls \in SUBSET Shelf!Lists, Shelf!Done(m, ls),
         RowsTyped', CategoriesStay, tied \subseteq tied', \A l \in Shelf!Lists \ ls : ListKept(l),
         \A l \in Shelf!Lists \ tied' : \/ Shrinks(l)
                                        \/ \A i, j \in Shelf!In(l)' : sRow'[i].rank = sRow'[j].rank => i = j
  PROVE  ShelfInv'
  <1>1. ASSUME NEW b \in Merchants \ {m}
        PROVE  /\ sStep'[b] = sStep[b] /\ sHeld'[b] \in ShelfWork
               /\ SameCall(sHeld[b], sHeld'[b])
               /\ sHeld[b].list \in ls => sHeld'[b].met
               /\ sHeld'[b] = Shelf!NoWork <=> sHeld[b] = Shelf!NoWork
    <2>1. PICK k \in ShelfWork : k = sHeld[b]
      BY DEF ShelfInv, CallsTyped
    <2>2. PICK y \in BOOLEAN : y = (k.met \/ k.list \in ls)
      OBVIOUS
    <2>3. PICK q : q = [k EXCEPT !.met = y]
      OBVIOUS
    <2>4. sStep'[b] = sStep[b] /\ sHeld'[b] = q
      BY <2>1, <2>2, <2>3 DEF Shelf!Done, ShelfInv, CallsTyped
    <2>5. /\ q \in ShelfWork /\ q.met = y /\ q.item = k.item /\ q.other = k.other
          /\ q.list = k.list /\ q.rank = k.rank /\ q.mine = k.mine
      BY <2>3 DEF ShelfWork
    <2>6. k = Shelf!NoWork <=> q = Shelf!NoWork
      <3>1. CASE k = Shelf!NoWork
        <4>1. ~y
          BY <2>2, <3>1, ShelfNames DEF Shelf!NoWork
        <4>2. q = Shelf!NoWork
          BY <2>3, <3>1, <4>1 DEF Shelf!NoWork
        <4>3. QED
          BY <3>1, <4>2
      <3>2. CASE q = Shelf!NoWork
        <4>1. ~q.met
          BY <3>2 DEF Shelf!NoWork
        <4>2. ~k.met
          BY <2>2, <2>5, <4>1
        <4>3. k = q
          BY <2>5, <4>1, <4>2 DEF ShelfWork
        <4>4. QED
          BY <3>2, <4>3
      <3>3. QED
        BY <3>1, <3>2
    <2>7. QED
      BY <2>1, <2>2, <2>4, <2>5, <2>6 DEF SameCall
  <1>2. sStep'[m] = "idle" /\ sHeld'[m] = Shelf!NoWork /\ Shelf!NoWork \in ShelfWork
    BY DEF Shelf!Done, ShelfInv, CallsTyped, Shelf!NoWork, ShelfWork
  <1>3. CallsTyped'
    <2>1. sStep' \in [Merchants -> ShelfSteps]
      BY DEF Shelf!Done, ShelfInv, CallsTyped, ShelfSteps
    <2>2. sHeld' = [b \in Merchants |-> sHeld'[b]]
      BY DEF Shelf!Done
    <2>3. \A b \in Merchants : sHeld'[b] \in ShelfWork
      BY <1>1, <1>2
    <2>4. \A b \in Merchants : sStep'[b] = "idle" <=> sHeld'[b] = Shelf!NoWork
      BY <1>1, <1>2 DEF ShelfInv, CallsTyped
    <2>5. QED
      BY <2>1, <2>2, <2>3, <2>4 DEF CallsTyped
  <1>4. ASSUME NEW b \in Merchants \ {m}, sStep[b] # "idle", ~sHeld'[b].met
        PROVE  ListKept(sHeld[b].list)
    <2>1. ShelfHolds(sStep[b], sHeld[b])
      BY DEF ShelfInv
    <2>2. sHeld[b].list \in Shelf!Lists
      BY <1>4, <2>1 DEF ShelfHolds
    <2>3. QED
      BY <1>1, <1>4, <2>2
  <1>5. QED
    BY <1>1, <1>2, <1>3, <1>4, ShelfWritten

(***************************************************************************)
(* The handlers of goods and categories.                                   *)
(***************************************************************************)
LEMMA CreateGoodsStep ==
  ASSUME ShelfInv, NEW m \in Merchants, NEW g \in Goods, Shelf!CreateGoods(m, g)
  PROVE  ShelfInv'
  <1>1. Shelf!In("goods") \in SUBSET Shelf!There
    BY DEF Shelf!In
  <1>2. PICK n \in Nat : n = Shelf!After(Shelf!In("goods")) /\ Above("goods", n)
    BY <1>1, AfterAll DEF ShelfInv, Above
  <1>3. PICK k : k = [Shelf!NoWork EXCEPT !.item = g, !.list = "goods", !.rank = n]
    OBVIOUS
  <1>4. k \in ShelfWork /\ k.item = g /\ k.list = "goods" /\ k.rank = n /\ ~k.met
    BY <1>3, ShelfNames DEF Shelf!NoWork, ShelfWork
  <1>5. ShelfHolds("create", k)
    BY <1>2, <1>4, ShelfNames DEF ShelfHolds
  <1>6. Shelf!Put(m, "create", k) /\ UNCHANGED <<sRow, tied>>
    BY <1>2, <1>3 DEF Shelf!CreateGoods
  <1>7. QED
    BY <1>4, <1>5, <1>6, ShelfNames, ShelfBegins DEF ShelfSteps

LEMMA CreateCategoryStep ==
  ASSUME ShelfInv, NEW m \in Merchants, NEW c \in Categories,
         NEW p \in {"0"} \cup (Categories \cap Shelf!There), Shelf!CreateCategory(m, c, p)
  PROVE  ShelfInv'
  <1>1. PICK last : last = IF p = "0" THEN Categories \cap Shelf!There ELSE Shelf!In(p)
    OBVIOUS
  <1>2. last \in SUBSET Shelf!There
    BY <1>1 DEF Shelf!In
  <1>3. p \in Shelf!Lists /\ p # "goods" /\ p # "none"
    BY ShelfNames, StoreAssumption
  <1>4. Shelf!In(p) \subseteq last
    <2>1. CASE p = "0"
      BY <1>1, <1>3, <2>1, ShelfNames DEF Shelf!In, ShelfInv, RowsTyped, Belongs, Shelf!Items, Shelf!There
    <2>2. CASE p # "0"
      BY <1>1, <2>2
    <2>3. QED
      BY <2>1, <2>2
  <1>5. PICK n \in Nat : n = Shelf!After(last) /\ Above(p, n)
    BY <1>2, <1>4, AfterAll DEF ShelfInv, Above
  <1>6. PICK k : k = [Shelf!NoWork EXCEPT !.item = c, !.list = p, !.rank = n]
    OBVIOUS
  <1>7. k \in ShelfWork /\ k.item = c /\ k.list = p /\ k.rank = n /\ ~k.met
    BY <1>3, <1>6, ShelfNames DEF Shelf!NoWork, ShelfWork
  <1>8. ShelfHolds("create", k)
    BY <1>3, <1>5, <1>7, ShelfNames DEF ShelfHolds
  <1>9. Shelf!Put(m, "create", k) /\ UNCHANGED <<sRow, tied>>
    BY <1>1, <1>5, <1>6 DEF Shelf!CreateCategory
  <1>10. QED
    BY <1>3, <1>7, <1>8, <1>9, ShelfBegins DEF ShelfSteps

LEMMA SwitchCategoryStep ==
  ASSUME ShelfInv, NEW m \in Merchants, NEW c \in Categories, NEW p \in Categories,
         Shelf!SwitchCategory(m, c, p)
  PROVE  ShelfInv'
  <1>1. {c, p} \subseteq Shelf!There
    BY DEF Shelf!SwitchCategory
  <1>2. Shelf!In(p) \in SUBSET Shelf!There
    BY DEF Shelf!In
  <1>3. PICK n \in Nat : n = Shelf!After(Shelf!In(p)) /\ Above(p, n)
    BY <1>2, AfterAll DEF ShelfInv, Above
  <1>4. PICK k : k = [Shelf!NoWork EXCEPT !.item = c, !.list = p, !.rank = n]
    OBVIOUS
  <1>5. k \in ShelfWork /\ k.item = c /\ k.list = p /\ k.rank = n /\ ~k.met
    BY <1>4, ShelfNames DEF Shelf!NoWork, ShelfWork
  <1>6. p # "goods"
    BY StoreAssumption
  <1>7. ShelfHolds("move", k)
    BY <1>1, <1>3, <1>5, <1>6, ShelfNames DEF ShelfHolds
  <1>8. Shelf!Put(m, "move", k) /\ UNCHANGED <<sRow, tied>>
    BY <1>3, <1>4 DEF Shelf!SwitchCategory
  <1>9. QED
    BY <1>5, <1>7, <1>8, ShelfNames, ShelfBegins DEF ShelfSteps

LEMMA SwitchStartStep ==
  ASSUME ShelfInv, NEW m \in Merchants, NEW i \in Shelf!Items, Shelf!SwitchStart(m, i)
  PROVE  ShelfInv'
  <1>1. i \in Shelf!There
    BY DEF Shelf!SwitchStart
  <1>2. PICK l \in Shelf!Lists : l = sRow[i].list
    BY <1>1, ThereMeans DEF ShelfInv
  <1>3. PICK up \in BOOLEAN : \E j \in Shelf!Neighbours(i, up) :
           Shelf!Put(m, "switch", [Shelf!NoWork EXCEPT !.item = i, !.other = j, !.list = sRow[i].list,
                                        !.mine = sRow[i].rank, !.rank = sRow[j].rank])
    BY DEF Shelf!SwitchStart
  <1>4. PICK j \in Shelf!Neighbours(i, up) :
           Shelf!Put(m, "switch", [Shelf!NoWork EXCEPT !.item = i, !.other = j, !.list = sRow[i].list,
                                        !.mine = sRow[i].rank, !.rank = sRow[j].rank])
    BY <1>3
  <1>5. /\ j \in Shelf!In(l) \ {i}
        /\ \A x \in Shelf!In(l) \ {i} :
              /\ up => sRow[j].rank <= sRow[i].rank
                       /\ (sRow[x].rank <= sRow[i].rank => sRow[x].rank <= sRow[j].rank)
              /\ ~up => sRow[j].rank >= sRow[i].rank
                        /\ (sRow[x].rank >= sRow[i].rank => sRow[x].rank >= sRow[j].rank)
    BY <1>2 DEF Shelf!Neighbours
  <1>6. j \in Shelf!Items /\ j \in Shelf!There /\ sRow[j].list = l
    BY <1>5 DEF Shelf!In, Shelf!There
  <1>7. PICK a \in Nat : a = sRow[i].rank
    BY ThereMeans DEF ShelfInv
  <1>8. PICK b \in Nat : b = sRow[j].rank
    BY <1>6, ThereMeans DEF ShelfInv
  <1>9. \A x \in Shelf!In(l) : sRow[x].rank \in Nat
    BY ThereMeans DEF ShelfInv, Shelf!In, Shelf!There
  <1>10. PICK k : k = [Shelf!NoWork EXCEPT !.item = i, !.other = j, !.list = l, !.mine = a, !.rank = b]
    OBVIOUS
  <1>11. k \in ShelfWork /\ k.item = i /\ k.other = j /\ k.list = l /\ k.mine = a /\ k.rank = b /\ ~k.met
    BY <1>6, <1>10 DEF Shelf!NoWork, ShelfWork
  <1>12. Belongs(i, l) /\ Belongs(j, l)
    BY <1>1, <1>2, <1>6 DEF ShelfInv, RowsTyped
  <1>13. \A x \in Shelf!In(l) : ~(a < sRow[x].rank /\ sRow[x].rank < b) /\ ~(b < sRow[x].rank /\ sRow[x].rank < a)
    <2> SUFFICES ASSUME NEW x \in Shelf!In(l)
                 PROVE  ~(a < sRow[x].rank /\ sRow[x].rank < b) /\ ~(b < sRow[x].rank /\ sRow[x].rank < a)
      OBVIOUS
    <2>1. PICK c \in Nat : c = sRow[x].rank
      BY <1>9
    <2>2. CASE x = i
      BY <1>7, <2>1, <2>2
    <2>3. CASE x # i /\ up
      <3>1. b <= a /\ (c <= a => c <= b)
        BY <1>5, <1>7, <1>8, <2>1, <2>3
      <3>2. QED
        BY <2>1, <3>1
    <2>4. CASE x # i /\ ~up
      <3>1. b >= a /\ (c >= a => c >= b)
        BY <1>5, <1>7, <1>8, <2>1, <2>4
      <3>2. QED
        BY <2>1, <3>1
    <2>5. QED
      BY <2>2, <2>3, <2>4
  <1>14. StillNeighbours(i, j, l, a, b)
    BY <1>2, <1>6, <1>7, <1>8, <1>13 DEF StillNeighbours
  <1>15. ShelfHolds("switch", k)
    BY <1>1, <1>5, <1>6, <1>11, <1>12, <1>14 DEF ShelfHolds
  <1>16. Shelf!Put(m, "switch", k) /\ UNCHANGED <<sRow, tied>>
    BY <1>2, <1>4, <1>7, <1>8, <1>10 DEF Shelf!SwitchStart
  <1>17. QED
    BY <1>11, <1>15, <1>16, ShelfBegins DEF ShelfSteps

LEMMA RemoveGoodsStep ==
  ASSUME ShelfInv, NEW g \in Goods, Shelf!RemoveGoods(g)
  PROVE  ShelfInv'
  <1>1. sRow' = [sRow EXCEPT ![g] = Shelf!NoRow] /\ UNCHANGED <<sStep, sHeld, tied>>
    BY DEF Shelf!RemoveGoods
  <1>2. /\ g \in Shelf!Items /\ sRow' \in [Shelf!Items -> ShelfRow] /\ sRow'[g] = Shelf!NoRow
        /\ sRow'[g].list = "none"
        /\ \A i \in Shelf!Items \ {g} : sRow'[i] = sRow[i]
    BY <1>1, ShelfNames DEF ShelfInv, RowsTyped, Shelf!NoRow, ShelfRow
  <1>3. RowsTyped'
    BY <1>1, <1>2 DEF ShelfInv, RowsTyped, Shelf!There
  <1>4. \A l \in Shelf!Lists : ListKept(l)
    BY <1>2, ShelfNames DEF ListKept, Shrinks
  <1>5. CategoriesStay
    BY <1>2, ShelfNames, StoreAssumption DEF CategoriesStay
  <1>6. CallsTyped'
    BY <1>1 DEF ShelfInv, CallsTyped
  <1>7. \A b \in Merchants : /\ sStep'[b] = sStep[b] /\ SameCall(sHeld[b], sHeld'[b])
                             /\ sStep[b] # "idle" => ListKept(sHeld[b].list)
    BY <1>1, <1>4 DEF SameCall, ShelfInv, ShelfHolds
  <1>8. \A l \in Shelf!Lists \ tied' : Shrinks(l)
    BY <1>4 DEF ListKept
  <1>9. tied \subseteq tied'
    BY <1>1
  <1>10. QED
    BY <1>3, <1>5, <1>6, <1>7, <1>8, <1>9, ShelfWritten

LEMMA ActiveStep ==
  ASSUME ShelfInv, NEW c \in Categories, Shelf!Reactive(c) \/ Shelf!RemoveCategory(c)
  PROVE  ShelfInv'
  <1>1. PICK y \in BOOLEAN : sRow' = [sRow EXCEPT ![c].active = y]
    BY DEF Shelf!Reactive, Shelf!RemoveCategory
  <1>2. UNCHANGED <<sStep, sHeld, tied>> /\ c \in Shelf!There /\ c \in Shelf!Items
    BY ShelfNames DEF Shelf!Reactive, Shelf!RemoveCategory
  <1>3. PICK r \in ShelfRow : r = sRow[c]
    BY <1>2 DEF ShelfInv, RowsTyped
  <1>4. PICK q : q = [r EXCEPT !.active = y]
    OBVIOUS
  <1>5. q \in ShelfRow /\ q.list = r.list /\ q.rank = r.rank /\ r.list # "none"
    BY <1>2, <1>3, <1>4, ThereMeans DEF ShelfRow, ShelfInv
  <1>6. /\ sRow' \in [Shelf!Items -> ShelfRow] /\ sRow'[c] = q
        /\ \A i \in Shelf!Items \ {c} : sRow'[i] = sRow[i]
    BY <1>1, <1>2, <1>3, <1>4, <1>5 DEF ShelfInv, RowsTyped
  <1>7. \A i \in Shelf!Items : sRow'[i].list = sRow[i].list /\ sRow'[i].rank = sRow[i].rank
    BY <1>3, <1>5, <1>6
  <1>8. RowsTyped'
    <2>1. \A i \in Shelf!There' : i \in Shelf!Items /\ (i = c \/ sRow[i] # Shelf!NoRow)
      BY <1>6 DEF Shelf!There
    <2>2. \A i \in Shelf!There' : Belongs(i, sRow'[i].list)
      BY <1>2, <1>7, <2>1 DEF ShelfInv, RowsTyped, Shelf!There
    <2>3. \A i \in Shelf!Items : sRow'[i].list = "none" => sRow'[i] = Shelf!NoRow
      BY <1>3, <1>5, <1>6, <1>7 DEF ShelfInv, RowsTyped
    <2>4. QED
      BY <1>2, <1>6, <2>2, <2>3 DEF ShelfInv, RowsTyped
  <1>9. \A l \in Shelf!Lists : ListKept(l)
    BY <1>7 DEF ListKept, Shrinks
  <1>10. CategoriesStay
    BY <1>7, ShelfNames DEF CategoriesStay
  <1>11. CallsTyped'
    BY <1>2 DEF ShelfInv, CallsTyped
  <1>12. \A b \in Merchants : /\ sStep'[b] = sStep[b] /\ SameCall(sHeld[b], sHeld'[b])
                              /\ sStep[b] # "idle" => ListKept(sHeld[b].list)
    BY <1>2, <1>9 DEF SameCall, ShelfInv, ShelfHolds
  <1>13. \A l \in Shelf!Lists \ tied' : Shrinks(l)
    BY <1>9 DEF ListKept
  <1>14. tied \subseteq tied'
    BY <1>2
  <1>15. QED
    BY <1>8, <1>10, <1>11, <1>12, <1>13, <1>14, ShelfWritten

LEMMA InsertStep ==
  ASSUME ShelfInv, NEW m \in Merchants, Shelf!Insert(m)
  PROVE  ShelfInv'
  <1>1. PICK k \in ShelfWork : k = sHeld[m]
    BY DEF ShelfInv, CallsTyped
  <1>2. /\ k.item \in Shelf!Items /\ k.list \in Shelf!Lists /\ Belongs(k.item, k.list)
        /\ ~k.met => Above(k.list, k.rank)
    BY <1>1 DEF Shelf!Insert, ShelfInv, ShelfHolds
  <1>3. Shelf!Done(m, {k.list}) /\ {k.list} \in SUBSET Shelf!Lists
    BY <1>1, <1>2 DEF Shelf!Insert
  <1>4. CASE k.item \in Shelf!There
    <2>1. UNCHANGED <<sRow, tied>>
      BY <1>1, <1>4 DEF Shelf!Insert
    <2>2. RowsTyped' /\ CategoriesStay /\ tied \subseteq tied'
      BY <2>1 DEF ShelfInv, RowsTyped, Shelf!There, CategoriesStay
    <2>3. \A l \in Shelf!Lists : ListKept(l) /\ Shrinks(l)
      BY <2>1 DEF ListKept, Shrinks
    <2>4. QED
      BY <1>3, <2>2, <2>3, ShelfEnds
  <1>5. CASE k.item \notin Shelf!There
    <2>1. PICK r : r = [list |-> k.list, rank |-> k.rank, active |-> TRUE]
      OBVIOUS
    <2>2. /\ sRow' = [sRow EXCEPT ![k.item] = r]
          /\ tied' = IF k.met THEN tied \cup {k.list} ELSE tied
      BY <1>1, <1>5, <2>1 DEF Shelf!Insert
    <2>3. r \in ShelfRow /\ r.list = k.list /\ r.rank = k.rank /\ r.list # "none"
      BY <1>2, <2>1, ShelfNames DEF ShelfRow, ShelfWork
    <2>4. /\ sRow' \in [Shelf!Items -> ShelfRow] /\ sRow'[k.item] = r
          /\ \A i \in Shelf!Items \ {k.item} : sRow'[i] = sRow[i]
      BY <1>2, <2>2, <2>3 DEF ShelfInv, RowsTyped
    <2>5. sRow[k.item].list = "none"
      BY <1>2, <1>5, ThereMeans DEF ShelfInv
    <2>6. RowsTyped'
      <3>1. \A i \in Shelf!There' : Belongs(i, sRow'[i].list)
        BY <1>2, <2>3, <2>4 DEF ShelfInv, RowsTyped, Shelf!There
      <3>2. \A i \in Shelf!Items : sRow'[i].list = "none" => sRow'[i] = Shelf!NoRow
        BY <2>3, <2>4 DEF ShelfInv, RowsTyped
      <3>3. tied' \subseteq Shelf!Lists
        BY <1>2, <2>2 DEF ShelfInv, RowsTyped
      <3>4. QED
        BY <2>4, <3>1, <3>2, <3>3 DEF RowsTyped
    <2>7. \A l \in Shelf!Lists \ {k.list} : ListKept(l)
      BY <2>3, <2>4, <2>5, ShelfNames DEF ListKept, Shrinks
    <2>8. CategoriesStay
      BY <2>3, <2>4, ShelfNames DEF CategoriesStay
    <2>9. tied \subseteq tied'
      BY <2>2
    <2>10. ASSUME k.list \notin tied', NEW i \in Shelf!In(k.list)', NEW j \in Shelf!In(k.list)',
                  sRow'[i].rank = sRow'[j].rank
           PROVE  i = j
      <3>1. Above(k.list, k.rank) /\ k.list \notin tied
        BY <1>2, <2>2, <2>10
      <3>2. ASSUME NEW x \in Shelf!In(k.list)', x # k.item
            PROVE  x \in Shelf!In(k.list) /\ sRow'[x].rank = sRow[x].rank /\ sRow[x].rank \in Nat
                   /\ sRow[x].rank < k.rank
        <4>1. x \in Shelf!Items /\ sRow'[x].list = k.list
          BY <1>2, <2>6, <3>2, ThereNext DEF Shelf!In, Shelf!There
        <4>2. x \in Shelf!In(k.list) /\ sRow'[x] = sRow[x]
          BY <1>2, <2>4, <3>2, <4>1, InMeans DEF ShelfInv
        <4>3. QED
          BY <3>1, <4>1, <4>2, ThereMeans DEF Above, ShelfInv
      <3>3. k.rank \in Nat /\ sRow'[k.item].rank = k.rank
        BY <2>3, <2>4 DEF ShelfWork
      <3>4. CASE i = k.item /\ j # k.item
        BY <2>10, <3>2, <3>3, <3>4
      <3>5. CASE j = k.item /\ i # k.item
        BY <2>10, <3>2, <3>3, <3>5
      <3>6. CASE i # k.item /\ j # k.item
        BY <1>2, <2>10, <3>1, <3>2, <3>6 DEF ShelfInv, Shelf!RanksDistinct
      <3>7. QED
        BY <3>4, <3>5, <3>6
    <2>11. \A l \in Shelf!Lists \ tied' : \/ Shrinks(l)
                                          \/ \A i, j \in Shelf!In(l)' : sRow'[i].rank = sRow'[j].rank => i = j
      BY <2>7, <2>10 DEF ListKept
    <2>12. QED
      BY <1>3, <2>6, <2>7, <2>8, <2>9, <2>11, ShelfEnds
  <1>6. QED
    BY <1>4, <1>5

(* A category that is taken to list p with rank n.                         *)
LEMMA MoveStep ==
  ASSUME ShelfInv, NEW m \in Merchants, Shelf!Move(m)
  PROVE  ShelfInv'
  <1>1. PICK k \in ShelfWork : k = sHeld[m]
    BY DEF ShelfInv, CallsTyped
  <1>2. PICK c \in Categories \cap Shelf!There : c = k.item
    BY <1>1 DEF Shelf!Move, ShelfInv, ShelfHolds
  <1>3. PICK p \in Categories : p = k.list
    BY <1>1 DEF Shelf!Move, ShelfInv, ShelfHolds
  <1>4. ~k.met => Above(p, k.rank)
    BY <1>1, <1>3 DEF Shelf!Move, ShelfInv, ShelfHolds
  <1>5. PICK r \in ShelfRow : r = sRow[c]
    BY <1>2, ShelfNames DEF ShelfInv, RowsTyped
  <1>6. c \in Shelf!Items /\ r.list \in Shelf!Lists /\ p \in Shelf!Lists /\ p # "none" /\ p # "goods"
    BY <1>2, <1>5, ThereMeans, ShelfNames, StoreAssumption DEF ShelfInv
  <1>7. /\ Shelf!Done(m, {p, r.list}) /\ {p, r.list} \in SUBSET Shelf!Lists
        /\ sRow' = [sRow EXCEPT ![c].list = p, ![c].rank = k.rank]
        /\ tied' = IF k.met THEN tied \cup {p} ELSE tied
    BY <1>1, <1>2, <1>3, <1>5, <1>6 DEF Shelf!Move
  <1>8. PICK q : q = [r EXCEPT !.list = p, !.rank = k.rank]
    OBVIOUS
  <1>9. q \in ShelfRow /\ q.list = p /\ q.rank = k.rank
    BY <1>6, <1>8 DEF ShelfRow, ShelfWork
  <1>10. /\ sRow' \in [Shelf!Items -> ShelfRow] /\ sRow'[c] = q
         /\ \A i \in Shelf!Items \ {c} : sRow'[i] = sRow[i]
    BY <1>5, <1>6, <1>7, <1>8, <1>9 DEF ShelfInv, RowsTyped
  <1>11. RowsTyped'
    <2>1. \A i \in Shelf!There' : Belongs(i, sRow'[i].list)
      BY <1>2, <1>6, <1>9, <1>10, ShelfNames DEF ShelfInv, RowsTyped, Shelf!There
    <2>2. \A i \in Shelf!Items : sRow'[i].list = "none" => sRow'[i] = Shelf!NoRow
      BY <1>6, <1>9, <1>10 DEF ShelfInv, RowsTyped
    <2>3. tied' \subseteq Shelf!Lists
      BY <1>6, <1>7 DEF ShelfInv, RowsTyped
    <2>4. QED
      BY <1>10, <2>1, <2>2, <2>3 DEF RowsTyped
  <1>12. \A l \in Shelf!Lists \ {p, r.list} : ListKept(l)
    BY <1>5, <1>9, <1>10, ShelfNames DEF ListKept, Shrinks
  <1>13. r.list # p => Shrinks(r.list)
    BY <1>9, <1>10 DEF Shrinks
  <1>14. CategoriesStay
    BY <1>6, <1>9, <1>10, ShelfNames DEF CategoriesStay
  <1>15. tied \subseteq tied'
    BY <1>7
  <1>16. ASSUME p \notin tied', NEW i \in Shelf!In(p)', NEW j \in Shelf!In(p)',
                sRow'[i].rank = sRow'[j].rank
         PROVE  i = j
    <2>1. Above(p, k.rank) /\ p \notin tied
      BY <1>4, <1>7, <1>16
    <2>2. ASSUME NEW x \in Shelf!In(p)', x # c
          PROVE  x \in Shelf!In(p) /\ sRow'[x].rank = sRow[x].rank /\ sRow[x].rank \in Nat
                 /\ sRow[x].rank < k.rank
      <3>1. x \in Shelf!Items /\ sRow'[x].list = p
        BY <1>6, <1>11, <2>2, ThereNext DEF Shelf!In, Shelf!There
      <3>2. x \in Shelf!In(p) /\ sRow'[x] = sRow[x]
        BY <1>6, <1>10, <2>2, <3>1, InMeans DEF ShelfInv
      <3>3. QED
        BY <2>1, <3>1, <3>2, ThereMeans DEF Above, ShelfInv
    <2>3. k.rank \in Nat /\ sRow'[c].rank = k.rank
      BY <1>9, <1>10 DEF ShelfWork
    <2>4. CASE i = c /\ j # c
      BY <1>16, <2>2, <2>3, <2>4
    <2>5. CASE j = c /\ i # c
      BY <1>16, <2>2, <2>3, <2>5
    <2>6. CASE i # c /\ j # c
      BY <1>6, <1>16, <2>1, <2>2, <2>6 DEF ShelfInv, Shelf!RanksDistinct
    <2>7. QED
      BY <2>4, <2>5, <2>6
  <1>17. \A l \in Shelf!Lists \ tied' : \/ Shrinks(l)
                                        \/ \A i, j \in Shelf!In(l)' : sRow'[i].rank = sRow'[j].rank => i = j
    <2> SUFFICES ASSUME NEW l \in Shelf!Lists \ tied'
                 PROVE  Shrinks(l) \/ \A i, j \in Shelf!In(l)' : sRow'[i].rank = sRow'[j].rank => i = j
      OBVIOUS
    <2>1. CASE l = p
      BY <1>16, <2>1
    <2>2. CASE l # p
      BY <1>12, <1>13, <2>2 DEF ListKept
    <2>3. QED
      BY <2>1, <2>2
  <1>18. QED
    BY <1>7, <1>11, <1>12, <1>14, <1>15, <1>17, ShelfEnds

LEMMA ToTopStep ==
  ASSUME ShelfInv, NEW m \in Merchants, NEW c \in Categories, Shelf!ToTop(m, c)
  PROVE  ShelfInv'
  <1>1. c \in Shelf!There /\ c \in Shelf!Items
    BY ShelfNames DEF Shelf!ToTop
  <1>2. PICK r \in ShelfRow : r = sRow[c]
    BY <1>1 DEF ShelfInv, RowsTyped
  <1>3. r.list \in Shelf!Lists /\ "0" \in Shelf!Lists /\ r.list # "none"
    BY <1>1, <1>2, ThereMeans, ShelfNames DEF ShelfInv
  <1>4. /\ Shelf!Done(m, {"0", r.list}) /\ {"0", r.list} \in SUBSET Shelf!Lists
        /\ sRow' = [sRow EXCEPT ![c].list = "0"]
        /\ tied' = IF r.list = "0" THEN tied ELSE tied \cup {"0"}
    BY <1>2, <1>3 DEF Shelf!ToTop
  <1>5. PICK q : q = [r EXCEPT !.list = "0"]
    OBVIOUS
  <1>6. q \in ShelfRow /\ q.list = "0" /\ q.rank = r.rank
    BY <1>3, <1>5 DEF ShelfRow
  <1>7. /\ sRow' \in [Shelf!Items -> ShelfRow] /\ sRow'[c] = q
        /\ \A i \in Shelf!Items \ {c} : sRow'[i] = sRow[i]
    BY <1>1, <1>2, <1>4, <1>5, <1>6 DEF ShelfInv, RowsTyped
  <1>8. RowsTyped'
    <2>1. \A i \in Shelf!There' : Belongs(i, sRow'[i].list)
      BY <1>3, <1>6, <1>7, ShelfNames DEF ShelfInv, RowsTyped, Shelf!There
    <2>2. \A i \in Shelf!Items : sRow'[i].list = "none" => sRow'[i] = Shelf!NoRow
      BY <1>6, <1>7 DEF ShelfInv, RowsTyped
    <2>3. tied' \subseteq Shelf!Lists
      BY <1>3, <1>4 DEF ShelfInv, RowsTyped
    <2>4. QED
      BY <1>7, <2>1, <2>2, <2>3 DEF RowsTyped
  <1>9. \A l \in Shelf!Lists \ {"0", r.list} : ListKept(l)
    BY <1>2, <1>6, <1>7, ShelfNames DEF ListKept, Shrinks
  <1>10. \A l \in Shelf!Lists \ tied' : Shrinks(l)
    <2> SUFFICES ASSUME NEW l \in Shelf!Lists \ tied' PROVE Shrinks(l)
      OBVIOUS
    <2>1. l # "0" \/ r.list = "0"
      BY <1>4
    <2>2. QED
      BY <1>2, <1>6, <1>7, <2>1 DEF Shrinks
  <1>11. CategoriesStay
    BY <1>3, <1>6, <1>7, ShelfNames DEF CategoriesStay
  <1>12. tied \subseteq tied'
    BY <1>4
  <1>13. QED
    BY <1>4, <1>8, <1>9, <1>10, <1>11, <1>12, ShelfEnds

(* What an exchange does to the rows.                                      *)
LEMMA Exchanged ==
  ASSUME ShelfInv, NEW m \in Merchants, NEW k \in ShelfWork, k = sHeld[m], Shelf!Switch(m),
         {k.item, k.other} \subseteq Shelf!There
  PROVE  /\ k.item # k.other /\ k.item \in Shelf!Items /\ k.other \in Shelf!Items
         /\ sRow' \in [Shelf!Items -> ShelfRow]
         /\ \A i \in Shelf!Items : sRow'[i].list = sRow[i].list
         /\ \A i \in Shelf!Items \ {k.item, k.other} : sRow'[i] = sRow[i]
         /\ sRow'[k.item].rank = k.rank /\ sRow'[k.other].rank = k.mine
         /\ ~k.met => /\ k.list \in Shelf!Lists
                      /\ StillNeighbours(k.item, k.other, k.list, k.mine, k.rank)
                      /\ k.item \in Shelf!In(k.list) /\ k.other \in Shelf!In(k.list)
                      /\ sRow[k.item].rank = k.mine /\ sRow[k.other].rank = k.rank
  <1>1. PICK a : a = k.item
    OBVIOUS
  <1>2. PICK b : b = k.other
    OBVIOUS
  <1>3. ShelfHolds("switch", k)
    BY DEF Shelf!Switch, ShelfInv
  <1>4. a \in Shelf!Items /\ b \in Shelf!Items /\ a # b /\ k.list \in Shelf!Lists
    BY <1>1, <1>2, <1>3 DEF ShelfHolds
  <1>5. sRow' = [sRow EXCEPT ![a].rank = k.rank, ![b].rank = k.mine]
    BY <1>1, <1>2 DEF Shelf!Switch
  <1>6. PICK r \in ShelfRow : r = sRow[a]
    BY <1>4 DEF ShelfInv, RowsTyped
  <1>7. PICK s \in ShelfRow : s = sRow[b]
    BY <1>4 DEF ShelfInv, RowsTyped
  <1>8. PICK u : u = [r EXCEPT !.rank = k.rank]
    OBVIOUS
  <1>9. PICK v : v = [s EXCEPT !.rank = k.mine]
    OBVIOUS
  <1>10. /\ u \in ShelfRow /\ u.rank = k.rank /\ u.list = r.list
         /\ v \in ShelfRow /\ v.rank = k.mine /\ v.list = s.list
    BY <1>8, <1>9 DEF ShelfRow, ShelfWork
  <1>11. /\ sRow' \in [Shelf!Items -> ShelfRow] /\ sRow'[a] = u /\ sRow'[b] = v
         /\ \A i \in Shelf!Items \ {a, b} : sRow'[i] = sRow[i]
    BY <1>4, <1>5, <1>6, <1>7, <1>8, <1>9, <1>10 DEF ShelfInv, RowsTyped
  <1>12. \A i \in Shelf!Items : sRow'[i].list = sRow[i].list
    BY <1>6, <1>7, <1>10, <1>11
  <1>13. ~k.met => /\ StillNeighbours(k.item, k.other, k.list, k.mine, k.rank)
                   /\ k.item \in Shelf!In(k.list) /\ k.other \in Shelf!In(k.list)
                   /\ sRow[k.item].rank = k.mine /\ sRow[k.other].rank = k.rank
    BY <1>3 DEF ShelfHolds, StillNeighbours, Shelf!In
  <1>14. QED
    BY <1>1, <1>2, <1>4, <1>10, <1>11, <1>12, <1>13

LEMMA SwitchStep ==
  ASSUME ShelfInv, NEW m \in Merchants, Shelf!Switch(m)
  PROVE  ShelfInv'
  <1>1. PICK k \in ShelfWork : k = sHeld[m]
    BY DEF ShelfInv, CallsTyped
  <1>2. PICK ls : ls = {sRow[i].list : i \in {k.item, k.other} \cap Shelf!There}
    OBVIOUS
  <1>3. ShelfHolds("switch", k)
    BY <1>1 DEF Shelf!Switch, ShelfInv
  <1>4. ls \in SUBSET Shelf!Lists
    BY <1>2, ThereMeans DEF ShelfInv, Shelf!There
  <1>5. Shelf!Done(m, ls)
    BY <1>1, <1>2 DEF Shelf!Switch
  <1>6. CASE ~({k.item, k.other} \subseteq Shelf!There)
    <2>1. UNCHANGED <<sRow, tied>>
      BY <1>1, <1>6 DEF Shelf!Switch
    <2>2. RowsTyped' /\ CategoriesStay /\ tied \subseteq tied'
      BY <2>1 DEF ShelfInv, RowsTyped, Shelf!There, CategoriesStay
    <2>3. \A l \in Shelf!Lists : ListKept(l) /\ Shrinks(l)
      BY <2>1 DEF ListKept, Shrinks
    <2>4. QED
      BY <1>4, <1>5, <2>2, <2>3, ShelfEnds
  <1>7. CASE {k.item, k.other} \subseteq Shelf!There
    <2>1. /\ k.item # k.other /\ k.item \in Shelf!Items /\ k.other \in Shelf!Items
          /\ sRow' \in [Shelf!Items -> ShelfRow]
          /\ \A i \in Shelf!Items : sRow'[i].list = sRow[i].list
          /\ \A i \in Shelf!Items \ {k.item, k.other} : sRow'[i] = sRow[i]
          /\ sRow'[k.item].rank = k.rank /\ sRow'[k.other].rank = k.mine
          /\ ~k.met => /\ k.list \in Shelf!Lists
                       /\ StillNeighbours(k.item, k.other, k.list, k.mine, k.rank)
                       /\ k.item \in Shelf!In(k.list) /\ k.other \in Shelf!In(k.list)
                       /\ sRow[k.item].rank = k.mine /\ sRow[k.other].rank = k.rank
      BY <1>1, <1>7, Exchanged
    <2>2. tied' = IF k.met THEN tied \cup ls ELSE tied
      <3>1. ls = {sRow[k.item].list, sRow[k.other].list}
        BY <1>2, <1>7
      <3>2. QED
        BY <1>1, <1>7, <3>1 DEF Shelf!Switch
    <2>3. sRow[k.item].list \in ls /\ sRow[k.other].list \in ls
      BY <1>2, <1>7
    <2>4. \A i \in Shelf!Items : i \in Shelf!There <=> sRow[i].list # "none"
      BY ThereMeans DEF ShelfInv
    <2>5. RowsTyped'
      <3>1. \A i \in Shelf!Items : sRow'[i].list = "none" => sRow'[i] = Shelf!NoRow
        BY <1>7, <2>1, <2>4 DEF ShelfInv, RowsTyped
      <3>2. \A i \in Shelf!There' : i \in Shelf!Items /\ i \in Shelf!There
        BY <1>7, <2>1 DEF Shelf!There
      <3>3. \A i \in Shelf!There' : Belongs(i, sRow'[i].list)
        BY <2>1, <3>2 DEF ShelfInv, RowsTyped
      <3>4. tied' \subseteq Shelf!Lists
        BY <1>4, <2>2 DEF ShelfInv, RowsTyped
      <3>5. QED
        BY <2>1, <3>1, <3>3, <3>4 DEF RowsTyped
    <2>6. \A l \in Shelf!Lists \ ls : ListKept(l)
      BY <2>1, <2>3 DEF ListKept, Shrinks
    <2>7. CategoriesStay
      BY <2>1, ShelfNames DEF CategoriesStay
    <2>8. tied \subseteq tied'
      BY <2>2
    <2>9. ASSUME NEW l \in Shelf!Lists \ tied', l \in ls,
                 NEW i \in Shelf!In(l)', NEW j \in Shelf!In(l)', sRow'[i].rank = sRow'[j].rank
          PROVE  i = j
      <3>1. ~k.met /\ l \notin tied
        BY <2>2, <2>9
      <3>2. l = k.list
        BY <1>2, <2>1, <2>9, <3>1 DEF Shelf!In
      <3>3. ASSUME NEW x \in Shelf!In(l)'
            PROVE  x \in Shelf!In(l) /\ (x \notin {k.item, k.other} => sRow'[x].rank = sRow[x].rank)
        <4>1. x \in Shelf!Items /\ sRow'[x].list = l
          BY <2>5, <2>9, <3>3, ThereNext DEF Shelf!In, Shelf!There
        <4>2. QED
          BY <2>1, <2>9, <4>1, InMeans DEF ShelfInv
      <3>4. \A x, y \in Shelf!In(l) : sRow[x].rank = sRow[y].rank => x = y
        BY <2>9, <3>1 DEF ShelfInv, Shelf!RanksDistinct
      <3>5. /\ k.item \in Shelf!In(l) /\ k.other \in Shelf!In(l)
            /\ sRow[k.item].rank = k.mine /\ sRow[k.other].rank = k.rank
        BY <2>1, <3>1, <3>2
      <3>6. QED
        BY <2>1, <2>9, <3>3, <3>4, <3>5
    <2>10. \A l \in Shelf!Lists \ tied' : \/ Shrinks(l)
                                          \/ \A i, j \in Shelf!In(l)' : sRow'[i].rank = sRow'[j].rank => i = j
      BY <2>6, <2>9 DEF ListKept
    <2>11. QED
      BY <1>4, <1>5, <2>5, <2>6, <2>7, <2>8, <2>10, ShelfEnds
  <1>8. QED
    BY <1>6, <1>7

LEMMA ShelfStep == ShelfInv /\ [Shelf!ShelfNext]_shelfVars => ShelfInv'
  <1> SUFFICES ASSUME ShelfInv, [Shelf!ShelfNext]_shelfVars PROVE ShelfInv'
    OBVIOUS
  <1>1. CASE UNCHANGED shelfVars
    BY <1>1 DEF shelfVars, ShelfInv, RowsTyped, CallsTyped, ShelfHolds, Above, StillNeighbours,
                Shelf!There, Shelf!In, Shelf!RanksDistinct
  <1>2. CASE \E g \in Goods : Shelf!RemoveGoods(g)
    BY <1>2, RemoveGoodsStep
  <1>3. CASE \E c \in Categories : Shelf!Reactive(c) \/ Shelf!RemoveCategory(c)
    BY <1>3, ActiveStep
  <1>4. ASSUME NEW m \in Merchants,
               \/ \E g \in Goods : Shelf!CreateGoods(m, g)
               \/ \E c \in Categories, p \in {"0"} \cup (Categories \cap Shelf!There) : Shelf!CreateCategory(m, c, p)
               \/ Shelf!Insert(m)
               \/ \E c, p \in Categories : Shelf!SwitchCategory(m, c, p)
               \/ Shelf!Move(m)
               \/ \E c \in Categories : Shelf!ToTop(m, c)
               \/ \E i \in Shelf!Items : Shelf!SwitchStart(m, i)
               \/ Shelf!Switch(m)
        PROVE  ShelfInv'
    BY <1>4, CreateGoodsStep, CreateCategoryStep, InsertStep, SwitchCategoryStep, MoveStep, ToTopStep,
       SwitchStartStep, SwitchStep
  <1>5. QED
    BY <1>1, <1>2, <1>3, <1>4 DEF Shelf!ShelfNext

(* A call that was about to exchange two items and is done, did it.        *)
LEMMA SwitchersEnd ==
  ASSUME ShelfInv, [Shelf!ShelfNext]_shelfVars, NEW m \in Merchants, sStep[m] = "switch", sStep'[m] = "idle"
  PROVE  Shelf!Switch(m)
  <1>1. sStep \in [Merchants -> ShelfSteps] /\ sStep'[m] # sStep[m]
    BY DEF ShelfInv, CallsTyped
  <1>2. ASSUME NEW b \in Merchants, sStep' = [sStep EXCEPT ![b] = "idle"]
        PROVE  b = m
    BY <1>1, <1>2
  <1>3. ASSUME NEW b \in Merchants, NEW at, at # "idle", sStep' = [sStep EXCEPT ![b] = at]
        PROVE  FALSE
    BY <1>1, <1>3
  <1>4. sStep' # sStep
    BY <1>1
  <1>5. ASSUME NEW b \in Merchants,
               \/ \E g \in Goods : Shelf!CreateGoods(b, g)
               \/ \E c \in Categories, p \in {"0"} \cup (Categories \cap Shelf!There) : Shelf!CreateCategory(b, c, p)
               \/ \E c, p \in Categories : Shelf!SwitchCategory(b, c, p)
               \/ \E i \in Shelf!Items : Shelf!SwitchStart(b, i)
        PROVE  FALSE
    <2>1. \E at \in {"create", "move", "switch"} : sStep' = [sStep EXCEPT ![b] = at]
      BY <1>5 DEF Shelf!CreateGoods, Shelf!CreateCategory, Shelf!SwitchCategory, Shelf!SwitchStart, Shelf!Put
    <2>2. QED
      BY <1>3, <2>1
  <1>6. ASSUME NEW b \in Merchants,
               Shelf!Insert(b) \/ Shelf!Move(b) \/ Shelf!Switch(b) \/ \E c \in Categories : Shelf!ToTop(b, c)
        PROVE  Shelf!Switch(m)
    <2>1. sStep' = [sStep EXCEPT ![b] = "idle"]
      BY <1>6 DEF Shelf!Insert, Shelf!Move, Shelf!Switch, Shelf!ToTop, Shelf!Done
    <2>2. b = m
      BY <1>2, <2>1
    <2>3. QED
      BY <1>6, <2>2 DEF Shelf!Insert, Shelf!Move, Shelf!ToTop, Shelf!Starts
  <1>7. ~UNCHANGED shelfVars
    BY <1>4 DEF shelfVars
  <1>8. ~\E g \in Goods : Shelf!RemoveGoods(g)
    BY <1>4 DEF Shelf!RemoveGoods
  <1>9. ~\E c \in Categories : Shelf!Reactive(c) \/ Shelf!RemoveCategory(c)
    BY <1>4 DEF Shelf!Reactive, Shelf!RemoveCategory
  <1>10. QED
    BY <1>5, <1>6, <1>7, <1>8, <1>9 DEF Shelf!ShelfNext

LEMMA ExchangeOfTwo ==
  ASSUME ShelfInv, NEW m \in Merchants, Shelf!Switch(m), ~sHeld[m].met, sHeld[m].list \notin tied
  PROVE  Shelf!Cardinality({p \in Shelf!In(sHeld[m].list) \X Shelf!In(sHeld[m].list) :
                               /\ sRow[p[1]].rank < sRow[p[2]].rank
                               /\ sRow'[p[1]].rank > sRow'[p[2]].rank}) <= 1
  <1>1. PICK k \in ShelfWork : k = sHeld[m]
    BY DEF ShelfInv, CallsTyped
  <1>2. PICK is : is = Shelf!In(k.list)
    OBVIOUS
  <1>3. \A i \in is : i \in Shelf!Items /\ sRow[i].rank \in Nat
    BY <1>2, ThereMeans DEF ShelfInv, Shelf!In, Shelf!There
  <1>4. PICK turned : turned = {p \in is \X is : /\ sRow[p[1]].rank < sRow[p[2]].rank
                                                 /\ sRow'[p[1]].rank > sRow'[p[2]].rank}
    OBVIOUS
  <1>5. \E x : turned \subseteq {x}
    <2>1. CASE ~({k.item, k.other} \subseteq Shelf!There)
      <3>1. sRow' = sRow
        BY <1>1, <2>1 DEF Shelf!Switch
      <3>2. \A i, j \in is : ~(sRow[i].rank < sRow[j].rank /\ sRow[i].rank > sRow[j].rank)
        BY <1>3
      <3>3. turned = {}
        BY <1>4, <3>1, <3>2
      <3>4. QED
        BY <3>3
    <2>2. CASE {k.item, k.other} \subseteq Shelf!There
      <3>1. PICK a : a = k.item
        OBVIOUS
      <3>2. PICK b : b = k.other
        OBVIOUS
      <3>3. /\ \A i \in is \ {a, b} : sRow'[i] = sRow[i]
            /\ sRow'[a].rank = k.rank /\ sRow'[b].rank = k.mine
            /\ StillNeighbours(a, b, k.list, k.mine, k.rank)
            /\ a \in is /\ b \in is
            /\ sRow[a].rank = k.mine /\ sRow[b].rank = k.rank
        BY <1>1, <1>2, <1>3, <2>2, <3>1, <3>2, Exchanged
      <3>4. \A x \in is : /\ ~(k.mine < sRow[x].rank /\ sRow[x].rank < k.rank)
                          /\ ~(k.rank < sRow[x].rank /\ sRow[x].rank < k.mine)
        BY <1>2, <3>3 DEF StillNeighbours
      <3>5. \A x, y \in is : sRow[x].rank = sRow[y].rank => x = y
        BY <1>1, <1>2 DEF ShelfInv, Shelf!RanksDistinct, ShelfHolds, Shelf!Switch
      <3>6. ASSUME NEW i \in is, NEW j \in is,
                   sRow[i].rank < sRow[j].rank, sRow'[i].rank > sRow'[j].rank
            PROVE  <<i, j>> = IF k.mine < k.rank THEN <<a, b>> ELSE <<b, a>>
        <4>1. sRow[i].rank \in Nat /\ sRow[j].rank \in Nat /\ k.mine \in Nat /\ k.rank \in Nat
          BY <1>3 DEF ShelfWork
        <4>2. CASE i \notin {a, b} /\ j \notin {a, b}
          BY <3>3, <3>6, <4>1, <4>2
        <4>3. CASE i \in {a, b} /\ j \notin {a, b}
          <5>1. sRow'[j] = sRow[j]
            BY <3>3, <4>3
          <5>2. sRow[j].rank # k.mine /\ sRow[j].rank # k.rank
            BY <3>3, <3>5, <4>3
          <5>3. QED
            BY <3>3, <3>4, <3>6, <4>1, <4>3, <5>1, <5>2
        <4>4. CASE i \notin {a, b} /\ j \in {a, b}
          <5>1. sRow'[i] = sRow[i]
            BY <3>3, <4>4
          <5>2. sRow[i].rank # k.mine /\ sRow[i].rank # k.rank
            BY <3>3, <3>5, <4>4
          <5>3. QED
            BY <3>3, <3>4, <3>6, <4>1, <4>4, <5>1, <5>2
        <4>5. CASE i \in {a, b} /\ j \in {a, b}
          <5>1. i # j
            BY <3>6, <4>1
          <5>2. CASE i = a /\ j = b
            BY <3>3, <3>6, <5>2
          <5>3. CASE i = b /\ j = a
            BY <3>3, <3>6, <4>1, <5>3
          <5>4. QED
            BY <4>5, <5>1, <5>2, <5>3
        <4>6. QED
          BY <4>2, <4>3, <4>4, <4>5
      <3>7. PICK x : x = IF k.mine < k.rank THEN <<a, b>> ELSE <<b, a>>
        OBVIOUS
      <3>8. \A p \in turned : p = <<p[1], p[2]>> /\ p[1] \in is /\ p[2] \in is
        BY <1>4
      <3>9. \A p \in turned : p = x
        BY <1>4, <3>6, <3>7, <3>8
      <3>10. QED
        BY <3>9
    <2>3. QED
      BY <2>1, <2>2
  <1>6. PICK x : turned \subseteq {x}
    BY <1>5
  <1>7. Cardinality(turned) <= 1
    <2>1. IsFiniteSet({x}) /\ Cardinality({x}) = 1
      BY FS_Singleton
    <2>2. Cardinality(turned) <= Cardinality({x})
      BY <1>6, <2>1, FS_Subset
    <2>3. QED
      BY <2>1, <2>2
  <1>8. Shelf!Cardinality(turned) = Cardinality(turned)
    BY DEF Shelf!Cardinality, Cardinality
  <1>9. Shelf!Cardinality(turned) <= 1
    BY <1>7, <1>8
  <1>10. QED
    BY <1>1, <1>2, <1>4, <1>9

LEMMA ExchangeStep ==
  ASSUME ShelfInv, [Shelf!ShelfNext]_shelfVars
  PROVE  Shelf!NeighboursSwitch
  BY SwitchersEnd, ExchangeOfTwo DEF Shelf!NeighboursSwitch

LEMMA ShelfInvSound == ShelfInv => Shelf!ShelfTypeOK /\ Shelf!RanksDistinct
  <1> SUFFICES ASSUME ShelfInv PROVE Shelf!ShelfTypeOK
    BY DEF ShelfInv
  <1>1. \A i \in Shelf!There : sRow[i].list \in Shelf!Lists /\ sRow[i].rank \in Nat
    BY ThereMeans DEF ShelfInv, Shelf!There
  <1>2. \A g \in Goods \cap Shelf!There : sRow[g].list = "goods"
    BY DEF ShelfInv, RowsTyped, Belongs
  <1>3. QED
    BY <1>1, <1>2 DEF ShelfInv, RowsTyped, CallsTyped, Shelf!ShelfTypeOK

(***************************************************************************)
(* Two items of a list never get one rank, except in a list that a call    *)
(* wrote after another had changed it, or at the top by switchCategory;    *)
(* and switchRank exchanges two neighbours and no other pair, for any      *)
(* number of items, lists and calls (GoodsService, CategoryService).       *)
(***************************************************************************)
THEOREM ShelvesStayOrderly == StoreSpec => ShelfOrderly
  <1>1. StoreInit => ShelfPart
    BY ShelfInitInv DEF StoreInit, ShelfPart
  <1>2. ShelfPart /\ [StoreNext]_storeVars => ShelfPart'
    BY ShelfStep, Parts DEF ShelfPart
  <1>3. ShelfPart => (part = "shelf" => Shelf!ShelfTypeOK /\ Shelf!RanksDistinct)
    BY ShelfInvSound DEF ShelfPart
  <1>4. ShelfPart /\ [StoreNext]_storeVars => [part = "shelf" => Shelf!NeighboursSwitch]_shelfVars
    BY ExchangeStep, Parts DEF ShelfPart
  <1>5. QED
    BY <1>1, <1>2, <1>3, <1>4, PTL DEF StoreSpec, storeVars, ShelfOrderly

(***************************************************************************)
(* Reports of orders.  The job's day is over, so its orders only become    *)
(* fewer: what the job counted stays between the orders that are still     *)
(* active and those that were placed, and the rows of a day are written by *)
(* one job only.                                                           *)
(***************************************************************************)
PlacedStages == {"create", "accept", "delivery"}

OnlineOrder == [store : Stores, day : Reports!Dates, stage : PlacedStages, status : {"active", "cancel"}]

NightlyJob == [at : {"idle", "stores", "goods"}, day : 0..LastDay, rows : [Stores -> Nat],
               todo : SUBSET Stores, total : Nat]

Statistics == [next : 0..6, stages : Nat, total : Nat]

Count == {Reports!NoRow} \cup Nat

ReportsTyped ==
    /\ rToday \in Reports!Dates /\ ran \in 1..rToday
    /\ rOrder \in [Orders -> OnlineOrder \cup {Reports!NoOrder}]
    /\ \A o \in Orders : rOrder[o].day <= rToday
    /\ storeRow \in [Stores -> [Reports!Dates -> Count]]
    /\ goodsRow \in [Stores -> [Reports!Dates -> Count]]
    /\ platformRow \in [Reports!Dates -> Count]
    /\ rJob \in NightlyJob
    /\ rStat \in Statistics
    /\ newcomers \subseteq Reports!Placed /\ IsFiniteSet(Reports!Placed)

PlacedOn(d) == {o \in Reports!Placed : rOrder[o].day = d}

ActiveOn(d) == {o \in Reports!Active : rOrder[o].day = d}

RowsOf(d) == [s \in Stores |-> Reports!Shown(storeRow[s][d])]

(* The day's orders, bounded by what is still active and what was placed.  *)
Between(n, d) == Cardinality(ActiveOn(d)) <= n /\ n <= Cardinality(PlacedOn(d))

NoRowsFrom(n) ==
    \A d \in Reports!Dates : d >= n =>
        /\ platformRow[d] = Reports!NoRow
        /\ \A s \in Stores : storeRow[s][d] = Reports!NoRow /\ goodsRow[s][d] = Reports!NoRow

JobHolds(k) ==
    /\ k.at = "idle" => k.day = 0
    /\ k.at # "idle" =>
        /\ k.day = ran - 1 /\ k.day \in Reports!Dates
        /\ platformRow[k.day] = Reports!NoRow
        /\ Between(k.total, k.day)
        /\ k.at = "stores" =>
              /\ k.total = SumOver(k.rows, Stores)
              /\ \A s \in Stores :
                    /\ goodsRow[s][k.day] = Reports!NoRow
                    /\ s \in k.todo => k.rows[s] > 0
                    /\ storeRow[s][k.day] = IF k.rows[s] > 0 /\ s \notin k.todo THEN k.rows[s] ELSE Reports!NoRow
                    /\ Cardinality(Reports!Of(s, k.day) \cap Reports!Active) <= k.rows[s]
        /\ k.at = "goods" =>
              /\ k.total = SumOver(RowsOf(k.day), Stores)
              /\ \A s \in k.todo : storeRow[s][k.day] # Reports!NoRow /\ k.rows[s] <= storeRow[s][k.day]

ReportedThrough ==
    \A d \in Reports!Dates : platformRow[d] # Reports!NoRow =>
        platformRow[d] = SumOver(RowsOf(d), Stores) /\ Between(platformRow[d], d)

GoodsCovered ==
    \A d \in Reports!Dates, s \in Stores : goodsRow[s][d] # Reports!NoRow =>
        storeRow[s][d] # Reports!NoRow /\ goodsRow[s][d] <= storeRow[s][d]

(* The orders that a call of getStatistics has gone past.                  *)
Passed(n) ==
    {o \in Reports!Active \ newcomers : \E i \in 1..4 : i < n /\ rOrder[o].stage = Reports!StageAt(i)}

StatHolds(k) ==
    /\ k.next \in 1..5 => Cardinality(Passed(k.next)) <= k.stages
    /\ k.next = 6 => k.total <= k.stages + Cardinality(newcomers)

ReportsInv ==
    /\ ReportsTyped /\ NoRowsFrom(ran) /\ JobHolds(rJob)
    /\ ReportedThrough /\ GoodsCovered /\ StatHolds(rStat)

ReportsPart == part = "reports" => ReportsInv

LEMMA CountsSame == \A S : Reports!Cardinality(S) = Cardinality(S)
  BY DEF Reports!Cardinality, Cardinality

LEMMA ReportSums ==
  ASSUME NEW f, NEW S
  PROVE  Reports!MapThenSumSet(LAMBDA x : f[x], S) = SumOver(f, S)
  BY DEF Reports!MapThenSumSet, Reports!MapThenFoldSet, SumOver, PartialSums, Body, Chosen

LEMMA OrderKinds ==
  ASSUME ReportsTyped, NEW o \in Orders
  PROVE  /\ o \in Reports!Placed => rOrder[o] \in OnlineOrder
         /\ o \notin Reports!Placed => rOrder[o] = Reports!NoOrder
         /\ rOrder[o].day \in 0..LastDay
         /\ Reports!NoOrder.day = 0 /\ Reports!NoOrder.stage = "none" /\ Reports!NoOrder.status = "none"
  BY StoreAssumption DEF ReportsTyped, Reports!Placed, Reports!NoOrder, OnlineOrder, Reports!Dates

(* Counts of finite sets of orders.                                        *)
LEMMA OrdersCounted ==
  ASSUME ReportsTyped
  PROVE  /\ \A d : /\ IsFiniteSet(PlacedOn(d)) /\ IsFiniteSet(ActiveOn(d))
                   /\ Cardinality(PlacedOn(d)) \in Nat /\ Cardinality(ActiveOn(d)) \in Nat
                   /\ Cardinality(ActiveOn(d)) <= Cardinality(PlacedOn(d))
         /\ \A s, d : /\ IsFiniteSet(Reports!Of(s, d) \cap Reports!Active)
                      /\ Cardinality(Reports!Of(s, d) \cap Reports!Active) \in Nat
         /\ IsFiniteSet(Reports!Active) /\ IsFiniteSet(newcomers)
         /\ Cardinality(Reports!Active) \in Nat /\ Cardinality(newcomers) \in Nat
         /\ \A n : IsFiniteSet(Passed(n)) /\ Cardinality(Passed(n)) \in Nat
  <1>1. IsFiniteSet(Reports!Placed)
    BY DEF ReportsTyped
  <1>2. /\ Reports!Active \subseteq Reports!Placed /\ newcomers \subseteq Reports!Placed
        /\ \A d : PlacedOn(d) \subseteq Reports!Placed /\ ActiveOn(d) \subseteq PlacedOn(d)
        /\ \A s, d : Reports!Of(s, d) \cap Reports!Active \subseteq Reports!Placed
        /\ \A n : Passed(n) \subseteq Reports!Placed
    BY DEF Reports!Active, PlacedOn, ActiveOn, Reports!Of, Passed, ReportsTyped
  <1>3. \A s \in SUBSET Reports!Placed : IsFiniteSet(s) /\ Cardinality(s) \in Nat
    BY <1>1, FS_Subset, FS_CardinalityType
  <1>4. \A d : PlacedOn(d) \in SUBSET Reports!Placed /\ ActiveOn(d) \in SUBSET PlacedOn(d)
               /\ ActiveOn(d) \in SUBSET Reports!Placed
    BY <1>2
  <1>5. \A d : Cardinality(ActiveOn(d)) <= Cardinality(PlacedOn(d))
    BY <1>3, <1>4, FS_Subset
  <1>6. QED
    BY <1>2, <1>3, <1>4, <1>5

LEMMA Smaller ==
  ASSUME NEW S, IsFiniteSet(S), NEW T \in SUBSET S
  PROVE  Cardinality(T) \in Nat /\ Cardinality(S) \in Nat /\ Cardinality(T) <= Cardinality(S)
  BY FS_Subset, FS_CardinalityType

(* Orders change while the rows, the job and the call stay.                *)
LEMMA OrdersChange ==
  ASSUME ReportsInv, ReportsTyped', UNCHANGED <<rToday, storeRow, goodsRow, platformRow, rJob, ran, rStat>>,
         \A d \in Reports!Dates : d < rToday =>
             /\ PlacedOn(d)' = PlacedOn(d) /\ ActiveOn(d)' \subseteq ActiveOn(d)
             /\ \A s \in Stores : (Reports!Of(s, d) \cap Reports!Active)' \subseteq Reports!Of(s, d) \cap Reports!Active,
         StatHolds(rStat)'
  PROVE  ReportsInv'
  <1>1. /\ ReportsTyped /\ NoRowsFrom(ran) /\ JobHolds(rJob) /\ ReportedThrough /\ GoodsCovered
    BY DEF ReportsInv
  <1>2. /\ rToday \in Nat /\ ran \in Nat /\ 1 <= ran /\ ran <= rToday
        /\ rJob \in NightlyJob /\ \A d \in Reports!Dates : d \in Nat /\ platformRow[d] \in Count
    BY <1>1, StoreAssumption DEF ReportsTyped, Reports!Dates
  <1>3. ASSUME NEW d \in Reports!Dates, d < rToday, NEW n \in Nat, Between(n, d) PROVE Between(n, d)'
    <2>1. ActiveOn(d)' \subseteq ActiveOn(d) /\ PlacedOn(d)' = PlacedOn(d)
      BY <1>3
    <2>2. IsFiniteSet(ActiveOn(d)) /\ Cardinality(ActiveOn(d)) \in Nat
      BY <1>1, OrdersCounted
    <2>3. PICK b : b = ActiveOn(d)'
      OBVIOUS
    <2>4. Cardinality(b) \in Nat /\ Cardinality(b) <= Cardinality(ActiveOn(d))
      BY <2>1, <2>2, <2>3, Smaller
    <2>5. Cardinality(b) <= n
      BY <1>3, <2>2, <2>4 DEF Between
    <2>6. QED
      BY <1>3, <2>1, <2>3, <2>5 DEF Between
  <1>4. RowsOf(rJob.day)' = RowsOf(rJob.day) /\ \A d : RowsOf(d)' = RowsOf(d)
    BY DEF RowsOf, Reports!Shown
  <1>5. ReportedThrough'
    <2> SUFFICES ASSUME NEW d \in Reports!Dates, platformRow[d] # Reports!NoRow
                 PROVE  platformRow[d] = SumOver(RowsOf(d), Stores)' /\ Between(platformRow[d], d)'
      BY DEF ReportedThrough, Between
    <2>1. platformRow[d] = SumOver(RowsOf(d), Stores) /\ Between(platformRow[d], d)
      BY <1>1 DEF ReportedThrough
    <2>2. d < rToday
      <3>1. ~(d >= ran)
        BY <1>1 DEF NoRowsFrom
      <3>2. QED
        BY <1>2, <3>1
    <2>3. PICK n \in Nat : n = platformRow[d]
      BY <1>2 DEF Count
    <2>4. Between(n, d)
      BY <2>1, <2>3
    <2>5. Between(n, d)'
      BY <1>3, <2>2, <2>4
    <2>6. QED
      BY <1>4, <2>1, <2>3, <2>5 DEF Between
  <1>6. JobHolds(rJob)'
    <2> SUFFICES ASSUME rJob.at # "idle" PROVE JobHolds(rJob)'
      BY <1>1 DEF JobHolds
    <2>1. PICK k \in NightlyJob : k = rJob
      BY <1>2
    <2>2. JobHolds(k) /\ k.at # "idle"
      BY <1>1, <2>1
    <2>3. PICK d \in Reports!Dates : d = k.day
      BY <2>2 DEF JobHolds
    <2>4. d < rToday
      BY <1>2, <2>2, <2>3 DEF JobHolds
    <2>5. Between(k.total, k.day)'
      BY <1>3, <2>2, <2>3, <2>4 DEF JobHolds, NightlyJob
    <2>6. ASSUME k.at = "stores", NEW s \in Stores
          PROVE  Cardinality(Reports!Of(s, k.day) \cap Reports!Active)' <= k.rows[s]
      <3>1. PICK a : a = Reports!Of(s, d) \cap Reports!Active
        OBVIOUS
      <3>2. PICK b : b = (Reports!Of(s, d) \cap Reports!Active)'
        OBVIOUS
      <3>3. IsFiniteSet(a) /\ b \subseteq a
        BY <1>1, <2>4, <3>1, <3>2, OrdersCounted
      <3>4. Cardinality(b) \in Nat /\ Cardinality(a) \in Nat /\ Cardinality(b) <= Cardinality(a)
        BY <3>3, Smaller
      <3>5. Cardinality(a) <= k.rows[s] /\ k.rows[s] \in Nat
        BY <2>2, <2>3, <2>6, <3>1 DEF JobHolds, NightlyJob
      <3>6. Cardinality(b) <= k.rows[s]
        BY <3>4, <3>5
      <3>7. QED
        BY <2>3, <3>2, <3>6
    <2>7. JobHolds(k)'
      BY <1>4, <2>1, <2>2, <2>5, <2>6 DEF JobHolds
    <2>8. QED
      BY <2>1, <2>7 DEF JobHolds
  <1>7. NoRowsFrom(ran)' /\ GoodsCovered'
    BY <1>1 DEF NoRowsFrom, GoodsCovered
  <1>8. QED
    BY <1>5, <1>6, <1>7 DEF ReportsInv

LEMMA PlaceOrderStep ==
  ASSUME ReportsInv, NEW o \in Orders, NEW s \in Stores, Reports!Place(o, s)
  PROVE  ReportsInv'
  <1>1. PICK today \in Reports!Dates : today = rToday
    BY DEF ReportsInv, ReportsTyped
  <1>2. PICK r : r = [store |-> s, day |-> today, stage |-> "create", status |-> "active"]
    OBVIOUS
  <1>3. r \in OnlineOrder /\ r.day = today /\ r.status = "active" /\ today > 0 /\ today \in Nat
    BY <1>1, <1>2, StoreAssumption DEF OnlineOrder, PlacedStages, Reports!Dates
  <1>4. /\ rOrder[o] = Reports!NoOrder /\ rOrder' = [rOrder EXCEPT ![o] = r]
        /\ newcomers' = IF rStat.next > 0 THEN newcomers \cup {o} ELSE newcomers
        /\ UNCHANGED <<rToday, storeRow, goodsRow, platformRow, rJob, ran, rStat>>
    BY <1>1, <1>2 DEF Reports!Place
  <1>5. /\ rOrder'[o] = r /\ \A i \in Orders \ {o} : rOrder'[i] = rOrder[i]
        /\ rOrder' \in [Orders -> OnlineOrder \cup {Reports!NoOrder}]
    BY <1>3, <1>4 DEF ReportsInv, ReportsTyped
  <1>6. o \notin Reports!Placed /\ Reports!Placed' = Reports!Placed \cup {o}
    BY <1>3, <1>4, <1>5, OrderKinds DEF ReportsInv, Reports!Placed
  <1>7. Reports!Active' = Reports!Active \cup {o} /\ o \notin Reports!Active
    BY <1>3, <1>5, <1>6 DEF Reports!Active, Reports!Placed
  <1>8. ReportsTyped'
    <2>1. IsFiniteSet(Reports!Placed')
      BY <1>6, FS_AddElement DEF ReportsInv, ReportsTyped
    <2>2. newcomers' \subseteq Reports!Placed'
      BY <1>4, <1>6 DEF ReportsInv, ReportsTyped
    <2>3. \A i \in Orders : rOrder'[i].day <= rToday'
      BY <1>1, <1>3, <1>4, <1>5 DEF ReportsInv, ReportsTyped
    <2>4. QED
      BY <1>4, <1>5, <2>1, <2>2, <2>3 DEF ReportsInv, ReportsTyped
  <1>9. ASSUME NEW d \in Reports!Dates, d < rToday
        PROVE  /\ PlacedOn(d)' = PlacedOn(d) /\ ActiveOn(d)' \subseteq ActiveOn(d)
               /\ \A q \in Stores : (Reports!Of(q, d) \cap Reports!Active)' \subseteq Reports!Of(q, d) \cap Reports!Active
    <2>1. r.day # d
      BY <1>1, <1>3, <1>9, StoreAssumption DEF Reports!Dates
    <2>2. PlacedOn(d)' = PlacedOn(d)
      BY <1>5, <1>6, <2>1 DEF PlacedOn, Reports!Placed
    <2>3. ActiveOn(d)' \subseteq ActiveOn(d)
      BY <1>5, <1>7, <2>1 DEF ActiveOn, Reports!Active, Reports!Placed
    <2>4. \A q \in Stores : (Reports!Of(q, d) \cap Reports!Active)' \subseteq Reports!Of(q, d) \cap Reports!Active
      BY <1>5, <1>6, <1>7, <2>1 DEF Reports!Of, Reports!Active, Reports!Placed
    <2>5. QED
      BY <2>2, <2>3, <2>4
  <1>10. StatHolds(rStat)'
    <2>1. PICK k \in Statistics : k = rStat
      BY DEF ReportsInv, ReportsTyped
    <2>2. ASSUME k.next \in 1..5 PROVE Cardinality(Passed(k.next))' <= k.stages
      <3>1. newcomers' = newcomers \cup {o}
        BY <1>4, <2>1, <2>2
      <3>2. Passed(k.next)' = Passed(k.next)
        BY <1>5, <1>7, <3>1 DEF Passed, Reports!Active, Reports!Placed
      <3>3. Cardinality(Passed(k.next)) <= k.stages
        BY <2>1, <2>2 DEF ReportsInv, StatHolds
      <3>4. QED
        BY <3>2, <3>3
    <2>3. ASSUME k.next = 6 PROVE k.total <= k.stages + Cardinality(newcomers)'
      <3>1. newcomers \subseteq newcomers' /\ IsFiniteSet(newcomers')
        BY <1>4, <1>8, FS_Subset DEF ReportsTyped
      <3>2. PICK b : b = newcomers'
        OBVIOUS
      <3>3. Cardinality(newcomers) \in Nat /\ Cardinality(b) \in Nat /\ Cardinality(newcomers) <= Cardinality(b)
        BY <3>1, <3>2, Smaller
      <3>4. k.total <= k.stages + Cardinality(newcomers) /\ k.total \in Nat /\ k.stages \in Nat
        BY <2>1, <2>3 DEF ReportsInv, StatHolds, Statistics
      <3>5. k.total <= k.stages + Cardinality(b)
        BY <3>3, <3>4
      <3>6. QED
        BY <3>2, <3>5
    <2>4. rStat' = k
      BY <1>4, <2>1
    <2>5. QED
      BY <2>2, <2>3, <2>4 DEF StatHolds
  <1>11. QED
    BY <1>4, <1>8, <1>9, <1>10, OrdersChange

(* An order that is advanced or cancelled stays the order of its day.      *)
LEMMA OrderMoves ==
  ASSUME ReportsInv, NEW o \in Reports!Active, NEW q \in OnlineOrder,
         rOrder' = [rOrder EXCEPT ![o] = q], q.day = rOrder[o].day, q.store = rOrder[o].store,
         q.status = "active" => \E i \in 1..3 : rOrder[o].stage = Reports!StageAt(i)
                                                /\ q.stage = Reports!StageAt(i + 1),
         UNCHANGED <<rToday, storeRow, goodsRow, platformRow, rJob, ran, rStat, newcomers>>
  PROVE  ReportsInv'
  <1>1. o \in Orders /\ o \in Reports!Placed /\ rOrder[o] \in OnlineOrder
    BY OrderKinds DEF Reports!Active, Reports!Placed, ReportsInv
  <1>2. /\ rOrder'[o] = q /\ \A i \in Orders \ {o} : rOrder'[i] = rOrder[i]
        /\ rOrder' \in [Orders -> OnlineOrder \cup {Reports!NoOrder}]
    BY <1>1 DEF ReportsInv, ReportsTyped
  <1>3. Reports!Placed' = Reports!Placed
    BY <1>1, <1>2 DEF Reports!Placed
  <1>4. Reports!Active' \subseteq Reports!Active
    BY <1>2, <1>3 DEF Reports!Active, Reports!Placed
  <1>5. ReportsTyped'
    <2>1. \A i \in Orders : rOrder'[i].day <= rToday'
      BY <1>2 DEF ReportsInv, ReportsTyped
    <2>2. QED
      BY <1>2, <1>3, <2>1 DEF ReportsInv, ReportsTyped
  <1>6. \A d : /\ PlacedOn(d)' = PlacedOn(d) /\ ActiveOn(d)' \subseteq ActiveOn(d)
               /\ \A s \in Stores : (Reports!Of(s, d) \cap Reports!Active)' \subseteq Reports!Of(s, d) \cap Reports!Active
    <2>1. \A d : PlacedOn(d)' = PlacedOn(d)
      BY <1>2, <1>3 DEF PlacedOn, Reports!Placed
    <2>2. \A d : ActiveOn(d)' \subseteq ActiveOn(d)
      BY <1>2, <1>4 DEF ActiveOn, Reports!Active, Reports!Placed
    <2>3. \A s, d : Reports!Of(s, d)' \subseteq Reports!Of(s, d)
      BY <1>2, <1>3 DEF Reports!Of, Reports!Placed
    <2>4. QED
      BY <1>4, <2>1, <2>2, <2>3
  <1>7. StatHolds(rStat)'
    <2>1. PICK k \in Statistics : k = rStat
      BY DEF ReportsInv, ReportsTyped
    <2>2. ASSUME k.next \in 1..5 PROVE Cardinality(Passed(k.next))' <= k.stages
      <3>1. Passed(k.next)' \subseteq Passed(k.next)
        <4>1. SUFFICES ASSUME NEW x \in Passed(k.next)' PROVE x \in Passed(k.next)
          OBVIOUS
        <4>2. /\ x \in Reports!Active' /\ x \notin newcomers
              /\ \E i \in 1..4 : i < k.next /\ rOrder'[x].stage = Reports!StageAt(i)
          BY <4>1 DEF Passed
        <4>3. PICK i \in 1..4 : i < k.next /\ rOrder'[x].stage = Reports!StageAt(i)
          BY <4>2
        <4>4. CASE x # o
          BY <1>2, <1>4, <4>2, <4>3, <4>4 DEF Passed, Reports!Active, Reports!Placed
        <4>5. CASE x = o
          <5>1. q.status = "active"
            BY <1>2, <4>2, <4>5 DEF Reports!Active
          <5>2. PICK j \in 1..3 : rOrder[o].stage = Reports!StageAt(j) /\ q.stage = Reports!StageAt(j + 1)
            BY <5>1
          <5>3. i = j + 1
            BY <1>2, <4>3, <4>5, <5>2 DEF Reports!StageAt, Reports!Stages
          <5>4. j < k.next /\ j \in 1..4
            BY <2>2, <4>3, <5>3
          <5>5. QED
            BY <1>4, <4>2, <4>5, <5>2, <5>4 DEF Passed
        <4>6. QED
          BY <4>4, <4>5
      <3>2. PICK b : b = Passed(k.next)'
        OBVIOUS
      <3>3. IsFiniteSet(Passed(k.next))
        BY OrdersCounted DEF ReportsInv
      <3>4. /\ Cardinality(b) \in Nat /\ Cardinality(Passed(k.next)) \in Nat
            /\ Cardinality(b) <= Cardinality(Passed(k.next))
        BY <3>1, <3>2, <3>3, Smaller
      <3>5. Cardinality(Passed(k.next)) <= k.stages /\ k.stages \in Nat
        BY <2>1, <2>2 DEF ReportsInv, StatHolds, Statistics
      <3>6. Cardinality(b) <= k.stages
        BY <3>4, <3>5
      <3>7. QED
        BY <3>2, <3>6
    <2>3. k.next = 6 => k.total <= k.stages + Cardinality(newcomers)
      BY <2>1 DEF ReportsInv, StatHolds
    <2>4. QED
      BY <2>1, <2>2, <2>3 DEF StatHolds
  <1>8. QED
    BY <1>5, <1>6, <1>7, OrdersChange

LEMMA AdvanceStep ==
  ASSUME ReportsInv, NEW o \in Orders, Reports!Advance(o)
  PROVE  ReportsInv'
  <1>1. o \in Reports!Active /\ rOrder[o].stage \in {"create", "accept"}
    BY DEF Reports!Advance
  <1>2. PICK r \in OnlineOrder : r = rOrder[o]
    BY <1>1, OrderKinds DEF Reports!Active, ReportsInv
  <1>3. PICK t : t = IF r.stage = "create" THEN "accept" ELSE "delivery"
    OBVIOUS
  <1>4. PICK q : q = [r EXCEPT !.stage = t]
    OBVIOUS
  <1>5. q \in OnlineOrder /\ q.day = r.day /\ q.store = r.store /\ q.stage = t
    BY <1>3, <1>4 DEF OnlineOrder, PlacedStages
  <1>6. /\ rOrder' = [rOrder EXCEPT ![o] = q]
        /\ UNCHANGED <<rToday, storeRow, goodsRow, platformRow, rJob, ran, rStat, newcomers>>
    BY <1>2, <1>3, <1>4 DEF Reports!Advance
  <1>7. \E i \in 1..3 : r.stage = Reports!StageAt(i) /\ q.stage = Reports!StageAt(i + 1)
    <2>1. CASE r.stage = "create"
      <3>1. r.stage = Reports!StageAt(1) /\ q.stage = Reports!StageAt(1 + 1)
        BY <1>3, <1>5, <2>1 DEF Reports!StageAt, Reports!Stages
      <3>2. QED
        BY <3>1
    <2>2. CASE r.stage = "accept"
      <3>1. r.stage = Reports!StageAt(2) /\ q.stage = Reports!StageAt(2 + 1)
        BY <1>3, <1>5, <2>2 DEF Reports!StageAt, Reports!Stages
      <3>2. QED
        BY <3>1
    <2>3. QED
      BY <1>1, <1>2, <2>1, <2>2
  <1>8. QED
    BY <1>1, <1>2, <1>5, <1>6, <1>7, OrderMoves

LEMMA CancelOrderStep ==
  ASSUME ReportsInv, NEW o \in Orders, Reports!Cancel(o)
  PROVE  ReportsInv'
  <1>1. o \in Reports!Active
    BY DEF Reports!Cancel
  <1>2. PICK r \in OnlineOrder : r = rOrder[o]
    BY <1>1, OrderKinds DEF Reports!Active, ReportsInv
  <1>3. PICK q : q = [r EXCEPT !.status = "cancel"]
    OBVIOUS
  <1>4. q \in OnlineOrder /\ q.day = r.day /\ q.store = r.store /\ q.status = "cancel"
    BY <1>3 DEF OnlineOrder
  <1>5. /\ rOrder' = [rOrder EXCEPT ![o] = q]
        /\ UNCHANGED <<rToday, storeRow, goodsRow, platformRow, rJob, ran, rStat, newcomers>>
    BY <1>2, <1>3 DEF Reports!Cancel
  <1>6. QED
    BY <1>1, <1>2, <1>4, <1>5, OrderMoves

LEMMA MidnightStep ==
  ASSUME ReportsInv, Reports!Midnight
  PROVE  ReportsInv'
  <1>1. /\ rToday < LastDay /\ rToday' = rToday + 1
        /\ UNCHANGED <<rOrder, storeRow, goodsRow, platformRow, rJob, ran, rStat, newcomers>>
    BY DEF Reports!Midnight
  <1>2. rToday \in Nat /\ LastDay \in Nat /\ ran \in Nat /\ 1 <= rToday /\ 1 <= ran /\ ran <= rToday
    BY StoreAssumption DEF ReportsInv, ReportsTyped, Reports!Dates
  <1>3. rToday' \in Reports!Dates /\ ran' \in 1..rToday'
    BY <1>1, <1>2, StoreAssumption DEF Reports!Dates
  <1>4. \A o \in Orders : rOrder'[o].day <= rToday'
    <2> SUFFICES ASSUME NEW o \in Orders PROVE rOrder[o].day <= rToday + 1
      BY <1>1
    <2>1. rOrder[o].day \in Nat
      BY OrderKinds, StoreAssumption DEF ReportsInv
    <2>2. rOrder[o].day <= rToday
      BY DEF ReportsInv, ReportsTyped
    <2>3. QED
      BY <1>2, <2>1, <2>2
  <1>5. Reports!Placed' = Reports!Placed /\ Reports!Active' = Reports!Active
    BY <1>1 DEF Reports!Placed, Reports!Active
  <1>6. /\ \A d : PlacedOn(d)' = PlacedOn(d) /\ ActiveOn(d)' = ActiveOn(d) /\ RowsOf(d)' = RowsOf(d)
        /\ \A s, d : Reports!Of(s, d)' = Reports!Of(s, d)
        /\ \A n : Passed(n)' = Passed(n)
    BY <1>1, <1>5 DEF PlacedOn, ActiveOn, RowsOf, Reports!Shown, Reports!Of, Passed
  <1>7. ReportsTyped'
    BY <1>1, <1>3, <1>4, <1>5 DEF ReportsInv, ReportsTyped
  <1>8. JobHolds(rJob)' /\ ReportedThrough'
    BY <1>1, <1>5, <1>6 DEF ReportsInv, JobHolds, ReportedThrough, Between
  <1>9. NoRowsFrom(ran)' /\ GoodsCovered' /\ StatHolds(rStat)'
    BY <1>1, <1>6 DEF ReportsInv, NoRowsFrom, GoodsCovered, StatHolds
  <1>10. QED
    BY <1>7, <1>8, <1>9 DEF ReportsInv

(***************************************************************************)
(* The nightly job.                                                        *)
(***************************************************************************)
LEMMA OrdersStand ==
  ASSUME ReportsInv, UNCHANGED <<rOrder, rStat, newcomers>>
  PROVE  /\ Reports!Placed' = Reports!Placed /\ Reports!Active' = Reports!Active
         /\ \A d : PlacedOn(d)' = PlacedOn(d) /\ ActiveOn(d)' = ActiveOn(d)
         /\ \A s, d : (Reports!Of(s, d) \cap Reports!Active)' = Reports!Of(s, d) \cap Reports!Active
         /\ \A n, d : Between(n, d)' <=> Between(n, d)
         /\ StatHolds(rStat)'
  <1>1. Reports!Placed' = Reports!Placed /\ Reports!Active' = Reports!Active
    BY DEF Reports!Placed, Reports!Active
  <1>2. \A d : PlacedOn(d)' = PlacedOn(d) /\ ActiveOn(d)' = ActiveOn(d)
    BY <1>1 DEF PlacedOn, ActiveOn
  <1>3. \A s, d : (Reports!Of(s, d) \cap Reports!Active)' = Reports!Of(s, d) \cap Reports!Active
    BY <1>1 DEF Reports!Of
  <1>4. \A n : Passed(n)' = Passed(n)
    BY <1>1 DEF Passed
  <1>5. StatHolds(rStat)'
    BY <1>4 DEF StatHolds, ReportsInv
  <1>6. \A n, d : Between(n, d)' <=> Between(n, d)
    BY <1>2 DEF Between
  <1>7. QED
    BY <1>1, <1>2, <1>3, <1>5, <1>6

(* Of a step of the job: its day, and what it may be used for.             *)
LEMMA JobDay ==
  ASSUME ReportsInv, rJob.at # "idle"
  PROVE  /\ rJob.day \in Reports!Dates /\ rJob.day \in Nat /\ ran \in Nat /\ rJob.day = ran - 1
         /\ \A d \in Reports!Dates : d >= ran => d # rJob.day
  BY StoreAssumption DEF ReportsInv, ReportsTyped, JobHolds, Reports!Dates

(* What the query counts, summed over the stores, are the day's orders.    *)
LEMMA CountedInAll ==
  ASSUME ReportsTyped, NEW d, NEW counts,
         counts = [s \in Stores |-> Cardinality(Reports!Of(s, d) \cap Reports!Active)]
  PROVE  counts \in [Stores -> Nat] /\ SumOver(counts, Stores) = Cardinality(ActiveOn(d))
  <1>1. counts \in [Stores -> Nat]
    BY OrdersCounted
  <1>2. PICK active : active = ActiveOn(d)
    OBVIOUS
  <1>3. IsFiniteSet(active)
    BY <1>2, OrdersCounted
  <1>4. PICK at : at = [o \in Orders |-> rOrder[o].store]
    OBVIOUS
  <1>5. \A o \in active : o \in Orders /\ at[o] = rOrder[o].store /\ at[o] \in Stores
    BY <1>2, <1>4, OrderKinds DEF ActiveOn, Reports!Active, Reports!Placed, OnlineOrder
  <1>6. \A s \in Stores : {o \in active : at[o] = s} = Reports!Of(s, d) \cap Reports!Active
    BY <1>2, <1>5 DEF ActiveOn, Reports!Active, Reports!Of
  <1>7. Cardinality(active) = SumOver([s \in Stores |-> Cardinality({o \in active : at[o] = s})], Stores)
    BY <1>3, <1>5, StoreAssumption, CountByParts
  <1>8. [s \in Stores |-> Cardinality({o \in active : at[o] = s})] = counts
    BY <1>6
  <1>9. QED
    BY <1>1, <1>2, <1>7, <1>8

LEMMA StoreQueryStep ==
  ASSUME ReportsInv, Reports!StoreQuery
  PROVE  ReportsInv'
  <1>1. PICK d : d = rToday - 1
    OBVIOUS
  <1>2. /\ rJob.at = "idle" /\ ran < rToday /\ ran' = rToday
        /\ UNCHANGED <<rToday, rOrder, storeRow, goodsRow, platformRow, rStat, newcomers>>
    BY DEF Reports!StoreQuery
  <1>3. rToday \in Nat /\ ran \in Nat /\ 1 <= ran /\ d \in Reports!Dates /\ d \in 0..LastDay /\ d >= ran
    BY <1>1, <1>2, StoreAssumption DEF ReportsInv, ReportsTyped, Reports!Dates
  <1>4. PICK counts : counts = [s \in Stores |-> Reports!Cardinality(Reports!Of(s, d) \cap Reports!Active)]
    OBVIOUS
  <1>5. counts = [s \in Stores |-> Cardinality(Reports!Of(s, d) \cap Reports!Active)]
    BY <1>4, CountsSame
  <1>6. counts \in [Stores -> Nat] /\ SumOver(counts, Stores) = Cardinality(ActiveOn(d))
    BY <1>5, CountedInAll DEF ReportsInv
  <1>7. Reports!MapThenSumSet(LAMBDA s : [z \in Stores |-> Reports!Cardinality(Reports!Of(z, d) \cap Reports!Active)][s], Stores)
          = SumOver([z \in Stores |-> Reports!Cardinality(Reports!Of(z, d) \cap Reports!Active)], Stores)
    BY DEF Reports!MapThenSumSet, Reports!MapThenFoldSet, SumOver, PartialSums, Body, Chosen
  <1>8. PICK k : k = [at |-> "stores", day |-> d, rows |-> counts, todo |-> {s \in Stores : counts[s] > 0},
                      total |-> SumOver(counts, Stores)]
    OBVIOUS
  <1>9. rJob' = k
    <2>1. rJob' = [at |-> "stores", day |-> d, rows |-> counts, todo |-> {s \in Stores : counts[s] > 0},
                   total |-> Reports!MapThenSumSet(LAMBDA s : [z \in Stores |-> Reports!Cardinality(Reports!Of(z, d) \cap Reports!Active)][s], Stores)]
      BY <1>1, <1>4 DEF Reports!StoreQuery, Reports!Reported
    <2>2. QED
      BY <1>4, <1>7, <1>8, <2>1
  <1>10. SumOver(counts, Stores) \in Nat /\ Between(SumOver(counts, Stores), d)
    <2>1. /\ Cardinality(ActiveOn(d)) \in Nat
          /\ Cardinality(ActiveOn(d)) <= Cardinality(PlacedOn(d))
      BY OrdersCounted DEF ReportsInv
    <2>2. QED
      BY <1>6, <2>1 DEF Between
  <1>11. k \in NightlyJob
    BY <1>3, <1>6, <1>8, <1>10 DEF NightlyJob
  <1>12. ReportsTyped'
    BY <1>2, <1>3, <1>9, <1>11, OrdersStand DEF ReportsInv, ReportsTyped
  <1>13. \A s \in Stores : storeRow[s][d] = Reports!NoRow /\ goodsRow[s][d] = Reports!NoRow
    BY <1>3 DEF ReportsInv, NoRowsFrom
  <1>14. platformRow[d] = Reports!NoRow
    BY <1>3 DEF ReportsInv, NoRowsFrom
  <1>15. JobHolds(rJob)'
    <2>1. k.day = ran' - 1 /\ k.day = d /\ k.total = SumOver(k.rows, Stores) /\ Between(k.total, d)' /\ k.at = "stores"
      BY <1>1, <1>2, <1>8, <1>10, OrdersStand
    <2>2. \A s \in Stores :
             /\ s \in k.todo => k.rows[s] > 0
             /\ storeRow[s][d] = IF k.rows[s] > 0 /\ s \notin k.todo THEN k.rows[s] ELSE Reports!NoRow
      BY <1>8, <1>13
    <2>3. \A s \in Stores : Cardinality(Reports!Of(s, d) \cap Reports!Active)' <= k.rows[s]
      <3> SUFFICES ASSUME NEW s \in Stores
                   PROVE  Cardinality(Reports!Of(s, d) \cap Reports!Active)' <= k.rows[s]
        OBVIOUS
      <3>1. (Reports!Of(s, d) \cap Reports!Active)' = Reports!Of(s, d) \cap Reports!Active
        BY <1>2, OrdersStand
      <3>2. k.rows[s] = Cardinality(Reports!Of(s, d) \cap Reports!Active) /\ k.rows[s] \in Nat
        BY <1>5, <1>6, <1>8
      <3>3. QED
        BY <3>1, <3>2
    <2>4. JobHolds(k)'
      BY <1>2, <1>3, <1>13, <1>14, <2>1, <2>2, <2>3 DEF JobHolds
    <2>5. QED
      BY <1>9, <2>4 DEF JobHolds
  <1>16. NoRowsFrom(ran)'
    BY <1>2, <1>3, StoreAssumption DEF ReportsInv, NoRowsFrom, Reports!Dates
  <1>17. ReportedThrough' /\ GoodsCovered'
    <2>1. \A e : RowsOf(e)' = RowsOf(e)
      BY <1>2 DEF RowsOf, Reports!Shown
    <2>2. QED
      BY <1>2, <2>1, OrdersStand DEF ReportsInv, ReportedThrough, GoodsCovered
  <1>18. QED
    BY <1>2, <1>12, <1>15, <1>16, <1>17, OrdersStand DEF ReportsInv

LEMMA StoreWriteStep ==
  ASSUME ReportsInv, Reports!StoreWrite
  PROVE  ReportsInv'
  <1>1. PICK k \in NightlyJob : k = rJob
    BY DEF ReportsInv, ReportsTyped
  <1>2. k.at = "stores" /\ UNCHANGED <<rToday, rOrder, goodsRow, platformRow, ran, rStat, newcomers>>
    BY <1>1 DEF Reports!StoreWrite
  <1>3. PICK s \in k.todo : /\ storeRow' = [storeRow EXCEPT ![s][k.day] = k.rows[s]]
                            /\ rJob' = [k EXCEPT !.todo = @ \ {s}]
    BY <1>1 DEF Reports!StoreWrite
  <1>4. PICK d \in Reports!Dates : d = k.day
    BY <1>1, <1>2, JobDay
  <1>5. \A e \in Reports!Dates : e >= ran => e # d
    BY <1>1, <1>2, <1>4, JobDay
  <1>6. PICK n \in Nat : n = k.rows[s]
    BY DEF NightlyJob
  <1>7. s \in Stores /\ n > 0 /\ JobHolds(k)
    BY <1>1, <1>2, <1>6 DEF ReportsInv, JobHolds, NightlyJob
  <1>8. /\ storeRow' \in [Stores -> [Reports!Dates -> Count]] /\ storeRow'[s][d] = n
        /\ \A x \in Stores, e \in Reports!Dates : <<x, e>> # <<s, d>> => storeRow'[x][e] = storeRow[x][e]
    BY <1>3, <1>4, <1>6, <1>7 DEF ReportsInv, ReportsTyped, Count
  <1>9. PICK q : q = [k EXCEPT !.todo = @ \ {s}]
    OBVIOUS
  <1>10. /\ q \in NightlyJob /\ q.at = k.at /\ q.day = k.day /\ q.rows = k.rows /\ q.total = k.total
         /\ q.todo = k.todo \ {s}
    BY <1>9 DEF NightlyJob
  <1>11. ReportsTyped'
    BY <1>2, <1>3, <1>8, <1>9, <1>10, OrdersStand DEF ReportsInv, ReportsTyped
  <1>12. JobHolds(rJob)'
    <2>1. \A x \in Stores :
             /\ x \in q.todo => q.rows[x] > 0
             /\ storeRow'[x][d] = IF q.rows[x] > 0 /\ x \notin q.todo THEN q.rows[x] ELSE Reports!NoRow
      BY <1>2, <1>4, <1>6, <1>7, <1>8, <1>10 DEF JobHolds
    <2>2. Between(q.total, d)'
      BY <1>2, <1>4, <1>7, <1>10, OrdersStand DEF JobHolds
    <2>3. \A x \in Stores : Cardinality(Reports!Of(x, d) \cap Reports!Active)' <= q.rows[x]
      BY <1>2, <1>4, <1>7, <1>10, OrdersStand DEF JobHolds
    <2>4. JobHolds(q)'
      BY <1>2, <1>4, <1>7, <1>10, <2>1, <2>2, <2>3 DEF JobHolds
    <2>5. QED
      BY <1>3, <1>9, <2>4 DEF JobHolds
  <1>13. NoRowsFrom(ran)'
    BY <1>2, <1>5, <1>8 DEF ReportsInv, NoRowsFrom
  <1>14. ReportedThrough'
    <2> SUFFICES ASSUME NEW e \in Reports!Dates, platformRow[e] # Reports!NoRow
                 PROVE  platformRow[e] = SumOver(RowsOf(e), Stores)' /\ Between(platformRow[e], e)'
      BY <1>2 DEF ReportedThrough, Between
    <2>1. e # d
      BY <1>2, <1>4, <1>7 DEF JobHolds
    <2>2. RowsOf(e)' = RowsOf(e)
      BY <1>8, <2>1 DEF RowsOf, Reports!Shown
    <2>3. QED
      BY <1>2, <2>2, OrdersStand DEF ReportsInv, ReportedThrough, Between
  <1>15. GoodsCovered'
    <2> SUFFICES ASSUME NEW e \in Reports!Dates, NEW x \in Stores, goodsRow[x][e] # Reports!NoRow
                 PROVE  storeRow'[x][e] # Reports!NoRow /\ goodsRow[x][e] <= storeRow'[x][e]
      BY <1>2 DEF GoodsCovered
    <2>1. e # d
      BY <1>2, <1>4, <1>7 DEF JobHolds
    <2>2. QED
      BY <1>8, <2>1 DEF ReportsInv, GoodsCovered
  <1>16. QED
    BY <1>2, <1>11, <1>12, <1>13, <1>14, <1>15, OrdersStand DEF ReportsInv

LEMMA GoodsQueryStep ==
  ASSUME ReportsInv, Reports!GoodsQuery
  PROVE  ReportsInv'
  <1>1. PICK k \in NightlyJob : k = rJob
    BY DEF ReportsInv, ReportsTyped
  <1>2. /\ k.at = "stores" /\ k.todo = {}
        /\ UNCHANGED <<rToday, rOrder, storeRow, goodsRow, platformRow, ran, rStat, newcomers>>
    BY <1>1 DEF Reports!GoodsQuery
  <1>3. PICK d \in Reports!Dates : d = k.day
    BY <1>1, <1>2, JobDay
  <1>4. JobHolds(k)
    BY <1>1 DEF ReportsInv
  <1>5. PICK counts : counts = [s \in Stores |-> Reports!Counted(s, d)]
    OBVIOUS
  <1>6. \A s \in Stores : counts[s] = Cardinality(Reports!Of(s, d) \cap Reports!Active) /\ counts[s] \in Nat
    BY <1>5, CountsSame, OrdersCounted DEF Reports!Counted, ReportsInv
  <1>7. counts \in [Stores -> Nat]
    BY <1>5, <1>6
  <1>8. PICK todo : todo = {s \in Stores : counts[s] > 0}
    OBVIOUS
  <1>9. PICK q : q = [k EXCEPT !.at = "goods", !.rows = counts, !.todo = todo]
    OBVIOUS
  <1>10. rJob' = q
    BY <1>1, <1>3, <1>5, <1>8, <1>9 DEF Reports!GoodsQuery
  <1>11. /\ q \in NightlyJob /\ q.at = "goods" /\ q.day = d /\ q.rows = counts /\ q.total = k.total
         /\ q.todo = todo
    BY <1>3, <1>7, <1>8, <1>9 DEF NightlyJob
  <1>12. \A s \in Stores : k.rows[s] \in Nat
    BY DEF NightlyJob
  <1>13. \A s \in Stores : k.rows[s] = RowsOf(d)[s]
    <2> SUFFICES ASSUME NEW s \in Stores PROVE k.rows[s] = Reports!Shown(storeRow[s][d])
      BY DEF RowsOf
    <2>1. storeRow[s][d] = IF k.rows[s] > 0 /\ s \notin k.todo THEN k.rows[s] ELSE Reports!NoRow
      BY <1>2, <1>3, <1>4 DEF JobHolds
    <2>2. PICK n \in Nat : n = k.rows[s]
      BY <1>12
    <2>3. storeRow[s][d] = IF n > 0 THEN n ELSE Reports!NoRow
      BY <1>2, <2>1, <2>2
    <2>4. Reports!Shown(storeRow[s][d]) = n
      BY <2>3 DEF Reports!Shown, Reports!NoRow
    <2>5. QED
      BY <2>2, <2>4
  <1>14. k.total = SumOver(RowsOf(d), Stores)
    BY <1>2, <1>4, <1>13, SumSame DEF JobHolds
  <1>15. RowsOf(d)' = RowsOf(d) /\ \A e : RowsOf(e)' = RowsOf(e)
    BY <1>2 DEF RowsOf, Reports!Shown
  <1>16. \A s \in todo : storeRow[s][d] # Reports!NoRow /\ counts[s] <= storeRow[s][d]
    <2> SUFFICES ASSUME NEW s \in Stores, counts[s] > 0
                 PROVE  storeRow[s][d] # Reports!NoRow /\ counts[s] <= storeRow[s][d]
      BY <1>8
    <2>1. counts[s] <= k.rows[s] /\ k.rows[s] \in Nat /\ counts[s] \in Nat
      BY <1>2, <1>3, <1>4, <1>6, <1>12 DEF JobHolds
    <2>2. k.rows[s] > 0
      BY <2>1
    <2>3. storeRow[s][d] = k.rows[s]
      BY <1>2, <1>3, <1>4, <2>2 DEF JobHolds
    <2>4. QED
      BY <2>1, <2>3 DEF Reports!NoRow
  <1>17. ReportsTyped'
    BY <1>2, <1>10, <1>11, OrdersStand DEF ReportsInv, ReportsTyped
  <1>18. JobHolds(rJob)'
    <2>1. Between(q.total, d)'
      BY <1>2, <1>3, <1>4, <1>11, OrdersStand DEF JobHolds
    <2>2. q.total = SumOver(RowsOf(d), Stores)'
      BY <1>11, <1>14, <1>15
    <2>3. JobHolds(q)'
      BY <1>2, <1>3, <1>4, <1>11, <1>16, <2>1, <2>2 DEF JobHolds
    <2>4. QED
      BY <1>10, <2>3 DEF JobHolds
  <1>19. NoRowsFrom(ran)' /\ ReportedThrough' /\ GoodsCovered'
    BY <1>2, <1>15, OrdersStand DEF ReportsInv, NoRowsFrom, ReportedThrough, GoodsCovered
  <1>20. QED
    BY <1>2, <1>17, <1>18, <1>19, OrdersStand DEF ReportsInv

LEMMA GoodsWriteStep ==
  ASSUME ReportsInv, Reports!GoodsWrite
  PROVE  ReportsInv'
  <1>1. PICK k \in NightlyJob : k = rJob
    BY DEF ReportsInv, ReportsTyped
  <1>2. k.at = "goods" /\ UNCHANGED <<rToday, rOrder, storeRow, platformRow, ran, rStat, newcomers>>
    BY <1>1 DEF Reports!GoodsWrite
  <1>3. PICK s \in k.todo : /\ goodsRow' = [goodsRow EXCEPT ![s][k.day] = k.rows[s]]
                            /\ rJob' = [k EXCEPT !.todo = @ \ {s}]
    BY <1>1 DEF Reports!GoodsWrite
  <1>4. PICK d \in Reports!Dates : d = k.day
    BY <1>1, <1>2, JobDay
  <1>5. \A e \in Reports!Dates : e >= ran => e # d
    BY <1>1, <1>2, <1>4, JobDay
  <1>6. PICK n \in Nat : n = k.rows[s]
    BY DEF NightlyJob
  <1>7. s \in Stores /\ JobHolds(k) /\ storeRow[s][d] # Reports!NoRow /\ n <= storeRow[s][d]
    BY <1>1, <1>2, <1>4, <1>6 DEF ReportsInv, JobHolds, NightlyJob
  <1>8. /\ goodsRow' \in [Stores -> [Reports!Dates -> Count]] /\ goodsRow'[s][d] = n
        /\ \A x \in Stores, e \in Reports!Dates : <<x, e>> # <<s, d>> => goodsRow'[x][e] = goodsRow[x][e]
    BY <1>3, <1>4, <1>6, <1>7 DEF ReportsInv, ReportsTyped, Count
  <1>9. PICK q : q = [k EXCEPT !.todo = @ \ {s}]
    OBVIOUS
  <1>10. /\ q \in NightlyJob /\ q.at = k.at /\ q.day = k.day /\ q.rows = k.rows /\ q.total = k.total
         /\ q.todo = k.todo \ {s}
    BY <1>9 DEF NightlyJob
  <1>11. ReportsTyped'
    BY <1>2, <1>3, <1>8, <1>9, <1>10, OrdersStand DEF ReportsInv, ReportsTyped
  <1>12. \A e : RowsOf(e)' = RowsOf(e)
    BY <1>2 DEF RowsOf, Reports!Shown
  <1>13. JobHolds(rJob)'
    <2>1. Between(q.total, q.day)'
      BY <1>2, <1>7, <1>10, OrdersStand DEF JobHolds
    <2>2. q.total = SumOver(RowsOf(q.day), Stores)'
      BY <1>2, <1>7, <1>10, <1>12 DEF JobHolds
    <2>3. JobHolds(q)'
      BY <1>2, <1>7, <1>10, <2>1, <2>2 DEF JobHolds
    <2>4. QED
      BY <1>3, <1>9, <2>3 DEF JobHolds
  <1>14. NoRowsFrom(ran)'
    BY <1>2, <1>5, <1>8 DEF ReportsInv, NoRowsFrom
  <1>15. ReportedThrough'
    BY <1>2, <1>12, OrdersStand DEF ReportsInv, ReportedThrough
  <1>16. GoodsCovered'
    <2> SUFFICES ASSUME NEW e \in Reports!Dates, NEW x \in Stores, goodsRow'[x][e] # Reports!NoRow
                 PROVE  storeRow[x][e] # Reports!NoRow /\ goodsRow'[x][e] <= storeRow[x][e]
      BY <1>2 DEF GoodsCovered
    <2>1. CASE <<x, e>> = <<s, d>>
      BY <1>7, <1>8, <2>1
    <2>2. CASE <<x, e>> # <<s, d>>
      BY <1>8, <2>2 DEF ReportsInv, GoodsCovered
    <2>3. QED
      BY <2>1, <2>2
  <1>17. QED
    BY <1>2, <1>11, <1>13, <1>14, <1>15, <1>16, OrdersStand DEF ReportsInv

LEMMA NoJobTyped == Reports!NoJob \in NightlyJob /\ Reports!NoJob.at = "idle" /\ Reports!NoJob.day = 0
  BY StoreAssumption DEF Reports!NoJob, NightlyJob

LEMMA PlatformWriteStep ==
  ASSUME ReportsInv, Reports!PlatformWrite
  PROVE  ReportsInv'
  <1>1. PICK k \in NightlyJob : k = rJob
    BY DEF ReportsInv, ReportsTyped
  <1>2. /\ k.at = "goods" /\ k.todo = {} /\ rJob' = Reports!NoJob
        /\ platformRow' = [platformRow EXCEPT ![k.day] = k.total]
        /\ UNCHANGED <<rToday, rOrder, storeRow, goodsRow, ran, rStat, newcomers>>
    BY <1>1 DEF Reports!PlatformWrite, Reports!PlatformTotal
  <1>3. PICK d \in Reports!Dates : d = k.day
    BY <1>1, <1>2, JobDay
  <1>4. \A e \in Reports!Dates : e >= ran => e # d
    BY <1>1, <1>2, <1>3, JobDay
  <1>5. PICK n \in Nat : n = k.total
    BY DEF NightlyJob
  <1>6. JobHolds(k)
    BY <1>1 DEF ReportsInv
  <1>7. /\ platformRow' \in [Reports!Dates -> Count] /\ platformRow'[d] = n
        /\ \A e \in Reports!Dates \ {d} : platformRow'[e] = platformRow[e]
    BY <1>2, <1>3, <1>5 DEF ReportsInv, ReportsTyped, Count
  <1>8. ReportsTyped'
    BY <1>2, <1>7, NoJobTyped, OrdersStand DEF ReportsInv, ReportsTyped
  <1>9. JobHolds(rJob)'
    BY <1>2, NoJobTyped DEF JobHolds
  <1>10. NoRowsFrom(ran)'
    BY <1>2, <1>4, <1>7 DEF ReportsInv, NoRowsFrom
  <1>11. \A e : RowsOf(e)' = RowsOf(e)
    BY <1>2 DEF RowsOf, Reports!Shown
  <1>12. ReportedThrough'
    <2> SUFFICES ASSUME NEW e \in Reports!Dates, platformRow'[e] # Reports!NoRow
                 PROVE  platformRow'[e] = SumOver(RowsOf(e), Stores)' /\ Between(platformRow[e], e)'
      BY DEF ReportedThrough
    <2>1. CASE e = d
      <3>1. n = SumOver(RowsOf(e), Stores) /\ Between(n, e)
        BY <1>2, <1>3, <1>5, <1>6, <2>1 DEF JobHolds
      <3>2. Between(n, e)'
        BY <1>2, <3>1, OrdersStand
      <3>3. QED
        BY <1>7, <1>11, <2>1, <3>1, <3>2 DEF Between
    <2>2. CASE e # d
      <3>1. PICK m : m = platformRow[e]
        OBVIOUS
      <3>2. m = SumOver(RowsOf(e), Stores) /\ Between(m, e) /\ platformRow'[e] = m
        BY <1>7, <2>2, <3>1 DEF ReportsInv, ReportedThrough
      <3>3. Between(m, e)'
        BY <1>2, <3>2, OrdersStand
      <3>4. QED
        BY <1>11, <3>2, <3>3 DEF Between
    <2>3. QED
      BY <2>1, <2>2
  <1>13. GoodsCovered'
    BY <1>2 DEF ReportsInv, GoodsCovered
  <1>14. QED
    BY <1>2, <1>8, <1>9, <1>10, <1>12, <1>13, OrdersStand DEF ReportsInv

LEMMA JobFailsStep ==
  ASSUME ReportsInv, Reports!JobFails
  PROVE  ReportsInv'
  <1>1. rJob' = Reports!NoJob
        /\ UNCHANGED <<rToday, rOrder, storeRow, goodsRow, platformRow, ran, rStat, newcomers>>
    BY DEF Reports!JobFails
  <1>2. ReportsTyped'
    BY <1>1, NoJobTyped, OrdersStand DEF ReportsInv, ReportsTyped
  <1>3. JobHolds(rJob)'
    BY <1>1, NoJobTyped DEF JobHolds
  <1>4. \A e : RowsOf(e)' = RowsOf(e)
    BY <1>1 DEF RowsOf, Reports!Shown
  <1>5. NoRowsFrom(ran)' /\ GoodsCovered'
    BY <1>1 DEF ReportsInv, NoRowsFrom, GoodsCovered
  <1>6. ReportedThrough'
    BY <1>1, <1>4, OrdersStand DEF ReportsInv, ReportedThrough
  <1>7. QED
    BY <1>1, <1>2, <1>3, <1>5, <1>6, OrdersStand DEF ReportsInv

(***************************************************************************)
(* The call of getStatistics.                                              *)
(***************************************************************************)
LEMMA CallsOfStatistics ==
  ASSUME ReportsInv, NEW k \in Statistics, rStat' = k, newcomers' \subseteq newcomers,
         UNCHANGED <<rToday, rOrder, storeRow, goodsRow, platformRow, rJob, ran>>, StatHolds(k)'
  PROVE  ReportsInv'
  <1>1. Reports!Placed' = Reports!Placed /\ Reports!Active' = Reports!Active
    BY DEF Reports!Placed, Reports!Active
  <1>2. /\ \A d : PlacedOn(d)' = PlacedOn(d) /\ ActiveOn(d)' = ActiveOn(d) /\ RowsOf(d)' = RowsOf(d)
        /\ \A s, d : Reports!Of(s, d)' = Reports!Of(s, d)
    BY <1>1 DEF PlacedOn, ActiveOn, RowsOf, Reports!Shown, Reports!Of
  <1>3. ReportsTyped'
    BY <1>1 DEF ReportsInv, ReportsTyped
  <1>4. JobHolds(rJob)' /\ ReportedThrough'
    BY <1>1, <1>2 DEF ReportsInv, JobHolds, ReportedThrough, Between
  <1>5. NoRowsFrom(ran)' /\ GoodsCovered' /\ StatHolds(rStat)'
    BY DEF ReportsInv, NoRowsFrom, GoodsCovered, StatHolds
  <1>6. QED
    BY <1>3, <1>4, <1>5 DEF ReportsInv

LEMMA StatStartStep ==
  ASSUME ReportsInv, Reports!StatStart
  PROVE  ReportsInv'
  <1>1. PICK k : k = [Reports!NoStat EXCEPT !.next = 1]
    OBVIOUS
  <1>2. k \in Statistics /\ k.next = 1 /\ k.stages = 0
    BY <1>1 DEF Statistics, Reports!NoStat
  <1>3. rStat' = k /\ UNCHANGED <<rToday, rOrder, storeRow, goodsRow, platformRow, rJob, ran, newcomers>>
    BY <1>1 DEF Reports!StatStart
  <1>4. Passed(1)' = {}
    <2>1. \A i \in 1..4 : ~(i < 1)
      OBVIOUS
    <2>2. QED
      BY <2>1 DEF Passed
  <1>5. StatHolds(k)'
    <2>1. Cardinality(Passed(k.next))' <= k.stages
      BY <1>2, <1>4, FS_EmptySet
    <2>2. QED
      BY <1>2, <2>1 DEF StatHolds
  <1>6. QED
    BY <1>2, <1>3, <1>5, CallsOfStatistics

LEMMA StatStageStep ==
  ASSUME ReportsInv, Reports!StatStage
  PROVE  ReportsInv'
  <1>1. PICK k \in Statistics : k = rStat
    BY DEF ReportsInv, ReportsTyped
  <1>2. PICK n \in 1..4 : n = k.next
    BY <1>1 DEF Reports!StatStage
  <1>3. PICK counted : counted = {o \in Reports!Active : rOrder[o].stage = Reports!StageAt(n)}
    OBVIOUS
  <1>4. PICK passed : passed = Passed(n)
    OBVIOUS
  <1>5. PICK further : further = Passed(n + 1)
    OBVIOUS
  <1>6. PICK q : q = [k EXCEPT !.next = n + 1, !.stages = @ + Cardinality(counted)]
    OBVIOUS
  <1>7. /\ IsFiniteSet(counted) /\ IsFiniteSet(passed)
        /\ Cardinality(counted) \in Nat /\ Cardinality(passed) \in Nat
    <2>1. counted \subseteq Reports!Active /\ IsFiniteSet(Reports!Active)
      BY <1>3, OrdersCounted DEF ReportsInv
    <2>2. QED
      BY <1>4, <2>1, FS_Subset, FS_CardinalityType, OrdersCounted DEF ReportsInv
  <1>8. q \in Statistics /\ q.next = n + 1 /\ q.stages = k.stages + Cardinality(counted) /\ k.stages \in Nat
    <2>1. k.stages \in Nat /\ k.total \in Nat /\ n + 1 \in 0..6
      BY DEF Statistics
    <2>2. k.stages + Cardinality(counted) \in Nat
      BY <1>7, <2>1
    <2>3. q = [next |-> n + 1, stages |-> k.stages + Cardinality(counted), total |-> k.total]
      BY <1>6 DEF Statistics
    <2>4. QED
      BY <2>1, <2>2, <2>3 DEF Statistics
  <1>9. rStat' = q /\ UNCHANGED <<rToday, rOrder, storeRow, goodsRow, platformRow, rJob, ran, newcomers>>
    <2>1. rStat' = [k EXCEPT !.next = @ + 1,
                             !.stages = @ + Reports!Cardinality({o \in Reports!Active : rOrder[o].stage = Reports!StageAt(k.next)})]
      BY <1>1 DEF Reports!StatStage
    <2>2. QED
      BY <1>2, <1>3, <1>6, <2>1, CountsSame DEF Reports!StatStage
  <1>10. further \subseteq passed \cup counted
    <2> SUFFICES ASSUME NEW o \in further PROVE o \in passed \cup counted
      OBVIOUS
    <2>1. /\ o \in Reports!Active \ newcomers
          /\ \E i \in 1..4 : i < n + 1 /\ rOrder[o].stage = Reports!StageAt(i)
      BY <1>5 DEF Passed
    <2>2. PICK i \in 1..4 : i < n + 1 /\ rOrder[o].stage = Reports!StageAt(i)
      BY <2>1
    <2>3. CASE i = n
      BY <1>3, <2>1, <2>2, <2>3
    <2>4. CASE i # n
      <3>1. i < n
        BY <2>2, <2>4
      <3>2. QED
        BY <1>4, <2>1, <2>2, <3>1 DEF Passed
    <2>5. QED
      BY <2>3, <2>4
  <1>11. Cardinality(further) <= Cardinality(passed) + Cardinality(counted)
    <2>1. PICK both : both = passed \cup counted
      OBVIOUS
    <2>2. /\ IsFiniteSet(both) /\ Cardinality(passed \cap counted) \in Nat
          /\ Cardinality(both) = Cardinality(passed) + Cardinality(counted) - Cardinality(passed \cap counted)
      <3>1. IsFiniteSet(passed \cap counted)
        BY <1>7, FS_Intersection
      <3>2. Cardinality(passed \cap counted) \in Nat
        BY <3>1, FS_CardinalityType
      <3>3. IsFiniteSet(passed \cup counted)
        BY <1>7, FS_Union
      <3>4. Cardinality(passed \cup counted) = Cardinality(passed) + Cardinality(counted) - Cardinality(passed \cap counted)
        BY <1>7, FS_Union
      <3>5. QED
        BY <2>1, <3>2, <3>3, <3>4
    <2>3. Cardinality(further) \in Nat /\ Cardinality(both) \in Nat /\ Cardinality(further) <= Cardinality(both)
      BY <1>10, <2>1, <2>2, Smaller
    <2>4. QED
      BY <1>7, <2>2, <2>3
  <1>12. Cardinality(passed) <= k.stages
    BY <1>1, <1>2, <1>4 DEF ReportsInv, StatHolds
  <1>13. Cardinality(further) \in Nat
    BY <1>5, OrdersCounted DEF ReportsInv
  <1>14. Cardinality(further) <= q.stages
    BY <1>7, <1>8, <1>11, <1>12, <1>13
  <1>15. Passed(n + 1)' = further
    BY <1>5, <1>9 DEF Passed, Reports!Active, Reports!Placed
  <1>16. StatHolds(q)'
    <2>1. q.next \in 2..5
      BY <1>8
    <2>2. Cardinality(Passed(q.next))' <= q.stages
      BY <1>8, <1>14, <1>15
    <2>3. QED
      BY <2>1, <2>2 DEF StatHolds
  <1>17. QED
    BY <1>8, <1>9, <1>16, CallsOfStatistics

LEMMA StatTotalStep ==
  ASSUME ReportsInv, Reports!StatTotal
  PROVE  ReportsInv'
  <1>1. PICK k \in Statistics : k = rStat
    BY DEF ReportsInv, ReportsTyped
  <1>2. PICK active : active = Cardinality(Reports!Active)
    OBVIOUS
  <1>3. PICK q : q = [k EXCEPT !.next = 6, !.total = active]
    OBVIOUS
  <1>4. k.next = 5 /\ rStat' = q
        /\ UNCHANGED <<rToday, rOrder, storeRow, goodsRow, platformRow, rJob, ran, newcomers>>
    BY <1>1, <1>2, <1>3, CountsSame DEF Reports!StatTotal
  <1>5. active \in Nat /\ Cardinality(newcomers) \in Nat /\ IsFiniteSet(newcomers)
        /\ IsFiniteSet(Passed(5)) /\ Cardinality(Passed(5)) \in Nat
    BY <1>2, OrdersCounted DEF ReportsInv
  <1>6. q \in Statistics /\ q.next = 6 /\ q.total = active /\ q.stages = k.stages /\ k.stages \in Nat
    <2>1. k.stages \in Nat
      BY DEF Statistics
    <2>2. q = [next |-> 6, stages |-> k.stages, total |-> active]
      BY <1>3 DEF Statistics
    <2>3. QED
      BY <1>5, <2>1, <2>2 DEF Statistics
  <1>7. Reports!Active \subseteq Passed(5) \cup newcomers
    <2> SUFFICES ASSUME NEW o \in Reports!Active, o \notin newcomers PROVE o \in Passed(5)
      OBVIOUS
    <2>1. o \in Orders /\ o \in Reports!Placed
      BY DEF Reports!Active, Reports!Placed
    <2>2. rOrder[o].stage \in PlacedStages
      BY <2>1, OrderKinds DEF ReportsInv, OnlineOrder
    <2>3. /\ Reports!StageAt(1) = "create" /\ Reports!StageAt(2) = "accept" /\ Reports!StageAt(3) = "delivery"
      BY DEF Reports!StageAt, Reports!Stages
    <2>4. \E i \in 1..4 : i < 5 /\ rOrder[o].stage = Reports!StageAt(i)
      <3>1. CASE rOrder[o].stage = "create"
        BY <2>3, <3>1
      <3>2. CASE rOrder[o].stage = "accept"
        BY <2>3, <3>2
      <3>3. CASE rOrder[o].stage = "delivery"
        BY <2>3, <3>3
      <3>4. QED
        BY <2>2, <3>1, <3>2, <3>3 DEF PlacedStages
    <2>5. QED
      BY <2>4 DEF Passed
  <1>8. active <= Cardinality(Passed(5)) + Cardinality(newcomers)
    <2>1. PICK a : a = Reports!Active
      OBVIOUS
    <2>2. PICK p : p = Passed(5)
      OBVIOUS
    <2>3. PICK w : w = newcomers
      OBVIOUS
    <2>4. IsFiniteSet(p \cup w) /\ a \subseteq p \cup w
      BY <1>5, <1>7, <2>1, <2>2, <2>3, FS_Union
    <2>5. Cardinality(p \cup w) = Cardinality(p) + Cardinality(w) - Cardinality(p \cap w)
      BY <1>5, <2>2, <2>3, FS_Union
    <2>6. Cardinality(p \cap w) \in Nat
      BY <1>5, <2>2, <2>3, FS_Intersection, FS_CardinalityType
    <2>7. Cardinality(a) \in Nat /\ Cardinality(a) <= Cardinality(p \cup w)
      BY <2>4, Smaller
    <2>8. Cardinality(p) \in Nat /\ Cardinality(w) \in Nat
      BY <1>5, <2>2, <2>3
    <2>9. Cardinality(a) <= Cardinality(p) + Cardinality(w)
      BY <2>5, <2>6, <2>7, <2>8
    <2>10. QED
      BY <1>2, <2>1, <2>2, <2>3, <2>9
  <1>9. Cardinality(Passed(5)) <= k.stages
    BY <1>1, <1>4 DEF ReportsInv, StatHolds
  <1>10. q.total <= q.stages + Cardinality(newcomers)
    BY <1>5, <1>6, <1>8, <1>9
  <1>11. StatHolds(q)'
    BY <1>4, <1>6, <1>10 DEF StatHolds
  <1>12. QED
    BY <1>4, <1>6, <1>11, CallsOfStatistics

LEMMA StatAnswerStep ==
  ASSUME ReportsInv, Reports!StatAnswer
  PROVE  ReportsInv'
  <1>1. PICK k : k = Reports!NoStat
    OBVIOUS
  <1>2. k \in Statistics /\ k.next = 0
    BY <1>1 DEF Statistics, Reports!NoStat
  <1>3. rStat' = k /\ newcomers' = {} /\ UNCHANGED <<rToday, rOrder, storeRow, goodsRow, platformRow, rJob, ran>>
    BY <1>1 DEF Reports!StatAnswer
  <1>4. StatHolds(k)'
    BY <1>2 DEF StatHolds
  <1>5. QED
    BY <1>2, <1>3, <1>4, CallsOfStatistics

LEMMA ReportsInitInv ==
  ASSUME Reports!ReportsInit
  PROVE  ReportsInv
  <1>1. /\ rToday = 1 /\ ran = 1 /\ rJob = Reports!NoJob /\ rStat = Reports!NoStat /\ newcomers = {}
        /\ rOrder = [o \in Orders |-> Reports!NoOrder]
        /\ storeRow = [s \in Stores |-> [d \in Reports!Dates |-> Reports!NoRow]]
        /\ goodsRow = [s \in Stores |-> [d \in Reports!Dates |-> Reports!NoRow]]
        /\ platformRow = [d \in Reports!Dates |-> Reports!NoRow]
    BY DEF Reports!ReportsInit
  <1>2. Reports!NoOrder.day = 0
    BY DEF Reports!NoOrder
  <1>3. Reports!Placed = {}
    BY <1>1, <1>2 DEF Reports!Placed
  <1>4. rStat \in Statistics /\ rStat.next = 0
    BY <1>1 DEF Reports!NoStat, Statistics
  <1>5. 1 \in Reports!Dates
    BY StoreAssumption DEF Reports!Dates
  <1>6. ReportsTyped
    BY <1>1, <1>2, <1>3, <1>4, <1>5, NoJobTyped, FS_EmptySet DEF ReportsTyped, Count
  <1>7. JobHolds(rJob)
    BY <1>1, NoJobTyped DEF JobHolds
  <1>8. NoRowsFrom(ran) /\ ReportedThrough /\ GoodsCovered
    BY <1>1 DEF NoRowsFrom, ReportedThrough, GoodsCovered
  <1>9. StatHolds(rStat)
    BY <1>4 DEF StatHolds
  <1>10. QED
    BY <1>6, <1>7, <1>8, <1>9 DEF ReportsInv

LEMMA ReportsStep ==
  ASSUME ReportsInv, [Reports!ReportsNext]_reportVars
  PROVE  ReportsInv'
  <1>1. ASSUME NEW o \in Orders, NEW s \in Stores, Reports!Place(o, s) PROVE ReportsInv'
    BY <1>1, PlaceOrderStep
  <1>2. ASSUME NEW o \in Orders, Reports!Advance(o) PROVE ReportsInv'
    BY <1>2, AdvanceStep
  <1>3. ASSUME NEW o \in Orders, Reports!Cancel(o) PROVE ReportsInv'
    BY <1>3, CancelOrderStep
  <1>4. CASE Reports!Midnight
    BY <1>4, MidnightStep
  <1>5. CASE Reports!StoreQuery \/ Reports!StoreWrite
    BY <1>5, StoreQueryStep, StoreWriteStep
  <1>6. CASE Reports!GoodsQuery \/ Reports!GoodsWrite
    BY <1>6, GoodsQueryStep, GoodsWriteStep
  <1>7. CASE Reports!PlatformWrite \/ Reports!JobFails
    BY <1>7, PlatformWriteStep, JobFailsStep
  <1>8. CASE Reports!StatStart \/ Reports!StatStage
    BY <1>8, StatStartStep, StatStageStep
  <1>9. CASE Reports!StatTotal \/ Reports!StatAnswer
    BY <1>9, StatTotalStep, StatAnswerStep
  <1>10. CASE UNCHANGED reportVars
    <2>1. /\ UNCHANGED <<rToday, rOrder, storeRow, goodsRow, platformRow, rJob, ran, newcomers>>
          /\ UNCHANGED rStat
      BY <1>10 DEF reportVars
    <2>2. StatHolds(rStat)'
      BY <2>1, OrdersStand
    <2>3. PICK k \in Statistics : k = rStat
      BY DEF ReportsInv, ReportsTyped
    <2>4. rStat' = k /\ newcomers' \subseteq newcomers
      BY <2>1, <2>3
    <2>5. StatHolds(k)'
      BY <2>2, <2>4 DEF StatHolds
    <2>6. QED
      BY <2>1, <2>4, <2>5, CallsOfStatistics
  <1>11. QED
    BY <1>1, <1>2, <1>3, <1>4, <1>5, <1>6, <1>7, <1>8, <1>9, <1>10 DEF Reports!ReportsNext

(* What the questions answer, in the terms of the invariant.               *)
LEMMA PlatformSums ==
  ASSUME NEW d
  PROVE  Reports!MapThenSumSet(LAMBDA s : Reports!StoreTrend(s, d), Stores) = SumOver(RowsOf(d), Stores)
  <1>1. PICK f : f = RowsOf(d)
    OBVIOUS
  <1>2. \A u \in SUBSET Stores : u # {} => f[Chosen(u)] = Reports!StoreTrend(Chosen(u), d)
    BY <1>1, ChosenIn DEF RowsOf, Reports!StoreTrend
  <1>3. \A g : [u \in SUBSET Stores |-> Body(f, g, u)]
                = [u \in SUBSET Stores |-> IF u = {} THEN 0
                                           ELSE Reports!StoreTrend(Chosen(u), d) + g[u \ {Chosen(u)}]]
    BY <1>2 DEF Body
  <1>4. SumOver(f, Stores)
          = (CHOOSE g : g = [u \in SUBSET Stores |-> IF u = {} THEN 0
                                ELSE Reports!StoreTrend(Chosen(u), d) + g[u \ {Chosen(u)}]])[Stores]
    BY <1>3 DEF SumOver, PartialSums
  <1>5. Reports!MapThenSumSet(LAMBDA s : Reports!StoreTrend(s, d), Stores)
          = (CHOOSE g : g = [u \in SUBSET Stores |-> IF u = {} THEN 0
                                ELSE Reports!StoreTrend(Chosen(u), d) + g[u \ {Chosen(u)}]])[Stores]
    BY DEF Reports!MapThenSumSet, Reports!MapThenFoldSet, Chosen
  <1>6. QED
    BY <1>1, <1>4, <1>5

LEMMA DailySums ==
  ASSUME NEW d, NEW S \in SUBSET Stores, NEW f, \A s \in S : f[s] = storeRow[s][d]
  PROVE  Reports!MapThenSumSet(LAMBDA s : storeRow[s][d], S) = SumOver(f, S)
  <1>1. \A u \in SUBSET S : u # {} => f[Chosen(u)] = storeRow[Chosen(u)][d]
    BY ChosenIn
  <1>2. \A g : [u \in SUBSET S |-> Body(f, g, u)]
                = [u \in SUBSET S |-> IF u = {} THEN 0 ELSE storeRow[Chosen(u)][d] + g[u \ {Chosen(u)}]]
    BY <1>1 DEF Body
  <1>3. SumOver(f, S)
          = (CHOOSE g : g = [u \in SUBSET S |-> IF u = {} THEN 0
                                ELSE storeRow[Chosen(u)][d] + g[u \ {Chosen(u)}]])[S]
    BY <1>2 DEF SumOver, PartialSums
  <1>4. Reports!MapThenSumSet(LAMBDA s : storeRow[s][d], S)
          = (CHOOSE g : g = [u \in SUBSET S |-> IF u = {} THEN 0
                                ELSE storeRow[Chosen(u)][d] + g[u \ {Chosen(u)}]])[S]
    BY DEF Reports!MapThenSumSet, Reports!MapThenFoldSet, Chosen
  <1>5. QED
    BY <1>3, <1>4

(* A day's orders are those of the window from it and not from the next.   *)
LEMMA WindowsOfADay ==
  ASSUME ReportsTyped, NEW d \in Reports!Dates
  PROVE  Cardinality(PlacedOn(d)) = Reports!Metrics(d).total - (IF d < LastDay THEN Reports!Metrics(d + 1).total ELSE 0)
  <1>1. PICK from : from = {o \in Reports!Placed : rOrder[o].day >= d}
    OBVIOUS
  <1>2. PICK later : later = {o \in Reports!Placed : rOrder[o].day >= d + 1}
    OBVIOUS
  <1>3. PICK day : day = PlacedOn(d)
    OBVIOUS
  <1>4. d \in Nat /\ LastDay \in Nat /\ d <= LastDay
    BY StoreAssumption DEF Reports!Dates
  <1>5. \A o \in Reports!Placed : rOrder[o].day \in Nat /\ rOrder[o].day <= LastDay
    BY OrderKinds, StoreAssumption DEF Reports!Placed
  <1>6. IsFiniteSet(later) /\ IsFiniteSet(day)
    BY <1>2, <1>3, FS_Subset DEF ReportsTyped, PlacedOn
  <1>7. from = later \cup day /\ later \cap day = {}
    BY <1>1, <1>2, <1>3, <1>4, <1>5 DEF PlacedOn
  <1>8. /\ Cardinality(from) = Cardinality(later) + Cardinality(day)
        /\ Cardinality(later) \in Nat /\ Cardinality(day) \in Nat
    <2>1. Cardinality(from) = Cardinality(later) + Cardinality(day) - Cardinality(later \cap day)
      BY <1>6, <1>7, FS_Union
    <2>2. Cardinality(later \cap day) = 0
      BY <1>7, FS_EmptySet
    <2>3. Cardinality(later) \in Nat /\ Cardinality(day) \in Nat
      BY <1>6, FS_CardinalityType
    <2>4. QED
      BY <2>1, <2>2, <2>3
  <1>9. Reports!Metrics(d).total = Cardinality(from) /\ Reports!Metrics(d + 1).total = Cardinality(later)
    BY <1>1, <1>2, CountsSame DEF Reports!Metrics
  <1>10. CASE d < LastDay
    BY <1>3, <1>8, <1>9, <1>10
  <1>11. CASE ~(d < LastDay)
    <2>1. later = {}
      BY <1>2, <1>4, <1>5, <1>11
    <2>2. Cardinality(later) = 0
      BY <2>1, FS_EmptySet
    <2>3. QED
      BY <1>3, <1>8, <1>9, <1>11, <2>2
  <1>12. QED
    BY <1>10, <1>11

LEMMA DaysAgree ==
  ASSUME ReportsInv
  PROVE  Reports!ViewsAgree
  <1> SUFFICES ASSUME NEW d \in Reports!Dates, platformRow[d] # Reports!NoRow
               PROVE  /\ Reports!PlatformTrend(d) = Reports!MapThenSumSet(LAMBDA s : Reports!StoreTrend(s, d), Stores)
                      /\ Reports!DailyReport(d).totalOrders = Reports!PlatformTrend(d)
                      /\ Reports!Trend(d) <= Reports!PlatformTrend(d)
                      /\ Reports!PlatformTrend(d)
                            <= Reports!Metrics(d).total - (IF d < LastDay THEN Reports!Metrics(d + 1).total ELSE 0)
    BY DEF Reports!ViewsAgree
  <1>1. platformRow[d] = SumOver(RowsOf(d), Stores) /\ Between(platformRow[d], d)
    BY DEF ReportsInv, ReportedThrough
  <1>2. Reports!PlatformTrend(d) = platformRow[d]
    BY DEF Reports!PlatformTrend, Reports!Shown
  <1>3. PICK with : with = {s \in Stores : storeRow[s][d] # Reports!NoRow}
    OBVIOUS
  <1>4. PICK f : f = RowsOf(d)
    OBVIOUS
  <1>5. \A s \in with : f[s] = storeRow[s][d]
    BY <1>3, <1>4 DEF RowsOf, Reports!Shown
  <1>6. \A s \in Stores \ with : f[s] = 0
    BY <1>3, <1>4 DEF RowsOf, Reports!Shown
  <1>7. \A s \in Stores : f[s] \in Int
    <2>1. \A s \in Stores : storeRow[s][d] \in Count
      BY DEF ReportsInv, ReportsTyped
    <2>2. \A s \in with : storeRow[s][d] \in Nat
      BY <1>3, <2>1 DEF Count
    <2>3. QED
      BY <1>5, <1>6, <2>2
  <1>8. SumOver(f, Stores) = SumOver(f, with)
    BY <1>3, <1>6, <1>7, StoreAssumption, SumZeros
  <1>9. Reports!DailyReport(d).totalOrders = SumOver(f, with)
    <2>1. Reports!DailyReport(d).totalOrders
            = Reports!MapThenSumSet(LAMBDA s : storeRow[s][d], {s \in Stores : storeRow[s][d] # Reports!NoRow})
      BY DEF Reports!DailyReport
    <2>2. Reports!MapThenSumSet(LAMBDA s : storeRow[s][d], {s \in Stores : storeRow[s][d] # Reports!NoRow})
            = SumOver(f, {s \in Stores : storeRow[s][d] # Reports!NoRow})
      BY <1>3, <1>5, DailySums
    <2>3. QED
      BY <1>3, <2>1, <2>2
  <1>10. Reports!Trend(d) = Cardinality(ActiveOn(d))
    BY CountsSame DEF Reports!Trend, ActiveOn
  <1>11. Reports!PlatformTrend(d) = Reports!MapThenSumSet(LAMBDA s : Reports!StoreTrend(s, d), Stores)
    BY <1>1, <1>2, PlatformSums
  <1>12. Reports!DailyReport(d).totalOrders = Reports!PlatformTrend(d)
    BY <1>1, <1>2, <1>4, <1>8, <1>9
  <1>13. Reports!Trend(d) <= Reports!PlatformTrend(d)
    BY <1>1, <1>2, <1>10 DEF Between
  <1>14. Reports!PlatformTrend(d)
            <= Reports!Metrics(d).total - (IF d < LastDay THEN Reports!Metrics(d + 1).total ELSE 0)
    BY <1>1, <1>2, WindowsOfADay DEF Between, ReportsInv
  <1>15. QED
    BY <1>11, <1>12, <1>13, <1>14

LEMMA ReportsInvSound ==
  ASSUME ReportsInv
  PROVE  /\ Reports!ReportsTypeOK /\ Reports!ViewsAgree
         /\ Reports!GoodsWithinOrders /\ Reports!StatsCover
  <1>1. Reports!ReportsTypeOK
    <2>1. \A s \in Stores, d \in Reports!Dates :
             {storeRow[s][d], goodsRow[s][d], platformRow[d]} \subseteq {Reports!NoRow} \cup Nat
      BY DEF ReportsInv, ReportsTyped, Count
    <2>2. rJob.at \in {"idle", "stores", "goods"} /\ rJob.todo \subseteq Stores
      BY DEF ReportsInv, ReportsTyped, NightlyJob
    <2>3. rToday \in Nat /\ ran \in Nat /\ ran \in Reports!Dates /\ 1 <= ran /\ ran <= rToday
      BY StoreAssumption DEF ReportsInv, ReportsTyped, Reports!Dates
    <2>4. rJob.day < rToday
      BY <2>3 DEF ReportsInv, JobHolds
    <2>5. rStat.next \in 0..6 /\ newcomers \subseteq Reports!Placed
      BY DEF ReportsInv, ReportsTyped, Statistics
    <2>6. ASSUME NEW o \in Orders PROVE rOrder[o].stage = "none" <=> o \notin Reports!Placed
      BY OrderKinds DEF ReportsInv, OnlineOrder, PlacedStages
    <2>7. QED
      BY <2>1, <2>2, <2>3, <2>4, <2>5, <2>6 DEF Reports!ReportsTypeOK
  <1>2. Reports!GoodsWithinOrders
    <2> SUFFICES ASSUME NEW d \in Reports!Dates, NEW s \in Stores, goodsRow[s][d] # Reports!NoRow
                 PROVE  storeRow[s][d] # Reports!NoRow /\ Reports!DailyReport(d).goods[s] <= storeRow[s][d]
      BY DEF Reports!GoodsWithinOrders
    <2>1. storeRow[s][d] # Reports!NoRow /\ goodsRow[s][d] <= storeRow[s][d]
      BY DEF ReportsInv, GoodsCovered
    <2>2. Reports!DailyReport(d).goods[s] = goodsRow[s][d]
      BY <2>1 DEF Reports!DailyReport, Reports!Shown
    <2>3. QED
      BY <2>1, <2>2
  <1>3. Reports!StatsCover
    <2> SUFFICES ASSUME rStat.next = 6 PROVE rStat.stages + Reports!Cardinality(newcomers) >= rStat.total
      BY DEF Reports!StatsCover
    <2>1. rStat.total <= rStat.stages + Cardinality(newcomers)
      BY DEF ReportsInv, StatHolds
    <2>2. Cardinality(newcomers) \in Nat /\ rStat.total \in Nat /\ rStat.stages \in Nat
      BY OrdersCounted DEF ReportsInv, ReportsTyped, Statistics
    <2>3. QED
      BY <2>1, <2>2, CountsSame
  <1>4. QED
    BY <1>1, <1>2, <1>3, DaysAgree

(* A day that is reported through is told alike by the platform's row, the *)
(* stores' rows, the daily report, the trend and the metrics, whatever     *)
(* orders did between the job's queries; no store sold goods beyond its    *)
(* orders, and getStatistics misses no order (ReportsAgree).               *)
THEOREM ReportsAlwaysAgree == StoreSpec => []ReportsAgree
  <1>1. StoreInit => ReportsPart
    BY ReportsInitInv DEF StoreInit, ReportsPart
  <1>2. ReportsPart /\ [StoreNext]_storeVars => ReportsPart'
    BY ReportsStep, Parts DEF ReportsPart
  <1>3. ReportsPart => ReportsAgree
    BY ReportsInvSound DEF ReportsPart, ReportsAgree
  <1>4. QED
    BY <1>1, <1>2, <1>3, PTL DEF StoreSpec, storeVars
=============================================================================

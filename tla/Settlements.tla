---------------------------- MODULE Settlements ----------------------------
(***************************************************************************)
(* The platform's monthly settlement (PlatformSettlementService and its    *)
(* timer): the subscription payments, approved resource purchases and      *)
(* service fees of a month become the details of one row.                  *)
(*                                                                         *)
(* Each is collected by a query of its own, and fees are rows written on   *)
(* the way; nothing is a transaction.  A settlement's status is written by *)
(* nobody but confirm and settle and read by nobody: it is left out.       *)
(***************************************************************************)
EXTENDS Integers, FiniteSets

CONSTANTS
    Payments,    \* supply of store_service_payment rows
    Purchases,   \* supply of store_resource_order rows that cost money
    Busy,        \* supply of a store's days with orders beyond the free ten
    Jobs,        \* settlement calls in flight
    LastMonth    \* bound: the month it may become

Months == 1..LastMonth
Items  == Payments \cup Purchases \cup Busy

VARIABLES
    month,       \* the month it is
    made,        \* the month of each item; 0: not yet
    approved,    \* purchases the platform approved
    quiet,       \* busy days that are no longer: orders were cancelled
    fee,         \* store_order_service_fee rows, by day
    settlement,  \* platform_settlement rows by month: their details
    phase, tray, \* where each call is, and what it carries
    early,       \* history: months read before they were over
    late,        \* history: purchases not approved when their month was read
    stranded     \* history: fees of calls that ended without a settlement

settlementVars ==
    <<month, made, approved, quiet, fee, settlement, phase, tray, early, late, stranded>>

NoTray == [month |-> 0, details |-> {}, todo |-> {}]
Open   == {m \in Months : settlement[m] = {0}}

(* A month without a row holds {0}, which is no item.                      *)
SettlementsInit ==
    /\ month = 1
    /\ made = [i \in Items |-> 0]
    /\ approved = {} /\ quiet = {} /\ fee = {}
    /\ settlement = [m \in Months |-> {0}]
    /\ phase = [j \in Jobs |-> "idle"]
    /\ tray = [j \in Jobs |-> NoTray]
    /\ early = {} /\ late = {} /\ stranded = {}

Put(j, to, k) ==
    /\ phase' = [phase EXCEPT ![j] = to]
    /\ tray' = [tray EXCEPT ![j] = k]

Of(kind, m) == {i \in kind : made[i] = m}

(***************************************************************************)
(* What is settled comes about: payments, purchases and their approval,    *)
(* the eleventh order of a day and its cancellation.                       *)
(***************************************************************************)
Make(i) ==
    /\ made[i] = 0
    /\ made' = [made EXCEPT ![i] = month]
    /\ UNCHANGED <<month, approved, quiet, fee, settlement, phase, tray, early, late, stranded>>

Approve(i) ==
    /\ made[i] > 0
    /\ approved' = approved \cup {i}
    /\ UNCHANGED <<month, made, quiet, fee, settlement, phase, tray, early, late, stranded>>

CancelOrder(i) ==
    /\ made[i] > 0
    /\ quiet' = quiet \cup {i}
    /\ UNCHANGED <<month, made, approved, fee, settlement, phase, tray, early, late, stranded>>

MonthEnds ==
    /\ month < LastMonth
    /\ month' = month + 1
    /\ UNCHANGED <<made, approved, quiet, fee, settlement, phase, tray, early, late, stranded>>

(***************************************************************************)
(* generateMonthlySettlement, by its timer or on request, for any month    *)
(* (on the last days of a month getLastMonth may answer that very month).  *)
(***************************************************************************)
Generate(j, m) ==
    /\ phase[j] = "idle"
    /\ m <= month
    /\ m \in Open
    /\ Put(j, "payments", [NoTray EXCEPT !.month = m])
    /\ UNCHANGED <<month, made, approved, quiet, fee, settlement, early, late, stranded>>

CollectPayments(j) ==
    LET m == tray[j].month
    IN  /\ phase[j] = "payments"
        /\ Put(j, "purchases", [tray[j] EXCEPT !.details = Of(Payments, m)])
        /\ early' = IF m = month THEN early \cup {m} ELSE early
        /\ UNCHANGED <<month, made, approved, quiet, fee, settlement, late, stranded>>

(* Mutant of Bought: those that wait for approval are taken too.           *)
BoughtAny(m) == Of(Purchases, m)

Bought(m) == Of(Purchases, m) \cap approved

CollectPurchases(j) ==
    LET m == tray[j].month
    IN  /\ phase[j] = "purchases"
        /\ Put(j, "days", [tray[j] EXCEPT !.details = @ \cup Bought(m)])
        /\ late' = late \cup (Of(Purchases, m) \ approved)
        /\ UNCHANGED <<month, made, approved, quiet, fee, settlement, early, stranded>>

CollectDays(j) ==
    /\ phase[j] = "days"
    /\ Put(j, "fees", [tray[j] EXCEPT !.todo = Of(Busy, tray[j].month) \ quiet])
    /\ UNCHANGED <<month, made, approved, quiet, fee, settlement, early, late, stranded>>

Passed(k, i) == [k EXCEPT !.todo = @ \ {i}]

(* One day after the other: a day that has a fee is passed over, another   *)
(* gets one, in a second step.                                             *)
FeeLookup(j) ==
    LET k == tray[j]
    IN  /\ phase[j] = "fees"
        /\ IF k.todo = {} THEN Put(j, "create", k)
           ELSE LET i == CHOOSE x \in k.todo : TRUE
                IN  IF i \in fee THEN Put(j, "fees", Passed(k, i))
                    ELSE Put(j, "charge", k)
        /\ UNCHANGED <<month, made, approved, quiet, fee, settlement, early, late, stranded>>

(* The call ends, and the fees it wrote are nobody's.                      *)
Abandon(j) ==
    /\ Put(j, "idle", NoTray)
    /\ stranded' = stranded \cup (tray[j].details \cap Busy)

(* A day's fee is unique: of two calls that both missed it the later throws. *)
FeeCreate(j) ==
    LET k == tray[j]
        i == CHOOSE x \in k.todo : TRUE
    IN  /\ phase[j] = "charge"
        /\ IF i \in fee THEN Abandon(j) /\ UNCHANGED fee
           ELSE /\ fee' = fee \cup {i}
                /\ Put(j, "fees", [k EXCEPT !.details = @ \cup {i}, !.todo = @ \ {i}])
                /\ UNCHANGED stranded
        /\ UNCHANGED <<month, made, approved, quiet, settlement, early, late>>

(* A month has one row: a call that lost the race throws.                  *)
Create(j) ==
    LET k == tray[j]
    IN  /\ phase[j] = "create"
        /\ IF k.month \in Open
           THEN /\ settlement' = [settlement EXCEPT ![k.month] = k.details]
                /\ Put(j, "idle", NoTray)
                /\ UNCHANGED stranded
           ELSE Abandon(j) /\ UNCHANGED settlement
        /\ UNCHANGED <<month, made, approved, quiet, fee, early, late>>

(* The process stops, or a query fails.                                    *)
Fail(j) ==
    /\ phase[j] # "idle"
    /\ Abandon(j)
    /\ UNCHANGED <<month, made, approved, quiet, fee, settlement, early, late>>

Collect(j) ==
    \/ CollectPayments(j) \/ CollectPurchases(j) \/ CollectDays(j)
    \/ FeeLookup(j) \/ FeeCreate(j) \/ Create(j)

SettlementsNext ==
    \/ \E i \in Items : Make(i)
    \/ \E i \in Purchases : Approve(i)
    \/ \E i \in Busy : CancelOrder(i)
    \/ MonthEnds
    \/ \E j \in Jobs :
          \/ \E m \in Months : Generate(j, m)
          \/ Collect(j) \/ Fail(j)

SettlementsSpec == SettlementsInit /\ [][SettlementsNext]_settlementVars
-----------------------------------------------------------------------------
Details(m) == settlement[m] \ {0}
Held       == (UNION {tray[j].details : j \in Jobs}) \cap Busy

(* A settled month has every payment and every purchase of that month,     *)
(* except one that was settled before it was over, and except purchases    *)
(* approved after they were read; and what is in it is of that month.      *)
MonthComplete ==
    \A m \in Months \ Open :
        /\ \A i \in Details(m) : made[i] = m
        /\ m \notin early => Of(Payments, m) \subseteq Details(m)
        /\ m \notin early => Of(Purchases, m) \ late \subseteq Details(m)
        /\ Details(m) \cap Purchases \subseteq approved

(* '是否已计入结算': a fee that was written is in the settlement of its month, or   *)
(* a call under way holds it, or its call ended without a settlement: and  *)
(* only one of the three.                                                  *)
FeeAccounted ==
    /\ fee = Held \cup stranded \cup UNION {Details(m) \cap Busy : m \in Months}
    /\ stranded \cap Held = {}
    /\ \A m \in Months : Details(m) \cap (stranded \cup Held) = {}
=============================================================================

---------------------------- MODULE OrderReports ----------------------------
(***************************************************************************)
(* What a merchant and the platform are told about online orders: the      *)
(* nightly job that reports the day before (StoreOrderDailyReportCron-     *)
(* Service), and the statistics that count orders as they are now          *)
(* (StoreOrderService).                                                    *)
(*                                                                         *)
(* Every order is of one amount and of one piece of its store's only       *)
(* version, so that counts stand for sums too.  receive and finish have no *)
(* caller: no order is ever received or finished.                          *)
(***************************************************************************)
EXTENDS Integers, FiniteSets, FiniteSetsExt

CONSTANTS
    Orders,
    Stores,
    LastDay     \* bound: the day it may become

Dates == 1..LastDay

VARIABLES
    today,
    order,        \* user_order rows
    storeRow,     \* report_store_daily_order: NoRow or a count, by store and day
    goodsRow,     \* report_store_daily_goods, the same
    platformRow,  \* report_platform_daily_order, by day
    job,          \* where the nightly job is, and what it carries
    ran,          \* the last day the timer fired
    stat,         \* a getStatistics call: the next of its queries, and the counts
    newcomers     \* history: orders placed since that call began

reportVars == <<today, order, storeRow, goodsRow, platformRow, job, ran, stat, newcomers>>

NoRow    == -1
NoOrder == [store |-> CHOOSE s \in Stores : TRUE, day |-> 0, stage |-> "none", status |-> "none"]
NoJob   == [at |-> "idle", day |-> 0, rows |-> [s \in Stores |-> 0], todo |-> {}, total |-> 0]
NoStat  == [next |-> 0, stages |-> 0, total |-> 0]

Placed    == {o \in Orders : order[o].day > 0}
Active    == {o \in Placed : order[o].status = "active"}
Of(s, d)  == {o \in Placed : order[o].store = s /\ order[o].day = d}

ReportsInit ==
    /\ today = 1
    /\ order = [o \in Orders |-> NoOrder]
    /\ storeRow = [s \in Stores |-> [d \in Dates |-> NoRow]]
    /\ goodsRow = [s \in Stores |-> [d \in Dates |-> NoRow]]
    /\ platformRow = [d \in Dates |-> NoRow]
    /\ job = NoJob
    /\ ran = 1
    /\ stat = NoStat
    /\ newcomers = {}

(***************************************************************************)
(* Orders come and go on meanwhile: OrderService's create, accept,         *)
(* delivery, and cancel at any stage.                                      *)
(***************************************************************************)
Place(o, s) ==
    /\ order[o] = NoOrder
    /\ order' = [order EXCEPT ![o] = [store |-> s, day |-> today, stage |-> "create", status |-> "active"]]
    /\ newcomers' = IF stat.next > 0 THEN newcomers \cup {o} ELSE newcomers
    /\ UNCHANGED <<today, storeRow, goodsRow, platformRow, job, ran, stat>>

Advance(o) ==
    /\ o \in Active
    /\ order[o].stage \in {"create", "accept"}
    /\ order' = [order EXCEPT ![o].stage = IF @ = "create" THEN "accept" ELSE "delivery"]
    /\ UNCHANGED <<today, storeRow, goodsRow, platformRow, job, ran, stat, newcomers>>

Cancel(o) ==
    /\ o \in Active
    /\ order' = [order EXCEPT ![o].status = "cancel"]
    /\ UNCHANGED <<today, storeRow, goodsRow, platformRow, job, ran, stat, newcomers>>

Midnight ==
    /\ today < LastDay
    /\ today' = today + 1
    /\ UNCHANGED <<order, storeRow, goodsRow, platformRow, job, ran, stat, newcomers>>

(***************************************************************************)
(* generateStoreDailyReports, at one o'clock if the process is up          *)
(***************************************************************************)
(* The day from yesterday's midnight to today's.                           *)
Reported(t) == t - 1

(* Mutant of Counted: whatever became of them.                             *)
CountedAny(s, d) == Cardinality(Of(s, d))

Counted(s, d) == Cardinality(Of(s, d) \cap Active)

(* One query each for the stores and for the goods: a store without an     *)
(* order of that day has no row.                                           *)
StoreQuery ==
    LET d == Reported(today)
        rows == [s \in Stores |-> Cardinality(Of(s, d) \cap Active)]
    IN  /\ job.at = "idle"
        /\ ran < today
        /\ ran' = today
        /\ job' = [at |-> "stores", day |-> d, rows |-> rows, todo |-> {s \in Stores : rows[s] > 0},
                   total |-> MapThenSumSet(LAMBDA s : rows[s], Stores)]
        /\ UNCHANGED <<today, order, storeRow, goodsRow, platformRow, stat, newcomers>>

(* Found and updated, or created: a row of its own at a time.              *)
StoreWrite ==
    /\ job.at = "stores"
    /\ \E s \in job.todo :
          /\ storeRow' = [storeRow EXCEPT ![s][job.day] = job.rows[s]]
          /\ job' = [job EXCEPT !.todo = @ \ {s}]
    /\ UNCHANGED <<today, order, goodsRow, platformRow, ran, stat, newcomers>>

GoodsQuery ==
    LET rows == [s \in Stores |-> Counted(s, job.day)]
    IN  /\ job.at = "stores" /\ job.todo = {}
        /\ job' = [job EXCEPT !.at = "goods", !.rows = rows, !.todo = {s \in Stores : rows[s] > 0}]
        /\ UNCHANGED <<today, order, storeRow, goodsRow, platformRow, ran, stat, newcomers>>

GoodsWrite ==
    /\ job.at = "goods"
    /\ \E s \in job.todo :
          /\ goodsRow' = [goodsRow EXCEPT ![s][job.day] = job.rows[s]]
          /\ job' = [job EXCEPT !.todo = @ \ {s}]
    /\ UNCHANGED <<today, order, storeRow, platformRow, ran, stat, newcomers>>

(* The sum of what was read for the stores.                                *)
PlatformTotal(k) == k.total

PlatformWrite ==
    /\ job.at = "goods" /\ job.todo = {}
    /\ platformRow' = [platformRow EXCEPT ![job.day] = PlatformTotal(job)]
    /\ job' = NoJob
    /\ UNCHANGED <<today, order, storeRow, goodsRow, ran, stat, newcomers>>

(* The process stops or a query fails; nobody takes the day up again.      *)
JobFails ==
    /\ job.at # "idle"
    /\ job' = NoJob
    /\ UNCHANGED <<today, order, storeRow, goodsRow, platformRow, ran, stat, newcomers>>

(***************************************************************************)
(* getStatistics: four counts by stage, the total, and last the list of    *)
(* orders whose money is added up.                                         *)
(***************************************************************************)
Stages == <<"create", "accept", "delivery", "finished">>

StageAt(n) == Stages[n]

StatStart ==
    /\ stat.next = 0
    /\ stat' = [NoStat EXCEPT !.next = 1]
    /\ UNCHANGED <<today, order, storeRow, goodsRow, platformRow, job, ran, newcomers>>

StatStage ==
    /\ stat.next \in 1..4
    /\ stat' = [stat EXCEPT !.next = @ + 1,
                            !.stages = @ + Cardinality({o \in Active : order[o].stage = StageAt(stat.next)})]
    /\ UNCHANGED <<today, order, storeRow, goodsRow, platformRow, job, ran, newcomers>>

StatTotal ==
    /\ stat.next = 5
    /\ stat' = [stat EXCEPT !.next = 6, !.total = Cardinality(Active)]
    /\ UNCHANGED <<today, order, storeRow, goodsRow, platformRow, job, ran, newcomers>>

StatAnswer ==
    /\ stat.next = 6
    /\ stat' = NoStat
    /\ newcomers' = {}
    /\ UNCHANGED <<today, order, storeRow, goodsRow, platformRow, job, ran>>

ReportsNext ==
    \/ \E o \in Orders :
          \/ \E s \in Stores : Place(o, s)
          \/ Advance(o) \/ Cancel(o)
    \/ Midnight
    \/ StoreQuery \/ StoreWrite \/ GoodsQuery \/ GoodsWrite \/ PlatformWrite \/ JobFails
    \/ StatStart \/ StatStage \/ StatTotal \/ StatAnswer

ReportsSpec == ReportsInit /\ [][ReportsNext]_reportVars

(***************************************************************************)
(* The other questions, each of the rows as they are                       *)
(***************************************************************************)
Shown(row) == IF row = NoRow THEN 0 ELSE row

(* getTrend: a day's orders that are still active.                         *)
Trend(d) == Cardinality({o \in Active : order[o].day = d})

(* getMonthlyTrendForAllStores, of one store and of the platform.          *)
StoreTrend(s, d) == Shown(storeRow[s][d])
PlatformTrend(d) == Shown(platformRow[d])

(* getDailyReport: the stores with a row, and the goods of each.           *)
DailyReport(d) ==
    LET of == {s \in Stores : storeRow[s][d] # NoRow}
    IN  [totalOrders |-> MapThenSumSet(LAMBDA s : storeRow[s][d], of),
         goods       |-> [s \in of |-> Shown(goodsRow[s][d])]]

(* getMetrics: of the orders of a window, those that were cancelled.       *)
Metrics(from) ==
    LET window == {o \in Placed : order[o].day >= from}
    IN  [total |-> Cardinality(window), cancelled |-> Cardinality(window \ Active)]
-----------------------------------------------------------------------------
(* Rows are counts, a job carries the day before the one it began on, and  *)
(* only orders that were placed have a stage.                              *)
ReportsTypeOK ==
    /\ \A s \in Stores, d \in Dates : {storeRow[s][d], goodsRow[s][d], platformRow[d]} \subseteq {NoRow} \cup Nat
    /\ job.at \in {"idle", "stores", "goods"} /\ job.day < today /\ job.todo \subseteq Stores
    /\ stat.next \in 0..6 /\ ran \in Dates /\ newcomers \subseteq Placed
    /\ \A o \in Orders : order[o].stage = "none" <=> o \notin Placed

(* A day that is reported through: the platform's row is the sum of its    *)
(* stores' rows, which is the daily report's total; no order of that day   *)
(* that is still active is missing in it, and none is in it that getMetrics *)
(* does not know, the cancelled included.                                  *)
ViewsAgree ==
    \A d \in Dates : platformRow[d] # NoRow =>
        /\ PlatformTrend(d) = MapThenSumSet(LAMBDA s : StoreTrend(s, d), Stores)
        /\ DailyReport(d).totalOrders = PlatformTrend(d)
        /\ Trend(d) <= PlatformTrend(d)
        /\ PlatformTrend(d) <= Metrics(d).total - (IF d < LastDay THEN Metrics(d + 1).total ELSE 0)

(* Goods are read after the stores' orders, while orders are cancelled: a  *)
(* store sold no goods of a day beyond its orders, and none without a row. *)
GoodsWithinOrders ==
    \A d \in Dates, s \in Stores :
        goodsRow[s][d] # NoRow =>
            /\ storeRow[s][d] # NoRow
            /\ DailyReport(d).goods[s] <= storeRow[s][d]

(* getStatistics reads the stages one after the other while orders move:   *)
(* an order that moves may be counted twice, but none that was there when  *)
(* the call began is missed and still in the total.                        *)
StatsCover ==
    stat.next = 6 => stat.stages + Cardinality(newcomers) >= stat.total
=============================================================================

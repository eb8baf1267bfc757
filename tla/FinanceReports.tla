--------------------------- MODULE FinanceReports ---------------------------
(***************************************************************************)
(* The books of one store: finance records and the report row of each day  *)
(* that every change of a record recomputes (FinanceService).              *)
(*                                                                         *)
(* Nothing here is a transaction: a record is read, written, and then the  *)
(* reports of its dates are recomputed, each by a read and a write.        *)
(* Amounts are cents, water and electricity are one column.                *)
(***************************************************************************)
EXTENDS Integers, FiniteSets, FiniteSetsExt, SequencesExt

CONSTANTS
    Dates,
    Clerks,      \* handlers in flight
    MaxRecords,  \* bound: records ever created
    MaxCalls,    \* bound: handlers ever started
    Entries,     \* what may be entered: a record, its takeaway perhaps Absent
    Days         \* what the till may have seen on a day, as Generated reads it

Ids    == 1..MaxRecords
Absent == -1
Kinds  == {"daily_revenue", "ingredient_cost", "monthly_overhead", "rent", "utilities"}

VARIABLES
    record,     \* store_finance_record by its number
    report,     \* report_store_finance_daily; a day without a row is all zero
    step, held, \* where each handler is, and what it carries
    crossed,    \* history: days whose report nobody is answerable for
    calls       \* handlers started so far

financeVars == <<record, report, step, held, crossed, calls>>

NoRecord == [kind |-> "none", date |-> CHOOSE d \in Dates : TRUE,
             till |-> 0, takeaway |-> 0, amount |-> 0, rent |-> 0, power |-> 0]
Gone     == [NoRecord EXCEPT !.kind = "gone"]
Zero     == [revenue |-> 0, ingredient_cost |-> 0, rent_amount |-> 0, electricity_amount |-> 0]
NoWork   == [op |-> "none", entry |-> NoRecord, id |-> 0, due |-> {}, bucket |-> Zero, met |-> FALSE]

Kept      == {i \in Ids : record[i].kind \in Kinds}
OfDay(d)  == {i \in Kept : record[i].date = d}
Find(k, d) == {i \in OfDay(d) : record[i].kind = k}

(* A store older than its reports: its first record has none.              *)
Legacy == [NoRecord EXCEPT !.kind = "rent", !.amount = 1]

FinanceInit ==
    /\ record = [i \in Ids |-> IF i = 1 THEN Legacy ELSE NoRecord]
    /\ report = [d \in Dates |-> Zero]
    /\ step = [c \in Clerks |-> "idle"]
    /\ held = [c \in Clerks |-> NoWork]
    /\ crossed = {Legacy.date}
    /\ calls = 0

Put(c, to, k) ==
    /\ step' = [step EXCEPT ![c] = to]
    /\ held' = [held EXCEPT ![c] = k]

Starts(c) ==
    /\ step[c] = "idle"
    /\ calls < MaxCalls
    /\ calls' = calls + 1

Quit(c) == Put(c, "idle", NoWork)

(* Days in ds change: a report read before is out of date, a generation    *)
(* that saw the day before has been overtaken.                             *)
Change(c, ds) ==
    LET k == held[c]
        Reads(b) == b # c /\ step[b] = "put" /\ held[b].due \cap ds # {}
    IN  /\ crossed' = crossed \cup (ds \ k.due)
                      \cup UNION {held[b].due \cap ds : b \in {x \in Clerks : Reads(x)}}
        /\ step' = [step EXCEPT ![c] = "read"]
        /\ held' = [b \in Clerks |-> IF b = c THEN [NoWork EXCEPT !.op = "sync", !.due = k.due]
                                ELSE [held[b] EXCEPT !.met = (@ \/ held[b].op = "generate")]]

(***************************************************************************)
(* accumFromRawRecord                                                      *)
(***************************************************************************)
Bucket(d) ==
    [revenue            |-> MapThenSumSet(LAMBDA i : record[i].till + record[i].takeaway, Find("daily_revenue", d)),
     ingredient_cost    |-> MapThenSumSet(LAMBDA i : record[i].amount, Find("ingredient_cost", d)),
     rent_amount        |-> MapThenSumSet(LAMBDA i : record[i].rent, Find("monthly_overhead", d))
                            + MapThenSumSet(LAMBDA i : record[i].amount, Find("rent", d)),
     electricity_amount |-> MapThenSumSet(LAMBDA i : record[i].power, Find("monthly_overhead", d))
                            + MapThenSumSet(LAMBDA i : record[i].amount, Find("utilities", d))]

(***************************************************************************)
(* upsert: record i by its id, or (i = 0) the one of that kind and day.    *)
(***************************************************************************)
Filled(e, old) == IF e.takeaway = Absent THEN old.takeaway ELSE e.takeaway

Upsert(c, op, e, i) ==
    LET found == IF i # 0 THEN {i} \cap Kept ELSE Find(e.kind, e.date)
        old   == IF found = {} THEN NoRecord ELSE record[CHOOSE x \in found : TRUE]
        row   == [e EXCEPT !.takeaway = Filled(e, old)]
    IN  IF i # 0 /\ found = {} THEN Quit(c)
        ELSE Put(c, IF i # 0 THEN "move" ELSE IF found = {} THEN "create" ELSE "update",
                 [NoWork EXCEPT !.op = op, !.entry = row, !.met = held[c].met,
                                !.id = IF found = {} THEN 0 ELSE CHOOSE x \in found : TRUE,
                                !.due = IF i # 0 THEN {e.date, old.date} ELSE {e.date}])

Enter(c, e, i) ==
    /\ Starts(c)
    /\ Upsert(c, "enter", e, i)
    /\ UNCHANGED <<record, report, crossed>>

(* A kind of one day has one record.                                       *)
Taken(k, d, i) == Find(k, d) \ {i} # {}

Create(c) ==
    LET k == held[c]
        new == {i \in Ids : record[i].kind = "none"}
    IN  /\ step[c] = "create"
        /\ IF Taken(k.entry.kind, k.entry.date, 0)
           THEN Quit(c) /\ UNCHANGED <<record, crossed>>
           ELSE /\ new # {}
                /\ record' = [record EXCEPT ![Min(new)] = k.entry]
                /\ Change(c, {k.entry.date})
        /\ UNCHANGED <<report, calls>>

Move(c) ==
    LET k == held[c]
    IN  /\ step[c] = "move"
        /\ IF k.id \notin Kept \/ Taken(k.entry.kind, k.entry.date, k.id)
           THEN Quit(c) /\ UNCHANGED <<record, crossed>>
           ELSE /\ record' = [record EXCEPT ![k.id] = k.entry]
                /\ Change(c, {k.entry.date, record[k.id].date})
        /\ UNCHANGED <<report, calls>>

(* Found by kind and day, it keeps the kind and day it has now.            *)
Update(c) ==
    LET k == held[c]
        now == record[k.id]
    IN  /\ step[c] = "update"
        /\ IF k.id \notin Kept THEN Quit(c) /\ UNCHANGED <<record, crossed>>
           ELSE /\ record' = [record EXCEPT ![k.id] = [k.entry EXCEPT !.kind = now.kind, !.date = now.date]]
                /\ Change(c, {now.date})
        /\ UNCHANGED <<report, calls>>

(***************************************************************************)
(* remove                                                                  *)
(***************************************************************************)
RemoveStart(c, i) ==
    /\ Starts(c)
    /\ i \in Kept
    /\ Put(c, "remove", [NoWork EXCEPT !.op = "remove", !.id = i, !.due = {record[i].date}])
    /\ UNCHANGED <<record, report, crossed>>

Delete(c) ==
    LET k == held[c]
    IN  /\ step[c] = "remove"
        /\ IF k.id \notin Kept THEN Quit(c) /\ UNCHANGED <<record, crossed>>
           ELSE /\ record' = [record EXCEPT ![k.id] = Gone]
                /\ Change(c, {record[k.id].date})
        /\ UNCHANGED <<report, calls>>

(***************************************************************************)
(* afterFinanceMutation, syncFinanceDailyReport: one day after the other.  *)
(* `due` of a handler about to put is the day it read and those after it.  *)
(***************************************************************************)
SyncRead(c) ==
    /\ step[c] = "read"
    /\ \E d \in held[c].due :
          Put(c, "put", [held[c] EXCEPT !.bucket = Bucket(d), !.entry = [NoRecord EXCEPT !.date = d]])
    /\ UNCHANGED <<record, report, crossed, calls>>

Row(b) == IF \E f \in DOMAIN b : b[f] > 0 THEN b ELSE Zero

SyncPut(c) ==
    LET k == held[c]
        rest == k.due \ {k.entry.date}
    IN  /\ step[c] = "put"
        /\ report' = [report EXCEPT ![k.entry.date] = Row(k.bucket)]
        /\ IF rest = {} THEN Quit(c)
           ELSE Put(c, "read", [k EXCEPT !.due = rest, !.bucket = Zero, !.entry = NoRecord])
        /\ UNCHANGED <<record, crossed, calls>>

(***************************************************************************)
(* getProfitLossSummary: only a store without any report is rebuilt.       *)
(***************************************************************************)
SummaryStart(c) ==
    /\ Starts(c)
    /\ \A d \in Dates : report[d] = Zero
    /\ Put(c, "rebuild", [NoWork EXCEPT !.op = "summary"])
    /\ UNCHANGED <<record, report, crossed>>

Rebuild(c) ==
    /\ step[c] = "rebuild"
    /\ IF Kept = {} THEN Quit(c)
       ELSE Put(c, "read", [held[c] EXCEPT !.due = {record[i].date : i \in Kept}])
    /\ UNCHANGED <<record, report, crossed, calls>>

(***************************************************************************)
(* applyGenerateDailyRevenue: the day's till next to the takeaway that is  *)
(* there, then an upsert of both.                                          *)
(***************************************************************************)
Column(m) ==
    CASE m = "alipay"                     -> "alipay"
      [] m \in {"wechat", "member_scan"} -> "wechat"
      [] m = "balance"                    -> "balance"
      [] OTHER                            -> "cash"

(* What a column sold less what it refunded that day; what members paid    *)
(* from their balance came in when they recharged.                         *)
Generated(day) ==
    LET Of(l, col) == MapThenSumSet(LAMBDA m : l[m], {m \in DOMAIN l : Column(m) = col})
        Net(col)   == Max({0, Of(day.sold, col) - Of(day.refunded, col)})
    IN  Net("alipay") + Net("wechat") + Net("cash") + day.recharged

ExistingTakeaway(d) == MapThenSumSet(LAMBDA i : record[i].takeaway, Find("daily_revenue", d))

Preview(c, d) ==
    /\ Starts(c)
    /\ \E day \in Days :
          Put(c, "apply", [NoWork EXCEPT !.op = "generate",
              !.id = IF Find("daily_revenue", d) = {} THEN 0 ELSE Min(Find("daily_revenue", d)),
              !.entry = [NoRecord EXCEPT !.kind = "daily_revenue", !.date = d,
                                         !.till = Generated(day), !.takeaway = ExistingTakeaway(d)]])
    /\ UNCHANGED <<record, report, crossed>>

Apply(c) ==
    /\ step[c] = "apply"
    /\ Upsert(c, "generate", held[c].entry, held[c].id)
    /\ UNCHANGED <<record, report, crossed, calls>>

(* The process stops: nobody recomputes what was due.                      *)
Restart ==
    /\ \E c \in Clerks : step[c] # "idle"
    /\ crossed' = crossed \cup UNION {held[c].due : c \in {b \in Clerks : step[b] \in {"read", "put"}}}
    /\ step' = [c \in Clerks |-> "idle"]
    /\ held' = [c \in Clerks |-> NoWork]
    /\ UNCHANGED <<record, report, calls>>

FinanceNext ==
    \/ \E c \in Clerks :
          \/ \E e \in Entries, i \in 0..MaxRecords : Enter(c, e, i)
          \/ Create(c) \/ Move(c) \/ Update(c)
          \/ \E i \in Ids : RemoveStart(c, i)
          \/ Delete(c)
          \/ SyncRead(c) \/ SyncPut(c)
          \/ SummaryStart(c) \/ Rebuild(c)
          \/ \E d \in Dates : Preview(c, d)
          \/ Apply(c)
    \/ Restart

FinanceSpec == FinanceInit /\ [][FinanceNext]_financeVars

(***************************************************************************)
(* mergeLegacyOverhead: list shows the three kinds of a day as one row,    *)
(* taken in some order; the first one starts the row.                      *)
(***************************************************************************)
Overhead == {"monthly_overhead", "rent", "utilities"}

(* Mutant of Merge: a record of rent replaces what the row had.            *)
MergeReplaced(row, r) ==
    CASE r.kind = "rent"      -> [rent |-> r.amount, power |-> row.power]
      [] r.kind = "utilities" -> [rent |-> row.rent, power |-> row.power + r.amount]
      [] OTHER                -> [rent |-> row.rent + r.rent, power |-> row.power + r.power]

Merge(row, r) ==
    CASE r.kind = "rent"      -> [rent |-> row.rent + r.amount, power |-> row.power]
      [] r.kind = "utilities" -> [rent |-> row.rent, power |-> row.power + r.amount]
      [] OTHER                -> [rent |-> row.rent + r.rent, power |-> row.power + r.power]

ListedOverhead(rows) == FoldLeft(Merge, [rent |-> 0, power |-> 0], rows)

(* getDayDetail: one line per record, an income or an expense.             *)
DayDetail(d) ==
    LET Line(r) == CASE r.kind = "daily_revenue"    -> r.till + r.takeaway
                     [] r.kind = "monthly_overhead" -> -(r.rent + r.power)
                     [] OTHER                       -> -r.amount
    IN  MapThenSumSet(LAMBDA i : Line(record[i]), OfDay(d))

(* dailyRowExpenseCents                                                    *)
Expense(row) == row.ingredient_cost + row.rent_amount + row.electricity_amount

(* getProfitLossSummary: the columns of some days' reports summed, next to *)
(* a calendar (buildMonthlyCalendarFromDaily) that has each day's profit.  *)
Summary(ds) ==
    LET Of(f) == MapThenSumSet(LAMBDA d : report[d][f], ds)
    IN  Of("revenue") - (Of("ingredient_cost") + Of("rent_amount") + Of("electricity_amount"))

Calendar(ds) == [d \in ds |-> report[d].revenue - Expense(report[d])]
-----------------------------------------------------------------------------
(* Records and reports have the type of their columns; a kind of a day has *)
(* one record.                                                             *)
FinanceTypeOK ==
    /\ \A i \in Ids : record[i].kind \in Kinds \cup {"none", "gone"} /\ record[i].takeaway >= 0
    /\ \A i, j \in Kept : record[i].kind = record[j].kind /\ record[i].date = record[j].date => i = j
    /\ \A d \in Dates, f \in DOMAIN Zero : report[d][f] \in Nat
    /\ \A c \in Clerks : step[c] \in {"read", "put"} => held[c].due # {}

(* The report of a day is the sum of its records, or a handler is going to *)
(* make it so, or the day was changed under a handler that had read it, or *)
(* moved a record it had read elsewhere, or the process stopped.           *)
ReportExplained ==
    \A d \in Dates \ crossed :
        \/ report[d] = Bucket(d)
        \/ \E c \in Clerks : step[c] \in {"read", "put"} /\ d \in held[c].due

(* The report, the list and the detail of a day are three computations of  *)
(* the same sums, over old kinds of records and new ones; the summary of a *)
(* period is the sum of its calendar.                                      *)
SumsAgree ==
    /\ \A d \in Dates :
        LET b == Bucket(d)
            rows == {i \in OfDay(d) : record[i].kind \in Overhead}
        IN  /\ DayDetail(d) = b.revenue - b.ingredient_cost - b.rent_amount - b.electricity_amount
            /\ \A s \in SetToSeqs(rows) :
                  ListedOverhead([n \in DOMAIN s |-> record[s[n]]]) = [rent |-> b.rent_amount, power |-> b.electricity_amount]
    /\ \A ds \in SUBSET Dates : Summary(ds) = MapThenSumSet(LAMBDA d : Calendar(ds)[d], ds)

Takeaway(d) == MapThenSumSet(LAMBDA i : record[i].takeaway, Find("daily_revenue", d))

(* '覆盖系统三栏，保留外卖', in every step: a generation leaves the takeaway of its   *)
(* day as it is, unless someone else changed a record between its preview  *)
(* and its write.                                                          *)
TakeawayKept ==
    \A c \in Clerks, d \in Dates :
       /\ held[c].op = "generate" /\ ~held[c].met /\ held[c].entry.date = d
       /\ step[c] \in {"create", "move", "update"} /\ step'[c] = "read"
       => Takeaway(d)' = Takeaway(d)
=============================================================================

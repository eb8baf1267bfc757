--------------------------- MODULE ServiceBilling ---------------------------
(***************************************************************************)
(* Subscriptions of one store to one service plan, their invoices and      *)
(* payments, and the daily billing job (StoreServiceService and            *)
(* StoreServiceBillingCronService).                                        *)
(*                                                                         *)
(* No handler but approve uses a transaction: every database call that     *)
(* writes is a step of its own, and a handler may die between two of them. *)
(* Time is counted in half months: an invoice falls due in the second half *)
(* of its month, a subscription lasts two ticks.  Rows are numbered as the *)
(* database numbers them, so a row's id is its index.                      *)
(***************************************************************************)
EXTENDS Integers, Sequences

CONSTANTS
    Reqs,               \* in-flight requests
    MaxSubscriptions,   \* max_subscriptions of the plan; 0: no limit
    StartDelays,        \* how far ahead, in ticks, start_date may lie
    LastTick,           \* bound: the last half month
    MaxRows,            \* bound: subscription rows
    MaxPayments,        \* bound: payment rows of an invoice
    MaxFailures         \* bound: billing runs that die

ASSUME BillingAssumption ==
    /\ MaxSubscriptions \in Nat
    /\ StartDelays \subseteq Nat
    /\ LastTick \in Nat
    /\ MaxRows \in Nat
    /\ MaxPayments \in Nat
    /\ MaxFailures \in Nat

VARIABLES
    now,            \* the half month it is
    subscription,   \* store_service_subscription rows
    invoice,        \* store_service_invoice rows with the count of their payments
    pc,             \* where each request is
    claim,          \* what it carries from its reads
    job,            \* the billing run: its step, its time, the subscriptions left
    failures        \* billing runs that died

books == <<subscription, invoice>>
vars  == <<now, subscription, invoice, pc, claim, job, failures>>

Ticks    == 0..LastTick
Month(t) == t \div 2

SubscriptionRow == [status : {"pending", "active", "terminated"}, start : Ticks,
                    end : 0..(LastTick + 2)]

InvoiceRow == [status : {"unpaid", "paid", "overdue"}, sub : 1..MaxRows, month : Nat,
               payments : 0..MaxPayments, by : {"signup", "job"}]

NewInvoice(s, m, by) ==
    [status |-> "unpaid", sub |-> s, month |-> m, payments |-> 0, by |-> by]

(* due_date is the 8th of the month.                                       *)
Due(i, t) == t > 2 * invoice[i].month

Claim   == [start : Ticks, id : Nat, end : 0..(LastTick + 2)]
NoClaim == [start |-> 0, id |-> 0, end |-> 0]
Steps   == {"idle", "counted", "subscribe", "bill", "pay", "mark", "terminate"}

NoJob == [step |-> "idle", at |-> 0, left |-> {}, sub |-> 0]

Init ==
    /\ now = 0
    /\ subscription = <<>>
    /\ invoice = <<>>
    /\ pc = [r \in Reqs |-> "idle"]
    /\ claim = [r \in Reqs |-> NoClaim]
    /\ job = NoJob
    /\ failures = 0

Goto(r, step, k) ==
    /\ pc' = [pc EXCEPT ![r] = step]
    /\ claim' = [claim EXCEPT ![r] = k]
    /\ UNCHANGED <<now, job, failures>>

Answer(r) == Goto(r, "idle", NoClaim)

(* A handler is done, and the nightly job too, long before a half month.   *)
Tick ==
    /\ now < LastTick
    /\ \A r \in Reqs : pc[r] = "idle"
    /\ job.step = "idle"
    /\ now' = now + 1
    /\ UNCHANGED <<subscription, invoice, pc, claim, job, failures>>

(***************************************************************************)
(* createSubscription: the limit, the month, then the rows one by one.     *)
(* The contract row comes with the subscription row and is signed with its *)
(* approval, in one transaction; it is left out.                           *)
(* The plan is on sale; updatePlanStatus only stops new subscriptions.     *)
(***************************************************************************)
BelowLimit == MaxSubscriptions = 0 \/ Len(subscription) < MaxSubscriptions

SubscribeCount(r) ==
    /\ pc[r] = "idle"
    /\ BelowLimit
    /\ \E d \in StartDelays :
          /\ now + d <= LastTick
          /\ Goto(r, "counted", [NoClaim EXCEPT !.start = now + d])
    /\ UNCHANGED books

TakenMonth(m) == \E s \in DOMAIN subscription : Month(subscription[s].start) = m

SubscribeMonth(r) ==
    /\ pc[r] = "counted"
    /\ IF TakenMonth(Month(claim[r].start)) THEN Answer(r) ELSE Goto(r, "subscribe", claim[r])
    /\ UNCHANGED books

SubscribeRow(r) ==
    /\ pc[r] = "subscribe"
    /\ Len(subscription) < MaxRows
    /\ subscription' = Append(subscription,
          [status |-> "pending", start |-> claim[r].start, end |-> claim[r].start + 2])
    /\ Goto(r, "bill", [claim[r] EXCEPT !.id = Len(subscription) + 1])
    /\ UNCHANGED invoice

SubscribeInvoice(r) ==
    /\ pc[r] = "bill"
    /\ invoice' = Append(invoice, NewInvoice(claim[r].id, Month(claim[r].start), "signup"))
    /\ Answer(r)
    /\ UNCHANGED subscription

(* approveSubscription: whatever its status, one transaction.              *)
Approve(s) ==
    /\ subscription' = [subscription EXCEPT ![s].status = "active"]
    /\ UNCHANGED <<now, invoice, pc, claim, job, failures>>

Earlier(a, b) == IF a < b THEN a ELSE b

TerminateRead(r) ==
    /\ pc[r] = "idle"
    /\ \E s \in DOMAIN subscription :
          /\ subscription[s].status = "active"
          /\ Goto(r, "terminate",
                  [NoClaim EXCEPT !.id = s, !.end = Earlier(now, subscription[s].end)])
    /\ UNCHANGED books

TerminateCommit(r) ==
    LET s == claim[r].id
    IN  /\ pc[r] = "terminate"
        /\ subscription' = [subscription EXCEPT
              ![s] = [status |-> "terminated", start |-> @.start, end |-> claim[r].end]]
        /\ Answer(r)
        /\ UNCHANGED invoice

(***************************************************************************)
(* payInvoice: the payment row, then the invoice.                          *)
(***************************************************************************)
PayRead(r) ==
    /\ pc[r] = "idle"
    /\ \E i \in DOMAIN invoice :
          /\ invoice[i].status # "paid"
          /\ Goto(r, "pay", [NoClaim EXCEPT !.id = i])
    /\ UNCHANGED books

Paid(i)     == [invoice EXCEPT ![i].status = "paid"]
Recorded(i) == [invoice EXCEPT ![i].payments = @ + 1]

(* Mutant of PayRecord: the invoice is marked before the payment is kept.  *)
PayRecordMarks(r) ==
    /\ pc[r] = "pay"
    /\ invoice' = Paid(claim[r].id)
    /\ Goto(r, "mark", claim[r])
    /\ UNCHANGED subscription

PayRecord(r) ==
    /\ pc[r] = "pay"
    /\ invoice[claim[r].id].payments < MaxPayments
    /\ invoice' = Recorded(claim[r].id)
    /\ Goto(r, "mark", claim[r])
    /\ UNCHANGED subscription

PayMark(r) ==
    /\ pc[r] = "mark"
    /\ invoice' = Paid(claim[r].id)
    /\ Answer(r)
    /\ UNCHANGED subscription

(* A database call of the request throws, or the process dies.             *)
Abort(r) ==
    /\ pc[r] # "idle"
    /\ Answer(r)
    /\ UNCHANGED books

(***************************************************************************)
(* generateMonthlyInvoices: the active subscriptions are read once, then   *)
(* each is looked up and billed, then unpaid invoices fall overdue.        *)
(***************************************************************************)
(* Mutant of Current: the end date is not looked at.                       *)
CurrentForever(s) == subscription[s].status = "active" /\ subscription[s].start <= now

Current(s) ==
    /\ subscription[s].status = "active"
    /\ subscription[s].start <= now
    /\ now <= subscription[s].end

JobIs(j) == job' = j /\ UNCHANGED <<now, pc, claim, failures>>

JobStart ==
    /\ job.step = "idle"
    /\ JobIs([step |-> "check", at |-> now, left |-> {s \in DOMAIN subscription : Current(s)},
              sub |-> 0])
    /\ UNCHANGED books

(* Mutant of Billed: only unpaid invoices are looked for.                  *)
BilledUnpaid(s) ==
    \E i \in DOMAIN invoice :
        invoice[i].sub = s /\ invoice[i].month = Month(job.at) /\ invoice[i].status = "unpaid"

Billed(s) == \E i \in DOMAIN invoice : invoice[i].sub = s /\ invoice[i].month = Month(job.at)

JobCheck ==
    /\ job.step = "check"
    /\ \E s \in job.left :
          /\ \A t \in job.left : s <= t
          /\ JobIs([step |-> IF Billed(s) THEN "check" ELSE "bill", at |-> job.at,
                    left |-> job.left \ {s}, sub |-> s])
    /\ UNCHANGED books

JobBill ==
    /\ job.step = "bill"
    /\ invoice' = Append(invoice, NewInvoice(job.sub, Month(job.at), "job"))
    /\ JobIs([step |-> "check", at |-> job.at, left |-> job.left, sub |-> 0])
    /\ UNCHANGED subscription

(* Mutant of JobOverdue: overdue invoices are marked only by a run that    *)
(* has someone to bill.                                                    *)
JobOverdueBilling ==
    /\ job.step = "check"
    /\ job.left = {}
    /\ invoice' = [i \in DOMAIN invoice |->
                      IF invoice[i].status = "unpaid" /\ Due(i, job.at) /\ job.sub # 0
                      THEN [invoice[i] EXCEPT !.status = "overdue"] ELSE invoice[i]]
    /\ JobIs(NoJob)
    /\ UNCHANGED subscription

JobOverdue ==
    /\ job.step = "check"
    /\ job.left = {}
    /\ invoice' = [i \in DOMAIN invoice |->
                      IF invoice[i].status = "unpaid" /\ Due(i, job.at)
                      THEN [invoice[i] EXCEPT !.status = "overdue"] ELSE invoice[i]]
    /\ JobIs(NoJob)
    /\ UNCHANGED subscription

JobFails ==
    /\ job.step # "idle"
    /\ failures < MaxFailures
    /\ job' = NoJob
    /\ failures' = failures + 1
    /\ UNCHANGED <<now, pc, claim, books>>

Job == JobStart \/ JobCheck \/ JobBill \/ JobOverdue

Handle(r) == \/ SubscribeCount(r) \/ SubscribeMonth(r) \/ SubscribeRow(r)
             \/ SubscribeInvoice(r)
             \/ TerminateRead(r) \/ TerminateCommit(r)
             \/ PayRead(r) \/ PayRecord(r) \/ PayMark(r) \/ Abort(r)

Next == \/ Tick
        \/ \E r \in Reqs : Handle(r)
        \/ \E s \in DOMAIN subscription : Approve(s)
        \/ Job
        \/ JobFails

(* The scheduler starts the job every night and node runs it to its end.   *)
Spec == Init /\ [][Next]_vars /\ WF_vars(Job)

-----------------------------------------------------------------------------
(* Every row has the type of its columns, and refers to rows that exist.   *)
TypeOK ==
    /\ now \in Ticks
    /\ subscription \in Seq(SubscriptionRow)
    /\ invoice \in Seq(InvoiceRow)
    /\ \A i \in DOMAIN invoice : invoice[i].sub \in DOMAIN subscription
    /\ pc \in [Reqs -> Steps]
    /\ claim \in [Reqs -> Claim]
    /\ job \in [step : {"idle", "check", "bill"}, at : Ticks, left : SUBSET DOMAIN subscription,
                sub : {0} \cup DOMAIN subscription]

(* An invoice shown paid has a payment row, wherever payInvoice dies: the  *)
(* payment is written first.                                               *)
PaidHasPayment == \A i \in DOMAIN invoice : invoice[i].status = "paid" => invoice[i].payments > 0

(* A paid invoice never falls back to overdue, although the job that marks *)
(* overdue invoices races the payment.                                     *)
PaidStays ==
    [][\A i \in DOMAIN invoice : invoice[i].status = "paid" => invoice'[i].status = "paid"]_vars

(* A paid invoice has its payment and stays paid, whatever dies or runs    *)
(* beside it.                                                              *)
PaymentsHold == [](TypeOK /\ PaidHasPayment) /\ PaidStays

(* The job bills a subscription once for a month, however often it runs or *)
(* dies half-way.  (A sign-up still in flight may add the second invoice.) *)
JobBillsOnce ==
    \A i, j \in DOMAIN invoice :
        (/\ invoice[i].by = "job" /\ invoice[j].by = "job"
         /\ invoice[i].sub = invoice[j].sub
         /\ invoice[i].month = invoice[j].month) => i = j

(* The job bills only months the subscription covers, even when it is      *)
(* terminated while the job runs or approved again afterwards.             *)
BilledWithinTerm ==
    \A i \in DOMAIN invoice : invoice[i].by = "job" =>
        LET s == subscription[invoice[i].sub]
        IN  Month(s.start) <= invoice[i].month /\ invoice[i].month <= Month(s.end)

(* No invoice stays unpaid past its due date: it is paid, or the job marks *)
(* it overdue, even if runs of the job die.                                *)
Outstanding == \E i \in DOMAIN invoice : invoice[i].status = "unpaid" /\ Due(i, now)

UnpaidGoesOverdue == Outstanding ~> ~Outstanding
=============================================================================

------------------------ MODULE ServiceBillingProofs ------------------------
(***************************************************************************)
(* Theorems about ServiceBilling, for any number of requests, rows,        *)
(* payments, failing runs of the billing job and half months.              *)
(***************************************************************************)
EXTENDS ServiceBilling, TLAPS

(***************************************************************************)
(* The inductive invariant.  What a request carries is still true of the   *)
(* rows when it uses it: rows are never deleted, and the end it will write *)
(* when it terminates a subscription is the one it would compute now.      *)
(***************************************************************************)
Carries(step, k) ==
    /\ step = "bill" => k.id \in DOMAIN subscription
    /\ step = "terminate" => /\ k.id \in DOMAIN subscription
                             /\ k.end = Earlier(now, subscription[k.id].end)
    /\ step = "pay"  => k.id \in DOMAIN invoice
    /\ step = "mark" => k.id \in DOMAIN invoice /\ invoice[k.id].payments > 0

Carried == \A r \in Reqs : Carries(pc[r], claim[r])

Covered(s, t) == subscription[s].start <= t /\ t <= subscription[s].end

JobBilled(s, m) ==
    \E i \in DOMAIN invoice :
        invoice[i].by = "job" /\ invoice[i].sub = s /\ invoice[i].month = m

(* The job works at one time of the clock, on subscriptions that cover it, *)
(* and has billed none that it is about to bill.                           *)
JobKnows ==
    /\ job.step # "idle" => /\ job.at = now
                            /\ \A s \in job.left : Covered(s, now)
    /\ job.step = "bill" => /\ job.sub \in DOMAIN subscription
                            /\ Covered(job.sub, now)
                            /\ ~JobBilled(job.sub, Month(now))

BilledSoFar == \A i \in DOMAIN invoice : invoice[i].by = "job" => invoice[i].month <= Month(now)

BillingInv ==
    /\ TypeOK
    /\ Len(subscription) <= MaxRows
    /\ PaidHasPayment
    /\ JobBillsOnce
    /\ BilledWithinTerm
    /\ Carried
    /\ JobKnows
    /\ BilledSoFar

(***************************************************************************)
(* Operators.                                                              *)
(***************************************************************************)
LEMMA MonthMonotonic ==
  ASSUME NEW a \in Nat, NEW b \in Nat, a <= b
  PROVE  Month(a) \in Nat /\ Month(b) \in Nat /\ Month(a) <= Month(b)
  BY DEF Month

LEMMA NoClaimTyped == NoClaim \in Claim
  BY BillingAssumption DEF NoClaim, Claim, Ticks

(* A new invoice is unpaid and keeps what it is given.                     *)
LEMMA NewInvoiceTyped ==
  ASSUME NEW s \in 1..MaxRows, NEW m \in Nat, NEW by \in {"signup", "job"}
  PROVE  /\ NewInvoice(s, m, by) \in InvoiceRow
         /\ NewInvoice(s, m, by).status = "unpaid"
         /\ NewInvoice(s, m, by).sub = s
         /\ NewInvoice(s, m, by).month = m
         /\ NewInvoice(s, m, by).by = by
  BY BillingAssumption DEF NewInvoice, InvoiceRow

LEMMA RowTypes ==
  ASSUME TypeOK
  PROVE  /\ now \in Nat
         /\ \A s \in DOMAIN subscription :
               subscription[s].start \in Nat /\ subscription[s].end \in Nat
         /\ \A i \in DOMAIN invoice :
               invoice[i].month \in Nat /\ invoice[i].payments \in Nat
  <1>1. now \in Nat
    BY BillingAssumption DEF TypeOK, Ticks
  <1>2. ASSUME NEW s \in DOMAIN subscription
        PROVE  subscription[s].start \in Nat /\ subscription[s].end \in Nat
    <2>1. subscription[s] \in SubscriptionRow
      BY DEF TypeOK
    <2>2. QED
      BY <2>1, BillingAssumption DEF SubscriptionRow, Ticks
  <1>3. ASSUME NEW i \in DOMAIN invoice
        PROVE  invoice[i].month \in Nat /\ invoice[i].payments \in Nat
    <2>1. invoice[i] \in InvoiceRow
      BY DEF TypeOK
    <2>2. QED
      BY <2>1, BillingAssumption DEF InvoiceRow
  <1>4. QED
    BY <1>1, <1>2, <1>3

LEMMA InitInv == Init => BillingInv
  BY BillingAssumption, NoClaimTyped
     DEF Init, BillingInv, TypeOK, PaidHasPayment, JobBillsOnce, BilledWithinTerm, Carried,
         Carries, JobKnows, BilledSoFar, NoJob, Ticks, Steps

(***************************************************************************)
(* Steps of a request that leave the rows alone.                           *)
(***************************************************************************)
LEMMA MoveInv ==
  ASSUME BillingInv, NEW r \in Reqs, NEW step \in Steps, NEW k \in Claim,
         Carries(step, k), Goto(r, step, k), UNCHANGED books
  PROVE  BillingInv'
  <1>1. UNCHANGED <<now, job, subscription, invoice>>
    BY DEF Goto, books
  <1>2. /\ pc' = [pc EXCEPT ![r] = step]
        /\ claim' = [claim EXCEPT ![r] = k]
    BY DEF Goto
  <1>3. TypeOK'
    BY <1>1, <1>2 DEF BillingInv, TypeOK
  <1>4. Carried'
    <2> SUFFICES ASSUME NEW q \in Reqs
                 PROVE  Carries(pc[q], claim[q])'
      BY DEF Carried
    <2>1. CASE q = r
      BY <2>1, <1>1, <1>2 DEF BillingInv, TypeOK, Carries
    <2>2. CASE q # r
      BY <2>2, <1>1, <1>2 DEF BillingInv, TypeOK, Carried, Carries
    <2>3. QED
      BY <2>1, <2>2
  <1>5. (PaidHasPayment /\ JobBillsOnce /\ BilledWithinTerm /\ JobKnows /\ BilledSoFar)'
    BY <1>1 DEF BillingInv, PaidHasPayment, JobBillsOnce, BilledWithinTerm, JobKnows,
                BilledSoFar, Covered, JobBilled
  <1>6. QED
    BY <1>1, <1>3, <1>4, <1>5 DEF BillingInv

LEMMA AnswerInv ==
  ASSUME BillingInv, NEW r \in Reqs, Answer(r), UNCHANGED books
  PROVE  BillingInv'
  <1>1. Carries("idle", NoClaim)
    BY DEF Carries
  <1>2. QED
    BY <1>1, NoClaimTyped, MoveInv DEF Answer, Steps

(***************************************************************************)
(* Steps that write.  Rows are only appended or changed in place: they     *)
(* keep what a bill is for, payments are only added, and an end date is    *)
(* only moved to the present.                                              *)
(***************************************************************************)
RowsGrow ==
    /\ DOMAIN subscription \subseteq DOMAIN subscription'
    /\ \A s \in DOMAIN subscription :
          Earlier(now, subscription'[s].end) = Earlier(now, subscription[s].end)
    /\ DOMAIN invoice \subseteq DOMAIN invoice'
    /\ \A i \in DOMAIN invoice : invoice'[i].payments >= invoice[i].payments

LEMMA CarriesOn ==
  ASSUME TypeOK, TypeOK', RowsGrow, UNCHANGED now, NEW step, NEW k, Carries(step, k)
  PROVE  Carries(step, k)'
  <1>1. \A i \in DOMAIN invoice : invoice[i].payments \in Int /\ invoice'[i].payments \in Int
    <2> SUFFICES ASSUME NEW i \in DOMAIN invoice
                 PROVE  invoice[i].payments \in Int /\ invoice'[i].payments \in Int
      OBVIOUS
    <2>1. invoice[i] \in InvoiceRow /\ invoice'[i] \in InvoiceRow
      BY DEF TypeOK, RowsGrow
    <2>2. QED
      BY <2>1, BillingAssumption DEF InvoiceRow
  <1>2. QED
    BY <1>1 DEF Carries, RowsGrow

LEMMA CarriedOn ==
  ASSUME TypeOK, TypeOK', RowsGrow, UNCHANGED <<now, pc, claim>>, Carried
  PROVE  Carried'
  BY CarriesOn DEF Carried

LEMMA GotoCarried ==
  ASSUME TypeOK, TypeOK', RowsGrow, Carried, NEW r \in Reqs, NEW step, NEW k,
         Goto(r, step, k), Carries(step, k)'
  PROVE  Carried'
  <1>1. /\ pc' = [pc EXCEPT ![r] = step]
        /\ claim' = [claim EXCEPT ![r] = k]
        /\ UNCHANGED now
    BY DEF Goto
  <1> SUFFICES ASSUME NEW q \in Reqs
               PROVE  Carries(pc[q], claim[q])'
    BY DEF Carried
  <1>2. CASE q = r
    BY <1>1, <1>2 DEF TypeOK, Carries
  <1>3. CASE q # r
    <2>1. PICK st, c : st = pc[q] /\ c = claim[q]
      OBVIOUS
    <2>2. Carries(st, c)
      BY <2>1 DEF Carried
    <2>3. Carries(st, c)'
      BY <2>2, <1>1, CarriesOn
    <2>4. pc'[q] = st /\ claim'[q] = c
      BY <2>1, <1>1, <1>3 DEF TypeOK
    <2>5. QED
      BY <2>3, <2>4 DEF Carries
  <1>4. QED
    BY <1>2, <1>3

(* Invoices changed in place, subscriptions and time untouched: what was   *)
(* billed, and for which term, stays.                                      *)
SameBills ==
    /\ DOMAIN invoice' = DOMAIN invoice
    /\ \A i \in DOMAIN invoice :
          /\ invoice'[i].sub = invoice[i].sub
          /\ invoice'[i].month = invoice[i].month
          /\ invoice'[i].by = invoice[i].by

LEMMA SameBillsInv ==
  ASSUME BillingInv, SameBills, UNCHANGED <<now, subscription>>
  PROVE  (JobBillsOnce /\ BilledWithinTerm /\ BilledSoFar)'
  BY DEF SameBills, BillingInv, JobBillsOnce, BilledWithinTerm, BilledSoFar

(* An invoice appended for a subscription that has a row.                  *)
LEMMA AppendedInvoice ==
  ASSUME BillingInv, NEW s \in DOMAIN subscription, NEW m \in Nat,
         NEW by \in {"signup", "job"},
         by = "job" => ~JobBilled(s, m) /\ m = Month(now) /\ Covered(s, now),
         invoice' = Append(invoice, NewInvoice(s, m, by)), UNCHANGED <<now, subscription>>
  PROVE  /\ invoice' \in Seq(InvoiceRow)
         /\ \A i \in DOMAIN invoice' : invoice'[i].sub \in DOMAIN subscription
         /\ DOMAIN invoice \subseteq DOMAIN invoice'
         /\ \A i \in DOMAIN invoice : invoice'[i] = invoice[i]
         /\ (PaidHasPayment /\ JobBillsOnce /\ BilledWithinTerm /\ BilledSoFar)'
  <1> DEFINE new == NewInvoice(s, m, by)
             n   == Len(invoice) + 1
  <1>1. s \in 1..MaxRows
    BY BillingAssumption DEF BillingInv, TypeOK
  <1>2. new \in InvoiceRow /\ new.status = "unpaid" /\ new.sub = s /\ new.month = m /\ new.by = by
    BY <1>1, NewInvoiceTyped
  <1> HIDE DEF new
  <1>3. invoice \in Seq(InvoiceRow) /\ Len(invoice) \in Nat
    BY DEF BillingInv, TypeOK
  <1>4. /\ invoice' \in Seq(InvoiceRow)
        /\ DOMAIN invoice' = DOMAIN invoice \cup {n}
        /\ n \notin DOMAIN invoice
        /\ invoice'[n] = new
        /\ \A i \in DOMAIN invoice : invoice'[i] = invoice[i]
    BY <1>2, <1>3 DEF new
  <1> HIDE DEF n
  <1>5. \A i \in DOMAIN invoice' : invoice'[i].sub \in DOMAIN subscription
    BY <1>2, <1>4 DEF BillingInv, TypeOK
  <1>6. PaidHasPayment'
    BY <1>2, <1>4 DEF BillingInv, PaidHasPayment
  <1>7. JobBillsOnce'
    BY <1>2, <1>4 DEF BillingInv, JobBillsOnce, JobBilled
  <1>8. subscription[s].start \in Nat /\ subscription[s].end \in Nat /\ now \in Nat
    BY RowTypes DEF BillingInv
  <1>9. BilledWithinTerm'
    <2> SUFFICES ASSUME NEW i \in DOMAIN invoice', invoice'[i].by = "job"
                 PROVE  LET t == subscription[invoice'[i].sub]
                        IN  Month(t.start) <= invoice'[i].month /\ invoice'[i].month <= Month(t.end)
      BY DEF BilledWithinTerm
    <2>1. CASE i = n
      BY <2>1, <1>2, <1>4, <1>8, MonthMonotonic DEF Covered
    <2>2. CASE i \in DOMAIN invoice
      BY <2>2, <1>4 DEF BillingInv, BilledWithinTerm
    <2>3. QED
      BY <2>1, <2>2, <1>4
  <1>10. BilledSoFar'
    <2>1. Month(now) <= Month(now)
      BY <1>8, MonthMonotonic
    <2>2. QED
      BY <2>1, <1>2, <1>4 DEF BillingInv, BilledSoFar
  <1>11. QED
    BY <1>4, <1>5, <1>6, <1>7, <1>9, <1>10

(***************************************************************************)
(* The actions.                                                            *)
(***************************************************************************)
LEMMA TickInv == ASSUME BillingInv, Tick PROVE BillingInv'
  <1>1. now \in Nat /\ now' = now + 1 /\ now' \in Ticks /\ now < now'
    BY BillingAssumption DEF Tick, BillingInv, TypeOK, Ticks
  <1>2. UNCHANGED <<subscription, invoice, pc, claim, job>>
    BY DEF Tick
  <1>3. TypeOK'
    BY <1>1, <1>2 DEF BillingInv, TypeOK
  <1>4. Carried'
    BY <1>2 DEF Tick, Carried, Carries
  <1>5. JobKnows'
    BY <1>2 DEF Tick, JobKnows
  <1>6. BilledSoFar'
    <2>1. Month(now) \in Nat /\ Month(now') \in Nat /\ Month(now) <= Month(now')
      BY <1>1, MonthMonotonic
    <2> SUFFICES ASSUME NEW i \in DOMAIN invoice, invoice[i].by = "job"
                 PROVE  invoice[i].month <= Month(now')
      BY <1>2 DEF BilledSoFar, Month
    <2>2. invoice[i].month \in Nat
      BY RowTypes DEF BillingInv
    <2>3. QED
      BY <2>1, <2>2 DEF BillingInv, BilledSoFar
  <1>7. QED
    BY <1>2, <1>3, <1>4, <1>5, <1>6
       DEF BillingInv, PaidHasPayment, JobBillsOnce, BilledWithinTerm

LEMMA SubscribeReadInv ==
  ASSUME BillingInv, NEW r \in Reqs, SubscribeCount(r) \/ SubscribeMonth(r)
  PROVE  BillingInv'
  <1>1. CASE SubscribeCount(r)
    <2>1. PICK d \in StartDelays :
             /\ now + d <= LastTick
             /\ Goto(r, "counted", [NoClaim EXCEPT !.start = now + d])
      BY <1>1 DEF SubscribeCount
    <2>2. [NoClaim EXCEPT !.start = now + d] \in Claim
      <3>1. now + d \in Ticks
        BY <2>1, RowTypes, BillingAssumption DEF BillingInv, Ticks
      <3>2. QED
        BY <3>1, NoClaimTyped DEF Claim
    <2>3. Carries("counted", [NoClaim EXCEPT !.start = now + d])
      BY DEF Carries
    <2>4. QED
      BY <1>1, <2>1, <2>2, <2>3, MoveInv DEF SubscribeCount, Steps
  <1>2. CASE SubscribeMonth(r)
    <2>1. claim[r] \in Claim
      BY DEF BillingInv, TypeOK
    <2>2. Carries("subscribe", claim[r])
      BY DEF Carries
    <2>3. QED
      BY <1>2, <2>1, <2>2, MoveInv, AnswerInv DEF SubscribeMonth, Steps
  <1>3. QED
    BY <1>1, <1>2

LEMMA SubscribeRowInv ==
  ASSUME BillingInv, NEW r \in Reqs, SubscribeRow(r)
  PROVE  BillingInv'
  <1> DEFINE row == [status |-> "pending", start |-> claim[r].start, end |-> claim[r].start + 2]
             n   == Len(subscription) + 1
  <1>1. claim[r] \in Claim /\ subscription \in Seq(SubscriptionRow) /\ Len(subscription) \in Nat
    BY DEF BillingInv, TypeOK
  <1>2. PICK k \in Claim : k = [claim[r] EXCEPT !.id = n] /\ k.id = n
    <2>1. n \in Nat
      BY <1>1
    <2> HIDE DEF n
    <2>2. [claim[r] EXCEPT !.id = n] \in Claim
      BY <1>1, <2>1 DEF Claim
    <2>3. [claim[r] EXCEPT !.id = n].id = n
      BY <1>1 DEF Claim
    <2>4. QED
      BY <2>2, <2>3
  <1>13. row \in SubscriptionRow
    <2>1. claim[r].start \in 0..LastTick
      BY <1>1 DEF Claim, Ticks
    <2>2. claim[r].start + 2 \in 0..(LastTick + 2)
      BY <2>1, BillingAssumption
    <2>3. QED
      BY <2>1, <2>2 DEF SubscriptionRow, Ticks
  <1>3. /\ subscription' = Append(subscription, row)
        /\ Goto(r, "bill", k)
        /\ UNCHANGED <<invoice, now, job>>
    BY <1>2 DEF SubscribeRow, Goto
  <1> HIDE DEF row
  <1>4. /\ subscription' \in Seq(SubscriptionRow)
        /\ DOMAIN subscription' = DOMAIN subscription \cup {n}
        /\ \A s \in DOMAIN subscription : subscription'[s] = subscription[s]
        /\ Len(subscription') = n
    BY <1>1, <1>3, <1>13
  <1>5. Len(subscription') <= MaxRows
    BY <1>1, <1>4, BillingAssumption DEF SubscribeRow
  <1>6. TypeOK'
    <2>1. pc' \in [Reqs -> Steps] /\ claim' \in [Reqs -> Claim]
      BY <1>2, <1>3 DEF Goto, BillingInv, TypeOK, Steps
    <2>2. QED
      BY <2>1, <1>3, <1>4 DEF BillingInv, TypeOK
  <1>7. RowsGrow
    <2>1. \A i \in DOMAIN invoice : invoice[i].payments \in Int
      BY RowTypes DEF BillingInv
    <2>2. QED
      BY <2>1, <1>3, <1>4 DEF RowsGrow
  <1>8. Carried'
    <2>1. Carries("bill", k)'
      BY <1>2, <1>3, <1>4 DEF Carries
    <2>2. QED
      BY <2>1, <1>3, <1>6, <1>7, GotoCarried DEF BillingInv
  <1>9. JobKnows'
    <2>1. job.left \subseteq DOMAIN subscription
      BY DEF BillingInv, TypeOK
    <2>2. QED
      BY <2>1, <1>3, <1>4 DEF BillingInv, JobKnows, Covered, JobBilled
  <1>10. (PaidHasPayment /\ JobBillsOnce /\ BilledSoFar)'
    BY <1>3 DEF BillingInv, PaidHasPayment, JobBillsOnce, BilledSoFar
  <1>11. BilledWithinTerm'
    <2>1. \A i \in DOMAIN invoice : invoice[i].sub \in DOMAIN subscription
      BY DEF BillingInv, TypeOK
    <2>2. QED
      BY <2>1, <1>3, <1>4 DEF BillingInv, BilledWithinTerm
  <1>12. QED
    BY <1>5, <1>6, <1>8, <1>9, <1>10, <1>11 DEF BillingInv

LEMMA SubscribeInvoiceInv ==
  ASSUME BillingInv, NEW r \in Reqs, SubscribeInvoice(r)
  PROVE  BillingInv'
  <1>1. PICK s, m : s = claim[r].id /\ m = Month(claim[r].start)
    OBVIOUS
  <1>2. s \in DOMAIN subscription /\ m \in Nat
    <2>1. claim[r] \in Claim /\ Carries("bill", claim[r])
      BY DEF BillingInv, TypeOK, Carried, SubscribeInvoice
    <2>2. claim[r].start \in Nat
      BY <2>1, BillingAssumption DEF Claim, Ticks
    <2>3. QED
      BY <1>1, <2>1, <2>2, MonthMonotonic DEF Carries
  <1>3. /\ invoice' = Append(invoice, NewInvoice(s, m, "signup"))
        /\ Answer(r)
        /\ UNCHANGED <<now, subscription, job>>
    BY <1>1 DEF SubscribeInvoice, Answer, Goto
  <1>4. /\ invoice' \in Seq(InvoiceRow)
        /\ \A i \in DOMAIN invoice' : invoice'[i].sub \in DOMAIN subscription
        /\ DOMAIN invoice \subseteq DOMAIN invoice'
        /\ \A i \in DOMAIN invoice : invoice'[i] = invoice[i]
        /\ (PaidHasPayment /\ JobBillsOnce /\ BilledWithinTerm /\ BilledSoFar)'
    BY <1>2, <1>3, AppendedInvoice
  <1>5. TypeOK'
    <2>1. pc' \in [Reqs -> Steps] /\ claim' \in [Reqs -> Claim]
      BY <1>3, NoClaimTyped DEF Answer, Goto, BillingInv, TypeOK, Steps
    <2>2. QED
      BY <2>1, <1>3, <1>4 DEF BillingInv, TypeOK
  <1>6. Carried'
    <2>1. RowsGrow
      BY <1>3, <1>4, RowTypes DEF BillingInv, RowsGrow
    <2>2. Carries("idle", NoClaim)'
      BY DEF Carries
    <2>3. QED
      BY <2>1, <2>2, <1>3, <1>5, GotoCarried DEF BillingInv, Answer
  <1>7. JobKnows'
    <2>1. PICK t, n : t = job.sub /\ n = Month(now)
      OBVIOUS
    <2>2. JobBilled(t, n)' => JobBilled(t, n)
      BY <1>1, <1>2, <1>3, NewInvoiceTyped, BillingAssumption
         DEF JobBilled, BillingInv, TypeOK, NewInvoice
    <2>3. job.step = "bill" => ~JobBilled(t, n)'
      BY <2>1, <2>2 DEF BillingInv, JobKnows
    <2>4. t = job.sub' /\ n = Month(now')
      BY <2>1, <1>3
    <2>5. (job.step = "bill" => ~JobBilled(job.sub, Month(now)))'
      BY <2>3, <2>4, <1>3 DEF JobBilled
    <2>6. QED
      BY <2>5, <1>3 DEF BillingInv, JobKnows, Covered
  <1>8. QED
    BY <1>3, <1>4, <1>5, <1>6, <1>7 DEF BillingInv

(* A subscription's status, and an end date moved to the present.          *)
LEMMA ChangedSubscription ==
  ASSUME BillingInv, NEW s \in DOMAIN subscription, NEW row \in SubscriptionRow,
         row.start = subscription[s].start,
         row.end \in {subscription[s].end, Earlier(now, subscription[s].end)},
         subscription' = [subscription EXCEPT ![s] = row], UNCHANGED <<now, invoice, job>>
  PROVE  /\ subscription' \in Seq(SubscriptionRow)
         /\ Len(subscription') = Len(subscription)
         /\ DOMAIN subscription' = DOMAIN subscription
         /\ RowsGrow
         /\ BilledWithinTerm'
         /\ JobKnows'
  <1>1. /\ subscription \in Seq(SubscriptionRow)
        /\ subscription' \in Seq(SubscriptionRow)
        /\ Len(subscription') = Len(subscription)
        /\ DOMAIN subscription' = DOMAIN subscription
        /\ subscription'[s] = row
        /\ \A t \in DOMAIN subscription : t # s => subscription'[t] = subscription[t]
    BY DEF BillingInv, TypeOK
  <1>2. PICK e : e = row.end
    OBVIOUS
  <1>3. /\ now \in Nat
        /\ subscription[s].end \in Nat
        /\ e \in {subscription[s].end, Earlier(now, subscription[s].end)}
        /\ e \in Nat
    BY <1>2, RowTypes DEF BillingInv, Earlier
  <1>4. \A t \in DOMAIN subscription : subscription'[t].start = subscription[t].start
    BY <1>1
  <1>5. RowsGrow
    <2>1. Earlier(now, e) = Earlier(now, subscription[s].end)
      BY <1>3 DEF Earlier
    <2>2. QED
      BY <2>1, <1>1, <1>2, RowTypes DEF BillingInv, RowsGrow
  <1>6. ASSUME NEW t \in DOMAIN subscription, Covered(t, now)
        PROVE  Covered(t, now)'
    <2>1. CASE t = s
      BY <2>1, <1>1, <1>2, <1>3, <1>6, RowTypes DEF BillingInv, Covered, Earlier
    <2>2. CASE t # s
      BY <2>2, <1>1, <1>6 DEF Covered
    <2>3. QED
      BY <2>1, <2>2
  <1>7. JobKnows'
    <2>1. job.left \subseteq DOMAIN subscription
      BY DEF BillingInv, TypeOK
    <2>2. PICK t : t = job.sub
      OBVIOUS
    <2>3. QED
      BY <2>1, <2>2, <1>1, <1>6 DEF BillingInv, JobKnows, JobBilled, Covered
  <1>8. BilledWithinTerm'
    <2> SUFFICES ASSUME NEW i \in DOMAIN invoice, invoice[i].by = "job"
                 PROVE  LET t == subscription'[invoice[i].sub]
                        IN  Month(t.start) <= invoice[i].month /\ invoice[i].month <= Month(t.end)
      BY DEF BilledWithinTerm, Month
    <2>1. /\ invoice[i].sub \in DOMAIN subscription
          /\ invoice[i].month \in Nat
          /\ invoice[i].month <= Month(now)
      BY RowTypes DEF BillingInv, TypeOK, BilledSoFar
    <2>2. LET t == subscription[invoice[i].sub]
          IN  Month(t.start) <= invoice[i].month /\ invoice[i].month <= Month(t.end)
      BY DEF BillingInv, BilledWithinTerm
    <2>3. CASE invoice[i].sub = s
      BY <2>1, <2>2, <2>3, <1>1, <1>2, <1>3 DEF Earlier
    <2>4. CASE invoice[i].sub # s
      BY <2>1, <2>2, <2>4, <1>1
    <2>5. QED
      BY <2>3, <2>4
  <1>9. QED
    BY <1>1, <1>5, <1>7, <1>8

LEMMA ApproveInv ==
  ASSUME BillingInv, NEW s \in DOMAIN subscription, Approve(s)
  PROVE  BillingInv'
  <1>1. subscription[s] \in SubscriptionRow /\ subscription \in Seq(SubscriptionRow)
    BY DEF BillingInv, TypeOK
  <1>2. PICK row \in SubscriptionRow : /\ row = [subscription[s] EXCEPT !.status = "active"]
                                       /\ row.start = subscription[s].start
                                       /\ row.end = subscription[s].end
    <2>1. [subscription[s] EXCEPT !.status = "active"] \in SubscriptionRow
      BY <1>1 DEF SubscriptionRow
    <2>2. /\ [subscription[s] EXCEPT !.status = "active"].start = subscription[s].start
          /\ [subscription[s] EXCEPT !.status = "active"].end = subscription[s].end
      BY <1>1 DEF SubscriptionRow
    <2>3. QED
      BY <2>1, <2>2
  <1>3. /\ subscription' = [subscription EXCEPT ![s] = row]
        /\ UNCHANGED <<now, invoice, pc, claim, job>>
    BY <1>1, <1>2 DEF Approve
  <1>4. /\ subscription' \in Seq(SubscriptionRow)
        /\ Len(subscription') = Len(subscription)
        /\ DOMAIN subscription' = DOMAIN subscription
        /\ RowsGrow /\ BilledWithinTerm' /\ JobKnows'
    BY <1>2, <1>3, ChangedSubscription
  <1>5. TypeOK'
    BY <1>3, <1>4 DEF BillingInv, TypeOK
  <1>6. QED
    BY <1>3, <1>4, <1>5, CarriedOn DEF BillingInv, PaidHasPayment, JobBillsOnce, BilledSoFar

LEMMA TerminateReadInv ==
  ASSUME BillingInv, NEW r \in Reqs, TerminateRead(r)
  PROVE  BillingInv'
  <1>1. PICK s \in DOMAIN subscription :
           Goto(r, "terminate", [NoClaim EXCEPT !.id = s, !.end = Earlier(now, subscription[s].end)])
    BY DEF TerminateRead
  <1>2. PICK e : e = Earlier(now, subscription[s].end)
    OBVIOUS
  <1>3. PICK k : k = [NoClaim EXCEPT !.id = s, !.end = e]
    OBVIOUS
  <1>4. e \in 0..(LastTick + 2)
    <2>1. now \in 0..LastTick /\ subscription[s] \in SubscriptionRow
      BY DEF BillingInv, TypeOK, Ticks
    <2>2. subscription[s].end \in 0..(LastTick + 2)
      BY <2>1 DEF SubscriptionRow
    <2>3. QED
      BY <2>1, <2>2, <1>2, BillingAssumption DEF Earlier
  <1>5. k \in Claim /\ k.id = s /\ k.end = e
    <2>1. s \in Nat
      BY DEF BillingInv, TypeOK
    <2>2. k = [start |-> 0, id |-> s, end |-> e]
      BY <1>3 DEF NoClaim
    <2>3. QED
      BY <2>1, <2>2, <1>4, BillingAssumption DEF Claim, Ticks
  <1>6. Carries("terminate", k)
    BY <1>2, <1>5 DEF Carries
  <1>7. Goto(r, "terminate", k)
    BY <1>1, <1>2, <1>3
  <1>8. QED
    BY <1>5, <1>6, <1>7, MoveInv DEF TerminateRead, Steps

LEMMA TerminateCommitInv ==
  ASSUME BillingInv, NEW r \in Reqs, TerminateCommit(r)
  PROVE  BillingInv'
  <1>1. PICK s, e : s = claim[r].id /\ e = claim[r].end
    OBVIOUS
  <1>2. /\ s \in DOMAIN subscription
        /\ e = Earlier(now, subscription[s].end)
        /\ e \in 0..(LastTick + 2)
    BY <1>1 DEF TerminateCommit, BillingInv, TypeOK, Carried, Carries, Claim
  <1>3. PICK row : row = [status |-> "terminated", start |-> subscription[s].start, end |-> e]
    OBVIOUS
  <1>4. row \in SubscriptionRow /\ row.start = subscription[s].start /\ row.end = e
    <2>1. subscription[s] \in SubscriptionRow
      BY <1>2 DEF BillingInv, TypeOK
    <2>2. subscription[s].start \in Ticks
      BY <2>1 DEF SubscriptionRow
    <2>3. QED
      BY <2>2, <1>2, <1>3 DEF SubscriptionRow
  <1>5. /\ subscription' = [subscription EXCEPT ![s] = row]
        /\ Answer(r)
        /\ UNCHANGED <<now, invoice, job>>
    BY <1>1, <1>2, <1>3 DEF TerminateCommit, Answer, Goto, BillingInv, TypeOK
  <1>6. /\ subscription' \in Seq(SubscriptionRow)
        /\ Len(subscription') = Len(subscription)
        /\ DOMAIN subscription' = DOMAIN subscription
        /\ RowsGrow /\ BilledWithinTerm' /\ JobKnows'
    BY <1>2, <1>4, <1>5, ChangedSubscription
  <1>7. TypeOK'
    <2>1. pc' \in [Reqs -> Steps] /\ claim' \in [Reqs -> Claim]
      BY <1>5, NoClaimTyped DEF Answer, Goto, BillingInv, TypeOK, Steps
    <2>2. QED
      BY <2>1, <1>5, <1>6 DEF BillingInv, TypeOK
  <1>8. Carried'
    <2>1. Carries("idle", NoClaim)'
      BY DEF Carries
    <2>2. QED
      BY <2>1, <1>5, <1>6, <1>7, GotoCarried DEF BillingInv, Answer
  <1>9. QED
    BY <1>5, <1>6, <1>7, <1>8 DEF BillingInv, PaidHasPayment, JobBillsOnce, BilledSoFar

LEMMA PayReadInv ==
  ASSUME BillingInv, NEW r \in Reqs, PayRead(r)
  PROVE  BillingInv'
  <1>1. PICK i \in DOMAIN invoice : Goto(r, "pay", [NoClaim EXCEPT !.id = i])
    BY DEF PayRead
  <1>2. PICK k : k = [NoClaim EXCEPT !.id = i]
    OBVIOUS
  <1>3. k \in Claim /\ k.id = i
    <2>1. i \in Nat
      BY DEF BillingInv, TypeOK
    <2>2. k = [start |-> 0, id |-> i, end |-> 0]
      BY <1>2 DEF NoClaim
    <2>3. QED
      BY <2>1, <2>2, BillingAssumption DEF Claim, Ticks
  <1>4. Carries("pay", k)
    BY <1>3 DEF Carries
  <1>5. QED
    BY <1>1, <1>2, <1>3, <1>4, MoveInv DEF PayRead, Steps

LEMMA AbortInv ==
  ASSUME BillingInv, NEW r \in Reqs, Abort(r)
  PROVE  BillingInv'
  BY AnswerInv DEF Abort

(* An invoice marked, or counted a payment for.                            *)
LEMMA ChangedInvoice ==
  ASSUME BillingInv, NEW i \in DOMAIN invoice, NEW row \in InvoiceRow,
         row.sub = invoice[i].sub, row.month = invoice[i].month, row.by = invoice[i].by,
         row.payments >= invoice[i].payments, row.status = "paid" => row.payments > 0,
         invoice' = [invoice EXCEPT ![i] = row], UNCHANGED <<now, subscription, job>>
  PROVE  /\ invoice' \in Seq(InvoiceRow)
         /\ DOMAIN invoice' = DOMAIN invoice
         /\ invoice'[i] = row
         /\ \A j \in DOMAIN invoice' : invoice'[j].sub \in DOMAIN subscription
         /\ RowsGrow
         /\ (PaidHasPayment /\ JobBillsOnce /\ BilledWithinTerm /\ BilledSoFar /\ JobKnows)'
  <1>1. invoice \in Seq(InvoiceRow)
    BY DEF BillingInv, TypeOK
  <1>2. /\ invoice' \in Seq(InvoiceRow)
        /\ DOMAIN invoice' = DOMAIN invoice
        /\ invoice'[i] = row
        /\ \A j \in DOMAIN invoice : j # i => invoice'[j] = invoice[j]
    BY <1>1
  <1>3. SameBills
    BY <1>2 DEF SameBills
  <1>4. \A j \in DOMAIN invoice' : invoice'[j].sub \in DOMAIN subscription
    BY <1>3 DEF SameBills, BillingInv, TypeOK
  <1>5. RowsGrow
    BY <1>2, RowTypes DEF BillingInv, RowsGrow
  <1>6. PaidHasPayment'
    BY <1>2 DEF BillingInv, PaidHasPayment
  <1>7. JobKnows'
    BY <1>3 DEF SameBills, BillingInv, JobKnows, JobBilled, Covered
  <1>8. QED
    BY <1>2, <1>3, <1>4, <1>5, <1>6, <1>7, SameBillsInv

LEMMA PayRecordInv ==
  ASSUME BillingInv, NEW r \in Reqs, PayRecord(r)
  PROVE  BillingInv'
  <1>1. PICK i, k : i = claim[r].id /\ k = claim[r]
    OBVIOUS
  <1>2. i \in DOMAIN invoice /\ k \in Claim
    BY <1>1 DEF PayRecord, BillingInv, TypeOK, Carried, Carries
  <1>3. invoice[i] \in InvoiceRow /\ invoice[i].payments \in Nat /\ invoice[i].payments < MaxPayments
    BY <1>1, <1>2, RowTypes DEF PayRecord, BillingInv, TypeOK
  <1>4. PICK n : n = invoice[i].payments + 1
    OBVIOUS
  <1>5. n \in 0..MaxPayments /\ n > 0 /\ n >= invoice[i].payments
    BY <1>3, <1>4, BillingAssumption
  <1>6. PICK row \in InvoiceRow : row = [invoice[i] EXCEPT !.payments = n]
    BY <1>3, <1>5 DEF InvoiceRow
  <1>7. /\ row.sub = invoice[i].sub
        /\ row.month = invoice[i].month
        /\ row.by = invoice[i].by
        /\ row.payments = n
    BY <1>3, <1>6 DEF InvoiceRow
  <1>8. /\ invoice' = [invoice EXCEPT ![i] = row]
        /\ Goto(r, "mark", k)
        /\ UNCHANGED <<now, subscription, job>>
    BY <1>1, <1>2, <1>4, <1>6 DEF PayRecord, Recorded, Goto, BillingInv, TypeOK
  <1>9. /\ invoice' \in Seq(InvoiceRow)
        /\ DOMAIN invoice' = DOMAIN invoice
        /\ invoice'[i] = row
        /\ \A j \in DOMAIN invoice' : invoice'[j].sub \in DOMAIN subscription
        /\ RowsGrow
        /\ (PaidHasPayment /\ JobBillsOnce /\ BilledWithinTerm /\ BilledSoFar /\ JobKnows)'
    BY <1>2, <1>5, <1>7, <1>8, ChangedInvoice
  <1>10. TypeOK'
    <2>1. pc' \in [Reqs -> Steps] /\ claim' \in [Reqs -> Claim]
      BY <1>2, <1>8 DEF Goto, BillingInv, TypeOK, Steps
    <2>2. QED
      BY <2>1, <1>8, <1>9 DEF BillingInv, TypeOK
  <1>11. Carried'
    <2>1. Carries("mark", k)'
      BY <1>1, <1>2, <1>5, <1>7, <1>9 DEF Carries
    <2>2. QED
      BY <2>1, <1>8, <1>9, <1>10, GotoCarried DEF BillingInv
  <1>12. QED
    BY <1>8, <1>9, <1>10, <1>11 DEF BillingInv

LEMMA PayMarkInv ==
  ASSUME BillingInv, NEW r \in Reqs, PayMark(r)
  PROVE  BillingInv'
  <1>1. PICK i : i = claim[r].id
    OBVIOUS
  <1>2. i \in DOMAIN invoice /\ invoice[i].payments > 0
    BY <1>1 DEF PayMark, BillingInv, Carried, Carries
  <1>3. invoice[i] \in InvoiceRow /\ invoice[i].payments \in Nat
    BY <1>2, RowTypes DEF BillingInv, TypeOK
  <1>4. PICK row \in InvoiceRow : row = [invoice[i] EXCEPT !.status = "paid"]
    BY <1>3 DEF InvoiceRow
  <1>5. /\ row.sub = invoice[i].sub
        /\ row.month = invoice[i].month
        /\ row.by = invoice[i].by
        /\ row.payments = invoice[i].payments
    BY <1>3, <1>4 DEF InvoiceRow
  <1>6. /\ invoice' = [invoice EXCEPT ![i] = row]
        /\ Answer(r)
        /\ UNCHANGED <<now, subscription, job>>
    BY <1>1, <1>2, <1>4 DEF PayMark, Paid, Answer, Goto, BillingInv, TypeOK
  <1>7. /\ invoice' \in Seq(InvoiceRow)
        /\ \A j \in DOMAIN invoice' : invoice'[j].sub \in DOMAIN subscription
        /\ RowsGrow
        /\ (PaidHasPayment /\ JobBillsOnce /\ BilledWithinTerm /\ BilledSoFar /\ JobKnows)'
    <2>1. row.payments >= invoice[i].payments /\ row.payments > 0
      BY <1>2, <1>3, <1>5
    <2>2. QED
      BY <2>1, <1>2, <1>5, <1>6, ChangedInvoice
  <1>8. TypeOK'
    <2>1. pc' \in [Reqs -> Steps] /\ claim' \in [Reqs -> Claim]
      BY <1>6, NoClaimTyped DEF Answer, Goto, BillingInv, TypeOK, Steps
    <2>2. QED
      BY <2>1, <1>6, <1>7 DEF BillingInv, TypeOK
  <1>9. Carried'
    <2>1. Carries("idle", NoClaim)'
      BY DEF Carries
    <2>2. QED
      BY <2>1, <1>6, <1>7, <1>8, GotoCarried DEF BillingInv, Answer
  <1>10. QED
    BY <1>6, <1>7, <1>8, <1>9 DEF BillingInv

(* The steps of the job that leave the rows alone.                         *)
LEMMA JobMoves ==
  ASSUME BillingInv, UNCHANGED <<now, pc, claim, books>>,
         job' \in [step : {"idle", "check", "bill"}, at : Ticks, left : SUBSET DOMAIN subscription,
                   sub : {0} \cup DOMAIN subscription],
         JobKnows'
  PROVE  BillingInv'
  <1>1. UNCHANGED <<now, subscription, invoice, pc, claim>>
    BY DEF books
  <1>2. TypeOK'
    BY <1>1 DEF BillingInv, TypeOK
  <1>3. QED
    BY <1>1, <1>2 DEF BillingInv, PaidHasPayment, JobBillsOnce, BilledWithinTerm, BilledSoFar,
                      Carried, Carries

LEMMA JobStartInv ==
  ASSUME BillingInv, JobStart
  PROVE  BillingInv'
  <1>1. PICK left : left = {s \in DOMAIN subscription : Current(s)}
    OBVIOUS
  <1>2. job' = [step |-> "check", at |-> now, left |-> left, sub |-> 0]
    BY <1>1 DEF JobStart, JobIs
  <1>3. UNCHANGED <<now, pc, claim, books>>
    BY DEF JobStart, JobIs
  <1>4. job' \in [step : {"idle", "check", "bill"}, at : Ticks, left : SUBSET DOMAIN subscription,
                  sub : {0} \cup DOMAIN subscription]
    BY <1>1, <1>2 DEF BillingInv, TypeOK
  <1>5. JobKnows'
    BY <1>1, <1>2, <1>3 DEF JobKnows, Current, Covered, books
  <1>6. QED
    BY <1>3, <1>4, <1>5, JobMoves

LEMMA JobCheckInv ==
  ASSUME BillingInv, JobCheck
  PROVE  BillingInv'
  <1>1. PICK s \in job.left :
           job' = [step |-> IF Billed(s) THEN "check" ELSE "bill", at |-> job.at,
                   left |-> job.left \ {s}, sub |-> s]
    BY DEF JobCheck, JobIs
  <1>2. PICK st, left : /\ st = IF Billed(s) THEN "check" ELSE "bill"
                        /\ left = job.left \ {s}
    OBVIOUS
  <1>3. job' = [step |-> st, at |-> job.at, left |-> left, sub |-> s]
    BY <1>1, <1>2
  <1>4. /\ UNCHANGED <<now, pc, claim, books>>
        /\ UNCHANGED <<subscription, invoice>>
    BY DEF JobCheck, JobIs, books
  <1>5. /\ job.left \subseteq DOMAIN subscription
        /\ job.at = now
        /\ now \in Ticks
        /\ \A t \in job.left : Covered(t, now)
    BY DEF JobCheck, BillingInv, TypeOK, JobKnows
  <1>6. /\ st \in {"check", "bill"}
        /\ st = "bill" => ~Billed(s)
        /\ left \subseteq job.left
    BY <1>2
  <1>7. job' \in [step : {"idle", "check", "bill"}, at : Ticks, left : SUBSET DOMAIN subscription,
                  sub : {0} \cup DOMAIN subscription]
    BY <1>3, <1>5, <1>6
  <1>8. JobKnows'
    <2>1. st = "bill" => ~JobBilled(s, Month(now))
      BY <1>5, <1>6 DEF Billed, JobBilled
    <2>2. s \in DOMAIN subscription /\ Covered(s, now) /\ \A t \in left : Covered(t, now)
      BY <1>5, <1>6
    <2>3. job'.step = st /\ job'.at = now /\ job'.left = left /\ job'.sub = s
      BY <1>3, <1>5
    <2>4. QED
      BY <2>1, <2>2, <2>3, <1>4 DEF JobKnows, JobBilled, Covered
  <1>9. QED
    BY <1>4, <1>7, <1>8, JobMoves

LEMMA JobBillInv ==
  ASSUME BillingInv, JobBill
  PROVE  BillingInv'
  <1>1. PICK s, m, at, left : s = job.sub /\ m = Month(now) /\ at = job.at /\ left = job.left
    OBVIOUS
  <1>2. /\ s \in DOMAIN subscription
        /\ Covered(s, now)
        /\ ~JobBilled(s, m)
        /\ job.at = now
        /\ left \subseteq DOMAIN subscription
        /\ \A t \in left : Covered(t, now)
    BY <1>1 DEF JobBill, BillingInv, TypeOK, JobKnows
  <1>3. m \in Nat
    BY <1>1, RowTypes, MonthMonotonic DEF BillingInv
  <1>4. /\ invoice' = Append(invoice, NewInvoice(s, m, "job"))
        /\ job' = [step |-> "check", at |-> at, left |-> left, sub |-> 0]
        /\ UNCHANGED <<now, subscription, pc, claim>>
    BY <1>1, <1>2 DEF JobBill, JobIs
  <1>5. /\ invoice' \in Seq(InvoiceRow)
        /\ \A i \in DOMAIN invoice' : invoice'[i].sub \in DOMAIN subscription
        /\ DOMAIN invoice \subseteq DOMAIN invoice'
        /\ \A i \in DOMAIN invoice : invoice'[i] = invoice[i]
        /\ (PaidHasPayment /\ JobBillsOnce /\ BilledWithinTerm /\ BilledSoFar)'
    BY <1>1, <1>2, <1>3, <1>4, AppendedInvoice
  <1>6. TypeOK'
    <2>1. at \in Ticks
      BY <1>1 DEF BillingInv, TypeOK
    <2>2. job' \in [step : {"idle", "check", "bill"}, at : Ticks,
                    left : SUBSET DOMAIN subscription, sub : {0} \cup DOMAIN subscription]
      BY <2>1, <1>2, <1>4
    <2>3. QED
      BY <2>2, <1>4, <1>5 DEF BillingInv, TypeOK
  <1>7. RowsGrow
    BY <1>4, <1>5, RowTypes DEF BillingInv, RowsGrow
  <1>8. JobKnows'
    BY <1>1, <1>2, <1>4 DEF JobKnows, Covered
  <1>9. QED
    BY <1>4, <1>5, <1>6, <1>7, <1>8, CarriedOn DEF BillingInv

LEMMA JobOverdueInv ==
  ASSUME BillingInv, JobOverdue
  PROVE  BillingInv'
  <1>1. /\ UNCHANGED <<now, subscription, pc, claim>>
        /\ job' = NoJob
    BY DEF JobOverdue, JobIs
  <1>2. /\ DOMAIN invoice' = DOMAIN invoice
        /\ \A i \in DOMAIN invoice :
              \/ invoice'[i] = invoice[i]
              \/ invoice'[i] = [invoice[i] EXCEPT !.status = "overdue"]
    BY DEF JobOverdue
  <1>3. ASSUME NEW i \in DOMAIN invoice
        PROVE  /\ invoice'[i] \in InvoiceRow
               /\ invoice'[i].sub = invoice[i].sub
               /\ invoice'[i].month = invoice[i].month
               /\ invoice'[i].by = invoice[i].by
               /\ invoice'[i].payments = invoice[i].payments
               /\ invoice'[i].status \in {"overdue", invoice[i].status}
    <2>1. invoice[i] \in InvoiceRow
      BY DEF BillingInv, TypeOK
    <2>2. QED
      BY <2>1, <1>2 DEF InvoiceRow
  <1>4. SameBills
    BY <1>2, <1>3 DEF SameBills
  <1>5. invoice' \in Seq(InvoiceRow)
    <2>1. DOMAIN invoice = 1..Len(invoice) /\ Len(invoice) \in Nat
      BY DEF BillingInv, TypeOK
    <2>2. invoice' = [i \in 1..Len(invoice) |-> invoice'[i]]
      BY <2>1 DEF JobOverdue
    <2>3. QED
      BY <2>1, <2>2, <1>3
  <1>6. TypeOK'
    <2>1. \A i \in DOMAIN invoice' : invoice'[i].sub \in DOMAIN subscription
      BY <1>4 DEF SameBills, BillingInv, TypeOK
    <2>2. job' \in [step : {"idle", "check", "bill"}, at : Ticks,
                    left : SUBSET DOMAIN subscription, sub : {0} \cup DOMAIN subscription]
      BY <1>1, BillingAssumption DEF NoJob, Ticks
    <2>3. QED
      BY <2>1, <2>2, <1>1, <1>5 DEF BillingInv, TypeOK
  <1>7. RowsGrow
    BY <1>1, <1>2, <1>3, RowTypes DEF BillingInv, RowsGrow
  <1>8. PaidHasPayment'
    BY <1>2, <1>3 DEF BillingInv, PaidHasPayment
  <1>9. JobKnows'
    BY <1>1 DEF JobKnows, NoJob
  <1>10. QED
    BY <1>1, <1>4, <1>6, <1>7, <1>8, <1>9, SameBillsInv, CarriedOn DEF BillingInv

LEMMA JobFailsInv ==
  ASSUME BillingInv, JobFails
  PROVE  BillingInv'
  <1>1. job' = NoJob /\ UNCHANGED <<now, pc, claim, books>>
    BY DEF JobFails
  <1>2. job' \in [step : {"idle", "check", "bill"}, at : Ticks, left : SUBSET DOMAIN subscription,
                  sub : {0} \cup DOMAIN subscription]
    BY <1>1, BillingAssumption DEF NoJob, Ticks
  <1>3. JobKnows'
    BY <1>1 DEF JobKnows, NoJob
  <1>4. QED
    BY <1>1, <1>2, <1>3, JobMoves

LEMMA StutterInv ==
  ASSUME BillingInv, UNCHANGED vars
  PROVE  BillingInv'
  BY DEF vars, BillingInv, TypeOK, PaidHasPayment, JobBillsOnce, BilledWithinTerm, Carried,
         Carries, JobKnows, JobBilled, Covered, BilledSoFar

LEMMA StepInv == BillingInv /\ [Next]_vars => BillingInv'
  <1> SUFFICES ASSUME BillingInv, [Next]_vars PROVE BillingInv'
    OBVIOUS
  <1>1. CASE Tick
    BY <1>1, TickInv
  <1>2. ASSUME NEW r \in Reqs, Handle(r) PROVE BillingInv'
    BY <1>2, SubscribeReadInv, SubscribeRowInv, SubscribeInvoiceInv, TerminateReadInv,
       TerminateCommitInv, PayReadInv, PayRecordInv, PayMarkInv, AbortInv DEF Handle
  <1>3. ASSUME NEW s \in DOMAIN subscription, Approve(s) PROVE BillingInv'
    BY <1>3, ApproveInv
  <1>4. CASE Job
    BY <1>4, JobStartInv, JobCheckInv, JobBillInv, JobOverdueInv DEF Job
  <1>5. CASE JobFails
    BY <1>5, JobFailsInv
  <1>6. CASE UNCHANGED vars
    BY <1>6, StutterInv
  <1>7. QED
    BY <1>1, <1>2, <1>3, <1>4, <1>5, <1>6 DEF Next

LEMMA Inductive == Spec => []BillingInv
  BY InitInv, StepInv, PTL DEF Spec

LEMMA KeepsPaid ==
  ASSUME BillingInv, Next, NEW i \in DOMAIN invoice, invoice[i].status = "paid"
  PROVE  invoice'[i].status = "paid"
  <1> DEFINE Kept == invoice' = invoice
  <1>1. invoice \in Seq(InvoiceRow)
    BY DEF BillingInv, TypeOK
  <1>2. ASSUME NEW r \in Reqs, Handle(r)
        PROVE  invoice'[i].status = "paid"
    <2>1. CASE SubscribeInvoice(r)
      <3>1. PICK new : invoice' = Append(invoice, new)
        BY <2>1 DEF SubscribeInvoice
      <3>2. QED
        BY <3>1, <1>1
    <2>2. CASE PayRecord(r)
      <3>1. PICK j, n : invoice' = [invoice EXCEPT ![j].payments = n]
        BY <2>2 DEF PayRecord, Recorded
      <3>2. QED
        BY <3>1, <1>1 DEF InvoiceRow
    <2>3. CASE PayMark(r)
      <3>1. PICK j : invoice' = [invoice EXCEPT ![j].status = "paid"]
        BY <2>3 DEF PayMark, Paid
      <3>2. QED
        BY <3>1, <1>1 DEF InvoiceRow
    <2>4. CASE \/ SubscribeCount(r) \/ SubscribeMonth(r) \/ SubscribeRow(r)
               \/ TerminateRead(r) \/ TerminateCommit(r) \/ PayRead(r) \/ Abort(r)
      <3>1. Kept
        BY <2>4 DEF SubscribeCount, SubscribeMonth, SubscribeRow, TerminateRead, TerminateCommit,
                    PayRead, Abort, books
      <3>2. QED
        BY <3>1
    <2>5. QED
      BY <1>2, <2>1, <2>2, <2>3, <2>4 DEF Handle
  <1>3. CASE Job
    <2>1. CASE JobBill
      <3>1. PICK new : invoice' = Append(invoice, new)
        BY <2>1 DEF JobBill
      <3>2. QED
        BY <3>1, <1>1
    <2>2. CASE JobOverdue
      BY <2>2 DEF JobOverdue
    <2>3. CASE JobStart \/ JobCheck
      BY <2>3 DEF JobStart, JobCheck, books
    <2>4. QED
      BY <1>3, <2>1, <2>2, <2>3 DEF Job
  <1>4. CASE Tick \/ (\E s \in DOMAIN subscription : Approve(s)) \/ JobFails
    BY <1>4 DEF Tick, Approve, JobFails, books
  <1>5. QED
    BY <1>2, <1>3, <1>4 DEF Next

(***************************************************************************)
(* Results.                                                                *)
(***************************************************************************)
(* An invoice payInvoice has marked paid has a payment row and stays paid, *)
(* whatever requests and runs of the billing job overlap, die or follow:   *)
(* the payment is written before the mark, and the job only turns unpaid   *)
(* invoices overdue.                                                       *)
THEOREM BillsHold == Spec => PaymentsHold
  <1>1. BillingInv => TypeOK /\ PaidHasPayment
    BY DEF BillingInv
  <1>2. BillingInv /\ [Next]_vars =>
          [\A i \in DOMAIN invoice : invoice[i].status = "paid" => invoice'[i].status = "paid"]_vars
    BY KeepsPaid
  <1>3. QED
    BY <1>1, <1>2, Inductive, PTL DEF Spec, PaymentsHold, PaidStays

(* generateMonthlyInvoices bills a subscription at most once for a month,  *)
(* however often it runs and wherever it dies: the look-up before each     *)
(* bill sees what earlier runs wrote.                                      *)
THEOREM BilledOnce == Spec => []JobBillsOnce
  <1>1. BillingInv => JobBillsOnce
    BY DEF BillingInv
  <1>2. QED
    BY <1>1, Inductive, PTL

(* generateMonthlyInvoices bills no month outside the subscription's term, *)
(* although it bills from a list read before: terminateSubscription moves  *)
(* the end no further back than the present.                               *)
THEOREM BilledInTerm == Spec => []BilledWithinTerm
  <1>1. BillingInv => BilledWithinTerm
    BY DEF BillingInv
  <1>2. QED
    BY <1>1, Inductive, PTL
=============================================================================

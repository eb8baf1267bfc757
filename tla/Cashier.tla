------------------------------ MODULE Cashier ------------------------------
(***************************************************************************)
(* The in-store cashier: checkout, member scan payment and order refunds   *)
(* (CashierService), with the member account operations that share its     *)
(* rows (MemberService).                                                   *)
(*                                                                         *)
(* Node runs one thread, so a handler is interrupted only where it awaits. *)
(* Each await that separates a read from the write that relies on it is a  *)
(* step boundary here; a Prisma transaction opens with a write, holds      *)
(* SQLite's single write lock and commits in one step.  Requests `Reqs`    *)
(* are in-flight HTTP calls.                                               *)
(***************************************************************************)
EXTENDS Integers, Sequences, PayAmounts

CONSTANTS
    Members,       \* members of the store
    Guest,         \* 'CASHIER_GUEST'
    Unknown,       \* a member_id that matches no row
    Orders,        \* supply of order ids
    Pendings,      \* supply of pending order ids
    None,          \* "no order", "no pending order"
    Reqs,          \* in-flight requests
    Amounts,       \* positive amounts a request may name, in cents
    Baskets,       \* the orders a till may push
    EditBalances,  \* balances a member edit may write
    EditPoints,    \* points a member edit may write
    Settings,      \* the store's settings, see PayAmounts
    MaxBooks       \* bound: recharges stop at this balance and sum of movements

ASSUME CashierAssumption ==
    /\ Guest \notin Members
    /\ Unknown \notin Members
    /\ Guest # Unknown
    /\ None \notin Pendings \cup Orders
    /\ Amounts \subseteq Nat \ {0}
    /\ \A b \in Baskets : b \in [member : Members \cup {Guest, Unknown}, money : Nat,
                               charge : BOOLEAN, used : Nat, earn : Nat, pending : {None}]
    /\ EditBalances \subseteq Int
    /\ EditPoints \subseteq Int
    /\ Settings \in SettingsType
    /\ MaxBooks \in Nat

Customers == Members \cup {Guest, Unknown}

VARIABLES
    balance,    \* store_member.balance
    points,     \* store_member.points
    active,     \* store_member.status = 1
    books,      \* sum of store_recharge.received_amount per member
    opening,    \* history: balance written by account edits
    order,      \* user_order rows; status 0 is "no row"
    refundLog,  \* sum of store_order_refund.amount per order
    pending,    \* store_pay_pending rows
    queue,      \* the lockPromise chain; its head holds the lock
    pc,         \* where each request is
    cart,       \* the order a request wants to push
    claim       \* the refund, withdrawal or update a request carries, with what it read

memberRows == <<balance, points, active, books, opening>>
orderRows  == <<order, refundLog>>
dbRows     == <<memberRows, orderRows, pending>>
locals     == <<cart, claim>>
vars       == <<balance, points, active, books, opening, order, refundLog,
                pending, queue, pc, cart, claim>>

(***************************************************************************)
(* Rows and request-local data.                                            *)
(***************************************************************************)
OrderRow == [status : 0 .. 2, member : Customers, money : Nat, refunded : Nat,
             charged : BOOLEAN, used : Nat, earn : Nat, cleared : BOOLEAN,
             pending : Pendings \cup {None}]

NoOrder == [status |-> 0, member |-> Guest, money |-> 0, refunded |-> 0,
            charged |-> FALSE, used |-> 0, earn |-> 0, cleared |-> FALSE,
            pending |-> None]

(* `lapsed` is expire_at < now.                                            *)
PendingRow == [status : {"none", "pending", "paid", "expired"}, total : Nat,
               lapsed : BOOLEAN, order : Orders \cup {None}]

NoRow == [status |-> "none", total |-> 0, lapsed |-> FALSE, order |-> None]

Cart == [member : Customers, money : Nat, charge : BOOLEAN, used : Nat, earn : Nat,
         pending : Pendings \cup {None}]

NoCart == [member |-> Guest, money |-> 0, charge |-> FALSE, used |-> 0, earn |-> 0,
           pending |-> None]

Claim == [order : Orders \cup {None}, member : Customers, amount : Nat, clear : BOOLEAN,
          read : Int, paid : Nat, pending : Pendings \cup {None}]

ClaimOf(o, m, n, clear, p) ==
    [order |-> o, member |-> m, amount |-> n, clear |-> clear, read |-> 0, paid |-> 0,
     pending |-> p]

NoClaim == ClaimOf(None, Guest, 0, FALSE, None)

Steps == {"idle", "push", "refund", "credit", "withdraw", "expire", "update", "pay", "mark"}

Bigger(a, b) == IF a >= b THEN a ELSE b

Init ==
    /\ balance = [m \in Members |-> 0]
    /\ points = [m \in Members |-> 0]
    /\ active = [m \in Members |-> TRUE]
    /\ books = [m \in Members |-> 0]
    /\ opening = [m \in Members |-> 0]
    /\ order = [o \in Orders |-> NoOrder]
    /\ refundLog = [o \in Orders |-> 0]
    /\ pending = [p \in Pendings |-> NoRow]
    /\ queue = <<>>
    /\ pc = [r \in Reqs |-> "idle"]
    /\ cart = [r \in Reqs |-> NoCart]
    /\ claim = [r \in Reqs |-> NoClaim]

(***************************************************************************)
(* Request bookkeeping and the promise-chain lock.                         *)
(***************************************************************************)
Goto(r, step) == pc' = [pc EXCEPT ![r] = step]

Carry(r, c) == claim' = [claim EXCEPT ![r] = c]

(* The request answers; what it carried is gone.                           *)
Answer(r) ==
    /\ Goto(r, "idle")
    /\ cart' = [cart EXCEPT ![r] = NoCart]
    /\ claim' = [claim EXCEPT ![r] = NoClaim]

(* withLock appends to the chain whatever the outcome of the calls before. *)
Enqueue(r) == queue' = Append(queue, r)

(* Mutant of Holds: a lock that admits every waiting call.                 *)
HoldsAnyWaiting(r) == \E i \in DOMAIN queue : queue[i] = r

Holds(r) == queue # <<>> /\ Head(queue) = r

Release(r) == Holds(r) /\ queue' = Tail(queue)

(***************************************************************************)
(* pushOrder: checkout at the till.  The caller's amounts are taken as     *)
(* given; the transaction looks the member up and checks its balance.      *)
(***************************************************************************)
Checkout(r) ==
    /\ pc[r] = "idle"
    /\ \E b \in Baskets : cart' = [cart EXCEPT ![r] = b]
    /\ Goto(r, "push")
    /\ Enqueue(r)
    /\ UNCHANGED <<dbRows, claim>>

(* Mutant of Deduction: every payment method takes from the balance.       *)
DeductionAnyMethod(c) == IF c.member \in Members THEN c.money ELSE 0

(* The balance part of the order; only payment methods balance and         *)
(* member_scan take money from the account.                                *)
Deduction(c) == IF c.charge /\ c.member \in Members THEN c.money ELSE 0

(* Mutant of Affordable: trust the check memberPay made before the lock.   *)
AffordableWhenPriced(c) ==
    (c.pending = None /\ Deduction(c) > 0) => balance[c.member] >= Deduction(c)

Affordable(c) == Deduction(c) > 0 => balance[c.member] >= Deduction(c)

(* A scan payment still has to mark its pending order once pushOrder has   *)
(* returned; a checkout answers.                                           *)
AfterPush(r, o) ==
    IF cart[r].pending = None
    THEN Answer(r)
    ELSE /\ Goto(r, "mark")
         /\ Carry(r, ClaimOf(o, cart[r].member, 0, FALSE, cart[r].pending))
         /\ cart' = [cart EXCEPT ![r] = NoCart]

(* The user_order row: status 1, '已完成'; `charged` is its payment_method.   *)
RungUp(c) == [status |-> 1, member |-> c.member, money |-> c.money, refunded |-> 0,
              charged |-> c.charge, used |-> c.used, earn |-> c.earn, cleared |-> FALSE,
              pending |-> c.pending]

PushCommit(r) ==
    LET c == cart[r]
    IN  /\ pc[r] = "push"
        /\ Release(r)
        /\ Affordable(c)
        /\ IF c.member \in Members
           THEN /\ balance' = [balance EXCEPT ![c.member] = @ - Deduction(c)]
                /\ points' = [points EXCEPT ![c.member] = @ + c.earn - c.used]
           ELSE UNCHANGED <<balance, points>>
        /\ \E o \in Orders :
              /\ order[o].status = 0
              /\ order' = [order EXCEPT ![o] = RungUp(c)]
              /\ AfterPush(r, o)
        /\ UNCHANGED <<active, books, opening, refundLog, pending>>

(* Mutant of PushFail: the failing call never leaves the chain.            *)
PushFailStuck(r) ==
    /\ pc[r] = "push"
    /\ Holds(r)
    /\ Answer(r)
    /\ UNCHANGED <<dbRows, queue>>

(* Mutant of PushFail: memberPay does not look at the result's status.     *)
PushFailUnnoticed(r) ==
    /\ pc[r] = "push"
    /\ Release(r)
    /\ AfterPush(r, None)
    /\ UNCHANGED dbRows

(* '会员余额不足', or any other error inside the transaction: nothing is      *)
(* written, the chain goes on.                                             *)
PushFail(r) ==
    /\ pc[r] = "push"
    /\ Release(r)
    /\ Answer(r)
    /\ UNCHANGED dbRows

(***************************************************************************)
(* refundOrder, by the store's owner.                                      *)
(***************************************************************************)
AskRefund(r) ==
    /\ pc[r] = "idle"
    /\ \E o \in Orders, n \in Amounts, clear \in BOOLEAN :
          Carry(r, ClaimOf(o, Guest, n, clear, None))
    /\ Goto(r, "refund")
    /\ Enqueue(r)
    /\ UNCHANGED <<dbRows, cart>>

Refundable(o) == order[o].money - order[o].refunded

(* Mutant of MayRefund: any amount, as long as something is left.          *)
MayRefundAnyAmount(o, n) ==
    order[o].status = 1 /\ Refundable(o) > 0 /\ order[o].member # Unknown

MayRefund(o, n) ==
    /\ order[o].status \in {1, 2}
    /\ ~(Refundable(o) <= 0 \/ order[o].status = 2)
    /\ n <= Refundable(o)
    /\ order[o].member # Unknown

(* Mutant of ClearsPoints: refund_clear_points is not consulted.           *)
ClearsPointsAgain(k) == k.clear /\ order[k.order].member # Guest

ClearsPoints(k) ==
    k.clear /\ order[k.order].member # Guest /\ ~order[k.order].cleared

(* Mutant of FullyRefunded: the last cent does not close the order.        *)
FullyRefundedBeyond(refunded, row) == refunded > row.money

FullyRefunded(refunded, row) == refunded >= row.money

(* The order and the member are read before the transaction opens; the     *)
(* member's points travel with the request.                                *)
RefundRead(r) ==
    LET k == claim[r]
        m == order[k.order].member
    IN  /\ pc[r] = "refund"
        /\ Holds(r)
        /\ MayRefund(k.order, k.amount)
        /\ Carry(r, [order |-> k.order, member |-> m, amount |-> k.amount,
                     clear |-> ClearsPoints(k),
                     read |-> IF m \in Members THEN points[m] ELSE 0,
                     paid |-> order[k.order].refunded, pending |-> None])
        /\ Goto(r, "credit")
        /\ UNCHANGED <<dbRows, queue, cart>>

RefundRefuse(r) ==
    /\ pc[r] = "refund"
    /\ Release(r)
    /\ ~MayRefund(claim[r].order, claim[r].amount)
    /\ Answer(r)
    /\ UNCHANGED dbRows

Refunded(row, refunded, clear) ==
    [status |-> IF FullyRefunded(refunded, row) THEN 2 ELSE row.status,
     member |-> row.member, money |-> row.money, refunded |-> refunded,
     charged |-> row.charged, used |-> row.used, earn |-> row.earn,
     cleared |-> IF clear THEN TRUE ELSE row.cleared, pending |-> row.pending]

RefundCommit(r) ==
    LET k   == claim[r]
        row == order[k.order]
        new == k.paid + k.amount
    IN  /\ pc[r] = "credit"
        /\ Release(r)
        /\ IF k.member \in Members
           THEN /\ balance' = [balance EXCEPT ![k.member] = @ + k.amount]
                /\ books' = [books EXCEPT ![k.member] = @ + k.amount]
                /\ points' = IF k.clear
                             THEN [points EXCEPT ![k.member] =
                                     Bigger(0, k.read + row.used - row.earn)]
                             ELSE points
           ELSE UNCHANGED <<balance, books, points>>
        /\ order' = [order EXCEPT ![k.order] = Refunded(row, new, k.clear)]
        /\ refundLog' = [refundLog EXCEPT ![k.order] = @ + k.amount]
        /\ Answer(r)
        /\ UNCHANGED <<active, opening, pending>>

(* The transaction fails and rolls back.                                   *)
RefundFail(r) ==
    /\ pc[r] = "credit"
    /\ Release(r)
    /\ Answer(r)
    /\ UNCHANGED dbRows

(***************************************************************************)
(* MemberService: the account operations.  None of them takes the lock.    *)
(***************************************************************************)
Recharge(m) ==
    /\ \E n \in Amounts :
          /\ balance[m] + n <= MaxBooks
          /\ books[m] + n <= MaxBooks
          /\ balance' = [balance EXCEPT ![m] = @ + n]
          /\ books' = [books EXCEPT ![m] = @ + n]
    /\ UNCHANGED <<points, active, opening, orderRows, pending, queue, pc, locals>>

(* update(): the form may carry status, balance and points.                *)
EditMember(m) ==
    /\ \E b \in EditBalances \cup {balance[m]}, p \in EditPoints \cup {points[m]},
          a \in BOOLEAN :
          /\ opening[m] + b - balance[m] \in -MaxBooks .. MaxBooks
          /\ balance' = [balance EXCEPT ![m] = b]
          /\ opening' = [opening EXCEPT ![m] = @ + b - balance[m]]
          /\ points' = [points EXCEPT ![m] = p]
          /\ active' = [active EXCEPT ![m] = a]
    /\ UNCHANGED <<books, orderRows, pending, queue, pc, locals>>

(* remove(), and create() for the phone of a disabled member.              *)
RemoveMember(m) ==
    /\ active' = [active EXCEPT ![m] = FALSE]
    /\ UNCHANGED <<balance, points, books, opening, orderRows, pending, queue, pc, locals>>

ReactivateMember(m) ==
    /\ ~active[m]
    /\ \E b \in EditBalances \cup {balance[m]}, p \in EditPoints \cup {points[m]} :
          /\ opening[m] + b - balance[m] \in -MaxBooks .. MaxBooks
          /\ balance' = [balance EXCEPT ![m] = b]
          /\ opening' = [opening EXCEPT ![m] = @ + b - balance[m]]
          /\ points' = [points EXCEPT ![m] = p]
    /\ active' = [active EXCEPT ![m] = TRUE]
    /\ UNCHANGED <<books, orderRows, pending, queue, pc, locals>>

(* refundBalance: the balance is compared before the transaction opens and *)
(* decremented inside it.                                                  *)
WithdrawRead(r) ==
    /\ pc[r] = "idle"
    /\ \E m \in Members, n \in Amounts, clear \in BOOLEAN :
          /\ active[m]
          /\ balance[m] >= n
          /\ books[m] - n >= -MaxBooks
          /\ Carry(r, ClaimOf(None, m, n, clear, None))
    /\ Goto(r, "withdraw")
    /\ UNCHANGED <<dbRows, queue, cart>>

WithdrawCommit(r) ==
    LET k == claim[r]
    IN  /\ pc[r] = "withdraw"
        /\ balance' = [balance EXCEPT ![k.member] = @ - k.amount]
        /\ points' = IF k.clear THEN [points EXCEPT ![k.member] = 0] ELSE points
        /\ books' = [books EXCEPT ![k.member] = @ - k.amount]
        /\ Answer(r)
        /\ UNCHANGED <<active, opening, orderRows, pending, queue>>

(***************************************************************************)
(* The pending order behind a member's scan.                               *)
(***************************************************************************)
CreatePending(p) ==
    /\ pending[p].status = "none"
    /\ \E n \in Amounts : pending' = [pending EXCEPT ![p] =
          [status |-> "pending", total |-> n, lapsed |-> FALSE, order |-> None]]
    /\ UNCHANGED <<memberRows, orderRows, queue, pc, locals>>

(* PENDING_TTL_MS passes.                                                  *)
Lapse(p) ==
    /\ pending[p].status # "none"
    /\ ~pending[p].lapsed
    /\ pending' = [pending EXCEPT ![p].lapsed = TRUE]
    /\ UNCHANGED <<memberRows, orderRows, queue, pc, locals>>

(* getPendingRow, called by status polls, previews, updates and payments:  *)
(* a pending row past its expiry is written back as expired, whatever it   *)
(* has become in between, and each caller then answers.                    *)
FindLapsed(r) ==
    /\ pc[r] = "idle"
    /\ \E p \in Pendings :
          /\ pending[p].status = "pending"
          /\ pending[p].lapsed
          /\ Carry(r, ClaimOf(None, Guest, 0, FALSE, p))
    /\ Goto(r, "expire")
    /\ UNCHANGED <<dbRows, queue, cart>>

ExpireWrite(r) ==
    /\ pc[r] = "expire"
    /\ pending' = [pending EXCEPT ![claim[r].pending].status = "expired"]
    /\ Answer(r)
    /\ UNCHANGED <<memberRows, orderRows, queue>>

(* createOrUpdatePendingOrder with a pending_id: read, then overwrite.     *)
UpdateRead(r) ==
    /\ pc[r] = "idle"
    /\ \E p \in Pendings, n \in Amounts :
          /\ pending[p].status = "pending"
          /\ ~pending[p].lapsed
          /\ Carry(r, ClaimOf(None, Guest, n, FALSE, p))
    /\ Goto(r, "update")
    /\ UNCHANGED <<dbRows, queue, cart>>

UpdateWrite(r) ==
    /\ pc[r] = "update"
    /\ pending' = [pending EXCEPT ![claim[r].pending] =
                                   [@ EXCEPT !.total = claim[r].amount, !.lapsed = FALSE]]
    /\ Answer(r)
    /\ UNCHANGED <<memberRows, orderRows, queue>>

(***************************************************************************)
(* memberPay: the row, then the member, are read and priced outside the    *)
(* lock; pushOrder charges; the row is marked paid afterwards, by a write  *)
(* that does not look at the status again.                                 *)
(***************************************************************************)
PayRead(r) ==
    /\ pc[r] = "idle"
    /\ \E p \in Pendings, m \in Members :
          /\ pending[p].status = "pending"
          /\ ~pending[p].lapsed
          /\ Carry(r, ClaimOf(None, m, pending[p].total, FALSE, p))
    /\ Goto(r, "pay")
    /\ UNCHANGED <<dbRows, queue, cart>>

PayPrice(r) ==
    LET k    == claim[r]
        calc == MemberPayAmounts(k.amount, points[k.member], Settings)
    IN  /\ pc[r] = "pay"
        /\ active[k.member]
        /\ balance[k.member] >= calc.payable
        /\ cart' = [cart EXCEPT ![r] =
              [member |-> k.member, money |-> calc.payable, charge |-> TRUE,
               used |-> calc.used, earn |-> calc.earn, pending |-> k.pending]]
        /\ Carry(r, NoClaim)
        /\ Goto(r, "push")
        /\ Enqueue(r)
        /\ UNCHANGED dbRows

(* Not a member of this store, or '支付失败，请联系店员充值'.                     *)
PayRefuse(r) ==
    LET k    == claim[r]
        calc == MemberPayAmounts(k.amount, points[k.member], Settings)
    IN  /\ pc[r] = "pay"
        /\ ~active[k.member] \/ balance[k.member] < calc.payable
        /\ Answer(r)
        /\ UNCHANGED <<dbRows, queue>>

MarkPaid(r) ==
    LET k == claim[r]
    IN  /\ pc[r] = "mark"
        /\ pending' = [pending EXCEPT ![k.pending] =
                                       [@ EXCEPT !.status = "paid", !.order = k.order]]
        /\ Answer(r)
        /\ UNCHANGED <<memberRows, orderRows, queue>>

(***************************************************************************)
(* The server process restarts: open transactions roll back, requests and  *)
(* the promise chain are gone, the database stays.                         *)
(***************************************************************************)
Crash ==
    /\ pc # [r \in Reqs |-> "idle"]
    /\ pc' = [r \in Reqs |-> "idle"]
    /\ queue' = <<>>
    /\ cart' = [r \in Reqs |-> NoCart]
    /\ claim' = [r \in Reqs |-> NoClaim]
    /\ UNCHANGED dbRows

Begin(r) == \/ Checkout(r) \/ AskRefund(r) \/ WithdrawRead(r)
            \/ FindLapsed(r) \/ UpdateRead(r) \/ PayRead(r)

(* What the event loop does next for a request it has begun.               *)
Continue(r) == \/ PushCommit(r) \/ PushFail(r)
               \/ RefundRead(r) \/ RefundRefuse(r) \/ RefundCommit(r) \/ RefundFail(r)
               \/ WithdrawCommit(r) \/ ExpireWrite(r) \/ UpdateWrite(r)
               \/ PayPrice(r) \/ PayRefuse(r) \/ MarkPaid(r)

Account(m) == Recharge(m) \/ EditMember(m) \/ RemoveMember(m) \/ ReactivateMember(m)

Next == \/ \E r \in Reqs : Begin(r) \/ Continue(r)
        \/ \E m \in Members : Account(m)
        \/ \E p \in Pendings : CreatePending(p) \/ Lapse(p)
        \/ Crash

Spec == Init /\ [][Next]_vars

(* The event loop resumes every request whose await has resolved.          *)
FairSpec == Spec /\ \A r \in Reqs : WF_vars(Continue(r))

-----------------------------------------------------------------------------
(* Each step of a request finds what the step before it left behind.       *)
Carried ==
    \A r \in Reqs :
        /\ pc[r] \in {"refund", "credit"} => claim[r].order \in Orders /\ claim[r].amount > 0
        /\ pc[r] \in {"withdraw", "pay"} => claim[r].member \in Members
        /\ pc[r] \in {"expire", "update", "pay", "mark"} => claim[r].pending \in Pendings

(* Every row and every request-local value has the type of its column.     *)
TypeOK ==
    /\ balance \in [Members -> Int]
    /\ points \in [Members -> Int]
    /\ active \in [Members -> BOOLEAN]
    /\ books \in [Members -> Int]
    /\ opening \in [Members -> Int]
    /\ order \in [Orders -> OrderRow]
    /\ refundLog \in [Orders -> Nat]
    /\ pending \in [Pendings -> PendingRow]
    /\ queue \in Seq(Reqs)
    /\ pc \in [Reqs -> Steps]
    /\ cart \in [Reqs -> Cart]
    /\ claim \in [Reqs -> Claim]
    /\ Carried

(* refundOrder across requests, retries and restarts: an order gives back  *)
(* at most what it took, user_order.refunded_amount agrees with the        *)
(* store_order_refund rows, and status 2 means exactly "fully refunded".   *)
RefundBooks ==
    \A o \in Orders :
        /\ order[o].refunded = refundLog[o]
        /\ order[o].refunded <= order[o].money
        /\ order[o].status = 0 => order[o] = NoOrder
        /\ order[o].status = 2 <=> (order[o].money > 0 /\ order[o].refunded = order[o].money)

ReadIsCurrent(r) ==
    LET k == claim[r]
    IN  /\ order[k.order].status = 1
        /\ order[k.order].refunded = k.paid
        /\ order[k.order].member = k.member
        /\ k.member # Unknown
        /\ k.amount \in 1 .. Refundable(k.order)

(* What a refund read before its transaction still holds when it commits:  *)
(* nobody else touched the order, although the reads are outside the       *)
(* transaction; only the promise chain protects them.                      *)
RefundReadsCurrent == \A r \in Reqs : pc[r] = "credit" => Holds(r) /\ ReadIsCurrent(r)

(* getPendingOrderStatus shows the till "paid" only for an order that      *)
(* exists, was rung up for this very pending order, and was taken from the *)
(* member's balance.                                                       *)
PaidHasOrder ==
    \A p \in Pendings : pending[p].status = "paid" =>
        \E o \in Orders :
            /\ pending[p].order = o
            /\ order[o].status # 0
            /\ order[o].pending = p
            /\ order[o].money > 0 => order[o].charged

(* pushOrder's balance check is inside its transaction: whatever ran while *)
(* a priced scan payment or a checkout waited for the lock, no sale takes  *)
(* a balance below zero.                                                   *)
SalesNeverOverdraw ==
    [][\A m \in Members, r \in Reqs :
          (pc[r] = "push" /\ pc'[r] # "push" /\ balance'[m] < balance[m]) => balance'[m] >= 0]_vars

(* An order's points are taken back at most once, however many partial     *)
(* refunds ask for it (refund_clear_points).                               *)
PointsReversedOnce ==
    [][\A o \in Orders : (order[o].cleared /\ order'[o].refunded # order[o].refunded)
                              => points' = points]_vars

(* withLock's chain survives errors: every request that began is answered, *)
(* whichever calls ahead of it in the chain failed.                        *)
RequestsAnswer == \A r \in Reqs : pc[r] # "idle" ~> pc[r] = "idle"

(***************************************************************************)
(* What documentation and messages of the code promise, and the code does  *)
(* not keep under concurrency.                                             *)
(***************************************************************************)

(* memberPay answers a paid pending order with "已支付": it is charged once.   *)
PendingChargedOnce ==
    \A o1, o2 \in Orders :
        (order[o1].pending = order[o2].pending /\ order[o1].pending # None) => o1 = o2

(***************************************************************************)
(* The cashier implements the sale ledger.                                 *)
(***************************************************************************)
SaleState(row) == CASE row.status = 0 -> "none" [] row.status = 1 -> "open"
                    [] row.status = 2 -> "closed"

SaleOf(row) == [state |-> SaleState(row), customer |-> row.member,
                left |-> row.money - row.refunded]

Sales == [o \in Orders |-> SaleOf(order[o])]

Ledger == INSTANCE SaleLedger WITH sale <- Sales, wallet <- balance

(* Every step of the cashier is one atomic sale, one atomic refund, a move *)
(* of a wallet, or invisible: the split reads of refundOrder and memberPay *)
(* never show in the books.                                                *)
ImplementsLedger == Ledger!Spec
=============================================================================

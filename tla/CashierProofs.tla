--------------------------- MODULE CashierProofs ---------------------------
(***************************************************************************)
(* Theorems about Cashier, for every set of members, orders, pending       *)
(* orders and concurrent requests, and every store setting.                *)
(***************************************************************************)
EXTENDS MCCashier, SumTheorems, SequenceTheorems, TLAPS

(***************************************************************************)
(* Amounts: a scan payment never asks for a negative sum and never uses or *)
(* earns a negative number of points, so that order rows are well typed.   *)
(***************************************************************************)
LEMMA DivNat == ASSUME NEW a \in Nat, NEW b \in Nat \ {0} PROVE a \div b \in Nat
  OBVIOUS

LEMMA RoundDivNat ==
  ASSUME NEW a \in Nat, NEW b \in Nat \ {0} PROVE RoundDiv(a, b) \in Nat
  <1>1. 2 * a + b \in Nat /\ 2 * b \in Nat \ {0}
    OBVIOUS
  <1>2. QED
    BY <1>1, DivNat DEF RoundDiv

LEMMA RedemptionNat ==
  ASSUME NEW due \in Nat, NEW available \in Int, NEW s \in SettingsType
  PROVE  /\ Redemption(due, available, s).used \in Nat
         /\ Redemption(due, available, s).off \in 0 .. due
  <1>1. s.ratio \in Nat \ {0} /\ s.redeem \in BOOLEAN
    BY DEF SettingsType
  <1>2. CASE ~s.redeem \/ available <= 0
    BY <1>2 DEF Redemption
  <1>3. CASE s.redeem /\ available > 0
    <2> DEFINE worth == RoundDiv(available * 100, s.ratio)
               most  == Smaller(due, worth)
               price == RoundDiv(most * s.ratio, 100)
    <2>1. worth \in Nat
      <3>1. available * 100 \in Nat
        BY <1>3
      <3>2. QED
        BY <3>1, <1>1, RoundDivNat
    <2>2. most \in 0 .. due /\ Smaller(worth, due) \in 0 .. due
      BY <2>1 DEF Smaller
    <2>3. price \in Nat
      <3>1. most * s.ratio \in Nat
        BY <2>2, <1>1
      <3>2. QED
        BY <3>1, RoundDivNat
    <2>4. Redemption(due, available, s) =
            IF price <= available THEN [used |-> price, off |-> most]
            ELSE [used |-> available, off |-> Smaller(worth, due)]
      BY <1>3 DEF Redemption
    <2> HIDE DEF worth, most, price
    <2>5. QED
      BY <2>2, <2>3, <2>4, <1>3
  <1>4. QED
    BY <1>1, <1>2, <1>3

LEMMA MemberPayTyped ==
  ASSUME NEW total \in Nat, NEW available \in Int, NEW s \in SettingsType
  PROVE  /\ MemberPayAmounts(total, available, s).payable \in Nat
         /\ MemberPayAmounts(total, available, s).used \in Nat
         /\ MemberPayAmounts(total, available, s).earn \in Nat
  <1> DEFINE due    == Discounted(total, s)
             redeem == Redemption(due, available, s)
  <1>1. s.rate \in Nat /\ s.perYuan \in Nat
    BY DEF SettingsType
  <1>2. due \in Nat
    <2>1. total * s.rate \in Nat
      BY <1>1
    <2>2. QED
      BY <2>1, RoundDivNat DEF Discounted
  <1>3. redeem.used \in Nat /\ redeem.off \in 0 .. due
    BY <1>2, RedemptionNat
  <1> DEFINE payable == due - redeem.off
  <1>4. payable \in Nat
    BY <1>2, <1>3
  <1>5. (payable * s.perYuan) \div 100 \in Nat
    <2>1. payable * s.perYuan \in Nat
      BY <1>4, <1>1
    <2>2. QED
      BY <2>1, DivNat
  <1>6. MemberPayAmounts(total, available, s) =
          [payable |-> payable, used |-> redeem.used, off |-> redeem.off,
           earn |-> (payable * s.perYuan) \div 100]
    BY DEF MemberPayAmounts
  <1> HIDE DEF due, redeem, payable
  <1>7. QED
    BY <1>3, <1>4, <1>5, <1>6

(***************************************************************************)
(* Types.                                                                  *)
(***************************************************************************)
LEMMA NoRowsTyped ==
  /\ NoOrder \in OrderRow
  /\ NoRow \in PendingRow
  /\ NoCart \in Cart
  /\ NoClaim \in Claim
  BY DEF NoOrder, OrderRow, NoRow, PendingRow, NoCart, Cart, NoClaim, ClaimOf, Claim, Customers

LEMMA ClaimTyped ==
  ASSUME NEW o \in Orders \cup {None}, NEW m \in Customers, NEW n \in Nat,
         NEW clear \in BOOLEAN, NEW p \in Pendings \cup {None}
  PROVE  /\ ClaimOf(o, m, n, clear, p) \in Claim
         /\ ClaimOf(o, m, n, clear, p).order = o
         /\ ClaimOf(o, m, n, clear, p).member = m
         /\ ClaimOf(o, m, n, clear, p).pending = p
  BY DEF ClaimOf, Claim

LEMMA BasketsTyped == Baskets \subseteq Cart
  BY CashierAssumption DEF Cart, Customers

LEMMA InitType == Init => TypeOK
  BY NoRowsTyped DEF Init, TypeOK, Steps, Carried

(* A request may go idle, or to a step whose needs its new claim meets.    *)
LEMMA MoveKeepsLocals ==
  ASSUME pc \in [Reqs -> Steps], claim \in [Reqs -> Claim], Carried,
         NEW r \in Reqs, NEW step \in Steps, NEW k \in Claim,
         step \in {"refund", "credit"} => k.order \in Orders /\ k.amount > 0,
         step \in {"withdraw", "pay"} => k.member \in Members,
         step \in {"expire", "update", "pay", "mark"} => k.pending \in Pendings,
         pc' = [pc EXCEPT ![r] = step],
         claim' = [claim EXCEPT ![r] = k]
  PROVE  pc' \in [Reqs -> Steps] /\ claim' \in [Reqs -> Claim] /\ Carried'
  BY DEF Carried

LEMMA AnswerType ==
  ASSUME TypeOK, NEW r \in Reqs, Answer(r)
  PROVE  /\ pc' \in [Reqs -> Steps]
         /\ claim' \in [Reqs -> Claim]
         /\ cart' \in [Reqs -> Cart]
         /\ Carried'
  BY NoRowsTyped, MoveKeepsLocals DEF TypeOK, Answer, Goto, Steps

LEMMA ReleaseType ==
  ASSUME TypeOK, NEW r \in Reqs, Release(r)
  PROVE  queue' \in Seq(Reqs)
  BY DEF TypeOK, Release, Holds

LEMMA EnqueueType ==
  ASSUME TypeOK, NEW r \in Reqs, Enqueue(r)
  PROVE  queue' \in Seq(Reqs)
  BY DEF TypeOK, Enqueue

LEMMA DbRowsType ==
  ASSUME TypeOK, UNCHANGED dbRows
  PROVE  /\ balance' \in [Members -> Int] /\ points' \in [Members -> Int]
         /\ active' \in [Members -> BOOLEAN] /\ books' \in [Members -> Int]
         /\ opening' \in [Members -> Int] /\ order' \in [Orders -> OrderRow]
         /\ refundLog' \in [Orders -> Nat] /\ pending' \in [Pendings -> PendingRow]
  BY DEF TypeOK, dbRows, memberRows, orderRows

LEMMA PushCommitType ==
  ASSUME TypeOK, NEW r \in Reqs, PushCommit(r)
  PROVE  TypeOK'
  <1> DEFINE c == cart[r]
  <1>1. c \in Cart /\ queue' \in Seq(Reqs)
    BY ReleaseType DEF PushCommit, TypeOK
  <1>2. balance' \in [Members -> Int] /\ points' \in [Members -> Int]
    <2>1. CASE c.member \in Members
      <3>1. balance[c.member] - Deduction(c) \in Int /\ points[c.member] + c.earn - c.used \in Int
        BY <1>1, <2>1 DEF Deduction, Cart, TypeOK
      <3>2. /\ balance' = [balance EXCEPT ![c.member] = balance[c.member] - Deduction(c)]
            /\ points' = [points EXCEPT ![c.member] = points[c.member] + c.earn - c.used]
        BY <2>1 DEF PushCommit
      <3>3. QED
        BY <3>1, <3>2 DEF TypeOK
    <2>2. CASE c.member \notin Members
      BY <2>2 DEF PushCommit, TypeOK
    <2>3. QED
      BY <2>1, <2>2
  <1>3. PICK o \in Orders :
          /\ order' = [order EXCEPT ![o] = RungUp(c)]
          /\ AfterPush(r, o)
    BY DEF PushCommit
  <1>4. order' \in [Orders -> OrderRow]
    <2>1. RungUp(c) \in OrderRow
      BY <1>1 DEF RungUp, Cart, OrderRow
    <2>2. QED
      BY <1>3, <2>1 DEF TypeOK
  <1>5. /\ pc' \in [Reqs -> Steps]
        /\ claim' \in [Reqs -> Claim]
        /\ cart' \in [Reqs -> Cart]
        /\ Carried'
    <2>1. CASE c.pending = None
      BY <2>1, <1>3, AnswerType DEF AfterPush
    <2>2. CASE c.pending # None
      <3> DEFINE k == ClaimOf(o, c.member, 0, FALSE, c.pending)
      <3>1. k \in Claim /\ k.pending \in Pendings
        <4>1. c.member \in Customers /\ c.pending \in Pendings
          BY <1>1, <2>2 DEF Cart
        <4>2. QED
          BY <4>1 DEF ClaimOf, Claim
      <3>2. pc' = [pc EXCEPT ![r] = "mark"] /\ claim' = [claim EXCEPT ![r] = k]
              /\ cart' = [cart EXCEPT ![r] = NoCart]
        BY <1>3, <2>2 DEF AfterPush, Goto, Carry
      <3> HIDE DEF k
      <3>3. QED
        BY <3>1, <3>2, MoveKeepsLocals, NoRowsTyped DEF TypeOK, Steps
    <2>3. QED
      BY <2>1, <2>2
  <1>6. QED
    BY <1>1, <1>2, <1>4, <1>5 DEF PushCommit, TypeOK

LEMMA RefundReadType ==
  ASSUME TypeOK, NEW r \in Reqs, RefundRead(r)
  PROVE  TypeOK'
  <1> DEFINE k == claim[r]
             m == order[k.order].member
             new == [order |-> k.order, member |-> m, amount |-> k.amount,
                     clear |-> ClearsPoints(k),
                     read |-> IF m \in Members THEN points[m] ELSE 0,
                     paid |-> order[k.order].refunded, pending |-> None]
  <1>1. k \in Claim /\ k.order \in Orders /\ k.amount > 0
    BY DEF RefundRead, TypeOK, Carried
  <1>2. order[k.order] \in OrderRow
    BY <1>1 DEF TypeOK
  <1>3. ClearsPoints(k) \in BOOLEAN
    BY DEF ClearsPoints
  <1>4. new \in Claim /\ new.order \in Orders /\ new.amount > 0
    BY <1>1, <1>2, <1>3 DEF Claim, OrderRow, TypeOK
  <1>5. pc' = [pc EXCEPT ![r] = "credit"] /\ claim' = [claim EXCEPT ![r] = new]
    BY DEF RefundRead, Goto, Carry
  <1>6. UNCHANGED <<dbRows, queue, cart>>
    BY DEF RefundRead
  <1> HIDE DEF new
  <1>7. pc' \in [Reqs -> Steps] /\ claim' \in [Reqs -> Claim] /\ Carried'
    BY <1>4, <1>5, MoveKeepsLocals DEF TypeOK, Steps
  <1>8. QED
    BY <1>6, <1>7, DbRowsType DEF TypeOK

LEMMA RefundedTyped ==
  ASSUME NEW row \in OrderRow, NEW refunded \in Nat, NEW clear \in BOOLEAN
  PROVE  /\ Refunded(row, refunded, clear) \in OrderRow
         /\ Refunded(row, refunded, clear).member = row.member
         /\ Refunded(row, refunded, clear).money = row.money
         /\ Refunded(row, refunded, clear).refunded = refunded
         /\ Refunded(row, refunded, clear).charged = row.charged
         /\ Refunded(row, refunded, clear).pending = row.pending
         /\ Refunded(row, refunded, clear).status =
               IF refunded >= row.money THEN 2 ELSE row.status
  <1> DEFINE status  == IF FullyRefunded(refunded, row) THEN 2 ELSE row.status
             cleared == IF clear THEN TRUE ELSE row.cleared
  <1>1. status \in 0 .. 2
    BY DEF OrderRow
  <1>2. cleared \in BOOLEAN
    BY DEF OrderRow
  <1>3. status = IF refunded >= row.money THEN 2 ELSE row.status
    BY DEF FullyRefunded
  <1>4. Refunded(row, refunded, clear) =
          [status |-> status, member |-> row.member, money |-> row.money,
           refunded |-> refunded, charged |-> row.charged, used |-> row.used,
           earn |-> row.earn, cleared |-> cleared, pending |-> row.pending]
    BY DEF Refunded
  <1> HIDE DEF status, cleared
  <1>5. QED
    BY <1>1, <1>2, <1>3, <1>4 DEF OrderRow

LEMMA RefundCommitType ==
  ASSUME TypeOK, NEW r \in Reqs, RefundCommit(r)
  PROVE  TypeOK'
  <1> DEFINE k   == claim[r]
             row == order[k.order]
  <1>1. k \in Claim /\ k.order \in Orders
    BY DEF RefundCommit, TypeOK, Carried
  <1>2. row \in OrderRow
    BY <1>1 DEF TypeOK
  <1>3. k.paid + k.amount \in Nat /\ k.amount \in Nat
    BY <1>1 DEF Claim
  <1>4. order' \in [Orders -> OrderRow] /\ refundLog' \in [Orders -> Nat]
    <2>1. Refunded(row, k.paid + k.amount, k.clear) \in OrderRow
      BY <1>1, <1>2, <1>3, RefundedTyped DEF Claim
    <2>2. order' = [order EXCEPT ![k.order] = Refunded(row, k.paid + k.amount, k.clear)]
            /\ refundLog' = [refundLog EXCEPT ![k.order] = @ + k.amount]
      BY DEF RefundCommit
    <2>3. QED
      BY <1>1, <1>3, <2>1, <2>2 DEF TypeOK
  <1>5. Bigger(0, k.read + row.used - row.earn) \in Int
    BY <1>1, <1>2 DEF Bigger, Claim, OrderRow
  <1>6. balance' \in [Members -> Int] /\ books' \in [Members -> Int]
          /\ points' \in [Members -> Int]
    <2>1. CASE k.member \in Members
      <3>1. balance[k.member] + k.amount \in Int /\ books[k.member] + k.amount \in Int
        BY <1>3, <2>1 DEF TypeOK
      <3>2. /\ balance' = [balance EXCEPT ![k.member] = balance[k.member] + k.amount]
            /\ books' = [books EXCEPT ![k.member] = books[k.member] + k.amount]
            /\ points' = IF k.clear
                         THEN [points EXCEPT ![k.member] =
                                 Bigger(0, k.read + row.used - row.earn)]
                         ELSE points
        BY <2>1 DEF RefundCommit
      <3>3. QED
        BY <1>5, <3>1, <3>2 DEF TypeOK
    <2>2. CASE k.member \notin Members
      BY <2>2 DEF RefundCommit, TypeOK
    <2>3. QED
      BY <2>1, <2>2
  <1>7. Answer(r) /\ Release(r) /\ UNCHANGED <<active, opening, pending>>
    BY DEF RefundCommit
  <1>8. QED
    BY <1>4, <1>6, <1>7, AnswerType, ReleaseType DEF TypeOK

(* Account operations write integers to the member row and nothing else.   *)
LEMMA AccountType ==
  ASSUME TypeOK, NEW m \in Members, Account(m)
  PROVE  TypeOK'
  <1> USE DEF TypeOK, orderRows, locals, Carried
  <1>1. ASSUME Recharge(m) PROVE TypeOK'
    <2>1. PICK n \in Amounts : balance' = [balance EXCEPT ![m] = balance[m] + n]
                              /\ books' = [books EXCEPT ![m] = books[m] + n]
      BY <1>1 DEF Recharge
    <2>2. balance[m] + n \in Int /\ books[m] + n \in Int
      BY CashierAssumption
    <2>3. balance' \in [Members -> Int] /\ books' \in [Members -> Int]
      BY <2>1, <2>2
    <2>4. QED
      BY <1>1, <2>3 DEF Recharge
  <1>2. ASSUME NEW b \in EditBalances \cup {balance[m]}, NEW p \in EditPoints \cup {points[m]},
               balance' = [balance EXCEPT ![m] = b],
               opening' = [opening EXCEPT ![m] = opening[m] + b - balance[m]],
               points' = [points EXCEPT ![m] = p]
        PROVE  /\ balance' \in [Members -> Int]
               /\ opening' \in [Members -> Int]
               /\ points' \in [Members -> Int]
    <2>1. b \in Int /\ p \in Int
      BY CashierAssumption
    <2>2. opening[m] + b - balance[m] \in Int
      BY <2>1
    <2>3. QED
      BY <1>2, <2>1, <2>2
  <1>3. ASSUME EditMember(m) PROVE TypeOK'
    <2>1. PICK b \in EditBalances \cup {balance[m]}, p \in EditPoints \cup {points[m]} :
            /\ balance' = [balance EXCEPT ![m] = b]
            /\ opening' = [opening EXCEPT ![m] = opening[m] + b - balance[m]]
            /\ points' = [points EXCEPT ![m] = p]
      BY <1>3 DEF EditMember
    <2>2. active' \in [Members -> BOOLEAN]
      BY <1>3 DEF EditMember
    <2>3. QED
      BY <1>2, <1>3, <2>1, <2>2 DEF EditMember
  <1>4. ASSUME RemoveMember(m) PROVE TypeOK'
    BY <1>4 DEF RemoveMember
  <1>5. ASSUME ReactivateMember(m) PROVE TypeOK'
    BY <1>2, <1>5 DEF ReactivateMember
  <1>6. QED
    BY <1>1, <1>3, <1>4, <1>5 DEF Account

LEMMA WithdrawCommitType ==
  ASSUME TypeOK, NEW r \in Reqs, WithdrawCommit(r)
  PROVE  TypeOK'
  <1> DEFINE k == claim[r]
  <1>1. k \in Claim /\ k.member \in Members
    BY DEF TypeOK, Carried, WithdrawCommit
  <1>2. balance[k.member] - k.amount \in Int /\ books[k.member] - k.amount \in Int
    BY <1>1 DEF TypeOK, Claim
  <1>3. /\ balance' \in [Members -> Int]
        /\ books' \in [Members -> Int]
        /\ points' \in [Members -> Int]
    <2>1. /\ balance' = [balance EXCEPT ![k.member] = balance[k.member] - k.amount]
          /\ books' = [books EXCEPT ![k.member] = books[k.member] - k.amount]
          /\ points' = IF k.clear THEN [points EXCEPT ![k.member] = 0] ELSE points
      BY DEF WithdrawCommit
    <2> HIDE DEF k
    <2>2. QED
      BY <1>1, <1>2, <2>1 DEF TypeOK
  <1>4. QED
    BY <1>3, AnswerType DEF TypeOK, WithdrawCommit, orderRows

LEMMA PendingWriteType ==
  ASSUME TypeOK, NEW p \in Pendings, NEW row \in PendingRow,
         pending' = [pending EXCEPT ![p] = row]
  PROVE  pending' \in [Pendings -> PendingRow]
  BY DEF TypeOK

(* A request that begins with claim k at a given step, or continues there. *)
LEMMA BeginType ==
  ASSUME TypeOK, NEW r \in Reqs, NEW step \in Steps, NEW k \in Claim,
         step \in {"refund", "credit"} => k.order \in Orders /\ k.amount > 0,
         step \in {"withdraw", "pay"} => k.member \in Members,
         step \in {"expire", "update", "pay", "mark"} => k.pending \in Pendings,
         Goto(r, step), Carry(r, k), UNCHANGED <<dbRows, cart>>, queue' \in Seq(Reqs)
  PROVE  TypeOK'
  <1>1. pc' \in [Reqs -> Steps] /\ claim' \in [Reqs -> Claim] /\ Carried'
    BY MoveKeepsLocals DEF TypeOK, Goto, Carry
  <1>2. QED
    BY <1>1, DbRowsType DEF TypeOK

LEMMA AnswerOnlyType ==
  ASSUME TypeOK, NEW r \in Reqs, Answer(r), UNCHANGED dbRows, queue' \in Seq(Reqs)
  PROVE  TypeOK'
  BY AnswerType, DbRowsType DEF TypeOK

LEMMA BeginsType ==
  ASSUME TypeOK, NEW r \in Reqs, Begin(r)
  PROVE  TypeOK'
  <1> USE DEF Steps
  <1>1. ASSUME Checkout(r) PROVE TypeOK'
    <2>1. cart' \in [Reqs -> Cart] /\ queue' \in Seq(Reqs) /\ UNCHANGED <<dbRows, claim>>
      BY <1>1, BasketsTyped, EnqueueType DEF Checkout, TypeOK
    <2>2. pc' = [pc EXCEPT ![r] = "push"]
      BY <1>1 DEF Checkout, Goto
    <2>3. pc' \in [Reqs -> Steps] /\ Carried'
      BY <2>1, <2>2 DEF TypeOK, Carried
    <2>4. QED
      BY <2>1, <2>3, DbRowsType DEF TypeOK
  <1>2. ASSUME AskRefund(r) PROVE TypeOK'
    <2>1. PICK o \in Orders, n \in Amounts, clear \in BOOLEAN :
            Carry(r, ClaimOf(o, Guest, n, clear, None))
      BY <1>2 DEF AskRefund
    <2>2. /\ ClaimOf(o, Guest, n, clear, None) \in Claim
          /\ ClaimOf(o, Guest, n, clear, None).order \in Orders
          /\ ClaimOf(o, Guest, n, clear, None).amount > 0
      BY CashierAssumption DEF ClaimOf, Claim, Customers
    <2>3. QED
      BY <1>2, <2>1, <2>2, BeginType, EnqueueType DEF AskRefund
  <1>3. ASSUME WithdrawRead(r) PROVE TypeOK'
    <2>1. PICK m \in Members, n \in Amounts, clear \in BOOLEAN :
            Carry(r, ClaimOf(None, m, n, clear, None))
      BY <1>3 DEF WithdrawRead
    <2>2. /\ ClaimOf(None, m, n, clear, None) \in Claim
          /\ ClaimOf(None, m, n, clear, None).member \in Members
      BY CashierAssumption DEF ClaimOf, Claim, Customers
    <2>3. QED
      BY <1>3, <2>1, <2>2, BeginType DEF WithdrawRead, TypeOK
  <1>4. ASSUME FindLapsed(r) PROVE TypeOK'
    <2>1. PICK p \in Pendings : Carry(r, ClaimOf(None, Guest, 0, FALSE, p))
      BY <1>4 DEF FindLapsed
    <2>2. /\ ClaimOf(None, Guest, 0, FALSE, p) \in Claim
          /\ ClaimOf(None, Guest, 0, FALSE, p).pending \in Pendings
      BY DEF ClaimOf, Claim, Customers
    <2>3. QED
      BY <1>4, <2>1, <2>2, BeginType DEF FindLapsed, TypeOK
  <1>5. ASSUME UpdateRead(r) PROVE TypeOK'
    <2>1. PICK p \in Pendings, n \in Amounts : Carry(r, ClaimOf(None, Guest, n, FALSE, p))
      BY <1>5 DEF UpdateRead
    <2>2. /\ ClaimOf(None, Guest, n, FALSE, p) \in Claim
          /\ ClaimOf(None, Guest, n, FALSE, p).pending \in Pendings
      BY CashierAssumption DEF ClaimOf, Claim, Customers
    <2>3. QED
      BY <1>5, <2>1, <2>2, BeginType DEF UpdateRead, TypeOK
  <1>6. ASSUME PayRead(r) PROVE TypeOK'
    <2>1. PICK p \in Pendings, m \in Members :
            Carry(r, ClaimOf(None, m, pending[p].total, FALSE, p))
      BY <1>6 DEF PayRead
    <2>2. pending[p].total \in Nat
      BY DEF TypeOK, PendingRow
    <2>3. /\ ClaimOf(None, m, pending[p].total, FALSE, p) \in Claim
          /\ ClaimOf(None, m, pending[p].total, FALSE, p).pending \in Pendings
          /\ ClaimOf(None, m, pending[p].total, FALSE, p).member \in Members
      BY <2>2 DEF ClaimOf, Claim, Customers
    <2>4. QED
      BY <1>6, <2>1, <2>3, BeginType DEF PayRead, TypeOK
  <1>7. QED
    BY <1>1, <1>2, <1>3, <1>4, <1>5, <1>6 DEF Begin

LEMMA PayPriceType ==
  ASSUME TypeOK, NEW r \in Reqs, PayPrice(r)
  PROVE  TypeOK'
  <1> DEFINE k    == claim[r]
             calc == MemberPayAmounts(k.amount, points[k.member], Settings)
             new  == [member |-> k.member, money |-> calc.payable, charge |-> TRUE,
                      used |-> calc.used, earn |-> calc.earn, pending |-> k.pending]
  <1>1. k \in Claim /\ k.member \in Members /\ k.pending \in Pendings
    BY DEF PayPrice, TypeOK, Carried
  <1>2. calc.payable \in Nat /\ calc.used \in Nat /\ calc.earn \in Nat
    <2>1. k.amount \in Nat /\ points[k.member] \in Int
      BY <1>1 DEF Claim, TypeOK
    <2>2. QED
      BY <2>1, MemberPayTyped, CashierAssumption
  <1> HIDE DEF calc
  <1>3. new \in Cart
    BY <1>1, <1>2 DEF Cart, Customers
  <1>4. cart' = [cart EXCEPT ![r] = new] /\ Carry(r, NoClaim) /\ Goto(r, "push")
          /\ Enqueue(r) /\ UNCHANGED dbRows
    BY DEF PayPrice, calc
  <1> HIDE DEF new
  <1>5. cart' \in [Reqs -> Cart] /\ queue' \in Seq(Reqs)
    BY <1>3, <1>4, EnqueueType DEF TypeOK
  <1>6. pc' \in [Reqs -> Steps] /\ claim' \in [Reqs -> Claim] /\ Carried'
    BY <1>4, NoRowsTyped, MoveKeepsLocals DEF TypeOK, Steps, Goto, Carry
  <1>7. QED
    BY <1>4, <1>5, <1>6, DbRowsType DEF TypeOK

(* Writes to a pending row: expiry, update, payment mark, creation, time.  *)
LEMMA PendingRowsTyped ==
  ASSUME NEW row \in PendingRow, NEW n \in Nat, NEW o \in Orders \cup {None},
         NEW status \in {"pending", "paid", "expired"}
  PROVE  /\ [row EXCEPT !.status = status] \in PendingRow
         /\ [row EXCEPT !.lapsed = TRUE] \in PendingRow
         /\ [row EXCEPT !.total = n, !.lapsed = FALSE] \in PendingRow
         /\ [row EXCEPT !.status = status, !.order = o] \in PendingRow
  BY DEF PendingRow

LEMMA PendingStepsType ==
  ASSUME TypeOK, NEW r \in Reqs, ExpireWrite(r) \/ UpdateWrite(r) \/ MarkPaid(r)
  PROVE  TypeOK'
  <1> DEFINE k == claim[r]
             row == pending[k.pending]
  <1>1. k \in Claim /\ k.pending \in Pendings /\ row \in PendingRow
    BY DEF ExpireWrite, UpdateWrite, MarkPaid, TypeOK, Carried
  <1>2. k.amount \in Nat /\ k.order \in Orders \cup {None}
    BY <1>1 DEF Claim
  <1>3. PICK new \in PendingRow : pending' = [pending EXCEPT ![k.pending] = new]
    <2>1. CASE ExpireWrite(r)
      BY <2>1, <1>1, PendingRowsTyped DEF ExpireWrite
    <2>2. CASE UpdateWrite(r)
      BY <2>2, <1>1, <1>2, PendingRowsTyped DEF UpdateWrite
    <2>3. CASE MarkPaid(r)
      BY <2>3, <1>1, <1>2, PendingRowsTyped DEF MarkPaid
    <2>4. QED
      BY <2>1, <2>2, <2>3
  <1>4. pending' \in [Pendings -> PendingRow]
    BY <1>1, <1>3, PendingWriteType
  <1>5. Answer(r) /\ UNCHANGED <<memberRows, orderRows, queue>>
    BY DEF ExpireWrite, UpdateWrite, MarkPaid
  <1>6. QED
    BY <1>4, <1>5, AnswerType DEF TypeOK, memberRows, orderRows

LEMMA NextType == TypeOK /\ [Next]_vars => TypeOK'
  <1> SUFFICES ASSUME TypeOK, [Next]_vars PROVE TypeOK'
    OBVIOUS
  <1>1. ASSUME NEW r \in Reqs, Begin(r) PROVE TypeOK'
    BY <1>1, BeginsType
  <1>2. ASSUME NEW r \in Reqs, Continue(r) PROVE TypeOK'
    <2>1. CASE PushCommit(r)
      BY <2>1, PushCommitType
    <2>2. CASE PushFail(r) \/ RefundRefuse(r) \/ RefundFail(r)
      BY <2>2, ReleaseType, AnswerOnlyType DEF PushFail, RefundRefuse, RefundFail
    <2>3. CASE RefundRead(r)
      BY <2>3, RefundReadType
    <2>4. CASE RefundCommit(r)
      BY <2>4, RefundCommitType
    <2>5. CASE WithdrawCommit(r)
      BY <2>5, WithdrawCommitType
    <2>6. CASE ExpireWrite(r) \/ UpdateWrite(r) \/ MarkPaid(r)
      BY <2>6, PendingStepsType
    <2>7. CASE PayPrice(r)
      BY <2>7, PayPriceType
    <2>8. CASE PayRefuse(r)
      BY <2>8, AnswerOnlyType DEF PayRefuse, TypeOK
    <2>9. QED
      BY <1>2, <2>1, <2>2, <2>3, <2>4, <2>5, <2>6, <2>7, <2>8 DEF Continue
  <1>3. ASSUME NEW m \in Members, Account(m) PROVE TypeOK'
    BY <1>3, AccountType
  <1>4. ASSUME NEW p \in Pendings, CreatePending(p) \/ Lapse(p) PROVE TypeOK'
    <2>1. PICK row \in PendingRow : pending' = [pending EXCEPT ![p] = row]
      <3>1. CASE CreatePending(p)
        <4>1. \A n \in Amounts :
                [status |-> "pending", total |-> n, lapsed |-> FALSE, order |-> None] \in PendingRow
          BY CashierAssumption DEF PendingRow
        <4>2. QED
          BY <3>1, <4>1 DEF CreatePending
      <3>2. CASE Lapse(p)
        <4>1. pending[p] \in PendingRow
          BY DEF TypeOK
        <4>2. [pending[p] EXCEPT !.lapsed = TRUE] \in PendingRow
          BY <4>1 DEF PendingRow
        <4>3. QED
          BY <3>2, <4>2 DEF Lapse
      <3>3. QED
        BY <1>4, <3>1, <3>2
    <2>2. pending' \in [Pendings -> PendingRow]
      BY <2>1, PendingWriteType
    <2>3. QED
      BY <1>4, <2>2 DEF CreatePending, Lapse, TypeOK, memberRows, orderRows, locals, Carried
  <1>5. CASE Crash
    <2>1. /\ pc' \in [Reqs -> Steps] /\ cart' \in [Reqs -> Cart] /\ claim' \in [Reqs -> Claim]
          /\ queue' \in Seq(Reqs) /\ Carried'
      BY <1>5, NoRowsTyped DEF Crash, Steps, Carried
    <2>2. QED
      BY <1>5, <2>1, DbRowsType DEF Crash, TypeOK
  <1>6. CASE UNCHANGED vars
    BY <1>6 DEF vars, TypeOK, Carried
  <1>7. QED
    BY <1>1, <1>2, <1>3, <1>4, <1>5, <1>6 DEF Next

(* Column types hold in every reachable state: no payment or refund ever   *)
(* writes a negative amount of money into an order.                        *)
THEOREM TypeCorrect == Spec => []TypeOK
  BY InitType, NextType, PTL DEF Spec

(***************************************************************************)
(* Refunds.  RefundBooks alone is not inductive: refundOrder computes the  *)
(* new refunded amount from what it read before its transaction.  The      *)
(* strengthening RefundReadsCurrent says that the reading is still current *)
(* at commit time, because the reader is at the head of the promise chain  *)
(* and every write to an order is made by the head.                        *)
(***************************************************************************)
RefundInv == RefundBooks /\ RefundReadsCurrent

(* The head leaves the chain: nobody is between reading and committing.    *)
LEMMA HeadLeaves ==
  ASSUME TypeOK, RefundReadsCurrent, NEW r \in Reqs, Release(r),
         NEW step \in Steps \ {"credit"}, pc' = [pc EXCEPT ![r] = step]
  PROVE  RefundReadsCurrent'
  <1>1. ASSUME NEW q \in Reqs, pc'[q] = "credit" PROVE FALSE
    <2>1. q # r /\ pc[q] = "credit"
      BY <1>1 DEF TypeOK
    <2>2. Head(queue) = q /\ Head(queue) = r
      BY <2>1 DEF RefundReadsCurrent, Holds, Release
    <2>3. QED
      BY <2>1, <2>2
  <1>2. QED
    BY <1>1 DEF RefundReadsCurrent

LEMMA AppendHead ==
  ASSUME NEW q \in Seq(Reqs), NEW r \in Reqs, q # <<>>
  PROVE  Append(q, r) # <<>> /\ Head(Append(q, r)) = Head(q)
  BY AppendProperties

(* A request moves elsewhere, possibly joining the chain; orders stay.     *)
LEMMA OthersMove ==
  ASSUME TypeOK, RefundReadsCurrent, NEW r \in Reqs, UNCHANGED order,
         NEW step \in Steps \ {"credit"}, pc' = [pc EXCEPT ![r] = step],
         NEW k, claim' = [claim EXCEPT ![r] = k] \/ claim' = claim,
         queue' = queue \/ queue' = Append(queue, r)
  PROVE  RefundReadsCurrent'
  <1>1. ASSUME NEW q \in Reqs, pc'[q] = "credit"
        PROVE  q # r /\ pc[q] = "credit" /\ claim'[q] = claim[q] /\ Holds(q)'
    <2>1. q # r /\ pc[q] = "credit" /\ claim'[q] = claim[q]
      BY <1>1 DEF TypeOK
    <2>2. queue # <<>> /\ Head(queue) = q
      BY <2>1 DEF RefundReadsCurrent, Holds
    <2>3. queue' # <<>> /\ Head(queue') = Head(queue)
      BY <2>2, AppendHead DEF TypeOK
    <2>4. QED
      BY <2>1, <2>2, <2>3 DEF Holds
  <1>2. QED
    BY <1>1 DEF RefundReadsCurrent, ReadIsCurrent, Refundable

LEMMA BooksFrame ==
  ASSUME RefundBooks, UNCHANGED orderRows
  PROVE  RefundBooks'
  BY DEF RefundBooks, orderRows

LEMMA RungUpFacts ==
  ASSUME NEW c \in Cart
  PROVE  /\ RungUp(c).status = 1 /\ RungUp(c).refunded = 0
         /\ RungUp(c).money = c.money /\ RungUp(c).member = c.member
         /\ RungUp(c).charged = c.charge /\ RungUp(c).pending = c.pending
         /\ c.money \in Nat /\ c.member \in Customers
  BY DEF RungUp, Cart

LEMMA AfterPushFacts ==
  ASSUME TypeOK, NEW r \in Reqs, NEW o, AfterPush(r, o)
  PROVE  \E step \in Steps \ {"credit"} : pc' = [pc EXCEPT ![r] = step]
  BY DEF AfterPush, Answer, Goto, Steps

LEMMA PushCommitRefunds ==
  ASSUME TypeOK, RefundInv, NEW r \in Reqs, PushCommit(r)
  PROVE  RefundInv'
  <1> DEFINE c == cart[r]
  <1>1. PICK o \in Orders : /\ order[o].status = 0
                           /\ order' = [order EXCEPT ![o] = RungUp(c)]
                           /\ AfterPush(r, o)
    BY DEF PushCommit
  <1>2. c \in Cart /\ refundLog' = refundLog /\ Release(r)
    BY DEF PushCommit, TypeOK
  <1>3. refundLog[o] = 0
    BY <1>1 DEF RefundInv, RefundBooks, NoOrder
  <1>4. RefundBooks'
    <2> SUFFICES ASSUME NEW x \in Orders
                 PROVE  /\ order'[x].refunded = refundLog'[x]
                        /\ order'[x].refunded <= order'[x].money
                        /\ order'[x].status = 0 => order'[x] = NoOrder
                        /\ order'[x].status = 2 <=>
                             (order'[x].money > 0 /\ order'[x].refunded = order'[x].money)
      BY DEF RefundBooks
    <2>1. CASE x = o
      <3>1. order'[x] = RungUp(c)
        BY <1>1, <2>1 DEF TypeOK
      <3>2. QED
        BY <3>1, <2>1, <1>2, <1>3, RungUpFacts
    <2>2. CASE x # o
      BY <2>2, <1>1, <1>2 DEF RefundInv, RefundBooks, TypeOK
    <2>3. QED
      BY <2>1, <2>2
  <1>5. RefundReadsCurrent'
    BY <1>1, <1>2, AfterPushFacts, HeadLeaves DEF RefundInv
  <1>6. QED
    BY <1>4, <1>5 DEF RefundInv

LEMMA RefundReadRefunds ==
  ASSUME TypeOK, RefundInv, NEW r \in Reqs, RefundRead(r)
  PROVE  RefundInv'
  <1> DEFINE k == claim[r]
             m == order[k.order].member
             new == [order |-> k.order, member |-> m, amount |-> k.amount,
                     clear |-> ClearsPoints(k),
                     read |-> IF m \in Members THEN points[m] ELSE 0,
                     paid |-> order[k.order].refunded, pending |-> None]
  <1>1. k \in Claim /\ k.order \in Orders /\ k.amount > 0 /\ order[k.order] \in OrderRow
    BY DEF RefundRead, TypeOK, Carried
  <1>2. /\ Holds(r) /\ MayRefund(k.order, k.amount)
        /\ pc' = [pc EXCEPT ![r] = "credit"] /\ claim' = [claim EXCEPT ![r] = new]
        /\ UNCHANGED <<order, refundLog, queue>>
    BY DEF RefundRead, Goto, Carry, dbRows, orderRows
  <1>3. /\ new.order = k.order /\ new.member = order[k.order].member
        /\ new.amount = k.amount /\ new.paid = order[k.order].refunded
    OBVIOUS
  <1>4. /\ order[k.order].status = 1 /\ order[k.order].member # Unknown
        /\ k.amount \in 1 .. Refundable(k.order)
    <2>1. k.amount \in Nat /\ Refundable(k.order) \in Int
      BY <1>1 DEF Claim, OrderRow, Refundable
    <2>2. QED
      BY <1>1, <1>2, <2>1 DEF MayRefund
  <1> HIDE DEF new
  <1>5. RefundReadsCurrent'
    <2> SUFFICES ASSUME NEW q \in Reqs, pc'[q] = "credit"
                 PROVE  Holds(q)' /\ ReadIsCurrent(q)'
      BY DEF RefundReadsCurrent
    <2>1. CASE q = r
      <3>1. claim'[q] = new
        BY <1>2, <2>1 DEF TypeOK
      <3>2. QED
        BY <1>2, <1>3, <1>4, <2>1, <3>1 DEF Holds, Refundable, ReadIsCurrent
    <2>2. CASE q # r
      <3>1. pc[q] = "credit"
        BY <1>2, <2>2 DEF TypeOK
      <3>2. Head(queue) = q /\ Head(queue) = r
        BY <1>2, <3>1 DEF RefundInv, RefundReadsCurrent, Holds
      <3>3. QED
        BY <2>2, <3>2
    <2>3. QED
      BY <2>1, <2>2
  <1>6. RefundBooks'
    BY <1>2, BooksFrame DEF RefundInv, orderRows
  <1>7. QED
    BY <1>5, <1>6 DEF RefundInv

LEMMA RefundCommitRefunds ==
  ASSUME TypeOK, RefundInv, NEW r \in Reqs, RefundCommit(r)
  PROVE  RefundInv'
  <1> DEFINE k   == claim[r]
             o   == k.order
             row == order[o]
             new == k.paid + k.amount
  <1>1. k \in Claim /\ o \in Orders /\ row \in OrderRow
    BY DEF RefundCommit, TypeOK, Carried
  <1>2. /\ row.status = 1 /\ row.refunded = k.paid
        /\ k.amount \in 1 .. (row.money - row.refunded)
    BY DEF RefundCommit, RefundInv, RefundReadsCurrent, ReadIsCurrent, Refundable
  <1>3. /\ order' = [order EXCEPT ![o] = Refunded(row, new, k.clear)]
        /\ refundLog' = [refundLog EXCEPT ![o] = refundLog[o] + k.amount]
        /\ Release(r) /\ Answer(r)
    BY DEF RefundCommit
  <1>4. row.refunded = refundLog[o] /\ row.money \in Nat /\ row.refunded \in Nat
    BY <1>1 DEF RefundInv, RefundBooks, OrderRow
  <1>5. /\ Refunded(row, new, k.clear).refunded = new
        /\ Refunded(row, new, k.clear).money = row.money
        /\ Refunded(row, new, k.clear).status = IF new >= row.money THEN 2 ELSE 1
    <2>1. new \in Nat /\ k.clear \in BOOLEAN
      BY <1>1 DEF Claim
    <2>2. QED
      BY <1>1, <1>2, <2>1, RefundedTyped
  <1>6. RefundBooks'
    <2> SUFFICES ASSUME NEW x \in Orders
                 PROVE  /\ order'[x].refunded = refundLog'[x]
                        /\ order'[x].refunded <= order'[x].money
                        /\ order'[x].status = 0 => order'[x] = NoOrder
                        /\ order'[x].status = 2 <=>
                             (order'[x].money > 0 /\ order'[x].refunded = order'[x].money)
      BY DEF RefundBooks
    <2>1. CASE x = o
      <3>1. order'[x] = Refunded(row, new, k.clear) /\ refundLog'[x] = refundLog[o] + k.amount
        BY <1>1, <1>3, <2>1 DEF TypeOK
      <3> HIDE DEF k, o, row, new
      <3>2. new = row.refunded + k.amount
        BY <1>2 DEF new
      <3>3. QED
        BY <1>2, <1>4, <1>5, <3>1, <3>2
    <2>2. CASE x # o
      <3>1. order'[x] = order[x] /\ refundLog'[x] = refundLog[x]
        BY <1>3, <2>2 DEF TypeOK
      <3>2. QED
        BY <3>1 DEF RefundInv, RefundBooks
    <2>3. QED
      BY <2>1, <2>2
  <1>7. RefundReadsCurrent'
    <2>1. pc' = [pc EXCEPT ![r] = "idle"]
      BY <1>3 DEF Answer, Goto
    <2>2. QED
      BY <1>3, <2>1, HeadLeaves DEF RefundInv, Steps
  <1>8. QED
    BY <1>6, <1>7 DEF RefundInv

(* Every other step of a request leaves the order tables alone and moves   *)
(* only that request.                                                      *)
LEMMA OtherStepsRefunds ==
  ASSUME TypeOK, RefundInv, NEW r \in Reqs,
         \/ Begin(r)
         \/ PushFail(r) \/ RefundRefuse(r) \/ RefundFail(r) \/ WithdrawCommit(r)
         \/ ExpireWrite(r) \/ UpdateWrite(r) \/ PayPrice(r) \/ PayRefuse(r) \/ MarkPaid(r)
  PROVE  RefundInv'
  <1> USE DEF Goto, Carry, Enqueue, Answer, dbRows, orderRows
  <1>1. UNCHANGED orderRows
    BY DEF Begin, Checkout, AskRefund, WithdrawRead, FindLapsed, UpdateRead, PayRead,
           PushFail, RefundRefuse, RefundFail, WithdrawCommit, ExpireWrite, UpdateWrite,
           PayPrice, PayRefuse, MarkPaid
  <1>2. RefundBooks'
    BY <1>1, BooksFrame DEF RefundInv
  <1>3. CASE PushFail(r) \/ RefundRefuse(r) \/ RefundFail(r)
    <2>1. Release(r) /\ pc' = [pc EXCEPT ![r] = "idle"]
      BY <1>3 DEF PushFail, RefundRefuse, RefundFail
    <2>2. QED
      BY <1>2, <2>1, HeadLeaves DEF RefundInv, Steps
  <1>4. CASE \/ Begin(r) \/ WithdrawCommit(r) \/ ExpireWrite(r) \/ UpdateWrite(r)
             \/ PayPrice(r) \/ PayRefuse(r) \/ MarkPaid(r)
    <2>1. PICK step \in Steps \ {"credit"} : pc' = [pc EXCEPT ![r] = step]
      BY <1>4 DEF Begin, Checkout, AskRefund, WithdrawRead, FindLapsed, UpdateRead, PayRead,
                  WithdrawCommit, ExpireWrite, UpdateWrite, PayPrice, PayRefuse, MarkPaid, Steps
    <2>2. queue' = queue \/ queue' = Append(queue, r)
      BY <1>4 DEF Begin, Checkout, AskRefund, WithdrawRead, FindLapsed, UpdateRead, PayRead,
                  WithdrawCommit, ExpireWrite, UpdateWrite, PayPrice, PayRefuse, MarkPaid
    <2>3. \E k : claim' = [claim EXCEPT ![r] = k] \/ claim' = claim
      BY <1>4 DEF Begin, Checkout, AskRefund, WithdrawRead, FindLapsed, UpdateRead, PayRead,
                  WithdrawCommit, ExpireWrite, UpdateWrite, PayPrice, PayRefuse, MarkPaid
    <2>4. QED
      BY <1>1, <1>2, <2>1, <2>2, <2>3, OthersMove DEF RefundInv
  <1>5. QED
    BY <1>3, <1>4

LEMMA InitRefunds == Init => RefundInv
  BY DEF Init, RefundInv, RefundBooks, RefundReadsCurrent, NoOrder

LEMMA NextRefunds == TypeOK /\ RefundInv /\ [Next]_vars => RefundInv'
  <1> SUFFICES ASSUME TypeOK, RefundInv, [Next]_vars PROVE RefundInv'
    OBVIOUS
  <1>1. ASSUME NEW r \in Reqs, Begin(r) \/ Continue(r) PROVE RefundInv'
    BY <1>1, PushCommitRefunds, RefundReadRefunds, RefundCommitRefunds, OtherStepsRefunds
       DEF Continue
  <1>2. ASSUME UNCHANGED <<orderRows, queue, pc, claim>> PROVE RefundInv'
    BY <1>2, BooksFrame
       DEF RefundInv, RefundReadsCurrent, ReadIsCurrent, Refundable, Holds, orderRows
  <1>3. ASSUME NEW m \in Members, Account(m) PROVE RefundInv'
    BY <1>2, <1>3
       DEF Account, Recharge, EditMember, RemoveMember, ReactivateMember, locals
  <1>4. ASSUME NEW p \in Pendings, CreatePending(p) \/ Lapse(p) PROVE RefundInv'
    BY <1>2, <1>4 DEF CreatePending, Lapse, locals
  <1>5. CASE Crash
    <2>1. RefundReadsCurrent'
      BY <1>5 DEF Crash, RefundReadsCurrent
    <2>2. QED
      BY <1>5, <2>1, BooksFrame DEF Crash, RefundInv, dbRows
  <1>6. CASE UNCHANGED vars
    BY <1>2, <1>6 DEF vars, orderRows
  <1>7. QED
    BY <1>1, <1>3, <1>4, <1>5, <1>6 DEF Next

(* What a refund read before its transaction is still true when it commits.*)
THEOREM RefundsReadCurrentRows == Spec => []RefundReadsCurrent
  <1>1. RefundInv => RefundReadsCurrent
    BY DEF RefundInv
  <1>2. QED
    BY <1>1, InitType, NextType, InitRefunds, NextRefunds, PTL DEF Spec

(* However refunds, checkouts, account operations and restarts interleave, *)
(* an order never gives back more than it took, its refund rows add up to  *)
(* its refunded_amount, and status 2 means exactly fully refunded.         *)
THEOREM RefundsWithinMoney == Spec => []RefundBooks
  <1>1. RefundInv => RefundBooks
    BY DEF RefundInv
  <1>2. QED
    BY <1>1, InitType, NextType, InitRefunds, NextRefunds, PTL DEF Spec

(***************************************************************************)
(* Points.  A refund decides to take points back when it reads the order;  *)
(* the reversal happens once because that reading is still current, for    *)
(* the reason above, when the refund commits.                              *)
(***************************************************************************)
ClearsOnce == \A r \in Reqs : (pc[r] = "credit" /\ claim[r].clear)
                                  => ~order[claim[r].order].cleared

LEMMA OrderWriters ==
  ASSUME [Next]_vars
  PROVE  \/ UNCHANGED order
         \/ \E r \in Reqs : PushCommit(r) \/ RefundCommit(r)
  BY DEF Next, vars, Begin, Continue, Account, Checkout, AskRefund, WithdrawRead, FindLapsed,
         UpdateRead, PayRead, PushFail, RefundRead, RefundRefuse, RefundFail, WithdrawCommit,
         ExpireWrite, UpdateWrite, PayPrice, PayRefuse, MarkPaid, Recharge, EditMember,
         RemoveMember, ReactivateMember, CreatePending, Lapse, Crash, dbRows, orderRows

LEMMA NextClears == TypeOK /\ RefundInv /\ ClearsOnce /\ [Next]_vars => ClearsOnce'
  <1> SUFFICES ASSUME TypeOK, RefundInv, ClearsOnce, [Next]_vars,
                      NEW q \in Reqs, pc'[q] = "credit", claim'[q].clear
               PROVE  ~order'[claim'[q].order].cleared
    BY DEF ClearsOnce
  <1>1. CASE RefundRead(q)
    <2> DEFINE k == claim[q]
    <2>1. /\ claim'[q].order = k.order /\ claim'[q].clear = ClearsPoints(k)
          /\ order' = order
      BY <1>1 DEF RefundRead, Carry, TypeOK, dbRows, orderRows
    <2>2. QED
      BY <2>1 DEF ClearsPoints
  <1>2. CASE ~RefundRead(q)
    <2>1. pc[q] = "credit" /\ claim'[q] = claim[q]
      <3>1. ASSUME NEW r \in Reqs, Begin(r) \/ Continue(r)
            PROVE  pc[q] = "credit" /\ claim'[q] = claim[q]
        <4>1. CASE RefundRead(r)
          <5>1. r # q
            BY <1>2, <4>1
          <5>2. QED
            BY <4>1, <5>1 DEF RefundRead, Goto, Carry, TypeOK
        <4>2. CASE ~RefundRead(r)
          <5>1. PICK step \in Steps \ {"credit"} : pc' = [pc EXCEPT ![r] = step]
            BY <3>1, <4>2 DEF Begin, Continue, Checkout, AskRefund, WithdrawRead, FindLapsed,
                UpdateRead, PayRead, PushCommit, AfterPush, PushFail, RefundRefuse, RefundCommit,
                RefundFail, WithdrawCommit, ExpireWrite, UpdateWrite, PayPrice, PayRefuse,
                MarkPaid, Answer, Goto, Steps
          <5>2. r # q
            BY <5>1 DEF TypeOK
          <5>3. \E k : claim' = claim \/ claim' = [claim EXCEPT ![r] = k]
            BY <3>1, <4>2 DEF Begin, Continue, Checkout, AskRefund, WithdrawRead, FindLapsed,
                UpdateRead, PayRead, PushCommit, AfterPush, PushFail, RefundRefuse, RefundCommit,
                RefundFail, WithdrawCommit, ExpireWrite, UpdateWrite, PayPrice, PayRefuse,
                MarkPaid, Answer, Carry
          <5>4. QED
            BY <5>1, <5>2, <5>3 DEF TypeOK
        <4>3. QED
          BY <4>1, <4>2
      <3>2. ASSUME NEW m \in Members, Account(m) PROVE UNCHANGED <<pc, claim>>
        BY <3>2 DEF Account, Recharge, EditMember, RemoveMember, ReactivateMember, locals
      <3>3. ASSUME NEW p \in Pendings, CreatePending(p) \/ Lapse(p) PROVE UNCHANGED <<pc, claim>>
        BY <3>3 DEF CreatePending, Lapse, locals
      <3>4. ~Crash
        BY DEF Crash
      <3>5. CASE UNCHANGED vars
        BY <3>5 DEF vars
      <3>6. QED
        BY <3>1, <3>2, <3>3, <3>4, <3>5 DEF Next
    <2>2. ASSUME NEW r \in Reqs, PushCommit(r) \/ RefundCommit(r) PROVE FALSE
      <3>1. Holds(r) /\ Holds(q)
        BY <2>1, <2>2 DEF PushCommit, RefundCommit, Release, RefundInv, RefundReadsCurrent
      <3>2. r = q
        BY <3>1 DEF Holds
      <3>3. RefundCommit(q) /\ pc' = [pc EXCEPT ![q] = "idle"]
        BY <2>1, <2>2, <3>2 DEF PushCommit, RefundCommit, Answer, Goto
      <3>4. QED
        BY <3>3 DEF TypeOK
    <2>3. order' = order
      BY <2>2, OrderWriters
    <2>4. QED
      BY <2>1, <2>3 DEF ClearsOnce
  <1>3. QED
    BY <1>1, <1>2

LEMMA StepReversesOnce ==
  ASSUME TypeOK, RefundInv, ClearsOnce, [Next]_vars,
         NEW o \in Orders, order[o].cleared, order'[o].refunded # order[o].refunded
  PROVE  points' = points
  <1>1. ASSUME NEW r \in Reqs, PushCommit(r) PROVE FALSE
    <2>1. PICK n \in Orders : order[n].status = 0 /\ order' = [order EXCEPT ![n] = RungUp(cart[r])]
      BY <1>1 DEF PushCommit
    <2>2. n = o
      BY <2>1 DEF TypeOK
    <2>3. QED
      BY <2>1, <2>2 DEF RefundInv, RefundBooks, NoOrder
  <1>2. ASSUME NEW r \in Reqs, RefundCommit(r) PROVE points' = points
    <2>1. o = claim[r].order
      BY <1>2 DEF RefundCommit, TypeOK
    <2>2. ~claim[r].clear
      BY <1>2, <2>1 DEF ClearsOnce, RefundCommit
    <2>3. QED
      BY <1>2, <2>2 DEF RefundCommit
  <1>3. QED
    BY <1>1, <1>2, OrderWriters

(* An order's points are taken back by at most one of its refunds, however *)
(* many of them ask for it.                                                *)
THEOREM PointsGoBackOnce == Spec => PointsReversedOnce
  <1>1. Init => ClearsOnce
    BY DEF Init, ClearsOnce
  <1>2. TypeOK /\ RefundInv /\ ClearsOnce /\ [Next]_vars =>
          [\A o \in Orders : (order[o].cleared /\ order'[o].refunded # order[o].refunded)
                                 => points' = points]_vars
    BY StepReversesOnce
  <1>3. QED
    BY <1>1, <1>2, InitType, NextType, InitRefunds, NextRefunds, NextClears, PTL
       DEF Spec, PointsReversedOnce

(***************************************************************************)
(* Sales and the balance.                                                  *)
(***************************************************************************)

LEMMA PushKeepsBalance ==
  ASSUME TypeOK, [Next]_vars, NEW m \in Members, NEW r \in Reqs,
         pc[r] = "push", pc'[r] # "push", balance'[m] < balance[m]
  PROVE  balance'[m] >= 0
  <1>1. PushCommit(r)
    <2>1. ASSUME NEW q \in Reqs, Begin(q) PROVE FALSE
      <3>1. pc[q] = "idle" /\ UNCHANGED balance
        BY <2>1 DEF Begin, Checkout, AskRefund, WithdrawRead, FindLapsed, UpdateRead, PayRead,
                    dbRows, memberRows
      <3>2. QED
        BY <3>1 DEF TypeOK
    <2>2. ASSUME NEW q \in Reqs, Continue(q), q # r PROVE FALSE
      <3>1. \E step : pc' = [pc EXCEPT ![q] = step]
        BY <2>2 DEF Continue, PushCommit, PushFail, RefundRead, RefundRefuse, RefundCommit,
                    RefundFail, WithdrawCommit, ExpireWrite, UpdateWrite, PayPrice, PayRefuse,
                    MarkPaid, AfterPush, Answer, Goto
      <3>2. pc'[r] = pc[r]
        BY <3>1, <2>2 DEF TypeOK
      <3>3. QED
        BY <3>2
    <2>3. ASSUME NEW n \in Members, Account(n) PROVE FALSE
      BY <2>3 DEF Account, Recharge, EditMember, RemoveMember, ReactivateMember
    <2>4. ASSUME NEW p \in Pendings, CreatePending(p) \/ Lapse(p) PROVE FALSE
      BY <2>4 DEF CreatePending, Lapse
    <2>5. CASE Crash
      BY <2>5, m \in Members DEF Crash, dbRows, memberRows, TypeOK
    <2>6. ASSUME Continue(r) PROVE PushCommit(r)
      <3>1. UNCHANGED balance \/ PushCommit(r)
        BY <2>6 DEF Continue, PushFail, RefundRead, RefundRefuse, RefundCommit,
                    RefundFail, WithdrawCommit, ExpireWrite, UpdateWrite, PayPrice, PayRefuse,
                    MarkPaid, dbRows, memberRows
      <3>2. QED
        BY <3>1 DEF TypeOK
    <2>7. CASE UNCHANGED vars
      BY <2>7 DEF vars
    <2>8. QED
      BY <2>1, <2>2, <2>3, <2>4, <2>5, <2>6, <2>7 DEF Next
  <1> DEFINE c == cart[r]
  <1>2. c \in Cart
    BY DEF TypeOK
  <1>3. CASE c.member \in Members
    <2>1. balance' = [balance EXCEPT ![c.member] = balance[c.member] - Deduction(c)]
            /\ (Deduction(c) > 0 => balance[c.member] >= Deduction(c))
      BY <1>1, <1>3 DEF PushCommit, Affordable
    <2>2. Deduction(c) \in Nat
      BY <1>2 DEF Deduction, Cart
    <2>3. QED
      BY <2>1, <2>2, <1>3 DEF TypeOK
  <1>4. CASE c.member \notin Members
    BY <1>1, <1>4 DEF PushCommit, TypeOK
  <1>5. QED
    BY <1>3, <1>4

(* No sale takes a member's balance below zero: the check pushOrder makes  *)
(* inside its transaction stands for every member and every request.      *)
THEOREM SalesStayInBalance == Spec => SalesNeverOverdraw
  <1>1. TypeOK /\ [Next]_vars =>
          [\A m \in Members, r \in Reqs :
             (pc[r] = "push" /\ pc'[r] # "push" /\ balance'[m] < balance[m])
               => balance'[m] >= 0]_vars
    BY PushKeepsBalance
  <1>2. QED
    BY <1>1, InitType, NextType, PTL DEF Spec, SalesNeverOverdraw

(***************************************************************************)
(* Payments.  A pending order shown as paid is backed by an order of its   *)
(* own that was charged to the member, although the order and the mark are *)
(* two writes.                                                             *)
(***************************************************************************)
Backed(rows, o, p) == /\ o \in Orders
                      /\ rows[o].status # 0
                      /\ rows[o].pending = p
                      /\ rows[o].charged

(* PaidHasOrder is not inductive: the mark trusts what the request carries *)
(* from pushOrder, and pushOrder what it carries from memberPay.           *)
PushCharges == \A r \in Reqs : (pc[r] = "push" /\ cart[r].pending # None) => cart[r].charge

MarkBacked == \A r \in Reqs : pc[r] = "mark" => Backed(order, claim[r].order, claim[r].pending)

PaidBacked == \A p \in Pendings : pending[p].status = "paid" => Backed(order, pending[p].order, p)

PayInv == PushCharges /\ MarkBacked /\ PaidBacked

(***************************************************************************)
(* Which steps write the pending rows and the locals; OrderWriters, above, *)
(* says it of the orders.                                                  *)
(***************************************************************************)
LEMMA PendingWriters ==
  ASSUME [Next]_vars
  PROVE  \/ UNCHANGED pending
         \/ \E r \in Reqs : ExpireWrite(r) \/ UpdateWrite(r) \/ MarkPaid(r)
         \/ \E p \in Pendings : CreatePending(p) \/ Lapse(p)
  BY DEF Next, vars, Begin, Continue, Account, Checkout, AskRefund, WithdrawRead, FindLapsed,
         UpdateRead, PayRead, PushCommit, PushFail, RefundRead, RefundRefuse, RefundCommit,
         RefundFail, WithdrawCommit, PayPrice, PayRefuse, Recharge, EditMember,
         RemoveMember, ReactivateMember, Crash, dbRows

(* A step moves one request, or none, or sends all of them home.           *)
LEMMA LocalWriters ==
  ASSUME [Next]_vars
  PROVE  \/ UNCHANGED <<pc, cart, claim>>
         \/ pc' = [r \in Reqs |-> "idle"]
         \/ \E r \in Reqs : \/ Checkout(r) \/ PayPrice(r) \/ PushCommit(r)
                            \/ \E step \in Steps \ {"push", "mark"} : \E c, k :
                                  /\ pc' = [pc EXCEPT ![r] = step]
                                  /\ cart' = cart \/ cart' = [cart EXCEPT ![r] = c]
                                  /\ claim' = claim \/ claim' = [claim EXCEPT ![r] = k]
  <1>1. ASSUME NEW r \in Reqs, Begin(r) \/ Continue(r)
        PROVE  \/ Checkout(r) \/ PayPrice(r) \/ PushCommit(r)
               \/ \E step \in Steps \ {"push", "mark"} : \E c, k :
                     /\ pc' = [pc EXCEPT ![r] = step]
                     /\ cart' = cart \/ cart' = [cart EXCEPT ![r] = c]
                     /\ claim' = claim \/ claim' = [claim EXCEPT ![r] = k]
    <2>1. CASE Begin(r)
      BY <2>1 DEF Begin, AskRefund, WithdrawRead, FindLapsed, UpdateRead, PayRead, Goto, Carry,
                  Steps
    <2>2. CASE Continue(r)
      BY <2>2 DEF Continue, PushFail, RefundRead, RefundRefuse, RefundCommit, RefundFail,
                  WithdrawCommit, ExpireWrite, UpdateWrite, PayRefuse, MarkPaid, Answer, Goto,
                  Carry, Steps
    <2>3. QED
      BY <1>1, <2>1, <2>2
  <1>2. ASSUME NEW m \in Members, Account(m) PROVE UNCHANGED <<pc, cart, claim>>
    BY <1>2 DEF Account, Recharge, EditMember, RemoveMember, ReactivateMember, locals
  <1>3. ASSUME NEW p \in Pendings, CreatePending(p) \/ Lapse(p) PROVE UNCHANGED <<pc, cart, claim>>
    BY <1>3 DEF CreatePending, Lapse, locals
  <1>4. QED
    BY <1>1, <1>2, <1>3 DEF Next, vars, Crash

(***************************************************************************)
(* The order behind a payment stays.                                       *)
(***************************************************************************)
LEMMA BackedStays ==
  ASSUME TypeOK, [Next]_vars, NEW o, NEW p, Backed(order, o, p)
  PROVE  Backed(order', o, p)
  <1>1. CASE UNCHANGED order
    BY <1>1 DEF Backed
  <1>2. ASSUME NEW r \in Reqs, PushCommit(r) PROVE Backed(order', o, p)
    <2>1. PICK n \in Orders : order[n].status = 0 /\ order' = [order EXCEPT ![n] = RungUp(cart[r])]
      BY <1>2 DEF PushCommit
    <2>2. order'[o] = order[o]
      BY <2>1 DEF TypeOK, Backed
    <2>3. QED
      BY <2>2 DEF Backed
  <1>3. ASSUME NEW r \in Reqs, RefundCommit(r) PROVE Backed(order', o, p)
    <2> DEFINE k   == claim[r]
               row == order[k.order]
               new == Refunded(row, k.paid + k.amount, k.clear)
    <2>1. k \in Claim /\ k.order \in Orders /\ row \in OrderRow
      BY <1>3 DEF RefundCommit, TypeOK, Carried
    <2>2. order' = [order EXCEPT ![k.order] = new]
      BY <1>3 DEF RefundCommit
    <2>3. k.paid + k.amount \in Nat /\ k.clear \in BOOLEAN
      BY <2>1 DEF Claim
    <2>4. /\ new.pending = row.pending /\ new.charged = row.charged
          /\ new.status = 2 \/ new.status = row.status
      BY <2>1, <2>3, RefundedTyped
    <2> HIDE DEF new
    <2>5. CASE o = k.order
      <3>1. order'[o] = new
        BY <2>1, <2>2, <2>5 DEF TypeOK
      <3>2. QED
        BY <2>4, <2>5, <3>1 DEF Backed
    <2>6. CASE o # k.order
      BY <2>2, <2>6 DEF Backed, TypeOK
    <2>7. QED
      BY <2>5, <2>6
  <1>4. QED
    BY <1>1, <1>2, <1>3, OrderWriters

LEMMA PaidMarkBackedStays ==
  ASSUME TypeOK, [Next]_vars, PaidBacked
  PROVE  PaidBacked' \/ \E r \in Reqs : MarkPaid(r)
  <1> SUFFICES ASSUME ~\E r \in Reqs : MarkPaid(r), NEW p \in Pendings,
                      pending'[p].status = "paid"
               PROVE  Backed(order', pending'[p].order, p)
    BY DEF PaidBacked
  <1>1. pending[p].status = "paid" /\ pending'[p].order = pending[p].order
    <2>1. ASSUME NEW r \in Reqs, ExpireWrite(r)
          PROVE  pending[p].status = "paid" /\ pending'[p].order = pending[p].order
      BY <2>1 DEF ExpireWrite, TypeOK, PendingRow
    <2>2. ASSUME NEW r \in Reqs, UpdateWrite(r)
          PROVE  pending[p].status = "paid" /\ pending'[p].order = pending[p].order
      BY <2>2 DEF UpdateWrite, TypeOK, PendingRow
    <2>3. ASSUME NEW q \in Pendings, CreatePending(q)
          PROVE  pending[p].status = "paid" /\ pending'[p].order = pending[p].order
      BY <2>3 DEF CreatePending, TypeOK
    <2>4. ASSUME NEW q \in Pendings, Lapse(q)
          PROVE  pending[p].status = "paid" /\ pending'[p].order = pending[p].order
      BY <2>4 DEF Lapse, TypeOK, PendingRow
    <2>5. QED
      BY <2>1, <2>2, <2>3, <2>4, PendingWriters
  <1>2. Backed(order, pending[p].order, p)
    BY <1>1 DEF PaidBacked
  <1>3. QED
    BY <1>1, <1>2, BackedStays DEF Backed

LEMMA NextPaid ==
  ASSUME TypeOK, [Next]_vars, PayInv
  PROVE  PaidBacked'
  <1>1. ASSUME NEW r \in Reqs, MarkPaid(r), NEW p \in Pendings, pending'[p].status = "paid"
        PROVE  Backed(order', pending'[p].order, p)
    <2> DEFINE k == claim[r]
    <2>1. /\ pending' = [pending EXCEPT ![k.pending] =
                             [pending[k.pending] EXCEPT !.status = "paid", !.order = k.order]]
          /\ UNCHANGED order /\ pc[r] = "mark"
      BY <1>1 DEF MarkPaid, orderRows
    <2>2. Backed(order, k.order, k.pending)
      BY <2>1 DEF PayInv, MarkBacked
    <2>3. CASE p = k.pending
      <3>1. pending'[p].order = k.order
        BY <2>1, <2>3 DEF TypeOK, PendingRow
      <3>2. QED
        BY <2>1, <2>2, <2>3, <3>1 DEF Backed
    <2>4. CASE p # k.pending
      <3>1. pending'[p] = pending[p]
        BY <2>1, <2>4 DEF TypeOK
      <3>2. QED
        BY <1>1, <2>1, <3>1 DEF Backed, PayInv, PaidBacked
    <2>5. QED
      BY <2>3, <2>4
  <1>2. QED
    BY <1>1, PaidMarkBackedStays DEF PayInv, PaidBacked

LEMMA NextPushCharges ==
  ASSUME TypeOK, [Next]_vars, PayInv
  PROVE  PushCharges'
  <1> SUFFICES ASSUME NEW q \in Reqs, pc'[q] = "push", cart'[q].pending # None
               PROVE  cart'[q].charge
    BY DEF PushCharges
  <1>1. ASSUME NEW r \in Reqs, Checkout(r) PROVE cart'[q].charge
    <2>1. PICK b \in Baskets : cart' = [cart EXCEPT ![r] = b]
      BY <1>1 DEF Checkout
    <2>2. b.pending = None
      BY CashierAssumption
    <2>3. q # r /\ cart'[q] = cart[q]
      BY <2>1, <2>2 DEF TypeOK
    <2>4. pc'[q] = pc[q]
      BY <1>1, <2>3 DEF Checkout, Goto, TypeOK
    <2>5. QED
      BY <2>3, <2>4 DEF PayInv, PushCharges
  <1>2. ASSUME NEW r \in Reqs, PayPrice(r) PROVE cart'[q].charge
    <2>1. PICK n, u, e, p, m :
            /\ cart' = [cart EXCEPT ![r] = [member |-> m, money |-> n, charge |-> TRUE,
                                            used |-> u, earn |-> e, pending |-> p]]
            /\ pc' = [pc EXCEPT ![r] = "push"]
      BY <1>2 DEF PayPrice, Goto
    <2>2. CASE q = r
      BY <2>1, <2>2 DEF TypeOK
    <2>3. CASE q # r
      BY <2>1, <2>3 DEF TypeOK, PayInv, PushCharges
    <2>4. QED
      BY <2>2, <2>3
  <1>3. ASSUME NEW r \in Reqs, PushCommit(r) PROVE cart'[q].charge
    <2>1. PICK step \in {"idle", "mark"} :
            pc' = [pc EXCEPT ![r] = step] /\ cart' = [cart EXCEPT ![r] = NoCart]
      BY <1>3 DEF PushCommit, AfterPush, Answer, Goto
    <2>2. q # r
      BY <2>1 DEF TypeOK
    <2>3. QED
      BY <2>1, <2>2 DEF TypeOK, PayInv, PushCharges
  <1>4. ASSUME NEW r \in Reqs, NEW step \in Steps \ {"push", "mark"}, NEW c,
               pc' = [pc EXCEPT ![r] = step],
               cart' = cart \/ cart' = [cart EXCEPT ![r] = c]
        PROVE  cart'[q].charge
    <2>1. q # r
      BY <1>4 DEF TypeOK
    <2>2. pc'[q] = pc[q] /\ cart'[q] = cart[q]
      BY <1>4, <2>1 DEF TypeOK
    <2>3. QED
      BY <2>2 DEF PayInv, PushCharges
  <1>5. CASE UNCHANGED <<pc, cart>>
    BY <1>5 DEF PayInv, PushCharges
  <1>6. QED
    BY <1>1, <1>2, <1>3, <1>4, <1>5, LocalWriters

LEMMA NextMark ==
  ASSUME TypeOK, [Next]_vars, PayInv
  PROVE  MarkBacked'
  <1> SUFFICES ASSUME NEW q \in Reqs, pc'[q] = "mark"
               PROVE  Backed(order', claim'[q].order, claim'[q].pending)
    BY DEF MarkBacked
  <1>1. ASSUME pc[q] = "mark", claim'[q] = claim[q]
        PROVE  Backed(order', claim'[q].order, claim'[q].pending)
    <2>1. Backed(order, claim[q].order, claim[q].pending)
      BY <1>1 DEF PayInv, MarkBacked
    <2>2. QED
      BY <1>1, <2>1, BackedStays DEF Backed
  <1>2. ASSUME NEW r \in Reqs, PushCommit(r), q = r
        PROVE  Backed(order', claim'[q].order, claim'[q].pending)
    <2> DEFINE c == cart[r]
    <2>1. PICK o \in Orders : order' = [order EXCEPT ![o] = RungUp(c)] /\ AfterPush(r, o)
      BY <1>2 DEF PushCommit
    <2>2. c.pending # None
      BY <1>2, <2>1 DEF AfterPush, Answer, Goto, TypeOK
    <2>3. claim'[q].order = o /\ claim'[q].pending = c.pending
      BY <1>2, <2>1, <2>2 DEF AfterPush, Carry, ClaimOf, TypeOK
    <2>4. c \in Cart /\ c.charge
      BY <1>2, <2>2 DEF TypeOK, PayInv, PushCharges, PushCommit
    <2>5. order'[o] = RungUp(c)
      BY <2>1 DEF TypeOK
    <2>6. /\ RungUp(c).status = 1 /\ RungUp(c).pending = c.pending
          /\ RungUp(c).charged
      BY <2>4, RungUpFacts
    <2>7. QED
      BY <2>3, <2>5, <2>6 DEF Backed
  <1>3. ASSUME NEW r \in Reqs, PushCommit(r), q # r
        PROVE  pc[q] = "mark" /\ claim'[q] = claim[q]
    BY <1>3 DEF PushCommit, AfterPush, Answer, Goto, Carry, TypeOK
  <1>4. ASSUME NEW r \in Reqs, Checkout(r) \/ PayPrice(r)
        PROVE  pc[q] = "mark" /\ claim'[q] = claim[q]
    <2>1. pc' = [pc EXCEPT ![r] = "push"]
      BY <1>4 DEF Checkout, PayPrice, Goto
    <2>2. q # r
      BY <2>1 DEF TypeOK
    <2>3. QED
      BY <1>4, <2>1, <2>2 DEF Checkout, PayPrice, Carry, TypeOK
  <1>5. ASSUME NEW r \in Reqs, NEW step \in Steps \ {"push", "mark"}, NEW k,
               pc' = [pc EXCEPT ![r] = step],
               claim' = claim \/ claim' = [claim EXCEPT ![r] = k]
        PROVE  pc[q] = "mark" /\ claim'[q] = claim[q]
    <2>1. q # r
      BY <1>5 DEF TypeOK
    <2>2. QED
      BY <1>5, <2>1 DEF TypeOK
  <1>6. QED
    BY <1>1, <1>2, <1>3, <1>4, <1>5, LocalWriters

LEMMA InitPay == Init => PayInv
  BY DEF Init, PayInv, PushCharges, MarkBacked, PaidBacked, NoRow

LEMMA NextPay == TypeOK /\ PayInv /\ [Next]_vars => PayInv'
  BY NextPaid, NextPushCharges, NextMark DEF PayInv

(* The till is shown "paid" only for an order that exists, was rung up for *)
(* this pending order and was charged to the member, at every moment and   *)
(* after every restart.                                                    *)
THEOREM PaidOrdersExist == Spec => []PaidHasOrder
  <1>1. PayInv => PaidHasOrder
    BY DEF PayInv, PaidBacked, Backed, PaidHasOrder
  <1>2. QED
    BY <1>1, InitType, NextType, InitPay, NextPay, PTL DEF Spec

(***************************************************************************)
(* Refinement.  Cashier implements SaleLedger: a PushCommit is a sale, a   *)
(* RefundCommit a refund, an account operation moves a wallet, and every   *)
(* other step is invisible.                                                *)
(***************************************************************************)
LEMMA LedgerInit == Init => Ledger!Init
  BY DEF Init, Sales, Ledger!Init, Ledger!NoSale, SaleOf, SaleState, NoOrder

LEMMA RowChanges ==
  ASSUME TypeOK, NEW o \in Orders, NEW row, order' = [order EXCEPT ![o] = row]
  PROVE  Sales' = [Sales EXCEPT ![o] = SaleOf(row)]
  <1>1. \A x \in Orders : order'[x] = IF x = o THEN row ELSE order[x]
    BY DEF TypeOK
  <1>2. \A x \in Orders : SaleOf(order'[x]) = IF x = o THEN SaleOf(row) ELSE SaleOf(order[x])
    BY <1>1
  <1>3. QED
    BY <1>2 DEF Sales

(* A committed checkout or scan payment rings up one new sale and takes    *)
(* its money from the wallet, or from nowhere.                             *)
LEMMA PushCommitSells ==
  ASSUME TypeOK, NEW r \in Reqs, PushCommit(r)
  PROVE  Ledger!Next
  <1> DEFINE c   == cart[r]
             new == [state |-> "open", customer |-> c.member, left |-> c.money]
  <1>1. c \in Cart
    BY DEF TypeOK
  <1>2. PICK o \in Orders : order[o].status = 0 /\ order' = [order EXCEPT ![o] = RungUp(c)]
    BY DEF PushCommit
  <1>3. SaleOf(RungUp(c)) = new
    <2>1. RungUp(c).status = 1 /\ RungUp(c).member = c.member
            /\ RungUp(c).money - RungUp(c).refunded = c.money
      BY <1>1, RungUpFacts
    <2> HIDE DEF c
    <2>2. QED
      BY <2>1 DEF SaleOf, SaleState
  <1>4. Sales' = [Sales EXCEPT ![o] = new]
    BY <1>2, <1>3, RowChanges
  <1>5. Sales[o].state = "none"
    BY <1>2 DEF Sales, SaleOf, SaleState
  <1>6. Sales'[o] = new
    BY <1>4 DEF Sales
  <1>7. c.money \in Nat /\ c.member \in Ledger!Customers
    BY <1>1 DEF Cart, Customers, Ledger!Customers
  <1>8. \/ UNCHANGED balance
        \/ /\ c.member \in Members
           /\ balance[c.member] >= c.money
           /\ balance' = [balance EXCEPT ![c.member] = balance[c.member] - c.money]
    <2>1. CASE c.member \in Members /\ c.charge /\ c.money > 0
      BY <2>1 DEF PushCommit, Affordable, Deduction
    <2>2. CASE c.member \in Members /\ (~c.charge \/ c.money = 0)
      <3>1. Deduction(c) = 0
        BY <2>2 DEF Deduction
      <3>2. balance' = [balance EXCEPT ![c.member] = balance[c.member] - 0]
        BY <2>2, <3>1 DEF PushCommit
      <3>3. QED
        BY <2>2, <3>2 DEF TypeOK
    <2>3. CASE c.member \notin Members
      BY <2>3 DEF PushCommit
    <2>4. QED
      BY <1>7, <2>1, <2>2, <2>3
  <1>9. Ledger!Sell(o)
    <2>1. Sales'[o].customer = c.member /\ Sales'[o].left = c.money
      BY <1>6
    <2> HIDE DEF c, new
    <2>2. Sales' = [Sales EXCEPT ![o] = [state |-> "open", customer |-> Sales'[o].customer,
                                         left |-> Sales'[o].left]]
      BY <1>4, <2>1 DEF new
    <2>3. QED
      BY <1>5, <1>7, <1>8, <2>1, <2>2 DEF Ledger!Sell
  <1>10. QED
    BY <1>9 DEF Ledger!Next

(* A committed refund takes the refunded amount off the sale it names and  *)
(* gives it to that sale's customer; that this is still the amount left    *)
(* when the refund was read is the invariant RefundInv.                    *)
LEMMA RefundCommitRefundsSale ==
  ASSUME TypeOK, RefundInv, NEW r \in Reqs, RefundCommit(r)
  PROVE  Ledger!Next
  <1> DEFINE k   == claim[r]
             o   == k.order
             row == order[o]
             x   == k.amount
             new == [state |-> IF x = row.money - row.refunded THEN "closed" ELSE "open",
                     customer |-> row.member, left |-> row.money - row.refunded - x]
  <1>1. k \in Claim /\ o \in Orders /\ row \in OrderRow
    BY DEF RefundCommit, TypeOK, Carried
  <1>2. /\ row.status = 1 /\ row.refunded = k.paid /\ row.member = k.member
        /\ row.member # Unknown
        /\ x \in 1 .. (row.money - row.refunded)
    BY DEF RefundCommit, RefundInv, RefundReadsCurrent, ReadIsCurrent, Refundable
  <1>3. row.money \in Nat /\ row.refunded \in Nat
    BY <1>1 DEF OrderRow
  <1>4. order' = [order EXCEPT ![o] = Refunded(row, k.paid + x, k.clear)]
    BY DEF RefundCommit
  <1>5. balance' = IF row.member \in Members
                   THEN [balance EXCEPT ![row.member] = balance[row.member] + x]
                   ELSE balance
    BY <1>2 DEF RefundCommit
  <1>6. k.paid + x \in Nat /\ k.clear \in BOOLEAN
    BY <1>1 DEF Claim
  <1>7. SaleOf(Refunded(row, k.paid + x, k.clear)) = new
    <2> DEFINE R == Refunded(row, k.paid + x, k.clear)
    <2>1. /\ R.member = row.member /\ R.money = row.money /\ R.refunded = k.paid + x
          /\ R.status = IF k.paid + x >= row.money THEN 2 ELSE row.status
      BY <1>1, <1>6, RefundedTyped
    <2> HIDE DEF R, o, row, x, k
    <2>2. R.money - R.refunded = row.money - row.refunded - x
      BY <1>2, <1>3, <2>1
    <2>3. SaleState(R) = IF x = row.money - row.refunded THEN "closed" ELSE "open"
      BY <1>2, <1>3, <2>1 DEF SaleState
    <2>4. QED
      BY <2>1, <2>2, <2>3 DEF SaleOf, R
  <1>8. Sales' = [Sales EXCEPT ![o] = new]
    BY <1>1, <1>4, <1>7, RowChanges
  <1>9. Sales'[o].left = row.money - row.refunded - x
    BY <1>1, <1>8 DEF Sales
  <1>10. /\ Sales[o].state = "open" /\ Sales[o].customer = row.member
         /\ Sales[o].left = row.money - row.refunded
    BY <1>1, <1>2 DEF Sales, SaleOf, SaleState
  <1> HIDE DEF row, o, x, k
  <1>11. x = Sales[o].left - Sales'[o].left
    BY <1>2, <1>3, <1>9, <1>10
  <1>12. Ledger!Refund(o)
    BY <1>2, <1>3, <1>5, <1>8, <1>10, <1>11 DEF Ledger!Refund
  <1>13. QED
    BY <1>1, <1>12 DEF Ledger!Next

(* Whatever writes one member's balance and no order moves that wallet.    *)
LEMMA WalletMoves ==
  ASSUME TypeOK, NEW m \in Members, NEW b \in Int,
         balance' = [balance EXCEPT ![m] = b], UNCHANGED order
  PROVE  Ledger!Next
  <1>1. balance'[m] = b
    BY DEF TypeOK
  <1>2. Ledger!MoveWallet(m)
    BY <1>1 DEF Ledger!MoveWallet, Sales
  <1>3. QED
    BY <1>2 DEF Ledger!Next

LEMMA AccountMoves ==
  ASSUME TypeOK, NEW m \in Members, Account(m)
  PROVE  [Ledger!Next]_(Ledger!vars)
  <1> USE DEF orderRows
  <1>1. ASSUME Recharge(m) PROVE Ledger!Next
    <2>1. PICK n \in Amounts : balance' = [balance EXCEPT ![m] = balance[m] + n]
      BY <1>1 DEF Recharge
    <2>2. balance[m] + n \in Int
      BY CashierAssumption DEF TypeOK
    <2>3. UNCHANGED order
      BY <1>1 DEF Recharge
    <2>4. QED
      BY <2>1, <2>2, <2>3, WalletMoves
  <1>2. ASSUME EditMember(m) \/ ReactivateMember(m) PROVE Ledger!Next
    <2>1. PICK b \in EditBalances \cup {balance[m]} : balance' = [balance EXCEPT ![m] = b]
      BY <1>2 DEF EditMember, ReactivateMember
    <2>2. b \in Int
      BY CashierAssumption DEF TypeOK
    <2>3. UNCHANGED order
      BY <1>2 DEF EditMember, ReactivateMember
    <2>4. QED
      BY <2>1, <2>2, <2>3, WalletMoves
  <1>3. ASSUME RemoveMember(m) PROVE UNCHANGED (Ledger!vars)
    BY <1>3 DEF RemoveMember, Ledger!vars, Sales
  <1>4. QED
    BY <1>1, <1>2, <1>3 DEF Account

LEMMA WithdrawMoves ==
  ASSUME TypeOK, NEW r \in Reqs, WithdrawCommit(r)
  PROVE  Ledger!Next
  <1>1. claim[r] \in Claim /\ claim[r].member \in Members
    BY DEF TypeOK, Carried, WithdrawCommit
  <1>2. balance[claim[r].member] - claim[r].amount \in Int
    BY <1>1 DEF TypeOK, Claim
  <1>3. /\ balance' = [balance EXCEPT ![claim[r].member] =
                         balance[claim[r].member] - claim[r].amount]
        /\ UNCHANGED order
    BY DEF WithdrawCommit, orderRows
  <1>4. QED
    BY <1>1, <1>2, <1>3, WalletMoves

LEMMA StepImplements ==
  TypeOK /\ RefundInv /\ [Next]_vars => [Ledger!Next]_(Ledger!vars)
  <1> SUFFICES ASSUME TypeOK, RefundInv, [Next]_vars
               PROVE  [Ledger!Next]_(Ledger!vars)
    OBVIOUS
  <1>1. ASSUME UNCHANGED <<balance, order>> PROVE UNCHANGED (Ledger!vars)
    BY <1>1 DEF Ledger!vars, Sales
  <1>2. ASSUME NEW r \in Reqs, Begin(r) PROVE UNCHANGED <<balance, order>>
    BY <1>2 DEF Begin, Checkout, AskRefund, WithdrawRead, FindLapsed, UpdateRead, PayRead,
                dbRows, memberRows, orderRows
  <1>3. ASSUME NEW r \in Reqs, Continue(r) PROVE Ledger!Next \/ UNCHANGED <<balance, order>>
    <2>1. \/ PushCommit(r) \/ RefundCommit(r) \/ WithdrawCommit(r)
          \/ UNCHANGED <<balance, order>>
      BY <1>3 DEF Continue, PushFail, RefundRead, RefundRefuse, RefundFail, ExpireWrite,
                  UpdateWrite, PayPrice, PayRefuse, MarkPaid, dbRows, memberRows, orderRows
    <2>2. QED
      BY <2>1, PushCommitSells, RefundCommitRefundsSale, WithdrawMoves
  <1>4. ASSUME NEW p \in Pendings, CreatePending(p) \/ Lapse(p)
        PROVE  UNCHANGED <<balance, order>>
    BY <1>4 DEF CreatePending, Lapse, memberRows, orderRows
  <1>5. ASSUME Crash PROVE UNCHANGED <<balance, order>>
    BY <1>5 DEF Crash, dbRows, memberRows, orderRows
  <1>6. ASSUME UNCHANGED vars PROVE UNCHANGED <<balance, order>>
    BY <1>6 DEF vars
  <1>7. QED
    BY <1>1, <1>2, <1>3, <1>4, <1>5, <1>6, AccountMoves DEF Next

(* Every behaviour of the cashier, with its reads outside transactions,    *)
(* its promise-chain lock and its restarts, is a behaviour of the ledger.  *)
THEOREM CashierImplementsLedger == Spec => ImplementsLedger
  <1>1. QED
    BY LedgerInit, StepImplements, InitType, NextType, InitRefunds, NextRefunds, PTL
       DEF Spec, ImplementsLedger, Ledger!Spec

(***************************************************************************)
(* Balances.  What the charged sales of a member took is a sum over rows   *)
(* that are never removed; with that sum in the place of Spent the         *)
(* explanation of the balance is inductive.                                *)
(***************************************************************************)
ChargedTo(rows, m) == {o \in Orders : rows[o].charged /\ rows[o].member = m}

Money(rows) == [o \in Orders |-> rows[o].money]

Taken(rows, m) == SumOver(Money(rows), ChargedTo(rows, m))

BalanceInv ==
    \A m \in Members : /\ IsFiniteSet(ChargedTo(order, m))
                       /\ balance[m] = opening[m] + books[m] - Taken(order, m)

LEMMA SpentIsTaken == ASSUME NEW m PROVE Spent(m) = Taken(order, m)
  <1>1. \A o \in ChargedTo(order, m) : Money(order)[o] = order[o].money
    BY DEF Money, ChargedTo
  <1>2. MapThenSumSet(LAMBDA o : order[o].money, ChargedTo(order, m))
          = SumOver([o \in ChargedTo(order, m) |-> order[o].money], ChargedTo(order, m))
    BY DEF MapThenSumSet, MapThenFoldSet, SumOver, PartialSums, Body, Chosen
  <1>3. QED
    BY <1>1, <1>2, SumSame DEF Spent, Taken, ChargedTo

LEMMA TakenKept ==
  ASSUME NEW a, NEW b, NEW m,
         \A o \in Orders : /\ b[o].charged = a[o].charged
                           /\ b[o].member = a[o].member
                           /\ b[o].money = a[o].money
  PROVE  ChargedTo(b, m) = ChargedTo(a, m) /\ Taken(b, m) = Taken(a, m)
  <1>1. ChargedTo(b, m) = ChargedTo(a, m)
    BY DEF ChargedTo
  <1>2. Money(b) = Money(a)
    BY DEF Money
  <1>3. QED
    BY <1>1, <1>2 DEF Taken

LEMMA TakenIsNat ==
  ASSUME NEW a \in [Orders -> OrderRow], NEW m, IsFiniteSet(ChargedTo(a, m))
  PROVE  Taken(a, m) \in Nat
  <1>1. \A o \in ChargedTo(a, m) : Money(a)[o] \in Nat
    BY DEF Money, ChargedTo, OrderRow
  <1>2. QED
    BY <1>1, SumIn DEF Taken

(* A sale adds what it deducts to what was taken from its member.          *)
LEMMA TakenBySale ==
  ASSUME NEW a \in [Orders -> OrderRow], NEW o \in Orders, a[o] = NoOrder, NEW c \in Cart,
         NEW b, b = [a EXCEPT ![o] = RungUp(c)],
         NEW m \in Members, IsFiniteSet(ChargedTo(a, m))
  PROVE  /\ IsFiniteSet(ChargedTo(b, m))
         /\ Taken(b, m) = Taken(a, m) + (IF c.member = m THEN Deduction(c) ELSE 0)
  <1>1. /\ \A x \in Orders \ {o} : b[x] = a[x]
        /\ b[o] = RungUp(c)
    OBVIOUS
  <1>2. o \notin ChargedTo(a, m)
    BY DEF ChargedTo, NoOrder
  <1>3. /\ \A x \in ChargedTo(a, m) : Money(b)[x] = Money(a)[x] /\ Money(b)[x] \in Int
        /\ Money(b)[o] = c.money /\ c.money \in Nat
    BY <1>1, <1>2 DEF ChargedTo, Money, RungUp, Cart, OrderRow
  <1>4. SumOver(Money(b), ChargedTo(a, m)) = Taken(a, m)
    BY <1>3, SumSame DEF Taken
  <1>5. Taken(a, m) \in Nat
    BY TakenIsNat
  <1>6. CASE c.charge /\ c.member = m
    <2>1. ChargedTo(b, m) = ChargedTo(a, m) \cup {o}
      BY <1>1, <1>6 DEF ChargedTo, RungUp
    <2>2. IsFiniteSet(ChargedTo(a, m) \cup {o})
      BY FS_AddElement
    <2>3. SumOver(Money(b), ChargedTo(a, m) \cup {o})
            = Money(b)[o] + SumOver(Money(b), ChargedTo(a, m))
      <3>1. \A x \in ChargedTo(a, m) : Money(b)[x] \in Int
        BY <1>3, Zenon
      <3>2. Money(b)[o] \in Int
        BY <1>3
      <3>3. QED
        BY <1>2, <3>1, <3>2, SumWith
    <2>4. QED
      <3>1. Taken(b, m) = c.money + Taken(a, m)
        BY <1>3, <1>4, <2>1, <2>3 DEF Taken
      <3>2. (IF c.member = m THEN Deduction(c) ELSE 0) = c.money
        BY <1>6 DEF Deduction
      <3>3. IsFiniteSet(ChargedTo(b, m))
        BY <2>1, <2>2
      <3>4. c.money + Taken(a, m) = Taken(a, m) + c.money
        BY <1>3, <1>5
      <3>5. QED
        BY <3>1, <3>2, <3>3, <3>4
  <1>7. CASE ~(c.charge /\ c.member = m)
    <2>1. ChargedTo(b, m) = ChargedTo(a, m)
      BY <1>1, <1>2, <1>7 DEF ChargedTo, RungUp
    <2>2. Taken(b, m) = Taken(a, m)
      BY <1>4, <2>1 DEF Taken
    <2>3. (IF c.member = m THEN Deduction(c) ELSE 0) = 0
      BY <1>7 DEF Deduction
    <2>4. QED
      BY <1>5, <2>1, <2>2, <2>3
  <1>8. QED
    BY <1>6, <1>7

(* The steps that charge nothing: what moves in the balance moves in the   *)
(* books or in what edits wrote.                                           *)
LEMMA BalanceMoves ==
  ASSUME TypeOK, BalanceInv,
         \A m \in Members : balance'[m] - balance[m]
                              = (opening'[m] - opening[m]) + (books'[m] - books[m]),
         \A m \in Members : balance'[m] \in Int /\ opening'[m] \in Int /\ books'[m] \in Int,
         \A o \in Orders : /\ order'[o].charged = order[o].charged
                           /\ order'[o].member = order[o].member
                           /\ order'[o].money = order[o].money
  PROVE  BalanceInv'
  <1> SUFFICES ASSUME NEW m \in Members
               PROVE  /\ IsFiniteSet(ChargedTo(order', m))
                      /\ balance'[m] = opening'[m] + books'[m] - Taken(order', m)
    BY DEF BalanceInv
  <1>1. PICK a : a = order
    OBVIOUS
  <1>2. PICK b : b = order'
    OBVIOUS
  <1>3. ChargedTo(b, m) = ChargedTo(a, m) /\ Taken(b, m) = Taken(a, m)
    BY <1>1, <1>2, TakenKept
  <1>4. /\ IsFiniteSet(ChargedTo(a, m))
        /\ balance[m] = opening[m] + books[m] - Taken(a, m)
    BY <1>1 DEF BalanceInv
  <1>5. Taken(a, m) \in Nat
    BY <1>1, <1>4, TakenIsNat DEF TypeOK
  <1>6. balance[m] \in Int /\ opening[m] \in Int /\ books[m] \in Int
    BY DEF TypeOK
  <1>7. balance'[m] = opening'[m] + books'[m] - Taken(b, m)
    <2>1. PICK n \in Nat : n = Taken(a, m)
      BY <1>5
    <2>2. /\ balance'[m] - balance[m] = (opening'[m] - opening[m]) + (books'[m] - books[m])
          /\ balance'[m] \in Int /\ opening'[m] \in Int /\ books'[m] \in Int
      OBVIOUS
    <2>3. balance[m] = opening[m] + books[m] - n
      BY <1>4, <2>1
    <2>4. balance'[m] = opening'[m] + books'[m] - n
      BY <1>6, <2>2, <2>3
    <2>5. QED
      BY <1>3, <2>1, <2>4
  <1>8. QED
    BY <1>2, <1>3, <1>4, <1>7

LEMMA PushCommitBalance ==
  ASSUME TypeOK, RefundInv, BalanceInv, NEW r \in Reqs, PushCommit(r)
  PROVE  BalanceInv'
  <1> SUFFICES ASSUME NEW m \in Members
               PROVE  /\ IsFiniteSet(ChargedTo(order', m))
                      /\ balance'[m] = opening'[m] + books'[m] - Taken(order', m)
    BY DEF BalanceInv
  <1>1. PICK c \in Cart : c = cart[r]
    BY DEF TypeOK
  <1>2. PICK o \in Orders : order[o].status = 0 /\ order' = [order EXCEPT ![o] = RungUp(c)]
    BY <1>1 DEF PushCommit
  <1>3. PICK a \in [Orders -> OrderRow] : a = order
    BY DEF TypeOK
  <1>4. PICK b : b = order'
    OBVIOUS
  <1>5. a[o] = NoOrder
    BY <1>2, <1>3 DEF RefundInv, RefundBooks
  <1>6. /\ IsFiniteSet(ChargedTo(a, m))
        /\ balance[m] = opening[m] + books[m] - Taken(a, m)
    BY <1>3 DEF BalanceInv
  <1>7. /\ IsFiniteSet(ChargedTo(b, m))
        /\ Taken(b, m) = Taken(a, m) + (IF c.member = m THEN Deduction(c) ELSE 0)
    <2>1. b = [a EXCEPT ![o] = RungUp(c)]
      BY <1>2, <1>3, <1>4
    <2>2. QED
      BY <1>5, <1>6, <2>1, TakenBySale
  <1>8. balance'[m] = balance[m] - (IF c.member = m THEN Deduction(c) ELSE 0)
    <2>1. Deduction(c) \in Nat
      BY DEF Deduction, Cart
    <2>2. CASE c.member \in Members
      BY <1>1, <2>1, <2>2 DEF PushCommit, TypeOK
    <2>3. CASE c.member \notin Members
      BY <1>1, <2>3 DEF PushCommit, TypeOK
    <2>4. QED
      BY <2>2, <2>3
  <1>9. opening' = opening /\ books' = books
    BY <1>1, CashierAssumption DEF PushCommit
  <1>10. PICK d \in Nat : d = (IF c.member = m THEN Deduction(c) ELSE 0)
    BY DEF Deduction, Cart
  <1>11. Taken(a, m) \in Nat /\ balance[m] \in Int /\ opening[m] \in Int /\ books[m] \in Int
    BY <1>6, TakenIsNat DEF TypeOK
  <1>12. balance'[m] = opening'[m] + books'[m] - Taken(b, m)
    BY <1>6, <1>7, <1>8, <1>9, <1>10, <1>11
  <1>13. QED
    BY <1>4, <1>7, <1>12

LEMMA RefundCommitBalance ==
  ASSUME TypeOK, BalanceInv, NEW r \in Reqs, RefundCommit(r)
  PROVE  BalanceInv'
  <1>1. PICK k \in Claim : k = claim[r]
    BY DEF TypeOK
  <1>2. k.order \in Orders /\ k.amount \in Nat
    BY <1>1 DEF RefundCommit, TypeOK, Carried, Claim
  <1>3. \A o \in Orders : /\ order'[o].charged = order[o].charged
                          /\ order'[o].member = order[o].member
                          /\ order'[o].money = order[o].money
    BY <1>1, <1>2 DEF RefundCommit, Refunded, TypeOK
  <1>4. opening' = opening
    BY DEF RefundCommit
  <1>5. \A m \in Members : /\ balance'[m] \in Int /\ books'[m] \in Int /\ opening'[m] \in Int
                           /\ balance'[m] - balance[m]
                                = (opening'[m] - opening[m]) + (books'[m] - books[m])
    <2>1. CASE k.member \in Members
      <3>1. /\ balance' = [balance EXCEPT ![k.member] = balance[k.member] + k.amount]
            /\ books' = [books EXCEPT ![k.member] = books[k.member] + k.amount]
        BY <1>1, <2>1 DEF RefundCommit
      <3>2. QED
        BY <1>2, <1>4, <2>1, <3>1 DEF TypeOK
    <2>2. CASE k.member \notin Members
      <3>1. balance' = balance /\ books' = books
        BY <1>1, <2>2 DEF RefundCommit
      <3>2. QED
        BY <1>4, <3>1 DEF TypeOK
    <2>3. QED
      BY <2>1, <2>2
  <1>6. QED
    BY <1>3, <1>5, BalanceMoves

LEMMA WithdrawBalance ==
  ASSUME TypeOK, BalanceInv, NEW r \in Reqs, WithdrawCommit(r)
  PROVE  BalanceInv'
  <1>1. PICK k \in Claim : k = claim[r]
    BY DEF TypeOK
  <1>2. k.member \in Members /\ k.amount \in Nat
    BY <1>1 DEF WithdrawCommit, TypeOK, Carried, Claim
  <1>3. /\ balance' = [balance EXCEPT ![k.member] = balance[k.member] - k.amount]
        /\ books' = [books EXCEPT ![k.member] = books[k.member] - k.amount]
        /\ opening' = opening /\ order' = order
    BY <1>1 DEF WithdrawCommit, orderRows
  <1>4. \A m \in Members : /\ balance'[m] \in Int /\ books'[m] \in Int /\ opening'[m] \in Int
                           /\ balance'[m] - balance[m]
                                = (opening'[m] - opening[m]) + (books'[m] - books[m])
    BY <1>2, <1>3 DEF TypeOK
  <1>5. QED
    BY <1>3, <1>4, BalanceMoves

LEMMA AccountBalance ==
  ASSUME TypeOK, BalanceInv, NEW m \in Members, Account(m)
  PROVE  BalanceInv'
  <1>1. order' = order
    BY DEF Account, Recharge, EditMember, RemoveMember, ReactivateMember, orderRows
  <1>2. ASSUME Recharge(m) PROVE BalanceInv'
    <2>1. PICK n \in Amounts : /\ balance' = [balance EXCEPT ![m] = balance[m] + n]
                               /\ books' = [books EXCEPT ![m] = books[m] + n]
      BY <1>2 DEF Recharge
    <2>2. n \in Nat /\ opening' = opening
      BY <1>2, CashierAssumption DEF Recharge
    <2>3. \A x \in Members : /\ balance'[x] \in Int /\ books'[x] \in Int /\ opening'[x] \in Int
                             /\ balance'[x] - balance[x]
                                  = (opening'[x] - opening[x]) + (books'[x] - books[x])
      BY <2>1, <2>2 DEF TypeOK
    <2>4. QED
      BY <1>1, <2>3, BalanceMoves
  <1>3. ASSUME EditMember(m) \/ ReactivateMember(m) PROVE BalanceInv'
    <2>1. PICK b \in EditBalances \cup {balance[m]} :
               /\ balance' = [balance EXCEPT ![m] = b]
               /\ opening' = [opening EXCEPT ![m] = opening[m] + b - balance[m]]
      BY <1>3 DEF EditMember, ReactivateMember
    <2>2. b \in Int /\ books' = books
      BY <1>3, CashierAssumption DEF EditMember, ReactivateMember, TypeOK
    <2>3. \A x \in Members : /\ balance'[x] \in Int /\ books'[x] \in Int /\ opening'[x] \in Int
                             /\ balance'[x] - balance[x]
                                  = (opening'[x] - opening[x]) + (books'[x] - books[x])
      BY <2>1, <2>2 DEF TypeOK
    <2>4. QED
      BY <1>1, <2>3, BalanceMoves
  <1>4. ASSUME RemoveMember(m) PROVE BalanceInv'
    <2>1. balance' = balance /\ opening' = opening /\ books' = books
      BY <1>4 DEF RemoveMember
    <2>2. \A x \in Members : /\ balance'[x] \in Int /\ books'[x] \in Int /\ opening'[x] \in Int
                             /\ balance'[x] - balance[x]
                                  = (opening'[x] - opening[x]) + (books'[x] - books[x])
      BY <2>1 DEF TypeOK
    <2>3. QED
      BY <1>1, <2>2, BalanceMoves
  <1>5. QED
    BY <1>2, <1>3, <1>4 DEF Account

LEMMA InitBalance == Init => BalanceInv
  <1> SUFFICES ASSUME Init, NEW m \in Members
               PROVE  /\ IsFiniteSet(ChargedTo(order, m))
                      /\ balance[m] = opening[m] + books[m] - Taken(order, m)
    BY DEF BalanceInv
  <1>1. ChargedTo(order, m) = {}
    BY DEF Init, ChargedTo, NoOrder
  <1>2. Taken(order, m) = 0
    BY <1>1, SumEmpty DEF Taken
  <1>3. balance[m] = 0 /\ opening[m] = 0 /\ books[m] = 0
    BY DEF Init
  <1>4. QED
    BY <1>1, <1>2, <1>3, FS_EmptySet

LEMMA NextBalance == TypeOK /\ RefundInv /\ BalanceInv /\ [Next]_vars => BalanceInv'
  <1> SUFFICES ASSUME TypeOK, RefundInv, BalanceInv, [Next]_vars PROVE BalanceInv'
    OBVIOUS
  <1>1. ASSUME UNCHANGED <<balance, opening, books, order>> PROVE BalanceInv'
    BY <1>1 DEF BalanceInv
  <1>2. ASSUME NEW r \in Reqs, Begin(r) PROVE UNCHANGED <<balance, opening, books, order>>
    BY <1>2 DEF Begin, Checkout, AskRefund, WithdrawRead, FindLapsed, UpdateRead, PayRead,
                dbRows, memberRows, orderRows
  <1>3. ASSUME NEW r \in Reqs, Continue(r) PROVE BalanceInv'
    <2>1. \/ UNCHANGED <<balance, opening, books, order>>
          \/ PushCommit(r) \/ RefundCommit(r) \/ WithdrawCommit(r)
      BY <1>3 DEF Continue, PushFail, RefundRead, RefundRefuse, RefundFail, ExpireWrite,
                  UpdateWrite, PayPrice, PayRefuse, MarkPaid, dbRows, memberRows, orderRows
    <2>2. QED
      BY <1>1, <2>1, PushCommitBalance, RefundCommitBalance, WithdrawBalance
  <1>4. ASSUME NEW p \in Pendings, CreatePending(p) \/ Lapse(p)
        PROVE  UNCHANGED <<balance, opening, books, order>>
    BY <1>4 DEF CreatePending, Lapse, memberRows, orderRows
  <1>5. ASSUME Crash PROVE UNCHANGED <<balance, opening, books, order>>
    BY <1>5 DEF Crash, dbRows, memberRows, orderRows
  <1>6. ASSUME UNCHANGED vars PROVE UNCHANGED <<balance, opening, books, order>>
    BY <1>6 DEF vars
  <1>7. QED
    BY <1>1, <1>2, <1>3, <1>4, <1>5, <1>6, AccountBalance DEF Next

(* The rows that stay explain every cent of every balance, although the    *)
(* account operations take no lock and refunds act on what they read.      *)
THEOREM BalancesAlwaysExplained == Spec => []BalanceExplained
  <1>1. BalanceInv => BalanceExplained
    BY SpentIsTaken DEF BalanceInv, BalanceExplained
  <1>2. QED
    BY <1>1, InitType, NextType, InitRefunds, NextRefunds, InitBalance, NextBalance, PTL DEF Spec
=============================================================================

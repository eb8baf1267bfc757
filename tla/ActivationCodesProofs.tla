----------------------- MODULE ActivationCodesProofs -----------------------
(***************************************************************************)
(* Theorems about ActivationCodes, for any number of users, stores, quota  *)
(* orders, codes, requests and amounts on sale.                            *)
(***************************************************************************)
EXTENDS MCActivationCodes, SumTheorems, TLAPS

(***************************************************************************)
(* The inductive invariant.  A redemption of a member code commits on what *)
(* it read; it can do no harm to a spent code because a member code is     *)
(* bound to one store from its order on.                                   *)
(***************************************************************************)
MemberCode(c, s) ==
    code[c].status # "none" /\ code[c].type = "member" /\ code[c].store = s

Ordered(o) == quotaOrder[o].status # "none"

Carries(step, k) ==
    /\ step \in {"confirm", "cancel"} => k.order \in QuotaOrders /\ Ordered(k.order)
    /\ step \in {"lookup", "redeem"} => k.code \in Codes /\ k.store \in Stores
    /\ step = "redeem" => MemberCode(k.code, k.store)
    /\ step = "enrol" => k.store \in Stores
    /\ step \in {"allowed", "open"} => k.user \in Users

RowTypes ==
    /\ owner \in [Stores -> Users \cup {None}]
    /\ extra \in [Stores -> Nat]
    /\ active \in [Stores -> Nat]
    /\ disabled \in [Stores -> Nat]
    /\ quotaOrder \in [QuotaOrders -> QuotaOrderRow]
    /\ code \in [Codes -> CodeRow]
    /\ openedWith \in [Stores -> Codes \cup {None}]

(* A member order and its code name a store, and the code is spent on it.  *)
Bound ==
    /\ \A o \in QuotaOrders :
          Ordered(o) /\ quotaOrder[o].type = "member" => quotaOrder[o].store \in Stores
    /\ \A c \in Codes : code[c].status # "none" /\ code[c].type = "member" =>
          /\ code[c].store \in Stores
          /\ code[c].status = "used" => code[c].usedBy = code[c].store

Unopened == \A s \in Stores : owner[s] = None => openedWith[s] = None

CodesInv ==
    /\ RowTypes
    /\ StoreCodeOpensOne
    /\ Bound
    /\ Unopened
    /\ pc \in [Reqs -> Steps]
    /\ claim \in [Reqs -> Claim]
    /\ \A r \in Reqs : Carries(pc[r], claim[r])

LEMMA InvTyped == CodesInv => TypeOK
  BY DEF CodesInv, RowTypes, TypeOK, Carried, Carries

LEMMA NoClaimTyped ==
  /\ NoClaim \in Claim
  /\ Carries("idle", NoClaim)
  /\ NoClaim.code = None /\ NoClaim.store = None /\ NoClaim.user = None /\ NoClaim.order = None
  /\ NoClaim.extra = 0 /\ NoClaim.quota = 0
  BY DEF NoClaim, Claim, Carries

LEMMA InitInv == Init => CodesInv
  <1> SUFFICES ASSUME Init PROVE CodesInv
    OBVIOUS
  <1>1. NoQuotaOrder \in QuotaOrderRow /\ NoQuotaOrder.status = "none"
    BY DEF NoQuotaOrder, QuotaOrderRow, Types
  <1>2. NoCode \in CodeRow /\ NoCode.status = "none"
    BY DEF NoCode, CodeRow, Types
  <1>3. RowTypes
    BY <1>1, <1>2 DEF Init, RowTypes
  <1>4. StoreCodeOpensOne /\ Unopened
    BY DEF Init, StoreCodeOpensOne, Unopened
  <1>5. Bound
    BY <1>1, <1>2 DEF Init, Bound, Ordered
  <1>6. /\ pc \in [Reqs -> Steps] /\ claim \in [Reqs -> Claim]
        /\ \A r \in Reqs : Carries(pc[r], claim[r])
    BY NoClaimTyped DEF Init, Steps
  <1>7. QED
    BY <1>3, <1>4, <1>5, <1>6 DEF CodesInv

(***************************************************************************)
(* The rows after a step, and what it leaves true of what requests carry.  *)
(***************************************************************************)
RowsAfter ==
    /\ RowTypes'
    /\ StoreCodeOpensOne'
    /\ Bound'
    /\ Unopened'
    /\ \A o \in QuotaOrders : Ordered(o) => Ordered(o)'
    /\ \A c \in Codes, s \in Stores : MemberCode(c, s) => MemberCode(c, s)'

LEMMA CarriesOn ==
  ASSUME RowsAfter, NEW step, NEW k \in Claim, Carries(step, k)
  PROVE  Carries(step, k)'
  BY DEF RowsAfter, Carries

LEMMA RequestStep ==
  ASSUME CodesInv, RowsAfter, NEW r \in Reqs, NEW step \in Steps, NEW k \in Claim,
         Goto(r, step, k), Carries(step, k)'
  PROVE  CodesInv'
  <1>1. /\ pc' = [pc EXCEPT ![r] = step]
        /\ claim' = [claim EXCEPT ![r] = k]
        /\ pc \in [Reqs -> Steps]
        /\ claim \in [Reqs -> Claim]
    BY DEF Goto, CodesInv
  <1>2. ASSUME NEW q \in Reqs
        PROVE  Carries(pc[q], claim[q])'
    <2>1. CASE q = r
      BY <2>1, <1>1 DEF Carries
    <2>2. CASE q # r
      <3>1. PICK st, c : st = pc[q] /\ c = claim[q]
        OBVIOUS
      <3>2. c \in Claim /\ Carries(st, c) /\ pc'[q] = st /\ claim'[q] = c
        BY <3>1, <2>2, <1>1 DEF CodesInv
      <3>3. Carries(st, c)'
        BY <3>2, CarriesOn
      <3>4. QED
        BY <3>2, <3>3 DEF Carries
    <2>3. QED
      BY <2>1, <2>2
  <1>3. pc' \in [Reqs -> Steps] /\ claim' \in [Reqs -> Claim]
    BY <1>1
  <1>4. QED
    BY <1>2, <1>3 DEF RowsAfter, CodesInv

LEMMA OutsideStep ==
  ASSUME CodesInv, RowsAfter, UNCHANGED <<pc, claim>>
  PROVE  CodesInv'
  <1>1. ASSUME NEW q \in Reqs
        PROVE  Carries(pc[q], claim[q])'
    <2>1. PICK st, c : st = pc[q] /\ c = claim[q]
      OBVIOUS
    <2>2. c \in Claim /\ Carries(st, c) /\ pc'[q] = st /\ claim'[q] = c
      BY <2>1 DEF CodesInv
    <2>3. Carries(st, c)'
      BY <2>2, CarriesOn
    <2>4. QED
      BY <2>2, <2>3 DEF Carries
  <1>2. QED
    BY <1>1 DEF RowsAfter, CodesInv

LEMMA SameRows ==
  ASSUME CodesInv, UNCHANGED <<owner, quotaOrder, code, openedWith>>,
         extra' \in [Stores -> Nat], active' \in [Stores -> Nat], disabled' \in [Stores -> Nat]
  PROVE  RowsAfter
  BY DEF CodesInv, RowsAfter, RowTypes, StoreCodeOpensOne, Bound, Unopened, Ordered, MemberCode

LEMMA ReadStep ==
  ASSUME CodesInv, UNCHANGED rows, NEW r \in Reqs, NEW step \in Steps, NEW k \in Claim,
         Goto(r, step, k), Carries(step, k)
  PROVE  CodesInv'
  <1>1. RowsAfter
    BY SameRows DEF CodesInv, RowTypes, rows, members
  <1>2. QED
    BY <1>1, CarriesOn, RequestStep

LEMMA AnswerStep ==
  ASSUME CodesInv, RowsAfter, NEW r \in Reqs, Answer(r)
  PROVE  CodesInv'
  BY NoClaimTyped, CarriesOn, RequestStep DEF Answer, Steps

(***************************************************************************)
(* Quota orders.                                                           *)
(***************************************************************************)
LEMMA OrderReplaced ==
  ASSUME CodesInv, NEW o \in QuotaOrders, NEW row \in QuotaOrderRow,
         quotaOrder' = [quotaOrder EXCEPT ![o] = row],
         UNCHANGED <<owner, extra, active, disabled, code, openedWith>>,
         row.status # "none", row.type = "member" => row.store \in Stores
  PROVE  RowsAfter
  <1>1. /\ quotaOrder' \in [QuotaOrders -> QuotaOrderRow]
        /\ quotaOrder'[o] = row
        /\ \A p \in QuotaOrders : p # o => quotaOrder'[p] = quotaOrder[p]
    BY DEF CodesInv, RowTypes
  <1>2. RowTypes' /\ StoreCodeOpensOne' /\ Unopened'
    BY <1>1 DEF CodesInv, RowTypes, StoreCodeOpensOne, Unopened
  <1>3. Bound'
    BY <1>1 DEF CodesInv, Bound, Ordered
  <1>4. /\ \A p \in QuotaOrders : Ordered(p) => Ordered(p)'
        /\ \A c \in Codes, s \in Stores : MemberCode(c, s) => MemberCode(c, s)'
    BY <1>1 DEF Ordered, MemberCode
  <1>5. QED
    BY <1>2, <1>3, <1>4 DEF RowsAfter

LEMMA CreateQuotaOrderStep ==
  ASSUME CodesInv, NEW o \in QuotaOrders, CreateQuotaOrder(o)
  PROVE  CodesInv'
  <1>1. PICK row \in QuotaOrderRow :
           /\ quotaOrder' = [quotaOrder EXCEPT ![o] = row]
           /\ row.status # "none"
           /\ row.type = "member" => row.store \in Stores
    <2>1. PICK u \in Users :
             \/ quotaOrder' = [quotaOrder EXCEPT ![o] =
                   [status |-> "pending", type |-> "store", user |-> u, store |-> None,
                    quota |-> 0]]
             \/ \E s \in Stores, q \in Quotas :
                   quotaOrder' = [quotaOrder EXCEPT ![o] =
                      [status |-> "pending", type |-> "member", user |-> u, store |-> s,
                       quota |-> q]]
      BY DEF CreateQuotaOrder
    <2>2. [status |-> "pending", type |-> "store", user |-> u, store |-> None, quota |-> 0]
             \in QuotaOrderRow
      BY DEF QuotaOrderRow, Types
    <2>3. \A s \in Stores, q \in Quotas :
             [status |-> "pending", type |-> "member", user |-> u, store |-> s, quota |-> q]
                \in QuotaOrderRow
      BY CodesAssumption DEF QuotaOrderRow, Types
    <2>4. QED
      BY <2>1, <2>2, <2>3
  <1>2. UNCHANGED <<owner, extra, active, disabled, code, openedWith, pc, claim>>
    BY DEF CreateQuotaOrder, members
  <1>3. QED
    BY <1>1, <1>2, OrderReplaced, OutsideStep

(* An order that was read pending, and its new status.                     *)
LEMMA OrderStatus ==
  ASSUME CodesInv, NEW o \in QuotaOrders, Ordered(o), NEW status \in {"confirmed", "cancelled"},
         quotaOrder' = [quotaOrder EXCEPT ![o].status = status]
  PROVE  \E row \in QuotaOrderRow :
            /\ quotaOrder' = [quotaOrder EXCEPT ![o] = row]
            /\ row.status = status
            /\ row.type = quotaOrder[o].type
            /\ row.type = "member" => row.store \in Stores
  <1>1. PICK r \in QuotaOrderRow : r = quotaOrder[o]
    BY DEF CodesInv, RowTypes
  <1>2. PICK row : row = [r EXCEPT !.status = status]
    OBVIOUS
  <1>3. row = [status |-> status, type |-> r.type, user |-> r.user, store |-> r.store,
               quota |-> r.quota]
    BY <1>1, <1>2 DEF QuotaOrderRow
  <1>4. row \in QuotaOrderRow
    BY <1>1, <1>3 DEF QuotaOrderRow
  <1>5. quotaOrder' = [quotaOrder EXCEPT ![o] = row]
    BY <1>1, <1>2 DEF CodesInv, RowTypes
  <1>6. r.type = "member" => r.store \in Stores
    BY <1>1 DEF CodesInv, Bound
  <1>7. QED
    BY <1>1, <1>3, <1>4, <1>5, <1>6

LEMMA OrderReadStep ==
  ASSUME CodesInv, NEW r \in Reqs, ConfirmRead(r) \/ CancelRead(r)
  PROVE  CodesInv'
  <1>1. PICK o \in QuotaOrders, step \in {"confirm", "cancel"} :
           quotaOrder[o].status = "pending" /\ Goto(r, step, [NoClaim EXCEPT !.order = o])
    BY DEF ConfirmRead, CancelRead
  <1>2. PICK k : k = [NoClaim EXCEPT !.order = o]
    OBVIOUS
  <1>3. k \in Claim /\ k.order = o
    BY <1>2 DEF NoClaim, Claim
  <1>4. Carries(step, k) /\ step \in Steps
    BY <1>1, <1>3 DEF Carries, Ordered, Steps
  <1>5. QED
    BY <1>1, <1>2, <1>3, <1>4, ReadStep DEF ConfirmRead, CancelRead

LEMMA CancelCommitStep ==
  ASSUME CodesInv, NEW r \in Reqs, CancelCommit(r)
  PROVE  CodesInv'
  <1>1. PICK o : o = claim[r].order
    OBVIOUS
  <1>2. o \in QuotaOrders /\ Ordered(o)
    BY <1>1 DEF CancelCommit, CodesInv, Carries
  <1>3. quotaOrder' = [quotaOrder EXCEPT ![o].status = "cancelled"]
    BY <1>1 DEF CancelCommit
  <1>4. PICK row \in QuotaOrderRow :
            /\ quotaOrder' = [quotaOrder EXCEPT ![o] = row]
            /\ row.status = "cancelled"
            /\ row.type = "member" => row.store \in Stores
    BY <1>2, <1>3, OrderStatus
  <1>5. RowsAfter
    BY <1>2, <1>4, OrderReplaced DEF CancelCommit, members
  <1>6. QED
    BY <1>5, AnswerStep DEF CancelCommit

(***************************************************************************)
(* Codes.                                                                  *)
(***************************************************************************)
(* A code row made, or spent: a store code that opened a store is neither. *)
LEMMA CodeReplaced ==
  ASSUME CodesInv, NEW c \in Codes, NEW row \in CodeRow, code' = [code EXCEPT ![c] = row],
         UNCHANGED <<owner, openedWith>>, extra' \in [Stores -> Nat],
         UNCHANGED <<active, disabled>>,
         quotaOrder' \in [QuotaOrders -> QuotaOrderRow],
         \A o \in QuotaOrders : /\ Ordered(o) => Ordered(o)'
                                /\ Ordered(o)' /\ quotaOrder'[o].type = "member" =>
                                      quotaOrder'[o].store \in Stores,
         \A s \in Stores : openedWith[s] # c,
         row.type = "member" => /\ row.store \in Stores
                                /\ row.status = "used" => row.usedBy = row.store,
         row.status # "none",
         code[c].status # "none" => row.type = code[c].type /\ row.store = code[c].store
  PROVE  RowsAfter
  <1>1. /\ code' \in [Codes -> CodeRow]
        /\ code'[c] = row
        /\ \A d \in Codes : d # c => code'[d] = code[d]
    BY DEF CodesInv, RowTypes
  <1>2. RowTypes'
    BY <1>1 DEF CodesInv, RowTypes
  <1>3. StoreCodeOpensOne'
    <2> SUFFICES ASSUME NEW s \in Stores, openedWith[s] # None
                 PROVE  /\ code'[openedWith[s]].status = "used"
                        /\ code'[openedWith[s]].type = "store"
                        /\ code'[openedWith[s]].user = owner[s]
                        /\ code'[openedWith[s]].usedBy = s
      BY DEF StoreCodeOpensOne
    <2>1. openedWith[s] \in Codes /\ openedWith[s] # c
      BY DEF CodesInv, RowTypes
    <2>2. QED
      BY <2>1, <1>1 DEF CodesInv, StoreCodeOpensOne
  <1>4. Bound'
    <2>1. \A d \in Codes : code'[d].status # "none" /\ code'[d].type = "member" =>
             /\ code'[d].store \in Stores
             /\ code'[d].status = "used" => code'[d].usedBy = code'[d].store
      BY <1>1 DEF CodesInv, Bound
    <2>2. QED
      BY <2>1 DEF Bound
  <1>5. Unopened'
    BY DEF CodesInv, Unopened
  <1>6. \A d \in Codes, s \in Stores : MemberCode(d, s) => MemberCode(d, s)'
    BY <1>1 DEF MemberCode
  <1>7. QED
    BY <1>2, <1>3, <1>4, <1>5, <1>6 DEF RowsAfter

LEMMA ConfirmCommitStep ==
  ASSUME CodesInv, NEW r \in Reqs, ConfirmCommit(r)
  PROVE  CodesInv'
  <1>1. PICK o : o = claim[r].order
    OBVIOUS
  <1>2. o \in QuotaOrders /\ Ordered(o) /\ quotaOrder[o] \in QuotaOrderRow
    BY <1>1 DEF ConfirmCommit, CodesInv, Carries, RowTypes
  <1>3. quotaOrder' = [quotaOrder EXCEPT ![o].status = "confirmed"]
    BY <1>1 DEF ConfirmCommit
  <1>4. PICK order \in QuotaOrderRow :
            /\ quotaOrder' = [quotaOrder EXCEPT ![o] = order]
            /\ order.status = "confirmed"
            /\ order.type = "member" => order.store \in Stores
    BY <1>2, <1>3, OrderStatus
  <1>5. PICK c \in Codes :
           /\ code[c].status = "none"
           /\ \E row :
                 /\ row = [status |-> "unused", type |-> quotaOrder[o].type, order |-> o,
                           user |-> quotaOrder[o].user, store |-> quotaOrder[o].store,
                           quota |-> quotaOrder[o].quota, usedBy |-> None]
                 /\ code' = [code EXCEPT ![c] = row]
    BY <1>1 DEF ConfirmCommit
  <1>6. PICK row :
           /\ row = [status |-> "unused", type |-> quotaOrder[o].type, order |-> o,
                     user |-> quotaOrder[o].user, store |-> quotaOrder[o].store,
                     quota |-> quotaOrder[o].quota, usedBy |-> None]
           /\ code' = [code EXCEPT ![c] = row]
    BY <1>5
  <1>7. row \in CodeRow
    BY <1>2, <1>6 DEF CodeRow, QuotaOrderRow
  <1>8. row.status = "unused" /\ (row.type = "member" => row.store \in Stores)
    BY <1>2, <1>6 DEF CodesInv, Bound
  <1>9. /\ quotaOrder' \in [QuotaOrders -> QuotaOrderRow]
        /\ \A p \in QuotaOrders : /\ Ordered(p) => Ordered(p)'
                                  /\ Ordered(p)' /\ quotaOrder'[p].type = "member" =>
                                        quotaOrder'[p].store \in Stores
    BY <1>2, <1>4 DEF CodesInv, RowTypes, Bound, Ordered
  <1>10. \A s \in Stores : openedWith[s] # c
    BY <1>5, CodesAssumption DEF CodesInv, RowTypes, StoreCodeOpensOne
  <1>11. UNCHANGED <<owner, openedWith, active, disabled>> /\ extra' \in [Stores -> Nat]
    BY DEF ConfirmCommit, members, CodesInv, RowTypes
  <1>12. RowsAfter
    BY <1>5, <1>6, <1>7, <1>8, <1>9, <1>10, <1>11, CodeReplaced
  <1>13. QED
    BY <1>12, AnswerStep DEF ConfirmCommit

(* A code read unused or spent before, and spent now.                      *)
LEMMA SpentCode ==
  ASSUME CodesInv, NEW c \in Codes, NEW s \in Stores, code[c].status # "none"
  PROVE  \E row \in CodeRow :
            /\ row = Spent(code[c], s)
            /\ row = [status |-> "used", type |-> code[c].type, order |-> code[c].order,
                      user |-> code[c].user, store |-> code[c].store, quota |-> code[c].quota,
                      usedBy |-> s]
  <1>1. PICK r \in CodeRow : r = code[c]
    BY DEF CodesInv, RowTypes
  <1>2. PICK row : row = Spent(r, s)
    OBVIOUS
  <1>3. row = [status |-> "used", type |-> r.type, order |-> r.order, user |-> r.user,
               store |-> r.store, quota |-> r.quota, usedBy |-> s]
    BY <1>1, <1>2 DEF CodeRow, Spent
  <1>4. row \in CodeRow
    BY <1>1, <1>3 DEF CodeRow
  <1>5. QED
    BY <1>1, <1>2, <1>3, <1>4

(***************************************************************************)
(* redeemMemberQuotaCode.                                                  *)
(***************************************************************************)
LEMMA RedeemStoreReadStep ==
  ASSUME CodesInv, NEW r \in Reqs, RedeemStoreRead(r)
  PROVE  CodesInv'
  <1>1. PICK u \in Users, c \in Codes, s \in Stores :
           Goto(r, "lookup", [NoClaim EXCEPT !.user = u, !.code = c, !.store = s,
                                             !.extra = extra[s]])
    BY DEF RedeemStoreRead
  <1>2. PICK n \in Nat : n = extra[s]
    BY DEF CodesInv, RowTypes
  <1>3. PICK k : k = [NoClaim EXCEPT !.user = u, !.code = c, !.store = s, !.extra = n]
    OBVIOUS
  <1>4. k = [user |-> u, store |-> s, code |-> c, order |-> None, extra |-> n, quota |-> 0,
             needsCode |-> FALSE]
    BY <1>3 DEF NoClaim
  <1>5. k \in Claim /\ Carries("lookup", k)
    BY <1>4 DEF Claim, Carries
  <1>6. QED
    BY <1>1, <1>2, <1>3, <1>5, ReadStep DEF RedeemStoreRead, Steps

LEMMA RedeemCodeReadStep ==
  ASSUME CodesInv, NEW r \in Reqs, RedeemCodeRead(r)
  PROVE  CodesInv'
  <1>1. PICK c : c = claim[r]
    OBVIOUS
  <1>2. c \in Claim /\ c.code \in Codes /\ c.store \in Stores
    BY <1>1 DEF RedeemCodeRead, CodesInv, Carries
  <1>3. CASE Answer(r)
    BY <1>3, NoClaimTyped, ReadStep DEF RedeemCodeRead, Answer, Steps
  <1>4. CASE /\ MemberCodeFits(c.code, c.user, c.store)
             /\ Goto(r, "redeem", [c EXCEPT !.quota = code[c.code].quota])
    <2>1. code[c.code] \in CodeRow
      BY <1>2 DEF CodesInv, RowTypes
    <2>2. PICK n \in Nat : n = code[c.code].quota
      BY <2>1 DEF CodeRow
    <2>3. PICK k : k = [c EXCEPT !.quota = n]
      OBVIOUS
    <2>4. k \in Claim /\ k.code = c.code /\ k.store = c.store
      BY <1>2, <2>3 DEF Claim
    <2>5. MemberCode(c.code, c.store)
      BY <1>2, <1>4, CodesAssumption DEF MemberCodeFits, MemberCode, CodesInv, Bound
    <2>6. Carries("redeem", k)
      BY <1>2, <2>4, <2>5 DEF Carries
    <2>7. QED
      BY <1>4, <2>2, <2>3, <2>4, <2>6, ReadStep DEF RedeemCodeRead, Steps
  <1>5. QED
    BY <1>1, <1>3, <1>4 DEF RedeemCodeRead

LEMMA RedeemCommitStep ==
  ASSUME CodesInv, NEW r \in Reqs, RedeemCommit(r)
  PROVE  CodesInv'
  <1>1. PICK k : k = claim[r]
    OBVIOUS
  <1>2. k \in Claim /\ k.code \in Codes /\ k.store \in Stores /\ MemberCode(k.code, k.store)
    BY <1>1 DEF RedeemCommit, CodesInv, Carries
  <1>3. PICK c \in Codes, s \in Stores : c = k.code /\ s = k.store
    BY <1>2
  <1>4. code[c].status # "none" /\ code[c].type = "member" /\ code[c].store = s
    BY <1>2, <1>3 DEF MemberCode
  <1>5. PICK row \in CodeRow :
            /\ row = Spent(code[c], s)
            /\ row.status = "used" /\ row.type = code[c].type /\ row.store = code[c].store
            /\ row.usedBy = s
    BY <1>4, SpentCode
  <1>6. code' = [code EXCEPT ![c] = row]
    BY <1>1, <1>3, <1>5 DEF RedeemCommit, CodesInv, RowTypes
  <1>7. extra' \in [Stores -> Nat]
    <2>1. k.extra + k.quota \in Nat
      BY <1>2 DEF Claim
    <2>2. QED
      BY <2>1, <1>1 DEF RedeemCommit, CodesInv, RowTypes
  <1>8. \A t \in Stores : openedWith[t] # c
    BY <1>4, CodesAssumption DEF CodesInv, StoreCodeOpensOne
  <1>9. /\ quotaOrder' \in [QuotaOrders -> QuotaOrderRow]
        /\ \A p \in QuotaOrders : /\ Ordered(p) => Ordered(p)'
                                  /\ Ordered(p)' /\ quotaOrder'[p].type = "member" =>
                                        quotaOrder'[p].store \in Stores
    BY DEF RedeemCommit, CodesInv, RowTypes, Bound, Ordered
  <1>10. UNCHANGED <<owner, openedWith, active, disabled>>
    BY DEF RedeemCommit, members
  <1>11. RowsAfter
    BY <1>4, <1>5, <1>6, <1>7, <1>8, <1>9, <1>10, CodeReplaced
  <1>12. QED
    BY <1>11, AnswerStep DEF RedeemCommit

(***************************************************************************)
(* StoreService.create.                                                    *)
(***************************************************************************)
LEMMA OpenReadStep ==
  ASSUME CodesInv, NEW r \in Reqs, OpenAllowed(r) \/ OpenCheck(r) \/ OpenFail(r)
  PROVE  CodesInv'
  <1>1. CASE OpenAllowed(r)
    <2>1. PICK u \in Users, c \in Codes \cup {None} :
             Goto(r, "allowed", [NoClaim EXCEPT !.user = u, !.code = c])
      BY <1>1 DEF OpenAllowed
    <2>2. PICK k : k = [NoClaim EXCEPT !.user = u, !.code = c]
      OBVIOUS
    <2>3. k = [user |-> u, store |-> None, code |-> c, order |-> None, extra |-> 0, quota |-> 0,
               needsCode |-> FALSE]
      BY <2>2 DEF NoClaim
    <2>4. k \in Claim /\ Carries("allowed", k)
      BY <2>3 DEF Claim, Carries
    <2>5. QED
      BY <1>1, <2>1, <2>2, <2>4, ReadStep DEF OpenAllowed, Steps
  <1>2. CASE OpenCheck(r)
    <2>1. PICK c : c = claim[r]
      OBVIOUS
    <2>2. c \in Claim /\ c.user \in Users
      BY <1>2, <2>1 DEF OpenCheck, CodesInv, Carries
    <2>3. PICK b \in BOOLEAN : b = NeedsCode(claim[r].user)
      <3>1. NeedsCode(claim[r].user) \in BOOLEAN
        BY SMT DEF NeedsCode
      <3>2. QED
        BY <3>1, Zenon
    <2>4. PICK k : k = [c EXCEPT !.needsCode = b]
      OBVIOUS
    <2>5. k \in Claim /\ k.user = c.user
      BY <2>2, <2>4 DEF Claim
    <2>6. Carries("open", k)
      BY <2>2, <2>5 DEF Carries
    <2>7. Goto(r, "open", k)
      BY <1>2, <2>1, <2>3, <2>4 DEF OpenCheck
    <2>8. QED
      BY <1>2, <2>5, <2>6, <2>7, ReadStep DEF OpenCheck, Steps
  <1>3. CASE OpenFail(r)
    BY <1>3, NoClaimTyped, ReadStep DEF OpenFail, Answer, Steps
  <1>4. QED
    BY <1>1, <1>2, <1>3

LEMMA OpenCommitStep ==
  ASSUME CodesInv, NEW r \in Reqs, OpenCommit(r)
  PROVE  CodesInv'
  <1>1. PICK k : k = claim[r]
    OBVIOUS
  <1>2. k \in Claim /\ k.user \in Users /\ k.code \in Codes \cup {None}
    BY <1>1 DEF OpenCommit, CodesInv, Carries, Claim
  <1>3. PICK s \in Stores :
           /\ owner[s] = None
           /\ owner' = [owner EXCEPT ![s] = k.user]
           /\ IF Redeems(k)
              THEN /\ code' = [code EXCEPT ![k.code] = Spent(@, s)]
                   /\ openedWith' = [openedWith EXCEPT ![s] = k.code]
              ELSE UNCHANGED <<code, openedWith>>
    BY <1>1 DEF OpenCommit
  <1>4. /\ UNCHANGED <<extra, active, disabled, quotaOrder>>
        /\ openedWith[s] = None
        /\ k.user # None
    BY <1>2, <1>3, CodesAssumption DEF OpenCommit, members, CodesInv, Unopened
  <1>5. /\ owner \in [Stores -> Users \cup {None}]
        /\ owner' \in [Stores -> Users \cup {None}]
        /\ owner'[s] = k.user
        /\ \A t \in Stores : t # s => owner'[t] = owner[t]
        /\ openedWith \in [Stores -> Codes \cup {None}]
    BY <1>2, <1>3 DEF CodesInv, RowTypes
  <1>6. CASE ~Redeems(k)
    <2>1. UNCHANGED <<code, openedWith>>
      BY <1>3, <1>6
    <2>2. RowsAfter
      BY <2>1, <1>4, <1>5 DEF CodesInv, RowsAfter, RowTypes, StoreCodeOpensOne, Bound, Unopened,
                              Ordered, MemberCode
    <2>3. QED
      BY <2>2, AnswerStep DEF OpenCommit
  <1>7. CASE Redeems(k)
    <2>1. PICK c \in Codes : c = k.code
      BY <1>2, <1>7 DEF Redeems
    <2>2. code[c].status = "unused" /\ code[c].type = "store" /\ code[c].user = k.user
      BY <1>1, <1>7, <2>1 DEF OpenCommit, StoreCodeFits
    <2>3. PICK row \in CodeRow :
             /\ row = Spent(code[c], s)
             /\ row.status = "used" /\ row.type = "store" /\ row.user = k.user
             /\ row.usedBy = s
      BY <2>2, SpentCode
    <2>4. code \in [Codes -> CodeRow]
      BY DEF CodesInv, RowTypes
    <2>5. /\ code' = [code EXCEPT ![c] = row]
          /\ openedWith' = [openedWith EXCEPT ![s] = c]
      BY <1>3, <1>7, <2>1, <2>3, <2>4
    <2>6. /\ code' \in [Codes -> CodeRow]
          /\ code'[c] = row
          /\ \A d \in Codes : d # c => code'[d] = code[d]
          /\ openedWith' \in [Stores -> Codes \cup {None}]
          /\ openedWith'[s] = c
          /\ \A t \in Stores : t # s => openedWith'[t] = openedWith[t]
      BY <1>5, <2>4, <2>5
    <2>7. \A t \in Stores : openedWith[t] # c
      BY <2>2, CodesAssumption DEF CodesInv, StoreCodeOpensOne
    <2>8. RowTypes'
      BY <1>4, <1>5, <2>6 DEF CodesInv, RowTypes
    <2>9. StoreCodeOpensOne'
      <3> SUFFICES ASSUME NEW t \in Stores, openedWith'[t] # None
                   PROVE  /\ code'[openedWith'[t]].status = "used"
                          /\ code'[openedWith'[t]].type = "store"
                          /\ code'[openedWith'[t]].user = owner'[t]
                          /\ code'[openedWith'[t]].usedBy = t
        BY DEF StoreCodeOpensOne
      <3>1. CASE t = s
        BY <3>1, <1>5, <2>3, <2>6
      <3>2. CASE t # s
        <4>1. openedWith[t] \in Codes /\ openedWith[t] # c /\ openedWith[t] # None
          BY <3>2, <1>5, <2>6, <2>7
        <4>2. QED
          BY <3>2, <4>1, <1>5, <2>6 DEF CodesInv, StoreCodeOpensOne
      <3>3. QED
        BY <3>1, <3>2
    <2>10. Bound'
      BY <1>4, <2>3, <2>6 DEF CodesInv, Bound, Ordered
    <2>11. Unopened'
      BY <1>4, <1>5, <2>6 DEF CodesInv, Unopened
    <2>12. /\ \A o \in QuotaOrders : Ordered(o) => Ordered(o)'
           /\ \A d \in Codes, t \in Stores : MemberCode(d, t) => MemberCode(d, t)'
      BY <1>4, <2>2, <2>6 DEF Ordered, MemberCode
    <2>13. RowsAfter
      BY <2>8, <2>9, <2>10, <2>11, <2>12 DEF RowsAfter
    <2>14. QED
      BY <2>13, AnswerStep DEF OpenCommit
  <1>8. QED
    BY <1>6, <1>7

(***************************************************************************)
(* Members, and restarts.                                                  *)
(***************************************************************************)
LEMMA EnrolCheckStep ==
  ASSUME CodesInv, NEW r \in Reqs, EnrolCheck(r)
  PROVE  CodesInv'
  <1>1. PICK s \in Stores : Goto(r, "enrol", [NoClaim EXCEPT !.store = s])
    BY DEF EnrolCheck
  <1>2. PICK k : k = [NoClaim EXCEPT !.store = s]
    OBVIOUS
  <1>3. k \in Claim /\ Carries("enrol", k)
    BY <1>2 DEF NoClaim, Claim, Carries
  <1>4. QED
    BY <1>1, <1>2, <1>3, ReadStep DEF EnrolCheck, Steps

LEMMA MembersTyped ==
  ASSUME CodesInv, NEW s \in Stores,
         \/ Revive(s)
         \/ active' = [active EXCEPT ![s] = @ + 1] /\ UNCHANGED disabled
         \/ UNCHANGED members
         \/ /\ active[s] > 0
            /\ active' = [active EXCEPT ![s] = @ - 1]
            /\ disabled' = [disabled EXCEPT ![s] = @ + 1]
  PROVE  active' \in [Stores -> Nat] /\ disabled' \in [Stores -> Nat]
  <1>1. /\ active \in [Stores -> Nat] /\ active[s] \in Nat
        /\ disabled \in [Stores -> Nat] /\ disabled[s] \in Nat
    BY DEF CodesInv, RowTypes
  <1>2. QED
    BY <1>1 DEF Revive, members

LEMMA EnrolCommitStep ==
  ASSUME CodesInv, NEW r \in Reqs, EnrolCommit(r)
  PROVE  CodesInv'
  <1>1. PICK s : s = claim[r].store
    OBVIOUS
  <1>2. s \in Stores
    BY <1>1 DEF EnrolCommit, CodesInv, Carries
  <1>3. active' \in [Stores -> Nat] /\ disabled' \in [Stores -> Nat]
    BY <1>1, <1>2, MembersTyped DEF EnrolCommit
  <1>4. RowsAfter
    BY <1>3, SameRows DEF EnrolCommit, CodesInv, RowTypes
  <1>5. QED
    BY <1>4, AnswerStep DEF EnrolCommit

LEMMA MemberStatusStep ==
  ASSUME CodesInv, NEW s \in Stores, DisableMember(s) \/ EnableMember(s)
  PROVE  CodesInv'
  <1>1. active' \in [Stores -> Nat] /\ disabled' \in [Stores -> Nat]
    BY MembersTyped DEF DisableMember, EnableMember
  <1>2. RowsAfter
    BY <1>1, SameRows DEF DisableMember, EnableMember, CodesInv, RowTypes
  <1>3. QED
    BY <1>2, OutsideStep DEF DisableMember, EnableMember

LEMMA CrashStep ==
  ASSUME CodesInv, Crash
  PROVE  CodesInv'
  <1>1. RowsAfter
    BY SameRows DEF Crash, rows, members, CodesInv, RowTypes
  <1>2. /\ pc' \in [Reqs -> Steps] /\ claim' \in [Reqs -> Claim]
        /\ \A r \in Reqs : pc'[r] = "idle" /\ claim'[r] = NoClaim
    BY NoClaimTyped DEF Crash, Steps
  <1>3. \A r \in Reqs : Carries(pc[r], claim[r])'
    BY <1>2 DEF Carries
  <1>4. QED
    BY <1>1, <1>2, <1>3 DEF RowsAfter, CodesInv

LEMMA StepInv == CodesInv /\ [Next]_vars => CodesInv'
  <1> SUFFICES ASSUME CodesInv, [Next]_vars PROVE CodesInv'
    OBVIOUS
  <1>1. ASSUME NEW r \in Reqs, Handle(r)
        PROVE  CodesInv'
    <2>1. CASE ConfirmRead(r) \/ CancelRead(r)
      BY <2>1, OrderReadStep
    <2>2. CASE ConfirmCommit(r)
      BY <2>2, ConfirmCommitStep
    <2>3. CASE CancelCommit(r)
      BY <2>3, CancelCommitStep
    <2>4. CASE RedeemStoreRead(r)
      BY <2>4, RedeemStoreReadStep
    <2>5. CASE RedeemCodeRead(r)
      BY <2>5, RedeemCodeReadStep
    <2>6. CASE RedeemCommit(r)
      BY <2>6, RedeemCommitStep
    <2>7. CASE OpenAllowed(r) \/ OpenCheck(r) \/ OpenFail(r)
      BY <2>7, OpenReadStep
    <2>8. CASE OpenCommit(r)
      BY <2>8, OpenCommitStep
    <2>9. CASE EnrolCheck(r)
      BY <2>9, EnrolCheckStep
    <2>10. CASE EnrolCommit(r)
      BY <2>10, EnrolCommitStep
    <2>11. QED
      BY <1>1, <2>1, <2>2, <2>3, <2>4, <2>5, <2>6, <2>7, <2>8, <2>9, <2>10 DEF Handle
  <1>2. ASSUME NEW o \in QuotaOrders, CreateQuotaOrder(o)
        PROVE  CodesInv'
    BY <1>2, CreateQuotaOrderStep
  <1>3. ASSUME NEW s \in Stores, DisableMember(s) \/ EnableMember(s)
        PROVE  CodesInv'
    BY <1>3, MemberStatusStep
  <1>4. CASE Crash
    BY <1>4, CrashStep
  <1>5. CASE UNCHANGED vars
    <2>1. RowsAfter
      BY <1>5, SameRows DEF vars, CodesInv, RowTypes
    <2>2. QED
      BY <1>5, <2>1, OutsideStep DEF vars
  <1>6. QED
    BY <1>1, <1>2, <1>3, <1>4, <1>5 DEF Next

LEMMA Inductive == Spec => []CodesInv
  <1>1. Init => CodesInv
    BY InitInv
  <1>2. CodesInv /\ [Next]_vars => CodesInv'
    BY StepInv
  <1>3. QED
    BY <1>1, <1>2, PTL DEF Spec

(***************************************************************************)
(* A store code is spent by the transaction that opens the store and names *)
(* it, whatever requests, restarts and second confirmations come between.  *)
(***************************************************************************)
THEOREM StoreCodesOpenOneStore == Spec => []StoreCodesOpenOne
  <1>1. CodesInv => StoreCodesOpenOne
    BY InvTyped DEF CodesInv, StoreCodesOpenOne
  <1>2. QED
    BY <1>1, Inductive, PTL

(***************************************************************************)
(* Two redemptions of one member code may both pass the check of its       *)
(* status; the second writes the store the row already names.              *)
(***************************************************************************)
LEMMA SpentAgain ==
  ASSUME CodesInv, NEW r \in Reqs, RedeemCommit(r), NEW c \in Codes, code[c].status = "used"
  PROVE  code'[c] = code[c]
  <1>1. PICK k : k = claim[r]
    OBVIOUS
  <1>2. k.code \in Codes /\ k.store \in Stores /\ MemberCode(k.code, k.store)
    BY <1>1 DEF RedeemCommit, CodesInv, Carries
  <1>3. code' = [code EXCEPT ![k.code] = Spent(@, k.store)] /\ code \in [Codes -> CodeRow]
    BY <1>1 DEF RedeemCommit, CodesInv, RowTypes
  <1>4. CASE c # k.code
    BY <1>3, <1>4
  <1>5. CASE c = k.code
    <2>1. code'[c] = Spent(code[c], k.store)
      BY <1>3, <1>5
    <2>2. code[c].usedBy = k.store
      BY <1>2, <1>5, CodesAssumption DEF MemberCode, CodesInv, Bound
    <2>3. PICK row \in CodeRow : row = code[c] /\ row.status = "used" /\ row.usedBy = k.store
      BY <1>3, <2>2
    <2>4. Spent(row, k.store) = row
      BY <2>3 DEF Spent, CodeRow
    <2>5. QED
      BY <2>1, <2>3, <2>4
  <1>6. QED
    BY <1>4, <1>5

LEMMA SpentKept ==
  ASSUME CodesInv, [Next]_vars, NEW c \in Codes, code[c].status = "used"
  PROVE  code'[c] = code[c]
  <1>1. ASSUME NEW r \in Reqs, RedeemCommit(r)
        PROVE  code'[c] = code[c]
    BY <1>1, SpentAgain
  <1>2. ASSUME NEW r \in Reqs, ConfirmCommit(r)
        PROVE  code'[c] = code[c]
    <2>1. PICK d \in Codes :
             code[d].status = "none" /\ \E row : code' = [code EXCEPT ![d] = row]
      BY <1>2 DEF ConfirmCommit
    <2>2. QED
      BY <2>1 DEF CodesInv, RowTypes
  <1>3. ASSUME NEW r \in Reqs, OpenCommit(r)
        PROVE  code'[c] = code[c]
    <2>1. CASE UNCHANGED code
      BY <2>1
    <2>2. CASE Redeems(claim[r])
      <3>1. PICK d : d = claim[r].code
        OBVIOUS
      <3>2. code[d].status = "unused"
        BY <1>3, <2>2, <3>1 DEF OpenCommit, StoreCodeFits
      <3>3. PICK row : code' = [code EXCEPT ![d] = row]
        BY <1>3, <2>2, <3>1 DEF OpenCommit
      <3>4. QED
        BY <3>2, <3>3 DEF CodesInv, RowTypes
    <2>3. QED
      BY <1>3, <2>1, <2>2 DEF OpenCommit
  <1>4. CASE \A r \in Reqs : ~RedeemCommit(r) /\ ~ConfirmCommit(r) /\ ~OpenCommit(r)
    <2>1. UNCHANGED code
      BY <1>4 DEF Next, Handle, vars, rows, ConfirmRead, CancelRead, CancelCommit,
                  RedeemStoreRead, RedeemCodeRead, OpenAllowed, OpenCheck, OpenFail, EnrolCheck,
                  EnrolCommit, CreateQuotaOrder, DisableMember, EnableMember, Crash
    <2>2. QED
      BY <2>1
  <1>5. QED
    BY <1>1, <1>2, <1>3, <1>4

(***************************************************************************)
(* No step changes a spent code: neither a late redemption, nor a store    *)
(* being opened, nor an order confirmed a second time.                     *)
(***************************************************************************)
THEOREM CodesStaySpent == Spec => SpentCodesStay
  <1>1. CodesInv /\ [Next]_vars =>
          [\A c \in Codes : code[c].status = "used" => code'[c] = code[c]]_vars
    BY SpentKept
  <1>2. QED
    BY <1>1, Inductive, PTL DEF Spec, SpentCodesStay

(***************************************************************************)
(* The member limit.  What the codes spent on a store are worth is a sum   *)
(* that never shrinks.  A redemption carries a limit it read before it saw *)
(* its code unused, so at that moment the code was not in the sum yet, and *)
(* what it is about to write is covered from then on.                      *)
(***************************************************************************)
Worths(a) == [c \in Codes |-> a[c].quota]

GrantedOn(a, s) == {c \in Codes : a[c].type = "member" /\ a[c].usedBy = s}

Worth(a, s) == SumOver(Worths(a), GrantedOn(a, s))

WorthWith(a, s, c) == SumOver(Worths(a), GrantedOn(a, s) \cup {c})

Covered(a, step, k) ==
    /\ step = "lookup" => k.extra <= Worth(a, k.store)
    /\ step = "redeem" => /\ k.quota = a[k.code].quota
                          /\ k.extra + k.quota <= WorthWith(a, k.store, k.code)

UsedMarked(a) == \A c \in Codes : a[c].usedBy # None => a[c].status = "used"

LimitInv ==
    /\ UsedMarked(code)
    /\ \A s \in Stores : IsFiniteSet(GrantedOn(code, s)) /\ extra[s] <= Worth(code, s)
    /\ \A r \in Reqs : Covered(code, pc[r], claim[r])

LEMMA GrantedIsWorth == ASSUME NEW s PROVE Granted(s) = Worth(code, s)
  <1>1. \A c \in GrantedOn(code, s) : Worths(code)[c] = code[c].quota
    BY DEF Worths, GrantedOn
  <1>2. MapThenSumSet(LAMBDA c : code[c].quota, GrantedOn(code, s))
          = SumOver([c \in GrantedOn(code, s) |-> code[c].quota], GrantedOn(code, s))
    BY DEF MapThenSumSet, MapThenFoldSet, SumOver, PartialSums, Body, Chosen
  <1>3. QED
    BY <1>1, <1>2, SumSame DEF Granted, Worth, GrantedOn

(* What a step may do to the codes.                                        *)
Grows(a, b) ==
    /\ b \in [Codes -> CodeRow]
    /\ UsedMarked(b)
    /\ \A c \in Codes : a[c].status # "none" => b[c].quota = a[c].quota
    /\ \A s \in Stores :
          \/ GrantedOn(b, s) = GrantedOn(a, s)
          \/ \E d \in Codes : GrantedOn(b, s) = GrantedOn(a, s) \cup {d}

LEMMA WorthGrows ==
  ASSUME NEW a \in [Codes -> CodeRow], UsedMarked(a), NEW b, Grows(a, b),
         NEW s \in Stores, IsFiniteSet(GrantedOn(a, s)),
         NEW E, E \subseteq Codes, IsFiniteSet(E), \A c \in E : a[c].status # "none"
  PROVE  /\ IsFiniteSet(GrantedOn(b, s))
         /\ SumOver(Worths(a), GrantedOn(a, s) \cup E) \in Nat
         /\ SumOver(Worths(b), GrantedOn(b, s) \cup E) \in Nat
         /\ SumOver(Worths(a), GrantedOn(a, s) \cup E) <= SumOver(Worths(b), GrantedOn(b, s) \cup E)
  <1>1. PICK S : S = GrantedOn(a, s) \cup E
    OBVIOUS
  <1>2. IsFiniteSet(S)
    BY <1>1, FS_Union
  <1>3. \A c \in S : Worths(a)[c] \in Nat
    BY <1>1 DEF Worths, GrantedOn, CodeRow
  <1>4. \A c \in Codes : Worths(b)[c] \in Nat
    BY DEF Worths, Grows, CodeRow
  <1>5. \A c \in S : a[c].status # "none" /\ c \in Codes
    <2>1. \A c \in GrantedOn(a, s) : a[c].usedBy # None
      BY CodesAssumption DEF GrantedOn
    <2>2. \A c \in GrantedOn(a, s) : a[c].status # "none" /\ c \in Codes
      BY <2>1 DEF UsedMarked, GrantedOn
    <2>3. QED
      BY <1>1, <2>2
  <1>6. \A c \in S : Worths(b)[c] = Worths(a)[c]
    BY <1>5 DEF Worths, Grows
  <1>7. SumOver(Worths(b), S) = SumOver(Worths(a), S) /\ SumOver(Worths(a), S) \in Nat
    BY <1>2, <1>3, <1>6, SumSame, SumIn
  <1>8. CASE GrantedOn(b, s) = GrantedOn(a, s)
    BY <1>1, <1>7, <1>8
  <1>9. ASSUME NEW d \in Codes, GrantedOn(b, s) = GrantedOn(a, s) \cup {d}
        PROVE  /\ IsFiniteSet(GrantedOn(b, s))
               /\ SumOver(Worths(b), GrantedOn(b, s) \cup E) \in Nat
               /\ SumOver(Worths(a), S) <= SumOver(Worths(b), GrantedOn(b, s) \cup E)
    <2>1. GrantedOn(b, s) \cup E = S \cup {d}
      BY <1>1, <1>9
    <2>2. IsFiniteSet(GrantedOn(b, s))
      BY <1>9, FS_AddElement
    <2>3. /\ Worths(b)[d] \in Nat
          /\ \A c \in S : Worths(b)[c] \in Nat
      BY <1>4, <1>5
    <2>4. /\ SumOver(Worths(b), S \cup {d}) \in Nat
          /\ SumOver(Worths(b), S) <= SumOver(Worths(b), S \cup {d})
      BY <1>2, <2>3, SumGrows
    <2>5. QED
      BY <1>7, <2>1, <2>2, <2>4
  <1>10. QED
    BY <1>1, <1>7, <1>8, <1>9 DEF Grows

LEMMA StoreWorthGrows ==
  ASSUME NEW a \in [Codes -> CodeRow], UsedMarked(a), NEW b, Grows(a, b),
         NEW s \in Stores, IsFiniteSet(GrantedOn(a, s))
  PROVE  /\ IsFiniteSet(GrantedOn(b, s))
         /\ Worth(a, s) \in Nat /\ Worth(b, s) \in Nat /\ Worth(a, s) <= Worth(b, s)
  <1>1. /\ IsFiniteSet(GrantedOn(b, s))
        /\ SumOver(Worths(a), GrantedOn(a, s) \cup {}) \in Nat
        /\ SumOver(Worths(b), GrantedOn(b, s) \cup {}) \in Nat
        /\ SumOver(Worths(a), GrantedOn(a, s) \cup {}) <= SumOver(Worths(b), GrantedOn(b, s) \cup {})
    BY WorthGrows, FS_EmptySet
  <1>2. GrantedOn(a, s) \cup {} = GrantedOn(a, s) /\ GrantedOn(b, s) \cup {} = GrantedOn(b, s)
    OBVIOUS
  <1>3. QED
    BY <1>1, <1>2 DEF Worth

(* What a request carries stays covered while others spend codes.          *)
LEMMA StaysCovered ==
  ASSUME NEW a \in [Codes -> CodeRow], UsedMarked(a), NEW b, Grows(a, b),
         NEW step, NEW k \in Claim, Covered(a, step, k),
         \A s \in Stores : IsFiniteSet(GrantedOn(a, s)),
         step \in {"lookup", "redeem"} => k.code \in Codes /\ k.store \in Stores,
         step = "redeem" => a[k.code].status # "none"
  PROVE  Covered(b, step, k)
  <1>1. k.extra \in Nat /\ k.quota \in Nat
    BY DEF Claim
  <1>2. ASSUME step = "lookup" PROVE k.extra <= Worth(b, k.store)
    <2>1. Worth(a, k.store) \in Nat /\ Worth(b, k.store) \in Nat /\ Worth(a, k.store) <= Worth(b, k.store)
      BY <1>2, StoreWorthGrows
    <2>2. k.extra <= Worth(a, k.store)
      BY <1>2 DEF Covered
    <2>3. QED
      BY <1>1, <2>1, <2>2
  <1>3. ASSUME step = "redeem"
        PROVE  /\ k.quota = b[k.code].quota
               /\ k.extra + k.quota <= WorthWith(b, k.store, k.code)
    <2>1. IsFiniteSet({k.code})
      BY FS_Singleton
    <2>2. /\ WorthWith(a, k.store, k.code) \in Nat
          /\ WorthWith(b, k.store, k.code) \in Nat
          /\ WorthWith(a, k.store, k.code) <= WorthWith(b, k.store, k.code)
      BY <1>3, <2>1, WorthGrows DEF WorthWith
    <2>3. k.extra + k.quota <= WorthWith(a, k.store, k.code)
      BY <1>3 DEF Covered
    <2>4. QED
      BY <1>1, <1>3, <2>2, <2>3 DEF Covered, Grows
  <1>4. QED
    BY <1>2, <1>3 DEF Covered

(* A step of one request; what the others carry stays covered.             *)
LEMMA LimitRequest ==
  ASSUME CodesInv, LimitInv, Grows(code, code'),
         \A s \in Stores : extra'[s] \in Nat,
         \A s \in Stores : extra'[s] = extra[s] \/ extra'[s] <= Worth(code', s),
         NEW r \in Reqs, NEW step, NEW k, Goto(r, step, k), Covered(code', step, k)
  PROVE  LimitInv'
  <1>1. PICK a \in [Codes -> CodeRow] : a = code
    BY DEF CodesInv, RowTypes
  <1>2. PICK b : b = code'
    OBVIOUS
  <1>3. /\ UsedMarked(a) /\ Grows(a, b) /\ Covered(b, step, k)
        /\ \A s \in Stores : IsFiniteSet(GrantedOn(a, s)) /\ extra[s] <= Worth(a, s)
    BY <1>1, <1>2 DEF LimitInv
  <1>4. ASSUME NEW s \in Stores
        PROVE  IsFiniteSet(GrantedOn(b, s)) /\ extra'[s] <= Worth(b, s)
    <2>1. /\ IsFiniteSet(GrantedOn(b, s))
          /\ Worth(a, s) \in Nat /\ Worth(b, s) \in Nat /\ Worth(a, s) <= Worth(b, s)
      BY <1>3, StoreWorthGrows
    <2>2. extra[s] \in Nat /\ extra[s] <= Worth(a, s)
      BY <1>3 DEF CodesInv, RowTypes
    <2>3. extra'[s] <= Worth(b, s)
      BY <1>2, <2>1, <2>2
    <2>4. QED
      BY <2>1, <2>3
  <1>5. ASSUME NEW q \in Reqs
        PROVE  Covered(b, pc'[q], claim'[q])
    <2>1. /\ pc' = [pc EXCEPT ![r] = step]
          /\ claim' = [claim EXCEPT ![r] = k]
          /\ pc \in [Reqs -> Steps] /\ claim \in [Reqs -> Claim]
      BY DEF Goto, CodesInv
    <2>2. CASE q = r
      BY <1>3, <2>1, <2>2
    <2>3. CASE q # r
      <3>1. PICK st, c : st = pc[q] /\ c = claim[q]
        OBVIOUS
      <3>2. /\ c \in Claim /\ Carries(st, c) /\ Covered(a, st, c)
            /\ pc'[q] = st /\ claim'[q] = c
        BY <1>1, <2>1, <2>3, <3>1 DEF CodesInv, LimitInv
      <3>3. /\ st \in {"lookup", "redeem"} => c.code \in Codes /\ c.store \in Stores
            /\ st = "redeem" => a[c.code].status # "none"
        BY <1>1, <3>2 DEF Carries, MemberCode
      <3>4. \A s \in Stores : IsFiniteSet(GrantedOn(a, s))
        BY <1>3
      <3>5. Covered(b, st, c)
        BY <1>3, <3>2, <3>3, <3>4, StaysCovered
      <3>6. QED
        BY <3>2, <3>5
    <2>4. QED
      BY <2>2, <2>3
  <1>6. UsedMarked(b)
    BY <1>3 DEF Grows
  <1>7. QED
    BY <1>2, <1>4, <1>5, <1>6 DEF LimitInv

LEMMA SameCodesGrow == ASSUME CodesInv, LimitInv, UNCHANGED code PROVE Grows(code, code')
  BY DEF CodesInv, RowTypes, LimitInv, Grows

LEMMA NotRedeeming ==
  ASSUME NEW a, NEW step, step \notin {"lookup", "redeem"}, NEW k
  PROVE  Covered(a, step, k)
  BY DEF Covered

(* Requests that leave the codes and the limit alone.                      *)
LEMMA LimitQuiet ==
  ASSUME CodesInv, LimitInv, UNCHANGED <<code, extra>>, NEW r \in Reqs,
         NEW step, step \notin {"lookup", "redeem"}, NEW k, Goto(r, step, k)
  PROVE  LimitInv'
  BY LimitRequest, SameCodesGrow, NotRedeeming DEF CodesInv, RowTypes

LEMMA RedeemStoreReadLimit ==
  ASSUME CodesInv, LimitInv, NEW r \in Reqs, RedeemStoreRead(r)
  PROVE  LimitInv'
  <1>1. PICK u \in Users, c \in Codes, s \in Stores :
             Goto(r, "lookup", [NoClaim EXCEPT !.user = u, !.code = c, !.store = s,
                                               !.extra = extra[s]])
    BY DEF RedeemStoreRead
  <1>2. PICK k : k = [NoClaim EXCEPT !.user = u, !.code = c, !.store = s, !.extra = extra[s]]
    OBVIOUS
  <1>3. k.store = s /\ k.extra = extra[s]
    BY <1>2 DEF NoClaim
  <1>4. UNCHANGED <<code, extra>>
    BY DEF RedeemStoreRead, rows
  <1>5. Covered(code', "lookup", k)
    BY <1>3, <1>4 DEF LimitInv, Covered
  <1>6. QED
    BY <1>1, <1>2, <1>4, <1>5, LimitRequest, SameCodesGrow DEF CodesInv, RowTypes

(* The code is unused when it is read, so it is not in the sum yet.        *)
LEMMA RedeemCodeReadLimit ==
  ASSUME CodesInv, LimitInv, NEW r \in Reqs, RedeemCodeRead(r)
  PROVE  LimitInv'
  <1>1. UNCHANGED <<code, extra>>
    BY DEF RedeemCodeRead, rows
  <1>2. PICK k \in Claim : k = claim[r]
    BY DEF CodesInv
  <1>3. PICK a \in [Codes -> CodeRow] : a = code
    BY DEF CodesInv, RowTypes
  <1>4. CASE MemberCodeFits(k.code, k.user, k.store)
    <2>1. k.code \in Codes /\ k.store \in Stores /\ Covered(a, "lookup", k)
      BY <1>2, <1>3 DEF RedeemCodeRead, CodesInv, Carries, LimitInv
    <2>2. PICK d : d = [k EXCEPT !.quota = a[k.code].quota]
      OBVIOUS
    <2>3. /\ d.quota = a[k.code].quota /\ d.extra = k.extra
          /\ d.store = k.store /\ d.code = k.code
      BY <2>2 DEF Claim
    <2>4. IsFiniteSet(GrantedOn(a, k.store)) /\ UsedMarked(a)
      BY <1>3, <2>1 DEF LimitInv
    <2>5. k.code \notin GrantedOn(a, k.store)
      BY <1>3, <1>4, <2>1, <2>4, CodesAssumption DEF MemberCodeFits, UsedMarked, GrantedOn
    <2>6. /\ \A c \in GrantedOn(a, k.store) : Worths(a)[c] \in Nat
          /\ Worths(a)[k.code] \in Nat /\ Worths(a)[k.code] = a[k.code].quota
      BY <2>1 DEF Worths, GrantedOn, CodeRow
    <2>7. Worth(a, k.store) \in Nat
      BY <2>4, <2>6, SumIn DEF Worth
    <2>8. WorthWith(a, k.store, k.code) = a[k.code].quota + Worth(a, k.store)
      <3>1. \A c \in GrantedOn(a, k.store) : Worths(a)[c] \in Int
        BY <2>6
      <3>2. Worths(a)[k.code] \in Int
        BY <2>6
      <3>3. QED
        BY <2>4, <2>5, <2>6, <3>1, <3>2, SumWith DEF WorthWith, Worth
    <2>9. k.extra \in Nat /\ k.extra <= Worth(a, k.store) /\ a[k.code].quota \in Nat
      BY <2>1, <2>6 DEF Covered, Claim
    <2>10. d.extra + d.quota <= WorthWith(a, d.store, d.code)
      BY <2>3, <2>7, <2>8, <2>9
    <2>11. Covered(a, "redeem", d)
      BY <2>3, <2>10 DEF Covered
    <2>12. Goto(r, "redeem", d)
      BY <1>2, <1>3, <1>4, <2>2 DEF RedeemCodeRead
    <2>13. Covered(code', "redeem", d)
      BY <1>1, <1>3, <2>11
    <2>14. QED
      BY <1>1, <2>12, <2>13, LimitRequest, SameCodesGrow DEF CodesInv, RowTypes
  <1>5. CASE ~MemberCodeFits(k.code, k.user, k.store)
    BY <1>1, <1>2, <1>5, LimitQuiet DEF RedeemCodeRead, Answer
  <1>6. QED
    BY <1>4, <1>5

LEMMA RedeemCommitLimit ==
  ASSUME CodesInv, CodesInv', LimitInv, NEW r \in Reqs, RedeemCommit(r)
  PROVE  LimitInv'
  <1>1. PICK k \in Claim : k = claim[r]
    BY DEF CodesInv
  <1>2. PICK a \in [Codes -> CodeRow] : a = code
    BY DEF CodesInv, RowTypes
  <1>3. PICK c \in Codes, s \in Stores : c = k.code /\ s = k.store
    BY <1>1 DEF RedeemCommit, CodesInv, Carries
  <1>4. a[c].status # "none" /\ a[c].type = "member" /\ a[c].store = s
    BY <1>1, <1>2, <1>3 DEF RedeemCommit, CodesInv, Carries, MemberCode
  <1>5. a[c].usedBy \in {None, s}
    <2>1. a[c].usedBy # None => a[c].status = "used"
      BY <1>2 DEF LimitInv, UsedMarked
    <2>2. a[c].status = "used" => a[c].usedBy = a[c].store
      BY <1>2, <1>4 DEF CodesInv, Bound
    <2>3. QED
      BY <1>4, <2>1, <2>2
  <1>6. PICK b : b = code'
    OBVIOUS
  <1>7. b = [a EXCEPT ![c] = Spent(a[c], s)]
    BY <1>1, <1>2, <1>3, <1>6 DEF RedeemCommit
  <1>8. PICK row \in CodeRow : row = a[c]
    OBVIOUS
  <1>9. PICK new : new = Spent(row, s)
    OBVIOUS
  <1>10. /\ new.status = "used" /\ new.usedBy = s /\ new.type = "member"
         /\ new.quota = row.quota
    BY <1>4, <1>8, <1>9 DEF Spent, CodeRow
  <1>11. /\ b[c] = new
         /\ \A d \in Codes \ {c} : b[d] = a[d]
    BY <1>7, <1>8, <1>9
  <1>12. b \in [Codes -> CodeRow]
    BY <1>6 DEF CodesInv, RowTypes
  <1>13. s # None
    BY CodesAssumption
  <1>14. GrantedOn(b, s) = GrantedOn(a, s) \cup {c}
    BY <1>10, <1>11 DEF GrantedOn
  <1>15. \A t \in Stores \ {s} : GrantedOn(b, t) = GrantedOn(a, t)
    <2>1. \A t \in Stores \ {s} : t # None
      BY CodesAssumption
    <2>2. QED
      BY <1>5, <1>10, <1>11, <2>1 DEF GrantedOn
  <1>16. Grows(a, b)
    <2>1. UsedMarked(b)
      BY <1>2, <1>10, <1>11 DEF LimitInv, UsedMarked
    <2>2. \A d \in Codes : a[d].status # "none" => b[d].quota = a[d].quota
      BY <1>8, <1>10, <1>11
    <2>3. QED
      BY <1>12, <1>14, <1>15, <2>1, <2>2 DEF Grows
  <1>17. extra' = [extra EXCEPT ![s] = k.extra + k.quota]
    BY <1>1, <1>3 DEF RedeemCommit
  <1>18. k.extra + k.quota <= Worth(b, s)
    <2>1. k.extra + k.quota <= WorthWith(a, s, c)
      BY <1>1, <1>2, <1>3 DEF LimitInv, Covered, RedeemCommit
    <2>2. WorthWith(a, s, c) <= WorthWith(b, s, c) /\ WorthWith(a, s, c) \in Nat
            /\ WorthWith(b, s, c) \in Nat
      <3>1. IsFiniteSet({c}) /\ IsFiniteSet(GrantedOn(a, s)) /\ UsedMarked(a)
        BY <1>2, FS_Singleton DEF LimitInv
      <3>2. {c} \subseteq Codes /\ \A d \in {c} : a[d].status # "none"
        BY <1>4
      <3>3. QED
        BY <1>16, <3>1, <3>2, WorthGrows DEF WorthWith
    <2>3. WorthWith(b, s, c) = Worth(b, s)
      <3>1. GrantedOn(b, s) \cup {c} = GrantedOn(b, s)
        BY <1>14
      <3>2. QED
        BY <3>1 DEF WorthWith, Worth
    <2>4. k.extra + k.quota \in Nat
      BY DEF Claim
    <2>5. QED
      BY <2>1, <2>2, <2>3, <2>4
  <1>19. \A t \in Stores : extra'[t] = extra[t] \/ extra'[t] <= Worth(b, t)
    BY <1>17, <1>18 DEF CodesInv, RowTypes
  <1>20. \A t \in Stores : extra'[t] \in Nat
    BY DEF CodesInv, RowTypes
  <1>21. Covered(b, "idle", NoClaim)
    BY NotRedeeming
  <1>22. Goto(r, "idle", NoClaim)
    BY DEF RedeemCommit, Answer
  <1>23. QED
    BY <1>2, <1>6, <1>16, <1>19, <1>20, <1>21, <1>22, LimitRequest

(* A new code is not used, and a store code is no member code.             *)
LEMMA RowGrows ==
  ASSUME CodesInv, CodesInv', LimitInv, NEW c \in Codes, NEW row,
         code' = [code EXCEPT ![c] = row],
         \/ code[c].status = "none" /\ row.usedBy = None
         \/ /\ code[c].type = "store" /\ row.type = "store"
            /\ row.quota = code[c].quota /\ row.status = "used"
  PROVE  Grows(code, code')
  <1>1. PICK a \in [Codes -> CodeRow] : a = code
    BY DEF CodesInv, RowTypes
  <1>2. PICK b : b = code'
    OBVIOUS
  <1>3. /\ b[c] = row
        /\ \A d \in Codes \ {c} : b[d] = a[d]
    BY <1>1, <1>2
  <1>4. UsedMarked(a)
    BY <1>1 DEF LimitInv
  <1>5. UsedMarked(b)
    BY <1>3, <1>4 DEF UsedMarked
  <1>6. \A d \in Codes : a[d].status # "none" => b[d].quota = a[d].quota
    BY <1>1, <1>3
  <1>7. ASSUME NEW s \in Stores PROVE GrantedOn(b, s) = GrantedOn(a, s)
    <2>1. s # None
      BY CodesAssumption
    <2>2. c \notin GrantedOn(a, s)
      BY <1>1, <1>4, <2>1 DEF UsedMarked, GrantedOn
    <2>3. c \notin GrantedOn(b, s)
      BY <1>3, <2>1 DEF GrantedOn
    <2>4. QED
      BY <1>3, <2>2, <2>3 DEF GrantedOn
  <1>8. b \in [Codes -> CodeRow]
    BY <1>2 DEF CodesInv, RowTypes
  <1>9. QED
    BY <1>1, <1>2, <1>5, <1>6, <1>7, <1>8 DEF Grows

LEMMA AnswerLimit ==
  ASSUME CodesInv, LimitInv, Grows(code, code'), extra' = extra, NEW r \in Reqs, Answer(r)
  PROVE  LimitInv'
  BY LimitRequest, NotRedeeming DEF Answer, CodesInv, RowTypes

LEMMA ConfirmCommitLimit ==
  ASSUME CodesInv, CodesInv', LimitInv, NEW r \in Reqs, ConfirmCommit(r)
  PROVE  LimitInv'
  <1>1. PICK c \in Codes :
          /\ code[c].status = "none"
          /\ code' = [code EXCEPT ![c] =
                [status |-> "unused", type |-> quotaOrder[claim[r].order].type,
                 order |-> claim[r].order, user |-> quotaOrder[claim[r].order].user,
                 store |-> quotaOrder[claim[r].order].store,
                 quota |-> quotaOrder[claim[r].order].quota, usedBy |-> None]]
    BY DEF ConfirmCommit
  <1>2. Grows(code, code')
    BY <1>1, RowGrows
  <1>3. extra' = extra /\ Answer(r)
    BY DEF ConfirmCommit
  <1>4. QED
    BY <1>2, <1>3, AnswerLimit

LEMMA OpenCommitLimit ==
  ASSUME CodesInv, CodesInv', LimitInv, NEW r \in Reqs, OpenCommit(r)
  PROVE  LimitInv'
  <1>1. extra' = extra /\ Answer(r)
    BY DEF OpenCommit
  <1>2. CASE Redeems(claim[r])
    <2>1. PICK c : c = claim[r].code
      OBVIOUS
    <2>2. c \in Codes
      BY <1>2, <2>1 DEF Redeems, CodesInv, Claim
    <2>3. PICK row \in CodeRow : row = code[c] /\ row.type = "store"
      BY <1>2, <2>1, <2>2 DEF OpenCommit, StoreCodeFits, CodesInv, RowTypes
    <2>4. PICK s \in Stores : code' = [code EXCEPT ![c] = Spent(row, s)]
      BY <1>2, <2>1, <2>3 DEF OpenCommit
    <2>5. PICK new : new = Spent(row, s)
      OBVIOUS
    <2>6. new.type = "store" /\ new.quota = row.quota /\ new.status = "used"
      BY <2>3, <2>5 DEF Spent, CodeRow
    <2>7. Grows(code, code')
      BY <2>2, <2>3, <2>4, <2>5, <2>6, RowGrows
    <2>8. QED
      BY <1>1, <2>7, AnswerLimit
  <1>3. CASE ~Redeems(claim[r])
    BY <1>1, <1>3, SameCodesGrow, AnswerLimit DEF OpenCommit
  <1>4. QED
    BY <1>2, <1>3

LEMMA LimitUnmoved ==
  ASSUME LimitInv, UNCHANGED <<code, extra, pc, claim>>
  PROVE  LimitInv'
  BY DEF LimitInv, UsedMarked, Covered, Worth, WorthWith, Worths, GrantedOn

LEMMA CrashLimit ==
  ASSUME CodesInv, LimitInv, Crash
  PROVE  LimitInv'
  <1>1. UNCHANGED <<code, extra>>
    BY DEF Crash, rows
  <1>2. \A r \in Reqs : pc'[r] = "idle"
    BY DEF Crash
  <1>3. \A r \in Reqs : Covered(code, pc[r], claim[r])'
    BY <1>2 DEF Covered
  <1>4. QED
    BY <1>1, <1>3 DEF LimitInv, UsedMarked, Worth, Worths, GrantedOn

LEMMA InitLimit == Init => LimitInv
  <1> SUFFICES ASSUME Init PROVE LimitInv
    OBVIOUS
  <1>1. UsedMarked(code)
    BY DEF Init, UsedMarked, NoCode
  <1>2. ASSUME NEW s \in Stores
        PROVE  IsFiniteSet(GrantedOn(code, s)) /\ extra[s] <= Worth(code, s)
    <2>1. GrantedOn(code, s) = {}
      BY DEF Init, GrantedOn, NoCode
    <2>2. Worth(code, s) = 0 /\ extra[s] = 0
      BY <2>1, SumEmpty DEF Worth, Init
    <2>3. QED
      BY <2>1, <2>2, FS_EmptySet
  <1>3. \A r \in Reqs : Covered(code, pc[r], claim[r])
    BY DEF Init, Covered
  <1>4. QED
    BY <1>1, <1>2, <1>3 DEF LimitInv

LEMMA StepLimit == CodesInv /\ CodesInv' /\ LimitInv /\ [Next]_vars => LimitInv'
  <1> SUFFICES ASSUME CodesInv, CodesInv', LimitInv, [Next]_vars PROVE LimitInv'
    OBVIOUS
  <1>1. ASSUME NEW r \in Reqs, Handle(r)
        PROVE  LimitInv'
    <2>1. CASE ConfirmRead(r)
      BY <2>1, LimitQuiet DEF ConfirmRead, rows
    <2>2. CASE CancelRead(r) \/ CancelCommit(r)
      BY <2>2, LimitQuiet DEF CancelRead, CancelCommit, Answer, rows
    <2>3. CASE OpenAllowed(r)
      BY <2>3, LimitQuiet DEF OpenAllowed, rows
    <2>4. CASE OpenCheck(r) \/ OpenFail(r)
      BY <2>4, LimitQuiet DEF OpenCheck, OpenFail, Answer, rows
    <2>5. CASE EnrolCheck(r)
      BY <2>5, LimitQuiet DEF EnrolCheck, rows
    <2>6. CASE EnrolCommit(r)
      BY <2>6, LimitQuiet DEF EnrolCommit, Answer
    <2>7. QED
      BY <1>1, <2>1, <2>2, <2>3, <2>4, <2>5, <2>6, RedeemStoreReadLimit, RedeemCodeReadLimit,
         RedeemCommitLimit, ConfirmCommitLimit, OpenCommitLimit DEF Handle
  <1>2. ASSUME \/ \E o \in QuotaOrders : CreateQuotaOrder(o)
               \/ \E s \in Stores : DisableMember(s) \/ EnableMember(s)
               \/ UNCHANGED vars
        PROVE  UNCHANGED <<code, extra, pc, claim>>
    BY <1>2 DEF CreateQuotaOrder, DisableMember, EnableMember, vars
  <1>3. QED
    BY <1>1, <1>2, LimitUnmoved, CrashLimit DEF Next

(* The limit a redemption writes from a stale read is always covered by    *)
(* the codes spent on the store.                                           *)
THEOREM LimitsAlwaysCovered == Spec => []ExtraWithinCodes
  <1>1. LimitInv => ExtraWithinCodes
    BY GrantedIsWorth DEF LimitInv, ExtraWithinCodes
  <1>2. QED
    BY <1>1, InitInv, StepInv, InitLimit, StepLimit, PTL DEF Spec
=============================================================================

---------------------------- MODULE OnlineOrders ----------------------------
(***************************************************************************)
(* Online orders of a store: placing, cancelling, accepting, delivering    *)
(* and the stock of the goods versions they take (OrderService, reached    *)
(* through wx, users/order and store/order).                               *)
(*                                                                         *)
(* cancel, accept, delivery and confirmPayment read the order, and accept  *)
(* also the stock, before a transaction that writes without looking again: *)
(* each is a read step and a commit step.  receive, finish and remove have *)
(* no caller that can reach them and are not modelled.                     *)
(***************************************************************************)
EXTENDS Integers, Sequences, FiniteSets, FiniteSetsExt

CONSTANTS
    Orders,       \* supply of order ids
    Versions,     \* goods versions of the store
    Reqs,         \* in-flight requests
    None,
    Baskets,      \* order lines a customer may send: sequences of [version, count]
    Counts,       \* stock counts a merchant may enter
    FreeOrders    \* free orders of a day: 10 in the code

LineType == [version : Versions, count : Nat \ {0}]

ASSUME OrdersAssumption ==
    /\ None \notin Orders
    /\ \A b \in Baskets : b \in Seq(LineType)
    /\ Counts \subseteq Nat
    /\ FreeOrders \in Nat \ {0}

VARIABLES
    order,      \* user_order rows: status, stage, pay_status and their lines
    history,    \* user_order_action rows of each order, oldest first
    stock,      \* store_goods_version.count; a deleted version keeps its last
    listed,     \* the store_goods_version rows that exist
    supplied,   \* history: what merchants put on the shelf, over all edits
    pc,         \* where each request is
    target      \* the order it is about

rows == <<order, history, stock, listed, supplied>>
vars == <<order, history, stock, listed, supplied, pc, target>>

(* E_USER_ORDER_STATUS and E_USER_ORDER_STAGE, as far as they are reached. *)
Statuses == {"none", "active", "cancel"}
Stages   == {"create", "accept", "delivery"}
Actions  == Stages \cup {"cancel"}

OrderRow == [status : Statuses, stage : Stages, paid : BOOLEAN, lines : Baskets \cup {<<>>}]

NoOrder == [status |-> "none", stage |-> "create", paid |-> FALSE, lines |-> <<>>]

Init ==
    /\ order = [o \in Orders |-> NoOrder]
    /\ history = [o \in Orders |-> <<>>]
    /\ stock \in [Versions -> Counts]
    /\ listed = Versions
    /\ supplied = stock
    /\ pc = [r \in Reqs |-> "idle"]
    /\ target = [r \in Reqs |-> None]

Goto(r, step, o) ==
    /\ pc' = [pc EXCEPT ![r] = step]
    /\ target' = [target EXCEPT ![r] = o]

Answer(r) == Goto(r, "idle", None)

Log(o, action) == history' = [history EXCEPT ![o] = Append(@, action)]

(* getStoreTodayValidOrders counts received and finished orders.           *)
TodayValidOrders == {o \in Orders : order[o].stage \in {"received", "finished"}}

(* create: within the day's free orders; a store that subscribed to        *)
(* unlimited orders skips the count, which no reachable stage raises.      *)
Create(o) ==
    /\ order[o].status = "none"
    /\ Cardinality(TodayValidOrders) < FreeOrders
    /\ \E b \in Baskets :
          order' = [order EXCEPT ![o] =
             [status |-> "active", stage |-> "create", paid |-> FALSE, lines |-> b]]
    /\ Log(o, "create")
    /\ UNCHANGED <<stock, listed, supplied, pc, target>>

CancelRead(r) ==
    /\ pc[r] = "idle"
    /\ \E o \in Orders : order[o].status = "active" /\ Goto(r, "cancel", o)
    /\ UNCHANGED rows

CancelCommit(r) ==
    LET o == target[r]
    IN  /\ pc[r] = "cancel"
        /\ order' = [order EXCEPT ![o].status = "cancel"]
        /\ Log(o, "cancel")
        /\ Answer(r)
        /\ UNCHANGED <<stock, listed, supplied>>

(* accept: the order is new, and every line by itself is in stock.         *)
Acceptable(o) == order[o].status = "active" /\ order[o].stage = "create"

AcceptRead(r) ==
    /\ pc[r] = "idle"
    /\ \E o \in Orders : Acceptable(o) /\ Goto(r, "stock", o)
    /\ UNCHANGED rows

InStock(lines) ==
    \A i \in DOMAIN lines :
        lines[i].version \in listed /\ lines[i].count <= stock[lines[i].version]

StockRead(r) ==
    /\ pc[r] = "stock"
    /\ IF InStock(order[target[r]].lines)
       THEN Goto(r, "accept", target[r])
       ELSE Answer(r)
    /\ UNCHANGED rows

(* What the lines of one order take of a version.                          *)
Taken(lines, v) ==
    MapThenSumSet(LAMBDA i : IF lines[i].version = v THEN lines[i].count ELSE 0, DOMAIN lines)

(* Mutant of AcceptCommit: no transaction, lines whose version is gone are *)
(* skipped.                                                                *)
AcceptCommitPartly(r) ==
    LET o == target[r]
    IN  /\ pc[r] = "accept"
        /\ order' = [order EXCEPT ![o].stage = "accept"]
        /\ Log(o, "accept")
        /\ stock' = [v \in Versions |->
                        IF v \in listed THEN stock[v] - Taken(order[o].lines, v) ELSE stock[v]]
        /\ Answer(r)
        /\ UNCHANGED <<listed, supplied>>

(* Mutant of AcceptCommit: the row is saved as it was read.                *)
AcceptCommitWholeRow(r) ==
    LET o == target[r]
    IN  /\ pc[r] = "accept"
        /\ \A i \in DOMAIN order[o].lines : order[o].lines[i].version \in listed
        /\ order' = [order EXCEPT ![o].stage = "accept", ![o].status = "active"]
        /\ Log(o, "accept")
        /\ stock' = [v \in Versions |-> stock[v] - Taken(order[o].lines, v)]
        /\ Answer(r)
        /\ UNCHANGED <<listed, supplied>>

AcceptCommit(r) ==
    LET o == target[r]
    IN  /\ pc[r] = "accept"
        /\ \A i \in DOMAIN order[o].lines : order[o].lines[i].version \in listed
        /\ order' = [order EXCEPT ![o].stage = "accept"]
        /\ Log(o, "accept")
        /\ stock' = [v \in Versions |-> stock[v] - Taken(order[o].lines, v)]
        /\ Answer(r)
        /\ UNCHANGED <<listed, supplied>>

(* A version of the order is gone: the whole transaction is undone.        *)
AcceptFail(r) ==
    /\ pc[r] = "accept"
    /\ \E i \in DOMAIN order[target[r]].lines : order[target[r]].lines[i].version \notin listed
    /\ Answer(r)
    /\ UNCHANGED rows

DeliveryRead(r) ==
    /\ pc[r] = "idle"
    /\ \E o \in Orders :
          /\ order[o].status = "active"
          /\ order[o].stage = "accept"
          /\ Goto(r, "delivery", o)
    /\ UNCHANGED rows

DeliveryCommit(r) ==
    LET o == target[r]
    IN  /\ pc[r] = "delivery"
        /\ order' = [order EXCEPT ![o].stage = "delivery"]
        /\ Log(o, "delivery")
        /\ Answer(r)
        /\ UNCHANGED <<stock, listed, supplied>>

(* confirmPayment: whatever became of the order.                           *)
ConfirmPayment(o) ==
    /\ order[o].status # "none"
    /\ ~order[o].paid
    /\ order' = [order EXCEPT ![o].paid = TRUE]
    /\ UNCHANGED <<history, stock, listed, supplied, pc, target>>

(* updateGoodsVersion: the merchant enters the count of a version.         *)
UpdateGoodsVersion(v) ==
    /\ v \in listed
    /\ \E n \in Counts :
          /\ stock' = [stock EXCEPT ![v] = n]
          /\ supplied' = [supplied EXCEPT ![v] = @ + n - stock[v]]
    /\ UNCHANGED <<order, history, listed, pc, target>>

(* Removing a goods deletes its versions.                                  *)
RemoveVersion(v) ==
    /\ v \in listed
    /\ listed' = listed \ {v}
    /\ UNCHANGED <<order, history, stock, supplied, pc, target>>

(* The process restarts; requests are gone.                                *)
Crash ==
    /\ \E r \in Reqs : pc[r] # "idle"
    /\ pc' = [r \in Reqs |-> "idle"]
    /\ target' = [r \in Reqs |-> None]
    /\ UNCHANGED rows

Handle(r) == \/ CancelRead(r) \/ CancelCommit(r)
             \/ AcceptRead(r) \/ StockRead(r) \/ AcceptCommit(r) \/ AcceptFail(r)
             \/ DeliveryRead(r) \/ DeliveryCommit(r)

Next == \/ \E r \in Reqs : Handle(r)
        \/ \E o \in Orders : Create(o) \/ ConfirmPayment(o)
        \/ \E v \in Versions : UpdateGoodsVersion(v) \/ RemoveVersion(v)
        \/ Crash

Spec == Init /\ [][Next]_vars
-----------------------------------------------------------------------------
(* Every row has the type of its columns, with only the stages a handler   *)
(* reaches, and a request that will write carries a placed order.          *)
TypeOK ==
    /\ order \in [Orders -> OrderRow]
    /\ history \in [Orders -> Seq(Actions)]
    /\ stock \in [Versions -> Int]
    /\ supplied \in [Versions -> Int]
    /\ listed \subseteq Versions
    /\ pc \in [Reqs -> {"idle", "cancel", "stock", "accept", "delivery"}]
    /\ target \in [Reqs -> Orders \cup {None}]
    /\ \A r \in Reqs : pc[r] # "idle" => target[r] \in Orders /\ order[target[r]].status # "none"

Placed == {o \in Orders : order[o].status # "none"}

(* How often an action was done to an order, by its action rows.           *)
Times(o, action) == Cardinality({i \in DOMAIN history[o] : history[o][i] = action})

(* Stock is what merchants entered less what the accept rows of the orders *)
(* account for, whichever requests race, fail or die: the decrement and    *)
(* the action row are one transaction.                                     *)
StockLedger ==
    \A v \in Versions :
        supplied[v] - stock[v] =
            MapThenSumSet(LAMBDA o : Times(o, "accept") * Taken(order[o].lines, v), Placed)

Did(o, action) == \E i \in DOMAIN history[o] : history[o][i] = action

(* The row of an order is explained by its actions: who is delivered was   *)
(* accepted and delivered, in this order, who is cancelled was cancelled.  *)
StageExplained ==
    \A o \in Orders :
        /\ order[o].status = "cancel" <=> Did(o, "cancel")
        /\ order[o].stage # "create" => Did(o, order[o].stage)
        /\ \A i \in DOMAIN history[o] : history[o][i] = "delivery" =>
               \E j \in 1..(i - 1) : history[o][j] = "accept"

(* A cancelled order never comes back to life, although an accept or a     *)
(* delivery that read it active may still write its stage.                 *)
CancelledStays ==
    [][\A o \in Orders : order[o].status = "cancel" => order'[o].status = "cancel"]_vars
=============================================================================

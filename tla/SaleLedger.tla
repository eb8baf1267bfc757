----------------------------- MODULE SaleLedger -----------------------------
(***************************************************************************)
(* What the cashier promises about a sale and the wallet of the member who *)
(* bought it: a sale is rung up once, its money flows back in atomic       *)
(* refunds that never exceed what is left of it, each refund of a member   *)
(* credits that member with exactly the refunded amount, and the sale is   *)
(* closed by the refund that takes the last cent, never before.            *)
(***************************************************************************)
EXTENDS Integers

CONSTANTS Members,   \* members with an account
          Guest,     \* the anonymous customer
          Unknown,   \* a customer id without an account
          Orders     \* identifiers of sales

Customers == Members \cup {Guest, Unknown}

VARIABLES sale,      \* sale[o]: its state, the customer, what is left to refund
          wallet     \* wallet[m]: the member's balance

vars == <<sale, wallet>>

NoSale == [state |-> "none", customer |-> Guest, left |-> 0]

Init == /\ sale = [o \in Orders |-> NoSale]
        /\ wallet \in [Members -> Int]

(***************************************************************************)
(* The actions constrain the pair of states instead of computing the next  *)
(* one, so that amounts range over all of Nat.                             *)
(***************************************************************************)

(* Ring up sale o, paid from the wallet or by other means.                 *)
Sell(o) ==
    LET c     == sale'[o].customer
        money == sale'[o].left
    IN  /\ sale[o].state = "none"
        /\ c \in Customers
        /\ money \in Nat
        /\ sale' = [sale EXCEPT ![o] = [state |-> "open", customer |-> c, left |-> money]]
        /\ \/ UNCHANGED wallet
           \/ /\ c \in Members
              /\ wallet[c] >= money
              /\ wallet' = [wallet EXCEPT ![c] = @ - money]

(* Refund part or all of what is left of sale o.                           *)
Refund(o) ==
    LET c == sale[o].customer
        x == sale[o].left - sale'[o].left
    IN  /\ sale[o].state = "open"
        /\ c # Unknown
        /\ x \in 1 .. sale[o].left
        /\ sale' = [sale EXCEPT ![o] =
                      [state |-> IF x = sale[o].left THEN "closed" ELSE "open",
                       customer |-> c, left |-> sale[o].left - x]]
        /\ wallet' = IF c \in Members THEN [wallet EXCEPT ![c] = @ + x] ELSE wallet

(* Recharges, account refunds and edits move a wallet and no sale.         *)
MoveWallet(m) ==
    /\ wallet' = [wallet EXCEPT ![m] = wallet'[m]]
    /\ wallet'[m] \in Int
    /\ UNCHANGED sale

Next == \/ \E o \in Orders : Sell(o) \/ Refund(o)
        \/ \E m \in Members : MoveWallet(m)

Spec == Init /\ [][Next]_vars
=============================================================================

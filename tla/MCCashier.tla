----------------------------- MODULE MCCashier -----------------------------
(***************************************************************************)
(* Small instances of Cashier for TLC.                                     *)
(***************************************************************************)
EXTENDS Cashier, FiniteSetsExt, TLC

(* One yuan earns 100 points and 100 points pay one yuan, so that a cent   *)
(* and a point are the same size.                                          *)
OnePointPerCent == [rate |-> 100, ratio |-> 100, perYuan |-> 100, redeem |-> TRUE]

(* `charge`: paid by balance or member_scan.                               *)
Basket(c, n, charge, used, earn) ==
    [member |-> c, money |-> n, charge |-> charge, used |-> used, earn |-> earn,
     pending |-> None]

(* From the balance, in cash by a member, in cash by a guest, and "from    *)
(* the balance" of an account that does not exist.                         *)
TillBaskets(m) == {Basket(m, 2, TRUE, 1, 0), Basket(m, 2, FALSE, 0, 1),
                   Basket(Guest, 1, FALSE, 0, 0), Basket(Unknown, 1, TRUE, 0, 0)}
AllBaskets  == UNION {TillBaskets(m) : m \in Members}
ScanBaskets == UNION {{Basket(m, 1, TRUE, 1, 0)} : m \in Members}

Symmetry == Permutations(Reqs) \cup Permutations(Orders)

(* What the sales charged to a member's balance took.                      *)
Spent(m) == MapThenSumSet(LAMBDA o : order[o].money,
                          {o \in Orders : order[o].charged /\ order[o].member = m})

(* Every cent of a balance is explained by rows that stay: the account     *)
(* movements (recharges, account refunds and order refunds) and the sales  *)
(* paid from the balance, next to what account edits wrote.                *)
BalanceExplained ==
    \A m \in Members : balance[m] = opening[m] + books[m] - Spent(m)
=============================================================================

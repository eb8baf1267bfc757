------------------------- MODULE MCActivationCodes -------------------------
(***************************************************************************)
(* Small instances of ActivationCodes for TLC.                             *)
(***************************************************************************)
EXTENDS ActivationCodes, FiniteSetsExt, TLC

Symmetry == Permutations(Reqs) \cup Permutations(Codes) \cup Permutations(QuotaOrders)
            \cup Permutations(Users) \cup Permutations(Stores)

(* What the used member codes of a store are worth.                        *)
Granted(s) ==
    MapThenSumSet(LAMBDA c : code[c].quota,
                  {c \in Codes : code[c].type = "member" /\ code[c].usedBy = s})

(* A store's extra limit never exceeds the codes spent on it, although two *)
(* requests may redeem one code at once and the limit is written from a    *)
(* stale read: it is read before the code is seen unused.                  *)
ExtraWithinCodes == \A s \in Stores : extra[s] <= Granted(s)
=============================================================================

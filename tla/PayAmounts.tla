----------------------------- MODULE PayAmounts -----------------------------
(***************************************************************************)
(* The amounts of a member scan payment, in integer cents and points:      *)
(* CashierService.calcMemberPayAmounts.  JavaScript computes them with     *)
(* Math.round and Math.floor over doubles; here they are exact rationals   *)
(* rounded the same way (half up).                                         *)
(***************************************************************************)
EXTENDS Integers

(* Math.round(num / den) for num \in Nat and den \in Nat \ {0}.            *)
RoundDiv(num, den) == (2 * num + den) \div (2 * den)

Smaller(a, b) == IF a <= b THEN a ELSE b

(***************************************************************************)
(* What a store's settings contribute: rate is the percentage a member     *)
(* pays (getMemberScanDiscountRate), ratio the points worth one yuan,      *)
(* perYuan the points one yuan earns, redeem whether points may be used    *)
(* today (isPointsRedemptionDay).                                          *)
(***************************************************************************)
SettingsType == [rate : 0 .. 100, ratio : Nat \ {0}, perYuan : Nat \ {0}, redeem : BOOLEAN]

Discounted(total, s) == RoundDiv(total * s.rate, 100)

(* Mutant of Redemption: the discount is not capped by the bill.           *)
RedemptionUncapped(due, available, s) ==
    IF ~s.redeem \/ available <= 0 THEN [used |-> 0, off |-> 0]
    ELSE [used |-> available, off |-> RoundDiv(available * 100, s.ratio)]

(* The points redeemed for a bill of `due` cents, and what they take off.  *)
Redemption(due, available, s) ==
    LET most  == Smaller(due, RoundDiv(available * 100, s.ratio))
        price == RoundDiv(most * s.ratio, 100)
    IN  IF ~s.redeem \/ available <= 0 THEN [used |-> 0, off |-> 0]
        ELSE IF price <= available THEN [used |-> price, off |-> most]
        ELSE [used |-> available,
              off  |-> Smaller(RoundDiv(available * 100, s.ratio), due)]

(* calcMemberPayAmounts(payload, member, settings).                        *)
MemberPayAmounts(total, available, s) ==
    LET due     == Discounted(total, s)
        redeem  == Redemption(due, available, s)
        payable == due - redeem.off
    IN  [payable |-> payable,
         used    |-> redeem.used,
         off     |-> redeem.off,
         earn    |-> (payable * s.perYuan) \div 100]
=============================================================================

----------------------------- MODULE MCPayments -----------------------------
(* Small instances of Payments: organization o1 buys the same monthly plan   *)
(* once or twice, at one gateway or at both.                                 *)
EXTENDS Payments, TLC

CONSTANTS c1, c2, c3, o1, pro, free, nobody, noPayment, noSub

MCOneOrg      == [p \in Payments |-> o1]
MCOnePlan     == [p \in Payments |-> pro]
MCGateways    == 1 :> "zibal" @@ 2 :> "bitpay"
MCZibal       == [p \in Payments |-> "zibal"]
MCBitPay      == [p \in Payments |-> "bitpay"]
MCMonths      == pro :> 1
MCPrice       == pro :> 2

Symmetry == Permutations(Callbacks)
=============================================================================

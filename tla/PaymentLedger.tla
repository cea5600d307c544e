--------------------------- MODULE PaymentLedger ---------------------------
(***************************************************************************)
(* What the payment service promises about one PaymentTransaction row, with *)
(* every request handler shrunk to one atomic step: a row is started, it    *)
(* may be settled, failed or cancelled any number of times, and settling is *)
(* the only step that grants the plan and never happens to a settled row.   *)
(* Payments implements this specification.                                  *)
(***************************************************************************)
EXTENDS Naturals

CONSTANT Payments           \* primary keys of PaymentTransaction rows

VARIABLES
    status,                 \* PaymentTransaction.status, or "absent"
    grants                  \* how often the plan of the row was granted

ledgerVars == <<status, grants>>

Init ==
    /\ status = [p \in Payments |-> "absent"]
    /\ grants = [p \in Payments |-> 0]

Start(p) ==
    /\ status[p] = "absent"
    /\ status' = [status EXCEPT ![p] = "pending"]
    /\ UNCHANGED grants

Settle(p) ==
    /\ status[p] \in {"pending", "failed", "canceled"}
    /\ status' = [status EXCEPT ![p] = "paid"]
    /\ grants' = [grants EXCEPT ![p] = @ + 1]

Drop(p, reason) ==
    /\ status[p] # "absent"
    /\ status' = [status EXCEPT ![p] = reason]
    /\ UNCHANGED grants

Next ==
    \E p \in Payments :
        \/ Start(p)
        \/ Settle(p)
        \/ \E reason \in {"failed", "canceled"} : Drop(p, reason)

Spec == Init /\ [][Next]_ledgerVars
=============================================================================

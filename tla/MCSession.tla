----------------------------- MODULE MCSession -----------------------------
(* Session for TLC: everything is interchangeable.                           *)
EXTENDS Session, TLC

Symmetry ==
    Permutations(Tabs) \cup Permutations(Users) \cup Permutations(Orgs) \cup Permutations(Calls)
=============================================================================

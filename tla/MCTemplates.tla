---------------------------- MODULE MCTemplates ----------------------------
(* Templates for TLC: interchangeable requests.                              *)
EXTENDS Templates, TLC

Symmetry == Permutations(Requests)
=============================================================================

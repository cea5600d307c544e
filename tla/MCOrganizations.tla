-------------------------- MODULE MCOrganizations --------------------------
(* Organizations for TLC: requests and people are interchangeable.           *)
EXTENDS Organizations, TLC

Symmetry == Permutations(Requests) \cup Permutations(People)
=============================================================================

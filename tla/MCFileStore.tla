---------------------------- MODULE MCFileStore ----------------------------
(* FileStore for TLC: interchangeable processes and requests.                *)
EXTENDS FileStore, TLC

Symmetry == Permutations(Processes) \cup Permutations(Requests)
=============================================================================

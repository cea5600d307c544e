----------------------------- MODULE MCIssuance -----------------------------
(* Small instances of Issuance.  Requests r1 and r2 carry one idempotency key; *)
(* r1 and r3 name one recipient address and one year, with different names.   *)
EXTENDS Issuance, TLC

CONSTANTS r1, r2, r3, k1, noKey, e1, noEmail, ann, bob, y1, y2, nobody, none

MCKeyOf     == r1 :> k1 @@ r2 :> k1 @@ r3 :> noKey
MCEmailOf   == r1 :> e1 @@ r2 :> noEmail @@ r3 :> e1
MCNameOf    == r1 :> ann @@ r2 :> ann @@ r3 :> bob
MCYearOf    == r1 :> y1 @@ r2 :> y2 @@ r3 :> y1
=============================================================================

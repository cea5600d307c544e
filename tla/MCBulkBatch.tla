---------------------------- MODULE MCBulkBatch ----------------------------
(***************************************************************************)
(* BulkBatch for TLC: one row with an address whose date is written with       *)
(* slashes, so that it passes the validation and is refused afterwards, and    *)
(* one with a name alone.  Under the mapping the headers suggest the first is  *)
(* refused and the second issued without an address; under the one requests    *)
(* send, which takes the date for the name, the first is issued with its       *)
(* address and the second is invalid; another cannot be read at all.           *)
(***************************************************************************)
EXTENDS BulkBatch, TLC

CONSTANTS slashed, bare, name, date, address

MCRows     == {slashed, bare}
MCColumns  == {name, date, address}
MCTable    == (slashed :> (name :> "plain" @@ date :> "loose" @@ address :> "plain"))
           @@ (bare    :> (name :> "plain" @@ date :> "" @@ address :> ""))
MCAlias    == name :> "recipient_name" @@ date :> "issue_date" @@ address :> "email"
MCMappings == {name :> None @@ date :> "recipient_name" @@ address :> "email", Malformed}
=============================================================================

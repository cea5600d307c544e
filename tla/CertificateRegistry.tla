------------------------ MODULE CertificateRegistry ------------------------
(***************************************************************************)
(* What issuing promises about the certificates of one organization: they    *)
(* get consecutive numbers within the year of their issue date, and of the   *)
(* certificates that are there no two share a number or an idempotency key.  *)
(* Issuance implements this specification.                                   *)
(***************************************************************************)
EXTENDS Naturals

CONSTANTS
    Requests,       \* a certificate is named by the request that issued it
    Years,
    Keys,
    NoKey

VARIABLES
    last,           \* the last number given out in each year
    book,           \* the certificates: [id, year, seq, key]
    gone            \* the certificates that were removed: [id, key]

registryVars == <<last, book, gone>>

Distinct(entries) ==
    \A a, b \in entries : a.id # b.id =>
        /\ <<a.year, a.seq>> # <<b.year, b.seq>>
        /\ a.key = b.key => a.key = NoKey

Init ==
    /\ last = [y \in Years |-> 0]
    /\ book = {}
    /\ gone = {}

\* A certificate enters the book under the next number of its year.
Register(id, year, key) ==
    LET entry == [id |-> id, year |-> year, seq |-> last[year] + 1, key |-> key]
    IN  /\ \A other \in book \cup gone : other.id # id
        /\ Distinct(book \cup {entry})
        /\ book' = book \cup {entry}
        /\ last' = [last EXCEPT ![year] = @ + 1]
        /\ UNCHANGED gone

\* A certificate may be renumbered, but only to a number nobody has.
Renumber(entry) ==
    \E new \in book' :
        /\ new.id = entry.id /\ new.key = entry.key
        /\ book' = (book \ {entry}) \cup {new}
        /\ Distinct(book')
        /\ UNCHANGED <<last, gone>>

Remove(entry) ==
    /\ book' = book \ {entry}
    /\ gone' = gone \cup {[id |-> entry.id, key |-> entry.key]}
    /\ UNCHANGED last

\* A certificate that was removed may come back, under its key if that is still free and
\* a number nobody has.
Restore(old) ==
    \E new \in book' :
        /\ new.id = old.id /\ new.key = old.key
        /\ book' = book \cup {new}
        /\ gone' = gone \ {old}
        /\ Distinct(book')
        /\ UNCHANGED last

Next ==
    \/ \E id \in Requests, year \in Years, key \in Keys \cup {NoKey} : Register(id, year, key)
    \/ \E entry \in book : Renumber(entry) \/ Remove(entry)
    \/ \E old \in gone : Restore(old)

Spec == Init /\ [][Next]_registryVars
=============================================================================

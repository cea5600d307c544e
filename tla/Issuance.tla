------------------------------ MODULE Issuance ------------------------------
(***************************************************************************)
(* Issuing certificates in one organization (certificates/services.py,      *)
(* certificates/numbering.py, billing/entitlements.py, billing/usage.py).   *)
(* issue_certificate runs in one transaction of a web worker or a bulk      *)
(* task; several run at once.  A transaction at READ COMMITTED sees what is  *)
(* committed and its own writes; a row it updated, and a unique value it     *)
(* inserted, belong to it until it ends.                                     *)
(*                                                                          *)
(* A certificate is named by the request that issued it, a recipient by the  *)
(* request that created it.  The printed number "prefix-year-seq" is the     *)
(* pair <<year, seq>>: the prefix does not distinguish numbers.              *)
(***************************************************************************)
EXTENDS Naturals, FiniteSets

CONSTANTS
    Requests,       \* calls of issue_certificate
    Keys,           \* Idempotency-Key values
    NoKey,          \* the call carries no key
    Emails,         \* recipient addresses
    NoEmail,        \* the call carries no address
    Names,          \* recipient names
    Years,          \* years of issue dates
    KeyOf, EmailOf, NameOf, YearOf,     \* the arguments of each call
    Limit,          \* certificates_per_month of the plan; 0 is unlimited
    Workers,        \* processes that run requests
    LastMonth,      \* bound: the last month
    MaxSeq,         \* bound: the largest number an edit types in, but for the row's own
    Nobody, None

ASSUME IssuanceAssumption ==
    /\ IsFiniteSet(Requests)
    /\ KeyOf \in [Requests -> Keys \cup {NoKey}]
    /\ EmailOf \in [Requests -> Emails \cup {NoEmail}]
    /\ NameOf \in [Requests -> Names]
    /\ YearOf \in [Requests -> Years]
    /\ NoKey \notin Keys
    /\ NoEmail \notin Emails
    /\ Limit \in Nat
    /\ Workers \in Nat \ {0}
    /\ LastMonth \in Nat \ {0}
    /\ MaxSeq \in Nat
    /\ Nobody \notin Requests
    /\ None \notin Requests
    /\ None \notin Names

VARIABLES
    \* database
    cert,           \* Certificate rows
    name,           \* Recipient.full_name, or None where there is no row
    seqLast,        \* CertificateNumberSequence.last_value of each year
    usage,          \* UsageCounter "certificates_issued" of each month
    open,           \* issuance_enabled and not is_suspended
    month,          \* the current month
    \* what the running transactions hold
    rcptLock,       \* the Recipient row they updated
    seqLock,        \* the CertificateNumberSequence row
    keyLock,        \* the idempotency key they inserted
    usageLock,      \* the UsageCounter row
    \* the requests
    pc, draft, answer,
    \* history
    handed          \* the number a request's certificate was issued under, or 0

locks   == <<rcptLock, seqLock, keyLock, usageLock>>
dbVars  == <<cert, name, seqLast, usage, open, month>>
vars    == <<cert, name, seqLast, usage, open, month, rcptLock, seqLock, keyLock,
             usageLock, pc, draft, answer, handed>>

Months == 1..LastMonth

\* "sealed" is the recipient's name that went into integrity_hash.
NoCert == [there |-> FALSE]
Cert   == [there : {TRUE}, year : Years, seq : Nat, rcpt : Requests, sealed : Names]
Draft  == [rcpt : Requests \cup {None}, seq : Nat, month : Months \cup {0}]

Passed == {"recipient", "number", "insert", "usage", "commit"}
Active == {"lookup", "quota"} \cup Passed
Ended  == {"answered", "refused", "keyClash", "numberClash"}

TypeOK ==
    /\ cert \in [Requests -> Cert \cup {NoCert}]
    /\ name \in [Requests -> Names \cup {None}]
    /\ seqLast \in [Years -> Nat]
    /\ usage \in [Months -> Nat]
    /\ open \in BOOLEAN
    /\ month \in Months
    /\ rcptLock \in [Requests -> Requests \cup {Nobody}]
    /\ seqLock \in [Years -> Requests \cup {Nobody}]
    /\ keyLock \in [Keys -> Requests \cup {Nobody}]
    /\ usageLock \in [Months -> Requests \cup {Nobody}]
    /\ pc \in [Requests -> {"idle"} \cup Active \cup Ended]
    /\ draft \in [Requests -> Draft]
    /\ answer \in [Requests -> Requests \cup {None}]
    /\ handed \in [Requests -> Nat]

Init ==
    /\ cert = [r \in Requests |-> NoCert]
    /\ name = [r \in Requests |-> None]
    /\ seqLast = [y \in Years |-> 0]
    /\ usage = [m \in Months |-> 0]
    /\ open = TRUE
    /\ month = 1
    /\ rcptLock = [r \in Requests |-> Nobody]
    /\ seqLock = [y \in Years |-> Nobody]
    /\ keyLock = [k \in Keys |-> Nobody]
    /\ usageLock = [m \in Months |-> Nobody]
    /\ pc = [r \in Requests |-> "idle"]
    /\ draft = [r \in Requests |-> [rcpt |-> None, seq |-> 0, month |-> 0]]
    /\ answer = [r \in Requests |-> None]
    /\ handed = [r \in Requests |-> 0]

Goto(r, label) == pc' = [pc EXCEPT ![r] = label]

\* Certificates in the table, and those under a key or a number.
Present      == {q \in Requests : cert[q].there}
WithKey(k)   == {q \in Present : KeyOf[q] = k}
Numbered(y, n) == {q \in Present : cert[q].year = y /\ cert[q].seq = n}

\* Certificates that were deleted.
Deleted      == {q \in Requests : handed[q] # 0} \ Present

\* The row of a certificate under a number.  No writer changes its recipient.
Row(q, y, n) == [there |-> TRUE, year |-> y, seq |-> n, rcpt |-> draft[q].rcpt, sealed |-> NameOf[q]]

\* The number a running transaction has inserted but not committed.
Reserved(y, n) ==
    {q \in Requests : pc[q] \in {"usage", "commit"} /\ YearOf[q] = y /\ draft[q].seq = n}

-----------------------------------------------------------------------------
(* issue_certificate                                                        *)

\* The permission class loads the organization; the flags are tested on that
\* object and never again.
Arrive(r) ==
    /\ pc[r] = "idle"
    /\ Cardinality({q \in Requests : pc[q] \in Active}) < Workers
    /\ Goto(r, IF open THEN "lookup" ELSE "refused")
    /\ UNCHANGED <<dbVars, locks, draft, answer, handed>>

\* A certificate that has the key already is the answer.
LookupKey(r) ==
    /\ pc[r] = "lookup"
    /\ \/ /\ KeyOf[r] # NoKey
          /\ \E q \in WithKey(KeyOf[r]) : answer' = [answer EXCEPT ![r] = q]
          /\ Goto(r, "answered")
       \/ /\ KeyOf[r] = NoKey \/ WithKey(KeyOf[r]) = {}
          /\ Goto(r, "quota")
          /\ UNCHANGED answer
    /\ UNCHANGED <<dbVars, locks, draft, handed>>

\* Mutant: the limit is compared with > instead of >=.
QuotaLeftOffByOne == Limit = 0 \/ usage[month] <= Limit

\* assert_can_issue reads the counter without a lock.
QuotaLeft == Limit = 0 \/ usage[month] < Limit

CheckQuota(r) ==
    /\ pc[r] = "quota"
    /\ Goto(r, IF QuotaLeft THEN "recipient" ELSE "refused")
    /\ UNCHANGED <<dbVars, locks, draft, answer, handed>>

\* Recipients with the address of the call.  The column is not unique.
Known(r) ==
    {q \in Requests : name[q] # None /\ EmailOf[r] # NoEmail /\ EmailOf[q] = EmailOf[r]}

\* A known recipient is renamed to the name of this call, which waits for other
\* transactions that renamed the row; otherwise a row is created.
ChooseRecipient(r) ==
    /\ pc[r] = "recipient"
    /\ \/ \E q \in Known(r) :
             /\ rcptLock[q] = Nobody
             /\ rcptLock' = [rcptLock EXCEPT ![q] = r]
             /\ draft' = [draft EXCEPT ![r].rcpt = q]
       \/ /\ Known(r) = {}
          /\ draft' = [draft EXCEPT ![r].rcpt = r]
          /\ UNCHANGED rcptLock
    /\ Goto(r, "number")
    /\ UNCHANGED <<dbVars, seqLock, keyLock, usageLock, answer, handed>>

\* Mutant: the sequence is read with a plain SELECT.
AllocateNumberUnlocked(r) ==
    /\ pc[r] = "number"
    /\ seqLock[YearOf[r]] = Nobody
    /\ draft' = [draft EXCEPT ![r].seq = seqLast[YearOf[r]] + 1]
    /\ Goto(r, "insert")
    /\ UNCHANGED <<dbVars, locks, answer, handed>>

\* Mutant: the number is the count of the year's certificates plus one.
AllocateNumberByCount(r) ==
    /\ pc[r] = "number"
    /\ seqLock[YearOf[r]] = Nobody
    /\ seqLock' = [seqLock EXCEPT ![YearOf[r]] = r]
    /\ draft' = [draft EXCEPT ![r].seq =
                    Cardinality({q \in Present : cert[q].year = YearOf[r]}) + 1]
    /\ Goto(r, "insert")
    /\ UNCHANGED <<dbVars, rcptLock, keyLock, usageLock, answer, handed>>

\* next_certificate_number: its own atomic() is a savepoint, so the sequence row
\* stays locked until the issuing transaction ends.
AllocateNumber(r) ==
    LET y == YearOf[r]
    IN  /\ pc[r] = "number"
        /\ seqLock[y] = Nobody
        /\ seqLock' = [seqLock EXCEPT ![y] = r]
        /\ draft' = [draft EXCEPT ![r].seq = seqLast[y] + 1]
        /\ Goto(r, "insert")
        /\ UNCHANGED <<dbVars, rcptLock, keyLock, usageLock, answer, handed>>

Release(lock, r) == [x \in DOMAIN lock |-> IF lock[x] = r THEN Nobody ELSE lock[x]]

\* The transaction ends; every lock it holds is free again.
EndTransaction(r, label) ==
    /\ Goto(r, label)
    /\ rcptLock' = Release(rcptLock, r)
    /\ seqLock' = Release(seqLock, r)
    /\ keyLock' = Release(keyLock, r)
    /\ usageLock' = Release(usageLock, r)

\* Mutant: there is no unique constraint on the idempotency key.
InsertRowUnkeyed(r) ==
    /\ pc[r] = "insert"
    /\ IF Numbered(YearOf[r], draft[r].seq) # {}
         THEN EndTransaction(r, "numberClash")
         ELSE Goto(r, "usage") /\ UNCHANGED locks
    /\ UNCHANGED <<dbVars, draft, answer, handed>>

\* Mutant: an insert that violates a constraint is tried again with the same values.
InsertRowRetries(r) ==
    /\ pc[r] = "insert"
    /\ Numbered(YearOf[r], draft[r].seq) = {}
    /\ KeyOf[r] # NoKey => WithKey(KeyOf[r]) = {} /\ keyLock[KeyOf[r]] = Nobody
    /\ keyLock' = IF KeyOf[r] = NoKey THEN keyLock ELSE [keyLock EXCEPT ![KeyOf[r]] = r]
    /\ Goto(r, "usage")
    /\ UNCHANGED <<dbVars, rcptLock, seqLock, usageLock, draft, answer, handed>>

\* The row goes in under two unique constraints.  A value another transaction
\* has inserted is waited for; a committed one raises IntegrityError.
InsertRow(r) ==
    LET k == KeyOf[r]
        keyTaken    == k # NoKey /\ WithKey(k) # {}
        numberTaken == Numbered(YearOf[r], draft[r].seq) # {}
    IN  /\ pc[r] = "insert"
        /\ \/ keyTaken /\ EndTransaction(r, "keyClash")
           \/ numberTaken /\ EndTransaction(r, "numberClash")
           \/ /\ ~keyTaken /\ ~numberTaken
              /\ k # NoKey => keyLock[k] = Nobody
              /\ keyLock' = IF k = NoKey THEN keyLock ELSE [keyLock EXCEPT ![k] = r]
              /\ Goto(r, "usage")
              /\ UNCHANGED <<rcptLock, seqLock, usageLock>>
        /\ UNCHANGED <<dbVars, draft, answer, handed>>

\* increment_usage: value = value + 1 in the database, on the row of the month
\* in which this statement runs.
CountUsage(r) ==
    /\ pc[r] = "usage"
    /\ usageLock[month] = Nobody
    /\ usageLock' = [usageLock EXCEPT ![month] = r]
    /\ draft' = [draft EXCEPT ![r].month = month]
    /\ Goto(r, "commit")
    /\ UNCHANGED <<dbVars, rcptLock, seqLock, keyLock, answer, handed>>

\* Everything the transaction wrote becomes visible; on_commit hooks run.
Commit(r) ==
    LET d == draft[r]
        y == YearOf[r]
    IN  /\ pc[r] = "commit"
        /\ cert' = [cert EXCEPT ![r] = Row(r, y, d.seq)]
        /\ name' = [name EXCEPT ![d.rcpt] = NameOf[r]]
        /\ seqLast' = [seqLast EXCEPT ![y] = d.seq]
        /\ usage' = [usage EXCEPT ![d.month] = @ + 1]
        /\ answer' = [answer EXCEPT ![r] = r]
        /\ handed' = [handed EXCEPT ![r] = d.seq]
        /\ EndTransaction(r, "answered")
        /\ UNCHANGED <<open, month, draft>>

\* Mutant: usage is counted outside the transaction, so a rollback keeps it.
AbortKeepsCount(r) ==
    /\ pc[r] \in Active
    /\ EndTransaction(r, "refused")
    /\ usage' = IF pc[r] = "commit" THEN [usage EXCEPT ![draft[r].month] = @ + 1] ELSE usage
    /\ UNCHANGED <<cert, name, seqLast, open, month, draft, answer, handed>>

\* The name is missing, the template has no version, the date does not parse, or
\* the worker dies: the transaction is rolled back.
Abort(r) ==
    /\ pc[r] \in Active
    /\ EndTransaction(r, "refused")
    /\ UNCHANGED <<dbVars, draft, answer, handed>>

-----------------------------------------------------------------------------
(* Other writers of the same rows                                           *)
(*                                                                          *)
(* A PUT or PATCH reads the row, changes some fields and saves all columns.  *)
(* It may have read them at any time since the row was first committed; if   *)
(* the row was deleted meanwhile, save() inserts it again.  The columns the   *)
(* properties look at are typed in or are what they once were.               *)

\* Mutant: there is no unique constraint on the key.
EditNumberUnkeyed(q, y, n) ==
    /\ handed[q] # 0
    /\ Numbered(y, n) \subseteq {q} /\ Reserved(y, n) = {}
    /\ name[draft[q].rcpt] # None
    /\ cert' = [cert EXCEPT ![q] = Row(q, y, n)]
    /\ UNCHANGED <<name, seqLast, usage, open, month, locks, pc, draft, answer, handed>>

\* PUT or PATCH on CertificateViewSet, a ModelViewSet whose serializer leaves
\* certificate_number writable: any number that does not break a constraint.  A row
\* that is inserted again needs its key and its recipient as well.
EditNumber(q, y, n) ==
    /\ handed[q] # 0
    /\ Numbered(y, n) \subseteq {q} /\ Reserved(y, n) = {}
    /\ q \in Deleted =>
          /\ KeyOf[q] # NoKey => WithKey(KeyOf[q]) = {} /\ keyLock[KeyOf[q]] = Nobody
          /\ name[draft[q].rcpt] # None
    /\ cert' = [cert EXCEPT ![q] = Row(q, y, n)]
    /\ UNCHANGED <<name, seqLast, usage, open, month, locks, pc, draft, answer, handed>>

\* DELETE on the same viewset; the key becomes free again.
DeleteCertificate(q) ==
    /\ q \in Present
    /\ cert' = [cert EXCEPT ![q] = NoCert]
    /\ UNCHANGED <<name, seqLast, usage, open, month, locks, pc, draft, answer, handed>>

\* PATCH on RecipientViewSet, of a row that request q once created.
RenameRecipient(q, newName) ==
    /\ handed[q] # 0 /\ draft[q].rcpt = q
    /\ rcptLock[q] = Nobody
    /\ name' = [name EXCEPT ![q] = newName]
    /\ UNCHANGED <<cert, seqLast, usage, open, month, locks, pc, draft, answer, handed>>

\* DELETE on it: certificates protect their recipient (PROTECT), and the row lock
\* of a transaction that works with the row is waited for.
DeleteRecipient(q) ==
    /\ name[q] # None
    /\ rcptLock[q] = Nobody
    /\ \A r \in Present : cert[r].rcpt # q
    /\ name' = [name EXCEPT ![q] = None]
    /\ UNCHANGED <<cert, seqLast, usage, open, month, locks, pc, draft, answer, handed>>

\* The platform admin suspends the organization or lets it issue again.
SetOpen(value) ==
    /\ open # value
    /\ open' = value
    /\ UNCHANGED <<cert, name, seqLast, usage, month, locks, pc, draft, answer, handed>>

NextMonth ==
    /\ month < LastMonth
    /\ month' = month + 1
    /\ UNCHANGED <<cert, name, seqLast, usage, open, locks, pc, draft, answer, handed>>

Handle(r) ==
    \/ LookupKey(r) \/ CheckQuota(r) \/ ChooseRecipient(r) \/ AllocateNumber(r)
    \/ InsertRow(r) \/ CountUsage(r) \/ Commit(r)

Edit ==
    \/ \E q \in Requests, y \in Years : \E n \in 1..MaxSeq \cup {handed[q]} : EditNumber(q, y, n)
    \/ \E q \in Requests : DeleteCertificate(q) \/ DeleteRecipient(q)
    \/ \E q \in Requests, newName \in Names : RenameRecipient(q, newName)

Next ==
    \/ \E r \in Requests : Arrive(r) \/ Handle(r) \/ Abort(r)
    \/ Edit
    \/ \E value \in BOOLEAN : SetOpen(value)
    \/ NextMonth

Spec == Init /\ [][Next]_vars

\* A request that is being handled runs on; a lock that stays free is granted.
Fairness == \A r \in Requests : WF_vars(Handle(r))

FairSpec == Spec /\ Fairness

-----------------------------------------------------------------------------
(* Properties                                                               *)

\* The sequence row is locked from the allocation to the commit, so the numbers
\* of a year are handed out without a gap and without a repetition, whatever
\* transactions are rolled back meanwhile (numbering.py:16-24).
NumbersSequential ==
    \A y \in Years :
        /\ \A r \in Requests : YearOf[r] = y => handed[r] <= seqLast[y]
        /\ \A n \in 1..seqLast[y] : \E r \in Requests : YearOf[r] = y /\ handed[r] = n
        /\ \A r, q \in Requests :
              YearOf[r] = y /\ YearOf[q] = y /\ handed[r] = handed[q] /\ handed[r] # 0 => r = q

\* Of the certificates that are there no two have a number or a key in common, with
\* edits and deletions at any time and rows that a late edit inserts again
\* (models.py:214-225).
CertificatesDistinct ==
    \A r, q \in Present : r # q =>
        /\ <<cert[r].year, cert[r].seq>> # <<cert[q].year, cert[q].seq>>
        /\ KeyOf[r] = KeyOf[q] => KeyOf[r] = NoKey

\* Two calls with one key that are both answered got the same certificate, unless one of
\* them has been deleted, also when a late edit brings a deleted one back
\* (services.py:54-61, models.py:220-224).
SameKeySameCertificate ==
    \A r, q \in Requests :
        /\ pc[r] = "answered" /\ pc[q] = "answered"
        /\ KeyOf[r] = KeyOf[q] /\ KeyOf[r] # NoKey
        => answer[r] = answer[q] \/ {answer[r], answer[q]} \cap Deleted # {}

\* The quota is checked before and counted after the work, so it can be exceeded,
\* but by no more than the requests that can run at once (entitlements.py:54-63).
QuotaOvershootBounded ==
    Limit > 0 => \A m \in Months : usage[m] <= Limit + Workers - 1

\* The counter of a month is exactly the certificates issued in it: no increment
\* is lost, doubled or left behind by a rollback (usage.py:7-16).
UsageExact ==
    \A m \in Months :
        usage[m] = Cardinality({r \in Requests : handed[r] # 0 /\ draft[r].month = m})

\* Four kinds of rows are locked in one order; no request waits for ever.
EveryRequestEnds == \A r \in Requests : pc[r] \in Active ~> pc[r] \in Ended

\* numbering.py:12 says "Allocate a unique number per organization+year under row
\* lock": no certificate has the number that is about to be inserted.
AllocatedNumberIsUnique ==
    \A r \in Requests : pc[r] = "insert" => Numbered(YearOf[r], draft[r].seq) = {}

Registry == INSTANCE CertificateRegistry WITH
    last <- seqLast,
    gone <- {[id |-> r, key |-> KeyOf[r]] : r \in Deleted},
    book <- {[id |-> r, year |-> cert[r].year, seq |-> cert[r].seq, key |-> KeyOf[r]] : r \in Present}

\* The concurrent transactions behave like the one-step registry.
ImplementsRegistry == Registry!Spec
=============================================================================

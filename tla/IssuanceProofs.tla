--------------------------- MODULE IssuanceProofs ---------------------------
(***************************************************************************)
(* Theorems about Issuance for every set of requests and any argument of     *)
(* each.  The argument: from the allocation of its number to its commit a    *)
(* transaction owns the sequence row, so the row still says what it read;    *)
(* from its insert on it owns its key and its number; and every request past *)
(* the quota check is one of at most Workers requests.                       *)
(***************************************************************************)
EXTENDS Issuance, FiniteSetTheorems, TLAPS

\* The recipient a transaction works with was chosen.
HasRecipient ==
    \A r \in Requests :
        pc[r] \in {"number", "insert", "usage", "commit"} => draft[r].rcpt \in Requests

\* The sequence row belongs to whoever has read it.
OwnsSequence ==
    \A r \in Requests : pc[r] \in {"insert", "usage", "commit"} =>
        /\ seqLock[YearOf[r]] = r
        /\ draft[r].seq = seqLast[YearOf[r]] + 1

\* An inserted key and number stay free of other certificates until the commit.
OwnsKey ==
    \A r \in Requests : pc[r] \in {"usage", "commit"} =>
        /\ KeyOf[r] # NoKey => keyLock[KeyOf[r]] = r /\ WithKey(KeyOf[r]) = {}
        /\ Numbered(YearOf[r], draft[r].seq) = {}

\* The counter row belongs to the transaction that is about to commit.
OwnsCounter ==
    \A r \in Requests : pc[r] = "commit" =>
        /\ draft[r].month \in 1..month
        /\ usageLock[draft[r].month] = r

\* Only an answered request has a certificate, under the number handed to it.
Answered ==
    \A r \in Requests :
        /\ cert[r].there => pc[r] = "answered" /\ handed[r] # 0
        /\ handed[r] # 0 => pc[r] = "answered" /\ draft[r].rcpt \in Requests

\* The numbers an edit may save in a row.
Typed(q) == 1..MaxSeq \cup {handed[q]}

IInv ==
    /\ TypeOK
    /\ HasRecipient
    /\ OwnsSequence
    /\ OwnsKey
    /\ OwnsCounter
    /\ Answered
    /\ NumbersSequential
    /\ CertificatesDistinct

-----------------------------------------------------------------------------

LEMMA InitIInv == IssuanceAssumption /\ Init => IInv
<1> SUFFICES ASSUME IssuanceAssumption, Init
             PROVE  IInv
  OBVIOUS
<1>1. TypeOK
  BY DEF Init, TypeOK, IssuanceAssumption, Months, Draft
<1>2. HasRecipient /\ OwnsSequence /\ OwnsKey /\ OwnsCounter
  BY DEF Init, HasRecipient, OwnsSequence, OwnsKey, OwnsCounter
<1>3. \A r \in Requests : ~cert[r].there
  BY DEF Init, NoCert
<1>4. Answered /\ NumbersSequential /\ CertificatesDistinct
  BY <1>3 DEF Init, Answered, NumbersSequential, CertificatesDistinct, Present
<1>5. QED
  BY <1>1, <1>2, <1>4 DEF IInv

LEMMA RowIsCert ==
    ASSUME IssuanceAssumption, NEW q \in Requests, NEW y \in Years, NEW n \in Nat,
           draft[q].rcpt \in Requests
    PROVE  /\ Row(q, y, n) \in Cert
           /\ Row(q, y, n).there /\ Row(q, y, n).year = y /\ Row(q, y, n).seq = n
BY DEF Row, Cert, IssuanceAssumption

\* What an edit does to the table, whether the row is still there or not.
LEMMA EditSaves ==
    ASSUME IssuanceAssumption, TypeOK, Answered,
           NEW q \in Requests, NEW y \in Years, NEW n \in Typed(q), EditNumber(q, y, n)
    PROVE  /\ handed[q] # 0 /\ pc[q] = "answered"
           /\ cert' \in [Requests -> Cert \cup {NoCert}]
           /\ cert'[q].there /\ cert'[q].year = y /\ cert'[q].seq = n
           /\ \A s \in Requests \ {q} : cert'[s] = cert[s]
           /\ Present' = Present \cup {q}
<1>1. n \in Nat
  BY DEF Typed, TypeOK, IssuanceAssumption
<1>2. handed[q] # 0 /\ pc[q] = "answered" /\ draft[q].rcpt \in Requests
  BY DEF EditNumber, Answered
<1>3. cert' = [cert EXCEPT ![q] = Row(q, y, n)]
  BY DEF EditNumber
<1>4. QED
  BY <1>1, <1>2, <1>3, RowIsCert DEF TypeOK, Present

LEMMA EndTypeOK ==
    ASSUME TypeOK, NEW r \in Requests, NEW label \in Ended, EndTransaction(r, label)
    PROVE  /\ pc' \in [Requests -> {"idle"} \cup Active \cup Ended]
           /\ rcptLock' \in [Requests -> Requests \cup {Nobody}]
           /\ seqLock' \in [Years -> Requests \cup {Nobody}]
           /\ keyLock' \in [Keys -> Requests \cup {Nobody}]
           /\ usageLock' \in [Months -> Requests \cup {Nobody}]
BY DEF EndTransaction, Release, Goto, TypeOK

LEMMA RequestTypeOK ==
    ASSUME IssuanceAssumption, IInv, NEW r \in Requests, Arrive(r) \/ Handle(r) \/ Abort(r)
    PROVE  TypeOK'
<1> USE DEF IInv
<1> USE DEF dbVars, locks
<1>1. CASE Arrive(r)
  BY <1>1 DEF Arrive, Goto, TypeOK, Active, Passed, Ended
<1>2. CASE LookupKey(r)
  BY <1>2 DEF LookupKey, WithKey, Present, Goto, TypeOK, Active, Passed, Ended
<1>3. CASE CheckQuota(r)
  BY <1>3 DEF CheckQuota, Goto, TypeOK, Active, Passed, Ended
<1>4. CASE ChooseRecipient(r)
  <2>1. PICK q \in Requests : draft' = [draft EXCEPT ![r].rcpt = q]
    BY <1>4 DEF ChooseRecipient, Known
  <2>2. draft[r] \in Draft /\ [draft[r] EXCEPT !.rcpt = q] \in Draft
    BY DEF TypeOK, Draft
  <2>3. draft' \in [Requests -> Draft]
    BY <2>1, <2>2 DEF TypeOK
  <2>4. rcptLock' \in [Requests -> Requests \cup {Nobody}]
    BY <1>4 DEF ChooseRecipient, TypeOK
  <2>5. QED
    BY <1>4, <2>3, <2>4 DEF ChooseRecipient, Goto, TypeOK, Active, Passed
<1>5. CASE AllocateNumber(r)
  <2>1. draft' \in [Requests -> Draft]
    <3>1. /\ draft' = [draft EXCEPT ![r] = [draft[r] EXCEPT !.seq = seqLast[YearOf[r]] + 1]]
          /\ draft \in [Requests -> Draft]
      BY <1>5 DEF AllocateNumber, TypeOK
    <3>2. seqLast[YearOf[r]] + 1 \in Nat
      BY DEF IssuanceAssumption, TypeOK
    <3>3. [draft[r] EXCEPT !.seq = seqLast[YearOf[r]] + 1] \in Draft
      BY <3>1, <3>2 DEF Draft
    <3>4. QED
      BY <3>1, <3>3
  <2>2. seqLock' \in [Years -> Requests \cup {Nobody}]
    BY <1>5 DEF AllocateNumber, IssuanceAssumption, TypeOK
  <2>3. QED
    BY <1>5, <2>1, <2>2 DEF AllocateNumber, Goto, TypeOK, Active, Passed, Ended
<1>6. CASE InsertRow(r)
  <2>1. CASE EndTransaction(r, "keyClash") \/ EndTransaction(r, "numberClash")
    BY <1>6, <2>1, EndTypeOK DEF InsertRow, TypeOK, Ended
  <2>2. CASE ~(EndTransaction(r, "keyClash") \/ EndTransaction(r, "numberClash"))
    BY <1>6, <2>2 DEF InsertRow, IssuanceAssumption, Goto, TypeOK, Active, Passed, Ended
  <2>3. QED
    BY <2>1, <2>2
<1>7. CASE CountUsage(r)
  BY <1>7, SMTT(30) DEF CountUsage, Goto, TypeOK, Draft, Active, Passed, Ended
<1>8. CASE Commit(r)
  <2>1. /\ draft[r].rcpt \in Requests
        /\ draft[r].seq \in Nat
        /\ draft[r].month \in Months
    BY <1>8 DEF Commit, TypeOK, Draft, HasRecipient, OwnsCounter, Months
  <2>2. /\ cert' \in [Requests -> Cert \cup {NoCert}]
        /\ name' \in [Requests -> Names \cup {None}]
    BY <1>8, <2>1, RowIsCert DEF Commit, TypeOK, IssuanceAssumption
  <2>3. /\ seqLast' \in [Years -> Nat]
        /\ usage' \in [Months -> Nat]
        /\ answer' \in [Requests -> Requests \cup {None}]
        /\ handed' \in [Requests -> Nat]
    BY <1>8, <2>1 DEF Commit, TypeOK
  <2>4. QED
    BY <1>8, <2>2, <2>3, EndTypeOK DEF Commit, TypeOK, Ended
<1>9. CASE Abort(r)
  BY <1>9, EndTypeOK DEF Abort, TypeOK, Ended
<1>10. QED
  BY <1>1, <1>2, <1>3, <1>4, <1>5, <1>6, <1>7, <1>8, <1>9 DEF Handle

LEMMA OtherTypeOK ==
    ASSUME IssuanceAssumption, TypeOK, Answered,
           Edit \/ (\E value \in BOOLEAN : SetOpen(value)) \/ NextMonth \/ UNCHANGED vars
    PROVE  TypeOK'
<1> USE DEF locks
<1>1. CASE \E q \in Requests, y \in Years : \E n \in Typed(q) : EditNumber(q, y, n)
  <2>1. PICK q \in Requests, y \in Years : \E n \in Typed(q) : EditNumber(q, y, n)
    BY <1>1
  <2>2. PICK n \in Typed(q) : EditNumber(q, y, n)
    BY <2>1
  <2>3. cert' \in [Requests -> Cert \cup {NoCert}]
    BY <2>2, EditSaves
  <2>4. QED
    BY <2>2, <2>3 DEF EditNumber, TypeOK
<1>2. CASE \E q \in Requests : DeleteCertificate(q)
  BY <1>2 DEF DeleteCertificate, TypeOK
<1>3. CASE \/ \E q \in Requests, newName \in Names : RenameRecipient(q, newName)
           \/ \E q \in Requests : DeleteRecipient(q)
  BY <1>3 DEF RenameRecipient, DeleteRecipient, TypeOK
<1>4. CASE (\E value \in BOOLEAN : SetOpen(value)) \/ NextMonth
  BY <1>4 DEF SetOpen, NextMonth, TypeOK, Months, IssuanceAssumption
<1>5. CASE UNCHANGED vars
  BY <1>5 DEF vars, TypeOK
<1>6. QED
  BY <1>1, <1>2, <1>3, <1>4, <1>5 DEF Edit, Typed

-----------------------------------------------------------------------------
(* The inductive step: what a request does to the others                    *)

\* The facts the inductive step works with, without the types.
Owns == HasRecipient /\ OwnsSequence /\ OwnsKey /\ OwnsCounter /\ Answered

\* Ending a transaction gives up only its own locks.
LEMMA EndKeepsLocks ==
    ASSUME TypeOK, NEW r \in Requests, NEW label \in Ended, EndTransaction(r, label)
    PROVE  /\ \A y \in Years : seqLock[y] # r => seqLock'[y] = seqLock[y]
           /\ \A k \in Keys : keyLock[k] # r => keyLock'[k] = keyLock[k]
           /\ \A m \in Months : usageLock[m] # r => usageLock'[m] = usageLock[m]
           /\ pc'[r] = label
           /\ \A q \in Requests \ {r} : pc'[q] = pc[q]
BY DEF EndTransaction, Release, Goto, TypeOK

\* A rolled back or refused request leaves the others' rows alone.
LEMMA EndKeepsOwns ==
    ASSUME IssuanceAssumption, TypeOK, Owns, NEW r \in Requests, NEW label \in Ended,
           EndTransaction(r, label), pc[r] \in Active,
           UNCHANGED <<cert, seqLast, draft, handed, month>>
    PROVE  Owns'
<1>1. \A q \in Requests : pc'[q] \in {"number", "insert", "usage", "commit"} =>
        q # r /\ pc'[q] = pc[q]
  BY EndKeepsLocks DEF Ended
<1>2. \A q \in Requests : YearOf[q] \in Years /\ (KeyOf[q] # NoKey => KeyOf[q] \in Keys)
  BY DEF IssuanceAssumption
<1>3. HasRecipient'
  BY <1>1 DEF Owns, HasRecipient
<1>4. OwnsSequence'
  BY <1>1, <1>2, EndKeepsLocks DEF Owns, OwnsSequence
<1>5. OwnsKey'
  BY <1>1, <1>2, EndKeepsLocks DEF Owns, OwnsKey, WithKey, Numbered, Present
<1>6. OwnsCounter'
  <2>1. \A q \in Requests : pc[q] = "commit" => draft[q].month \in Months
    BY DEF Owns, OwnsCounter, TypeOK, Months
  <2>2. QED
    BY <1>1, <2>1, EndKeepsLocks DEF Owns, OwnsCounter
<1>7. Answered'
  BY EndKeepsLocks DEF Owns, Answered, Active, Passed
<1>8. QED
  BY <1>3, <1>4, <1>5, <1>6, <1>7 DEF Owns

\* What the numbers and certificates say depends on three variables only.
LEMMA NumbersKept ==
    ASSUME NumbersSequential, CertificatesDistinct, UNCHANGED <<cert, seqLast, handed>>
    PROVE  NumbersSequential' /\ CertificatesDistinct'
BY DEF NumbersSequential, CertificatesDistinct, Present

LEMMA CommitOwns ==
    ASSUME IssuanceAssumption, TypeOK, Owns, NEW r \in Requests, Commit(r)
    PROVE  Owns'
<1> USE DEF Owns, TypeOK
<1>1. /\ seqLock[YearOf[r]] = r
      /\ \A q \in Requests \ {r} :
            pc[q] \in {"insert", "usage", "commit"} => YearOf[q] # YearOf[r]
  BY DEF Commit, OwnsSequence
<1>2. \A q \in Requests \ {r} :
        pc[q] \in {"usage", "commit"} /\ KeyOf[q] # NoKey => KeyOf[q] # KeyOf[r]
  BY DEF Commit, OwnsKey
<1>3. EndTransaction(r, "answered")
  BY DEF Commit
<1>4. \A q \in Requests : pc'[q] \in {"number", "insert", "usage", "commit"} =>
        q # r /\ pc'[q] = pc[q]
  BY <1>3, EndKeepsLocks DEF Ended
<1>5. \A q \in Requests : YearOf[q] \in Years /\ (KeyOf[q] # NoKey => KeyOf[q] \in Keys)
  BY DEF IssuanceAssumption
<1>6. HasRecipient'
  BY <1>4 DEF HasRecipient, Commit
<1>7. OwnsSequence'
  <2> SUFFICES ASSUME NEW q \in Requests, pc'[q] \in {"insert", "usage", "commit"}
               PROVE  seqLock'[YearOf[q]] = q /\ draft'[q].seq = seqLast'[YearOf[q]] + 1
    BY DEF OwnsSequence
  <2>1. q # r /\ pc[q] \in {"insert", "usage", "commit"} /\ YearOf[q] # YearOf[r]
    BY <1>1, <1>4
  <2>2. seqLock[YearOf[q]] = q /\ draft[q].seq = seqLast[YearOf[q]] + 1
    BY <2>1 DEF OwnsSequence
  <2>3. seqLast'[YearOf[q]] = seqLast[YearOf[q]] /\ draft' = draft
    BY <2>1, <1>5 DEF Commit
  <2>4. seqLock'[YearOf[q]] = q
    BY <1>3, <1>5, <2>1, <2>2, EndKeepsLocks DEF Ended
  <2>5. QED
    BY <2>2, <2>3, <2>4
<1>8. OwnsKey'
  <2> SUFFICES ASSUME NEW q \in Requests, pc'[q] \in {"usage", "commit"}
               PROVE  /\ KeyOf[q] # NoKey => keyLock'[KeyOf[q]] = q /\ WithKey(KeyOf[q])' = {}
                      /\ Numbered(YearOf[q], draft[q].seq)' = {}
    BY DEF OwnsKey
  <2>1. q # r /\ pc[q] \in {"usage", "commit"} /\ YearOf[q] # YearOf[r] /\ draft'[q] = draft[q]
    BY <1>1, <1>4 DEF Commit
  <2>2. /\ KeyOf[q] # NoKey => keyLock[KeyOf[q]] = q /\ WithKey(KeyOf[q]) = {}
        /\ Numbered(YearOf[q], draft[q].seq) = {}
    BY <2>1 DEF OwnsKey
  <2>3. \A s \in Requests \ {r} : cert'[s] = cert[s]
    BY DEF Commit
  <2>4. cert'[r].year = YearOf[r]
    BY DEF Commit, Row
  <2>5. Numbered(YearOf[q], draft[q].seq)' = {}
    BY <2>1, <2>2, <2>3, <2>4 DEF Numbered, Present
  <2>6. KeyOf[q] # NoKey => WithKey(KeyOf[q])' = {}
    BY <1>2, <2>1, <2>2, <2>3 DEF WithKey, Present
  <2>7. KeyOf[q] # NoKey => keyLock'[KeyOf[q]] = q
    BY <1>3, <1>5, <2>1, <2>2, EndKeepsLocks DEF Ended
  <2>8. QED
    BY <2>5, <2>6, <2>7
<1>9. OwnsCounter'
  <2>1. \A q \in Requests : pc[q] = "commit" => draft[q].month \in Months
    BY DEF OwnsCounter, Months
  <2>2. UNCHANGED <<draft, month>>
    BY DEF Commit
  <2>3. QED
    BY <1>3, <1>4, <2>1, <2>2, EndKeepsLocks DEF OwnsCounter, Ended
<1>10. Answered'
  <2>1. draft[r].seq # 0
    BY <1>5 DEF Commit, OwnsSequence
  <2>2. pc'[r] = "answered" /\ \A q \in Requests \ {r} : pc'[q] = pc[q]
    BY <1>3, EndKeepsLocks DEF Ended
  <2>3. /\ handed'[r] = draft[r].seq
        /\ \A q \in Requests \ {r} : handed'[q] = handed[q] /\ cert'[q] = cert[q]
    BY DEF Commit
  <2>4. draft' = draft /\ draft[r].rcpt \in Requests
    BY DEF Commit, HasRecipient
  <2>5. QED
    BY <2>1, <2>2, <2>3, <2>4 DEF Answered
<1>11. QED
  BY <1>6, <1>7, <1>8, <1>9, <1>10

LEMMA CommitNumbers ==
    ASSUME IssuanceAssumption, TypeOK, Owns, NumbersSequential, CertificatesDistinct,
           NEW r \in Requests, Commit(r)
    PROVE  NumbersSequential' /\ CertificatesDistinct'
<1> USE DEF Owns, TypeOK
<1> DEFINE y == YearOf[r]
<1>1. /\ y \in Years
      /\ draft[r].seq = seqLast[y] + 1
      /\ handed[r] = 0
      /\ ~cert[r].there
  BY DEF IssuanceAssumption, Commit, OwnsSequence, Answered
<1>2. /\ seqLast' = [seqLast EXCEPT ![y] = @ + 1]
      /\ handed' = [handed EXCEPT ![r] = seqLast[y] + 1]
  BY <1>1 DEF Commit
<1>3. NumbersSequential'
  <2> SUFFICES ASSUME NEW x \in Years
               PROVE  /\ \A q \in Requests : YearOf[q] = x => handed'[q] <= seqLast'[x]
                      /\ \A n \in 1..seqLast'[x] : \E q \in Requests : YearOf[q] = x /\ handed'[q] = n
                      /\ \A q, s \in Requests :
                            YearOf[q] = x /\ YearOf[s] = x /\ handed'[q] = handed'[s] /\ handed'[q] # 0
                            => q = s
    BY DEF NumbersSequential
  <2>1. /\ \A q \in Requests : YearOf[q] = x => handed[q] <= seqLast[x]
        /\ \A n \in 1..seqLast[x] : \E q \in Requests : YearOf[q] = x /\ handed[q] = n
        /\ \A q, s \in Requests :
              YearOf[q] = x /\ YearOf[s] = x /\ handed[q] = handed[s] /\ handed[q] # 0 => q = s
    BY DEF NumbersSequential
  <2>2. CASE x # y
    BY <1>1, <1>2, <2>1, <2>2
  <2>3. CASE x = y
    <3>1. /\ seqLast'[x] = seqLast[x] + 1
          /\ handed'[r] = seqLast[x] + 1
          /\ \A q \in Requests \ {r} : handed'[q] = handed[q]
      BY <1>1, <1>2, <2>3
    <3>2. \A q \in Requests : YearOf[q] = x => handed'[q] <= seqLast'[x]
      BY <2>1, <3>1
    <3>3. ASSUME NEW n \in 1..seqLast'[x]
          PROVE  \E q \in Requests : YearOf[q] = x /\ handed'[q] = n
      <4>1. CASE n = seqLast[x] + 1
        BY <2>3, <3>1, <4>1
      <4>2. CASE n # seqLast[x] + 1
        <5> HIDE DEF Owns, TypeOK
        <5>0. seqLast[x] \in Nat
          BY DEF TypeOK
        <5>1. n \in 1..seqLast[x]
          BY <3>1, <4>2, <5>0
        <5>2. PICK q \in Requests : YearOf[q] = x /\ handed[q] = n
          BY <2>1, <5>1
        <5>3. q # r
          BY <1>1, <5>1, <5>2
        <5>4. QED
          BY <3>1, <5>2, <5>3
      <4>3. QED
        BY <4>1, <4>2
    <3>4. QED
      BY <2>1, <3>1, <3>2, <3>3
  <2>4. QED
    BY <2>2, <2>3
<1>4. CertificatesDistinct'
  <2>1. /\ cert'[r].year = y /\ cert'[r].seq = draft[r].seq
        /\ \A q \in Requests \ {r} : cert'[q] = cert[q]
    BY DEF Commit, Row
  <2>2. \A q \in Present : q # r =>
          /\ <<cert[q].year, cert[q].seq>> # <<y, draft[r].seq>>
          /\ KeyOf[q] = KeyOf[r] => KeyOf[r] = NoKey
    BY DEF Commit, OwnsKey, Numbered, WithKey
  <2>3. Present' \subseteq Present \cup {r}
    BY <2>1 DEF Present
  <2> SUFFICES ASSUME NEW a \in Present', NEW b \in Present', a # b
               PROVE  /\ <<cert'[a].year, cert'[a].seq>> # <<cert'[b].year, cert'[b].seq>>
                      /\ KeyOf[a] = KeyOf[b] => KeyOf[a] = NoKey
    BY DEF CertificatesDistinct
  <2>4. CASE a # r /\ b # r
    BY <2>1, <2>3, <2>4 DEF CertificatesDistinct, Present
  <2>5. CASE a = r
    <3>1. b \in Present /\ b \in Requests \ {r}
      BY <2>3, <2>5 DEF Present
    <3>2. cert'[b] = cert[b] /\ cert'[a].year = y /\ cert'[a].seq = draft[r].seq
      BY <2>1, <2>5, <3>1
    <3>3. QED
      BY <2>2, <2>5, <3>1, <3>2
  <2>6. CASE b = r
    <3>1. a \in Present /\ a \in Requests \ {r}
      BY <2>3, <2>6 DEF Present
    <3>2. cert'[a] = cert[a] /\ cert'[b].year = y /\ cert'[b].seq = draft[r].seq
      BY <2>1, <2>6, <3>1
    <3>3. QED
      BY <2>2, <2>6, <3>1, <3>2
  <2>7. QED
    BY <2>4, <2>5, <2>6
<1>5. QED
  BY <1>3, <1>4

\* Before its insert a request owns at most the sequence row it locks itself.
LEMMA EarlyOwns ==
    ASSUME IssuanceAssumption, TypeOK, Owns, NEW r \in Requests,
           Arrive(r) \/ LookupKey(r) \/ CheckQuota(r) \/ ChooseRecipient(r) \/ AllocateNumber(r)
    PROVE  Owns' /\ UNCHANGED <<cert, seqLast, handed>>
<1> USE DEF Goto, dbVars, locks, Ended, Active, Passed
<1>1. CASE Arrive(r) \/ LookupKey(r) \/ CheckQuota(r)
  <2>1. /\ UNCHANGED <<cert, seqLast, month, seqLock, keyLock, usageLock, draft, handed>>
        /\ \A q \in Requests \ {r} : pc'[q] = pc[q]
        /\ pc'[r] \in {"lookup", "quota", "recipient", "answered", "refused"}
        /\ pc[r] \in {"idle", "lookup", "quota"}
    BY <1>1 DEF Arrive, LookupKey, CheckQuota, TypeOK
  <2>2. HasRecipient' /\ OwnsSequence' /\ OwnsCounter' /\ Answered'
    BY <2>1 DEF Owns, HasRecipient, OwnsSequence, OwnsCounter, Answered
  <2>3. OwnsKey'
    BY <2>1 DEF Owns, OwnsKey, WithKey, Numbered, Present
  <2>4. QED
    BY <2>1, <2>2, <2>3 DEF Owns
<1>2. CASE ChooseRecipient(r)
  <2>1. /\ UNCHANGED <<cert, seqLast, month, seqLock, keyLock, usageLock, handed>>
        /\ \A q \in Requests \ {r} : pc'[q] = pc[q] /\ draft'[q] = draft[q]
        /\ pc[r] = "recipient" /\ pc'[r] = "number"
        /\ draft'[r].rcpt \in Requests
    BY <1>2 DEF ChooseRecipient, Known, TypeOK, Draft
  <2>2. HasRecipient' /\ OwnsSequence' /\ OwnsCounter' /\ Answered'
    BY <2>1 DEF Owns, HasRecipient, OwnsSequence, OwnsCounter, Answered
  <2>3. OwnsKey'
    BY <2>1 DEF Owns, OwnsKey, WithKey, Numbered, Present
  <2>4. QED
    BY <2>1, <2>2, <2>3 DEF Owns
<1>3. CASE AllocateNumber(r)
  <2>1. /\ UNCHANGED <<cert, seqLast, month, keyLock, usageLock, handed>>
        /\ \A q \in Requests \ {r} : pc'[q] = pc[q] /\ draft'[q] = draft[q]
        /\ pc[r] = "number" /\ pc'[r] = "insert"
        /\ draft'[r].rcpt = draft[r].rcpt
        /\ draft'[r].seq = seqLast[YearOf[r]] + 1
        /\ seqLock[YearOf[r]] = Nobody /\ seqLock'[YearOf[r]] = r
        /\ \A y \in Years \ {YearOf[r]} : seqLock'[y] = seqLock[y]
    BY <1>3 DEF AllocateNumber, TypeOK, Draft, IssuanceAssumption
  <2>2. HasRecipient' /\ OwnsCounter' /\ Answered'
    BY <2>1 DEF Owns, HasRecipient, OwnsCounter, Answered
  <2>3. OwnsSequence'
    BY <2>1 DEF Owns, OwnsSequence, IssuanceAssumption
  <2>4. OwnsKey'
    BY <2>1 DEF Owns, OwnsKey, WithKey, Numbered, Present
  <2>5. QED
    BY <2>1, <2>2, <2>3, <2>4 DEF Owns
<1>4. QED
  BY <1>1, <1>2, <1>3

\* The insert and the count add the key, the number and the counter row.
LEMMA LateOwns ==
    ASSUME IssuanceAssumption, TypeOK, Owns, NEW r \in Requests,
           InsertRow(r) \/ CountUsage(r) \/ Abort(r)
    PROVE  Owns' /\ UNCHANGED <<cert, seqLast, handed>>
<1>1. CASE Abort(r)
  BY <1>1, EndKeepsOwns DEF Abort, dbVars, Ended
<1>2. CASE InsertRow(r) /\ (EndTransaction(r, "keyClash") \/ EndTransaction(r, "numberClash"))
  <2>1. pc[r] \in Active /\ UNCHANGED <<cert, seqLast, draft, handed, month>>
    BY <1>2 DEF InsertRow, Active, Passed, dbVars
  <2>2. QED
    BY <1>2, <2>1, EndKeepsOwns DEF Ended
<1>3. CASE InsertRow(r) /\ ~(EndTransaction(r, "keyClash") \/ EndTransaction(r, "numberClash"))
  <2>1. /\ UNCHANGED <<cert, seqLast, month, seqLock, usageLock, handed, draft>>
        /\ \A q \in Requests \ {r} : pc'[q] = pc[q]
        /\ pc[r] = "insert" /\ pc'[r] = "usage"
        /\ KeyOf[r] # NoKey => keyLock[KeyOf[r]] = Nobody /\ WithKey(KeyOf[r]) = {}
        /\ Numbered(YearOf[r], draft[r].seq) = {}
        /\ keyLock' = IF KeyOf[r] = NoKey THEN keyLock ELSE [keyLock EXCEPT ![KeyOf[r]] = r]
    BY <1>3 DEF InsertRow, Goto, dbVars, TypeOK
  <2>2. /\ KeyOf[r] # NoKey => keyLock'[KeyOf[r]] = r
        /\ \A q \in Requests \ {r} :
              KeyOf[q] # NoKey /\ keyLock[KeyOf[q]] = q => keyLock'[KeyOf[q]] = q
    BY <2>1 DEF TypeOK, IssuanceAssumption
  <2>3. HasRecipient' /\ OwnsSequence' /\ OwnsCounter' /\ Answered'
    BY <2>1 DEF Owns, HasRecipient, OwnsSequence, OwnsCounter, Answered
  <2>4. OwnsKey'
    BY <2>1, <2>2 DEF Owns, OwnsKey, WithKey, Numbered, Present
  <2>5. QED
    BY <2>1, <2>3, <2>4 DEF Owns
<1>4. CASE CountUsage(r)
  <2>1. /\ UNCHANGED <<cert, seqLast, month, seqLock, keyLock, handed>>
        /\ \A q \in Requests \ {r} : pc'[q] = pc[q] /\ draft'[q] = draft[q]
        /\ pc[r] = "usage" /\ pc'[r] = "commit"
        /\ draft'[r].rcpt = draft[r].rcpt /\ draft'[r].seq = draft[r].seq
        /\ draft'[r].month = month
        /\ usageLock[month] = Nobody /\ usageLock'[month] = r
        /\ \A m \in Months \ {month} : usageLock'[m] = usageLock[m]
    BY <1>4 DEF CountUsage, Goto, dbVars, TypeOK, Draft
  <2>2. HasRecipient' /\ OwnsSequence' /\ Answered'
    BY <2>1 DEF Owns, HasRecipient, OwnsSequence, Answered
  <2>3. OwnsKey'
    BY <2>1 DEF Owns, OwnsKey, WithKey, Numbered, Present
  <2>4. OwnsCounter'
    <3>1. month \in 1..month /\ 1..month \subseteq Months
      BY DEF TypeOK, Months, IssuanceAssumption
    <3>2. QED
      BY <2>1, <3>1 DEF Owns, OwnsCounter, IssuanceAssumption
  <2>5. QED
    BY <2>1, <2>2, <2>3, <2>4 DEF Owns
<1>5. QED
  BY <1>1, <1>2, <1>3, <1>4

\* Edits, deletions and the other writers never touch a row a transaction owns.
LEMMA OtherKeeps ==
    ASSUME IssuanceAssumption, TypeOK, Owns, NumbersSequential, CertificatesDistinct,
           Edit \/ (\E value \in BOOLEAN : SetOpen(value)) \/ NextMonth \/ UNCHANGED vars
    PROVE  Owns' /\ NumbersSequential' /\ CertificatesDistinct'
<1> USE DEF locks
<1>1. CASE \E q \in Requests, y \in Years : \E n \in Typed(q) : EditNumber(q, y, n)
  <2>1. PICK q \in Requests, y \in Years : \E n \in Typed(q) : EditNumber(q, y, n)
    BY <1>1
  <2>2. PICK n \in Typed(q) : EditNumber(q, y, n)
    BY <2>1
  <2>3. /\ UNCHANGED <<seqLast, month, seqLock, keyLock, usageLock, pc, draft, handed>>
        /\ Numbered(y, n) \subseteq {q} /\ Reserved(y, n) = {}
        /\ q \notin Present /\ KeyOf[q] # NoKey => WithKey(KeyOf[q]) = {} /\ keyLock[KeyOf[q]] = Nobody
    BY <2>2 DEF EditNumber, Deleted
  <2>4. Answered
    BY DEF Owns
  <2>5. /\ handed[q] # 0 /\ pc[q] = "answered"
        /\ cert'[q].there /\ cert'[q].year = y /\ cert'[q].seq = n
        /\ \A s \in Requests \ {q} : cert'[s] = cert[s]
        /\ Present' = Present \cup {q}
    BY <2>2, <2>4, EditSaves
  <2>6. HasRecipient' /\ OwnsSequence' /\ OwnsCounter' /\ Answered'
    BY <2>3, <2>5 DEF Owns, HasRecipient, OwnsSequence, OwnsCounter, Answered
  <2>7. ASSUME NEW s \in Requests, pc[s] \in {"usage", "commit"}, KeyOf[s] # NoKey
        PROVE  WithKey(KeyOf[s])' = {}
    <3>1. keyLock[KeyOf[s]] = s /\ WithKey(KeyOf[s]) = {}
      BY <2>7 DEF Owns, OwnsKey
    <3>2. s # Nobody
      BY DEF IssuanceAssumption
    <3>3. KeyOf[q] # KeyOf[s]
      BY <2>3, <2>7, <3>1, <3>2 DEF WithKey
    <3>4. QED
      BY <2>5, <3>1, <3>3 DEF WithKey
  <2>8. ASSUME NEW s \in Requests, pc[s] \in {"usage", "commit"}
        PROVE  Numbered(YearOf[s], draft[s].seq)' = {}
    <3>1. <<YearOf[s], draft[s].seq>> # <<y, n>>
      BY <2>3, <2>8 DEF Reserved
    <3>2. Numbered(YearOf[s], draft[s].seq) = {}
      BY <2>8 DEF Owns, OwnsKey
    <3>3. UNCHANGED draft
      BY <2>3
    <3>4. QED
      BY <2>5, <3>1, <3>2, <3>3 DEF Numbered, Present
  <2>9. OwnsKey'
    BY <2>3, <2>7, <2>8 DEF Owns, OwnsKey
  <2>10. NumbersSequential'
    BY <2>3 DEF NumbersSequential
  <2>11. CertificatesDistinct'
    <3>1. \A s \in Present \ {q} : <<cert[s].year, cert[s].seq>> # <<y, n>>
      BY <2>3 DEF Numbered
    <3>2. \A s \in Present \ {q} : KeyOf[s] = KeyOf[q] => KeyOf[q] = NoKey
      BY <2>3 DEF WithKey, CertificatesDistinct
    <3>3. \A s \in Present \ {q} : cert'[s] = cert[s]
      BY <2>5 DEF Present
    <3>4. QED
      BY <2>5, <3>1, <3>2, <3>3 DEF CertificatesDistinct
  <2>12. QED
    BY <2>6, <2>9, <2>10, <2>11 DEF Owns
<1>2. CASE \E q \in Requests : DeleteCertificate(q)
  <2>1. PICK q \in Requests : DeleteCertificate(q)
    BY <1>2
  <2>2. /\ UNCHANGED <<seqLast, month, seqLock, keyLock, usageLock, pc, draft, handed>>
        /\ \A s \in Requests \ {q} : cert'[s] = cert[s]
        /\ ~cert'[q].there
    BY <2>1 DEF DeleteCertificate, NoCert, TypeOK
  <2>3. Present' = Present \ {q}
    BY <2>2 DEF Present
  <2>4. HasRecipient' /\ OwnsSequence' /\ OwnsCounter' /\ Answered'
    BY <2>2 DEF Owns, HasRecipient, OwnsSequence, OwnsCounter, Answered
  <2>5. OwnsKey'
    BY <2>2, <2>3 DEF Owns, OwnsKey, WithKey, Numbered, Present
  <2>6. NumbersSequential' /\ CertificatesDistinct'
    BY <2>2, <2>3 DEF NumbersSequential, CertificatesDistinct, Present
  <2>7. QED
    BY <2>4, <2>5, <2>6 DEF Owns
<1>3. CASE \/ \E q \in Requests, newName \in Names : RenameRecipient(q, newName)
           \/ \E q \in Requests : DeleteRecipient(q)
           \/ \E value \in BOOLEAN : SetOpen(value)
           \/ NextMonth
           \/ UNCHANGED vars
  <2>1. UNCHANGED <<cert, seqLast, seqLock, keyLock, usageLock, pc, draft, handed>>
    BY <1>3 DEF RenameRecipient, DeleteRecipient, SetOpen, NextMonth, vars
  <2>2. month' \in Nat /\ month \in Nat /\ month <= month'
    BY <1>3 DEF RenameRecipient, DeleteRecipient, SetOpen, NextMonth, vars, TypeOK, Months
  <2>3. HasRecipient' /\ OwnsSequence' /\ Answered'
    BY <2>1 DEF Owns, HasRecipient, OwnsSequence, Answered
  <2>4. OwnsKey'
    BY <2>1 DEF Owns, OwnsKey, WithKey, Numbered, Present
  <2>5. OwnsCounter'
    BY <2>1, <2>2 DEF Owns, OwnsCounter
  <2>6. QED
    BY <2>1, <2>3, <2>4, <2>5, NumbersKept DEF Owns
<1>4. QED
  BY <1>1, <1>2, <1>3 DEF Edit, Typed

-----------------------------------------------------------------------------
(* The theorems                                                             *)

LEMMA NextIInv == IssuanceAssumption /\ IInv /\ [Next]_vars => IInv'
<1> SUFFICES ASSUME IssuanceAssumption, IInv, [Next]_vars
             PROVE  IInv'
  OBVIOUS
<1>1. TypeOK /\ Owns /\ NumbersSequential /\ CertificatesDistinct
  BY DEF IInv, Owns
<1>2. CASE \E r \in Requests : Arrive(r) \/ Handle(r) \/ Abort(r)
  <2>1. PICK r \in Requests : Arrive(r) \/ Handle(r) \/ Abort(r)
    BY <1>2
  <2>2. TypeOK'
    BY <2>1, RequestTypeOK
  <2>3. CASE Commit(r)
    BY <1>1, <2>2, <2>3, CommitOwns, CommitNumbers DEF IInv, Owns
  <2>4. CASE ~Commit(r)
    <3>1. Owns' /\ UNCHANGED <<cert, seqLast, handed>>
      BY <1>1, <2>1, <2>4, EarlyOwns, LateOwns DEF Handle
    <3>2. QED
      BY <1>1, <2>2, <3>1, NumbersKept DEF IInv, Owns
  <2>5. QED
    BY <2>3, <2>4
<1>3. CASE Edit \/ (\E value \in BOOLEAN : SetOpen(value)) \/ NextMonth \/ UNCHANGED vars
  BY <1>1, <1>3, OtherTypeOK, OtherKeeps DEF IInv, Owns
<1>4. QED
  BY <1>2, <1>3 DEF Next

LEMMA Invariance == Spec => []IInv
<1>1. Init => IInv
  BY InitIInv, IssuanceAssumption
<1>2. IInv /\ [Next]_vars => IInv'
  BY NextIInv, IssuanceAssumption
<1>3. QED
  BY <1>1, <1>2, PTL DEF Spec

\* Every row, lock and program counter keeps its type, for any number of
\* concurrent calls of issue_certificate.
THEOREM TypeCorrect == Spec => []TypeOK
<1>1. IInv => TypeOK
  BY DEF IInv
<1>2. QED
  BY <1>1, Invariance, PTL

\* next_certificate_number hands out the numbers of a year without a gap and
\* without a repetition, because the sequence row is locked until the commit.
THEOREM NumbersAreSequential == Spec => []NumbersSequential
<1>1. IInv => NumbersSequential
  BY DEF IInv
<1>2. QED
  BY <1>1, Invariance, PTL

\* No two certificates that are there share a number or an idempotency key,
\* although numbers are edited, certificates deleted and inserted again at any time.
THEOREM CertificatesAreDistinct == Spec => []CertificatesDistinct
<1>1. IInv => CertificatesDistinct
  BY DEF IInv
<1>2. QED
  BY <1>1, Invariance, PTL

-----------------------------------------------------------------------------
(* The usage counter                                                        *)

\* The certificates issued in a month.
Counted(m) == {r \in Requests : handed[r] # 0 /\ draft[r].month = m}

\* Only a request that is not answered yet changes its draft.
LEMMA CountedKept ==
    ASSUME IssuanceAssumption, IInv, [Next]_vars, \A r \in Requests : ~Commit(r),
           NEW m \in Months
    PROVE  UNCHANGED usage /\ Counted(m)' = Counted(m)
<1>1. CASE \E r \in Requests : Arrive(r) \/ Handle(r) \/ Abort(r)
  <2>1. PICK r \in Requests : Arrive(r) \/ Handle(r) \/ Abort(r)
    BY <1>1
  <2>2. UNCHANGED <<usage, handed>> /\ \A q \in Requests \ {r} : draft'[q] = draft[q]
    BY <2>1 DEF Arrive, Handle, LookupKey, CheckQuota, ChooseRecipient, AllocateNumber,
                InsertRow, CountUsage, Abort, dbVars, IInv, TypeOK
  <2>3. pc[r] # "answered"
    BY <2>1 DEF Arrive, Handle, LookupKey, CheckQuota, ChooseRecipient, AllocateNumber,
                InsertRow, CountUsage, Abort, Active, Passed
  <2>4. handed[r] = 0
    BY <2>3 DEF IInv, Answered
  <2>5. QED
    BY <2>2, <2>4 DEF Counted
<1>2. CASE Edit \/ (\E value \in BOOLEAN : SetOpen(value)) \/ NextMonth \/ UNCHANGED vars
  <2>1. UNCHANGED <<usage, handed, draft>>
    BY <1>2 DEF Edit, EditNumber, DeleteCertificate, DeleteRecipient, RenameRecipient,
                SetOpen, NextMonth, vars
  <2>2. QED
    BY <2>1 DEF Counted
<1>3. QED
  BY <1>1, <1>2 DEF Next

\* A commit adds one certificate to one month and one to its counter.
LEMMA CommitCounts ==
    ASSUME IssuanceAssumption, IInv, NEW r \in Requests, Commit(r), NEW m \in Months
    PROVE  /\ draft[r].month \in Months /\ draft[r].month <= month
           /\ usage'[m] = usage[m] + (IF m = draft[r].month THEN 1 ELSE 0)
           /\ r \notin Counted(m)
           /\ Counted(m)' = Counted(m) \cup (IF m = draft[r].month THEN {r} ELSE {})
<1>1. handed[r] = 0 /\ pc[r] = "commit"
  BY DEF Commit, IInv, Answered
<1>2. draft[r].month \in 1..month /\ month \in Months
  BY <1>1 DEF IInv, OwnsCounter, TypeOK
<1>3. draft[r].month \in Months /\ draft[r].month <= month
  BY <1>2 DEF Months, IssuanceAssumption
<1>4. usage'[m] = usage[m] + (IF m = draft[r].month THEN 1 ELSE 0)
  <2>1. usage' = [usage EXCEPT ![draft[r].month] = @ + 1]
    BY DEF Commit
  <2>2. usage \in [Months -> Nat]
    BY DEF IInv, TypeOK
  <2>3. QED
    BY <1>3, <2>1, <2>2
<1>5. handed' = [handed EXCEPT ![r] = draft[r].seq] /\ UNCHANGED draft
  BY DEF Commit
<1>6. draft[r].seq # 0
  <2>1. YearOf[r] \in Years
    BY DEF IssuanceAssumption
  <2>2. draft[r].seq = seqLast[YearOf[r]] + 1 /\ seqLast[YearOf[r]] \in Nat
    BY <1>1, <2>1 DEF IInv, OwnsSequence, TypeOK
  <2>3. QED
    BY <2>2
<1>7. handed'[r] # 0 /\ \A q \in Requests \ {r} : handed'[q] = handed[q]
  BY <1>5, <1>6 DEF IInv, TypeOK
<1>8. Counted(m)' = Counted(m) \cup (IF m = draft[r].month THEN {r} ELSE {})
  BY <1>1, <1>5, <1>7 DEF Counted
<1>9. QED
  BY <1>1, <1>3, <1>4, <1>8 DEF Counted

\* increment_usage loses and invents nothing: the counter of a month is the number
\* of certificates issued in it.
THEOREM UsageIsExact == Spec => []UsageExact
<1>1. Init => UsageExact
  <2> SUFFICES ASSUME Init, NEW m \in Months
               PROVE  usage[m] = Cardinality(Counted(m))
    BY DEF UsageExact, Counted
  <2>1. Counted(m) = {} /\ usage[m] = 0
    BY DEF Init, Counted
  <2>2. QED
    BY <2>1, FS_EmptySet
<1>2. UsageExact /\ IInv /\ [Next]_vars => UsageExact'
  <2> SUFFICES ASSUME UsageExact, IInv, [Next]_vars, NEW m \in Months
               PROVE  usage'[m] = Cardinality(Counted(m)')
    BY DEF UsageExact, Counted
  <2>1. usage[m] = Cardinality(Counted(m)) /\ usage[m] \in Nat
    BY DEF UsageExact, Counted, IInv, TypeOK
  <2>2. IsFiniteSet(Counted(m))
    BY IssuanceAssumption, FS_Subset DEF IssuanceAssumption, Counted
  <2>3. CASE \E r \in Requests : Commit(r)
    <3>1. PICK r \in Requests : Commit(r)
      BY <2>3
    <3>2. /\ usage'[m] = usage[m] + (IF m = draft[r].month THEN 1 ELSE 0)
          /\ r \notin Counted(m)
          /\ Counted(m)' = Counted(m) \cup (IF m = draft[r].month THEN {r} ELSE {})
      BY <3>1, CommitCounts, IssuanceAssumption
    <3>3. Cardinality(Counted(m) \cup {r}) = Cardinality(Counted(m)) + 1
      BY <2>2, <3>2, FS_AddElement
    <3>4. CASE m = draft[r].month
      BY <2>1, <3>2, <3>3, <3>4
    <3>5. CASE m # draft[r].month
      BY <2>1, <3>2, <3>5
    <3>6. QED
      BY <3>4, <3>5
  <2>4. CASE \A r \in Requests : ~Commit(r)
    BY <2>1, <2>4, CountedKept, IssuanceAssumption
  <2>5. QED
    BY <2>3, <2>4
<1>3. QED
  BY <1>1, <1>2, Invariance, PTL DEF Spec

-----------------------------------------------------------------------------
(* The monthly quota.  A request that passed the check of assert_can_issue is *)
(* counted with its month's certificates from then on, so the sum only grows  *)
(* in the check itself, when the counter is below the limit and at most       *)
(* Workers requests run.                                                      *)

Running == {r \in Requests : pc[r] \in Active}

\* The requests that may still add to the counter of month m.
InFlight(m) ==
    {r \in Requests :
        \/ pc[r] \in Passed \ {"commit"} /\ m = month
        \/ pc[r] = "commit" /\ draft[r].month = m}

FewRunning == Cardinality(Running) <= Workers

\* Holds when Limit > 0.
InFlightBounded ==
    \A m \in Months :
        /\ m > month => usage[m] = 0
        /\ usage[m] + Cardinality(InFlight(m)) <= Limit + Workers - 1

QInv == FewRunning /\ (Limit > 0 => InFlightBounded)


LEMMA RequestSetsAreFinite ==
    ASSUME IssuanceAssumption, NEW S \in SUBSET Requests
    PROVE  IsFiniteSet(S) /\ Cardinality(S) \in Nat
BY FS_Subset, FS_CardinalityType DEF IssuanceAssumption

LEMMA FewerRequests ==
    ASSUME IssuanceAssumption, NEW T \in SUBSET Requests, NEW S \in SUBSET T
    PROVE  Cardinality(S) <= Cardinality(T)
BY RequestSetsAreFinite, FS_Subset

\* Only Arrive starts a request, and only when a worker is free.
LEMMA RunningStep ==
    ASSUME IssuanceAssumption, IInv, FewRunning, [Next]_vars
    PROVE  FewRunning'
<1>1. Running \in SUBSET Requests /\ Running' \in SUBSET Requests
  BY DEF Running
<1>2. Workers \in Nat
  BY DEF IssuanceAssumption
<1>3. CASE \E r \in Requests : Arrive(r)
  <2>1. PICK r \in Requests : Arrive(r)
    BY <1>3
  <2>2. Cardinality(Running) < Workers
    BY <2>1 DEF Arrive, Running
  <2>3. Running' \subseteq Running \cup {r}
    BY <2>1 DEF Arrive, Goto, Running, IInv, TypeOK
  <2>4. Cardinality(Running \cup {r}) <= Cardinality(Running) + 1
    BY <1>1, RequestSetsAreFinite, FS_AddElement, IssuanceAssumption
  <2>5. Cardinality(Running') <= Cardinality(Running \cup {r})
    BY <1>1, <2>3, FewerRequests, IssuanceAssumption
  <2>6. /\ Cardinality(Running) \in Nat
        /\ Cardinality(Running \cup {r}) \in Nat
        /\ Cardinality(Running') \in Nat
    BY <1>1, RequestSetsAreFinite, IssuanceAssumption
  <2>7. QED
    BY <1>2, <2>2, <2>4, <2>5, <2>6 DEF FewRunning
<1>4. CASE \A r \in Requests : ~Arrive(r)
  <2>1. \A q \in Requests : pc'[q] \in Active => pc[q] \in Active
    <3>1. CASE \E r \in Requests : Handle(r) \/ Abort(r)
      BY <3>1 DEF Handle, LookupKey, CheckQuota, ChooseRecipient, AllocateNumber, InsertRow,
                  CountUsage, Commit, Abort, EndTransaction, Goto, Active, Passed, IInv, TypeOK
    <3>2. CASE Edit \/ (\E value \in BOOLEAN : SetOpen(value)) \/ NextMonth \/ UNCHANGED vars
      BY <3>2 DEF Edit, EditNumber, DeleteCertificate, DeleteRecipient, RenameRecipient,
                  SetOpen, NextMonth, vars
    <3>3. QED
      BY <1>4, <3>1, <3>2 DEF Next
  <2>2. Running' \subseteq Running
    BY <2>1 DEF Running
  <2>3. Cardinality(Running') <= Cardinality(Running)
    BY <1>1, <2>2, FewerRequests, IssuanceAssumption
  <2>4. Cardinality(Running) \in Nat /\ Cardinality(Running') \in Nat
    BY <1>1, RequestSetsAreFinite, IssuanceAssumption
  <2>5. QED
    BY <1>2, <2>3, <2>4 DEF FewRunning
<1>5. QED
  BY <1>3, <1>4

\* What may still be counted in a month are running requests.
LEMMA InFlightRuns ==
    ASSUME NEW m \in Months
    PROVE  /\ InFlight(m) \in SUBSET Running /\ InFlight(m)' \in SUBSET Running'
           /\ Running \in SUBSET Requests /\ Running' \in SUBSET Requests
BY DEF InFlight, Running, Active, Passed

\* A commit moves one request from the sum's second term to its first.
LEMMA CommitKeepsSum ==
    ASSUME IssuanceAssumption, IInv, NEW r \in Requests, Commit(r), NEW m \in Months
    PROVE  /\ m > month => usage'[m] = usage[m]
           /\ UNCHANGED month
           /\ usage'[m] + Cardinality(InFlight(m)') = usage[m] + Cardinality(InFlight(m))
<1>1. /\ draft[r].month \in Months /\ draft[r].month <= month
      /\ usage'[m] = usage[m] + (IF m = draft[r].month THEN 1 ELSE 0)
  BY CommitCounts
<1>2. /\ pc[r] = "commit" /\ UNCHANGED <<draft, month>>
      /\ pc'[r] = "answered" /\ \A q \in Requests \ {r} : pc'[q] = pc[q]
  BY DEF Commit, EndTransaction, Goto, IInv, TypeOK
<1>3. usage[m] \in Nat /\ month \in Nat
  BY DEF IInv, TypeOK, Months
<1>4. IsFiniteSet(InFlight(m)) /\ Cardinality(InFlight(m)) \in Nat
  BY RequestSetsAreFinite DEF InFlight
<1>5. CASE m = draft[r].month
  <2>1. r \in InFlight(m) /\ InFlight(m)' = InFlight(m) \ {r}
    BY <1>2, <1>5 DEF InFlight, Passed
  <2>2. Cardinality(InFlight(m) \ {r}) = Cardinality(InFlight(m)) - 1
    <3> DEFINE S == InFlight(m)
    <3> HIDE DEF S
    <3>1. IsFiniteSet(S) /\ r \in S
      BY <1>4, <2>1 DEF S
    <3>2. Cardinality(S \ {r}) = Cardinality(S) - 1
      BY <3>1, FS_RemoveElement
    <3>3. QED
      BY <3>2 DEF S
  <2>3. QED
    BY <1>1, <1>2, <1>3, <1>4, <1>5, <2>1, <2>2 DEF Months
<1>6. CASE m # draft[r].month
  <2>1. InFlight(m)' = InFlight(m)
    BY <1>2, <1>6 DEF InFlight, Passed
  <2>2. QED
    BY <1>1, <1>2, <1>3, <1>6, <2>1
<1>7. QED
  BY <1>5, <1>6

\* No other step but the check and the turn of the month adds to the sum.
LEMMA InFlightShrinks ==
    ASSUME IssuanceAssumption, IInv, [Next]_vars,
           \A r \in Requests : ~Commit(r) /\ ~CheckQuota(r), ~NextMonth,
           NEW m \in Months
    PROVE  /\ UNCHANGED <<usage, month>>
           /\ InFlight(m)' \subseteq InFlight(m)
<1>1. CASE \E r \in Requests : Arrive(r) \/ Handle(r) \/ Abort(r)
  <2>1. PICK r \in Requests : Arrive(r) \/ Handle(r) \/ Abort(r)
    BY <1>1
  <2>2. /\ UNCHANGED <<usage, month>>
        /\ \A q \in Requests \ {r} : draft'[q] = draft[q] /\ pc'[q] = pc[q]
    BY <2>1 DEF Arrive, Handle, LookupKey, CheckQuota, ChooseRecipient, AllocateNumber,
                InsertRow, CountUsage, Abort, EndTransaction, Goto, dbVars, IInv, TypeOK
  <2>3. r \in InFlight(m)' => r \in InFlight(m)
    <3>1. CASE Arrive(r) \/ LookupKey(r) \/ Abort(r)
      BY <3>1 DEF Arrive, LookupKey, Abort, EndTransaction, Goto, InFlight, Passed, IInv, TypeOK
    <3>2. CASE ChooseRecipient(r) \/ AllocateNumber(r) \/ InsertRow(r)
      BY <2>2, <3>2 DEF ChooseRecipient, AllocateNumber, InsertRow, EndTransaction, Goto,
                        InFlight, Passed, IInv, TypeOK
    <3>3. CASE CountUsage(r)
      BY <3>3 DEF CountUsage, Goto, InFlight, Passed, IInv, TypeOK, Draft
    <3>4. QED
      BY <2>1, <3>1, <3>2, <3>3 DEF Handle
  <2>4. QED
    BY <2>2, <2>3 DEF InFlight
<1>2. CASE Edit \/ (\E value \in BOOLEAN : SetOpen(value)) \/ UNCHANGED vars
  BY <1>2 DEF Edit, EditNumber, DeleteCertificate, DeleteRecipient, RenameRecipient,
              SetOpen, vars, InFlight
<1>3. QED
  BY <1>1, <1>2 DEF Next

LEMMA BoundedStep ==
    ASSUME IssuanceAssumption, IInv, FewRunning, FewRunning', InFlightBounded, Limit > 0,
           [Next]_vars
    PROVE  InFlightBounded'
<1> SUFFICES ASSUME NEW m \in Months
             PROVE  /\ m > month' => usage'[m] = 0
                    /\ usage'[m] + Cardinality(InFlight(m)') <= Limit + Workers - 1
  BY DEF InFlightBounded
<1>1. /\ Limit \in Nat /\ Workers \in Nat /\ Workers > 0
      /\ usage[m] \in Nat /\ month \in Nat
  BY DEF IssuanceAssumption, IInv, TypeOK, Months
<1>2. /\ m > month => usage[m] = 0
      /\ usage[m] + Cardinality(InFlight(m)) <= Limit + Workers - 1
  BY DEF InFlightBounded
<1>3. /\ Cardinality(InFlight(m)) \in Nat /\ Cardinality(InFlight(m)') \in Nat
      /\ Cardinality(InFlight(m)') <= Workers
  <2>1. /\ InFlight(m) \in SUBSET Requests /\ InFlight(m)' \in SUBSET Requests
        /\ Running' \in SUBSET Requests /\ InFlight(m)' \in SUBSET Running'
    BY InFlightRuns
  <2>2. /\ Cardinality(InFlight(m)) \in Nat /\ Cardinality(InFlight(m)') \in Nat
        /\ Cardinality(Running') \in Nat
    BY <2>1, RequestSetsAreFinite
  <2>3. Cardinality(InFlight(m)') <= Cardinality(Running')
    BY <2>1, FewerRequests
  <2>4. QED
    BY <1>1, <2>2, <2>3 DEF FewRunning
<1>4. CASE \E r \in Requests : Commit(r)
  BY <1>2, <1>4, CommitKeepsSum
<1>5. CASE \E r \in Requests : CheckQuota(r)
  <2>1. PICK r \in Requests : CheckQuota(r)
    BY <1>5
  <2>2. UNCHANGED <<usage, month, draft>>
    BY <2>1 DEF CheckQuota, dbVars
  <2>3. CASE m = month /\ QuotaLeft
    <3>1. usage[m] < Limit
      BY <1>1, <2>3 DEF QuotaLeft
    <3>2. QED
      BY <1>1, <1>2, <1>3, <2>2, <3>1
  <2>4. CASE m # month \/ ~QuotaLeft
    <3>1. InFlight(m)' = InFlight(m)
      BY <2>1, <2>2, <2>4 DEF CheckQuota, Goto, InFlight, Passed, IInv, TypeOK
    <3>2. QED
      BY <1>2, <2>2, <3>1
  <2>5. QED
    BY <2>3, <2>4
<1>6. CASE NextMonth
  <2>1. month' = month + 1 /\ UNCHANGED <<usage, pc, draft>>
    BY <1>6 DEF NextMonth
  <2>2. CASE m = month'
    BY <1>1, <1>2, <1>3, <2>1, <2>2
  <2>3. CASE m # month'
    <3>1. InFlight(m)' \subseteq InFlight(m) /\ InFlight(m) \in SUBSET Requests
      BY <2>1, <2>3 DEF InFlight
    <3>2. Cardinality(InFlight(m)') <= Cardinality(InFlight(m))
      BY <3>1, FewerRequests
    <3>3. QED
      BY <1>1, <1>2, <1>3, <2>1, <3>2 DEF Months
  <2>4. QED
    BY <2>2, <2>3
<1>7. CASE (\A r \in Requests : ~Commit(r) /\ ~CheckQuota(r)) /\ ~NextMonth
  <2>1. UNCHANGED <<usage, month>> /\ InFlight(m)' \subseteq InFlight(m)
    BY <1>7, InFlightShrinks
  <2>2. Cardinality(InFlight(m)') <= Cardinality(InFlight(m))
    <3>1. InFlight(m) \in SUBSET Requests
      BY DEF InFlight
    <3>2. QED
      BY <2>1, <3>1, FewerRequests
  <2>3. QED
    BY <1>1, <1>2, <1>3, <2>1, <2>2
<1>8. QED
  BY <1>4, <1>5, <1>6, <1>7

\* assert_can_issue checks without a lock, yet a month never ends with more than
\* Limit + Workers - 1 certificates.
THEOREM OvershootIsBounded == Spec => []QuotaOvershootBounded
<1>1. Init => QInv
  <2> SUFFICES ASSUME Init
               PROVE  QInv
    OBVIOUS
  <2>1. Running = {} /\ \A m \in Months : InFlight(m) = {} /\ usage[m] = 0
    BY DEF Init, Running, InFlight, Active, Passed
  <2>2. Workers \in Nat /\ Limit \in Nat /\ Workers > 0
    BY IssuanceAssumption DEF IssuanceAssumption
  <2>3. QED
    BY <2>1, <2>2, FS_EmptySet DEF QInv, FewRunning, InFlightBounded
<1>2. IInv /\ QInv /\ [Next]_vars => QInv'
  BY RunningStep, BoundedStep, IssuanceAssumption DEF QInv
<1>3. IInv /\ QInv => QuotaOvershootBounded
  <2> SUFFICES ASSUME IInv, QInv, Limit > 0, NEW m \in Months
               PROVE  usage[m] <= Limit + Workers - 1
    BY DEF QuotaOvershootBounded
  <2>1. Cardinality(InFlight(m)) \in Nat
    BY RequestSetsAreFinite, IssuanceAssumption DEF InFlight
  <2>2. usage[m] \in Nat /\ Limit \in Nat /\ Workers \in Nat
    BY IssuanceAssumption DEF IInv, TypeOK, IssuanceAssumption
  <2>3. QED
    BY <2>1, <2>2 DEF QInv, InFlightBounded
<1>4. QED
  BY <1>1, <1>2, <1>3, Invariance, PTL DEF Spec

-----------------------------------------------------------------------------
(* The answers under one key                                                *)

\* An answer is a certificate under the key of its request that was issued at some time.
Served ==
    \A r \in Requests : pc[r] = "answered" =>
        /\ answer[r] \in Requests
        /\ KeyOf[answer[r]] = KeyOf[r]
        /\ handed[answer[r]] # 0

LEMMA HandedKept ==
    ASSUME IssuanceAssumption, IInv, [Next]_vars
    PROVE  \A q \in Requests : handed[q] # 0 => handed'[q] # 0
<1>1. CASE \E r \in Requests : Commit(r)
  <2>1. PICK r \in Requests : Commit(r)
    BY <1>1
  <2>2. handed[r] = 0 /\ handed' = [handed EXCEPT ![r] = draft[r].seq]
    BY <2>1 DEF Commit, IInv, Answered
  <2>3. QED
    BY <2>2 DEF IInv, TypeOK
<1>2. CASE ~(\E r \in Requests : Commit(r))
  BY <1>2 DEF Next, Handle, Edit, EditNumber, DeleteCertificate, DeleteRecipient, RenameRecipient,
              SetOpen, NextMonth, Arrive, LookupKey, CheckQuota, ChooseRecipient, AllocateNumber,
              InsertRow, CountUsage, Abort, vars
<1>3. QED
  BY <1>1, <1>2

\* A request is answered once, with a certificate it found or committed.
LEMMA AnsweredOnce ==
    ASSUME IssuanceAssumption, IInv, [Next]_vars, NEW r \in Requests, pc'[r] = "answered"
    PROVE  \/ pc[r] = "answered" /\ answer'[r] = answer[r]
           \/ /\ answer'[r] \in Requests /\ handed'[answer'[r]] # 0
              /\ KeyOf[answer'[r]] = KeyOf[r]
<1>1. CASE \E q \in Requests : Arrive(q) \/ Handle(q) \/ Abort(q)
  <2>1. PICK q \in Requests : Arrive(q) \/ Handle(q) \/ Abort(q)
    BY <1>1
  <2>2. CASE Commit(q)
    <3>1. /\ handed'[q] # 0
          /\ answer' = [answer EXCEPT ![q] = q]
          /\ EndTransaction(q, "answered")
      <4>1. draft[q].seq = seqLast[YearOf[q]] + 1 /\ seqLast[YearOf[q]] \in Nat
        BY <2>2 DEF Commit, IInv, OwnsSequence, TypeOK, IssuanceAssumption
      <4>2. draft[q].seq # 0
        BY <4>1
      <4>3. QED
        BY <2>2, <4>2 DEF Commit, IInv, TypeOK
    <3>2. \A s \in Requests \ {q} : pc'[s] = pc[s]
      BY <3>1, EndKeepsLocks DEF IInv, Ended
    <3>3. QED
      BY <3>1, <3>2 DEF IInv, TypeOK
  <2>3. CASE LookupKey(q)
    <3>1. UNCHANGED handed /\ pc' = [pc EXCEPT ![q] = pc'[q]]
      BY <2>3 DEF LookupKey, Goto, dbVars, IInv, TypeOK
    <3>2. CASE r = q
      <4>1. PICK s \in WithKey(KeyOf[q]) : answer' = [answer EXCEPT ![q] = s]
        BY <2>3, <3>2 DEF LookupKey, Goto, IInv, TypeOK
      <4>2. answer'[r] = s
        BY <3>2, <4>1 DEF IInv, TypeOK
      <4>3. s \in Requests /\ handed'[s] # 0 /\ KeyOf[s] = KeyOf[r]
        BY <3>1, <3>2, <4>1 DEF WithKey, Present, IInv, Answered
      <4>4. QED
        BY <4>2, <4>3
    <3>3. CASE r # q
      BY <2>3, <3>1, <3>3 DEF LookupKey, IInv, TypeOK
    <3>4. QED
      BY <3>2, <3>3
  <2>4. CASE ~Commit(q) /\ ~LookupKey(q)
    <3>1. UNCHANGED answer /\ \A s \in Requests : pc'[s] = "answered" => pc[s] = "answered"
      BY <2>1, <2>4 DEF Handle, Arrive, CheckQuota, ChooseRecipient, AllocateNumber,
                        InsertRow, CountUsage, Abort, EndTransaction, Goto, IInv, TypeOK
    <3>2. QED
      BY <3>1
  <2>5. QED
    BY <2>2, <2>3, <2>4
<1>2. CASE Edit \/ (\E value \in BOOLEAN : SetOpen(value)) \/ NextMonth \/ UNCHANGED vars
  <2>1. UNCHANGED <<pc, answer>>
    BY <1>2 DEF Edit, EditNumber, DeleteCertificate, DeleteRecipient, RenameRecipient,
                SetOpen, NextMonth, vars
  <2>2. QED
    BY <2>1
<1>3. QED
  BY <1>1, <1>2 DEF Next

\* Two calls with one Idempotency-Key that are both answered got one certificate,
\* unless a deletion took one of them away.
THEOREM OneKeyOneCertificate == Spec => []SameKeySameCertificate
<1>1. Init => Served
  BY DEF Init, Served
<1>2. Served /\ IInv /\ [Next]_vars => Served'
  <2> SUFFICES ASSUME Served, IInv, [Next]_vars, NEW r \in Requests, pc'[r] = "answered"
               PROVE  /\ answer'[r] \in Requests
                      /\ KeyOf[answer'[r]] = KeyOf[r]
                      /\ handed'[answer'[r]] # 0
    BY DEF Served
  <2>1. CASE pc[r] = "answered" /\ answer'[r] = answer[r]
    BY <2>1, HandedKept, IssuanceAssumption DEF Served
  <2>2. CASE answer'[r] \in Requests /\ handed'[answer'[r]] # 0 /\ KeyOf[answer'[r]] = KeyOf[r]
    BY <2>2
  <2>3. QED
    BY <2>1, <2>2, AnsweredOnce, IssuanceAssumption
<1>3. Served /\ IInv => SameKeySameCertificate
  <2> SUFFICES ASSUME Served, IInv, NEW r \in Requests, NEW q \in Requests,
                      pc[r] = "answered", pc[q] = "answered",
                      KeyOf[r] = KeyOf[q], KeyOf[r] # NoKey,
                      answer[r] \notin Deleted, answer[q] \notin Deleted
               PROVE  answer[r] = answer[q]
    BY DEF SameKeySameCertificate
  <2>1. /\ answer[r] \in Present /\ answer[q] \in Present
        /\ KeyOf[answer[r]] = KeyOf[answer[q]] /\ KeyOf[answer[r]] # NoKey
    BY DEF Served, Deleted
  <2>2. QED
    BY <2>1 DEF IInv, CertificatesDistinct
<1>4. QED
  BY <1>1, <1>2, <1>3, Invariance, PTL DEF Spec

-----------------------------------------------------------------------------
(* Issuance implements CertificateRegistry: a commit registers the           *)
(* certificate, an edit renumbers it or brings a deleted one back, a deletion *)
(* removes it, and every other step of a transaction is invisible.  The       *)
(* inductive invariant says why a commit finds the number it allocated still  *)
(* next in its year, and its number and key still free.                       *)

\* The refinement mapping, by name.
Line(r) == [id |-> r, year |-> cert[r].year, seq |-> cert[r].seq, key |-> KeyOf[r]]
Book    == {Line(r) : r \in Present}
Stub(r) == [id |-> r, key |-> KeyOf[r]]
Gone    == {Stub(r) : r \in Deleted}

LEMMA BookIsDistinct ==
    ASSUME CertificatesDistinct'
    PROVE  Registry!Distinct(Book')
<1> SUFFICES ASSUME NEW a \in Book', NEW b \in Book', a.id # b.id
             PROVE  /\ <<a.year, a.seq>> # <<b.year, b.seq>>
                    /\ a.key = b.key => a.key = NoKey
  BY DEF Registry!Distinct
<1>1. PICK r \in Present' : a = Line(r)'
  BY DEF Book
<1>2. PICK q \in Present' : b = Line(q)'
  BY DEF Book
<1>3. QED
  BY <1>1, <1>2 DEF Line, CertificatesDistinct

\* A step that touches neither a certificate nor a sequence changes nothing.
LEMMA StutterKeepsBook ==
    ASSUME UNCHANGED <<cert, seqLast, handed>>
    PROVE  UNCHANGED <<seqLast, Book, Gone>>
BY DEF Book, Line, Present, Gone, Stub, Deleted

LEMMA CommitRegisters ==
    ASSUME IssuanceAssumption, IInv, IInv', NEW r \in Requests, Commit(r)
    PROVE  Registry!Next
<1> DEFINE y == YearOf[r]
           entry == [id |-> r, year |-> y, seq |-> seqLast[y] + 1, key |-> KeyOf[r]]
<1>1. /\ y \in Years
      /\ KeyOf[r] \in Keys \cup {NoKey}
      /\ draft[r].seq = seqLast[y] + 1
      /\ r \notin Present /\ handed[r] = 0
  BY DEF IssuanceAssumption, Commit, IInv, OwnsSequence, Answered, Present
<1>2. /\ cert'[r].there /\ cert'[r].year = y /\ cert'[r].seq = seqLast[y] + 1
      /\ \A q \in Requests \ {r} : cert'[q] = cert[q] /\ handed'[q] = handed[q]
  BY <1>1 DEF Commit, Row, IInv, TypeOK
<1>3. Present' = Present \cup {r} /\ Deleted' = Deleted
  BY <1>1, <1>2 DEF Present, Deleted
<1>4. /\ Line(r)' = entry
      /\ \A q \in Present : Line(q)' = Line(q)
  BY <1>1, <1>2 DEF Line, Present
<1>5. Book' = Book \cup {entry} /\ Gone' = Gone
  BY <1>3, <1>4 DEF Book, Gone, Stub
<1>6. \A other \in Book \cup Gone : other.id # r
  BY <1>1 DEF Book, Line, Gone, Stub, Deleted
<1>7. Registry!Distinct(Book')
  BY BookIsDistinct DEF IInv
<1>8. seqLast' = [seqLast EXCEPT ![y] = @ + 1]
  BY <1>1 DEF Commit
<1>9. Registry!Register(r, y, KeyOf[r])
  BY <1>5, <1>6, <1>7, <1>8 DEF Registry!Register, Book, Line, Gone, Stub
<1>10. QED
  BY <1>1, <1>9 DEF Registry!Next

LEMMA EditRenumbers ==
    ASSUME IssuanceAssumption, IInv, IInv',
           NEW q \in Requests, NEW y \in Years, NEW n \in Typed(q), EditNumber(q, y, n),
           q \in Present
    PROVE  Registry!Next
<1>1. UNCHANGED <<seqLast, handed>>
  BY DEF EditNumber
<1>2. /\ cert'[q].there /\ cert'[q].year = y /\ cert'[q].seq = n
      /\ \A s \in Requests \ {q} : cert'[s] = cert[s]
      /\ Present' = Present
  <2>1. /\ cert'[q].there /\ cert'[q].year = y /\ cert'[q].seq = n
        /\ \A s \in Requests \ {q} : cert'[s] = cert[s]
        /\ Present' = Present \cup {q}
    BY EditSaves DEF IInv
  <2>2. QED
    BY <2>1
<1>3. Gone' = Gone
  BY <1>1, <1>2 DEF Gone, Stub, Deleted
<1>4. \A s \in Present \ {q} : Line(s)' = Line(s) /\ Line(s).id # q
  BY <1>2 DEF Line, Present
<1>5. Line(q).id = q /\ Line(q)'.id = q /\ Line(q)'.key = Line(q).key
  BY DEF Line
<1>6. Book' = (Book \ {Line(q)}) \cup {Line(q)'}
  BY <1>2, <1>4, <1>5 DEF Book
<1>7. Registry!Distinct(Book')
  BY BookIsDistinct DEF IInv
<1>8. Line(q) \in Book /\ Line(q)' \in Book'
  BY <1>2 DEF Book
<1>9. PICK old \in Book : old = Line(q)
  BY <1>8
<1>10. Registry!Renumber(old)
  BY <1>1, <1>3, <1>5, <1>6, <1>7, <1>8, <1>9 DEF Registry!Renumber, Book, Line, Gone, Stub
<1>11. QED
  BY <1>9, <1>10 DEF Registry!Next, Book, Line

\* An edit that read the row before it was deleted brings it back.
LEMMA EditRestores ==
    ASSUME IssuanceAssumption, IInv, IInv',
           NEW q \in Requests, NEW y \in Years, NEW n \in Typed(q), EditNumber(q, y, n),
           q \notin Present
    PROVE  Registry!Next
<1>1. UNCHANGED <<seqLast, handed>>
  BY DEF EditNumber
<1>2. /\ handed[q] # 0
      /\ \A s \in Requests \ {q} : cert'[s] = cert[s]
      /\ Present' = Present \cup {q}
  BY EditSaves DEF IInv
<1>3. q \in Deleted /\ Deleted' = Deleted \ {q}
  BY <1>1, <1>2 DEF Deleted, Present
<1>4. \A s \in Present : Line(s)' = Line(s)
  BY <1>2 DEF Line, Present
<1>5. Line(q)'.id = Stub(q).id /\ Line(q)'.key = Stub(q).key
  BY DEF Line, Stub
<1>6. Book' = Book \cup {Line(q)'} /\ Line(q)' \in Book'
  BY <1>2, <1>4 DEF Book
<1>7. \A s \in Deleted \ {q} : Stub(s) # Stub(q)
  BY DEF Stub
<1>8. Gone' = Gone \ {Stub(q)} /\ Stub(q) \in Gone
  BY <1>3, <1>7 DEF Gone, Stub
<1>9. Registry!Distinct(Book')
  BY BookIsDistinct DEF IInv
<1>10. PICK old \in Gone : old = Stub(q)
  BY <1>8
<1>11. Registry!Restore(old)
  BY <1>1, <1>5, <1>6, <1>8, <1>9, <1>10 DEF Registry!Restore, Book, Line, Gone, Stub
<1>12. QED
  BY <1>10, <1>11 DEF Registry!Next, Gone, Stub

LEMMA DeleteRemoves ==
    ASSUME IInv, NEW q \in Requests, DeleteCertificate(q)
    PROVE  Registry!Next
<1>1. /\ q \in Present /\ handed[q] # 0
      /\ UNCHANGED <<seqLast, handed>>
      /\ ~cert'[q].there
      /\ \A s \in Requests \ {q} : cert'[s] = cert[s]
  BY DEF DeleteCertificate, Present, IInv, TypeOK, Answered, NoCert
<1>2. Present' = Present \ {q}
  BY <1>1 DEF Present
<1>3. Deleted' = Deleted \cup {q}
  BY <1>1, <1>2 DEF Deleted, Present
<1>4. \A s \in Present \ {q} : Line(s)' = Line(s) /\ Line(s) # Line(q)
  BY <1>1 DEF Line, Present
<1>5. Book' = Book \ {Line(q)} /\ Line(q) \in Book
  BY <1>1, <1>2, <1>4 DEF Book
<1>6. Gone' = Gone \cup {Stub(q)} /\ Stub(q) = [id |-> Line(q).id, key |-> Line(q).key]
  BY <1>3 DEF Gone, Stub, Line
<1>7. PICK entry \in Book : entry = Line(q)
  BY <1>5
<1>8. Registry!Remove(entry)
  BY <1>1, <1>5, <1>6, <1>7 DEF Registry!Remove, Book, Line, Gone, Stub
<1>9. QED
  BY <1>7, <1>8 DEF Registry!Next, Book, Line

LEMMA StepIsRegistryStep ==
    ASSUME IssuanceAssumption, IInv, IInv', [Next]_vars
    PROVE  Registry!Next \/ UNCHANGED <<seqLast, Book, Gone>>
<1>1. CASE \E r \in Requests : Commit(r)
  BY <1>1, CommitRegisters
<1>2. CASE \E q \in Requests, y \in Years : \E n \in Typed(q) : EditNumber(q, y, n)
  BY <1>2, EditRenumbers, EditRestores
<1>3. CASE \E q \in Requests : DeleteCertificate(q)
  BY <1>3, DeleteRemoves
<1>4. CASE /\ \A r \in Requests : ~Commit(r)
           /\ \A q \in Requests, y \in Years : \A n \in Typed(q) : ~EditNumber(q, y, n)
           /\ \A q \in Requests : ~DeleteCertificate(q)
  <2>1. UNCHANGED <<cert, seqLast, handed>>
    BY <1>4 DEF Next, Edit, Typed, Arrive, Handle, LookupKey, CheckQuota, ChooseRecipient,
                AllocateNumber, InsertRow, CountUsage, Abort, DeleteRecipient,
                RenameRecipient, SetOpen, NextMonth, dbVars, vars
  <2>2. QED
    BY <2>1, StutterKeepsBook
<1>5. QED
  BY <1>1, <1>2, <1>3, <1>4

\* The concurrent, aborting transactions of issue_certificate, and the edits that save
\* what they read long ago, implement the registry that does each in one step.
THEOREM Implementation == Spec => ImplementsRegistry
<1>1. Init => Registry!Init
  BY DEF Init, Registry!Init, NoCert, Present, Deleted
<1>2. IInv /\ IInv' /\ [Next]_vars => [Registry!Next]_(Registry!registryVars)
  BY StepIsRegistryStep, IssuanceAssumption DEF Registry!registryVars, Book, Line, Gone, Stub
<1>3. QED
  BY <1>1, <1>2, Invariance, PTL DEF Spec, ImplementsRegistry, Registry!Spec
=============================================================================

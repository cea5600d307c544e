------------------------- MODULE CertificateProofs -------------------------
(***************************************************************************)
(* Theorems about Templates and about CertificateLife, for any number of       *)
(* requests and handlers.  For the references of a template: a version exists  *)
(* only below its template, so a request that refers to a version it finds     *)
(* refers to a template as well.  For the current version: a request that runs *)
(* alone knows what is latest.  For a certificate: what a handler still has to *)
(* do says how far its events, its usage and its webhooks are behind, and      *)
(* where none overlaps the row it read is the row there is.                    *)
(***************************************************************************)
EXTENDS Templates, CertificateLife, FiniteSetTheorems, SequenceTheorems, TLAPS

Latest(v) == v \in versions /\ \A u \in versions : u <= v

\* The number save_version adds one to is there to be found.
HasLatest == versions # {} => \E v \in versions : Latest(v)

\* A request that is about to insert or to refer to a version has its number.
NumberChosen == \A q \in Requests : pc[q] \in {"insert", "point"} => number[q] > 0

VersionsBelowTemplate == versions # {} => present

RInv == TypeOK /\ HasLatest /\ NumberChosen /\ VersionsBelowTemplate /\ ReferencesHold

\* What a request knows that nobody overlaps: it works on a template that is there,
\* and no other request is going to change what is latest.
Alone ==
    ~overlapped /\ ~crashed =>
        /\ \A p, q \in Requests : Active(p) /\ Active(q) => p = q
        /\ \A q \in Requests :
             /\ Active(q) => present
             /\ pc[q] = "first" => versions = {}
             /\ pc[q] = "point" => versions = {1} /\ number[q] = 1
             /\ pc[q] = "edit" => Latest(read[q])
        /\ present /\ (\A q \in Requests : pc[q] \notin {"first", "point", "edit"}) => Latest(current)
        /\ \A q \in Requests : pc[q] = "insert" => \A v \in versions : v < number[q]

IInv == RInv /\ Alone

-----------------------------------------------------------------------------

LEMMA InitIInv == TemplatesAssumption /\ Init => IInv
<1> SUFFICES ASSUME TemplatesAssumption, Init
             PROVE  IInv
  OBVIOUS
<1>1. TypeOK
  <2>1. present \in BOOLEAN /\ overlapped \in BOOLEAN /\ crashed \in BOOLEAN
    BY DEF Init
  <2>2. versions \subseteq Nat \ {0} /\ batches \subseteq Requests
        /\ pinned \subseteq [by : Requests, version : Nat \ {0}]
    BY DEF Init
  <2>3. pc \in [Requests -> Steps] /\ current \in Nat /\ crashes \in 0..MaxCrashes
        /\ read \in [Requests -> Nat] /\ number \in [Requests -> Nat]
    BY DEF Init, Steps, TemplatesAssumption
  <2>4. QED
    BY <2>1, <2>2, <2>3 DEF TypeOK
<1>2. HasLatest /\ NumberChosen /\ VersionsBelowTemplate /\ ReferencesHold
  BY DEF Init, HasLatest, NumberChosen, VersionsBelowTemplate, ReferencesHold
<1>3. Alone
  BY DEF Init, Alone, Active
<1>4. QED
  BY <1>1, <1>2, <1>3 DEF IInv, RInv

\* The next number is above every version there is.
LEMMA NextNumberIsAbove ==
    ASSUME TypeOK, HasLatest
    PROVE  /\ NextNumber \in Nat \ {0}
           /\ \A v \in versions : v < NextNumber
<1>1. CASE versions = {}
  BY <1>1 DEF NextNumber
<1>2. CASE versions # {}
  <2> DEFINE m == CHOOSE v \in versions : \A u \in versions : u <= v
  <2>1. m \in versions /\ \A u \in versions : u <= m
    BY <1>2 DEF HasLatest, Latest
  <2>2. m \in Nat /\ versions \subseteq Nat
    BY <2>1 DEF TypeOK
  <2>3. NextNumber = 1 + m
    BY <1>2 DEF NextNumber
  <2> HIDE DEF m
  <2>4. QED
    BY <2>1, <2>2, <2>3
<1>3. QED
  BY <1>1, <1>2

\* GoTo keeps the types of what is kept for each request.
LEMMA GoToType ==
    ASSUME TypeOK, NEW q \in Requests, NEW step \in Steps, GoTo(q, step)
    PROVE  /\ pc' \in [Requests -> Steps]
           /\ read' \in [Requests -> Nat]
           /\ number' \in [Requests -> Nat]
BY DEF GoTo, TypeOK

-----------------------------------------------------------------------------
(* Type correctness                                                          *)

LEMMA StepTypeOK ==
    ASSUME TemplatesAssumption, TypeOK, HasLatest, NumberChosen, NEW q \in Requests,
           \/ CreateTemplate(q) \/ CreateFirstVersion(q) \/ PointToFirst(q)
           \/ ReadTemplate(q) \/ ChooseNumber(q) \/ InsertVersion(q) \/ SaveTemplate(q)
           \/ CheckUnused(q) \/ DeleteTemplate(q) \/ IssueWithTemplate(q) \/ UploadBatch(q)
           \/ Crash(q)
    PROVE  TypeOK'
<1> USE DEF environment
<1> "ended" \in Steps /\ "first" \in Steps /\ "delete" \in Steps /\ "point" \in Steps
  BY DEF Steps
<1>1. CASE CreateTemplate(q)
  BY <1>1, GoToType DEF CreateTemplate, TypeOK
<1>2. CASE CreateFirstVersion(q)
  <2>1. CASE present /\ 1 \notin versions
    <3>0. versions' = versions \cup {1}
      BY <1>2, <2>1 DEF CreateFirstVersion
    <3>1. versions' \subseteq Nat \ {0}
      BY <3>0 DEF TypeOK
    <3>2. pc' \in [Requests -> Steps] /\ number' \in [Requests -> Nat]
      BY <1>2, <2>1 DEF CreateFirstVersion, TypeOK
    <3>3. QED
      BY <1>2, <2>1, <3>1, <3>2 DEF CreateFirstVersion, TypeOK
  <2>2. CASE ~(present /\ 1 \notin versions)
    BY <1>2, <2>2, GoToType DEF CreateFirstVersion, TypeOK
  <2>3. QED
    BY <2>1, <2>2
<1>3. CASE PointToFirst(q)
  <2>1. current' \in Nat
    BY <1>3 DEF PointToFirst, TypeOK
  <2>2. QED
    BY <1>3, <2>1, GoToType DEF PointToFirst, TypeOK
<1>4. CASE ReadTemplate(q)
  BY <1>4 DEF ReadTemplate, Begins, TypeOK, Steps
<1>5. CASE ChooseNumber(q)
  <2>1. NextNumber \in Nat
    BY NextNumberIsAbove
  <2>2. QED
    BY <1>5, <2>1 DEF ChooseNumber, TypeOK, Steps
<1>6. CASE InsertVersion(q)
  <2>1. CASE present /\ number[q] \notin versions
    <3>1. number[q] \in Nat \ {0}
      BY <1>6 DEF InsertVersion, NumberChosen, TypeOK
    <3>2. QED
      BY <1>6, <2>1, <3>1 DEF InsertVersion, TypeOK, Steps
  <2>2. CASE ~(present /\ number[q] \notin versions)
    BY <1>6, <2>2, GoToType DEF InsertVersion, TypeOK
  <2>3. QED
    BY <2>1, <2>2
<1>7. CASE SaveTemplate(q)
  BY <1>7, GoToType DEF SaveTemplate, TypeOK
<1>8. CASE CheckUnused(q)
  <2>1. PICK step \in Steps : GoTo(q, step)
    BY <1>8 DEF CheckUnused
  <2>2. QED
    BY <1>8, <2>1, GoToType DEF CheckUnused, TypeOK
<1>9. CASE DeleteTemplate(q)
  <2>1. current' \in Nat /\ versions' \subseteq Nat \ {0}
    <3>1. CASE current' = 0 /\ versions' = {}
      BY <3>1
    <3>2. CASE current' = current /\ versions' = versions
      BY <3>2 DEF TypeOK
    <3>3. QED
      BY <1>9, <3>1, <3>2 DEF DeleteTemplate
  <2>2. present' \in BOOLEAN
    BY <1>9, Zenon DEF DeleteTemplate, TypeOK
  <2>3. QED
    BY <1>9, <2>1, <2>2, GoToType DEF DeleteTemplate, TypeOK
<1>10. CASE IssueWithTemplate(q)
  <2>1. pinned' \subseteq [by : Requests, version : Nat \ {0}]
    BY <1>10 DEF IssueWithTemplate, TypeOK
  <2>2. QED
    BY <1>10, <2>1, GoToType DEF IssueWithTemplate, TypeOK
<1>11. CASE UploadBatch(q)
  BY <1>11, GoToType DEF UploadBatch, TypeOK
<1>12. CASE Crash(q)
  BY <1>12, GoToType DEF Crash, TypeOK, TemplatesAssumption
<1>13. QED
  BY <1>1, <1>2, <1>3, <1>4, <1>5, <1>6, <1>7, <1>8, <1>9, <1>10, <1>11, <1>12

-----------------------------------------------------------------------------
(* References                                                                *)

\* What there is to refer to; UNCHANGED of it keeps the references.
rows == <<present, current, versions, batches, pinned>>

LEMMA RowsKept ==
    ASSUME HasLatest, VersionsBelowTemplate, ReferencesHold, UNCHANGED rows
    PROVE  HasLatest' /\ VersionsBelowTemplate' /\ ReferencesHold'
BY DEF rows, HasLatest, Latest, VersionsBelowTemplate, ReferencesHold

\* A version is added under a template that is there.
LEMMA VersionAdded ==
    ASSUME TypeOK, HasLatest, VersionsBelowTemplate, ReferencesHold,
           present, NEW n \in Nat \ {0}, versions' = versions \cup {n},
           UNCHANGED <<present, current, batches, pinned>>
    PROVE  HasLatest' /\ VersionsBelowTemplate' /\ ReferencesHold'
<1>1. HasLatest'
  <2>1. CASE \E v \in versions : Latest(v) /\ n <= v
    BY <2>1 DEF HasLatest, Latest, TypeOK
  <2>2. CASE \A v \in versions : Latest(v) => ~(n <= v)
    <3>1. \A u \in versions : u <= n
      BY <2>2 DEF HasLatest, Latest, TypeOK
    <3>2. QED
      BY <3>1 DEF HasLatest, Latest, TypeOK
  <2>3. QED
    BY <2>1, <2>2
<1>2. VersionsBelowTemplate'
  BY DEF VersionsBelowTemplate
<1>3. ReferencesHold'
  BY DEF ReferencesHold
<1>4. QED
  BY <1>1, <1>2, <1>3

LEMMA StepReferences ==
    ASSUME TemplatesAssumption, RInv, NEW q \in Requests,
           \/ CreateTemplate(q) \/ CreateFirstVersion(q) \/ PointToFirst(q)
           \/ ReadTemplate(q) \/ ChooseNumber(q) \/ InsertVersion(q) \/ SaveTemplate(q)
           \/ CheckUnused(q) \/ DeleteTemplate(q) \/ IssueWithTemplate(q) \/ UploadBatch(q)
           \/ Crash(q)
    PROVE  HasLatest' /\ VersionsBelowTemplate' /\ ReferencesHold'
<1> TypeOK /\ HasLatest /\ NumberChosen /\ VersionsBelowTemplate /\ ReferencesHold
  BY DEF RInv
<1>1. CASE CreateTemplate(q)
  BY <1>1 DEF CreateTemplate, HasLatest, VersionsBelowTemplate, ReferencesHold
<1>2. CASE CreateFirstVersion(q)
  <2>1. CASE present /\ 1 \notin versions
    BY <1>2, <2>1, VersionAdded DEF CreateFirstVersion
  <2>2. CASE ~(present /\ 1 \notin versions)
    BY <1>2, <2>2, RowsKept DEF CreateFirstVersion, rows
  <2>3. QED
    BY <2>1, <2>2
<1>3. CASE PointToFirst(q)
  BY <1>3 DEF PointToFirst, HasLatest, Latest, VersionsBelowTemplate, ReferencesHold
<1>4. CASE ReadTemplate(q)
  BY <1>4, RowsKept DEF ReadTemplate, rows
<1>5. CASE ChooseNumber(q)
  BY <1>5, RowsKept DEF ChooseNumber, rows
<1>6. CASE InsertVersion(q)
  <2>1. CASE present /\ number[q] \notin versions
    <3>1. number[q] \in Nat \ {0}
      BY <1>6 DEF InsertVersion, NumberChosen, TypeOK
    <3>2. QED
      BY <1>6, <2>1, <3>1, VersionAdded DEF InsertVersion
  <2>2. CASE ~(present /\ number[q] \notin versions)
    BY <1>6, <2>2, RowsKept DEF InsertVersion, rows
  <2>3. QED
    BY <2>1, <2>2
<1>7. CASE SaveTemplate(q)
  <2>1. CASE read[q] = 0 \/ read[q] \in versions
    BY <1>7, <2>1 DEF SaveTemplate, HasLatest, Latest, VersionsBelowTemplate, ReferencesHold
  <2>2. CASE ~(read[q] = 0 \/ read[q] \in versions)
    BY <1>7, <2>2, RowsKept DEF SaveTemplate, rows
  <2>3. QED
    BY <2>1, <2>2
<1>8. CASE CheckUnused(q)
  BY <1>8, RowsKept DEF CheckUnused, rows
<1>9. CASE DeleteTemplate(q)
  <2>1. CASE pinned = {} /\ batches = {}
    BY <1>9, <2>1 DEF DeleteTemplate, HasLatest, VersionsBelowTemplate, ReferencesHold
  <2>2. CASE ~(pinned = {} /\ batches = {})
    BY <1>9, <2>2, RowsKept DEF DeleteTemplate, rows
  <2>3. QED
    BY <2>1, <2>2
<1>10. CASE IssueWithTemplate(q)
  <2>1. \A c \in pinned' : present /\ c.version \in versions
    BY <1>10 DEF IssueWithTemplate, ReferencesHold
  <2>2. QED
    BY <1>10, <2>1 DEF IssueWithTemplate, HasLatest, Latest, VersionsBelowTemplate, ReferencesHold
<1>11. CASE UploadBatch(q)
  BY <1>11 DEF UploadBatch, HasLatest, Latest, VersionsBelowTemplate, ReferencesHold
<1>12. CASE Crash(q)
  BY <1>12, RowsKept DEF Crash, rows
<1>13. QED
  BY <1>1, <1>2, <1>3, <1>4, <1>5, <1>6, <1>7, <1>8, <1>9, <1>10, <1>11, <1>12

LEMMA StepNumberChosen ==
    ASSUME TemplatesAssumption, RInv, NEW q \in Requests,
           \/ CreateTemplate(q) \/ CreateFirstVersion(q) \/ PointToFirst(q)
           \/ ReadTemplate(q) \/ ChooseNumber(q) \/ InsertVersion(q) \/ SaveTemplate(q)
           \/ CheckUnused(q) \/ DeleteTemplate(q) \/ IssueWithTemplate(q) \/ UploadBatch(q)
           \/ Crash(q)
    PROVE  NumberChosen'
<1> TypeOK /\ HasLatest /\ NumberChosen
  BY DEF RInv
<1>1. \A step : GoTo(q, step) /\ step \notin {"insert", "point"} => NumberChosen'
  BY DEF GoTo, NumberChosen, TypeOK
<1>2. CASE CreateFirstVersion(q)
  <2>1. CASE present /\ 1 \notin versions
    BY <1>2, <2>1 DEF CreateFirstVersion, NumberChosen, TypeOK
  <2>2. CASE ~(present /\ 1 \notin versions)
    BY <1>1, <1>2, <2>2 DEF CreateFirstVersion
  <2>3. QED
    BY <2>1, <2>2
<1>3. CASE ReadTemplate(q)
  BY <1>3 DEF ReadTemplate, NumberChosen, TypeOK
<1>4. CASE ChooseNumber(q)
  <2>1. NextNumber > 0
    BY NextNumberIsAbove
  <2>2. QED
    BY <1>4, <2>1 DEF ChooseNumber, NumberChosen, TypeOK
<1>5. CASE InsertVersion(q)
  <2>1. CASE present /\ number[q] \notin versions
    BY <1>5, <2>1 DEF InsertVersion, NumberChosen, TypeOK
  <2>2. CASE ~(present /\ number[q] \notin versions)
    BY <1>1, <1>5, <2>2 DEF InsertVersion
  <2>3. QED
    BY <2>1, <2>2
<1>6. CASE \/ CreateTemplate(q) \/ PointToFirst(q) \/ SaveTemplate(q) \/ CheckUnused(q)
           \/ DeleteTemplate(q) \/ IssueWithTemplate(q) \/ UploadBatch(q) \/ Crash(q)
  BY <1>1, <1>6 DEF CreateTemplate, PointToFirst, SaveTemplate, CheckUnused, DeleteTemplate,
                    IssueWithTemplate, UploadBatch, Crash
<1>7. QED
  BY <1>2, <1>3, <1>4, <1>5, <1>6

-----------------------------------------------------------------------------
(* The latest version                                                        *)

LEMMA StepAlone ==
    ASSUME TemplatesAssumption, RInv, Alone, NEW q \in Requests,
           \/ CreateTemplate(q) \/ CreateFirstVersion(q) \/ PointToFirst(q)
           \/ ReadTemplate(q) \/ ChooseNumber(q) \/ InsertVersion(q) \/ SaveTemplate(q)
           \/ CheckUnused(q) \/ DeleteTemplate(q) \/ IssueWithTemplate(q) \/ UploadBatch(q)
           \/ Crash(q)
    PROVE  Alone'
<1> USE DEF Active
<1> SUFFICES ASSUME ~overlapped', ~crashed'
             PROVE  Alone'
  BY DEF Alone
<1> TypeOK /\ HasLatest /\ NumberChosen /\ VersionsBelowTemplate /\ ReferencesHold
  BY DEF RInv
<1>1. ~overlapped /\ ~crashed /\ ~Crash(q)
  <2>1. ~Crash(q)
    BY Zenon DEF Crash
  <2>2. CASE ReadTemplate(q)
    <3>1. overlapped' = (overlapped \/ \E p \in Requests : Active(p)) /\ crashed' = crashed
      BY <2>2 DEF ReadTemplate, Begins
    <3>2. QED
      BY <2>1, <3>1, Zenon
  <2>3. CASE ~ReadTemplate(q)
    <3>1. overlapped' = overlapped /\ crashed' = crashed
      BY <2>1, <2>3 DEF CreateTemplate, CreateFirstVersion, PointToFirst, ChooseNumber,
         InsertVersion, SaveTemplate, CheckUnused, DeleteTemplate, IssueWithTemplate,
         UploadBatch, environment
    <3>2. QED
      BY <2>1, <3>1, Zenon
  <2>4. QED
    BY <2>2, <2>3
<1>2. \A p \in Requests : pc[q] # "new" /\ pc[q] # "ended" /\ p # q => pc[p] \in {"new", "ended"}
  BY <1>1 DEF Alone
<1>3. /\ pc[q] \notin {"new", "ended"} => present
      /\ pc[q] = "first" => versions = {}
      /\ pc[q] = "point" => versions = {1} /\ number[q] = 1
      /\ pc[q] = "edit" => Latest(read[q])
      /\ pc[q] = "insert" => \A v \in versions : v < number[q]
  BY <1>1 DEF Alone
<1>4. pc[q] \in {"version", "insert", "check", "delete", "issue", "upload"} => Latest(current)
  BY <1>1, <1>2, <1>3 DEF Alone
<1>5. ASSUME NEW step \in Steps \ {"first", "point", "edit", "insert"}, GoTo(q, step),
             pc[q] \notin {"new", "ended"}, present' => Latest(current)', step # "ended" => present'
      PROVE  Alone'
  BY <1>2, <1>5 DEF Alone, GoTo, TypeOK, Latest, Steps
<1>6. CASE CreateTemplate(q)
  BY <1>6 DEF CreateTemplate, Alone, GoTo, TypeOK
<1>7. CASE CreateFirstVersion(q)
  <2>1. versions = {} /\ present
    BY <1>3, <1>7 DEF CreateFirstVersion
  <2>2. versions' = {1} /\ number'[q] = 1 /\ present' /\ pc' = [pc EXCEPT ![q] = "point"]
    BY <1>7, <2>1 DEF CreateFirstVersion, TypeOK
  <2>3. QED
    BY <1>2, <1>7, <2>2 DEF CreateFirstVersion, Alone, TypeOK
<1>8. CASE PointToFirst(q)
  <2>1. versions = {1} /\ number[q] = 1 /\ present
    BY <1>3, <1>8 DEF PointToFirst
  <2>2. Latest(current)'
    BY <1>8, <2>1 DEF PointToFirst, Latest
  <2>3. QED
    BY <1>5, <1>8, <2>2 DEF PointToFirst, Steps
<1>9. CASE ReadTemplate(q)
  <2>1. \A p \in Requests : pc[p] \in {"new", "ended"}
    BY <1>9 DEF ReadTemplate, Begins
  <2>2. Latest(current)
    BY <1>1, <1>9, <2>1 DEF Alone, ReadTemplate
  <2>3. QED
    BY <1>9, <2>1, <2>2 DEF ReadTemplate, Alone, TypeOK, Latest
<1>10. CASE ChooseNumber(q)
  <2>1. \A v \in versions : v < NextNumber
    BY NextNumberIsAbove
  <2>2. Latest(current) /\ present
    BY <1>3, <1>4, <1>10 DEF ChooseNumber
  <2>3. QED
    BY <1>2, <1>10, <2>1, <2>2 DEF ChooseNumber, Alone, TypeOK, Latest
<1>11. CASE InsertVersion(q)
  <2>1. present /\ number[q] \in Nat /\ \A v \in versions : v < number[q]
    BY <1>3, <1>11 DEF InsertVersion, TypeOK
  <2>2. number[q] \notin versions
    BY <2>1
  <2>3. versions' = versions \cup {number[q]} /\ read'[q] = number[q]
        /\ pc' = [pc EXCEPT ![q] = "edit"] /\ present'
    BY <1>11, <2>1, <2>2 DEF InsertVersion, TypeOK
  <2>4. Latest(read[q])'
    BY <2>1, <2>3 DEF Latest, TypeOK
  <2>5. \A p \in Requests : IF p = q THEN pc'[p] = "edit" ELSE pc'[p] \in {"new", "ended"}
    BY <1>2, <1>11, <2>3 DEF InsertVersion, TypeOK
  <2>6. QED
    BY <2>3, <2>4, <2>5 DEF Alone, Latest
<1>12. CASE SaveTemplate(q)
  <2>1. Latest(read[q])
    BY <1>3, <1>12 DEF SaveTemplate
  <2>2. current' = read[q] /\ versions' = versions
    BY <1>12, <2>1 DEF SaveTemplate, Latest
  <2>3. Latest(current)'
    BY <2>1, <2>2 DEF Latest
  <2>4. QED
    BY <1>5, <1>12, <2>3 DEF SaveTemplate, Steps
<1>13. CASE CheckUnused(q)
  <2>1. PICK step \in {"delete", "ended"} : GoTo(q, step)
    BY <1>13 DEF CheckUnused
  <2>2. QED
    BY <1>3, <1>4, <1>5, <1>13, <2>1 DEF CheckUnused, Steps, Latest
<1>14. CASE DeleteTemplate(q)
  <2>1. present' => Latest(current)'
    <3>1. CASE present' = FALSE
      BY <3>1
    <3>2. CASE current' = current /\ versions' = versions
      BY <1>4, <1>14, <3>2 DEF DeleteTemplate, Latest
    <3>3. QED
      BY <1>14, <3>1, <3>2 DEF DeleteTemplate
  <2>2. QED
    BY <1>5, <1>14, <2>1 DEF DeleteTemplate, Steps
<1>15. CASE IssueWithTemplate(q) \/ UploadBatch(q)
  <2>1. Latest(current)'
    BY <1>4, <1>15 DEF IssueWithTemplate, UploadBatch, Latest
  <2>2. QED
    BY <1>5, <1>15, <2>1 DEF IssueWithTemplate, UploadBatch, Steps
<1>16. QED
  BY <1>1, <1>6, <1>7, <1>8, <1>9, <1>10, <1>11, <1>12, <1>13, <1>14, <1>15

-----------------------------------------------------------------------------
(* Theorems                                                                  *)

LEMMA NextIInv == TemplatesAssumption /\ IInv /\ [Next]_vars => IInv'
<1> SUFFICES ASSUME TemplatesAssumption, IInv, [Next]_vars
             PROVE  IInv'
  OBVIOUS
<1>1. CASE UNCHANGED vars
  BY <1>1 DEF vars, IInv, RInv, TypeOK, HasLatest, Latest, NumberChosen,
              VersionsBelowTemplate, ReferencesHold, Alone, Active
<1>2. CASE Next
  <2>1. PICK q \in Requests :
           \/ CreateTemplate(q) \/ CreateFirstVersion(q) \/ PointToFirst(q)
           \/ ReadTemplate(q) \/ ChooseNumber(q) \/ InsertVersion(q) \/ SaveTemplate(q)
           \/ CheckUnused(q) \/ DeleteTemplate(q) \/ IssueWithTemplate(q) \/ UploadBatch(q)
           \/ Crash(q)
    BY <1>2 DEF Next
  <2>2. RInv /\ Alone
    BY DEF IInv
  <2>3. TypeOK /\ HasLatest /\ NumberChosen
    BY <2>2 DEF RInv
  <2>4. TypeOK'
    BY <2>1, <2>3, StepTypeOK
  <2>5. HasLatest' /\ VersionsBelowTemplate' /\ ReferencesHold'
    BY <2>1, <2>2, StepReferences
  <2>6. NumberChosen'
    BY <2>1, <2>2, StepNumberChosen
  <2>7. Alone'
    BY <2>1, <2>2, StepAlone
  <2>8. QED
    BY <2>4, <2>5, <2>6, <2>7 DEF IInv, RInv
<1>3. QED
  BY <1>1, <1>2

LEMMA AlwaysIInv == Spec => []IInv
<1>1. Init => IInv
  BY InitIInv, TemplatesAssumption
<1>2. IInv /\ [Next]_vars => IInv'
  BY NextIInv, TemplatesAssumption
<1>3. QED
  BY <1>1, <1>2, PTL DEF Spec

\* Every row and every request keeps its type: in particular no version is ever
\* numbered zero (views.py:78-91 and 111-120).
THEOREM TypeCorrect == Spec => []TypeOK
<1>1. IInv => TypeOK
  BY DEF IInv, RInv
<1>2. QED
  BY <1>1, AlwaysIInv, PTL

\* The version a certificate was issued with is never lost, and neither is the
\* template of a batch, however requests overlap (views.py:93-124).
THEOREM ReferencesAreKept == Spec => []ReferencesHold
<1>1. IInv => ReferencesHold
  BY DEF IInv, RInv
<1>2. QED
  BY <1>1, AlwaysIInv, PTL

\* What is issued is what the designer saved last, as long as the requests for the
\* template follow each other (views.py:102-124).
THEOREM CurrentIsLatest == Spec => []CurrentIsLatestAlone
<1>1. IInv => CurrentIsLatestAlone
  <2> SUFFICES ASSUME IInv, present, ~overlapped, ~crashed, \A q \in Requests : ~Active(q)
               PROVE  current \in versions /\ \A v \in versions : v <= current
    BY DEF CurrentIsLatestAlone
  <2>1. QED
    BY DEF IInv, Alone, Active, Latest
<1>2. QED
  BY <1>1, AlwaysIInv, PTL

-----------------------------------------------------------------------------
(* A certificate after it was issued.  The argument: what a handler does next   *)
(* says what it has left behind, so events, usage and webhooks are as far        *)
(* behind each other as there are handlers between two of them; and a handler    *)
(* that nobody crosses knows the row it read.                                    *)

\* What may be left of a script.
Rests ==
    [ verify |-> {<<"record", "count", "event", "usage", "tell">>, <<"count", "event", "usage", "tell">>,
                  <<"event", "usage", "tell">>, <<"usage", "tell">>, <<"tell">>},
      search |-> {<<"answer">>},
      pdf    |-> {<<"count", "event">>, <<"event">>},
      mail   |-> {<<"send", "event", "usage", "tell">>, <<"event", "usage", "tell">>, <<"usage", "tell">>, <<"tell">>},
      revoke |-> {<<"revoke", "tell">>, <<"tell">>},
      edit   |-> {<<"save">>},
      restate |-> {<<"save">>},
      delete |-> {<<"delete">>} ]

Upcoming(q) == IF todo[q] = <<>> THEN "none" ELSE Head(todo[q])

\* The step after step s in the script of kind k.
After(k, s) ==
    IF s = "record" THEN "count"
    ELSE IF s = "count" \/ s = "send" THEN "event"
    ELSE IF s = "event" /\ k # "pdf" THEN "usage"
    ELSE IF s = "usage" \/ s = "revoke" THEN "tell"
    ELSE "none"

\* The kinds that have a step.
Having(s) ==
    IF s = "record" THEN {"verify"}
    ELSE IF s = "count" THEN {"verify", "pdf"}
    ELSE IF s = "send" THEN {"mail"}
    ELSE IF s = "event" THEN {"verify", "pdf", "mail"}
    ELSE IF s = "usage" THEN {"verify", "mail"}
    ELSE IF s = "tell" THEN {"verify", "mail", "revoke"}
    ELSE IF s = "revoke" THEN {"revoke"}
    ELSE IF s = "answer" THEN {"search"}
    ELSE IF s = "save" THEN {"edit", "restate"}
    ELSE IF s = "delete" THEN {"delete"}
    ELSE {}

\* A handler under way has a row and a rest of its script.
Scripted ==
    \A q \in Handlers :
        IF kind[q] \in {"new", "ended"}
        THEN todo[q] = <<>> /\ (kind[q] = "new" => shown[q] = None /\ q \notin late)
        ELSE todo[q] \in Rests[kind[q]] /\ copy[q] \in Row

AtSteps(k, S) == {q \in Handlers : kind[q] = k /\ Upcoming(q) \in S}

\* m is ahead of n by the handlers of S, or by more if some have died.
Ahead(m, n, S) ==
    /\ n + Cardinality(S) <= m
    /\ deaths = 0 => n + Cardinality(S) = m

TrailKept ==
    ~deleted =>
        /\ exists
        /\ \A k \in {"verify", "mail"} :
             /\ Ahead(acts[k], events[k], AtSteps(k, {"count", "event"}))
             /\ Ahead(events[k], usage[k], AtSteps(k, {"usage"}))
             /\ Ahead(usage[k], told[k], AtSteps(k, {"tell"}))

\* Nobody else is under way; a revocation finds the status it has read.
Uncrossed ==
    ~crossed /\ ~edited =>
        /\ \A p, q \in Handlers : Running(p) /\ Running(q) => p = q
        /\ events["revoke"] <= 1
        /\ events["revoke"] = 1 => row.status = "revoked"
        /\ \A q \in Handlers : Upcoming(q) = "revoke" => copy[q].status = row.status

\* A view or a download that is counted and has no event yet.
Uneventful(k) == IF \E q \in Handlers : kind[q] = k /\ Upcoming(q) = "event" THEN 1 ELSE 0

CountersKept ==
    ~crossed /\ ~edited /\ ~deleted /\ deaths = 0 =>
        /\ row.views = events["verify"] + Uneventful("verify")
        /\ row.downloads = events["pdf"] + Uneventful("pdf")
        /\ \A q \in Handlers : Upcoming(q) \in {"record", "count"} =>
              copy[q].views = row.views /\ copy[q].downloads = row.downloads

LateKept ==
    \A q \in late :
        /\ shown[q] # None => shown[q] = "revoked"
        /\ Running(q) => copy[q].status = "revoked"

LInv == LifeTypeOK /\ Scripted /\ TrailKept /\ Uncrossed /\ CountersKept /\ LateKept

-----------------------------------------------------------------------------
(* Scripts                                                                   *)

\* What a rest of a script of kind k is.
IsRest(k, t) ==
    /\ t # <<>> /\ t \in Seq(HandlerSteps)
    /\ k \in Having(Head(t))
    /\ Len(t) = 1 => Tail(t) = <<>> /\ After(k, Head(t)) = "none"
    /\ Len(t) # 1 => Tail(t) \in Rests[k] /\ Head(Tail(t)) = After(k, Head(t))

LEMMA RestsAre == \A k \in Kinds : Script[k] \in Rests[k] /\ \A t \in Rests[k] : IsRest(k, t)
<1>1. IsRest("verify", <<"record", "count", "event", "usage", "tell">>)
  <2>1. /\ Tail(<<"record", "count", "event", "usage", "tell">>) = <<"count", "event", "usage", "tell">>
        /\ Len(<<"record", "count", "event", "usage", "tell">>) = 5
    OBVIOUS
  <2>2. /\ <<"record", "count", "event", "usage", "tell">> \in Seq(HandlerSteps)
        /\ <<"record", "count", "event", "usage", "tell">> # <<>>
    BY DEF HandlerSteps
  <2>3. <<"count", "event", "usage", "tell">> \in Rests["verify"]
    BY DEF Rests
  <2>4. QED
    BY <2>1, <2>2, <2>3 DEF IsRest, Having, After
<1>2. IsRest("verify", <<"count", "event", "usage", "tell">>)
  <2>1. /\ Tail(<<"count", "event", "usage", "tell">>) = <<"event", "usage", "tell">>
        /\ Len(<<"count", "event", "usage", "tell">>) = 4
    OBVIOUS
  <2>2. /\ <<"count", "event", "usage", "tell">> \in Seq(HandlerSteps)
        /\ <<"count", "event", "usage", "tell">> # <<>>
    BY DEF HandlerSteps
  <2>3. <<"event", "usage", "tell">> \in Rests["verify"]
    BY DEF Rests
  <2>4. QED
    BY <2>1, <2>2, <2>3 DEF IsRest, Having, After
<1>3. IsRest("verify", <<"event", "usage", "tell">>)
  <2>1. Tail(<<"event", "usage", "tell">>) = <<"usage", "tell">> /\ Len(<<"event", "usage", "tell">>) = 3
    OBVIOUS
  <2>2. <<"event", "usage", "tell">> \in Seq(HandlerSteps) /\ <<"event", "usage", "tell">> # <<>>
    BY DEF HandlerSteps
  <2>3. <<"usage", "tell">> \in Rests["verify"]
    BY DEF Rests
  <2>4. QED
    BY <2>1, <2>2, <2>3 DEF IsRest, Having, After
<1>4. IsRest("verify", <<"usage", "tell">>)
  <2>1. Tail(<<"usage", "tell">>) = <<"tell">> /\ Len(<<"usage", "tell">>) = 2
    OBVIOUS
  <2>2. <<"usage", "tell">> \in Seq(HandlerSteps) /\ <<"usage", "tell">> # <<>>
    BY DEF HandlerSteps
  <2>3. <<"tell">> \in Rests["verify"]
    BY DEF Rests
  <2>4. QED
    BY <2>1, <2>2, <2>3 DEF IsRest, Having, After
<1>5. IsRest("verify", <<"tell">>)
  BY DEF IsRest, HandlerSteps, Having, After
<1>6. IsRest("search", <<"answer">>)
  BY DEF IsRest, HandlerSteps, Having, After
<1>7. IsRest("pdf", <<"count", "event">>)
  <2>1. Tail(<<"count", "event">>) = <<"event">> /\ Len(<<"count", "event">>) = 2
    OBVIOUS
  <2>2. <<"count", "event">> \in Seq(HandlerSteps) /\ <<"count", "event">> # <<>>
    BY DEF HandlerSteps
  <2>3. <<"event">> \in Rests["pdf"]
    BY DEF Rests
  <2>4. QED
    BY <2>1, <2>2, <2>3 DEF IsRest, Having, After
<1>8. IsRest("pdf", <<"event">>)
  BY DEF IsRest, HandlerSteps, Having, After
<1>9. IsRest("mail", <<"send", "event", "usage", "tell">>)
  <2>1. /\ Tail(<<"send", "event", "usage", "tell">>) = <<"event", "usage", "tell">>
        /\ Len(<<"send", "event", "usage", "tell">>) = 4
    OBVIOUS
  <2>2. /\ <<"send", "event", "usage", "tell">> \in Seq(HandlerSteps)
        /\ <<"send", "event", "usage", "tell">> # <<>>
    BY DEF HandlerSteps
  <2>3. <<"event", "usage", "tell">> \in Rests["mail"]
    BY DEF Rests
  <2>4. QED
    BY <2>1, <2>2, <2>3 DEF IsRest, Having, After
<1>10. IsRest("mail", <<"event", "usage", "tell">>)
  <2>1. Tail(<<"event", "usage", "tell">>) = <<"usage", "tell">> /\ Len(<<"event", "usage", "tell">>) = 3
    OBVIOUS
  <2>2. <<"event", "usage", "tell">> \in Seq(HandlerSteps) /\ <<"event", "usage", "tell">> # <<>>
    BY DEF HandlerSteps
  <2>3. <<"usage", "tell">> \in Rests["mail"]
    BY DEF Rests
  <2>4. QED
    BY <2>1, <2>2, <2>3 DEF IsRest, Having, After
<1>11. IsRest("mail", <<"usage", "tell">>)
  <2>1. Tail(<<"usage", "tell">>) = <<"tell">> /\ Len(<<"usage", "tell">>) = 2
    OBVIOUS
  <2>2. <<"usage", "tell">> \in Seq(HandlerSteps) /\ <<"usage", "tell">> # <<>>
    BY DEF HandlerSteps
  <2>3. <<"tell">> \in Rests["mail"]
    BY DEF Rests
  <2>4. QED
    BY <2>1, <2>2, <2>3 DEF IsRest, Having, After
<1>12. IsRest("mail", <<"tell">>)
  BY DEF IsRest, HandlerSteps, Having, After
<1>13. IsRest("revoke", <<"revoke", "tell">>)
  <2>1. Tail(<<"revoke", "tell">>) = <<"tell">> /\ Len(<<"revoke", "tell">>) = 2
    OBVIOUS
  <2>2. <<"revoke", "tell">> \in Seq(HandlerSteps) /\ <<"revoke", "tell">> # <<>>
    BY DEF HandlerSteps
  <2>3. <<"tell">> \in Rests["revoke"]
    BY DEF Rests
  <2>4. QED
    BY <2>1, <2>2, <2>3 DEF IsRest, Having, After
<1>14. IsRest("revoke", <<"tell">>)
  BY DEF IsRest, HandlerSteps, Having, After
<1>15. IsRest("edit", <<"save">>) /\ IsRest("restate", <<"save">>)
  BY DEF IsRest, HandlerSteps, Having, After
<1>16. IsRest("delete", <<"delete">>)
  BY DEF IsRest, HandlerSteps, Having, After
<1>17. \A k \in Kinds : Script[k] \in Rests[k]
  BY DEF Kinds, Script, Rests
<1>18. \A k \in Kinds : \A t \in Rests[k] : IsRest(k, t)
  BY <1>1, <1>2, <1>3, <1>4, <1>5, <1>6, <1>7, <1>8, <1>9, <1>10, <1>11, <1>12, <1>13, <1>14,
     <1>15, <1>16 DEF Kinds, Script, Rests
<1>19. QED
  BY <1>17, <1>18

-----------------------------------------------------------------------------
(* A handler that goes on                                                    *)

LEMMA Upcomes ==
    ASSUME LifeTypeOK, Scripted, NEW q \in Handlers
    PROVE  /\ Running(q) <=> Upcoming(q) # "none"
           /\ \A s \in HandlerSteps : At(q, s) <=> Upcoming(q) = s
           /\ Running(q) => /\ kind[q] \in Kinds /\ kind[q] \notin {"new", "ended"}
                            /\ kind[q] \in Having(Upcoming(q))
                            /\ copy[q] \in Row /\ Upcoming(q) \in HandlerSteps
           /\ ~Running(q) => kind[q] \in {"new", "ended"}
<1>1. CASE kind[q] \in {"new", "ended"}
  <2>1. todo[q] = <<>> /\ Upcoming(q) = "none"
    BY <1>1 DEF Scripted, Upcoming
  <2>2. QED
    BY <1>1, <2>1 DEF Running, At, HandlerSteps
<1>2. CASE kind[q] \notin {"new", "ended"}
  <2>1. todo[q] \in Rests[kind[q]] /\ copy[q] \in Row
    BY <1>2 DEF Scripted
  <2>2. kind[q] \in Kinds
    BY <1>2 DEF LifeTypeOK
  <2>3. IsRest(kind[q], todo[q])
    BY <2>1, <2>2, RestsAre
  <2>4. todo[q] # <<>> /\ Upcoming(q) = Head(todo[q]) /\ kind[q] \in Having(Head(todo[q]))
    BY <2>3 DEF IsRest, Upcoming
  <2>5. Upcoming(q) \in HandlerSteps
    BY <2>4 DEF Having, HandlerSteps
  <2>6. QED
    BY <1>2, <2>1, <2>2, <2>4, <2>5 DEF Running, At, HandlerSteps
<1>3. QED
  BY <1>1, <1>2

\* The handler of a step, before and after it.
Moves(q) ==
    /\ \A p \in Handlers \ {q} :
         kind'[p] = kind[p] /\ copy'[p] = copy[p] /\ todo'[p] = todo[p] /\ shown'[p] = shown[p]
    /\ Upcoming(q)' # "none" =>
         kind'[q] = kind[q] /\ copy'[q] = copy[q] /\ shown'[q] = shown[q]
    /\ Upcoming(q)' = "none" =>
         kind'[q] = "ended" /\ todo'[q] = <<>> /\ shown'[q] \in {shown[q], PublicStatus(copy[q])}

HandlerTypes ==
    /\ kind \in [Handlers -> Kinds \cup {"new", "ended"}]
    /\ copy \in [Handlers -> Row \cup {None}]
    /\ todo \in [Handlers -> Seq(HandlerSteps)]
    /\ shown \in [Handlers -> {"revoked", "void", "draft", "expired", "active", None}]

LEMMA PublicStatusType ==
    \A r \in Row : PublicStatus(r) \in {"revoked", "void", "draft", "expired", "active"}
BY DEF Row, Statuses, PublicStatus

\* A handler that fails is through.
LEMMA Fails ==
    ASSUME LifeTypeOK, Scripted, NEW q \in Handlers, Running(q), Fail(q), late' = late
    PROVE  Moves(q) /\ Upcoming(q)' = "none" /\ HandlerTypes' /\ Scripted'
<1>1. /\ kind' = [kind EXCEPT ![q] = "ended"] /\ copy' = [copy EXCEPT ![q] = None]
      /\ todo' = [todo EXCEPT ![q] = <<>>] /\ shown' = shown
  BY DEF Fail, Finish
<1>2. <<>> \in Seq(HandlerSteps)
  BY EmptySeq
<1>3. HandlerTypes'
  BY <1>1, <1>2 DEF HandlerTypes, LifeTypeOK
<1>4. kind'[q] = "ended" /\ todo'[q] = <<>> /\ \A p \in Handlers \ {q} :
         kind'[p] = kind[p] /\ copy'[p] = copy[p] /\ todo'[p] = todo[p]
  BY <1>1 DEF LifeTypeOK
<1>5. Upcoming(q)' = "none"
  BY <1>4 DEF Upcoming
<1>6. Scripted'
  BY <1>1, <1>4 DEF Scripted
<1>7. QED
  BY <1>1, <1>3, <1>4, <1>5, <1>6 DEF Moves

LEMMA Proceeds ==
    ASSUME LifeTypeOK, Scripted, NEW q \in Handlers, Running(q), Proceed(q), late' = late
    PROVE  Moves(q) /\ Upcoming(q)' = After(kind[q], Upcoming(q)) /\ HandlerTypes' /\ Scripted'
<1>1. kind[q] \in Kinds /\ kind[q] \notin {"new", "ended"} /\ copy[q] \in Row
  BY Upcomes
<1>2. todo[q] \in Rests[kind[q]] /\ Upcoming(q) = Head(todo[q])
  BY <1>1 DEF Scripted, Upcoming, Running
<1>3. IsRest(kind[q], todo[q])
  BY <1>1, <1>2, RestsAre
<1>4. CASE Len(todo[q]) = 1
  <2>1. /\ kind' = [kind EXCEPT ![q] = "ended"] /\ copy' = [copy EXCEPT ![q] = None]
        /\ todo' = [todo EXCEPT ![q] = <<>>]
        /\ shown' = IF kind[q] \in {"verify", "search"} 
                      THEN [shown EXCEPT ![q] = PublicStatus(copy[q])] ELSE shown
    BY <1>4 DEF Proceed, Finish
  <2>2. <<>> \in Seq(HandlerSteps)
    BY EmptySeq
  <2>3. PublicStatus(copy[q]) \in {"revoked", "void", "draft", "expired", "active"}
    BY <1>1, PublicStatusType
  <2>4. HandlerTypes'
    BY <2>1, <2>2, <2>3 DEF HandlerTypes, LifeTypeOK
  <2>5. /\ kind'[q] = "ended" /\ todo'[q] = <<>> /\ shown'[q] \in {shown[q], PublicStatus(copy[q])}
        /\ \A p \in Handlers \ {q} :
             kind'[p] = kind[p] /\ copy'[p] = copy[p] /\ todo'[p] = todo[p] /\ shown'[p] = shown[p]
    BY <2>1 DEF LifeTypeOK
  <2>6. Upcoming(q)' = "none"
    BY <2>5 DEF Upcoming
  <2>7. After(kind[q], Upcoming(q)) = "none"
    BY <1>2, <1>3, <1>4 DEF IsRest
  <2>8. Scripted'
    BY <2>5 DEF Scripted
  <2>9. QED
    BY <2>4, <2>5, <2>6, <2>7, <2>8 DEF Moves
<1>5. CASE Len(todo[q]) # 1
  <2>1. todo' = [todo EXCEPT ![q] = Tail(todo[q])] /\ UNCHANGED <<kind, copy, shown>>
    BY <1>5 DEF Proceed
  <2>2. Tail(todo[q]) \in Rests[kind[q]] /\ Head(Tail(todo[q])) = After(kind[q], Upcoming(q))
    BY <1>2, <1>3, <1>5 DEF IsRest
  <2>3. IsRest(kind[q], Tail(todo[q]))
    BY <1>1, <2>2, RestsAre
  <2>4. Tail(todo[q]) # <<>> /\ Tail(todo[q]) \in Seq(HandlerSteps)
    BY <2>3 DEF IsRest
  <2>5. HandlerTypes'
    BY <2>1, <2>4 DEF HandlerTypes, LifeTypeOK
  <2>6. todo'[q] = Tail(todo[q]) /\ \A p \in Handlers \ {q} : todo'[p] = todo[p]
    BY <2>1 DEF LifeTypeOK
  <2>7. Upcoming(q)' = After(kind[q], Upcoming(q))
    BY <2>2, <2>4, <2>6 DEF Upcoming
  <2>8. Upcoming(q)' # "none"
    BY <2>2, <2>3, <2>7 DEF IsRest, Having
  <2>9. Scripted'
    BY <1>1, <2>1, <2>2, <2>6 DEF Scripted
  <2>10. QED
    BY <2>1, <2>5, <2>6, <2>7, <2>8, <2>9 DEF Moves
<1>6. QED
  BY <1>4, <1>5

HandlerStep(q) ==
    \/ Act(q) \/ Answer(q) \/ SaveCount(q) \/ SaveEvent(q) \/ CountUsage(q) \/ Tell(q)
    \/ Revoke(q) \/ Edit(q) \/ Delete(q) \/ Die(q)

\* The step is one the kind has, and the handler fails or goes on.
LEMMA StepIs ==
    ASSUME LifeTypeOK, Scripted, NEW q \in Handlers, HandlerStep(q)
    PROVE  /\ Running(q) /\ late' = late /\ expired' = expired /\ crossed' = crossed
           /\ \/ Fail(q) /\ (Die(q) \/ ~exists \/ Revoke(q))
              \/ Proceed(q) /\ ~Die(q)
           /\ Moves(q) /\ HandlerTypes' /\ Scripted'
           /\ Upcoming(q)' \in {"none", After(kind[q], Upcoming(q))}
           /\ Proceed(q) => Upcoming(q)' = After(kind[q], Upcoming(q))
           /\ Fail(q) => Upcoming(q)' = "none"
<1>1. Running(q) /\ late' = late /\ expired' = expired /\ crossed' = crossed
  BY DEF HandlerStep, Act, Answer, SaveCount, SaveEvent, CountUsage, Tell, Revoke, Edit, Delete, Die,
         At, rest, history
<1>2. \/ Fail(q) /\ (Die(q) \/ ~exists \/ Revoke(q))
      \/ Proceed(q) /\ ~Die(q)
  <2>1. CASE Die(q)
    BY <2>1 DEF Die
  <2>2. CASE ~Die(q)
    BY <2>2 DEF HandlerStep, Act, Answer, SaveCount, SaveEvent, CountUsage, Tell, Revoke, Edit, Delete
  <2>3. QED
    BY <2>1, <2>2
<1>3. /\ Fail(q) => Moves(q) /\ HandlerTypes' /\ Scripted' /\ Upcoming(q)' = "none"
      /\ Proceed(q) => Moves(q) /\ HandlerTypes' /\ Scripted' /\ Upcoming(q)' = After(kind[q], Upcoming(q))
  BY <1>1, Fails, Proceeds
<1>4. QED
  BY <1>1, <1>2, <1>3

\* Which kinds take a step.
LEMMA StepKinds ==
    ASSUME LifeTypeOK, Scripted, NEW q \in Handlers
    PROVE  /\ Act(q) => (kind[q] = "verify" /\ Upcoming(q) = "record") \/ (kind[q] = "mail" /\ Upcoming(q) = "send")
           /\ Answer(q) => kind[q] = "search" /\ Upcoming(q) = "answer"
           /\ SaveCount(q) => kind[q] \in {"verify", "pdf"} /\ Upcoming(q) = "count"
           /\ SaveEvent(q) => kind[q] \in {"verify", "pdf", "mail"} /\ Upcoming(q) = "event"
           /\ CountUsage(q) => kind[q] \in {"verify", "mail"} /\ Upcoming(q) = "usage"
           /\ Tell(q) => kind[q] \in {"verify", "mail", "revoke"} /\ Upcoming(q) = "tell"
           /\ Revoke(q) => kind[q] = "revoke" /\ Upcoming(q) = "revoke"
           /\ Edit(q) => kind[q] \in {"edit", "restate"} /\ Upcoming(q) = "save"
           /\ Delete(q) => kind[q] = "delete" /\ Upcoming(q) = "delete"
<1>1. \A s \in HandlerSteps : At(q, s) => Upcoming(q) = s /\ kind[q] \in Having(s)
  BY Upcomes DEF At
<1>2. Act(q) => (kind[q] = "verify" /\ Upcoming(q) = "record") \/ (kind[q] = "mail" /\ Upcoming(q) = "send")
  BY <1>1 DEF Act, HandlerSteps, Having
<1>3. Answer(q) => kind[q] = "search" /\ Upcoming(q) = "answer"
  BY <1>1 DEF Answer, HandlerSteps, Having
<1>4. SaveCount(q) => kind[q] \in {"verify", "pdf"} /\ Upcoming(q) = "count"
  BY <1>1 DEF SaveCount, HandlerSteps, Having
<1>5. SaveEvent(q) => kind[q] \in {"verify", "pdf", "mail"} /\ Upcoming(q) = "event"
  BY <1>1 DEF SaveEvent, HandlerSteps, Having
<1>6. CountUsage(q) => kind[q] \in {"verify", "mail"} /\ Upcoming(q) = "usage"
  BY <1>1 DEF CountUsage, HandlerSteps, Having
<1>7. Tell(q) => kind[q] \in {"verify", "mail", "revoke"} /\ Upcoming(q) = "tell"
  BY <1>1 DEF Tell, HandlerSteps, Having
<1>8. Revoke(q) => kind[q] = "revoke" /\ Upcoming(q) = "revoke"
  BY <1>1 DEF Revoke, HandlerSteps, Having
<1>9. Edit(q) => kind[q] \in {"edit", "restate"} /\ Upcoming(q) = "save"
  BY <1>1 DEF Edit, HandlerSteps, Having
<1>10. Delete(q) => kind[q] = "delete" /\ Upcoming(q) = "delete"
  BY <1>1 DEF Delete, HandlerSteps, Having
<1>11. QED
  BY <1>2, <1>3, <1>4, <1>5, <1>6, <1>7, <1>8, <1>9, <1>10

LEMMA BumpType ==
    ASSUME NEW r \in Row, NEW old \in Row, NEW k
    PROVE  /\ Bump(r, k, old) \in Row /\ Bump(r, k, old).status = r.status
           /\ Bump(r, k, old).content = r.content
           /\ Bump(r, k, old).views = IF k = "verify" THEN old.views + 1 ELSE r.views
           /\ Bump(r, k, old).downloads = IF k = "verify" THEN r.downloads ELSE old.downloads + 1
<1>1. old.views + 1 \in Nat /\ old.downloads + 1 \in Nat
  <2>1. old.views \in Nat /\ old.downloads \in Nat
    BY DEF Row
  <2>2. QED
    BY <2>1
<1>2. \A n \in Nat : [r EXCEPT !.views = n] \in Row /\ [r EXCEPT !.downloads = n] \in Row
  BY DEF Row
<1>3. CASE k = "verify"
  <2>1. Bump(r, k, old) = [r EXCEPT !.views = old.views + 1]
    BY <1>3 DEF Bump
  <2>2. QED
    BY <1>1, <1>2, <1>3, <2>1 DEF Row
<1>4. CASE k # "verify"
  <2>1. Bump(r, k, old) = [r EXCEPT !.downloads = old.downloads + 1]
    BY <1>4 DEF Bump
  <2>2. QED
    BY <1>1, <1>2, <1>4, <2>1 DEF Row
<1>5. QED
  BY <1>3, <1>4

LEMMA StepTypes ==
    ASSUME LifeAssumption, LifeTypeOK, Scripted, NEW q \in Handlers, HandlerStep(q)
    PROVE  LifeTypeOK'
<1>1. /\ Running(q) /\ late' = late /\ expired' = expired /\ crossed' = crossed /\ HandlerTypes'
      /\ copy[q] \in Row
  BY StepIs, Upcomes
<1>2. row' \in Row
  <2>1. CASE SaveCount(q)
    <3>1. row' = Bump(row, kind[q], copy[q]) \/ row' = row
      BY <2>1 DEF SaveCount
    <3>2. QED
      BY <1>1, <3>1, BumpType DEF LifeTypeOK
  <2>2. CASE Revoke(q)
    BY <2>2 DEF Revoke, LifeTypeOK, Row, Statuses
  <2>3. CASE Edit(q)
    <3>1. PICK s \in Statuses \cup {copy[q].status}, c \in {"changed", copy[q].content} :
             row' = [copy[q] EXCEPT !.status = s, !.content = c]
      BY <2>3 DEF Edit
    <3>2. s \in Statuses /\ c \in {"as issued", "changed"}
      BY <1>1 DEF Row
    <3>3. QED
      BY <1>1, <3>1, <3>2 DEF Row
  <2>4. CASE ~SaveCount(q) /\ ~Revoke(q) /\ ~Edit(q)
    BY <2>4 DEF HandlerStep, Act, Answer, SaveEvent, CountUsage, Tell, Delete, Die, LifeTypeOK
  <2>5. QED
    BY <2>1, <2>2, <2>3, <2>4
<1>3. /\ acts' \in [{"verify", "mail"} -> Nat]
      /\ usage' \in [{"verify", "mail"} -> Nat]
  <2>1. CASE Act(q)
    <3>1. kind[q] \in {"verify", "mail"}
      BY <2>1, StepKinds
    <3>2. usage' = usage /\ acts' = [acts EXCEPT ![kind[q]] = acts[kind[q]] + 1]
      BY <2>1 DEF Act
    <3>3. QED
      BY <3>1, <3>2 DEF LifeTypeOK
  <2>2. CASE CountUsage(q)
    <3>1. kind[q] \in {"verify", "mail"}
      BY <2>2, StepKinds
    <3>2. acts' = acts /\ usage' = [usage EXCEPT ![kind[q]] = usage[kind[q]] + 1]
      BY <2>2 DEF CountUsage
    <3>3. QED
      BY <3>1, <3>2 DEF LifeTypeOK
  <2>3. CASE ~Act(q) /\ ~CountUsage(q)
    <3>1. acts' = acts /\ usage' = usage
      BY <2>3 DEF HandlerStep, Answer, SaveCount, SaveEvent, Tell, Revoke, Edit, Delete, Die
    <3>2. QED
      BY <3>1 DEF LifeTypeOK
  <2>4. QED
    BY <2>1, <2>2, <2>3
<1>4. events' \in [{"verify", "pdf", "mail", "revoke"} -> Nat]
  <2>1. CASE SaveEvent(q)
    <3>1. kind[q] \in {"verify", "pdf", "mail"}
      BY <2>1, StepKinds
    <3>2. events' = events \/ events' = [events EXCEPT ![kind[q]] = events[kind[q]] + 1]
      BY <2>1 DEF SaveEvent
    <3>3. events[kind[q]] + 1 \in Nat
      BY <3>1 DEF LifeTypeOK
    <3>4. QED
      BY <3>1, <3>2, <3>3 DEF LifeTypeOK
  <2>2. CASE Revoke(q)
    <3>1. events' = events \/ events' = [events EXCEPT !["revoke"] = events["revoke"] + 1]
      BY <2>2 DEF Revoke
    <3>2. QED
      BY <3>1 DEF LifeTypeOK
  <2>3. CASE Delete(q)
    BY <2>3 DEF Delete, LifeTypeOK
  <2>4. CASE ~SaveEvent(q) /\ ~Revoke(q) /\ ~Delete(q)
    <3>1. events' = events
      BY <2>4 DEF HandlerStep, Act, Answer, SaveCount, CountUsage, Tell, Edit, Die
    <3>2. QED
      BY <3>1 DEF LifeTypeOK
  <2>5. QED
    BY <2>1, <2>2, <2>3, <2>4
<1>5. told' \in [{"verify", "mail", "revoke"} -> Nat]
  <2>1. CASE Tell(q)
    <3>1. kind[q] \in {"verify", "mail", "revoke"}
      BY <2>1, StepKinds
    <3>2. told' = [told EXCEPT ![kind[q]] = told[kind[q]] + 1]
      BY <2>1 DEF Tell
    <3>3. QED
      BY <3>1, <3>2 DEF LifeTypeOK
  <2>2. CASE ~Tell(q)
    <3>1. told' = told
      BY <2>2 DEF HandlerStep, Act, Answer, SaveCount, SaveEvent, CountUsage, Revoke, Edit, Delete, Die
    <3>2. QED
      BY <3>1 DEF LifeTypeOK
  <2>3. QED
    BY <2>1, <2>2
<1>6. exists' \in BOOLEAN /\ edited' \in BOOLEAN /\ deleted' \in BOOLEAN
  BY Zenon DEF HandlerStep, Act, Answer, SaveCount, SaveEvent, CountUsage, Tell, Revoke, Edit, Delete, Die,
               LifeTypeOK, rest, history
<1>7. deaths' \in 0..MaxDeaths
  <2>1. deaths' = deaths \/ (deaths < MaxDeaths /\ deaths' = deaths + 1)
    BY Zenon DEF HandlerStep, Act, Answer, SaveCount, SaveEvent, CountUsage, Tell, Revoke, Edit,
       Delete, Die, rest
  <2>2. deaths \in Nat /\ deaths <= MaxDeaths /\ MaxDeaths \in Nat
    BY DEF LifeTypeOK, LifeAssumption
  <2>3. QED
    BY <2>1, <2>2
<1>8. QED
  BY <1>1, <1>2, <1>3, <1>4, <1>5, <1>6, <1>7 DEF LifeTypeOK, HandlerTypes

\* The handlers between two steps change by the one that moves.
LEMMA Moved ==
    ASSUME LifeAssumption, LifeTypeOK, Scripted, NEW q \in Handlers, HandlerStep(q),
           NEW k \in Kinds, NEW S \in SUBSET HandlerSteps
    PROVE  /\ Cardinality(AtSteps(k, S)) \in Nat /\ Cardinality(AtSteps(k, S))' \in Nat
           /\ kind[q] # k \/ (Upcoming(q) \in S <=> Upcoming(q)' \in S) =>
                 Cardinality(AtSteps(k, S))' = Cardinality(AtSteps(k, S))
           /\ kind[q] = k /\ Upcoming(q) \in S /\ Upcoming(q)' \notin S =>
                 Cardinality(AtSteps(k, S))' = Cardinality(AtSteps(k, S)) - 1
           /\ kind[q] = k /\ Upcoming(q) \notin S /\ Upcoming(q)' \in S =>
                 Cardinality(AtSteps(k, S))' = Cardinality(AtSteps(k, S)) + 1
<1>1. AtSteps(k, S) \subseteq Handlers /\ AtSteps(k, S)' \subseteq Handlers
  BY DEF AtSteps
<1>2. IsFiniteSet(AtSteps(k, S)) /\ IsFiniteSet(AtSteps(k, S)')
  BY <1>1, FS_Subset DEF LifeAssumption
<1>3. Cardinality(AtSteps(k, S)) \in Nat /\ Cardinality(AtSteps(k, S)') \in Nat
  BY <1>2, FS_CardinalityType
<1>4. Moves(q) /\ "none" \notin S /\ k # "ended"
  BY StepIs DEF HandlerSteps, Kinds, Script
<1>5. \A p \in Handlers \ {q} : kind'[p] = kind[p] /\ Upcoming(p)' = Upcoming(p)
  BY <1>4 DEF Moves, Upcoming
<1>6. \A p \in Handlers \ {q} : p \in AtSteps(k, S)' <=> p \in AtSteps(k, S)
  BY <1>5 DEF AtSteps
<1>7. q \in AtSteps(k, S) <=> kind[q] = k /\ Upcoming(q) \in S
  BY DEF AtSteps
<1>8. q \in AtSteps(k, S)' <=> kind[q] = k /\ Upcoming(q)' \in S
  <2>1. q \in AtSteps(k, S)' <=> kind'[q] = k /\ Upcoming(q)' \in S
    BY DEF AtSteps
  <2>2. Upcoming(q)' # "none" => kind'[q] = kind[q]
    BY <1>4 DEF Moves
  <2>3. QED
    BY <1>4, <2>1, <2>2
<1>9. kind[q] # k \/ (Upcoming(q) \in S <=> Upcoming(q)' \in S) => AtSteps(k, S)' = AtSteps(k, S)
  <2>1. kind[q] # k \/ (Upcoming(q) \in S <=> Upcoming(q)' \in S) => (q \in AtSteps(k, S)' <=> q \in AtSteps(k, S))
    BY <1>7, <1>8
  <2>2. (q \in AtSteps(k, S)' <=> q \in AtSteps(k, S)) => AtSteps(k, S)' = AtSteps(k, S)
    BY <1>1, <1>6
  <2>3. QED
    BY <2>1, <2>2
<1>10. ASSUME kind[q] = k, Upcoming(q) \in S, Upcoming(q)' \notin S
       PROVE  Cardinality(AtSteps(k, S)') = Cardinality(AtSteps(k, S)) - 1
  <2>1. q \in AtSteps(k, S) /\ q \notin AtSteps(k, S)'
    BY <1>7, <1>8, <1>10
  <2>2. AtSteps(k, S)' = AtSteps(k, S) \ {q}
    BY <1>1, <1>6, <2>1
  <2>3. QED
    BY <1>2, <2>1, <2>2, FS_RemoveElement
<1>11. ASSUME kind[q] = k, Upcoming(q) \notin S, Upcoming(q)' \in S
       PROVE  Cardinality(AtSteps(k, S)') = Cardinality(AtSteps(k, S)) + 1
  <2>1. q \notin AtSteps(k, S) /\ q \in AtSteps(k, S)'
    BY <1>7, <1>8, <1>11
  <2>2. AtSteps(k, S)' = AtSteps(k, S) \cup {q}
    BY <1>1, <1>6, <2>1
  <2>3. QED
    BY <1>2, <2>1, <2>2, FS_AddElement
<1>12. Cardinality(AtSteps(k, S))' = Cardinality(AtSteps(k, S)')
  OBVIOUS
<1>13. QED
  BY <1>3, <1>9, <1>10, <1>11, <1>12

-----------------------------------------------------------------------------
(* The trail of a verification and of an e-mail                              *)

\* What a step does to the trail of the kinds other than its own.
LEMMA OtherTrails ==
    ASSUME LifeTypeOK, Scripted, NEW q \in Handlers, HandlerStep(q), ~Delete(q),
           NEW k \in {"verify", "mail"}, kind[q] # k
    PROVE  acts'[k] = acts[k] /\ events'[k] = events[k] /\ usage'[k] = usage[k] /\ told'[k] = told[k]
<1>1. CASE Act(q)
  BY <1>1, StepKinds DEF Act, LifeTypeOK
<1>2. CASE SaveEvent(q)
  BY <1>2, StepKinds DEF SaveEvent, LifeTypeOK
<1>3. CASE CountUsage(q)
  BY <1>3, StepKinds DEF CountUsage, LifeTypeOK
<1>4. CASE Tell(q)
  BY <1>4, StepKinds DEF Tell, LifeTypeOK
<1>5. CASE Revoke(q)
  BY <1>5 DEF Revoke, LifeTypeOK
<1>6. CASE ~Act(q) /\ ~SaveEvent(q) /\ ~CountUsage(q) /\ ~Tell(q) /\ ~Revoke(q)
  BY <1>6 DEF HandlerStep, Answer, SaveCount, Edit, Die
<1>7. QED
  BY <1>1, <1>2, <1>3, <1>4, <1>5, <1>6

\* A row that was never deleted is there, and a step that writes finds it.
LEMMA RowStays ==
    ASSUME LifeTypeOK, Scripted, TrailKept, NEW q \in Handlers, HandlerStep(q), ~deleted'
    PROVE  /\ ~deleted /\ exists /\ exists' /\ ~Delete(q)
           /\ deaths' = IF Die(q) THEN deaths + 1 ELSE deaths
<1>1. ~Delete(q) /\ deleted' = deleted
  <2>1. ~Delete(q)
    BY DEF Delete
  <2>2. QED
    BY <2>1 DEF HandlerStep, Act, Answer, SaveCount, SaveEvent, CountUsage, Tell, Revoke, Edit, Die, history
<1>2. ~deleted /\ exists
  BY <1>1 DEF TrailKept
<1>3. exists'
  BY <1>1, <1>2 DEF HandlerStep, Act, Answer, SaveCount, SaveEvent, CountUsage, Tell, Revoke, Edit, Die
<1>4. deaths' = IF Die(q) THEN deaths + 1 ELSE deaths
  <2>1. ~Die(q) => deaths' = deaths
    BY <1>1 DEF HandlerStep, Act, Answer, SaveCount, SaveEvent, CountUsage, Tell, Revoke, Edit, rest
  <2>2. Die(q) => deaths' = deaths + 1
    BY DEF Die
  <2>3. QED
    BY <2>1, <2>2
<1>5. QED
  BY <1>1, <1>2, <1>3, <1>4

LEMMA TrailStep ==
    ASSUME LifeAssumption, LifeTypeOK, Scripted, TrailKept, NEW q \in Handlers, HandlerStep(q)
    PROVE  TrailKept'
<1> SUFFICES ASSUME ~deleted'
             PROVE  /\ exists'
                    /\ \A k \in {"verify", "mail"} :
                         /\ Ahead(acts[k], events[k], AtSteps(k, {"count", "event"}))'
                         /\ Ahead(events[k], usage[k], AtSteps(k, {"usage"}))'
                         /\ Ahead(usage[k], told[k], AtSteps(k, {"tell"}))'
  BY DEF TrailKept
<1>1. /\ ~deleted /\ exists /\ exists' /\ ~Delete(q)
      /\ deaths' = IF Die(q) THEN deaths + 1 ELSE deaths
  BY RowStays
<1>2. deaths \in Nat /\ (deaths' = 0 => deaths = 0 /\ ~Die(q))
  BY <1>1 DEF LifeTypeOK, LifeAssumption
<1>3. ASSUME NEW k \in {"verify", "mail"}
      PROVE  /\ Ahead(acts[k], events[k], AtSteps(k, {"count", "event"}))'
             /\ Ahead(events[k], usage[k], AtSteps(k, {"usage"}))'
             /\ Ahead(usage[k], told[k], AtSteps(k, {"tell"}))'
  <2>1. /\ acts[k] \in Nat /\ events[k] \in Nat /\ usage[k] \in Nat /\ told[k] \in Nat /\ k \in Kinds
        /\ {"count", "event"} \in SUBSET HandlerSteps /\ {"usage"} \in SUBSET HandlerSteps
        /\ {"tell"} \in SUBSET HandlerSteps
    BY DEF LifeTypeOK, HandlerSteps, Kinds, Script
  <2>2. /\ events[k] + Cardinality(AtSteps(k, {"count", "event"})) <= acts[k]
        /\ usage[k] + Cardinality(AtSteps(k, {"usage"})) <= events[k]
        /\ told[k] + Cardinality(AtSteps(k, {"tell"})) <= usage[k]
        /\ deaths = 0 =>
             /\ events[k] + Cardinality(AtSteps(k, {"count", "event"})) = acts[k]
             /\ usage[k] + Cardinality(AtSteps(k, {"usage"})) = events[k]
             /\ told[k] + Cardinality(AtSteps(k, {"tell"})) = usage[k]
    BY <1>1 DEF TrailKept, Ahead
  <2>3. \A S \in {{"count", "event"}, {"usage"}, {"tell"}} :
           /\ Cardinality(AtSteps(k, S)) \in Nat /\ Cardinality(AtSteps(k, S))' \in Nat
           /\ kind[q] # k \/ (Upcoming(q) \in S <=> Upcoming(q)' \in S) =>
                 Cardinality(AtSteps(k, S))' = Cardinality(AtSteps(k, S))
           /\ kind[q] = k /\ Upcoming(q) \in S /\ Upcoming(q)' \notin S =>
                 Cardinality(AtSteps(k, S))' = Cardinality(AtSteps(k, S)) - 1
           /\ kind[q] = k /\ Upcoming(q) \notin S /\ Upcoming(q)' \in S =>
                 Cardinality(AtSteps(k, S))' = Cardinality(AtSteps(k, S)) + 1
    BY <2>1, Moved
  <2>4. SUFFICES
           /\ events'[k] + Cardinality(AtSteps(k, {"count", "event"}))' <= acts'[k]
           /\ usage'[k] + Cardinality(AtSteps(k, {"usage"}))' <= events'[k]
           /\ told'[k] + Cardinality(AtSteps(k, {"tell"}))' <= usage'[k]
           /\ deaths' = 0 =>
                /\ events'[k] + Cardinality(AtSteps(k, {"count", "event"}))' = acts'[k]
                /\ usage'[k] + Cardinality(AtSteps(k, {"usage"}))' = events'[k]
                /\ told'[k] + Cardinality(AtSteps(k, {"tell"}))' = usage'[k]
    BY DEF Ahead
  <2>5. CASE kind[q] # k
    <3>1. acts'[k] = acts[k] /\ events'[k] = events[k] /\ usage'[k] = usage[k] /\ told'[k] = told[k]
      BY <1>1, <2>5, OtherTrails
    <3>2. \A S \in {{"count", "event"}, {"usage"}, {"tell"}} :
             Cardinality(AtSteps(k, S))' = Cardinality(AtSteps(k, S))
      BY <2>3, <2>5
    <3>3. QED
      BY <1>2, <2>2, <3>1, <3>2
  <2>6. CASE kind[q] = k
    <3>1. \/ Die(q)
          \/ Act(q) /\ Upcoming(q) \in {"record", "send"} /\ Upcoming(q)' \in {"count", "event"}
          \/ SaveCount(q) /\ Upcoming(q) = "count" /\ Upcoming(q)' = "event"
          \/ SaveEvent(q) /\ Upcoming(q) = "event" /\ Upcoming(q)' = "usage"
          \/ CountUsage(q) /\ Upcoming(q) = "usage" /\ Upcoming(q)' = "tell"
          \/ Tell(q) /\ Upcoming(q) = "tell" /\ Upcoming(q)' = "none"
      <4>1. ~Die(q) => ~Revoke(q) /\ ~Edit(q) /\ ~Answer(q)
        BY <2>6, StepKinds
      <4>2. ~Die(q) => Upcoming(q)' = After(kind[q], Upcoming(q))
        BY <1>1, <4>1, StepIs
      <4>3. QED
        BY <1>1, <2>6, <4>1, <4>2, StepKinds DEF HandlerStep, After
    <3>2. CASE Die(q)
      <4>1. UNCHANGED <<acts, events, usage, told>> /\ Upcoming(q)' = "none"
        BY <3>2, StepIs DEF Die
      <4>2. \A S \in {{"count", "event"}, {"usage"}, {"tell"}} :
               Cardinality(AtSteps(k, S))' <= Cardinality(AtSteps(k, S))
        <5>1. TAKE S \in {{"count", "event"}, {"usage"}, {"tell"}}
        <5>2. /\ Cardinality(AtSteps(k, S)) \in Nat
              /\ \/ Cardinality(AtSteps(k, S))' = Cardinality(AtSteps(k, S))
                 \/ Cardinality(AtSteps(k, S))' = Cardinality(AtSteps(k, S)) - 1
          BY <2>3, <2>6, <4>1
        <5>3. QED
          BY <5>2
      <4>3. deaths' # 0
        BY <1>2, <3>2
      <4>4. /\ acts'[k] = acts[k] /\ events'[k] = events[k] /\ usage'[k] = usage[k] /\ told'[k] = told[k]
        BY <4>1
      <4>5. /\ Cardinality(AtSteps(k, {"count", "event"}))' <= Cardinality(AtSteps(k, {"count", "event"}))
            /\ Cardinality(AtSteps(k, {"usage"}))' <= Cardinality(AtSteps(k, {"usage"}))
            /\ Cardinality(AtSteps(k, {"tell"}))' <= Cardinality(AtSteps(k, {"tell"}))
        BY <4>2
      <4>6. QED
        BY <2>1, <2>2, <2>3, <4>3, <4>4, <4>5
    <3>3. CASE Act(q) /\ Upcoming(q) \in {"record", "send"} /\ Upcoming(q)' \in {"count", "event"}
      <4>1. /\ acts'[k] = acts[k] + 1 /\ events'[k] = events[k] /\ usage'[k] = usage[k] /\ told'[k] = told[k]
        BY <2>6, <3>3 DEF Act, LifeTypeOK
      <4>2. Cardinality(AtSteps(k, {"count", "event"}))' = Cardinality(AtSteps(k, {"count", "event"})) + 1
        BY <2>3, <2>6, <3>3
      <4>3. \A S \in {{"usage"}, {"tell"}} : Cardinality(AtSteps(k, S))' = Cardinality(AtSteps(k, S))
        BY <2>3, <2>6, <3>3
      <4>4. QED
        BY <1>2, <2>1, <2>2, <2>3, <4>1, <4>2, <4>3
    <3>4. CASE SaveCount(q) /\ Upcoming(q) = "count" /\ Upcoming(q)' = "event"
      <4>1. /\ acts'[k] = acts[k] /\ events'[k] = events[k] /\ usage'[k] = usage[k] /\ told'[k] = told[k]
        BY <3>4 DEF SaveCount
      <4>2. \A S \in {{"count", "event"}, {"usage"}, {"tell"}} :
               Cardinality(AtSteps(k, S))' = Cardinality(AtSteps(k, S))
        BY <2>3, <2>6, <3>4
      <4>3. QED
        BY <1>2, <2>1, <2>2, <2>3, <4>1, <4>2
    <3>5. CASE SaveEvent(q) /\ Upcoming(q) = "event" /\ Upcoming(q)' = "usage"
      <4>1. /\ acts'[k] = acts[k] /\ events'[k] = events[k] + 1 /\ usage'[k] = usage[k] /\ told'[k] = told[k]
        BY <1>1, <2>6, <3>5 DEF SaveEvent, LifeTypeOK
      <4>2. Cardinality(AtSteps(k, {"count", "event"}))' = Cardinality(AtSteps(k, {"count", "event"})) - 1
        BY <2>3, <2>6, <3>5
      <4>3. Cardinality(AtSteps(k, {"usage"}))' = Cardinality(AtSteps(k, {"usage"})) + 1
        BY <2>3, <2>6, <3>5
      <4>4. Cardinality(AtSteps(k, {"tell"}))' = Cardinality(AtSteps(k, {"tell"}))
        BY <2>3, <2>6, <3>5
      <4>5. QED
        BY <1>2, <2>1, <2>2, <2>3, <4>1, <4>2, <4>3, <4>4
    <3>6. CASE CountUsage(q) /\ Upcoming(q) = "usage" /\ Upcoming(q)' = "tell"
      <4>1. /\ acts'[k] = acts[k] /\ events'[k] = events[k] /\ usage'[k] = usage[k] + 1 /\ told'[k] = told[k]
        BY <2>6, <3>6 DEF CountUsage, LifeTypeOK
      <4>2. Cardinality(AtSteps(k, {"usage"}))' = Cardinality(AtSteps(k, {"usage"})) - 1
        BY <2>3, <2>6, <3>6
      <4>3. Cardinality(AtSteps(k, {"tell"}))' = Cardinality(AtSteps(k, {"tell"})) + 1
        BY <2>3, <2>6, <3>6
      <4>4. Cardinality(AtSteps(k, {"count", "event"}))' = Cardinality(AtSteps(k, {"count", "event"}))
        BY <2>3, <2>6, <3>6
      <4>5. QED
        BY <1>2, <2>1, <2>2, <2>3, <4>1, <4>2, <4>3, <4>4
    <3>7. CASE Tell(q) /\ Upcoming(q) = "tell" /\ Upcoming(q)' = "none"
      <4>1. /\ acts'[k] = acts[k] /\ events'[k] = events[k] /\ usage'[k] = usage[k] /\ told'[k] = told[k] + 1
        BY <2>6, <3>7 DEF Tell, LifeTypeOK
      <4>2. Cardinality(AtSteps(k, {"tell"}))' = Cardinality(AtSteps(k, {"tell"})) - 1
        BY <2>3, <2>6, <3>7
      <4>3. \A S \in {{"count", "event"}, {"usage"}} : Cardinality(AtSteps(k, S))' = Cardinality(AtSteps(k, S))
        BY <2>3, <2>6, <3>7
      <4>4. QED
        BY <1>2, <2>1, <2>2, <2>3, <4>1, <4>2, <4>3
    <3>8. QED
      BY <3>1, <3>2, <3>3, <3>4, <3>5, <3>6, <3>7
  <2>7. QED
    BY <2>5, <2>6
<1>4. QED
  BY <1>1, <1>3

-----------------------------------------------------------------------------
(* What is shown, and what nobody crosses                                    *)

LEMMA LateStep ==
    ASSUME LifeTypeOK, Scripted, LateKept, NEW q \in Handlers, HandlerStep(q)
    PROVE  LateKept'
<1>1. Moves(q) /\ late' = late /\ Running(q)
  BY StepIs
<1>2. SUFFICES ASSUME NEW p \in late
               PROVE  /\ shown'[p] # None => shown'[p] = "revoked"
                      /\ Running(p)' => copy'[p].status = "revoked"
  BY <1>1 DEF LateKept
<1>3. p \in Handlers
  BY DEF LifeTypeOK
<1>4. CASE p # q
  BY <1>1, <1>3, <1>4 DEF Moves, LateKept, Running
<1>5. CASE p = q /\ Upcoming(q)' # "none"
  BY <1>1, <1>5 DEF Moves, LateKept
<1>6. CASE p = q /\ Upcoming(q)' = "none"
  <2>1. PublicStatus(copy[q]) = "revoked"
    BY <1>1, <1>6 DEF LateKept, PublicStatus
  <2>2. shown'[q] = shown[q] \/ shown'[q] = "revoked"
    BY <1>1, <1>6, <2>1 DEF Moves
  <2>3. ~Running(q)'
    BY <1>1, <1>6 DEF Moves, Running
  <2>4. QED
    BY <1>6, <2>2, <2>3 DEF LateKept
<1>7. QED
  BY <1>4, <1>5, <1>6

\* What a step does to the columns of the row.
LEMMA RowStep ==
    ASSUME LifeTypeOK, Scripted, NEW q \in Handlers, HandlerStep(q), ~Edit(q)
    PROVE  /\ row'.status = row.status \/ (Revoke(q) /\ row'.status = "revoked")
           /\ ~SaveCount(q) => row'.views = row.views /\ row'.downloads = row.downloads
<1>1. CASE SaveCount(q)
  <2>1. copy[q] \in Row /\ row \in Row
    BY <1>1, Upcomes DEF LifeTypeOK, SaveCount, At
  <2>2. row' = Bump(row, kind[q], copy[q]) \/ row' = row
    BY <1>1 DEF SaveCount
  <2>3. row'.status = row.status
    BY <2>1, <2>2, BumpType
  <2>4. QED
    BY <1>1, <2>3
<1>2. CASE Revoke(q)
  <2>1. row \in Row
    BY DEF LifeTypeOK
  <2>2. row' = row \/ row' = [row EXCEPT !.status = "revoked"]
    BY <1>2 DEF Revoke
  <2>3. QED
    BY <1>2, <2>1, <2>2 DEF Row
<1>3. CASE ~SaveCount(q) /\ ~Revoke(q)
  <2>1. row' = row
    BY <1>3 DEF HandlerStep, Act, Answer, SaveEvent, CountUsage, Tell, Delete, Die
  <2>2. QED
    BY <2>1
<1>4. QED
  BY <1>1, <1>2, <1>3

\* A handler of which no other is in the way, until its step is over.
LEMMA AloneStep ==
    ASSUME LifeTypeOK, Scripted, Uncrossed, NEW q \in Handlers, HandlerStep(q), ~crossed', ~edited'
    PROVE  /\ ~crossed /\ ~edited /\ ~Edit(q) /\ Running(q)
           /\ \A p \in Handlers : Running(p) => p = q
           /\ \A p \in Handlers : Upcoming(p)' # "none" => p = q
           /\ \A p \in Handlers : Running(p)' => p = q
<1>1. Moves(q) /\ crossed' = crossed /\ Running(q)
  BY StepIs
<1>2. ~Edit(q)
  BY DEF Edit
<1>3. edited' = edited
  BY <1>2 DEF HandlerStep, Act, Answer, SaveCount, SaveEvent, CountUsage, Tell, Revoke, Delete,
     Die, rest, history
<1>4. \A p \in Handlers : Running(p) => p = q
  BY <1>1, <1>3 DEF Uncrossed
<1>5. \A p \in Handlers : p # q => todo[p] = <<>> /\ todo'[p] = <<>>
  BY <1>1, <1>4 DEF Running, Moves
<1>6. \A p \in Handlers : p # q => Upcoming(p)' = "none" /\ ~Running(p)'
  BY <1>5 DEF Upcoming, Running
<1>7. QED
  BY <1>1, <1>2, <1>3, <1>4, <1>6

LEMMA UncrossedStep ==
    ASSUME LifeTypeOK, Scripted, Uncrossed, NEW q \in Handlers, HandlerStep(q)
    PROVE  Uncrossed'
<1> SUFFICES ASSUME ~crossed', ~edited'
             PROVE  /\ \A p, r \in Handlers : Running(p)' /\ Running(r)' => p = r
                    /\ events'["revoke"] <= 1
                    /\ events'["revoke"] = 1 => row'.status = "revoked"
                    /\ \A p \in Handlers : Upcoming(p)' = "revoke" => copy'[p].status = row'.status
  BY DEF Uncrossed
<1>1. /\ ~crossed /\ ~edited /\ ~Edit(q)
      /\ \A p \in Handlers : Upcoming(p)' # "none" => p = q
      /\ \A p \in Handlers : Running(p)' => p = q
  BY AloneStep
<1>2. Upcoming(q)' # "revoke"
  BY StepIs DEF After
<1>3. row'.status = row.status \/ (Revoke(q) /\ row'.status = "revoked")
  BY <1>1, RowStep
<1>4. events["revoke"] <= 1 /\ (events["revoke"] = 1 => row.status = "revoked") /\ events["revoke"] \in Nat
  BY <1>1 DEF Uncrossed, LifeTypeOK
<1>5. events'["revoke"] <= 1 /\ (events'["revoke"] = 1 => row'.status = "revoked")
  <2>1. CASE Revoke(q)
    <3>1. Upcoming(q) = "revoke"
      BY <2>1, StepKinds
    <3>2. copy[q].status = row.status
      BY <1>1, <3>1 DEF Uncrossed
    <3>3. CASE events' = events
      BY <1>3, <1>4, <3>3
    <3>4. CASE events' # events
      <4>1. row.status # "revoked"
        BY <2>1, <3>2, <3>4 DEF Revoke
      <4>2. events["revoke"] = 0
        BY <1>4, <4>1
      <4>3. events' = [events EXCEPT !["revoke"] = events["revoke"] + 1] /\ row' = [row EXCEPT !.status = "revoked"]
        BY <2>1, <3>4 DEF Revoke
      <4>4. events'["revoke"] = 1
        BY <4>2, <4>3 DEF LifeTypeOK
      <4>5. row'.status = "revoked"
        BY <4>3 DEF LifeTypeOK, Row
      <4>6. QED
        BY <4>4, <4>5
    <3>5. QED
      BY <3>3, <3>4
  <2>2. CASE Delete(q)
    BY <2>2 DEF Delete, LifeTypeOK
  <2>3. CASE SaveEvent(q)
    <3>1. kind[q] # "revoke"
      BY <2>3, StepKinds
    <3>2. events'["revoke"] = events["revoke"]
      BY <2>3, <3>1 DEF SaveEvent, LifeTypeOK
    <3>3. ~Revoke(q)
      BY <3>1, StepKinds
    <3>4. QED
      BY <1>3, <1>4, <3>2, <3>3
  <2>4. CASE ~Revoke(q) /\ ~Delete(q) /\ ~SaveEvent(q)
    <3>1. events' = events
      BY <1>1, <2>4 DEF HandlerStep, Act, Answer, SaveCount, CountUsage, Tell, Die
    <3>2. QED
      BY <1>3, <1>4, <2>4, <3>1
  <2>5. QED
    BY <2>1, <2>2, <2>3, <2>4
<1>6. \A p \in Handlers : Upcoming(p)' = "revoke" => copy'[p].status = row'.status
  BY <1>1, <1>2
<1>7. QED
  BY <1>1, <1>5, <1>6

-----------------------------------------------------------------------------
(* The counters on the row                                                   *)

\* What the only handler under way has counted and not yet recorded.
LEMMA UneventfulIs ==
    ASSUME NEW q \in Handlers, NEW k \in Kinds
    PROVE  /\ (\A p \in Handlers : Running(p) => p = q) =>
                 Uneventful(k) = IF kind[q] = k /\ Upcoming(q) = "event" THEN 1 ELSE 0
           /\ (\A p \in Handlers : Upcoming(p)' # "none" => p = q) =>
                 Uneventful(k)' = IF kind'[q] = k /\ Upcoming(q)' = "event" THEN 1 ELSE 0
<1>1. ASSUME \A p \in Handlers : Running(p) => p = q
      PROVE  Uneventful(k) = IF kind[q] = k /\ Upcoming(q) = "event" THEN 1 ELSE 0
  <2>1. \A p \in Handlers : Upcoming(p) = "event" => p = q
    BY <1>1 DEF Running, Upcoming
  <2>2. QED
    BY <2>1 DEF Uneventful
<1>2. ASSUME \A p \in Handlers : Upcoming(p)' # "none" => p = q
      PROVE  Uneventful(k)' = IF kind'[q] = k /\ Upcoming(q)' = "event" THEN 1 ELSE 0
  <2>1. \A p \in Handlers : Upcoming(p)' = "event" => p = q
    BY <1>2
  <2>2. QED
    BY <2>1 DEF Uneventful
<1>3. QED
  BY <1>1, <1>2

LEMMA CountersStep ==
    ASSUME LifeAssumption, LifeTypeOK, Scripted, TrailKept, Uncrossed, CountersKept,
           NEW q \in Handlers, HandlerStep(q)
    PROVE  CountersKept'
<1> SUFFICES ASSUME ~crossed', ~edited', ~deleted', deaths' = 0
             PROVE  /\ row'.views = events'["verify"] + Uneventful("verify")'
                    /\ row'.downloads = events'["pdf"] + Uneventful("pdf")'
                    /\ \A p \in Handlers : Upcoming(p)' \in {"record", "count"} =>
                          copy'[p].views = row'.views /\ copy'[p].downloads = row'.downloads
  BY DEF CountersKept
<1>1. /\ ~crossed /\ ~edited /\ ~Edit(q) /\ Running(q)
      /\ \A p \in Handlers : Running(p) => p = q
      /\ \A p \in Handlers : Upcoming(p)' # "none" => p = q
  BY AloneStep
<1>2. ~deleted /\ exists /\ ~Delete(q) /\ deaths' = IF Die(q) THEN deaths + 1 ELSE deaths
  BY RowStays
<1>3. ~Die(q) /\ deaths = 0
  BY <1>2 DEF LifeTypeOK, LifeAssumption
<1>4. /\ row.views = events["verify"] + Uneventful("verify")
      /\ row.downloads = events["pdf"] + Uneventful("pdf")
      /\ Upcoming(q) \in {"record", "count"} =>
            copy[q].views = row.views /\ copy[q].downloads = row.downloads
  BY <1>1, <1>2, <1>3 DEF CountersKept
<1>5. /\ row \in Row /\ copy[q] \in Row /\ kind[q] \in Kinds
      /\ events["verify"] \in Nat /\ events["pdf"] \in Nat
  BY <1>1, Upcomes DEF LifeTypeOK
<1>6. /\ Upcoming(q)' \in {"none", After(kind[q], Upcoming(q))}
      /\ ~Revoke(q) => Upcoming(q)' = After(kind[q], Upcoming(q))
      /\ Moves(q)
  BY <1>2, <1>3, StepIs
<1>7. \A k \in {"verify", "pdf"} :
         /\ Uneventful(k) = IF kind[q] = k /\ Upcoming(q) = "event" THEN 1 ELSE 0
         /\ Uneventful(k)' = IF kind[q] = k /\ Upcoming(q)' = "event" THEN 1 ELSE 0
  <2>1. \A k \in {"verify", "pdf"} :
           /\ Uneventful(k) = IF kind[q] = k /\ Upcoming(q) = "event" THEN 1 ELSE 0
           /\ Uneventful(k)' = IF kind'[q] = k /\ Upcoming(q)' = "event" THEN 1 ELSE 0
    BY <1>1, UneventfulIs DEF Kinds, Script
  <2>2. Upcoming(q)' = "event" => kind'[q] = kind[q]
    BY <1>6 DEF Moves
  <2>3. QED
    BY <2>1, <2>2
<1>8. \A p \in Handlers : Upcoming(p)' \in {"record", "count"} => p = q
  BY <1>1
<1>9. Upcoming(q)' \in {"record", "count"} => kind[q] = "verify" /\ Upcoming(q) = "record" /\ copy'[q] = copy[q]
  <2>1. ASSUME Upcoming(q)' \in {"record", "count"}
        PROVE  Upcoming(q) = "record"
    BY <1>6, <2>1 DEF After
  <2>2. Upcoming(q) = "record" => kind[q] = "verify"
    BY <1>1, Upcomes DEF Having
  <2>3. Upcoming(q)' \in {"record", "count"} => copy'[q] = copy[q]
    BY <1>6 DEF Moves
  <2>4. QED
    BY <2>1, <2>2, <2>3
<1>10. CASE SaveCount(q)
  <2>1. Upcoming(q) = "count" /\ kind[q] \in {"verify", "pdf"} /\ ~Revoke(q)
    BY <1>10, StepKinds
  <2>2. Upcoming(q)' = "event"
    BY <1>6, <2>1 DEF After
  <2>3. row' = Bump(row, kind[q], copy[q]) /\ events' = events
    BY <1>2, <1>10 DEF SaveCount
  <2>4. /\ row'.views = IF kind[q] = "verify" THEN copy[q].views + 1 ELSE row.views
        /\ row'.downloads = IF kind[q] = "verify" THEN row.downloads ELSE copy[q].downloads + 1
    BY <1>5, <2>3, BumpType
  <2>5. copy[q].views = row.views /\ copy[q].downloads = row.downloads
    BY <1>4, <2>1
  <2>6. /\ Uneventful("verify") = 0 /\ Uneventful("pdf") = 0
        /\ Uneventful("verify")' = IF kind[q] = "verify" THEN 1 ELSE 0
        /\ Uneventful("pdf")' = IF kind[q] = "verify" THEN 0 ELSE 1
    BY <1>7, <2>1, <2>2
  <2>7. /\ row'.views = events'["verify"] + Uneventful("verify")'
        /\ row'.downloads = events'["pdf"] + Uneventful("pdf")'
    BY <1>4, <1>5, <2>3, <2>4, <2>5, <2>6
  <2>8. QED
    BY <1>8, <2>2, <2>7
<1>11. CASE SaveEvent(q)
  <2>1. Upcoming(q) = "event" /\ kind[q] \in {"verify", "pdf", "mail"} /\ ~Revoke(q) /\ ~SaveCount(q)
    BY <1>11, StepKinds
  <2>2. Upcoming(q)' \notin {"event", "record", "count"}
    BY <1>6, <2>1 DEF After
  <2>3. row'.views = row.views /\ row'.downloads = row.downloads
    BY <1>1, <2>1, RowStep
  <2>4. events' = [events EXCEPT ![kind[q]] = events[kind[q]] + 1]
    BY <1>2, <1>11 DEF SaveEvent
  <2>5. /\ events'["verify"] = IF kind[q] = "verify" THEN events["verify"] + 1 ELSE events["verify"]
        /\ events'["pdf"] = IF kind[q] = "pdf" THEN events["pdf"] + 1 ELSE events["pdf"]
    BY <2>1, <2>4 DEF LifeTypeOK
  <2>6. /\ Uneventful("verify") = IF kind[q] = "verify" THEN 1 ELSE 0
        /\ Uneventful("pdf") = IF kind[q] = "pdf" THEN 1 ELSE 0
        /\ Uneventful("verify")' = 0 /\ Uneventful("pdf")' = 0
    BY <1>7, <2>1, <2>2
  <2>7. /\ row'.views = events'["verify"] + Uneventful("verify")'
        /\ row'.downloads = events'["pdf"] + Uneventful("pdf")'
    BY <1>4, <1>5, <2>3, <2>5, <2>6
  <2>8. QED
    BY <1>8, <2>2, <2>7
<1>12. CASE ~SaveCount(q) /\ ~SaveEvent(q)
  <2>1. row'.views = row.views /\ row'.downloads = row.downloads
    BY <1>1, <1>12, RowStep
  <2>2. events'["verify"] = events["verify"] /\ events'["pdf"] = events["pdf"]
    <3>1. CASE Revoke(q)
      <4>1. events' = events \/ events' = [events EXCEPT !["revoke"] = events["revoke"] + 1]
        BY <3>1 DEF Revoke
      <4>2. QED
        BY <4>1 DEF LifeTypeOK
    <3>2. CASE ~Revoke(q)
      BY <1>1, <1>2, <1>3, <1>12, <3>2 DEF HandlerStep, Act, Answer, CountUsage, Tell
    <3>3. QED
      BY <3>1, <3>2
  <2>3. \A k \in {"verify", "pdf"} : Uneventful(k) = 0 /\ Uneventful(k)' = 0
    <3>1. Upcoming(q) # "event" /\ Upcoming(q) # "count"
      BY <1>1, <1>2, <1>3, <1>12, StepKinds DEF HandlerStep
    <3>2. kind[q] \in {"verify", "pdf"} => Upcoming(q)' # "event"
      <4>1. kind[q] \in {"verify", "pdf"} => Upcoming(q) # "send"
        BY <1>1, Upcomes DEF Having
      <4>2. QED
        BY <1>6, <3>1, <4>1 DEF After
    <3>3. QED
      BY <1>7, <3>1, <3>2
  <2>4. Upcoming(q)' \in {"record", "count"} =>
           copy'[q].views = row'.views /\ copy'[q].downloads = row'.downloads
    BY <1>4, <1>9, <2>1
  <2>5. QED
    BY <1>4, <1>8, <2>1, <2>2, <2>3, <2>4
<1>13. QED
  BY <1>10, <1>11, <1>12

-----------------------------------------------------------------------------
(* A handler that begins                                                     *)

LEMMA ReadStep ==
    ASSUME LInv, NEW q \in Handlers, NEW k \in Kinds, Read(q, k)
    PROVE  LInv'
<1>1. LifeTypeOK /\ Scripted /\ TrailKept /\ Uncrossed /\ CountersKept /\ LateKept
  BY DEF LInv
<1>2. Script[k] \in Rests[k] /\ IsRest(k, Script[k])
  BY RestsAre
<1>3. /\ Script[k] # <<>> /\ Script[k] \in Seq(HandlerSteps) /\ k \notin {"new", "ended"}
      /\ Head(Script[k]) \notin {"event", "usage", "tell", "none"}
      /\ k \in {"verify", "mail"} => Head(Script[k]) # "count"
  <2>1. k \notin {"new", "ended"} /\ Head(Script[k]) \notin {"event", "usage", "tell", "none"}
    BY DEF Kinds, Script
  <2>2. k \in {"verify", "mail"} => Head(Script[k]) # "count"
    BY DEF Kinds, Script
  <2>3. QED
    BY <1>2, <2>1, <2>2 DEF IsRest
<1>4. /\ kind[q] = "new" /\ exists /\ row \in Row
      /\ kind' = [kind EXCEPT ![q] = k] /\ copy' = [copy EXCEPT ![q] = row]
      /\ todo' = [todo EXCEPT ![q] = Script[k]]
      /\ late' = IF row.status = "revoked" THEN late \cup {q} ELSE late
      /\ UNCHANGED <<row, exists, expired, events, usage, told, acts, deaths, shown, edited, deleted>>
  BY <1>1 DEF Read, LifeTypeOK
<1>5. todo[q] = <<>> /\ shown[q] = None /\ q \notin late
  BY <1>1, <1>4 DEF Scripted
<1>6. /\ kind'[q] = k /\ copy'[q] = row /\ todo'[q] = Script[k]
      /\ \A p \in Handlers \ {q} : kind'[p] = kind[p] /\ copy'[p] = copy[p] /\ todo'[p] = todo[p]
  BY <1>1, <1>4 DEF LifeTypeOK
<1>7. Upcoming(q)' = Head(Script[k]) /\ \A p \in Handlers \ {q} : Upcoming(p)' = Upcoming(p)
  BY <1>3, <1>6 DEF Upcoming
<1>8. LifeTypeOK'
  <2>1. kind' \in [Handlers -> Kinds \cup {"new", "ended"}] /\ copy' \in [Handlers -> Row \cup {None}]
    BY <1>1, <1>4 DEF LifeTypeOK
  <2>2. todo' \in [Handlers -> Seq(HandlerSteps)]
    BY <1>1, <1>3, <1>4 DEF LifeTypeOK
  <2>3. late' \subseteq Handlers
    BY <1>1, <1>4 DEF LifeTypeOK
  <2>4. crossed' \in BOOLEAN
    BY DEF Read
  <2>5. QED
    BY <1>1, <1>4, <2>1, <2>2, <2>3, <2>4 DEF LifeTypeOK
<1>9. Scripted'
  <2>1. SUFFICES ASSUME NEW p \in Handlers
                 PROVE  IF kind'[p] \in {"new", "ended"}
                        THEN todo'[p] = <<>> /\ (kind'[p] = "new" => shown'[p] = None /\ p \notin late')
                        ELSE todo'[p] \in Rests[kind'[p]] /\ copy'[p] \in Row
    BY DEF Scripted
  <2>2. CASE p = q
    BY <1>2, <1>3, <1>4, <1>6, <2>2
  <2>3. CASE p # q
    BY <1>1, <1>4, <1>6, <2>3 DEF Scripted
  <2>4. QED
    BY <2>2, <2>3
<1>10. TrailKept'
  <2>1. \A j \in {"verify", "mail"}, S \in {{"count", "event"}, {"usage"}, {"tell"}} :
           AtSteps(j, S)' = AtSteps(j, S)
    <3>1. TAKE j \in {"verify", "mail"}, S \in {{"count", "event"}, {"usage"}, {"tell"}}
    <3>2. q \notin AtSteps(j, S)
      BY <1>4 DEF AtSteps
    <3>3. q \notin AtSteps(j, S)'
      BY <1>3, <1>6, <1>7 DEF AtSteps
    <3>4. \A p \in Handlers \ {q} : p \in AtSteps(j, S)' <=> p \in AtSteps(j, S)
      BY <1>6, <1>7 DEF AtSteps
    <3>5. AtSteps(j, S) \subseteq Handlers /\ AtSteps(j, S)' \subseteq Handlers
      BY DEF AtSteps
    <3>6. QED
      BY <3>2, <3>3, <3>4, <3>5
  <2>2. QED
    BY <1>1, <1>4, <2>1 DEF TrailKept, Ahead
<1>11. ASSUME ~crossed'
       PROVE  ~crossed /\ \A p \in Handlers : p # q => todo'[p] = <<>> /\ Upcoming(p) = "none" /\ Upcoming(p)' = "none"
  <2>1. ~crossed /\ \A p \in Handlers : ~Running(p)
    BY <1>11 DEF Read
  <2>2. QED
    BY <1>6, <1>7, <2>1 DEF Running, Upcoming
<1>12. Uncrossed'
  <2>1. SUFFICES ASSUME ~crossed', ~edited'
                 PROVE  /\ \A p, r \in Handlers : Running(p)' /\ Running(r)' => p = r
                        /\ events'["revoke"] <= 1
                        /\ events'["revoke"] = 1 => row'.status = "revoked"
                        /\ \A p \in Handlers : Upcoming(p)' = "revoke" => copy'[p].status = row'.status
    BY DEF Uncrossed
  <2>2. \A p, r \in Handlers : Running(p)' /\ Running(r)' => p = r
    BY <1>11, <2>1 DEF Running
  <2>3. events'["revoke"] <= 1 /\ (events'["revoke"] = 1 => row'.status = "revoked")
    BY <1>1, <1>4, <1>11, <2>1 DEF Uncrossed
  <2>4. \A p \in Handlers : Upcoming(p)' = "revoke" => copy'[p].status = row'.status
    BY <1>4, <1>6, <1>11, <2>1
  <2>5. QED
    BY <2>2, <2>3, <2>4
<1>13. CountersKept'
  <2>1. SUFFICES ASSUME ~crossed', ~edited', ~deleted', deaths' = 0
                 PROVE  /\ row'.views = events'["verify"] + Uneventful("verify")'
                        /\ row'.downloads = events'["pdf"] + Uneventful("pdf")'
                        /\ \A p \in Handlers : Upcoming(p)' \in {"record", "count"} =>
                              copy'[p].views = row'.views /\ copy'[p].downloads = row'.downloads
    BY DEF CountersKept
  <2>2. Upcoming(q) = "none" /\ Upcoming(q)' # "event"
    BY <1>3, <1>5, <1>7 DEF Upcoming
  <2>3. \A p \in Handlers : Upcoming(p) # "event" /\ Upcoming(p)' # "event"
    BY <1>11, <2>1, <2>2
  <2>4. \A j \in {"verify", "pdf"} : Uneventful(j) = 0 /\ Uneventful(j)' = 0
    BY <2>3 DEF Uneventful
  <2>5. row.views = events["verify"] + Uneventful("verify") /\ row.downloads = events["pdf"] + Uneventful("pdf")
    BY <1>1, <1>4, <1>11, <2>1 DEF CountersKept
  <2>6. \A p \in Handlers : Upcoming(p)' \in {"record", "count"} => copy'[p] = row'
    BY <1>4, <1>6, <1>11, <2>1
  <2>7. QED
    BY <1>4, <2>4, <2>5, <2>6
<1>14. LateKept'
  <2>1. SUFFICES ASSUME NEW p \in late'
                 PROVE  /\ shown'[p] # None => shown'[p] = "revoked"
                        /\ Running(p)' => copy'[p].status = "revoked"
    BY DEF LateKept
  <2>2. CASE p = q
    BY <1>4, <1>5, <1>6, <2>1, <2>2
  <2>3. CASE p # q
    <3>1. p \in late /\ p \in Handlers
      BY <1>1, <1>4, <2>1, <2>3 DEF LifeTypeOK
    <3>2. QED
      BY <1>1, <1>4, <1>6, <2>3, <3>1 DEF LateKept, Running
  <2>4. QED
    BY <2>2, <2>3
<1>15. QED
  BY <1>8, <1>9, <1>10, <1>12, <1>13, <1>14 DEF LInv

-----------------------------------------------------------------------------
(* The invariant                                                             *)

LEMMA LifeInitLInv == LifeAssumption /\ LifeInit => LInv
<1> SUFFICES ASSUME LifeAssumption, LifeInit
             PROVE  LInv
  OBVIOUS
<1>1. <<>> \in Seq(HandlerSteps)
  BY EmptySeq
<1>2. row \in Row
  BY DEF LifeInit, Row, Statuses
<1>3. LifeTypeOK
  <2>1. /\ kind \in [Handlers -> Kinds \cup {"new", "ended"}] /\ copy \in [Handlers -> Row \cup {None}]
        /\ todo \in [Handlers -> Seq(HandlerSteps)]
        /\ shown \in [Handlers -> {"revoked", "void", "draft", "expired", "active", None}]
    BY <1>1 DEF LifeInit
  <2>2. /\ events \in [{"verify", "pdf", "mail", "revoke"} -> Nat] /\ usage \in [{"verify", "mail"} -> Nat]
        /\ told \in [{"verify", "mail", "revoke"} -> Nat] /\ acts \in [{"verify", "mail"} -> Nat]
    BY DEF LifeInit
  <2>3. deaths \in 0..MaxDeaths
    <3>1. deaths = 0 /\ MaxDeaths \in Nat
      BY DEF LifeInit, LifeAssumption
    <3>2. QED
      BY <3>1
  <2>4. /\ exists \in BOOLEAN /\ expired \in BOOLEAN /\ late \subseteq Handlers
        /\ edited \in BOOLEAN /\ deleted \in BOOLEAN /\ crossed \in BOOLEAN
    BY DEF LifeInit
  <2>5. QED
    BY <1>2, <2>1, <2>2, <2>3, <2>4 DEF LifeTypeOK
<1>4. Scripted
  BY DEF LifeInit, Scripted
<1>5. \A q \in Handlers : ~Running(q) /\ Upcoming(q) = "none"
  BY DEF LifeInit, Running, Upcoming
<1>6. TrailKept
  <2>1. \A k \in {"verify", "mail"}, S \in {{"count", "event"}, {"usage"}, {"tell"}} : AtSteps(k, S) = {}
    BY <1>5 DEF AtSteps
  <2>2. \A k \in {"verify", "mail"} : acts[k] = 0 /\ events[k] = 0 /\ usage[k] = 0 /\ told[k] = 0
    BY DEF LifeInit
  <2>3. Cardinality({}) = 0
    BY FS_EmptySet
  <2>4. exists
    BY DEF LifeInit
  <2>5. \A k \in {"verify", "mail"}, S \in {{"count", "event"}, {"usage"}, {"tell"}} : Ahead(0, 0, AtSteps(k, S))
    BY <2>1, <2>3 DEF Ahead
  <2>6. QED
    BY <2>2, <2>4, <2>5 DEF TrailKept
<1>7. Uncrossed
  <2>1. events["revoke"] = 0
    BY DEF LifeInit
  <2>2. QED
    BY <1>5, <2>1 DEF Uncrossed
<1>8. CountersKept
  <2>1. Uneventful("verify") = 0 /\ Uneventful("pdf") = 0
    BY <1>5 DEF Uneventful
  <2>2. row.views = 0 /\ row.downloads = 0 /\ events["verify"] = 0 /\ events["pdf"] = 0
    BY DEF LifeInit
  <2>3. QED
    BY <1>5, <2>1, <2>2 DEF CountersKept
<1>9. LateKept
  BY DEF LifeInit, LateKept
<1>10. QED
  BY <1>3, <1>4, <1>6, <1>7, <1>8, <1>9 DEF LInv

LEMMA HandlerStepLInv ==
    ASSUME LifeAssumption, LInv, NEW q \in Handlers, HandlerStep(q)
    PROVE  LInv'
<1>1. LifeTypeOK /\ Scripted /\ TrailKept /\ Uncrossed /\ CountersKept /\ LateKept
  BY DEF LInv
<1>2. LifeTypeOK' /\ Scripted'
  BY <1>1, StepTypes, StepIs
<1>3. TrailKept' /\ Uncrossed' /\ CountersKept' /\ LateKept'
  BY <1>1, TrailStep, UncrossedStep, CountersStep, LateStep
<1>4. QED
  BY <1>2, <1>3 DEF LInv

\* A day that passes, and a step that changes nothing.
LEMMA NothingMoves ==
    ASSUME LInv, expired' \in BOOLEAN,
           UNCHANGED <<row, exists, kind, copy, todo, events, usage, told, acts, deaths, late,
                       shown, edited, deleted, crossed>>
    PROVE  LInv'
<1>1. LifeTypeOK'
  BY DEF LInv, LifeTypeOK
<1>2. Scripted' /\ LateKept'
  BY DEF LInv, Scripted, LateKept, Running
<1>3. \A p \in Handlers : Upcoming(p)' = Upcoming(p)
  BY DEF Upcoming
<1>4. TrailKept'
  <2>1. \A k \in {"verify", "mail"}, S \in {{"count", "event"}, {"usage"}, {"tell"}} : AtSteps(k, S)' = AtSteps(k, S)
    BY <1>3 DEF AtSteps
  <2>2. QED
    BY <2>1 DEF LInv, TrailKept, Ahead
<1>5. Uncrossed'
  BY <1>3 DEF LInv, Uncrossed, Running
<1>6. CountersKept'
  <2>1. \A k \in {"verify", "pdf"} : Uneventful(k)' = Uneventful(k)
    BY <1>3 DEF Uneventful
  <2>2. QED
    BY <1>3, <2>1 DEF LInv, CountersKept
<1>7. QED
  BY <1>1, <1>2, <1>4, <1>5, <1>6 DEF LInv

LEMMA LifeNextLInv ==
    ASSUME LifeAssumption, LInv, [LifeNext]_lifeVars
    PROVE  LInv'
<1>1. CASE \E q \in Handlers : HandlerStep(q)
  BY <1>1, HandlerStepLInv
<1>2. CASE \E q \in Handlers : \E k \in Kinds : Read(q, k)
  BY <1>2, ReadStep
<1>3. CASE DayPasses
  <2>1. /\ expired' \in BOOLEAN
        /\ UNCHANGED <<row, exists, kind, copy, todo, events, usage, told, acts, deaths, late,
                       shown, edited, deleted, crossed>>
    BY <1>3 DEF DayPasses, history
  <2>2. QED
    BY <2>1, NothingMoves
<1>4. CASE UNCHANGED lifeVars
  <2>1. /\ expired' \in BOOLEAN
        /\ UNCHANGED <<row, exists, kind, copy, todo, events, usage, told, acts, deaths, late,
                       shown, edited, deleted, crossed>>
    BY <1>4 DEF lifeVars, LInv, LifeTypeOK
  <2>2. QED
    BY <2>1, NothingMoves
<1>5. QED
  BY <1>1, <1>2, <1>3, <1>4 DEF LifeNext, HandlerStep

LEMMA AlwaysLInv == LifeAssumption => (LifeSpec => []LInv)
<1>1. LifeAssumption /\ LifeInit => LInv
  BY LifeInitLInv
<1>2. LifeAssumption /\ LInv /\ [LifeNext]_lifeVars => LInv'
  BY LifeNextLInv
<1> SUFFICES ASSUME LifeAssumption
             PROVE  LifeSpec => []LInv
  OBVIOUS
<1>3. LifeInit => LInv
  BY <1>1
<1>4. LInv /\ [LifeNext]_lifeVars => LInv'
  BY <1>2
<1>5. QED
  BY <1>3, <1>4, PTL DEF LifeSpec

-----------------------------------------------------------------------------
(* The theorems                                                              *)

\* Every column of the row and every history has its type, whatever overlaps or dies.
THEOREM LifeTypes == LifeAssumption => (LifeSpec => []LifeTypeOK)
<1>1. LInv => LifeTypeOK
  BY DEF LInv
<1>2. QED
  BY <1>1, AlwaysLInv, PTL

\* revoke_certificate writes one event, for any number of handlers of which none overlaps
\* another.
THEOREM RevokedOnlyOnce == LifeAssumption => (LifeSpec => []RevokedOnce)
<1>1. LInv => RevokedOnce
  BY DEF LInv, LifeTypeOK, Uncrossed, RevokedOnce
<1>2. QED
  BY <1>1, AlwaysLInv, PTL

\* Whoever begins after a revocation is shown "revoked", whatever overlaps.
THEOREM RevocationIsSeen == LifeAssumption => (LifeSpec => []RevokedIsShown)
<1>1. LInv => RevokedIsShown
  BY DEF LInv, LateKept, RevokedIsShown
<1>2. QED
  BY <1>1, AlwaysLInv, PTL

\* Events, usage and webhooks follow the verification or the e-mail in this order, and
\* catch up with it.
THEOREM TrailIsOrdered == LifeAssumption => (LifeSpec => []TrailInOrder)
<1>1. ASSUME LifeAssumption, LInv, ~deleted, NEW k \in {"verify", "mail"}
      PROVE  /\ told[k] <= usage[k] /\ usage[k] <= events[k] /\ events[k] <= acts[k]
             /\ (\A q \in Handlers : ~Running(q)) /\ deaths = 0 => told[k] = acts[k]
  <2>1. acts[k] \in Nat /\ events[k] \in Nat /\ usage[k] \in Nat /\ told[k] \in Nat
    BY <1>1 DEF LInv, LifeTypeOK
  <2>2. \A S \in {{"count", "event"}, {"usage"}, {"tell"}} : Cardinality(AtSteps(k, S)) \in Nat
    <3>1. \A S \in {{"count", "event"}, {"usage"}, {"tell"}} : AtSteps(k, S) \subseteq Handlers
      BY DEF AtSteps
    <3>2. QED
      BY <1>1, <3>1, FS_Subset, FS_CardinalityType DEF LifeAssumption
  <2>3. /\ Ahead(acts[k], events[k], AtSteps(k, {"count", "event"}))
        /\ Ahead(events[k], usage[k], AtSteps(k, {"usage"}))
        /\ Ahead(usage[k], told[k], AtSteps(k, {"tell"}))
    BY <1>1 DEF LInv, TrailKept
  <2>4. told[k] <= usage[k] /\ usage[k] <= events[k] /\ events[k] <= acts[k]
    BY <2>1, <2>2, <2>3 DEF Ahead
  <2>5. ASSUME \A q \in Handlers : ~Running(q), deaths = 0
        PROVE  told[k] = acts[k]
    <3>1. \A q \in Handlers : Upcoming(q) = "none"
      BY <2>5 DEF Running, Upcoming
    <3>2. \A S \in {{"count", "event"}, {"usage"}, {"tell"}} : AtSteps(k, S) = {}
      BY <3>1 DEF AtSteps
    <3>3. Cardinality({}) = 0
      BY FS_EmptySet
    <3>4. events[k] + 0 = acts[k] /\ usage[k] + 0 = events[k] /\ told[k] + 0 = usage[k]
      BY <2>3, <2>5, <3>2, <3>3 DEF Ahead
    <3>5. QED
      BY <2>1, <3>4
  <2>6. QED
    BY <2>4, <2>5
<1> SUFFICES ASSUME LifeAssumption
             PROVE  LifeSpec => []TrailInOrder
  OBVIOUS
<1>2. LInv => TrailInOrder
  BY <1>1 DEF TrailInOrder
<1>3. QED
  BY <1>2, AlwaysLInv, PTL

\* Handlers that do not overlap count every view and every download.
THEOREM CountersAreExactAlone == LifeAssumption => (LifeSpec => []CountersExactAlone)
<1>1. ASSUME LInv, \A q \in Handlers : ~Running(q), deaths = 0, ~crossed, ~edited, ~deleted
      PROVE  row.views = events["verify"] /\ row.downloads = events["pdf"]
  <2>1. Uneventful("verify") = 0 /\ Uneventful("pdf") = 0
    BY <1>1 DEF Uneventful, Upcoming, Running
  <2>2. row.views = events["verify"] + Uneventful("verify") /\ row.downloads = events["pdf"] + Uneventful("pdf")
    BY <1>1 DEF LInv, CountersKept
  <2>3. QED
    BY <1>1, <2>1, <2>2 DEF LInv, LifeTypeOK
<1>2. LInv => CountersExactAlone
  BY <1>1 DEF CountersExactAlone
<1>3. QED
  BY <1>2, AlwaysLInv, PTL

\* A revocation is only undone by a request that sends another status or by an edit that
\* read the row before it, for any number of handlers that overlap and die (views.py:147):
\* a handler that read it revoked and sends no status writes it back revoked.
THEOREM OnlyAnEditUndoesARevocation == LifeAssumption => (LifeSpec => RevocationUndoneOnlyByEdit)
<1> DEFINE Undone == row.status = "revoked" /\ row'.status # "revoked" =>
                       \E q \in Handlers : At(q, "save") /\ (kind[q] = "restate" \/ q \notin late)
<1>1. ASSUME LInv, [LifeNext]_lifeVars
      PROVE  Undone
  <2>1. LifeTypeOK /\ Scripted /\ LateKept
    BY <1>1 DEF LInv
  <2>2. CASE \E q \in Handlers : HandlerStep(q)
    <3>1. PICK q \in Handlers : HandlerStep(q)
      BY <2>2
    <3>2. CASE Edit(q)
      <4>1. At(q, "save") /\ Running(q)
        BY <3>2 DEF Edit, At
      <4>2. SUFFICES ASSUME kind[q] # "restate", q \in late
                     PROVE  row'.status = "revoked"
        BY <4>1
      <4>3. copy[q].status = "revoked" /\ copy[q] \in Row
        BY <2>1, <4>1, <4>2, Upcomes DEF LateKept
      <4>4. PICK c \in {"changed", copy[q].content} :
              row' = [copy[q] EXCEPT !.status = copy[q].status, !.content = c]
        BY <3>2, <4>2 DEF Edit
      <4>5. QED
        BY <4>3, <4>4 DEF Row
    <3>3. CASE ~Edit(q)
      BY <2>1, <3>1, <3>3, RowStep
    <3>4. QED
      BY <3>2, <3>3
  <2>3. CASE row' = row
    BY <2>3
  <2>4. QED
    BY <1>1, <2>2, <2>3 DEF LifeNext, HandlerStep, Read, DayPasses, lifeVars
<1>2. LInv /\ [LifeNext]_lifeVars => [Undone]_lifeVars
  BY <1>1
<1>3. QED
  BY <1>2, AlwaysLInv, PTL DEF LifeSpec, RevocationUndoneOnlyByEdit
=============================================================================

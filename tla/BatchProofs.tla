----------------------------- MODULE BatchProofs -----------------------------
(***************************************************************************)
(* Theorems about BulkBatch for any table and any number of requests and      *)
(* workers.  The argument: a run looks at every row there was when it started, *)
(* and its own counts say how many it has looked at, issued and refused; what  *)
(* it saves are those counts, so it does not matter which of several runs      *)
(* saves last.  Alone, a run also knows which certificates are missing from    *)
(* the ZIP file and from the mails.                                           *)
(***************************************************************************)
EXTENDS BulkBatch, FiniteSetTheorems, TLAPS

USE DEF register, Current

RunSteps == {"row", "item", "mail", "count", "zip"}

Present == {r \in Rows : item[r] # "absent"}
Working == {w \in Workers : task[w] \in Run}

\* The rows the run of worker w has looked at, issued, and counted twice.
Done(w)      == Present \ task[w].left
RunIssued(w) == {r \in Rows : <<r, task[w].run>> \in certs}
RunTwice(w)  == {r \in Rows : <<r, task[w].run>> \in doubled}

\* A certificate that is not counted yet.
InHand(w) == IF task[w].pc = "item" THEN 1 ELSE 0

\* The counts in a row of IssuanceBatch, or in a copy of it.
Fits(b) ==
    /\ b.success + b.errors >= b.processed
    /\ b.success + b.errors <= b.processed + Cardinality(doubled)
    /\ b.success <= Cardinality(certs)

\* Nothing happens to a batch before its items are there.
Early ==
    batch.status = "absent" \/ uploading # None =>
        /\ \A q \in Requests : At(q, "new")
        /\ runs = 0 /\ Working = {}
        /\ batch.status = IF uploading = None THEN "absent" ELSE "draft"

Holding(q) == request[q].pc \in {"validate", "validated", "issue", "publish"}

RequestsHold ==
    \A q \in Requests : Holding(q) =>
        /\ request[q].mapping \in Mappings \cup {Alias}
        /\ request[q].copy \in Batch /\ Fits(request[q].copy)

\* A request starts one run at most.
Undone == {q \in Requests : ~At(q, "done")}
RunsCounted == started + runs + Cardinality(Undone) <= Cardinality(Requests)

RunsApart ==
    /\ \A w \in Working : task[w].run \in 1..started
    /\ \A v, w \in Working : task[v].run = task[w].run => v = w
    /\ \A c \in certs : c[2] <= started

\* The rows behind the counts of a run.
Covered(w) ==
    /\ task[w].left \subseteq Present
    /\ RunIssued(w) \cap task[w].left = {}
    /\ task[w].errors = 0 => Done(w) \subseteq RunIssued(w)
    /\ task[w].copy.mapping = Malformed => RunIssued(w) = {}
    /\ task[w].pc \in {"item", "mail", "count"} => task[w].row \in Done(w)
    /\ task[w].pc \in {"item", "mail"} => task[w].row \in RunIssued(w) \ RunTwice(w)

\* A row is a success or an error, or both if its e-mail could not be queued.
Tallied(w) ==
    /\ task[w].success + task[w].errors + InHand(w) = Cardinality(Done(w)) + Cardinality(RunTwice(w))
    /\ task[w].success + InHand(w) <= Cardinality(RunIssued(w))

\* Without a fault nothing was issued that is neither a success nor deleted.
Credited(w) ==
    faults = 0 /\ task[w].success = 0 =>
        \A r \in RunIssued(w) :
            <<r, task[w].run>> \in deleted \/ (task[w].pc = "item" /\ r = task[w].row)

RunKept(w) == Covered(w) /\ Tallied(w) /\ Credited(w) /\ Fits(task[w].copy)

RunsKept == \A w \in Working : RunKept(w)

IInv ==
    /\ TypeOK /\ Early /\ RequestsHold /\ RunsCounted
    /\ RunsApart /\ RunsKept /\ Fits(batch) /\ CompletedMeansIssued

-----------------------------------------------------------------------------
(* Facts about the definitions                                               *)

LEMMA FiniteSets ==
    ASSUME BulkAssumption
    PROVE  /\ Cardinality(Requests) \in Nat
           /\ \A S \in SUBSET Rows : IsFiniteSet(S) /\ Cardinality(S) \in Nat
           /\ \A S \in SUBSET Requests : IsFiniteSet(S) /\ Cardinality(S) \in Nat
           /\ \A S \in SUBSET Certs : IsFiniteSet(S) /\ Cardinality(S) \in Nat
<1>1. IsFiniteSet(Rows) /\ IsFiniteSet(Requests)
  BY DEF BulkAssumption
<1>2. Cardinality(Requests) \in Nat
  BY <1>1, FS_CardinalityType
<1>3. IsFiniteSet(1..Cardinality(Requests))
  <2> DEFINE n == Cardinality(Requests)
  <2>1. 1 \in Int /\ n \in Int
    BY <1>2
  <2> HIDE DEF n
  <2>2. IsFiniteSet(1..n)
    BY <2>1, FS_Interval
  <2>3. QED
    BY <2>2 DEF n
<1>4. IsFiniteSet(Certs)
  BY <1>1, <1>3, FS_Product DEF Certs
<1>5. QED
  BY <1>1, <1>2, <1>4, FS_Subset, FS_CardinalityType

\* The pc tells a run from a builder.
LEMMA HoldsRun ==
    ASSUME TypeOK, NEW w \in Workers, NEW pc, Holds(w, pc)
    PROVE  /\ pc \in RunSteps => task[w] \in Run /\ w \in Working
           /\ pc \in {"build", "built"} => task[w] \in Builder /\ w \notin Working
           /\ task[w].pc = pc
BY DEF TypeOK, Holds, Run, Builder, RunSteps, Working

\* Only a task that is there is a run.
LEMMA NoneIsNoTask == \A w \in Workers : w \in Working => task[w] # None
BY NoneAssumption DEF Working

\* What changes a task in hand keeps the others.
LEMMA DoOne ==
    ASSUME TypeOK, NEW w \in Workers, NEW t \in Run \cup Builder \cup {None}, Do(w, t)
    PROVE  /\ task' \in [Workers -> Run \cup Builder \cup {None}]
           /\ task'[w] = t
           /\ \A v \in Workers \ {w} : task'[v] = task[v]
BY DEF TypeOK, Do

LEMMA PublishedOnce ==
    ASSUME BulkAssumption, TypeOK, NEW q \in Requests, ~At(q, "done"), End(q)
    PROVE  Cardinality(Undone') = Cardinality(Undone) - 1 /\ Cardinality(Undone) \in Nat
<1>1. Undone' = Undone \ {q} /\ q \in Undone /\ Undone \in SUBSET Requests
  BY DEF End, Undone, At, TypeOK
<1>2. IsFiniteSet(Undone) /\ Cardinality(Undone) \in Nat
  BY <1>1, FiniteSets
<1> DEFINE S == Undone
<1> HIDE DEF S
<1>3. IsFiniteSet(S) /\ q \in S => Cardinality(S \ {q}) = Cardinality(S) - 1
  BY FS_RemoveElement
<1>4. QED
  BY <1>1, <1>2, <1>3 DEF S

LEMMA RunUpdates ==
    ASSUME NEW t \in Run, NEW pc \in RunSteps
    PROVE  /\ [t EXCEPT !.pc = pc] \in Run
           /\ [t EXCEPT !.pc = pc, !.errors = @ + 1] \in Run
           /\ [t EXCEPT !.pc = pc, !.success = @ + 1] \in Run
           /\ \A b \in Batch : [t EXCEPT !.pc = pc, !.row = None, !.copy = b] \in Run
<1>1. \A n \in Nat : [t EXCEPT !.pc = pc, !.errors = n] \in Run
  BY DEF Run, RunSteps
<1>2. \A n \in Nat : [t EXCEPT !.pc = pc, !.success = n] \in Run
  BY DEF Run, RunSteps
<1>3. t.errors + 1 \in Nat /\ t.success + 1 \in Nat
  BY DEF Run
<1>4. [t EXCEPT !.pc = pc] \in Run
  BY DEF Run, RunSteps
<1>5. \A b \in Batch : [t EXCEPT !.pc = pc, !.row = None, !.copy = b] \in Run
  BY DEF Run, RunSteps
<1>6. QED
  BY <1>1, <1>2, <1>3, <1>4, <1>5

LEMMA RowUpdates ==
    ASSUME NEW t \in Run, NEW pc \in RunSteps, NEW r \in Rows
    PROVE  /\ [t EXCEPT !.pc = pc, !.row = r, !.left = @ \ {r}] \in Run
           /\ [t EXCEPT !.pc = pc, !.row = r, !.left = @ \ {r}, !.errors = @ + 1] \in Run
<1>1. \A left \in SUBSET Rows : [t EXCEPT !.pc = pc, !.row = r, !.left = left] \in Run
  BY DEF Run, RunSteps
<1>2. \A left \in SUBSET Rows, n \in Nat :
        [t EXCEPT !.pc = pc, !.row = r, !.left = left, !.errors = n] \in Run
  BY DEF Run, RunSteps
<1>3. t.errors + 1 \in Nat /\ t.left \ {r} \in SUBSET Rows
  BY DEF Run
<1>4. QED
  BY <1>1, <1>2, <1>3

LEMMA RowFields ==
    ASSUME NEW t \in Run, NEW pc, NEW r
    PROVE  LET u == [t EXCEPT !.pc = pc, !.row = r, !.left = @ \ {r}]
               v == [t EXCEPT !.pc = pc, !.row = r, !.left = @ \ {r}, !.errors = @ + 1]
           IN  /\ u.pc = pc /\ u.row = r /\ u.left = t.left \ {r} /\ u.errors = t.errors
               /\ u.success = t.success /\ u.run = t.run /\ u.copy = t.copy
               /\ v.pc = pc /\ v.row = r /\ v.left = t.left \ {r} /\ v.errors = t.errors + 1
               /\ v.success = t.success /\ v.run = t.run /\ v.copy = t.copy
BY DEF Run

LEMMA CountFields ==
    ASSUME NEW t \in Run, NEW pc
    PROVE  LET u == [t EXCEPT !.pc = pc]
               v == [t EXCEPT !.pc = pc, !.errors = @ + 1]
               x == [t EXCEPT !.pc = pc, !.success = @ + 1]
           IN  /\ u.pc = pc /\ u.errors = t.errors /\ u.success = t.success
               /\ v.pc = pc /\ v.errors = t.errors + 1 /\ v.success = t.success
               /\ x.pc = pc /\ x.errors = t.errors /\ x.success = t.success + 1
               /\ \A y \in {u, v, x} : y.row = t.row /\ y.left = t.left /\ y.run = t.run /\ y.copy = t.copy
BY DEF Run

\* What a step of a run leaves in the task of its worker.
LEMMA StepFields ==
    ASSUME TypeOK, NEW w \in Workers
    PROVE  /\ \A r \in Rows : RowInvalid(w, r) \/ RowRefused(w, r) =>
                /\ task[w].pc = "row" /\ r \in task[w].left
                /\ task'[w].pc = "count" /\ task'[w].row = r /\ task'[w].left = task[w].left \ {r}
                /\ task'[w].errors = task[w].errors + 1 /\ task'[w].success = task[w].success
                /\ task'[w].run = task[w].run /\ task'[w].copy = task[w].copy
           /\ \A r \in Rows : RowIssued(w, r) =>
                /\ task[w].pc = "row" /\ r \in task[w].left
                /\ task'[w].pc = "item" /\ task'[w].row = r /\ task'[w].left = task[w].left \ {r}
                /\ task'[w].errors = task[w].errors /\ task'[w].success = task[w].success
                /\ task'[w].run = task[w].run /\ task'[w].copy = task[w].copy
           /\ ItemFails(w) \/ MailFails(w) =>
                /\ task'[w].pc = "count" /\ task'[w].errors = task[w].errors + 1
                /\ task'[w].success = task[w].success
           /\ SaveItem(w) =>
                /\ task'[w].pc = "mail" /\ task'[w].errors = task[w].errors
                /\ task'[w].success = task[w].success + 1
           /\ QueueMail(w) =>
                /\ task'[w].pc = "count" /\ task'[w].errors = task[w].errors
                /\ task'[w].success = task[w].success
           /\ SaveItem(w) \/ QueueMail(w) \/ ItemFails(w) \/ MailFails(w) =>
                /\ task'[w].row = task[w].row /\ task'[w].left = task[w].left
                /\ task'[w].run = task[w].run /\ task'[w].copy = task[w].copy
<1>1. \A t : Do(w, t) => task'[w] = t
  BY DEF Do, TypeOK
<1>2. ASSUME NEW r \in Rows, RowInvalid(w, r) \/ RowRefused(w, r) \/ RowIssued(w, r)
      PROVE  /\ task[w] \in Run /\ task[w].pc = "row" /\ r \in task[w].left
             /\ RowInvalid(w, r) \/ RowRefused(w, r) =>
                  task'[w] = [task[w] EXCEPT !.pc = "count", !.row = r, !.left = @ \ {r}, !.errors = @ + 1]
             /\ RowIssued(w, r) =>
                  task'[w] = [task[w] EXCEPT !.pc = "item", !.row = r, !.left = @ \ {r}]
  <2>1. task[w] \in Run /\ task[w].pc = "row" /\ r \in task[w].left
    BY <1>2, HoldsRun DEF RowInvalid, RowRefused, RowIssued, RunSteps
  <2>2. QED
    BY <1>1, <2>1 DEF RowInvalid, RowRefused, RowIssued, Failed
<1>3. ASSUME SaveItem(w) \/ QueueMail(w) \/ ItemFails(w) \/ MailFails(w)
      PROVE  /\ task[w] \in Run
             /\ ItemFails(w) \/ MailFails(w) => task'[w] = [task[w] EXCEPT !.pc = "count", !.errors = @ + 1]
             /\ SaveItem(w) => task'[w] = [task[w] EXCEPT !.pc = "mail", !.success = @ + 1]
             /\ QueueMail(w) => task'[w] = [task[w] EXCEPT !.pc = "count"]
  <2>1. task[w] \in Run
    BY <1>3, HoldsRun DEF SaveItem, QueueMail, ItemFails, MailFails, RunSteps
  <2>2. QED
    BY <1>1, <2>1 DEF SaveItem, QueueMail, ItemFails, MailFails
<1>4. ASSUME NEW r \in Rows, RowInvalid(w, r) \/ RowRefused(w, r)
      PROVE  /\ task[w].pc = "row" /\ r \in task[w].left
             /\ task'[w].pc = "count" /\ task'[w].row = r /\ task'[w].left = task[w].left \ {r}
             /\ task'[w].errors = task[w].errors + 1 /\ task'[w].success = task[w].success
             /\ task'[w].run = task[w].run /\ task'[w].copy = task[w].copy
  <2>1. /\ task[w] \in Run /\ task[w].pc = "row" /\ r \in task[w].left
        /\ task'[w] = [task[w] EXCEPT !.pc = "count", !.row = r, !.left = @ \ {r}, !.errors = @ + 1]
    BY <1>2, <1>4
  <2>2. QED
    BY <2>1, RowFields
<1>5. ASSUME NEW r \in Rows, RowIssued(w, r)
      PROVE  /\ task[w].pc = "row" /\ r \in task[w].left
             /\ task'[w].pc = "item" /\ task'[w].row = r /\ task'[w].left = task[w].left \ {r}
             /\ task'[w].errors = task[w].errors /\ task'[w].success = task[w].success
             /\ task'[w].run = task[w].run /\ task'[w].copy = task[w].copy
  <2>1. /\ task[w] \in Run /\ task[w].pc = "row" /\ r \in task[w].left
        /\ task'[w] = [task[w] EXCEPT !.pc = "item", !.row = r, !.left = @ \ {r}]
    BY <1>2, <1>5
  <2>2. QED
    BY <2>1, RowFields
<1>6. ASSUME ItemFails(w) \/ MailFails(w)
      PROVE  /\ task'[w].pc = "count" /\ task'[w].errors = task[w].errors + 1
             /\ task'[w].success = task[w].success
             /\ task'[w].row = task[w].row /\ task'[w].left = task[w].left
             /\ task'[w].run = task[w].run /\ task'[w].copy = task[w].copy
  <2>1. task[w] \in Run /\ task'[w] = [task[w] EXCEPT !.pc = "count", !.errors = @ + 1]
    BY <1>3, <1>6
  <2>2. QED
    BY <2>1, CountFields
<1>7. ASSUME SaveItem(w)
      PROVE  /\ task'[w].pc = "mail" /\ task'[w].errors = task[w].errors
             /\ task'[w].success = task[w].success + 1
             /\ task'[w].row = task[w].row /\ task'[w].left = task[w].left
             /\ task'[w].run = task[w].run /\ task'[w].copy = task[w].copy
  <2>1. task[w] \in Run /\ task'[w] = [task[w] EXCEPT !.pc = "mail", !.success = @ + 1]
    BY <1>3, <1>7
  <2>2. QED
    BY <2>1, CountFields
<1>8. ASSUME QueueMail(w)
      PROVE  /\ task'[w].pc = "count" /\ task'[w].errors = task[w].errors
             /\ task'[w].success = task[w].success
             /\ task'[w].row = task[w].row /\ task'[w].left = task[w].left
             /\ task'[w].run = task[w].run /\ task'[w].copy = task[w].copy
  <2>1. task[w] \in Run /\ task'[w] = [task[w] EXCEPT !.pc = "count"]
    BY <1>3, <1>8
  <2>2. QED
    BY <2>1, CountFields
<1>9. QED
  BY <1>4, <1>5, <1>6, <1>7, <1>8

-----------------------------------------------------------------------------
(* Types                                                                     *)

LEMMA RequestTypes ==
    ASSUME BulkAssumption, IInv,
           \/ UploadBatch \/ UploadItems \/ UploadDies
           \/ \E q \in Requests : ReadBatch(q) \/ Handle(q) \/ RequestDies(q)
    PROVE  TypeOK'
<1> USE DEF IInv
<1>1. CASE UploadBatch \/ UploadItems \/ UploadDies
  <2>1. \A format \in {"csv", "xlsx"} : Parsed(format) \in SUBSET Rows
    BY DEF Parsed
  <2>2. batch' \in Batch /\ uploading' \in {None} \cup SUBSET Rows
    BY <1>1, <2>1 DEF UploadBatch, UploadItems, UploadDies, TypeOK, Batch
  <2>3. item' \in [Rows -> {"absent", "pending", "valid", "invalid", "issued", "failed"}]
    BY <1>1 DEF UploadBatch, UploadItems, UploadDies, TypeOK
  <2>4. faults' \in 0..MaxFaults
    BY <1>1 DEF UploadBatch, UploadItems, UploadDies, TypeOK, BulkAssumption
  <2>5. UNCHANGED <<request, lost, overlapped, task, runs, zips, certs, addressed, deleted, open,
                    mails, started, doubled>>
    BY <1>1 DEF UploadBatch, UploadItems, UploadDies, work
  <2>6. QED
    BY <2>2, <2>3, <2>4, <2>5 DEF TypeOK
<1>2. ASSUME NEW q \in Requests, ReadBatch(q) \/ Handle(q) \/ RequestDies(q)
      PROVE  TypeOK'
  <2>1. request' \in [Requests -> Request]
    <3>1. CASE ReadBatch(q)
      <4>1. PICK pc \in {"validate", "issue"}, m \in Mappings \cup {batch.mapping} :
              request' = [request EXCEPT ![q] = [pc |-> pc, mapping |-> m, copy |-> batch]]
        BY <3>1 DEF ReadBatch
      <4>2. [pc |-> pc, mapping |-> m, copy |-> batch] \in Request
        BY DEF TypeOK, Request, Batch
      <4>3. QED
        BY <4>1, <4>2 DEF TypeOK
    <3>2. ASSUME NEW pc \in {"validated", "publish"}, GoTo(q, pc)
          PROVE  request' \in [Requests -> Request]
      <4>1. [request[q] EXCEPT !.pc = pc] \in Request
        <5>1. \A x \in Request : [x EXCEPT !.pc = pc] \in Request
          BY DEF Request
        <5>2. QED
          BY <5>1 DEF TypeOK
      <4>2. request' = [request EXCEPT ![q] = [request[q] EXCEPT !.pc = pc]]
        BY <3>2 DEF GoTo, TypeOK
      <4>3. QED
        BY <4>1, <4>2 DEF TypeOK
    <3>3. ASSUME End(q)
          PROVE  request' \in [Requests -> Request]
      <4>1. [pc |-> "done", mapping |-> None, copy |-> None] \in Request
        BY DEF Request
      <4>2. QED
        BY <3>3, <4>1 DEF End, TypeOK
    <3>4. QED
      BY <1>2, <3>1, <3>2, <3>3 DEF Handle, ValidationRaises, ValidateItems, SaveValidation,
         SaveIssue, Publish, RequestDies
  <2>2. batch' \in Batch
    <3>1. Holding(q) => request[q].mapping \in Mappings \cup {Alias} /\ request[q].copy \in Batch
      BY DEF RequestsHold
    <3>2. CASE SaveValidation(q)
      <4>1. request[q].mapping \in Mappings \cup {Alias}
        BY <3>1, <3>2 DEF SaveValidation, At, Holding
      <4>2. \A m \in Mappings \cup {Alias} : [batch EXCEPT !.mapping = m, !.status = "validating"] \in Batch
        BY DEF TypeOK, Batch
      <4>3. QED
        BY <3>2, <4>1, <4>2 DEF SaveValidation
    <3>3. CASE SaveIssue(q)
      <4>1. request[q].mapping \in Mappings \cup {Alias} /\ request[q].copy \in Batch
        BY <3>1, <3>3 DEF SaveIssue, At, Holding
      <4>2. \A b \in Batch, m \in Mappings \cup {Alias}, mail \in BOOLEAN :
               [b EXCEPT !.mapping = m, !.mail = mail, !.status = "processing"] \in Batch
        BY DEF Batch
      <4>3. PICK mail \in BOOLEAN :
              batch' = [request[q].copy EXCEPT !.mapping = request[q].mapping,
                                               !.mail = mail, !.status = "processing"]
        BY <3>3 DEF SaveIssue
      <4>4. QED
        BY <4>1, <4>2, <4>3
    <3>4. CASE ~SaveValidation(q) /\ ~SaveIssue(q)
      BY <1>2, <3>4 DEF ReadBatch, Handle, ValidationRaises, ValidateItems, Publish, RequestDies, TypeOK
    <3>5. QED
      BY <3>2, <3>3, <3>4
  <2>3. item' \in [Rows -> {"absent", "pending", "valid", "invalid", "issued", "failed"}]
    BY <1>2 DEF ReadBatch, Handle, ValidationRaises, ValidateItems, SaveValidation, SaveIssue,
       Publish, RequestDies, TypeOK
  <2>4. faults' \in 0..MaxFaults /\ runs' \in Nat
    <3>1. faults \in 0..MaxFaults /\ runs \in Nat /\ MaxFaults \in Nat
      BY DEF TypeOK, BulkAssumption
    <3>2. /\ faults' = faults \/ (faults < MaxFaults /\ faults' = faults + 1)
          /\ runs' = runs \/ runs' = runs + 1
      BY <1>2, Zenon DEF ReadBatch, Handle, ValidationRaises, ValidateItems, SaveValidation,
         SaveIssue, Publish, RequestDies, work
    <3>3. QED
      BY <3>1, <3>2
  <2>5. overlapped' \in BOOLEAN /\ lost' \in BOOLEAN
    BY <1>2, Zenon DEF ReadBatch, Handle, ValidationRaises, ValidateItems, SaveValidation,
       SaveIssue, Publish, RequestDies,
                TypeOK, Overlap
  <2>6. UNCHANGED <<uploading, task, zips, certs, addressed, deleted, open, mails, started, doubled>>
    BY <1>2 DEF ReadBatch, Handle, ValidationRaises, ValidateItems, SaveValidation, SaveIssue,
       Publish, RequestDies, work
  <2>7. QED
    BY <2>1, <2>2, <2>3, <2>4, <2>5, <2>6 DEF TypeOK
<1>3. QED
  BY <1>1, <1>2

\* The certificate a run has in hand.
LEMMA InHandIs ==
    ASSUME BulkAssumption, IInv, NEW w \in Working
    PROVE  /\ w \in Workers /\ task[w] \in Run
           /\ task[w].run \in 1..Cardinality(Requests) /\ task[w].run \in Nat
           /\ task[w].left \in SUBSET Present
           /\ task[w].pc \in {"item", "mail", "count"} => task[w].row \in Present
           /\ task[w].pc \in {"item", "mail"} =>
                <<task[w].row, task[w].run>> \in certs /\ <<task[w].row, task[w].run>> \notin doubled
<1> USE DEF IInv
<1>1. w \in Workers /\ task[w] \in Run
  BY DEF Working
<1>2. started \in 0..Cardinality(Requests) /\ Cardinality(Requests) \in Nat /\ task[w].run \in 1..started
  BY FiniteSets DEF RunsApart, TypeOK
<1>3. /\ task[w].left \subseteq Present
      /\ task[w].pc \in {"item", "mail", "count"} => task[w].row \in Done(w)
      /\ task[w].pc \in {"item", "mail"} => task[w].row \in RunIssued(w) \ RunTwice(w)
  BY DEF RunsKept, RunKept, Covered
<1>4. task[w].run \in 1..Cardinality(Requests) /\ task[w].run \in Nat
  BY <1>2
<1>5. QED
  BY <1>1, <1>3, <1>4 DEF RunIssued, RunTwice, Done, Present

LEMMA RunTypes ==
    ASSUME BulkAssumption, IInv, NEW w \in Workers,
           \/ \E r \in Rows : RowInvalid(w, r) \/ RowIssued(w, r) \/ RowRefused(w, r)
           \/ RowRaises(w) \/ SaveItem(w) \/ QueueMail(w) \/ SaveCounts(w) \/ Finish(w) \/ QueueZip(w)
           \/ ItemFails(w) \/ MailFails(w)
    PROVE  /\ TypeOK' /\ w \in Working
           /\ task'[w] \in Run \cup {None}
           /\ \A v \in Workers \ {w} : task'[v] = task[v]
<1> USE DEF IInv
<1>1. \E pc \in RunSteps : Holds(w, pc)
  BY DEF RowInvalid, RowIssued, RowRefused, RowRaises, SaveItem, QueueMail, SaveCounts, Finish, QueueZip,
         ItemFails, MailFails, RunSteps
<1>2. w \in Working /\ task[w] \in Run /\ TypeOK
  BY <1>1, HoldsRun
<1>3. /\ task[w].run \in 1..Cardinality(Requests) /\ task[w].run \in Nat
      /\ task[w].pc \in {"item", "mail", "count"} => task[w].row \in Rows
      /\ task[w].pc \in {"item", "mail"} => <<task[w].row, task[w].run>> \in certs
  BY <1>2, InHandIs DEF Present
<1>4. task[w].copy \in Batch /\ task[w].left \in SUBSET Rows
      /\ task[w].success \in Nat /\ task[w].errors \in Nat
  BY <1>2 DEF Run
<1>5. Cardinality(Present \ task[w].left) \in Nat
  BY FiniteSets DEF Present
<1>6. \A b \in Batch : Counted(b, task[w]) \in Batch
  BY <1>4, <1>5 DEF Counted, Batch, Present
<1>7. PICK t : Do(w, t) /\ t \in Run \cup {None}
  <2>1. CASE \E r \in Rows : RowInvalid(w, r) \/ RowIssued(w, r) \/ RowRefused(w, r)
    <3>1. PICK r \in Rows : RowInvalid(w, r) \/ RowIssued(w, r) \/ RowRefused(w, r)
      BY <2>1
    <3>2. [task[w] EXCEPT !.pc = "count", !.row = r, !.left = @ \ {r}, !.errors = @ + 1] \in Run
      BY <1>2, RowUpdates DEF RunSteps
    <3>3. [task[w] EXCEPT !.pc = "item", !.row = r, !.left = @ \ {r}] \in Run
      BY <1>2, RowUpdates DEF RunSteps
    <3>4. QED
      BY <3>1, <3>2, <3>3 DEF RowInvalid, RowIssued, RowRefused, Failed
  <2>2. CASE SaveItem(w) \/ QueueMail(w)
    <3>1. [task[w] EXCEPT !.pc = "mail", !.success = @ + 1] \in Run
          /\ [task[w] EXCEPT !.pc = "count"] \in Run
      BY <1>2, RunUpdates DEF RunSteps
    <3>2. QED
      BY <2>2, <3>1 DEF SaveItem, QueueMail
  <2>3. CASE SaveCounts(w)
    <3>1. Counted(task[w].copy, task[w]) \in Batch
      BY <1>4, <1>6
    <3>2. [task[w] EXCEPT !.pc = "row", !.row = None, !.copy = Counted(@, task[w])] \in Run
      BY <1>2, <3>1, RunUpdates DEF RunSteps
    <3>3. QED
      BY <2>3, <3>2 DEF SaveCounts
  <2>4. CASE Finish(w) \/ QueueZip(w) \/ RowRaises(w)
    <3>1. [task[w] EXCEPT !.pc = "zip"] \in Run
      BY <1>2, RunUpdates DEF RunSteps
    <3>2. QED
      BY <2>4, <3>1 DEF Finish, QueueZip, RowRaises
  <2>5. CASE ItemFails(w) \/ MailFails(w)
    <3>1. [task[w] EXCEPT !.pc = "count", !.errors = @ + 1] \in Run
      BY <1>2, RunUpdates DEF RunSteps
    <3>2. QED
      BY <2>5, <3>1 DEF ItemFails, MailFails
  <2>6. QED
    BY <2>1, <2>2, <2>3, <2>4, <2>5
<1>8. task' \in [Workers -> Run \cup Builder \cup {None}] /\ task'[w] \in Run \cup {None}
      /\ \A v \in Workers \ {w} : task'[v] = task[v]
  BY <1>7, DoOne
<1>9. batch' \in Batch
  <2>1. CASE SaveCounts(w)
    BY <1>6, <2>1 DEF SaveCounts, TypeOK
  <2>2. CASE Finish(w)
    BY <1>4, <2>2 DEF Finish, Batch, Outcome
  <2>3. CASE ~SaveCounts(w) /\ ~Finish(w)
    BY <2>3 DEF TypeOK, RowInvalid, RowIssued, RowRefused, RowRaises, SaveItem, QueueMail,
       QueueZip, ItemFails, MailFails
  <2>4. QED
    BY <2>1, <2>2, <2>3
<1>10. item' \in [Rows -> {"absent", "pending", "valid", "invalid", "issued", "failed"}]
  BY DEF TypeOK, RowInvalid, RowIssued, RowRefused, RowRaises, Failed, SaveItem, QueueMail,
     SaveCounts, Finish,
         QueueZip, ItemFails, MailFails
<1>11. /\ certs' \subseteq Certs /\ mails' \subseteq certs' /\ doubled' \subseteq certs'
       /\ addressed' \subseteq certs' /\ deleted' \subseteq certs'
  <2>1. \A r \in Rows : <<r, task[w].run>> \in Certs
    BY <1>3 DEF Certs
  <2>2. CASE \E r \in Rows : RowIssued(w, r)
    BY <2>1, <2>2 DEF RowIssued, TypeOK
  <2>3. CASE QueueMail(w) \/ MailFails(w)
    BY <1>3, <2>3, HoldsRun DEF QueueMail, MailFails, Holds, TypeOK
  <2>4. CASE ~QueueMail(w) /\ ~MailFails(w) /\ ~\E r \in Rows : RowIssued(w, r)
    BY <2>4 DEF TypeOK, RowInvalid, RowRefused, RowRaises, SaveItem, SaveCounts, Finish, QueueZip, ItemFails
  <2>5. QED
    BY <2>2, <2>3, <2>4
<1>12. faults' \in 0..MaxFaults /\ zips' \in Nat /\ lost' \in BOOLEAN
  <2>1. /\ faults \in 0..MaxFaults /\ zips \in Nat /\ MaxFaults \in Nat
    BY DEF TypeOK, BulkAssumption
  <2>2. /\ faults' = faults \/ (faults < MaxFaults /\ faults' = faults + 1)
        /\ zips' = zips \/ zips' = zips + 1
    BY Zenon DEF RowInvalid, RowIssued, RowRefused, RowRaises, SaveItem, QueueMail, SaveCounts,
                 Finish, QueueZip, ItemFails, MailFails
  <2>3. lost' \in BOOLEAN
    BY Zenon DEF RowInvalid, RowIssued, RowRefused, RowRaises, SaveItem, QueueMail, SaveCounts,
                 Finish, QueueZip, ItemFails, MailFails, TypeOK
  <2>4. QED
    BY <2>1, <2>2, <2>3
<1>13. UNCHANGED <<uploading, request, overlapped, runs, open, started>>
  BY DEF requests, RowInvalid, RowIssued, RowRefused, RowRaises, SaveItem, QueueMail, SaveCounts, Finish,
         QueueZip, ItemFails, MailFails
<1>14. QED
  BY <1>2, <1>8, <1>9, <1>10, <1>11, <1>12, <1>13 DEF TypeOK

\* A worker takes a run that is asked for, and nothing of it is done yet.
LEMMA TakeRunIs ==
    ASSUME BulkAssumption, IInv, NEW w \in Workers, TakeRun(w)
    PROVE  /\ TypeOK' /\ w \in Working'
           /\ \A v \in Workers \ {w} : task'[v] = task[v]
           /\ started' = started + 1 /\ runs' = runs - 1 /\ runs > 0
           /\ task[w] = None
           /\ task'[w].pc = "row" /\ task'[w].copy = batch /\ task'[w].left = Present
           /\ task'[w].run = started + 1 /\ task'[w].success = 0 /\ task'[w].errors = 0
           /\ UNCHANGED <<batch, item, certs, deleted, doubled, faults, uploading, request>>
<1> USE DEF IInv
<1> DEFINE t == [pc |-> "row", copy |-> batch, left |-> Present, row |-> None,
                 run |-> started + 1, success |-> 0, errors |-> 0]
<1>1. started \in Nat /\ runs \in Nat /\ runs > 0 /\ Cardinality(Requests) \in Nat
  <2>1. Cardinality(Requests) \in Nat
    BY FiniteSets
  <2>2. QED
    BY <2>1 DEF TakeRun, TypeOK
<1>2. Cardinality(Undone) \in Nat
  BY FiniteSets DEF Undone
<1>3. started + 1 \in 0..Cardinality(Requests)
  BY <1>1, <1>2 DEF RunsCounted
<1>4. t \in Run
  BY <1>1 DEF Run, TypeOK, Present
<1>5. Do(w, t)
  BY DEF TakeRun, Present
<1>6. /\ started' = started + 1 /\ runs' = runs - 1 /\ runs' \in Nat /\ task[w] = None
      /\ UNCHANGED <<batch, item, uploading, request, zips, certs, addressed, deleted, open,
                     mails, doubled, faults, lost, overlapped>>
  BY <1>1 DEF TakeRun, requests
<1> HIDE DEF t
<1>7. /\ task' \in [Workers -> Run \cup Builder \cup {None}] /\ task'[w] = t
      /\ \A v \in Workers \ {w} : task'[v] = task[v]
  BY <1>4, <1>5, DoOne
<1>8. TypeOK'
  BY <1>3, <1>6, <1>7 DEF TypeOK
<1>9. w \in Working'
  BY <1>4, <1>7 DEF Working
<1>10. QED
  BY <1>1, <1>6, <1>7, <1>8, <1>9 DEF t

\* What builds a ZIP file, dies or closes the organization leaves the runs of the others.
LEMMA BuildTypes ==
    ASSUME BulkAssumption, IInv, NEW w \in Workers,
           TakeZip(w) \/ BuildZip(w) \/ SaveZip(w) \/ WorkerDies(w)
    PROVE  /\ TypeOK'
           /\ task'[w] \in Builder \cup {None} /\ w \notin Working'
           /\ \A v \in Workers \ {w} : task'[v] = task[v]
<1> USE DEF IInv
<1>1. [pc |-> "build", found |-> {}] \in Builder /\ [pc |-> "built", found |-> certs \ deleted] \in Builder
  BY DEF Builder, TypeOK
<1>2. PICK t \in Builder \cup {None} : Do(w, t)
  BY <1>1 DEF TakeZip, BuildZip, SaveZip, WorkerDies
<1>3. task' \in [Workers -> Run \cup Builder \cup {None}] /\ task'[w] = t
      /\ \A v \in Workers \ {w} : task'[v] = task[v]
  BY <1>2, DoOne
<1>4. t \notin Run
  BY NoneAssumption DEF Run, Builder
<1>5. batch' \in Batch
  <2>1. CASE SaveZip(w)
    <3>1. task[w].found \in SUBSET Certs
      BY <2>1, HoldsRun DEF SaveZip, Builder
    <3>2. QED
      BY <2>1, <3>1 DEF SaveZip, TypeOK, Batch
  <2>2. CASE ~SaveZip(w)
    BY <2>2 DEF TakeZip, BuildZip, WorkerDies, TypeOK
  <2>3. QED
    BY <2>1, <2>2
<1>6. faults' \in 0..MaxFaults /\ zips' \in Nat
  <2>1. faults \in 0..MaxFaults /\ zips \in Nat /\ MaxFaults \in Nat
    BY DEF TypeOK, BulkAssumption
  <2>2. /\ faults' = faults \/ (faults < MaxFaults /\ faults' = faults + 1)
        /\ zips' = zips \/ (zips > 0 /\ zips' = zips - 1)
    BY Zenon DEF TakeZip, BuildZip, SaveZip, WorkerDies
  <2>3. QED
    BY <2>1, <2>2
<1>7. lost' \in BOOLEAN
  BY Zenon DEF TakeZip, BuildZip, SaveZip, WorkerDies, TypeOK
<1>8. UNCHANGED <<item, uploading, request, runs, certs, addressed, deleted, open, mails, started,
                  doubled, overlapped>>
  BY DEF TakeZip, BuildZip, SaveZip, WorkerDies, requests
<1>9. QED
  BY <1>3, <1>4, <1>5, <1>6, <1>7, <1>8 DEF TypeOK, Working

-----------------------------------------------------------------------------
(* Counts and rows                                                           *)

\* More certificates and more of them counted twice only make room.
LEMMA FitsOn ==
    ASSUME BulkAssumption, TypeOK, TypeOK', certs \subseteq certs', doubled \subseteq doubled'
    PROVE  /\ Cardinality(certs) <= Cardinality(certs') /\ Cardinality(certs) \in Nat
           /\ Cardinality(certs') \in Nat
           /\ Cardinality(doubled) <= Cardinality(doubled') /\ Cardinality(doubled) \in Nat
           /\ Cardinality(doubled') \in Nat
<1>1. certs \in SUBSET Certs /\ certs' \in SUBSET Certs /\ doubled \in SUBSET Certs /\ doubled' \in SUBSET Certs
  BY DEF TypeOK, Certs
<1>2. IsFiniteSet(certs') /\ IsFiniteSet(doubled')
  BY <1>1, FiniteSets
<1>3. QED
  BY <1>1, <1>2, FiniteSets, FS_Subset

LEMMA BatchesFit ==
    ASSUME BulkAssumption, TypeOK, TypeOK', certs \subseteq certs', doubled \subseteq doubled',
           NEW b \in Batch, Fits(b)
    PROVE  /\ b.success + b.errors >= b.processed
           /\ b.success + b.errors <= b.processed + Cardinality(doubled')
           /\ b.success <= Cardinality(certs')
<1>1. b.success \in Nat /\ b.errors \in Nat /\ b.processed \in Nat
  BY DEF Batch
<1>2. QED
  BY <1>1, FitsOn DEF Fits

\* A run that is not touched stays as it is.
LEMMA RunStays ==
    ASSUME BulkAssumption, TypeOK, TypeOK', NEW v \in Working, RunKept(v), task'[v] = task[v],
           Present' = Present, certs \subseteq certs', doubled \subseteq doubled',
           deleted \subseteq deleted',
           \A r \in Rows : <<r, task[v].run>> \in certs' => <<r, task[v].run>> \in certs,
           \A r \in Rows : <<r, task[v].run>> \in doubled' => <<r, task[v].run>> \in doubled,
           faults' = 0 => faults = 0
    PROVE  RunKept(v)'
<1>1. Done(v)' = Done(v) /\ RunIssued(v)' = RunIssued(v) /\ RunTwice(v)' = RunTwice(v) /\ InHand(v)' = InHand(v)
  BY DEF Done, RunIssued, RunTwice, InHand
<1>2. Covered(v)'
  BY <1>1 DEF RunKept, Covered
<1>3. Tallied(v)'
  BY <1>1 DEF RunKept, Tallied
<1>4. Credited(v)'
  BY <1>1 DEF RunKept, Credited
<1>5. Fits(task[v].copy)'
  <2>1. task[v].copy \in Batch /\ Fits(task[v].copy)
    BY DEF Working, Run, RunKept
  <2>2. QED
    BY <2>1, BatchesFit DEF Fits
<1>6. QED
  BY <1>2, <1>3, <1>4, <1>5 DEF RunKept

\* What a step of a request leaves in it.
LEMMA RequestFields ==
    ASSUME TypeOK, NEW q \in Requests, ReadBatch(q) \/ Handle(q) \/ RequestDies(q)
    PROVE  /\ \A p \in Requests \ {q} : request'[p] = request[p]
           /\ ValidationRaises(q) \/ SaveValidation(q) \/ Publish(q) \/ RequestDies(q) => request'[q].pc = "done"
           /\ ReadBatch(q) =>
                /\ request'[q].mapping \in Mappings \cup {Alias} /\ request'[q].copy = batch
                /\ request'[q].pc \in {"validate", "issue"}
                /\ request'[q].pc = "issue" => Overlap(q)
           /\ ValidateItems(q) => Holding(q) /\ request'[q].pc = "validated"
           /\ SaveIssue(q) => Holding(q) /\ request'[q].pc = "publish"
           /\ ValidateItems(q) \/ SaveIssue(q) =>
                request'[q].mapping = request[q].mapping /\ request'[q].copy = request[q].copy
<1>1. request \in [Requests -> Request] /\ request[q] \in Request
  BY DEF TypeOK
<1>2. ASSUME ReadBatch(q)
      PROVE  /\ \A p \in Requests \ {q} : request'[p] = request[p]
             /\ request'[q].mapping \in Mappings \cup {Alias} /\ request'[q].copy = batch
             /\ request'[q].pc \in {"validate", "issue"}
             /\ request'[q].pc = "issue" => Overlap(q)
  <2>1. PICK pc \in {"validate", "issue"}, m \in Mappings \cup {batch.mapping} :
          /\ request' = [request EXCEPT ![q] = [pc |-> pc, mapping |-> m, copy |-> batch]]
          /\ pc = "issue" => Overlap(q)
    BY <1>2 DEF ReadBatch
  <2>2. batch.mapping \in Mappings \cup {Alias}
    BY DEF TypeOK, Batch
  <2>3. QED
    BY <1>1, <2>1, <2>2
<1>3. ASSUME NEW pc, GoTo(q, pc)
      PROVE  /\ \A p \in Requests \ {q} : request'[p] = request[p]
             /\ request'[q].pc = pc
             /\ request'[q].mapping = request[q].mapping /\ request'[q].copy = request[q].copy
  BY <1>1, <1>3 DEF GoTo, Request
<1>4. ASSUME ValidateItems(q)
      PROVE  /\ \A p \in Requests \ {q} : request'[p] = request[p]
             /\ Holding(q) /\ request'[q].pc = "validated"
             /\ request'[q].mapping = request[q].mapping /\ request'[q].copy = request[q].copy
  BY <1>3, <1>4 DEF ValidateItems, At, Holding
<1>5. ASSUME SaveIssue(q)
      PROVE  /\ \A p \in Requests \ {q} : request'[p] = request[p]
             /\ Holding(q) /\ request'[q].pc = "publish"
             /\ request'[q].mapping = request[q].mapping /\ request'[q].copy = request[q].copy
  BY <1>3, <1>5 DEF SaveIssue, At, Holding
<1>6. ASSUME ValidationRaises(q) \/ SaveValidation(q) \/ Publish(q) \/ RequestDies(q)
      PROVE  /\ \A p \in Requests \ {q} : request'[p] = request[p]
             /\ request'[q].pc = "done"
  BY <1>1, <1>6 DEF ValidationRaises, SaveValidation, Publish, RequestDies, End
<1>7. QED
  BY <1>2, <1>4, <1>5, <1>6 DEF Handle

\* Uploads and requests: a request begins with the counts there are and saves them again.
LEMMA UploadKeeps ==
    ASSUME BulkAssumption, IInv, UploadBatch \/ UploadItems \/ UploadDies
    PROVE  IInv'
<1> USE DEF IInv
<1>1. TypeOK'
  BY RequestTypes
<1>2. /\ UNCHANGED <<request, task, certs, deleted, doubled, started, runs>>
      /\ faults' = 0 => faults = 0
  BY DEF UploadBatch, UploadItems, UploadDies, work, TypeOK
<1>3. Working' = Working /\ Undone' = Undone
  BY <1>2 DEF Working, Undone, At
<1>4. /\ \A q \in Requests : At(q, "new") /\ At(q, "new")'
      /\ runs = 0 /\ Working = {}
      /\ UploadItems \/ UploadDies => batch.status = "draft" /\ batch' = batch /\ uploading' = None
      /\ UploadBatch => batch'.status = "draft" /\ item' = item
  BY <1>2 DEF Early, At, UploadBatch, UploadItems, UploadDies, TypeOK, Batch
<1>5. Early'
  BY <1>2, <1>3, <1>4 DEF Early
<1>6. RequestsHold' /\ RunsCounted' /\ RunsApart' /\ RunsKept'
  <2>1. \A q \in Requests : ~Holding(q)'
    BY <1>4 DEF At, Holding
  <2>2. QED
    BY <1>2, <1>3, <1>4, <2>1 DEF RequestsHold, RunsCounted, RunsApart, RunsKept
<1>7. Fits(batch)' /\ CompletedMeansIssued'
  <2>1. batch'.success = batch.success /\ batch'.errors = batch.errors /\ batch'.processed = batch.processed
    BY DEF UploadBatch, UploadItems, UploadDies, TypeOK, Batch
  <2>2. batch'.status # "completed"
    BY <1>4
  <2>3. QED
    BY <1>2, <2>1, <2>2 DEF Fits, CompletedMeansIssued
<1>8. QED
  BY <1>1, <1>5, <1>6, <1>7

LEMMA RequestKeeps ==
    ASSUME BulkAssumption, IInv, NEW q \in Requests, ReadBatch(q) \/ Handle(q) \/ RequestDies(q)
    PROVE  IInv'
<1> USE DEF IInv
<1>1. TypeOK'
  BY RequestTypes
<1>2. /\ UNCHANGED <<uploading, task, certs, deleted, doubled, started>>
      /\ faults' = 0 => faults = 0
  <2>1. faults \in Nat
    BY DEF TypeOK
  <2>2. /\ UNCHANGED <<uploading, task, certs, deleted, doubled, started>>
        /\ faults' = faults \/ faults' = faults + 1
    BY Zenon DEF ReadBatch, Handle, ValidationRaises, ValidateItems, SaveValidation, SaveIssue,
       Publish, RequestDies, work
  <2>3. QED
    BY <2>1, <2>2
<1>3. batch.status # "absent" /\ uploading = None /\ ~At(q, "done")
  BY DEF ReadBatch, Handle, ValidationRaises, ValidateItems, SaveValidation, SaveIssue, Publish,
     RequestDies, Early, At
<1>4. /\ request \in [Requests -> Request]
      /\ \A p \in Requests \ {q} : request'[p] = request[p]
      /\ ValidationRaises(q) \/ SaveValidation(q) \/ Publish(q) \/ RequestDies(q) => request'[q].pc = "done"
      /\ ReadBatch(q) => /\ request'[q].mapping \in Mappings \cup {Alias} /\ request'[q].copy = batch
                         /\ request'[q].pc # "done"
      /\ ValidateItems(q) \/ SaveIssue(q) =>
            /\ Holding(q) /\ request'[q].pc # "done"
            /\ request'[q].mapping = request[q].mapping /\ request'[q].copy = request[q].copy
  <2>1. request \in [Requests -> Request]
    BY DEF TypeOK
  <2>2. QED
    BY <2>1, RequestFields
<1>5. Present' = Present
  <2>1. CASE ValidateItems(q)
    <3>1. \A r \in Rows : item'[r] # "absent" <=> item[r] # "absent"
      BY <2>1 DEF ValidateItems, Valid
    <3>2. QED
      BY <3>1 DEF Present
  <2>2. CASE ~ValidateItems(q)
    BY <2>2 DEF ReadBatch, Handle, ValidationRaises, SaveValidation, SaveIssue, Publish,
       RequestDies, Present
  <2>3. QED
    BY <2>1, <2>2
<1>6. \/ batch' = batch
      \/ SaveValidation(q) /\ batch' = [batch EXCEPT !.mapping = request[q].mapping, !.status = "validating"]
      \/ /\ SaveIssue(q)
         /\ \E mail \in BOOLEAN :
              batch' = [request[q].copy EXCEPT !.mapping = request[q].mapping,
                                               !.mail = mail, !.status = "processing"]
  BY DEF ReadBatch, Handle, ValidationRaises, ValidateItems, SaveValidation, SaveIssue, Publish, RequestDies
<1>7. RequestsHold'
  <2>1. ASSUME NEW p \in Requests, Holding(p)'
        PROVE  /\ request'[p].mapping \in Mappings \cup {Alias}
               /\ request'[p].copy \in Batch /\ Fits(request[p].copy)'
    <3>1. CASE p # q
      <4>1. Holding(p) /\ request'[p] = request[p]
        BY <1>4, <2>1, <3>1 DEF Holding
      <4>2. request[p].mapping \in Mappings \cup {Alias} /\ request[p].copy \in Batch /\ Fits(request[p].copy)
        BY <4>1 DEF RequestsHold
      <4>3. QED
        BY <1>2, <4>1, <4>2 DEF Fits
    <3>2. CASE p = q /\ ReadBatch(q)
      BY <1>2, <1>4, <3>2 DEF TypeOK, Fits
    <3>3. CASE p = q /\ (ValidateItems(q) \/ SaveIssue(q))
      <4>1. request[q].mapping \in Mappings \cup {Alias} /\ request[q].copy \in Batch /\ Fits(request[q].copy)
        BY <1>4, <3>3 DEF RequestsHold
      <4>2. QED
        BY <1>2, <1>4, <3>3, <4>1 DEF Fits
    <3>4. QED
      BY <1>4, <2>1, <3>1, <3>2, <3>3 DEF Holding, Handle
  <2>2. QED
    BY <2>1 DEF RequestsHold
<1>8. RunsCounted'
  <2>1. started \in Nat /\ runs \in Nat /\ Cardinality(Requests) \in Nat /\ Cardinality(Undone) \in Nat
    <3>1. started \in Nat /\ runs \in Nat
      BY DEF TypeOK
    <3>2. QED
      BY <3>1, FiniteSets DEF Undone
  <2>2. CASE ValidationRaises(q) \/ SaveValidation(q) \/ Publish(q) \/ RequestDies(q)
    <3>1. End(q)
      BY <2>2 DEF ValidationRaises, SaveValidation, Publish, RequestDies
    <3>2. Cardinality(Undone') = Cardinality(Undone) - 1
      BY <1>3, <3>1, PublishedOnce
    <3>3. started' = started /\ (runs' = runs \/ runs' = runs + 1)
      BY <1>2, <2>2 DEF ValidationRaises, SaveValidation, Publish, RequestDies, work
    <3>4. QED
      BY <2>1, <3>2, <3>3 DEF RunsCounted
  <2>3. CASE ReadBatch(q) \/ ValidateItems(q) \/ SaveIssue(q)
    <3>1. request'[q].pc # "done"
      BY <1>4, <2>3
    <3>2. Undone' = Undone
      BY <1>3, <1>4, <3>1 DEF Undone, At
    <3>3. runs' = runs
      BY <2>3 DEF ReadBatch, ValidateItems, SaveIssue, work
    <3>4. QED
      BY <1>2, <3>2, <3>3 DEF RunsCounted
  <2>4. QED
    BY <2>2, <2>3 DEF Handle
<1>9. RunsApart' /\ RunsKept'
  <2>1. Working' = Working
    BY <1>2 DEF Working
  <2>2. \A v \in Working : RunKept(v)'
    BY <1>1, <1>2, <1>5, RunStays DEF RunsKept
  <2>3. QED
    BY <1>2, <2>1, <2>2 DEF RunsApart, RunsKept
<1>10. batch'.status # "absent" /\ (batch'.status = "completed" => batch' = batch)
  <2>1. CASE SaveIssue(q)
    BY <1>6, <2>1 DEF SaveIssue, At, Holding, RequestsHold, Batch
  <2>2. CASE ~SaveIssue(q)
    BY <1>3, <1>6, <2>2 DEF TypeOK, Batch
  <2>3. QED
    BY <2>1, <2>2
<1>11. Early'
  BY <1>2, <1>3, <1>10 DEF Early
<1>12. Fits(batch)'
  <2>1. CASE batch' = batch
    BY <1>2, <2>1 DEF Fits
  <2>2. CASE SaveValidation(q) /\ batch' = [batch EXCEPT !.mapping = request[q].mapping, !.status = "validating"]
    BY <1>2, <2>2 DEF Fits, TypeOK, Batch
  <2>3. CASE SaveIssue(q)
    <3>1. request[q].copy \in Batch /\ Fits(request[q].copy)
      BY <2>3 DEF SaveIssue, At, Holding, RequestsHold
    <3>2. batch'.success = request[q].copy.success /\ batch'.errors = request[q].copy.errors
          /\ batch'.processed = request[q].copy.processed
      BY <2>3, <3>1 DEF SaveIssue, Batch
    <3>3. QED
      BY <1>2, <3>1, <3>2 DEF Fits
  <2>4. QED
    BY <1>6, <2>1, <2>2, <2>3
<1>13. CompletedMeansIssued'
  <2>1. \A r \in Rows : item'[r] = "absent" <=> item[r] = "absent"
    BY <1>5 DEF Present
  <2>2. QED
    BY <1>2, <1>10, <2>1 DEF CompletedMeansIssued
<1>14. QED
  BY <1>1, <1>7, <1>8, <1>9, <1>11, <1>12, <1>13

\* A run has issued no more than there is.
LEMMA RowsOfRun ==
    ASSUME BulkAssumption, NEW n, NEW S \in SUBSET Certs
    PROVE  Cardinality({r \in Rows : <<r, n>> \in S}) <= Cardinality(S)
<1> DEFINE T == {r \in Rows : <<r, n>> \in S}
           f == [r \in T |-> <<r, n>>]
<1>1. f \in Injection(T, S)
  BY DEF Injection, IsInjective
<1>2. IsFiniteSet(S)
  BY FiniteSets
<1>3. QED
  BY <1>1, <1>2, FS_Injection

LEMMA RunCounts ==
    ASSUME BulkAssumption, TypeOK, NEW w \in Working
    PROVE  /\ Cardinality(RunIssued(w)) <= Cardinality(certs)
           /\ Cardinality(RunTwice(w)) <= Cardinality(doubled)
           /\ IsFiniteSet(RunIssued(w)) /\ IsFiniteSet(RunTwice(w)) /\ IsFiniteSet(Done(w))
           /\ Cardinality(RunIssued(w)) \in Nat /\ Cardinality(RunTwice(w)) \in Nat
           /\ Cardinality(Done(w)) \in Nat /\ Cardinality(certs) \in Nat /\ Cardinality(doubled) \in Nat
           /\ task[w].success \in Nat /\ task[w].errors \in Nat
           /\ RunTwice(w) \subseteq RunIssued(w)
<1>1. certs \in SUBSET Certs /\ doubled \in SUBSET Certs /\ doubled \subseteq certs
  BY DEF TypeOK
<1>2. /\ Cardinality(RunIssued(w)) <= Cardinality(certs)
      /\ Cardinality(RunTwice(w)) <= Cardinality(doubled)
  BY <1>1, RowsOfRun DEF RunIssued, RunTwice
<1>3. RunIssued(w) \in SUBSET Rows /\ RunTwice(w) \in SUBSET Rows /\ Done(w) \in SUBSET Rows
  BY DEF RunIssued, RunTwice, Done, Present
<1>4. task[w].success \in Nat /\ task[w].errors \in Nat
  BY DEF Working, Run
<1>5. RunTwice(w) \subseteq RunIssued(w)
  BY <1>1 DEF RunIssued, RunTwice
<1>6. QED
  BY <1>1, <1>2, <1>3, <1>4, <1>5, FiniteSets

\* What a run saves fits.
LEMMA CountsFit ==
    ASSUME BulkAssumption, TypeOK, NEW w \in Working, Tallied(w), task[w].pc # "item",
           NEW b, b.processed = Cardinality(Done(w)), b.success = task[w].success, b.errors = task[w].errors
    PROVE  Fits(b)
<1>1. InHand(w) = 0
  BY DEF InHand
<1>2. /\ Cardinality(RunIssued(w)) <= Cardinality(certs) /\ Cardinality(RunIssued(w)) \in Nat
      /\ Cardinality(RunTwice(w)) <= Cardinality(doubled) /\ Cardinality(RunTwice(w)) \in Nat
      /\ Cardinality(Done(w)) \in Nat /\ Cardinality(certs) \in Nat /\ Cardinality(doubled) \in Nat
      /\ task[w].success \in Nat /\ task[w].errors \in Nat
  BY RunCounts
<1>3. /\ task[w].success + task[w].errors = Cardinality(Done(w)) + Cardinality(RunTwice(w))
      /\ task[w].success <= Cardinality(RunIssued(w))
  BY <1>1, <1>2 DEF Tallied
<1>4. QED
  BY <1>2, <1>3 DEF Fits

RunStep(w) ==
    \/ \E r \in Rows : RowInvalid(w, r) \/ RowIssued(w, r) \/ RowRefused(w, r)
    \/ RowRaises(w) \/ SaveItem(w) \/ QueueMail(w) \/ SaveCounts(w) \/ Finish(w) \/ QueueZip(w)
    \/ ItemFails(w) \/ MailFails(w)

\* A step of a run, seen from outside.
LEMMA RunFrame ==
    ASSUME BulkAssumption, IInv, NEW w \in Workers, RunStep(w)
    PROVE  /\ TypeOK' /\ w \in Working /\ Working' \subseteq Working
           /\ \A v \in Workers \ {w} : task'[v] = task[v]
           /\ w \in Working' => task'[w].run = task[w].run
           /\ UNCHANGED <<uploading, request, runs, started, overlapped, deleted>>
           /\ faults' = 0 => faults = 0
           /\ Present' = Present
           /\ certs' = certs \/ \E r \in Rows : certs' = certs \cup {<<r, task[w].run>>}
           /\ doubled' = doubled \/ doubled' = doubled \cup {<<task[w].row, task[w].run>>}
<1> USE DEF IInv
<1>1. /\ TypeOK' /\ w \in Working /\ task'[w] \in Run \cup {None}
      /\ \A v \in Workers \ {w} : task'[v] = task[v]
  BY RunTypes DEF RunStep
<1>2. Working' \subseteq Working
  BY <1>1 DEF Working
<1>3. UNCHANGED <<uploading, request, runs, started, overlapped, deleted>>
  BY DEF RunStep, requests, RowInvalid, RowIssued, RowRefused, RowRaises, SaveItem, QueueMail,
     SaveCounts, Finish,
         QueueZip, ItemFails, MailFails
<1>4. faults' = 0 => faults = 0
  <2>1. faults \in Nat
    BY DEF TypeOK
  <2>2. faults' = faults \/ faults' = faults + 1
    BY Zenon DEF RunStep, RowInvalid, RowIssued, RowRefused, RowRaises, SaveItem, QueueMail, SaveCounts,
                 Finish, QueueZip, ItemFails, MailFails
  <2>3. QED
    BY <2>1, <2>2
<1>5. /\ certs' = certs \/ \E r \in Rows : certs' = certs \cup {<<r, task[w].run>>}
      /\ doubled' = doubled \/ doubled' = doubled \cup {<<task[w].row, task[w].run>>}
  BY Zenon DEF RunStep, RowInvalid, RowIssued, RowRefused, RowRaises, SaveItem, QueueMail, SaveCounts,
               Finish, QueueZip, ItemFails, MailFails
<1>6. \/ item' = item
      \/ \E r \in Present, s \in {"issued", "failed", "invalid"} : item' = [item EXCEPT ![r] = s]
  <2>1. task[w].left \in SUBSET Present
        /\ (task[w].pc \in {"item", "mail"} => task[w].row \in Present)
    BY <1>1, InHandIs
  <2>2. CASE \E r \in Rows : RowInvalid(w, r) \/ RowRefused(w, r)
    BY <2>1, <2>2 DEF RowInvalid, RowRefused, Failed
  <2>3. CASE SaveItem(w) \/ ItemFails(w) \/ MailFails(w)
    BY <2>1, <2>3 DEF SaveItem, ItemFails, MailFails, Holds
  <2>4. CASE \/ \E r \in Rows : RowIssued(w, r)
             \/ RowRaises(w) \/ QueueMail(w) \/ SaveCounts(w) \/ Finish(w) \/ QueueZip(w)
    <3>1. item' = item
      BY <2>4 DEF RowIssued, RowRaises, QueueMail, SaveCounts, Finish, QueueZip
    <3>2. QED
      BY <3>1
  <2>5. QED
    BY <2>2, <2>3, <2>4 DEF RunStep
<1>7. Present' = Present
  BY <1>6 DEF Present, TypeOK
<1>8. w \in Working' => task'[w].run = task[w].run
  <2>1. task[w] \in Run
    BY <1>1 DEF Working
  <2>2. \A t : Do(w, t) => task'[w] = t
    BY DEF Do, TypeOK
  <2>3. task'[w] = None \/ task'[w].run = task[w].run
    <3>1. CASE \E r \in Rows : RowInvalid(w, r) \/ RowIssued(w, r) \/ RowRefused(w, r)
      BY <3>1, StepFields
    <3>2. CASE SaveItem(w) \/ QueueMail(w) \/ ItemFails(w) \/ MailFails(w)
      BY <3>2, StepFields
    <3>3. CASE SaveCounts(w) \/ Finish(w) \/ QueueZip(w) \/ RowRaises(w)
      BY <2>1, <2>2, <3>3 DEF SaveCounts, Finish, QueueZip, RowRaises, Run
    <3>4. QED
      BY <3>1, <3>2, <3>3 DEF RunStep
  <2>4. QED
    BY <2>3, NoneAssumption DEF Working
<1>9. QED
  BY <1>1, <1>2, <1>3, <1>4, <1>5, <1>7, <1>8

\* The other runs do not see it.
LEMMA OthersStay ==
    ASSUME BulkAssumption, IInv, NEW w \in Workers, RunStep(w)
    PROVE  \A v \in Working' \ {w} : RunKept(v)'
<1> USE DEF IInv
<1>1. /\ TypeOK' /\ w \in Working /\ Working' \subseteq Working
      /\ \A v \in Workers \ {w} : task'[v] = task[v]
      /\ faults' = 0 => faults = 0
      /\ Present' = Present /\ deleted' = deleted
      /\ certs' = certs \/ \E r \in Rows : certs' = certs \cup {<<r, task[w].run>>}
      /\ doubled' = doubled \/ doubled' = doubled \cup {<<task[w].row, task[w].run>>}
  BY RunFrame
<1>2. TAKE v \in Working' \ {w}
<1>3. v \in Working /\ v \in Workers /\ task'[v] = task[v] /\ RunKept(v)
  BY <1>1, <1>2 DEF Working, RunsKept
<1>4. task[v].run # task[w].run
  BY <1>1, <1>2, <1>3 DEF RunsApart
<1>5. /\ certs \subseteq certs' /\ doubled \subseteq doubled'
      /\ \A r \in Rows : <<r, task[v].run>> \in certs' => <<r, task[v].run>> \in certs
      /\ \A r \in Rows : <<r, task[v].run>> \in doubled' => <<r, task[v].run>> \in doubled
  BY <1>1, <1>4
<1>6. QED
  BY <1>1, <1>3, <1>5, RunStays

\* A step of a run keeps everything once the run itself is well, and what it saves.
LEMMA RunKeeps ==
    ASSUME BulkAssumption, IInv, NEW w \in Workers, RunStep(w),
           w \in Working' => RunKept(w)',
           batch' = batch \/ (batch'.status # "absent" /\ Fits(batch)' /\ CompletedMeansIssued')
    PROVE  IInv'
<1> USE DEF IInv
<1>1. /\ TypeOK' /\ w \in Working /\ Working' \subseteq Working
      /\ \A v \in Workers \ {w} : task'[v] = task[v]
      /\ w \in Working' => task'[w].run = task[w].run
      /\ UNCHANGED <<uploading, request, runs, started, overlapped, deleted>>
      /\ Present' = Present
      /\ certs' = certs \/ \E r \in Rows : certs' = certs \cup {<<r, task[w].run>>}
      /\ doubled' = doubled \/ doubled' = doubled \cup {<<task[w].row, task[w].run>>}
  BY RunFrame
<1>2. certs \subseteq certs' /\ doubled \subseteq doubled'
  BY <1>1
<1>3. batch.status # "absent" /\ uploading = None
  BY <1>1 DEF Early
<1>4. Early'
  BY <1>1, <1>3 DEF Early
<1>5. RequestsHold'
  <2>1. ASSUME NEW q \in Requests, Holding(q)'
        PROVE  /\ request'[q].mapping \in Mappings \cup {Alias}
               /\ request'[q].copy \in Batch /\ Fits(request[q].copy)'
    <3>1. Holding(q) /\ request'[q] = request[q]
      BY <1>1, <2>1 DEF Holding
    <3>2. request[q].mapping \in Mappings \cup {Alias} /\ request[q].copy \in Batch /\ Fits(request[q].copy)
      BY <3>1 DEF RequestsHold
    <3>3. QED
      BY <1>1, <1>2, <3>1, <3>2, BatchesFit DEF Fits
  <2>2. QED
    BY <2>1 DEF RequestsHold
<1>6. RunsCounted'
  BY <1>1 DEF RunsCounted, Undone, At
<1>7. RunsApart'
  <2>1. task[w].run \in 1..started
    BY <1>1 DEF RunsApart
  <2>2. \A c \in certs' : c[2] <= started
    BY <1>1, <2>1 DEF RunsApart
  <2>3. \A v \in Working' : v \in Working /\ task'[v].run = task[v].run
    BY <1>1 DEF Working
  <2>4. QED
    BY <1>1, <2>2, <2>3 DEF RunsApart
<1>8. RunsKept'
  BY <1>1, OthersStay DEF RunsKept
<1>9. Fits(batch)' /\ CompletedMeansIssued'
  <2>1. CASE batch' = batch
    <3>1. Fits(batch)'
      BY <1>1, <1>2, <2>1, BatchesFit DEF Fits, TypeOK
    <3>2. \A r \in Rows : item'[r] = "absent" <=> item[r] = "absent"
      BY <1>1 DEF Present
    <3>3. CompletedMeansIssued'
      BY <1>2, <2>1, <3>2 DEF CompletedMeansIssued
    <3>4. QED
      BY <3>1, <3>3
  <2>2. QED
    BY <2>1
<1>10. QED
  BY <1>1, <1>4, <1>5, <1>6, <1>7, <1>8, <1>9

-----------------------------------------------------------------------------
(* One row                                                                   *)

\* What a step does to the sums of Tallied: it counts a row it has looked at as an error,
\* or the one in hand as an error or as a success, or a success as an error too.
LEMMA SumsKept ==
    /\ \A s, e, d, t \in Nat : s + e = d + t => s + (e + 1) + 0 = (d + 1) + t
    /\ \A s, e, d, t \in Nat : s + e + 1 = d + t => s + (e + 1) + 0 = d + t
    /\ \A s, e, d, t \in Nat : s + e + 1 = d + t => (s + 1) + e + 0 = d + t
    /\ \A s, e, d, t \in Nat : s + e = d + t => s + (e + 1) + 0 = d + (t + 1)
    /\ \A s, i \in Nat : s <= i => s + 0 <= i
    /\ \A s, i \in Nat : s + 1 <= i => s + 0 <= i /\ (s + 1) + 0 <= i
OBVIOUS

\* A row that is refused is looked at, and an error.
LEMMA RowFails ==
    ASSUME BulkAssumption, IInv, NEW w \in Workers, NEW r \in Rows, RowInvalid(w, r) \/ RowRefused(w, r)
    PROVE  IInv'
<1> USE DEF IInv
<1>1. RunStep(w) /\ UNCHANGED <<batch, certs, deleted, doubled, faults>>
  BY DEF RunStep, RowInvalid, RowRefused
<1>2. TypeOK' /\ w \in Working /\ Present' = Present /\ RunKept(w)
  BY <1>1, RunFrame DEF RunsKept
<1>3. /\ task[w].pc = "row" /\ r \in task[w].left
      /\ task'[w].pc = "count" /\ task'[w].row = r /\ task'[w].left = task[w].left \ {r}
      /\ task'[w].errors = task[w].errors + 1 /\ task'[w].success = task[w].success
      /\ task'[w].run = task[w].run /\ task'[w].copy = task[w].copy
  BY StepFields
<1>4. r \in Present /\ r \notin Done(w) /\ Done(w)' = Done(w) \cup {r}
      /\ RunIssued(w)' = RunIssued(w) /\ RunTwice(w)' = RunTwice(w)
      /\ InHand(w) = 0 /\ InHand(w)' = 0
  BY <1>1, <1>2, <1>3 DEF RunKept, Covered, Done, RunIssued, RunTwice, InHand
<1>5. Covered(w)'
  <2>1. task[w].errors + 1 # 0
    BY <1>2, RunCounts
  <2>2. QED
    BY <1>2, <1>3, <1>4, <2>1 DEF RunKept, Covered
<1>6. Tallied(w)'
  <2>1. /\ IsFiniteSet(Done(w)) /\ Cardinality(Done(w)) \in Nat
        /\ Cardinality(RunTwice(w)) \in Nat /\ Cardinality(RunIssued(w)) \in Nat
        /\ task[w].success \in Nat /\ task[w].errors \in Nat
    BY <1>2, RunCounts
  <2>2. Cardinality(Done(w))' = Cardinality(Done(w)) + 1
    BY <1>4, <2>1, FS_AddElement
  <2>3. /\ task[w].success + task[w].errors = Cardinality(Done(w)) + Cardinality(RunTwice(w))
        /\ task[w].success <= Cardinality(RunIssued(w))
    BY <1>2, <1>4, <2>1 DEF RunKept, Tallied
  <2>4. /\ task'[w].success = task[w].success /\ task'[w].errors = task[w].errors + 1
        /\ InHand(w)' = 0 /\ Cardinality(RunTwice(w))' = Cardinality(RunTwice(w))
        /\ Cardinality(RunIssued(w))' = Cardinality(RunIssued(w))
    BY <1>3, <1>4
  <2>5. QED
    BY <2>1, <2>2, <2>3, <2>4, SumsKept DEF Tallied
<1>7. Credited(w)' /\ Fits(task[w].copy)'
  BY <1>1, <1>2, <1>3, <1>4 DEF RunKept, Credited, Fits
<1>8. RunKept(w)'
  BY <1>5, <1>6, <1>7 DEF RunKept
<1>9. QED
  BY <1>1, <1>8, RunKeeps

\* A certificate is issued for a row that had none of this run.
LEMMA RowIssues ==
    ASSUME BulkAssumption, IInv, NEW w \in Workers, NEW r \in Rows, RowIssued(w, r)
    PROVE  IInv'
<1> USE DEF IInv
<1>1. RunStep(w) /\ UNCHANGED <<batch, deleted, doubled, faults>> /\ certs' = certs \cup {<<r, task[w].run>>}
  BY DEF RunStep, RowIssued
<1>2. TypeOK' /\ w \in Working /\ Present' = Present /\ RunKept(w)
  BY <1>1, RunFrame DEF RunsKept
<1>3. /\ task[w].pc = "row" /\ r \in task[w].left
      /\ task'[w].pc = "item" /\ task'[w].row = r /\ task'[w].left = task[w].left \ {r}
      /\ task'[w].errors = task[w].errors /\ task'[w].success = task[w].success
      /\ task'[w].run = task[w].run /\ task'[w].copy = task[w].copy
  BY StepFields
<1>4. r \in Present /\ r \notin Done(w) /\ Done(w)' = Done(w) \cup {r}
      /\ r \notin RunIssued(w) /\ RunIssued(w)' = RunIssued(w) \cup {r}
      /\ RunTwice(w)' = RunTwice(w)
      /\ InHand(w) = 0 /\ InHand(w)' = 1
  BY <1>1, <1>2, <1>3 DEF RunKept, Covered, Done, RunIssued, RunTwice, InHand
<1>5. r \notin RunTwice(w)
  BY <1>2, <1>4, RunCounts
<1>6. Covered(w)'
  <2>1. task[w].copy.mapping # Malformed
    BY DEF RowIssued, Valid
  <2>2. QED
    BY <1>2, <1>3, <1>4, <1>5, <2>1 DEF RunKept, Covered
<1>7. Tallied(w)'
  <2>1. /\ IsFiniteSet(Done(w)) /\ Cardinality(Done(w)) \in Nat
        /\ IsFiniteSet(RunIssued(w)) /\ Cardinality(RunIssued(w)) \in Nat
        /\ Cardinality(RunTwice(w)) \in Nat
        /\ task[w].success \in Nat /\ task[w].errors \in Nat
    BY <1>2, RunCounts
  <2>2. Cardinality(Done(w) \cup {r}) = Cardinality(Done(w)) + 1
        /\ Cardinality(RunIssued(w) \cup {r}) = Cardinality(RunIssued(w)) + 1
    BY <1>4, <2>1, FS_AddElement
  <2>3. QED
    BY <1>2, <1>3, <1>4, <2>1, <2>2 DEF RunKept, Tallied
<1>8. Credited(w)'
  BY <1>1, <1>2, <1>3, <1>4 DEF RunKept, Credited
<1>9. Fits(task[w].copy)'
  <2>1. task[w].copy \in Batch /\ Fits(task[w].copy)
    BY <1>2 DEF Working, Run, RunKept
  <2>2. QED
    BY <1>1, <1>2, <1>3, <2>1, BatchesFit DEF Fits
<1>10. RunKept(w)'
  BY <1>6, <1>7, <1>8, <1>9 DEF RunKept
<1>11. QED
  BY <1>1, <1>10, RunKeeps

\* The certificate is there, or was, but its row is an error.
LEMMA ItemFailsKeeps ==
    ASSUME BulkAssumption, IInv, NEW w \in Workers, ItemFails(w)
    PROVE  IInv'
<1> USE DEF IInv
<1>1. /\ RunStep(w) /\ UNCHANGED <<batch, certs, deleted, doubled>>
      /\ faults' = faults + 1 \/ (faults' = faults /\ <<task[w].row, task[w].run>> \in deleted)
  BY DEF RunStep, ItemFails
<1>2. TypeOK' /\ w \in Working /\ Present' = Present /\ RunKept(w) /\ task[w].pc = "item" /\ faults \in Nat
  <2>1. TypeOK' /\ w \in Working /\ Present' = Present /\ RunKept(w) /\ faults \in Nat
    BY <1>1, RunFrame DEF RunsKept, TypeOK
  <2>2. QED
    BY <2>1, HoldsRun DEF ItemFails
<1>3. /\ task'[w].pc = "count" /\ task'[w].row = task[w].row /\ task'[w].left = task[w].left
      /\ task'[w].errors = task[w].errors + 1 /\ task'[w].success = task[w].success
      /\ task'[w].run = task[w].run /\ task'[w].copy = task[w].copy
  BY StepFields
<1>4. /\ Done(w)' = Done(w) /\ RunIssued(w)' = RunIssued(w) /\ RunTwice(w)' = RunTwice(w)
      /\ InHand(w) = 1 /\ InHand(w)' = 0
  BY <1>1, <1>2, <1>3 DEF Done, RunIssued, RunTwice, InHand
<1>5. /\ Cardinality(Done(w)) \in Nat /\ Cardinality(RunTwice(w)) \in Nat
      /\ Cardinality(RunIssued(w)) \in Nat
      /\ task[w].success \in Nat /\ task[w].errors \in Nat
  BY <1>2, RunCounts
<1>6. Covered(w)'
  <2>1. task[w].errors + 1 # 0
    BY <1>5
  <2>2. QED
    BY <1>2, <1>3, <1>4, <2>1 DEF RunKept, Covered
<1>7. Tallied(w)'
  <2>1. /\ task[w].success + task[w].errors + 1 = Cardinality(Done(w)) + Cardinality(RunTwice(w))
        /\ task[w].success + 1 <= Cardinality(RunIssued(w))
    BY <1>2, <1>4 DEF RunKept, Tallied
  <2>2. QED
    BY <1>3, <1>4, <1>5, <2>1, SumsKept, SMTT(30) DEF Tallied
<1>8. Credited(w)' /\ Fits(task[w].copy)'
  <2>1. Fits(task[w].copy)'
    BY <1>1, <1>2, <1>3 DEF RunKept, Fits
  <2>2. ASSUME faults' = faults + 1
        PROVE  Credited(w)'
    BY <1>2, <2>2 DEF Credited
  <2>3. ASSUME faults' = faults, <<task[w].row, task[w].run>> \in deleted
        PROVE  Credited(w)'
    BY <1>1, <1>2, <1>3, <1>4, <2>3 DEF RunKept, Credited
  <2>4. QED
    BY <1>1, <2>1, <2>2, <2>3
<1>9. RunKept(w)'
  BY <1>6, <1>7, <1>8 DEF RunKept
<1>10. QED
  BY <1>1, <1>9, RunKeeps

\* The row is a success.
LEMMA SaveItemKeeps ==
    ASSUME BulkAssumption, IInv, NEW w \in Workers, SaveItem(w)
    PROVE  IInv'
<1> USE DEF IInv
<1>1. RunStep(w) /\ UNCHANGED <<batch, certs, deleted, doubled, faults>>
  BY DEF RunStep, SaveItem
<1>2. TypeOK' /\ w \in Working /\ Present' = Present /\ RunKept(w) /\ task[w].pc = "item"
  BY <1>1, RunFrame, HoldsRun DEF RunsKept, SaveItem
<1>3. /\ task'[w].pc = "mail" /\ task'[w].row = task[w].row /\ task'[w].left = task[w].left
      /\ task'[w].errors = task[w].errors /\ task'[w].success = task[w].success + 1
      /\ task'[w].run = task[w].run /\ task'[w].copy = task[w].copy
  BY StepFields
<1>4. /\ Done(w)' = Done(w) /\ RunIssued(w)' = RunIssued(w) /\ RunTwice(w)' = RunTwice(w)
      /\ InHand(w) = 1 /\ InHand(w)' = 0
  BY <1>1, <1>2, <1>3 DEF Done, RunIssued, RunTwice, InHand
<1>5. /\ Cardinality(Done(w)) \in Nat /\ Cardinality(RunTwice(w)) \in Nat
      /\ Cardinality(RunIssued(w)) \in Nat
      /\ task[w].success \in Nat /\ task[w].errors \in Nat
  BY <1>2, RunCounts
<1>6. Covered(w)'
  BY <1>2, <1>3, <1>4 DEF RunKept, Covered
<1>7. Tallied(w)'
  <2>1. /\ task[w].success + task[w].errors + 1 = Cardinality(Done(w)) + Cardinality(RunTwice(w))
        /\ task[w].success + 1 <= Cardinality(RunIssued(w))
    BY <1>2, <1>4 DEF RunKept, Tallied
  <2>2. QED
    BY <1>3, <1>4, <1>5, <2>1, SumsKept, SMTT(30) DEF Tallied
<1>8. Credited(w)'
  <2>1. task[w].success + 1 # 0
    BY <1>5
  <2>2. QED
    BY <1>3, <2>1 DEF Credited
<1>9. Fits(task[w].copy)'
  BY <1>1, <1>2, <1>3 DEF RunKept, Fits
<1>10. RunKept(w)'
  BY <1>6, <1>7, <1>8, <1>9 DEF RunKept
<1>11. QED
  BY <1>1, <1>10, RunKeeps

LEMMA QueueMailKeeps ==
    ASSUME BulkAssumption, IInv, NEW w \in Workers, QueueMail(w)
    PROVE  IInv'
<1> USE DEF IInv
<1>1. RunStep(w) /\ UNCHANGED <<batch, certs, deleted, doubled, faults>>
  BY DEF RunStep, QueueMail
<1>2. TypeOK' /\ w \in Working /\ Present' = Present /\ RunKept(w) /\ task[w].pc = "mail"
  BY <1>1, RunFrame, HoldsRun DEF RunsKept, QueueMail
<1>3. /\ task'[w].pc = "count" /\ task'[w].row = task[w].row /\ task'[w].left = task[w].left
      /\ task'[w].errors = task[w].errors /\ task'[w].success = task[w].success
      /\ task'[w].run = task[w].run /\ task'[w].copy = task[w].copy
  BY StepFields
<1>4. /\ Done(w)' = Done(w) /\ RunIssued(w)' = RunIssued(w) /\ RunTwice(w)' = RunTwice(w)
      /\ InHand(w) = 0 /\ InHand(w)' = 0
  BY <1>1, <1>2, <1>3 DEF Done, RunIssued, RunTwice, InHand
<1>5. Covered(w)' /\ Tallied(w)'
  BY <1>2, <1>3, <1>4 DEF RunKept, Covered, Tallied
<1>6. Credited(w)'
  BY <1>1, <1>2, <1>3, <1>4 DEF RunKept, Credited
<1>7. Fits(task[w].copy)'
  BY <1>1, <1>2, <1>3 DEF RunKept, Fits
<1>8. RunKept(w)'
  BY <1>5, <1>6, <1>7 DEF RunKept
<1>9. QED
  BY <1>1, <1>8, RunKeeps

\* The row is a success and an error.
LEMMA MailFailsKeeps ==
    ASSUME BulkAssumption, IInv, NEW w \in Workers, MailFails(w)
    PROVE  IInv'
<1> USE DEF IInv
<1>1. RunStep(w) /\ UNCHANGED <<batch, certs>> /\ faults' = faults + 1
      /\ doubled' = doubled \cup {<<task[w].row, task[w].run>>}
  BY DEF RunStep, MailFails
<1>2. TypeOK' /\ w \in Working /\ Present' = Present /\ RunKept(w) /\ task[w].pc = "mail" /\ faults \in Nat
  BY <1>1, RunFrame, HoldsRun DEF RunsKept, MailFails, TypeOK
<1>3. /\ task'[w].pc = "count" /\ task'[w].row = task[w].row /\ task'[w].left = task[w].left
      /\ task'[w].errors = task[w].errors + 1 /\ task'[w].success = task[w].success
      /\ task'[w].run = task[w].run /\ task'[w].copy = task[w].copy
  BY StepFields
<1>4. task[w].row \in Rows /\ task[w].row \in Done(w) /\ task[w].row \notin RunTwice(w)
  BY <1>2 DEF RunKept, Covered, Done, Present
<1>5. /\ Done(w)' = Done(w) /\ RunIssued(w)' = RunIssued(w)
      /\ RunTwice(w)' = RunTwice(w) \cup {task[w].row}
      /\ InHand(w) = 0 /\ InHand(w)' = 0
  BY <1>1, <1>2, <1>3, <1>4 DEF Done, RunIssued, RunTwice, InHand
<1>6. /\ Cardinality(Done(w)) \in Nat /\ Cardinality(RunTwice(w)) \in Nat
      /\ Cardinality(RunIssued(w)) \in Nat /\ IsFiniteSet(RunTwice(w))
      /\ task[w].success \in Nat /\ task[w].errors \in Nat
  BY <1>2, RunCounts
<1>7. Covered(w)'
  <2>1. task[w].errors + 1 # 0
    BY <1>6
  <2>2. QED
    BY <1>2, <1>3, <1>5, <2>1 DEF RunKept, Covered
<1>8. Tallied(w)'
  <2>1. /\ task[w].success + task[w].errors = Cardinality(Done(w)) + Cardinality(RunTwice(w))
        /\ task[w].success <= Cardinality(RunIssued(w))
    BY <1>2, <1>5, <1>6 DEF RunKept, Tallied
  <2>2. Cardinality(RunTwice(w) \cup {task[w].row}) = Cardinality(RunTwice(w)) + 1
    BY <1>4, <1>6, FS_AddElement
  <2>3. /\ task'[w].success = task[w].success /\ task'[w].errors = task[w].errors + 1
        /\ InHand(w)' = 0 /\ Cardinality(Done(w))' = Cardinality(Done(w))
        /\ Cardinality(RunTwice(w))' = Cardinality(RunTwice(w)) + 1
        /\ Cardinality(RunIssued(w))' = Cardinality(RunIssued(w))
    BY <1>3, <1>5, <2>2
  <2>4. task'[w].success + task'[w].errors + InHand(w)'
          = Cardinality(Done(w))' + Cardinality(RunTwice(w))'
    BY <1>6, <2>1, <2>3, SumsKept
  <2>5. task'[w].success + InHand(w)' <= Cardinality(RunIssued(w))'
    BY <1>6, <2>1, <2>3, SumsKept
  <2>6. QED
    BY <2>4, <2>5 DEF Tallied
<1>9. Credited(w)'
  BY <1>1, <1>2 DEF Credited
<1>10. Fits(task[w].copy)'
  <2>1. task[w].copy \in Batch /\ Fits(task[w].copy)
    BY <1>2 DEF Working, Run, RunKept
  <2>2. QED
    BY <1>1, <1>2, <1>3, <2>1, BatchesFit DEF Fits
<1>11. RunKept(w)'
  BY <1>7, <1>8, <1>9, <1>10 DEF RunKept
<1>12. QED
  BY <1>1, <1>11, RunKeeps

\* The counts of the run go into the batch, and into the run's copy of it.
LEMMA SaveCountsKeeps ==
    ASSUME BulkAssumption, IInv, NEW w \in Workers, SaveCounts(w)
    PROVE  IInv'
<1> USE DEF IInv
<1>1. RunStep(w) /\ UNCHANGED <<item, certs, deleted, doubled, faults>> /\ batch' = Counted(batch, task[w])
  BY DEF RunStep, SaveCounts
<1>2. TypeOK' /\ w \in Working /\ Present' = Present /\ RunKept(w) /\ uploading = None /\ batch.status # "absent"
  BY <1>1, RunFrame DEF RunsKept, Early
<1>3. task[w] \in Run /\ task[w].pc = "count" /\ batch \in Batch /\ task[w].copy \in Batch
  <2>1. task[w] \in Run
    BY <1>2 DEF Working
  <2>2. task[w].pc = "count"
    BY HoldsRun DEF SaveCounts
  <2>3. QED
    BY <2>1, <2>2 DEF Run, TypeOK
<1>4. \A b \in Batch :
        /\ Counted(b, task[w]).processed = Cardinality(Done(w))
        /\ Counted(b, task[w]).success = task[w].success
        /\ Counted(b, task[w]).errors = task[w].errors
        /\ Counted(b, task[w]).status = b.status
        /\ Counted(b, task[w]).mapping = b.mapping
  BY DEF Counted, Batch, Done, Present
<1>5. task'[w] = [task[w] EXCEPT !.pc = "row", !.row = None, !.copy = Counted(@, task[w])]
  BY DEF SaveCounts, Do, TypeOK
<1>6. /\ task'[w].pc = "row" /\ task'[w].left = task[w].left
      /\ task'[w].errors = task[w].errors /\ task'[w].success = task[w].success
      /\ task'[w].run = task[w].run /\ task'[w].copy = Counted(task[w].copy, task[w])
  BY <1>3, <1>5 DEF Run
<1>7. /\ Done(w)' = Done(w) /\ RunIssued(w)' = RunIssued(w) /\ RunTwice(w)' = RunTwice(w)
      /\ InHand(w) = 0 /\ InHand(w)' = 0
  BY <1>1, <1>2, <1>3, <1>6 DEF Done, RunIssued, RunTwice, InHand
<1>8. Covered(w)' /\ Tallied(w)'
  <2>1. task'[w].copy.mapping = task[w].copy.mapping
    BY <1>3, <1>4, <1>6
  <2>2. QED
    BY <1>2, <1>6, <1>7, <2>1 DEF RunKept, Covered, Tallied
<1>9. Credited(w)'
  BY <1>1, <1>2, <1>3, <1>6, <1>7 DEF RunKept, Credited
<1>10. \A b \in Batch : Fits(Counted(b, task[w]))
  BY <1>2, <1>3, <1>4, CountsFit DEF RunKept
<1>11. Fits(task[w].copy)' /\ Fits(batch)'
  BY <1>1, <1>3, <1>6, <1>10 DEF Fits
<1>12. RunKept(w)'
  BY <1>8, <1>9, <1>11 DEF RunKept
<1>13. batch'.status = batch.status /\ CompletedMeansIssued'
  BY <1>1, <1>3, <1>4 DEF CompletedMeansIssued
<1>14. QED
  BY <1>1, <1>2, <1>11, <1>12, <1>13, RunKeeps

\* No row is left: without an error every row has its certificate.
LEMMA FinishKeeps ==
    ASSUME BulkAssumption, IInv, NEW w \in Workers, Finish(w)
    PROVE  IInv'
<1> USE DEF IInv
<1>1. RunStep(w) /\ UNCHANGED <<item, certs, deleted, doubled, faults>>
      /\ batch' = [task[w].copy EXCEPT !.status = Outcome(task[w])]
  BY DEF RunStep, Finish
<1>2. TypeOK' /\ w \in Working /\ Present' = Present /\ RunKept(w)
  BY <1>1, RunFrame DEF RunsKept
<1>3. task[w] \in Run /\ task[w].pc = "row" /\ task[w].left = {} /\ task[w].copy \in Batch
  <2>1. task[w] \in Run
    BY <1>2 DEF Working
  <2>2. task[w].pc = "row"
    BY HoldsRun DEF Finish
  <2>3. QED
    BY <2>1, <2>2 DEF Run, Finish
<1>4. RunKept(w)' \/ w \notin Working'
  <2>1. task'[w] = IF task[w].success > 0 THEN [task[w] EXCEPT !.pc = "zip"] ELSE None
    BY DEF Finish, Do, TypeOK
  <2>2. CASE task[w].success > 0
    <3>1. /\ task'[w].pc = "zip" /\ task'[w].left = task[w].left
          /\ task'[w].errors = task[w].errors /\ task'[w].success = task[w].success
          /\ task'[w].run = task[w].run /\ task'[w].copy = task[w].copy
      BY <1>3, <2>1, <2>2 DEF Run
    <3>2. /\ Done(w)' = Done(w) /\ RunIssued(w)' = RunIssued(w) /\ RunTwice(w)' = RunTwice(w)
          /\ InHand(w) = 0 /\ InHand(w)' = 0
      BY <1>1, <1>2, <1>3, <3>1 DEF Done, RunIssued, RunTwice, InHand
    <3>3. Covered(w)' /\ Tallied(w)' /\ Fits(task[w].copy)'
      BY <1>1, <1>2, <3>1, <3>2 DEF RunKept, Covered, Tallied, Fits
    <3>4. Credited(w)'
      <4>1. task[w].success # 0
        BY <1>3, <2>2 DEF Run
      <4>2. QED
        BY <3>1, <4>1 DEF Credited
    <3>5. QED
      BY <3>3, <3>4 DEF RunKept
  <2>3. CASE ~(task[w].success > 0)
    BY <2>1, <2>3, NoneAssumption DEF Working
  <2>4. QED
    BY <2>2, <2>3
<1>5. /\ batch'.success = task[w].copy.success /\ batch'.errors = task[w].copy.errors
      /\ batch'.processed = task[w].copy.processed /\ batch'.status = Outcome(task[w])
  BY <1>1, <1>3 DEF Batch
<1>6. Fits(batch)'
  BY <1>1, <1>2, <1>5 DEF RunKept, Fits
<1>7. batch'.status # "absent"
  BY <1>5 DEF Outcome
<1>8. CompletedMeansIssued'
  <2>1. ASSUME batch'.status = "completed", NEW r \in Rows, item'[r] # "absent"
        PROVE  \E c \in certs' : c[1] = r
    <3>1. task[w].errors = 0
      BY <1>5, <2>1 DEF Outcome
    <3>2. r \in Done(w)
      BY <1>1, <1>3, <2>1 DEF Done, Present
    <3>3. <<r, task[w].run>> \in certs
      BY <1>2, <3>1, <3>2 DEF RunKept, Covered, RunIssued
    <3>4. QED
      BY <1>1, <3>3
  <2>2. QED
    BY <2>1 DEF CompletedMeansIssued
<1>9. QED
  BY <1>1, <1>4, <1>6, <1>7, <1>8, RunKeeps

LEMMA RunEnds ==
    ASSUME BulkAssumption, IInv, NEW w \in Workers, QueueZip(w) \/ RowRaises(w)
    PROVE  IInv'
<1>1. RunStep(w) /\ batch' = batch
  BY DEF RunStep, QueueZip, RowRaises
<1>2. task'[w] = None
  BY DEF QueueZip, RowRaises, Do, TypeOK, IInv
<1>3. w \notin Working'
  BY <1>2, NoneAssumption DEF Working
<1>4. QED
  BY <1>1, <1>3, RunKeeps

-----------------------------------------------------------------------------
(* Steps that are not those of a run                                         *)

\* A new run has issued nothing, since its number is new.
LEMMA TakeRunKeeps ==
    ASSUME BulkAssumption, IInv, NEW w \in Workers, TakeRun(w)
    PROVE  IInv'
<1> USE DEF IInv
<1>1. /\ TypeOK' /\ w \in Working'
      /\ \A v \in Workers \ {w} : task'[v] = task[v]
      /\ started' = started + 1 /\ runs' = runs - 1 /\ runs > 0
      /\ task[w] = None
      /\ task'[w].pc = "row" /\ task'[w].copy = batch /\ task'[w].left = Present
      /\ task'[w].run = started + 1 /\ task'[w].success = 0 /\ task'[w].errors = 0
      /\ UNCHANGED <<batch, item, certs, deleted, doubled, faults, uploading, request>>
  BY TakeRunIs
<1>2. started \in Nat /\ runs \in Nat /\ \A v \in Working : task[v].run \in Nat
  BY DEF TypeOK, Working, Run
<1>3. /\ w \notin Working /\ Working' = Working \cup {w}
      /\ \A v \in Working : v # w /\ v \in Workers /\ task'[v] = task[v] /\ task[v].run # started + 1
  <2>1. w \notin Working
    BY <1>1, NoneIsNoTask
  <2>2. \A v \in Working : task[v].run # started + 1
    BY <1>2 DEF RunsApart
  <2>3. QED
    BY <1>1, <2>1, <2>2 DEF Working
<1>4. Present' = Present
  BY <1>1 DEF Present
<1>5. RunIssued(w)' = {} /\ RunTwice(w)' = {} /\ Done(w)' = {} /\ InHand(w)' = 0
  <2>1. \A r \in Rows : <<r, started + 1>> \notin certs
    <3>1. ASSUME NEW r \in Rows, <<r, started + 1>> \in certs
          PROVE  FALSE
      <4>1. <<r, started + 1>>[2] <= started
        BY <3>1 DEF RunsApart
      <4>2. QED
        BY <1>2, <4>1
    <3>2. QED
      BY <3>1
  <2>2. doubled \subseteq certs
    BY DEF TypeOK
  <2>3. QED
    BY <1>1, <1>4, <2>1, <2>2 DEF RunIssued, RunTwice, Done, InHand
<1>6. RunKept(w)'
  <2>1. Cardinality({}) = 0
    BY FS_EmptySet
  <2>2. Covered(w)'
    BY <1>1, <1>4, <1>5 DEF Covered
  <2>3. Tallied(w)'
    BY <1>1, <1>5, <2>1 DEF Tallied
  <2>4. Credited(w)' /\ Fits(task[w].copy)'
    BY <1>1, <1>5 DEF Credited, Fits
  <2>5. QED
    BY <2>2, <2>3, <2>4 DEF RunKept
<1>7. RunsKept'
  <2>1. \A v \in Working : RunKept(v)'
    BY <1>1, <1>3, <1>4, RunStays DEF RunsKept
  <2>2. QED
    BY <1>3, <1>6, <2>1 DEF RunsKept
<1>8. RunsApart'
  <2>1. \A v \in Working' : task'[v].run \in 1..started'
    BY <1>1, <1>2, <1>3 DEF RunsApart
  <2>2. \A u, v \in Working' : task'[u].run = task'[v].run => u = v
    BY <1>1, <1>3 DEF RunsApart
  <2>3. \A c \in certs' : c[2] <= started'
    <3>1. \A c \in certs : c[2] \in Nat /\ c[2] <= started
      BY DEF RunsApart, TypeOK, Certs
    <3>2. QED
      BY <1>1, <1>2, <3>1
  <2>4. QED
    BY <2>1, <2>2, <2>3 DEF RunsApart
<1>9. Early'
  BY <1>1 DEF Early
<1>10. RunsCounted'
  <2>1. Undone' = Undone /\ Cardinality(Undone) \in Nat /\ Cardinality(Requests) \in Nat
    BY <1>1, FiniteSets DEF Undone, At
  <2>2. QED
    BY <1>1, <1>2, <2>1 DEF RunsCounted
<1>11. RequestsHold' /\ Fits(batch)' /\ CompletedMeansIssued'
  BY <1>1 DEF RequestsHold, Holding, Fits, CompletedMeansIssued
<1>12. QED
  BY <1>1, <1>7, <1>8, <1>9, <1>10, <1>11

\* The other tasks touch nothing that a run counts.
LEMMA BuildKeeps ==
    ASSUME BulkAssumption, IInv, NEW w \in Workers,
           TakeZip(w) \/ BuildZip(w) \/ SaveZip(w) \/ WorkerDies(w)
    PROVE  IInv'
<1> USE DEF IInv
<1>1. /\ TypeOK' /\ w \notin Working'
      /\ \A v \in Workers \ {w} : task'[v] = task[v]
  BY BuildTypes
<1>2. /\ UNCHANGED <<item, certs, deleted, doubled, uploading, request, runs, started>>
      /\ faults' = 0 => faults = 0
  <2>1. faults \in Nat
    BY DEF TypeOK
  <2>2. /\ UNCHANGED <<item, certs, deleted, doubled, uploading, request, runs, started>>
        /\ faults' = faults \/ faults' = faults + 1
    BY Zenon DEF TakeZip, BuildZip, SaveZip, WorkerDies, requests
  <2>3. QED
    BY <2>1, <2>2
<1>3. \A v \in Working' : v \in Working /\ v \in Workers /\ task'[v] = task[v]
  BY <1>1 DEF Working
<1>4. Present' = Present /\ Undone' = Undone
  BY <1>2 DEF Present, Undone, At
<1>5. RunsKept'
  <2>1. \A v \in Working' : RunKept(v)'
    BY <1>1, <1>2, <1>3, <1>4, RunStays DEF RunsKept
  <2>2. QED
    BY <2>1 DEF RunsKept
<1>6. RunsApart' /\ RunsCounted' /\ RequestsHold'
  BY <1>2, <1>3, <1>4 DEF RunsApart, RunsCounted, RequestsHold, Holding, Fits
<1>7. /\ batch'.status = batch.status /\ batch'.success = batch.success
      /\ batch'.errors = batch.errors /\ batch'.processed = batch.processed
  <2>1. batch' = batch \/ batch' = [batch EXCEPT !.zip = task[w].found]
    BY Zenon DEF TakeZip, BuildZip, SaveZip, WorkerDies
  <2>2. QED
    BY <2>1 DEF TypeOK, Batch
<1>8. Early' /\ Fits(batch)' /\ CompletedMeansIssued'
  BY <1>2, <1>3, <1>7 DEF Early, At, Fits, CompletedMeansIssued
<1>9. QED
  BY <1>1, <1>5, <1>6, <1>8

LEMMA EnvironmentKeeps ==
    ASSUME BulkAssumption, IInv, Close \/ (\E c \in certs : DeleteCertificate(c)) \/ UNCHANGED vars
    PROVE  IInv'
<1> USE DEF IInv
<1>1. /\ UNCHANGED <<batch, item, certs, addressed, doubled, mails, zips, lost, overlapped>>
      /\ UNCHANGED <<uploading, request, task, runs, started, faults>>
      /\ deleted \subseteq deleted' /\ deleted' \subseteq certs
  BY DEF Close, DeleteCertificate, requests, vars, TypeOK
<1> open' \in BOOLEAN
  BY Zenon DEF Close, DeleteCertificate, vars, TypeOK
<1>2. TypeOK' /\ Working' = Working /\ Present' = Present /\ Undone' = Undone
  BY <1>1 DEF TypeOK, Working, Present, Undone, At
<1>3. RunsKept'
  <2>1. \A v \in Working : RunKept(v)'
    BY <1>1, <1>2, RunStays DEF RunsKept
  <2>2. QED
    BY <1>2, <2>1 DEF RunsKept
<1>4. Early' /\ RunsApart' /\ RunsCounted' /\ RequestsHold' /\ Fits(batch)' /\ CompletedMeansIssued'
  BY <1>1, <1>2 DEF Early, At, RunsApart, RunsCounted, RequestsHold, Holding, Fits, CompletedMeansIssued
<1>5. QED
  BY <1>2, <1>3, <1>4

-----------------------------------------------------------------------------
(* The invariant                                                             *)

LEMMA InitIInv ==
    ASSUME BulkAssumption, Init
    PROVE  IInv
<1>1. Cardinality({}) = 0 /\ Cardinality(Requests) \in Nat
  BY FS_EmptySet, FiniteSets
<1>2. TypeOK
  <2>1. batch \in Batch
    BY DEF Init, Batch
  <2>2. request \in [Requests -> Request]
    BY DEF Init, Request
  <2>3. open \in BOOLEAN /\ lost \in BOOLEAN /\ overlapped \in BOOLEAN
    BY Zenon DEF Init
  <2>4. /\ item \in [Rows -> {"absent", "pending", "valid", "invalid", "issued", "failed"}]
        /\ uploading \in {None} \cup SUBSET Rows
        /\ task \in [Workers -> Run \cup Builder \cup {None}]
        /\ runs \in Nat /\ zips \in Nat
        /\ certs \subseteq Certs /\ mails \subseteq certs /\ doubled \subseteq certs
        /\ addressed \subseteq certs /\ deleted \subseteq certs
        /\ faults \in 0..MaxFaults /\ started \in 0..Cardinality(Requests)
    BY <1>1 DEF Init, BulkAssumption
  <2>5. QED
    BY <2>1, <2>2, <2>3, <2>4 DEF TypeOK
<1>3. Working = {} /\ Undone = Requests /\ \A q \in Requests : At(q, "new") /\ ~Holding(q)
  BY NoneAssumption DEF Init, Working, Undone, At, Holding
<1>4. Early /\ RequestsHold /\ RunsApart /\ RunsKept /\ CompletedMeansIssued
  BY <1>3 DEF Init, Early, RequestsHold, RunsApart, RunsKept, CompletedMeansIssued
<1>5. RunsCounted
  BY <1>1, <1>3 DEF Init, RunsCounted
<1>6. Fits(batch)
  BY <1>1 DEF Init, Fits
<1>7. QED
  BY <1>2, <1>4, <1>5, <1>6 DEF IInv

LEMMA NextIInv ==
    ASSUME BulkAssumption, IInv, [Next]_vars
    PROVE  IInv'
<1>1. CASE UploadBatch \/ UploadItems \/ UploadDies
  BY <1>1, UploadKeeps
<1>2. CASE \E q \in Requests : ReadBatch(q) \/ Handle(q) \/ RequestDies(q)
  BY <1>2, RequestKeeps
<1>3. ASSUME NEW w \in Workers, Work(w) \/ MailFails(w) \/ WorkerDies(w)
      PROVE  IInv'
  <2>1. CASE \E r \in Rows : RowInvalid(w, r) \/ RowIssued(w, r) \/ RowRefused(w, r)
    BY <2>1, RowFails, RowIssues
  <2>2. CASE SaveItem(w) \/ QueueMail(w) \/ ItemFails(w) \/ MailFails(w)
    BY <2>2, SaveItemKeeps, QueueMailKeeps, ItemFailsKeeps, MailFailsKeeps
  <2>3. CASE SaveCounts(w) \/ Finish(w) \/ QueueZip(w) \/ RowRaises(w)
    BY <2>3, SaveCountsKeeps, FinishKeeps, RunEnds
  <2>4. CASE TakeRun(w) \/ TakeZip(w) \/ BuildZip(w) \/ SaveZip(w) \/ WorkerDies(w)
    BY <2>4, TakeRunKeeps, BuildKeeps
  <2>5. QED
    BY <1>3, <2>1, <2>2, <2>3, <2>4 DEF Work
<1>4. CASE Close \/ (\E c \in certs : DeleteCertificate(c)) \/ UNCHANGED vars
  BY <1>4, EnvironmentKeeps
<1>5. QED
  BY <1>1, <1>2, <1>3, <1>4 DEF Next

LEMMA Invariant == BulkAssumption => (Spec => []IInv)
<1>1. SUFFICES ASSUME BulkAssumption
               PROVE  Spec => []IInv
  OBVIOUS
<1>2. Init => IInv
  BY <1>1, InitIInv
<1>3. IInv /\ [Next]_vars => IInv'
  BY <1>1, NextIInv
<1>4. QED
  BY <1>2, <1>3, PTL DEF Spec

\* Types: above all that a run's number never exceeds the number of requests, that
\* what is mailed or counted twice is a certificate, and that the columns a request
\* or a run saves (views.py:441, tasks.py:107) are those of a batch.
THEOREM TypeCorrect == BulkAssumption => (Spec => []TypeOK)
<1>1. IInv => TypeOK
  BY DEF IInv
<1>2. QED
  BY <1>1, Invariant, PTL

\* COMPLETED is only shown when a certificate was issued for every row that has an item:
\* for any table, any number of overlapping runs, validations and uploads, and any crash
\* (tasks.py:97-101).  The run that says so has seen every row and refused none; what
\* another run or a request saves over it says "completed" only if its own copy did,
\* and no request's does.
THEOREM CompletedIsIssued == BulkAssumption => (Spec => []CompletedMeansIssued)
<1>1. IInv => CompletedMeansIssued
  BY DEF IInv
<1>2. QED
  BY <1>1, Invariant, PTL

\* The counts of the dashboard fit together, whichever run or request saved them last
\* (tasks.py:83-96): every set of counts that somebody holds fits, and goes on fitting.
THEOREM CountsFitTogether == BulkAssumption => (Spec => []CountsAddUp)
<1>1. IInv => CountsAddUp
  BY DEF IInv, Fits, CountsAddUp
<1>2. QED
  BY <1>1, Invariant, PTL

-----------------------------------------------------------------------------
(* Alone: no process died, the broker did not fail and nobody asked for a run   *)
(* while another one was on its way                                            *)

Busy(w)    == task[w] # None
Issuing(q) == At(q, "issue") \/ At(q, "publish")
Rowing(w)  == w \in Working /\ task[w].pc # "zip"
OfRun(n)   == {c \in certs : c[2] = n}

\* What a ZIP file lacks, and the e-mails a run still has to queue.
Missing(zip) == certs \ (zip \cup deleted)
Owed(n)      == (OfRun(n) \cap addressed) \ (mails \cup deleted)

\* One message, worker or request at a time has the batch.
Alone ==
    /\ runs + zips <= 1
    /\ \A v, w \in Workers : Busy(v) /\ Busy(w) => v = w
    /\ \A p, q \in Requests : Issuing(p) /\ Issuing(q) => p = q
    /\ (\E w \in Workers : Busy(w)) \/ (\E q \in Requests : Issuing(q)) => runs = 0 /\ zips = 0
    /\ \A w \in Workers, q \in Requests : ~(Busy(w) /\ Issuing(q))

\* Where the certificates are that the ZIP file lacks: with the run, or with the builder.
Zipless(w) == \A zip \in {task[w].copy.zip, batch.zip} : Missing(zip) \subseteq OfRun(task[w].run)

Collected ==
    /\ zips = 0 /\ (\A w \in Workers : ~Busy(w)) => Missing(batch.zip) = {}
    /\ \A q \in Requests : At(q, "issue") => Missing(request[q].copy.zip) = {}
    /\ \A w \in Workers : Rowing(w) => Zipless(w)
    /\ \A w \in Workers : Holds(w, "built") => Missing(task[w].found) = {}

Sent(w) ==
    task[w].copy.mail =>
        \A c \in Owed(task[w].run) : task[w].pc \in {"item", "mail"} /\ c[1] = task[w].row

Mailed ==
    /\ \A w \in Working : task[w].run = started
    /\ \A w \in Workers : Rowing(w) => Sent(w)
    /\ (\A w \in Workers : ~Rowing(w)) /\ runs = 0 /\ (\A q \in Requests : ~At(q, "publish")) /\ batch.mail =>
         Owed(started) = {}

Complete == Alone /\ Collected /\ Mailed

CInv == faults = 0 /\ ~overlapped => Complete

\* Who has the batch alone.
LEMMA AloneWorks ==
    ASSUME TypeOK, Alone, NEW w \in Workers, Busy(w)
    PROVE  /\ \A v \in Workers \ {w} : task[v] = None
           /\ runs = 0 /\ zips = 0 /\ \A q \in Requests : ~Issuing(q)
BY DEF Alone, Busy

LEMMA AloneIssues ==
    ASSUME TypeOK, Alone, NEW q \in Requests, Issuing(q)
    PROVE  /\ \A w \in Workers : task[w] = None
           /\ runs = 0 /\ zips = 0 /\ \A p \in Requests \ {q} : ~Issuing(p)
BY DEF Alone, Busy

LEMMA AloneWaits ==
    ASSUME TypeOK, Alone, runs > 0 \/ zips > 0
    PROVE  /\ \A w \in Workers : task[w] = None
           /\ \A q \in Requests : ~Issuing(q)
           /\ runs > 0 => runs = 1 /\ zips = 0
           /\ zips > 0 => runs = 0 /\ zips = 1
BY DEF Alone, Busy, TypeOK

\* A task that is nothing is not at work.
LEMMA NothingToDo ==
    ASSUME NEW w \in Workers, task[w] = None
    PROVE  ~Busy(w) /\ ~Rowing(w) /\ w \notin Working /\ ~Holds(w, "built")
BY NoneIsNoTask DEF Busy, Rowing, Holds

LEMMA NothingToDoNext ==
    ASSUME NEW w \in Workers, task'[w] = None
    PROVE  ~Busy(w)' /\ ~Rowing(w)' /\ w \notin Working' /\ ~Holds(w, "built")'
<1>1. w \notin Working'
  BY NoneAssumption DEF Working
<1>2. QED
  BY <1>1 DEF Busy, Rowing, Holds

LEMMA UploadComplete ==
    ASSUME IInv, Complete, UploadBatch \/ UploadItems \/ UploadDies
    PROVE  Complete'
<1>1. /\ UNCHANGED <<request, task, runs, zips, register, mails, started>>
      /\ batch'.zip = batch.zip /\ batch'.mail = batch.mail
  BY DEF UploadBatch, UploadItems, UploadDies, work, IInv, TypeOK, Batch
<1>2. QED
  BY <1>1 DEF Complete, Alone, Collected, Mailed, Busy, Issuing, At, Rowing, Working, Holds, Sent,
     Owed, Missing, Zipless, OfRun

\* A request that reads the batch to start a run finds nothing on its way.
LEMMA ReadBatchComplete ==
    ASSUME IInv, Complete, NEW q \in Requests, ReadBatch(q), ~overlapped'
    PROVE  Complete'
<1> USE DEF IInv, Complete
<1>1. /\ UNCHANGED <<batch, task, runs, zips, register, mails, started>>
      /\ runs \in Nat /\ zips \in Nat
  BY DEF ReadBatch, work, TypeOK
<1>2. /\ \A p \in Requests \ {q} : request'[p] = request[p]
      /\ request'[q].copy = batch /\ request'[q].pc \in {"validate", "issue"}
      /\ request'[q].pc = "issue" => Overlap(q)
      /\ ~Issuing(q) /\ ~At(q, "publish")
  BY RequestFields DEF ReadBatch, At, Issuing
<1>3. CASE request'[q].pc = "validate"
  <2>1. /\ \A p \in Requests : Issuing(p)' <=> Issuing(p)
        /\ \A p \in Requests : At(p, "publish")' <=> At(p, "publish")
        /\ \A p \in Requests : At(p, "issue")' => At(p, "issue") /\ request'[p] = request[p]
    BY <1>2, <1>3 DEF Issuing, At
  <2>2. Alone'
    BY <1>1, <2>1 DEF Alone, Busy
  <2>3. Collected' /\ Mailed'
    BY <1>1, <2>1 DEF Collected, Mailed, Busy, Rowing, Working, Holds, Sent, Owed, Missing, Zipless, OfRun
  <2>4. QED
    BY <2>2, <2>3
<1>4. CASE request'[q].pc = "issue"
  <2>1. /\ runs = 0 /\ zips = 0 /\ \A w \in Workers : task[w] = None
        /\ \A p \in Requests \ {q} : ~Issuing(p)
    <3>1. ~RunUnderWay /\ ~\E p \in Requests \ {q} : At(p, "issue") \/ At(p, "publish")
      BY <1>2, <1>4 DEF Overlap
    <3>2. QED
      BY <1>1, <3>1 DEF RunUnderWay, Issuing
  <2>2. \A w \in Workers : ~Busy(w)' /\ ~Rowing(w)' /\ w \notin Working' /\ ~Holds(w, "built")'
    BY <1>1, <2>1, NothingToDoNext
  <2>3. /\ \A p \in Requests : Issuing(p)' => p = q
        /\ \A p \in Requests : ~At(p, "publish")' /\ ~At(p, "publish")
        /\ \A w \in Workers : ~Busy(w) /\ ~Rowing(w)
    BY <1>2, <1>4, <2>1, NothingToDo DEF Issuing, At
  <2>4. Alone'
    BY <1>1, <2>1, <2>2, <2>3 DEF Alone
  <2>5. Missing(batch.zip) = {}
    BY <2>1, <2>3 DEF Collected
  <2>6. Collected'
    BY <1>1, <1>2, <2>2, <2>3, <2>5 DEF Collected, Issuing, Missing
  <2>7. Mailed'
    BY <1>1, <2>1, <2>2, <2>3 DEF Mailed, Owed, OfRun, Working
  <2>8. QED
    BY <2>4, <2>6, <2>7
<1>5. QED
  BY <1>2, <1>3, <1>4

\* What a request saves lacks nothing, and the run is the only one on its way.
LEMMA HandleComplete ==
    ASSUME IInv, Complete, NEW q \in Requests, Handle(q), faults' = 0, faults = 0
    PROVE  Complete'
<1> USE DEF IInv, Complete
<1>1. /\ UNCHANGED <<task, zips, register, mails, started>>
      /\ runs \in Nat /\ zips \in Nat
  BY DEF Handle, ValidationRaises, ValidateItems, SaveValidation, SaveIssue, Publish, work, TypeOK
<1>2. \A p \in Requests \ {q} : request'[p] = request[p]
  BY RequestFields
<1>3. CASE ValidationRaises(q) \/ ValidateItems(q) \/ SaveValidation(q)
  <2>1. ~Issuing(q) /\ request'[q].pc \in {"validated", "done"} /\ runs' = runs
    BY <1>3, RequestFields DEF ValidationRaises, ValidateItems, SaveValidation, At, Issuing, work
  <2>2. batch'.zip = batch.zip /\ batch'.mail = batch.mail
    BY <1>3 DEF ValidationRaises, ValidateItems, SaveValidation, TypeOK, Batch
  <2>3. /\ \A p \in Requests : Issuing(p)' <=> Issuing(p)
        /\ \A p \in Requests : At(p, "publish")' <=> At(p, "publish")
        /\ \A p \in Requests : At(p, "issue")' => At(p, "issue") /\ request'[p] = request[p]
    BY <1>2, <2>1 DEF Issuing, At
  <2>4. Alone'
    BY <1>1, <2>1, <2>3 DEF Alone, Busy
  <2>5. Collected' /\ Mailed'
    BY <1>1, <2>1, <2>2, <2>3 DEF Collected, Mailed, Busy, Rowing, Working, Holds, Sent, Owed,
       Missing, Zipless, OfRun
  <2>6. QED
    BY <2>4, <2>5
<1>4. CASE SaveIssue(q) \/ Publish(q)
  <2>1. Issuing(q)
    BY <1>4 DEF SaveIssue, Publish, Issuing
  <2>2. /\ \A w \in Workers : task[w] = None
        /\ runs = 0 /\ zips = 0 /\ \A p \in Requests \ {q} : ~Issuing(p)
    BY <2>1, AloneIssues
  <2>3. \A w \in Workers : ~Busy(w)' /\ ~Rowing(w)' /\ w \notin Working' /\ ~Holds(w, "built")'
    BY <1>1, <2>2, NothingToDoNext
  <2>4. \A w \in Workers : ~Busy(w) /\ ~Rowing(w)
    BY <2>2, NothingToDo
  <2>5. /\ \A p \in Requests : Issuing(p)' => p = q /\ SaveIssue(q)
        /\ \A p \in Requests : ~At(p, "issue")'
    <3>1. request'[q].pc \in {"publish", "done"} /\ (request'[q].pc = "publish" => SaveIssue(q))
      BY <1>4, RequestFields
    <3>2. QED
      BY <1>2, <2>2, <3>1 DEF Issuing, At
  <2>6. CASE SaveIssue(q)
    <3>1. request[q].copy \in Batch /\ Missing(request[q].copy.zip) = {}
      BY <2>6 DEF SaveIssue, At, Holding, RequestsHold, Collected
    <3>2. Missing(batch.zip)' = {}
      <4>1. batch'.zip = request[q].copy.zip
        BY <2>6, <3>1 DEF SaveIssue, Batch
      <4>2. QED
        BY <1>1, <3>1, <4>1 DEF Missing
    <3>3. runs' = runs /\ At(q, "publish")'
      BY <2>6, RequestFields DEF SaveIssue, work, At
    <3>4. Alone'
      BY <1>1, <2>2, <2>3, <2>5, <3>3 DEF Alone
    <3>5. Collected' /\ Mailed'
      BY <1>1, <2>3, <2>5, <3>2, <3>3 DEF Collected, Mailed, Working
    <3>6. QED
      BY <3>4, <3>5
  <2>7. CASE Publish(q)
    <3>1. runs' = 1 /\ batch' = batch /\ \A p \in Requests : ~Issuing(p)'
      <4>1. runs' = runs + 1
        BY <2>7, <1>1 DEF Publish
      <4>2. ~SaveIssue(q)
        BY <2>7 DEF Publish, SaveIssue, At
      <4>3. QED
        BY <2>2, <2>5, <2>7, <4>1, <4>2 DEF Publish
    <3>2. Alone'
      BY <1>1, <2>2, <2>3, <3>1 DEF Alone
    <3>3. Missing(batch.zip) = {}
      BY <2>2, <2>4 DEF Collected
    <3>4. Collected' /\ Mailed'
      BY <1>1, <2>3, <2>5, <3>1, <3>3 DEF Collected, Mailed, Working, Missing
    <3>5. QED
      BY <3>2, <3>4
  <2>8. QED
    BY <1>4, <2>6, <2>7
<1>5. QED
  BY <1>3, <1>4 DEF Handle

\* A run that goes on keeps the batch to itself.
LEMMA RunGoesOn ==
    ASSUME BulkAssumption, IInv, Complete, NEW w \in Workers, RunStep(w), UNCHANGED zips,
           task'[w] \in Run,
           Rowing(w)' => Zipless(w)' /\ Sent(w)',
           ~Rowing(w)' /\ batch'.mail => Owed(task[w].run)' = {}
    PROVE  Complete'
<1> USE DEF IInv, Complete
<1>1. /\ TypeOK' /\ w \in Working /\ w \in Working'
      /\ \A v \in Workers \ {w} : task'[v] = task[v]
      /\ task'[w].run = task[w].run
      /\ UNCHANGED <<uploading, request, runs, started>>
  BY RunFrame DEF Working
<1>2. Busy(w) /\ Busy(w)'
  BY <1>1, NoneAssumption DEF Working, Busy
<1>3. /\ runs = 0 /\ zips = 0 /\ \A q \in Requests : ~Issuing(q) /\ ~Issuing(q)' /\ ~At(q, "issue")'
      /\ \A v \in Workers \ {w} : task[v] = None
  BY <1>1, <1>2, AloneWorks DEF Issuing, At
<1>4. \A v \in Workers \ {w} : ~Busy(v)' /\ ~Rowing(v)' /\ v \notin Working' /\ ~Holds(v, "built")'
  BY <1>1, <1>3, NothingToDoNext
<1>5. ~Holds(w, "built")'
  BY DEF Holds, Run
<1>6. Alone'
  BY <1>1, <1>3, <1>4 DEF Alone
<1>7. Collected'
  BY <1>1, <1>2, <1>3, <1>4, <1>5 DEF Collected
<1>8. task'[w].run = started'
  BY <1>1 DEF Mailed
<1>9. Mailed'
  <2>1. Working' \subseteq {w}
    BY <1>4 DEF Working
  <2>2. \A v \in Workers : Rowing(v)' => Sent(v)'
    BY <1>1, <1>4
  <2>3. (\A v \in Workers : ~Rowing(v)') /\ batch'.mail => Owed(started)' = {}
    BY <1>1, <1>8 DEF Owed, OfRun
  <2>4. QED
    BY <1>8, <2>1, <2>2, <2>3 DEF Mailed
<1>10. QED
  BY <1>6, <1>7, <1>9

\* What is issued is what is missing, and its e-mail is the one to be queued.
LEMMA RowComplete ==
    ASSUME BulkAssumption, IInv, Complete, NEW w \in Workers, NEW r \in Rows,
           RowInvalid(w, r) \/ RowRefused(w, r) \/ RowIssued(w, r)
    PROVE  Complete'
<1> USE DEF IInv, Complete
<1>1. /\ RunStep(w) /\ UNCHANGED <<batch, deleted, mails, zips>>
      /\ \/ UNCHANGED <<certs, addressed>>
         \/ /\ RowIssued(w, r) /\ certs' = certs \cup {<<r, task[w].run>>}
            /\ addressed' \in {addressed, addressed \cup {<<r, task[w].run>>}}
  BY DEF RunStep, RowInvalid, RowRefused, RowIssued
<1>2. w \in Working /\ TypeOK' /\ task'[w] \in Run \cup {None} /\ task[w] \in Run
  BY RunTypes, <1>1 DEF RunStep, Working
<1>3. /\ task[w].pc = "row" /\ task'[w].pc \in {"count", "item"}
      /\ task'[w].row = r /\ (RowIssued(w, r) => task'[w].pc = "item")
      /\ task'[w].run = task[w].run /\ task'[w].copy = task[w].copy
  BY StepFields
<1>4. Rowing(w) /\ Sent(w) /\ Zipless(w)
  BY <1>2, <1>3 DEF Rowing, Collected, Mailed
<1>5. task'[w] \in Run
  <2>1. \/ task'[w] = [task[w] EXCEPT !.pc = "count", !.row = r, !.left = @ \ {r}, !.errors = @ + 1]
        \/ task'[w] = [task[w] EXCEPT !.pc = "item", !.row = r, !.left = @ \ {r}]
    BY DEF RowInvalid, RowRefused, RowIssued, Failed, Do, TypeOK
  <2>2. /\ [task[w] EXCEPT !.pc = "count", !.row = r, !.left = @ \ {r}, !.errors = @ + 1] \in Run
        /\ [task[w] EXCEPT !.pc = "item", !.row = r, !.left = @ \ {r}] \in Run
    BY <1>2, RowUpdates DEF RunSteps
  <2>3. QED
    BY <2>1, <2>2
<1>6. Rowing(w)'
  BY <1>3, <1>5 DEF Rowing, Working
<1>7. Zipless(w)'
  BY <1>1, <1>3, <1>4 DEF Zipless, Missing, OfRun
<1>8. Sent(w)'
  BY <1>1, <1>3, <1>4 DEF Sent, Owed, OfRun
<1>9. QED
  BY <1>1, <1>5, <1>6, <1>7, <1>8, RunGoesOn

LEMMA ItemComplete ==
    ASSUME BulkAssumption, IInv, Complete, faults' = 0, NEW w \in Workers,
           SaveItem(w) \/ ItemFails(w) \/ QueueMail(w)
    PROVE  Complete'
<1> USE DEF IInv, Complete
<1>1. RunStep(w) /\ UNCHANGED <<batch, zips, register>>
  BY DEF RunStep, SaveItem, ItemFails, QueueMail
<1>2. w \in Working /\ TypeOK' /\ task'[w] \in Run \cup {None} /\ task[w] \in Run
  BY RunTypes, <1>1 DEF RunStep, Working
<1>3. /\ task'[w].pc \in {"mail", "count"} /\ (SaveItem(w) => task'[w].pc = "mail")
      /\ task'[w].row = task[w].row
      /\ task'[w].run = task[w].run /\ task'[w].copy = task[w].copy
  BY StepFields
<1>4. task[w].pc \in {"item", "mail"} /\ task[w].run \in Nat
  BY <1>2, HoldsRun DEF SaveItem, ItemFails, QueueMail, Run
<1>5. Rowing(w) /\ Sent(w) /\ Zipless(w)
  BY <1>2, <1>4 DEF Rowing, Collected, Mailed
<1>6. task'[w] \in Run
  <2>1. \/ task'[w] = [task[w] EXCEPT !.pc = "mail", !.success = @ + 1]
        \/ task'[w] = [task[w] EXCEPT !.pc = "count", !.errors = @ + 1]
        \/ task'[w] = [task[w] EXCEPT !.pc = "count"]
    BY DEF SaveItem, ItemFails, QueueMail, Do, TypeOK
  <2>2. QED
    BY <1>2, <2>1, RunUpdates DEF RunSteps
<1>7. Rowing(w)'
  BY <1>3, <1>6 DEF Rowing, Working
<1>8. Zipless(w)'
  BY <1>1, <1>3, <1>5 DEF Zipless, Missing, OfRun
<1>9. Sent(w)'
  <2>1. CASE SaveItem(w)
    BY <1>1, <1>3, <1>5, <2>1 DEF Sent, Owed, OfRun, SaveItem
  <2>2. \A c \in OfRun(task[w].run) : c[1] = task[w].row => c = <<task[w].row, task[w].run>>
    BY DEF OfRun, TypeOK, Certs
  <2>3. CASE ItemFails(w)
    <3>1. <<task[w].row, task[w].run>> \in deleted /\ mails' = mails
      BY <2>3 DEF ItemFails, TypeOK
    <3>2. QED
      BY <1>1, <1>3, <1>5, <2>2, <3>1 DEF Sent, Owed, OfRun
  <2>4. CASE QueueMail(w)
    <3>1. task[w].copy.mail /\ <<task[w].row, task[w].run>> \in addressed =>
            mails' = mails \cup {<<task[w].row, task[w].run>>}
      BY <2>4 DEF QueueMail, MailAsked
    <3>2. mails \subseteq mails'
      BY <2>4 DEF QueueMail
    <3>3. QED
      BY <1>1, <1>3, <1>5, <2>2, <3>1, <3>2 DEF Sent, Owed, OfRun
  <2>5. QED
    BY <2>1, <2>3, <2>4
<1>10. QED
  BY <1>1, <1>6, <1>7, <1>8, <1>9, RunGoesOn

LEMMA CountsComplete ==
    ASSUME BulkAssumption, IInv, Complete, NEW w \in Workers, SaveCounts(w)
    PROVE  Complete'
<1> USE DEF IInv, Complete
<1>1. RunStep(w) /\ UNCHANGED <<mails, zips, register>>
  BY DEF RunStep, SaveCounts
<1>2. w \in Working /\ TypeOK' /\ task'[w] \in Run \cup {None} /\ task[w] \in Run /\ task[w].pc = "count"
  BY RunTypes, HoldsRun DEF Working, SaveCounts
<1>3. task'[w] = [task[w] EXCEPT !.pc = "row", !.row = None, !.copy = Counted(@, task[w])]
  BY DEF SaveCounts, Do, TypeOK
<1>4. task[w].copy \in Batch
  BY <1>2 DEF Run
<1>5. /\ task'[w].pc = "row" /\ task'[w].run = task[w].run
      /\ task'[w].copy.zip = task[w].copy.zip /\ task'[w].copy.mail = task[w].copy.mail
      /\ batch'.zip = batch.zip
  <2>1. /\ task'[w].pc = "row" /\ task'[w].run = task[w].run
        /\ task'[w].copy = Counted(task[w].copy, task[w])
    BY <1>2, <1>3 DEF Run
  <2>2. batch' = Counted(batch, task[w]) /\ batch \in Batch
    BY DEF SaveCounts, TypeOK
  <2>3. QED
    BY <1>4, <2>1, <2>2 DEF Counted, Batch
<1>6. Rowing(w) /\ Sent(w) /\ Zipless(w)
  BY <1>2 DEF Rowing, Collected, Mailed
<1>7. task'[w] \in Run
  <2>1. Counted(task[w].copy, task[w]) \in Batch
    <3>1. Cardinality({r \in Rows : item[r] # "absent"} \ task[w].left) \in Nat
      BY FiniteSets
    <3>2. task[w].success \in Nat /\ task[w].errors \in Nat
      BY <1>2 DEF Run
    <3>3. QED
      BY <1>4, <3>1, <3>2 DEF Counted, Batch
  <2>2. [task[w] EXCEPT !.pc = "row", !.row = None, !.copy = Counted(@, task[w])] \in Run
    BY <1>2, <2>1, RunUpdates DEF RunSteps
  <2>3. QED
    BY <1>3, <2>2
<1>8. Rowing(w)'
  BY <1>5, <1>7 DEF Rowing, Working
<1>9. Zipless(w)' /\ Sent(w)'
  BY <1>1, <1>2, <1>5, <1>6 DEF Zipless, Missing, OfRun, Sent, Owed
<1>10. QED
  BY <1>1, <1>7, <1>8, <1>9, RunGoesOn

\* A run that ends and has issued nothing, or nothing that is not deleted.
LEMMA EmptyRunComplete ==
    ASSUME BulkAssumption, IInv, Complete, NEW w \in Workers, RunStep(w), task'[w] = None,
           UNCHANGED <<mails, zips, register>>, RunIssued(w) \subseteq {r \in Rows : <<r, task[w].run>> \in deleted},
           Rowing(w), batch'.zip \in {batch.zip, task[w].copy.zip}
    PROVE  Complete'
<1> USE DEF IInv, Complete
<1>1. /\ \A v \in Workers \ {w} : task'[v] = task[v]
      /\ UNCHANGED <<request, runs, started>>
  BY RunFrame
<1>2. Busy(w) /\ Zipless(w) /\ task[w].run = started
  BY NoneIsNoTask DEF Busy, Rowing, Collected, Mailed
<1>3. /\ runs = 0 /\ zips = 0 /\ \A q \in Requests : ~Issuing(q) /\ ~Issuing(q)' /\ ~At(q, "issue")'
      /\ \A v \in Workers \ {w} : task[v] = None
  BY <1>1, <1>2, AloneWorks DEF Issuing, At
<1>4. \A v \in Workers : ~Busy(v)' /\ ~Rowing(v)' /\ v \notin Working' /\ ~Holds(v, "built")'
  BY <1>1, <1>3, NothingToDoNext
<1>5. OfRun(task[w].run) \subseteq deleted
  <2>1. \A c \in certs : c = <<c[1], c[2]>> /\ c[1] \in Rows
    BY DEF TypeOK, Certs
  <2>2. QED
    BY <2>1 DEF RunIssued, OfRun
<1>6. Missing(batch.zip)' = {} /\ Owed(started)' = {}
  BY <1>1, <1>2, <1>5 DEF Zipless, Missing, Owed, OfRun
<1>7. Alone'
  BY <1>1, <1>3, <1>4 DEF Alone
<1>8. Collected'
  BY <1>3, <1>4, <1>6 DEF Collected
<1>9. Mailed'
  BY <1>4, <1>6 DEF Mailed, Working
<1>10. QED
  BY <1>7, <1>8, <1>9

\* A mapping that cannot be read ends the run before it has issued anything.
LEMMA RaiseComplete ==
    ASSUME BulkAssumption, IInv, Complete, NEW w \in Workers, RowRaises(w)
    PROVE  Complete'
<1> USE DEF IInv
<1>1. /\ RunStep(w) /\ UNCHANGED <<batch, mails, zips, register>>
      /\ task'[w] = None /\ task[w].copy.mapping = Malformed
  BY DEF RunStep, RowRaises, Do, TypeOK
<1>2. w \in Working /\ task[w].pc = "row"
  BY HoldsRun DEF RowRaises, RunSteps
<1>3. RunIssued(w) = {}
  BY <1>1, <1>2 DEF RunsKept, RunKept, Covered
<1>4. QED
  BY <1>1, <1>2, <1>3, EmptyRunComplete DEF Rowing

\* A run without a success has nothing that a ZIP file would hold.
LEMMA FinishComplete ==
    ASSUME BulkAssumption, IInv, Complete, faults = 0, NEW w \in Workers, Finish(w)
    PROVE  Complete'
<1> USE DEF IInv, Complete
<1>1. /\ RunStep(w) /\ UNCHANGED <<mails, zips, register>>
      /\ batch' = [task[w].copy EXCEPT !.status = Outcome(task[w])]
  BY DEF RunStep, Finish
<1>2. w \in Working /\ TypeOK' /\ task[w] \in Run /\ task[w].pc = "row"
  BY RunTypes, HoldsRun DEF Working, Finish
<1>3. task[w].copy \in Batch /\ task[w].success \in Nat
  BY <1>2 DEF Run
<1>4. batch'.zip = task[w].copy.zip /\ batch'.mail = task[w].copy.mail
  BY <1>1, <1>3 DEF Batch
<1>5. Rowing(w) /\ Sent(w) /\ Zipless(w) /\ task[w].run = started
  BY <1>2 DEF Rowing, Collected, Mailed
<1>6. batch'.mail => Owed(started) = {}
  BY <1>2, <1>4, <1>5 DEF Sent
<1>7. task'[w] = IF task[w].success > 0 THEN [task[w] EXCEPT !.pc = "zip"] ELSE None
  BY DEF Finish, Do, TypeOK
<1>8. CASE task[w].success > 0
  <2>1. task'[w] = [task[w] EXCEPT !.pc = "zip"]
    BY <1>7, <1>8
  <2>2. task'[w] \in Run
    BY <1>2, <2>1, RunUpdates DEF RunSteps
  <2>3. task'[w].pc = "zip" /\ task'[w].run = task[w].run
    BY <1>2, <2>1 DEF Run
  <2>4. ~Rowing(w)' /\ (batch'.mail => Owed(task[w].run)' = {})
    BY <1>1, <1>5, <1>6, <2>3 DEF Rowing, Owed, OfRun
  <2>5. QED
    BY <1>1, <2>2, <2>4, RunGoesOn
<1>9. CASE ~(task[w].success > 0)
  <2>1. task'[w] = None
    BY <1>7, <1>9
  <2>2. Credited(w) /\ task[w].success = 0
    BY <1>2, <1>3, <1>9 DEF RunsKept, RunKept
  <2>3. RunIssued(w) \subseteq {r \in Rows : <<r, task[w].run>> \in deleted}
    BY <1>2, <2>2 DEF Credited, RunIssued
  <2>4. QED
    BY <1>1, <1>4, <1>5, <2>1, <2>3, EmptyRunComplete
<1>10. QED
  BY <1>8, <1>9

\* A new run has nothing to send, and its copy of the batch is all there is.
LEMMA TakeRunComplete ==
    ASSUME BulkAssumption, IInv, Complete, NEW w \in Workers, TakeRun(w)
    PROVE  Complete'
<1> USE DEF IInv, Complete
<1>1. /\ TypeOK' /\ w \in Working'
      /\ \A v \in Workers \ {w} : task'[v] = task[v]
      /\ started' = started + 1 /\ runs' = runs - 1 /\ runs > 0
      /\ task'[w].pc = "row" /\ task'[w].copy = batch /\ task'[w].run = started + 1
      /\ UNCHANGED <<batch, certs, request>>
  BY TakeRunIs
<1>2. UNCHANGED <<zips, mails, register>> /\ started \in Nat /\ runs \in Nat
  BY DEF TakeRun, TypeOK
<1>3. /\ \A v \in Workers : task[v] = None
      /\ \A q \in Requests : ~Issuing(q) /\ ~Issuing(q)' /\ ~At(q, "issue")'
      /\ runs' = 0 /\ zips = 0
  BY <1>1, AloneWaits DEF Issuing, At
<1>4. \A v \in Workers \ {w} : ~Busy(v)' /\ ~Rowing(v)' /\ v \notin Working' /\ ~Holds(v, "built")'
  BY <1>1, <1>3, NothingToDoNext
<1>5. Busy(w)' /\ Rowing(w)' /\ ~Holds(w, "built")'
  BY <1>1, NoneAssumption DEF Working, Busy, Rowing, Holds
<1>6. \A c \in certs : c[2] # started + 1
  <2>1. \A c \in certs : c[2] \in Nat /\ c[2] <= started
    BY DEF RunsApart, TypeOK, Certs
  <2>2. QED
    BY <1>2, <2>1
<1>7. OfRun(task[w].run)' = {}
  BY <1>1, <1>6 DEF OfRun
<1>8. Missing(batch.zip) = {}
  BY <1>3, NothingToDo DEF Collected
<1>9. Alone'
  BY <1>2, <1>3, <1>4 DEF Alone
<1>10. Collected'
  <2>1. Zipless(w)'
    BY <1>1, <1>2, <1>8 DEF Zipless, Missing
  <2>2. QED
    BY <1>3, <1>4, <1>5, <2>1 DEF Collected
<1>11. Mailed'
  <2>1. Working' = {w}
    BY <1>1, <1>4 DEF Working
  <2>2. Sent(w)'
    BY <1>7 DEF Sent, Owed
  <2>3. QED
    BY <1>1, <1>4, <1>5, <2>1, <2>2 DEF Mailed
<1>12. QED
  BY <1>9, <1>10, <1>11

\* A run has queued its ZIP file before the next request or worker has the batch.
LEMMA QueueZipComplete ==
    ASSUME BulkAssumption, IInv, Complete, NEW w \in Workers, QueueZip(w), faults = 0, faults' = 0
    PROVE  Complete'
<1> USE DEF IInv, Complete
<1>1. /\ UNCHANGED <<batch, register, mails, runs, started, request>>
      /\ zips' = zips + 1
  BY DEF QueueZip, requests
<1>2. w \in Working /\ task[w].pc = "zip" /\ Busy(w)
  BY HoldsRun DEF QueueZip, RunSteps, Holds, Busy
<1>3. /\ runs = 0 /\ zips = 0 /\ \A q \in Requests : ~Issuing(q) /\ ~Issuing(q)' /\ ~At(q, "issue")'
      /\ \A v \in Workers \ {w} : task[v] = None
  BY <1>1, <1>2, AloneWorks DEF Issuing, At
<1>4. \A v \in Workers : task'[v] = None
  BY <1>3 DEF QueueZip, Do, TypeOK
<1>5. \A v \in Workers : ~Busy(v)' /\ ~Rowing(v)' /\ v \notin Working' /\ ~Holds(v, "built")'
  BY <1>4, NothingToDoNext
<1>6. \A v \in Workers : ~Rowing(v)
  BY <1>2, <1>3, NothingToDo DEF Rowing
<1>7. Alone'
  BY <1>1, <1>3, <1>5 DEF Alone
<1>8. Collected'
  BY <1>1, <1>3, <1>5 DEF Collected
<1>9. Mailed'
  BY <1>1, <1>5, <1>6 DEF Mailed, Working, Owed, OfRun, At
<1>10. QED
  BY <1>7, <1>8, <1>9

\* The builder finds every certificate and saves what it has found.
LEMMA ZipComplete ==
    ASSUME BulkAssumption, IInv, Complete, NEW w \in Workers, TakeZip(w) \/ BuildZip(w) \/ SaveZip(w)
    PROVE  Complete'
<1> USE DEF IInv, Complete
<1>1. /\ UNCHANGED <<register, mails, runs, started, request>>
      /\ runs \in Nat /\ zips \in Nat
  BY DEF TakeZip, BuildZip, SaveZip, requests, TypeOK
<1>2. /\ w \notin Working'
      /\ \A v \in Workers \ {w} : task'[v] = task[v]
  BY BuildTypes
<1>3. /\ \A v \in Workers \ {w} : task[v] = None
      /\ w \notin Working
      /\ \A q \in Requests : ~Issuing(q) /\ ~Issuing(q)' /\ ~At(q, "issue")'
      /\ runs = 0 /\ zips' = 0
  <2>1. CASE TakeZip(w)
    <3>1. task[w] = None /\ zips > 0 /\ zips' = zips - 1
      BY <2>1 DEF TakeZip
    <3>2. QED
      BY <1>1, <3>1, AloneWaits, NothingToDo DEF Issuing, At
  <2>2. CASE BuildZip(w) \/ SaveZip(w)
    <3>1. Busy(w) /\ zips' = zips /\ w \notin Working
      BY <2>2, HoldsRun DEF BuildZip, SaveZip, Holds, Busy
    <3>2. QED
      BY <1>1, <3>1, AloneWorks DEF Issuing, At
  <2>3. QED
    BY <2>1, <2>2
<1>4. \A v \in Workers \ {w} : ~Busy(v)' /\ ~Rowing(v)' /\ v \notin Working' /\ ~Holds(v, "built")'
  BY <1>2, <1>3, NothingToDoNext
<1>5. \A v \in Workers : ~Rowing(v) /\ ~Rowing(v)'
  BY <1>2, <1>3, <1>4, NothingToDo DEF Rowing
<1>6. Alone'
  BY <1>1, <1>3, <1>4 DEF Alone
<1>7. /\ TakeZip(w) => Busy(w)' /\ ~Holds(w, "built")' /\ batch' = batch
      /\ BuildZip(w) => Busy(w)' /\ task'[w].found = certs \ deleted /\ batch' = batch
      /\ SaveZip(w) => /\ ~Holds(w, "built")' /\ Missing(batch'.zip) = {} /\ batch'.mail = batch.mail
  <2>1. \A t : Do(w, t) => task'[w] = t
    BY DEF Do, TypeOK
  <2>2. [pc |-> "build", found |-> {}] # None /\ [pc |-> "built", found |-> certs \ deleted] # None
    BY NoneAssumption DEF Builder, TypeOK
  <2>3. TakeZip(w) => Busy(w)' /\ ~Holds(w, "built")' /\ batch' = batch
    BY <2>1, <2>2 DEF TakeZip, Busy, Holds
  <2>4. BuildZip(w) => Busy(w)' /\ task'[w].found = certs \ deleted /\ batch' = batch
    BY <2>1, <2>2 DEF BuildZip, Busy
  <2>5. ASSUME SaveZip(w)
        PROVE  ~Holds(w, "built")' /\ Missing(batch'.zip) = {} /\ batch'.mail = batch.mail
    <3>1. Holds(w, "built") /\ Missing(task[w].found) = {}
      BY <2>5 DEF SaveZip, Collected
    <3>2. Missing(batch'.zip) = {} /\ batch'.mail = batch.mail
      BY <2>5, <3>1 DEF SaveZip, TypeOK, Batch
    <3>3. task'[w] = None
      BY <2>1, <2>5 DEF SaveZip
    <3>4. QED
      BY <3>2, <3>3 DEF Holds
  <2>6. QED
    BY <2>3, <2>4, <2>5
<1>8. Collected'
  BY <1>1, <1>3, <1>4, <1>5, <1>7 DEF Collected, Missing
<1>9. Mailed'
  <2>1. batch'.mail = batch.mail /\ Working' = {}
    BY <1>2, <1>4, <1>7 DEF Working
  <2>2. QED
    BY <1>1, <1>3, <1>5, <2>1 DEF Mailed, Owed, OfRun, At
<1>10. QED
  BY <1>6, <1>8, <1>9

LEMMA NextCInv ==
    ASSUME BulkAssumption, IInv, CInv, [Next]_vars
    PROVE  CInv'
<1> SUFFICES ASSUME faults' = 0, ~overlapped'
             PROVE  Complete'
  BY DEF CInv
<1> USE DEF IInv
<1>1. CASE UploadBatch \/ UploadItems \/ UploadDies
  <2>1. faults = 0 /\ ~overlapped
    BY <1>1 DEF UploadBatch, UploadItems, UploadDies, TypeOK
  <2>2. QED
    BY <1>1, <2>1, UploadComplete DEF CInv
<1>2. ASSUME NEW q \in Requests, ReadBatch(q) \/ Handle(q) \/ RequestDies(q)
      PROVE  Complete'
  <2>1. faults \in Nat
    BY DEF TypeOK
  <2>2. ~RequestDies(q)
    BY <2>1 DEF RequestDies
  <2>3. faults = 0
    <3>1. faults' = faults \/ faults' = faults + 1
      BY <1>2, Zenon DEF ReadBatch, Handle, ValidationRaises, ValidateItems, SaveValidation,
         SaveIssue, Publish, RequestDies
    <3>2. QED
      BY <2>1, <3>1
  <2>4. ~overlapped
    BY <1>2, Zenon DEF ReadBatch, Handle, ValidationRaises, ValidateItems, SaveValidation,
       SaveIssue, Publish, RequestDies, Overlap
  <2>5. QED
    BY <1>2, <2>2, <2>3, <2>4, ReadBatchComplete, HandleComplete DEF CInv
<1>3. ASSUME NEW w \in Workers, Work(w) \/ MailFails(w) \/ WorkerDies(w)
      PROVE  Complete'
  <2>1. faults \in Nat
    BY DEF TypeOK
  <2>2. ~MailFails(w) /\ ~WorkerDies(w)
    BY <2>1 DEF MailFails, WorkerDies
  <2>3. Work(w) /\ faults = 0 /\ ~overlapped
    <3>1. Work(w)
      BY <1>3, <2>2
    <3>2. /\ faults' = faults \/ faults' = faults + 1
          /\ overlapped' = overlapped
      BY <3>1, Zenon DEF Work, RowInvalid, RowIssued, RowRefused, RowRaises, ItemFails, SaveItem, QueueMail,
                         SaveCounts, Finish, QueueZip, TakeRun, TakeZip, BuildZip, SaveZip, requests
    <3>3. QED
      BY <2>1, <3>1, <3>2
  <2>4. Complete
    BY <2>3 DEF CInv
  <2>5. CASE \E r \in Rows : RowInvalid(w, r) \/ RowIssued(w, r) \/ RowRefused(w, r)
    BY <2>4, <2>5, RowComplete
  <2>6. CASE ItemFails(w) \/ SaveItem(w) \/ QueueMail(w) \/ SaveCounts(w)
    BY <2>4, <2>6, ItemComplete, CountsComplete
  <2>7. CASE Finish(w) \/ QueueZip(w) \/ RowRaises(w)
    BY <2>3, <2>4, <2>7, FinishComplete, QueueZipComplete, RaiseComplete
  <2>8. CASE TakeRun(w) \/ TakeZip(w) \/ BuildZip(w) \/ SaveZip(w)
    BY <2>4, <2>8, TakeRunComplete, ZipComplete
  <2>9. QED
    BY <2>3, <2>5, <2>6, <2>7, <2>8 DEF Work
<1>4. CASE Close \/ (\E c \in certs : DeleteCertificate(c)) \/ UNCHANGED vars
  <2>1. /\ UNCHANGED <<batch, request, task, runs, zips, certs, addressed, mails, started, faults,
                       overlapped>>
        /\ deleted \subseteq deleted'
    BY <1>4 DEF Close, DeleteCertificate, requests, vars
  <2>2. Complete
    BY <2>1 DEF CInv
  <2>3. QED
    BY <2>1, <2>2 DEF Complete, Alone, Collected, Mailed, Busy, Issuing, At, Rowing, Working,
       Holds, Sent, Owed, Missing, Zipless, OfRun
<1>5. QED
  BY <1>1, <1>2, <1>3, <1>4 DEF Next

\* Unless a process died, the broker failed, or a run was asked for while another was on
\* its way, the ZIP file of a batch at rest holds every certificate that was not deleted,
\* and the last run has queued every e-mail it was asked for to those who have an address
\* (views.py:441, tasks.py:86, tasks.py:107, tasks.py:142).  The argument: the batch passes
\* from a request to its message, the run, the ZIP message and the builder, one at a time,
\* so no save puts back a column that another has changed.
THEOREM FinishedIsComplete == BulkAssumption => (Spec => []FinishedBatchIsComplete)
<1>1. SUFFICES ASSUME BulkAssumption
               PROVE  Spec => []FinishedBatchIsComplete
  OBVIOUS
<1>2. Init => CInv
  <2>1. SUFFICES ASSUME Init
                 PROVE  Complete
    BY DEF CInv
  <2>2. /\ \A w \in Workers : ~Busy(w) /\ ~Rowing(w) /\ w \notin Working /\ ~Holds(w, "built")
        /\ \A q \in Requests : ~Issuing(q) /\ ~At(q, "issue")
    BY <2>1, NothingToDo DEF Init, Issuing, At
  <2>3. Working = {} /\ OfRun(started) = {} /\ certs = {} /\ Missing(batch.zip) = {} /\ Owed(started) = {} /\ runs = 0 /\ zips = 0
    BY <2>1, <2>2 DEF Init, Working, OfRun, Missing, Owed
  <2>4. QED
    BY <2>2, <2>3 DEF Complete, Alone, Collected, Mailed
<1>3. IInv /\ CInv /\ [Next]_vars => CInv'
  BY <1>1, NextCInv
<1>4. IInv /\ CInv => FinishedBatchIsComplete
  <2>1. SUFFICES ASSUME IInv, CInv, Quiet, faults = 0, ~overlapped
                 PROVE  /\ certs \ deleted \subseteq batch.zip
                        /\ batch.mail => {c \in addressed \ deleted : c[2] = started} \subseteq mails
    BY DEF FinishedBatchIsComplete
  <2>2. /\ runs = 0 /\ zips = 0
        /\ \A w \in Workers : task[w] = None
        /\ \A q \in Requests : ~At(q, "publish")
    BY <2>1 DEF Quiet, RunUnderWay, At, IInv, TypeOK
  <2>3. \A w \in Workers : ~Busy(w) /\ ~Rowing(w)
    BY <2>2, NothingToDo
  <2>4. Missing(batch.zip) = {} /\ (batch.mail => Owed(started) = {}) /\ addressed \subseteq certs
    BY <2>1, <2>2, <2>3 DEF CInv, Complete, Collected, Mailed, IInv, TypeOK
  <2>5. QED
    BY <2>4 DEF Missing, Owed, OfRun
<1>5. QED
  BY <1>1, <1>2, <1>3, <1>4, Invariant, PTL DEF Spec
=============================================================================

----------------------------- MODULE BulkBatch -----------------------------
(***************************************************************************)
(* One bulk batch (BulkIssueView in certificates/views.py and the tasks of    *)
(* certificates/tasks.py).  Requests upload a table, validate it and start     *)
(* the issuing; a Celery worker then reads the batch once and works through    *)
(* its rows, saving as it goes; a second task collects the certificates in a   *)
(* ZIP file.  Nothing is locked: requests, runs and ZIP builders of the same    *)
(* batch overlap, and each writes the columns it once read.                    *)
(***************************************************************************)
EXTENDS Naturals, FiniteSets

CONSTANTS
    Rows,           \* the rows below the header of the uploaded file
    Columns,        \* its columns
    Table,          \* Table[r][c]: what is in a cell
    Alias,          \* Alias[c]: the field the header of a column suggests, or None
    Mappings,       \* column mappings a request may send
    Malformed,      \* JSON that is no mapping of columns to names of fields: reading it raises
    MaxRows,        \* MAX_ROWS of an upload
    Requests,       \* HTTP requests for the batch
    Workers,        \* Celery worker processes
    MaxFaults,      \* bound: processes that die, and failures of the broker
    MaxDeleted,     \* bound: certificates that users delete
    None

\* The fields of a row that may be in error.
Fields == {"recipient_name", "email", "issue_date"}

\* "wrong" is no e-mail address or no date; "loose" is a date that only its first ten
\* characters make one, or that is written with slashes.
Cells == {"", "plain", "loose", "wrong"}

\* Of two columns with one field the last counts, so that the other may as well have none.
ASSUME BulkAssumption ==
    /\ IsFiniteSet(Rows) /\ MaxRows \in Nat
    /\ Table \in [Rows -> [Columns -> Cells]]
    /\ (Mappings \ {Malformed}) \cup {Alias} \subseteq [Columns -> Fields \cup {None}]
    /\ \A m \in (Mappings \ {Malformed}) \cup {Alias}, c, d \in Columns :
          m[c] = m[d] /\ c # d => m[c] = None
    /\ IsFiniteSet(Requests)
    /\ MaxFaults \in Nat /\ MaxDeleted \in Nat

VARIABLES
    batch,          \* the IssuanceBatch row; its status is "absent" before the upload
    item,           \* IssuanceItem.status of every row, or "absent"
    uploading,      \* rows of an upload that has created the batch and not its items yet, or None
    request,        \* what each request is doing
    task,           \* what each worker is doing
    runs, zips,     \* messages in the broker: process_issuance_batch, build_batch_zip
    certs,          \* certificates that were issued: the row and the run
    addressed,      \* those whose recipient has an e-mail address
    deleted,        \* those that a user has deleted since
    open,           \* issue_certificate accepts the organization's certificates
    mails,          \* certificates handed to send_certificate_email
    faults,
    \* history
    started,        \* runs that a worker has taken
    doubled,        \* certificates whose row was counted twice
    lost,           \* a message or its worker was lost
    overlapped      \* a run was asked for while another one was on its way

register == <<certs, addressed, deleted>>
vars     == <<batch, item, uploading, request, task, runs, zips, certs, addressed, deleted, open,
              mails, faults, started, doubled, lost, overlapped>>

Certs == Rows \X (1..Cardinality(Requests))

Batch == [status : {"absent", "draft", "validating", "processing", "completed", "partial", "failed"},
          mapping : Mappings \cup {Alias}, mail : BOOLEAN,
          processed : Nat, success : Nat, errors : Nat, zip : SUBSET Certs]

\* A request holds the batch as it read it.
Request == [pc : {"new", "validate", "validated", "issue", "publish", "done"},
            mapping : Mappings \cup {Alias, None}, copy : Batch \cup {None}]

\* A run holds the batch as it read it, the rows left, the one in hand and its counts.
Run == [pc : {"row", "item", "mail", "count", "zip"}, copy : Batch, left : SUBSET Rows,
        row : Rows \cup {None}, run : Nat, success : Nat, errors : Nat]

Builder == [pc : {"build", "built"}, found : SUBSET Certs]

ASSUME NoneAssumption == None \notin Run \cup Builder

TypeOK ==
    /\ batch \in Batch
    /\ item \in [Rows -> {"absent", "pending", "valid", "invalid", "issued", "failed"}]
    /\ uploading \in {None} \cup SUBSET Rows
    /\ request \in [Requests -> Request]
    /\ task \in [Workers -> Run \cup Builder \cup {None}]
    /\ runs \in Nat /\ zips \in Nat
    /\ certs \subseteq Certs /\ mails \subseteq certs /\ doubled \subseteq certs
    /\ addressed \subseteq certs /\ deleted \subseteq certs
    /\ open \in BOOLEAN /\ lost \in BOOLEAN /\ overlapped \in BOOLEAN
    /\ faults \in 0..MaxFaults
    /\ started \in 0..Cardinality(Requests)

Init ==
    /\ batch = [status |-> "absent", mapping |-> Alias, mail |-> FALSE,
                processed |-> 0, success |-> 0, errors |-> 0, zip |-> {}]
    /\ item = [r \in Rows |-> "absent"]
    /\ uploading = None
    /\ request = [q \in Requests |-> [pc |-> "new", mapping |-> None, copy |-> None]]
    /\ task = [w \in Workers |-> None]
    /\ runs = 0 /\ zips = 0
    /\ certs = {} /\ addressed = {} /\ deleted = {} /\ mails = {} /\ doubled = {}
    /\ open = TRUE /\ lost = FALSE /\ overlapped = FALSE
    /\ faults = 0 /\ started = 0

work == <<task, runs, zips, register, open, mails, started, doubled>>

-----------------------------------------------------------------------------
(* The table                                                                 *)

\* parse_tabular: a row without any text is left out of an Excel sheet, not of a
\* CSV file.
Parsed(format) ==
    IF format = "csv" THEN Rows ELSE {r \in Rows : \E c \in Columns : Table[r][c] # ""}

\* apply_mapping: the text of a field, empty when no column is mapped to it.
Mapped(r, m, field) ==
    IF \E c \in Columns : m[c] = field THEN Table[r][CHOOSE c \in Columns : m[c] = field] ELSE ""

\* validate_mapped_row finds no error.
Valid(r, m) ==
    /\ m # Malformed
    /\ Mapped(r, m, "recipient_name") # ""
    /\ Mapped(r, m, "email") # "wrong"
    /\ Mapped(r, m, "issue_date") # "wrong"

\* issue_certificate reads the date as it stands.
Readable(r, m) == Mapped(r, m, "issue_date") \in {"", "plain"}

-----------------------------------------------------------------------------
(* Requests.  No request is a transaction, and none looks at the status.     *)

\* _upload: the batch, with the mapping its headers suggest (Alias), ...
UploadBatch ==
    /\ batch.status = "absent"
    /\ batch' = [batch EXCEPT !.status = "draft"]
    /\ \E format \in {"csv", "xlsx"} :
         Cardinality(Parsed(format)) <= MaxRows /\ uploading' = Parsed(format)
    /\ UNCHANGED <<item, request, faults, lost, overlapped, work>>

\* ... then all its items in one statement.
UploadItems ==
    /\ uploading # None
    /\ uploading' = None
    /\ item' = [r \in Rows |-> IF r \in uploading THEN "pending" ELSE "absent"]
    /\ UNCHANGED <<batch, request, faults, lost, overlapped, work>>

At(q, pc)   == request[q].pc = pc
GoTo(q, pc) == request' = [request EXCEPT ![q].pc = pc]
End(q)      == request' = [request EXCEPT ![q] = [pc |-> "done", mapping |-> None, copy |-> None]]

RunUnderWay == runs > 0 \/ zips > 0 \/ \E w \in Workers : task[w] # None

\* Another run of the batch, or a request that will start one, is on its way.
Overlap(q) ==
    overlapped' = (overlapped \/ RunUnderWay \/ \E p \in Requests \ {q} : At(p, "issue") \/ At(p, "publish"))

\* The client knows the batch from the answer of the upload or from the list; a request
\* that sends no mapping keeps the one there is, and none is looked at here.
ReadBatch(q) ==
    /\ At(q, "new") /\ batch.status # "absent" /\ uploading = None
    /\ \E pc \in {"validate", "issue"}, m \in Mappings \cup {batch.mapping} :
         /\ request' = [request EXCEPT ![q] = [pc |-> pc, mapping |-> m, copy |-> batch]]
         /\ IF pc = "issue" THEN Overlap(q) ELSE UNCHANGED overlapped
    /\ UNCHANGED <<batch, item, uploading, faults, lost, work>>

Unreadable(m) == m = Malformed /\ \E r \in Rows : item[r] # "absent"

\* apply_mapping raises in _validate, before anything is saved.
ValidationRaises(q) ==
    /\ At(q, "validate") /\ Unreadable(request[q].mapping)
    /\ End(q)
    /\ UNCHANGED <<batch, item, uploading, faults, lost, overlapped, work>>

\* _validate marks the items, whatever was done to them before ...
ValidateItems(q) ==
    /\ At(q, "validate") /\ ~Unreadable(request[q].mapping)
    /\ item' = [r \in Rows |-> IF item[r] = "absent" THEN "absent"
                              ELSE IF Valid(r, request[q].mapping) THEN "valid" ELSE "invalid"]
    /\ GoTo(q, "validated")
    /\ UNCHANGED <<batch, uploading, faults, lost, overlapped, work>>

\* ... and saves the mapping and the status of the batch.
SaveValidation(q) ==
    /\ At(q, "validated")
    /\ batch' = [batch EXCEPT !.mapping = request[q].mapping, !.status = "validating"]
    /\ End(q)
    /\ UNCHANGED <<item, uploading, faults, lost, overlapped, work>>

\* _issue saves every column of the batch it read ...
SaveIssue(q) ==
    /\ At(q, "issue")
    /\ \E mail \in BOOLEAN :
         batch' = [request[q].copy EXCEPT !.mapping = request[q].mapping,
                                          !.mail = mail, !.status = "processing"]
    /\ GoTo(q, "publish")
    /\ Overlap(q)
    /\ UNCHANGED <<item, uploading, faults, lost, work>>

\* ... and then queues the task; when the broker is down the batch stays as saved.
Publish(q) ==
    /\ At(q, "publish")
    /\ End(q)
    /\ \/ runs' = runs + 1 /\ UNCHANGED <<faults, lost>>
       \/ faults < MaxFaults /\ faults' = faults + 1 /\ lost' = TRUE /\ UNCHANGED runs
    /\ UNCHANGED <<batch, item, uploading, task, zips, register, open, mails, started, doubled, overlapped>>

RequestDies(q) ==
    /\ faults < MaxFaults /\ faults' = faults + 1
    /\ ~At(q, "new") /\ ~At(q, "done")
    /\ End(q)
    /\ lost' = (lost \/ At(q, "publish"))
    /\ UNCHANGED <<batch, item, uploading, overlapped, work>>

UploadDies ==
    /\ faults < MaxFaults /\ faults' = faults + 1
    /\ uploading # None /\ uploading' = None
    /\ UNCHANGED <<batch, item, request, lost, overlapped, work>>

-----------------------------------------------------------------------------
(* process_issuance_batch                                                    *)

requests == <<uploading, request, overlapped>>
Holds(w, pc) == task[w] # None /\ task[w].pc = pc
Do(w, t)     == task' = [task EXCEPT ![w] = t]

\* Mutant: the counts go on from those in the row.
TakeRunResumed(w) ==
    /\ task[w] = None /\ runs > 0
    /\ runs' = runs - 1 /\ started' = started + 1
    /\ Do(w, [pc |-> "row", copy |-> batch, left |-> {r \in Rows : item[r] # "absent"},
              row |-> None, run |-> started + 1, success |-> batch.success, errors |-> batch.errors])
    /\ UNCHANGED <<batch, item, zips, register, open, mails, doubled, faults, lost, requests>>

\* A message is acknowledged when it is taken.
TakeRun(w) ==
    /\ task[w] = None /\ runs > 0
    /\ runs' = runs - 1 /\ started' = started + 1
    /\ Do(w, [pc |-> "row", copy |-> batch, left |-> {r \in Rows : item[r] # "absent"},
              row |-> None, run |-> started + 1, success |-> 0, errors |-> 0])
    /\ UNCHANGED <<batch, item, zips, register, open, mails, doubled, faults, lost, requests>>

\* The item is saved with its new status; the counts follow.
Failed(w, r, status) ==
    /\ item' = [item EXCEPT ![r] = status]
    /\ Do(w, [task[w] EXCEPT !.pc = "count", !.row = r, !.left = @ \ {r}, !.errors = @ + 1])

\* apply_mapping raises outside the try: the task ends where it is.
RowRaises(w) ==
    /\ Holds(w, "row") /\ task[w].left # {}
    /\ task[w].copy.mapping = Malformed
    /\ Do(w, None)
    /\ UNCHANGED <<batch, item, runs, zips, register, open, mails, started, doubled, faults, lost, requests>>

RowInvalid(w, r) ==
    /\ Holds(w, "row") /\ r \in task[w].left
    /\ task[w].copy.mapping # Malformed /\ ~Valid(r, task[w].copy.mapping)
    /\ Failed(w, r, "invalid")
    /\ UNCHANGED <<batch, runs, zips, register, open, mails, started, doubled, faults, lost, requests>>

\* issue_certificate, one transaction.  The status of the item is not looked at.
RowIssued(w, r) ==
    /\ Holds(w, "row") /\ r \in task[w].left
    /\ Valid(r, task[w].copy.mapping) /\ Readable(r, task[w].copy.mapping) /\ open
    /\ certs' = certs \cup {<<r, task[w].run>>}
    /\ addressed' = IF Mapped(r, task[w].copy.mapping, "email") = "" THEN addressed
                    ELSE addressed \cup {<<r, task[w].run>>}
    /\ Do(w, [task[w] EXCEPT !.pc = "item", !.row = r, !.left = @ \ {r}])
    /\ UNCHANGED <<batch, item, runs, zips, deleted, open, mails, started, doubled, faults, lost, requests>>

\* Mutant: the exception is not caught and ends the task.
RowRefusedRaises(w, r) ==
    /\ Holds(w, "row") /\ r \in task[w].left
    /\ Valid(r, task[w].copy.mapping) /\ (~Readable(r, task[w].copy.mapping) \/ ~open)
    /\ Do(w, None)
    /\ UNCHANGED <<batch, item, runs, zips, register, open, mails, started, doubled, faults, lost, requests>>

RowRefused(w, r) ==
    /\ Holds(w, "row") /\ r \in task[w].left
    /\ Valid(r, task[w].copy.mapping) /\ (~Readable(r, task[w].copy.mapping) \/ ~open)
    /\ Failed(w, r, "failed")
    /\ UNCHANGED <<batch, runs, zips, register, open, mails, started, doubled, faults, lost, requests>>

\* The certificate in hand.
Current(w) == <<task[w].row, task[w].run>>

\* The transaction has committed, but queueing its webhook events raises, or the item
\* cannot refer to a certificate that is deleted by now.
ItemFails(w) ==
    /\ Holds(w, "item")
    /\ \/ faults < MaxFaults /\ faults' = faults + 1
       \/ Current(w) \in deleted /\ UNCHANGED faults
    /\ item' = [item EXCEPT ![task[w].row] = "failed"]
    /\ Do(w, [task[w] EXCEPT !.pc = "count", !.errors = @ + 1])
    /\ UNCHANGED <<batch, runs, zips, register, open, mails, started, doubled, lost, requests>>

SaveItem(w) ==
    /\ Holds(w, "item") /\ Current(w) \notin deleted
    /\ item' = [item EXCEPT ![task[w].row] = "issued"]
    /\ Do(w, [task[w] EXCEPT !.pc = "mail", !.success = @ + 1])
    /\ UNCHANGED <<batch, runs, zips, register, open, mails, started, doubled, faults, lost, requests>>

MailAsked(w) == task[w].copy.mail /\ Current(w) \in addressed

QueueMail(w) ==
    /\ Holds(w, "mail")
    /\ mails' = IF MailAsked(w) THEN mails \cup {Current(w)} ELSE mails
    /\ Do(w, [task[w] EXCEPT !.pc = "count"])
    /\ UNCHANGED <<batch, item, runs, zips, register, open, started, doubled, faults, lost, requests>>

\* The row is already counted as a success when its e-mail cannot be queued.
MailFails(w) ==
    /\ Holds(w, "mail") /\ MailAsked(w)
    /\ faults < MaxFaults /\ faults' = faults + 1
    /\ doubled' = doubled \cup {Current(w)}
    /\ item' = [item EXCEPT ![task[w].row] = "failed"]
    /\ Do(w, [task[w] EXCEPT !.pc = "count", !.errors = @ + 1])
    /\ UNCHANGED <<batch, runs, zips, register, open, mails, started, lost, requests>>

Counted(b, t) ==
    [b EXCEPT !.processed = Cardinality({r \in Rows : item[r] # "absent"} \ t.left),
              !.success = t.success, !.errors = t.errors]

SaveCounts(w) ==
    /\ Holds(w, "count")
    /\ batch' = Counted(batch, task[w])
    /\ Do(w, [task[w] EXCEPT !.pc = "row", !.row = None, !.copy = Counted(@, task[w])])
    /\ UNCHANGED <<item, runs, zips, register, open, mails, started, doubled, faults, lost, requests>>

\* Mutant: one success is enough.
OutcomeBySuccess(t) == IF t.success > 0 \/ t.errors = 0 THEN "completed" ELSE "failed"

Outcome(t) == IF t.errors = 0 THEN "completed" ELSE IF t.success > 0 THEN "partial" ELSE "failed"

\* The last save writes every column as the run read it.
Finish(w) ==
    /\ Holds(w, "row") /\ task[w].left = {}
    /\ batch' = [task[w].copy EXCEPT !.status = Outcome(task[w])]
    /\ Do(w, IF task[w].success > 0 THEN [task[w] EXCEPT !.pc = "zip"] ELSE None)
    /\ UNCHANGED <<item, runs, zips, register, open, mails, started, doubled, faults, lost, requests>>

QueueZip(w) ==
    /\ Holds(w, "zip")
    /\ Do(w, None)
    /\ \/ zips' = zips + 1 /\ UNCHANGED <<faults, lost>>
       \/ faults < MaxFaults /\ faults' = faults + 1 /\ lost' = TRUE /\ UNCHANGED zips
    /\ UNCHANGED <<batch, item, runs, register, open, mails, started, doubled, requests>>

-----------------------------------------------------------------------------
(* build_batch_zip                                                           *)

TakeZip(w) ==
    /\ task[w] = None /\ zips > 0
    /\ zips' = zips - 1
    /\ Do(w, [pc |-> "build", found |-> {}])
    /\ UNCHANGED <<batch, item, runs, register, open, mails, started, doubled, faults, lost, requests>>

\* Mutant: the certificates are found through the items.
BuildZipOfItems(w) ==
    /\ Holds(w, "build")
    /\ Do(w, [pc |-> "built", found |-> {c \in certs \ deleted : /\ item[c[1]] = "issued"
                                                    /\ \A d \in certs : d[1] = c[1] => d[2] <= c[2]}])
    /\ UNCHANGED <<batch, item, runs, zips, register, open, mails, started, doubled, faults, lost, requests>>

BuildZip(w) ==
    /\ Holds(w, "build")
    /\ Do(w, [pc |-> "built", found |-> certs \ deleted])
    /\ UNCHANGED <<batch, item, runs, zips, register, open, mails, started, doubled, faults, lost, requests>>

SaveZip(w) ==
    /\ Holds(w, "built")
    /\ batch' = [batch EXCEPT !.zip = task[w].found]
    /\ Do(w, None)
    /\ UNCHANGED <<item, runs, zips, register, open, mails, started, doubled, faults, lost, requests>>

-----------------------------------------------------------------------------
(* Environment                                                               *)

WorkerDies(w) ==
    /\ faults < MaxFaults /\ faults' = faults + 1
    /\ task[w] # None
    /\ Do(w, None)
    /\ lost' = TRUE
    /\ UNCHANGED <<batch, item, runs, zips, register, open, mails, started, doubled, requests>>

\* DELETE on a certificate; its item loses the reference and keeps its status.
DeleteCertificate(c) ==
    /\ Cardinality(deleted) < MaxDeleted
    /\ c \notin deleted /\ deleted' = deleted \cup {c}
    /\ UNCHANGED <<batch, item, task, runs, zips, certs, addressed, open, mails, started, doubled,
                   faults, lost, requests>>

\* The monthly quota is used up, or the organization is suspended.
Close ==
    /\ open /\ open' = FALSE
    /\ UNCHANGED <<batch, item, task, runs, zips, register, mails, started, doubled, faults, lost, requests>>

Work(w) ==
    \/ \E r \in Rows : RowInvalid(w, r) \/ RowIssued(w, r) \/ RowRefused(w, r)
    \/ RowRaises(w) \/ ItemFails(w) \/ SaveItem(w) \/ QueueMail(w) \/ SaveCounts(w)
    \/ Finish(w) \/ QueueZip(w)
    \/ TakeRun(w) \/ TakeZip(w) \/ BuildZip(w) \/ SaveZip(w)

Handle(q) ==
    ValidationRaises(q) \/ ValidateItems(q) \/ SaveValidation(q) \/ SaveIssue(q) \/ Publish(q)

Next ==
    \/ UploadBatch \/ UploadItems \/ UploadDies
    \/ \E q \in Requests : ReadBatch(q) \/ Handle(q) \/ RequestDies(q)
    \/ \E w \in Workers : Work(w) \/ MailFails(w) \/ WorkerDies(w)
    \/ \E c \in certs : DeleteCertificate(c)
    \/ Close

Spec     == Init /\ [][Next]_vars
FairSpec == Spec /\ (\A q \in Requests : WF_vars(Handle(q))) /\ (\A w \in Workers : WF_vars(Work(w)))
-----------------------------------------------------------------------------
(* Properties                                                                *)

\* COMPLETED is only ever shown when a certificate was issued for every row that has an
\* item, however runs, validations and crashes overlap (tasks.py:97-101).  Rows have none
\* after an upload that died between the batch and its items (views.py:371-380): such a
\* batch is COMPLETED without a certificate.
CompletedMeansIssued ==
    batch.status = "completed" =>
        \A r \in Rows : item[r] = "absent" \/ \E c \in certs : c[1] = r

\* The counts the dashboard shows fit together: every processed row is a success
\* or an error, and both only where its e-mail could not be queued (tasks.py:83-96);
\* there are no more successes than certificates were issued.
CountsAddUp ==
    /\ batch.success + batch.errors >= batch.processed
    /\ batch.success + batch.errors <= batch.processed + Cardinality(doubled)
    /\ batch.success <= Cardinality(certs)

Quiet ==
    /\ ~RunUnderWay
    /\ \A q \in Requests : At(q, "new") \/ At(q, "done")

\* When everything asked for is done, the ZIP file holds every certificate of the batch
\* that was not deleted, and the last run has queued the e-mails it was asked for to those
\* who have an address (tasks.py:86), unless a process died, the broker failed, or a second
\* run was asked for before the first was through: the last save of a run (tasks.py:107), a
\* request's (views.py:441) and that of the ZIP (tasks.py:142) then overwrite each other.
FinishedBatchIsComplete ==
    Quiet /\ faults = 0 /\ ~overlapped =>
        /\ certs \ deleted \subseteq batch.zip
        /\ batch.mail => {c \in addressed \ deleted : c[2] = started} \subseteq mails

\* A batch does not stay PROCESSING unless its message or its worker was lost, or it is
\* saved with a mapping that cannot be read, which views.py:436 accepts and tasks.py:24
\* meets outside the try: no row can stop the run (tasks.py:88-92).
BatchEnds ==
    batch.status = "processing" ~>
        lost \/ batch.mapping = Malformed \/ batch.status # "processing"
=============================================================================

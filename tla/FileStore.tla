----------------------------- MODULE FileStore -----------------------------
(***************************************************************************)
(* Stored files (attachments/).  save_bytes puts an object into the provider    *)
(* the process was started with, under a key of its own, and then inserts the   *)
(* StoredFile row; downloads, the rendering of certificates and the ZIP of a    *)
(* batch open the object through the provider of the process that answers.     *)
(* Web and worker processes read the settings when they start.                 *)
(***************************************************************************)
EXTENDS Naturals, FiniteSets

CONSTANTS
    Processes,      \* gunicorn workers and Celery workers
    Requests,       \* requests and tasks; a file is named by the one that saves it
    MaxSwitches,    \* bound: changes of the storage settings
    MaxRestarts,    \* bound: processes that die or are restarted
    MaxFaults,      \* bound: failing calls to the storage
    None            \* no file, no process

ASSUME FileStoreAssumption ==
    /\ MaxSwitches \in Nat /\ MaxRestarts \in Nat /\ MaxFaults \in Nat
    /\ None \notin Requests \cup Processes

Stores == {"local", "minio", "parspack"}
Settings == Stores \cup {"signed"}      \* "signed": Parspack with signed URLs

\* build_storage_provider
Provider(setting) == IF setting = "signed" THEN "parspack" ELSE setting

VARIABLES
    configured,     \* ATTACHMENT_STORAGE_PROVIDER and ATTACHMENT_USE_SIGNED_URLS
    setting,        \* what each process read of them when it started
    bucket,         \* MinIO has the bucket
    object, kept,   \* per file: "none", "partial" or "whole", and the store it is in
    row,            \* per file: storage_provider of its StoredFile row, or "none"
    zip,            \* zip_file of a batch
    plain,          \* ZIP files whose certificates lack the template's image
    pc, at,         \* per request: what it does next and the process that runs it
    tasks,          \* requests that build the ZIP of the batch
    answer,         \* per request: how it ended
    switches, restarts, faults,
    \* history
    faulted         \* requests that met a failing call

store == <<bucket, object, kept>>
rows == <<row, zip, plain>>
bounds == <<switches, restarts, faults>>
vars == <<configured, setting, store, rows, pc, at, tasks, answer, bounds, faulted>>

Writing == {"bucket", "create", "put", "write", "row", "point"}

TypeOK ==
    /\ configured \in Settings
    /\ setting \in [Processes -> Settings]
    /\ bucket \in BOOLEAN
    /\ object \in [Requests -> {"none", "partial", "whole"}]
    /\ kept \in [Requests -> Stores \cup {"none"}]
    /\ row \in [Requests -> Stores \cup {"none"}]
    /\ zip \in Requests \cup {None} /\ plain \subseteq Requests
    /\ pc \in [Requests -> {"new", "ended"} \cup Writing]
    /\ at \in [Requests -> Processes \cup {None}]
    /\ tasks \subseteq Requests
    /\ answer \in [Requests -> {"none", "done", "failed", "died"}]
    /\ switches \in 0..MaxSwitches /\ restarts \in 0..MaxRestarts
    /\ faults \in 0..MaxFaults /\ faulted \subseteq Requests

Init ==
    /\ configured \in Settings
    /\ setting = [p \in Processes |-> configured]
    /\ bucket = FALSE
    /\ object = [q \in Requests |-> "none"]
    /\ kept = [q \in Requests |-> "none"]
    /\ row = [q \in Requests |-> "none"]
    /\ zip = None /\ plain = {}
    /\ pc = [q \in Requests |-> "new"]
    /\ at = [q \in Requests |-> None]
    /\ tasks = {}
    /\ answer = [q \in Requests |-> "none"]
    /\ switches = 0 /\ restarts = 0 /\ faults = 0
    /\ faulted = {}

Saves(q) == Provider(setting[at[q]])

GoTo(q, step) == pc' = [pc EXCEPT ![q] = step] /\ UNCHANGED answer

End(q, how) ==
    /\ pc' = [pc EXCEPT ![q] = "ended"]
    /\ answer' = [answer EXCEPT ![q] = how]

\* A call to the storage answers, or fails for a reason outside.
Answers == UNCHANGED <<bounds, faulted>>
Fails(q) ==
    /\ faults < MaxFaults /\ faults' = faults + 1
    /\ faulted' = faulted \cup {q}
    /\ UNCHANGED <<switches, restarts>>

-----------------------------------------------------------------------------
(* save_bytes                                                                *)

\* MinIO looks for its bucket first; the other stores are written at once.
BeginSave(q, p) ==
    /\ at' = [at EXCEPT ![q] = p]
    /\ GoTo(q, IF Provider(setting[p]) = "minio" THEN "bucket" ELSE "put")

\* UploadView: the file passed validate_upload.
Upload(q, p) ==
    /\ pc[q] = "new"
    /\ BeginSave(q, p) /\ Answers
    /\ UNCHANGED <<configured, setting, store, rows, tasks>>

\* _ensure_bucket
HeadBucket(q) ==
    /\ pc[q] = "bucket"
    /\ \/ GoTo(q, IF bucket THEN "put" ELSE "create") /\ Answers
       \/ GoTo(q, "create") /\ Fails(q)
       \/ End(q, "failed") /\ Fails(q)
    /\ UNCHANGED <<configured, setting, store, rows, at, tasks>>

\* Mutant: a bucket that another process has just made is an error.
CreateBucketOnce(q) ==
    /\ pc[q] = "create"
    /\ IF bucket THEN End(q, "failed") ELSE GoTo(q, "put")
    /\ bucket' = TRUE /\ Answers
    /\ UNCHANGED <<configured, setting, object, kept, rows, at, tasks>>

\* ... and makes it; one that is there already is as good.
CreateBucket(q) ==
    /\ pc[q] = "create"
    /\ \/ bucket' = TRUE /\ GoTo(q, "put") /\ Answers
       \/ bucket' \in {bucket, TRUE} /\ End(q, "failed") /\ Fails(q)
    /\ UNCHANGED <<configured, setting, object, kept, rows, at, tasks>>

Keep(q, part) ==
    /\ object' = [object EXCEPT ![q] = part]
    /\ kept' = [kept EXCEPT ![q] = Saves(q)]
    /\ UNCHANGED bucket

\* put_object stores all or nothing, though its answer may be lost; a local file
\* is opened and then written chunk by chunk.
PutObject(q) ==
    /\ pc[q] = "put"
    /\ IF Saves(q) = "local"
       THEN \/ Keep(q, "partial") /\ GoTo(q, "write") /\ Answers
            \/ UNCHANGED store /\ End(q, "failed") /\ Fails(q)
       ELSE \/ Keep(q, "whole") /\ GoTo(q, "row") /\ Answers
            \/ (Keep(q, "whole") \/ UNCHANGED store) /\ End(q, "failed") /\ Fails(q)
    /\ UNCHANGED <<configured, setting, rows, at, tasks>>

\* Mutant: a disk that is full ends the loop, not the request.
WriteFileSilently(q) ==
    /\ pc[q] = "write"
    /\ \/ Keep(q, "whole") /\ Answers
       \/ UNCHANGED store /\ Fails(q)
    /\ GoTo(q, "row")
    /\ UNCHANGED <<configured, setting, rows, at, tasks>>

WriteFile(q) ==
    /\ pc[q] = "write"
    /\ \/ Keep(q, "whole") /\ GoTo(q, "row") /\ Answers
       \/ UNCHANGED store /\ End(q, "failed") /\ Fails(q)
    /\ UNCHANGED <<configured, setting, rows, at, tasks>>

\* A task that builds a ZIP goes on to its batch, an upload answers with the id.
InsertRow(q) ==
    /\ pc[q] = "row"
    /\ row' = [row EXCEPT ![q] = Saves(q)]
    /\ IF q \in tasks THEN GoTo(q, "point") ELSE End(q, "done")
    /\ Answers
    /\ UNCHANGED <<configured, setting, store, zip, plain, at, tasks>>

-----------------------------------------------------------------------------
(* Reading files                                                             *)

Files == {f \in Requests : row[f] # "none"}

\* open_stream by process p
Opens(p, f) == Provider(setting[p]) = kept[f] /\ object[f] # "none"

\* get_download, whose result a FileResponse streams: a signed URL has no stream.
Streams(p, f) == setting[p] # "signed" /\ Opens(p, f)

\* FileView
Download(q, p, f) ==
    /\ pc[q] = "new"
    /\ at' = [at EXCEPT ![q] = p]
    /\ \/ End(q, IF Streams(p, f) THEN "done" ELSE "failed") /\ Answers
       \/ End(q, "failed") /\ Fails(q)
    /\ UNCHANGED <<configured, setting, store, rows, tasks>>

\* BatchViewSet.zip
DownloadZip(q, p) == zip # None /\ Download(q, p, zip)

\* build_batch_zip renders the certificates: _embed_image_src leaves an image it
\* cannot open as a link and the file is packed all the same.
\* The template may have no image.
BuildZip(q, p, image) ==
    /\ pc[q] = "new"
    /\ BeginSave(q, p)
    /\ tasks' = tasks \cup {q}
    /\ \/ /\ plain' = IF image = None \/ Opens(p, image) THEN plain ELSE plain \cup {q}
          /\ Answers
       \/ image # None /\ plain' = plain \cup {q} /\ Fails(q)
    /\ UNCHANGED <<configured, setting, store, row, zip>>

\* The batch is saved with update_fields=["zip_file"].
PointToZip(q) ==
    /\ pc[q] = "point"
    /\ zip' = q /\ End(q, "done") /\ Answers
    /\ UNCHANGED <<configured, setting, store, row, plain, at, tasks>>

-----------------------------------------------------------------------------
(* The operator and the processes                                            *)

Configure(s) ==
    /\ switches < MaxSwitches /\ s # configured
    /\ configured' = s /\ switches' = switches + 1
    /\ UNCHANGED <<setting, store, rows, pc, at, tasks, answer, restarts, faults, faulted>>

\* A process that starts reads the settings anew; what it was doing is lost.
Restart(p) ==
    /\ restarts < MaxRestarts /\ restarts' = restarts + 1
    /\ setting' = [setting EXCEPT ![p] = configured]
    /\ LET lost == {q \in Requests : at[q] = p /\ pc[q] \in Writing}
       IN /\ pc' = [q \in Requests |-> IF q \in lost THEN "ended" ELSE pc[q]]
          /\ answer' = [q \in Requests |-> IF q \in lost THEN "died" ELSE answer[q]]
    /\ UNCHANGED <<configured, store, rows, at, tasks, switches, faults, faulted>>

Next ==
    \/ \E q \in Requests :
        \/ HeadBucket(q) \/ CreateBucket(q) \/ PutObject(q) \/ WriteFile(q)
        \/ InsertRow(q) \/ PointToZip(q)
        \/ \E p \in Processes :
            \/ Upload(q, p) \/ DownloadZip(q, p)
            \/ \E f \in Files : Download(q, p, f)
            \/ \E image \in Files \cup {None} : BuildZip(q, p, image)
    \/ \E s \in Settings : Configure(s)
    \/ \E p \in Processes : Restart(p)

Spec == Init /\ [][Next]_vars
-----------------------------------------------------------------------------
(* Properties                                                                *)

\* A StoredFile row never promises what the store does not have: the whole object
\* lies in the store the row names (save_bytes, attachments/services/__init__.py:36,
\* 37), whatever fails or dies on the way.  The reverse does not hold: an object
\* without a row stays, and nothing collects it.
RowHasObject ==
    \A f \in Files : object[f] = "whole" /\ kept[f] = row[f]

\* Uploads and downloads work, and every ZIP has its images, as long as the storage
\* answers, the settings stay and signed URLs are off, whichever process does what
\* and however many are restarted.  storage_provider is never read: once the setting
\* changes, the files of the other store are out of reach (attachments/views.py:50),
\* and a ZIP built in between keeps its certificates without images (pdf.py:90-95).
FilesWorkUntilSwitched ==
    switches = 0 /\ configured # "signed" =>
        \A q \in Requests \ faulted : answer[q] # "failed" /\ q \notin plain
=============================================================================

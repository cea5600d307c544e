----------------------------- MODULE Templates -----------------------------
(***************************************************************************)
(* One certificate template and its numbered versions (TemplateViewSet in      *)
(* certificates/views.py).  Creating it, saving a version, editing it and       *)
(* deleting it are requests of several statements without a transaction or a   *)
(* lock; issuing reads the template and pins the version that is current in    *)
(* what it read.                                                               *)
(***************************************************************************)
EXTENDS Naturals, FiniteSets

CONSTANTS
    Requests,       \* requests for the template
    MaxCrashes      \* bound: requests that die

ASSUME TemplatesAssumption == IsFiniteSet(Requests) /\ MaxCrashes \in Nat

VARIABLES
    present,        \* the template row exists
    current,        \* its current_version: a version number, 0 for NULL
    versions,       \* TemplateVersion rows, by number
    batches,        \* bulk batches of the template, by the request that uploaded them
    pinned,         \* certificates: the request that issued them and their version
    pc, read, number, \* per request: what it does next, the current_version of the
                    \* row it read, the version it adds
    crashes,
    \* history
    overlapped, crashed

vars == <<present, current, versions, batches, pinned, pc, read, number, crashes, overlapped, crashed>>

Steps == {"new", "first", "point", "version", "insert", "edit", "check", "delete", "issue", "upload", "ended"}

TypeOK ==
    /\ present \in BOOLEAN
    /\ current \in Nat
    /\ versions \subseteq Nat \ {0}
    /\ batches \subseteq Requests
    /\ pinned \subseteq [by : Requests, version : Nat \ {0}]
    /\ pc \in [Requests -> Steps]
    /\ read \in [Requests -> Nat]
    /\ number \in [Requests -> Nat]
    /\ crashes \in 0..MaxCrashes
    /\ overlapped \in BOOLEAN /\ crashed \in BOOLEAN

Init ==
    /\ present = FALSE /\ current = 0
    /\ versions = {} /\ batches = {} /\ pinned = {}
    /\ pc = [q \in Requests |-> "new"]
    /\ read = [q \in Requests |-> 0]
    /\ number = [q \in Requests |-> 0]
    /\ crashes = 0 /\ overlapped = FALSE /\ crashed = FALSE

Active(q) == pc[q] \notin {"new", "ended"}

\* A request that fails or ends forgets what it read.
GoTo(q, step) ==
    /\ pc' = [pc EXCEPT ![q] = step]
    /\ IF step = "ended" THEN /\ read' = [read EXCEPT ![q] = 0]
                              /\ number' = [number EXCEPT ![q] = 0]
                         ELSE UNCHANGED <<read, number>>

Begins(q) == overlapped' = (overlapped \/ \E p \in Requests : Active(p))

environment == <<crashes, overlapped, crashed>>

-----------------------------------------------------------------------------
(* perform_create: the template, version 1, and the reference to it          *)

CreateTemplate(q) ==
    /\ pc[q] = "new" /\ ~present /\ current = 0 /\ versions = {}
    /\ \A p \in Requests : ~Active(p)
    /\ present' = TRUE
    /\ GoTo(q, "first")
    /\ UNCHANGED <<current, versions, batches, pinned, environment>>

CreateFirstVersion(q) ==
    /\ pc[q] = "first"
    /\ IF present /\ 1 \notin versions
       THEN /\ versions' = versions \cup {1}
            /\ number' = [number EXCEPT ![q] = 1]
            /\ pc' = [pc EXCEPT ![q] = "point"] /\ UNCHANGED read
       ELSE UNCHANGED versions /\ GoTo(q, "ended")
    /\ UNCHANGED <<present, current, batches, pinned, environment>>

\* Saves current_version alone; the foreign key needs the version.
PointToFirst(q) ==
    /\ pc[q] = "point"
    /\ current' = IF number[q] \in versions THEN number[q] ELSE current
    /\ GoTo(q, "ended")
    /\ UNCHANGED <<present, versions, batches, pinned, environment>>

-----------------------------------------------------------------------------
(* Requests for the template                                                 *)

\* get_object, or issue's and _upload's read of the template.
ReadTemplate(q) ==
    /\ pc[q] = "new" /\ present
    /\ \E step \in {"version", "edit", "check", "issue", "upload"} : pc' = [pc EXCEPT ![q] = step]
    /\ read' = [read EXCEPT ![q] = current]
    /\ Begins(q)
    /\ UNCHANGED <<present, current, versions, batches, pinned, number, crashes, crashed>>

NextNumber == IF versions = {} THEN 1
              ELSE 1 + (CHOOSE v \in versions : \A u \in versions : u <= v)

\* save_version looks for the last version ...
ChooseNumber(q) ==
    /\ pc[q] = "version"
    /\ number' = [number EXCEPT ![q] = NextNumber]
    /\ pc' = [pc EXCEPT ![q] = "insert"]
    /\ UNCHANGED <<present, current, versions, batches, pinned, read, environment>>

\* Mutant: the row that is saved next still refers to the version it was read with.
InsertVersionOnly(q) ==
    /\ pc[q] = "insert"
    /\ IF present /\ number[q] \notin versions
       THEN /\ versions' = versions \cup {number[q]}
            /\ pc' = [pc EXCEPT ![q] = "edit"]
            /\ UNCHANGED <<read, number>>
       ELSE UNCHANGED versions /\ GoTo(q, "ended")
    /\ UNCHANGED <<present, current, batches, pinned, environment>>

\* ... inserts the next one, which fails when another request was faster or the
\* template is gone, ...
InsertVersion(q) ==
    /\ pc[q] = "insert"
    /\ IF present /\ number[q] \notin versions
       THEN /\ versions' = versions \cup {number[q]}
            /\ pc' = [pc EXCEPT ![q] = "edit"]
            /\ read' = [read EXCEPT ![q] = number[q]]
            /\ UNCHANGED number
       ELSE UNCHANGED versions /\ GoTo(q, "ended")
    /\ UNCHANGED <<present, current, batches, pinned, environment>>

\* ... and saves the whole row, as PUT and PATCH do: current_version is written
\* as it was read or set.  A row that is gone is inserted again, which fails unless
\* the version it refers to is there.
SaveTemplate(q) ==
    /\ pc[q] = "edit"
    /\ IF read[q] = 0 \/ read[q] \in versions
       THEN present' = TRUE /\ current' = read[q]
       ELSE UNCHANGED <<present, current>>
    /\ GoTo(q, "ended")
    /\ UNCHANGED <<versions, batches, pinned, environment>>

\* perform_destroy: refuses while certificates were issued with the template, ...
CheckUnused(q) ==
    /\ pc[q] = "check"
    /\ GoTo(q, IF pinned = {} THEN "delete" ELSE "ended")
    /\ UNCHANGED <<present, current, versions, batches, pinned, environment>>

\* Mutant: the references do not protect the template.
DeleteUnprotected(q) ==
    /\ pc[q] = "delete"
    /\ present' = FALSE /\ current' = 0 /\ versions' = {}
    /\ GoTo(q, "ended")
    /\ UNCHANGED <<batches, pinned, environment>>

\* ... and deletes it with its versions, which PROTECT stops when a certificate
\* came in between or a batch was uploaded at any time.
DeleteTemplate(q) ==
    /\ pc[q] = "delete"
    /\ IF pinned = {} /\ batches = {}
       THEN present' = FALSE /\ current' = 0 /\ versions' = {}
       ELSE UNCHANGED <<present, current, versions>>
    /\ GoTo(q, "ended")
    /\ UNCHANGED <<batches, pinned, environment>>

\* issue_certificate: needs a current version; the foreign keys need the rows.
IssueWithTemplate(q) ==
    /\ pc[q] = "issue"
    /\ pinned' = IF read[q] # 0 /\ present /\ read[q] \in versions
                 THEN pinned \cup {[by |-> q, version |-> read[q]]} ELSE pinned
    /\ GoTo(q, "ended")
    /\ UNCHANGED <<present, current, versions, batches, environment>>

\* BulkIssueView._upload: the batch refers to the template it read.
UploadBatch(q) ==
    /\ pc[q] = "upload"
    /\ batches' = IF present THEN batches \cup {q} ELSE batches
    /\ GoTo(q, "ended")
    /\ UNCHANGED <<present, current, versions, pinned, environment>>

Crash(q) ==
    /\ Active(q) /\ crashes < MaxCrashes
    /\ crashes' = crashes + 1 /\ crashed' = TRUE
    /\ GoTo(q, "ended")
    /\ UNCHANGED <<present, current, versions, batches, pinned, overlapped>>

Next == \E q \in Requests :
    \/ CreateTemplate(q) \/ CreateFirstVersion(q) \/ PointToFirst(q)
    \/ ReadTemplate(q) \/ ChooseNumber(q) \/ InsertVersion(q) \/ SaveTemplate(q)
    \/ CheckUnused(q) \/ DeleteTemplate(q) \/ IssueWithTemplate(q) \/ UploadBatch(q) \/ Crash(q)

Spec == Init /\ [][Next]_vars
-----------------------------------------------------------------------------
(* Properties                                                                *)

\* "Issued certs point at TemplateVersion, not the live draft"
\* (docs/ARCHITECTURE.md:99): the version a certificate was issued with, and the one
\* that is current, stay as long as the certificate and the template, and the template
\* as long as its batches, however a deletion, a save and the issuing overlap.
ReferencesHold ==
    /\ \A c \in pinned : present /\ c.version \in versions
    /\ batches # {} => present
    /\ current # 0 => present /\ current \in versions

\* The designer's last version is the one that is issued, unless requests overlapped
\* or one died: PATCH and save_version write back the current_version they read
\* (views.py:111-123), so an older one can become current again.
CurrentIsLatestAlone ==
    present /\ ~overlapped /\ ~crashed /\ (\A q \in Requests : ~Active(q)) =>
        current \in versions /\ \A v \in versions : v <= current
=============================================================================

-------------------------- MODULE FileStoreProofs --------------------------
(***************************************************************************)
(* Theorems about FileStore for any number of processes and files.  The        *)
(* argument: the object is whole before the row is inserted, nothing touches   *)
(* it afterwards, and the process that inserts the row is the one that stored  *)
(* the object, with the settings it had then; as long as nobody changes the    *)
(* settings all processes use one store.                                       *)
(***************************************************************************)
EXTENDS FileStore, TLAPS

\* How far a file is.
Sound(q) ==
    /\ pc[q] \in Writing => at[q] \in Processes
    /\ row[q] # "none" => pc[q] \in {"point", "ended"} /\ object[q] = "whole" /\ kept[q] = row[q]
    /\ pc[q] = "row" => object[q] = "whole" /\ kept[q] = Saves(q)
    /\ pc[q] = "point" => row[q] # "none"

\* As long as the settings stay, every object is in the one store that is configured,
\* and nothing fails that met no failing call.
Undisturbed(q) ==
    switches = 0 =>
        /\ kept[q] \in {"none", Provider(configured)}
        /\ configured # "signed" /\ q \notin faulted => answer[q] # "failed" /\ q \notin plain

SettingsAgree == switches = 0 => \A p \in Processes : setting[p] = configured

IInv ==
    /\ TypeOK
    /\ \A q \in Requests : Sound(q) /\ Undisturbed(q)
    /\ SettingsAgree
    /\ zip # None => zip \in Files

-----------------------------------------------------------------------------

LEMMA ProviderTypes == \A s \in Settings : Provider(s) \in Stores
BY DEF Settings, Stores, Provider

LEMMA SavesTypes ==
    ASSUME TypeOK, NEW q \in Requests, at[q] \in Processes
    PROVE  Saves(q) \in Stores
BY ProviderTypes DEF TypeOK, Saves

\* Nothing about file r changes.
Same(r) ==
    /\ pc'[r] = pc[r] /\ at'[r] = at[r] /\ object'[r] = object[r] /\ kept'[r] = kept[r]
    /\ row'[r] = row[r] /\ answer'[r] = answer[r]
    /\ r \in plain' => r \in plain
    /\ r \in faulted => r \in faulted'

\* A step of request q that leaves the settings and the other files alone.
LEMMA OneStep ==
    ASSUME IInv, NEW q \in Requests, UNCHANGED <<configured, setting, switches>>,
           \A r \in Requests \ {q} : Same(r),
           TypeOK', Sound(q)', Undisturbed(q)', zip' # None => zip' \in Files'
    PROVE  IInv'
<1>1. ASSUME NEW r \in Requests \ {q}
      PROVE  Sound(r)' /\ Undisturbed(r)'
  <2>1. Same(r) /\ Sound(r) /\ Undisturbed(r)
    BY DEF IInv
  <2>2. Saves(r)' = Saves(r)
    BY <2>1 DEF Same, Saves
  <2>3. Sound(r)'
    BY <2>1, <2>2 DEF Same, Sound
  <2>4. Undisturbed(r)'
    BY <2>1 DEF Same, Undisturbed
  <2>5. QED
    BY <2>3, <2>4
<1>2. SettingsAgree'
  BY DEF IInv, SettingsAgree
<1>3. QED
  BY <1>1, <1>2 DEF IInv

\* Where a request goes next, and that it counts a failing call.
LEMMA StepTypes ==
    ASSUME TypeOK, NEW q \in Requests, NEW step \in {"new", "ended"} \cup Writing,
           \/ GoTo(q, step)
           \/ End(q, "done") \/ End(q, "failed"),
           Answers \/ Fails(q)
    PROVE  /\ pc' \in [Requests -> {"new", "ended"} \cup Writing]
           /\ answer' \in [Requests -> {"none", "done", "failed", "died"}]
           /\ switches' \in 0..MaxSwitches /\ restarts' \in 0..MaxRestarts
           /\ faults' \in 0..MaxFaults /\ faulted' \subseteq Requests
           /\ \A r \in Requests \ {q} : pc'[r] = pc[r] /\ answer'[r] = answer[r]
           /\ \A r \in Requests : r \in faulted => r \in faulted'
           /\ switches' = switches
<1>1. /\ pc' \in [Requests -> {"new", "ended"} \cup Writing]
      /\ answer' \in [Requests -> {"none", "done", "failed", "died"}]
      /\ \A r \in Requests \ {q} : pc'[r] = pc[r] /\ answer'[r] = answer[r]
  BY DEF GoTo, End, TypeOK
<1>2. /\ switches' \in 0..MaxSwitches /\ restarts' \in 0..MaxRestarts
      /\ faults' \in 0..MaxFaults /\ faulted' \subseteq Requests
      /\ \A r \in Requests : r \in faulted => r \in faulted'
      /\ switches' = switches
  <2>1. CASE Answers
    BY <2>1 DEF Answers, bounds, TypeOK
  <2>2. CASE Fails(q)
    BY <2>2, FileStoreAssumption DEF Fails, TypeOK
  <2>3. QED
    BY <2>1, <2>2
<1>3. QED
  BY <1>1, <1>2

-----------------------------------------------------------------------------
(* The steps of save_bytes                                                   *)

\* The first step: the process that saves is chosen.
LEMMA BeginSaveStep ==
    ASSUME IInv, NEW q \in Requests, NEW p \in Processes, pc[q] = "new", BeginSave(q, p)
    PROVE  /\ at' \in [Requests -> Processes \cup {None}]
           /\ at'[q] = p /\ pc'[q] \in {"bucket", "put"} /\ answer' = answer
           /\ \A r \in Requests \ {q} : at'[r] = at[r]
           /\ \E step \in {"bucket", "put"} : GoTo(q, step)
           /\ row[q] = "none"
BY DEF IInv, Sound, BeginSave, GoTo, TypeOK

LEMMA UploadKeeps ==
    ASSUME IInv, NEW q \in Requests, NEW p \in Processes, Upload(q, p)
    PROVE  IInv'
<1>1. PICK step \in {"bucket", "put"} : GoTo(q, step)
  BY BeginSaveStep DEF Upload
<1>2. /\ at' \in [Requests -> Processes \cup {None}]
      /\ at'[q] = p /\ pc'[q] \in {"bucket", "put"} /\ answer' = answer
      /\ \A r \in Requests \ {q} : at'[r] = at[r]
      /\ row[q] = "none"
  BY BeginSaveStep DEF Upload
<1>3. /\ pc' \in [Requests -> {"new", "ended"} \cup Writing]
      /\ \A r \in Requests \ {q} : pc'[r] = pc[r]
  BY <1>1 DEF GoTo, IInv, TypeOK, Writing
<1>4. UNCHANGED <<configured, setting, bucket, object, kept, row, zip, plain, tasks,
                  switches, restarts, faults, faulted>>
  BY DEF Upload, Answers, store, rows, bounds
<1>5. TypeOK'
  BY <1>2, <1>3, <1>4 DEF IInv, TypeOK
<1>6. \A r \in Requests \ {q} : Same(r)
  BY <1>2, <1>3, <1>4 DEF Same
<1>7. Sound(q)' /\ Undisturbed(q)'
  BY <1>2, <1>4 DEF IInv, Sound, Undisturbed
<1>8. zip' # None => zip' \in Files'
  BY <1>4 DEF IInv, Files
<1>9. QED
  BY <1>4, <1>5, <1>6, <1>7, <1>8, OneStep

LEMMA BucketKeeps ==
    ASSUME IInv, NEW q \in Requests, HeadBucket(q) \/ CreateBucket(q)
    PROVE  IInv'
<1>1. PICK step \in {"put", "create"} :
        \/ GoTo(q, step) /\ (Answers \/ Fails(q))
        \/ End(q, "failed") /\ Fails(q)
  <2>1. CASE HeadBucket(q)
    BY <2>1 DEF HeadBucket
  <2>2. CASE CreateBucket(q)
    BY <2>2 DEF CreateBucket
  <2>3. QED
    BY <2>1, <2>2
<1>2. pc[q] \in {"bucket", "create"}
      /\ UNCHANGED <<configured, setting, object, kept, row, zip, plain, at, tasks>>
  BY DEF HeadBucket, CreateBucket, store, rows
<1>3. bucket' \in BOOLEAN
  <2>1. bucket' = bucket \/ bucket' = TRUE
    BY DEF HeadBucket, CreateBucket, store
  <2>2. QED
    BY <2>1 DEF IInv, TypeOK
<1>4. at[q] \in Processes /\ row[q] = "none"
  BY <1>2 DEF IInv, Sound, Writing
<1>5. step \in {"new", "ended"} \cup Writing
  BY DEF Writing
<1>6. /\ pc' \in [Requests -> {"new", "ended"} \cup Writing]
      /\ answer' \in [Requests -> {"none", "done", "failed", "died"}]
      /\ switches' \in 0..MaxSwitches /\ restarts' \in 0..MaxRestarts
      /\ faults' \in 0..MaxFaults /\ faulted' \subseteq Requests
      /\ \A r \in Requests \ {q} : pc'[r] = pc[r] /\ answer'[r] = answer[r]
      /\ \A r \in Requests : r \in faulted => r \in faulted'
      /\ switches' = switches
  BY <1>1, <1>5, StepTypes DEF IInv
<1>7. TypeOK'
  BY <1>2, <1>3, <1>6 DEF IInv, TypeOK
<1>8. \A r \in Requests \ {q} : Same(r)
  BY <1>2, <1>6 DEF Same
<1>9. pc'[q] \in {"put", "create", "ended"} /\ (answer'[q] = answer[q] \/ q \in faulted')
  BY <1>1 DEF GoTo, End, Fails, IInv, TypeOK
<1>10. Sound(q)' /\ Undisturbed(q)'
  BY <1>2, <1>4, <1>6, <1>9 DEF IInv, Sound, Undisturbed
<1>11. zip' # None => zip' \in Files'
  BY <1>2 DEF IInv, Files
<1>12. QED
  BY <1>2, <1>6, <1>7, <1>8, <1>10, <1>11, OneStep

\* The object is written by the process that will insert the row.
LEMMA ObjectKeeps ==
    ASSUME IInv, NEW q \in Requests, PutObject(q) \/ WriteFile(q)
    PROVE  IInv'
<1>1. pc[q] \in {"put", "write"}
      /\ UNCHANGED <<configured, setting, row, zip, plain, at, tasks, bucket>>
  BY DEF PutObject, WriteFile, Keep, store, rows
<1>2. at[q] \in Processes /\ row[q] = "none" /\ Saves(q) \in Stores
  BY <1>1, SavesTypes DEF IInv, Sound, Writing
<1>3. \/ /\ Keep(q, "partial") /\ GoTo(q, "write") /\ Answers
      \/ /\ Keep(q, "whole") /\ GoTo(q, "row") /\ Answers
      \/ /\ Keep(q, "whole") \/ UNCHANGED store
         /\ End(q, "failed") /\ Fails(q)
  BY Zenon DEF PutObject, WriteFile
<1>4. /\ object' \in [Requests -> {"none", "partial", "whole"}]
      /\ kept' \in [Requests -> Stores \cup {"none"}]
      /\ \A r \in Requests \ {q} : object'[r] = object[r] /\ kept'[r] = kept[r]
      /\ kept'[q] \in {kept[q], Saves(q)}
  BY <1>2, <1>3 DEF Keep, store, IInv, TypeOK
<1>5. /\ pc' \in [Requests -> {"new", "ended"} \cup Writing]
      /\ answer' \in [Requests -> {"none", "done", "failed", "died"}]
      /\ switches' \in 0..MaxSwitches /\ restarts' \in 0..MaxRestarts
      /\ faults' \in 0..MaxFaults /\ faulted' \subseteq Requests
      /\ \A r \in Requests \ {q} : pc'[r] = pc[r] /\ answer'[r] = answer[r]
      /\ \A r \in Requests : r \in faulted => r \in faulted'
      /\ switches' = switches
  <2>1. "write" \in Writing /\ "row" \in Writing
    BY DEF Writing
  <2>2. PICK step \in {"write", "row"} :
          /\ GoTo(q, step) \/ End(q, "failed")
          /\ Answers \/ Fails(q)
    BY <1>3
  <2>3. QED
    BY <2>1, <2>2, StepTypes DEF IInv
<1>6. TypeOK'
  BY <1>1, <1>4, <1>5 DEF IInv, TypeOK
<1>7. \A r \in Requests \ {q} : Same(r)
  BY <1>1, <1>4, <1>5 DEF Same
<1>8. \/ pc'[q] = "write" /\ answer'[q] = answer[q]
      \/ pc'[q] = "row" /\ object'[q] = "whole" /\ kept'[q] = Saves(q) /\ answer'[q] = answer[q]
      \/ pc'[q] = "ended" /\ q \in faulted'
  BY <1>3 DEF Keep, GoTo, End, Fails, IInv, TypeOK
<1>9. Saves(q)' = Saves(q)
  BY <1>1 DEF Saves
<1>10. Sound(q)'
  BY <1>1, <1>2, <1>8, <1>9 DEF Sound
<1>11. Undisturbed(q)'
  <2>1. switches = 0 => Saves(q) = Provider(configured)
    BY <1>2 DEF IInv, SettingsAgree, Saves
  <2>2. QED
    BY <1>1, <1>4, <1>5, <1>8, <2>1 DEF IInv, Undisturbed
<1>12. zip' # None => zip' \in Files'
  BY <1>1 DEF IInv, Files
<1>13. QED
  BY <1>1, <1>5, <1>6, <1>7, <1>10, <1>11, <1>12, OneStep

\* The row names the store in which the object is.
LEMMA RowKeeps ==
    ASSUME IInv, NEW q \in Requests, InsertRow(q)
    PROVE  IInv'
<1>1. /\ UNCHANGED <<configured, setting, bucket, object, kept, zip, plain, at, tasks>>
      /\ row' = [row EXCEPT ![q] = Saves(q)]
      /\ GoTo(q, "point") \/ End(q, "done")
      /\ Answers
  BY DEF InsertRow, store
<1>2. at[q] \in Processes /\ Saves(q) \in Stores /\ object[q] = "whole" /\ kept[q] = Saves(q)
  <2>1. pc[q] = "row" /\ Sound(q)
    BY DEF InsertRow, IInv
  <2>2. QED
    BY <2>1, SavesTypes DEF IInv, Sound, Writing
<1>3. row' \in [Requests -> Stores \cup {"none"}] /\ row'[q] = Saves(q)
      /\ \A r \in Requests \ {q} : row'[r] = row[r]
  BY <1>1, <1>2 DEF IInv, TypeOK
<1>4. /\ pc' \in [Requests -> {"new", "ended"} \cup Writing]
      /\ answer' \in [Requests -> {"none", "done", "failed", "died"}]
      /\ switches' \in 0..MaxSwitches /\ restarts' \in 0..MaxRestarts
      /\ faults' \in 0..MaxFaults /\ faulted' \subseteq Requests
      /\ \A r \in Requests \ {q} : pc'[r] = pc[r] /\ answer'[r] = answer[r]
      /\ \A r \in Requests : r \in faulted => r \in faulted'
      /\ switches' = switches
  <2>1. "point" \in {"new", "ended"} \cup Writing
    BY DEF Writing
  <2>2. QED
    BY <1>1, <2>1, StepTypes DEF IInv
<1>5. TypeOK'
  BY <1>1, <1>3, <1>4 DEF IInv, TypeOK
<1>6. \A r \in Requests \ {q} : Same(r)
  BY <1>1, <1>3, <1>4 DEF Same
<1>7. pc'[q] \in {"point", "ended"} /\ answer'[q] \in {answer[q], "done"}
  BY <1>1 DEF GoTo, End, IInv, TypeOK
<1>8. Sound(q)'
  <2>1. Saves(q) # "none"
    BY <1>2 DEF Stores
  <2>2. QED
    BY <1>1, <1>2, <1>3, <1>7, <2>1 DEF Sound
<1>9. Undisturbed(q)'
  BY <1>1, <1>4, <1>7 DEF IInv, Undisturbed
<1>10. zip' # None => zip' \in Files'
  <2>1. Saves(q) # "none"
    BY <1>2 DEF Stores
  <2>2. QED
    BY <1>1, <1>3, <2>1 DEF IInv, Files
<1>11. QED
  BY <1>1, <1>4, <1>5, <1>6, <1>8, <1>9, <1>10, OneStep

\* As long as the settings stay, every process opens every file.
LEMMA OpensFiles ==
    ASSUME IInv, NEW p \in Processes, NEW f \in Files, switches = 0
    PROVE  Opens(p, f)
<1>1. kept[f] \in Stores /\ kept[f] = row[f] /\ object[f] # "none" /\ f \in Requests
  BY DEF IInv, Sound, Files, TypeOK
<1>2. kept[f] = Provider(configured)
  BY <1>1 DEF IInv, Undisturbed, Stores
<1>3. setting[p] = configured
  BY DEF IInv, SettingsAgree
<1>4. QED
  BY <1>1, <1>2, <1>3 DEF Opens

\* A download changes nothing but its own answer.
LEMMA DownloadKeeps ==
    ASSUME IInv, NEW q \in Requests, NEW p \in Processes, NEW f \in Files, Download(q, p, f)
    PROVE  IInv'
<1>1. /\ UNCHANGED <<configured, setting, bucket, object, kept, row, zip, plain, tasks>>
      /\ pc[q] = "new" /\ at' = [at EXCEPT ![q] = p]
      /\ \/ End(q, IF Streams(p, f) THEN "done" ELSE "failed") /\ Answers
         \/ End(q, "failed") /\ Fails(q)
  BY DEF Download, store, rows
<1>2. row[q] = "none"
  BY <1>1 DEF IInv, Sound
<1>3. /\ pc' \in [Requests -> {"new", "ended"} \cup Writing]
      /\ answer' \in [Requests -> {"none", "done", "failed", "died"}]
      /\ switches' \in 0..MaxSwitches /\ restarts' \in 0..MaxRestarts
      /\ faults' \in 0..MaxFaults /\ faulted' \subseteq Requests
      /\ \A r \in Requests \ {q} : pc'[r] = pc[r] /\ answer'[r] = answer[r]
      /\ \A r \in Requests : r \in faulted => r \in faulted'
      /\ switches' = switches
  <2>1. /\ End(q, "done") \/ End(q, "failed")
        /\ Answers \/ Fails(q)
    BY <1>1
  <2>2. QED
    BY <2>1, StepTypes DEF IInv
<1>4. TypeOK'
  BY <1>1, <1>3 DEF IInv, TypeOK
<1>5. \A r \in Requests \ {q} : Same(r)
  BY <1>1, <1>3 DEF Same, IInv, TypeOK
<1>6. pc'[q] = "ended"
  BY <1>1 DEF End, IInv, TypeOK
<1>7. switches = 0 /\ configured # "signed" /\ q \notin faulted' => answer'[q] # "failed"
  <2>1. SUFFICES ASSUME switches = 0, configured # "signed", q \notin faulted'
                 PROVE  answer'[q] # "failed"
    OBVIOUS
  <2>2. Streams(p, f)
    BY <2>1, OpensFiles DEF Streams, IInv, SettingsAgree
  <2>3. ~Fails(q)
    BY <2>1 DEF Fails
  <2>4. QED
    BY <1>1, <2>2, <2>3 DEF End, IInv, TypeOK
<1>8. Sound(q)' /\ Undisturbed(q)'
  <2>1. Sound(q)'
    BY <1>1, <1>2, <1>6 DEF Sound, Writing
  <2>2. Undisturbed(q)'
    BY <1>1, <1>3, <1>7 DEF IInv, Undisturbed
  <2>3. QED
    BY <2>1, <2>2
<1>9. zip' # None => zip' \in Files'
  BY <1>1 DEF IInv, Files
<1>10. QED
  BY <1>1, <1>3, <1>4, <1>5, <1>8, <1>9, OneStep

\* A ZIP misses an image only if a call failed or the image is out of reach.
LEMMA BuildZipKeeps ==
    ASSUME IInv, NEW q \in Requests, NEW p \in Processes, NEW image \in Files \cup {None},
           BuildZip(q, p, image)
    PROVE  IInv'
<1>1. PICK step \in {"bucket", "put"} : GoTo(q, step)
  BY BeginSaveStep DEF BuildZip
<1>2. /\ at' \in [Requests -> Processes \cup {None}]
      /\ at'[q] = p /\ pc'[q] \in {"bucket", "put"} /\ answer' = answer
      /\ \A r \in Requests \ {q} : at'[r] = at[r]
      /\ row[q] = "none"
  BY BeginSaveStep DEF BuildZip
<1>3. /\ UNCHANGED <<configured, setting, bucket, object, kept, row, zip>>
      /\ tasks' = tasks \cup {q}
      /\ plain' = plain \/ plain' = plain \cup {q}
      /\ Answers \/ Fails(q)
  BY DEF BuildZip, store
<1>4. /\ pc' \in [Requests -> {"new", "ended"} \cup Writing]
      /\ answer' \in [Requests -> {"none", "done", "failed", "died"}]
      /\ switches' \in 0..MaxSwitches /\ restarts' \in 0..MaxRestarts
      /\ faults' \in 0..MaxFaults /\ faulted' \subseteq Requests
      /\ \A r \in Requests \ {q} : pc'[r] = pc[r] /\ answer'[r] = answer[r]
      /\ \A r \in Requests : r \in faulted => r \in faulted'
      /\ switches' = switches
  <2>1. step \in {"new", "ended"} \cup Writing
    BY DEF Writing
  <2>2. QED
    BY <1>1, <1>3, <2>1, StepTypes DEF IInv
<1>5. TypeOK'
  BY <1>2, <1>3, <1>4 DEF IInv, TypeOK
<1>6. \A r \in Requests \ {q} : Same(r)
  BY <1>2, <1>3, <1>4 DEF Same
<1>7. switches = 0 /\ q \notin faulted' => (q \in plain' => q \in plain)
  <2>1. SUFFICES ASSUME switches = 0, q \notin faulted' PROVE plain' = plain
    OBVIOUS
  <2>2. image = None \/ Opens(p, image)
    BY <2>1, OpensFiles
  <2>3. ~Fails(q)
    BY <2>1 DEF Fails
  <2>4. QED
    BY <2>2, <2>3 DEF BuildZip
<1>8. Sound(q)' /\ Undisturbed(q)'
  <2>1. Sound(q)'
    BY <1>2, <1>3 DEF Sound
  <2>2. Undisturbed(q)'
    BY <1>2, <1>3, <1>4, <1>7 DEF IInv, Undisturbed
  <2>3. QED
    BY <2>1, <2>2
<1>9. zip' # None => zip' \in Files'
  BY <1>3 DEF IInv, Files
<1>10. QED
  BY <1>3, <1>4, <1>5, <1>6, <1>8, <1>9, OneStep

LEMMA PointKeeps ==
    ASSUME IInv, NEW q \in Requests, PointToZip(q)
    PROVE  IInv'
<1>1. /\ UNCHANGED <<configured, setting, bucket, object, kept, row, plain, at, tasks>>
      /\ zip' = q /\ End(q, "done") /\ Answers /\ pc[q] = "point"
  BY DEF PointToZip, store
<1>2. row[q] # "none"
  BY <1>1 DEF IInv, Sound
<1>3. /\ pc' \in [Requests -> {"new", "ended"} \cup Writing]
      /\ answer' \in [Requests -> {"none", "done", "failed", "died"}]
      /\ switches' \in 0..MaxSwitches /\ restarts' \in 0..MaxRestarts
      /\ faults' \in 0..MaxFaults /\ faulted' \subseteq Requests
      /\ \A r \in Requests \ {q} : pc'[r] = pc[r] /\ answer'[r] = answer[r]
      /\ \A r \in Requests : r \in faulted => r \in faulted'
      /\ switches' = switches
  BY <1>1, StepTypes DEF IInv
<1>4. TypeOK'
  BY <1>1, <1>3 DEF IInv, TypeOK
<1>5. \A r \in Requests \ {q} : Same(r)
  BY <1>1, <1>3 DEF Same
<1>6. pc'[q] = "ended" /\ answer'[q] = "done"
  BY <1>1 DEF End, IInv, TypeOK
<1>7. Sound(q)'
  BY <1>1, <1>6 DEF IInv, Sound, Writing
<1>8. Undisturbed(q)'
  BY <1>1, <1>3, <1>6 DEF IInv, Undisturbed
<1>9. zip' # None => zip' \in Files'
  BY <1>1, <1>2 DEF Files
<1>10. QED
  BY <1>1, <1>3, <1>4, <1>5, <1>7, <1>8, <1>9, OneStep

-----------------------------------------------------------------------------
(* The operator and the processes                                            *)

\* Whoever changes the settings gives up what depended on them.
LEMMA ConfigureKeeps ==
    ASSUME IInv, NEW s \in Settings, Configure(s)
    PROVE  IInv'
<1>1. /\ switches' \in (0..MaxSwitches) \ {0} /\ configured' \in Settings
      /\ UNCHANGED <<setting, bucket, object, kept, row, zip, plain, pc, at, tasks, answer,
                     restarts, faults, faulted>>
  BY FileStoreAssumption DEF Configure, store, rows, IInv, TypeOK
<1>2. TypeOK'
  BY <1>1 DEF IInv, TypeOK
<1>3. \A q \in Requests : Sound(q)' /\ Undisturbed(q)'
  BY <1>1 DEF IInv, Sound, Saves, Undisturbed
<1>4. SettingsAgree' /\ (zip' # None => zip' \in Files')
  BY <1>1 DEF IInv, SettingsAgree, Files
<1>5. QED
  BY <1>2, <1>3, <1>4 DEF IInv

\* A process that restarts has given up the requests it ran.
LEMMA RestartKeeps ==
    ASSUME IInv, NEW p \in Processes, Restart(p)
    PROVE  IInv'
<1> DEFINE lost == {q \in Requests : at[q] = p /\ pc[q] \in Writing}
<1>1. /\ restarts' \in 0..MaxRestarts
      /\ setting' = [setting EXCEPT ![p] = configured]
      /\ pc' = [q \in Requests |-> IF q \in lost THEN "ended" ELSE pc[q]]
      /\ answer' = [q \in Requests |-> IF q \in lost THEN "died" ELSE answer[q]]
      /\ UNCHANGED <<configured, bucket, object, kept, row, zip, plain, at, tasks,
                     switches, faults, faulted>>
  BY FileStoreAssumption DEF Restart, store, rows, IInv, TypeOK
<1>2. TypeOK'
  BY <1>1 DEF IInv, TypeOK
<1>3. ASSUME NEW q \in Requests
      PROVE  Sound(q)' /\ Undisturbed(q)'
  <2>1. Sound(q) /\ Undisturbed(q)
    BY DEF IInv
  <2>2. CASE q \in lost
    <3>1. pc'[q] = "ended" /\ answer'[q] = "died" /\ "ended" \notin Writing
      BY <1>1, <2>2 DEF Writing
    <3>2. Sound(q)'
      BY <1>1, <2>1, <3>1 DEF Sound
    <3>3. Undisturbed(q)'
      BY <1>1, <2>1, <3>1 DEF Undisturbed
    <3>4. QED
      BY <3>2, <3>3
  <2>3. CASE q \notin lost
    <3>1. pc'[q] = pc[q] /\ answer'[q] = answer[q]
      BY <1>1, <2>3
    <3>2. pc[q] \in Writing => Saves(q)' = Saves(q)
      BY <1>1, <2>1, <2>3 DEF Sound, Saves, IInv, TypeOK
    <3>3. Sound(q)'
      BY <1>1, <2>1, <3>1, <3>2 DEF Sound, Writing
    <3>4. Undisturbed(q)'
      BY <1>1, <2>1, <3>1 DEF Undisturbed
    <3>5. QED
      BY <3>3, <3>4
  <2>4. QED
    BY <2>2, <2>3
<1>4. SettingsAgree' /\ (zip' # None => zip' \in Files')
  BY <1>1 DEF IInv, SettingsAgree, Files, TypeOK
<1>5. QED
  BY <1>2, <1>3, <1>4 DEF IInv

-----------------------------------------------------------------------------
(* The inductive invariant and the theorems                                  *)

LEMMA InitIInv == Init => IInv
<1> SUFFICES ASSUME Init PROVE IInv
  OBVIOUS
<1>1. TypeOK
  <2>1. bucket \in BOOLEAN
    BY DEF Init
  <2>2. QED
    BY <2>1, FileStoreAssumption DEF Init, TypeOK
<1>2. \A q \in Requests : Sound(q) /\ Undisturbed(q)
  BY DEF Init, Sound, Undisturbed, Writing
<1>3. QED
  BY <1>1, <1>2 DEF Init, IInv, SettingsAgree

LEMMA NextIInv ==
    ASSUME IInv, [Next]_vars
    PROVE  IInv'
<1>1. CASE UNCHANGED vars
  BY <1>1 DEF vars, store, rows, bounds, IInv, TypeOK, Sound, Saves, Undisturbed, SettingsAgree, Files
<1>2. ASSUME NEW q \in Requests,
             \/ HeadBucket(q) \/ CreateBucket(q) \/ PutObject(q) \/ WriteFile(q)
             \/ InsertRow(q) \/ PointToZip(q)
      PROVE  IInv'
  BY <1>2, BucketKeeps, ObjectKeeps, RowKeeps, PointKeeps
<1>3. ASSUME NEW q \in Requests, NEW p \in Processes,
             \/ Upload(q, p) \/ DownloadZip(q, p)
             \/ \E f \in Files : Download(q, p, f)
             \/ \E image \in Files \cup {None} : BuildZip(q, p, image)
      PROVE  IInv'
  <2>1. CASE DownloadZip(q, p)
    <3>1. zip \in Files /\ Download(q, p, zip)
      BY <2>1 DEF DownloadZip, IInv
    <3>2. QED
      BY <3>1, DownloadKeeps
  <2>2. QED
    BY <1>3, <2>1, UploadKeeps, DownloadKeeps, BuildZipKeeps
<1>4. ASSUME \/ \E s \in Settings : Configure(s)
             \/ \E p \in Processes : Restart(p)
      PROVE  IInv'
  BY <1>4, ConfigureKeeps, RestartKeeps
<1>5. QED
  BY <1>1, <1>2, <1>3, <1>4 DEF Next

LEMMA AlwaysIInv == Spec => []IInv
<1>1. IInv /\ [Next]_vars => IInv'
  BY NextIInv
<1>2. QED
  BY <1>1, InitIInv, PTL DEF Spec

\* Every variable of the store has its type: the row of a file names one of the three
\* stores, never a setting.
THEOREM TypeCorrect == Spec => []TypeOK
<1>1. IInv => TypeOK
  BY DEF IInv
<1>2. QED
  BY <1>1, AlwaysIInv, PTL

\* Whatever fails, dies or is reconfigured: the object a StoredFile row promises is
\* whole, in the store the row names (attachments/services/__init__.py:36-37).
THEOREM RowsHaveObjects == Spec => []RowHasObject
<1>1. IInv => RowHasObject
  BY DEF IInv, Sound, RowHasObject, Files
<1>2. QED
  BY <1>1, AlwaysIInv, PTL

\* While the settings stay and signed URLs are off, uploads, downloads and the images of
\* a ZIP fail only with the storage (attachments/views.py:50).
THEOREM FilesWork == Spec => []FilesWorkUntilSwitched
<1>1. IInv => FilesWorkUntilSwitched
  BY DEF IInv, Undisturbed, FilesWorkUntilSwitched
<1>2. QED
  BY <1>1, AlwaysIInv, PTL
=============================================================================

--------------------------- MODULE WorkspaceProofs ---------------------------
(***************************************************************************)
(* Theorems about what a student's workspace sends away and what becomes   *)
(* of it there: the learning records, the published project, the queue a   *)
(* teacher sees and the activity its surfaces share, each for every value  *)
(* of its constants.                                                       *)
(***************************************************************************)
EXTENDS WorkspaceMC, OrganizationProofs, EvidenceProofs

-----------------------------------------------------------------------------
(* LearningRecords *)

RecordsBase == RecordsTypeOK /\ OnRecord

LEMMA NullIsNoRecord == NULL \notin Record /\ NULL \notin StoredLearningRecord
BY NullAssumption

LEMMA RecordsStart == RecordsInit => RecordsInv
<1> SUFFICES ASSUME RecordsInit PROVE RecordsInv
  OBVIOUS
<1>1. Off \in Process
  BY DEF Off, Process
<1>2. RecordsTypeOK
  BY <1>1 DEF RecordsInit, RecordsTypeOK, Remote, Off
<1>3. WorksOnRecords(Off) /\ UploadsTheFiles(Off)
  BY DEF WorksOnRecords, UploadsTheFiles, Uploading, Off
<1>4. OnRecord /\ ListedAsFiled
  BY <1>3 DEF RecordsInit, OnRecord, ListedAsFiled
<1>5. SyncedMeansUploaded
  BY DEF RecordsInit, SyncedMeansUploaded
<1> QED BY <1>2, <1>4, <1>5 DEF RecordsInv

(* One process changes; records are not taken back. *)
LEMMA ProcessStep ==
  ASSUME RecordsBase, NEW p \in Procs, NEW x \in Process, proc' = [proc EXCEPT ![p] = x],
         WorksOnRecords(x)',
         \A s \in Sessions : (record[s] # NULL => record'[s] # NULL) /\ (file[s] # NULL => file'[s] # NULL)
  PROVE  /\ proc' \in [Procs -> Process] /\ proc'[p] = x /\ \A q \in Procs \ {p} : proc'[q] = proc[q]
         /\ \A q \in Procs : WorksOnRecords(proc[q])'
<1>1. /\ proc' \in [Procs -> Process] /\ proc'[p] = x /\ \A q \in Procs \ {p} : proc'[q] = proc[q]
  BY DEF RecordsBase, RecordsTypeOK
<1>2. ASSUME NEW q \in Procs \ {p} PROVE WorksOnRecords(proc[q])'
  <2>1. WorksOnRecords(proc[q]) /\ proc[q] \in Process /\ proc'[q] = proc[q]
    BY <1>1 DEF RecordsBase, OnRecord, RecordsTypeOK
  <2>2. \A i \in Item : i.session \in Sessions
    BY DEF Item
  <2>3. \A i \in proc[q].queue : i.session \in Sessions
    BY <2>1, <2>2 DEF Process
  <2> QED BY <2>1, <2>2, <2>3 DEF WorksOnRecords, Uploading
<1>3. WorksOnRecords(proc[p])'
  BY <1>1 DEF WorksOnRecords, Uploading
<1> QED BY <1>1, <1>2, <1>3

(* The record of a new session is one that was not there. *)
LEMMA NewRecordMade ==
  ASSUME RecordsBase, NEW p \in Procs, NEW s \in Sessions, NEW inClass \in BOOLEAN, NewRecord(p, s, inClass)
  PROVE  /\ \E x \in Process : /\ proc' = [proc EXCEPT ![p] = x] /\ WorksOnRecords(x)'
                               /\ x.pc \in {"save", "idle"}
         /\ record' \in [Sessions -> Record \cup {NULL}] /\ record[s] = NULL
         /\ \A q \in Sessions \ {s} : record'[q] = record[q]
<1> DEFINE x == [Off EXCEPT !.pc = IF inClass THEN "save" ELSE "idle", !.session = s, !.after = "idle"]
<1>1. x \in Process /\ x.session = s /\ x.queue = {} /\ x.pc \in {"save", "idle"} /\ x.after = "idle"
  BY DEF Off, Process
<1>2. proc' = [proc EXCEPT ![p] = x] /\ record[s] = NULL
  BY DEF NewRecord, Fresh
<1>3. PICK who \in {signedIn, NULL} : record' = [record EXCEPT ![s] = [student |-> who, inClass |-> inClass, version |-> 1]]
  BY DEF NewRecord
<1>4. [student |-> who, inClass |-> inClass, version |-> 1] \in Record
  BY BoundsAssumption DEF Record, Versions, RecordsBase, RecordsTypeOK
<1>5. record' \in [Sessions -> Record \cup {NULL}] /\ record'[s] # NULL /\ \A q \in Sessions \ {s} : record'[q] = record[q]
  BY <1>3, <1>4, NullAssumption DEF RecordsBase, RecordsTypeOK
<1>6. WorksOnRecords(x)'
  BY <1>1, <1>5 DEF WorksOnRecords, Uploading
<1> HIDE DEF x
<1> QED BY <1>1, <1>2, <1>5, <1>6

(* A step that changes a process and nothing else. *)
LEMMA ProcessMoves ==
  ASSUME RecordsBase, NEW p \in Procs, NEW x \in Process, proc' = [proc EXCEPT ![p] = x],
         UNCHANGED <<signedIn, record, file, remote>>, WorksOnRecords(x)
  PROVE  RecordsBase' /\ proc'[p] = x
<1>1. WorksOnRecords(x)'
  BY DEF WorksOnRecords, Uploading
<1>2. /\ proc' \in [Procs -> Process] /\ proc'[p] = x
      /\ \A q \in Procs : WorksOnRecords(proc[q])'
  BY <1>1, ProcessStep
<1>3. RecordsTypeOK'
  BY <1>2 DEF RecordsBase, RecordsTypeOK
<1>4. OnRecord'
  BY <1>2 DEF RecordsBase, OnRecord
<1> QED BY <1>2, <1>3, <1>4 DEF RecordsBase

(* What those steps make of the process. *)
LEMMA ProcessTurns ==
  ASSUME RecordsBase, NEW p \in Procs,
         \/ StartSync(p) \/ SaveFails(p) \/ List(p) \/ TakeRecord(p) \/ UploadFails(p)
         \/ MarkRead(p) \/ MarkFails(p) \/ Crash(p)
         \/ (EndSync(p) /\ proc[p].after # "select")
  PROVE  \E x \in Process : /\ proc' = [proc EXCEPT ![p] = x] /\ UNCHANGED <<signedIn, record, file, remote>>
                            /\ WorksOnRecords(x) /\ (UploadsTheFiles(proc[p]) => UploadsTheFiles(x))
<1> DEFINE y == proc[p]
<1>1. y \in Process /\ WorksOnRecords(y)
  BY DEF RecordsBase, RecordsTypeOK, OnRecord
<1>2. \A i \in Item : i.session \in Sessions
  BY DEF Item
<1>3. Off \in Process /\ Off.pc = "off" /\ Off.after = "off" /\ Off.queue = {}
  BY DEF Off, Process
<1>4. WorksOnRecords(Off) /\ UploadsTheFiles(Off)
  BY <1>3 DEF WorksOnRecords, UploadsTheFiles, Uploading
<1>5. proc \in [Procs -> Process]
  BY DEF RecordsBase, RecordsTypeOK
<1>6. CASE StartSync(p)
  <2> DEFINE x == [y EXCEPT !.pc = "list"]
  <2>1. x \in Process /\ x.pc = "list" /\ x.queue = y.queue /\ x.session = y.session /\ x.after = y.after
    BY <1>1 DEF Process
  <2>2. proc' = [proc EXCEPT ![p] = x]
    BY <1>6 DEF StartSync, ProcessAt
  <2>3. WorksOnRecords(x) /\ UploadsTheFiles(x)
    BY <1>1, <2>1 DEF WorksOnRecords, UploadsTheFiles, Uploading
  <2> HIDE DEF x
  <2> QED BY <1>6, <2>1, <2>2, <2>3 DEF StartSync
<1>7. ASSUME GiveUp(p), y.pc \in {"save", "write"}, UNCHANGED <<signedIn, record, file, remote>>
      PROVE  \E x \in Process : /\ proc' = [proc EXCEPT ![p] = x] /\ UNCHANGED <<signedIn, record, file, remote>>
                                /\ WorksOnRecords(x) /\ (UploadsTheFiles(proc[p]) => UploadsTheFiles(x))
  <2> DEFINE z == [Off EXCEPT !.pc = "idle", !.session = y.session]
  <2> DEFINE x == IF y.after = "off" THEN Off ELSE z
  <2>1. z \in Process /\ z.pc = "idle" /\ z.queue = {} /\ z.session = y.session /\ z.after = "off"
    BY <1>1 DEF Process, Off
  <2>2. proc' = [proc EXCEPT ![p] = x]
    BY <1>7 DEF GiveUp
  <2>3. (y.after # "off" => WorksOnRecords(z)) /\ UploadsTheFiles(z)
    BY <1>1, <2>1 DEF WorksOnRecords, UploadsTheFiles, Uploading
  <2>4. x \in Process /\ WorksOnRecords(x) /\ UploadsTheFiles(x)
    BY <1>3, <1>4, <2>1, <2>3
  <2> HIDE DEF x
  <2> QED BY <1>7, <2>2, <2>4
<1>8. CASE SaveFails(p)
  BY <1>7, <1>8 DEF SaveFails
<1>9. CASE List(p)
  <2> DEFINE listed == {i \in Item : file[i.session] = [version |-> i.version, status |-> "pending"]}
             x == [y EXCEPT !.pc = "next", !.queue = listed]
  <2>1. x \in Process /\ x.pc = "next" /\ x.queue = listed /\ x.session = y.session /\ x.after = y.after
    BY <1>1 DEF Process
  <2>2. proc' = [proc EXCEPT ![p] = x]
    BY <1>9 DEF List
  <2>3. \A i \in listed : file[i.session] # NULL
    <3>1. \A v : [version |-> v, status |-> "pending"] # NULL \/ v \notin Versions
      BY NullAssumption DEF StoredLearningRecord
    <3>2. \A i \in Item : i.version \in Versions
      BY DEF Item
    <3> QED BY <1>2, <3>1, <3>2 DEF RecordsBase, RecordsTypeOK
  <2>4. WorksOnRecords(x)
    <3> HIDE DEF listed
    <3> QED BY <1>1, <2>1, <2>3 DEF WorksOnRecords, Uploading
  <2>5. UploadsTheFiles(x)
    BY <2>1 DEF UploadsTheFiles, Uploading, Pending
  <2> HIDE DEF x
  <2> QED BY <1>9, <2>1, <2>2, <2>4, <2>5 DEF List
<1>10. CASE TakeRecord(p)
  <2>1. PICK i \in y.queue :
          proc' = [proc EXCEPT ![p].queue = @ \ {i}, ![p].item = i,
                               ![p].pc = IF record[i.session].inClass THEN "row" ELSE "next"]
    BY <1>10 DEF TakeRecord
  <2> DEFINE at == IF record[i.session].inClass THEN "row" ELSE "next"
             x == [y EXCEPT !.queue = @ \ {i}, !.item = i, !.pc = at]
  <2>2. i \in Item /\ file[i.session] # NULL /\ at \in {"row", "next"}
    BY <1>1 DEF Process, WorksOnRecords
  <2>3. proc' = [proc EXCEPT ![p] = x]
    BY <1>5, <2>1
  <2> HIDE DEF at
  <2>4. /\ x \in Process /\ x.pc \in {"row", "next"} /\ x.queue = y.queue \ {i} /\ x.item = i
        /\ x.session = y.session /\ x.after = y.after
    BY <1>1, <2>2 DEF Process
  <2> HIDE DEF x
  <2>5. WorksOnRecords(x)
    BY <1>1, <2>2, <2>4 DEF WorksOnRecords, Uploading
  <2>6. UploadsTheFiles(y) => UploadsTheFiles(x)
    BY <1>10, <2>4 DEF TakeRecord, UploadsTheFiles, Uploading
  <2> QED BY <1>10, <2>3, <2>4, <2>5, <2>6 DEF TakeRecord
<1>11. CASE UploadFails(p)
  <2> DEFINE x == [y EXCEPT !.pc = "read", !.outcome = "pending"]
  <2>1. /\ x \in Process /\ x.pc = "read" /\ x.outcome = "pending"
        /\ x.queue = y.queue /\ x.item = y.item /\ x.session = y.session /\ x.after = y.after
    BY <1>1 DEF Process
  <2>2. proc' = [proc EXCEPT ![p] = x]
    BY <1>5, <1>11 DEF UploadFails
  <2> HIDE DEF x
  <2>3. WorksOnRecords(x) /\ (UploadsTheFiles(y) => UploadsTheFiles(x))
    BY <1>1, <1>11, <2>1 DEF WorksOnRecords, UploadsTheFiles, Uploading, UploadFails
  <2> QED BY <1>11, <2>1, <2>2, <2>3 DEF UploadFails
<1>12. CASE MarkRead(p)
  <2> DEFINE read == file[y.item.session]
             x == [y EXCEPT !.pc = "write", !.read = read]
  <2>1. y.item \in Item /\ read # NULL
    BY <1>1, <1>12 DEF MarkRead, WorksOnRecords, Uploading
  <2>2. read \in StoredLearningRecord
    BY <1>2, <2>1 DEF RecordsBase, RecordsTypeOK
  <2> HIDE DEF read
  <2>3. /\ x \in Process /\ x.pc = "write" /\ x.read = read /\ x.outcome = y.outcome
        /\ x.queue = y.queue /\ x.item = y.item /\ x.session = y.session /\ x.after = y.after
    BY <1>1, <2>2 DEF Process
  <2>4. proc' = [proc EXCEPT ![p] = x]
    BY <1>5, <1>12 DEF MarkRead, read
  <2> HIDE DEF x
  <2>5. WorksOnRecords(x)
    BY <1>1, <1>12, <2>1, <2>3 DEF WorksOnRecords, Uploading, MarkRead
  <2>6. UploadsTheFiles(y) => UploadsTheFiles(x)
    BY <1>12, <2>3 DEF UploadsTheFiles, Uploading, MarkRead, read
  <2> QED BY <1>12, <2>3, <2>4, <2>5, <2>6 DEF MarkRead
<1>13. CASE MarkFails(p)
  <2>1. CASE y.outcome = "synced"
    <3> DEFINE x == [y EXCEPT !.pc = "read", !.outcome = "pending"]
    <3>1. /\ x \in Process /\ x.pc = "read" /\ x.outcome = "pending" /\ x.queue = y.queue /\ x.item = y.item
          /\ x.session = y.session /\ x.after = y.after
      BY <1>1 DEF Process
    <3>2. proc' = [proc EXCEPT ![p] = x]
      BY <1>5, <1>13, <2>1 DEF MarkFails
    <3> HIDE DEF x
    <3>3. WorksOnRecords(x) /\ (UploadsTheFiles(y) => UploadsTheFiles(x))
      BY <1>1, <1>13, <3>1 DEF WorksOnRecords, UploadsTheFiles, Uploading, MarkFails
    <3> QED BY <1>13, <3>1, <3>2, <3>3 DEF MarkFails
  <2> QED BY <1>7, <1>13, <2>1 DEF MarkFails
<1>14. CASE Crash(p)
  BY <1>3, <1>4, <1>14 DEF Crash
<1>15. CASE EndSync(p) /\ y.after # "select"
  <2>1. CASE y.after = "idle"
    <3> DEFINE x == [y EXCEPT !.pc = "idle"]
    <3>1. x \in Process /\ x.pc = "idle" /\ x.queue = y.queue /\ x.session = y.session /\ x.after = y.after
      BY <1>1 DEF Process
    <3>2. proc' = [proc EXCEPT ![p] = x] /\ UNCHANGED <<signedIn, record, file, remote>>
      BY <1>15, <2>1 DEF EndSync, ProcessAt
    <3> HIDE DEF x
    <3>3. WorksOnRecords(x) /\ UploadsTheFiles(x)
      BY <1>1, <2>1, <3>1 DEF WorksOnRecords, UploadsTheFiles, Uploading
    <3> QED BY <3>1, <3>2, <3>3
  <2>2. CASE y.after = "off"
    BY <1>3, <1>4, <1>15, <2>2 DEF EndSync
  <2> QED BY <1>1, <1>15, <2>1, <2>2 DEF Process
<1> QED BY <1>6, <1>8, <1>9, <1>10, <1>11, <1>12, <1>13, <1>14, <1>15

(* The steps that do more than that. *)
LEMMA SessionBegun ==
  ASSUME RecordsBase, NEW p \in Procs, NEW s \in Sessions, NEW inClass \in BOOLEAN, NewRecord(p, s, inClass),
         UNCHANGED <<signedIn, file, remote>>
  PROVE  RecordsBase' /\ proc'[p].pc \in {"save", "idle"}
<1>1. PICK x \in Process : /\ proc' = [proc EXCEPT ![p] = x] /\ WorksOnRecords(x)' /\ x.pc \in {"save", "idle"}
                          /\ record' \in [Sessions -> Record \cup {NULL}] /\ record[s] = NULL
                          /\ \A q \in Sessions \ {s} : record'[q] = record[q]
  BY NewRecordMade
<1>2. \A q \in Sessions : (record[q] # NULL => record'[q] = record[q]) /\ (file[q] # NULL => file'[q] # NULL)
  BY <1>1
<1>3. proc' \in [Procs -> Process] /\ proc'[p] = x /\ \A q \in Procs : WorksOnRecords(proc[q])'
  BY <1>1, <1>2, ProcessStep
<1>4. RecordsTypeOK'
  BY <1>1, <1>2, <1>3 DEF RecordsBase, RecordsTypeOK
<1>5. OnRecord'
  BY <1>2, <1>3 DEF RecordsBase, OnRecord
<1> QED BY <1>1, <1>3, <1>4, <1>5 DEF RecordsBase

LEMMA Checkpointed ==
  ASSUME RecordsBase, NEW p \in Procs, NEW after \in {"idle", "off", "select"}, Checkpoint(p, after)
  PROVE  /\ RecordsBase' /\ UNCHANGED <<signedIn, file, remote>>
         /\ proc'[p].pc = "save" /\ proc'[p].queue = proc[p].queue
         /\ \A q \in Sessions : record[q] # NULL => record'[q] # NULL /\ record'[q].student = record[q].student
<1> DEFINE y == proc[p]
           s == y.session
           next == IF record[s].version < MaxVersion THEN record[s].version + 1 ELSE record[s].version
           longer == [record[s] EXCEPT !.version = next]
<1>1. y \in Process /\ WorksOnRecords(y) /\ y.pc = "idle"
  BY DEF RecordsBase, RecordsTypeOK, OnRecord, Checkpoint
<1>2. s \in Sessions /\ record[s] \in Record
  BY <1>1 DEF WorksOnRecords, RecordsBase, RecordsTypeOK
<1>3. next \in Versions
  BY <1>2, BoundsAssumption DEF Record, Versions
<1>4. record' = [record EXCEPT ![s] = longer] /\ UNCHANGED <<signedIn, file, remote>>
  BY DEF Checkpoint, RecordsBase, RecordsTypeOK
<1> HIDE DEF next
<1>5. longer \in Record /\ longer.student = record[s].student
  BY <1>2, <1>3 DEF Record
<1> HIDE DEF longer
<1>6. PICK x \in Process : proc' = [proc EXCEPT ![p] = x] /\ x.pc = "save" /\ x.queue = y.queue /\ x.session = s
  <2> DEFINE x == [y EXCEPT !.pc = "save", !.after = after]
  <2>1. x \in Process /\ x.pc = "save" /\ x.queue = y.queue /\ x.session = s
    BY <1>1 DEF Process
  <2>2. proc' = [proc EXCEPT ![p] = x]
    BY DEF Checkpoint, RecordsBase, RecordsTypeOK
  <2> QED BY <2>1, <2>2
<1>7. /\ record' \in [Sessions -> Record \cup {NULL}] /\ record'[s] # NULL /\ record'[s].student = record[s].student
      /\ \A q \in Sessions \ {s} : record'[q] = record[q]
  BY <1>2, <1>4, <1>5, NullAssumption DEF RecordsBase, RecordsTypeOK
<1>8. WorksOnRecords(x)'
  BY <1>1, <1>2, <1>4, <1>6, <1>7 DEF WorksOnRecords, Uploading
<1>9. proc' \in [Procs -> Process] /\ proc'[p] = x /\ \A q \in Procs : WorksOnRecords(proc[q])'
  BY <1>4, <1>6, <1>7, <1>8, ProcessStep
<1>10. RecordsTypeOK'
  BY <1>4, <1>7, <1>9 DEF RecordsBase, RecordsTypeOK
<1>11. OnRecord'
  BY <1>4, <1>7, <1>9 DEF RecordsBase, OnRecord
<1> QED BY <1>4, <1>6, <1>7, <1>9, <1>10, <1>11 DEF RecordsBase

LEMMA SavedToFile ==
  ASSUME RecordsBase, NEW p \in Procs, Save(p)
  PROVE  LET s == proc[p].session
         IN  /\ RecordsBase' /\ UNCHANGED <<signedIn, record, remote>>
             /\ s \in Sessions /\ file'[s] = [version |-> record[s].version, status |-> "pending"]
             /\ \A q \in Sessions \ {s} : file'[q] = file[q]
             /\ proc'[p].pc = "list"
<1> DEFINE y == proc[p]
           s == y.session
           new == [version |-> record[s].version, status |-> "pending"]
<1>1. y \in Process /\ WorksOnRecords(y) /\ y.pc = "save"
  BY DEF RecordsBase, RecordsTypeOK, OnRecord, Save
<1>2. s \in Sessions /\ record[s] \in Record
  BY <1>1 DEF WorksOnRecords, RecordsBase, RecordsTypeOK
<1>3. new \in StoredLearningRecord
  BY <1>2 DEF Record, StoredLearningRecord
<1>4. file' = [file EXCEPT ![s] = new] /\ UNCHANGED <<signedIn, record, remote>>
  BY DEF Save, ProcessAt, RecordsBase, RecordsTypeOK
<1>5. PICK x \in Process : /\ proc' = [proc EXCEPT ![p] = x]
                          /\ x.pc = "list" /\ x.queue = y.queue /\ x.session = s /\ x.after = y.after
  <2> DEFINE x == [y EXCEPT !.pc = "list"]
  <2>1. x \in Process /\ x.pc = "list" /\ x.queue = y.queue /\ x.session = s /\ x.after = y.after
    BY <1>1 DEF Process
  <2>2. proc' = [proc EXCEPT ![p] = x]
    BY DEF Save, ProcessAt, RecordsBase, RecordsTypeOK
  <2> QED BY <2>1, <2>2
<1> HIDE DEF new
<1>6. /\ file' \in [Sessions -> StoredLearningRecord \cup {NULL}] /\ file'[s] = new /\ new # NULL
      /\ \A q \in Sessions \ {s} : file'[q] = file[q]
  BY <1>2, <1>3, <1>4, NullAssumption DEF RecordsBase, RecordsTypeOK
<1>7. \A i \in Item : i.session \in Sessions
  BY DEF Item
<1>8. WorksOnRecords(x)'
  BY <1>1, <1>2, <1>4, <1>5, <1>6, <1>7, NullAssumption DEF WorksOnRecords, Uploading, Process
<1>9. proc' \in [Procs -> Process] /\ proc'[p] = x /\ \A q \in Procs : WorksOnRecords(proc[q])'
  BY <1>4, <1>5, <1>6, <1>8, ProcessStep
<1>10. RecordsTypeOK'
  BY <1>2, <1>4, <1>6, <1>9, NullAssumption DEF RecordsBase, RecordsTypeOK
<1>11. OnRecord'
  BY <1>4, <1>9 DEF RecordsBase, OnRecord
<1> QED BY <1>2, <1>4, <1>5, <1>6, <1>9, <1>10, <1>11 DEF RecordsBase, new

(* The server's rows: a row is made where there is none or where it is the  *)
(* same student's, for a record that is that student's or nobody's.         *)
LEMMA PutOnServer ==
  ASSUME RecordsBase, NEW p \in Procs, PutRow(p) \/ PutParts(p)
  PROVE  LET y == proc[p]
             i == proc[p].item
         IN  /\ RecordsBase' /\ UNCHANGED <<signedIn, record, file>>
             /\ i \in Item /\ i.session \in Sessions /\ proc'[p].item = i /\ proc'[p].queue = y.queue
             /\ \A s \in Sessions \ {i.session} : remote'[s] = remote[s]
             /\ remote[i.session].student \in {NULL, signedIn} /\ remote'[i.session].student = signedIn /\ signedIn # NULL
             /\ record[i.session].student \in {NULL, signedIn}
             /\ y.pc = "row" => /\ remote'[i.session].row = i.version
                                /\ \/ proc'[p].pc = "parts" /\ proc'[p].outcome = "synced"
                                   \/ proc'[p].pc = "read" /\ proc'[p].outcome = "pending"
             /\ y.pc = "parts" => /\ remote'[i.session].parts = i.version /\ remote'[i.session].row = remote[i.session].row
                                  /\ proc'[p].pc = "read"
             /\ y.pc \in {"row", "parts"}
<1> DEFINE y == proc[p]
           i == y.item
           old == remote[i.session]
           put == IF y.pc = "row" THEN [old EXCEPT !.student = signedIn, !.row = i.version]
                  ELSE [old EXCEPT !.parts = i.version]
<1>1. y \in Process /\ WorksOnRecords(y) /\ y.pc \in {"row", "parts"} /\ signedIn # NULL /\ signedIn \in Students
  BY DEF RecordsBase, RecordsTypeOK, OnRecord, PutRow, PutParts, MayUpload, Accepts
<1>2. i \in Item /\ i.session \in Sessions /\ i.version \in Versions /\ file[i.session] # NULL /\ record[i.session] # NULL
  BY <1>1 DEF WorksOnRecords, Uploading, Item, RecordsBase, RecordsTypeOK
<1>3. old \in Remote
  BY <1>2 DEF RecordsBase, RecordsTypeOK
<1>4. /\ old.student \in {NULL, signedIn} /\ record[i.session].student \in {NULL, signedIn}
      /\ y.pc = "parts" => old.student = signedIn
  BY <1>1, <1>2 DEF PutRow, PutParts, MayUpload, Accepts, RecordsBase, OnRecord
<1>5. /\ put \in Remote /\ put.student = signedIn
      /\ y.pc = "row" => put.row = i.version
      /\ y.pc = "parts" => put.parts = i.version /\ put.row = old.row
  BY <1>1, <1>2, <1>3, <1>4 DEF Remote
<1>6. remote' = [remote EXCEPT ![i.session] = put]
  BY <1>2 DEF PutRow, PutParts, RecordsBase, RecordsTypeOK
<1> HIDE DEF put
<1>7. remote' \in [Sessions -> Remote] /\ remote'[i.session] = put /\ \A s \in Sessions \ {i.session} : remote'[s] = remote[s]
  BY <1>2, <1>5, <1>6 DEF RecordsBase, RecordsTypeOK
<1>8. UNCHANGED <<signedIn, record, file>>
  BY DEF PutRow, PutParts
<1>9. PICK at \in {"parts", "read"}, outcome \in {"pending", "synced"} :
        /\ proc' = [proc EXCEPT ![p].pc = at, ![p].outcome = outcome]
        /\ y.pc = "row" => (at = "parts" /\ outcome = "synced") \/ (at = "read" /\ outcome = "pending")
        /\ y.pc = "parts" => at = "read"
  BY DEF PutRow, PutParts, Replied
<1>10. PICK x \in Process : /\ proc' = [proc EXCEPT ![p] = x] /\ x.pc = at /\ x.outcome = outcome
                           /\ x.queue = y.queue /\ x.session = y.session /\ x.after = y.after /\ x.item = i
  <2> DEFINE x == [y EXCEPT !.pc = at, !.outcome = outcome]
  <2>1. /\ x \in Process /\ x.pc = at /\ x.outcome = outcome
        /\ x.queue = y.queue /\ x.session = y.session /\ x.after = y.after /\ x.item = i
    BY <1>1 DEF Process
  <2>2. proc' = [proc EXCEPT ![p] = x]
    BY <1>9 DEF RecordsBase, RecordsTypeOK
  <2> QED BY <2>1, <2>2
<1>12. WorksOnRecords(x)'
  BY <1>1, <1>2, <1>8, <1>10 DEF WorksOnRecords, Uploading
<1>13. proc' \in [Procs -> Process] /\ proc'[p] = x /\ \A q \in Procs : WorksOnRecords(proc[q])'
  BY <1>8, <1>10, <1>12, ProcessStep
<1>14. RecordsTypeOK'
  BY <1>7, <1>8, <1>13 DEF RecordsBase, RecordsTypeOK
<1>15. OnRecord'
  <2>1. \A s \in Sessions : remote'[s].student # NULL => record[s] # NULL /\ record[s].student \in {NULL, remote'[s].student}
    BY <1>2, <1>4, <1>5, <1>7 DEF RecordsBase, OnRecord
  <2> QED BY <1>8, <1>13, <2>1 DEF OnRecord
<1> QED BY <1>1, <1>2, <1>4, <1>5, <1>7, <1>8, <1>9, <1>10, <1>13, <1>14, <1>15 DEF RecordsBase

LEMMA Marked ==
  ASSUME RecordsBase, NEW p \in Procs, MarkWrite(p)
  PROVE  LET y == proc[p]
             s == proc[p].item.session
         IN  /\ RecordsBase' /\ UNCHANGED <<signedIn, record, remote>>
             /\ s \in Sessions /\ y.read \in StoredLearningRecord /\ y.outcome \in {"pending", "synced"}
             /\ file'[s] = [version |-> y.read.version, status |-> y.outcome]
             /\ \A q \in Sessions \ {s} : file'[q] = file[q]
             /\ proc'[p].pc = "next" /\ proc'[p].queue = y.queue
             /\ y.pc = "write"
<1> DEFINE y == proc[p]
           s == y.item.session
           new == [y.read EXCEPT !.status = y.outcome]
<1>1. y \in Process /\ WorksOnRecords(y) /\ y.pc = "write"
  BY DEF RecordsBase, RecordsTypeOK, OnRecord, MarkWrite
<1>2. s \in Sessions /\ y.read \in StoredLearningRecord /\ record[s] # NULL /\ y.outcome \in {"pending", "synced"}
  BY <1>1 DEF WorksOnRecords, Uploading, Item, Process, RecordsBase, RecordsTypeOK
<1>3. new \in StoredLearningRecord /\ new = [version |-> y.read.version, status |-> y.outcome]
  BY <1>2 DEF StoredLearningRecord
<1>4. file' = [file EXCEPT ![s] = new] /\ UNCHANGED <<signedIn, record, remote>>
  BY DEF MarkWrite, RecordsBase, RecordsTypeOK
<1>5. PICK x \in Process : /\ proc' = [proc EXCEPT ![p] = x]
                          /\ x.pc = "next" /\ x.queue = y.queue /\ x.session = y.session /\ x.after = y.after
  <2> DEFINE x == [y EXCEPT !.pc = "next", !.item = NULL, !.read = NULL, !.outcome = "pending"]
  <2>1. x \in Process /\ x.pc = "next" /\ x.queue = y.queue /\ x.session = y.session /\ x.after = y.after
    BY <1>1 DEF Process
  <2>2. proc' = [proc EXCEPT ![p] = x]
    BY DEF MarkWrite, RecordsBase, RecordsTypeOK
  <2> QED BY <2>1, <2>2
<1> HIDE DEF new
<1>6. /\ file' \in [Sessions -> StoredLearningRecord \cup {NULL}] /\ file'[s] = new /\ new # NULL
      /\ \A q \in Sessions \ {s} : file'[q] = file[q]
  BY <1>2, <1>3, <1>4, NullAssumption DEF RecordsBase, RecordsTypeOK
<1>7. \A i \in Item : i.session \in Sessions
  BY DEF Item
<1>8. WorksOnRecords(x)'
  BY <1>1, <1>2, <1>4, <1>5, <1>6, <1>7 DEF WorksOnRecords, Uploading, Process
<1>9. proc' \in [Procs -> Process] /\ proc'[p] = x /\ \A q \in Procs : WorksOnRecords(proc[q])'
  BY <1>4, <1>5, <1>6, <1>8, ProcessStep
<1>10. RecordsTypeOK'
  BY <1>2, <1>4, <1>6, <1>9 DEF RecordsBase, RecordsTypeOK
<1>11. OnRecord'
  BY <1>4, <1>9 DEF RecordsBase, OnRecord
<1> QED BY <1>1, <1>2, <1>3, <1>4, <1>5, <1>6, <1>9, <1>10, <1>11 DEF RecordsBase

(* What every step does: it keeps the base, it stores a row only for the    *)
(* student who is signed in and whose record it is, or it is one of those.  *)
LEMMA RecordsStep ==
  ASSUME RecordsBase, [RecordsNext]_recordsVars
  PROVE  RecordsBase' /\ (UNCHANGED remote \/ \E p \in Procs : PutRow(p) \/ PutParts(p))
<1>1. ASSUME NEW p \in Procs, StartSession(p) PROVE RecordsBase' /\ UNCHANGED remote
  BY <1>1, SessionBegun DEF StartSession
<1>2. ASSUME NEW p \in Procs, NEW after \in {"idle", "off", "select"}, Checkpoint(p, after)
      PROVE  RecordsBase' /\ UNCHANGED remote
  BY <1>2, Checkpointed
<1>3. ASSUME NEW p \in Procs, Save(p) PROVE RecordsBase' /\ UNCHANGED remote
  BY <1>3, SavedToFile
<1>4. ASSUME NEW p \in Procs,
             \/ StartSync(p) \/ SaveFails(p) \/ List(p) \/ TakeRecord(p) \/ UploadFails(p)
             \/ MarkRead(p) \/ MarkFails(p) \/ Crash(p)
             \/ (EndSync(p) /\ proc[p].after # "select")
      PROVE  RecordsBase' /\ UNCHANGED remote
  BY <1>4, ProcessTurns, ProcessMoves
<1>5. ASSUME NEW p \in Procs, EndSync(p), proc[p].after = "select" PROVE RecordsBase' /\ UNCHANGED remote
  <2>1. PICK s \in Sessions : NewRecord(p, s, TRUE)
    BY <1>5 DEF EndSync
  <2> QED BY <1>5, <2>1, SessionBegun DEF EndSync
<1>6. ASSUME NEW p \in Procs, PutRow(p) \/ PutParts(p) PROVE RecordsBase'
  BY <1>6, PutOnServer
<1>7. ASSUME NEW p \in Procs, MarkWrite(p) PROVE RecordsBase' /\ UNCHANGED remote
  BY <1>7, Marked
<1>8. ASSUME NEW who \in Students \cup {NULL}, AccountChanges(who) PROVE RecordsBase' /\ UNCHANGED remote
  BY <1>8 DEF AccountChanges, RecordsBase, RecordsTypeOK, OnRecord, WorksOnRecords, Uploading
<1>9. CASE UNCHANGED recordsVars
  BY <1>9 DEF recordsVars, RecordsBase, RecordsTypeOK, OnRecord, WorksOnRecords, Uploading
<1> QED BY <1>1, <1>2, <1>3, <1>4, <1>5, <1>6, <1>7, <1>8, <1>9 DEF RecordsNext, SyncStep

(* However many processes share the installation and whoever signs in on    *)
(* it, a student's record is stored under that student, and stays so        *)
(* (sync-service.ts, telemetry-sink.ts).                                    *)
THEOREM RecordsStayWithStudents == RecordsSpec => RecordsStayTheirs
<1>1. RecordsInit => RecordsBase
  BY RecordsStart DEF RecordsInv, RecordsBase
<1>2. RecordsBase /\ [RecordsNext]_recordsVars => RecordsBase'
  BY RecordsStep
<1>3. ASSUME RecordsBase, [RecordsNext]_recordsVars, NEW s \in Sessions
      PROVE  /\ remote'[s].student # NULL /\ record[s] # NULL /\ record[s].student # NULL =>
                  remote'[s].student = record[s].student
             /\ remote[s].student # NULL => remote'[s].student = remote[s].student
  <2>1. CASE UNCHANGED remote
    BY <1>3, <2>1 DEF RecordsBase, OnRecord
  <2>2. ASSUME NEW p \in Procs, PutRow(p) \/ PutParts(p), s = proc[p].item.session
        PROVE  /\ remote[s].student \in {NULL, signedIn} /\ remote'[s].student = signedIn
               /\ record[s].student \in {NULL, signedIn}
    BY <1>3, <2>2, PutOnServer
  <2>3. ASSUME NEW p \in Procs, PutRow(p) \/ PutParts(p), s # proc[p].item.session
        PROVE  remote'[s] = remote[s]
    BY <1>3, <2>3, PutOnServer
  <2> QED BY <1>3, <2>1, <2>2, <2>3, RecordsStep DEF RecordsBase, OnRecord
<1>4. RecordsBase /\ [RecordsNext]_recordsVars =>
        [\A s \in Sessions :
           /\ remote'[s].student # NULL /\ record[s] # NULL /\ record[s].student # NULL =>
                remote'[s].student = record[s].student
           /\ remote[s].student # NULL => remote'[s].student = remote[s].student]_recordsVars
  BY <1>3
<1> QED BY <1>1, <1>2, <1>4, PTL DEF RecordsSpec, RecordsStayTheirs

OneProcess == \A p, q \in Procs : p = q

(* With one process, what it does to its files and rows keeps what it calls *)
(* uploaded uploaded.                                                       *)
LEMMA UploadStep ==
  ASSUME OneProcess, RecordsInv, [RecordsNext]_recordsVars
  PROVE  RecordsInv'
<1>1. RecordsBase /\ RecordsBase'
  BY RecordsStep DEF RecordsInv, RecordsBase
<1>2. SUFFICES ListedAsFiled' /\ SyncedMeansUploaded'
  BY <1>1 DEF RecordsInv, RecordsBase
<1>3. \A i \in Item : i.session \in Sessions /\ i = [session |-> i.session, version |-> i.version]
  BY DEF Item
<1>4. ASSUME NEW p \in Procs, proc'[p].pc \in {"idle", "save", "list"} PROVE ListedAsFiled'
  BY <1>4 DEF OneProcess, ListedAsFiled, UploadsTheFiles, Uploading
<1>5. ASSUME NEW p \in Procs, StartSession(p) PROVE ListedAsFiled' /\ SyncedMeansUploaded'
  <2>1. PICK s \in Sessions, inClass \in BOOLEAN : NewRecord(p, s, inClass)
    BY <1>5 DEF StartSession
  <2>2. proc'[p].pc \in {"idle", "save", "list"}
    BY <1>1, <1>5, <2>1, SessionBegun DEF StartSession
  <2> QED BY <1>4, <1>5, <2>2 DEF StartSession, RecordsInv, SyncedMeansUploaded
<1>6. ASSUME NEW p \in Procs, NEW after \in {"idle", "off", "select"}, Checkpoint(p, after)
      PROVE  ListedAsFiled' /\ SyncedMeansUploaded'
  <2>1. proc'[p].pc \in {"idle", "save", "list"} /\ UNCHANGED <<signedIn, file, remote>>
    BY <1>1, <1>6, Checkpointed
  <2> QED BY <1>4, <2>1 DEF RecordsInv, SyncedMeansUploaded
<1>7. ASSUME NEW p \in Procs, Save(p) PROVE ListedAsFiled' /\ SyncedMeansUploaded'
  <2> DEFINE s == proc[p].session
  <2>1. /\ UNCHANGED <<signedIn, record, remote>> /\ proc'[p].pc = "list"
        /\ s \in Sessions /\ file'[s] = [version |-> record[s].version, status |-> "pending"]
        /\ \A q \in Sessions \ {s} : file'[q] = file[q]
    BY <1>1, <1>7, SavedToFile
  <2> QED BY <1>4, <2>1 DEF RecordsInv, SyncedMeansUploaded
<1>8. ASSUME NEW p \in Procs,
             \/ StartSync(p) \/ SaveFails(p) \/ List(p) \/ TakeRecord(p) \/ UploadFails(p)
             \/ MarkRead(p) \/ MarkFails(p) \/ Crash(p)
             \/ (EndSync(p) /\ proc[p].after # "select")
      PROVE  ListedAsFiled' /\ SyncedMeansUploaded'
  <2>1. PICK x \in Process : /\ proc' = [proc EXCEPT ![p] = x] /\ UNCHANGED <<signedIn, record, file, remote>>
                            /\ WorksOnRecords(x) /\ (UploadsTheFiles(proc[p]) => UploadsTheFiles(x))
    BY <1>1, <1>8, ProcessTurns
  <2>2. proc'[p] = x /\ UploadsTheFiles(x)
    BY <1>1, <2>1, ProcessMoves DEF RecordsInv, ListedAsFiled
  <2>3. UploadsTheFiles(proc[p])'
    BY <2>1, <2>2 DEF UploadsTheFiles, Uploading, Pending
  <2> QED BY <2>1, <2>3 DEF OneProcess, ListedAsFiled, RecordsInv, SyncedMeansUploaded
<1>9. ASSUME NEW p \in Procs, EndSync(p), proc[p].after = "select" PROVE ListedAsFiled' /\ SyncedMeansUploaded'
  <2>1. PICK s \in Sessions : NewRecord(p, s, TRUE)
    BY <1>9 DEF EndSync
  <2>2. proc'[p].pc \in {"idle", "save", "list"}
    BY <1>1, <1>9, <2>1, SessionBegun DEF EndSync
  <2> QED BY <1>4, <1>9, <2>2 DEF EndSync, RecordsInv, SyncedMeansUploaded
<1>10. ASSUME NEW p \in Procs, PutRow(p) \/ PutParts(p) PROVE ListedAsFiled' /\ SyncedMeansUploaded'
  <2> DEFINE y == proc[p]
             i == y.item
  <2>1. /\ UNCHANGED <<signedIn, record, file>>
        /\ i \in Item /\ i.session \in Sessions /\ proc'[p].item = i /\ proc'[p].queue = y.queue
        /\ \A s \in Sessions \ {i.session} : remote'[s] = remote[s]
        /\ y.pc = "row" => /\ remote'[i.session].row = i.version
                           /\ \/ proc'[p].pc = "parts" /\ proc'[p].outcome = "synced"
                              \/ proc'[p].pc = "read" /\ proc'[p].outcome = "pending"
        /\ y.pc = "parts" => /\ remote'[i.session].parts = i.version /\ remote'[i.session].row = remote[i.session].row
                             /\ proc'[p].pc = "read"
        /\ y.pc \in {"row", "parts"}
    BY <1>1, <1>10, PutOnServer
  <2>2. /\ \A j \in y.queue : Pending(j)
        /\ i \notin y.queue /\ Pending(i)
        /\ y.pc = "parts" => remote[i.session].row = i.version
    BY <2>1 DEF RecordsInv, ListedAsFiled, UploadsTheFiles, Uploading
  <2>3. UploadsTheFiles(proc[p])'
    BY <2>1, <2>2 DEF UploadsTheFiles, Uploading, Pending
  <2>4. file[i.session].status = "pending"
    BY <2>2 DEF Pending
  <2>5. SyncedMeansUploaded'
    BY <2>1, <2>4 DEF RecordsInv, SyncedMeansUploaded
  <2> QED BY <2>3, <2>5 DEF OneProcess, ListedAsFiled
<1>11. ASSUME NEW p \in Procs, MarkWrite(p) PROVE ListedAsFiled' /\ SyncedMeansUploaded'
  <2> DEFINE y == proc[p]
             i == y.item
             s == i.session
  <2>1. /\ UNCHANGED <<signedIn, record, remote>>
        /\ s \in Sessions /\ y.read \in StoredLearningRecord /\ y.outcome \in {"pending", "synced"}
        /\ file'[s] = [version |-> y.read.version, status |-> y.outcome]
        /\ \A q \in Sessions \ {s} : file'[q] = file[q]
        /\ proc'[p].pc = "next" /\ proc'[p].queue = y.queue /\ y.pc = "write"
    BY <1>1, <1>11, Marked
  <2>2. /\ \A j \in y.queue : Pending(j)
        /\ i \notin y.queue /\ Pending(i) /\ y.read = file[s]
        /\ y.outcome = "synced" => remote[s].row = i.version /\ remote[s].parts = i.version
    BY <2>1 DEF RecordsInv, ListedAsFiled, UploadsTheFiles, Uploading
  <2>3. y.read.version = i.version
    BY <2>2 DEF Pending
  <2>4. SyncedMeansUploaded'
    BY <2>1, <2>2, <2>3 DEF RecordsInv, SyncedMeansUploaded
  <2>5. i \in Item /\ y.queue \subseteq Item
    BY <1>1, <2>1 DEF RecordsBase, RecordsTypeOK, OnRecord, WorksOnRecords, Uploading, Process
  <2>6. \A j \in y.queue : j.session # s
    <3> SUFFICES ASSUME NEW j \in y.queue, j.session = s PROVE FALSE
      OBVIOUS
    <3>1. file[s].version = i.version
      BY <2>2 DEF Pending
    <3>2. file[j.session] = [version |-> j.version, status |-> "pending"]
      BY <2>2 DEF Pending
    <3>3. file[s].version = j.version
      BY <3>2
    <3> QED BY <1>3, <2>2, <2>5, <3>1, <3>3
  <2>7. \A j \in y.queue : Pending(j)'
    BY <1>3, <2>1, <2>2, <2>5, <2>6 DEF Pending
  <2>8. UploadsTheFiles(proc[p])'
    BY <2>1, <2>7 DEF UploadsTheFiles, Uploading
  <2> QED BY <2>4, <2>8 DEF OneProcess, ListedAsFiled
<1>12. ASSUME NEW who \in Students \cup {NULL}, AccountChanges(who) PROVE ListedAsFiled' /\ SyncedMeansUploaded'
  BY <1>12 DEF AccountChanges, RecordsInv, ListedAsFiled, UploadsTheFiles, Uploading, Pending, SyncedMeansUploaded
<1>13. CASE UNCHANGED recordsVars
  BY <1>13 DEF recordsVars, RecordsInv, ListedAsFiled, UploadsTheFiles, Uploading, Pending, SyncedMeansUploaded
<1> QED BY <1>5, <1>6, <1>7, <1>8, <1>9, <1>10, <1>11, <1>12, <1>13 DEF RecordsNext, SyncStep

(* While one process at a time works in the installation's directory, what  *)
(* its files call synced is on the server with all its parts, and under its *)
(* student, whatever crashes, is lost or is checkpointed meanwhile          *)
(* (local-store.ts, sync-service.ts).                                       *)
THEOREM RecordsAreKept == ASSUME OneProcess PROVE RecordsSpec => RecordsKept
<1>1. RecordsInv /\ [RecordsNext]_recordsVars => RecordsInv'
  BY UploadStep
<1>2. RecordsInv => SyncedMeansUploaded
  BY DEF RecordsInv
<1> QED BY <1>1, <1>2, RecordsStart, RecordsStayWithStudents, PTL DEF RecordsSpec, RecordsKept

-----------------------------------------------------------------------------
(* Publishing *)

LEMMA PublishingStart == PublishingInit => PublishingInv
<1> SUFFICES ASSUME PublishingInit PROVE PublishingInv
  OBVIOUS
<1>1. NoMetadata \in Metadata /\ NoMetadata.status = "none" /\ NoMetadata.repo = NoRepository
  BY PublishingAssumption DEF NoMetadata, Metadata, DeploymentStatuses
<1>2. IdlePublication \in Publication
  BY <1>1, PublishingAssumption DEF IdlePublication, Publication
<1>3. PICK site \in BOOLEAN :
        onGitHub = [r \in Repositories |-> [Absent EXCEPT !.exists = (r = origin), !.pages = site /\ r = origin,
                      !.earlier = site /\ r = origin, !.state = IF site /\ r = origin THEN "built" ELSE @]]
  BY DEF PublishingInit
<1>4. 0 \in 0..MaxCommits /\ 1 \in Repositories
  BY PublishingAssumption DEF Repositories
<1>5. ASSUME NEW r \in Repositories
      PROVE  /\ onGitHub[r] \in GitHub /\ onGitHub[r].served = 0 /\ onGitHub[r].build = 0 /\ onGitHub[r].pushed = 0
  <2>1. PICK known \in BOOLEAN : known = (r = origin)
    OBVIOUS
  <2>2. PICK there \in BOOLEAN : there = (site /\ r = origin)
    OBVIOUS
  <2>3. PICK state \in {"none", "built"} : state = IF site /\ r = origin THEN "built" ELSE "none"
    OBVIOUS
  <2>4. onGitHub[r] = [exists |-> known, pushed |-> 0, pages |-> there, build |-> 0, state |-> state, served |-> 0,
                       earlier |-> there]
    BY <1>3, <2>1, <2>2, <2>3 DEF Absent
  <2> QED BY <1>4, <2>4 DEF GitHub
<1>6. head = 0 /\ origin \in Repositories \cup {NoRepository}
  BY <1>4 DEF PublishingInit
<1>7. onGitHub \in [Repositories -> GitHub]
  BY <1>3, <1>5
<1>8. PublishingTypeOK
  BY <1>1, <1>2, <1>4, <1>6, <1>7 DEF PublishingInit, PublishingTypeOK
<1>9. SitesFollowHead
  BY <1>5, <1>6 DEF SitesFollowHead
<1>10. NamedRepository /\ ReadIsCurrent
  BY <1>1 DEF PublishingInit, NamedRepository, NamesRepository, ReadIsCurrent, FollowsRecord, IdlePublication, Recorded
<1>11. PublishedIsServed /\ SavedIsOrigin
  BY <1>1 DEF PublishingInit, PublishedIsServed, SavedIsOrigin
<1> QED BY <1>8, <1>9, <1>10, <1>11 DEF PublishingInv, ServedInv

(* GitHub's side only grows, and what is on record stays true of it. *)
SitesGrow ==
  /\ onGitHub' \in [Repositories -> GitHub] /\ SitesFollowHead'
  /\ \A r \in Repositories : onGitHub'[r].served >= onGitHub[r].served /\ onGitHub'[r].earlier = onGitHub[r].earlier

RecordStaysTrue ==
  /\ saved' \in Metadata /\ (saved'.status # "none" => saved'.repo # NoRepository)
  /\ PublishedIsServed'

RestTyped ==
  head' \in 0..MaxCommits /\ origin' \in Repositories \cup {NoRepository} /\ edited' \in BOOLEAN /\ publishing' \in BOOLEAN

LEMMA SitesUntouched == ASSUME ServedInv, UNCHANGED <<onGitHub, head>> PROVE SitesGrow
BY DEF ServedInv, PublishingTypeOK, SitesFollowHead, SitesGrow, GitHub

LEMMA RecordUntouched == ASSUME ServedInv, SitesGrow, saved' = saved PROVE RecordStaysTrue
<1>1. saved \in Metadata /\ (saved.status # "none" => saved.repo \in Repositories)
  BY DEF ServedInv, PublishingTypeOK, NamedRepository, Metadata
<1>2. ASSUME saved.status = "published" PROVE onGitHub'[saved.repo].served >= saved.commit \/ onGitHub'[saved.repo].earlier
  <2>1. onGitHub[saved.repo].served >= saved.commit \/ onGitHub[saved.repo].earlier
    BY <1>2 DEF ServedInv, PublishedIsServed
  <2>2. saved.commit \in Nat /\ onGitHub[saved.repo].served \in Nat /\ onGitHub'[saved.repo].served \in Nat
    BY <1>1, <1>2 DEF ServedInv, PublishingTypeOK, Metadata, GitHub, SitesGrow
  <2>3. /\ onGitHub'[saved.repo].served >= onGitHub[saved.repo].served
        /\ onGitHub'[saved.repo].earlier = onGitHub[saved.repo].earlier
    BY <1>1, <1>2 DEF SitesGrow
  <2> QED BY <2>1, <2>2, <2>3
<1> QED BY <1>1, <1>2 DEF RecordStaysTrue, PublishedIsServed, NamedRepository, ServedInv

(* What one publication knows stays true while GitHub's side grows. *)
LEMMA NamesStay ==
  ASSUME ServedInv, SitesGrow, NEW x \in Publication, NamesRepository(x) PROVE NamesRepository(x)'
<1>1. ASSUME x.at = "built" PROVE onGitHub'[x.repo].served >= x.commit \/ onGitHub'[x.repo].earlier
  <2>1. x.repo \in Repositories /\ x.commit \in Nat /\ (onGitHub[x.repo].served >= x.commit \/ onGitHub[x.repo].earlier)
    BY <1>1 DEF NamesRepository, Publication, Recorded
  <2>2. /\ onGitHub[x.repo].served \in Nat /\ onGitHub'[x.repo].served \in Nat
        /\ onGitHub'[x.repo].served >= onGitHub[x.repo].served /\ onGitHub'[x.repo].earlier = onGitHub[x.repo].earlier
    BY <2>1 DEF ServedInv, PublishingTypeOK, GitHub, SitesGrow
  <2> QED BY <2>1, <2>2
<1> QED BY <1>1 DEF NamesRepository

LEMMA PublicationStep ==
  ASSUME ServedInv, NEW p \in Publications, NEW x \in Publication, publication' = [publication EXCEPT ![p] = x],
         SitesGrow, RecordStaysTrue, RestTyped, NamesRepository(x)'
  PROVE  ServedInv' /\ ((\A q \in Publications : q = p) /\ FollowsRecord(x)' => ReadIsCurrent')
<1>1. publication' \in [Publications -> Publication] /\ publication'[p] = x /\ \A q \in Publications \ {p} : publication'[q] = publication[q]
  BY DEF ServedInv, PublishingTypeOK
<1>2. ASSUME NEW q \in Publications \ {p} PROVE NamesRepository(publication[q])'
  <2>1. PICK z \in Publication : z = publication[q] /\ publication'[q] = z
    BY <1>1 DEF ServedInv, PublishingTypeOK
  <2>2. NamesRepository(z)
    BY <2>1 DEF ServedInv, NamedRepository
  <2>3. NamesRepository(z)'
    BY <2>2, NamesStay
  <2> QED BY <2>1, <2>3 DEF NamesRepository
<1>3. NamesRepository(publication[p])'
  BY <1>1 DEF NamesRepository
<1>4. NamedRepository'
  BY <1>2, <1>3 DEF NamedRepository, RecordStaysTrue
<1>5. PublishingTypeOK'
  BY <1>1 DEF PublishingTypeOK, RestTyped, RecordStaysTrue, SitesGrow
<1>6. (\A q \in Publications : q = p) /\ FollowsRecord(x)' => ReadIsCurrent'
  BY <1>1 DEF ReadIsCurrent, FollowsRecord
<1> QED BY <1>4, <1>5, <1>6 DEF ServedInv, SitesGrow, RecordStaysTrue

Alone(p) == \A q \in Publications : q = p
OriginKept(p) == Alone(p) /\ ReadIsCurrent /\ SavedIsOrigin => ReadIsCurrent' /\ SavedIsOrigin'

(* Steps that leave what is on record, git and GitHub alone. *)
LEMMA PublicationMoves ==
  ASSUME ServedInv, NEW p \in Publications, NEW x \in Publication, publication' = [publication EXCEPT ![p] = x],
         UNCHANGED <<saved, origin, head, onGitHub>>, edited' \in BOOLEAN, publishing' \in BOOLEAN,
         NamesRepository(x), ReadIsCurrent => FollowsRecord(x)
  PROVE  ServedInv' /\ OriginKept(p)
<1>1. SitesGrow /\ RecordStaysTrue
  BY SitesUntouched, RecordUntouched
<1>2. RestTyped
  BY DEF RestTyped, ServedInv, PublishingTypeOK
<1>3. NamesRepository(x)'
  BY <1>1, NamesStay
<1>4. ServedInv' /\ (Alone(p) /\ FollowsRecord(x)' => ReadIsCurrent')
  BY <1>1, <1>2, <1>3, PublicationStep DEF Alone
<1>5. ReadIsCurrent => FollowsRecord(x)'
  BY DEF FollowsRecord
<1>6. SavedIsOrigin => SavedIsOrigin'
  BY DEF SavedIsOrigin
<1> QED BY <1>4, <1>5, <1>6 DEF OriginKept

LEMMA RunIs ==
  ASSUME ServedInv, NEW p \in Publications
  PROVE  /\ publication[p] \in Publication /\ NamesRepository(publication[p])
         /\ (ReadIsCurrent => FollowsRecord(publication[p]))
         /\ saved \in Metadata /\ origin \in Repositories \cup {NoRepository} /\ head \in 0..MaxCommits
         /\ edited \in BOOLEAN /\ publishing \in BOOLEAN
         /\ publication \in [Publications -> Publication]
BY DEF ServedInv, PublishingTypeOK, NamedRepository, ReadIsCurrent

LEMMA Idles ==
  /\ IdlePublication \in Publication
  /\ IdlePublication.at = "idle" /\ IdlePublication.metadata = NoMetadata /\ NoMetadata \in Metadata
  /\ NoMetadata.repo = NoRepository /\ NoMetadata.status = "none"
BY PublishingAssumption DEF IdlePublication, Publication, NoMetadata, Metadata, DeploymentStatuses

LEMMA IdlesNameNothing ==
  ASSUME NEW x, x = IdlePublication PROVE NamesRepository(x) /\ NamesRepository(x)' /\ FollowsRecord(x) /\ FollowsRecord(x)'
BY Idles DEF NamesRepository, FollowsRecord, Recorded

LEMMA MovingSteps ==
  ASSUME ServedInv, NEW p \in Publications,
         \/ AskBridge(p) \/ Accept(p) \/ AskCommandLine(p) \/ ReadMetadata(p) \/ Prepare(p)
         \/ UseRepository(p) \/ ChooseName(p) \/ PollBuilt(p)
  PROVE  ServedInv' /\ OriginKept(p)
<1> DEFINE y == publication[p]
<1>1. /\ y \in Publication /\ NamesRepository(y) /\ (ReadIsCurrent => FollowsRecord(y))
      /\ saved \in Metadata /\ origin \in Repositories \cup {NoRepository} /\ publication \in [Publications -> Publication]
      /\ edited \in BOOLEAN /\ publishing \in BOOLEAN
  BY RunIs
<1>2. CASE AskBridge(p)
  <2>1. PICK x \in Publication : /\ publication' = [publication EXCEPT ![p] = x] /\ x.at = "body" /\ x.metadata = y.metadata
    <3>1. [y EXCEPT !.at = "body"] \in Publication
      BY <1>1 DEF Publication
    <3> QED BY <1>1, <1>2, <3>1 DEF AskBridge, Goto, Publication
  <2>2. NamesRepository(x) /\ (ReadIsCurrent => FollowsRecord(x))
    BY <1>1, <1>2, <2>1 DEF NamesRepository, FollowsRecord, Recorded, AskBridge
  <2> QED BY <1>1, <1>2, <2>1, <2>2, PublicationMoves DEF AskBridge, KeepsProject
<1>3. CASE Accept(p)
  <2>1. PICK x \in Publication : /\ publication' = [publication EXCEPT ![p] = x] /\ x.at = "reading" /\ x.metadata = y.metadata
    <3>1. [y EXCEPT !.at = "reading"] \in Publication
      BY <1>1 DEF Publication
    <3> QED BY <1>1, <1>3, <3>1 DEF Accept, Goto, Publication
  <2>2. NamesRepository(x) /\ (ReadIsCurrent => FollowsRecord(x))
    BY <1>1, <1>3, <2>1 DEF NamesRepository, FollowsRecord, Recorded, Accept
  <2> QED BY <1>1, <1>3, <2>1, <2>2, PublicationMoves DEF Accept, KeepsProject
<1>4. CASE AskCommandLine(p)
  <2>1. PICK x \in Publication : /\ publication' = [publication EXCEPT ![p] = x] /\ x.at = "reading" /\ x.metadata = y.metadata
    <3>1. [y EXCEPT !.at = "reading", !.by = "command"] \in Publication
      BY <1>1 DEF Publication
    <3> QED BY <1>1, <1>4, <3>1 DEF AskCommandLine, Publication
  <2>2. NamesRepository(x) /\ (ReadIsCurrent => FollowsRecord(x))
    BY <1>1, <1>4, <2>1 DEF NamesRepository, FollowsRecord, Recorded, AskCommandLine
  <2> QED BY <1>1, <1>4, <2>1, <2>2, PublicationMoves DEF AskCommandLine, KeepsProject
<1>5. CASE ReadMetadata(p)
  <2>1. PICK x \in Publication : /\ publication' = [publication EXCEPT ![p] = x] /\ x.at = "connected" /\ x.metadata = saved
    <3>1. [y EXCEPT !.at = "connected", !.metadata = saved] \in Publication
      BY <1>1 DEF Publication
    <3> QED BY <1>1, <1>5, <3>1 DEF ReadMetadata, Publication
  <2>2. NamesRepository(x) /\ (ReadIsCurrent => FollowsRecord(x))
    BY <1>1, <2>1 DEF NamesRepository, FollowsRecord, Recorded, ServedInv, NamedRepository
  <2> QED BY <1>1, <1>5, <2>1, <2>2, PublicationMoves DEF ReadMetadata, KeepsProject
<1>6. CASE Prepare(p)
  <2>1. PICK x \in Publication : /\ publication' = [publication EXCEPT ![p] = x] /\ x.at = "prepared"
                                 /\ x.metadata = y.metadata /\ x.origin = origin
    <3>1. [y EXCEPT !.at = "prepared", !.origin = origin] \in Publication
      BY <1>1 DEF Publication
    <3> QED BY <1>1, <1>6, <3>1 DEF Prepare, Publication
  <2>2. NamesRepository(x) /\ (ReadIsCurrent => FollowsRecord(x))
    BY <1>1, <1>6, <2>1 DEF NamesRepository, FollowsRecord, Recorded, Prepare
  <2>3. edited' \in BOOLEAN
    BY <1>1, <1>6 DEF Prepare
  <2> QED BY <1>1, <1>6, <2>1, <2>2, <2>3, PublicationMoves DEF Prepare
<1>7. CASE UseRepository(p)
  <2> DEFINE known == IF y.origin # NoRepository THEN y.origin ELSE y.metadata.repo
  <2>1. known \in Repositories /\ y.metadata.repo \in {NoRepository, known} /\ y.origin \in {NoRepository, known} /\ y.at = "prepared"
    BY <1>1, <1>7 DEF UseRepository, Publication, Metadata
  <2>2. publication' = [publication EXCEPT ![p].at = "chosen", ![p].repo = known]
    BY <1>7 DEF UseRepository
  <2> HIDE DEF known
  <2>3. PICK x \in Publication : /\ publication' = [publication EXCEPT ![p] = x] /\ x.at = "chosen"
                                 /\ x.metadata = y.metadata /\ x.repo = known
    <3>1. [y EXCEPT !.at = "chosen", !.repo = known] \in Publication
      BY <1>1, <2>1 DEF Publication
    <3> QED BY <1>1, <2>2, <3>1 DEF Publication
  <2>4. NamesRepository(x)
    BY <1>1, <2>1, <2>3, PublishingAssumption DEF NamesRepository, Recorded
  <2>5. ReadIsCurrent => FollowsRecord(x)
    BY <1>1, <2>1, <2>3 DEF FollowsRecord
  <2> QED BY <1>1, <1>7, <2>3, <2>4, <2>5, PublicationMoves DEF UseRepository, KeepsProject
<1>8. CASE ChooseName(p)
  <2>1. PICK r \in Repositories : publication' = [publication EXCEPT ![p].at = "naming", ![p].repo = r]
    BY <1>8 DEF ChooseName
  <2>2. y.at = "prepared" /\ y.origin = NoRepository /\ y.metadata.repo = NoRepository
    BY <1>8 DEF ChooseName
  <2>3. PICK x \in Publication : /\ publication' = [publication EXCEPT ![p] = x] /\ x.at = "naming"
                                 /\ x.metadata = y.metadata /\ x.repo = r
    <3>1. [y EXCEPT !.at = "naming", !.repo = r] \in Publication
      BY <1>1 DEF Publication
    <3> QED BY <1>1, <2>1, <3>1 DEF Publication
  <2>4. NamesRepository(x)
    BY <1>1, <2>3, PublishingAssumption DEF NamesRepository, Recorded
  <2>5. ReadIsCurrent => FollowsRecord(x)
    BY <1>1, <2>2, <2>3 DEF FollowsRecord
  <2> QED BY <1>1, <1>8, <2>3, <2>4, <2>5, PublicationMoves DEF ChooseName, KeepsProject
<1>9. CASE PollBuilt(p)
  <2>1. PICK x \in Publication : /\ publication' = [publication EXCEPT ![p] = x] /\ x.at = "built"
                                 /\ x.metadata = y.metadata /\ x.repo = y.repo /\ x.commit = y.commit
    <3>1. [y EXCEPT !.at = "built"] \in Publication
      BY <1>1 DEF Publication
    <3> QED BY <1>1, <1>9, <3>1 DEF PollBuilt, Goto, Publication
  <2>2. y.at = "polling" /\ y.repo \in Repositories /\ Built(p) /\ y.commit \in Nat
    BY <1>1, <1>9 DEF PollBuilt, NamesRepository, Recorded, Publication
  <2>3. onGitHub[y.repo].served >= y.commit \/ onGitHub[y.repo].earlier
    BY <2>2 DEF Built, ServedInv, SitesFollowHead
  <2>4. NamesRepository(x)
    BY <1>1, <2>1, <2>2, <2>3 DEF NamesRepository, Recorded
  <2>5. ReadIsCurrent => FollowsRecord(x)
    BY <1>1, <2>1, <2>2 DEF FollowsRecord
  <2> QED BY <1>1, <1>9, <2>1, <2>4, <2>5, PublicationMoves DEF PollBuilt, KeepsProject
<1> QED BY <1>2, <1>3, <1>4, <1>5, <1>6, <1>7, <1>8, <1>9

(* Steps that write the project's record, and nothing on GitHub. *)
LEMMA RecordingStep ==
  ASSUME ServedInv, NEW p \in Publications, NEW x \in Publication, publication' = [publication EXCEPT ![p] = x],
         UNCHANGED <<origin, head, edited, onGitHub>>, publishing' \in BOOLEAN, saved' \in Metadata,
         saved'.status # "none" => saved'.repo # NoRepository, PublishedIsServed', NamesRepository(x),
         ReadIsCurrent /\ SavedIsOrigin => FollowsRecord(x)' /\ SavedIsOrigin'
  PROVE  ServedInv' /\ OriginKept(p)
<1>1. SitesGrow
  BY SitesUntouched
<1>2. RecordStaysTrue /\ RestTyped
  BY DEF RecordStaysTrue, RestTyped, ServedInv, PublishingTypeOK
<1>3. NamesRepository(x)'
  BY <1>1, NamesStay
<1>4. ServedInv' /\ (Alone(p) /\ FollowsRecord(x)' => ReadIsCurrent')
  BY <1>1, <1>2, <1>3, PublicationStep DEF Alone
<1> QED BY <1>4 DEF OriginKept

LEMMA RecordingSteps ==
  ASSUME ServedInv, NEW p \in Publications,
         SavePreparing(p) \/ SaveDeploying(p) \/ SavePublished(p) \/ Fail(p) \/ SaveRemoved(p)
  PROVE  ServedInv' /\ OriginKept(p)
<1> DEFINE y == publication[p]
<1>1. /\ y \in Publication /\ NamesRepository(y) /\ (ReadIsCurrent => FollowsRecord(y))
      /\ saved \in Metadata /\ origin \in Repositories \cup {NoRepository} /\ publication \in [Publications -> Publication]
      /\ edited \in BOOLEAN /\ publishing \in BOOLEAN
  BY RunIs
<1>2. y.metadata \in Metadata /\ y.repo \in Repositories \cup {NoRepository} /\ y.commit \in 0..MaxCommits
  BY <1>1 DEF Publication
<1>3. publishing' \in BOOLEAN
  BY <1>1, Zenon DEF SavePreparing, SaveDeploying, SavePublished, Fail, SaveRemoved
<1>4. CASE SavePreparing(p)
  <2>1. PICK m \in Metadata : m = [y.metadata EXCEPT !.repo = y.repo, !.status = "preparing"] /\ m.repo = y.repo /\ m.status = "preparing"
    <3> DEFINE m == [y.metadata EXCEPT !.repo = y.repo, !.status = "preparing"]
    <3>1. m \in Metadata /\ m.repo = y.repo /\ m.status = "preparing"
      BY <1>2 DEF Metadata, DeploymentStatuses
    <3> QED BY <3>1
  <2>2. PICK x \in Publication : /\ publication' = [publication EXCEPT ![p] = x] /\ x.at = "saved"
                                 /\ x.metadata = m /\ x.repo = y.repo
    <3>1. [y EXCEPT !.at = "saved", !.metadata = m] \in Publication
      BY <1>1 DEF Publication
    <3> QED BY <1>1, <1>4, <2>1, <3>1 DEF SavePreparing, WriteMetadata, Publication
  <2>3. saved' = m /\ y.at = "chosen" /\ y.repo # NoRepository
    BY <1>1, <1>4, <2>1 DEF SavePreparing, WriteMetadata, NamesRepository
  <2>4. NamesRepository(x)
    BY <1>1, <2>1, <2>2, <2>3 DEF NamesRepository, Recorded
  <2>5. UNCHANGED <<origin, head, edited, onGitHub>>
    BY <1>4 DEF SavePreparing
  <2>6. ReadIsCurrent => FollowsRecord(x)' /\ SavedIsOrigin'
    BY <1>1, <2>1, <2>2, <2>3, <2>5 DEF FollowsRecord, SavedIsOrigin
  <2>7. PublishedIsServed'
    BY <2>1, <2>3 DEF PublishedIsServed
  <2> QED BY <1>3, <2>1, <2>2, <2>3, <2>4, <2>5, <2>6, <2>7, RecordingStep
<1>5. CASE SaveDeploying(p)
  <2>1. PICK m \in Metadata : m = [y.metadata EXCEPT !.status = "deploying"] /\ m.repo = y.metadata.repo /\ m.status = "deploying"
    <3> DEFINE m == [y.metadata EXCEPT !.status = "deploying"]
    <3>1. m \in Metadata /\ m.repo = y.metadata.repo /\ m.status = "deploying"
      BY <1>2 DEF Metadata, DeploymentStatuses
    <3> QED BY <3>1
  <2>2. PICK x \in Publication : /\ publication' = [publication EXCEPT ![p] = x] /\ x.at = "configuring"
                                 /\ x.metadata = m /\ x.repo = y.repo
    <3>1. [y EXCEPT !.at = "configuring", !.metadata = m] \in Publication
      BY <1>1 DEF Publication
    <3> QED BY <1>1, <1>5, <2>1, <3>1 DEF SaveDeploying, WriteMetadata, Publication
  <2>3. saved' = m /\ y.at = "pushed" /\ y.metadata.repo = y.repo /\ y.repo # NoRepository
    BY <1>1, <1>5, <2>1 DEF SaveDeploying, WriteMetadata, NamesRepository, Recorded
  <2>4. NamesRepository(x)
    BY <1>1, <2>1, <2>2, <2>3 DEF NamesRepository, Recorded
  <2>5. UNCHANGED <<origin, head, edited, onGitHub>>
    BY <1>5 DEF SaveDeploying
  <2>6. ReadIsCurrent /\ SavedIsOrigin => FollowsRecord(x)' /\ SavedIsOrigin'
    BY <1>1, <2>1, <2>2, <2>3, <2>5 DEF FollowsRecord, SavedIsOrigin
  <2>7. PublishedIsServed'
    BY <2>1, <2>3 DEF PublishedIsServed
  <2> QED BY <1>3, <2>1, <2>2, <2>3, <2>4, <2>5, <2>6, <2>7, RecordingStep
<1>6. ASSUME NEW m \in Metadata, saved' = m, publication' = [publication EXCEPT ![p] = IdlePublication],
             UNCHANGED <<origin, head, edited, onGitHub>>, m.status # "none" => m.repo # NoRepository, PublishedIsServed',
             ReadIsCurrent => m.repo = saved.repo
      PROVE  ServedInv' /\ OriginKept(p)
  <2>1. PICK x \in Publication : x = IdlePublication
    BY Idles
  <2>2. NamesRepository(x) /\ FollowsRecord(x)'
    BY <2>1, IdlesNameNothing
  <2>3. ReadIsCurrent /\ SavedIsOrigin => SavedIsOrigin'
    BY <1>6 DEF SavedIsOrigin
  <2> QED BY <1>3, <1>6, <2>1, <2>2, <2>3, RecordingStep
<1>7. CASE SavePublished(p)
  <2>1. PICK m \in Metadata : m = [y.metadata EXCEPT !.status = "published", !.commit = y.commit]
                              /\ m.repo = y.metadata.repo /\ m.commit = y.commit
    <3> DEFINE m == [y.metadata EXCEPT !.status = "published", !.commit = y.commit]
    <3>1. m \in Metadata
                              /\ m.repo = y.metadata.repo /\ m.commit = y.commit
      BY <1>2 DEF Metadata, DeploymentStatuses
    <3> QED BY <3>1
  <2>2. /\ saved' = m /\ publication' = [publication EXCEPT ![p] = IdlePublication]
        /\ UNCHANGED <<origin, head, edited, onGitHub>> /\ y.at = "built"
    BY <1>7, <2>1 DEF SavePublished
  <2>3. /\ m.repo = y.repo /\ y.repo # NoRepository
        /\ onGitHub[y.repo].served >= y.commit \/ onGitHub[y.repo].earlier
    BY <1>1, <2>1, <2>2 DEF NamesRepository, Recorded
  <2>4. PublishedIsServed'
    BY <2>1, <2>2, <2>3 DEF PublishedIsServed
  <2>5. ReadIsCurrent => m.repo = saved.repo
    BY <1>1, <2>1, <2>2 DEF FollowsRecord
  <2> QED BY <1>6, <2>2, <2>3, <2>4, <2>5
<1>8. CASE Fail(p)
  <2>1. publication' = [publication EXCEPT ![p] = IdlePublication] /\ UNCHANGED <<origin, head, edited, onGitHub>>
    BY <1>8 DEF Fail
  <2>2. CASE saved' = saved
    <3>1. PublishedIsServed' /\ (saved.status # "none" => saved.repo # NoRepository)
      BY <2>1, <2>2 DEF ServedInv, PublishedIsServed, NamedRepository
    <3> QED BY <1>1, <1>6, <2>1, <2>2, <3>1
  <2>3. CASE y.metadata.status # "none" /\ saved' = [y.metadata EXCEPT !.status = "failed"]
    <3>1. PICK m \in Metadata : m = [y.metadata EXCEPT !.status = "failed"] /\ m.repo = y.metadata.repo /\ m.status = "failed"
      <4> DEFINE m == [y.metadata EXCEPT !.status = "failed"]
      <4>1. m \in Metadata /\ m.repo = y.metadata.repo /\ m.status = "failed"
        BY <1>2 DEF Metadata, DeploymentStatuses
      <4> QED BY <4>1
    <3>2. m.repo # NoRepository /\ y.at \notin {"idle", "body", "reading"}
      BY <1>1, <1>8, <2>3, <3>1 DEF NamesRepository, Fail
    <3>3. PublishedIsServed'
      BY <2>3, <3>1 DEF PublishedIsServed
    <3>4. ReadIsCurrent => m.repo = saved.repo
      BY <1>1, <3>1, <3>2 DEF FollowsRecord
    <3> QED BY <1>6, <2>1, <2>3, <3>1, <3>2, <3>3, <3>4
  <2> QED BY <1>8, <2>2, <2>3 DEF Fail
<1>9. CASE SaveRemoved(p)
  <2>1. /\ saved' = y.metadata /\ publication' = [publication EXCEPT ![p] = IdlePublication]
        /\ UNCHANGED <<origin, head, edited, onGitHub>> /\ y.at = "removed"
    BY <1>9 DEF SaveRemoved
  <2>2. y.metadata.status = "none"
    BY <1>1, <2>1 DEF NamesRepository
  <2>3. PublishedIsServed'
    BY <2>1, <2>2 DEF PublishedIsServed
  <2>4. ReadIsCurrent => y.metadata.repo = saved.repo
    BY <1>1, <2>1 DEF FollowsRecord
  <2>5. PICK m \in Metadata : m = y.metadata
    BY <1>2
  <2> QED BY <1>6, <2>1, <2>2, <2>3, <2>4, <2>5
<1> QED BY <1>4, <1>5, <1>7, <1>8, <1>9

(* Steps on GitHub and in git: a site serves more or what it did, and what  *)
(* git and GitHub hold is what the project's commits were.                  *)
LEMMA SiteChanges ==
  ASSUME ServedInv, NEW r \in Repositories, NEW site \in GitHub, onGitHub' = [onGitHub EXCEPT ![r] = site], head' = head,
         onGitHub[r].served <= site.served, site.served <= site.build, site.build <= site.pushed, site.pushed <= head,
         site.state = "built" => site.served = site.build, site.earlier = onGitHub[r].earlier
  PROVE  SitesGrow
<1>1. onGitHub' \in [Repositories -> GitHub] /\ onGitHub'[r] = site /\ \A q \in Repositories \ {r} : onGitHub'[q] = onGitHub[q]
  BY DEF ServedInv, PublishingTypeOK
<1>2. \A q \in Repositories : onGitHub[q].served \in Nat /\ onGitHub[q].served <= onGitHub[q].served
  BY DEF ServedInv, PublishingTypeOK, GitHub
<1>3. SitesFollowHead'
  BY <1>1 DEF SitesFollowHead, ServedInv
<1> QED BY <1>1, <1>2, <1>3 DEF SitesGrow

LEMMA SitesStep ==
  ASSUME ServedInv, NEW p \in Publications, NEW x \in Publication, publication' = [publication EXCEPT ![p] = x],
         SitesGrow, RestTyped, saved' = saved, NamesRepository(x),
         ReadIsCurrent /\ SavedIsOrigin => FollowsRecord(x)' /\ SavedIsOrigin'
  PROVE  ServedInv' /\ OriginKept(p)
<1>1. RecordStaysTrue
  BY RecordUntouched
<1>2. NamesRepository(x)'
  BY NamesStay
<1>3. ServedInv' /\ (Alone(p) /\ FollowsRecord(x)' => ReadIsCurrent')
  BY <1>1, <1>2, PublicationStep DEF Alone
<1> QED BY <1>3 DEF OriginKept

LEMMA SiteIs ==
  ASSUME ServedInv, NEW r \in Repositories
  PROVE  /\ onGitHub[r] \in GitHub /\ onGitHub \in [Repositories -> GitHub]
         /\ onGitHub[r].served \in Nat /\ onGitHub[r].build \in Nat /\ onGitHub[r].pushed \in Nat /\ head \in 0..MaxCommits
         /\ onGitHub[r].served <= onGitHub[r].build /\ onGitHub[r].build <= onGitHub[r].pushed /\ onGitHub[r].pushed <= head
         /\ onGitHub[r].state = "built" => onGitHub[r].served = onGitHub[r].build
BY DEF ServedInv, PublishingTypeOK, GitHub, SitesFollowHead

(* Pages or the repository itself turned on or off. *)
LEMMA SiteSwitched ==
  ASSUME ServedInv, NEW r, NEW b \in BOOLEAN, head' = head,
         onGitHub' = [onGitHub EXCEPT ![r].exists = b] \/ onGitHub' = [onGitHub EXCEPT ![r].pages = b]
  PROVE  SitesGrow
<1>1. onGitHub \in [Repositories -> GitHub]
  BY DEF ServedInv, PublishingTypeOK
<1>2. CASE r \notin Repositories
  <2>1. onGitHub' = onGitHub
    BY <1>1, <1>2
  <2> QED BY <2>1, SitesUntouched
<1>3. CASE r \in Repositories
  <2>1. PICK site \in GitHub : /\ onGitHub' = [onGitHub EXCEPT ![r] = site] /\ site.state = onGitHub[r].state
                               /\ site.served = onGitHub[r].served /\ site.build = onGitHub[r].build
                               /\ site.pushed = onGitHub[r].pushed /\ site.earlier = onGitHub[r].earlier
    <3>1. [onGitHub[r] EXCEPT !.exists = b] \in GitHub /\ [onGitHub[r] EXCEPT !.pages = b] \in GitHub
      BY <1>1, <1>3 DEF GitHub
    <3>2. \/ onGitHub' = [onGitHub EXCEPT ![r] = [onGitHub[r] EXCEPT !.exists = b]]
          \/ onGitHub' = [onGitHub EXCEPT ![r] = [onGitHub[r] EXCEPT !.pages = b]]
      BY <1>1, <1>3
    <3> QED BY <1>1, <1>3, <3>1, <3>2 DEF GitHub
  <2>2. /\ onGitHub[r].served <= site.served /\ site.served <= site.build /\ site.build <= site.pushed /\ site.pushed <= head
        /\ site.state = "built" => site.served = site.build
    BY <1>3, <2>1, SiteIs
  <2> QED BY <1>3, <2>1, <2>2, SiteChanges
<1> QED BY <1>2, <1>3

LEMMA SitesSteps ==
  ASSUME ServedInv, NEW p \in Publications,
         \/ CreateRepository(p) \/ CommitFiles(p) \/ EnsureOrigin(p) \/ Push(p) \/ ConfigurePages(p) \/ RemovePages(p)
  PROVE  ServedInv' /\ OriginKept(p)
<1> DEFINE y == publication[p]
<1>1. /\ y \in Publication /\ NamesRepository(y) /\ (ReadIsCurrent => FollowsRecord(y))
      /\ saved \in Metadata /\ origin \in Repositories \cup {NoRepository} /\ publication \in [Publications -> Publication]
      /\ edited \in BOOLEAN /\ publishing \in BOOLEAN /\ head \in 0..MaxCommits
  BY RunIs
<1>2. ASSUME NEW at, Goto(p, at), at \in {"chosen", "origin", "pushed", "polling"}
      PROVE  \E x \in Publication : /\ publication' = [publication EXCEPT ![p] = x] /\ x.at = at
                                    /\ x.metadata = y.metadata /\ x.repo = y.repo /\ x.commit = y.commit
  <2>1. [y EXCEPT !.at = at] \in Publication
    BY <1>1, <1>2 DEF Publication
  <2> QED BY <1>1, <1>2, <2>1 DEF Goto, Publication
<1>3. CASE CreateRepository(p)
  <2>1. PICK x \in Publication : /\ publication' = [publication EXCEPT ![p] = x] /\ x.at = "chosen"
                                 /\ x.metadata = y.metadata /\ x.repo = y.repo
    BY <1>2, <1>3 DEF CreateRepository
  <2>2. NamesRepository(x)
    BY <1>1, <1>3, <2>1 DEF CreateRepository, NamesRepository, Recorded
  <2>3. SitesGrow /\ RestTyped /\ UNCHANGED <<saved, origin>>
    BY <1>1, <1>3, SiteSwitched DEF CreateRepository, RestTyped
  <2>4. ReadIsCurrent /\ SavedIsOrigin => FollowsRecord(x)' /\ SavedIsOrigin'
    BY <1>1, <1>3, <2>1, <2>3 DEF CreateRepository, FollowsRecord, SavedIsOrigin
  <2> QED BY <2>1, <2>2, <2>3, <2>4, SitesStep
<1>4. CASE CommitFiles(p)
  <2>1. head' \in 0..MaxCommits /\ head <= head' /\ edited' = FALSE /\ UNCHANGED <<saved, origin, onGitHub, publishing>>
    BY <1>1, <1>4, PublishingAssumption DEF CommitFiles
  <2>2. PICK commit \in 0..MaxCommits : commit = head'
    BY <2>1
  <2>3. PICK x \in Publication : /\ publication' = [publication EXCEPT ![p] = x] /\ x.at = "committed"
                                 /\ x.metadata = y.metadata /\ x.repo = y.repo
    <3>1. [y EXCEPT !.at = "committed", !.commit = commit] \in Publication
      BY <1>1 DEF Publication
    <3>2. publication' = [publication EXCEPT ![p] = [y EXCEPT !.at = "committed", !.commit = commit]]
      BY <1>1, <1>4, <2>2 DEF CommitFiles
    <3> QED BY <1>1, <3>1, <3>2 DEF Publication
  <2>4. NamesRepository(x)
    BY <1>1, <1>4, <2>3 DEF CommitFiles, NamesRepository, Recorded
  <2>5. SitesGrow
    <3>1. \A r \in Repositories : onGitHub[r].pushed \in Nat /\ onGitHub[r].served \in Nat /\ onGitHub[r].pushed <= head
      BY SiteIs
    <3>2. \A r \in Repositories : onGitHub[r].pushed <= head'
      BY <1>1, <2>1, <3>1
    <3> QED BY <2>1, <3>1, <3>2 DEF ServedInv, PublishingTypeOK, SitesFollowHead, SitesGrow
  <2>6. RestTyped
    BY <1>1, <2>1 DEF RestTyped
  <2>7. ReadIsCurrent /\ SavedIsOrigin => FollowsRecord(x)' /\ SavedIsOrigin'
    BY <1>1, <1>4, <2>1, <2>3 DEF CommitFiles, FollowsRecord, SavedIsOrigin
  <2> QED BY <2>1, <2>3, <2>4, <2>5, <2>6, <2>7, SitesStep
<1>5. CASE EnsureOrigin(p)
  <2>1. PICK x \in Publication : /\ publication' = [publication EXCEPT ![p] = x] /\ x.at = "origin"
                                 /\ x.metadata = y.metadata /\ x.repo = y.repo
    BY <1>2, <1>5 DEF EnsureOrigin
  <2>2. NamesRepository(x) /\ y.metadata.repo = y.repo
    BY <1>1, <1>5, <2>1 DEF EnsureOrigin, NamesRepository, Recorded
  <2>3. origin' = y.repo /\ UNCHANGED <<saved, head, edited, onGitHub, publishing>>
    BY <1>5 DEF EnsureOrigin
  <2>4. SitesGrow /\ RestTyped
    BY <1>1, <2>3, SitesUntouched DEF RestTyped, Publication
  <2>5. ReadIsCurrent /\ SavedIsOrigin => FollowsRecord(x)' /\ SavedIsOrigin'
    BY <1>1, <1>5, <2>1, <2>2, <2>3 DEF EnsureOrigin, FollowsRecord, SavedIsOrigin
  <2> QED BY <2>1, <2>2, <2>3, <2>4, <2>5, SitesStep
<1>6. CASE Push(p)
  <2>1. PICK x \in Publication : /\ publication' = [publication EXCEPT ![p] = x] /\ x.at = "pushed"
                                 /\ x.metadata = y.metadata /\ x.repo = y.repo
    BY <1>2, <1>6 DEF Push
  <2>2. NamesRepository(x)
    BY <1>1, <1>6, <2>1 DEF Push, NamesRepository, Recorded
  <2>3. onGitHub' = [onGitHub EXCEPT ![origin].pushed = head] /\ UNCHANGED <<saved, origin, head, edited, publishing>>
    BY <1>6 DEF Push
  <2>4. SitesGrow
    <3>1. CASE origin \notin Repositories
      <4>1. onGitHub' = onGitHub
        BY <2>3, <3>1 DEF ServedInv, PublishingTypeOK
      <4> QED BY <2>3, <4>1, SitesUntouched
    <3>2. CASE origin \in Repositories
      <4> DEFINE old == onGitHub[origin]
      <4>1. /\ old \in GitHub /\ onGitHub \in [Repositories -> GitHub] /\ old.served \in Nat /\ old.build \in Nat
            /\ old.pushed \in Nat /\ old.served <= old.build /\ old.build <= old.pushed /\ old.pushed <= head
            /\ old.state = "built" => old.served = old.build
        BY <3>2, SiteIs
      <4>2. PICK r \in Repositories : r = origin
        BY <3>2
      <4>3. PICK site \in GitHub : /\ site = [old EXCEPT !.pushed = head] /\ site.pushed = head /\ site.state = old.state
                                   /\ site.served = old.served /\ site.build = old.build /\ site.earlier = old.earlier
        <5> DEFINE site == [old EXCEPT !.pushed = head]
        <5>1. /\ site \in GitHub /\ site.pushed = head /\ site.state = old.state
              /\ site.served = old.served /\ site.build = old.build /\ site.earlier = old.earlier
          BY <1>1, <4>1 DEF GitHub
        <5> QED BY <5>1
      <4>4. onGitHub' = [onGitHub EXCEPT ![r] = site]
        BY <2>3, <4>2, <4>3
      <4>5. /\ onGitHub[r].served <= site.served /\ site.served <= site.build /\ site.build <= site.pushed /\ site.pushed <= head
            /\ site.state = "built" => site.served = site.build
            /\ site.earlier = onGitHub[r].earlier
        BY <1>1, <4>1, <4>2, <4>3
      <4> QED BY <2>3, <4>4, <4>5, SiteChanges
    <3> QED BY <3>1, <3>2
  <2>5. RestTyped
    BY <1>1, <2>3 DEF RestTyped
  <2>6. ReadIsCurrent /\ SavedIsOrigin => FollowsRecord(x)' /\ SavedIsOrigin'
    BY <1>1, <1>6, <2>1, <2>3 DEF Push, FollowsRecord, SavedIsOrigin
  <2> QED BY <2>1, <2>2, <2>3, <2>4, <2>5, <2>6, SitesStep
<1>7. CASE ConfigurePages(p)
  <2>1. PICK x \in Publication : /\ publication' = [publication EXCEPT ![p] = x] /\ x.at = "polling"
                                 /\ x.metadata = y.metadata /\ x.repo = y.repo
    BY <1>2, <1>7 DEF ConfigurePages
  <2>2. NamesRepository(x)
    BY <1>1, <1>7, <2>1 DEF ConfigurePages, NamesRepository, Recorded
  <2>3. SitesGrow /\ RestTyped /\ UNCHANGED <<saved, origin>>
    BY <1>1, <1>7, SiteSwitched DEF ConfigurePages, RestTyped
  <2>4. ReadIsCurrent /\ SavedIsOrigin => FollowsRecord(x)' /\ SavedIsOrigin'
    BY <1>1, <1>7, <2>1, <2>3 DEF ConfigurePages, FollowsRecord, SavedIsOrigin
  <2> QED BY <2>1, <2>2, <2>3, <2>4, SitesStep
<1>8. CASE RemovePages(p)
  <2>1. PICK x \in Publication : /\ publication' = [publication EXCEPT ![p] = x] /\ x.at = "removed"
                                 /\ x.metadata.repo = saved.repo /\ x.metadata.status = "none"
    <3>1. PICK m \in Metadata : m = [saved EXCEPT !.status = "none", !.commit = 0] /\ m.repo = saved.repo /\ m.status = "none"
      <4> DEFINE m == [saved EXCEPT !.status = "none", !.commit = 0]
      <4>1. m \in Metadata /\ m.repo = saved.repo /\ m.status = "none"
        <5>1. 0 \in 0..MaxCommits
          BY PublishingAssumption
        <5> QED BY <1>1, <5>1 DEF Metadata, DeploymentStatuses
      <4> QED BY <4>1
    <3>2. [y EXCEPT !.at = "removed", !.metadata = m] \in Publication
      BY <1>1 DEF Publication
    <3> QED BY <1>1, <1>8, <3>1, <3>2 DEF RemovePages, Publication
  <2>2. NamesRepository(x)
    BY <2>1 DEF NamesRepository, Recorded
  <2>3. SitesGrow /\ RestTyped /\ UNCHANGED <<saved, origin>>
    BY <1>1, <1>8, SiteSwitched DEF RemovePages, RestTyped
  <2>4. ReadIsCurrent /\ SavedIsOrigin => FollowsRecord(x)' /\ SavedIsOrigin'
    BY <2>1, <2>3 DEF FollowsRecord, SavedIsOrigin
  <2> QED BY <2>1, <2>2, <2>3, <2>4, SitesStep
<1> QED BY <1>3, <1>4, <1>5, <1>6, <1>7, <1>8

(* GitHub Pages and the student. *)
LEMMA ServiceStep ==
  ASSUME ServedInv, SitesGrow, RestTyped, UNCHANGED <<saved, origin, publication>>
  PROVE  ServedInv' /\ (ReadIsCurrent /\ SavedIsOrigin => ReadIsCurrent' /\ SavedIsOrigin')
<1>1. RecordStaysTrue
  BY RecordUntouched
<1>2. ASSUME NEW q \in Publications PROVE NamesRepository(publication[q])'
  <2>1. PICK z \in Publication : z = publication[q] /\ publication'[q] = z
    BY DEF ServedInv, PublishingTypeOK
  <2>2. NamesRepository(z)'
    BY <2>1, NamesStay DEF ServedInv, NamedRepository
  <2> QED BY <2>1, <2>2 DEF NamesRepository
<1>3. NamedRepository'
  BY <1>1, <1>2 DEF NamedRepository, RecordStaysTrue
<1>4. PublishingTypeOK'
  BY <1>1 DEF ServedInv, PublishingTypeOK, RestTyped, RecordStaysTrue, SitesGrow
<1>5. ReadIsCurrent /\ SavedIsOrigin => ReadIsCurrent' /\ SavedIsOrigin'
  BY DEF ReadIsCurrent, FollowsRecord, SavedIsOrigin
<1> QED BY <1>1, <1>3, <1>4, <1>5 DEF ServedInv, SitesGrow, RecordStaysTrue

LEMMA ServiceSteps ==
  ASSUME ServedInv, Edit \/ \E r \in Repositories : StartBuild(r) \/ EndBuild(r)
  PROVE  ServedInv' /\ (ReadIsCurrent /\ SavedIsOrigin => ReadIsCurrent' /\ SavedIsOrigin')
<1>1. UNCHANGED <<saved, origin, publication, head>> /\ RestTyped
  BY DEF Edit, StartBuild, EndBuild, RestTyped, ServedInv, PublishingTypeOK
<1>2. CASE Edit
  BY <1>1, <1>2, SitesUntouched, ServiceStep DEF Edit
<1>3. ASSUME NEW r \in Repositories, StartBuild(r) PROVE SitesGrow
  <2> DEFINE old == onGitHub[r]
  <2>1. /\ old \in GitHub /\ onGitHub \in [Repositories -> GitHub]
        /\ old.served \in Nat /\ old.build \in Nat /\ old.pushed \in Nat
        /\ old.served <= old.build /\ old.build <= old.pushed /\ old.pushed <= head
    BY SiteIs
  <2>2. PICK site \in GitHub : /\ onGitHub' = [onGitHub EXCEPT ![r] = site]
                              /\ site.pushed = old.pushed /\ site.state = "building"
                              /\ site.served = old.served /\ site.build = old.pushed /\ site.earlier = old.earlier
    <3> DEFINE site == [old EXCEPT !.build = old.pushed, !.state = "building"]
    <3>1. /\ site \in GitHub /\ site.pushed = old.pushed /\ site.state = "building"
          /\ site.served = old.served /\ site.build = old.pushed /\ site.earlier = old.earlier
      BY <2>1 DEF GitHub
    <3>2. onGitHub' = [onGitHub EXCEPT ![r] = site]
      BY <1>3, <2>1 DEF StartBuild
    <3> QED BY <3>1, <3>2
  <2>3. onGitHub[r].served <= site.served /\ site.served <= site.build /\ site.build <= site.pushed /\ site.pushed <= head
    BY <2>1, <2>2
  <2> QED BY <1>1, <2>2, <2>3, SiteChanges
<1>4. ASSUME NEW r \in Repositories, EndBuild(r) PROVE SitesGrow
  <2> DEFINE old == onGitHub[r]
  <2>1. /\ old \in GitHub /\ onGitHub \in [Repositories -> GitHub]
        /\ old.served \in Nat /\ old.build \in Nat /\ old.pushed \in Nat
        /\ old.served <= old.build /\ old.build <= old.pushed /\ old.pushed <= head
    BY SiteIs
  <2>2. PICK result \in {"built", "errored"} :
          onGitHub' = [onGitHub EXCEPT ![r].state = result, ![r].served = IF result = "built" THEN old.build ELSE @]
    BY <1>4 DEF EndBuild
  <2>3. PICK served : served = IF result = "built" THEN old.build ELSE old.served
    OBVIOUS
  <2>4. PICK site \in GitHub : /\ onGitHub' = [onGitHub EXCEPT ![r] = site]
                              /\ site.pushed = old.pushed /\ site.state = result
                              /\ site.served = served /\ site.build = old.build /\ site.earlier = old.earlier
    <3> DEFINE site == [old EXCEPT !.state = result, !.served = served]
    <3>1. served \in 0..MaxCommits
      BY <2>1, <2>3 DEF GitHub
    <3>2. /\ site \in GitHub /\ site.pushed = old.pushed /\ site.state = result
          /\ site.served = served /\ site.build = old.build /\ site.earlier = old.earlier
      BY <2>1, <3>1 DEF GitHub
    <3>3. onGitHub' = [onGitHub EXCEPT ![r] = site]
      BY <2>1, <2>2, <2>3
    <3> QED BY <3>2, <3>3
  <2>5. /\ onGitHub[r].served <= site.served /\ site.served <= site.build /\ site.build <= site.pushed /\ site.pushed <= head
        /\ site.state = "built" => site.served = site.build
    BY <2>1, <2>3, <2>4
  <2> QED BY <1>1, <2>4, <2>5, SiteChanges
<1> QED BY <1>1, <1>2, <1>3, <1>4, ServiceStep

(* A process that stops takes the publications of the bridge with it, and   *)
(* leaves the record as it was or unreadable.                               *)
LEMMA ProcessStops ==
  ASSUME ServedInv, NEW p \in Publications, StopProcess(p)
  PROVE  ServedInv' /\ OriginKept(p)
<1>1. UNCHANGED <<origin, head, edited, onGitHub>> /\ saved' \in {saved, NoMetadata}
  BY DEF StopProcess
<1>2. publishing' \in BOOLEAN
  BY Zenon DEF StopProcess
<1>3. SitesGrow /\ RestTyped
  BY <1>1, <1>2, SitesUntouched DEF RestTyped, ServedInv, PublishingTypeOK
<1>4. RecordStaysTrue
  <2>1. CASE saved' = saved
    BY <1>3, <2>1, RecordUntouched
  <2>2. CASE saved' = NoMetadata
    BY <2>2, Idles DEF RecordStaysTrue, PublishedIsServed
  <2> QED BY <1>1, <2>1, <2>2
<1>5. publication' \in [Publications -> Publication] /\ \A q \in Publications : publication'[q] \in {IdlePublication, publication[q]}
  BY Idles DEF StopProcess, ServedInv, PublishingTypeOK
<1>6. ASSUME NEW q \in Publications PROVE NamesRepository(publication[q])'
  <2>1. PICK z \in Publication : publication'[q] = z
    BY <1>5
  <2>2. NamesRepository(z)'
    <3>1. CASE z = IdlePublication
      BY <3>1, IdlesNameNothing
    <3>2. CASE z = publication[q]
      BY <1>3, <3>2, NamesStay DEF ServedInv, NamedRepository
    <3> QED BY <1>5, <2>1, <3>1, <3>2
  <2> QED BY <2>1, <2>2 DEF NamesRepository
<1>7. ServedInv'
  BY <1>3, <1>4, <1>5, <1>6 DEF ServedInv, PublishingTypeOK, NamedRepository, RestTyped, RecordStaysTrue, SitesGrow
<1>8. ASSUME Alone(p), ReadIsCurrent, SavedIsOrigin PROVE ReadIsCurrent' /\ SavedIsOrigin'
  <2>1. publication'[p] = IdlePublication
    BY DEF StopProcess
  <2>2. ReadIsCurrent'
    BY <1>8, <2>1, Idles DEF Alone, ReadIsCurrent, FollowsRecord
  <2>3. SavedIsOrigin'
    BY <1>1, <1>8, Idles DEF SavedIsOrigin
  <2> QED BY <2>2, <2>3
<1> QED BY <1>7, <1>8 DEF OriginKept

LEMMA PublishingStays ==
  ASSUME ServedInv, [PublishingNext]_publishingVars
  PROVE  /\ ServedInv'
         /\ (\A p, q \in Publications : p = q) /\ ReadIsCurrent /\ SavedIsOrigin => ReadIsCurrent' /\ SavedIsOrigin'
<1>1. ASSUME NEW p \in Publications, PublishingStep(p) PROVE ServedInv' /\ OriginKept(p)
  BY <1>1, MovingSteps, RecordingSteps, SitesSteps, ProcessStops DEF PublishingStep
<1>2. ASSUME Edit \/ \E r \in Repositories : StartBuild(r) \/ EndBuild(r)
      PROVE  ServedInv' /\ (ReadIsCurrent /\ SavedIsOrigin => ReadIsCurrent' /\ SavedIsOrigin')
  BY <1>2, ServiceSteps
<1>3. ASSUME UNCHANGED publishingVars
      PROVE  ServedInv' /\ (ReadIsCurrent /\ SavedIsOrigin => ReadIsCurrent' /\ SavedIsOrigin')
  <2>1. SitesGrow /\ RestTyped /\ UNCHANGED <<saved, origin, publication>>
    BY <1>3, SitesUntouched DEF publishingVars, RestTyped, ServedInv, PublishingTypeOK
  <2> QED BY <2>1, ServiceStep
<1> QED BY <1>1, <1>2, <1>3 DEF PublishingNext, OriginKept, Alone

(* However many publications are under way and wherever they stop, a        *)
(* project is on record as published only when Pages serves that commit or  *)
(* a later one, or a site that was there before                             *)
(* (publishing-service.ts, waitForDeployment).                              *)
THEOREM PublishedSitesAreServed == PublishingSpec => []PublishedIsServed
<1>1. ServedInv => PublishedIsServed
  BY DEF ServedInv
<1>2. PublishingInit => ServedInv
  BY PublishingStart DEF PublishingInv
<1>3. ServedInv /\ [PublishingNext]_publishingVars => ServedInv'
  BY PublishingStays
<1> QED BY <1>1, <1>2, <1>3, PTL DEF PublishingSpec

OnePublication == \A p, q \in Publications : p = q

(* With one publication at a time the repository on record is the one       *)
(* origin names besides, wherever the publication stopped.                  *)
THEOREM ProjectIsOnRecord == ASSUME OnePublication PROVE PublishingSpec => []ProjectOnRecord
<1>1. PublishingInv => ProjectOnRecord
  BY DEF PublishingInv, ServedInv, ProjectOnRecord
<1>2. PublishingInv /\ [PublishingNext]_publishingVars => PublishingInv'
  BY PublishingStays DEF PublishingInv, OnePublication
<1> QED BY <1>1, <1>2, PublishingStart, PTL DEF PublishingSpec

-----------------------------------------------------------------------------
(* InterventionQueue *)

LEMMA NotBegunIsTransaction == IsTransaction(NotBegun) /\ NotBegun.at = "start" /\ ~NotBegun.clean
BY DEF IsTransaction, NotBegun

LEMMA QueueStart == QueueInit => QueueInv
<1> SUFFICES ASSUME QueueInit PROVE QueueInv
  OBVIOUS
<1>1. IsItem(NoItem)
  BY DEF IsItem, NoItem, Statuses
<1>2. QueueTypeOK
  BY <1>1, NotBegunIsTransaction DEF QueueInit, QueueTypeOK
<1>3. CleanIsAlone
  BY NotBegunIsTransaction DEF QueueInit, CleanIsAlone
<1>4. WrittenRowsHeld
  BY DEF QueueInit, WrittenRowsHeld, NotBegun, Locked
<1>5. QueueIsCurrent
  BY DEF QueueInit, QueueIsCurrent
<1> QED BY <1>2, <1>3, <1>4, <1>5 DEF QueueInv

(* One refresh moves on. *)
LEMMA RefreshMoves ==
  ASSUME QueueTypeOK, NEW r \in Refreshes, NEW x, IsTransaction(x), refresh' = [refresh EXCEPT ![r] = x]
  PROVE  /\ refresh'[r] = x /\ \A o \in Refreshes \ {r} : refresh'[o] = refresh[o]
         /\ refresh' = [o \in Refreshes |-> refresh'[o]] /\ \A o \in Refreshes : IsTransaction(refresh'[o])
BY DEF QueueTypeOK

(* Whatever is answered follows the evidence still. *)
LEMMA AnsweredFollows ==
  ASSUME NEW c, NEW was, NEW now, FollowsEvidence(c, was), was.status # "none", now.status \in {"dismissed", "resolved"}
  PROVE  FollowsEvidence(c, now)
BY DEF FollowsEvidence

(* A refresh leaves each category as the evidence it has read asks. *)
LEMMA WrittenFollows ==
  ASSUME NEW c, NEW was, IsItem(was), ~expired
  PROVE  FollowsEvidence(c, WrittenRow(c, was, SeenNow)) /\ IsItem(WrittenRow(c, was, SeenNow))
<1> DEFINE asked == CallsFor(c, SeenNow)
           counts == Facts(c, SeenNow)
           x == WrittenRow(c, was, SeenNow)
<1>1. CASE asked /\ was.status = "none"
  <2>1. x = [status |-> "open", facts |-> counts]
    BY <1>1 DEF WrittenRow
  <2> QED BY <1>1, <2>1 DEF FollowsEvidence, IsItem, Statuses
<1>2. CASE asked /\ was.status = "open"
  <2>1. x = [was EXCEPT !.facts = counts]
    BY <1>2 DEF WrittenRow
  <2> QED BY <1>2, <2>1 DEF FollowsEvidence, IsItem, Statuses
<1>3. CASE ~asked /\ was.status = "open"
  <2>1. x = [was EXCEPT !.status = "resolved"]
    BY <1>3 DEF WrittenRow
  <2> QED BY <1>3, <2>1 DEF FollowsEvidence, IsItem, Statuses
<1>4. CASE (asked /\ was.status \notin {"none", "open"}) \/ (~asked /\ was.status # "open")
  <2>1. x = was
    BY <1>4 DEF WrittenRow
  <2> QED BY <1>4, <2>1 DEF FollowsEvidence, IsItem
<1> QED BY <1>1, <1>2, <1>3, <1>4

(* It writes a row only where the row is new or open. *)
LEMMA WritesOpenRows ==
  ASSUME NEW c, NEW was, IsItem(was), NEW s, WrittenRow(c, was, s) # was
  PROVE  /\ was.status \in {"none", "open"} /\ WrittenRow(c, was, s).status \in {"open", "resolved"}
         /\ CallsFor(c, s) \/ was.status = "open"
         /\ IsItem(WrittenRow(c, was, s))
<1> DEFINE asked == CallsFor(c, s)
           counts == Facts(c, s)
           x == WrittenRow(c, was, s)
<1>1. CASE asked /\ was.status = "none"
  <2>1. x = [status |-> "open", facts |-> counts]
    BY <1>1 DEF WrittenRow
  <2> QED BY <1>1, <2>1 DEF IsItem, Statuses
<1>2. CASE asked /\ was.status = "open"
  <2>1. x = [was EXCEPT !.facts = counts]
    BY <1>2 DEF WrittenRow
  <2> QED BY <1>2, <2>1 DEF IsItem, Statuses
<1>3. CASE ~asked /\ was.status = "open"
  <2>1. x = [was EXCEPT !.status = "resolved"]
    BY <1>3 DEF WrittenRow
  <2> QED BY <1>3, <2>1 DEF IsItem, Statuses
<1>4. CASE (asked /\ was.status \notin {"none", "open"}) \/ (~asked /\ was.status # "open")
  <2>1. x = was
    BY <1>4 DEF WrittenRow
  <2> QED BY <2>1
<1> QED BY <1>1, <1>2, <1>3, <1>4

(* What one undisturbed refresh has read is what there is. *)
LEMMA ReadsWhatIs ==
  /\ SeenSoFar("edits") = Begun
  /\ CountEdits(SeenSoFar("edits"), evidence) = SeenSoFar("failures")
  /\ CountFailures(SeenSoFar("failures"), evidence) = SeenSoFar("reflection")
  /\ [SeenSoFar("reflection") EXCEPT !.reflected = reflected] = SeenSoFar("write")
  /\ SeenSoFar("write") = SeenNow
BY DEF SeenSoFar, SeenNow, CountedNow

LEMMA DisturbedTyped ==
  ASSUME QueueTypeOK
  PROVE  /\ Disturbed = [r \in Refreshes |-> Disturbed[r]] /\ \A r \in Refreshes : IsTransaction(Disturbed[r])
         /\ \A r \in Refreshes : /\ Disturbed[r].clean = FALSE /\ Disturbed[r].writes = refresh[r].writes
                                 /\ Disturbed[r].held = refresh[r].held /\ Disturbed[r].at = refresh[r].at
<1>1. \A r \in Refreshes : IsTransaction(refresh[r]) /\ Disturbed[r] = [refresh[r] EXCEPT !.clean = FALSE]
  BY DEF Disturbed, QueueTypeOK
<1>2. ASSUME NEW r \in Refreshes
      PROVE  /\ IsTransaction(Disturbed[r])
             /\ Disturbed[r].clean = FALSE /\ Disturbed[r].writes = refresh[r].writes
             /\ Disturbed[r].held = refresh[r].held /\ Disturbed[r].at = refresh[r].at
  <2>1. PICK y : y = refresh[r] /\ IsTransaction(y) /\ Disturbed[r] = [y EXCEPT !.clean = FALSE]
    BY <1>1
  <2> QED BY <2>1 DEF IsTransaction
<1>3. Disturbed = [r \in Refreshes |-> Disturbed[r]]
  BY DEF Disturbed
<1> QED BY <1>2, <1>3

(* Uploads and the passing of time. *)
LEMMA QueueMeetsChange == ASSUME QueueInv, QueueUntouched PROVE CleanIsAlone' /\ WrittenRowsHeld' /\ QueueIsCurrent' /\ AnswersStand
<1>1. refresh' = Disturbed /\ current' = FALSE /\ item' = item
  BY DEF QueueUntouched
<1>2. \A r \in Refreshes : /\ refresh'[r].clean = FALSE /\ refresh'[r].writes = refresh[r].writes
                           /\ refresh'[r].held = refresh[r].held
  BY <1>1, DisturbedTyped DEF QueueInv
<1>3. CleanIsAlone'
  BY <1>2 DEF CleanIsAlone
<1>4. WrittenRowsHeld'
  BY <1>1, <1>2 DEF QueueInv, WrittenRowsHeld, Locked
<1>5. QueueIsCurrent' /\ AnswersStand
  BY <1>1 DEF QueueIsCurrent, AnswersStand
<1> QED BY <1>3, <1>4, <1>5

(* What a refresh that begins holds and has written. *)
BeginsAs(r, x) ==
  /\ IsTransaction(x) /\ refresh' = [Disturbed EXCEPT ![r] = x] /\ UNCHANGED <<queueInputs, item, current>>
  /\ x.at = (IF expired THEN "end" ELSE "edits") /\ x.seen = Begun
  /\ x.held = (IF expired THEN {c \in Categories : item[c].status = "open"} ELSE {})
  /\ x.held \cap Locked(r) = {}
  /\ DOMAIN x.writes = x.held /\ \A c \in x.held : x.writes[c].status = "resolved"
  /\ x.clean => \A o \in Refreshes : ~Refreshing(o)

LEMMA BeginIs ==
  ASSUME QueueTypeOK, NEW r \in Refreshes, BeginRefresh(r)
  PROVE  \E x : BeginsAs(r, x)
<1> DEFINE closing == IF expired THEN {c \in Categories : item[c].status = "open"} ELSE {}
           closed == [c \in closing |-> [item[c] EXCEPT !.status = "resolved"]]
<1>1. closing \subseteq Categories /\ closing \cap Locked(r) = {}
  BY DEF BeginRefresh
<1>2. \A c \in closing : IsItem(closed[c]) /\ closed[c].status = "resolved"
  <2> SUFFICES ASSUME NEW c \in closing PROVE IsItem(closed[c]) /\ closed[c].status = "resolved"
    OBVIOUS
  <2>1. PICK y : y = item[c] /\ IsItem(y) /\ closed[c] = [y EXCEPT !.status = "resolved"]
    BY <1>1 DEF QueueTypeOK
  <2> QED BY <2>1 DEF IsItem, Statuses
<1>3. PICK kept : kept = closing
  OBVIOUS
<1>4. PICK writes : writes = closed
  OBVIOUS
<1>5. PICK clean \in BOOLEAN : clean = \A o \in Refreshes : ~Refreshing(o)
  OBVIOUS
<1>6. PICK at \in {"end", "edits"} : at = IF expired THEN "end" ELSE "edits"
  OBVIOUS
<1>7. PICK x : x = [NotBegun EXCEPT !.at = at, !.seen.rested = rested, !.held = kept, !.writes = writes, !.clean = clean]
  OBVIOUS
<1>8. refresh' = [Disturbed EXCEPT ![r] = x] /\ UNCHANGED <<queueInputs, item, current>>
  BY <1>3, <1>4, <1>5, <1>6, <1>7 DEF BeginRefresh
<1>9. x = [at |-> at, next |-> 1, seen |-> Begun, writes |-> writes, held |-> kept, clean |-> clean]
  <2>1. PICK nothing : nothing = NothingCounted
    OBVIOUS
  <2>2. NotBegun = [at |-> "start", next |-> 1, seen |-> nothing, writes |-> <<>>, held |-> {}, clean |-> FALSE]
    BY <2>1 DEF NotBegun
  <2>3. Begun = [nothing EXCEPT !.rested = rested]
    BY <2>1 DEF Begun
  <2> QED BY <1>7, <2>2, <2>3
<1>10. /\ writes = [c \in DOMAIN writes |-> writes[c]] /\ (\A c \in DOMAIN writes : IsItem(writes[c]))
       /\ DOMAIN writes = kept /\ kept \subseteq Categories /\ \A c \in kept : writes[c].status = "resolved"
  BY <1>1, <1>2, <1>3, <1>4
<1>11. IsTransaction(x)
  BY <1>9, <1>10 DEF IsTransaction
<1>12. /\ x.at = (IF expired THEN "end" ELSE "edits") /\ x.seen = Begun /\ x.held = closing /\ x.writes = writes
       /\ x.clean => \A o \in Refreshes : ~Refreshing(o)
  <2>1. x.at = at /\ x.seen = Begun /\ x.held = kept /\ x.writes = writes /\ x.clean = clean
    BY <1>9
  <2> QED BY <1>3, <1>5, <1>6, <2>1, Zenon
<1>13. x.held \cap Locked(r) = {} /\ DOMAIN x.writes = x.held /\ \A c \in x.held : x.writes[c].status = "resolved"
  BY <1>1, <1>3, <1>10, <1>12
<1>14. BeginsAs(r, x)
  BY <1>8, <1>11, <1>12, <1>13, Zenon DEF BeginsAs
<1> QED BY <1>14

(* What the three reads find. *)
ReadsAs(r, x) ==
  /\ IsTransaction(x) /\ refresh' = [refresh EXCEPT ![r] = x] /\ UNCHANGED <<queueInputs, item, current>>
  /\ refresh[r].at \in {"edits", "failures", "reflection"} /\ x.at \in {"failures", "reflection", "write"} /\ x.next = 1
  /\ x.held = refresh[r].held /\ x.writes = refresh[r].writes /\ x.clean = refresh[r].clean
  /\ refresh[r].seen = SeenSoFar(refresh[r].at) => x.seen = SeenSoFar(x.at)

LEMMA ReadIs ==
  ASSUME QueueTypeOK, NEW r \in Refreshes, ReadEdits(r) \/ ReadFailures(r) \/ ReadReflection(r)
  PROVE  \E x : ReadsAs(r, x)
<1> DEFINE y == refresh[r]
<1>1. IsTransaction(y) /\ refresh = [o \in Refreshes |-> refresh[o]]
  BY DEF QueueTypeOK
<1>2. ASSUME NEW at, NEW seen, refresh' = [refresh EXCEPT ![r].at = at, ![r].seen = seen], UNCHANGED <<queueInputs, item, current>>,
             y.at \in {"edits", "failures", "reflection"}, at \in {"failures", "reflection", "write"},
             y.seen = SeenSoFar(y.at) => seen = SeenSoFar(at)
      PROVE  \E x : ReadsAs(r, x)
  <2>1. PICK z : z = y /\ IsTransaction(z)
    BY <1>1
  <2>2. PICK x : x = [z EXCEPT !.at = at, !.seen = seen]
    OBVIOUS
  <2>3. refresh' = [refresh EXCEPT ![r] = x]
    BY <1>1, <1>2, <2>1, <2>2
  <2>4. /\ IsTransaction(x) /\ x.next = 1 /\ x.at = at /\ x.seen = seen
        /\ x.held = z.held /\ x.writes = z.writes /\ x.clean = z.clean
    BY <1>2, <2>1, <2>2 DEF IsTransaction
  <2>5. ReadsAs(r, x)
    BY <1>2, <2>1, <2>3, <2>4 DEF ReadsAs
  <2> QED BY <2>5
<1>3. CASE ReadEdits(r)
  <2>1. PICK seen : seen = CountEdits(y.seen, evidence)
    OBVIOUS
  <2>2. refresh' = [refresh EXCEPT ![r].at = "failures", ![r].seen = seen] /\ y.at = "edits" /\ UNCHANGED <<queueInputs, item, current>>
    BY <1>3, <2>1 DEF ReadEdits
  <2>3. y.seen = SeenSoFar(y.at) => seen = SeenSoFar("failures")
    BY <2>1, <2>2, ReadsWhatIs
  <2> QED BY <1>2, <2>2, <2>3
<1>4. CASE ReadFailures(r)
  <2>1. PICK seen : seen = CountFailures(y.seen, evidence)
    OBVIOUS
  <2>2. refresh' = [refresh EXCEPT ![r].at = "reflection", ![r].seen = seen] /\ y.at = "failures" /\ UNCHANGED <<queueInputs, item, current>>
    BY <1>4, <2>1 DEF ReadFailures
  <2>3. y.seen = SeenSoFar(y.at) => seen = SeenSoFar("reflection")
    BY <2>1, <2>2, ReadsWhatIs
  <2> QED BY <1>2, <2>2, <2>3
<1>5. CASE ReadReflection(r)
  <2>1. PICK seen : seen = [y.seen EXCEPT !.reflected = reflected]
    OBVIOUS
  <2>2. refresh' = [refresh EXCEPT ![r].at = "write", ![r].seen = seen] /\ y.at = "reflection" /\ UNCHANGED <<queueInputs, item, current>>
    BY <1>1, <1>5, <2>1 DEF ReadReflection
  <2>3. y.seen = SeenSoFar(y.at) => seen = SeenSoFar("write")
    BY <2>1, <2>2, ReadsWhatIs
  <2> QED BY <1>2, <2>2, <2>3
<1> QED BY <1>3, <1>4, <1>5

LEMMA OwnRowIsItem == ASSUME QueueTypeOK, NEW r \in Refreshes, NEW c \in Categories PROVE IsItem(OwnRow(r, c))
BY DEF OwnRow, QueueTypeOK, IsTransaction

(* What the step for one category writes and locks. *)
WritesAs(r, c, x) ==
  LET y == refresh[r]
      was == OwnRow(r, c)
      new == WrittenRow(c, was, y.seen)
  IN  /\ y.at = "write" /\ y.next \in 1..4
      /\ IsTransaction(x) /\ refresh' = [refresh EXCEPT ![r] = x] /\ UNCHANGED <<queueInputs, item, current>>
      /\ x.at = (IF y.next = 4 THEN "end" ELSE "write") /\ x.next = (IF y.next = 4 THEN 4 ELSE y.next + 1)
      /\ x.seen = y.seen /\ x.clean = y.clean
      /\ x.held = y.held \/ (x.held = y.held \cup {c} /\ c \notin Locked(r))
      /\ \/ new = was /\ x.writes = y.writes
         \/ new # was /\ c \in x.held /\ x.writes = WithRow(y.writes, c, new)

LEMMA WriteIs ==
  ASSUME QueueTypeOK, NEW r \in Refreshes, WriteCategory(r)
  PROVE  LET c == Signals[refresh[r].next] IN c \in Categories /\ \E x : WritesAs(r, c, x)
<1> DEFINE y == refresh[r]
           n == y.next
           c == Signals[n]
           was == OwnRow(r, c)
           new == WrittenRow(c, was, y.seen)
           takes == CallsFor(c, y.seen) \/ was.status = "open"
<1>1. /\ IsTransaction(y) /\ refresh = [o \in Refreshes |-> refresh[o]] /\ n \in 1..4 /\ y.held \subseteq Categories
      /\ y.writes = [d \in DOMAIN y.writes |-> y.writes[d]] /\ \A d \in DOMAIN y.writes : IsItem(y.writes[d])
  BY DEF QueueTypeOK, IsTransaction
<1>2. c \in Categories
  BY <1>1 DEF Categories
<1>3. IsItem(was)
  BY <1>2, OwnRowIsItem
<1>4. PICK kept : kept = IF takes THEN y.held \cup {c} ELSE y.held
  OBVIOUS
<1>5. PICK writes : writes = IF new = was THEN y.writes ELSE WithRow(y.writes, c, new)
  OBVIOUS
<1>6. PICK at : at = IF n = 4 THEN "end" ELSE "write"
  OBVIOUS
<1>7. PICK next : next = IF n = 4 THEN 4 ELSE n + 1
  OBVIOUS
<1>8. refresh' = [refresh EXCEPT ![r].at = at, ![r].next = next, ![r].writes = writes, ![r].held = kept]
  BY <1>4, <1>5, <1>6, <1>7 DEF WriteCategory
<1>9. PICK z : z = y /\ IsTransaction(z)
  BY <1>1
<1>10. PICK x : x = [z EXCEPT !.at = at, !.next = next, !.writes = writes, !.held = kept]
  OBVIOUS
<1>11. refresh' = [refresh EXCEPT ![r] = x]
  BY <1>1, <1>8, <1>9, <1>10
<1>12. /\ x.at = at /\ x.next = next /\ x.writes = writes /\ x.held = kept /\ x.seen = z.seen /\ x.clean = z.clean
       /\ x = [at |-> x.at, next |-> x.next, seen |-> x.seen, writes |-> x.writes, held |-> x.held, clean |-> x.clean]
       /\ x.clean \in BOOLEAN
  BY <1>9, <1>10 DEF IsTransaction
<1>13. at \in {"end", "write"} /\ next \in 1..4 /\ kept \subseteq Categories
  BY <1>1, <1>2, <1>4, <1>6, <1>7
<1>14. writes = [d \in DOMAIN writes |-> writes[d]] /\ \A d \in DOMAIN writes : IsItem(writes[d])
  <2>1. CASE new = was
    BY <1>1, <1>5, <2>1
  <2>2. CASE new # was
    <3>1. IsItem(new)
      BY <1>3, <2>2, WritesOpenRows
    <3>2. PICK row : row = new /\ IsItem(row)
      BY <3>1
    <3>3. writes = WithRow(y.writes, c, row)
      BY <1>5, <2>2, <3>2
    <3> HIDE DEF c, new, was
    <3> QED BY <1>1, <3>2, <3>3 DEF WithRow
  <2> QED BY <2>1, <2>2
<1>15. IsTransaction(x)
  BY <1>12, <1>13, <1>14 DEF IsTransaction
<1>16. new # was => takes
  BY <1>3, WritesOpenRows
<1>17. y.at = "write" /\ UNCHANGED <<queueInputs, item, current>> /\ (c \in Locked(r) => ~takes)
  BY DEF WriteCategory
<1>18. /\ kept = y.held \/ (kept = y.held \cup {c} /\ c \notin Locked(r))
       /\ (new = was /\ writes = y.writes) \/ (new # was /\ c \in kept /\ writes = WithRow(y.writes, c, new))
  BY <1>4, <1>5, <1>16, <1>17, Zenon
<1> HIDE DEF c, was, new, takes
<1>19. /\ x.at = (IF y.next = 4 THEN "end" ELSE "write") /\ x.next = (IF y.next = 4 THEN 4 ELSE y.next + 1)
       /\ x.seen = y.seen /\ x.clean = y.clean /\ x.held = kept /\ x.writes = writes
  BY <1>6, <1>7, <1>9, <1>12
<1>20. WritesAs(r, c, x)
  BY <1>1, <1>11, <1>15, <1>17, <1>18, <1>19 DEF WritesAs, was, new
<1> QED BY <1>2, <1>20 DEF c

LEMMA FollowsStay ==
  ASSUME UNCHANGED queueInputs, NEW c, NEW x PROVE FollowsEvidence(c, x)' <=> FollowsEvidence(c, x)
BY DEF queueInputs, FollowsEvidence, SeenNow, CountedNow, Begun

LEMMA SeenStays == ASSUME UNCHANGED queueInputs, NEW at PROVE SeenSoFar(at)' = SeenSoFar(at)
BY DEF queueInputs, SeenSoFar, SeenNow, CountedNow, Begun

(* What a refresh writes is what it holds, whatever the others do. *)
LEMMA HeldStep ==
  ASSUME QueueInv, NEW r \in Refreshes, NEW x, refresh'[r] = x, UNCHANGED item,
         \A o \in Refreshes \ {r} : refresh'[o].held = refresh[o].held /\ refresh'[o].writes = refresh[o].writes,
         x.held \cap Locked(r) = {}, DOMAIN x.writes \subseteq x.held,
         \A c \in DOMAIN x.writes : item[c].status \in {"none", "open"} /\ x.writes[c].status \in {"open", "resolved"}
  PROVE  WrittenRowsHeld'
<1>1. ASSUME NEW o \in Refreshes, NEW q \in Refreshes \ {o} PROVE refresh'[o].held \cap refresh'[q].held = {}
  <2>1. CASE o = r
    BY <2>1 DEF Locked
  <2>2. CASE q = r
    BY <2>2 DEF Locked
  <2>3. CASE o # r /\ q # r
    BY <2>3 DEF QueueInv, WrittenRowsHeld, Locked
  <2> QED BY <2>1, <2>2, <2>3
<1>2. \A o \in Refreshes : refresh'[o].held \cap Locked(o)' = {}
  BY <1>1 DEF Locked
<1>3. ASSUME NEW o \in Refreshes
      PROVE  /\ DOMAIN refresh'[o].writes \subseteq refresh'[o].held
             /\ \A c \in DOMAIN refresh'[o].writes :
                  item'[c].status \in {"none", "open"} /\ refresh'[o].writes[c].status \in {"open", "resolved"}
  BY DEF QueueInv, WrittenRowsHeld
<1> QED BY <1>2, <1>3 DEF WrittenRowsHeld

LEMMA BeginStep ==
  ASSUME QueueInv, NEW r \in Refreshes, BeginRefresh(r)
  PROVE  QueueInv' /\ AnswersStand
<1>0. PICK x : BeginsAs(r, x)
  BY BeginIs DEF QueueInv
<1>1. /\ IsTransaction(x) /\ refresh' = [Disturbed EXCEPT ![r] = x] /\ UNCHANGED <<queueInputs, item, current>>
      /\ x.at = (IF expired THEN "end" ELSE "edits") /\ x.seen = Begun
      /\ x.held = (IF expired THEN {c \in Categories : item[c].status = "open"} ELSE {})
      /\ x.held \cap Locked(r) = {}
      /\ DOMAIN x.writes = x.held /\ \A c \in x.held : x.writes[c].status = "resolved"
      /\ x.clean => \A o \in Refreshes : ~Refreshing(o)
  BY <1>0 DEF BeginsAs
<1>2. /\ refresh'[r] = x /\ refresh' = [o \in Refreshes |-> refresh'[o]]
      /\ \A o \in Refreshes \ {r} : /\ IsTransaction(refresh'[o]) /\ refresh'[o].clean = FALSE /\ refresh'[o].at = refresh[o].at
                                    /\ refresh'[o].held = refresh[o].held /\ refresh'[o].writes = refresh[o].writes
  BY <1>1, DisturbedTyped DEF QueueInv
<1>3. QueueTypeOK'
  BY <1>1, <1>2 DEF QueueInv, QueueTypeOK, queueInputs
<1>4. \A c \in DOMAIN x.writes : item[c].status \in {"none", "open"} /\ x.writes[c].status \in {"open", "resolved"}
  BY <1>1
<1>5. WrittenRowsHeld'
  BY <1>1, <1>2, <1>4, HeldStep
<1>6. ASSUME x.clean
      PROVE  /\ \A o \in Refreshes \ {r} : ~Refreshing(o)'
             /\ x.at # "end" => ~expired' /\ x.seen = SeenSoFar(x.at)'
             /\ x.at # "write"
             /\ x.at = "end" => \A c \in Categories : FollowsEvidence(c, OwnRow(r, c))'
  <2>1. \A o \in Refreshes \ {r} : ~Refreshing(o)'
    BY <1>1, <1>2, <1>6 DEF Refreshing
  <2>2. x.at # "end" => ~expired' /\ x.seen = SeenSoFar(x.at)'
    BY <1>1, SeenStays, ReadsWhatIs DEF queueInputs
  <2>3. ASSUME x.at = "end", NEW c \in Categories PROVE FollowsEvidence(c, OwnRow(r, c))'
    <3>1. expired
      BY <1>1, <2>3
    <3>2. OwnRow(r, c)'.status # "open"
      BY <1>1, <1>2, <3>1 DEF OwnRow
    <3> QED BY <1>1, <3>1, <3>2 DEF FollowsEvidence, queueInputs
  <2> QED BY <1>1, <2>1, <2>2, <2>3
<1>7. CleanIsAlone'
  BY <1>2, <1>6 DEF CleanIsAlone
<1>8. QueueIsCurrent' /\ AnswersStand
  BY <1>1, FollowsStay DEF QueueInv, QueueIsCurrent, AnswersStand
<1> QED BY <1>3, <1>5, <1>7, <1>8 DEF QueueInv

(* A refresh under way that goes on leaves no other one clean. *)
LEMMA CleanStep ==
  ASSUME QueueInv, NEW r \in Refreshes, Refreshing(r), NEW x, refresh'[r] = x, UNCHANGED queueInputs,
         \A o \in Refreshes \ {r} : refresh'[o] = refresh[o],
         x.clean => /\ refresh[r].clean
                    /\ x.at \notin {"start", "end", "done"} => ~expired /\ x.seen = SeenSoFar(x.at)
                    /\ x.at = "write" => \A n \in 1..(x.next - 1) : FollowsEvidence(Signals[n], OwnRow(r, Signals[n])')
                    /\ x.at = "end" => \A c \in Categories : FollowsEvidence(c, OwnRow(r, c)')
  PROVE  CleanIsAlone'
<1>1. ASSUME NEW o \in Refreshes \ {r}, refresh'[o].clean PROVE ~Refreshing(o)'
  BY <1>1 DEF QueueInv, CleanIsAlone, Refreshing
<1>2. ASSUME x.clean, x.at \notin {"start", "done"}
      PROVE  /\ \A o \in Refreshes \ {r} : ~Refreshing(o)'
             /\ x.at # "end" => ~expired' /\ x.seen = SeenSoFar(x.at)'
             /\ x.at = "write" => \A n \in 1..(x.next - 1) : FollowsEvidence(Signals[n], OwnRow(r, Signals[n]))'
             /\ x.at = "end" => \A c \in Categories : FollowsEvidence(c, OwnRow(r, c))'
  <2>1. \A o \in Refreshes \ {r} : ~Refreshing(o)'
    BY <1>2 DEF QueueInv, CleanIsAlone, Refreshing
  <2>2. x.at # "end" => ~expired' /\ x.seen = SeenSoFar(x.at)'
    BY <1>2, SeenStays DEF queueInputs
  <2>3. ASSUME NEW c, FollowsEvidence(c, OwnRow(r, c)') PROVE FollowsEvidence(c, OwnRow(r, c))'
    <3>1. PICK v : v = OwnRow(r, c)'
      OBVIOUS
    <3>2. FollowsEvidence(c, v)'
      BY <2>3, <3>1, FollowsStay
    <3> QED BY <3>1, <3>2 DEF FollowsEvidence
  <2> QED BY <1>2, <2>1, <2>2, <2>3
<1> QED BY <1>1, <1>2 DEF CleanIsAlone, Refreshing

LEMMA ReadStep ==
  ASSUME QueueInv, NEW r \in Refreshes, ReadEdits(r) \/ ReadFailures(r) \/ ReadReflection(r)
  PROVE  QueueInv' /\ AnswersStand
<1> DEFINE y == refresh[r]
<1>0. PICK x : ReadsAs(r, x)
  BY ReadIs DEF QueueInv
<1>1. /\ IsTransaction(x) /\ refresh' = [refresh EXCEPT ![r] = x] /\ UNCHANGED <<queueInputs, item, current>>
      /\ refresh[r].at \in {"edits", "failures", "reflection"} /\ x.at \in {"failures", "reflection", "write"} /\ x.next = 1
      /\ x.held = refresh[r].held /\ x.writes = refresh[r].writes /\ x.clean = refresh[r].clean
      /\ refresh[r].seen = SeenSoFar(refresh[r].at) => x.seen = SeenSoFar(x.at)
  BY <1>0 DEF ReadsAs
<1>2. /\ refresh'[r] = x /\ \A o \in Refreshes \ {r} : refresh'[o] = refresh[o]
      /\ refresh' = [o \in Refreshes |-> refresh'[o]] /\ \A o \in Refreshes : IsTransaction(refresh'[o])
  BY <1>1, RefreshMoves DEF QueueInv
<1>3. QueueTypeOK'
  BY <1>1, <1>2 DEF QueueInv, QueueTypeOK, queueInputs
<1>4. WrittenRowsHeld'
  BY <1>1, <1>2, HeldStep DEF QueueInv, WrittenRowsHeld
<1>5. x.clean => ~expired /\ x.seen = SeenSoFar(x.at)
  BY <1>1 DEF QueueInv, CleanIsAlone, Refreshing
<1>6. CleanIsAlone'
  BY <1>1, <1>2, <1>5, CleanStep DEF Refreshing
<1>7. QueueIsCurrent' /\ AnswersStand
  BY <1>1, FollowsStay DEF QueueInv, QueueIsCurrent, AnswersStand
<1> QED BY <1>3, <1>4, <1>6, <1>7 DEF QueueInv

LEMMA WriteStep ==
  ASSUME QueueInv, NEW r \in Refreshes, WriteCategory(r)
  PROVE  QueueInv' /\ AnswersStand
<1> DEFINE y == refresh[r]
           c == Signals[y.next]
           was == OwnRow(r, c)
           new == WrittenRow(c, was, y.seen)
<1>a. c \in Categories /\ \E x : WritesAs(r, c, x)
  BY WriteIs DEF QueueInv
<1>b. PICK x : WritesAs(r, c, x)
  BY <1>a
<1>2. /\ y.at = "write" /\ y.next \in 1..4
      /\ IsTransaction(x) /\ refresh' = [refresh EXCEPT ![r] = x] /\ UNCHANGED <<queueInputs, item, current>>
      /\ x.at = (IF y.next = 4 THEN "end" ELSE "write") /\ x.next = (IF y.next = 4 THEN 4 ELSE y.next + 1)
      /\ x.seen = y.seen /\ x.clean = y.clean
      /\ x.held = y.held \/ (x.held = y.held \cup {c} /\ c \notin Locked(r))
      /\ \/ new = was /\ x.writes = y.writes
         \/ new # was /\ c \in x.held /\ x.writes = WithRow(y.writes, c, new)
  BY <1>b DEF WritesAs
<1>1. c \in Categories /\ y.at = "write" /\ y.next \in 1..4 /\ IsItem(was)
  BY <1>a, <1>2, OwnRowIsItem DEF QueueInv
<1>3. /\ refresh'[r] = x /\ \A o \in Refreshes \ {r} : refresh'[o] = refresh[o]
      /\ refresh' = [o \in Refreshes |-> refresh'[o]] /\ \A o \in Refreshes : IsTransaction(refresh'[o])
  BY <1>2, RefreshMoves DEF QueueInv
<1>4. QueueTypeOK'
  BY <1>2, <1>3 DEF QueueInv, QueueTypeOK, queueInputs
<1>5. new # was => was.status \in {"none", "open"} /\ new.status \in {"open", "resolved"}
  BY <1>1, WritesOpenRows
<1>6. /\ y.held \cap Locked(r) = {} /\ DOMAIN y.writes \subseteq y.held
      /\ \A d \in DOMAIN y.writes : item[d].status \in {"none", "open"} /\ y.writes[d].status \in {"open", "resolved"}
  BY DEF QueueInv, WrittenRowsHeld
<1>7. PICK row : row = new
  OBVIOUS
<1>8. PICK k \in Categories : k = c
  BY <1>1
<1>9. OwnRow(r, k)' = row /\ \A d \in Categories \ {k} : OwnRow(r, d)' = OwnRow(r, d)
  <2>1. CASE new = was
    BY <1>2, <1>3, <1>7, <1>8, <2>1 DEF OwnRow
  <2>2. CASE new # was
    <3>1. x.writes = WithRow(y.writes, k, row)
      BY <1>2, <1>7, <1>8, <2>2
    <3> HIDE DEF c, was, new
    <3> QED BY <1>2, <1>3, <3>1 DEF OwnRow, WithRow
  <2> QED BY <2>1, <2>2
<1>10. /\ x.held \cap Locked(r) = {} /\ DOMAIN x.writes \subseteq x.held
       /\ \A d \in DOMAIN x.writes : item[d].status \in {"none", "open"} /\ x.writes[d].status \in {"open", "resolved"}
  <2>1. x.held \cap Locked(r) = {} /\ y.held \subseteq x.held
    BY <1>2, <1>6
  <2>2. CASE new = was
    BY <1>2, <1>6, <2>1, <2>2
  <2>3. CASE new # was
    <3>1. x.writes = WithRow(y.writes, k, row) /\ k \in x.held /\ row.status \in {"open", "resolved"}
      BY <1>2, <1>5, <1>7, <1>8, <2>3
    <3>2. item[k].status \in {"none", "open"}
      BY <1>5, <1>6, <1>8, <2>3 DEF OwnRow
    <3> HIDE DEF c, was, new
    <3> QED BY <1>6, <2>1, <3>1, <3>2 DEF WithRow
  <2> QED BY <2>1, <2>2, <2>3
<1>11. WrittenRowsHeld'
  BY <1>2, <1>3, <1>10, HeldStep
<1>12. ASSUME x.clean
       PROVE  /\ ~expired /\ y.seen = SeenNow
              /\ \A n \in 1..y.next : FollowsEvidence(Signals[n], OwnRow(r, Signals[n])')
  <2>1. ~expired /\ y.seen = SeenNow /\ \A n \in 1..(y.next - 1) : FollowsEvidence(Signals[n], OwnRow(r, Signals[n]))
    BY <1>1, <1>2, <1>12, ReadsWhatIs DEF QueueInv, CleanIsAlone, Refreshing
  <2>2. FollowsEvidence(c, new)
    BY <1>1, <2>1, WrittenFollows
  <2>3. \A n \in 1..(y.next - 1) : Signals[n] \in Categories \ {k}
    BY <1>1, <1>8 DEF Signals, Categories
  <2>4. \A n \in 1..(y.next - 1) : FollowsEvidence(Signals[n], OwnRow(r, Signals[n])')
    BY <1>9, <2>1, <2>3
  <2>5. FollowsEvidence(k, row)
    BY <1>7, <1>8, <2>2, Zenon
  <2>6. FollowsEvidence(k, OwnRow(r, k)')
    BY <1>9, <2>5
  <2>7. PICK m \in 1..4 : m = y.next /\ k = Signals[m]
    BY <1>1, <1>8
  <2>8. \A n \in 1..m : n = m \/ n \in 1..(m - 1)
    OBVIOUS
  <2>9. ASSUME NEW n \in 1..m PROVE FollowsEvidence(Signals[n], OwnRow(r, Signals[n])')
    <3>1. CASE n = m
      BY <2>6, <2>7, <3>1
    <3>2. CASE n \in 1..(m - 1)
      BY <2>4, <2>7, <3>2
    <3> QED BY <2>8, <3>1, <3>2
  <2> QED BY <2>1, <2>7, <2>9
<1>13. \A d \in Categories : \E n \in 1..4 : d = Signals[n]
  BY DEF Categories
<1>14. /\ x.clean /\ x.at = "write" => \A n \in 1..(x.next - 1) : FollowsEvidence(Signals[n], OwnRow(r, Signals[n])')
       /\ x.clean /\ x.at = "end" => \A d \in Categories : FollowsEvidence(d, OwnRow(r, d)')
  BY <1>1, <1>2, <1>12, <1>13
<1>15. x.clean /\ x.at = "write" => ~expired /\ x.seen = SeenSoFar(x.at)
  BY <1>2, <1>12, ReadsWhatIs
<1>16. CleanIsAlone'
  BY <1>1, <1>2, <1>3, <1>14, <1>15, CleanStep DEF Refreshing
<1>17. QueueIsCurrent' /\ AnswersStand
  BY <1>2, FollowsStay DEF QueueInv, QueueIsCurrent, AnswersStand
<1> QED BY <1>4, <1>11, <1>16, <1>17 DEF QueueInv

(* What is left of a refresh that has ended. *)
LEMMA EndIs ==
  LET x == [NotBegun EXCEPT !.at = "done"]
  IN  IsTransaction(x) /\ x.at = "done" /\ x.held = {} /\ DOMAIN x.writes = {} /\ ~x.clean
<1>1. IsTransaction(NotBegun) /\ NotBegun.held = {} /\ NotBegun.writes = <<>> /\ ~NotBegun.clean
  BY NotBegunIsTransaction DEF NotBegun
<1>2. DOMAIN <<>> = {}
  OBVIOUS
<1>3. PICK z : z = NotBegun /\ IsTransaction(z) /\ z.held = {} /\ DOMAIN z.writes = {} /\ ~z.clean
  BY <1>1, <1>2
<1>4. PICK x : x = [z EXCEPT !.at = "done"]
  OBVIOUS
<1>5. /\ x = [at |-> "done", next |-> z.next, seen |-> z.seen, writes |-> z.writes, held |-> z.held, clean |-> z.clean]
      /\ z.next \in 1..4 /\ z.held \subseteq Categories /\ z.clean \in BOOLEAN
      /\ z.writes = [c \in DOMAIN z.writes |-> z.writes[c]] /\ \A c \in DOMAIN z.writes : IsItem(z.writes[c])
  BY <1>3, <1>4 DEF IsTransaction
<1>6. IsTransaction(x)
  BY <1>5 DEF IsTransaction
<1> QED BY <1>3, <1>4, <1>5, <1>6

LEMMA CommitStep ==
  ASSUME QueueInv, NEW r \in Refreshes, CommitRefresh(r)
  PROVE  QueueInv' /\ AnswersStand
<1>1. PICK x : x = [NotBegun EXCEPT !.at = "done"]
  OBVIOUS
<1>2. IsTransaction(x) /\ x.at = "done" /\ x.held = {} /\ DOMAIN x.writes = {} /\ ~x.clean
  BY <1>1, EndIs
<1>3. /\ refresh[r].at = "end" /\ refresh' = [refresh EXCEPT ![r] = x] /\ UNCHANGED queueInputs
      /\ item' = [c \in Categories |-> OwnRow(r, c)] /\ current' = refresh[r].clean
  BY <1>1 DEF CommitRefresh
<1>4. /\ refresh'[r] = x /\ \A o \in Refreshes \ {r} : refresh'[o] = refresh[o]
      /\ refresh' = [o \in Refreshes |-> refresh'[o]] /\ \A o \in Refreshes : IsTransaction(refresh'[o])
  BY <1>2, <1>3, RefreshMoves DEF QueueInv
<1>5. \A c \in Categories : IsItem(item'[c])
  BY <1>3, OwnRowIsItem DEF QueueInv
<1>6. current' \in BOOLEAN
  BY <1>3 DEF QueueInv, QueueTypeOK, IsTransaction
<1>7. QueueTypeOK'
  BY <1>3, <1>4, <1>5, <1>6 DEF QueueInv, QueueTypeOK, queueInputs
<1>8. CleanIsAlone'
  BY <1>2, <1>3, <1>4 DEF QueueInv, CleanIsAlone, Refreshing
<1>9. ASSUME NEW c \in Categories, c \notin DOMAIN refresh[r].writes PROVE item'[c] = item[c]
  BY <1>3, <1>9 DEF OwnRow
<1>10. ASSUME NEW o \in Refreshes
       PROVE  /\ refresh'[o].held \cap Locked(o)' = {} /\ DOMAIN refresh'[o].writes \subseteq refresh'[o].held
              /\ \A c \in DOMAIN refresh'[o].writes :
                   item'[c].status \in {"none", "open"} /\ refresh'[o].writes[c].status \in {"open", "resolved"}
  <2>1. CASE o = r
    BY <1>2, <1>4, <2>1
  <2>2. CASE o # r
    <3>1. \A q \in Refreshes : refresh'[q].held \subseteq refresh[q].held
      BY <1>2, <1>4
    <3>2. refresh'[o] = refresh[o] /\ refresh[o].held \cap Locked(o)' = {}
      BY <1>4, <2>2, <3>1 DEF QueueInv, WrittenRowsHeld, Locked
    <3>3. refresh[o].held \cap refresh[r].held = {} /\ DOMAIN refresh[r].writes \subseteq refresh[r].held
      BY <2>2 DEF QueueInv, WrittenRowsHeld, Locked
    <3>4. \A c \in DOMAIN refresh[o].writes : c \in Categories /\ item'[c] = item[c]
      BY <1>9, <3>3 DEF QueueInv, WrittenRowsHeld, QueueTypeOK, IsTransaction
    <3> QED BY <3>2, <3>4 DEF QueueInv, WrittenRowsHeld
  <2> QED BY <2>1, <2>2
<1>11. WrittenRowsHeld'
  BY <1>10 DEF WrittenRowsHeld
<1>12. QueueIsCurrent'
  <2> SUFFICES ASSUME current', NEW c \in Categories PROVE FollowsEvidence(c, item[c])'
    BY DEF QueueIsCurrent
  <2>1. PICK y : y = OwnRow(r, c) /\ FollowsEvidence(c, y)
    BY <1>3 DEF QueueInv, CleanIsAlone, Refreshing
  <2>2. FollowsEvidence(c, y)'
    BY <1>3, <2>1, FollowsStay
  <2>3. item'[c] = y
    BY <1>3, <2>1
  <2> QED BY <2>2, <2>3 DEF FollowsEvidence
<1>13. AnswersStand
  <2> SUFFICES ASSUME NEW c \in Categories, item[c].status \in {"dismissed", "resolved"} PROVE item'[c] = item[c]
    BY DEF AnswersStand
  <2>1. c \notin DOMAIN refresh[r].writes
    BY DEF QueueInv, WrittenRowsHeld
  <2> QED BY <1>9, <2>1
<1> QED BY <1>7, <1>8, <1>11, <1>12, <1>13 DEF QueueInv

LEMMA RollbackStep ==
  ASSUME QueueInv, NEW r \in Refreshes, RollbackRefresh(r)
  PROVE  QueueInv' /\ AnswersStand
<1>1. PICK x : x = [NotBegun EXCEPT !.at = "done"]
  OBVIOUS
<1>2. IsTransaction(x) /\ x.at = "done" /\ x.held = {} /\ DOMAIN x.writes = {} /\ ~x.clean
  BY <1>1, EndIs
<1>3. Refreshing(r) /\ refresh' = [refresh EXCEPT ![r] = x] /\ UNCHANGED <<queueInputs, item, current>>
  BY <1>1 DEF RollbackRefresh
<1>4. /\ refresh'[r] = x /\ \A o \in Refreshes \ {r} : refresh'[o] = refresh[o]
      /\ refresh' = [o \in Refreshes |-> refresh'[o]] /\ \A o \in Refreshes : IsTransaction(refresh'[o])
  BY <1>2, <1>3, RefreshMoves DEF QueueInv
<1>5. QueueTypeOK'
  BY <1>3, <1>4 DEF QueueInv, QueueTypeOK, queueInputs
<1>6. WrittenRowsHeld'
  BY <1>2, <1>3, <1>4, HeldStep
<1>7. CleanIsAlone'
  BY <1>2, <1>3, <1>4 DEF QueueInv, CleanIsAlone, Refreshing
<1>8. QueueIsCurrent' /\ AnswersStand
  BY <1>3, FollowsStay DEF QueueInv, QueueIsCurrent, AnswersStand
<1> QED BY <1>5, <1>6, <1>7, <1>8 DEF QueueInv

(* What a teacher answers is no refresh's: its row is locked. *)
LEMMA AnswerStep ==
  ASSUME QueueInv, NEW c \in Categories, AnswerItem(c)
  PROVE  QueueInv' /\ AnswersStand
<1>1. PICK choice \in {"dismissed", "resolved"} : item' = [item EXCEPT ![c].status = choice]
  BY DEF AnswerItem
<1>2. PICK y : y = item[c] /\ IsItem(y)
  BY DEF QueueInv, QueueTypeOK
<1>3. PICK z : z = [y EXCEPT !.status = choice]
  OBVIOUS
<1>4. IsItem(z) /\ z.status \in {"dismissed", "resolved"}
  BY <1>2, <1>3 DEF IsItem, Statuses
<1>5. /\ item'[c] = z /\ \A d \in Categories \ {c} : item'[d] = item[d]
      /\ item' = [d \in Categories |-> item'[d]] /\ \A d \in Categories : IsItem(item'[d])
  BY <1>1, <1>2, <1>3, <1>4 DEF QueueInv, QueueTypeOK
<1>6. /\ UNCHANGED <<queueInputs, refresh, current>> /\ y.status # "none"
      /\ \A r \in Refreshes : c \notin refresh[r].held /\ c \notin DOMAIN refresh[r].writes
  BY <1>2 DEF AnswerItem, QueueInv, WrittenRowsHeld
<1>7. QueueTypeOK'
  BY <1>5, <1>6 DEF QueueInv, QueueTypeOK, queueInputs
<1>8. WrittenRowsHeld'
  <2>1. \A r \in Refreshes : \A d \in DOMAIN refresh[r].writes : item'[d] = item[d]
    <3>1. \A r \in Refreshes : DOMAIN refresh[r].writes \subseteq Categories
      BY DEF QueueInv, WrittenRowsHeld, QueueTypeOK, IsTransaction
    <3> QED BY <1>5, <1>6, <3>1
  <2>2. refresh' = refresh
    BY <1>6
  <2> QED BY <2>1, <2>2 DEF QueueInv, WrittenRowsHeld, Locked
<1>9. ASSUME NEW r \in Refreshes, NEW d \in Categories, FollowsEvidence(d, OwnRow(r, d))
      PROVE  FollowsEvidence(d, OwnRow(r, d))'
  <2>1. PICK v : v = OwnRow(r, d)'
    OBVIOUS
  <2>2. FollowsEvidence(d, v)
    <3>1. CASE d = c
      <4>1. OwnRow(r, d) = y /\ v = z
        BY <1>2, <1>5, <1>6, <2>1, <3>1 DEF OwnRow
      <4>2. FollowsEvidence(d, y)
        BY <1>9, <4>1
      <4> QED BY <1>4, <1>6, <4>1, <4>2, AnsweredFollows
    <3>2. CASE d # c
      <4>1. OwnRow(r, d) = v
        BY <1>5, <1>6, <2>1, <3>2 DEF OwnRow
      <4> QED BY <1>9, <4>1
    <3> QED BY <3>1, <3>2
  <2>3. FollowsEvidence(d, v)'
    BY <1>6, <2>2, FollowsStay
  <2> QED BY <2>1, <2>3 DEF FollowsEvidence
<1>10. \A n \in 1..4 : Signals[n] \in Categories
  BY DEF Categories
<1>11. CleanIsAlone'
  <2> SUFFICES ASSUME NEW r \in Refreshes, refresh'[r].clean, Refreshing(r)'
               PROVE  /\ \A o \in Refreshes \ {r} : ~Refreshing(o)'
                      /\ refresh'[r].at # "end" => ~expired' /\ refresh'[r].seen = SeenSoFar(refresh[r].at)'
                      /\ refresh'[r].at = "write" =>
                           \A n \in 1..(refresh'[r].next - 1) : FollowsEvidence(Signals[n], OwnRow(r, Signals[n]))'
                      /\ refresh'[r].at = "end" => \A d \in Categories : FollowsEvidence(d, OwnRow(r, d))'
    BY DEF CleanIsAlone
  <2>1. refresh' = refresh /\ refresh[r].clean /\ Refreshing(r) /\ refresh[r].next \in 1..4
    BY <1>6 DEF Refreshing, QueueInv, QueueTypeOK, IsTransaction
  <2>2. (\A o \in Refreshes \ {r} : ~Refreshing(o)') /\ (refresh[r].at # "end" => ~expired')
    BY <1>6, <2>1 DEF QueueInv, CleanIsAlone, Refreshing, queueInputs
  <2>3. refresh[r].at # "end" => refresh'[r].seen = SeenSoFar(refresh[r].at)'
    <3>1. PICK at : at = refresh[r].at
      OBVIOUS
    <3>2. at # "end" => refresh[r].seen = SeenSoFar(at)
      BY <2>1, <3>1 DEF QueueInv, CleanIsAlone
    <3>3. SeenSoFar(at)' = SeenSoFar(at) /\ refresh'[r].at = at
      BY <1>6, <2>1, <3>1, SeenStays
    <3> QED BY <2>1, <3>1, <3>2, <3>3
  <2>4. refresh[r].at = "write" => \A n \in 1..(refresh[r].next - 1) : FollowsEvidence(Signals[n], OwnRow(r, Signals[n]))'
    BY <1>9, <1>10, <2>1 DEF QueueInv, CleanIsAlone
  <2>5. refresh[r].at = "end" => \A d \in Categories : FollowsEvidence(d, OwnRow(r, d))'
    BY <1>9, <2>1 DEF QueueInv, CleanIsAlone
  <2> QED BY <2>1, <2>2, <2>3, <2>4, <2>5
<1>12. QueueIsCurrent'
  <2> SUFFICES ASSUME current', NEW d \in Categories PROVE FollowsEvidence(d, item[d])'
    BY DEF QueueIsCurrent
  <2>1. PICK v : v = item'[d]
    OBVIOUS
  <2>2. FollowsEvidence(d, item[d])
    BY <1>6 DEF QueueInv, QueueIsCurrent
  <2>3. FollowsEvidence(d, v)
    <3>1. CASE d = c
      BY <1>2, <1>4, <1>5, <1>6, <2>1, <2>2, <3>1, AnsweredFollows
    <3>2. CASE d # c
      BY <1>5, <2>1, <2>2, <3>2
    <3> QED BY <3>1, <3>2
  <2>4. FollowsEvidence(d, v)'
    BY <1>6, <2>3, FollowsStay
  <2> QED BY <2>1, <2>4 DEF FollowsEvidence
<1>13. AnswersStand
  BY <1>4, <1>5, <1>6 DEF AnswersStand
<1> QED BY <1>7, <1>8, <1>11, <1>12, <1>13 DEF QueueInv

LEMMA QueueStep == ASSUME QueueInv, [QueueNext]_queueVars PROVE QueueInv' /\ [AnswersStand]_queueVars
<1>1. CASE UploadSession \/ UploadReflection \/ UploadEvidence \/ DayPasses \/ MonthPasses
  <2>1. QueueUntouched
    BY <1>1 DEF UploadSession, UploadReflection, UploadEvidence, DayPasses, MonthPasses
  <2>2. /\ evidence' \in Projections \cup {{}}
        /\ reflected' \in BOOLEAN /\ rested' \in BOOLEAN /\ expired' \in BOOLEAN
    BY <1>1 DEF UploadSession, UploadReflection, UploadEvidence, DayPasses, MonthPasses, QueueInv, QueueTypeOK
  <2>3. QueueTypeOK'
    <3>1. refresh' = [r \in Refreshes |-> refresh'[r]] /\ \A r \in Refreshes : IsTransaction(refresh'[r])
      BY <2>1, DisturbedTyped DEF QueueInv, QueueUntouched
    <3> QED BY <2>1, <2>2, <3>1 DEF QueueInv, QueueTypeOK, QueueUntouched
  <2> QED BY <2>1, <2>3, QueueMeetsChange DEF QueueInv
<1>2. ASSUME NEW c \in Categories, AnswerItem(c) PROVE QueueInv' /\ AnswersStand
  BY <1>2, AnswerStep
<1>3. ASSUME NEW r \in Refreshes,
             \/ BeginRefresh(r) \/ ReadEdits(r) \/ ReadFailures(r) \/ ReadReflection(r)
             \/ WriteCategory(r) \/ CommitRefresh(r) \/ RollbackRefresh(r)
      PROVE  QueueInv' /\ AnswersStand
  BY <1>3, BeginStep, ReadStep, WriteStep, CommitStep, RollbackStep
<1>4. CASE UNCHANGED queueVars
  <2>1. UNCHANGED queueInputs /\ item' = item /\ refresh' = refresh /\ current' = current
    BY <1>4 DEF queueVars
  <2>2. QueueTypeOK' /\ WrittenRowsHeld'
    <3>1. QueueTypeOK'
      BY <2>1 DEF QueueInv, QueueTypeOK, queueInputs
    <3>2. WrittenRowsHeld'
      BY <2>1 DEF QueueInv, WrittenRowsHeld, Locked
    <3> QED BY <3>1, <3>2
  <2>3. CleanIsAlone' /\ QueueIsCurrent'
    BY <2>1 DEF QueueInv, CleanIsAlone, QueueIsCurrent, Refreshing, OwnRow, FollowsEvidence, SeenSoFar, SeenNow,
                CountedNow, Begun, queueInputs
  <2> QED BY <1>4, <2>2, <2>3 DEF QueueInv
<1> QED BY <1>1, <1>2, <1>3, <1>4 DEF QueueNext

(* However uploads, refreshes and answers overlap, a queue that the last     *)
(* refresh to commit found to itself shows what the evidence calls for, and  *)
(* what a teacher has closed no refresh opens or, dismissed, resolves        *)
(* (teacher_intervention_queue.sql, refresh_teacher_interventions).          *)
THEOREM QueueFollowsEvidence == QueueSpec => QueueKept
<1>1. QueueInv /\ [QueueNext]_queueVars => QueueInv' /\ [AnswersStand]_queueVars
  BY QueueStep
<1>2. QueueInv => QueueIsCurrent
  BY DEF QueueInv
<1> QED BY <1>1, <1>2, QueueStart, PTL DEF QueueSpec, QueueKept

-----------------------------------------------------------------------------
(* WorkspaceEvents: what each step does to the events one surface shows     *)

(* Leaving out the oldest leaves the newest as they were.                   *)
LEMMA NewestKeepsOwn ==
  ASSUME NEW p \in Surfaces, NEW events \in Seq(Event), NEW since \in Nat, NEW last \in Nat,
         OwnOnce(p, events, since, last)
  PROVE  Newest(events) \in Seq(Event) /\ OwnOnce(p, Newest(events), since, last)
<1>1. CASE Len(events) <= EventLimit
  <2>1. Newest(events) = events
    BY <1>1, EventAssumption DEF Newest
  <2> QED BY <2>1
<1>2. CASE Len(events) > EventLimit
  <2> DEFINE k == Len(events) - EventLimit
             left == SubSeq(events, k + 1, Len(events))
  <2>1. k \in Nat /\ k + EventLimit = Len(events) /\ Len(events) \in Nat /\ EventLimit \in Nat
    BY <1>2, EventAssumption
  <2>2. Newest(events) = left
    BY <1>2 DEF Newest
  <2>3. /\ left \in Seq(Event) /\ DOMAIN left = 1..EventLimit
        /\ \A i \in 1..EventLimit : left[i] = events[i + k] /\ i + k \in 1..Len(events)
    <3>1. k + 1 \in 1..Len(events) + 1 /\ Len(events) \in k..Len(events) /\ Len(events) - k = EventLimit
      BY <2>1
    <3> HIDE DEF k
    <3>2. left \in Seq(Event) /\ Len(left) = EventLimit /\ DOMAIN left = 1..EventLimit
      BY <2>1, <3>1, SubSeqProperties
    <3>3. \A i \in 1..EventLimit : left[i] = events[i + k] /\ i + k \in 1..Len(events)
      <4> TAKE i \in 1..EventLimit
      <4>1. left[i] = events[(k + 1) + i - 1] /\ (k + 1) + i - 1 = i + k
        BY <2>1, <3>1, <3>2, SubSeqProperties
      <4> QED BY <2>1, <4>1
    <3> QED BY <3>2, <3>3
  <2> HIDE DEF k, left
  <2>4. ASSUME NEW j \in 1..Len(events), j > k PROVE j - k \in 1..EventLimit /\ left[j - k] = events[j]
    BY <2>1, <2>3, <2>4
  <2>5. ASSUME NEW i \in DOMAIN left, left[i].origin = p
        PROVE  /\ since < left[i].seq /\ left[i].seq <= last
               /\ \A j \in DOMAIN left : left[j].origin = p /\ i < j => left[i].seq < left[j].seq
               /\ left[i].seq < last => \E j \in DOMAIN left : left[j].origin = p /\ i < j /\ left[j].seq = left[i].seq + 1
    <3>1. i \in 1..EventLimit /\ left[i] = events[i + k] /\ i + k \in DOMAIN events /\ events[i + k].origin = p
      BY <2>3, <2>5
    <3>2. since < left[i].seq /\ left[i].seq <= last
      BY <3>1 DEF OwnOnce
    <3>3. ASSUME NEW j \in DOMAIN left, left[j].origin = p, i < j PROVE left[i].seq < left[j].seq
      <4>1. j + k \in DOMAIN events /\ events[j + k] = left[j] /\ i + k < j + k
        BY <2>1, <2>3, <3>1, <3>3
      <4> QED BY <3>1, <3>3, <4>1 DEF OwnOnce
    <3>4. ASSUME left[i].seq < last PROVE \E j \in DOMAIN left : left[j].origin = p /\ i < j /\ left[j].seq = left[i].seq + 1
      <4>1. PICK j \in DOMAIN events : events[j].origin = p /\ i + k < j /\ events[j].seq = left[i].seq + 1
        BY <3>1, <3>4 DEF OwnOnce
      <4>2. j - k \in DOMAIN left /\ left[j - k] = events[j] /\ i < j - k
        BY <2>1, <2>3, <2>4, <3>1, <4>1
      <4> QED BY <4>1, <4>2
    <3> QED BY <3>2, <3>3, <3>4
  <2>6. OwnOnce(p, left, since, last)
    BY <2>5 DEF OwnOnce
  <2> QED BY <2>2, <2>3, <2>6
<1> QED BY <1>1, <1>2, EventAssumption

(* An event of its own is the next, *)
LEMMA OwnAppended ==
  ASSUME NEW p \in Surfaces, NEW events \in Seq(Event), NEW since \in Nat, NEW last \in Nat, since <= last,
         OwnOnce(p, events, since, last)
  PROVE  OwnOnce(p, Append(events, [origin |-> p, seq |-> last + 1]), since, last + 1)
<1> DEFINE all == Append(events, [origin |-> p, seq |-> last + 1])
           n == Len(events)
<1>1. /\ n \in Nat /\ DOMAIN all = 1..n + 1 /\ DOMAIN events = 1..n
      /\ \A i \in 1..n : all[i] = events[i] /\ events[i].seq \in Nat
      /\ all[n + 1].origin = p /\ all[n + 1].seq = last + 1
  <2>1. n \in Nat /\ DOMAIN events = 1..n /\ \A i \in 1..n : events[i] \in Event
    OBVIOUS
  <2>2. \A e \in Event : e.seq \in Nat
    BY DEF Event
  <2>3. [origin |-> p, seq |-> last + 1] \in Event
    BY DEF Event
  <2> DEFINE new == [origin |-> p, seq |-> last + 1]
  <2>4. new.origin = p /\ new.seq = last + 1
    OBVIOUS
  <2> HIDE DEF new
  <2>5. all = Append(events, new) /\ new \in Event
    BY <2>3 DEF new
  <2> HIDE DEF all
  <2>6. DOMAIN all = 1..n + 1 /\ all[n + 1] = new /\ \A i \in 1..n : all[i] = events[i]
    BY <2>1, <2>5
  <2> QED BY <2>1, <2>2, <2>4, <2>6
<1> HIDE DEF all, n
<1>2. ASSUME NEW i \in DOMAIN all, all[i].origin = p
      PROVE  /\ since < all[i].seq /\ all[i].seq <= last + 1
             /\ \A j \in DOMAIN all : all[j].origin = p /\ i < j => all[i].seq < all[j].seq
             /\ all[i].seq < last + 1 => \E j \in DOMAIN all : all[j].origin = p /\ i < j /\ all[j].seq = all[i].seq + 1
  <2>1. CASE i = n + 1
    BY <1>1, <2>1
  <2>2. CASE i \in 1..n
    <3>1. /\ all[i] = events[i] /\ events[i].seq \in Nat /\ since < events[i].seq /\ events[i].seq <= last
      BY <1>1, <1>2, <2>2 DEF OwnOnce
    <3>2. ASSUME NEW j \in DOMAIN all, all[j].origin = p, i < j PROVE all[i].seq < all[j].seq
      <4>1. CASE j = n + 1
        BY <1>1, <3>1, <4>1
      <4>2. CASE j \in 1..n
        BY <1>1, <1>2, <2>2, <3>1, <3>2, <4>2 DEF OwnOnce
      <4> QED BY <1>1, <4>1, <4>2
    <3>3. ASSUME all[i].seq < last + 1
          PROVE  \E j \in DOMAIN all : all[j].origin = p /\ i < j /\ all[j].seq = all[i].seq + 1
      <4>1. CASE events[i].seq = last
        BY <1>1, <2>2, <3>1, <4>1
      <4>2. CASE events[i].seq < last
        <5>1. PICK j \in 1..n : events[j].origin = p /\ i < j /\ events[j].seq = events[i].seq + 1
          BY <1>1, <1>2, <2>2, <3>1, <4>2 DEF OwnOnce
        <5>2. j \in DOMAIN all /\ all[j] = events[j]
          BY <1>1
        <5> QED BY <3>1, <5>1, <5>2
      <4> QED BY <3>1, <4>1, <4>2
    <3> QED BY <3>1, <3>2, <3>3
  <2> QED BY <1>1, <2>1, <2>2
<1> QED BY <1>2 DEF OwnOnce, all

(* and events of others change nothing about its own.                       *)
LEMMA OthersAppended ==
  ASSUME NEW p \in Surfaces, NEW events \in Seq(Event), NEW since \in Nat, NEW last \in Nat,
         NEW others \in Seq(Event), \A i \in DOMAIN others : others[i].origin # p,
         OwnOnce(p, events, since, last)
  PROVE  OwnOnce(p, events \o others, since, last)
<1> DEFINE all == events \o others
           n == Len(events)
           m == Len(others)
<1>1. /\ n \in Nat /\ m \in Nat /\ DOMAIN all = 1..n + m /\ DOMAIN events = 1..n /\ DOMAIN others = 1..m
      /\ \A i \in 1..n : all[i] = events[i]
      /\ \A i \in 1..n + m : i > n => all[i] = others[i - n] /\ i - n \in 1..m
  OBVIOUS
<1> HIDE DEF all, n, m
<1>2. \A i \in DOMAIN all : all[i].origin = p => i \in DOMAIN events /\ events[i] = all[i]
  <2> SUFFICES ASSUME NEW i \in DOMAIN all, all[i].origin = p PROVE i \in DOMAIN events /\ events[i] = all[i]
    OBVIOUS
  <2>1. CASE i > n
    BY <1>1, <2>1
  <2>2. CASE ~(i > n)
    BY <1>1, <2>2
  <2> QED BY <2>1, <2>2
<1>3. \A i \in DOMAIN events : i \in DOMAIN all /\ events[i] = all[i]
  BY <1>1
<1> QED BY <1>2, <1>3 DEF OwnOnce, all

(* What a refresh adds was neither emitted here nor seen before.            *)
LEMMA UnseenIsOthers ==
  ASSUME EventsTypeOK, NEW p \in Surfaces
  PROVE  Unseen(p) \in Seq(Event) /\ \A i \in DOMAIN Unseen(p) : Unseen(p)[i].origin # p
<1> DEFINE lines == reader[p].lines
           A == ToSet(lines)
           own == {e \in A : e.origin = p}
           P == own \cup ToSet(stream[p].seen)
<1>1. lines \in Seq(Event)
  BY DEF EventsTypeOK
<1>2. lines \in Seq(A) /\ A \subseteq Event
  BY <1>1 DEF ToSet
<1>3. Unseen(p) = Without(lines, P)
  BY DEF Unseen
<1> HIDE DEF lines, A, P
<1>4. Unseen(p) \in Seq(A \ P)
  BY <1>2, <1>3, WithoutIsLeft
<1>5. \A e \in A \ P : e \in Event /\ e.origin # p
  BY <1>2 DEF P
<1>6. \A i \in DOMAIN Unseen(p) : Unseen(p)[i] \in A \ P
  BY <1>4
<1>7. Unseen(p) \in Seq(Event)
  BY <1>4, <1>5
<1> QED BY <1>5, <1>6, <1>7

LEMMA CutTyped ==
  ASSUME NEW seen \in Seq(Event)
  PROVE  Cut(seen) \in Seq(Event)
<1>1. CASE Len(seen) > SeenLimit
  <2>1. Len(seen) - SeenKept + 1 \in 1..Len(seen) + 1
    BY <1>1, EventAssumption
  <2> QED BY <1>1, <2>1 DEF Cut
<1>2. CASE ~(Len(seen) > SeenLimit)
  BY <1>2 DEF Cut
<1> QED BY <1>1, <1>2

LEMMA EventsStart == EventsInit => EventsInv
<1> SUFFICES ASSUME EventsInit PROVE EventsInv
  OBVIOUS
<1>1. <<>> \in Seq(Event) /\ DOMAIN <<>> = {}
  OBVIOUS
<1>2. EventsTypeOK
  BY <1>1 DEF EventsInit, EventsTypeOK, FreshRecord, IdleWriter, NoRefresh
<1>3. \A p \in Surfaces : stream[p] = FreshRecord(0, 0) /\ emitted[p] = 0
  BY DEF EventsInit
<1>4. \A p \in Surfaces : stream[p].since <= emitted[p] /\ OwnOnce(p, stream[p].events, stream[p].since, emitted[p])
  BY <1>1, <1>3 DEF FreshRecord, OwnOnce
<1> QED BY <1>2, <1>4 DEF EventsInv, OwnEventsOnce

(* A step that leaves what is shown alone. *)
LEMMA ShownAlone ==
  ASSUME EventsInv, EventsTypeOK', UNCHANGED <<stream, emitted>>
  PROVE  EventsInv'
BY DEF EventsInv, OwnEventsOnce

(* A step of one surface that shows something else. *)
LEMMA ShownElse ==
  ASSUME EventsInv, NEW p \in Surfaces, NEW r \in [generation : Nat, since : Nat, events : Seq(Event), seen : Seq(Event)],
         NEW last \in Nat, stream' = [stream EXCEPT ![p] = r], emitted' = [emitted EXCEPT ![p] = last],
         journal' \in Seq(Event),
         writer' \in [Surfaces -> [queue : Seq(Event), append : [at : {"idle", "measure", "compact"}, lines : Seq(Event)]]],
         reader' \in [Surfaces -> [on : BOOLEAN, generation : Nat, lines : Seq(Event)]],
         r.since <= last, OwnOnce(p, r.events, r.since, last)
  PROVE  EventsInv'
<1>1. /\ stream' \in [Surfaces -> [generation : Nat, since : Nat, events : Seq(Event), seen : Seq(Event)]]
      /\ emitted' \in [Surfaces -> Nat]
      /\ stream'[p] = r /\ emitted'[p] = last
      /\ \A q \in Surfaces : q # p => stream'[q] = stream[q] /\ emitted'[q] = emitted[q]
  BY DEF EventsInv, EventsTypeOK
<1>2. EventsTypeOK'
  BY <1>1 DEF EventsTypeOK
<1>3. \A q \in Surfaces : /\ stream'[q].since <= emitted'[q]
                          /\ OwnOnce(q, stream'[q].events, stream'[q].since, emitted'[q])
  <2> SUFFICES ASSUME NEW q \in Surfaces
               PROVE  /\ stream'[q].since <= emitted'[q]
                      /\ OwnOnce(q, stream'[q].events, stream'[q].since, emitted'[q])
    OBVIOUS
  <2>1. CASE q = p
    BY <1>1, <2>1
  <2>2. CASE q # p
    BY <1>1, <2>2 DEF EventsInv, OwnEventsOnce
  <2> QED BY <2>1, <2>2
<1>4. OwnEventsOnce'
  BY <1>3 DEF OwnEventsOnce
<1> QED BY <1>2, <1>3, <1>4 DEF EventsInv

LEMMA EmitKeeps ==
  ASSUME EventsInv, NEW p \in Surfaces, Emit(p)
  PROVE  EventsInv'
<1> DEFINE event == [origin |-> p, seq |-> emitted[p] + 1]
           r == [stream[p] EXCEPT !.events = Newest(Append(@, event)), !.seen = Append(@, event)]
<1>1. /\ stream' = [stream EXCEPT ![p].events = Newest(Append(@, event)), ![p].seen = Append(@, event)]
      /\ emitted' = [emitted EXCEPT ![p] = emitted[p] + 1]
      /\ writer' = [writer EXCEPT ![p].queue = Append(@, event)]
      /\ UNCHANGED <<journal, reader>>
  BY DEF Emit
<1>2. EventsTypeOK /\ stream[p].since <= emitted[p] /\ OwnOnce(p, stream[p].events, stream[p].since, emitted[p])
  BY DEF EventsInv, OwnEventsOnce
<1>3. /\ emitted[p] \in Nat /\ event \in Event
      /\ stream[p] \in [generation : Nat, since : Nat, events : Seq(Event), seen : Seq(Event)]
      /\ writer[p] \in [queue : Seq(Event), append : [at : {"idle", "measure", "compact"}, lines : Seq(Event)]]
  <2>1. /\ emitted[p] \in Nat
        /\ stream[p] \in [generation : Nat, since : Nat, events : Seq(Event), seen : Seq(Event)]
        /\ writer[p] \in [queue : Seq(Event), append : [at : {"idle", "measure", "compact"}, lines : Seq(Event)]]
    BY <1>2 DEF EventsTypeOK
  <2>2. event \in Event
    BY <2>1 DEF Event
  <2> QED BY <2>1, <2>2
<1>a. stream[p].events \in Seq(Event) /\ stream[p].seen \in Seq(Event) /\ writer[p].queue \in Seq(Event) /\ stream[p].since \in Nat
  BY <1>3
<1>4. OwnOnce(p, Append(stream[p].events, event), stream[p].since, emitted[p] + 1)
  BY <1>2, <1>3, <1>a, OwnAppended
<1> HIDE DEF event
<1>b. /\ Append(stream[p].events, event) \in Seq(Event) /\ Append(stream[p].seen, event) \in Seq(Event)
      /\ Append(writer[p].queue, event) \in Seq(Event)
  BY <1>3, <1>a
<1>5. /\ Newest(Append(stream[p].events, event)) \in Seq(Event)
      /\ OwnOnce(p, Newest(Append(stream[p].events, event)), stream[p].since, emitted[p] + 1)
  <2> DEFINE all == Append(stream[p].events, event)
             last == emitted[p] + 1
  <2>1. all \in Seq(Event) /\ last \in Nat /\ stream[p].since \in Nat /\ OwnOnce(p, all, stream[p].since, last)
    BY <1>3, <1>4, <1>a, <1>b
  <2> HIDE DEF all, last
  <2>2. Newest(all) \in Seq(Event) /\ OwnOnce(p, Newest(all), stream[p].since, last)
    BY <2>1, NewestKeepsOwn
  <2> QED BY <2>2 DEF all, last
<1>6. /\ r \in [generation : Nat, since : Nat, events : Seq(Event), seen : Seq(Event)]
      /\ r.events = Newest(Append(stream[p].events, event)) /\ r.since = stream[p].since
  BY <1>3, <1>5, <1>b
<1>7. stream' = [stream EXCEPT ![p] = r]
  BY <1>1, <1>2 DEF EventsTypeOK
<1>8. writer' \in [Surfaces -> [queue : Seq(Event), append : [at : {"idle", "measure", "compact"}, lines : Seq(Event)]]]
  <2> DEFINE w == [writer[p] EXCEPT !.queue = Append(@, event)]
  <2>1. w \in [queue : Seq(Event), append : [at : {"idle", "measure", "compact"}, lines : Seq(Event)]]
    BY <1>3, <1>b
  <2>2. writer' = [writer EXCEPT ![p] = w]
    BY <1>1, <1>2 DEF EventsTypeOK
  <2> HIDE DEF w
  <2> QED BY <1>2, <2>1, <2>2 DEF EventsTypeOK
<1> HIDE DEF r
<1>9. r.since <= emitted[p] + 1 /\ OwnOnce(p, r.events, r.since, emitted[p] + 1) /\ emitted[p] + 1 \in Nat
  BY <1>2, <1>3, <1>5, <1>6
<1>10. journal' \in Seq(Event) /\ reader' \in [Surfaces -> [on : BOOLEAN, generation : Nat, lines : Seq(Event)]]
  BY <1>1, <1>2 DEF EventsTypeOK
<1> QED BY <1>1, <1>6, <1>7, <1>8, <1>9, <1>10, ShownElse

LEMMA RefreshKeeps ==
  ASSUME EventsInv, NEW p \in Surfaces, EndRefresh(p)
  PROVE  EventsInv'
<1>1. /\ reader' = [reader EXCEPT ![p] = NoRefresh] /\ UNCHANGED <<journal, emitted, writer>>
      /\ \/ stream' = stream
         \/ stream' = [stream EXCEPT ![p].events = Newest(@ \o Unseen(p)), ![p].seen = Cut(@ \o Unseen(p))]
  BY DEF EndRefresh
<1>2. EventsTypeOK /\ stream[p].since <= emitted[p] /\ OwnOnce(p, stream[p].events, stream[p].since, emitted[p])
  BY DEF EventsInv, OwnEventsOnce
<1>3. reader' \in [Surfaces -> [on : BOOLEAN, generation : Nat, lines : Seq(Event)]]
  BY <1>1, <1>2 DEF EventsTypeOK, NoRefresh
<1>4. CASE stream' = stream
  <2>1. EventsTypeOK'
    BY <1>1, <1>2, <1>3, <1>4 DEF EventsTypeOK
  <2> QED BY <1>1, <1>4, <2>1, ShownAlone
<1>5. CASE stream' = [stream EXCEPT ![p].events = Newest(@ \o Unseen(p)), ![p].seen = Cut(@ \o Unseen(p))]
  <2> DEFINE new == Unseen(p)
             r == [stream[p] EXCEPT !.events = Newest(@ \o new), !.seen = Cut(@ \o new)]
  <2>1. new \in Seq(Event) /\ \A i \in DOMAIN new : new[i].origin # p
    BY <1>2, UnseenIsOthers
  <2>2. /\ stream[p] \in [generation : Nat, since : Nat, events : Seq(Event), seen : Seq(Event)] /\ emitted[p] \in Nat
    BY <1>2 DEF EventsTypeOK
  <2> HIDE DEF new
  <2>3. OwnOnce(p, stream[p].events \o new, stream[p].since, emitted[p])
    BY <1>2, <2>1, <2>2, OthersAppended
  <2>4. stream[p].events \o new \in Seq(Event) /\ stream[p].seen \o new \in Seq(Event)
    BY <2>1, <2>2
  <2>5. /\ Newest(stream[p].events \o new) \in Seq(Event)
        /\ OwnOnce(p, Newest(stream[p].events \o new), stream[p].since, emitted[p])
    BY <2>2, <2>3, <2>4, NewestKeepsOwn
  <2>6. Cut(stream[p].seen \o new) \in Seq(Event)
    BY <2>4, CutTyped
  <2>7. /\ r \in [generation : Nat, since : Nat, events : Seq(Event), seen : Seq(Event)]
        /\ r.events = Newest(stream[p].events \o new) /\ r.since = stream[p].since
    BY <2>2, <2>5, <2>6
  <2>8. stream' = [stream EXCEPT ![p] = r]
    BY <1>2, <1>5 DEF EventsTypeOK, new
  <2>9. emitted' = [emitted EXCEPT ![p] = emitted[p]]
    BY <1>1, <1>2 DEF EventsTypeOK
  <2>10. /\ journal' \in Seq(Event)
         /\ writer' \in [Surfaces -> [queue : Seq(Event), append : [at : {"idle", "measure", "compact"}, lines : Seq(Event)]]]
    BY <1>1, <1>2 DEF EventsTypeOK
  <2> HIDE DEF r
  <2> QED BY <1>2, <1>3, <2>2, <2>5, <2>7, <2>8, <2>9, <2>10, ShownElse
<1> QED BY <1>1, <1>4, <1>5

LEMMA ForgetKeeps ==
  ASSUME EventsInv, NEW p \in Surfaces, Forget(p)
  PROVE  EventsInv'
<1> DEFINE r == FreshRecord(stream[p].generation + 1, emitted[p])
<1>1. EventsTypeOK
  BY DEF EventsInv
<1>2. /\ stream' = [stream EXCEPT ![p] = r] /\ UNCHANGED <<journal, emitted, writer, reader>>
  BY <1>1 DEF Forget, EventsTypeOK
<1>3. emitted[p] \in Nat /\ stream[p].generation \in Nat /\ emitted' = [emitted EXCEPT ![p] = emitted[p]]
  BY <1>1, <1>2 DEF EventsTypeOK
<1>4. /\ r \in [generation : Nat, since : Nat, events : Seq(Event), seen : Seq(Event)]
      /\ r.since = emitted[p] /\ r.events = <<>>
  BY <1>3 DEF FreshRecord
<1> HIDE DEF r
<1>5. OwnOnce(p, r.events, r.since, emitted[p]) /\ r.since <= emitted[p]
  BY <1>3, <1>4 DEF OwnOnce
<1>6. /\ journal' \in Seq(Event)
      /\ writer' \in [Surfaces -> [queue : Seq(Event), append : [at : {"idle", "measure", "compact"}, lines : Seq(Event)]]]
      /\ reader' \in [Surfaces -> [on : BOOLEAN, generation : Nat, lines : Seq(Event)]]
  BY <1>1, <1>2 DEF EventsTypeOK
<1> QED BY <1>2, <1>3, <1>4, <1>5, <1>6, ShownElse

(* The journal and the appends to it hold events, whatever was cut. *)
LEMMA JournalStep ==
  ASSUME EventsInv, NEW p \in Surfaces, StartRefresh(p) \/ AppendLine(p) \/ Measure(p) \/ Compact(p)
  PROVE  EventsInv'
<1> DEFINE Writers == [queue : Seq(Event), append : [at : {"idle", "measure", "compact"}, lines : Seq(Event)]]
<1>1. /\ EventsTypeOK /\ journal \in Seq(Event) /\ writer \in [Surfaces -> Writers] /\ writer[p] \in Writers
      /\ stream[p] \in [generation : Nat, since : Nat, events : Seq(Event), seen : Seq(Event)]
  BY DEF EventsInv, EventsTypeOK
<1>2. UNCHANGED <<stream, emitted>>
  BY DEF StartRefresh, AppendLine, Measure, Compact
<1>3. <<>> \in Seq(Event)
  OBVIOUS
<1>4. CASE StartRefresh(p)
  BY <1>1, <1>2, <1>4, ShownAlone DEF StartRefresh, EventsTypeOK
<1>5. CASE AppendLine(p)
  <2>1. writer[p].queue \in Seq(Event) /\ writer[p].queue # <<>>
    BY <1>1, <1>5 DEF AppendLine
  <2>2. Head(writer[p].queue) \in Event /\ Tail(writer[p].queue) \in Seq(Event)
    BY <2>1
  <2>3. journal' \in Seq(Event)
    <3> DEFINE e == Head(writer[p].queue)
    <3>1. e \in Event /\ journal' \in {journal, Append(journal, e)}
      BY <1>5, <2>2 DEF AppendLine
    <3> HIDE DEF e
    <3>2. Append(journal, e) \in Seq(Event)
      BY <1>1, <3>1
    <3> QED BY <1>1, <3>1, <3>2
  <2>4. writer' \in [Surfaces -> Writers]
    <3> DEFINE w1 == [queue |-> Tail(writer[p].queue), append |-> [IdleWriter EXCEPT !.at = "measure"]]
               w2 == [writer[p] EXCEPT !.queue = Tail(@)]
    <3>1. w1 \in Writers /\ w2 \in Writers
      BY <1>1, <1>3, <2>2 DEF IdleWriter
    <3>2. writer' = [writer EXCEPT ![p] = w1] \/ writer' = [writer EXCEPT ![p] = w2]
      BY <1>1, <1>5 DEF AppendLine
    <3> HIDE DEF w1, w2, Writers
    <3> QED BY <1>1, <3>1, <3>2
  <2>5. reader' = reader
    BY <1>5 DEF AppendLine
  <2> QED BY <1>1, <1>2, <2>3, <2>4, <2>5, ShownAlone DEF EventsTypeOK
<1>6. CASE Measure(p)
  <2> DEFINE a == IF Len(journal) <= MaxLines THEN IdleWriter ELSE [at |-> "compact", lines |-> journal]
             w == [writer[p] EXCEPT !.append = a]
  <2>1. writer' = [writer EXCEPT ![p] = w] /\ UNCHANGED <<journal, reader>>
    BY <1>1, <1>6 DEF Measure
  <2>2. a \in [at : {"idle", "measure", "compact"}, lines : Seq(Event)]
    BY <1>1, <1>3 DEF IdleWriter
  <2> HIDE DEF a
  <2>3. w \in Writers
    BY <1>1, <2>2
  <2> HIDE DEF w
  <2>4. writer' \in [Surfaces -> Writers]
    <3> HIDE DEF Writers
    <3> QED BY <1>1, <2>1, <2>3
  <2> QED BY <1>1, <1>2, <2>1, <2>4, ShownAlone DEF EventsTypeOK
<1>7. CASE Compact(p)
  <2> DEFINE lines == writer[p].append.lines
             w == [writer[p] EXCEPT !.append = IdleWriter]
  <2>1. writer' = [writer EXCEPT ![p] = w] /\ reader' = reader /\ journal' \in {journal, NewestHalf(lines)}
    BY <1>1, <1>7 DEF Compact
  <2>2. lines \in Seq(Event)
    BY <1>1
  <2> HIDE DEF lines
  <2>3. NewestHalf(lines) \in Seq(Event)
    <3>1. /\ Len(lines) - (Len(lines) \div 2) + 1 \in 1..Len(lines) + 1 /\ Len(lines) \in Nat
      BY <2>2
    <3> QED BY <2>2, <3>1 DEF NewestHalf
  <2>4. w \in Writers
    BY <1>1, <1>3 DEF IdleWriter
  <2> HIDE DEF w
  <2>5. writer' \in [Surfaces -> Writers]
    <3> HIDE DEF Writers
    <3> QED BY <1>1, <2>1, <2>4
  <2> QED BY <1>1, <1>2, <2>1, <2>3, <2>5, ShownAlone DEF EventsTypeOK
<1> QED BY <1>4, <1>5, <1>6, <1>7

LEMMA EventsStep == EventsInv /\ [EventsNext]_eventVars => EventsInv'
<1> SUFFICES ASSUME EventsInv, [EventsNext]_eventVars PROVE EventsInv'
  OBVIOUS
<1>1. CASE EventsNext
  BY <1>1, EmitKeeps, RefreshKeeps, ForgetKeeps, JournalStep DEF EventsNext
<1>2. CASE UNCHANGED eventVars
  BY <1>2, ShownAlone DEF eventVars, EventsInv, EventsTypeOK
<1> QED BY <1>1, <1>2

-----------------------------------------------------------------------------
(* WorkspaceActivity *)

LEMMA ActivityStart == ActivityInit => ActivityInv
<1> SUFFICES ASSUME ActivityInit PROVE ActivityInv
  OBVIOUS
<1>1. /\ scope = NoScope /\ binding = 0 /\ binder = "none" /\ turn = [on |-> FALSE, binding |-> 0] /\ reported = {}
      /\ toolCall = [c \in ToolCalls |-> NoTool] /\ pending = [c \in ToolCalls |-> NotPending]
  BY DEF ActivityInit
<1>2. 0 \in 0..MaxBindings /\ 0 \in 0..0
  BY ActivityAssumption
<1>3. ActivityTypeOK
  BY <1>1, <1>2 DEF ActivityTypeOK, NoTool, NotPending
<1>4. HomeIsKnown /\ ResultsStayHome
  BY <1>1 DEF HomeIsKnown, ResultsStayHome, NoTool, NotPending
<1> QED BY <1>3, <1>4 DEF ActivityInv

(* What is reported of a call or of the Chat itself belongs where it goes.  *)
LEMMA ReportedHome ==
  ASSUME ActivityTypeOK, NEW home \in {NoScope, scope}
  PROVE  /\ Emitted(home) \subseteq [home : Scopes \cup {NoScope}, scope : Scopes]
         /\ \A r \in Emitted(home) : r.home # NoScope => r.home = r.scope
BY DEF ActivityTypeOK, Emitted

(* A move bumps the binding, so that no call under way knows it.            *)
LEMMA BindKeeps ==
  ASSUME ActivityInv, NEW next \in Scopes \cup {NoScope}, NEW why \in {"start", "turn"}, Bind(next, why)
  PROVE  ActivityInv'
<1>1. ActivityTypeOK /\ HomeIsKnown /\ ResultsStayHome /\ MaxBindings \in Nat
  BY ActivityAssumption DEF ActivityInv
<1>2. /\ scope' = next /\ binder' = why /\ UNCHANGED <<turn, toolCall, reported>>
      /\ Moved(next) => binding < MaxBindings
  BY DEF Bind
<1>3. CASE Moved(next)
  <2>1. binding' = binding + 1 /\ pending' = [c \in ToolCalls |-> NotPending] /\ binding' \in 0..MaxBindings /\ binding \in Nat
    BY <1>1, <1>2, <1>3 DEF Bind, ActivityTypeOK
  <2>2. 0..binding \subseteq 0..binding'
    BY <2>1
  <2>3. /\ turn' \in [on : BOOLEAN, binding : 0..binding']
        /\ toolCall' \in [ToolCalls -> [at : {"none", "checking", "running"}, binding : 0..binding', home : Scopes \cup {NoScope}]]
        /\ pending' \in [ToolCalls -> [on : BOOLEAN, binding : 0..binding']]
    BY <1>1, <1>2, <2>1, <2>2 DEF ActivityTypeOK, NotPending
  <2>4. ActivityTypeOK'
    BY <1>1, <1>2, <2>1, <2>3 DEF ActivityTypeOK
  <2>5. HomeIsKnown'
    <3> SUFFICES ASSUME NEW c \in ToolCalls PROVE toolCall'[c].binding # binding' /\ ~pending'[c].on
      BY DEF HomeIsKnown
    <3>1. toolCall[c].binding \in 0..binding /\ toolCall'[c] = toolCall[c] /\ pending'[c] = NotPending
      BY <1>1, <1>2, <2>1 DEF ActivityTypeOK
    <3> QED BY <2>1, <3>1 DEF NotPending
  <2> QED BY <1>1, <1>2, <2>4, <2>5 DEF ActivityInv, ResultsStayHome
<1>4. CASE ~Moved(next)
  <2>1. UNCHANGED <<binding, pending, turn, toolCall, reported>> /\ (scope = NoScope \/ next = scope)
    BY <1>2, <1>4 DEF Bind, Moved
  <2>2. ActivityTypeOK'
    BY <1>1, <1>2, <2>1 DEF ActivityTypeOK
  <2>3. HomeIsKnown'
    BY <1>1, <1>2, <2>1 DEF HomeIsKnown
  <2> QED BY <1>1, <2>1, <2>2, <2>3 DEF ActivityInv, ResultsStayHome
<1> QED BY <1>3, <1>4

(* One tool call changes: it keeps its binding and home, or takes those of  *)
(* now, and what is noted of it is noted under its binding.                 *)
LEMMA CallChanges ==
  ASSUME ActivityInv, NEW c \in ToolCalls,
         NEW t \in [at : {"none", "checking", "running"}, binding : 0..binding, home : Scopes \cup {NoScope}],
         NEW n \in [on : BOOLEAN, binding : 0..binding],
         toolCall' = [toolCall EXCEPT ![c] = t], pending' = [pending EXCEPT ![c] = n],
         UNCHANGED <<scope, binding, binder, turn>>,
         t.binding = binding => t.home \in {NoScope, scope}, n.on => t.at = "running" /\ n.binding = t.binding,
         reported' = reported \/ \E home \in {NoScope, scope} : reported' = Emitted(home)
  PROVE  ActivityInv'
<1>1. ActivityTypeOK /\ HomeIsKnown /\ ResultsStayHome
  BY DEF ActivityInv
<1>2. /\ reported' \subseteq [home : Scopes \cup {NoScope}, scope : Scopes]
      /\ \A r \in reported' : r.home # NoScope => r.home = r.scope
  BY <1>1, ReportedHome DEF ActivityTypeOK, ResultsStayHome
<1>3. /\ toolCall' \in [ToolCalls -> [at : {"none", "checking", "running"}, binding : 0..binding, home : Scopes \cup {NoScope}]]
      /\ pending' \in [ToolCalls -> [on : BOOLEAN, binding : 0..binding]]
      /\ \A d \in ToolCalls : /\ toolCall'[d] = IF d = c THEN t ELSE toolCall[d]
                              /\ pending'[d] = IF d = c THEN n ELSE pending[d]
  <2> DEFINE T == [at : {"none", "checking", "running"}, binding : 0..binding, home : Scopes \cup {NoScope}]
             N == [on : BOOLEAN, binding : 0..binding]
  <2>1. toolCall \in [ToolCalls -> T] /\ pending \in [ToolCalls -> N] /\ t \in T /\ n \in N
    BY <1>1 DEF ActivityTypeOK
  <2>2. /\ toolCall' \in [ToolCalls -> T] /\ pending' \in [ToolCalls -> N]
        /\ \A d \in ToolCalls : /\ toolCall'[d] = IF d = c THEN t ELSE toolCall[d]
                                /\ pending'[d] = IF d = c THEN n ELSE pending[d]
    <3> HIDE DEF T, N
    <3> QED BY <2>1
  <2> QED BY <2>2
<1>4. ActivityTypeOK'
  BY <1>1, <1>2, <1>3 DEF ActivityTypeOK
<1>5. HomeIsKnown'
  <2> SUFFICES ASSUME NEW d \in ToolCalls
               PROVE  /\ toolCall'[d].binding = binding => toolCall'[d].home \in {NoScope, scope}
                      /\ pending'[d].on => toolCall'[d].at = "running" /\ pending'[d].binding = toolCall'[d].binding
    BY DEF HomeIsKnown
  <2>1. CASE d = c
    BY <1>3, <2>1
  <2>2. CASE d # c
    BY <1>1, <1>3, <2>2 DEF HomeIsKnown
  <2> QED BY <2>1, <2>2
<1> QED BY <1>2, <1>4, <1>5 DEF ActivityInv, ResultsStayHome

LEMMA ToolStep ==
  ASSUME ActivityInv, NEW c \in ToolCalls, ToolCall(c) \/ FileChecked(c) \/ ToolResult(c)
  PROVE  ActivityInv'
<1> DEFINE T == [at : {"none", "checking", "running"}, binding : 0..binding, home : Scopes \cup {NoScope}]
           N == [on : BOOLEAN, binding : 0..binding]
<1>1. /\ ActivityTypeOK /\ HomeIsKnown /\ binding \in Nat /\ scope \in Scopes \cup {NoScope}
      /\ toolCall \in [ToolCalls -> T] /\ pending \in [ToolCalls -> N] /\ toolCall[c] \in T /\ pending[c] \in N
  BY ActivityAssumption DEF ActivityInv, ActivityTypeOK
<1>2. UNCHANGED <<scope, binding, binder, turn>>
  BY DEF ToolCall, FileChecked, ToolResult
<1>3. /\ toolCall[c].binding = binding => toolCall[c].home \in {NoScope, scope}
      /\ pending[c].on => toolCall[c].at = "running" /\ pending[c].binding = toolCall[c].binding
  BY <1>1 DEF HomeIsKnown
<1>4. pending = [pending EXCEPT ![c] = pending[c]]
  BY <1>1
<1>5. CASE ToolCall(c)
  <2> DEFINE t1 == [at |-> "checking", binding |-> binding, home |-> scope]
             t2 == [at |-> "running", binding |-> binding, home |-> scope]
             n == [on |-> TRUE, binding |-> binding]
  <2>1. /\ t1 \in T /\ t2 \in T /\ n \in N /\ t1.home = scope /\ t2.home = scope /\ t1.binding = binding
        /\ t2.binding = binding /\ n.binding = binding /\ t2.at = "running"
    BY <1>1
  <2>2. CASE toolCall' = [toolCall EXCEPT ![c] = t1] /\ UNCHANGED <<pending, reported>>
    <3>1. toolCall[c] = NoTool
      BY <1>5 DEF ToolCall
    <3>2. ~pending[c].on
      BY <1>3, <3>1 DEF NoTool
    <3>3. pending' = [pending EXCEPT ![c] = pending[c]] /\ reported' = reported
      BY <1>4, <2>2
    <3> HIDE DEF t1, T, N
    <3> QED BY <1>1, <1>2, <2>1, <2>2, <3>2, <3>3, CallChanges DEF T, N
  <2>3. CASE /\ toolCall' = [toolCall EXCEPT ![c] = t2] /\ pending' = [pending EXCEPT ![c] = n]
             /\ reported' = Emitted(scope)
    <3> HIDE DEF t2, n
    <3> QED BY <1>1, <1>2, <2>1, <2>3, CallChanges
  <2> QED BY <1>5, <2>2, <2>3 DEF ToolCall
<1>6. CASE FileChecked(c)
  <2> DEFINE t == [toolCall[c] EXCEPT !.at = "running"]
             n == [on |-> TRUE, binding |-> toolCall[c].binding]
  <2>1. /\ t \in T /\ n \in N /\ t.home = toolCall[c].home /\ t.binding = toolCall[c].binding
        /\ n.binding = toolCall[c].binding /\ t.at = "running" /\ ~pending[c].on
    BY <1>1, <1>3, <1>6 DEF FileChecked
  <2>2. toolCall' = [toolCall EXCEPT ![c] = t] /\ reported' = reported
    BY <1>1, <1>6 DEF FileChecked
  <2>3. pending' = [pending EXCEPT ![c] = pending[c]] \/ pending' = [pending EXCEPT ![c] = n]
    BY <1>4, <1>6 DEF FileChecked
  <2> HIDE DEF t, n
  <2>4. CASE pending' = [pending EXCEPT ![c] = pending[c]]
    BY <1>1, <1>2, <1>3, <2>1, <2>2, <2>4, CallChanges
  <2>5. CASE pending' = [pending EXCEPT ![c] = n]
    BY <1>1, <1>2, <1>3, <2>1, <2>2, <2>5, CallChanges
  <2> QED BY <2>3, <2>4, <2>5
<1>7. CASE ToolResult(c)
  <2>1. NoTool \in T /\ NotPending \in N /\ NoTool.home = NoScope /\ ~NotPending.on
    BY <1>1 DEF NoTool, NotPending
  <2>2. toolCall' = [toolCall EXCEPT ![c] = NoTool] /\ pending' = [pending EXCEPT ![c] = NotPending]
    BY <1>7 DEF ToolResult
  <2>3. reported' = reported \/ \E home \in {NoScope, scope} : reported' = Emitted(home)
    BY <1>3, <1>7 DEF ToolResult
  <2> QED BY <1>2, <2>1, <2>2, <2>3, CallChanges
<1> QED BY <1>5, <1>6, <1>7

LEMMA ActivityStep == ActivityInv /\ [ActivityNext]_activityVars => ActivityInv'
<1> SUFFICES ASSUME ActivityInv, [ActivityNext]_activityVars PROVE ActivityInv'
  OBVIOUS
<1>0. /\ ActivityTypeOK /\ HomeIsKnown /\ ResultsStayHome /\ binding \in Nat
      /\ turn \in [on : BOOLEAN, binding : 0..binding]
  BY ActivityAssumption DEF ActivityInv, ActivityTypeOK
<1>1. ASSUME NEW next \in Scopes \cup {NoScope}, NEW why \in {"start", "turn"}, Bind(next, why) PROVE ActivityInv'
  BY <1>1, BindKeeps
<1>2. ASSUME NEW c \in ToolCalls, ToolCall(c) \/ FileChecked(c) \/ ToolResult(c) PROVE ActivityInv'
  BY <1>2, ToolStep
<1>3. ASSUME UNCHANGED <<scope, binding, toolCall, pending>>, binder' \in {"none", binder},
             turn' \in [on : BOOLEAN, binding : 0..binding], reported' \in {reported, Emitted(scope)}
      PROVE  ActivityInv'
  <2>1. /\ reported' \subseteq [home : Scopes \cup {NoScope}, scope : Scopes]
        /\ \A r \in reported' : r.home # NoScope => r.home = r.scope
    BY <1>0, <1>3, ReportedHome DEF ActivityTypeOK, ResultsStayHome
  <2>2. ActivityTypeOK'
    BY <1>0, <1>3, <2>1 DEF ActivityTypeOK
  <2>3. HomeIsKnown'
    BY <1>0, <1>3 DEF HomeIsKnown
  <2> QED BY <2>1, <2>2, <2>3 DEF ActivityInv, ResultsStayHome
<1>4. CASE EndBind
  <2>1. [on |-> TRUE, binding |-> binding] \in [on : BOOLEAN, binding : 0..binding]
    BY <1>0
  <2> QED BY <1>0, <1>3, <1>4, <2>1 DEF EndBind
<1>5. CASE MessageEnds
  <2>1. [turn EXCEPT !.on = FALSE] \in [on : BOOLEAN, binding : 0..binding]
    BY <1>0
  <2> QED BY <1>0, <1>3, <1>5, <2>1 DEF MessageEnds
<1>6. CASE UNCHANGED activityVars
  BY <1>0, <1>3, <1>6 DEF activityVars
<1> QED BY <1>1, <1>2, <1>4, <1>5, <1>6 DEF ActivityNext

(* What the surfaces share of a student's activity is complete and in place *)
(* for any number of surfaces, moves and tool calls: a surface finds its    *)
(* own events once, and a result belongs to the project it was made in      *)
(* (runtime/src/workspace-events.ts, workspace-activity.ts).                *)
THEOREM ActivityIsInPlace == EventsSpec /\ ActivitySpec => []ActivityKept
<1>1. EventsInv => OwnEventsOnce
  BY DEF EventsInv
<1>2. EventsSpec => []OwnEventsOnce
  BY <1>1, EventsStart, EventsStep, PTL DEF EventsSpec
<1>3. ActivityInv => ResultsStayHome
  BY DEF ActivityInv
<1>4. ActivitySpec => []ResultsStayHome
  BY <1>3, ActivityStart, ActivityStep, PTL DEF ActivitySpec
<1>5. OwnEventsOnce /\ ResultsStayHome => ActivityKept
  BY DEF ActivityKept
<1> QED BY <1>2, <1>4, <1>5, PTL

-----------------------------------------------------------------------------
(* The parts of a workspace that TLC runs, side by side. *)

LEMMA PartsAlone ==
  ASSUME [WorkspaceNext]_workspaceVars
  PROVE  /\ part' = part
         /\ [EventsNext]_eventVars /\ [ActivityNext]_activityVars /\ [PublishingNext]_publishingVars
         /\ [RecordsNext]_recordsVars /\ [EvidenceNext]_evidenceVars /\ [QueueNext]_queueVars /\ [OrgNext]_orgVars
<1>1. CASE UNCHANGED <<part, classVars>>
  BY <1>1 DEF WorkspaceNext, workspaceVars, streamVars, classVars
<1>2. CASE UNCHANGED <<part, streamVars>>
  BY <1>2 DEF WorkspaceNext, workspaceVars, streamVars, classVars
<1>3. CASE UNCHANGED workspaceVars
  BY <1>3 DEF workspaceVars, streamVars, classVars
<1> QED BY <1>1, <1>2, <1>3 DEF WorkspaceNext

(* Each of these parts keeps what its properties rest on                    *)
(* (workspace-events.ts, workspace-activity.ts, publishing-service.ts,      *)
(* session-recorder.ts, sync-service.ts, the organization's migrations),    *)
(* for every value of its constants, while one process keeps a student's    *)
(* records and one publication is under way at a time.                      *)
THEOREM WorkspaceKeepsItsParts ==
  ASSUME OneProcess, OnePublication
  PROVE  WorkspaceSpec => []WorkspaceInv
<1> DEFINE P == {"events", "activity", "publishing", "records", "evidence", "queue", "organization"}
           I == part \in P /\ WorkspaceInv
<1>1. WorkspaceInit => I
  <2> SUFFICES ASSUME WorkspaceInit PROVE I
    OBVIOUS
  <2>1. EventsInv /\ ActivityInv /\ PublishingInv /\ RecordsInv
    BY EventsStart, ActivityStart, PublishingStart, RecordsStart DEF WorkspaceInit
  <2>2. EvidenceTypeOK /\ QueueInv /\ OrgInv
    BY EvidenceStart, QueueStart, OrgStart DEF WorkspaceInit
  <2> QED BY <2>1, <2>2 DEF WorkspaceInit, WorkspaceInv
<1>2. I /\ [WorkspaceNext]_workspaceVars => I'
  <2> SUFFICES ASSUME I, [WorkspaceNext]_workspaceVars PROVE I'
    OBVIOUS
  <2>1. part' = part /\ part \in P
    BY PartsAlone
  <2>2. /\ EventsInv => EventsInv'
        /\ ActivityInv => ActivityInv'
        /\ EvidenceTypeOK => EvidenceTypeOK'
    BY PartsAlone, EventsStep, ActivityStep, EvidenceStep
  <2>3. PublishingInv => PublishingInv'
    BY PartsAlone, PublishingStays DEF PublishingInv, OnePublication
  <2>4. RecordsInv => RecordsInv'
    BY PartsAlone, UploadStep
  <2>5. QueueInv => QueueInv'
    BY PartsAlone, QueueStep
  <2>6. OrgInv => OrgInv'
    BY PartsAlone, OrgStep
  <2> QED BY <2>1, <2>2, <2>3, <2>4, <2>5, <2>6 DEF WorkspaceInv
<1> QED BY <1>1, <1>2, PTL DEF WorkspaceSpec
=============================================================================

-------------------------- MODULE LearningRecords --------------------------
(***************************************************************************)
(* Learning records on their way to the class: a student session saves a   *)
(* checkpoint of its record in the installation's directory and uploads    *)
(* whatever is pending there; `pi-student sync` does the second half from  *)
(* a process of its own.                                                   *)
(*                                                                         *)
(*   telemetry-integration.ts   StartSession, Checkpoint, EndSync          *)
(*   local-store.ts             Save, List, MarkRead, MarkWrite            *)
(*   sync-service.ts            List .. MarkWrite, one record at a time    *)
(*   telemetry-sink.ts          PutRow, PutParts                           *)
(*                                                                         *)
(* A process does one thing at a time, and is interleaved with the others  *)
(* at every await.  A file is replaced by rename: readers see the old one  *)
(* or the new one.  A record is the number of the checkpoint it was taken  *)
(* at.  The server stores a session row first and its parts (links,        *)
(* reflection, evidence) after it; a request the client gave up on has     *)
(* been applied by then or never is.                                       *)
(***************************************************************************)
EXTENDS Naturals

CONSTANTS
  Procs,         \* processes of one installation
  Students,      \* accounts that sign in on it
  MaxSessions,   \* sessions ever recorded (bound)
  MaxVersion,    \* checkpoints after which a record no longer changes (bound)
  NULL

Sessions == 1..MaxSessions
Versions == 1..MaxVersion

Record == [student: Students \cup {NULL}, inClass: BOOLEAN, version: Versions]
StoredLearningRecord == [version: Versions, status: {"pending", "synced"}]
Remote == [student: Students \cup {NULL}, row: Versions \cup {0}, parts: Versions \cup {0}]

ASSUME BoundsAssumption == MaxSessions \in Nat /\ MaxVersion \in Nat \ {0}
ASSUME NullAssumption == NULL \notin Record /\ NULL \notin StoredLearningRecord

VARIABLES
  signedIn,   \* the account the installation is signed in with, or NULL
  record,     \* the record of each session, NULL before it starts
  file,       \* learning-records/<session-id>.json, NULL where there is none
  remote,     \* the session's rows on the server
  proc        \* what each process is doing

recordsVars == <<signedIn, record, file, remote, proc>>

Off == [pc |-> "off", session |-> 0, after |-> "off", queue |-> {}, item |-> NULL,
        read |-> NULL, outcome |-> "pending"]

(* A pending record as syncPending read it. *)
Item == [session: Sessions, version: Versions]

RecordsInit ==
  /\ signedIn \in Students \cup {NULL}
  /\ record = [s \in Sessions |-> NULL]
  /\ file = [s \in Sessions |-> NULL]
  /\ remote = [s \in Sessions |-> [student |-> NULL, row |-> 0, parts |-> 0]]
  /\ proc = [p \in Procs |-> Off]

ProcessAt(p, pc) == proc' = [proc EXCEPT ![p].pc = pc]

Fresh(s) == record[s] = NULL /\ \A q \in 1..(s - 1) : record[q] # NULL

-----------------------------------------------------------------------------
(* Sessions and checkpoints.  Faulty variants, named Bad..., stand before   *)
(* the definitions they vary: a run that uses one in place of the code's    *)
(* own must fail.                                                           *)

(* startRecord: the identity may be unavailable, and the record then names  *)
(* nobody.  A session with a class is checkpointed at once.                 *)
NewRecord(p, s, inClass) ==
  /\ Fresh(s)
  /\ \E who \in {signedIn, NULL} :
       record' = [record EXCEPT ![s] = [student |-> who, inClass |-> inClass, version |-> 1]]
  /\ proc' = [proc EXCEPT ![p] = [Off EXCEPT !.pc = IF inClass THEN "save" ELSE "idle",
                                             !.session = s, !.after = "idle"]]

StartSession(p) ==
  /\ proc[p].pc = "off"
  /\ \E s \in Sessions, inClass \in BOOLEAN : NewRecord(p, s, inClass)
  /\ UNCHANGED <<signedIn, file, remote>>

(* pi-student sync *)
StartSync(p) ==
  /\ proc[p].pc = "off"
  /\ ProcessAt(p, "list")
  /\ UNCHANGED <<signedIn, record, file, remote>>

(* After a response or on /sync the session goes on, on shutdown it ends,   *)
(* and on a new class or project another record takes its place.            *)
Checkpoint(p, after) ==
  LET s == proc[p].session
  IN  /\ proc[p].pc = "idle"
      /\ after = "select" => \E q \in Sessions : Fresh(q)
      /\ record' = [record EXCEPT ![s].version = IF @ < MaxVersion THEN @ + 1 ELSE @]
      /\ proc' = [proc EXCEPT ![p].pc = "save", ![p].after = after]
      /\ UNCHANGED <<signedIn, file, remote>>

(* LearningRecordStore.save: whatever was there, the new record is pending. *)
Save(p) ==
  LET s == proc[p].session
  IN  /\ proc[p].pc = "save"
      /\ file' = [file EXCEPT ![s] = [version |-> record[s].version, status |-> "pending"]]
      /\ ProcessAt(p, "list")
      /\ UNCHANGED <<signedIn, record, remote>>

(* What an exception out of the checkpoint leaves: the session it was for,  *)
(* or nothing when the process was ending.                                  *)
GiveUp(p) ==
  proc' = [proc EXCEPT ![p] = IF @.after = "off" THEN Off
                              ELSE [Off EXCEPT !.pc = "idle", !.session = proc[p].session]]

SaveFails(p) ==
  /\ proc[p].pc = "save"
  /\ GiveUp(p)
  /\ UNCHANGED <<signedIn, record, file, remote>>

-----------------------------------------------------------------------------
(* syncPending *)

List(p) ==
  /\ proc[p].pc = "list"
  /\ proc' = [proc EXCEPT ![p].pc = "next",
        ![p].queue = {i \in Item : file[i.session] = [version |-> i.version, status |-> "pending"]}]
  /\ UNCHANGED <<signedIn, record, file, remote>>

TakeRecord(p) ==
  /\ proc[p].pc = "next"
  /\ \E i \in proc[p].queue :
       proc' = [proc EXCEPT ![p].queue = @ \ {i}, ![p].item = i,
                            ![p].pc = IF record[i.session].inClass THEN "row" ELSE "next"]
  /\ UNCHANGED <<signedIn, record, file, remote>>

EndSync(p) ==
  /\ proc[p].pc = "next" /\ proc[p].queue = {}
  /\ CASE proc[p].after = "idle" -> ProcessAt(p, "idle") /\ UNCHANGED record
       [] proc[p].after = "off" -> proc' = [proc EXCEPT ![p] = Off] /\ UNCHANGED record
       [] proc[p].after = "select" -> \E s \in Sessions : NewRecord(p, s, TRUE)
  /\ UNCHANGED <<signedIn, file, remote>>

(* The server's own rule: a session row belongs to the student who made it. *)
Accepts(s) == signedIn # NULL /\ remote[s].student \in {NULL, signedIn}

BadMayUpload(s) == Accepts(s)        \* whoever is signed in

MayUpload(s) == Accepts(s) /\ record[s].student \in {NULL, signedIn}

(* The reply to a stored request may be lost: it then counts as failed. *)
Replied(p, pc) ==
  \/ proc' = [proc EXCEPT ![p].pc = pc, ![p].outcome = "synced"]
  \/ proc' = [proc EXCEPT ![p].pc = "read", ![p].outcome = "pending"]

PutRow(p) ==
  LET i == proc[p].item
  IN  /\ proc[p].pc = "row" /\ MayUpload(i.session)
      /\ remote' = [remote EXCEPT ![i.session].student = signedIn, ![i.session].row = i.version]
      /\ Replied(p, "parts")
      /\ UNCHANGED <<signedIn, record, file>>

PutParts(p) ==
  LET i == proc[p].item
  IN  /\ proc[p].pc = "parts" /\ signedIn # NULL /\ remote[i.session].student = signedIn
      /\ remote' = [remote EXCEPT ![i.session].parts = i.version]
      /\ Replied(p, "read")
      /\ UNCHANGED <<signedIn, record, file>>

BadUploadFails(p) ==                 \* the error of a later part not thrown
  /\ proc[p].pc \in {"row", "parts"}
  /\ proc' = [proc EXCEPT ![p].outcome = IF proc[p].pc = "row" THEN "pending" ELSE "synced",
                          ![p].pc = "read"]
  /\ UNCHANGED <<signedIn, record, file, remote>>

(* Offline, signed out, another account, or refused by the server. *)
UploadFails(p) ==
  /\ proc[p].pc \in {"row", "parts"}
  /\ proc' = [proc EXCEPT ![p].pc = "read", ![p].outcome = "pending"]
  /\ UNCHANGED <<signedIn, record, file, remote>>

(* markSynced and markFailed read the file again and write it back with    *)
(* another status: its record is the one they read, not the one uploaded.  *)
MarkRead(p) ==
  /\ proc[p].pc = "read"
  /\ proc' = [proc EXCEPT ![p].pc = "write", ![p].read = file[proc[p].item.session]]
  /\ UNCHANGED <<signedIn, record, file, remote>>

MarkWrite(p) ==
  /\ proc[p].pc = "write"
  /\ file' = [file EXCEPT ![proc[p].item.session] = [proc[p].read EXCEPT !.status = proc[p].outcome]]
  /\ proc' = [proc EXCEPT ![p].pc = "next", ![p].item = NULL, ![p].read = NULL,
                          ![p].outcome = "pending"]
  /\ UNCHANGED <<signedIn, record, remote>>

BadMarkFails(p) ==                   \* markFailed not reading the file anew
  /\ proc[p].pc = "write"
  /\ IF proc[p].outcome = "synced"
     THEN proc' = [proc EXCEPT ![p].read = NULL, ![p].outcome = "pending"]
     ELSE GiveUp(p)
  /\ UNCHANGED <<signedIn, record, file, remote>>

(* A markSynced that fails is followed by markFailed; that one's failure    *)
(* leaves syncPending with the records it has not come to.                  *)
MarkFails(p) ==
  /\ proc[p].pc = "write"
  /\ IF proc[p].outcome = "synced"
     THEN proc' = [proc EXCEPT ![p].pc = "read", ![p].outcome = "pending"]
     ELSE GiveUp(p)
  /\ UNCHANGED <<signedIn, record, file, remote>>

-----------------------------------------------------------------------------
(* The student and the machine *)

AccountChanges(who) ==
  /\ signedIn' = who /\ who # signedIn
  /\ UNCHANGED <<record, file, remote, proc>>

(* Killed at any point.  The student comes back: some session is left.  *)
Crash(p) ==
  /\ proc[p].pc # "off" /\ \E s \in Sessions : record[s] = NULL
  /\ proc' = [proc EXCEPT ![p] = Off]
  /\ UNCHANGED <<signedIn, record, file, remote>>

SyncStep(p) ==
  \/ List(p) \/ TakeRecord(p) \/ EndSync(p)
  \/ PutRow(p) \/ PutParts(p) \/ UploadFails(p)
  \/ MarkRead(p) \/ MarkWrite(p) \/ MarkFails(p)

RecordsNext ==
  \/ \E p \in Procs :
       \/ StartSession(p) \/ StartSync(p)
       \/ \E after \in {"idle", "off", "select"} : Checkpoint(p, after)
       \/ Save(p) \/ SaveFails(p) \/ SyncStep(p) \/ Crash(p)
  \/ \E who \in Students \cup {NULL} : AccountChanges(who)

RecordsSpec == RecordsInit /\ [][RecordsNext]_recordsVars

-----------------------------------------------------------------------------
Process ==
  [pc: {"off", "idle", "save", "list", "next", "row", "parts", "read", "write"}, session: Sessions \cup {0},
   after: {"idle", "off", "select"}, queue: SUBSET Item, item: Item \cup {NULL},
   read: StoredLearningRecord \cup {NULL}, outcome: {"pending", "synced"}]

(* Files, rows and processes keep their shape, and a process only works on  *)
(* records that exist.                                                      *)
RecordsTypeOK ==
  /\ signedIn \in Students \cup {NULL}
  /\ record \in [Sessions -> Record \cup {NULL}]
  /\ file \in [Sessions -> StoredLearningRecord \cup {NULL}]
  /\ remote \in [Sessions -> Remote]
  /\ proc \in [Procs -> Process]
  /\ \A s \in Sessions : file[s] # NULL => record[s] # NULL

(* A record the file calls synced is on the server as it is in the file,    *)
(* with all its parts: a checkpoint saved while anything else goes on, a    *)
(* crash or a lost reply never leaves a newer record behind as synced       *)
(* ("Successful uploads become synced; failures remain pending",            *)
(* docs/teacher-integration.md).                                            *)
SyncedMeansUploaded ==
  \A s \in Sessions :
    file[s] # NULL /\ file[s].status = "synced" =>
      remote[s].row = file[s].version /\ remote[s].parts = file[s].version

(* A student's record is stored under that student, and what is stored      *)
(* under somebody stays so, whoever signs in on the machine later.          *)
RecordsStayTheirs ==
  [][\A s \in Sessions :
       /\ remote'[s].student # NULL /\ record[s] # NULL /\ record[s].student # NULL =>
            remote'[s].student = record[s].student
       /\ remote[s].student # NULL => remote'[s].student = remote[s].student]_recordsVars

(* Both: what this machine calls uploaded is on the server, and it is there *)
(* under the student whose work it is.                                      *)
RecordsKept == []SyncedMeansUploaded /\ RecordsStayTheirs

(* What makes the second inductive: a process works for a session that has  *)
(* a record, and on items that have a file; a session's rows are its        *)
(* student's.                                                               *)
Uploading(x) == x.pc \in {"row", "parts", "read", "write"}

WorksOnRecords(x) ==
  /\ x.pc \in {"idle", "save"} \/ x.after # "off" => x.session \in Sessions /\ record[x.session] # NULL
  /\ \A i \in x.queue : file[i.session] # NULL
  /\ Uploading(x) => x.item \in Item /\ file[x.item.session] # NULL
  /\ x.pc = "write" => x.read # NULL

OnRecord ==
  /\ \A p \in Procs : WorksOnRecords(proc[p])
  /\ \A s \in Sessions :
       remote[s].student # NULL => record[s] # NULL /\ record[s].student \in {NULL, remote[s].student}

(* What makes the first inductive, while the installation's directory has   *)
(* one process: what is still to be uploaded is in the files as it was      *)
(* listed, and the server has of the item under way what the process says.  *)
Pending(i) == file[i.session] = [version |-> i.version, status |-> "pending"]

UploadsTheFiles(x) ==
  LET i == x.item
  IN  /\ x.pc = "next" \/ Uploading(x) => \A j \in x.queue : Pending(j)
      /\ Uploading(x) => i \notin x.queue /\ Pending(i)
      /\ x.pc = "parts" => remote[i.session].row = i.version
      /\ x.pc \in {"read", "write"} /\ x.outcome = "synced" =>
           remote[i.session].row = i.version /\ remote[i.session].parts = i.version
      /\ x.pc = "write" => x.read = file[i.session]

ListedAsFiled == \A p \in Procs : UploadsTheFiles(proc[p])

RecordsInv == RecordsTypeOK /\ OnRecord /\ ListedAsFiled /\ SyncedMeansUploaded

-----------------------------------------------------------------------------
(* Progress: a process goes on with what it is doing, students keep         *)
(* working (or run the sync command), and an operation that is tried again  *)
(* and again succeeds again and again.                                      *)
RecordsFairness ==
  \A p \in Procs :
    /\ SF_recordsVars(StartSession(p)) /\ WF_recordsVars(StartSession(p) \/ StartSync(p))
    /\ WF_recordsVars(\E after \in {"idle", "off", "select"} : Checkpoint(p, after))
    /\ WF_recordsVars(List(p)) /\ WF_recordsVars(TakeRecord(p)) /\ WF_recordsVars(EndSync(p)) /\ WF_recordsVars(MarkRead(p))
    /\ WF_recordsVars(PutRow(p) \/ PutParts(p) \/ UploadFails(p))
    /\ SF_recordsVars(Save(p)) /\ SF_recordsVars(MarkWrite(p))
    /\ \A s \in Sessions :
         /\ SF_recordsVars(PutRow(p) /\ proc[p].item.session = s /\ proc'[p].pc = "parts")
         /\ SF_recordsVars(PutParts(p) /\ proc[p].item.session = s /\ proc'[p].outcome = "synced")

Theirs(s, who) ==
  /\ file[s] # NULL /\ record[s].inClass
  /\ record[s].student \in {who, NULL} /\ remote[s].student \in {who, NULL}

(* "Updated checkpoints are retried automatically" (README.md): with its    *)
(* student signed in for good, every saved record of a class, or a later    *)
(* one of that session, reaches the server with all its parts.              *)
SavedReachesServer ==
  \A who \in Students :
    <>[](signedIn = who) =>
      \A s \in Sessions, v \in Versions :
        (Theirs(s, who) /\ file[s].version = v) ~> (remote[s].parts >= v \/ ~ Theirs(s, who))
=============================================================================

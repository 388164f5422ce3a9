---------------------------- MODULE WorkspaceMaps ----------------------------
(***************************************************************************)
(* The stored map of a project (WorkspaceMapStore) and the bridge requests *)
(* that generate it from the project's files, select a step of it and ask  *)
(* whether it is stale.  Files change under a generation, which reads them *)
(* one await after another; the map file is replaced as a whole.           *)
(***************************************************************************)
EXTENDS Naturals

CONSTANTS Files, Contents,
          Steps,      \* identities of map steps
          ChatSessions, \* sessions of the project: each may have a job of its own
          NoStep

VARIABLES content,    \* content of each file now, 0 where there is none
          mapFile,    \* the stored map
          job,        \* the generation of each session
          selecting   \* the select under way: what it read, what it will write

mapVars == <<content, mapFile, job, selecting>>

ASSUME MapAssumption == 0 \notin Contents /\ NoStep \notin Steps

Nothing0 == [f \in Files |-> 0]
NoMap == [on |-> FALSE, text |-> Nothing0, digests |-> Nothing0, steps |-> {}, selected |-> NoStep]
NoJob == [at |-> "none", left |-> {}, text |-> Nothing0, digests |-> Nothing0, listed |-> {}, steps |-> {}, previous |-> NoStep]
NoSelect == [on |-> FALSE, stored |-> NoMap]

Text == [Files -> Contents \cup {0}]
StoredMap == [on : BOOLEAN, text : Text, digests : Text, steps : SUBSET Steps, selected : Steps \cup {NoStep}]
Job == [at : {"none", "digest", "read", "saving"}, left : SUBSET Files, text : Text, digests : Text,
        listed : SUBSET Files, steps : SUBSET Steps, previous : Steps \cup {NoStep}]

MapsTypeOK ==
  /\ content \in Text /\ mapFile \in StoredMap
  /\ job \in [ChatSessions -> Job] /\ selecting \in [on : BOOLEAN, stored : StoredMap]

MapsInit ==
  /\ content \in [Files -> Contents \cup {0}]
  /\ mapFile = NoMap /\ job = [s \in ChatSessions |-> NoJob] /\ selecting = NoSelect

Present == {f \in Files : content[f] # 0}

EditFile(f) ==
  /\ content' \in {[content EXCEPT ![f] = c] : c \in (Contents \cup {0}) \ {content[f]}}
  /\ UNCHANGED <<mapFile, job, selecting>>

(***************************************************************************)
(* generateFlowchart: the files are listed, listed again and digested one  *)
(* by one, and read one by one, those that fit.                            *)
(***************************************************************************)
\* A request finds no job under its key, or joins the one there is.
Generate(s) ==
  /\ job[s] = NoJob
  /\ job' = [job EXCEPT ![s] = [NoJob EXCEPT !.at = "digest", !.listed = Present, !.left = Present]]
  /\ UNCHANGED <<content, mapFile, selecting>>

DigestFile(s, f) ==
  /\ job[s].at = "digest" /\ f \in job[s].left
  /\ job' = [job EXCEPT ![s].left = @ \ {f}, ![s].digests[f] = content[f]]
  /\ UNCHANGED <<content, mapFile, selecting>>

Digested(s) ==
  /\ job[s].at = "digest" /\ job[s].left = {}
  /\ job' = [job EXCEPT ![s].at = "read", ![s].left = job[s].listed]
  /\ UNCHANGED <<content, mapFile, selecting>>

\* A version that keeps the digest taken before the file was read.
BadReadFile(s, f) ==
  /\ job[s].at = "read" /\ f \in job[s].left
  /\ job' = [job EXCEPT ![s].left = @ \ {f}, ![s].text[f] = content[f]]
  /\ UNCHANGED <<content, mapFile, selecting>>

\* What is read becomes the digest too; a file that is gone, too large or past the
\* limit is left out of the text and keeps the digest it has.
ReadFile(s, f) ==
  /\ job[s].at = "read" /\ f \in job[s].left
  /\ \/ /\ content[f] # 0
        /\ job' = [job EXCEPT ![s].left = @ \ {f}, ![s].text[f] = content[f], ![s].digests[f] = content[f]]
     \/ job' = [job EXCEPT ![s].left = @ \ {f}]
  /\ UNCHANGED <<content, mapFile, selecting>>

\* The model answers with at least one step; the store reads the map of before.
ModelAnswers(s) ==
  /\ job[s].at = "read" /\ job[s].left = {} /\ job[s].text # Nothing0
  /\ \E steps \in SUBSET Steps \ {{}} :
       job' = [job EXCEPT ![s].at = "saving", ![s].steps = steps,
                 ![s].previous = IF mapFile.selected \in steps THEN mapFile.selected ELSE NoStep]
  /\ UNCHANGED <<content, mapFile, selecting>>

\* Saved after a success only: a failed generation leaves the map as it is.
SaveMap(s) ==
  /\ job[s].at = "saving"
  /\ mapFile' = [on |-> TRUE, text |-> job[s].text, digests |-> job[s].digests, steps |-> job[s].steps, selected |-> job[s].previous]
  /\ job' = [job EXCEPT ![s] = NoJob]
  /\ UNCHANGED <<content, selecting>>

GenerationFails(s) ==
  /\ job[s] # NoJob
  /\ job' = [job EXCEPT ![s] = NoJob]
  /\ UNCHANGED <<content, mapFile, selecting>>

(***************************************************************************)
(* select and status.                                                      *)
(***************************************************************************)
SelectStep(step) ==
  /\ ~selecting.on /\ mapFile.on /\ step # mapFile.selected
  /\ step \in mapFile.steps \cup {NoStep}
  /\ selecting' = [on |-> TRUE, stored |-> [mapFile EXCEPT !.selected = step]]
  /\ UNCHANGED <<content, mapFile, job>>

\* The map that was read is written back whole, or the write fails.
WriteSelection ==
  /\ selecting.on /\ selecting' = NoSelect
  /\ mapFile' \in {mapFile, selecting.stored}
  /\ UNCHANGED <<content, job>>

\* status: the digests stored against the files as they are now.
Stale == \E f \in Files : mapFile.digests[f] # content[f]

MapsNext ==
  \/ \E f \in Files : EditFile(f)
  \/ \E s \in ChatSessions : \/ Generate(s) \/ Digested(s) \/ ModelAnswers(s) \/ SaveMap(s) \/ GenerationFails(s)
                             \/ \E f \in Files : DigestFile(s, f) \/ ReadFile(s, f)
  \/ \E step \in Steps \cup {NoStep} : SelectStep(step)
  \/ WriteSelection

MapsSpec == MapsInit /\ [][MapsNext]_mapVars

(***************************************************************************)
(* Properties                                                              *)
(***************************************************************************)
\* A map that is not reported stale tells of the files as they are: whatever changed
\* while it was made, and changed back, each file in its text has that very content.
\* Its selected step, shown again after a reload, is one of its steps.
MapIsCurrent ==
  /\ (mapFile.on /\ ~Stale) => \A f \in Files : mapFile.text[f] \in {0, content[f]}
  /\ mapFile.selected \in mapFile.steps \cup {NoStep}

\* What makes that inductive: in every map, the stored one, one being made and one being
\* written back, what was read of a file is what its digest was taken of.
Matching(m) == \A f \in Files : m.text[f] \in {0, m.digests[f]}
OwnStep(m) == m.selected \in m.steps \cup {NoStep}

MapsMatch ==
  /\ Matching(mapFile) /\ OwnStep(mapFile) /\ Matching(selecting.stored) /\ OwnStep(selecting.stored)
  /\ \A s \in ChatSessions : /\ Matching(job[s]) /\ job[s].previous \in job[s].steps \cup {NoStep}
                             /\ job[s].at = "digest" => job[s].text = Nothing0

MapsInv == MapsTypeOK /\ MapsMatch /\ MapIsCurrent
=============================================================================

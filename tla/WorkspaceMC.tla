---------------------------- MODULE WorkspaceMC ----------------------------
(***************************************************************************)
(* Small instances of what a student's workspace keeps and sends away (the *)
(* shared activity, the published project, the learning records and the    *)
(* evidence in them), of the queue a teacher sees of that evidence and of  *)
(* the organization all belong to.  They share no state: the initial state *)
(* chooses the part a behaviour is about, and the others stay where they   *)
(* start.                                                                  *)
(***************************************************************************)
EXTENDS WorkspaceActivity, Publishing, LearningRecords, LearningEvidence, InterventionQueue,
        OrganizationOwnership, TLC

VARIABLE part

streamVars == <<eventVars, activityVars, publishingVars>>
classVars == <<recordsVars, evidenceVars, queueVars, orgVars>>
workspaceVars == <<part, streamVars, classVars>>

\* The chat emits more than the bridge, and leaves the project.
MCMaxForgets == [p \in Surfaces |-> IF p = "chat" THEN 1 ELSE 0]
MCMaxEmitted == [p \in Surfaces |-> IF p = "chat" THEN 2 ELSE 1]

\* Two sessions of a project, and another project.
MCScopes == {[project |-> "a", session |-> 1], [project |-> "a", session |-> 2], [project |-> "b", session |-> 1]}

\* Members and connections of the organization are interchangeable.
Symmetric == Permutations(Users) \cup Permutations(Txns)

\* Two journals whose events are far apart, and the evidence they make: a failing session, and one that passes
\* after three edits of the agent's.
Becomes(type) ==
  CASE type = "file.changed" -> Evidence("student_edit", "student", 0, {})
    [] type = "agent.files_changed" -> Evidence("agent_edit", "agent", 0, {})
    [] type = "test.failed" -> Evidence("test_failed", "agent", 0, {})
    [] type = "test.passed" -> Evidence("test_passed", "agent", 0, {})

EvidenceFrom(types) == {[Becomes(types[n]) EXCEPT !.at = n * (EDIT_GROUP + 1), !.refs = {n}] : n \in DOMAIN types}
JournalOf(types) ==
  [n \in DOMAIN types |-> [type |-> types[n], file |-> CHOOSE f \in Files : TRUE,
                           at |-> n * (EDIT_GROUP + 1), ours |-> TRUE, by |-> "chat"]]

MCJournals ==
  {<<"test.failed", "test.passed", "test.failed", "test.failed", "test.failed">>,
   <<"file.changed", "agent.files_changed", "agent.files_changed", "agent.files_changed", "test.passed">>}
MCProjections == {EvidenceFrom(types) : types \in MCJournals}

ASSUME ProjectionsAssumption ==
  \A types \in MCJournals : EvidenceFrom(types) = deriveLearningEvidence(JournalOf(types), 0)

\* The events are those of sequence numbers 8 to 11, and "10" sorts before "9".
MCIdOrder == <<3, 4, 1, 2>>

\* Edits and tests, or the rest.
MCKindSets ==
  {EditKinds \cup {"test.failed", "test.passed"}, {"plan.open", "plan.approved", "chat.learn", "question.completed", "reflection"}}

WorkspaceInit ==
  /\ part \in {"events", "activity", "publishing", "records", "evidence", "queue", "organization"}
  /\ EventsInit /\ ActivityInit /\ PublishingInit /\ RecordsInit /\ EvidenceInit /\ QueueInit /\ OrgInit
  /\ part # "publishing" => origin = NoRepository
  /\ part # "records" => signedIn = NULL
  /\ part # "organization" => \A u \in Users : member[u] = NoRow \/ member[u].role = "owner"

WorkspaceNext ==
  \/ /\ UNCHANGED <<part, classVars>>
     /\ \/ part = "events" /\ EventsNext /\ UNCHANGED <<activityVars, publishingVars>>
        \/ part = "activity" /\ ActivityNext /\ UNCHANGED <<eventVars, publishingVars>>
        \/ part = "publishing" /\ PublishingNext /\ UNCHANGED <<eventVars, activityVars>>
  \/ /\ UNCHANGED <<part, streamVars>>
     /\ \/ part = "records" /\ RecordsNext /\ UNCHANGED <<evidenceVars, queueVars, orgVars>>
        \/ part = "evidence" /\ EvidenceNext /\ UNCHANGED <<recordsVars, queueVars, orgVars>>
        \/ part = "queue" /\ QueueNext /\ UNCHANGED <<recordsVars, evidenceVars, orgVars>>
        \/ part = "organization" /\ OrgNext /\ UNCHANGED <<recordsVars, evidenceVars, queueVars>>

WorkspaceSpec == WorkspaceInit /\ [][WorkspaceNext]_workspaceVars

\* The part's variables have their types, and where a proof needs it what makes its properties
\* inductive; the other parts keep their initial values.
WorkspaceInv ==
  CASE part = "events" -> EventsInv
    [] part = "activity" -> ActivityInv
    [] part = "publishing" -> PublishingInv
    [] part = "records" -> RecordsInv
    [] part = "evidence" -> EvidenceTypeOK
    [] part = "queue" -> QueueInv
    [] part = "organization" -> OrgInv
=============================================================================

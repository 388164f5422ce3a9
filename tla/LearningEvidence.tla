-------------------------- MODULE LearningEvidence --------------------------
(***************************************************************************)
(* The evidence of one session, derived from the workspace's journal each  *)
(* time a checkpoint is made (education/src/learning-evidence.ts), and a   *)
(* definition of every category without the loop that derives it.  A       *)
(* session's journal grows event by event; an event of another workspace,  *)
(* another session or another time, or of a sensitive file, is not ours.   *)
(***************************************************************************)
EXTENDS Integers, FiniteSets, Sequences

CONSTANTS Files, KindSets,   \* files of the project; kinds of events that happen in one journal (bound)
          Foreign,           \* kinds whose events need not be ours (bound)
          Gaps, MaxEvents,   \* time between two events, events of a journal (bounds)
          IdOrder,           \* where the sourceId of each event of a journal sorts among strings
          Debounce, EDIT_GROUP, RELATED, MAX_REFERENCES, MAX_EVIDENCE

VARIABLES history, confirmed   \* the events; the time of the confirmed reflection, or 0

evidenceVars == <<history, confirmed>>

EditKinds == {"file.changed", "autocomplete.accepted", "agent.files_changed"}
EventKinds == EditKinds \cup
  {"test.failed", "test.passed", "plan.open", "plan.approved", "chat.learn", "question.completed"}

\* The one file of an edit; the file of any other event says nothing.
HistoryEvent == [type: EventKinds, file: Files, at: Nat, ours: BOOLEAN, by: {"terminal", "chat"}]

ASSUME EvidenceAssumption ==
  /\ UNION KindSets \subseteq EventKinds \cup {"reflection"} /\ Foreign \subseteq EventKinds
  /\ Gaps \subseteq Int /\ MaxEvents \in Nat
  /\ IdOrder \in [1..MaxEvents -> Nat] /\ \A m, n \in 1..MaxEvents : IdOrder[m] = IdOrder[n] => m = n
  /\ Debounce \in Nat /\ EDIT_GROUP \in Nat /\ RELATED \in Nat /\ MAX_REFERENCES \in Nat \ {0} /\ MAX_EVIDENCE \in Nat

------------------------------------------------------------------------------
(* The loop takes our events by time and, where times are equal, by their    *)
(* sourceIds as strings, which is not the order of the journal.  An event is *)
(* known by its place in the journal.                                        *)

Selected(events) == {n \in DOMAIN events : events[n].ours}

Before(events, m, n) ==
  events[m].at < events[n].at \/ (events[m].at = events[n].at /\ IdOrder[m] < IdOrder[n])

Earliest(events, S) == CHOOSE n \in S : \A m \in S \ {n} : Before(events, n, m)

\* The first MAX_REFERENCES of a group's events.
Cited(events, G) == {n \in G : Cardinality({m \in G : Before(events, m, n)}) < MAX_REFERENCES}

Evidence(category, actor, at, refs) == [category |-> category, actor |-> actor, at |-> at, refs |-> refs]

\* The category of an edit, and whose it is.
EditCategories == {"student_edit", "autocomplete_edit", "agent_edit"}
EditActor(category) ==
  CASE category = "student_edit" -> "student"
    [] category = "autocomplete_edit" -> "mixed"
    [] category = "agent_edit" -> "agent"

NoEvent == 0
NoGroup == [last |-> NoEvent, refs |-> {}]
\* No two items of the output are equal, as each names its events: it is a set.
NothingSeen == [output |-> {}, lastAgentEdit |-> [f \in Files |-> NoEvent], lastAutocomplete |-> [f \in Files |-> NoEvent],
         failed |-> NoEvent, attempted |-> NoEvent, planSeen |-> FALSE, planApproved |-> FALSE, learnUsed |-> FALSE,
         revised |-> {}, grouped |-> [c \in EditCategories |-> [f \in Files |-> NoGroup]]]

OutputIf(s, condition, item) == IF condition THEN [s EXCEPT !.output = @ \cup {item}] ELSE s
Output(s, item) == OutputIf(s, TRUE, item)

EditItem(events, category, G) ==
  Evidence(category, EditActor(category), events[Earliest(events, G)].at, Cited(events, G))

\* A further edit of a group joins its item; otherwise it starts an item and a group.
GroupEdit(s, category, n, events) ==
  LET f == events[n].file
      prior == s.grouped[category][f]
      joins == prior.refs # {} /\ events[n].at - events[prior.last].at <= EDIT_GROUP
      group == IF joins THEN prior.refs \cup {n} ELSE {n}
      others == IF joins THEN s.output \ {EditItem(events, category, prior.refs)} ELSE s.output
  IN  [s EXCEPT !.output = others \cup {EditItem(events, category, group)},
                !.grouped[category][f] = [last |-> n, refs |-> group]]

StudentEdit(s, n, events) ==
  LET f == events[n].file
      at == events[n].at
      agent == s.lastAgentEdit[f]
      edited == GroupEdit(s, "student_edit", n, events)
      revises == agent # NoEvent /\ at - events[agent].at <= RELATED /\ agent \notin s.revised
      revision == OutputIf([edited EXCEPT !.revised = IF revises THEN @ \cup {agent} ELSE @], revises,
                        Evidence("student_revised_agent_work", "student", at, {agent, n}))
      attempts == s.failed # NoEvent /\ at - events[s.failed].at <= RELATED /\ s.attempted = NoEvent
  IN  IF s.lastAutocomplete[f] # NoEvent /\ at - events[s.lastAutocomplete[f]].at <= Debounce THEN s
      ELSE OutputIf([revision EXCEPT !.attempted = IF attempts THEN n ELSE @], attempts,
                 Evidence("fix_attempted", "student", at, {s.failed, n}))

AcceptCompletion(s, n, events) ==
  [GroupEdit(s, "autocomplete_edit", n, events) EXCEPT !.lastAutocomplete[events[n].file] = n]

AgentEdit(s, n, events) ==
  [GroupEdit(s, "agent_edit", n, events) EXCEPT !.lastAgentEdit[events[n].file] = n]

\* A version that keeps the attempt of an earlier failure.
BadTestFailed(s, n, events) ==
  Output([s EXCEPT !.failed = n],
      Evidence("test_failed", IF events[n].by = "terminal" THEN "student" ELSE "agent", events[n].at, {n}))

TestFailed(s, n, events) ==
  Output([s EXCEPT !.failed = n, !.attempted = NoEvent],
      Evidence("test_failed", IF events[n].by = "terminal" THEN "student" ELSE "agent", events[n].at, {n}))

TestPassed(s, n, events) ==
  LET byStudent == events[n].by = "terminal"
      verifies == s.failed # NoEvent /\ s.attempted # NoEvent /\ events[n].at - events[s.failed].at <= RELATED
      passed == Output(s, Evidence("test_passed", IF byStudent THEN "student" ELSE "agent", events[n].at, {n}))
  IN  [OutputIf(passed, verifies, Evidence("fix_verified", IF byStudent THEN "student" ELSE "mixed", events[n].at,
                                    {s.failed, s.attempted, n})) EXCEPT !.failed = NoEvent, !.attempted = NoEvent]

PlanProgress(s, n, events) ==
  LET approved == events[n].type = "plan.approved"
  IN  [OutputIf(s, s.planSeen /\ approved /\ ~s.planApproved, Evidence("plan_approved", "student", events[n].at, {n}))
         EXCEPT !.planSeen = TRUE, !.planApproved = approved]

LearnPrompted(s, n, events) ==
  [OutputIf(s, ~s.learnUsed, Evidence("learn_mode_used", "student", events[n].at, {n})) EXCEPT !.learnUsed = TRUE]

Project(s, n, events) ==
  LET type == events[n].type
  IN  CASE type \in {"plan.open", "plan.approved"} -> PlanProgress(s, n, events)
        [] type = "file.changed" -> StudentEdit(s, n, events)
        [] type = "autocomplete.accepted" -> AcceptCompletion(s, n, events)
        [] type = "agent.files_changed" -> AgentEdit(s, n, events)
        [] type = "test.failed" -> TestFailed(s, n, events)
        [] type = "test.passed" -> TestPassed(s, n, events)
        [] type = "chat.learn" -> LearnPrompted(s, n, events)
        [] type = "question.completed" -> Output(s, Evidence("question_completed", "student", events[n].at, {n}))

\* What is left and what was seen after k events.
Loop(events) ==
  LET after[k \in 0..Cardinality(Selected(events))] ==
        IF k = 0 THEN [left |-> Selected(events), seen |-> NothingSeen]
        ELSE LET n == Earliest(events, after[k - 1].left)
             IN  [left |-> after[k - 1].left \ {n}, seen |-> Project(after[k - 1].seen, n, events)]
  IN  after

\* At most MAX_EVIDENCE items, the latest; items of one time are sorted by what their hashes happen to be.
Latest(items) ==
  IF Cardinality(items) <= MAX_EVIDENCE THEN items
  ELSE CHOOSE K \in SUBSET items : Cardinality(K) = MAX_EVIDENCE /\ \A x \in items \ K, y \in K : x.at <= y.at

deriveLearningEvidence(events, reflection) ==
  Latest(OutputIf(Loop(events)[Cardinality(Selected(events))].seen, reflection # 0,
                  Evidence("reflection_completed", "student", reflection, {0})).output)

------------------------------------------------------------------------------
EvidenceInit == history = <<>> /\ confirmed = 0

LastAt == IF history = <<>> THEN 1 ELSE history[Len(history)].at

\* An event of another process may be stamped earlier than the last one of the journal.
Happen ==
  /\ Len(history) < MaxEvents /\ confirmed = 0
  /\ \E K \in KindSets : \E type \in K \ {"reflection"}, gap \in Gaps, ours \in BOOLEAN, by \in {"terminal", "chat"}, f \in Files :
       /\ type \notin EditKinds => f = CHOOSE g \in Files : TRUE
       /\ by = "terminal" => type \in {"test.failed", "test.passed"}
       /\ ours \/ type \in Foreign
       /\ LastAt + gap > 0
       /\ \A n \in DOMAIN history : history[n].type \in K
       /\ history' = Append(history, [type |-> type, file |-> f, at |-> LastAt + gap, ours |-> ours, by |-> by])
  /\ UNCHANGED confirmed

Confirm ==
  /\ confirmed = 0 /\ confirmed' = LastAt
  /\ \E K \in KindSets : "reflection" \in K /\ \A n \in DOMAIN history : history[n].type \in K
  /\ UNCHANGED history

EvidenceNext == Happen \/ Confirm

EvidenceSpec == EvidenceInit /\ [][EvidenceNext]_evidenceVars

------------------------------------------------------------------------------
EvidenceTypeOK == history \in Seq(HistoryEvent) /\ Len(history) <= MaxEvents /\ confirmed \in Nat

\* What the categories mean in a set D of events: n follows m when it comes later, at most RELATED after it.
Of(D, type) == {n \in D : history[n].type = type}
EditsOf(D, type, f) == {n \in Of(D, type) : history[n].file = f}
TimeOf(n) == history[n].at
Precedes(m, n) == Before(history, m, n)
Follows(n, m) == Precedes(m, n) /\ TimeOf(n) - TimeOf(m) <= RELATED
NoneBetween(m, n, S) == \A k \in S : ~(Precedes(m, k) /\ Precedes(k, n))

Typed(D, f) ==
  {n \in EditsOf(D, "file.changed", f) :
     \A c \in EditsOf(D, "autocomplete.accepted", f) : Precedes(c, n) => TimeOf(n) - TimeOf(c) > Debounce}

Edits(D, category, f) ==
  CASE category = "student_edit" -> Typed(D, f)
    [] category = "autocomplete_edit" -> EditsOf(D, "autocomplete.accepted", f)
    [] category = "agent_edit" -> EditsOf(D, "agent.files_changed", f)

\* Edits in reach of each other, one after the next, make one group.
Linked(S, m, n) ==
  \A k \in S : ~Precedes(k, m) /\ Precedes(k, n) =>
    \E l \in S : Precedes(k, l) /\ ~Precedes(n, l) /\ TimeOf(l) - TimeOf(k) <= EDIT_GROUP
GroupOf(S, m) == {n \in S : Linked(S, m, n) /\ Linked(S, n, m)}

EditItems(D) ==
  UNION {{EditItem(history, c, GroupOf(Edits(D, c, f), m)) : m \in Edits(D, c, f)} : c \in EditCategories, f \in Files}

Tests(D) == Of(D, "test.failed") \cup Of(D, "test.passed")
AllTyped(D) == UNION {Typed(D, f) : f \in Files}

\* The first edit typed in a file after the agent's last one there.
Revisions(D) ==
  UNION {{p \in EditsOf(D, "agent.files_changed", f) \X Typed(D, f) :
            Follows(p[2], p[1]) /\ NoneBetween(p[1], p[2], EditsOf(D, "agent.files_changed", f) \cup Typed(D, f))} :
           f \in Files}

\* The first edit typed after a failed test, with no test in between.
Attempts(D) ==
  {p \in Of(D, "test.failed") \X AllTyped(D) : Follows(p[2], p[1]) /\ NoneBetween(p[1], p[2], Tests(D) \cup AllTyped(D))}

Fixes(D) ==
  {p \in Of(D, "test.failed") \X AllTyped(D) \X Of(D, "test.passed") :
     <<p[1], p[2]>> \in Attempts(D) /\ Precedes(p[2], p[3]) /\ Follows(p[3], p[1]) /\ NoneBetween(p[1], p[3], Tests(D))}

Plans(D) == Of(D, "plan.open") \cup Of(D, "plan.approved")
Approvals(D) ==
  {n \in Of(D, "plan.approved") : \E m \in Of(D, "plan.open") : Precedes(m, n) /\ NoneBetween(m, n, Plans(D))}

FirstLearn(D) == {n \in Of(D, "chat.learn") : \A m \in Of(D, "chat.learn") : ~Precedes(m, n)}

Runner(n, otherwise) == IF history[n].by = "terminal" THEN "student" ELSE otherwise

Meaning(D) ==
  EditItems(D)
  \cup {Evidence("student_revised_agent_work", "student", TimeOf(p[2]), {p[1], p[2]}) : p \in Revisions(D)}
  \cup {Evidence("fix_attempted", "student", TimeOf(p[2]), {p[1], p[2]}) : p \in Attempts(D)}
  \cup {Evidence("fix_verified", Runner(p[3], "mixed"), TimeOf(p[3]), {p[1], p[2], p[3]}) : p \in Fixes(D)}
  \cup {Evidence("test_failed", Runner(n, "agent"), TimeOf(n), {n}) : n \in Of(D, "test.failed")}
  \cup {Evidence("test_passed", Runner(n, "agent"), TimeOf(n), {n}) : n \in Of(D, "test.passed")}
  \cup {Evidence("plan_approved", "student", TimeOf(n), {n}) : n \in Approvals(D)}
  \cup {Evidence("learn_mode_used", "student", TimeOf(n), {n}) : n \in FirstLearn(D)}
  \cup {Evidence("question_completed", "student", TimeOf(n), {n}) : n \in Of(D, "question.completed")}

Reflected == {Evidence("reflection_completed", "student", c, {0}) : c \in {confirmed} \ {0}}

(* The loop keeps the latest of the items that our events mean, and adds     *)
(* none: an edit is in one group, a fix is claimed for the failure it        *)
(* follows, approval for a plan seen open before.                            *)
EvidenceIsMeant ==
  LET derived == deriveLearningEvidence(history, confirmed)
      meant == Meaning(Selected(history)) \cup Reflected
  IN  /\ derived \subseteq meant
      /\ \A x \in meant \ derived :
           Cardinality(derived) >= MAX_EVIDENCE /\ \A y \in derived : x.at <= y.at
=============================================================================

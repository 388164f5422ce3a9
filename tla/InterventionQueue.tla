------------------------- MODULE InterventionQueue -------------------------
(***************************************************************************)
(* A teacher's queue of sessions that need attention: the evidence that    *)
(* uploads replace, the refreshes that recompute the queue from it as READ *)
(* COMMITTED transactions (refresh_teacher_interventions), and the answers *)
(* a teacher gives from a list that may be old.  One session's items; the  *)
(* session of a student who remains an active member of the class.         *)
(***************************************************************************)
EXTENDS Integers, FiniteSetsExt

CONSTANTS Refreshes,      \* calls of refresh_teacher_interventions
          Projections,    \* what uploads bring: deriveLearningEvidence of some journals (bound)
          Answered,       \* categories whose items the teacher answers (bound)
          Required        \* whether the session's policy asks for a reflection

VARIABLES evidence,       \* learning_evidence of the session
          reflected,      \* a confirmed session_reflections row
          rested,         \* the session ended more than 24 hours ago
          expired,        \* the session started more than 30 days ago
          item,           \* intervention_items by category, as committed
          refresh,        \* the transaction of each call
          current         \* history: the last refresh to commit met no change and no other refresh

queueInputs == <<evidence, reflected, rested, expired>>
queueVars == <<queueInputs, item, refresh, current>>

Signals == <<"repeated_failures", "agent_edit_balance", "missing_reflection", "ready_for_review">>
Categories == {Signals[n] : n \in 1..4}
NoItem == [status |-> "none", facts |-> <<>>]
NothingCounted == [last |-> 0, agent |-> 0, student |-> 0, revised |-> 0, failures |-> 0, later |-> FALSE,
           reflected |-> FALSE, rested |-> FALSE]
NotBegun == [at |-> "start", next |-> 1, seen |-> NothingCounted, writes |-> <<>>, held |-> {}, clean |-> FALSE]

Refreshing(r) == refresh[r].at \notin {"start", "done"}

------------------------------------------------------------------------------
(* What the statements of one refresh read.                                *)

Rows(e, c) == {x \in e : x.category = c}
LatestPass(e) == Max({0} \cup {x.at : x \in Rows(e, "test_passed")})

CountEdits(s, e) ==
  [s EXCEPT !.last = LatestPass(e), !.agent = Cardinality(Rows(e, "agent_edit")),
            !.student = Cardinality(Rows(e, "student_edit")),
            !.revised = Cardinality(Rows(e, "student_revised_agent_work"))]

CountFailures(s, e) ==
  LET after == {x \in Rows(e, "test_failed") : x.at > s.last}
  IN  [s EXCEPT !.failures = Cardinality(after), !.later = s.last # 0 /\ after # {}]

Balance(s) == s.agent >= 3 /\ s.agent * 4 >= (s.agent + s.student) * 3 /\ s.revised = 0

CallsFor(c, s) ==
  CASE c = "repeated_failures" -> s.failures >= 3
    [] c = "agent_edit_balance" -> Balance(s)
    [] c = "missing_reflection" -> s.last # 0 /\ Required /\ ~s.reflected /\ s.rested
    [] c = "ready_for_review" -> s.last # 0 /\ s.reflected /\ ~s.later

\* The counts a teacher sees beside the explanation.
Facts(c, s) ==
  CASE c = "repeated_failures" -> <<s.failures, s.last>>
    [] c = "agent_edit_balance" -> <<s.agent, s.student, s.revised>>
    [] OTHER -> <<s.last>>

------------------------------------------------------------------------------
QueueInit ==
  /\ evidence = {} /\ reflected = FALSE /\ rested = FALSE /\ expired = FALSE
  /\ item = [c \in Categories |-> NoItem]
  /\ refresh = [r \in Refreshes |-> NotBegun]
  /\ current = FALSE

\* Whatever changes meanwhile: a refresh under way has met it.
Disturbed == [r \in Refreshes |-> [refresh[r] EXCEPT !.clean = FALSE]]
QueueUntouched == refresh' = Disturbed /\ current' = FALSE /\ item' = item

\* The upload of a record: the session's row, the reflection and the evidence, each on its own.
UploadSession == rested /\ rested' = FALSE /\ QueueUntouched /\ UNCHANGED <<evidence, reflected, expired>>
UploadReflection == ~reflected /\ reflected' = TRUE /\ QueueUntouched /\ UNCHANGED <<evidence, rested, expired>>
UploadEvidence ==
  /\ \E e \in Projections : e # evidence /\ evidence' = e
  /\ QueueUntouched /\ UNCHANGED <<reflected, rested, expired>>

DayPasses == ~rested /\ rested' = TRUE /\ QueueUntouched /\ UNCHANGED <<evidence, reflected, expired>>
MonthPasses == ~expired /\ expired' = TRUE /\ QueueUntouched /\ UNCHANGED <<evidence, reflected, rested>>

------------------------------------------------------------------------------
\* Rows another refresh has written or locked.
Locked(r) == UNION {refresh[o].held : o \in Refreshes \ {r}}
OwnRow(r, c) == IF c \in DOMAIN refresh[r].writes THEN refresh[r].writes[c] ELSE item[c]
WithRow(f, c, x) == [d \in DOMAIN f \cup {c} |-> IF d = c THEN x ELSE f[d]]

\* The first statement closes what has expired; now() is the time the transaction began.
BeginRefresh(r) ==
  LET closing == IF expired THEN {c \in Categories : item[c].status = "open"} ELSE {}
  IN  /\ refresh[r].at = "start" /\ closing \cap Locked(r) = {}
      /\ refresh' = [Disturbed EXCEPT ![r] =
           [NotBegun EXCEPT !.at = IF expired THEN "end" ELSE "edits", !.seen.rested = rested, !.held = closing,
                            !.writes = [c \in closing |-> [item[c] EXCEPT !.status = "resolved"]],
                            !.clean = \A o \in Refreshes : ~Refreshing(o)]]
      /\ UNCHANGED <<queueInputs, item, current>>

\* Each statement sees what is committed when it starts.
ReadEdits(r) ==
  /\ refresh[r].at = "edits"
  /\ refresh' = [refresh EXCEPT ![r].at = "failures",
                                ![r].seen = CountEdits(@, evidence)]
  /\ UNCHANGED <<queueInputs, item, current>>

ReadFailures(r) ==
  /\ refresh[r].at = "failures"
  /\ refresh' = [refresh EXCEPT ![r].at = "reflection", ![r].seen = CountFailures(@, evidence)]
  /\ UNCHANGED <<queueInputs, item, current>>

ReadReflection(r) ==
  /\ refresh[r].at = "reflection"
  /\ refresh' = [refresh EXCEPT ![r].at = "write", ![r].seen.reflected = reflected]
  /\ UNCHANGED <<queueInputs, item, current>>

WrittenRow(c, was, s) ==
  CASE CallsFor(c, s) /\ was.status = "none" -> [status |-> "open", facts |-> Facts(c, s)]
    [] CallsFor(c, s) /\ was.status = "open" -> [was EXCEPT !.facts = Facts(c, s)]
    [] ~CallsFor(c, s) /\ was.status = "open" -> [was EXCEPT !.status = "resolved"]
    [] OTHER -> was

\* One category after another.  An insert waits for a row another refresh holds, an update for one it sees open,
\* and looks at it again then; a row another refresh has only just inserted it does not see.
WriteCategory(r) ==
  LET n == refresh[r].next
      c == Signals[n]
      was == OwnRow(r, c)
      seen == refresh[r].seen
  IN  /\ refresh[r].at = "write"
      /\ c \in Locked(r) => ~CallsFor(c, seen) /\ was.status # "open"
      /\ refresh' = [refresh EXCEPT ![r].at = IF n = 4 THEN "end" ELSE "write", ![r].next = IF n = 4 THEN n ELSE n + 1,
                       ![r].writes = IF WrittenRow(c, was, seen) = was THEN @ ELSE WithRow(@, c, WrittenRow(c, was, seen)),
                       ![r].held = IF CallsFor(c, seen) \/ was.status = "open" THEN @ \cup {c} ELSE @]
      /\ UNCHANGED <<queueInputs, item, current>>

CommitRefresh(r) ==
  /\ refresh[r].at = "end"
  /\ item' = [c \in Categories |-> OwnRow(r, c)]
  /\ current' = refresh[r].clean
  /\ refresh' = [refresh EXCEPT ![r] = [NotBegun EXCEPT !.at = "done"]]
  /\ UNCHANGED queueInputs

RollbackRefresh(r) ==
  /\ Refreshing(r)
  /\ refresh' = [refresh EXCEPT ![r] = [NotBegun EXCEPT !.at = "done"]]
  /\ UNCHANGED <<queueInputs, item, current>>

\* A version that offers to open a closed item again.
BadAnswerItem(c) ==
  /\ c \in Answered /\ item[c].status # "none"
  /\ \A r \in Refreshes : c \notin refresh[r].held
  /\ \E choice \in {"open", "dismissed", "resolved"} \ {item[c].status} : item' = [item EXCEPT ![c].status = choice]
  /\ UNCHANGED <<queueInputs, refresh, current>>

\* The teacher closes an item of a list that may be older than the item's state.
AnswerItem(c) ==
  /\ c \in Answered /\ item[c].status # "none"
  /\ \A r \in Refreshes : c \notin refresh[r].held
  /\ \E choice \in {"dismissed", "resolved"} \ {item[c].status} : item' = [item EXCEPT ![c].status = choice]
  /\ UNCHANGED <<queueInputs, refresh, current>>

QueueNext ==
  \/ UploadSession \/ UploadReflection \/ UploadEvidence \/ DayPasses \/ MonthPasses
  \/ \E c \in Categories : AnswerItem(c)
  \/ \E r \in Refreshes :
       \/ BeginRefresh(r) \/ ReadEdits(r) \/ ReadFailures(r) \/ ReadReflection(r)
       \/ WriteCategory(r) \/ CommitRefresh(r) \/ RollbackRefresh(r)

QueueSpec == QueueInit /\ [][QueueNext]_queueVars

------------------------------------------------------------------------------
Statuses == {"none", "open", "dismissed", "resolved"}
IsItem(x) == x = [status |-> x.status, facts |-> x.facts] /\ x.status \in Statuses
IsTransaction(x) ==
  /\ x = [at |-> x.at, next |-> x.next, seen |-> x.seen, writes |-> x.writes, held |-> x.held, clean |-> x.clean]
  /\ x.at \in {"start", "edits", "failures", "reflection", "write", "end", "done"} /\ x.next \in 1..4
  /\ x.at \in {"edits", "failures", "reflection"} => x.next = 1
  /\ x.held \subseteq Categories /\ x.clean \in BOOLEAN
  /\ x.writes = [c \in DOMAIN x.writes |-> x.writes[c]] /\ \A c \in DOMAIN x.writes : IsItem(x.writes[c])

QueueTypeOK ==
  /\ evidence \in Projections \cup {{}}
  /\ reflected \in BOOLEAN /\ rested \in BOOLEAN /\ expired \in BOOLEAN /\ current \in BOOLEAN
  /\ item = [c \in Categories |-> item[c]] /\ \A c \in Categories : IsItem(item[c])
  /\ refresh = [r \in Refreshes |-> refresh[r]] /\ \A r \in Refreshes : IsTransaction(refresh[r])

Begun == [NothingCounted EXCEPT !.rested = rested]
CountedNow == CountFailures(CountEdits(Begun, evidence), evidence)
SeenNow == [CountedNow EXCEPT !.reflected = reflected]

(* After a refresh that met no change and no other refresh, what is open is  *)
(* what the evidence calls for, with its counts, and everything it calls for *)
(* is there, open or answered.                                               *)
FollowsEvidence(c, x) ==
  /\ x.status = "open" => ~expired /\ CallsFor(c, SeenNow) /\ x.facts = Facts(c, SeenNow)
  /\ ~expired /\ CallsFor(c, SeenNow) => x.status # "none"

QueueIsCurrent == current => \A c \in Categories : FollowsEvidence(c, item[c])

(* What is closed stays closed, and what a teacher has dismissed only a      *)
(* teacher resolves.                                                         *)
AnswersStand ==
  \A c \in Categories :
    /\ item[c].status \in {"dismissed", "resolved"} => item'[c].status \in {"dismissed", "resolved"}
    /\ item[c].status = "dismissed" => item'[c].status = "dismissed" \/ refresh' = refresh

(* A teacher's queue follows the evidence and keeps the teacher's answers.   *)
QueueKept == []QueueIsCurrent /\ [][AnswersStand]_queueVars

(* What makes the first inductive: a refresh that has met nothing is alone,  *)
(* has read what is still so, and has the categories behind it in order.     *)
SeenSoFar(at) ==
  CASE at = "edits" -> Begun
    [] at = "failures" -> CountEdits(Begun, evidence)
    [] at = "reflection" -> CountedNow
    [] OTHER -> SeenNow

CleanIsAlone ==
  \A r \in Refreshes : refresh[r].clean /\ Refreshing(r) =>
    /\ \A o \in Refreshes \ {r} : ~Refreshing(o)
    /\ refresh[r].at # "end" => ~expired /\ refresh[r].seen = SeenSoFar(refresh[r].at)
    /\ refresh[r].at = "write" =>
         \A n \in 1..(refresh[r].next - 1) : FollowsEvidence(Signals[n], OwnRow(r, Signals[n]))
    /\ refresh[r].at = "end" => \A c \in Categories : FollowsEvidence(c, OwnRow(r, c))

(* And the second: rows a refresh has written are its own, and open or new.  *)
WrittenRowsHeld ==
  \A r \in Refreshes :
    /\ refresh[r].held \cap Locked(r) = {}
    /\ DOMAIN refresh[r].writes \subseteq refresh[r].held
    /\ \A c \in DOMAIN refresh[r].writes :
         item[c].status \in {"none", "open"} /\ refresh[r].writes[c].status \in {"open", "resolved"}

QueueInv == QueueTypeOK /\ CleanIsAlone /\ WrittenRowsHeld /\ QueueIsCurrent
=============================================================================

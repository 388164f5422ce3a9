------------------------- MODULE LearningWorkflowMC -------------------------
(***************************************************************************)
(* The reports a model makes, one kind of progress at a time: establishing *)
(* the goal, the plan's summary, a verification result with every request  *)
(* for a next stage, and the reflection.                                   *)
(***************************************************************************)
EXTENDS LearningWorkflow

Silent == [ready |-> FALSE, next |-> "none", goal |-> FALSE, understood |-> "none", summary |-> FALSE,
           passed |-> "none", reflected |-> "none"]

MCUpdates ==
  {[Silent EXCEPT !.ready = r, !.goal = TRUE, !.understood = "yes", !.next = n] :
     r \in BOOLEAN, n \in {"none", "implement"}}
  \cup {[Silent EXCEPT !.ready = r, !.summary = TRUE] : r \in BOOLEAN}
  \cup {[Silent EXCEPT !.ready = r, !.passed = p, !.next = n] :
     r \in BOOLEAN, p \in {"none", "yes"}, n \in Stages \cup {"none"}}
  \cup {[Silent EXCEPT !.ready = r, !.passed = "no"] : r \in BOOLEAN}
  \cup {[Silent EXCEPT !.ready = TRUE, !.reflected = "yes"]}
=============================================================================

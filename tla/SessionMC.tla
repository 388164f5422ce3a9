----------------------------- MODULE SessionMC -----------------------------
(***************************************************************************)
(* One session's workflow and the rounds of questions it puts to the       *)
(* student, side by side on small instances that share nothing: part names *)
(* the one a behaviour is of, the other stays at its start.                *)
(***************************************************************************)
EXTENDS LearningWorkflowMC, QuestionRounds

VARIABLE part

\* The questions share prompt 2 between a stage's and an intent's.
MCStageQuestions == [s \in AskStages |-> <<1, 2>>]
MCIntentQuestions == [i \in Intents |-> <<2, 3>>]

SessionInit ==
  /\ Init /\ AskInit
  /\ \/ part = "workflow" /\ learner.stage = "plan"
     \/ part = "questions"

SessionNext ==
  \/ part = "workflow" /\ Next /\ UNCHANGED <<part, askVars>>
  \/ part = "questions" /\ AskNext /\ UNCHANGED <<part, vars>>

SessionSpec == SessionInit /\ [][SessionNext]_<<part, vars, askVars>>

\* The types of the part's variables and what makes its properties inductive; the others keep their initial
\* values.
SessionInv == IF part = "workflow" THEN Inv ELSE AskInv
=============================================================================

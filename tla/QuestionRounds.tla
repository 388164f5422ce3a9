--------------------------- MODULE QuestionRounds ---------------------------
(***************************************************************************)
(* The rounds of questions student_ask puts to the student.  A prompt of   *)
(* the student routes the request to an intent; the rounds already held    *)
(* count on while the stage and the intent stay what they were at the      *)
(* prompt before.  The model asks its own questions, or has the question   *)
(* loop choose.  A call shows one dialog after the other and only a round  *)
(* answered to its end is recorded; refused calls change nothing.          *)
(***************************************************************************)
EXTENDS Naturals, SequencesExt, Sums

CONSTANTS
  AskStages, Intents, Prompts,
  NoIntent,     \* an ambiguous request
  Required,     \* prompts that need an answer that is not blank
  StageQuestions, IntentQuestions,   \* QUESTIONS_BY_STAGE, QUESTIONS_BY_INTENT
  MaxRounds, MaxQuestions

VARIABLES
  learner,   \* the workflow: its stage and intent, and whether /question is on
  asking,    \* student_ask's context
  askTurn,   \* "idle", "routing", "running", "asking"
  round,     \* the call under way: its questions, their ids, and whether each answer so far says something
  episode    \* history: the completed rounds since the stage or the intent last changed

askVars == <<learner, asking, askTurn, round, episode>>

ASSUME QuestionAssumption ==
  /\ MaxRounds \in Nat \ {0} /\ MaxQuestions \in Nat \ {0}
  /\ NoIntent \notin Intents /\ Required \subseteq Prompts
  /\ StageQuestions \in [AskStages -> Seq(Prompts)] /\ IntentQuestions \in [Intents -> Seq(Prompts)]

Routes == Intents \cup {NoIntent}
NoRound == [questions |-> <<>>, ids |-> <<>>, answers |-> <<>>]

QuestionContext ==
  [stage: AskStages, intent: Routes, message: BOOLEAN, known: SUBSET Prompts,
   rounds: 0..MaxRounds, previous: SUBSET Prompts, sufficient: BOOLEAN]

AskTypeOK ==
  /\ learner \in [stage: AskStages, intent: Routes, practising: BOOLEAN]
  /\ asking \in QuestionContext
  /\ askTurn \in {"idle", "routing", "running", "asking"}
  /\ round \in [questions: Seq(Prompts), ids: Seq(Nat), answers: Seq(BOOLEAN)]
  /\ Len(round.questions) <= MaxQuestions /\ Len(round.answers) <= Len(round.questions)
  /\ episode \in [rounds: Nat, prompts: SUBSET Prompts, again: BOOLEAN, sharedId: BOOLEAN]

NewEpisode == [rounds |-> 0, prompts |-> {}, again |-> FALSE, sharedId |-> FALSE]

AskInit ==
  /\ learner \in [stage: AskStages, intent: {NoIntent}, practising: {FALSE}]
  /\ asking = [stage |-> learner.stage, intent |-> NoIntent, message |-> FALSE, known |-> {},
               rounds |-> 0, previous |-> {}, sufficient |-> FALSE]
  /\ askTurn = "idle" /\ round = NoRound /\ episode = NewEpisode

------------------------------------------------------------------------------
(* The student's prompt. *)

\* During /question the context is left alone; the practice has no student_ask.
Prompted ==
  /\ askTurn = "idle"
  /\ askTurn' = IF learner.practising THEN "running" ELSE "routing"
  /\ UNCHANGED <<learner, asking, round, episode>>

\* A message with words of one intent, of several, or of none.  The last keeps the intent the workflow has.
routeIntent(words, current) ==
  CASE words \in Intents -> words
    [] words = "mixed" -> NoIntent
    [] OTHER -> current   \* "plain"

Continuing(stage, intent) == asking.stage = stage /\ asking.intent = intent

\* The project has been inspected: known are the questions it answers.
Routed(words, message, known) ==
  LET stage == learner.stage
      intent == routeIntent(words, learner.intent)
      carried == Continuing(stage, intent)
  IN /\ askTurn = "routing" /\ askTurn' = "running"
     /\ learner' = [learner EXCEPT !.intent = intent]
     /\ asking' = [stage |-> stage, intent |-> intent, message |-> message, known |-> known,
                   rounds |-> IF carried THEN asking.rounds ELSE 0,
                   previous |-> IF carried THEN asking.previous ELSE {},
                   sufficient |-> carried /\ asking.sufficient]
     /\ episode' = IF asking.stage = stage /\ asking.intent = intent THEN episode ELSE NewEpisode
     /\ UNCHANGED round

\* learning_state, student_plan and /question.
StageChanges(s) ==
  /\ askTurn = "running" /\ ~learner.practising /\ s # learner.stage
  /\ learner' = [learner EXCEPT !.stage = s]
  /\ UNCHANGED <<asking, askTurn, round, episode>>

PracticeToggled ==
  /\ askTurn \in {"idle", "routing"}
  /\ learner' = [learner EXCEPT !.practising = ~@]
  /\ UNCHANGED <<asking, askTurn, round, episode>>

AskTurnEnds ==
  /\ askTurn = "running" /\ askTurn' = "idle"
  /\ UNCHANGED <<learner, asking, round, episode>>

------------------------------------------------------------------------------
(* A call of student_ask. *)

\* StudentQuestionLoop: the decision engine in use abstains on sufficiency, so the rounds decide.
evaluate ==
  /\ asking.message \/ asking.previous # {}
  /\ ~asking.sufficient
  /\ asking.rounds < MaxRounds

Template == IF asking.intent # NoIntent THEN IntentQuestions[asking.intent] ELSE StageQuestions[asking.stage]

\* The budget depends on the message's length where there is no intent.
buildQuestions(budget) ==
  LET new == Without(Template, asking.previous \cup asking.known)
  IN IF evaluate THEN SubSeq(new, 1, IF Len(new) < budget THEN Len(new) ELSE budget) ELSE <<>>

Show(questions, ids) ==
  /\ askTurn = "running" /\ askTurn' = "asking"
  /\ ~learner.practising
  /\ asking.rounds < MaxRounds
  /\ questions # <<>> /\ Len(questions) <= MaxQuestions
  /\ round' = [questions |-> questions, ids |-> ids, answers |-> <<>>]
  /\ UNCHANGED <<learner, asking>>

\* Prompts are compared, ids are not.
AskTheirOwn(questions, ids) ==
  /\ IsInjective(questions)
  /\ ToSet(questions) \cap asking.previous = {}
  /\ Show(questions, ids) /\ UNCHANGED episode

AskFromLoop(budget) ==
  LET questions == buildQuestions(IF asking.intent # NoIntent THEN MaxQuestions ELSE budget)
  IN Show(questions, [i \in DOMAIN questions |-> i]) /\ UNCHANGED episode

\* askQuestion shows a required question again until the answer says something.
BadAnswerQuestion(says) ==
  /\ askTurn = "asking" /\ Len(round.answers) < Len(round.questions)
  /\ round' = [round EXCEPT !.answers = Append(@, says)]
  /\ UNCHANGED <<learner, asking, askTurn, episode>>

answerQuestion(says) ==
  /\ askTurn = "asking" /\ Len(round.answers) < Len(round.questions)
  /\ round.questions[Len(round.answers) + 1] \in Required => says
  /\ round' = [round EXCEPT !.answers = Append(@, says)]
  /\ UNCHANGED <<learner, asking, askTurn, episode>>

\* The student closes a dialog: answers given in this round are not recorded.
AskCancelled ==
  /\ askTurn = "asking" /\ Len(round.answers) < Len(round.questions)
  /\ askTurn' = "running" /\ round' = NoRound
  /\ UNCHANGED <<learner, asking, episode>>

\* The last answer given under an id counts for every question with that id.
answerById(id) == round.answers[CHOOSE i \in DOMAIN round.ids : /\ round.ids[i] = id
                                                             /\ \A j \in DOMAIN round.ids : round.ids[j] = id => j <= i]

processAnswers ==
  \A i \in DOMAIN round.questions : round.questions[i] \in Required => answerById(round.ids[i])

RoundCompletes ==
  LET prompts == ToSet(round.questions)
  IN /\ askTurn = "asking" /\ Len(round.answers) = Len(round.questions)
     /\ askTurn' = "running" /\ round' = NoRound
     /\ asking' = [asking EXCEPT !.rounds = @ + 1, !.previous = @ \cup prompts, !.sufficient = processAnswers]
     /\ episode' = [episode EXCEPT !.rounds = @ + 1, !.prompts = @ \cup prompts,
                                   !.again = @ \/ prompts \cap episode.prompts # {},
                                   !.sharedId = ~IsInjective(round.ids)]
     /\ UNCHANGED learner

AskNext ==
  \/ Prompted \/ PracticeToggled \/ AskTurnEnds
  \/ \E words \in Intents \cup {"mixed", "plain"}, message \in BOOLEAN, known \in SUBSET Prompts : Routed(words, message, known)
  \/ \E s \in AskStages : StageChanges(s)
  \/ \E n \in 1..MaxQuestions : \E questions \in [1..n -> Prompts], ids \in [1..n -> 1..n] : AskTheirOwn(questions, ids)
  \/ \E budget \in 1..MaxQuestions : AskFromLoop(budget)
  \/ \E says \in BOOLEAN : answerQuestion(says)
  \/ AskCancelled \/ RoundCompletes

AskSpec == AskInit /\ [][AskNext]_askVars

------------------------------------------------------------------------------
\* While a student's prompts keep the stage and the intent, the model and the loop together get at most
\* MaxRounds rounds answered and no prompt is answered in two of them; and the loop, whose questions are
\* meant for a student who has said too little, adds no round of its own once one has been completed, since
\* no round completes with a required answer left blank; unless the model gave two questions of that round
\* one id.
RoundsEnd ==
  /\ episode.rounds <= MaxRounds
  /\ ~episode.again
  /\ episode.rounds > 0 /\ ~episode.sharedId => ~evaluate

\* RoundsEnd, made inductive: the context counts and remembers what was completed since the stage or the intent
\* changed, nothing shown has been answered before, and no required answer so far is blank.
AskInv ==
  /\ AskTypeOK /\ RoundsEnd
  /\ episode.rounds = asking.rounds /\ episode.prompts = asking.previous
  /\ episode.rounds > 0 /\ ~episode.sharedId => asking.sufficient
  /\ askTurn = "asking" =>
       /\ asking.rounds < MaxRounds
       /\ ToSet(round.questions) \cap asking.previous = {}
       /\ DOMAIN round.ids = DOMAIN round.questions
       /\ \A i \in DOMAIN round.answers : round.questions[i] \in Required => round.answers[i]
=============================================================================

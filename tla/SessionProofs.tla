---------------------------- MODULE SessionProofs ----------------------------
(***************************************************************************)
(* Theorems about a session: LearningWorkflow, for every set of reports,   *)
(* every setting of Learn Mode and every bound; and QuestionRounds, for    *)
(* every list of questions and every bound on the rounds.                  *)
(***************************************************************************)
EXTENDS SessionMC, SumsProofs

-----------------------------------------------------------------------------
(* LearningWorkflow *)

(* Which calls each stage lets through. *)
LEMMA ToolsByStage ==
  ASSUME Inv
  PROVE  /\ \A stage \in Stages : TOOLS_BY_STAGE[stage] \subseteq Tools
         /\ wf.stage \in Stages
         /\ MayCall("edit") => question = "off" /\ wf.stage \in {"implement", "verify"}
         /\ MayCall("save_to_desktop") => question = "off" /\ wf.stage = "reflect"
         /\ MayCall("student_plan") => question = "off"
         /\ MayCall("learning_state") => question = "off"
<1>1. \A stage \in Stages : TOOLS_BY_STAGE[stage] \subseteq Tools
  BY DEF Stages, TOOLS_BY_STAGE, Tools
<1>2. wf.stage \in Stages
  BY DEF Inv, TypeOK, LearningSession
<1>3. ASSUME NEW t \in {"edit", "save_to_desktop", "student_plan", "learning_state"}, MayCall(t)
      PROVE  question = "off" /\ t \in TOOLS_BY_STAGE[wf.stage]
  <2>1. CanUseTool(t)
    BY <1>3 DEF MayCall
  <2>2. question = "off"
    <3>1. SUFFICES ASSUME question # "off" PROVE FALSE
      OBVIOUS
    <3>2. t \in Current
      BY <2>1, <3>1 DEF CanUseTool
    <3>3. Current = (TOOLS_BY_STAGE[wf.stage] \cap {"read", "bash"}) \cup {"codebase_model"}
      BY <3>1 DEF Current, Now, AllowedTools
    <3> QED BY <3>2, <3>3
  <2> QED BY <2>1, <2>2 DEF CanUseTool
<1>4. "edit" \in TOOLS_BY_STAGE[wf.stage] => wf.stage \in {"implement", "verify"}
  BY <1>2 DEF Stages, TOOLS_BY_STAGE
<1>5. "save_to_desktop" \in TOOLS_BY_STAGE[wf.stage] => wf.stage = "reflect"
  BY <1>2 DEF Stages, TOOLS_BY_STAGE
<1> QED BY <1>1, <1>2, <1>3, <1>4, <1>5

(* Every list of tools the workflow gives is made of the known tools. *)
LEMMA ListsOfTools ==
  ASSUME NEW stage \in Stages, NEW practising \in BOOLEAN, NEW learning \in BOOLEAN
  PROVE  /\ AllowedTools(stage, practising, learning) \in ToolLists
         /\ AllowedTools(stage, practising, learning) \subseteq Tools
<1>1. AllowedTools(stage, practising, learning) \in ToolLists
  BY DEF ToolLists
<1>2. TOOLS_BY_STAGE[stage] \subseteq Tools
  BY DEF Stages, TOOLS_BY_STAGE, Tools
<1>3. "codebase_model" \in Tools
  BY DEF Tools
<1> QED BY <1>1, <1>2, <1>3 DEF AllowedTools

(* A change that is announced keeps the tools and the refreshes in type. *)
LEMMA NotifyType ==
  ASSUME TypeOK, NEW w, w.stage \in Stages, NEW q, NEW l \in BOOLEAN, Notify(Now(w, q, l))
  PROVE  active' \subseteq Tools /\ refreshes' \in [ToolLists -> Nat]
<1>1. Now(w, q, l) \in ToolLists /\ Now(w, q, l) \subseteq Tools
  BY ListsOfTools DEF Now
<1>2. active' = Now(w, q, l) /\ refreshes' = [refreshes EXCEPT ![Now(w, q, l)] = @ + 1]
  BY DEF Notify
<1> QED BY <1>1, <1>2 DEF TypeOK

LEMMA InitInv == Init => Inv
<1> SUFFICES ASSUME Init PROVE Inv
  OBVIOUS
<1>1. wf \in LearningSession
  BY BoundsAssumption DEF Init, LearningSession, Stages
<1>2. active \subseteq Tools
  BY DEF Init, TOOLS_BY_STAGE, Tools
<1>3. refreshes \in [ToolLists -> Nat]
  BY DEF Init
<1>4. TypeOK
  <2>1. learn \in BOOLEAN
    BY DEF Init
  <2>2. confirmed \in 0..MaxSteps
    BY BoundsAssumption DEF Init
  <2> QED BY <1>1, <1>2, <1>3, <2>1, <2>2 DEF Init, TypeOK
<1>5. Planned /\ Confirmed /\ Checked
  BY DEF Init, Planned, Confirmed, Checked
<1> QED BY <1>4, <1>5 DEF Inv

(* The steps that leave the workflow, the history and the project alone. *)
Idle ==
  /\ UNCHANGED <<wf, version, saved, history>>
  /\ question' \in {"off", "generate", "answer"} /\ questionTurn' \in {"off", "generate", "answer"}
  /\ learn' \in BOOLEAN
  /\ turn' \in {"idle", "guard", "running"}
  /\ active' \subseteq Tools /\ offered' \subseteq Tools
  /\ refreshes' \in [ToolLists -> Nat]

LEMMA IdleInv == Inv /\ Idle => Inv'
  BY DEF Inv, Idle, TypeOK, Planned, Confirmed, Checked, history

LEMMA IdleSteps ==
  ASSUME Inv,
         \/ Prompt \/ Refused \/ StartTurn \/ Respond \/ Settle \/ StartPractice \/ EndPractice
         \/ \E tools \in ToolLists : Resume(tools) \/ ResumeFails(tools)
         \/ Restart
  PROVE  Idle
<1> USE DEF Inv, TypeOK
<1>1. wf.stage \in Stages
  BY DEF LearningSession
<1>2. Current \in ToolLists /\ Current \subseteq Tools
  BY <1>1, ListsOfTools DEF Current, Now
<1>3. CASE Prompt
  BY <1>3 DEF Prompt, Idle, work, history
<1>4. CASE Refused
  BY <1>4 DEF Refused, Idle, work, history
<1>5. CASE StartTurn
  <2>1. learn' \in BOOLEAN
    BY <1>5, LearnAssumption DEF StartTurn
  <2>2. active' \subseteq Tools /\ refreshes' \in [ToolLists -> Nat]
    BY <1>1, <1>2, <1>5, <2>1, NotifyType DEF StartTurn
  <2> QED BY <1>5, <2>1, <2>2 DEF StartTurn, Idle, history
<1>6. CASE Respond
  BY <1>6 DEF Respond, Idle, work, history
<1>7. CASE Settle
  <2>1. active' \subseteq Tools /\ refreshes' \in [ToolLists -> Nat]
    BY <1>1, <1>7, NotifyType DEF Settle
  <2> QED BY <1>7, <2>1 DEF Settle, Idle, history
<1>8. CASE StartPractice
  <2>1. active' \subseteq Tools /\ refreshes' \in [ToolLists -> Nat]
    BY <1>1, <1>8, NotifyType DEF StartPractice
  <2> QED BY <1>8, <2>1 DEF StartPractice, Idle, history
<1>9. CASE EndPractice
  <2>1. active' \subseteq Tools /\ refreshes' \in [ToolLists -> Nat]
    BY <1>1, <1>9, NotifyType DEF EndPractice
  <2> QED BY <1>9, <2>1 DEF EndPractice, Idle, history, session
<1>10. ASSUME NEW tools \in ToolLists, Resume(tools) \/ ResumeFails(tools)
       PROVE  Idle
  <2>1. tools \subseteq Tools
    BY ListsOfTools DEF ToolLists
  <2>2. "school" \in Tools
    BY DEF Tools
  <2>3. active' \subseteq Tools
    BY <1>2, <1>10, <2>1, <2>2 DEF Resume, ResumeFails
  <2>4. refreshes' \in [ToolLists -> Nat]
    BY <1>10 DEF Resume, ResumeFails
  <2> QED BY <1>10, <2>3, <2>4 DEF Resume, ResumeFails, Idle, work, session, history
<1>11. CASE Restart
  <2>1. learn' \in BOOLEAN
    BY <1>11, LearnAssumption DEF Restart
  <2>2. active' \subseteq Tools
    BY <1>1, <1>11, <2>1, ListsOfTools DEF Restart, Now
  <2> QED BY <1>11, <2>1, <2>2 DEF Restart, Idle, history
<1> QED BY <1>3, <1>4, <1>5, <1>6, <1>7, <1>8, <1>9, <1>10, <1>11

------------------------------------------------------------------------------
(* The calls. *)

LEMMA ChangeFilesInv == Inv /\ ChangeFiles => Inv' /\ wf.approved
<1> SUFFICES ASSUME Inv, ChangeFiles PROVE Inv' /\ wf.approved
  OBVIOUS
<1>1. wf.stage \in {"implement", "verify"} /\ wf.stage \in Stages
  BY ToolsByStage DEF ChangeFiles, MayChangeFiles
<1>2. wf.approved
  BY <1>1 DEF Inv, Planned
<1>3. TypeOK'
  BY <1>1 DEF Inv, TypeOK, ChangeFiles, work, session
<1>4. Checked'
  <2>1. CASE wf.stage = "implement"
    BY <2>1 DEF ChangeFiles, Checked, work
  <2>2. CASE wf.stage = "verify"
    BY <2>2 DEF Inv, ChangeFiles, Checked, work
  <2> QED BY <1>1, <2>1, <2>2
<1>5. Planned' /\ Confirmed'
  BY DEF Inv, ChangeFiles, Planned, Confirmed, work
<1> QED BY <1>2, <1>3, <1>4, <1>5 DEF Inv

LEMMA SaveInv == Inv /\ Save => Inv' /\ "implement" \notin unchecked
<1> SUFFICES ASSUME Inv, Save PROVE Inv' /\ "implement" \notin unchecked
  OBVIOUS
<1>1. wf.stage = "reflect" /\ wf.passed = "yes"
  BY ToolsByStage DEF Save
<1>2. TypeOK'
  BY DEF Inv, TypeOK, Save, work, session, history
<1> QED BY <1>1, <1>2 DEF Inv, Save, Planned, Confirmed, Checked, work, history

LEMMA AddStepInv == Inv /\ AddStep => Inv'
<1> SUFFICES ASSUME Inv, AddStep PROVE Inv'
  OBVIOUS
<1>1. wf.steps \in 0..MaxSteps /\ wf.steps < MaxSteps /\ wf.steps + 1 \in 0..MaxSteps
  BY BoundsAssumption DEF Inv, TypeOK, LearningSession, AddStep
<1>2. wf' \in LearningSession
  BY <1>1 DEF Inv, TypeOK, LearningSession, AddStep
<1>3. active' \subseteq Tools /\ refreshes' \in [ToolLists -> Nat]
  BY NotifyType, ToolsByStage DEF AddStep, Current, Inv, TypeOK
<1>4. TypeOK'
  BY <1>2, <1>3 DEF Inv, TypeOK, AddStep, session, history
<1>5. wf'.stage = "plan" /\ wf'.approved = wf.approved
  BY DEF AddStep, Inv, TypeOK, LearningSession
<1>6. ~wf.approved
  BY DEF AddStep
<1> QED BY <1>4, <1>5, <1>6 DEF Inv, Planned, Confirmed, Checked

LEMMA ApproveInv == Inv /\ Approve => Inv'
<1> SUFFICES ASSUME Inv, Approve PROVE Inv'
  OBVIOUS
<1>1. wf' \in LearningSession
  BY DEF Inv, TypeOK, LearningSession, Approve
<1>2. active' \subseteq Tools /\ refreshes' \in [ToolLists -> Nat]
  BY NotifyType, ToolsByStage DEF Approve, Current, Inv, TypeOK
<1>3. confirmed' \in 0..MaxSteps
  BY DEF Inv, TypeOK, LearningSession, Approve
<1>4. TypeOK'
  BY <1>1, <1>2, <1>3 DEF Inv, TypeOK, Approve, session
<1>5. wf'.stage = "plan" /\ wf'.steps = wf.steps /\ wf.steps > 0 /\ confirmed' = wf.steps
  BY DEF Approve, Inv, TypeOK, LearningSession
<1> QED BY <1>4, <1>5 DEF Inv, Planned, Confirmed, Checked

(* Applying a report touches neither the stage nor the plan. *)
LEMMA AppliedType ==
  ASSUME Inv, NEW u \in Updates
  PROVE  /\ Applied(u) \in LearningSession
         /\ Applied(u).stage = wf.stage /\ Applied(u).steps = wf.steps
         /\ Applied(u).approved = wf.approved
         /\ Applied(u).passed = IF u.passed = "none" THEN wf.passed ELSE u.passed
<1>1. wf \in LearningSession /\ u \in LearningStateUpdate
  BY UpdatesAssumption DEF Inv, TypeOK
<1>2. DEFINE passed == IF u.passed = "none" THEN wf.passed ELSE u.passed
<1>3. passed \in {"none", "yes", "no"}
  BY <1>1 DEF LearningSession, LearningStateUpdate
<1>4. Flag(u.understood, wf.understood) \in BOOLEAN /\ Flag(u.reflected, wf.reflected) \in BOOLEAN
  BY <1>1 DEF Flag, LearningSession, LearningStateUpdate
<1>5. (wf.goal \/ u.goal) \in BOOLEAN /\ (wf.summary \/ u.summary) \in BOOLEAN
  OBVIOUS
<1>6. Applied(u) = [wf EXCEPT !.goal = wf.goal \/ u.goal, !.understood = Flag(u.understood, wf.understood),
                    !.summary = wf.summary \/ u.summary, !.passed = passed,
                    !.reflected = Flag(u.reflected, wf.reflected)]
  BY <1>1 DEF Applied, LearningSession
<1> HIDE DEF passed
<1>7. /\ Applied(u) \in LearningSession
      /\ Applied(u).stage = wf.stage /\ Applied(u).steps = wf.steps
      /\ Applied(u).approved = wf.approved /\ Applied(u).passed = passed
  BY <1>1, <1>3, <1>4, <1>5, <1>6 DEF LearningSession
<1> QED BY <1>7 DEF passed

LEMMA EntryType ==
  ASSUME NEW c \in LearningSession, NEW to \in LEGAL_TRANSITIONS[c.stage]
  PROVE  /\ PrepareStageEntry(c, to) \in LearningSession
         /\ PrepareStageEntry(c, to).stage = to /\ PrepareStageEntry(c, to).steps = c.steps
         /\ PrepareStageEntry(c, to).approved = (c.approved /\ ~(to = "plan" /\ c.stage # "understand"))
         /\ PrepareStageEntry(c, to).passed =
              IF <<c.stage, to>> \in {<<"plan", "implement">>, <<"implement", "review">>} THEN "none" ELSE c.passed
         /\ to \in Stages
<1>1. c.stage \in Stages
  BY DEF LearningSession
<1>2. to \in Stages
  BY <1>1 DEF LEGAL_TRANSITIONS, Stages
<1> QED BY <1>2 DEF PrepareStageEntry, LearningSession

LEMMA ReportInv == ASSUME Inv, NEW u \in Updates, Report(u) PROVE Inv'
<1> DEFINE c == Applied(u)
           to == NextStage(c, u)
<1>1. /\ c \in LearningSession /\ c.stage = wf.stage /\ c.steps = wf.steps
      /\ c.approved = wf.approved
      /\ c.passed = IF u.passed = "none" THEN wf.passed ELSE u.passed
  BY AppliedType
<1>2. wf.stage \in Stages
  BY ToolsByStage
<1>3. unchecked' = IF u.passed = "yes" /\ wf.stage \in {"review", "verify", "reflect"} THEN {} ELSE unchecked
  BY DEF Report
<1>4. \/ wf' = c
      \/ /\ AssertReadyForTransition(c)
         /\ c.stage # "reflect"
         /\ c.stage = "verify" => to = DefaultNextStage(c)
         /\ to \in LEGAL_TRANSITIONS[c.stage]
         /\ wf' = PrepareStageEntry(c, to)
  BY DEF Report
<1> HIDE DEF c, to
<1>5. wf' \in LearningSession
  BY <1>1, <1>4, EntryType
<1>6. TypeOK'
  <2>1. wf'.stage \in Stages
    BY <1>5 DEF LearningSession
  <2>2. active' \subseteq Tools /\ refreshes' \in [ToolLists -> Nat]
    BY <2>1, NotifyType DEF Report, Inv, TypeOK
  <2>3. unchecked' \subseteq Stages
    BY <1>3 DEF Inv, TypeOK
  <2> QED BY <1>5, <2>2, <2>3 DEF Inv, TypeOK, Report, session
<1>7. CASE wf' = c
  <2>1. Planned' /\ Confirmed'
    BY <1>1, <1>7 DEF Inv, Planned, Confirmed, Report
  <2>2. Checked'
    BY <1>1, <1>3, <1>7 DEF Inv, Checked
  <2> QED BY <1>6, <2>1, <2>2 DEF Inv
<1>8. CASE /\ AssertReadyForTransition(c)
           /\ c.stage # "reflect"
           /\ c.stage = "verify" => to = DefaultNextStage(c)
           /\ to \in LEGAL_TRANSITIONS[c.stage]
           /\ wf' = PrepareStageEntry(c, to)
  <2>1. /\ wf'.stage = to /\ wf'.steps = wf.steps
        /\ wf'.approved = (wf.approved /\ ~(to = "plan" /\ wf.stage # "understand"))
        /\ wf'.passed = IF <<wf.stage, to>> \in {<<"plan", "implement">>, <<"implement", "review">>}
                         THEN "none" ELSE c.passed
    BY <1>1, <1>8, EntryType
  <2>2. <<wf.stage, to>> \in {<<"understand", "plan">>, <<"plan", "implement">>, <<"implement", "review">>,
                              <<"implement", "plan">>, <<"review", "implement">>, <<"review", "plan">>,
                              <<"review", "verify">>, <<"verify", "implement">>, <<"verify", "reflect">>}
    BY <1>1, <1>2, <1>8 DEF LEGAL_TRANSITIONS, Stages
  <2>3. wf.stage = "plan" => wf.approved
    BY <1>1, <1>8 DEF AssertReadyForTransition
  <2>4. Planned'
    BY <2>1, <2>2, <2>3 DEF Inv, Planned
  <2>5. Confirmed'
    BY <2>1 DEF Inv, Confirmed, Report
  <2>6. Checked'
    BY <1>1, <1>3, <2>1, <2>2 DEF Inv, Checked
  <2> QED BY <1>6, <2>4, <2>5, <2>6 DEF Inv
<1> QED BY <1>4, <1>7, <1>8

------------------------------------------------------------------------------
LEMMA NextInv == Inv /\ [Next]_vars => Inv'
<1> SUFFICES ASSUME Inv, [Next]_vars PROVE Inv'
  OBVIOUS
<1>1. ASSUME NEW u \in Updates, Report(u) PROVE Inv'
  BY <1>1, ReportInv
<1>2. CASE UNCHANGED vars
  BY <1>2 DEF vars, work, session, history, Inv, TypeOK, Planned, Confirmed, Checked
<1> QED BY <1>1, <1>2, IdleSteps, IdleInv, ChangeFilesInv, SaveInv, AddStepInv, ApproveInv DEF Next

LEMMA Invariance == Spec => []Inv
<1>1. Init => Inv
  BY InitInv
<1>2. Inv /\ [Next]_vars => Inv'
  BY NextInv
<1> QED BY <1>1, <1>2, PTL DEF Spec

(* The variables keep their types. *)
THEOREM TypeCorrect == Spec => []TypeOK
<1>1. Inv => TypeOK
  BY DEF Inv
<1> QED BY <1>1, Invariance, PTL

(* Files change only under the plan as the student approved it. *)
THEOREM EditsAreApproved == Spec => EditsFollowApproval
<1>1. Inv /\ [Next]_vars => [version' # version => wf.approved /\ wf.steps > 0 /\ confirmed = wf.steps]_vars
  <2> SUFFICES ASSUME Inv, [Next]_vars, version' # version
               PROVE  wf.approved /\ wf.steps > 0 /\ confirmed = wf.steps
    OBVIOUS
  <2>1. ChangeFiles
    <3>1. ASSUME NEW u \in Updates, Report(u) PROVE FALSE
      BY <3>1 DEF Report
    <3>2. CASE UNCHANGED vars
      BY <3>2 DEF vars
    <3>3. ~Idle
      BY DEF Idle
    <3> QED BY <3>1, <3>2, <3>3, IdleSteps DEF Next, AddStep, Approve, Save
  <2> QED BY <2>1, ChangeFilesInv DEF Inv, Confirmed
<1> QED BY <1>1, Invariance, PTL DEF Spec, EditsFollowApproval

(* What is copied to the Desktop has been reviewed and reported to pass    *)
(* since IMPLEMENT last changed it.                                        *)
THEOREM SavesAreChecked == Spec => SavesFollowAPass
<1>1. Inv /\ [Next]_vars => [saved' # saved => "implement" \notin unchecked]_vars
  <2> SUFFICES ASSUME Inv, [Next]_vars, saved' # saved
               PROVE  "implement" \notin unchecked
    OBVIOUS
  <2>1. Save
    <3>1. ASSUME NEW u \in Updates, Report(u) PROVE FALSE
      BY <3>1 DEF Report
    <3>2. CASE UNCHANGED vars
      BY <3>2 DEF vars
    <3>3. ~Idle
      BY DEF Idle
    <3> QED BY <3>1, <3>2, <3>3, IdleSteps DEF Next, AddStep, Approve, ChangeFiles
  <2> QED BY <2>1, SaveInv
<1> QED BY <1>1, Invariance, PTL DEF Spec, SavesFollowAPass

(* Practice reads and nothing more. *)
THEOREM PracticeReads == Spec => PracticeIsReadOnly
<1>1. Inv /\ [Next]_vars => [question # "off" => UNCHANGED <<wf, version, saved>>]_vars
  <2> SUFFICES ASSUME Inv, [Next]_vars, question # "off"
               PROVE  UNCHANGED <<wf, version, saved>>
    OBVIOUS
  <2>1. ~Save /\ ~AddStep /\ ~Approve /\ ~ChangeFiles
    BY ToolsByStage DEF Save, AddStep, Approve, ChangeFiles, MayChangeFiles
  <2>2. ASSUME NEW u \in Updates PROVE ~Report(u)
    BY ToolsByStage DEF Report
  <2>3. CASE UNCHANGED vars
    BY <2>3 DEF vars, work
  <2>4. Idle => UNCHANGED <<wf, version, saved>>
    BY DEF Idle
  <2> QED BY <2>1, <2>2, <2>3, <2>4, IdleSteps DEF Next
<1> QED BY <1>1, Invariance, PTL DEF Spec, PracticeIsReadOnly

-----------------------------------------------------------------------------
(* The rounds of questions *)

(* The loop's own questions are new, and come from its templates.           *)
LEMMA LoopQuestionsAreNew ==
  ASSUME AskInv, NEW budget \in 1..MaxQuestions
  PROVE  /\ buildQuestions(budget) \in Seq(Prompts)
         /\ ToSet(buildQuestions(budget)) \cap asking.previous = {}
<1> DEFINE P == asking.previous \cup asking.known
           new == Without(Template, P)
           n == IF Len(new) < budget THEN Len(new) ELSE budget
<1>1. Template \in Seq(Prompts)
  <2>1. asking.stage \in AskStages /\ asking.intent \in Intents \cup {NoIntent}
    BY DEF AskInv, AskTypeOK, QuestionContext, Routes
  <2> QED BY <2>1, QuestionAssumption DEF Template
<1>2. new \in Seq(Prompts \ P)
  <2> HIDE DEF P
  <2> QED BY <1>1, WithoutIsLeft
<1>3. buildQuestions(budget) = IF evaluate THEN SubSeq(new, 1, n) ELSE <<>>
  BY DEF buildQuestions
<1> HIDE DEF P, new
<1>4. n \in 0..Len(new) /\ Len(new) \in Nat
  BY <1>2, QuestionAssumption
<1> HIDE DEF n
<1>5. /\ SubSeq(new, 1, n) \in Seq(Prompts \ P)
      /\ <<>> \in Seq(Prompts \ P)
  BY <1>2, <1>4
<1>6. buildQuestions(budget) \in Seq(Prompts \ P)
  BY <1>3, <1>5
<1> DEFINE q == buildQuestions(budget)
<1> HIDE DEF q
<1>7. q \in Seq(Prompts \ P)
  BY <1>6 DEF q
<1>8. q \in Seq(Prompts) /\ \A j \in DOMAIN q : q[j] \notin asking.previous
  BY <1>7 DEF P
<1> QED BY <1>8 DEF q, ToSet

(* The parts of AskInv that speak of what has been completed and of what is *)
(* shown.                                                                   *)
Counted ==
  /\ episode.rounds = asking.rounds /\ episode.prompts = asking.previous
  /\ ~episode.again
  /\ episode.rounds > 0 /\ ~episode.sharedId => asking.sufficient

Shown ==
  askTurn = "asking" =>
    /\ asking.rounds < MaxRounds
    /\ ToSet(round.questions) \cap asking.previous = {}
    /\ DOMAIN round.ids = DOMAIN round.questions
    /\ \A i \in DOMAIN round.answers : round.questions[i] \in Required => round.answers[i]

(* They are all of it: a context that has counted enough rounds asks none.  *)
LEMMA AskInvParts == AskInv <=> AskTypeOK /\ Counted /\ Shown
<1>1. AskTypeOK /\ Counted => RoundsEnd
  <2> SUFFICES ASSUME AskTypeOK, Counted PROVE RoundsEnd
    OBVIOUS
  <2>1. asking.rounds \in 0..MaxRounds
    BY DEF AskTypeOK, QuestionContext
  <2> QED BY <2>1, QuestionAssumption DEF Counted, RoundsEnd, evaluate
<1> QED BY <1>1 DEF AskInv, Counted, Shown, RoundsEnd

(* No round has been held when a session starts. *)
LEMMA AskInvInit == AskInit => AskInv
<1> SUFFICES ASSUME AskInit PROVE AskInv
  OBVIOUS
<1>1. AskTypeOK
  <2>1. learner \in [stage: AskStages, intent: Routes, practising: BOOLEAN]
    BY DEF AskInit, Routes
  <2>2. 0 \in 0..MaxRounds /\ NoIntent \in Routes
    BY QuestionAssumption DEF Routes
  <2>3. asking \in QuestionContext
    BY <2>1, <2>2 DEF AskInit, QuestionContext
  <2>4. /\ round \in [questions: Seq(Prompts), ids: Seq(Nat), answers: Seq(BOOLEAN)]
        /\ Len(round.questions) <= MaxQuestions /\ Len(round.answers) <= Len(round.questions)
    BY QuestionAssumption DEF AskInit, NoRound
  <2>5. askTurn = "idle" /\ episode = NewEpisode
    BY DEF AskInit
  <2> QED BY <2>1, <2>3, <2>4, <2>5 DEF AskTypeOK, NewEpisode
<1>2. Counted /\ Shown
  BY DEF AskInit, Counted, Shown, NewEpisode
<1> QED BY <1>1, <1>2, AskInvParts

(* A prompt that is routed carries the rounds on or starts anew, in the     *)
(* context and in the history alike.                                        *)
LEMMA RoutedKeeps ==
  ASSUME AskInv, NEW words \in Intents \cup {"mixed", "plain"}, NEW message \in BOOLEAN,
         NEW known \in SUBSET Prompts, Routed(words, message, known)
  PROVE  AskInv'
<1> DEFINE intent == routeIntent(words, learner.intent)
           carried == Continuing(learner.stage, intent)
<1>1. learner \in [stage: AskStages, intent: Routes, practising: BOOLEAN] /\ asking \in QuestionContext
  BY DEF AskInv, AskTypeOK
<1>2. intent \in Routes
  BY <1>1 DEF routeIntent, Routes
<1> HIDE DEF intent
<1>3. /\ learner' = [learner EXCEPT !.intent = intent]
      /\ asking' = [stage |-> learner.stage, intent |-> intent, message |-> message, known |-> known,
                    rounds |-> IF carried THEN asking.rounds ELSE 0,
                    previous |-> IF carried THEN asking.previous ELSE {},
                    sufficient |-> carried /\ asking.sufficient]
      /\ episode' = IF carried THEN episode ELSE NewEpisode
      /\ askTurn' = "running" /\ round' = round
  BY DEF Routed, intent, Continuing
<1>4. carried \in BOOLEAN
  BY DEF Continuing
<1> HIDE DEF carried
<1>5. learner' \in [stage: AskStages, intent: Routes, practising: BOOLEAN]
  BY <1>1, <1>2, <1>3
<1>6. /\ (IF carried THEN asking.rounds ELSE 0) \in 0..MaxRounds
      /\ (IF carried THEN asking.previous ELSE {}) \in SUBSET Prompts
      /\ asking.sufficient \in BOOLEAN
  BY <1>1, QuestionAssumption DEF QuestionContext
<1>7. asking' \in QuestionContext
  BY <1>1, <1>2, <1>3, <1>4, <1>6 DEF QuestionContext
<1>8. AskTypeOK'
  BY <1>3, <1>5, <1>7 DEF AskInv, AskTypeOK, NewEpisode
<1>9. Counted'
  <2>1. Counted
    BY AskInvParts
  <2>2. CASE carried
    <3>1. /\ asking'.rounds = asking.rounds /\ asking'.previous = asking.previous
          /\ asking'.sufficient = (carried /\ asking.sufficient) /\ episode' = episode
      BY <1>3, <2>2
    <3>2. asking.sufficient => asking'.sufficient
      BY <2>2, <3>1
    <3> QED BY <2>1, <3>1, <3>2 DEF Counted
  <2>3. CASE ~carried
    <3>1. asking'.rounds = 0 /\ asking'.previous = {} /\ episode' = NewEpisode
      BY <1>3, <2>3
    <3> QED BY <3>1 DEF Counted, NewEpisode
  <2> QED BY <2>2, <2>3
<1>10. Shown'
  BY <1>3 DEF Shown
<1> QED BY <1>8, <1>9, <1>10, AskInvParts, PTL

(* Questions that are shown have not been answered before. *)
LEMMA ShowKeeps ==
  ASSUME AskInv, NEW questions \in Seq(Prompts), NEW ids \in Seq(Nat), DOMAIN ids = DOMAIN questions,
         ToSet(questions) \cap asking.previous = {}, Show(questions, ids), UNCHANGED episode
  PROVE  AskInv'
<1>1. /\ askTurn' = "asking" /\ learner' = learner /\ asking' = asking /\ episode' = episode
      /\ round' = [questions |-> questions, ids |-> ids, answers |-> <<>>]
      /\ asking.rounds < MaxRounds /\ Len(questions) <= MaxQuestions
  BY DEF Show
<1>2. AskTypeOK'
  BY <1>1 DEF AskInv, AskTypeOK
<1>3. Counted'
  BY <1>1, AskInvParts DEF Counted
<1>4. Shown'
  BY <1>1 DEF Shown
<1> QED BY <1>2, <1>3, <1>4, AskInvParts, PTL

(* A required question stays until its answer says something. *)
LEMMA AnswerKeeps ==
  ASSUME AskInv, NEW says \in BOOLEAN, answerQuestion(says)
  PROVE  AskInv'
<1> DEFINE a == round.answers
<1>1. /\ askTurn' = askTurn /\ learner' = learner /\ asking' = asking /\ episode' = episode
      /\ round' = [round EXCEPT !.answers = Append(round.answers, says)]
      /\ askTurn = "asking" /\ Len(a) < Len(round.questions)
      /\ round.questions[Len(a) + 1] \in Required => says
  BY DEF answerQuestion
<1>2. PICK r : r = round
  OBVIOUS
<1>2a. r.questions \in Seq(Prompts) /\ r.answers \in Seq(BOOLEAN) /\ Len(r.questions) <= MaxQuestions
  BY <1>2 DEF AskInv, AskTypeOK
<1>3. /\ round'.questions = r.questions /\ round'.ids = r.ids
      /\ round'.answers = Append(r.answers, says)
  BY <1>1, <1>2 DEF AskInv, AskTypeOK
<1>4. AskTypeOK'
  <2>1. Append(r.answers, says) \in Seq(BOOLEAN) /\ Len(Append(r.answers, says)) = Len(r.answers) + 1
    BY <1>2a
  <2>2. round' \in [questions: Seq(Prompts), ids: Seq(Nat), answers: Seq(BOOLEAN)]
    BY <1>1, <1>2, <2>1 DEF AskInv, AskTypeOK
  <2>3. Len(r.answers) + 1 <= Len(r.questions)
    BY <1>1, <1>2, <1>2a
  <2> QED BY <1>1, <1>2, <1>2a, <1>3, <2>1, <2>2, <2>3 DEF AskInv, AskTypeOK
<1>5. Counted'
  BY <1>1, AskInvParts DEF Counted
<1>6. Shown
  BY AskInvParts
<1>7. \A i \in DOMAIN r.answers : r.questions[i] \in Required => r.answers[i]
  BY <1>1, <1>2, <1>6 DEF Shown
<1>8. \A i \in DOMAIN Append(r.answers, says) :
        r.questions[i] \in Required => Append(r.answers, says)[i]
  BY <1>1, <1>2, <1>2a, <1>7
<1>9. Shown'
  BY <1>1, <1>2, <1>3, <1>6, <1>8 DEF Shown
<1> QED BY <1>4, <1>5, <1>9, AskInvParts, PTL

(* The last answer given under an id of its own is the question's.          *)
LEMMA OwnAnswers ==
  ASSUME AskInv, askTurn = "asking", Len(round.answers) = Len(round.questions),
         IsInjective(round.ids)
  PROVE  processAnswers
<1> SUFFICES ASSUME NEW i \in DOMAIN round.questions, round.questions[i] \in Required
             PROVE  answerById(round.ids[i])
  BY DEF processAnswers
<1>1. /\ round.questions \in Seq(Prompts) /\ round.answers \in Seq(BOOLEAN)
      /\ DOMAIN round.ids = DOMAIN round.questions
      /\ \A j \in DOMAIN round.answers : round.questions[j] \in Required => round.answers[j]
  BY DEF AskInv, AskTypeOK
<1>2. DOMAIN round.answers = DOMAIN round.questions /\ i \in Nat
  BY <1>1
<1>3. \A j \in DOMAIN round.ids : round.ids[j] = round.ids[i] => j = i
  BY <1>1 DEF IsInjective
<1> DEFINE last(k) == /\ round.ids[k] = round.ids[i]
                      /\ \A j \in DOMAIN round.ids : round.ids[j] = round.ids[i] => j <= k
<1>4. last(i) /\ \A k \in DOMAIN round.ids : last(k) => k = i
  BY <1>1, <1>2, <1>3
<1>5. (CHOOSE k \in DOMAIN round.ids : last(k)) = i
  <2> HIDE DEF last
  <2> QED BY <1>1, <1>4
<1>6. answerById(round.ids[i]) = round.answers[i]
  BY <1>5 DEF answerById
<1> QED BY <1>1, <1>2, <1>6

(* A round is recorded once, in the context and in the history. *)
LEMMA RoundCompletesKeeps == AskInv /\ RoundCompletes => AskInv'
<1> SUFFICES ASSUME AskInv, RoundCompletes PROVE AskInv'
  OBVIOUS
<1> DEFINE prompts == ToSet(round.questions)
<1>1. /\ askTurn = "asking" /\ Len(round.answers) = Len(round.questions)
      /\ askTurn' = "running" /\ round' = NoRound /\ learner' = learner
      /\ asking' = [asking EXCEPT !.rounds = asking.rounds + 1, !.previous = asking.previous \cup prompts,
                                  !.sufficient = processAnswers]
      /\ episode' = [episode EXCEPT !.rounds = episode.rounds + 1, !.prompts = episode.prompts \cup prompts,
                                    !.again = episode.again \/ prompts \cap episode.prompts # {},
                                    !.sharedId = ~IsInjective(round.ids)]
  BY DEF RoundCompletes
<1>2. Counted /\ Shown /\ AskTypeOK
  BY AskInvParts
<1>3. prompts \subseteq Prompts /\ prompts \cap asking.previous = {} /\ asking.rounds < MaxRounds
  BY <1>1, <1>2 DEF AskTypeOK, Shown, ToSet
<1>4. IsInjective(round.ids) => processAnswers
  BY <1>1, OwnAnswers
<1>5. processAnswers \in BOOLEAN /\ IsInjective(round.ids) \in BOOLEAN
  BY DEF processAnswers, IsInjective
<1> HIDE DEF prompts
<1>6. asking \in QuestionContext /\ asking.rounds + 1 \in 0..MaxRounds /\ asking.previous \cup prompts \in SUBSET Prompts
  BY <1>2, <1>3, QuestionAssumption DEF AskTypeOK, QuestionContext
<1>7. asking' \in QuestionContext
  BY <1>1, <1>5, <1>6 DEF QuestionContext
<1>8. /\ asking'.rounds = asking.rounds + 1 /\ asking'.previous = asking.previous \cup prompts
      /\ asking'.sufficient = processAnswers
  BY <1>1, <1>6 DEF QuestionContext
<1>9. /\ episode' \in [rounds: Nat, prompts: SUBSET Prompts, again: BOOLEAN, sharedId: BOOLEAN]
      /\ episode'.rounds = episode.rounds + 1 /\ episode'.prompts = episode.prompts \cup prompts
      /\ episode'.again = (episode.again \/ prompts \cap episode.prompts # {})
      /\ episode'.sharedId = ~IsInjective(round.ids)
  <2> DEFINE more == episode.rounds + 1
             all == episode.prompts \cup prompts
             again == episode.again \/ prompts \cap episode.prompts # {}
             shared == ~IsInjective(round.ids)
  <2>1. episode \in [rounds: Nat, prompts: SUBSET Prompts, again: BOOLEAN, sharedId: BOOLEAN]
    BY <1>2 DEF AskTypeOK
  <2>2. more \in Nat /\ all \in SUBSET Prompts /\ again \in BOOLEAN /\ shared \in BOOLEAN
    BY <1>3, <1>5, <2>1
  <2>3. episode' = [episode EXCEPT !.rounds = more, !.prompts = all, !.again = again, !.sharedId = shared]
    BY <1>1
  <2> HIDE DEF more, all, again, shared
  <2>4. /\ episode' \in [rounds: Nat, prompts: SUBSET Prompts, again: BOOLEAN, sharedId: BOOLEAN]
        /\ episode'.rounds = more /\ episode'.prompts = all /\ episode'.again = again
        /\ episode'.sharedId = shared
    BY <2>1, <2>2, <2>3
  <2> QED BY <2>4 DEF more, all, again, shared
<1>10. AskTypeOK'
  <2>1. /\ round' \in [questions: Seq(Prompts), ids: Seq(Nat), answers: Seq(BOOLEAN)]
        /\ Len(round'.questions) <= MaxQuestions /\ Len(round'.answers) <= Len(round'.questions)
    BY <1>1, QuestionAssumption DEF NoRound
  <2>2. askTurn' \in {"idle", "routing", "running", "asking"} /\ learner' \in [stage: AskStages, intent: Routes, practising: BOOLEAN]
    BY <1>1, <1>2 DEF AskTypeOK
  <2> QED BY <1>7, <1>9, <2>1, <2>2 DEF AskTypeOK
<1>11. Counted'
  <2>1. ~episode'.again
    BY <1>2, <1>3, <1>9 DEF Counted
  <2>2. ~episode'.sharedId => asking'.sufficient
    BY <1>4, <1>8, <1>9
  <2> QED BY <1>2, <1>8, <1>9, <2>1, <2>2 DEF Counted
<1>12. Shown'
  BY <1>1 DEF Shown
<1> QED BY <1>10, <1>11, <1>12, AskInvParts, PTL

(* What touches neither the context, the history nor the round shown. *)
LEMMA Untouched ==
  ASSUME AskInv, AskTypeOK', UNCHANGED <<asking, episode, round>>, askTurn' = "asking" => askTurn = "asking"
  PROVE  AskInv'
<1>1. Counted' /\ Shown'
  BY AskInvParts DEF Counted, Shown
<1> QED BY <1>1, AskInvParts, PTL

(* Each step of a session and of a call of student_ask. *)
LEMMA AskInvStep == AskInv /\ [AskNext]_askVars => AskInv'
<1> SUFFICES ASSUME AskInv, [AskNext]_askVars PROVE AskInv'
  OBVIOUS
<1>0. AskTypeOK
  BY DEF AskInv
<1>1. CASE Prompted
  BY <1>0, <1>1, Untouched DEF Prompted, AskTypeOK
<1>2. CASE PracticeToggled
  BY <1>0, <1>2, Untouched DEF PracticeToggled, AskTypeOK
<1>3. CASE AskTurnEnds
  BY <1>0, <1>3, Untouched DEF AskTurnEnds, AskTypeOK
<1>4. ASSUME NEW words \in Intents \cup {"mixed", "plain"}, NEW message \in BOOLEAN, NEW known \in SUBSET Prompts,
             Routed(words, message, known)
      PROVE  AskInv'
  BY <1>4, RoutedKeeps
<1>5. ASSUME NEW s \in AskStages, StageChanges(s) PROVE AskInv'
  BY <1>0, <1>5, Untouched DEF StageChanges, AskTypeOK
<1>6. ASSUME NEW n \in 1..MaxQuestions, NEW questions \in [1..n -> Prompts], NEW ids \in [1..n -> 1..n],
             AskTheirOwn(questions, ids)
      PROVE  AskInv'
  <2>1. /\ questions \in Seq(Prompts) /\ ids \in Seq(Nat) /\ DOMAIN ids = DOMAIN questions
    BY QuestionAssumption
  <2> QED BY <1>6, <2>1, ShowKeeps DEF AskTheirOwn
<1>7. ASSUME NEW budget \in 1..MaxQuestions, AskFromLoop(budget) PROVE AskInv'
  <2> DEFINE b == IF asking.intent # NoIntent THEN MaxQuestions ELSE budget
             questions == buildQuestions(b)
  <2>1. b \in 1..MaxQuestions
    BY QuestionAssumption
  <2> HIDE DEF b
  <2>2. questions \in Seq(Prompts) /\ ToSet(questions) \cap asking.previous = {}
    BY <2>1, LoopQuestionsAreNew
  <2>3. Show(questions, [i \in DOMAIN questions |-> i]) /\ UNCHANGED episode
    BY <1>7 DEF AskFromLoop, b
  <2> HIDE DEF questions
  <2>4. [i \in DOMAIN questions |-> i] \in Seq(Nat)
    BY <2>2
  <2> QED BY <2>2, <2>3, <2>4, ShowKeeps
<1>8. ASSUME NEW says \in BOOLEAN, answerQuestion(says) PROVE AskInv'
  BY <1>8, AnswerKeeps
<1>9. CASE AskCancelled
  <2>1. AskTypeOK'
    BY <1>0, <1>9, QuestionAssumption DEF AskCancelled, AskTypeOK, NoRound
  <2>2. Counted' /\ Shown'
    BY <1>9, AskInvParts DEF AskCancelled, Counted, Shown
  <2> QED BY <2>1, <2>2, AskInvParts, PTL
<1>10. CASE RoundCompletes
  BY <1>10, RoundCompletesKeeps
<1>11. CASE UNCHANGED askVars
  BY <1>0, <1>11, Untouched DEF askVars, AskTypeOK
<1> QED BY <1>1, <1>2, <1>3, <1>4, <1>5, <1>6, <1>7, <1>8, <1>9, <1>10, <1>11 DEF AskNext

(* The rounds of questions end and repeat nothing, for every list of        *)
(* questions, every limit, and whatever the model asks of its own.          *)
THEOREM QuestionsEnd == AskSpec => []RoundsEnd
<1>1. AskInv => RoundsEnd
  BY DEF AskInv
<1> QED BY <1>1, AskInvInit, AskInvStep, PTL DEF AskSpec

-----------------------------------------------------------------------------
(* The session that TLC runs: the workflow and its questions, side by side. *)

(* Both parts of a session keep what their properties rest on               *)
(* (classroom-session.ts, student-ask.ts), for every list of reports and    *)
(* questions and every bound.                                               *)
THEOREM SessionKeepsItsParts == SessionSpec => []SessionInv
<1>1. SessionInit => SessionInv
  BY InitInv, AskInvInit DEF SessionInit, SessionInv
<1>2. SessionInv /\ [SessionNext]_<<part, vars, askVars>> => SessionInv'
  <2> SUFFICES ASSUME SessionInv, [SessionNext]_<<part, vars, askVars>> PROVE SessionInv'
    OBVIOUS
  <2>1. part' = part /\ [Next]_vars /\ [AskNext]_askVars
    BY DEF SessionNext
  <2>2. Inv => Inv'
    BY <2>1, NextInv
  <2>3. AskInv => AskInv'
    BY <2>1, AskInvStep
  <2> QED BY <2>1, <2>2, <2>3 DEF SessionInv
<1> QED BY <1>1, <1>2, PTL DEF SessionSpec
=============================================================================

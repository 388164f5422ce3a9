-------------------------- MODULE LearningWorkflow --------------------------
(***************************************************************************)
(* The learning workflow of one student session: the stages, the plan the  *)
(* student approves, the verification result, the tools each stage offers  *)
(* the model, and the calls the model makes with them.                     *)
(*                                                                         *)
(*   workflow-controller.ts   Report, and the workflow's own rules         *)
(*   student-plan.ts          AddStep, Approve                             *)
(*   tool-policy.ts           TOOLS_BY_STAGE                               *)
(*   create-session.ts        Prompt, Refused, StartTurn, Resume, MayCall  *)
(*   extension.ts             StartPractice, EndPractice, Settle           *)
(*   save-to-desktop.ts       Save                                         *)
(*                                                                         *)
(* Every change of the workflow replaces the session's active tools at     *)
(* once and starts a refresh that replaces them again when the execution   *)
(* context has loaded; refreshes end in any order.  The model may call,    *)
(* long after, any tool its last request offered.  Calls of one response   *)
(* run one after the other (the tools that change the workflow ask for     *)
(* that), so a call is one step, the student's answer to its dialog        *)
(* included.  A tool stands for its kind: read for grep, find and ls,      *)
(* edit for write, learning_state for student_ask, school for the two      *)
(* school tools.                                                           *)
(***************************************************************************)
EXTENDS Naturals, FiniteSetsExt

CONSTANTS
  Updates,       \* the reports of progress the model makes
  LearnModes,    \* the settings of Learn Mode the student chooses from
  Reflection,    \* the project's policy asks for a reflection
  MaxSteps,      \* steps of a plan (bound)
  MaxPending     \* refreshes of the tools in flight (bound)

Stages == {"understand", "plan", "implement", "review", "verify", "reflect"}

TOOLS_BY_STAGE ==
  LET common == {"read", "bash", "learning_state"}
  IN [understand |-> common,
      plan       |-> common \cup {"student_plan"},
      implement  |-> common \cup {"edit", "student_plan"},
      review     |-> common,
      verify     |-> common \cup {"edit"},
      reflect    |-> common \cup {"save_to_desktop"}]

Tools == {"read", "bash", "edit", "learning_state", "student_plan", "save_to_desktop",
          "codebase_model", "school"}

(* What learning_state reports; "none" is a field left out. *)
LearningStateUpdate ==
  [ready: BOOLEAN, next: Stages \cup {"none"}, goal: BOOLEAN, understood: {"none", "yes", "no"},
   summary: BOOLEAN, passed: {"none", "yes", "no"}, reflected: {"none", "yes", "no"}]

ASSUME UpdatesAssumption == Updates \subseteq LearningStateUpdate
ASSUME LearnAssumption == LearnModes \subseteq BOOLEAN /\ Reflection \in BOOLEAN
ASSUME BoundsAssumption == MaxSteps \in Nat /\ MaxPending \in Nat

VARIABLES
  wf,            \* the workflow's state
  question,      \* /question practice: "off", or the phase it is in
  questionTurn,  \* the phase the running turn serves
  learn,         \* Learn Mode, as last read
  turn,          \* "idle", "guard" (the prompt is being checked), "running"
  active,        \* the session's active tools
  offered,       \* the tools the model's last request offered
  refreshes,     \* refreshes in flight: how many hold each list of tools
  version,       \* the project's files: their changes, counted modulo 2
  saved,         \* copies on the Desktop, counted modulo 2
  confirmed,     \* history: the steps of the plan the student last approved
  unchecked      \* history: the stages that changed a file after the last pass

work == <<wf, question, learn>>
session == <<turn, questionTurn, offered>>
history == <<confirmed, unchecked>>
vars == <<work, session, active, refreshes, version, saved, history>>

(* Detached copies of it are what the session file keeps. *)
LearningSession ==
  [stage: Stages, goal: BOOLEAN, understood: BOOLEAN, steps: 0..MaxSteps, summary: BOOLEAN,
   approved: BOOLEAN, passed: {"none", "yes", "no"}, reflected: BOOLEAN]

------------------------------------------------------------------------------
(* The tools. *)

AllowedTools(stage, practising, learning) ==
  IF practising
  THEN (TOOLS_BY_STAGE[stage] \cap {"read", "bash"}) \cup {"codebase_model"}
  ELSE TOOLS_BY_STAGE[stage] \cup IF learning THEN {"codebase_model"} ELSE {}

ToolLists == {AllowedTools(stage, practising, learning) :
                stage \in Stages, practising \in BOOLEAN, learning \in BOOLEAN}

Now(w, q, l) == AllowedTools(w.stage, q # "off", l)
Current == Now(wf, question, learn)

CanUseTool(t) ==
  IF question # "off" \/ t = "codebase_model" THEN t \in Current
  ELSE t \in TOOLS_BY_STAGE[wf.stage]

(* A call of a tool the model was offered, past the guard on tool calls. *)
MayCall(t) ==
  /\ turn = "running" /\ t \in offered
  /\ CanUseTool(t) \/ t = "school"

(* Shell commands are inspection, except in IMPLEMENT, and the project's   *)
(* test and build scripts in VERIFY.                                       *)
BadMayChangeFiles ==
  \/ MayCall("edit")
  \/ MayCall("bash")

MayChangeFiles ==
  \/ MayCall("edit")
  \/ MayCall("bash") /\ wf.stage \in {"implement", "verify"} /\ question = "off"

(* Listeners of a change: the active tools follow at once, and a refresh   *)
(* holding the same tools begins to load the execution context.            *)
Notify(now) ==
  /\ MapThenSumSet(LAMBDA tools : refreshes[tools], ToolLists) < MaxPending
  /\ active' = now
  /\ refreshes' = [refreshes EXCEPT ![now] = @ + 1]

------------------------------------------------------------------------------
Init ==
  /\ wf = [stage |-> "understand", goal |-> FALSE, understood |-> FALSE, steps |-> 0, summary |-> FALSE,
           approved |-> FALSE, passed |-> "none", reflected |-> FALSE]
  /\ question = "off" /\ questionTurn = "off" /\ learn = FALSE
  /\ turn = "idle"
  /\ active = TOOLS_BY_STAGE["understand"] /\ offered = {}
  /\ refreshes = [tools \in ToolLists |-> 0]
  /\ version = 0 /\ saved = 0
  /\ confirmed = 0 /\ unchecked = {}

------------------------------------------------------------------------------
(* A prompt, and the turn it starts. *)

Prompt ==
  /\ turn = "idle" /\ turn' = "guard"
  /\ UNCHANGED <<work, questionTurn, offered, active, refreshes, version, saved, history>>

(* The guard awaits the context, the sandbox and the model's approval. *)
Refused ==
  /\ turn = "guard" /\ turn' = "idle"
  /\ UNCHANGED <<work, questionTurn, offered, active, refreshes, version, saved, history>>

(* Before the agent starts, Learn Mode is read again and, outside practice,*)
(* the request is routed; either announces a change of the workflow.       *)
StartTurn ==
  /\ turn = "guard" /\ turn' = "running"
  /\ questionTurn' = question
  /\ learn' \in LearnModes
  /\ IF question = "off" \/ learn' # learn THEN Notify(Now(wf, question, learn'))
     ELSE active' = Current /\ UNCHANGED refreshes
  /\ UNCHANGED <<wf, question, offered, version, saved, history>>

(* The model answers a request made with the tools active at the time. *)
Respond ==
  /\ turn = "running" /\ offered' = active
  /\ UNCHANGED <<work, turn, questionTurn, active, refreshes, version, saved, history>>

(* A turn that ended well moves practice to its next phase. *)
Settle ==
  /\ turn = "running" /\ turn' = "idle"
  /\ questionTurn' = "off" /\ offered' = {}
  /\ \/ UNCHANGED <<question, active, refreshes>>
     \/ /\ questionTurn # "off"
        /\ question' = IF questionTurn = "generate" /\ question # "off" THEN "answer" ELSE "off"
        /\ Notify(Now(wf, question', learn))
  /\ UNCHANGED <<wf, learn, version, saved, history>>

------------------------------------------------------------------------------
(* The student's /question command, while no response is running. *)

StartPractice ==
  /\ turn # "running" /\ turn' = "guard"
  /\ question' = "generate"
  /\ Notify(Now(wf, question', learn))
  /\ UNCHANGED <<wf, learn, questionTurn, offered, version, saved, history>>

EndPractice ==
  /\ turn # "running"
  /\ question' = "off"
  /\ Notify(Now(wf, question', learn))
  /\ UNCHANGED <<wf, learn, session, version, saved, history>>

------------------------------------------------------------------------------
(* The model's calls. *)

ChangeFiles ==
  /\ MayChangeFiles
  /\ version' = 1 - version
  /\ unchecked' = unchecked \cup {wf.stage}
  /\ UNCHANGED <<work, session, active, refreshes, saved, confirmed>>

BadAddStep ==
  /\ MayCall("student_plan")
  /\ wf.stage = "plan" /\ wf.steps < MaxSteps
  /\ wf' = [wf EXCEPT !.steps = @ + 1]
  /\ Notify(Current)
  /\ UNCHANGED <<question, learn, session, version, saved, history>>

(* The student confirms a step; an approved plan takes no more of them. *)
AddStep ==
  /\ MayCall("student_plan")
  /\ wf.stage = "plan" /\ ~wf.approved /\ wf.steps < MaxSteps
  /\ wf' = [wf EXCEPT !.steps = @ + 1]
  /\ Notify(Current)
  /\ UNCHANGED <<question, learn, session, version, saved, history>>

(* The student approves the plan as the dialog shows it. *)
Approve ==
  /\ MayCall("student_plan")
  /\ wf.stage = "plan" /\ wf.steps > 0
  /\ wf' = [wf EXCEPT !.approved = TRUE]
  /\ confirmed' = wf.steps
  /\ Notify(Current)
  /\ UNCHANGED <<question, learn, session, version, saved, unchecked>>

Flag(reported, old) == IF reported = "none" THEN old ELSE reported = "yes"

Applied(u) ==
  [wf EXCEPT !.goal = @ \/ u.goal, !.understood = Flag(u.understood, @), !.summary = @ \/ u.summary,
             !.passed = IF u.passed = "none" THEN @ ELSE u.passed,
             !.reflected = Flag(u.reflected, @)]

AssertReadyForTransition(c) ==
  /\ c.stage = "understand" => c.goal /\ c.understood
  /\ c.stage = "plan" => c.summary /\ c.steps > 0 /\ c.approved
  /\ c.stage = "verify" => c.passed # "none"
  /\ c.stage = "reflect" => c.reflected \/ ~Reflection

LEGAL_TRANSITIONS ==
  [understand |-> {"plan"}, plan |-> {"implement"}, implement |-> {"review", "plan"},
   review |-> {"implement", "plan", "verify"}, verify |-> {"implement", "reflect"}, reflect |-> {}]

DefaultNextStage(c) ==
  CASE c.stage = "understand" -> "plan"
    [] c.stage = "plan" -> "implement"
    [] c.stage = "implement" -> "review"
    [] c.stage = "review" -> "verify"
    [] OTHER -> IF c.passed = "yes" THEN "reflect" ELSE "implement"

NextStage(c, u) == IF u.next = "none" THEN DefaultNextStage(c) ELSE u.next

BadPrepareStageEntry(c, to) ==
  LET replans == to = "plan" /\ c.stage # "understand"
      restarts == c.stage = "plan" /\ to = "implement"
  IN [c EXCEPT !.stage = to,
               !.approved = @ /\ ~replans, !.summary = @ /\ ~replans,
               !.passed = IF restarts THEN "none" ELSE @, !.reflected = @ /\ ~restarts]

(* Replanning asks for approval again; work that follows drops the result. *)
PrepareStageEntry(c, to) ==
  LET replans == to = "plan" /\ c.stage # "understand"
      restarts == <<c.stage, to>> \in {<<"plan", "implement">>, <<"implement", "review">>}
  IN [c EXCEPT !.stage = to,
               !.approved = @ /\ ~replans, !.summary = @ /\ ~replans,
               !.passed = IF restarts THEN "none" ELSE @, !.reflected = @ /\ ~restarts]

(* Only a report about the current stage is applied, and only as a whole:  *)
(* with its transition when it says the stage is complete.                 *)
Report(u) ==
  /\ MayCall("learning_state")
  /\ LET c == Applied(u)  to == NextStage(c, u)
     IN \/ ~u.ready /\ wf' = c
        \/ /\ u.ready /\ AssertReadyForTransition(c)
           /\ IF c.stage = "reflect" THEN u.next = "none" /\ wf' = c
              ELSE /\ c.stage = "verify" => to = DefaultNextStage(c)
                   /\ to \in LEGAL_TRANSITIONS[c.stage]
                   /\ wf' = PrepareStageEntry(c, to)
  /\ unchecked' = IF u.passed = "yes" /\ wf.stage \in {"review", "verify", "reflect"} THEN {} ELSE unchecked
  /\ Notify(Now(wf', question, learn))
  /\ UNCHANGED <<question, learn, session, version, saved, confirmed>>

(* The student confirms the copy; the bytes were read before the dialog. *)
Save ==
  /\ MayCall("save_to_desktop")
  /\ wf.passed = "yes"
  /\ saved' = 1 - saved
  /\ UNCHANGED <<work, session, active, refreshes, version, history>>

------------------------------------------------------------------------------
(* The refreshes, and the session's end. *)

BadResume(tools) ==
  /\ refreshes' = [refreshes EXCEPT ![tools] = @ - 1]
  /\ active' \in {tools, tools \cup {"school"}}
  /\ UNCHANGED <<work, session, version, saved, history>>

(* The context has loaded: the tools the refresh began with become active, *)
(* and a school tool if the stage of this moment permits one.              *)
Resume(tools) ==
  /\ refreshes[tools] > 0
  /\ refreshes' = [refreshes EXCEPT ![tools] = @ - 1]
  /\ active' \in {tools, tools \cup {"school"}}
  /\ UNCHANGED <<work, session, version, saved, history>>

ResumeFails(tools) ==
  /\ refreshes[tools] > 0
  /\ refreshes' = [refreshes EXCEPT ![tools] = @ - 1]
  /\ active' = Current
  /\ UNCHANGED <<work, session, version, saved, history>>

(* The process ends at any point; the session is opened again with the     *)
(* workflow its file holds, appended at every change.                      *)
Restart ==
  /\ turn' = "idle" /\ questionTurn' = "off" /\ offered' = {}
  /\ learn' \in LearnModes
  /\ active' = Now(wf, question, learn')
  /\ refreshes' = [tools \in ToolLists |-> 0]
  /\ UNCHANGED <<wf, question, version, saved, history>>

Next ==
  \/ Prompt \/ Refused \/ StartTurn \/ Respond \/ Settle
  \/ StartPractice \/ EndPractice
  \/ ChangeFiles \/ AddStep \/ Approve \/ Save
  \/ \E u \in Updates : Report(u)
  \/ \E tools \in ToolLists : Resume(tools) \/ ResumeFails(tools)
  \/ Restart

Spec == Init /\ [][Next]_vars

------------------------------------------------------------------------------
(* The types of the variables; refreshes hold lists the tool policy can give. *)
TypeOK ==
  /\ wf \in LearningSession
  /\ question \in {"off", "generate", "answer"} /\ questionTurn \in {"off", "generate", "answer"}
  /\ learn \in BOOLEAN
  /\ turn \in {"idle", "guard", "running"}
  /\ active \subseteq Tools /\ offered \subseteq Tools
  /\ refreshes \in [ToolLists -> Nat]
  /\ version \in {0, 1} /\ saved \in {0, 1}
  /\ confirmed \in 0..MaxSteps /\ unchecked \subseteq Stages

(* Work that follows planning is under a plan approved as it stands, and a *)
(* passing result leaves no change of IMPLEMENT behind it.                 *)
Planned == wf.stage \in {"implement", "review", "verify", "reflect"} => wf.approved
Confirmed == wf.approved => wf.steps > 0 /\ confirmed = wf.steps
Checked ==
  wf.stage \in {"review", "verify", "reflect"} /\ wf.passed = "yes" => "implement" \notin unchecked

Inv == TypeOK /\ Planned /\ Confirmed /\ Checked

(* "PLAN requires a student-authored step and explicit approval before     *)
(* IMPLEMENT": files change only under a plan the student approved with    *)
(* exactly the steps it has, whatever tools a stale list still offers and  *)
(* however often planning was reopened.                                    *)
EditsFollowApproval ==
  [][version' # version => wf.approved /\ wf.steps > 0 /\ confirmed = wf.steps]_vars

(* What IMPLEMENT changed leaves for the Desktop only after a review and a *)
(* passing result reported since: an older result is dropped on the way.   *)
SavesFollowAPass ==
  [][saved' # saved => "implement" \notin unchecked]_vars

(* /question practice is read-only: it "grants no new access" and leaves   *)
(* the stage, the plan, the results and the project as they were.          *)
PracticeIsReadOnly ==
  [][question # "off" => UNCHANGED <<wf, version, saved>>]_vars

(* save_to_desktop "publishes a verified file": no file has changed since  *)
(* verification was reported to have passed.                               *)
SavesAreVerified ==
  [][saved' # saved => unchecked = {}]_vars
=============================================================================

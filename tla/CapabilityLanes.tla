-------------------------- MODULE CapabilityLanes --------------------------
(***************************************************************************)
(* A session under limits: the agent lane, the tutoring lane that opens    *)
(* when the agent's limits are reached, and the active tools, which both   *)
(* the lanes and the workflow's refreshes set.  One prompt is answered at  *)
(* a time; its handlers run in order and await in between.                 *)
(***************************************************************************)
EXTENDS Naturals

CONSTANTS Stages, Tools,
          Allowed,        \* tools of each stage
          SchoolTool,     \* a school extension's tool
          TurnLimit,      \* limits.turns
          TutoringLimit,  \* limits.tutoringTurns
          NoTools         \* nothing saved

VARIABLES stage,         \* workflow stage
          activeTools,        \* session's active tools
          toolsBefore,         \* toolsBeforeTutoring
          captures,     \* refreshes under way, each by the tools it captured
          turns, tutoringTurns,
          timeUp,        \* the minutes are over
          costUp,        \* the token or cost limit is reached
          agentBlocked,  \* the last admission closed the agent lane only
          prompt            \* the prompt: [at, tutoring, tools]

laneVars == <<stage, activeTools, toolsBefore, captures, turns, tutoringTurns, timeUp, costUp, agentBlocked, prompt>>

ASSUME LaneAssumption ==
  /\ TurnLimit \in Nat \ {0} /\ TutoringLimit \in Nat \ {0}
  /\ Allowed \in [Stages -> SUBSET Tools] /\ SchoolTool \notin Tools

NoPrompt == [at |-> "idle", tutoring |-> FALSE, tools |-> {}]

LaneTypeOK ==
  /\ stage \in Stages /\ activeTools \subseteq Tools \cup {SchoolTool}
  /\ toolsBefore = NoTools \/ toolsBefore \subseteq Tools \cup {SchoolTool}
  /\ captures \subseteq SUBSET Tools
  /\ turns \in Nat /\ tutoringTurns \in Nat
  /\ timeUp \in BOOLEAN /\ costUp \in BOOLEAN /\ agentBlocked \in BOOLEAN
  /\ prompt \in [at : {"idle", "guarded", "admitted", "prepared", "laned", "running"}, tutoring : BOOLEAN,
                tools : SUBSET (Tools \cup {SchoolTool})]

LaneInit ==
  /\ stage \in Stages /\ activeTools = Allowed[stage] /\ toolsBefore = NoTools /\ captures = {}
  /\ turns = 0 /\ tutoringTurns = 0 /\ timeUp = FALSE /\ costUp = FALSE /\ agentBlocked = FALSE
  /\ prompt = NoPrompt

(***************************************************************************)
(* CapabilityState                                                         *)
(***************************************************************************)
AgentLimit(t) == timeUp \/ t >= TurnLimit \/ agentBlocked
Limit(t, u) == costUp \/ (u >= TutoringLimit /\ AgentLimit(t))
agentLimitReached == AgentLimit(turns)
limitReached == Limit(turns, tutoringTurns)
tutoringOnly == ~limitReached /\ agentLimitReached

\* select: a project is selected between prompts, everything starts over.
SelectProject ==
  /\ prompt.at = "idle"
  /\ turns' = 0 /\ tutoringTurns' = 0 /\ timeUp' = FALSE /\ costUp' = FALSE /\ agentBlocked' = FALSE
  /\ UNCHANGED <<stage, activeTools, toolsBefore, captures, prompt>>

MinutesPass == timeUp' = TRUE /\ UNCHANGED <<stage, activeTools, toolsBefore, captures, turns, tutoringTurns, costUp, agentBlocked, prompt>>

(***************************************************************************)
(* refreshApprovedExtensionTools, which every workflow change starts: the  *)
(* stage's tools at once, and again with the school's tools when the       *)
(* execution context has been fetched.                                     *)
(***************************************************************************)
RefreshTools(s) == activeTools' = Allowed[s] /\ captures' = captures \cup {Allowed[s]}

CaptureEnds(captured) ==
  /\ captured \in captures
  /\ activeTools' \in {captured, captured \cup {SchoolTool}}
  /\ captures' = captures \ {captured}
  /\ UNCHANGED <<stage, toolsBefore, turns, tutoringTurns, timeUp, costUp, agentBlocked, prompt>>

(***************************************************************************)
(* A prompt: its guard, the input handlers, Learn's and student_ask's      *)
(* preparation, the lane, the handlers after it, the request.              *)
(***************************************************************************)
PromptAt(at) == prompt' = [prompt EXCEPT !.at = at]

GuardPrompt ==
  /\ prompt.at = "idle" /\ ~limitReached
  /\ activeTools' \in {Allowed[stage], Allowed[stage] \cup {SchoolTool}}
  /\ PromptAt("guarded")
  /\ UNCHANGED <<stage, toolsBefore, captures, turns, tutoringTurns, timeUp, costUp, agentBlocked>>

\* The limits again, then the institution's admission: it may close everything,
\* or the agent lane alone, or open it again.
AdmitPrompt ==
  /\ prompt.at = "guarded"
  /\ IF limitReached THEN prompt' = NoPrompt /\ UNCHANGED agentBlocked
     ELSE agentBlocked' \in BOOLEAN /\ (PromptAt("admitted") \/ prompt' = NoPrompt)
  /\ UNCHANGED <<stage, activeTools, toolsBefore, captures, turns, tutoringTurns, timeUp, costUp>>

\* Learn's sync sets the stage's tools; routing notifies the workflow's listeners.
PreparePrompt ==
  /\ prompt.at = "admitted"
  /\ activeTools' = Allowed[stage]
  /\ captures' \in {captures, captures \cup {Allowed[stage]}}
  /\ PromptAt("prepared")
  /\ UNCHANGED <<stage, toolsBefore, turns, tutoringTurns, timeUp, costUp, agentBlocked>>

\* before_agent_start of the project's capabilities.
Lane ==
  /\ prompt.at = "prepared"
  /\ prompt' = [prompt EXCEPT !.at = "laned", !.tutoring = tutoringOnly]
  /\ IF tutoringOnly /\ activeTools # {} THEN toolsBefore' = activeTools /\ activeTools' = {}
     ELSE IF ~tutoringOnly /\ toolsBefore # NoTools
     THEN toolsBefore' = NoTools /\ activeTools' = IF activeTools = {} THEN toolsBefore ELSE activeTools
     ELSE UNCHANGED <<toolsBefore, activeTools>>
  /\ UNCHANGED <<stage, captures, turns, tutoringTurns, timeUp, costUp, agentBlocked>>

\* The remaining handlers have ended: the request takes the tools active now.
StartRequest ==
  /\ prompt.at = "laned"
  /\ prompt' = [prompt EXCEPT !.at = "running", !.tools = activeTools]
  /\ UNCHANGED <<stage, activeTools, toolsBefore, captures, turns, tutoringTurns, timeUp, costUp, agentBlocked>>

\* A tool call that passes the capability and the workflow guards; reporting
\* progress may move the stage.
CallTool(t) ==
  /\ prompt.at = "running" /\ t \in prompt.tools \cap Allowed[stage]
  /\ ~limitReached /\ ~agentLimitReached
  /\ stage' \in Stages /\ RefreshTools(stage')
  /\ UNCHANGED <<toolsBefore, turns, tutoringTurns, timeUp, costUp, agentBlocked, prompt>>

\* A version that leaves a reply past the limits to go on.
BadMessageEnd(more) ==
  /\ prompt.at = "running"
  /\ turns' = IF agentLimitReached THEN turns ELSE turns + 1
  /\ tutoringTurns' = IF agentLimitReached THEN tutoringTurns + 1 ELSE tutoringTurns
  /\ prompt' = IF more /\ ~(agentLimitReached = FALSE /\ AgentLimit(turns')) THEN prompt ELSE NoPrompt
  /\ UNCHANGED <<stage, activeTools, toolsBefore, captures, timeUp, costUp, agentBlocked>>

\* message_end: the reply is counted in the lane of this moment; a limit stops the loop.
MessageEnd(more) ==
  /\ prompt.at = "running"
  /\ turns' = IF agentLimitReached THEN turns ELSE turns + 1
  /\ tutoringTurns' = IF agentLimitReached THEN tutoringTurns + 1 ELSE tutoringTurns
  /\ costUp' \in {costUp, TRUE}
  /\ LET stops == \/ costUp' \/ Limit(turns', tutoringTurns')
                  \/ ~agentLimitReached /\ AgentLimit(turns')
     IN  prompt' = IF more /\ ~stops THEN prompt ELSE NoPrompt
  /\ UNCHANGED <<stage, activeTools, toolsBefore, captures, timeUp, agentBlocked>>

LaneNext ==
  \/ SelectProject \/ MinutesPass \/ \E captured \in captures : CaptureEnds(captured)
  \/ GuardPrompt \/ AdmitPrompt \/ PreparePrompt \/ Lane \/ StartRequest
  \/ \E t \in Tools : CallTool(t)
  \/ \E more \in BOOLEAN : MessageEnd(more)

LaneSpec == LaneInit /\ [][LaneNext]_laneVars

(***************************************************************************)
(* Properties                                                              *)
(***************************************************************************)
\* The allowances hold across lanes, clocks and admissions that come and go: no more
\* agent replies than the limit and no more tutoring replies than theirs, a reply that
\* began as agent work and ended after the time was up included.
AllowanceKept == turns <= TurnLimit /\ tutoringTurns <= TutoringLimit

\* What makes that inductive: tutoring is counted only while the agent lane is closed, the
\* last tutoring reply closes the session's prompts, and then nothing opens the lane again.
TutoringEnds == tutoringTurns >= TutoringLimit => agentLimitReached /\ prompt.at = "idle"

LaneInv == LaneTypeOK /\ TutoringEnds /\ AllowanceKept

\* "Tutoring mode sends no tools, so the request is tool-free end to end"
\* (project-capabilities.ts): a request prepared in the tutoring lane has no tools.
TutoringIsToolFree == (prompt.at = "running" /\ prompt.tutoring) => prompt.tools = {}
=============================================================================

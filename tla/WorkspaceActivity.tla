-------------------------- MODULE WorkspaceActivity --------------------------
(***************************************************************************)
(* The chat session's side of the shared activity: which project, student  *)
(* and session the Chat is bound to, and the tool calls, turns and replies *)
(* it reports there.  A rebinding may come while any of them is awaited;   *)
(* `binding` tells those begun before it.                                  *)
(***************************************************************************)
EXTENDS WorkspaceEvents, FiniteSets

CONSTANTS Scopes,      \* [project, session]: what a Chat can be bound to
          ToolCalls,   \* tool calls that may be under way at once
          MaxBindings, \* bound: times the Chat moves
          NoScope

VARIABLES scope,       \* where activity goes now
          binding,     \* bumped when the Chat moves
          binder,      \* the bind under way, after its scope was set
          turn,        \* the turn: whether one runs, and turnBinding
          toolCall,    \* each tool call under way
          pending,     \* what tool_result needs of each call
          reported     \* what was emitted last: [home, scope], home the scope the call began in

activityVars == <<scope, binding, binder, turn, toolCall, pending, reported>>

ASSUME ActivityAssumption == NoScope \notin Scopes /\ MaxBindings \in Nat

NoTool == [at |-> "none", binding |-> 0, home |-> NoScope]
NotPending == [on |-> FALSE, binding |-> 0]

ActivityTypeOK ==
  /\ scope \in Scopes \cup {NoScope} /\ binding \in 0..MaxBindings /\ binder \in {"none", "start", "turn"}
  /\ turn \in [on : BOOLEAN, binding : 0..binding]
  /\ toolCall \in [ToolCalls -> [at : {"none", "checking", "running"}, binding : 0..binding, home : Scopes \cup {NoScope}]]
  /\ pending \in [ToolCalls -> [on : BOOLEAN, binding : 0..binding]]
  /\ reported \subseteq [home : Scopes \cup {NoScope}, scope : Scopes]

ActivityInit ==
  /\ scope = NoScope /\ binding = 0 /\ binder = "none" /\ turn = [on |-> FALSE, binding |-> 0]
  /\ toolCall = [c \in ToolCalls |-> NoTool] /\ pending = [c \in ToolCalls |-> NotPending]
  /\ reported = {}

\* emit: nothing is recorded while the Chat is bound to nothing.
Emitted(home) == IF scope = NoScope THEN {} ELSE {[home |-> home, scope |-> scope]}

(***************************************************************************)
(* bind(): once identity and scope are resolved, everything up to the      *)
(* refresh of the stream happens at once.                                  *)
(***************************************************************************)
Moved(next) == scope # NoScope /\ next # scope

Bind(next, why) ==
  /\ binder = "none" /\ next \in Scopes \cup {NoScope}
  /\ Moved(next) => binding < MaxBindings
  /\ binding' = IF Moved(next) THEN binding + 1 ELSE binding
  /\ pending' = IF Moved(next) THEN [c \in ToolCalls |-> NotPending] ELSE pending
  /\ scope' = next
  /\ binder' = why
  /\ UNCHANGED <<turn, toolCall, reported>>

\* What the Chat says of itself after the refresh, and for a prompt the turn's binding.
EndBind ==
  /\ binder # "none" /\ binder' = "none"
  /\ turn' = IF binder = "turn" THEN [on |-> TRUE, binding |-> binding] ELSE turn
  /\ reported' = Emitted(scope)
  /\ UNCHANGED <<scope, binding, toolCall, pending>>

(***************************************************************************)
(* Tool calls.                                                             *)
(***************************************************************************)
\* bash is recorded at once; write and edit look first whether the file exists.
ToolCall(c) ==
  /\ turn.on /\ toolCall[c] = NoTool
  /\ \/ /\ toolCall' = [toolCall EXCEPT ![c] = [at |-> "checking", binding |-> binding, home |-> scope]]
        /\ UNCHANGED <<pending, reported>>
     \/ /\ toolCall' = [toolCall EXCEPT ![c] = [at |-> "running", binding |-> binding, home |-> scope]]
        /\ pending' = [pending EXCEPT ![c] = [on |-> TRUE, binding |-> binding]]
        /\ reported' = Emitted(scope)
  /\ UNCHANGED <<scope, binding, binder, turn>>

FileChecked(c) ==
  /\ toolCall[c].at = "checking"
  /\ toolCall' = [toolCall EXCEPT ![c].at = "running"]
  /\ pending' = IF toolCall[c].binding # binding THEN pending
                ELSE [pending EXCEPT ![c] = [on |-> TRUE, binding |-> toolCall[c].binding]]
  /\ UNCHANGED <<scope, binding, binder, turn, reported>>

ToolResult(c) ==
  /\ toolCall[c].at = "running"
  /\ toolCall' = [toolCall EXCEPT ![c] = NoTool]
  /\ pending' = [pending EXCEPT ![c] = NotPending]
  /\ reported' = IF pending[c].on /\ pending[c].binding = binding
                 THEN Emitted(toolCall[c].home) ELSE reported
  /\ UNCHANGED <<scope, binding, binder, turn>>

\* message_end: a reply of a turn begun before a move is not reported.
MessageEnds ==
  /\ turn.on
  /\ turn' \in {turn, [turn EXCEPT !.on = FALSE]}
  /\ reported' = IF turn.binding # binding THEN reported ELSE Emitted(scope)
  /\ UNCHANGED <<scope, binding, binder, toolCall, pending>>

ActivityNext ==
  \/ \E next \in Scopes \cup {NoScope}, why \in {"start", "turn"} : Bind(next, why)
  \/ EndBind
  \/ \E c \in ToolCalls : ToolCall(c) \/ FileChecked(c) \/ ToolResult(c)
  \/ MessageEnds

ActivitySpec == ActivityInit /\ [][ActivityNext]_activityVars

(***************************************************************************)
(* Properties                                                              *)
(***************************************************************************)
\* "A delayed result never becomes activity of the newly bound scope": whatever the
\* order of moves, file checks and results, what a call begun in one project and
\* session has done is not reported in another.
ResultsStayHome == \A r \in reported : r.home # NoScope => r.home = r.scope

\* Why: a call begun under the binding there still is was begun where the Chat still is, and what is pending of a
\* call was noted when it ran, under the call's own binding.
HomeIsKnown == \A c \in ToolCalls :
  /\ toolCall[c].binding = binding => toolCall[c].home \in {NoScope, scope}
  /\ pending[c].on => toolCall[c].at = "running" /\ pending[c].binding = toolCall[c].binding

ActivityInv == ActivityTypeOK /\ HomeIsKnown /\ ResultsStayHome

(* The activity that is shared is complete and in place: a surface finds its *)
(* own events once, and a tool's result belongs to the project it was made   *)
(* in.                                                                       *)
ActivityKept == OwnEventsOnce /\ ResultsStayHome
=============================================================================

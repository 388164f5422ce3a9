--------------------------- MODULE ClassSelection ---------------------------
(***************************************************************************)
(* The classroom selection of a session: what is stored for the workspace, *)
(* what the session's record is linked to, the assignment its prompts      *)
(* carry and the policy that governs a prompt.  /join-class and /projects  *)
(* change them one await after another, and any of the awaits may fail.    *)
(***************************************************************************)
CONSTANTS Classes, Projects,
          ClassOf,   \* the class of each project
          Nothing

VARIABLES stored,     \* contextStore
          linked,     \* activeContext of the telemetry extension: the record's links
          selected,   \* selectedContext of the classroom extension
          assignment, \* the project whose brief goes into every prompt
          effective,  \* project whose policy governs the session
          command,    \* the command under way: [at, context, joining]
          outcome,    \* how the last command that chose something ended
          prompted    \* a prompt is being answered

selectionVars == <<stored, linked, selected, assignment, effective, command, outcome, prompted>>

ASSUME SelectionAssumption ==
  ClassOf \in [Projects -> Classes] /\ Nothing \notin Classes \cup Projects

TeacherContext == [class : Classes \cup {Nothing}, project : Projects \cup {Nothing}]
Personal == [class |-> Nothing, project |-> Nothing]
Of(p) == [class |-> ClassOf[p], project |-> p]
NoCommand == [at |-> "idle", context |-> Personal, joining |-> FALSE]

SelectionTypeOK ==
  /\ {stored, linked, selected} \subseteq TeacherContext
  /\ {assignment, effective} \subseteq Projects \cup {Nothing}
  /\ command \in [at : {"idle", "join", "choose", "onSelect", "write"}, context : TeacherContext, joining : BOOLEAN]
  /\ outcome \in {"none", "ok", "failed"} /\ prompted \in BOOLEAN

SelectionInit ==
  /\ stored \in {Personal} \cup {Of(p) : p \in Projects}
  /\ linked = Personal /\ selected = Personal
  /\ assignment = Nothing /\ effective = Nothing
  /\ command = NoCommand /\ outcome = "none" /\ prompted = FALSE

NoneUnderWay == command.at = "idle" /\ ~prompted

(***************************************************************************)
(* The commands, up to the choice of a project.  A command that the        *)
(* student cancels, or that fails before it, changes nothing.              *)
(***************************************************************************)
JoinClass(c) ==
  /\ NoneUnderWay
  /\ command' = [at |-> "join", context |-> [class |-> c, project |-> Nothing], joining |-> TRUE]
  /\ UNCHANGED <<stored, linked, selected, assignment, effective, outcome, prompted>>

StoreJoined ==
  /\ command.at = "join"
  /\ stored' = command.context
  /\ command' = [command EXCEPT !.at = "onSelect"]
  /\ UNCHANGED <<linked, selected, assignment, effective, outcome, prompted>>

OpenProjects(c) ==
  /\ NoneUnderWay
  /\ command' = [NoCommand EXCEPT !.at = "choose", !.context.class = c]
  /\ UNCHANGED <<stored, linked, selected, assignment, effective, outcome, prompted>>

ChooseProject ==
  /\ command.at = "choose"
  /\ \/ \E p \in Projects : /\ ClassOf[p] = command.context.class
                            /\ command' = [at |-> "onSelect", context |-> Of(p), joining |-> FALSE]
     \/ command' = NoCommand
  /\ UNCHANGED <<stored, linked, selected, assignment, effective, outcome, prompted>>

(***************************************************************************)
(* onSelect: nothing to do when the record is already linked this way;     *)
(* otherwise the old record is saved, the environment configured and the   *)
(* policy resolved before a new record starts.                             *)
(***************************************************************************)
SelectedThen ==
  IF command.joining
  THEN /\ selected' = command.context /\ assignment' = Nothing /\ outcome' = "ok"
       /\ command' = [command EXCEPT !.at = "choose", !.joining = FALSE]
  ELSE command' = [command EXCEPT !.at = "write"] /\ UNCHANGED <<selected, assignment, outcome>>

\* A version that leaves the record alone while the class stays the same.
BadOnSelect ==
  /\ command.at = "onSelect"
  /\ IF linked.class = command.context.class THEN UNCHANGED <<linked, effective>>
     ELSE linked' = command.context /\ effective' = command.context.project
  /\ SelectedThen
  /\ UNCHANGED <<stored, prompted>>

OnSelect ==
  /\ command.at = "onSelect"
  /\ IF linked = command.context THEN UNCHANGED <<linked, effective>>
     ELSE linked' = command.context /\ effective' = command.context.project
  /\ SelectedThen
  /\ UNCHANGED <<stored, prompted>>

StoreProject ==
  /\ command.at = "write"
  /\ stored' = command.context
  /\ assignment' = command.context.project /\ selected' = command.context
  /\ command' = NoCommand /\ outcome' = "ok"
  /\ UNCHANGED <<linked, effective, prompted>>

\* Storing, saving the old record, configuring or resolving fails; the student is
\* told to retry the command.
CommandFails ==
  /\ command.at \in {"join", "onSelect", "write"}
  /\ command' = NoCommand /\ outcome' = "failed"
  /\ UNCHANGED <<stored, linked, selected, assignment, effective, prompted>>

(***************************************************************************)
(* session_start of both extensions, each with its own reading of the      *)
(* store, and a prompt: its guard takes the policy of what is stored.      *)
(***************************************************************************)
BeginSession ==
  \E read, own \in {Personal, stored} :
    /\ linked' \in {Personal, read} /\ effective' = linked'.project
    /\ selected' = own /\ assignment' \in {Nothing, own.project}
    /\ command' = NoCommand /\ outcome' = "none" /\ prompted' = FALSE
    /\ UNCHANGED stored

Prompt ==
  /\ NoneUnderWay
  /\ prompted' = TRUE /\ effective' = stored.project
  /\ UNCHANGED <<stored, linked, selected, assignment, command, outcome>>

Answered ==
  /\ prompted
  /\ prompted' = FALSE
  /\ UNCHANGED <<stored, linked, selected, assignment, effective, command, outcome>>

SelectionNext ==
  \/ \E c \in Classes : JoinClass(c) \/ OpenProjects(c)
  \/ StoreJoined \/ ChooseProject \/ OnSelect \/ StoreProject \/ CommandFails
  \/ BeginSession \/ Prompt \/ Answered

SelectionSpec == SelectionInit /\ [][SelectionNext]_selectionVars

(***************************************************************************)
(* Properties                                                              *)
(***************************************************************************)
\* However the commands before it failed, a command that succeeded leaves what is
\* stored, recorded, shown and put into prompts on the same class and project: the
\* retry the message asks for repairs a half-made selection.  And a prompt after it is
\* recorded under the project whose policy governs it ("Activity from here is linked to
\* this project"), also after switching to and fro between classes.
SelectionAgrees ==
  outcome = "ok" =>
    /\ command.at = "idle" => stored = linked /\ linked = selected /\ selected.project = assignment
    /\ prompted => effective = linked.project

\* What makes that inductive: where a command may end or a new one begin, the four agree,
\* and a command that goes on has already brought some of them to its choice.
Agreed == stored = linked /\ linked = selected /\ selected.project = assignment

HalfMade ==
  /\ outcome = "ok" /\ command.at \in {"idle", "choose"} => Agreed
  /\ command.at = "join" => command.joining
  /\ command.at = "choose" => ~command.joining
  /\ command.joining => command.context.project = Nothing
  /\ command.at = "onSelect" /\ command.joining => stored = command.context
  /\ command.at = "write" => linked = command.context
  /\ prompted => command.at = "idle"

SelectionInv == SelectionTypeOK /\ HalfMade /\ SelectionAgrees
=============================================================================

----------------------------- MODULE ProgressMC -----------------------------
(***************************************************************************)
(* Small instances of what must come to an end: calls of the sandbox,      *)
(* uploads of learning records, and the pi-student process.  They share no *)
(* state: the initial state chooses the part a behaviour is about, and the *)
(* others stay where they start.                                           *)
(***************************************************************************)
EXTENDS SandboxLifecycle, LearningRecords, TerminalClient

VARIABLE part

progressVars == <<part, sandboxVars, recordsVars, terminalVars>>

\* Two policies.
MCContexts == {[env |-> "ready", config |-> [policy |-> p, support |-> "enforced"]] : p \in {"p1", "p2"}}

\* A provider of each kind.
MCKind == [p \in {"ollama", "openai", "codex"} |->
             CASE p = "ollama" -> "local" [] p = "openai" -> "key" [] p = "codex" -> "oauth"]

\* No policy, and one with a single provider.
MCOffers == {DOMAIN MCKind, {"openai"}}

ProgressInit ==
  /\ part \in {"sandbox", "records", "terminal"}
  /\ SandboxInit /\ RecordsInit /\ TerminalInit
  /\ part # "records" => signedIn = NULL
  /\ configured \in {{}, {"openai"}}
  /\ part # "terminal" => tty = "both" /\ configured = {}

ProgressNext ==
  \/ part = "sandbox" /\ SandboxNext /\ UNCHANGED <<part, recordsVars, terminalVars>>
  \/ part = "records" /\ RecordsNext /\ UNCHANGED <<part, sandboxVars, terminalVars>>
  \/ part = "terminal" /\ TerminalNext /\ UNCHANGED <<part, sandboxVars, recordsVars>>

\* Where a behaviour is not about the sandbox or the process nothing is under way there, and
\* their fairness asks for nothing.
ProgressSpec ==
  /\ ProgressInit /\ [][ProgressNext]_progressVars
  /\ SandboxFairness /\ TerminalFairness
  /\ part = "records" => RecordsFairness
=============================================================================

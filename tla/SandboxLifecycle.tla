-------------------------- MODULE SandboxLifecycle --------------------------
(***************************************************************************)
(* The coding environment of one session: SandboxManager, the Gondolin     *)
(* runtime below it and the session events that call either of them.       *)
(* An action is the code between two awaits; `call` holds the calls that   *)
(* are under way, each at the await it has reached.                        *)
(***************************************************************************)
EXTENDS Naturals, FiniteSets

CONSTANTS Calls,       \* slots for calls under way at once
          Contexts,    \* resolved contexts: [env, config], config = [policy, support]
          Backends,    \* "krun", "qemu"
          Machines,    \* names for virtual machines
          MaxUnclosed, \* bound: machines whose close may fail
          NoConfig, NoMachine

VARIABLES call,      \* call under way in each slot
          vm,        \* GondolinRuntime.vm
          boot,      \* startInternal under way: GondolinRuntime.starting
          enforced,  \* policy of the runtime: what its HTTP hooks read
          recorded,  \* SandboxManager.configuration
          status,    \* SandboxManager.state.status
          attached,  \* SandboxManager.projectPath is set
          open,      \* the session has started and not shut down
          live,      \* machines that exist
          unclosed   \* machines whose close failed

sandboxVars == <<call, vm, boot, enforced, recorded, status, attached, open, live, unclosed>>

Forbidden == {"pending", "building", "failed", "unsupported"}
Usable == {"configured", "ready", "active"}

ASSUME SandboxAssumption ==
  /\ IsFiniteSet(Machines) /\ NoMachine \notin Machines
  /\ \A x \in Contexts : /\ x.config.support \in {"enforced", "unsupported", "invalid"}
                         /\ x.env \in Forbidden \cup Usable \cup {"none"}

NoCall == [at |-> "idle", op |-> "none", ctx |-> NoConfig, m |-> NoMachine, ok |-> TRUE]
BootOff == [at |-> "off", tried |-> {}, backend |-> "none", m |-> NoMachine]

Configs == {x.config : x \in Contexts}
Reported == [env : Forbidden \cup Usable \cup {"none"}, config : Configs]
SandboxCall ==
  [at : {"idle", "resolved", "closing", "booting", "awaitBoot", "booted", "detach", "detached"},
   op : {"none", "configure", "start", "session", "stop"},
   ctx : Reported \cup {NoConfig}, m : Machines \cup {NoMachine}, ok : BOOLEAN]
Boot == [at : {"off", "resolve", "create", "start", "close"}, tried : SUBSET Backends,
         backend : Backends \cup {"none"}, m : Machines \cup {NoMachine}]

SandboxTypeOK ==
  /\ call \in [Calls -> SandboxCall] /\ boot \in Boot
  /\ \A c \in Calls : call[c].at \in {"resolved", "closing"} => call[c].ctx \in Reported
  /\ boot.at \in {"create", "start", "close"} => boot.backend \in Backends
  /\ vm \in Machines \cup {NoMachine} /\ recorded \in Configs \cup {NoConfig}
  /\ status \in Forbidden \cup Usable
  /\ attached \in BOOLEAN /\ open \in BOOLEAN
  /\ live \subseteq Machines /\ unclosed \subseteq live

SandboxInit ==
  /\ call = [c \in Calls |-> NoCall]
  /\ vm = NoMachine /\ boot = BootOff /\ enforced = "unrestricted"
  /\ recorded = NoConfig /\ status = "configured" /\ attached = FALSE /\ open = FALSE
  /\ live = {} /\ unclosed = {}

isRunning == vm # NoMachine
starting == boot.at # "off"
CallDone(c) == call' = [call EXCEPT ![c] = NoCall]

(***************************************************************************)
(* PiStudentRuntime: a context is resolved (executionContext), and later   *)
(* applied.  Without an institutional environment the manager's own state  *)
(* is what the context reports.                                            *)
(***************************************************************************)
ReportedStatus(env) ==
  IF env = "none" /\ status = "configured" THEN "none"
  ELSE IF isRunning /\ env \in Usable \cup {"none"} THEN "active"
  ELSE IF env = "none" THEN status ELSE env

executionContext(c) ==
  /\ call[c].at = "idle"
  /\ \E x \in Contexts :
       call' = [call EXCEPT ![c] = [NoCall EXCEPT !.at = "resolved", !.op = "configure",
                                      !.ctx = [env |-> ReportedStatus(x.env), config |-> x.config]]]
  /\ UNCHANGED <<vm, boot, enforced, recorded, status, attached, open, live, unclosed>>

Stated(env) == IF env = "none" THEN status ELSE env

\* applyEnvironment refuses a context whose environment forbids execution.
RefuseEnvironment(c) ==
  /\ call[c].at = "resolved" /\ call[c].ctx.env \in Forbidden
  /\ status' = call[c].ctx.env /\ CallDone(c)
  /\ UNCHANGED <<vm, boot, enforced, recorded, attached, open, live, unclosed>>

(***************************************************************************)
(* SandboxManager.configure and GondolinRuntime.configure, up to the first *)
(* await: the close of the machine that is running.                        *)
(***************************************************************************)
RefuseConfiguration(c) ==
  LET x == call[c].ctx IN
  /\ call[c].at = "resolved" /\ x.env \notin Forbidden
  /\ x.config.support # "enforced"
  /\ status' = IF x.config.support = "unsupported" THEN "unsupported" ELSE Stated(x.env)
  /\ CallDone(c)
  /\ UNCHANGED <<vm, boot, enforced, recorded, attached, open, live, unclosed>>

KeepConfiguration(c) ==
  LET x == call[c].ctx IN
  /\ call[c].at = "resolved" /\ x.env \notin Forbidden /\ x.config.support = "enforced"
  /\ isRunning /\ recorded = x.config
  /\ status' = Stated(x.env) /\ CallDone(c)
  /\ UNCHANGED <<vm, boot, enforced, recorded, attached, open, live, unclosed>>

ConfigureStopped(c) ==
  LET x == call[c].ctx IN
  /\ call[c].at = "resolved" /\ x.env \notin Forbidden /\ x.config.support = "enforced"
  /\ ~isRunning
  /\ enforced' = x.config.policy /\ recorded' = x.config /\ status' = "ready" /\ CallDone(c)
  /\ UNCHANGED <<vm, boot, attached, open, live, unclosed>>

\* A version that replaces the policy before it takes the machine down.
BadConfigureRunning(c) ==
  LET x == call[c].ctx IN
  /\ call[c].at = "resolved" /\ x.env \notin Forbidden /\ x.config.support = "enforced"
  /\ isRunning /\ recorded # x.config
  /\ call' = [call EXCEPT ![c].at = "closing", ![c].m = vm]
  /\ vm' = NoMachine /\ status' = Stated(x.env) /\ enforced' = x.config.policy
  /\ UNCHANGED <<boot, recorded, attached, open, live, unclosed>>

ConfigureRunning(c) ==
  LET x == call[c].ctx IN
  /\ call[c].at = "resolved" /\ x.env \notin Forbidden /\ x.config.support = "enforced"
  /\ isRunning /\ recorded # x.config
  /\ call' = [call EXCEPT ![c].at = "closing", ![c].m = vm]
  /\ vm' = NoMachine /\ status' = Stated(x.env)
  /\ UNCHANGED <<boot, enforced, recorded, attached, open, live, unclosed>>

\* GondolinRuntime.start: nothing to do, join the start under way, or begin one.
StartMachine(c, rec) ==
  IF isRunning THEN call' = [call EXCEPT ![c] = [rec EXCEPT !.at = "booted", !.ok = TRUE]] /\ UNCHANGED boot
  ELSE call' = [call EXCEPT ![c] = [rec EXCEPT !.at = "booting", !.m = NoMachine]]
       /\ boot' = IF starting THEN boot ELSE [BootOff EXCEPT !.at = "resolve"]

\* The old machine has closed: the policy is replaced, recorded, and the machine restarted.
ConfigureClosed(c) ==
  LET x == call[c].ctx IN
  /\ call[c].at = "closing"
  /\ live' = live \ {call[c].m}
  /\ enforced' = x.config.policy /\ recorded' = x.config /\ status' = "ready"
  /\ IF attached THEN StartMachine(c, [NoCall EXCEPT !.op = "configure"]) ELSE CallDone(c) /\ UNCHANGED boot
  /\ UNCHANGED <<vm, attached, open, unclosed>>

\* The close of a machine rejects: configure and stop pass the error on and leave the rest as it is.
CloseFails(c) ==
  /\ call[c].at \in {"closing", "detached"}
  /\ Cardinality(unclosed) < MaxUnclosed
  /\ unclosed' = unclosed \cup {call[c].m} /\ CallDone(c)
  /\ UNCHANGED <<vm, boot, enforced, recorded, status, attached, open, live>>

(***************************************************************************)
(* Starts: SandboxManager.start at startup, and the creation of a session, *)
(* which goes to the runtime directly when no machine runs.                *)
(***************************************************************************)
ManagerStart(c) ==
  /\ call[c].at = "idle" /\ ~attached
  /\ attached' = TRUE
  /\ StartMachine(c, [NoCall EXCEPT !.op = "start"])
  /\ UNCHANGED <<vm, enforced, recorded, status, open, live, unclosed>>

\* A session is created over a running machine, or over one its creation starts.
CreateSession(c) ==
  /\ call[c].at = "idle" /\ attached /\ ~open
  /\ IF isRunning THEN open' = TRUE /\ UNCHANGED <<call, boot>>
     ELSE StartMachine(c, [NoCall EXCEPT !.op = "session"]) /\ UNCHANGED open
  /\ UNCHANGED <<vm, enforced, recorded, status, attached, live, unclosed>>

\* startInternal ends: everybody who awaits the start goes on.
BootEnds(ok) ==
  /\ boot' = BootOff
  /\ call' = [c \in Calls |->
       IF call[c].at = "booting" THEN [call[c] EXCEPT !.at = "booted", !.ok = ok]
       ELSE IF call[c].at = "awaitBoot" THEN [call[c] EXCEPT !.at = "detach"] ELSE call[c]]

\* resolveSandboxRuntime finds a backend that has not failed yet, or none.
ResolveBackend ==
  /\ boot.at = "resolve"
  /\ \E b \in Backends \ boot.tried : boot' = [boot EXCEPT !.at = "create", !.backend = b]
  /\ UNCHANGED <<call, vm, enforced, recorded, status, attached, open, live, unclosed>>

NoBackend ==
  /\ boot.at = "resolve"
  /\ BootEnds(FALSE)
  /\ UNCHANGED <<vm, enforced, recorded, status, attached, open, live, unclosed>>

CreateMachine ==
  /\ boot.at = "create"
  /\ LET free == Machines \ live IN
     /\ free # {}
     /\ LET m == CHOOSE m \in free : TRUE IN
        boot' = [boot EXCEPT !.at = "start", !.m = m] /\ live' = live \cup {m}
  /\ UNCHANGED <<call, vm, enforced, recorded, status, attached, open, unclosed>>

\* A version that tries the same backend again.
BadNextBackend ==
  boot' = [BootOff EXCEPT !.at = "resolve", !.tried = boot.tried] /\ UNCHANGED call

\* The failed backend is excluded; after the last one the start fails.
NextBackend ==
  LET tried == boot.tried \cup {boot.backend} IN
  IF tried = Backends THEN BootEnds(FALSE)
  ELSE boot' = [BootOff EXCEPT !.at = "resolve", !.tried = tried] /\ UNCHANGED call

CreateFails ==
  /\ boot.at = "create"
  /\ NextBackend
  /\ UNCHANGED <<vm, enforced, recorded, status, attached, open, live, unclosed>>

MachineStarts ==
  /\ boot.at = "start"
  /\ vm' = boot.m
  /\ BootEnds(TRUE)
  /\ UNCHANGED <<enforced, recorded, status, attached, open, live, unclosed>>

MachineFails ==
  /\ boot.at = "start"
  /\ boot' = [boot EXCEPT !.at = "close"]
  /\ UNCHANGED <<call, vm, enforced, recorded, status, attached, open, live, unclosed>>

\* The machine that did not start is closed; an error of the close is ignored.
FailedMachineCloses ==
  /\ boot.at = "close"
  /\ \/ live' = live \ {boot.m} /\ UNCHANGED unclosed
     \/ Cardinality(unclosed) < MaxUnclosed /\ unclosed' = unclosed \cup {boot.m} /\ UNCHANGED live
  /\ NextBackend
  /\ UNCHANGED <<vm, enforced, recorded, status, attached, open>>

\* The caller of a start goes on: the manager records how it ended, a session opens.
StartEnded(c) ==
  /\ call[c].at = "booted"
  /\ open' = IF call[c].op = "session" THEN call[c].ok ELSE open
  /\ status' = IF call[c].op = "session" THEN status ELSE IF call[c].ok THEN "active" ELSE "failed"
  /\ CallDone(c)
  /\ UNCHANGED <<vm, boot, enforced, recorded, attached, live, unclosed>>

(***************************************************************************)
(* Stops: session_shutdown calls the runtime, dispose the manager.         *)
(***************************************************************************)
BeginStop(c, rec) ==
  /\ call' = [call EXCEPT ![c] = [rec EXCEPT !.at = IF starting THEN "awaitBoot" ELSE "detach"]]
  /\ UNCHANGED <<vm, boot, enforced, recorded, status, attached, live, unclosed>>

SessionShutdown(c) ==
  /\ call[c].at = "idle" /\ open
  /\ open' = FALSE
  /\ BeginStop(c, [NoCall EXCEPT !.op = "session"])

ManagerStop(c) ==
  /\ call[c].at = "idle" /\ attached /\ ~open
  /\ BeginStop(c, [NoCall EXCEPT !.op = "stop"])
  /\ UNCHANGED open

\* What SandboxManager.stop leaves in its state.
StoppedStatus(op) ==
  IF op = "stop" /\ status = "active"
  THEN IF recorded = NoConfig THEN "configured" ELSE "ready"
  ELSE status

\* A version that forgets the machine only when it has closed.
BadDetach(c) ==
  /\ call[c].at = "detach"
  /\ IF isRunning
     THEN call' = [call EXCEPT ![c].at = "detached", ![c].m = vm] /\ UNCHANGED status
     ELSE status' = StoppedStatus(call[c].op) /\ CallDone(c)
  /\ UNCHANGED <<vm, boot, enforced, recorded, attached, open, live, unclosed>>

\* stop forgets the machine, and closes it after that.
Detach(c) ==
  /\ call[c].at = "detach"
  /\ vm' = NoMachine
  /\ IF isRunning
     THEN call' = [call EXCEPT ![c].at = "detached", ![c].m = vm] /\ UNCHANGED status
     ELSE status' = StoppedStatus(call[c].op) /\ CallDone(c)
  /\ UNCHANGED <<boot, enforced, recorded, attached, open, live, unclosed>>

StopClosed(c) ==
  /\ call[c].at = "detached"
  /\ live' = live \ {call[c].m}
  /\ status' = StoppedStatus(call[c].op) /\ CallDone(c)
  /\ UNCHANGED <<vm, boot, enforced, recorded, attached, open, unclosed>>

Boots == ResolveBackend \/ NoBackend \/ CreateMachine \/ CreateFails \/ MachineStarts \/ MachineFails \/ FailedMachineCloses
Continues(c) ==
  \/ RefuseEnvironment(c) \/ RefuseConfiguration(c) \/ KeepConfiguration(c) \/ ConfigureStopped(c) \/ ConfigureRunning(c)
  \/ ConfigureClosed(c) \/ CloseFails(c) \/ StartEnded(c) \/ Detach(c) \/ StopClosed(c)
Begins(c) == executionContext(c) \/ ManagerStart(c) \/ CreateSession(c) \/ SessionShutdown(c) \/ ManagerStop(c)

SandboxNext == Boots \/ \E c \in Calls : Continues(c) \/ Begins(c)

\* The runtime's own steps end (machines have a start timeout) and continuations run.
SandboxFairness == WF_sandboxVars(Boots) /\ \A c \in Calls : WF_sandboxVars(Continues(c))
SandboxSpec == SandboxInit /\ [][SandboxNext]_sandboxVars /\ SandboxFairness

(***************************************************************************)
(* Properties                                                              *)
(***************************************************************************)
\* No machine is lost: each that exists is the runtime's, is being started,
\* is being closed by a call, or is one whose close failed.
NoLostMachine ==
  live \subseteq {vm, boot.m} \cup unclosed \cup {call[c].m : c \in Calls}

\* What the manager has recorded is what the runtime enforces, however
\* configurations overlap and wherever one of them fails: the early return of
\* the next configuration never keeps a policy that is not the one it asks for.
RecordedIsEnforced == recorded # NoConfig => enforced = recorded.policy

\* The manager and the runtime agree with what runs: no machine is lost, and the
\* recorded configuration is the enforced one.
SandboxAgrees == NoLostMachine /\ RecordedIsEnforced

\* What makes the agreement inductive: a machine has one holder (the runtime, the start
\* under way, the call that closes it, or nobody when its close failed), and the runtime
\* has no machine while it starts one.
Closing(c) == call[c].at \in {"closing", "detached"}

OneHolder ==
  /\ vm # NoMachine => vm \in live \ unclosed /\ boot.at = "off"
  /\ IF boot.at \in {"start", "close"} THEN boot.m \in live \ unclosed ELSE boot.m = NoMachine
  /\ \A c \in Calls :
       IF Closing(c) THEN call[c].m \in live \ (unclosed \cup {vm, boot.m}) ELSE call[c].m = NoMachine
  /\ \A c, d \in Calls : Closing(c) /\ Closing(d) /\ call[c].m = call[d].m => c = d

SandboxInv == SandboxTypeOK /\ OneHolder /\ SandboxAgrees

\* Every call ends: a start gives up after the last backend.
SandboxCallsEnd == \A c \in Calls : (call[c].at # "idle") ~> (call[c].at = "idle")
=============================================================================

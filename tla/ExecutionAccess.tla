--------------------------- MODULE ExecutionAccess ---------------------------
(***************************************************************************)
(* Under which policy a session's requests and connector calls are made.   *)
(* Every prompt, change of model and connector call reads a fresh          *)
(* execution context first; the organization changes what it allows at any *)
(* time, and the student's interfaces may have two calls under way.  An    *)
(* action is the code between two awaits; a context is two reads, the      *)
(* policy's and the environment's, that the tables may change between.     *)
(***************************************************************************)
EXTENDS PolicyResolution

CONSTANTS Governance,   \* what the organization's tables may say
          AccessCalls,  \* slots for calls under way at once
          MaxChanges    \* bound: changes of the tables

VARIABLES
  revisions, \* the tables' contents over time; the last is what a read returns
  pending,    \* the call in each slot
  effective,  \* CapabilityState.effective, as a version of the tables; 0 before the first
  current,    \* the session's model
  accessStage, \* the workflow's stage
  sent        \* history: the request or connector call the last step made, and the oldest version it may rest on

accessVars == <<revisions, pending, effective, current, accessStage, sent>>

ASSUME AccessAssumption == MaxChanges \in Nat /\ \A rows \in Governance : IsContent(rows)

Versions == 1..(MaxChanges + 1)
NoPending == [at |-> "idle", op |-> "none", model |-> "none", ctx |-> 0, env |-> 0, since |-> 0]
NothingSent == [kind |-> "none", model |-> "none", since |-> 0, upTo |-> 0]

PendingCall ==
  [at: {"idle", "resolving", "resolved", "validated", "setting", "listing"},
   op: {"none", "prompt", "setModel", "connector"}, model: Models \cup {"none"},
   ctx: Nat, env: Nat, since: Nat]

AccessTypeOK ==
  /\ revisions \in Seq(Range(revisions)) /\ Len(revisions) \in Versions
  /\ \A v \in DOMAIN revisions : IsContent(revisions[v])
  /\ pending \in [AccessCalls -> PendingCall]
  /\ effective \in 0..Len(revisions) /\ current \in Models /\ accessStage \in {"plan", "implement"}
  /\ sent \in [kind: {"none", "request", "connector"}, model: Models \cup {"none"}, since: Nat, upTo: 0..Len(revisions)]

Policy(v) == resolvePolicy(revisions[v]).settings
settingsNow == IF effective = 0 THEN DEFAULT_CAPABILITY_POLICY ELSE Policy(effective)
available(v) == availableExecutionModels(revisions[v].managed, Policy(v))

\* A session starts with a model its context allows (selectExecutionModel).
AccessInit ==
  /\ \E rows \in Governance : revisions = <<rows>>
  /\ resolvePolicy(revisions[1]).ok /\ available(1) # {}
  /\ pending = [c \in AccessCalls |-> NoPending]
  /\ effective = 0 /\ current \in available(1)
  /\ accessStage = "plan" /\ sent = NothingSent

NothingIsSent == sent' = NothingSent
Becomes(c, at) == pending' = [pending EXCEPT ![c].at = at]
Ends(c) == pending' = [pending EXCEPT ![c] = NoPending]

\* External: an administrator or a teacher.  A class that joins or leaves an organization must be selected again.
GovernanceChanges(rows) ==
  /\ Len(revisions) <= MaxChanges /\ rows # Last(revisions) /\ rows.managed = Last(revisions).managed
  /\ revisions' = Append(revisions, rows)
  /\ NothingIsSent /\ UNCHANGED <<pending, effective, current, accessStage>>

StageMoves ==
  /\ accessStage' \in {"plan", "implement"} \ {accessStage}
  /\ NothingIsSent /\ UNCHANGED <<revisions, pending, effective, current>>

\* A call that overlaps another may rest on what that one read.
Oldest == LET under == {c \in AccessCalls : pending[c].at # "idle"}
          IN IF under = {} THEN Len(revisions) ELSE Min({pending[c].since : c \in under})

Begin(c, op, m) ==
  /\ pending[c].at = "idle" /\ \A d \in AccessCalls : op = "prompt" => pending[d].op # "prompt"
  /\ pending' = [pending EXCEPT ![c] = [at |-> "resolving", op |-> op, model |-> m, ctx |-> Len(revisions), env |-> 0,
                                         since |-> Oldest]]
  /\ NothingIsSent /\ UNCHANGED <<revisions, effective, current, accessStage>>

\* While it resolves, ctx is what the tables said when the call began.
Reads(c, versions) ==
  \E v \in versions : \E w \in v..Len(revisions) :
    resolvePolicy(revisions[v]).ok /\ pending' = [pending EXCEPT ![c].at = "resolved", ![c].ctx = v, ![c].env = w]

BadResolveExecutionContext(c) ==
  /\ pending[c].at = "resolving"
  /\ Ends(c) \/ Reads(c, IF effective # 0 THEN {effective} ELSE {pending[c].ctx})
  /\ NothingIsSent /\ UNCHANGED <<revisions, effective, current, accessStage>>

\* executionContext: identity, selection, membership, scope, policy and environment are read; any of them may fail.
resolveExecutionContext(c) ==
  /\ pending[c].at = "resolving"
  /\ Ends(c) \/ Reads(c, pending[c].ctx..Len(revisions))
  /\ NothingIsSent /\ UNCHANGED <<revisions, effective, current, accessStage>>

\* The guard's validateModel: the environment is reconciled, which refuses one that is not ready, and the
\* context's policy becomes the session's; then the model is looked for in the context's inventory.
Reconcile(c) ==
  /\ pending[c].at = "resolved" /\ pending[c].op \in {"prompt", "setModel"}
  /\ IF revisions[pending[c].env].ready
     THEN Becomes(c, "validated") /\ effective' = pending[c].ctx
     ELSE Ends(c) /\ UNCHANGED effective
  /\ NothingIsSent /\ UNCHANGED <<revisions, current, accessStage>>

assertExecutionModel(c) == pending[c].model \in available(pending[c].ctx)

\* The checks of guardCapabilitySession after the validation, under the policy the session has by then.
Permitted(m) ==
  /\ modelAllowed(settingsNow, m)
  /\ effective # 0 /\ revisions[effective].managed => settingsNow.models # {}

Sends(c, kind) == sent' = [kind |-> kind, model |-> current, since |-> pending[c].since, upTo |-> Len(revisions)]

\* The model sent to is the session's by now, not the one validated.
prompt(c) ==
  /\ pending[c].at = "validated" /\ pending[c].op = "prompt" /\ Ends(c)
  /\ IF assertExecutionModel(c) /\ Permitted(current) THEN Sends(c, "request") ELSE NothingIsSent
  /\ UNCHANGED <<revisions, effective, current, accessStage>>

setModel(c) ==
  /\ pending[c].at = "validated" /\ pending[c].op = "setModel"
  /\ IF assertExecutionModel(c) /\ Permitted(pending[c].model) THEN Becomes(c, "setting") ELSE Ends(c)
  /\ NothingIsSent /\ UNCHANGED <<revisions, effective, current, accessStage>>

\* The session's own setModel has stored the choice: nothing is asked again.
ModelIsSet(c) ==
  /\ pending[c].at = "setting" /\ Ends(c) /\ current' = pending[c].model
  /\ NothingIsSent /\ UNCHANGED <<revisions, effective, accessStage>>

\* A provider failed: one of the models the context now allows, but the failing one, is switched to.
selectFallbackModel(c, m) ==
  /\ m # current /\ resolvePolicy(Last(revisions)).ok /\ m \in available(Len(revisions))
  /\ Begin(c, "setModel", m)

------------------------------------------------------------------------------
(* school_mcp *)

authorizeExtension(c, action) ==
  /\ LET rows == revisions[pending[c].env] IN rows.managed /\ rows.ready /\ rows.connector
  /\ Policy(pending[c].ctx).switch   \* the internet, which the connector needs
  /\ action = "call" => accessStage = "implement"

\* The connector's own list of tools is read in between.
AuthorizeCall(c) ==
  /\ pending[c].at = "resolved" /\ pending[c].op = "connector"
  /\ IF authorizeExtension(c, "call") THEN Becomes(c, "listing") ELSE Ends(c)
  /\ NothingIsSent /\ UNCHANGED <<revisions, effective, current, accessStage>>

CallConnector(c) ==
  /\ pending[c].at = "listing" /\ Ends(c)
  /\ Sends(c, "connector") \/ NothingIsSent   \* NothingIsSent: the tool is not listed
  /\ UNCHANGED <<revisions, effective, current, accessStage>>

AccessNext ==
  \/ \E rows \in Governance : GovernanceChanges(rows)
  \/ StageMoves
  \/ \E c \in AccessCalls :
       \/ Begin(c, "prompt", current) \/ Begin(c, "connector", "none")
       \/ \E m \in Models : Begin(c, "setModel", m) \/ selectFallbackModel(c, m)
       \/ resolveExecutionContext(c) \/ Reconcile(c) \/ prompt(c) \/ setModel(c) \/ ModelIsSet(c)
       \/ AuthorizeCall(c) \/ CallConnector(c)

AccessSpec == AccessInit /\ [][AccessNext]_accessVars

------------------------------------------------------------------------------
\* Whatever the tables say, the policy resolved from them grants what every layer grants and no more.
PolicyIsMeet == \A v \in DOMAIN revisions : NoWiderThanGranted(revisions[v])

\* A prompt is sent to a model, and a connector is called, only if the organization's tables allowed it at some
\* moment since the oldest call that overlaps this one began: whatever was read before that counts for nothing,
\* however the calls of the student's interfaces interleave.
RequestsAreGranted ==
  /\ sent.kind = "request" =>
       \E v \in sent.since..sent.upTo : sent.model \in Granted(revisions[v])
  /\ sent.kind = "connector" =>
       \E v \in sent.since..sent.upTo : revisions[v].managed /\ revisions[v].ready /\ revisions[v].connector

\* Why it holds: what a call under way has read is no older than the oldest call it overlaps, and neither is the
\* session's policy once the call is validated, though another call may have put it there.
ReadsAreRecent ==
  /\ effective # 0 => resolvePolicy(revisions[effective]).ok
  /\ \A c \in AccessCalls : pending[c].at # "idle" =>
       /\ 1 <= pending[c].since
       /\ \A d \in AccessCalls : pending[d].at # "idle" =>
            pending[c].since <= pending[d].ctx /\ pending[d].ctx <= Len(revisions)
       /\ pending[c].op = "setModel" => pending[c].model \in Models
       /\ pending[c].at # "resolving" =>
            /\ resolvePolicy(revisions[pending[c].ctx]).ok
            /\ pending[c].ctx <= pending[c].env /\ pending[c].env <= Len(revisions)
       /\ pending[c].at = "validated" => pending[c].since <= effective
       /\ pending[c].at = "setting" => pending[c].op = "setModel"
       /\ pending[c].at = "listing" =>
            LET rows == revisions[pending[c].env] IN rows.managed /\ rows.ready /\ rows.connector

AccessInv == AccessTypeOK /\ ReadsAreRecent /\ RequestsAreGranted
=============================================================================

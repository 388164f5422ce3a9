# Pi Student: models, checks and proofs

Pi Student is a coding agent for classrooms. A student works with a model in a
sandboxed project, led through learning stages; teachers run classes and
projects; administrators of an organization govern members, policies and a
model budget; a gateway serves models on the organization's account. This
directory holds TLA+ models of the parts whose correctness depends on order,
concurrency and failure, the TLC configurations that check them, and theorems
checked by TLAPS. Every definition is taken from the TypeScript and SQL under
`src/`; `PROJECT.json` maps each one to its lines.

## 1. Inventory

| Part | State it keeps | Operations | What is hard | What makes it correct |
|---|---|---|---|---|
| Model gateway (`services/model-gateway`) and its database functions | reservations, usage ledger, daily aggregate, budgets, prices | reserve, call the provider, settle; edit budgets and prices; preflight | concurrent reservations, lost replies, crashes between steps, months that turn | limits hold under concurrency; work is booked once; aggregate equals ledger |
| Organizations and accounts (`infra/supabase/migrations`) | organization, memberships, account markers | edit, remove, transfer, deactivate, close account, suspend, appoint, delete | READ COMMITTED transactions with row locks and deferred triggers | one owner; closed means empty; deleted accounts hold nothing |
| Learning records (`packages/telemetry`, `supabase-adapter`, `runtime/telemetry-integration`) | one file per session, rows on the server | checkpoint, save, upload, mark, `pi-student sync` | every await is an interleaving; crash, offline, several students and processes | "synced" means uploaded; records stay their student's; what is saved arrives |
| Learning workflow (`packages/education`, `runtime/create-session`) | stage, plan, approval, results, practice, active tools | reports, approvals, prompts, tool calls, refreshes of the tool list, restart | tool lists loaded asynchronously, calls made long after they were offered | edits only under an approved plan; exports only after a pass; practice changes nothing |
| Capability limits (`packages/policy/capability-runtime`, `runtime/project-capabilities`) | turns, tokens, cost, time of a session | admit a prompt, a tool call, count a response | limits counted after the fact, two lanes (agent and tutoring) | each lane closes at its limit and reopens for nothing |
| Policy resolution (`packages/policy/resolution`, `supabase-adapter/governance-policy`) | none | read the tables, merge organization, class and project layers | delegation, narrowing, an empty list that means any or none | the result is the meet of the layers; what nobody approved cannot be used |
| Execution context (`runtime/execution-context`, `model-selection`, `approved-extensions`) | the session's policy and model | prompt, change the model, call a connector | two reads per context, tables that change, calls that overlap | a call rests on what was granted while it or what it overlaps ran |
| Sandbox lifecycle (`packages/sandbox`, `sandbox-gondolin`, `runtime/student-runtime`) | configuration, machine, state shown | configure, start, stop | overlapping callers across awaits | the running machine has the last accepted configuration; at most one runs |
| Sign-in (`packages/shared/auth-lifecycle`) | snapshot, session, callbacks seen | resolve, callback, confirm, sign out | late exchanges, overlapping calls | signed out stays signed out; a callback is used once |
| Class and project selection (`runtime/student-classroom`) | stored context, active record | join, select | two stores written one after the other | record and context name the same project |
| Workspace events (`runtime/workspace-events`, `workspace-activity`) | stream, journal, seen set | emit, refresh, trim | several processes, trimming of both | each event once, in the reader's scope |
| Map store and map panel (`runtime/workspace-map-store`, `paseo-adapter/flowchart*`) | one map file, the panel's page state | generate, save, select, restore, refresh | files that change while they are read; answers that come after the page has gone on | a map not called stale is of the files as they are; the panel is answered |
| Editor suggestions (`paseo-adapter/editor-completion*`) | attempts in memory and in a file, the shown suggestion | ask, reserve, answer, clear | overlapping requests, restarts, late answers | the quota is kept; a suggestion is of the chosen model |
| Dictation (`runtime/dictation`) | the recording under way, audio files | press, record, transcribe, cancel | two presses, settings that change in between | nothing recorded for the cloud without consent; audio is removed |
| Editor bridge (`paseo-adapter/ecosystem-bridge`) | publishing flag, jobs of maps, logins under way | HTTP routes | flags read before an await | one publication, one repository |
| Publishing (`packages/publishing`) | repository and deployment record | create, push, wait, record | crash between the remote and the local step | one repository per project |
| Evidence and intervention queue (`education/learning-evidence`, `teacher_intervention_queue.sql`) | evidence rows, queue items | derive, replace, refresh, answer | a long loop over the journal; overlapping recomputation, uploads and answers | evidence means what it says; a settled queue follows it; answers stand |
| Question rounds (`runtime/student-ask`, `education/student-question-loop`) | rounds held, prompts asked, whether enough is known | route a prompt, ask, answer, cancel | stage, intent, the model's own questions and the loop's all count | rounds end and repeat nothing |
| Learning boundary, command policy, tool arguments | none | classify, authorize one call | – | functions of their inputs |
| Setup and the terminal (`apps/client`, `runtime/setup`) | sandbox, agent, reader of the input, echo | commands, provider setup, sign-in, line session | input that ends, retries, failures while starting | nothing is left held; no question is asked for ever |
| Teacher console, web pages, SDK | – | input and output | – | – |

How they meet: a student's prompt passes the workflow, the capability limits
and the preflight; its model request goes to the gateway, which asks the
database; its tool calls go through the workflow's guard to the sandbox; its
events become the session's record, which the outbox uploads; teachers and
administrators see and govern through database functions. The parts share
database rows (budgets, memberships), files of one installation (records,
journal, maps) and callbacks within a process (workflow listeners, session
events). `PROJECT.json` lists all of them under `components`, and the hazards
of the code, each at its line, under `hazards`.

## 2. Modules

| Module | Stands for |
|---|---|
| `Sums` | `sum(...)` over a table and what a filter leaves of a list, as recursive functions |
| `ModelBudget`, `ModelBudgetMC` | gateway, reservation, settlement, aggregation, budget and price edits, preflight |
| `BudgetLedger` | what the budget promises, without gateway, transactions or aggregate |
| `PolicyResolution` | the layers of a policy, their merge, and a definition of its result without the merge |
| `ExecutionAccess` | prompts, model changes and connector calls under a policy that changes |
| `LearningWorkflow`, `LearningWorkflowMC` | stages, approval, tools, calls, practice |
| `QuestionRounds` | the rounds of questions put to the student |
| `OrganizationOwnership`, `OrganizationOwnershipMC` | membership and ownership functions as transactions |
| `LearningRecords`, `LearningRecordsMC` | checkpoints, record files, upload |
| `LearningEvidence` | the evidence of a journal, and a definition of each category without the loop |
| `InterventionQueue` | the teacher's queue, its refreshes and answers |
| `WorkspaceEvents`, `WorkspaceActivity` | the shared journal of activity; what a Chat reports there |
| `Publishing` | a project's repository, its site and the record of both |
| `SandboxLifecycle` | configure, start, stop and fallback of the sandbox |
| `SignIn` | callback, confirmation and sign-out of the browser |
| `ClassSelection` | what class and project a session is stored, recorded and governed under |
| `CapabilityLanes`, `CapabilityLanesMC` | limits of a session, the tutoring lane and its tools |
| `WorkspaceMaps`, `MapPanel` | the stored project map, and the page that shows it |
| `EditorCompletion` | suggestions in the editor, page and service |
| `Dictation` | the dictation shortcut |
| `TerminalClient` | the process of the terminal: command, setup, line session |
| `AdmissionMC`, `SessionMC`, `WorkspaceMC`, `ClientMC`, `ProgressMC` | instances of several parts in one run |
| `SumsProofs` | lemmas about sums and filters |
| `ModelBudgetProofs` | invariants and limits of the budget |
| `AdmissionProofs` | its aggregate, promises and refinement; policy and access to it; the `admission` run's invariant |
| `SessionProofs` | workflow, rounds of questions; the `workflow` run's invariant |
| `ClientProofs` | limits, selection, sign-in, sandbox, terminal, dictation, maps, panel, suggestions; the `client` run's invariant |
| `EvidenceProofs` | the evidence of a journal |
| `WorkspaceProofs` | records, publishing, queue, activity; the `workspace` run's invariant |
| `OrganizationProofs` | membership and ownership |

The parts in the modules of several parts share no state in the
code, or share only what each treats as a free choice. An initial state chooses
the part a behaviour is about and pins the others to where they start, so the
states of such a run are the sum of the parts' and each part is checked as
thoroughly as in a run of its own.

Operators named `Bad...` are deliberate mistakes: each stands before the
definition it varies, and a run that uses it in place of the code's own must
fail. They show that a property can break and are used nowhere else.

### ModelBudget

`month`, `budget` and `price` are the database clock and the administrators'
tables; `res`, `ledger` and `daily` are `model_request_reservations`,
`usage_ledger` and `usage_daily`; `txn`, `pc`, `call` and `usage` are one
request in the gateway and its transaction under way. `Arrive` is the RPC to
`gateway_reserve_model_request`, `Decide` (`Admit` or `Deny`) its body under
the organization's lock, `CallProvider` .. `ProviderAnswers` the provider call,
and `Settle...` the body of `gateway_settle_model_request`.

- Both functions lock the organization's row before they read a budget and keep
  it to the commit, so a decision is one step; what comes between the call
  and that step is interleaved. The month is the one in which the transaction
  began. The price is the one effective then, or one saved while it waited by a
  transaction that began earlier.
- A reply lost after the commit is a gateway that gave up before it: `LoseRpc`
  and `Crash` leave the transaction running. Settlements may be delivered again.
- Sign-in, membership, profile and size checks are refusals without effect on
  the tables (`TurnAway`, `AbortTxn`). Reasons and wording of refusals are left
  out.
- Amounts are small and prices are per `PerMillion` tokens, a constant, so both
  roundings happen at small numbers.

`BudgetLedger` says that a request commits an amount only if every budget over
its account stays within limit and, for agents, within the share that is not
reserved for tutoring; that settling only lowers it; and that nothing else
moves it. `ImplementsPromise` maps each reservation and its ledger row to an
entry and checks every step of `ModelBudget` against that.

### OrganizationOwnership

`org`, `member` and `deleted` are what is committed. A connection runs one
function at a time, a statement per step; its writes (`edits`, `newOrg`) are its
own until `Commit`, its locks (`held`, `shared`) until it ends. Reads see what
is committed, plus its own writes where the code reads them. Row locks are FOR
UPDATE and FOR SHARE; KEY SHARE locks of foreign keys block none of these
statements and are left out. The deferred owner triggers run in `CheckOwner`,
before the commit becomes visible. `Abort` is any error: refused entitlements,
a deadlock's victim, a lost connection. Initially the organization has been
created, with its owner and any other members. The roles `teacher` and
`member` differ in nothing here and are one. Classes and enrolment are not
modelled.

### LearningRecords

A record is the number of the checkpoint it was taken at. `record` is what the
session has in memory, `file` the JSON file (replaced by rename, so readers see
the old or the new one; temporary files are never listed), `remote` the
server's session row and the parts uploaded after it. `proc` is what a process
does: a session checkpoints after a response, on `/sync`, on a new class or
project and on shutdown; `pi-student sync` uploads only. `pending()` is one
read of the directory. `MarkRead` and `MarkWrite` are the two halves of
`markSynced` and `markFailed`. Errors and attempts recorded in the file are
left out. A process may be killed at any step and a student may sign in or out
at any time.

### LearningWorkflow

`wf` is the controller's state; `question` is /question practice, which the
restored session keeps; `turn` is where the running prompt is; `active` is the
session's list of tools, `offered` the list the model's last request carried,
and `refreshes` the refreshes still loading the execution context, each with
the list it began with. `confirmed` and `unchecked` are history: the number of
plan steps the student last approved, and the stages in which files changed
since the last pass.

- Calls of one response run one after the other, because the tools that change
  the workflow are sequential, and a dialog is answered within its call.
- A report about another stage than the current one is rejected and is no step.
- A refresh puts back the list it began with, whatever has happened since. What
  is then offered is still checked against the stage at the call (`CanUseTool`).
  School tools depend on a separate authorization and are a free choice.
- Shell commands are inspection, except in IMPLEMENT and for the project's own
  test and build scripts in VERIFY.
- The student's own edits outside the agent, capability limits (which only block)
  and returning to an older entry of the session tree, a feature of the pi
  library, are not modelled. `version` and `saved` are counted modulo two: the
  properties ask only whether they changed.

### QuestionRounds

`asking` is `student_ask`'s context, `round` the call under way, `learner` what of
the workflow it reads, and `episode`, as history, the rounds completed since the
stage or the intent last changed. `Routed` is the await before a prompt is
answered; `answerQuestion` is one dialog. A prompt is a model value; what the
decision engine scores and which facts answer a question are a choice of
`AskFromLoop`. The model's own questions may share an id, in which case one
answer counts for both: the property says so.

### PolicyResolution and ExecutionAccess

`ApplyLayer` is one turn of `resolveEffectivePolicy`'s loop and `resolvePolicy` the
governance provider that makes the layers from the tables. There is one path of
each kind, since paths do not touch each other. `Proposals`, `GrantedModels` and
`GrantedLevels` say from the tables alone what a policy should be.

`revisions` is what the tables said over time, `pending` a call between two
awaits: `resolving` between the reads of policy and environment, `resolved`,
`validated`, `setting`, `listing`. `effective` is the policy the session has, put
there by whichever call finished last. `sent`, as history, is the request or
connector call the last step made and the oldest version it may rest on. What
the connector then does is not modelled.

### LearningEvidence and InterventionQueue

`deriveLearningEvidence` is the loop (`Loop`, a recursive function of how many
events were taken); `Meaning` says of every item which events make it one. A
journal of a few events is one state, growing event by event. Events are taken by
time and, at equal times, by their sourceIds as strings, which is not the
journal's order: "...:10" comes before "...:9" (`IdOrder`). An edit event is of one
file, as everything that emits one makes it (`workspace-activity.ts:166`). An item
cites the places, not the hashes, of the first `MAX_REFERENCES` events of its
group, and the output keeps the latest `MAX_EVIDENCE` items; a group that goes on
replaces its item.

A refresh of the queue is a READ COMMITTED transaction of one statement per
action, with the rows it has locked (`held`) and not yet committed (`writes`);
`current`, as history, says that the last refresh to commit met no change and no
other refresh. Two reads of one category may straddle a change, as in the code:
what such a refresh leaves is corrected by the next, except for an item it has
closed, which stays closed. Ties in time are broken in any order.

### TerminalClient

`at` is where the process is, `setup` the provider setup under way with who asked
for it, `held` what must be given back, `reader` the one reader of the input and
`eof` that the input has ended. What a model, a provider or a package does is a
choice. Two details of the code are in the model and not in any property: a
retry started by `return runProviderSetup(...)` within `try`/`finally` runs after
the reader it was given has been closed (`runtime/src/setup.ts:112`, `:143`), so
it is cancelled; and the reader of `client/src/cli.ts:164` is closed on
some ways out only.

### WorkspaceEvents and WorkspaceActivity

`journal` is the file's lines, `stream` the record each process keeps of the
project (`generation` tells a record from one forgotten), `writer` the chain of
appends with the one under way, `reader` a refresh between its read and its
use. An event is `origin:seq`; kinds, redaction and parsing are left out. The
limits (events kept, 5,000 identities cut to 2,500, bytes of the file) are small
constants, a line being the unit of the file. A line appended between `Measure` and `Compact`
by the other process is lost, as in the code: other surfaces may miss an event,
and no property says they may not.

`WorkspaceActivity` is the chat's extension. `binding` is bumped when the Chat
moves; a tool call remembers the binding and, as history, its `home`.
`FileChecked` is the await that looks whether a file exists.

### Publishing

`saved` is the metadata file, `origin`, `head` and `edited` are the project's git
state, `onGitHub` the repositories with what Pages has built of them. A
publication is at one await at a time; `Fail` is the catch block from anywhere,
`StopProcess` the end of a process, which takes all runs of that process with it
and may leave a file that was being written unreadable. Names are numbers,
tried in order, as `createUniqueRepository` does. The scan for secrets, detection
of the project and the wording of errors are failures that may happen.

### SandboxLifecycle

An action is the code between two awaits. `call` holds the calls under way,
`vm` the runtime's machine, `boot` a `startInternal` under way with the
backends it has tried, `live` the machines that exist. A close may fail
(`unclosed`, bounded by `MaxUnclosed`). What the HTTP hooks enforce
(`enforced`) is the runtime's policy, whose machine is closed before it is
replaced. Files, commands and mounts are left out.

### SignIn

`session` is the backend client's stored session, named by the code whose
exchange created it; `late` follows an exchange that outlived its time limit.
`flow` is a caller within `handleCallback`, `resolve` or `signOut`. `Reload` is a
page that loads again. When a callback signs in and its confirmation then
fails, the session stays stored, which a later `resolve` finds; nothing here
says otherwise.

### ClassSelection

`stored`, `linked`, `selected`, `assignment` and `effective` are five places that
each hold a class or project; the commands change them in the code's order and
`CommandFails` may end them at any await.

### CapabilityLanes

`turns`, `tutoringTurns`, `timeUp`, `costUp` and `agentBlocked` are the
limits' state, `activeTools` the session's list, `toolsBefore` what the tutoring
lane puts aside, `captures` the tool refreshes that await the execution
context. A prompt passes its handlers one after another.

### WorkspaceMaps and MapPanel

`mapFile` is the stored map with the digests of its sources; its text is kept
as history, to say what the map is of. `job` reads the files one await after
another while `EditFile` changes them. `MapPanel` is the page: `revision` tells
answers that are still wanted, `address` is where the browser is, and `Mount`
runs some time after it changed.

### EditorCompletion

`editor` is the page (text and cursor are one `spot`), `suggests` the requests,
`quota` the attempts in memory and file, and `asked`, as history, those let
through. Minute and day are spans of ticks.

### Dictation

`press` is one run of the shortcut's handler, `recorder` the controller,
`recording` ffmpeg and its audio file. Consent, policy and setup change between
any two steps.

## 3. Runs

| Run | Instance | What it shows |
|---|---|---|
| `budget_fixed` | 2 requests, 2 accounts, 2 months, 2 budgets, no budget edits | `WithinLimits`, `TutoringReserveKept`, `ModelWorkIsBooked`, `HeldUntilSettled`, `DailyMatchesLedger`, `HonestUsageSettles`, `ImplementsPromise` |
| `admission` | every small content of the tables with one path set; 2 overlapping calls and 1 change of the tables; 2 requests, 1 account, budget and price edits, a free and a dear price, with fairness | `AdmissionInv`, `PolicyIsMeet`, `RequestsAreGranted`, `PreflightGivesUpNothing`, `OvercommitOnlyByLimitChange`, `RequestsAnswered` |
| `workflow` | 2 plan steps, 2 refreshes in flight; 2 rounds of 2 questions, 3 prompts of which two are shared between lists or required | `SessionInv`, `RoundsEnd`, `EditsFollowApproval`, `SavesFollowAPass`, `PracticeIsReadOnly` |
| `workspace` | 2 surfaces on a journal; 3 scopes, 2 tool calls; one publication at a time; 1 process, 1 session, 2 checkpoints, 2 students; journals of 4 events, gaps 0 and 3, 2 references to an item; 2 refreshes of a queue; 2 users, 2 connections, 4 calls | `WorkspaceInv`, `ActivityKept`, `EvidenceIsMeant`, `ProjectOnRecord`, `MembershipKept`, `RecordsKept`, `QueueKept`, `OwnerLostOnlyUnseen` |
| `client` | 2 sandbox calls, 3 machines; 2 callers of sign-in; 2 classes, 3 projects; 2 stages; 1 file, 2 contents; 2 workspaces, 3 requests; 2 spots, 2 models; 3 presses | `ClientInv`, `SandboxAgrees`, `LateLeavesNothing`, `AuthenticatedIsConfirmed`, `SelectionAgrees`, `AllowanceKept`, `MapIsCurrent`, `PanelIsAnswered`, `QuotaKept`, `CloudOnlyAsAgreed` |
| `progress` | 2 sandbox calls, 2 backends; 1 student, 2 sessions; 3 providers, one of each kind; with fairness | `TerminalLeavesNothing`, `SandboxCallsEnd`, `SavedReachesServer`, `TerminalEnds` |
| `org_closure` | account closure and platform updates | `OperatingHasOwner` fails |
| `records_two_processes` | a session and `pi-student sync` | `SyncedMeansUploaded` fails |
| `workflow_export` | 1 plan step | `SavesAreVerified` fails |
| `publish_twice` | 2 requests to publish at the bridge | `SavedIsOrigin` fails |
| `dictation_twice` | 2 presses of the shortcut | `AudioIsRemoved` fails |
| `tutoring_tools` | 2 stages, 1 refresh | `TutoringIsToolFree` fails |

`AdmissionInv`, `SessionInv`, `WorkspaceInv` and `ClientInv` are, for the part a
behaviour is about, the invariant its proof is by induction on (section 4): the
types and what makes the properties inductive.

Bounds. Two requests against a limit that admits one are enough for them to
race and for a settlement to make room. Two months make a transaction late.
Two connections and two users give every pair of functions a race, and with two
users a transfer, a closure and an outsider's promotion have all their roles;
four calls let a cause, a race and a consequence follow each other. One session
with two checkpoints has a newer record to lose; `progress` adds a second
session, whose record waits while the first is uploaded. Two refreshes, of tools
or of a queue, can end in either order. Two calls of the sandbox overlap; three
machines are the old one, the one being started and one whose close failed. One
callback code with an earlier session gives a late exchange something to
overwrite. Three projects of two classes let a selection move within a class and
between classes. A journal that holds one line is compacted at once; the chat
emits two events and forgets its record once, so that it reads its own back.
Journals of four events hold a failure, an edit, a fix and one event more, at the
same time or with gaps that add up to more than what counts as related; three
edits of a group are one more than an item may cite; edits with tests and the rest of
the events are two families, which meet in none of the derived categories. The
queue's evidence is that of two journals, a failing one and one that passes after
edits of the agent's; an assumption checks that both are what the derivation
makes of them. Three presses are a start, a stop and one between them. Two
overlapping calls and one change let a context be old in each of its two reads;
the tables are six: all or nothing approved, a class's own lists, an environment
that is not ready, and a class outside any organization. The resolution itself
is checked over every content that sets one path at every layer.
`BudgetFixed` uses `FixedSpec`, the system without budget edits; `admission` has
them, and its limits are set so that an edit can put a month over. `workspace`
uses symmetry over the organization's users and connections; it checks no
liveness. `records_two_processes` and `publish_twice` check `SyncedMeansUploaded`
and `SavedIsOrigin`, which are parts of `RecordsKept` and `ProjectOnRecord`, with
two processes and two publications; `workspace` has one of each.

`CHECK_DEADLOCK FALSE` is used in all runs but `tutoring_tools`: requests, calls,
checkpoints and time are bounded, and a system whose bounds are used up stops.

Fairness. `RequestsAnswered` assumes that the database serves a transaction that
waits for the lock, that the gateway goes on with a reply it has, and that a
provider's call ends, if only by the HTTP client's time limit.
`SandboxCallsEnd` assumes that a machine's start and close end (starts have a time
limit) and that continuations run; closes do not fail in that run
(`MaxUnclosed = 0`), since a close that fails ends the call by itself.
`TerminalEnds` assumes that the process runs on and the programs and providers it
waits for answer; once the input has ended the student answers nothing more. The
full-screen and the RPC session see to their own end.
`SavedReachesServer` assumes that a process goes on with what it does, that
students keep coming back or the sync command is run, and that saving, marking
and uploading succeed now and then if tried again and again (strong fairness:
the disk and the network recover). It assumes nothing about crashes and
sign-ins except that one account finally stays.

### What the failing runs say

Each of them checks one sentence of a doc or comment, and shows where the code
does something else; `findings` quotes the sentence.

- `org_closure`: the owner's account closure, let through because the organization
  is suspended, commits around a reactivation: an operating organization
  is left without an owner. `OwnerLostOnlyUnseen` bounds this to that one way.
- `records_two_processes`: `markSynced` writes back the record it read and
  overwrites a checkpoint saved in between, as synced.
- `workflow_export`: VERIFY permits edits after a pass was reported, and the
  export only asks for the pass.
- `publish_twice`: two requests to publish that both read the flag before either
  sets it create two repositories, and the record and origin may disagree.
- `dictation_twice`: two presses before the first recording is there start two
  recorders; the first is forgotten and its audio file stays.
- `tutoring_tools`: a refresh of the tools that awaited the execution context
  puts them back after the tutoring lane has emptied the list.

## 4. Proofs

TLAPS checks these for every value of the constants under the modules' named
assumptions, which TLC evaluates on every run. An inductive invariant stands in
the module it is about, or, for `Aggregated` and the rest of the budget's, in
its proofs; one step is proved per action.

**Sums** (`SumsProofs`): a sum of naturals is a natural, sums add, are monotone,
and change by one entry's change; what a filter leaves of a list is what it does
not drop, in its order (`WithoutIsLeft`). The recursion is a function on `0..n`;
the library's induction theorems are not usable with the installed provers, so
induction over an interval is proved from the least element of a set
of naturals.

**ModelBudget** (`ModelBudgetProofs`). `Inv` is the type invariant and, for each
request, `RequestInv`: a ledger row exists exactly for a settled reservation, has
its month and at most its amount; a reservation has a valid month and account; a
request waiting to reserve has none yet; a settlement has usage, and usage a
reservation; the gateway's step agrees with these. It is needed because a
settlement dates its ledger row by the reservation, which must therefore have a
month and an account. From it:
`TypeCorrect`, `WorkBooked` (`ModelWorkIsBooked`), `HeldOnceSettledOnce`
(`HeldUntilSettled`). `Aggregated` says that what a budget finds in the
aggregate is the sum of its settled rows; with it, a decision counts
at least what is committed, so `OvercommitNeedsLimitChange`
(`OvercommitOnlyByLimitChange`) and, without budget edits,
`FixedWithinLimits` (`WithinLimits`).

`AdmissionProofs` goes on from there. `DailyIsLedger`
(`DailyMatchesLedger`): a settlement adds to one account and month what it adds
to its row. `TutoringKept` (`TutoringReserveKept`, without budget edits): an
agent's admission leaves even everything committed outside the share, and any
other step raises nothing agents have committed; it needs that the arguments of
a request with a reservation no longer change (`CallKept`).
`HonestUsageAccepted` (`HonestUsageSettles`): a held reservation is what its
request was reserved for (`HeldIsReserve`); the dearest rate times the input
bound covers any mix of input, and rounding up keeps the order.
`PreflightIsSafe` (`PreflightGivesUpNothing`): what is used is at most what an
admission would find, and a request that costs something moves a meter that has
reached its limit, or its share, past it; this is where `>=` and `>` meet.
`Refinement` (`ImplementsPromise`): admissions are `Commit` steps, settlements
`Settle` steps, budget edits `SetCap` steps, and the rest are stutters.

**Policy** (`AdmissionProofs`).

- `PolicyResolution`: `PolicyIsTheMeet` (`PolicyIsMeet`) rests on
  `ResolvesToTheMeet`, about the operators alone: path by path, four layers
  applied in turn give the conjunction of the switches, the least of the caps and
  the intersection of the lists, and a resolution that would leave a list empty
  fails. For models, the empty list of the start means any and the first list
  given replaces it; a layer with no approved model gives none.
- `ExecutionAccess`: `RequestsRestOnGrants` (`RequestsAreGranted`).
  `ReadsAreRecent` says that a call under way has read nothing older than the
  oldest call it overlaps, and that once it is validated the session's policy is
  no older either. The oldest call counts, and not the call itself, because
  another call may finish its older read in between and put that policy in the
  session (`Oldest`).

**A session** (`SessionProofs`).

- `LearningWorkflow`: `Inv` adds to the types that every stage from IMPLEMENT on
  has an approved plan (`Planned`), that an approved plan has the steps the
  student confirmed (`Confirmed`), and that from REVIEW on a pass leaves no
  IMPLEMENT edit behind (`Checked`). None of these mentions the tool lists: a
  stale list is harmless because each call is checked again, and
  `ToolsByStage` says what that check lets through. From it: `TypeCorrect`,
  `EditsAreApproved`, `SavesAreChecked`, `PracticeReads`.
- `QuestionRounds`: `QuestionsEnd` (`RoundsEnd`). `AskInv` says that what the
  context counts and remembers is what was completed since the stage or the
  intent last changed, and that a dialog under way shows nothing answered before
  and has no required answer blank. The loop's own questions are a filter of a
  list, hence `WithoutIsLeft`.

**The client** (`ClientProofs`).

- `AllowancesHold` (`AllowanceKept`): tutoring is counted only when the agent lane
  is closed, and the last tutoring reply closes prompts (`TutoringEnds`).
- `SelectionIsOne` (`SelectionAgrees`): `HalfMade` says for each await of a command
  which of the five places have been changed.
- `LateSignInsVanish` (`LateLeavesNothing`): a code is exchanged once and its
  outcome is settled by the flow that exchanges it (`ExchangedOnce`).
  `ReportsAreConfirmed` (`AuthenticatedIsConfirmed`) is about single steps.
- `SandboxIsAccountedFor` (`SandboxAgrees`): every machine that exists is held in
  one place, the runtime, a start, a call that closes it, or those whose close
  failed (`OneHolder`).
- `NothingStaysBehind` (`TerminalLeavesNothing`): what is held follows from where
  the process is (`HeldByPlace`), for a setup from who asked for it.
- `CloudIsAgreed` (`CloudOnlyAsAgreed`): a recording for the cloud, or one about to
  start, has consent (`Agreeing`).
- `FreshMapsAreTrue` (`MapIsCurrent`): the digests of a map and its text are of the
  same reads, in the file and in every copy under way (`MapsMatch`).
- `PanelNeverWaits` (`PanelIsAnswered`): no request is of a later revision than the
  panel's, and a panel that shows or will show something is a project's
  (`PanelHasPlace`).
- `QuotasHold` (`QuotaKept`): attempts in memory and file together bound those let
  through, a window at a time (`Remembered`, `PendingWithin`), with one request at
  a time past the check (`OneAtATime`); what was asked since the last clear was
  asked of the chosen model (`AskedOfModel`).

**What leaves the workspace** (`WorkspaceProofs`).

- `RecordsStayWithStudents` (`RecordsStayTheirs`, for any number of processes) and
  `RecordsAreKept` (`RecordsKept`, for one). `OnRecord`: a process works on records
  that exist, and a row is its student's. `ListedAsFiled`, which only one process
  makes true: what it listed is what the file still has. The hypothesis
  `OneProcess` is not a convenience: `records_two_processes` shows the property
  false without it.
- `PublishedSitesAreServed` (`PublishedIsServed`, for any number of publications)
  and `ProjectIsOnRecord` (`ProjectOnRecord`, for one). `SitesFollowHead` orders
  what Pages serves, builds and was pushed; `ReadIsCurrent`, for one publication,
  says that what it read is still so. `publish_twice` shows why
  `OnePublication` is needed.
- `QueueFollowsEvidence` (`QueueKept`): a refresh that has met nothing is alone, has
  read what is still so, and leaves the categories behind it in order
  (`CleanIsAlone`, `SeenSoFar`); what is written and not committed is locked
  (`WrittenRowsHeld`), so answers wait for it.
- `ActivityIsInPlace` (`ActivityKept`): a surface's own events in its stream are
  the latest it emitted since it last forgot, without gap and in order
  (`OwnOnce`), which trimming to the newest keeps and a refresh cannot disturb,
  as it takes only other surfaces' events; a call that knows the binding there
  still is was begun where the Chat still is (`HomeIsKnown`), since a move bumps
  the binding and forgets what was pending.

**Organizations** (`OrganizationProofs`): `MembershipIsKept` (`MembershipKept`) and
`OwnerIsKept` (`OwnerLostOnlyUnseen`), for any users and connections. `OrgInv` has
the locks (`LocksExclude`) and one part for each function: what it has written
and which locks it holds at each step, and what it relies on while they last. A
step that is no commit shows the part of its own transaction again; a commit shows
that what it changes under its locks leaves the parts of all others true
(`ChangesUnder`, `KindKept`).

**Evidence** (`EvidenceProofs`): `EvidenceMeans` (`EvidenceIsMeant`), for journals of
any length. `Sound(D, s)` says that the loop, having taken the events D, knows and
has put out what D means: the last edits of each file and their groups, the
failure and the attempt that are still open, what was revised, the plan and the
lesson seen, and `Meaning(D)`. Each kind of event keeps it (`ProjectSound`): the
lemmas named `...Grow` say what one later event adds to a meaning,
`ProjectTaken` what the loop does with it, and `OutputStaysSound` that the two
are the same. The hard part is the groups: the linked edits of a file form classes
(`GroupsDivide`), a later edit joins the last of them or none (`LinkedGrows`,
`LastGroupGrows`), and no two items are equal, since an item names an event of its
own group (`ItemNames`), so that replacing the item of a group removes
no other. `LoopSound` is the induction over the number of events taken;
`LatestIs` says what the limit keeps. Journals grow by steps that need
nothing but `EvidenceTypeOK`, since the derivation starts anew each time.

**Whole runs**: `AdmissionKeepsItsParts` (`AdmissionInv`), `SessionKeepsItsParts`
(`SessionInv`), `ClientKeepsItsParts` (`ClientInv`) and `WorkspaceKeepsItsParts`
(`WorkspaceInv`, for one process and one publication). Such an invariant says
which part a behaviour is about and that the part's inductive invariant holds
there: initial states choose one part, and a step of it leaves the others where
they are, so that the parts' own step lemmas apply.

What is assumed of the constants is what the modules' named assumptions say:
`PolicyAssumption` has at least one model, which the code's catalogue has too, and
`IdOrder` gives different events different places, as sourceIds are unique.

Model-checked only:

- liveness (`RequestsAnswered`, `SandboxCallsEnd`, `SavedReachesServer`,
  `TerminalEnds`): TLAPS does not prove it under fairness, and ENABLED is out of
  its reach. Every other property of a passing run is stated by a theorem;
- what the failing runs refute.

## 5. Not modelled

The learning boundary, the wording of prompts, the classification of commands and
arguments, and the budget figures have no state of their own. The full-screen
console of teachers, web pages and the SDK are input and output. Supabase Auth,
GitHub, the virtual machine and the pi library are not in the repository; where
the code uses them, what they may answer is a free choice. Administrators'
single-row functions (approvals, entitlements, environments) are one change of
what the tables say. Classes and enrolment are data of the queries.

Known and without a property of their own:

- a suggestion in the editor is inserted where the cursor is, also after the
  keyboard moved it (`editor-completion-ui.ts:149`);
- a slow restore of the map is applied without a look at the revision
  (`flowchart-ui.ts:573`), which `MapPanel` has and `PanelIsAnswered` survives; one
  answered before the page mounts changes the panel's workspace without a new
  revision;
- project settings a teacher saved on a path the organization does not delegate
  make every resolution fail, and a project's layer replaces, and may loosen, a
  cap saved with the project, as the two are merged before the layers are
  (`governance-policy.ts:91`);
- a refresh of the queue that read old evidence can close for good an item
  another refresh has just opened (`teacher_intervention_queue.sql:70`).

## 6. Plan

1. Provider logins of the bridge, which check and start across an await
   (`ecosystem-bridge.ts:438`), and its snapshots' long poll with the identity it
   caches.
2. The refresh of school tools (`approved-extensions.ts`) and the session's guards
   as one module with `LearningWorkflow`'s refreshes.
3. The reducers of the workspace's shared interface (`workspace-events.ts:250`).
4. The teacher console's commands.

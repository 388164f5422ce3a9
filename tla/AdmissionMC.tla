---------------------------- MODULE AdmissionMC ----------------------------
(***************************************************************************)
(* What a request must pass before a provider sees it, on small instances  *)
(* that share nothing: the policy resolved from every small content of the *)
(* tables, the calls made under a policy that changes, and the budget of   *)
(* the gateway.  part names the one a behaviour is of; the variables of    *)
(* the others stay at one initial value.                                   *)
(***************************************************************************)
EXTENDS ModelBudgetMC, ExecutionAccess

VARIABLE part

MCSupports == [m \in Models |-> IF m = "m1" THEN {"off"} ELSE Levels]

Plain(managed, approved) ==
  [managed |-> managed, approved |-> approved, delegated |-> {}, organization |-> <<>>, class |-> <<>>,
   layer |-> <<>>, project |-> DEFAULT_CAPABILITY_POLICY, ready |-> TRUE, connector |-> TRUE]

\* An organization that approves all models or none; a class with its own lists and no connector; an environment
\* that is not ready; a class outside any organization, with a teacher's list and without.
MCGovernance ==
  {Plain(TRUE, Models), Plain(TRUE, {}),
   [Plain(TRUE, Models) EXCEPT !.class = [models |-> {"m1"}, levels |-> {"off"}], !.delegated = Paths,
                               !.connector = FALSE],
   [Plain(TRUE, Models) EXCEPT !.ready = FALSE],
   [Plain(FALSE, Models) EXCEPT !.project = [DEFAULT_CAPABILITY_POLICY EXCEPT !.models = {"m1"}]],
   Plain(FALSE, Models)}

\* Every content of the tables that sets one path anywhere.
Values(p) ==
  CASE p = "switch" -> BOOLEAN
    [] p = "cap" -> {1, 2, Unlimited}
    [] p = "models" -> SUBSET Models \ {{}}
    [] p = "levels" -> SUBSET Levels \ {{}}

Patches(p) == {<<>>} \cup [{p} -> Values(p)]
SavedPolicies(p) == {DEFAULT_CAPABILITY_POLICY} \cup {[DEFAULT_CAPABILITY_POLICY EXCEPT ![p] = v] : v \in Values(p)}

RowsOf(p) ==
  [managed: BOOLEAN, approved: IF p \in {"models", "levels"} THEN SUBSET Models ELSE {Models},
   delegated: {{}, {p}}, organization: Patches(p), class: Patches(p), layer: Patches(p),
   project: SavedPolicies(p), ready: {TRUE}, connector: {TRUE}]


\* A session before its first read: the tables say one thing, or, in the budget's part, nothing.
NothingRead ==
  /\ pending = [c \in AccessCalls |-> NoPending]
  /\ effective = 0 /\ current = (CHOOSE m \in Models : TRUE) /\ accessStage = "plan" /\ sent = NothingSent

PolicyInit == NothingRead /\ \E p \in Paths : \E rows \in RowsOf(p) : revisions = <<rows>>
NoAccess == NothingRead /\ revisions = <<>>

------------------------------------------------------------------------------
BudgetPinned == budget = [b \in Budgets |-> Set(NULL, NULL, 0)] /\ price = [p \in Profiles |-> NULL]

AdmissionInit ==
  /\ Init
  /\ \/ part = "budget" /\ NoAccess
     \/ part = "access" /\ AccessInit /\ BudgetPinned
     \/ part = "policy" /\ PolicyInit /\ BudgetPinned

AdmissionNext ==
  \/ part = "budget" /\ Next /\ UNCHANGED <<part, accessVars>>
  \/ part = "access" /\ AccessNext /\ UNCHANGED <<part, vars>>

AdmissionSpec == AdmissionInit /\ [][AdmissionNext]_<<part, vars, accessVars>> /\ Fairness

------------------------------------------------------------------------------
\* The types of the part's variables and what makes its properties inductive; the others keep their initial values.
AdmissionInv == IF part = "budget" THEN Inv ELSE AccessInv
=============================================================================

-------------------------- MODULE PolicyResolution --------------------------
(***************************************************************************)
(* What a project's students may do: the settings of the platform, the     *)
(* organization, the class and the project merged into one policy.  A      *)
(* layer proposes values for some of the paths and inherits the rest.      *)
(* There is one path of each kind: a switch, a cap, the list of models,    *)
(* where empty means any, and the list of reasoning levels.                *)
(***************************************************************************)
EXTENDS Naturals, FiniteSets, SequencesExt, Functions

CONSTANTS Models, Levels,
          Supports,   \* the levels each model supports
          Unlimited

ASSUME PolicyAssumption ==
  /\ Supports \in [Models -> SUBSET Levels] /\ Levels # {} /\ Models # {}
  /\ Unlimited \notin Nat

Paths == {"switch", "cap", "models", "levels"}

DEFAULT_CAPABILITY_POLICY == [switch |-> TRUE, cap |-> Unlimited, models |-> {}, levels |-> Levels]

\* The result of a resolution that throws.
Unresolved == [ok |-> FALSE, settings |-> DEFAULT_CAPABILITY_POLICY]

------------------------------------------------------------------------------
(* resolution.ts *)

LowerCap(current, proposed) ==
  CASE proposed = Unlimited -> current
    [] proposed # Unlimited /\ current = Unlimited -> proposed
    [] OTHER -> IF current < proposed THEN current ELSE proposed

Narrowed(path, current, proposed) ==
  CASE path = "switch" -> current /\ proposed
    [] path = "cap" -> LowerCap(current, proposed)
    [] path = "models" -> IF current = {} THEN proposed ELSE current \cap proposed
    [] OTHER -> current \cap proposed

\* Only the organization's delegation lets a class or a project configure a path; an empty list is refused.
ApplyLayer(result, layer, delegatedPaths) ==
  LET current == result.settings
      next == [p \in Paths |-> IF p \in DOMAIN layer.settings THEN Narrowed(p, current[p], layer.settings[p]) ELSE current[p]]
      delegated == layer.scope \in {"class", "project", "session"} => DOMAIN layer.settings \subseteq delegatedPaths
      nonempty == \A p \in DOMAIN layer.settings \cap {"models", "levels"} : next[p] # {}
  IN IF result.ok /\ delegated /\ nonempty THEN [ok |-> TRUE, settings |-> next] ELSE Unresolved

resolveEffectivePolicy(layers, delegatedPaths) ==
  LET result[n \in 0..Len(layers)] ==
        IF n = 0 THEN [ok |-> TRUE, settings |-> DEFAULT_CAPABILITY_POLICY]
        ELSE ApplyLayer(result[n - 1], layers[n], delegatedPaths)
  IN result[Len(layers)]

------------------------------------------------------------------------------
(* governance-policy.ts: rows = [managed, approved, delegated, organization, class, layer, project, ...];   *)
(* project is the whole policy a teacher saved, layer the organization's own settings for that project.      *)

IsLayer(settings) ==
  /\ DOMAIN settings \subseteq Paths
  /\ "switch" \in DOMAIN settings => settings["switch"] \in BOOLEAN
  /\ "cap" \in DOMAIN settings => settings["cap"] \in Nat \cup {Unlimited}
  /\ "models" \in DOMAIN settings => settings["models"] \subseteq Models
  /\ "levels" \in DOMAIN settings => settings["levels"] \subseteq Levels

IsContent(rows) ==
  /\ rows.managed \in BOOLEAN /\ rows.ready \in BOOLEAN /\ rows.connector \in BOOLEAN
  /\ rows.approved \subseteq Models /\ rows.delegated \subseteq Paths
  /\ IsLayer(rows.organization) /\ IsLayer(rows.class) /\ IsLayer(rows.layer)
  /\ rows.project \in [switch: BOOLEAN, cap: Nat \cup {Unlimited}, models: SUBSET Models, levels: SUBSET Levels]

changedProjectSettings(settings) == Restrict(settings, {p \in Paths : settings[p] # DEFAULT_CAPABILITY_POLICY[p]})

\* The organization's approved models, those its policy selects where it does.
selectedModels(rows) ==
  IF "models" \in DOMAIN rows.organization THEN rows.approved \cap rows.organization.models ELSE rows.approved

\* With no model approved the paths of models are left out, and the session allows none.
modelSettings(rows, settings) ==
  IF selectedModels(rows) # {} THEN settings ELSE Restrict(settings, DOMAIN settings \ {"models"})

organizationLayer(rows) ==
  LET others == DOMAIN rows.organization \ {"models"}
  IN [p \in others \cup (IF selectedModels(rows) = {} THEN {} ELSE {"models"}) |->
        IF p = "models" THEN selectedModels(rows) ELSE rows.organization[p]]

\* A layer of the project replaces what the teacher saved, path by path.
projectLayer(rows) ==
  LET saved == modelSettings(rows, changedProjectSettings(rows.project))
      layer == modelSettings(rows, rows.layer)
  IN [p \in DOMAIN saved \cup DOMAIN layer |-> IF p \in DOMAIN layer THEN layer[p] ELSE saved[p]]

resolvePolicy(rows) ==
  IF ~rows.managed THEN [ok |-> TRUE, settings |-> rows.project]
  ELSE resolveEffectivePolicy(
         <<[scope |-> "platform", settings |-> <<>>],
           [scope |-> "organization", settings |-> organizationLayer(rows)],
           [scope |-> "class", settings |-> modelSettings(rows, rows.class)],
           [scope |-> "project", settings |-> projectLayer(rows)]>>, rows.delegated)

------------------------------------------------------------------------------
(* capability-policy.ts, model-selection.ts *)

allowedReasoningLevels(settings, m) == Supports[m] \cap settings.levels

modelAllowed(settings, m) ==
  /\ settings.models = {} \/ m \in settings.models
  /\ allowedReasoningLevels(settings, m) # {}

BadAvailableExecutionModels(managed, settings) == {m \in Models : modelAllowed(settings, m)}

availableExecutionModels(managed, settings) ==
  {m \in Models : modelAllowed(settings, m) /\ (managed => settings.models # {})}

------------------------------------------------------------------------------
(* What the rows grant, said without the order of the layers. *)

LayersOf(rows) == <<rows.organization, modelSettings(rows, rows.class), projectLayer(rows)>>
Proposals(rows, path) == {LayersOf(rows)[i][path] : i \in {j \in 1..3 : path \in DOMAIN LayersOf(rows)[j]}}

GrantedModels(rows) ==
  IF rows.managed THEN {m \in rows.approved : \A list \in Proposals(rows, "models") : m \in list}
                  ELSE {m \in Models : rows.project.models = {} \/ m \in rows.project.models}

GrantedLevels(rows) ==
  IF rows.managed THEN {l \in Levels : \A list \in Proposals(rows, "levels") : l \in list} ELSE rows.project.levels

\* Granted(rows) is the set of models a student of the project may use.
Granted(rows) == {m \in GrantedModels(rows) : Supports[m] \cap GrantedLevels(rows) # {}}

\* A resolved policy is no wider than any layer that has a say: no switch is on that a layer turns off, no cap is
\* above a layer's, no list has what a layer's leaves out; it is no narrower either; and the models a session may
\* use under it are those the organization approved and every list leaves, none at all where none is approved,
\* although an empty list of models means any.
NoWiderThanGranted(rows) ==
  LET result == resolvePolicy(rows)
      caps == Proposals(rows, "cap") \ {Unlimited}
  IN result.ok =>
       /\ availableExecutionModels(rows.managed, result.settings) = Granted(rows)
       /\ rows.managed =>
            /\ result.settings.switch = (FALSE \notin Proposals(rows, "switch"))
            /\ result.settings.levels = GrantedLevels(rows)
            /\ IF caps = {} THEN result.settings.cap = Unlimited
               ELSE result.settings.cap \in caps /\ \A c \in caps : result.settings.cap <= c
=============================================================================

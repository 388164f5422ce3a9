------------------------------ MODULE ClientMC ------------------------------
(***************************************************************************)
(* Small instances of the parts of the client that do not share state: the *)
(* initial state chooses the part a behaviour is about, and the others     *)
(* stay where they start.                                                  *)
(***************************************************************************)
EXTENDS SandboxLifecycle, SignIn, ClassSelection, CapabilityLanesMC, WorkspaceMaps, MapPanel, EditorCompletion, Dictation, TLC

VARIABLE part

sessionVars == <<sandboxVars, signInVars, selectionVars, laneVars>>
editorVars == <<mapVars, panelVars, completionVars, dictationVars>>
clientVars == <<part, sessionVars, editorVars>>

\* Contexts that differ in policy, support and environment.
Configuration(policy, support) == [policy |-> policy, support |-> support]
MCContexts ==
  {[env |-> "ready", config |-> Configuration("p1", "enforced")],
   [env |-> "configured", config |-> Configuration("p2", "enforced")],
   [env |-> "ready", config |-> Configuration("p1", "unsupported")],
   [env |-> "none", config |-> Configuration("unrestricted", "enforced")]}

MCClassOf == "p1" :> "a" @@ "p2" :> "a" @@ "p3" :> "b"

\* What a behaviour is not about starts in one state.
Pinned(p) == part # p
Some(S) == CHOOSE x \in S : TRUE

ClientInit ==
  /\ part \in {"sandbox", "signIn", "selection", "lanes", "maps", "panel", "completion", "dictation"}
  /\ SandboxInit /\ SignInInit /\ SelectionInit /\ LaneInit
  /\ MapsInit /\ PanelInit /\ CompletionInit /\ DictationInit
  /\ Pinned("signIn") => session = NoCode /\ ~stale
  /\ Pinned("selection") => stored = Personal
  /\ Pinned("lanes") => stage = "plan"
  /\ Pinned("maps") => content = Nothing0
  /\ Pinned("panel") => address = Some(Workspaces) /\ storedMap = [w \in Workspaces |-> {}]
  /\ Pinned("completion") => ~editor.enabled /\ editor.spot = Some(Spots) /\ editor.model = Some(CompletionModels)
  /\ Pinned("dictation") => preference = "nothing"

ClientNext ==
  \/ /\ UNCHANGED <<part, editorVars>>
     /\ \/ part = "sandbox" /\ SandboxNext /\ UNCHANGED <<signInVars, selectionVars, laneVars>>
        \/ part = "signIn" /\ SignInNext /\ UNCHANGED <<sandboxVars, selectionVars, laneVars>>
        \/ part = "selection" /\ SelectionNext /\ UNCHANGED <<sandboxVars, signInVars, laneVars>>
        \/ part = "lanes" /\ LaneNext /\ UNCHANGED <<sandboxVars, signInVars, selectionVars>>
  \/ /\ UNCHANGED <<part, sessionVars>>
     /\ \/ part = "maps" /\ MapsNext /\ UNCHANGED <<panelVars, completionVars, dictationVars>>
        \/ part = "panel" /\ PanelNext /\ UNCHANGED <<mapVars, completionVars, dictationVars>>
        \/ part = "completion" /\ CompletionNext /\ UNCHANGED <<mapVars, panelVars, dictationVars>>
        \/ part = "dictation" /\ DictationNext /\ UNCHANGED <<mapVars, panelVars, completionVars>>

ClientSpec == ClientInit /\ [][ClientNext]_clientVars

(* The types of the part's variables with the invariant that makes its       *)
(* properties inductive; the other parts keep their initial values.          *)
ClientInv ==
  CASE part = "sandbox" -> SandboxInv
    [] part = "signIn" -> SignInInv
    [] part = "selection" -> SelectionInv
    [] part = "lanes" -> LaneInv
    [] part = "maps" -> MapsInv
    [] part = "panel" -> PanelInv
    [] part = "completion" -> CompletionInv
    [] part = "dictation" -> DictationInv
=============================================================================

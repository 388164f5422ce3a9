------------------------------- MODULE MapPanel -------------------------------
(***************************************************************************)
(* The Map panel of the browser (flowchartUiScript): one page that shows   *)
(* the stored map of the project in the address bar.  Its requests to the  *)
(* bridge are answered in any order, and the page learns of another        *)
(* project only when mount runs, some time after the address has changed.  *)
(***************************************************************************)
EXTENDS Naturals, FiniteSets

CONSTANTS Workspaces,
          MapSteps,     \* identities of map steps
          NoWorkspace,  \* the address names none
          NoMapStep,
          MaxRequests,  \* requests the page waits for (bound)
          MaxRevisions  \* openings, generations and closings of the panel (bound)

VARIABLES address,    \* the project in the address bar
          panel,      \* the page's state
          requests,   \* what the page waits for, answered or not
          storedMap   \* the map the bridge has stored for each project: its steps, {} for none

panelVars == <<address, panel, requests, storedMap>>

ASSUME PanelAssumption == NoWorkspace \notin Workspaces /\ NoMapStep \notin MapSteps

NoGraph == [of |-> NoWorkspace, steps |-> {}]
HasGraph(p) == p.graph # NoGraph

\* The page as it starts: no panel, no tab.
FreshPanel == [workspace |-> NoWorkspace, graph |-> NoGraph, selected |-> NoMapStep, loading |-> FALSE,
               revision |-> 0, checked |-> NoWorkspace, open |-> FALSE, tab |-> FALSE]

Request(kind, of, revision) == [kind |-> kind, of |-> of, revision |-> revision, at |-> "sent", steps |-> {}]

Places == Workspaces \cup {NoWorkspace}
Panel ==
  [workspace : Places, graph : [of : Places, steps : SUBSET MapSteps], selected : MapSteps \cup {NoMapStep},
   loading : BOOLEAN, revision : Nat, checked : Places, open : BOOLEAN, tab : BOOLEAN]
PanelRequest ==
  [kind : {"saved", "generate", "restore"}, of : Workspaces, revision : Nat, at : {"sent", "answered", "failed"},
   steps : SUBSET MapSteps]

PanelTypeOK ==
  /\ address \in Places /\ storedMap \in [Workspaces -> SUBSET MapSteps]
  /\ panel \in Panel /\ requests \subseteq PanelRequest

PanelInit ==
  /\ address \in Workspaces /\ panel = FreshPanel /\ requests = {}
  /\ storedMap \in [Workspaces -> SUBSET MapSteps]

(***************************************************************************)
(* The address: links of the page, the back button.                        *)
(***************************************************************************)
Navigate ==
  /\ address' \in (Workspaces \cup {NoWorkspace}) \ {address}
  /\ UNCHANGED <<panel, requests, storedMap>>

\* A version that leaves the panel waiting.
BadHidden(p) == [p EXCEPT !.selected = NoMapStep, !.open = FALSE, !.tab = FALSE, !.graph = NoGraph, !.revision = @ + 1]

\* close: whatever is under way belongs to an older revision from here on.
Hidden(p) == [p EXCEPT !.selected = NoMapStep, !.open = FALSE, !.tab = FALSE, !.graph = NoGraph, !.loading = FALSE,
                !.revision = @ + 1]

\* mount: leave the map of a project the address has left; offer the stored map of this one.
Mount ==
  LET left == panel.workspace # NoWorkspace /\ address # panel.workspace
      staying == IF left THEN [Hidden(panel) EXCEPT !.workspace = NoWorkspace] ELSE panel
      asks == address # NoWorkspace /\ ~HasGraph(staying) /\ ~staying.loading /\ staying.checked # address
      checked == IF asks \/ address = staying.checked THEN address ELSE NoWorkspace
  IN /\ panel' = [staying EXCEPT !.checked = checked, !.tab = @ \/ (address # NoWorkspace /\ HasGraph(staying))]
     /\ requests' = requests \cup (IF asks THEN {Request("restore", address, 0)} ELSE {})
     /\ (left => panel.revision < MaxRevisions) /\ (asks => Cardinality(requests) < MaxRequests)
     /\ UNCHANGED <<address, storedMap>>

(***************************************************************************)
(* The student: Map in the menu, the Map tab, Refresh, the steps, Close.   *)
(***************************************************************************)
\* show and generate raise the revision: an answer to an older one changes nothing.
Ask(kind, p) ==
  /\ Cardinality(requests) < MaxRequests /\ p.revision < MaxRevisions
  /\ panel' = [p EXCEPT !.revision = @ + 1, !.loading = TRUE]
  /\ requests' = requests \cup {Request(kind, p.workspace, p.revision + 1)}
  /\ UNCHANGED <<address, storedMap>>

OpenMap ==
  /\ address # NoWorkspace
  /\ Ask("saved", [Hidden(panel) EXCEPT !.workspace = address, !.open = TRUE, !.tab = TRUE])

ClickTab ==
  /\ panel.tab
  /\ \/ ~HasGraph(panel) /\ ~panel.loading /\ Ask("saved", [panel EXCEPT !.open = TRUE])
     \/ /\ HasGraph(panel) \/ panel.loading
        /\ panel' = [panel EXCEPT !.open = TRUE] /\ UNCHANGED <<address, requests, storedMap>>

\* Another tab of the workspace, or the code of a step, comes to the front.
LeaveTab ==
  /\ panel.open /\ panel' = [panel EXCEPT !.open = FALSE]
  /\ UNCHANGED <<address, requests, storedMap>>

Refresh ==
  /\ panel.open /\ panel.workspace # NoWorkspace /\ ~panel.loading
  /\ Ask("generate", panel)

\* Only a drawn map has steps to click: none is drawn while one loads.
SelectNode ==
  /\ panel.open /\ HasGraph(panel) /\ ~panel.loading
  /\ \E step \in (panel.graph.steps \cup {NoMapStep}) \ {panel.selected} : panel' = [panel EXCEPT !.selected = step]
  /\ UNCHANGED <<address, requests, storedMap>>

Close ==
  /\ panel.tab /\ panel.revision < MaxRevisions
  /\ panel' = Hidden(panel)
  /\ UNCHANGED <<address, requests, storedMap>>

(***************************************************************************)
(* The bridge, and its answers.                                            *)
(***************************************************************************)
Answer(r, at, steps) == requests' = (requests \ {r}) \cup {[r EXCEPT !.at = at, !.steps = steps]}

\* The stored map as it is now, a new one, or a failure.
Serve(r) ==
  /\ r.at = "sent"
  /\ \/ r.kind \in {"saved", "restore"} /\ Answer(r, "answered", storedMap[r.of]) /\ UNCHANGED storedMap
     \/ /\ r.kind = "generate"
        /\ \E steps \in SUBSET MapSteps \ {{}} :
             Answer(r, "answered", steps) /\ storedMap' = [storedMap EXCEPT ![r.of] = steps]
     \/ Answer(r, "failed", {}) /\ UNCHANGED storedMap
  /\ UNCHANGED <<address, panel>>

\* A map of the project with the selection stored with it, if it has that step.
Shown(p, r, workspace) ==
  {[p EXCEPT !.workspace = workspace, !.graph = [of |-> r.of, steps |-> r.steps], !.selected = step] :
     step \in {p.selected} \cup r.steps}

\* loadSaved and the rest of show: where nothing is stored, a map is generated.
SavedAnswered(r) ==
  /\ r.kind = "saved" /\ r.at # "sent"
  /\ IF r.revision # panel.revision THEN UNCHANGED panel /\ requests' = requests \ {r}
     ELSE IF r.steps # {}
       THEN /\ panel' \in Shown([panel EXCEPT !.loading = FALSE], r, panel.workspace)
            /\ requests' = requests \ {r}
       ELSE /\ panel' = [panel EXCEPT !.revision = @ + 1]
            /\ requests' = (requests \ {r}) \cup {Request("generate", panel.workspace, panel.revision + 1)}
  /\ UNCHANGED <<address, storedMap>>

\* "Keep the selected step when the new map still has it".
Kept(selected, steps) == IF selected \in steps THEN selected ELSE NoMapStep

GenerateAnswered(r) ==
  /\ r.kind = "generate" /\ r.at # "sent"
  /\ requests' = requests \ {r}
  /\ panel' = IF r.revision # panel.revision THEN panel
              ELSE IF r.at = "failed" THEN [panel EXCEPT !.loading = FALSE]
              ELSE [panel EXCEPT !.graph = [of |-> r.of, steps |-> r.steps], !.selected = Kept(@, r.steps),
                      !.loading = FALSE]
  /\ UNCHANGED <<address, storedMap>>

\* restore: shown if the address is the project's and no map is there; open if it was.
RestoreAnswered(r) ==
  /\ r.kind = "restore" /\ r.at # "sent"
  /\ requests' = requests \ {r}
  /\ IF r.steps # {} /\ address = r.of /\ ~HasGraph(panel)
       THEN \E open \in BOOLEAN : panel' \in Shown([panel EXCEPT !.open = open, !.tab = TRUE], r, r.of)
       ELSE UNCHANGED panel
  /\ UNCHANGED <<address, storedMap>>

PanelNext ==
  \/ Navigate \/ Mount
  \/ OpenMap \/ ClickTab \/ LeaveTab \/ Refresh \/ SelectNode \/ Close
  \/ \E r \in requests : Serve(r) \/ SavedAnswered(r) \/ GenerateAnswered(r) \/ RestoreAnswered(r)

PanelSpec == PanelInit /\ [][PanelNext]_panelVars

(***************************************************************************)
(* Properties                                                              *)
(***************************************************************************)
\* The panel never waits for nothing: while it shows that it loads, and refuses to
\* generate, an answer of its own revision is still to come, whatever was opened,
\* closed, left and answered late; and no step stays selected without a map.
PanelIsAnswered ==
  /\ panel.loading => \E r \in requests : r.kind # "restore" /\ r.revision = panel.revision
  /\ panel.selected # NoMapStep => HasGraph(panel)

\* What makes that inductive: no request is newer than the panel, and a panel that has
\* something to show, or will have when it is answered, is a project's.
PanelHasPlace ==
  /\ \A r \in requests : r.revision <= panel.revision
  /\ panel.tab \/ HasGraph(panel) \/ (\E r \in requests : r.kind # "restore" /\ r.revision = panel.revision) =>
       panel.workspace # NoWorkspace

PanelInv == PanelTypeOK /\ PanelHasPlace /\ PanelIsAnswered
=============================================================================

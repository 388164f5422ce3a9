--------------------------- MODULE EditorCompletion ---------------------------
(***************************************************************************)
(* AI suggestions in the file editor: the page that asks for one a moment  *)
(* after the student stops typing and shows it if it still fits            *)
(* (editorCompletionUiScript), and the bridge's service that counts the    *)
(* requests in memory and in a file (EditorCompletionService).             *)
(***************************************************************************)
EXTENDS Naturals, FiniteSets

CONSTANTS Spots,         \* a text of the file with a cursor position
          CompletionModels,
          MinuteTicks, MinuteLimit, DayTicks, DayLimit,
          MaxTime, MaxClears, MaxSuggests, \* bounds
          NoSpot

VARIABLES editor,    \* the editor's view and the script around it
          suggests,  \* requests for a suggestion
          quota,     \* attempts in memory, in the file, and what was let through
          clock

completionVars == <<editor, suggests, quota, clock>>

ASSUME CompletionAssumption ==
  /\ NoSpot \notin Spots /\ MinuteTicks \in Nat /\ DayTicks \in Nat /\ MinuteTicks <= DayTicks
  /\ MinuteLimit \in Nat /\ DayLimit \in Nat /\ MaxTime \in Nat \ {0}

Times == 1 .. MaxTime
NoSuggestion == [spot |-> NoSpot, model |-> NoSpot]
NoTimer == [revision |-> 0, spot |-> NoSpot]

Suggestion == [spot : Spots, model : CompletionModels] \cup {NoSuggestion}
Editor ==
  [spot : Spots, model : CompletionModels, revision : Nat, popup : Suggestion,
   timer : [revision : Nat, spot : Spots \cup {NoSpot}], enabled : BOOLEAN, paused : BOOLEAN, here : BOOLEAN, typed : BOOLEAN]
Suggest ==
  [revision : Nat, spot : Spots, model : CompletionModels,
   at : {"admitting", "queued", "loading", "writing", "asking", "answered", "failed"}, since : Times, aborted : BOOLEAN]
Counts == [Times -> Nat]

CompletionTypeOK ==
  /\ editor \in Editor /\ (editor.timer = NoTimer \/ editor.timer.spot \in Spots)
  /\ suggests \subseteq Suggest
  /\ quota \in [attempts : Counts, file : Counts, asked : Counts, loaded : BOOLEAN]
  /\ clock \in Times

CompletionInit ==
  /\ editor \in [spot : Spots, model : CompletionModels, revision : {0}, popup : {NoSuggestion}, timer : {NoTimer},
                 enabled : BOOLEAN, paused : {FALSE}, here : {TRUE}, typed : {FALSE}]
  /\ suggests = {} /\ clock = 1
  /\ quota = [attempts |-> [t \in Times |-> 0], file |-> [t \in Times |-> 0], asked |-> [t \in Times |-> 0], loaded |-> FALSE]

(***************************************************************************)
(* The page.                                                               *)
(***************************************************************************)
\* clear: no timer, no suggestion, and whatever was asked for is aborted.
Cleared(e) == [e EXCEPT !.revision = @ + 1, !.timer = NoTimer, !.popup = NoSuggestion]
AbortAll == {[r EXCEPT !.aborted = TRUE] : r \in suggests}
MayClear == editor.revision < MaxClears

Clears(e) == MayClear /\ editor' = Cleared(e) /\ suggests' = AbortAll /\ UNCHANGED <<quota, clock>>

\* schedule: not in another project, not with suggestions off or paused, not in the
\* middle of a line or word, which the spot decides.
Schedule(e) ==
  /\ MayClear /\ suggests' = AbortAll /\ UNCHANGED <<quota, clock>>
  /\ \/ editor' = Cleared(e)
     \/ /\ e.here /\ e.enabled /\ ~e.paused
        /\ editor' = [Cleared(e) EXCEPT !.timer = [revision |-> e.revision + 1, spot |-> e.spot]]

\* Typing changes the text now and schedules in a task of its own.
Type ==
  /\ \E spot \in Spots \ {editor.spot} : editor' = [editor EXCEPT !.spot = spot, !.typed = TRUE]
  /\ UNCHANGED <<suggests, quota, clock>>

Typed == editor.typed /\ Schedule([editor EXCEPT !.typed = FALSE])

\* The keyboard moves the cursor, or undoes: nothing listens.
MoveByKey ==
  /\ \E spot \in Spots \ {editor.spot} : editor' = [editor EXCEPT !.spot = spot]
  /\ UNCHANGED <<suggests, quota, clock>>

Click == \E spot \in Spots : Schedule([editor EXCEPT !.spot = spot])

SwitchEnabled ==
  IF editor.enabled THEN Clears([editor EXCEPT !.enabled = FALSE]) ELSE Schedule([editor EXCEPT !.enabled = TRUE])

ChooseModel == \E model \in CompletionModels \ {editor.model} : Clears([editor EXCEPT !.model = model])

\* The snapshot says that suggestions are paused, or no longer.
Health ==
  \/ ~editor.paused /\ editor.here /\ Clears([editor EXCEPT !.paused = TRUE])
  \/ editor.paused /\ editor.here /\ editor' = [editor EXCEPT !.paused = FALSE] /\ UNCHANGED <<suggests, quota, clock>>

Navigates == editor' = [editor EXCEPT !.here = ~@] /\ UNCHANGED <<suggests, quota, clock>>

\* Tab inserts what is shown where the cursor is; Escape, or leaving the editor, drops it.
AcceptSuggestion ==
  /\ editor.popup # NoSuggestion
  /\ \E spot \in Spots \cup {editor.spot} : Clears([editor EXCEPT !.spot = spot])

\* runAI: the page has its own limit per minute, which may be reached.
RunAI(e, revision, spot, others) ==
  /\ editor' = e /\ UNCHANGED <<quota, clock>>
  /\ \/ suggests' = others
     \/ /\ Cardinality(others) < MaxSuggests
        /\ suggests' = others \cup {[revision |-> revision, spot |-> spot, model |-> e.model, at |-> "admitting", since |-> 1, aborted |-> FALSE]}

TimerFires ==
  /\ editor.timer # NoTimer
  /\ RunAI([editor EXCEPT !.timer = NoTimer], editor.timer.revision, editor.timer.spot, suggests)

RetrySuggestion ==
  /\ editor.enabled /\ MayClear
  /\ RunAI(Cleared(editor), editor.revision + 1, editor.spot, AbortAll)

\* An answer is shown in the project, at the text and cursor it was asked for, if nothing
\* was cleared since.
SuggestionArrives(r) ==
  /\ r.at \in {"answered", "failed"} /\ suggests' = suggests \ {r}
  /\ IF r.at = "answered" /\ ~r.aborted /\ r.revision = editor.revision /\ editor.here /\ r.spot = editor.spot /\ editor.enabled
       THEN editor' = [editor EXCEPT !.popup = [spot |-> r.spot, model |-> r.model]]
       ELSE UNCHANGED editor
  /\ UNCHANGED <<quota, clock>>

(***************************************************************************)
(* The service: suggest, reserve and reserveLocked.                        *)
(***************************************************************************)
At(r, at) == suggests' = (suggests \ {r}) \cup {[r EXCEPT !.at = at]}

\* The environment, the policy and the budget admit the request, or it fails, or it was
\* aborted meanwhile.
Admitted(r) ==
  /\ r.at = "admitting" /\ UNCHANGED <<editor, quota, clock>>
  /\ (~r.aborted /\ At(r, "queued")) \/ At(r, "failed")

\* How many attempts fall in the ticks up to t; no tick holds more than the day may.
Window(attempts, t, ticks) ==
  {a \in Times \X (1 .. DayLimit + 1) : a[1] + ticks > t /\ a[1] <= t /\ a[2] <= attempts[a[1]]}

Within(attempts, t, ticks) == Cardinality(Window(attempts, t, ticks))

\* From the check to the write there is no await.
Count(r, attempts) ==
  LET kept == [t \in Times |-> IF t + DayTicks > clock THEN attempts[t] ELSE 0]
      counted == [kept EXCEPT ![clock] = @ + 1]
  IN /\ IF Within(kept, clock, MinuteTicks) >= MinuteLimit \/ Within(kept, clock, DayTicks) >= DayLimit
          THEN At(r, "failed") /\ quota' = [quota EXCEPT !.attempts = kept, !.loaded = TRUE]
          ELSE /\ suggests' = (suggests \ {r}) \cup {[r EXCEPT !.at = "writing", !.since = clock]}
               /\ quota' = [quota EXCEPT !.attempts = counted, !.loaded = TRUE]
     /\ UNCHANGED <<editor, clock>>

\* A version without the lock.
BadLocked == FALSE

\* quotaLock: one request at a time from the load to the write.
Locked == \E r \in suggests : r.at \in {"loading", "writing"}

EnterQuota(r) ==
  /\ r.at = "queued" /\ ~Locked
  /\ IF quota.loaded THEN Count(r, quota.attempts) ELSE At(r, "loading") /\ UNCHANGED <<editor, quota, clock>>

LoadQuota(r) == r.at = "loading" /\ Count(r, quota.file)

\* The file is replaced as a whole, or stays; the request goes out only after it.
WriteQuota(r) ==
  /\ r.at = "writing" /\ UNCHANGED <<editor, clock>>
  /\ \/ At(r, "asking") /\ quota' = [quota EXCEPT !.file = quota.attempts, !.asked[r.since] = @ + 1]
     \/ At(r, "failed") /\ UNCHANGED quota

ModelAnswersRequest(r) ==
  /\ r.at = "asking" /\ UNCHANGED <<editor, quota, clock>>
  /\ At(r, "answered") \/ At(r, "failed")

\* The bridge stops and starts again: its memory is gone, its requests have failed.
BridgeStops ==
  /\ suggests' = {[r EXCEPT !.at = IF @ = "answered" THEN @ ELSE "failed"] : r \in suggests}
  /\ quota' = [quota EXCEPT !.attempts = [t \in Times |-> 0], !.loaded = FALSE]
  /\ UNCHANGED <<editor, clock>>

Tick == clock < MaxTime /\ clock' = clock + 1 /\ UNCHANGED <<editor, suggests, quota>>

CompletionNext ==
  \/ Type \/ Typed \/ MoveByKey \/ Click \/ SwitchEnabled \/ ChooseModel \/ Health \/ Navigates \/ AcceptSuggestion
  \/ TimerFires \/ RetrySuggestion
  \/ \E r \in suggests : \/ SuggestionArrives(r) \/ Admitted(r) \/ EnterQuota(r) \/ LoadQuota(r) \/ WriteQuota(r)
                         \/ ModelAnswersRequest(r)
  \/ BridgeStops \/ Tick

CompletionSpec == CompletionInit /\ [][CompletionNext]_completionVars

(***************************************************************************)
(* Properties                                                              *)
(***************************************************************************)
\* Whatever overlaps, stops and starts again, no minute and no day has more requests to a
\* model than the limits say; and a suggestion on the screen is from the model the student
\* has chosen, with suggestions switched on, however late it was answered.
QuotaKept ==
  /\ \A t \in Times : /\ Within(quota.asked, t, MinuteTicks) <= MinuteLimit
                      /\ Within(quota.asked, t, DayTicks) <= DayLimit
  /\ editor.popup # NoSuggestion => editor.enabled /\ editor.popup.model = editor.model

\* What makes the limits inductive: one request at a time is between its check and its
\* write; what was let through or is being written is in the attempts that the next
\* check will see, for as long as a window still reaches it; and nothing is in the future.
Pending == [t \in Times |-> IF \E r \in suggests : r.at = "writing" /\ r.since = t
                             THEN quota.asked[t] + 1 ELSE quota.asked[t]]
Known == IF quota.loaded THEN quota.attempts ELSE quota.file

OneAtATime ==
  /\ \A r, s \in suggests : r.at \in {"loading", "writing"} /\ s.at \in {"loading", "writing"} => r = s
  /\ \A r \in suggests : (r.at = "writing" => quota.loaded) /\ (r.at = "loading" => ~quota.loaded)

Remembered ==
  \A t \in Times :
    /\ t + DayTicks > clock => Pending[t] <= Known[t] /\ quota.asked[t] <= quota.file[t]
    /\ t > clock => Pending[t] = 0

PendingWithin ==
  \A t \in Times : Within(Pending, t, MinuteTicks) <= MinuteLimit /\ Within(Pending, t, DayTicks) <= DayLimit

\* What makes the suggestion inductive: what is asked for since the last clear is of the
\* model chosen now.
AskedOfModel ==
  /\ editor.timer.revision <= editor.revision
  /\ \A r \in suggests : r.revision <= editor.revision /\ (r.revision = editor.revision => r.model = editor.model)

CompletionInv == CompletionTypeOK /\ OneAtATime /\ Remembered /\ PendingWithin /\ AskedOfModel /\ QuotaKept
=============================================================================

------------------------------ MODULE Dictation ------------------------------
(***************************************************************************)
(* Voice dictation in the terminal: the shortcut that starts a recording   *)
(* and, pressed again, has it transcribed (DictationController and the     *)
(* extension around it).  Nothing keeps two presses apart: each runs its   *)
(* handler from one await to the next.                                     *)
(***************************************************************************)
CONSTANTS Presses,     \* presses of the shortcut, each with the recording it may start
          NoPress

VARIABLES allowed,     \* the project's settings: dictation, and transcription in the cloud
          preference,  \* what resolveDictationBackend finds: on the device, a cloud service, nothing
          consent,     \* the student has agreed to the cloud in this session
          recorder,    \* the controller: the recording under way, the one being transcribed
          press,       \* where each press is
          recording    \* the recorder and the audio file of each

dictationVars == <<allowed, preference, consent, recorder, press, recording>>

ASSUME DictationAssumption == NoPress \notin Presses

NoRecording == [running |-> FALSE, file |-> FALSE, remote |-> FALSE]
NotPressed == [at |-> "none", of |-> NoPress, allowCloud |-> FALSE, remote |-> FALSE]

Settings == [dictation : BOOLEAN, cloud : BOOLEAN]
Recorder == [active : Presses \cup {NoPress}, stopping : Presses \cup {NoPress}, shut : BOOLEAN]
Recorded == [running : BOOLEAN, file : BOOLEAN, remote : BOOLEAN]
PressState == {"none", "choosing", "resolving", "confirming", "spawning", "finishing", "transcribing", "cancelling", "done"}
Pressed == [at : PressState, of : Presses \cup {NoPress}, allowCloud : BOOLEAN, remote : BOOLEAN]

DictationTypeOK ==
  /\ allowed \in Settings /\ preference \in {"device", "cloud", "nothing"} /\ consent \in BOOLEAN
  /\ recorder \in Recorder /\ recording \in [Presses -> Recorded] /\ press \in [Presses -> Pressed]

DictationInit ==
  /\ allowed = [dictation |-> TRUE, cloud |-> TRUE] /\ preference \in {"device", "cloud", "nothing"} /\ consent = FALSE
  /\ recorder = [active |-> NoPress, stopping |-> NoPress, shut |-> FALSE]
  /\ press = [p \in Presses |-> NotPressed] /\ recording = [p \in Presses |-> NoRecording]

\* A policy refresh, and the dictation setup, between any two steps.
PolicyChanges ==
  /\ allowed' \in Settings \ {allowed}
  /\ UNCHANGED <<preference, consent, recorder, press, recording>>

SetupChanges ==
  /\ preference' \in {"device", "cloud"} \ {preference}
  /\ UNCHANGED <<allowed, consent, recorder, press, recording>>

PressAt(p, at) == press' = [press EXCEPT ![p].at = at]

\* cancel: what is under way is forgotten at once, and its recorder killed.
Cancel(p) ==
  /\ recorder' = [recorder EXCEPT !.active = NoPress]
  /\ press' = [press EXCEPT ![p].at = IF recorder.active = NoPress THEN "done" ELSE "cancelling", ![p].of = recorder.active]

\* toggle up to its first await, that of stop included.
Press(p) ==
  /\ press[p] = NotPressed /\ ~recorder.shut
  /\ UNCHANGED <<allowed, preference, consent, recording>>
  /\ \/ ~allowed.dictation /\ Cancel(p)
     \/ /\ allowed.dictation /\ recorder.active = NoPress
        /\ PressAt(p, "choosing") /\ UNCHANGED recorder
     \/ /\ allowed.dictation /\ recorder.active # NoPress /\ recorder.stopping # NoPress
        /\ PressAt(p, "done") /\ UNCHANGED recorder
     \/ /\ allowed.dictation /\ recorder.active # NoPress /\ recorder.stopping = NoPress
        /\ IF recording[recorder.active].remote /\ ~allowed.cloud THEN Cancel(p)
           ELSE /\ recorder' = [recorder EXCEPT !.stopping = recorder.active, !.active = NoPress]
                /\ press' = [press EXCEPT ![p].at = "finishing", ![p].of = recorder.active]

\* A backend is found or set up, or the handler ends; start refuses beside another
\* recording, and keeps the setting of now.
Chosen(p) ==
  /\ press[p].at = "choosing" /\ UNCHANGED <<allowed, preference, consent, recorder, recording>>
  /\ \/ PressAt(p, "done")
     \/ /\ recorder.active = NoPress /\ recorder.stopping = NoPress
        /\ press' = [press EXCEPT ![p].at = "resolving", ![p].allowCloud = allowed.cloud]

\* A version that asks for consent only when dictation is set up.
BadNeedsConsent == FALSE

NeedsConsent == ~consent

\* start resolves the backend again.
Resolved(p) ==
  /\ press[p].at = "resolving" /\ UNCHANGED <<allowed, preference, consent, recorder, recording>>
  /\ LET remote == preference = "cloud"
         refused == preference = "nothing" \/ (remote /\ ~press[p].allowCloud)
     IN press' = [press EXCEPT ![p].remote = remote,
                    ![p].at = IF refused THEN "done" ELSE IF remote /\ NeedsConsent THEN "confirming" ELSE "spawning"]

Confirmed(p) ==
  /\ press[p].at = "confirming" /\ UNCHANGED <<allowed, preference, recorder, recording>>
  /\ \/ consent' = TRUE /\ PressAt(p, "spawning")
     \/ PressAt(p, "done") /\ UNCHANGED consent

\* The recorder runs and becomes the controller's, or could not be started.
Spawned(p) ==
  /\ press[p].at = "spawning" /\ PressAt(p, "done") /\ UNCHANGED <<allowed, preference, consent>>
  /\ \/ /\ recording' = [recording EXCEPT ![p] = [running |-> TRUE, file |-> TRUE, remote |-> press[p].remote]]
        /\ recorder' = [recorder EXCEPT !.active = p]
     \/ UNCHANGED <<recorder, recording>>

\* finishRecording: the recorder has ended; its file is transcribed, or missing.
Finished(p) ==
  /\ press[p].at = "finishing" /\ UNCHANGED <<allowed, preference, consent>>
  /\ recording' = [recording EXCEPT ![press[p].of].running = FALSE]
  /\ IF recording[press[p].of].file THEN PressAt(p, "transcribing") /\ UNCHANGED recorder
     ELSE PressAt(p, "done") /\ recorder' = [recorder EXCEPT !.stopping = NoPress]

Transcribed(p) ==
  /\ press[p].at = "transcribing" /\ PressAt(p, "done") /\ UNCHANGED <<allowed, preference, consent>>
  /\ recording' = [recording EXCEPT ![press[p].of].file = FALSE]
  /\ recorder' = [recorder EXCEPT !.stopping = NoPress]

Cancelled(p) ==
  /\ press[p].at = "cancelling" /\ PressAt(p, "done") /\ UNCHANGED <<allowed, preference, consent, recorder>>
  /\ recording' = [recording EXCEPT ![press[p].of].running = FALSE, ![press[p].of].file = FALSE]

\* ffmpeg may end by itself, with or without a file.
RecorderEnds(p) ==
  /\ recording[p].running
  /\ \E file \in BOOLEAN : recording' = [recording EXCEPT ![p].running = FALSE, ![p].file = file]
  /\ UNCHANGED <<allowed, preference, consent, recorder, press>>

\* session_shutdown waits for cancel.
ShutDown ==
  /\ ~recorder.shut /\ recorder' = [recorder EXCEPT !.shut = TRUE, !.active = NoPress]
  /\ recording' = IF recorder.active = NoPress THEN recording
                  ELSE [recording EXCEPT ![recorder.active].running = FALSE, ![recorder.active].file = FALSE]
  /\ UNCHANGED <<allowed, preference, consent, press>>

DictationNext ==
  \/ \E p \in Presses : \/ Press(p) \/ Chosen(p) \/ Resolved(p) \/ Confirmed(p) \/ Spawned(p)
                        \/ Finished(p) \/ Transcribed(p) \/ Cancelled(p) \/ RecorderEnds(p)
  \/ PolicyChanges \/ SetupChanges \/ ShutDown

DictationSpec == DictationInit /\ [][DictationNext]_dictationVars

(***************************************************************************)
(* Properties                                                              *)
(***************************************************************************)
\* Whatever is changed between a press and its recording, the student has agreed to the
\* cloud before anything is recorded for it, and a recording for the cloud goes to be
\* transcribed only while the project allows that.
CloudOnlyAsAgreed ==
  [][ /\ \A p \in Presses : recording'[p].remote => consent'
      /\ (recorder'.stopping \notin {NoPress, recorder.stopping} /\ recording[recorder'.stopping].remote) => allowed.cloud
    ]_dictationVars

\* What makes that inductive: nothing is recorded for the cloud, nor about to be, unless
\* the student has agreed.
Agreeing == \A p \in Presses : recording[p].remote \/ (press[p].at = "spawning" /\ press[p].remote) => consent

DictationInv == DictationTypeOK /\ Agreeing

\* "Audio is written to a temp file only long enough to transcribe it": a file is that of
\* the recording under way, of the one being transcribed or of one being cancelled.
AudioIsRemoved ==
  \A p \in Presses :
    recording[p].file => p \in {recorder.active, recorder.stopping} \cup {press[q].of : q \in {r \in Presses : press[r].at = "cancelling"}}
=============================================================================

--------------------------- MODULE TerminalClient ---------------------------
(***************************************************************************)
(* The pi-student process: the command it is started with, the setup of a  *)
(* model provider, the terminal's line-by-line session, and what the       *)
(* process holds meanwhile.  All reading is from one reader of standard    *)
(* input, which the setup and the session share; a reader that has ended   *)
(* answers every read at once.                                             *)
(***************************************************************************)
EXTENDS FiniteSets

CONSTANTS Providers, Kind,   \* Kind[p] is "local", "key" or "oauth"
          Offers,            \* sets of providers a policy may leave to choose from
          NoModel

VARIABLES
  tty,        \* which standard streams are a terminal: "both", "input", "none"
  cmd,        \* "none", "terminal", "setup", "runtime"
  at,         \* where the process is
  setup,      \* the provider setup under way: its step, its provider, who asked for it
  held,       \* of "sandbox", "agent", "echoOff": what must be given back
  reader,     \* "none", "open", "closed"
  eof,        \* standard input has ended
  offered,    \* allowedProviders
  configured, \* providers with a stored credential
  model       \* the model the session has, named by its provider

terminalVars == <<tty, cmd, at, setup, held, reader, eof, offered, configured, model>>

ASSUME TerminalAssumption == Kind \in [Providers -> {"local", "key", "oauth"}] /\ Offers \subseteq SUBSET Providers /\ NoModel \notin Providers

NoSetup == [step |-> "none", provider |-> NoModel, from |-> "none"]
SetupSteps == {"none", "provider", "address", "localModel", "key", "signInList", "signIn", "question", "secret", "exchange"}

TerminalTypeOK ==
  /\ tty \in {"both", "input", "none"} /\ cmd \in {"none", "terminal", "setup", "runtime"}
  /\ at \in {"shell", "choosing", "starting", "checking", "setup", "selecting", "creating", "tui", "rpc",
             "repl", "turn", "stopping", "ended", "gone"}
  /\ setup \in [step: SetupSteps, provider: Providers \cup {NoModel}, from: {"none", "start", "repl", "command"}]
  /\ held \subseteq {"sandbox", "agent", "echoOff"} /\ reader \in {"none", "open", "closed"}
  /\ eof \in BOOLEAN /\ offered \subseteq Providers /\ configured \subseteq Providers
  /\ model \in Providers \cup {NoModel}
  /\ setup.step # "none" <=> at = "setup"

TerminalInit ==
  /\ tty \in {"both", "input", "none"} /\ cmd = "none" /\ at = "shell"
  /\ setup = NoSetup /\ held = {} /\ reader = "none" /\ eof = FALSE
  /\ offered = Providers /\ configured \in SUBSET Providers /\ model = NoModel

interactive == tty = "both"
lineGiven == ~eof /\ reader = "open"
linesDone == eof \/ reader = "closed"

Go(place) == at' = place
StaySetUp == UNCHANGED <<offered, configured, model>>
Fixed == UNCHANGED <<tty, cmd>>

\* External: the student closes the input, or interrupts the reader.
InputEnds ==
  /\ at # "gone" /\ ~eof /\ eof' = TRUE
  /\ Fixed /\ StaySetUp /\ UNCHANGED <<at, setup, held, reader>>

------------------------------------------------------------------------------
(* main. *)

Main(c) ==
  /\ at = "shell" /\ UNCHANGED <<tty, held, eof>> /\ StaySetUp
  /\ \/ /\ c = "none" /\ interactive /\ cmd' = "terminal"
        /\ Go("choosing") /\ reader' = "open" /\ UNCHANGED setup
     \/ /\ c = "none" /\ ~interactive /\ cmd' = "terminal" /\ Go("starting") /\ UNCHANGED <<setup, reader>>
     \/ /\ c \in {"terminal", "runtime"} /\ cmd' = c /\ Go("starting") /\ UNCHANGED <<setup, reader>>
     \/ /\ c = "setup" /\ interactive /\ cmd' = c /\ Go("setup") /\ reader' = "open"
        /\ setup' = [NoSetup EXCEPT !.step = "provider", !.from = "command"]

\* A question to a reader that has ended is never answered, and with nothing left to wait for the process ends.
chooseInterface ==
  /\ at = "choosing" /\ Fixed /\ StaySetUp /\ UNCHANGED <<setup, held, eof>>
  /\ \/ lineGiven /\ Go("starting") /\ reader' = "none"
     \/ lineGiven /\ Go("ended") /\ reader' = "closed"   \* the GUI: GuiLaunch
     \/ linesDone /\ Go("ended") /\ UNCHANGED reader

\* createApplicationRuntime; PiStudentRuntime.start, which the shared runtime calls outside its try.
Start ==
  /\ at = "starting" /\ Fixed /\ StaySetUp /\ UNCHANGED <<setup, reader, eof>>
  /\ \/ Go("ended") /\ UNCHANGED held
     \/ Go(IF cmd = "terminal" THEN "stopping" ELSE "ended") /\ UNCHANGED held
     \/ Go("checking") /\ held' = held \cup {"sandbox"}

\* The model inventory under the selection's policy decides whether a provider must be set up first.
Check ==
  /\ at = "checking" /\ Fixed /\ UNCHANGED <<held, eof, configured>>
  /\ \/ Go("stopping") /\ UNCHANGED <<setup, reader, offered, model>>
     \/ /\ cmd = "terminal" /\ reader' = "open" /\ offered' \in Offers
        /\ \/ \E m \in configured : Go("selecting") /\ model' = m /\ UNCHANGED setup
           \/ Go("setup") /\ setup' = [NoSetup EXCEPT !.step = "provider", !.from = "start"] /\ UNCHANGED model
     \/ /\ cmd = "runtime" /\ Go("creating") /\ \E m \in configured : model' = m
        /\ UNCHANGED <<setup, reader, offered>>

\* selectExecutionModel under the policy as it is now.
Select ==
  /\ at = "selecting" /\ Fixed /\ StaySetUp /\ UNCHANGED <<setup, held, eof>>
  /\ \/ Go("creating") /\ reader' = IF interactive THEN "closed" ELSE reader
     \/ Go("stopping") /\ UNCHANGED reader

Create ==
  /\ at = "creating" /\ Fixed /\ StaySetUp /\ UNCHANGED <<setup, reader, eof>>
  /\ \/ Go("stopping") /\ UNCHANGED held
     \/ /\ held' = held \cup {"agent"}
        /\ Go(IF cmd = "runtime" THEN "rpc" ELSE IF interactive THEN "tui" ELSE "repl")

\* The full-screen session returns, or fails.
TuiEnds ==
  /\ at = "tui" /\ Go("stopping") /\ held' = held \ {"agent"}
  /\ Fixed /\ StaySetUp /\ UNCHANGED <<setup, reader, eof>>

\* External: the shutdown of an RPC session stops the sandbox (session_shutdown) and ends the process.
RpcEnds ==
  /\ at = "rpc" /\ Go("ended") /\ held' = {}
  /\ Fixed /\ StaySetUp /\ UNCHANGED <<setup, reader, eof>>

BadDispose ==
  /\ at = "stopping" /\ Go("ended") /\ held' = IF model = NoModel THEN held ELSE held \ {"sandbox"}
  /\ Fixed /\ StaySetUp /\ UNCHANGED <<setup, reader, eof>>

dispose ==
  /\ at = "stopping" /\ Go("ended") /\ held' = held \ {"sandbox"}
  /\ Fixed /\ StaySetUp /\ UNCHANGED <<setup, reader, eof>>

\* Node ends the process when nothing is left to wait for; an open reader is.
Exit ==
  /\ at = "ended" /\ (reader = "open" => eof) /\ Go("gone")
  /\ Fixed /\ StaySetUp /\ UNCHANGED <<setup, held, reader, eof>>

------------------------------------------------------------------------------
(* setup.ts. *)

AtStep(step) == at = "setup" /\ setup.step = step

\* A setup with a reader of its own closes it when it returns, and it returns the promise of a retry or of a
\* sign-in before that has run.
Own(r) == IF setup.from = "command" THEN "closed" ELSE r

\* askSecret: the terminal does not echo what is typed.
EchoAt(step) == IF step \in {"key", "secret"} /\ tty # "none" THEN held \cup {"echoOff"} ELSE held \ {"echoOff"}

AsksFor(step, p) ==
  /\ Go("setup") /\ setup' = [setup EXCEPT !.step = step, !.provider = p]
  /\ held' = EchoAt(step) /\ reader' = (IF step = "signIn" THEN Own(reader) ELSE reader) /\ StaySetUp

Retry ==
  /\ Go("setup") /\ setup' = [setup EXCEPT !.step = "provider", !.provider = NoModel]
  /\ held' = held \ {"echoOff"} /\ reader' = Own(reader) /\ UNCHANGED <<offered, model>>

\* Cancelled, or failed: the start gives up, the session goes on with the model it has.
EndSetup ==
  /\ Go(CASE setup.from = "start" -> "stopping" [] setup.from = "repl" -> "repl" [] OTHER -> "ended")
  /\ setup' = NoSetup /\ held' = held \ {"echoOff"}
  /\ reader' = (IF setup.from = "repl" THEN reader ELSE "closed")
  /\ UNCHANGED <<offered, model>>

\* The guard of setModel may refuse a provider that was offered when the process started.
Finish(p) ==
  /\ setup' = NoSetup /\ held' = held \ {"echoOff"} /\ UNCHANGED offered
  /\ CASE setup.from = "start" -> Go("selecting") /\ model' = p /\ UNCHANGED reader
       [] setup.from = "repl" -> Go("repl") /\ model' \in {p, model} /\ UNCHANGED reader
       [] OTHER -> Go("ended") /\ reader' = "closed" /\ UNCHANGED model

FirstStep(p) == CASE Kind[p] = "local" -> "address" [] Kind[p] = "key" -> "key" [] OTHER -> "signIn"

\* askUntil over the providers; runOAuthSetup lists those one signs in to.
AskProvider ==
  /\ AtStep("provider") \/ AtStep("signInList")
  /\ Fixed /\ UNCHANGED eof
  /\ \/ /\ lineGiven
        /\ \E p \in {q \in offered : AtStep("signInList") => Kind[q] = "oauth"} : AsksFor(FirstStep(p), p)
     \/ EndSetup /\ UNCHANGED configured   \* no provider to list, "q", or no line any more

BadAskKey ==
  /\ AtStep("key") /\ Fixed /\ UNCHANGED eof
  /\ LET p == setup.provider
     IN \/ linesDone /\ AsksFor("key", p)
        \/ lineGiven /\ Retry /\ UNCHANGED configured
        \/ lineGiven /\ configured' = configured \cup {p} /\ (Finish(p) \/ Retry \/ EndSetup)

\* A blank key is asked for again from the start; a stored one may give no model, or fail to refresh.
AskKey ==
  /\ AtStep("key") /\ Fixed /\ UNCHANGED eof
  /\ LET p == setup.provider
     IN \/ Retry /\ UNCHANGED configured
        \/ lineGiven /\ configured' = configured \cup {p} /\ (Finish(p) \/ Retry \/ EndSetup)

\* A local Ollama: its address, which may not answer, then one of its models.
AskAddress ==
  /\ AtStep("address") /\ Fixed /\ UNCHANGED eof
  /\ \/ lineGiven /\ AsksFor("localModel", setup.provider)
     \/ lineGiven /\ Retry /\ UNCHANGED configured
     \/ linesDone /\ EndSetup /\ UNCHANGED configured

AskLocalModel ==
  /\ AtStep("localModel") /\ Fixed /\ UNCHANGED eof
  /\ \/ lineGiven /\ configured' = configured \cup {setup.provider} /\ Finish(setup.provider)
     \/ EndSetup /\ UNCHANGED configured

\* loginWithOAuth: the provider's flow may ask for something, a secret or not (here once), and ends.
SignInAsks ==
  /\ AtStep("signIn") /\ Fixed /\ UNCHANGED <<eof, reader, at>> /\ StaySetUp
  /\ \E step \in {"question", "secret"} : setup' = [setup EXCEPT !.step = step] /\ held' = EchoAt(step)

SignInAnswered ==
  /\ AtStep("question") \/ AtStep("secret")
  /\ Fixed /\ UNCHANGED eof
  /\ \/ /\ lineGiven \/ AtStep("secret")
        /\ setup' = [setup EXCEPT !.step = "exchange"] /\ held' = EchoAt("exchange")
        /\ UNCHANGED <<at, reader>> /\ StaySetUp
     \/ linesDone /\ AtStep("question") /\ EndSetup /\ UNCHANGED configured

SignInEnds ==
  /\ AtStep("signIn") \/ AtStep("exchange")
  /\ Fixed /\ UNCHANGED eof
  /\ \/ configured' = configured \cup {setup.provider} /\ (Finish(setup.provider) \/ EndSetup)
     \/ EndSetup /\ UNCHANGED configured

------------------------------------------------------------------------------
(* runRepl. *)

InRepl(place) == at = "repl" /\ Go(place) /\ Fixed /\ UNCHANGED <<reader, eof, offered, configured>>

Quit == InRepl("stopping") /\ held' = held \ {"agent"} /\ UNCHANGED <<setup, model>>
SetModel(m) == lineGiven /\ InRepl("repl") /\ model' = m /\ UNCHANGED <<setup, held>>
OpenSetup(step) ==
  /\ lineGiven /\ InRepl("setup") /\ setup' = [NoSetup EXCEPT !.step = step, !.from = "repl"]
  /\ UNCHANGED <<held, model>>
Prompted == lineGiven /\ InRepl("turn") /\ UNCHANGED <<setup, held, model>>

\* The dialogs of a turn's tools read the same lines (createReplUI); "/cancel" and the end of input dismiss them.
TurnEnds ==
  /\ at = "turn" /\ Go("repl")
  /\ Fixed /\ StaySetUp /\ UNCHANGED <<setup, held, reader, eof>>

\* What the process does without being typed to, reading an ended input included.
ReadsOn == (at \in {"choosing", "setup", "repl"} => linesDone) /\ at \notin {"tui", "rpc", "shell"}

TerminalStep ==
  \/ chooseInterface \/ Start \/ Check \/ Select \/ Create \/ TuiEnds \/ RpcEnds \/ dispose \/ Exit
  \/ AskProvider \/ AskKey \/ AskAddress \/ AskLocalModel \/ SignInAsks \/ SignInAnswered \/ SignInEnds
  \/ Quit \/ Prompted \/ TurnEnds
  \/ \E m \in Providers : SetModel(m)
  \/ \E step \in {"provider", "signInList"} : OpenSetup(step)

TerminalNext ==
  \/ TerminalStep \/ InputEnds
  \/ \E c \in {"none", "terminal", "setup", "runtime"} : Main(c)

TerminalSpec == TerminalInit /\ [][TerminalNext]_terminalVars

\* The process runs on.  That a turn and a sign-in end is the provider's part.
TerminalFairness == WF_terminalVars(ReadsOn /\ TerminalStep)

------------------------------------------------------------------------------
\* However the command fails or is cancelled, the process ends with the terminal echoing, the agent disposed of
\* and the sandbox stopped; echo is off only while a key or a secret is read, and an agent runs only while its
\* sandbox does.
TerminalLeavesNothing ==
  /\ at \in {"ended", "gone"} => held = {}
  /\ "echoOff" \in held => setup.step \in {"key", "secret"}
  /\ "agent" \in held => "sandbox" \in held

\* Why it holds: what the process must give back depends on where it is alone, but that a start which failed may
\* stop without a sandbox, and a setup holds what the one who asked for it does.
HoldingOf(from) == CASE from = "start" -> {"sandbox"} [] from = "repl" -> {"sandbox", "agent"} [] OTHER -> {}

HeldByPlace ==
  /\ at \in {"shell", "choosing", "starting", "ended", "gone"} => held = {}
  /\ at \in {"checking", "selecting", "creating"} => held = {"sandbox"}
  /\ at = "stopping" => held \subseteq {"sandbox"}
  /\ at \in {"tui", "rpc", "repl", "turn"} => held = {"sandbox", "agent"}
  /\ at = "setup" => /\ held \ {"echoOff"} = HoldingOf(setup.from)
                     /\ "echoOff" \in held => setup.step \in {"key", "secret"}

ProviderIsChosen == setup.step \notin {"none", "provider", "signInList"} => setup.provider \in Providers

TerminalInv == TerminalTypeOK /\ HeldByPlace /\ ProviderIsChosen

\* Once the input has ended the process ends too, whatever it was asking for: no question is put again and
\* again to an input that answers nothing.  The full-screen and the RPC session see to their own end.
TerminalEnds == eof ~> at \in {"gone", "tui", "rpc", "shell"}
=============================================================================

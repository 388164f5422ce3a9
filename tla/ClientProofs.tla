---------------------------- MODULE ClientProofs ----------------------------
(***************************************************************************)
(* Theorems about the parts of the client that keep a session's state (the *)
(* limits, the classroom selection, the sign-in, the sandbox and the       *)
(* process of the terminal) and about what an editor page shows and sends  *)
(* (dictation, the stored map, the Map panel and the suggestions), each    *)
(* for every value of its constants.  The invariants are those of the      *)
(* modules; here is that every step keeps them.                            *)
(***************************************************************************)
EXTENDS ClientMC, TerminalClient, FiniteSetTheorems, TLAPS

-----------------------------------------------------------------------------
(* CapabilityLanes *)

LEMMA LaneStart == LaneInit => LaneInv
<1> SUFFICES ASSUME LaneInit PROVE LaneInv
  OBVIOUS
<1>1. LaneTypeOK
  BY LaneAssumption DEF LaneInit, LaneTypeOK, NoPrompt
<1>2. TutoringEnds /\ AllowanceKept
  BY LaneAssumption DEF LaneInit, TutoringEnds, AllowanceKept
<1> QED BY <1>1, <1>2 DEF LaneInv

(* A reply that reaches a limit ends its prompt. *)
LEMMA LimitStops ==
  ASSUME NEW more \in BOOLEAN, MessageEnd(more), Limit(turns', tutoringTurns')
  PROVE  prompt' = NoPrompt
BY DEF MessageEnd

(* The steps that count nothing keep the tutoring allowance where it is: the *)
(* clock only closes the agent's lane, and an admission needs an open limit. *)
LEMMA LaneStep == LaneInv /\ [LaneNext]_laneVars => LaneInv'
<1> SUFFICES ASSUME LaneInv, [LaneNext]_laneVars PROVE LaneInv'
  OBVIOUS
<1> USE LaneAssumption DEF LaneInv, LaneTypeOK, TutoringEnds, AllowanceKept, NoPrompt,
        agentLimitReached, limitReached, AgentLimit, Limit
<1>1. CASE SelectProject
  <2>1. LaneTypeOK'
    BY <1>1 DEF SelectProject
  <2>2. TutoringEnds' /\ AllowanceKept'
    BY <1>1 DEF SelectProject
  <2> QED BY <2>1, <2>2
<1>2. CASE MinutesPass
  BY <1>2 DEF MinutesPass
<1>3. ASSUME NEW captured \in captures, CaptureEnds(captured) PROVE LaneInv'
  BY <1>3 DEF CaptureEnds
<1>4. CASE GuardPrompt
  BY <1>4 DEF GuardPrompt, PromptAt
<1>5. CASE AdmitPrompt
  <2>1. prompt.at = "guarded" /\ tutoringTurns < TutoringLimit
    BY <1>5 DEF AdmitPrompt
  <2>2. agentBlocked' \in BOOLEAN /\ (prompt' = NoPrompt \/ prompt' = [prompt EXCEPT !.at = "admitted"])
    BY <1>5 DEF AdmitPrompt, PromptAt
  <2>3. LaneTypeOK'
    <3>1. UNCHANGED <<stage, activeTools, toolsBefore, captures, turns, tutoringTurns, timeUp, costUp>>
      BY <1>5 DEF AdmitPrompt
    <3>2. prompt' \in [at : {"idle", "admitted"}, tutoring : BOOLEAN, tools : SUBSET (Tools \cup {SchoolTool})]
      <4>1. CASE prompt' = NoPrompt
        BY <4>1
      <4>2. CASE prompt' = [prompt EXCEPT !.at = "admitted"]
        BY <4>2
      <4> QED BY <2>2, <4>1, <4>2
    <3> QED BY <2>2, <3>1, <3>2
  <2>4. TutoringEnds' /\ AllowanceKept'
    BY <1>5, <2>1 DEF AdmitPrompt
  <2> QED BY <2>3, <2>4
<1>6. CASE PreparePrompt
  BY <1>6 DEF PreparePrompt, PromptAt
<1>7. CASE Lane
  <2>1. prompt.at = "prepared" /\ prompt'.at = "laned" /\ prompt' \in [at : {"laned"}, tutoring : BOOLEAN, tools : SUBSET (Tools \cup {SchoolTool})]
    BY <1>7 DEF Lane, tutoringOnly
  <2>2. LaneTypeOK'
    BY <1>7, <2>1 DEF Lane
  <2>3. TutoringEnds' /\ AllowanceKept'
    BY <1>7, <2>1 DEF Lane
  <2> QED BY <2>2, <2>3
<1>8. CASE StartRequest
  BY <1>8 DEF StartRequest
<1>9. ASSUME NEW t \in Tools, CallTool(t) PROVE LaneInv'
  BY <1>9 DEF CallTool, RefreshTools
<1>10. ASSUME NEW more \in BOOLEAN, MessageEnd(more) PROVE LaneInv'
  <2>1. prompt.at = "running" /\ tutoringTurns < TutoringLimit
    BY <1>10 DEF MessageEnd
  <2>2. prompt' = prompt \/ prompt' = NoPrompt
    BY <1>10 DEF MessageEnd
  <2>3. LaneTypeOK'
    <3>1. turns' \in Nat /\ tutoringTurns' \in Nat
      BY <1>10 DEF MessageEnd
    <3>2. costUp' \in BOOLEAN
      BY <1>10, Zenon DEF MessageEnd
    <3> QED BY <1>10, <2>2, <3>1, <3>2 DEF MessageEnd
  <2>4. CASE agentLimitReached
    <3>1. turns' = turns /\ tutoringTurns' = tutoringTurns + 1
      BY <1>10, <2>4 DEF MessageEnd
    <3>2. tutoringTurns' >= TutoringLimit => prompt' = NoPrompt
      BY <1>10, <2>4, <3>1, LimitStops
    <3> QED BY <1>10, <2>1, <2>3, <2>4, <3>1, <3>2 DEF MessageEnd
  <2>5. CASE ~agentLimitReached
    <3>1. turns' = turns + 1 /\ tutoringTurns' = tutoringTurns /\ turns < TurnLimit
      BY <1>10, <2>5 DEF MessageEnd
    <3> QED BY <2>1, <2>3, <3>1
  <2> QED BY <2>4, <2>5
<1>11. CASE UNCHANGED laneVars
  BY <1>11 DEF laneVars
<1> QED BY <1>1, <1>2, <1>3, <1>4, <1>5, <1>6, <1>7, <1>8, <1>9, <1>10, <1>11 DEF LaneNext

(* No session goes past its agent turns or its tutoring turns, whatever the  *)
(* clock and the admissions do while a reply is on its way                   *)
(* (project-capabilities.ts, message_end).                                   *)
THEOREM AllowancesHold == LaneSpec => []AllowanceKept
<1>1. LaneInv => AllowanceKept
  BY DEF LaneInv
<1> QED BY <1>1, LaneStart, LaneStep, PTL DEF LaneSpec

-----------------------------------------------------------------------------
(* ClassSelection *)

LEMMA Choices ==
  /\ Personal \in TeacherContext
  /\ \A p \in Projects : Of(p) \in TeacherContext
  /\ \A c \in Classes : [class |-> c, project |-> Nothing] \in TeacherContext
BY SelectionAssumption DEF Personal, Of, TeacherContext

LEMMA SelectionStart == SelectionInit => SelectionInv
<1> SUFFICES ASSUME SelectionInit PROVE SelectionInv
  OBVIOUS
<1>1. SelectionTypeOK
  BY Choices DEF SelectionInit, SelectionTypeOK, NoCommand
<1>2. HalfMade /\ SelectionAgrees
  BY DEF SelectionInit, HalfMade, SelectionAgrees, NoCommand
<1> QED BY <1>1, <1>2 DEF SelectionInv

LEMMA SelectionStep == SelectionInv /\ [SelectionNext]_selectionVars => SelectionInv'
<1> SUFFICES ASSUME SelectionInv, [SelectionNext]_selectionVars PROVE SelectionInv'
  OBVIOUS
<1> USE Choices DEF SelectionInv, SelectionTypeOK, HalfMade, SelectionAgrees, Agreed, NoCommand, NoneUnderWay
<1>0. \A x \in TeacherContext : x.project \in Projects \cup {Nothing}
  BY DEF TeacherContext
<1>1. ASSUME NEW c \in Classes, JoinClass(c) PROVE SelectionInv'
  BY <1>1 DEF JoinClass, Personal
<1>2. ASSUME NEW c \in Classes, OpenProjects(c) PROVE SelectionInv'
  BY <1>2 DEF OpenProjects, Personal
<1>3. CASE StoreJoined
  BY <1>3 DEF StoreJoined
<1>4. CASE ChooseProject
  <2>1. CASE command' = NoCommand
    BY <1>4, <2>1 DEF ChooseProject
  <2>2. ASSUME NEW p \in Projects, command' = [at |-> "onSelect", context |-> Of(p), joining |-> FALSE]
        PROVE  SelectionInv'
    <3>1. command' \in [at : {"onSelect"}, context : TeacherContext, joining : {FALSE}]
      BY <2>2
    <3> QED BY <1>4, <3>1 DEF ChooseProject
  <2> QED BY <1>4, <2>1, <2>2 DEF ChooseProject
<1>5. CASE OnSelect
  <2>1. linked' = command.context /\ effective' \in Projects \cup {Nothing} /\ command.at = "onSelect" /\ ~prompted
    BY <1>0, <1>5 DEF OnSelect
  <2>2. CASE command.joining
    BY <1>5, <2>1, <2>2 DEF OnSelect, SelectedThen
  <2>3. CASE ~command.joining
    BY <1>5, <2>1, <2>3 DEF OnSelect, SelectedThen
  <2> QED BY <2>2, <2>3
<1>6. CASE StoreProject
  BY <1>0, <1>6 DEF StoreProject
<1>7. CASE CommandFails
  BY <1>7 DEF CommandFails
<1>8. CASE BeginSession
  <2>1. PICK read \in {Personal, stored}, own \in {Personal, stored} :
          /\ linked' \in {Personal, read} /\ effective' = linked'.project
          /\ selected' = own /\ assignment' \in {Nothing, own.project}
    BY <1>8 DEF BeginSession
  <2>2. {stored', linked', selected'} \subseteq TeacherContext /\ {effective', assignment'} \subseteq Projects \cup {Nothing}
    BY <1>0, <1>8, <2>1 DEF BeginSession
  <2>3. command' = NoCommand /\ outcome' = "none" /\ ~prompted' /\ prompted' \in BOOLEAN
    BY <1>8 DEF BeginSession
  <2>4. SelectionTypeOK'
    BY <2>2, <2>3
  <2> QED BY <2>3, <2>4
<1>9. CASE Prompt
  BY <1>0, <1>9 DEF Prompt
<1>10. CASE Answered
  BY <1>10 DEF Answered
<1>11. CASE UNCHANGED selectionVars
  BY <1>11 DEF selectionVars
<1> QED BY <1>1, <1>2, <1>3, <1>4, <1>5, <1>6, <1>7, <1>8, <1>9, <1>10, <1>11 DEF SelectionNext

(* After any command that succeeded, what is stored, recorded, shown and put *)
(* into prompts is one class and project, whichever awaits of the commands   *)
(* before it failed (classroom and telemetry extensions).                    *)
THEOREM SelectionIsOne == SelectionSpec => []SelectionAgrees
<1>1. SelectionInv => SelectionAgrees
  BY DEF SelectionInv
<1> QED BY <1>1, SelectionStart, SelectionStep, PTL DEF SelectionSpec

-----------------------------------------------------------------------------
(* SignIn *)

LEMMA Snapshots ==
  /\ NoCode \in StoredSessions /\ Codes \subseteq StoredSessions
  /\ AtRest \in Flow /\ AtRest.at = "idle" /\ AtRest.code = NoCode
  /\ \A known \in AuthStatuses, user \in StoredSessions :
       /\ Snap(known, user, TRUE) \in Snapshot /\ Snap(known, user, FALSE) \in Snapshot
       /\ Snap(known, user, TRUE).status = known /\ Snap(known, user, FALSE).status = known
       /\ Snap(known, user, FALSE).user = user
BY SignInAssumption DEF StoredSessions, AtRest, Flow, Snapshot, Snap, AuthStatuses

(* A caller that ends is at rest again and the others go on where they are;  *)
(* what it reports is what it found, or an explanation put back.             *)
LEMMA FlowEnded ==
  ASSUME SignInTypeOK, NEW r \in Runs, NEW s \in Snapshot, FlowEnds(r, s)
  PROVE  /\ snapshot' \in Snapshot /\ flow' \in [Runs -> Flow] /\ flow'[r] = AtRest
         /\ \A q \in Runs : q # r => flow'[q] = flow[q]
         /\ snapshot'.status = "authenticated" => snapshot' = s
<1>1. snapshot' = Restored(r, s) /\ flow' = [flow EXCEPT ![r] = AtRest]
  BY DEF FlowEnds, FlowGoes
<1>2. flow[r].previous \in Snapshot
  BY DEF SignInTypeOK, Flow
<1>3. Restored(r, s) = s \/ (Restored(r, s) = flow[r].previous /\ flow[r].previous.status \in {"denied", "expired"})
  BY DEF Restored
<1> QED BY <1>1, <1>2, <1>3, Snapshots DEF SignInTypeOK

(* A caller that goes on to another request keeps its code. *)
LEMMA FlowGone ==
  ASSUME SignInTypeOK, NEW r \in Runs, NEW rec \in Flow, FlowGoes(r, rec)
  PROVE  /\ flow' \in [Runs -> Flow] /\ flow'[r] = rec
         /\ \A q \in Runs : q # r => flow'[q] = flow[q]
BY DEF FlowGoes, SignInTypeOK

LEMMA SignInStart == SignInInit => SignInInv
<1> SUFFICES ASSUME SignInInit PROVE SignInInv
  OBVIOUS
<1>1. snapshot \in Snapshot
  BY Snapshots DEF SignInInit, AtRest, Flow
<1>2. SignInTypeOK
  BY <1>1, Snapshots DEF SignInInit, SignInTypeOK, StoredSessions
<1>3. ExchangedOnce /\ LateLeavesNothing
  BY DEF SignInInit, ExchangedOnce, LateLeavesNothing
<1> QED BY <1>2, <1>3 DEF SignInInv

(* The steps of a caller that leave exchanges, outcomes and redeemed codes   *)
(* alone keep the invariant when they leave the stored session or clear it.  *)
LEMMA ConfirmationsKeep ==
  ASSUME SignInInv, NEW r \in Runs, flow' \in [Runs -> Flow], snapshot' \in Snapshot,
         flow[r].at # "exchange", flow'[r].at # "exchange", \A q \in Runs : q # r => flow'[q] = flow[q],
         session' \in {session, NoCode}, stale' \in BOOLEAN, UNCHANGED <<settled, late, exchanges, redeemed>>
  PROVE  SignInInv'
<1>1. SignInTypeOK'
  BY Snapshots DEF SignInInv, SignInTypeOK
<1>2. ExchangedOnce'
  BY DEF SignInInv, SignInTypeOK, ExchangedOnce
<1>3. LateLeavesNothing'
  BY SignInAssumption DEF SignInInv, SignInTypeOK, LateLeavesNothing
<1> QED BY <1>1, <1>2, <1>3 DEF SignInInv

LEMMA SignInStep == SignInInv /\ [SignInNext]_signInVars => SignInInv'
<1> SUFFICES ASSUME SignInInv, [SignInNext]_signInVars PROVE SignInInv'
  OBVIOUS
<1>0. SignInTypeOK /\ ExchangedOnce /\ LateLeavesNothing
  BY DEF SignInInv
<1>1. ASSUME NEW r \in Runs, NEW k \in Codes, handleCallback(r, k) PROVE SignInInv'
  <2> DEFINE new == [AtRest EXCEPT !.at = "exchange", !.code = k]
  <2>1. new \in Flow /\ new.at = "exchange" /\ new.code = k
    BY Snapshots DEF Flow
  <2>2. flow' = [flow EXCEPT ![r] = new]
    BY <1>1 DEF handleCallback, FlowGoes
  <2>3. exchanges[k] = 0 /\ exchanges' = [exchanges EXCEPT ![k] = 1]
    <3>1. exchanges[k] \in Nat /\ ~ exchanges[k] > 0
      BY <1>0, <1>1 DEF handleCallback, inflight, ExchangedOnce, SignInTypeOK
    <3>2. exchanges[k] = 0
      BY <3>1
    <3>3. exchanges' = [exchanges EXCEPT ![k] = exchanges[k] + 1]
      BY <1>1 DEF handleCallback
    <3> QED BY <3>2, <3>3
  <2>4. snapshot' \in Snapshot
    BY <1>1, Snapshots DEF handleCallback, AuthStatuses
  <2>5. SignInTypeOK'
    <3>1. flow' \in [Runs -> Flow] /\ exchanges' \in [Codes -> Nat]
      BY <1>0, <2>1, <2>2, <2>3 DEF SignInTypeOK
    <3>2. \A q \in Runs : flow'[q].at = "exchange" => flow'[q].code \in Codes
      BY <1>0, <2>1, <2>2 DEF SignInTypeOK
    <3>3. UNCHANGED <<session, stale, settled, late, redeemed>>
      BY <1>1 DEF handleCallback
    <3> QED BY <1>0, <2>4, <3>1, <3>2, <3>3 DEF SignInTypeOK
  <2>6. ExchangedOnce'
    BY <1>0, <1>1, <2>1, <2>2, <2>3 DEF handleCallback, SignInTypeOK, ExchangedOnce
  <2>7. LateLeavesNothing'
    BY <1>0, <1>1, <2>3 DEF handleCallback, SignInTypeOK, LateLeavesNothing
  <2> QED BY <2>5, <2>6, <2>7 DEF SignInInv
<1>2. ASSUME NEW r \in Runs, ExchangeSucceeds(r) PROVE SignInInv'
  <2> DEFINE k == flow[r].code
  <2>1. k \in Codes /\ k \notin redeemed /\ session' = k /\ redeemed' = redeemed \cup {k}
    BY <1>0, <1>2 DEF ExchangeSucceeds, SignInTypeOK
  <2>2. [flow[r] EXCEPT !.at = "getSession", !.refreshed = FALSE] \in Flow
    BY <1>0 DEF SignInTypeOK, Flow
  <2>3. /\ flow' \in [Runs -> Flow] /\ flow'[r].at = "getSession"
        /\ \A q \in Runs : q # r => flow'[q] = flow[q]
    BY <1>0, <1>2, <2>2 DEF ExchangeSucceeds, Confirming, FlowGoes, SignInTypeOK, Flow
  <2>4. snapshot' \in Snapshot
    BY <1>2, Snapshots DEF ExchangeSucceeds, AuthStatuses
  <2>5. settled' = [settled EXCEPT ![k] = "ok"] /\ UNCHANGED <<late, exchanges>> /\ stale' = FALSE
    BY <1>2 DEF ExchangeSucceeds
  <2>6. SignInTypeOK'
    BY <1>0, <2>1, <2>3, <2>4, <2>5, Snapshots DEF SignInTypeOK
  <2>7. ExchangedOnce'
    BY <1>0, <2>1, <2>3, <2>5 DEF SignInTypeOK, ExchangedOnce
  <2>8. LateLeavesNothing'
    BY <1>0, <2>1, <2>5 DEF ExchangedOnce, LateLeavesNothing
  <2> QED BY <2>6, <2>7, <2>8 DEF SignInInv
<1>3. ASSUME NEW r \in Runs, ExchangeFails(r) \/ ExchangeTimesOut(r) PROVE SignInInv'
  <2> DEFINE k == flow[r].code
  <2>1. k \in Codes /\ settled' = [settled EXCEPT ![k] = "failed"] /\ late' \in {late, [late EXCEPT ![k] = "pending"]}
        /\ UNCHANGED <<session, stale, exchanges, redeemed>>
    BY <1>0, <1>3 DEF ExchangeFails, ExchangeTimesOut, SignInTypeOK
  <2>2. FlowEnds(r, Snap("denied", NoCode, TRUE))
    BY <1>3 DEF ExchangeFails, ExchangeTimesOut
  <2>3. Snap("denied", NoCode, TRUE) \in Snapshot
    BY Snapshots DEF AuthStatuses
  <2>4. /\ snapshot' \in Snapshot /\ flow' \in [Runs -> Flow] /\ flow'[r] = AtRest
        /\ \A q \in Runs : q # r => flow'[q] = flow[q]
    BY <1>0, <2>2, <2>3, FlowEnded
  <2>5. SignInTypeOK'
    BY <1>0, <2>1, <2>4, Snapshots DEF SignInTypeOK
  <2>6. ExchangedOnce' /\ LateLeavesNothing'
    BY <1>0, <2>1, <2>4 DEF SignInTypeOK, ExchangedOnce, LateLeavesNothing
  <2> QED BY <2>5, <2>6 DEF SignInInv
<1>4. ASSUME NEW r \in Runs, getSession(r) \/ refreshSession(r) \/ UserConfirmed(r) \/ UserRefused(r)
             \/ Authorized(r) \/ NotAuthorized(r) \/ DropExpired(r) \/ ConfirmFails(r)
      PROVE SignInInv'
  <2>1. flow[r] \in Flow /\ flow[r].at # "exchange"
    BY <1>0, <1>4 DEF SignInTypeOK, getSession, refreshSession, UserConfirmed, UserRefused, Authorized,
       NotAuthorized, DropExpired, ConfirmFails
  <2>2. session' \in {session, NoCode} /\ stale' \in BOOLEAN /\ UNCHANGED <<settled, late, exchanges, redeemed>>
    BY <1>0, <1>4 DEF SignInTypeOK, getSession, refreshSession, UserConfirmed, UserRefused, Authorized,
       NotAuthorized, DropExpired, ConfirmFails
  <2>3. \/ \E s \in Snapshot : FlowEnds(r, s)
        \/ snapshot' = snapshot /\ \E rec \in Flow : rec.at # "exchange" /\ FlowGoes(r, rec)
    <3>1. CASE getSession(r)
      BY <2>1, <3>1, Snapshots DEF getSession, AuthStatuses, Flow
    <3>2. CASE refreshSession(r)
      BY <2>1, <3>2 DEF refreshSession, Flow
    <3>3. CASE UserConfirmed(r)
      BY <1>0, <2>1, <3>3 DEF UserConfirmed, Flow, SignInTypeOK
    <3>4. CASE UserRefused(r)
      BY <2>1, <3>4 DEF UserRefused, Flow
    <3>5. CASE Authorized(r) \/ NotAuthorized(r)
      BY <2>1, <3>5, Snapshots DEF Authorized, NotAuthorized, AuthStatuses, Flow
    <3>6. CASE DropExpired(r)
      BY <3>6, Snapshots DEF DropExpired, AuthStatuses
    <3>7. CASE ConfirmFails(r)
      BY <2>1, <3>7, Snapshots DEF ConfirmFails, AuthStatuses, Flow
    <3> QED BY <1>4, <3>1, <3>2, <3>3, <3>4, <3>5, <3>6, <3>7
  <2>4. /\ snapshot' \in Snapshot /\ flow' \in [Runs -> Flow] /\ flow'[r].at # "exchange"
        /\ \A q \in Runs : q # r => flow'[q] = flow[q]
    BY <1>0, <2>3, FlowEnded, FlowGone, Snapshots DEF SignInTypeOK
  <2> QED BY <2>1, <2>2, <2>4, ConfirmationsKeep
<1>5. ASSUME NEW r \in Runs, resolve(r) \/ signOut(r) PROVE SignInInv'
  <2>1. PICK rec \in Flow : rec.at # "exchange" /\ FlowGoes(r, rec)
    BY <1>0, <1>5, Snapshots DEF resolve, signOut, Flow, SignInTypeOK
  <2>2. /\ flow[r].at # "exchange" /\ snapshot' \in Snapshot
        /\ UNCHANGED <<session, stale, settled, late, exchanges, redeemed>>
    <3>1. CASE resolve(r)
      BY <3>1, Snapshots DEF resolve, AuthStatuses
    <3>2. CASE signOut(r)
      BY <1>0, <3>2 DEF signOut, SignInTypeOK
    <3> QED BY <1>5, <3>1, <3>2
  <2>3. /\ flow' \in [Runs -> Flow] /\ flow'[r] = rec
        /\ \A q \in Runs : q # r => flow'[q] = flow[q]
    BY <1>0, <2>1, FlowGone
  <2> QED BY <1>0, <2>1, <2>2, <2>3, ConfirmationsKeep DEF SignInTypeOK
<1>6. ASSUME NEW r \in Runs, SignedOut(r) PROVE SignInInv'
  <2>1. FlowEnds(r, Snap("logged_out", NoCode, FALSE)) /\ flow[r].at = "clear"
    BY <1>6 DEF SignedOut
  <2>2. /\ snapshot' \in Snapshot /\ flow' \in [Runs -> Flow] /\ flow'[r] = AtRest
        /\ \A q \in Runs : q # r => flow'[q] = flow[q]
    BY <1>0, <2>1, FlowEnded, Snapshots DEF AuthStatuses
  <2>3. /\ settled' = [k \in Codes |-> "no"] /\ UNCHANGED <<stale, late, redeemed>> /\ session' = NoCode
        /\ exchanges' = [k \in Codes |-> IF \E q \in Runs : flow[q].at = "exchange" /\ flow[q].code = k THEN 1 ELSE 0]
    BY <1>6 DEF SignedOut
  <2>4. SignInTypeOK'
    BY <1>0, <2>2, <2>3, Snapshots DEF SignInTypeOK
  <2>5. ExchangedOnce'
    BY <1>0, <2>1, <2>2, <2>3 DEF ExchangedOnce
  <2>6. LateLeavesNothing'
    BY <2>3, SignInAssumption DEF LateLeavesNothing
  <2> QED BY <2>4, <2>5, <2>6 DEF SignInInv
<1>7. ASSUME NEW k \in Codes, LateExchange(k) \/ LateDrop(k) PROVE SignInInv'
  <2>1. UNCHANGED <<snapshot, flow, settled, exchanges>>
    BY <1>7 DEF LateExchange, LateDrop
  <2>2. SignInTypeOK'
    <3>1. /\ session' \in StoredSessions /\ stale' \in BOOLEAN /\ redeemed' \subseteq Codes
          /\ \E end \in {"landed", "no", "dropped"} : late' = [late EXCEPT ![k] = end]
      <4>1. CASE LateDrop(k)
        BY <1>0, <4>1, Snapshots DEF LateDrop, SignInTypeOK
      <4>2. CASE LateExchange(k)
        <5>1. CASE session' = k /\ stale' = FALSE /\ redeemed' = redeemed \cup {k} /\ late' = [late EXCEPT ![k] = "landed"]
          BY <1>0, <5>1, Snapshots DEF SignInTypeOK
        <5>2. CASE late' = [late EXCEPT ![k] = "no"] /\ UNCHANGED <<session, stale, redeemed>>
          BY <1>0, <5>2 DEF SignInTypeOK
        <5> QED BY <4>2, <5>1, <5>2 DEF LateExchange
      <4> QED BY <1>7, <4>1, <4>2
    <3>2. late' \in [Codes -> {"no", "pending", "landed", "dropped"}]
      BY <1>0, <3>1 DEF SignInTypeOK
    <3> QED BY <1>0, <2>1, <3>1, <3>2 DEF SignInTypeOK
  <2>3. ExchangedOnce'
    BY <1>0, <1>7, <2>1 DEF LateExchange, LateDrop, ExchangedOnce, SignInTypeOK
  <2>4. LateLeavesNothing'
    BY <1>0, <1>7, <2>1, SignInAssumption DEF LateExchange, LateDrop, ExchangedOnce, LateLeavesNothing, SignInTypeOK
  <2> QED BY <2>2, <2>3, <2>4 DEF SignInInv
<1>8. CASE Reload
  <2>1. SignInTypeOK'
    BY <1>0, <1>8, Snapshots DEF Reload, SignInTypeOK, AtRest, AuthStatuses
  <2>2. ExchangedOnce' /\ LateLeavesNothing'
    BY <1>8 DEF Reload, ExchangedOnce, LateLeavesNothing
  <2> QED BY <2>1, <2>2 DEF SignInInv
<1>9. CASE CallbackDenied \/ TokenExpires \/ beginSignIn \/ UNCHANGED signInVars
  <2>1. /\ snapshot' \in Snapshot /\ stale' \in BOOLEAN
        /\ UNCHANGED <<session, flow, settled, late, exchanges, redeemed>>
    <3>1. CASE CallbackDenied \/ beginSignIn
      <4>1. Snap("denied", NoCode, TRUE) \in Snapshot /\ Snap("authenticating", NoCode, FALSE) \in Snapshot
            /\ Snap("logged_out", NoCode, TRUE) \in Snapshot
        BY Snapshots DEF AuthStatuses
      <4> QED BY <1>0, <3>1, <4>1 DEF CallbackDenied, beginSignIn, SignInTypeOK
    <3>2. CASE TokenExpires \/ UNCHANGED signInVars
      BY <1>0, <3>2 DEF TokenExpires, signInVars, SignInTypeOK
    <3> QED BY <1>9, <3>1, <3>2
  <2>2. SignInTypeOK' /\ ExchangedOnce' /\ LateLeavesNothing'
    BY <1>0, <2>1 DEF SignInTypeOK, ExchangedOnce, LateLeavesNothing
  <2> QED BY <2>2 DEF SignInInv
<1> QED BY <1>1, <1>2, <1>3, <1>4, <1>5, <1>6, <1>7, <1>8, <1>9 DEF SignInNext, FlowSteps

(* A code is exchanged once per page or sign-out, and a sign-in that was     *)
(* given up leaves no stored session behind (auth-lifecycle.ts).             *)
THEOREM LateSignInsVanish == SignInSpec => []LateLeavesNothing
<1>1. SignInInv => LateLeavesNothing
  BY DEF SignInInv
<1> QED BY <1>1, SignInStart, SignInStep, PTL DEF SignInSpec
(* What the lifecycle reports besides a confirmed user. *)
Otherwise ==
  {Snap("denied", NoCode, TRUE), Snap("callback", NoCode, FALSE), Snap("authenticating", NoCode, FALSE),
   Snap("logged_out", NoCode, TRUE), Snap("logged_out", NoCode, FALSE), Snap("expired", NoCode, TRUE)}
    \cup {Snap("unauthorized", user, TRUE) : user \in StoredSessions}

LEMMA OtherwiseNotSignedIn == \A s \in Otherwise : s \in Snapshot /\ s.status # "authenticated"
<1>1. ASSUME NEW known \in AuthStatuses \ {"authenticated"}, NEW user \in StoredSessions, NEW message \in BOOLEAN
      PROVE  Snap(known, user, message) \in Snapshot /\ Snap(known, user, message).status # "authenticated"
  BY DEF Snap, Snapshot
<1>2. {"logged_out", "authenticating", "callback", "expired", "denied", "unauthorized"}
        \subseteq AuthStatuses \ {"authenticated"}
  BY DEF AuthStatuses
<1>3. NoCode \in StoredSessions /\ TRUE \in BOOLEAN /\ FALSE \in BOOLEAN
  BY DEF StoredSessions
<1>4. \A user \in StoredSessions :
        Snap("unauthorized", user, TRUE) \in Snapshot /\ Snap("unauthorized", user, TRUE).status # "authenticated"
  BY <1>1, <1>2, <1>3, Zenon
<1>5. \A known \in {"logged_out", "authenticating", "callback", "expired", "denied"} :
        /\ Snap(known, NoCode, TRUE) \in Snapshot /\ Snap(known, NoCode, TRUE).status # "authenticated"
        /\ Snap(known, NoCode, FALSE) \in Snapshot /\ Snap(known, NoCode, FALSE).status # "authenticated"
  BY <1>2, <1>3, <1>1
<1> QED BY <1>4, <1>5 DEF Otherwise

(* A step that reports a user as signed in is the end of a confirmation that *)
(* had that user from the service, never a reading of the stored session     *)
(* (auth-lifecycle.ts, confirm).                                             *)
THEOREM ReportsAreConfirmed == SignInSpec => AuthenticatedIsConfirmed
<1> DEFINE Reports == (snapshot' # snapshot /\ snapshot'.status = "authenticated") =>
                        \E r \in Runs : flow[r].user = snapshot'.user /\ flow'[r] = AtRest
<1>1. ASSUME SignInInv, [SignInNext]_signInVars PROVE [Reports]_signInVars
  <2> SUFFICES ASSUME snapshot' # snapshot, snapshot'.status = "authenticated"
               PROVE  \E r \in Runs : flow[r].user = snapshot'.user /\ flow'[r] = AtRest
    OBVIOUS
  <2>0. SignInTypeOK
    BY <1>1 DEF SignInInv
  <2> HIDE DEF Reports
  <2>1. snapshot' \notin Otherwise
    BY OtherwiseNotSignedIn
  <2>3. ASSUME NEW r \in Runs, NEW s \in Snapshot, FlowEnds(r, s)
        PROVE  snapshot' = s /\ flow'[r] = AtRest /\ s.status = "authenticated"
    BY <2>0, <2>3, FlowEnded
  <2>4. \A r \in Runs, s \in Otherwise : ~FlowEnds(r, s)
    BY <2>3, OtherwiseNotSignedIn
  <2>5. PICK r \in Runs : FlowSteps(r)
    <3>1. ~CallbackDenied /\ ~beginSignIn
      BY <2>1 DEF Otherwise, CallbackDenied, beginSignIn
    <3>2. ~Reload
      BY <2>1 DEF Otherwise, Reload, AtRest
    <3>3. ~TokenExpires /\ ~UNCHANGED signInVars
      BY DEF TokenExpires, signInVars
    <3>4. \A k \in Codes : ~LateExchange(k) /\ ~LateDrop(k)
      BY DEF LateExchange, LateDrop
    <3>5. \A r \in Runs : ~resolve(r) /\ ~signOut(r) /\ \A k \in Codes : ~handleCallback(r, k)
      BY <2>1 DEF Otherwise, resolve, signOut, handleCallback
    <3> QED BY <1>1, <3>1, <3>2, <3>3, <3>4, <3>5 DEF SignInNext
  <2>6. flow[r].user \in StoredSessions
    BY <2>0 DEF SignInTypeOK, Flow
  <2>7. Authorized(r)
    <3>1. ~ExchangeSucceeds(r) /\ ~ExchangeFails(r) /\ ~ExchangeTimesOut(r)
      BY <2>1, <2>4 DEF Otherwise, ExchangeSucceeds, ExchangeFails, ExchangeTimesOut
    <3>2. ~getSession(r) /\ ~refreshSession(r) /\ ~UserConfirmed(r) /\ ~UserRefused(r)
      BY <2>4 DEF Otherwise, getSession, refreshSession, UserConfirmed, UserRefused
    <3>3. ~NotAuthorized(r) /\ ~DropExpired(r)
      BY <2>4, <2>6 DEF Otherwise, NotAuthorized, DropExpired
    <3>4. ~ConfirmFails(r) /\ ~SignedOut(r)
      BY <2>4 DEF Otherwise, ConfirmFails, SignedOut
    <3> QED BY <2>5, <3>1, <3>2, <3>3, <3>4 DEF FlowSteps
  <2>8. FlowEnds(r, Snap("authenticated", flow[r].user, FALSE))
    BY <2>7 DEF Authorized
  <2>9. Snap("authenticated", flow[r].user, FALSE) \in Snapshot /\ Snap("authenticated", flow[r].user, FALSE).user = flow[r].user
    BY <2>6, Snapshots DEF AuthStatuses
  <2> QED BY <2>3, <2>8, <2>9
<1> QED BY <1>1, SignInStart, SignInStep, PTL DEF SignInSpec, AuthenticatedIsConfirmed, Reports

-----------------------------------------------------------------------------
(* SandboxLifecycle *)

LEMMA SandboxRecords ==
  /\ NoCall \in SandboxCall /\ NoCall.at = "idle" /\ NoCall.m = NoMachine
  /\ BootOff \in Boot /\ BootOff.at = "off" /\ BootOff.m = NoMachine
  /\ \A x \in Reported : x.env \in Forbidden \cup Usable \cup {"none"} /\ x.config \in Configs
BY DEF NoCall, SandboxCall, BootOff, Boot, Reported

LEMMA SandboxStart == SandboxInit => SandboxInv
<1> SUFFICES ASSUME SandboxInit PROVE SandboxInv
  OBVIOUS
<1>1. SandboxTypeOK
  BY SandboxRecords DEF SandboxInit, SandboxTypeOK, Forbidden, Usable
<1>2. OneHolder
  BY SandboxRecords DEF SandboxInit, OneHolder, Closing
<1>3. SandboxAgrees
  BY DEF SandboxInit, SandboxAgrees, NoLostMachine, RecordedIsEnforced
<1> QED BY <1>1, <1>2, <1>3 DEF SandboxInv

(* The phases a call may be in, and what one that goes on may become. *)
Taking == {"closing", "detached"}

LEMMA CallBecomes ==
  ASSUME SandboxTypeOK, NEW c \in Calls, NEW rec \in SandboxCall,
         rec.at \in {"resolved", "closing"} => rec.ctx \in Reported, call' = [call EXCEPT ![c] = rec]
  PROVE  /\ call' \in [Calls -> SandboxCall] /\ call'[c] = rec
         /\ \A d \in Calls : d # c => call'[d] = call[d]
         /\ \A d \in Calls : call'[d].at \in {"resolved", "closing"} => call'[d].ctx \in Reported
BY DEF SandboxTypeOK

(* The start that is over leaves everybody's machine where it is. *)
LEMMA BootEnded ==
  ASSUME SandboxTypeOK, NEW ok \in BOOLEAN, BootEnds(ok)
  PROVE  /\ boot' = BootOff /\ call' \in [Calls -> SandboxCall]
         /\ \A c \in Calls : /\ call'[c].m = call[c].m /\ (call'[c].at \in Taking <=> call[c].at \in Taking)
                             /\ call'[c].at \in {"resolved", "closing"} => call'[c].ctx \in Reported
<1>1. boot' = BootOff
  BY DEF BootEnds
<1>2. call' = [c \in Calls |->
                 IF call[c].at = "booting" THEN [call[c] EXCEPT !.at = "booted", !.ok = ok]
                 ELSE IF call[c].at = "awaitBoot" THEN [call[c] EXCEPT !.at = "detach"] ELSE call[c]]
  BY DEF BootEnds
<1>3. ASSUME NEW c \in Calls
      PROVE  /\ call'[c] \in SandboxCall /\ call'[c].m = call[c].m
             /\ call'[c].at \in Taking <=> call[c].at \in Taking
             /\ call'[c].at \in {"resolved", "closing"} => call'[c].ctx \in Reported
  <2>1. call[c] \in SandboxCall
    BY DEF SandboxTypeOK
  <2>2. CASE call[c].at = "booting"
    BY <1>2, <2>1, <2>2 DEF SandboxCall, Taking
  <2>3. CASE call[c].at = "awaitBoot"
    BY <1>2, <2>1, <2>3 DEF SandboxCall, Taking
  <2>4. CASE call[c].at \notin {"booting", "awaitBoot"}
    BY <1>2, <2>1, <2>4 DEF SandboxTypeOK
  <2> QED BY <2>2, <2>3, <2>4
<1> QED BY <1>1, <1>2, <1>3

(* Steps that take no machine, give none up and close none. *)
LEMMA HoldersStay ==
  ASSUME SandboxInv, UNCHANGED <<vm, live, unclosed>>, vm # NoMachine => boot'.at = "off",
         boot'.m = boot.m, boot'.at \in {"start", "close"} <=> boot.at \in {"start", "close"},
         \A c \in Calls : call'[c].m = call[c].m /\ (call'[c].at \in Taking <=> call[c].at \in Taking)
  PROVE  OneHolder' /\ NoLostMachine'
BY DEF SandboxInv, SandboxTypeOK, SandboxAgrees, OneHolder, NoLostMachine, Closing, Taking
(* A caller of start finds a machine, joins the start under way or begins one. *)
LEMMA StartBegun ==
  ASSUME SandboxTypeOK, OneHolder, NEW c \in Calls, NEW rec \in SandboxCall, rec.m = NoMachine, StartMachine(c, rec)
  PROVE  /\ call' \in [Calls -> SandboxCall] /\ call'[c].m = NoMachine /\ call'[c].at \in {"booting", "booted"}
         /\ \A d \in Calls : d # c => call'[d] = call[d]
         /\ \A d \in Calls : call'[d].at \in {"resolved", "closing"} => call'[d].ctx \in Reported
         /\ boot' \in Boot /\ boot'.m = boot.m
         /\ boot'.at \in {"start", "close"} <=> boot.at \in {"start", "close"}
         /\ vm # NoMachine => boot'.at = "off"
         /\ boot'.at \in {"create", "start", "close"} => boot'.backend \in Backends
<1> DEFINE joined == [rec EXCEPT !.at = "booted", !.ok = TRUE]
           waiting == [rec EXCEPT !.at = "booting", !.m = NoMachine]
           begun == [BootOff EXCEPT !.at = "resolve"]
<1>1. /\ joined \in SandboxCall /\ joined.at = "booted" /\ joined.m = NoMachine
      /\ waiting \in SandboxCall /\ waiting.at = "booting" /\ waiting.m = NoMachine
  BY DEF SandboxCall
<1>2. begun \in Boot /\ begun.at = "resolve" /\ begun.m = NoMachine
  BY SandboxRecords DEF Boot
<1>3. PICK new \in {joined, waiting} : call' = [call EXCEPT ![c] = new]
  BY DEF StartMachine
<1>4. boot' = boot \/ (boot.at = "off" /\ vm = NoMachine /\ boot' = begun)
  BY DEF StartMachine, isRunning, starting
<1>5. boot \in Boot /\ (boot.at = "off" => boot.m = NoMachine) /\ (vm # NoMachine => boot.at = "off")
  BY DEF SandboxTypeOK, OneHolder
<1> HIDE DEF joined, waiting, begun
<1>6. /\ call' \in [Calls -> SandboxCall] /\ call'[c] = new /\ \A d \in Calls : d # c => call'[d] = call[d]
      /\ \A d \in Calls : call'[d].at \in {"resolved", "closing"} => call'[d].ctx \in Reported
  BY <1>1, <1>3, CallBecomes
<1>7. boot.at \in {"create", "start", "close"} => boot.backend \in Backends
  BY DEF SandboxTypeOK
<1> QED BY <1>1, <1>2, <1>4, <1>5, <1>6, <1>7

(* After a backend that failed the start goes on with the next or is over. *)
LEMMA NextTried ==
  ASSUME SandboxTypeOK, NextBackend, boot.at \in {"create", "close"}
  PROVE  /\ boot' \in Boot /\ boot'.m = NoMachine /\ boot'.at \in {"off", "resolve"}
         /\ call' \in [Calls -> SandboxCall]
         /\ \A c \in Calls : /\ call'[c].m = call[c].m /\ (call'[c].at \in Taking <=> call[c].at \in Taking)
                             /\ call'[c].at \in {"resolved", "closing"} => call'[c].ctx \in Reported
<1> DEFINE tried == boot.tried \cup {boot.backend}
<1>1. tried \subseteq Backends
  BY DEF SandboxTypeOK, Boot
<1>2. CASE BootEnds(FALSE)
  BY <1>2, BootEnded, SandboxRecords
<1>3. CASE boot' = [BootOff EXCEPT !.at = "resolve", !.tried = tried] /\ UNCHANGED call
  <2>1. boot' \in Boot /\ boot'.at = "resolve" /\ boot'.m = NoMachine
    BY <1>1, <1>3, SandboxRecords DEF Boot
  <2> QED BY <1>3, <2>1 DEF SandboxTypeOK
<1> QED BY <1>2, <1>3 DEF NextBackend

(* A call that ends without having held a machine. *)
LEMMA CallIsDone ==
  ASSUME SandboxTypeOK, NEW c \in Calls, CallDone(c)
  PROVE  /\ call' \in [Calls -> SandboxCall] /\ call'[c].at = "idle" /\ call'[c].m = NoMachine
         /\ \A d \in Calls : d # c => call'[d] = call[d]
         /\ \A d \in Calls : call'[d].at \in {"resolved", "closing"} => call'[d].ctx \in Reported
BY SandboxRecords, CallBecomes DEF CallDone
LEMMA SandboxStep == SandboxInv /\ [SandboxNext]_sandboxVars => SandboxInv'
<1> SUFFICES ASSUME SandboxInv, [SandboxNext]_sandboxVars PROVE SandboxInv'
  OBVIOUS
<1>0. SandboxTypeOK /\ OneHolder /\ NoLostMachine /\ RecordedIsEnforced
  BY DEF SandboxInv, SandboxAgrees
<1>a. \A c \in Calls : call[c] \in SandboxCall /\ (~Closing(c) => call[c].m = NoMachine)
  BY <1>0 DEF SandboxTypeOK, OneHolder
<1>b. SandboxTypeOK' /\ OneHolder' /\ NoLostMachine' /\ RecordedIsEnforced' => SandboxInv'
  BY DEF SandboxInv, SandboxAgrees
(* a configuration, up to the close of the machine it replaces *)
<1>1. ASSUME NEW c \in Calls, executionContext(c) PROVE SandboxInv'
  <2>1. PICK x \in Contexts : call' = [call EXCEPT ![c] =
          [NoCall EXCEPT !.at = "resolved", !.op = "configure", !.ctx = [env |-> ReportedStatus(x.env), config |-> x.config]]]
    BY <1>1 DEF executionContext
  <2> DEFINE rec == [NoCall EXCEPT !.at = "resolved", !.op = "configure",
                                   !.ctx = [env |-> ReportedStatus(x.env), config |-> x.config]]
  <2>2. [env |-> ReportedStatus(x.env), config |-> x.config] \in Reported
    BY <1>0, SandboxAssumption DEF Reported, Configs, ReportedStatus, SandboxTypeOK, Forbidden, Usable
  <2>3. rec \in SandboxCall /\ rec.at = "resolved" /\ rec.m = NoMachine /\ rec.ctx \in Reported
    BY <2>2 DEF NoCall, SandboxCall
  <2>4. /\ call' \in [Calls -> SandboxCall] /\ call'[c] = rec /\ \A d \in Calls : d # c => call'[d] = call[d]
        /\ \A d \in Calls : call'[d].at \in {"resolved", "closing"} => call'[d].ctx \in Reported
    BY <1>0, <2>1, <2>3, CallBecomes
  <2>5. call[c].at = "idle" /\ UNCHANGED <<vm, boot, enforced, recorded, status, attached, open, live, unclosed>>
    BY <1>1 DEF executionContext
  <2>6. SandboxTypeOK'
    BY <1>0, <2>4, <2>5 DEF SandboxTypeOK
  <2>7. OneHolder' /\ NoLostMachine'
    BY <1>0, <1>a, <2>3, <2>4, <2>5, HoldersStay DEF Taking, Closing, OneHolder
  <2>8. RecordedIsEnforced'
    BY <1>0, <2>5 DEF RecordedIsEnforced
  <2> QED BY <1>b, <2>6, <2>7, <2>8
<1>2. ASSUME NEW c \in Calls, RefuseEnvironment(c) \/ RefuseConfiguration(c) \/ KeepConfiguration(c) \/ ConfigureStopped(c)
      PROVE  SandboxInv'
  <2>1. /\ call[c].at = "resolved" /\ CallDone(c) /\ UNCHANGED <<vm, boot, attached, open, live, unclosed>>
        /\ \/ UNCHANGED <<enforced, recorded>>
           \/ enforced' = call[c].ctx.config.policy /\ recorded' = call[c].ctx.config
    BY <1>2 DEF RefuseEnvironment, RefuseConfiguration, KeepConfiguration, ConfigureStopped
  <2>2. /\ call' \in [Calls -> SandboxCall] /\ call'[c].at = "idle" /\ call'[c].m = NoMachine
        /\ \A d \in Calls : d # c => call'[d] = call[d]
        /\ \A d \in Calls : call'[d].at \in {"resolved", "closing"} => call'[d].ctx \in Reported
    BY <1>0, <2>1, CallIsDone
  <2>3. call[c].ctx \in Reported /\ call[c].ctx.config \in Configs /\ call[c].ctx.env \in Forbidden \cup Usable \cup {"none"}
    BY <1>0, <2>1, SandboxRecords DEF SandboxTypeOK
  <2>4. status' \in Forbidden \cup Usable
    BY <1>0, <1>2, <2>3 DEF RefuseEnvironment, RefuseConfiguration, KeepConfiguration, ConfigureStopped, Stated,
       SandboxTypeOK, Forbidden, Usable
  <2>5. SandboxTypeOK'
    BY <1>0, <2>1, <2>2, <2>3, <2>4 DEF SandboxTypeOK
  <2>6. OneHolder' /\ NoLostMachine'
    BY <1>0, <1>a, <2>1, <2>2, HoldersStay DEF Taking, Closing, OneHolder
  <2>7. RecordedIsEnforced'
    BY <1>0, <2>1 DEF RecordedIsEnforced
  <2> QED BY <1>b, <2>5, <2>6, <2>7
<1>3. ASSUME NEW c \in Calls, ConfigureRunning(c) PROVE SandboxInv'
  <2> DEFINE rec == [call[c] EXCEPT !.at = "closing", !.m = vm]
  <2>1. /\ call[c].at = "resolved" /\ vm # NoMachine /\ vm' = NoMachine /\ call' = [call EXCEPT ![c] = rec]
        /\ status' = Stated(call[c].ctx.env) /\ call[c].ctx.env \notin Forbidden
        /\ UNCHANGED <<boot, enforced, recorded, attached, open, live, unclosed>>
    BY <1>0, <1>3 DEF ConfigureRunning, isRunning, SandboxTypeOK, SandboxCall
  <2>2. call[c].ctx \in Reported /\ call[c].ctx.env \in Usable \cup {"none"} /\ vm \in Machines
    BY <1>0, <2>1, SandboxRecords DEF SandboxTypeOK
  <2>3. rec \in SandboxCall /\ rec.at = "closing" /\ rec.m = vm /\ rec.ctx \in Reported
    BY <1>a, <2>2 DEF SandboxCall
  <2>4. /\ call' \in [Calls -> SandboxCall] /\ call'[c] = rec /\ \A d \in Calls : d # c => call'[d] = call[d]
        /\ \A d \in Calls : call'[d].at \in {"resolved", "closing"} => call'[d].ctx \in Reported
    BY <1>0, <2>1, <2>3, CallBecomes
  <2>5. SandboxTypeOK'
    BY <1>0, <2>1, <2>2, <2>4 DEF SandboxTypeOK, Stated
  <2>6. OneHolder'
    BY <1>0, <2>1, <2>2, <2>3, <2>4, SandboxAssumption DEF OneHolder, Closing
  <2>7. NoLostMachine'
    BY <1>0, <1>a, <2>1, <2>3, <2>4, SandboxAssumption DEF NoLostMachine, Closing, SandboxTypeOK
  <2>8. RecordedIsEnforced'
    BY <1>0, <2>1 DEF RecordedIsEnforced
  <2> QED BY <1>b, <2>5, <2>6, <2>7, <2>8
(* the close of a machine ends or fails *)
<1>4. ASSUME NEW c \in Calls, ConfigureClosed(c) PROVE SandboxInv'
  <2> DEFINE rec == [NoCall EXCEPT !.op = "configure"]
  <2>1. /\ call[c].at = "closing" /\ live' = live \ {call[c].m}
        /\ enforced' = call[c].ctx.config.policy /\ recorded' = call[c].ctx.config /\ status' = "ready"
        /\ UNCHANGED <<vm, attached, open, unclosed>>
        /\ StartMachine(c, rec) \/ (CallDone(c) /\ UNCHANGED boot)
    BY <1>4 DEF ConfigureClosed
  <2>2. rec \in SandboxCall /\ rec.m = NoMachine
    BY DEF NoCall, SandboxCall
  <2>3. /\ call' \in [Calls -> SandboxCall] /\ call'[c].m = NoMachine /\ call'[c].at \notin Taking
        /\ \A d \in Calls : d # c => call'[d] = call[d]
        /\ \A d \in Calls : call'[d].at \in {"resolved", "closing"} => call'[d].ctx \in Reported
        /\ boot' \in Boot /\ boot'.m = boot.m
        /\ boot'.at \in {"start", "close"} <=> boot.at \in {"start", "close"}
        /\ vm # NoMachine => boot'.at = "off"
        /\ boot'.at \in {"create", "start", "close"} => boot'.backend \in Backends
    <3>1. CASE StartMachine(c, rec)
      BY <1>0, <2>2, <3>1, StartBegun DEF Taking
    <3>2. CASE CallDone(c) /\ UNCHANGED boot
      BY <1>0, <3>2, CallIsDone DEF Taking, SandboxTypeOK, OneHolder
    <3> QED BY <2>1, <3>1, <3>2
  <2>4. call[c].m \in live \ (unclosed \cup {vm, boot.m}) /\ call[c].ctx.config \in Configs
    BY <1>0, <2>1, SandboxRecords DEF OneHolder, Closing, SandboxTypeOK
  <2>5. SandboxTypeOK'
    BY <1>0, <2>1, <2>3, <2>4 DEF SandboxTypeOK, Usable
  <2>6. OneHolder'
    BY <1>0, <2>1, <2>3, <2>4 DEF OneHolder, Closing, Taking
  <2>7. NoLostMachine'
    BY <1>0, <2>1, <2>3 DEF NoLostMachine
  <2>8. RecordedIsEnforced'
    BY <2>1 DEF RecordedIsEnforced
  <2> QED BY <1>b, <2>5, <2>6, <2>7, <2>8
<1>5. ASSUME NEW c \in Calls, CloseFails(c) \/ StopClosed(c) PROVE SandboxInv'
  <2>1. /\ Closing(c) /\ CallDone(c) /\ UNCHANGED <<vm, boot, enforced, recorded, attached, open>>
        /\ \/ unclosed' = unclosed \cup {call[c].m} /\ live' = live
           \/ unclosed' = unclosed /\ live' = live \ {call[c].m}
    BY <1>5 DEF CloseFails, StopClosed, Closing
  <2>2. /\ call' \in [Calls -> SandboxCall] /\ call'[c].at = "idle" /\ call'[c].m = NoMachine
        /\ \A d \in Calls : d # c => call'[d] = call[d]
        /\ \A d \in Calls : call'[d].at \in {"resolved", "closing"} => call'[d].ctx \in Reported
    BY <1>0, <2>1, CallIsDone
  <2>3. call[c].m \in live \ (unclosed \cup {vm, boot.m})
    BY <1>0, <2>1 DEF OneHolder
  <2>4. status' \in Forbidden \cup Usable
    BY <1>0, <1>5 DEF CloseFails, StopClosed, StoppedStatus, SandboxTypeOK, Usable
  <2>5. SandboxTypeOK'
    BY <1>0, <2>1, <2>2, <2>3, <2>4 DEF SandboxTypeOK
  <2>6. OneHolder'
    BY <1>0, <2>1, <2>2, <2>3 DEF OneHolder, Closing
  <2>7. NoLostMachine'
    BY <1>0, <2>1, <2>2 DEF NoLostMachine
  <2>8. RecordedIsEnforced'
    BY <1>0, <2>1 DEF RecordedIsEnforced
  <2> QED BY <1>b, <2>5, <2>6, <2>7, <2>8
(* starts and stops *)
<1>6. ASSUME NEW c \in Calls, ManagerStart(c) \/ CreateSession(c) PROVE SandboxInv'
  <2>1. /\ call[c].at = "idle" /\ attached' \in BOOLEAN /\ open' \in BOOLEAN
        /\ UNCHANGED <<vm, enforced, recorded, status, live, unclosed>>
        /\ \/ UNCHANGED <<call, boot>>
           \/ \E op \in {"start", "session"} : StartMachine(c, [NoCall EXCEPT !.op = op])
    BY <1>0, <1>6 DEF ManagerStart, CreateSession, SandboxTypeOK
  <2>2. \A op \in {"start", "session"} :
          [NoCall EXCEPT !.op = op] \in SandboxCall /\ [NoCall EXCEPT !.op = op].m = NoMachine
    BY DEF NoCall, SandboxCall
  <2>3. /\ call' \in [Calls -> SandboxCall] /\ call'[c].m = NoMachine /\ call'[c].at \notin Taking
        /\ \A d \in Calls : d # c => call'[d] = call[d]
        /\ \A d \in Calls : call'[d].at \in {"resolved", "closing"} => call'[d].ctx \in Reported
        /\ boot' \in Boot /\ boot'.m = boot.m
        /\ boot'.at \in {"start", "close"} <=> boot.at \in {"start", "close"}
        /\ vm # NoMachine => boot'.at = "off"
        /\ boot'.at \in {"create", "start", "close"} => boot'.backend \in Backends
    <3>1. ASSUME NEW op \in {"start", "session"}, StartMachine(c, [NoCall EXCEPT !.op = op]) PROVE <2>3
      BY <1>0, <2>2, <3>1, StartBegun DEF Taking
    <3>2. CASE UNCHANGED <<call, boot>>
      BY <1>0, <1>a, <2>1, <3>2 DEF Taking, Closing, SandboxTypeOK, OneHolder
    <3> QED BY <2>1, <3>1, <3>2
  <2>4. SandboxTypeOK'
    BY <1>0, <2>1, <2>3 DEF SandboxTypeOK
  <2>5. OneHolder' /\ NoLostMachine'
    BY <1>a, <2>1, <2>3, HoldersStay DEF Taking, Closing
  <2>6. RecordedIsEnforced'
    BY <1>0, <2>1 DEF RecordedIsEnforced
  <2> QED BY <1>b, <2>4, <2>5, <2>6
<1>7. ASSUME NEW c \in Calls, StartEnded(c) \/ (Detach(c) /\ ~isRunning) PROVE SandboxInv'
  <2>1. /\ call[c].at \in {"booted", "detach"} /\ CallDone(c) /\ open' \in BOOLEAN /\ status' \in Forbidden \cup Usable
        /\ UNCHANGED <<vm, boot, enforced, recorded, attached, live, unclosed>>
    BY <1>0, <1>a, <1>7 DEF StartEnded, Detach, isRunning, SandboxTypeOK, SandboxCall, StoppedStatus, Forbidden, Usable
  <2>2. /\ call' \in [Calls -> SandboxCall] /\ call'[c].at = "idle" /\ call'[c].m = NoMachine
        /\ \A d \in Calls : d # c => call'[d] = call[d]
        /\ \A d \in Calls : call'[d].at \in {"resolved", "closing"} => call'[d].ctx \in Reported
    BY <1>0, <2>1, CallIsDone
  <2>3. SandboxTypeOK'
    BY <1>0, <2>1, <2>2 DEF SandboxTypeOK
  <2>4. OneHolder' /\ NoLostMachine'
    BY <1>0, <1>a, <2>1, <2>2, HoldersStay DEF Taking, Closing, OneHolder
  <2>5. RecordedIsEnforced'
    BY <1>0, <2>1 DEF RecordedIsEnforced
  <2> QED BY <1>b, <2>3, <2>4, <2>5
<1>8. ASSUME NEW c \in Calls, SessionShutdown(c) \/ ManagerStop(c) PROVE SandboxInv'
  <2>1. PICK op \in {"session", "stop"}, place \in {"awaitBoot", "detach"} :
          call' = [call EXCEPT ![c] = [[NoCall EXCEPT !.op = op] EXCEPT !.at = place]]
    BY <1>8 DEF SessionShutdown, ManagerStop, BeginStop
  <2> DEFINE rec == [[NoCall EXCEPT !.op = op] EXCEPT !.at = place]
  <2>2. rec \in SandboxCall /\ rec.m = NoMachine /\ rec.at = place
    BY DEF NoCall, SandboxCall
  <2>3. /\ call' \in [Calls -> SandboxCall] /\ call'[c] = rec /\ \A d \in Calls : d # c => call'[d] = call[d]
        /\ \A d \in Calls : call'[d].at \in {"resolved", "closing"} => call'[d].ctx \in Reported
    BY <1>0, <2>1, <2>2, CallBecomes
  <2>4. /\ call[c].at = "idle" /\ open' \in BOOLEAN
        /\ UNCHANGED <<vm, boot, enforced, recorded, status, attached, live, unclosed>>
    BY <1>0, <1>8 DEF SessionShutdown, ManagerStop, BeginStop, SandboxTypeOK
  <2>5. SandboxTypeOK'
    BY <1>0, <2>3, <2>4 DEF SandboxTypeOK
  <2>6. OneHolder' /\ NoLostMachine'
    BY <1>0, <1>a, <2>2, <2>3, <2>4, HoldersStay DEF Taking, Closing, OneHolder
  <2>7. RecordedIsEnforced'
    BY <1>0, <2>4 DEF RecordedIsEnforced
  <2> QED BY <1>b, <2>5, <2>6, <2>7
<1>9. ASSUME NEW c \in Calls, Detach(c), isRunning PROVE SandboxInv'
  <2> DEFINE rec == [call[c] EXCEPT !.at = "detached", !.m = vm]
  <2>1. /\ call[c].at = "detach" /\ vm # NoMachine /\ vm' = NoMachine /\ call' = [call EXCEPT ![c] = rec]
        /\ UNCHANGED <<status, boot, enforced, recorded, attached, open, live, unclosed>>
    BY <1>9 DEF Detach, isRunning
  <2>2. vm \in Machines /\ vm \in live \ unclosed /\ boot.at = "off"
    BY <1>0, <2>1 DEF OneHolder, SandboxTypeOK
  <2>3. rec \in SandboxCall /\ rec.at = "detached" /\ rec.m = vm
    BY <1>a, <2>2 DEF SandboxCall
  <2>4. /\ call' \in [Calls -> SandboxCall] /\ call'[c] = rec /\ \A d \in Calls : d # c => call'[d] = call[d]
        /\ \A d \in Calls : call'[d].at \in {"resolved", "closing"} => call'[d].ctx \in Reported
    BY <1>0, <2>1, <2>3, CallBecomes
  <2>5. SandboxTypeOK'
    BY <1>0, <2>1, <2>4 DEF SandboxTypeOK
  <2>6. OneHolder'
    BY <1>0, <2>1, <2>2, <2>3, <2>4, SandboxAssumption DEF OneHolder, Closing
  <2>7. NoLostMachine'
    BY <1>0, <1>a, <2>1, <2>3, <2>4, SandboxAssumption DEF NoLostMachine, Closing, SandboxTypeOK
  <2>8. RecordedIsEnforced'
    BY <1>0, <2>1 DEF RecordedIsEnforced
  <2> QED BY <1>b, <2>5, <2>6, <2>7, <2>8
(* the start itself *)
<1>10. ASSUME ResolveBackend \/ MachineFails PROVE SandboxInv'
  <2>1. /\ UNCHANGED <<call, vm, enforced, recorded, status, attached, open, live, unclosed>>
        /\ \/ boot.at = "resolve" /\ \E b \in Backends : boot' = [boot EXCEPT !.at = "create", !.backend = b]
           \/ boot.at = "start" /\ boot' = [boot EXCEPT !.at = "close"]
    BY <1>10 DEF ResolveBackend, MachineFails
  <2>2. /\ boot' \in Boot /\ boot'.m = boot.m /\ (boot'.at \in {"start", "close"} <=> boot.at \in {"start", "close"})
        /\ boot.at # "off" /\ (boot'.at \in {"create", "start", "close"} => boot'.backend \in Backends)
    BY <1>0, <2>1 DEF Boot, SandboxTypeOK
  <2>3. SandboxTypeOK'
    BY <1>0, <2>1, <2>2 DEF SandboxTypeOK
  <2>4. OneHolder' /\ NoLostMachine'
    BY <1>0, <2>1, <2>2, HoldersStay DEF OneHolder
  <2>5. RecordedIsEnforced'
    BY <1>0, <2>1 DEF RecordedIsEnforced
  <2> QED BY <1>b, <2>3, <2>4, <2>5
<1>11. ASSUME NoBackend \/ CreateFails PROVE SandboxInv'
  <2>1. boot.at \in {"resolve", "create"} /\ UNCHANGED <<vm, enforced, recorded, status, attached, open, live, unclosed>>
    BY <1>11 DEF NoBackend, CreateFails
  <2>2. /\ boot' \in Boot /\ boot'.m = NoMachine /\ boot'.at \in {"off", "resolve"}
        /\ call' \in [Calls -> SandboxCall]
        /\ \A c \in Calls : /\ call'[c].m = call[c].m /\ (call'[c].at \in Taking <=> call[c].at \in Taking)
                            /\ call'[c].at \in {"resolved", "closing"} => call'[c].ctx \in Reported
    <3>1. CASE NoBackend
      BY <1>0, <3>1, BootEnded, SandboxRecords DEF NoBackend
    <3>2. CASE CreateFails
      BY <1>0, <3>2, NextTried DEF CreateFails
    <3> QED BY <1>11, <3>1, <3>2
  <2>3. SandboxTypeOK'
    BY <1>0, <2>1, <2>2 DEF SandboxTypeOK
  <2>4. boot.m = NoMachine /\ vm = NoMachine
    BY <1>0, <2>1 DEF OneHolder
  <2>5. OneHolder' /\ NoLostMachine'
    BY <2>1, <2>2, <2>4, HoldersStay
  <2>6. RecordedIsEnforced'
    BY <1>0, <2>1 DEF RecordedIsEnforced
  <2> QED BY <1>b, <2>3, <2>5, <2>6
<1>12. CASE CreateMachine
  <2>1. PICK m \in Machines \ live :
          /\ boot.at = "create" /\ boot' = [boot EXCEPT !.at = "start", !.m = m] /\ live' = live \cup {m}
          /\ UNCHANGED <<call, vm, enforced, recorded, status, attached, open, unclosed>>
    BY <1>12 DEF CreateMachine
  <2>2. boot' \in Boot /\ boot'.at = "start" /\ boot'.m = m /\ boot'.backend \in Backends /\ m # NoMachine
    BY <1>0, <2>1, SandboxAssumption DEF Boot, SandboxTypeOK
  <2>3. SandboxTypeOK'
    BY <1>0, <2>1, <2>2 DEF SandboxTypeOK
  <2>4. OneHolder' /\ NoLostMachine'
    BY <1>0, <2>1, <2>2 DEF OneHolder, NoLostMachine, Closing, SandboxTypeOK
  <2>5. RecordedIsEnforced'
    BY <1>0, <2>1 DEF RecordedIsEnforced
  <2> QED BY <1>b, <2>3, <2>4, <2>5
<1>13. CASE MachineStarts
  <2>1. /\ boot.at = "start" /\ vm' = boot.m /\ BootEnds(TRUE)
        /\ UNCHANGED <<enforced, recorded, status, attached, open, live, unclosed>>
    BY <1>13 DEF MachineStarts
  <2>2. /\ boot' = BootOff /\ call' \in [Calls -> SandboxCall]
        /\ \A c \in Calls : /\ call'[c].m = call[c].m /\ (call'[c].at \in Taking <=> call[c].at \in Taking)
                            /\ call'[c].at \in {"resolved", "closing"} => call'[c].ctx \in Reported
    BY <1>0, <2>1, BootEnded
  <2>3. boot.m \in live \ unclosed /\ vm = NoMachine /\ boot.m \in Machines
    BY <1>0, <2>1 DEF OneHolder, SandboxTypeOK
  <2>4. SandboxTypeOK'
    BY <1>0, <2>1, <2>2, <2>3, SandboxRecords DEF SandboxTypeOK
  <2>5. OneHolder'
    BY <1>0, <2>1, <2>2, <2>3, SandboxRecords, SandboxAssumption DEF OneHolder, Closing, Taking, SandboxTypeOK
  <2>6. NoLostMachine'
    BY <1>0, <2>1, <2>2, <2>3, SandboxAssumption DEF NoLostMachine, SandboxTypeOK
  <2>7. RecordedIsEnforced'
    BY <1>0, <2>1 DEF RecordedIsEnforced
  <2> QED BY <1>b, <2>4, <2>5, <2>6, <2>7
<1>14. CASE FailedMachineCloses
  <2>1. /\ boot.at = "close" /\ NextBackend /\ UNCHANGED <<vm, enforced, recorded, status, attached, open>>
        /\ \/ unclosed' = unclosed \cup {boot.m} /\ live' = live
           \/ unclosed' = unclosed /\ live' = live \ {boot.m}
    BY <1>14 DEF FailedMachineCloses
  <2>2. /\ boot' \in Boot /\ boot'.m = NoMachine /\ boot'.at \in {"off", "resolve"}
        /\ call' \in [Calls -> SandboxCall]
        /\ \A c \in Calls : /\ call'[c].m = call[c].m /\ (call'[c].at \in Taking <=> call[c].at \in Taking)
                            /\ call'[c].at \in {"resolved", "closing"} => call'[c].ctx \in Reported
    BY <1>0, <2>1, NextTried
  <2>3. boot.m \in live \ unclosed /\ vm = NoMachine
    BY <1>0, <2>1 DEF OneHolder
  <2>4. SandboxTypeOK'
    BY <1>0, <2>1, <2>2, <2>3 DEF SandboxTypeOK
  <2>5. OneHolder'
    BY <1>0, <2>1, <2>2, <2>3, SandboxAssumption DEF OneHolder, Closing, Taking, SandboxTypeOK
  <2>6. NoLostMachine'
    BY <1>0, <2>1, <2>2, <2>3, SandboxAssumption DEF NoLostMachine, SandboxTypeOK
  <2>7. RecordedIsEnforced'
    BY <1>0, <2>1 DEF RecordedIsEnforced
  <2> QED BY <1>b, <2>4, <2>5, <2>6, <2>7
<1>15. CASE UNCHANGED sandboxVars
  BY <1>15, <1>0, <1>b DEF sandboxVars, SandboxTypeOK, OneHolder, NoLostMachine, RecordedIsEnforced, Closing
<1>16. ASSUME NEW c \in Calls, Continues(c) \/ Begins(c) PROVE SandboxInv'
  BY <1>1, <1>2, <1>3, <1>4, <1>5, <1>6, <1>7, <1>8, <1>9, <1>16 DEF Continues, Begins
<1>17. ASSUME Boots PROVE SandboxInv'
  BY <1>10, <1>11, <1>12, <1>13, <1>14, <1>17 DEF Boots
<1> QED BY <1>15, <1>16, <1>17 DEF SandboxNext

(* However starts, stops and configurations overlap and fail, no machine is  *)
(* forgotten while it exists, and the runtime enforces what the manager has  *)
(* recorded (sandbox-manager.ts, gondolin-runtime.ts).                       *)
THEOREM SandboxIsAccountedFor == SandboxSpec => []SandboxAgrees
<1>1. SandboxInv => SandboxAgrees
  BY DEF SandboxInv
<1> QED BY <1>1, SandboxStart, SandboxStep, PTL DEF SandboxSpec


-----------------------------------------------------------------------------
(* TerminalClient *)

LEMMA TerminalStart == TerminalInit => TerminalInv
<1> SUFFICES ASSUME TerminalInit PROVE TerminalInv
  OBVIOUS
<1>1. /\ setup \in [step: SetupSteps, provider: Providers \cup {NoModel}, from: {"none", "start", "repl", "command"}]
      /\ setup.step = "none"
  BY DEF TerminalInit, NoSetup, SetupSteps
<1>2. /\ held = {} /\ at = "shell" /\ reader = "none" /\ offered = Providers /\ configured \subseteq Providers
      /\ cmd = "none" /\ tty \in {"both", "input", "none"} /\ eof = FALSE /\ model = NoModel
  BY DEF TerminalInit
<1>3. TerminalTypeOK
  BY <1>1, <1>2 DEF TerminalTypeOK
<1>4. HeldByPlace /\ ProviderIsChosen
  BY <1>1, <1>2 DEF HeldByPlace, ProviderIsChosen
<1> QED BY <1>3, <1>4 DEF TerminalInv

Setups == [step: SetupSteps, provider: Providers \cup {NoModel}, from: {"none", "start", "repl", "command"}]

(* Whoever asked for a setup, ending or finishing it goes where what is     *)
(* held belongs, once the terminal echoes again.                            *)
LEMMA SetupReturns ==
  ASSUME TerminalInv, at = "setup", Fixed, eof' \in BOOLEAN, configured' \subseteq Providers,
         EndSetup \/ \E p \in Providers : Finish(p)
  PROVE  TerminalInv'
<1>1. TerminalTypeOK /\ HeldByPlace
  BY DEF TerminalInv
<1>2. setup' = NoSetup /\ held' = held \ {"echoOff"} /\ offered' = offered
  BY DEF EndSetup, Finish
<1>3. NoSetup \in Setups /\ NoSetup.step = "none"
  BY DEF NoSetup, Setups, SetupSteps
<1>4. /\ setup.from = "start" => at' \in {"stopping", "selecting"}
      /\ setup.from = "repl" => at' = "repl"
      /\ setup.from \notin {"start", "repl"} => at' = "ended"
      /\ reader' \in {"none", "open", "closed"} /\ model' \in Providers \cup {NoModel}
  <2>1. CASE EndSetup
    BY <1>1, <2>1 DEF EndSetup, Go, TerminalTypeOK
  <2>2. ASSUME NEW p \in Providers, Finish(p)
        PROVE  /\ setup.from = "start" => at' \in {"stopping", "selecting"}
               /\ setup.from = "repl" => at' = "repl"
               /\ setup.from \notin {"start", "repl"} => at' = "ended"
               /\ reader' \in {"none", "open", "closed"} /\ model' \in Providers \cup {NoModel}
    BY <1>1, <2>2 DEF Finish, Go, TerminalTypeOK
  <2> QED BY <2>1, <2>2
<1>5. held' = HoldingOf(setup.from)
  BY <1>1, <1>2 DEF HeldByPlace
<1>6. /\ setup.from = "start" => held' = {"sandbox"}
      /\ setup.from = "repl" => held' = {"sandbox", "agent"}
      /\ setup.from \notin {"start", "repl"} => held' = {}
  BY <1>5 DEF HoldingOf
<1>7. HeldByPlace'
  BY <1>4, <1>6 DEF HeldByPlace
<1>8. at' \in {"stopping", "selecting", "repl", "ended"} /\ ProviderIsChosen'
  BY <1>2, <1>3, <1>4 DEF ProviderIsChosen
<1>9. TerminalTypeOK'
  BY <1>1, <1>2, <1>3, <1>4, <1>8 DEF TerminalTypeOK, Fixed, Setups
<1> QED BY <1>7, <1>8, <1>9 DEF TerminalInv

(* A setup that goes on keeps who asked for it, and the terminal echoes but *)
(* while a key or a secret is read.                                         *)
LEMMA SetupGoesOn ==
  ASSUME TerminalInv, at = "setup", at' = "setup", NEW step \in SetupSteps \ {"none"}, NEW p \in Providers \cup {NoModel},
         step \notin {"provider", "signInList"} => p \in Providers,
         setup' = [setup EXCEPT !.step = step, !.provider = p], held' \in {EchoAt(step), held \ {"echoOff"}},
         reader' \in {"none", "open", "closed"}, Fixed, eof' \in BOOLEAN, configured' \subseteq Providers,
         UNCHANGED <<offered, model>>
  PROVE  TerminalInv'
<1>1. TerminalTypeOK /\ HeldByPlace
  BY DEF TerminalInv
<1>2. /\ setup' \in Setups /\ setup'.step = step /\ setup'.from = setup.from /\ setup'.provider = p
  BY <1>1 DEF TerminalTypeOK, Setups
<1>3. held' \ {"echoOff"} = held \ {"echoOff"} /\ ("echoOff" \in held' => step \in {"key", "secret"})
  BY DEF EchoAt
<1>4. TerminalTypeOK'
  BY <1>1, <1>2, <1>3 DEF TerminalTypeOK, Fixed, Setups
<1>5. HeldByPlace'
  BY <1>1, <1>2, <1>3 DEF HeldByPlace
<1>6. ProviderIsChosen'
  BY <1>2 DEF ProviderIsChosen
<1> QED BY <1>4, <1>5, <1>6 DEF TerminalInv

LEMMA AsksOn ==
  ASSUME TerminalInv, at = "setup", NEW step \in SetupSteps \ {"none"}, NEW p \in Providers,
         AsksFor(step, p), Fixed, eof' = eof
  PROVE  TerminalInv'
<1>1. /\ at' = "setup" /\ setup' = [setup EXCEPT !.step = step, !.provider = p] /\ held' = EchoAt(step)
      /\ UNCHANGED <<offered, configured, model>> /\ reader' \in {"closed", reader}
  BY DEF AsksFor, Go, StaySetUp, Own
<1>2. TerminalTypeOK
  BY DEF TerminalInv
<1> QED BY <1>1, <1>2, SetupGoesOn DEF TerminalTypeOK

LEMMA RetriesOn ==
  ASSUME TerminalInv, at = "setup", Retry, Fixed, eof' = eof, configured' \subseteq Providers
  PROVE  TerminalInv'
<1>1. /\ at' = "setup" /\ setup' = [setup EXCEPT !.step = "provider", !.provider = NoModel]
      /\ held' = held \ {"echoOff"} /\ UNCHANGED <<offered, model>> /\ reader' \in {"closed", reader}
  BY DEF Retry, Go, Own
<1>2. TerminalTypeOK /\ "provider" \in SetupSteps \ {"none"}
  BY DEF TerminalInv, SetupSteps
<1> QED BY <1>1, <1>2, SetupGoesOn DEF TerminalTypeOK

(* Each step of a setup. *)
LEMMA SetupStep ==
  ASSUME TerminalInv, AskProvider \/ AskKey \/ AskAddress \/ AskLocalModel \/ SignInAsks \/ SignInAnswered \/ SignInEnds
  PROVE  TerminalInv'
<1>0. TerminalTypeOK
  BY DEF TerminalInv
<1>a. at = "setup" /\ Fixed /\ eof' = eof /\ eof \in BOOLEAN
  BY <1>0 DEF TerminalTypeOK, AskProvider, AskKey, AskAddress, AskLocalModel, SignInAsks, SignInAnswered, SignInEnds, AtStep
<1>b. setup.step # "none"
  BY <1>0, <1>a DEF TerminalTypeOK
<1>c. configured \subseteq Providers /\ offered \subseteq Providers
  BY <1>0 DEF TerminalTypeOK
<1>d. setup.step \notin {"provider", "signInList"} => setup.provider \in Providers
  BY <1>b DEF TerminalInv, ProviderIsChosen
<1>e. ASSUME EndSetup, UNCHANGED configured PROVE TerminalInv'
  BY <1>a, <1>c, <1>e, SetupReturns
<1>f. ASSUME Retry, UNCHANGED configured PROVE TerminalInv'
  BY <1>a, <1>c, <1>f, RetriesOn
<1>g. ASSUME setup.step \notin {"provider", "signInList"}, configured' = configured \cup {setup.provider},
             Finish(setup.provider) \/ Retry \/ EndSetup
      PROVE  TerminalInv'
  <2>1. setup.provider \in Providers /\ configured' \subseteq Providers
    BY <1>c, <1>d, <1>g
  <2>2. CASE Retry
    BY <1>a, <2>1, <2>2, RetriesOn
  <2>3. CASE Finish(setup.provider) \/ EndSetup
    <3>1. EndSetup \/ \E p \in Providers : Finish(p)
      BY <2>1, <2>3
    <3> QED BY <1>a, <2>1, <3>1, SetupReturns
  <2> QED BY <1>g, <2>2, <2>3
<1>1. CASE AskProvider
  <2>1. \/ EndSetup /\ UNCHANGED configured
        \/ \E p \in {q \in offered : AtStep("signInList") => Kind[q] = "oauth"} : AsksFor(FirstStep(p), p)
    BY <1>1 DEF AskProvider
  <2>2. CASE \E p \in {q \in offered : AtStep("signInList") => Kind[q] = "oauth"} : AsksFor(FirstStep(p), p)
    <3>1. PICK p \in offered : AsksFor(FirstStep(p), p)
      BY <2>2
    <3>2. FirstStep(p) \in SetupSteps \ {"none"} /\ p \in Providers
      BY <1>c DEF FirstStep, SetupSteps
    <3> QED BY <1>a, <3>1, <3>2, AsksOn
  <2> QED BY <1>e, <2>1, <2>2
<1>2. CASE AskKey
  <2>1. setup.step = "key"
    BY <1>2 DEF AskKey, AtStep
  <2>2. \/ Retry /\ UNCHANGED configured
        \/ configured' = configured \cup {setup.provider} /\ (Finish(setup.provider) \/ Retry \/ EndSetup)
    BY <1>2 DEF AskKey
  <2> QED BY <1>f, <1>g, <2>1, <2>2
<1>3. CASE AskAddress
  <2>1. setup.step = "address" /\ "localModel" \in SetupSteps \ {"none"}
    BY <1>3 DEF AskAddress, AtStep, SetupSteps
  <2>2. \/ AsksFor("localModel", setup.provider)
        \/ Retry /\ UNCHANGED configured
        \/ EndSetup /\ UNCHANGED configured
    BY <1>3 DEF AskAddress
  <2>3. CASE AsksFor("localModel", setup.provider)
    BY <1>a, <1>d, <2>1, <2>3, AsksOn
  <2> QED BY <1>e, <1>f, <2>2, <2>3
<1>4. CASE AskLocalModel
  <2>1. setup.step = "localModel"
    BY <1>4 DEF AskLocalModel, AtStep
  <2>2. \/ configured' = configured \cup {setup.provider} /\ Finish(setup.provider)
        \/ EndSetup /\ UNCHANGED configured
    BY <1>4 DEF AskLocalModel
  <2> QED BY <1>e, <1>g, <2>1, <2>2
<1>5. CASE SignInAsks
  <2>1. /\ setup.step = "signIn" /\ at' = at /\ reader' = reader /\ UNCHANGED <<offered, configured, model>>
    BY <1>5 DEF SignInAsks, AtStep, StaySetUp
  <2>2. PICK step \in {"question", "secret"} : setup' = [setup EXCEPT !.step = step] /\ held' = EchoAt(step)
    BY <1>5 DEF SignInAsks
  <2>3. setup' = [setup EXCEPT !.step = step, !.provider = setup.provider] /\ step \in SetupSteps \ {"none"}
    BY <1>0, <2>2 DEF TerminalTypeOK, SetupSteps
  <2> QED BY <1>0, <1>a, <1>d, <2>1, <2>2, <2>3, SetupGoesOn DEF TerminalTypeOK
<1>6. CASE SignInAnswered
  <2>1. setup.step \in {"question", "secret"}
    BY <1>6 DEF SignInAnswered, AtStep
  <2>2. CASE EndSetup /\ UNCHANGED configured
    BY <1>e, <2>2
  <2>3. CASE /\ setup' = [setup EXCEPT !.step = "exchange"] /\ held' = EchoAt("exchange")
             /\ UNCHANGED <<at, reader>> /\ StaySetUp
    <3>1. setup' = [setup EXCEPT !.step = "exchange", !.provider = setup.provider] /\ "exchange" \in SetupSteps \ {"none"}
      BY <1>0, <2>3 DEF TerminalTypeOK, SetupSteps
    <3>2. at' = "setup" /\ reader' = reader /\ UNCHANGED <<offered, configured, model>>
      BY <1>a, <2>3 DEF StaySetUp
    <3> QED BY <1>0, <1>a, <1>d, <2>1, <2>3, <3>1, <3>2, SetupGoesOn DEF TerminalTypeOK
  <2> QED BY <1>6, <2>2, <2>3 DEF SignInAnswered
<1>7. CASE SignInEnds
  <2>1. setup.step \in {"signIn", "exchange"}
    BY <1>7 DEF SignInEnds, AtStep
  <2>2. \/ configured' = configured \cup {setup.provider} /\ (Finish(setup.provider) \/ EndSetup)
        \/ EndSetup /\ UNCHANGED configured
    BY <1>7 DEF SignInEnds
  <2> QED BY <1>e, <1>g, <2>1, <2>2
<1> QED BY <1>1, <1>2, <1>3, <1>4, <1>5, <1>6, <1>7

(* A step outside a setup: the process and the line-by-line session.        *)
LEMMA ProcessStep ==
  ASSUME TerminalInv,
         \/ chooseInterface \/ Start \/ Check \/ Select \/ Create \/ TuiEnds \/ RpcEnds \/ dispose \/ Exit
         \/ Quit \/ Prompted \/ TurnEnds \/ InputEnds
         \/ \E m \in Providers : SetModel(m)
         \/ \E step \in {"provider", "signInList"} : OpenSetup(step)
         \/ \E c \in {"none", "terminal", "setup", "runtime"} : Main(c)
  PROVE  TerminalInv'
<1>0. TerminalTypeOK /\ HeldByPlace /\ ProviderIsChosen
  BY DEF TerminalInv
<1> USE DEF TerminalInv, TerminalTypeOK, HeldByPlace, ProviderIsChosen, Go, Fixed, StaySetUp
<1>1. CASE chooseInterface
  BY <1>0, <1>1 DEF chooseInterface
<1>2. CASE Start
  <2>1. at = "starting" /\ held = {} /\ setup.step = "none" /\ UNCHANGED <<tty, cmd, offered, configured, model, setup, reader, eof>>
    BY <1>0, <1>2 DEF Start
  <2>2. \/ at' \in {"ended", "stopping"} /\ held' = held
        \/ at' = "checking" /\ held' = held \cup {"sandbox"}
    BY <1>2 DEF Start
  <2> QED BY <1>0, <2>1, <2>2
<1>3. CASE Check
  <2>1. /\ [NoSetup EXCEPT !.step = "provider", !.from = "start"] \in Setups
        /\ [NoSetup EXCEPT !.step = "provider", !.from = "start"].step = "provider"
        /\ [NoSetup EXCEPT !.step = "provider", !.from = "start"].from = "start"
    BY DEF NoSetup, Setups, SetupSteps
  <2>2. HoldingOf("start") = {"sandbox"}
    BY DEF HoldingOf
  <2>3. \A O \in Offers : O \subseteq Providers
    BY TerminalAssumption
  <2>4. CASE Go("stopping") /\ UNCHANGED <<setup, reader, offered, model>>
    BY <1>0, <1>3, <2>4 DEF Check
  <2>5. CASE /\ reader' = "open" /\ offered' \in Offers
             /\ \E m \in configured : Go("selecting") /\ model' = m /\ UNCHANGED setup
    BY <1>0, <1>3, <2>3, <2>5 DEF Check
  <2>6. CASE /\ reader' = "open" /\ offered' \in Offers
             /\ Go("setup") /\ setup' = [NoSetup EXCEPT !.step = "provider", !.from = "start"] /\ UNCHANGED model
    BY <1>0, <1>3, <2>1, <2>2, <2>3, <2>6 DEF Check, Setups
  <2>7. CASE /\ Go("creating") /\ \E m \in configured : model' = m
             /\ UNCHANGED <<setup, reader, offered>>
    BY <1>0, <1>3, <2>7 DEF Check
  <2> QED BY <1>3, <2>4, <2>5, <2>6, <2>7 DEF Check
<1>4. CASE Select
  BY <1>0, <1>4 DEF Select
<1>5. CASE Create
  BY <1>0, <1>5 DEF Create
<1>6. CASE TuiEnds
  BY <1>0, <1>6 DEF TuiEnds
<1>7. CASE RpcEnds
  BY <1>0, <1>7 DEF RpcEnds
<1>8. CASE dispose
  BY <1>0, <1>8 DEF dispose
<1>9. CASE Exit
  BY <1>0, <1>9 DEF Exit
<1>10. CASE Quit
  BY <1>0, <1>10 DEF Quit, InRepl
<1>11. CASE Prompted
  BY <1>0, <1>11 DEF Prompted, InRepl
<1>12. CASE TurnEnds
  BY <1>0, <1>12 DEF TurnEnds
<1>13. CASE InputEnds
  BY <1>0, <1>13 DEF InputEnds
<1>14. ASSUME NEW m \in Providers, SetModel(m) PROVE TerminalInv'
  BY <1>0, <1>14 DEF SetModel, InRepl
<1>15. ASSUME NEW step \in {"provider", "signInList"}, OpenSetup(step) PROVE TerminalInv'
  <2>1. /\ [NoSetup EXCEPT !.step = step, !.from = "repl"] \in Setups
        /\ [NoSetup EXCEPT !.step = step, !.from = "repl"].step = step
        /\ [NoSetup EXCEPT !.step = step, !.from = "repl"].from = "repl"
    BY DEF NoSetup, Setups, SetupSteps
  <2>2. HoldingOf("repl") = {"sandbox", "agent"}
    BY DEF HoldingOf
  <2> QED BY <1>0, <1>15, <2>1, <2>2 DEF OpenSetup, InRepl, Setups
<1>16. ASSUME NEW c \in {"none", "terminal", "setup", "runtime"}, Main(c) PROVE TerminalInv'
  <2>1. /\ [NoSetup EXCEPT !.step = "provider", !.from = "command"] \in Setups
        /\ [NoSetup EXCEPT !.step = "provider", !.from = "command"].step = "provider"
        /\ [NoSetup EXCEPT !.step = "provider", !.from = "command"].from = "command"
    BY DEF NoSetup, Setups, SetupSteps
  <2>2. HoldingOf("command") = {}
    BY DEF HoldingOf
  <2> QED BY <1>0, <1>16, <2>1, <2>2 DEF Main, Setups
<1> QED BY <1>1, <1>2, <1>3, <1>4, <1>5, <1>6, <1>7, <1>8, <1>9, <1>10, <1>11, <1>12, <1>13, <1>14, <1>15, <1>16

LEMMA TerminalKept == TerminalInv /\ [TerminalNext]_terminalVars => TerminalInv'
<1> SUFFICES ASSUME TerminalInv, [TerminalNext]_terminalVars PROVE TerminalInv'
  OBVIOUS
<1>1. CASE TerminalNext
  BY <1>1, SetupStep, ProcessStep DEF TerminalNext, TerminalStep
<1>2. CASE UNCHANGED terminalVars
  BY <1>2 DEF terminalVars, TerminalInv, TerminalTypeOK, HeldByPlace, ProviderIsChosen
<1> QED BY <1>1, <1>2

(* However a command of the terminal ends, nothing stays behind: for any    *)
(* providers and whatever a policy offers of them.                          *)
THEOREM NothingStaysBehind == TerminalSpec => []TerminalLeavesNothing
<1>1. TerminalInv => TerminalLeavesNothing
  <2> SUFFICES ASSUME TerminalTypeOK, HeldByPlace PROVE TerminalLeavesNothing
    BY DEF TerminalInv
  <2>1. CASE at = "setup"
    <3>1. "agent" \in held => "agent" \in held \ {"echoOff"} /\ ("sandbox" \in held \ {"echoOff"} => "sandbox" \in held)
      OBVIOUS
    <3>2. "agent" \in HoldingOf(setup.from) => "sandbox" \in HoldingOf(setup.from)
      BY DEF HoldingOf
    <3> QED BY <2>1, <3>1, <3>2 DEF HeldByPlace, TerminalLeavesNothing
  <2>2. CASE at # "setup"
    <3>1. held = {} \/ held \subseteq {"sandbox"} \/ held = {"sandbox", "agent"}
      BY <2>2 DEF TerminalTypeOK, HeldByPlace
    <3> QED BY <2>2, <3>1 DEF HeldByPlace, TerminalLeavesNothing
  <2> QED BY <2>1, <2>2
<1> QED BY <1>1, TerminalStart, TerminalKept, PTL DEF TerminalSpec

-----------------------------------------------------------------------------
(* Dictation *)

LEMMA DictationStart == DictationInit => DictationInv
<1> SUFFICES ASSUME DictationInit PROVE DictationInv
  OBVIOUS
<1>1. NoRecording \in Recorded /\ NotPressed \in Pressed
  BY DEF NoRecording, NotPressed, Recorded, Pressed, PressState
<1>2. DictationTypeOK
  BY <1>1 DEF DictationInit, DictationTypeOK, Settings, Recorder
<1>3. Agreeing
  BY DEF DictationInit, Agreeing, NotPressed, NoRecording
<1> QED BY <1>2, <1>3 DEF DictationInv

(* A press moves on, alone. *)
LEMMA PressMoves ==
  ASSUME DictationTypeOK, NEW p \in Presses, NEW spot \in PressState, PressAt(p, spot)
  PROVE  /\ press' \in [Presses -> Pressed] /\ press'[p].at = spot /\ press'[p].remote = press[p].remote
         /\ \A q \in Presses \ {p} : press'[q] = press[q]
<1>1. [press[p] EXCEPT !.at = spot] \in Pressed
  BY DEF Pressed, DictationTypeOK
<1>2. press' = [press EXCEPT ![p] = [press[p] EXCEPT !.at = spot]]
  BY DEF PressAt
<1>3. press' \in [Presses -> Pressed] /\ press'[p] = [press[p] EXCEPT !.at = spot] /\ \A q \in Presses \ {p} : press'[q] = press[q]
  BY <1>1, <1>2 DEF DictationTypeOK
<1> QED BY <1>3 DEF Pressed, DictationTypeOK

(* A press takes hold of a recording, or of none. *)
LEMMA PressHolds ==
  ASSUME DictationTypeOK, NEW p \in Presses, NEW spot \in PressState, NEW of \in Presses \cup {NoPress},
         press' = [press EXCEPT ![p].at = spot, ![p].of = of]
  PROVE  /\ press' \in [Presses -> Pressed] /\ press'[p].at = spot
         /\ \A q \in Presses \ {p} : press'[q] = press[q]
<1>1. [press[p] EXCEPT !.at = spot, !.of = of] \in Pressed
  BY DEF Pressed, DictationTypeOK
<1>2. press' = [press EXCEPT ![p] = [press[p] EXCEPT !.at = spot, !.of = of]]
  BY DEF DictationTypeOK
<1>3. press' \in [Presses -> Pressed] /\ press'[p] = [press[p] EXCEPT !.at = spot, !.of = of] /\ \A q \in Presses \ {p} : press'[q] = press[q]
  BY <1>1, <1>2 DEF DictationTypeOK
<1> QED BY <1>3 DEF Pressed, DictationTypeOK

(* A recording that loses its recorder or its file stays what it was made for. *)
LEMMA RecordingChanges ==
  ASSUME DictationTypeOK, Agreeing, NEW p, NEW running, NEW file, running \in BOOLEAN, file \in BOOLEAN, UNCHANGED consent,
         \/ recording' = [recording EXCEPT ![p].running = running, ![p].file = file]
         \/ recording' = [recording EXCEPT ![p].running = running]
         \/ recording' = [recording EXCEPT ![p].file = file]
  PROVE  recording' \in [Presses -> Recorded] /\ \A q \in Presses : recording'[q].remote => consent'
<1>1. CASE p \notin Presses
  <2>1. recording' = recording
    BY <1>1 DEF DictationTypeOK
  <2> QED BY <2>1 DEF DictationTypeOK, Agreeing
<1>2. CASE p \in Presses
  <2>0. recording[p] \in Recorded
    BY <1>2 DEF DictationTypeOK
  <2>1. PICK x \in Recorded : x.remote = recording[p].remote /\ recording' = [recording EXCEPT ![p] = x]
    <3>1. /\ [recording[p] EXCEPT !.running = running, !.file = file] \in Recorded
          /\ [recording[p] EXCEPT !.running = running] \in Recorded
          /\ [recording[p] EXCEPT !.file = file] \in Recorded
          /\ [recording[p] EXCEPT !.running = running, !.file = file].remote = recording[p].remote
          /\ [recording[p] EXCEPT !.running = running].remote = recording[p].remote
          /\ [recording[p] EXCEPT !.file = file].remote = recording[p].remote
      BY <2>0 DEF Recorded
    <3> QED BY <1>2, <3>1 DEF DictationTypeOK
  <2> QED BY <1>2, <2>1 DEF DictationTypeOK, Agreeing
<1> QED BY <1>1, <1>2

LEMMA DictationStep == DictationInv /\ [DictationNext]_dictationVars => DictationInv'
<1> SUFFICES ASSUME DictationInv, [DictationNext]_dictationVars PROVE DictationTypeOK' /\ Agreeing'
  BY DEF DictationInv
<1> USE DictationAssumption DEF DictationInv, DictationTypeOK, Agreeing
<1>0. /\ \A spot \in {"none", "choosing", "resolving", "confirming", "spawning", "finishing", "transcribing",
                    "cancelling", "done"} : spot \in PressState
      /\ recorder.active \in Presses \cup {NoPress} /\ recorder.stopping \in Presses \cup {NoPress}
      /\ recorder \in Recorder
  BY DEF PressState, Recorder
<1>1. CASE PolicyChanges
  BY <1>1 DEF PolicyChanges
<1>2. CASE SetupChanges
  BY <1>2 DEF SetupChanges
<1>3. CASE ShutDown
  <2>1. recorder' \in Recorder
    BY <1>0, <1>3 DEF ShutDown, Recorder
  <2>2. recording' \in [Presses -> Recorded] /\ \A q \in Presses : recording'[q].remote => consent'
    <3>1. CASE recorder.active = NoPress
      BY <1>3, <3>1 DEF ShutDown
    <3>2. CASE recorder.active # NoPress
      BY <1>3, <3>2, RecordingChanges DEF ShutDown
    <3> QED BY <3>1, <3>2
  <2> QED BY <1>3, <2>1, <2>2 DEF ShutDown
<1>4. ASSUME NEW p \in Presses, Press(p) PROVE DictationTypeOK' /\ Agreeing'
  <2>0. UNCHANGED <<allowed, preference, consent, recording>>
    BY <1>4 DEF Press
  <2>1. CASE Cancel(p)
    <3>1. recorder' \in Recorder
      BY <1>0, <2>1 DEF Cancel, Recorder
    <3>2. PICK spot \in {"done", "cancelling"} : press' = [press EXCEPT ![p].at = spot, ![p].of = recorder.active]
      BY <2>1 DEF Cancel
    <3>3. press' \in [Presses -> Pressed] /\ press'[p].at = spot /\ \A q \in Presses \ {p} : press'[q] = press[q]
      BY <1>0, <3>2, PressHolds
    <3> QED BY <2>0, <3>1, <3>3
  <2>2. CASE recorder' = recorder /\ \E spot \in {"choosing", "done"} : PressAt(p, spot)
    BY <1>0, <2>0, <2>2, PressMoves
  <2>3. CASE /\ recorder' = [recorder EXCEPT !.stopping = recorder.active, !.active = NoPress]
             /\ press' = [press EXCEPT ![p].at = "finishing", ![p].of = recorder.active]
    <3>1. recorder' \in Recorder
      BY <1>0, <2>3 DEF Recorder
    <3>2. press' \in [Presses -> Pressed] /\ press'[p].at = "finishing" /\ \A q \in Presses \ {p} : press'[q] = press[q]
      BY <1>0, <2>3, PressHolds
    <3> QED BY <2>0, <3>1, <3>2
  <2> QED BY <1>4, <2>1, <2>2, <2>3 DEF Press
<1>5. ASSUME NEW p \in Presses, Chosen(p) PROVE DictationTypeOK' /\ Agreeing'
  <2>0. UNCHANGED <<allowed, preference, consent, recorder, recording>>
    BY <1>5 DEF Chosen
  <2>1. CASE PressAt(p, "done")
    BY <1>0, <2>0, <2>1, PressMoves
  <2>2. CASE press' = [press EXCEPT ![p].at = "resolving", ![p].allowCloud = allowed.cloud]
    <3>1. /\ [press[p] EXCEPT !.at = "resolving", !.allowCloud = allowed.cloud] \in Pressed
          /\ [press[p] EXCEPT !.at = "resolving", !.allowCloud = allowed.cloud].at = "resolving"
      BY DEF Pressed, PressState, Settings
    <3>2. press' = [press EXCEPT ![p] = [press[p] EXCEPT !.at = "resolving", !.allowCloud = allowed.cloud]]
      BY <2>2
    <3>3. press' \in [Presses -> Pressed] /\ press'[p].at = "resolving" /\ \A q \in Presses \ {p} : press'[q] = press[q]
      BY <3>1, <3>2
    <3> QED BY <2>0, <3>3
  <2> QED BY <1>5, <2>1, <2>2 DEF Chosen
<1>6. ASSUME NEW p \in Presses, Resolved(p) PROVE DictationTypeOK' /\ Agreeing'
  <2>0. UNCHANGED <<allowed, preference, consent, recorder, recording>>
    BY <1>6 DEF Resolved
  <2>1. PICK spot \in {"done", "confirming", "spawning"} :
          /\ press' = [press EXCEPT ![p].remote = (preference = "cloud"), ![p].at = spot]
          /\ spot = "spawning" /\ preference = "cloud" => consent
    BY <1>6 DEF Resolved, NeedsConsent
  <2>2. /\ [press[p] EXCEPT !.remote = (preference = "cloud"), !.at = spot] \in Pressed
        /\ [press[p] EXCEPT !.remote = (preference = "cloud"), !.at = spot].at = spot
        /\ [press[p] EXCEPT !.remote = (preference = "cloud"), !.at = spot].remote = (preference = "cloud")
    BY DEF Pressed, PressState
  <2>3. press' = [press EXCEPT ![p] = [press[p] EXCEPT !.remote = (preference = "cloud"), !.at = spot]]
    BY <2>1
  <2>4. /\ press' \in [Presses -> Pressed] /\ press'[p].at = spot /\ press'[p].remote = (preference = "cloud")
        /\ \A q \in Presses \ {p} : press'[q] = press[q]
    BY <2>2, <2>3
  <2> QED BY <2>0, <2>1, <2>4
<1>7. ASSUME NEW p \in Presses, Confirmed(p) PROVE DictationTypeOK' /\ Agreeing'
  <2>1. PICK spot \in {"spawning", "done"} : PressAt(p, spot) /\ (spot = "spawning" => consent') /\ (consent => consent')
                                        /\ consent' \in BOOLEAN /\ UNCHANGED <<allowed, preference, recorder, recording>>
    BY <1>7 DEF Confirmed
  <2>2. /\ press' \in [Presses -> Pressed] /\ press'[p].at = spot /\ \A q \in Presses \ {p} : press'[q] = press[q]
    BY <1>0, <2>1, PressMoves
  <2> QED BY <2>1, <2>2
<1>8. ASSUME NEW p \in Presses, Spawned(p) PROVE DictationTypeOK' /\ Agreeing'
  <2>1. press[p].remote \in BOOLEAN /\ (press[p].remote => consent)
    BY <1>8 DEF Spawned, Pressed
  <2>2. [running |-> TRUE, file |-> TRUE, remote |-> press[p].remote] \in Recorded
    BY <2>1 DEF Recorded
  <2>3. press' \in [Presses -> Pressed] /\ press'[p].at = "done" /\ \A q \in Presses \ {p} : press'[q] = press[q]
    BY <1>0, <1>8, PressMoves DEF Spawned
  <2>4. recording' \in [Presses -> Recorded] /\ \A q \in Presses : recording'[q].remote => consent
    <3>1. CASE recording' = [recording EXCEPT ![p] = [running |-> TRUE, file |-> TRUE, remote |-> press[p].remote]]
      <4> DEFINE x == [running |-> TRUE, file |-> TRUE, remote |-> press[p].remote]
      <4>1. x.remote = press[p].remote
        OBVIOUS
      <4>2. recording' = [recording EXCEPT ![p] = x]
        BY <3>1
      <4> HIDE DEF x
      <4>3. x \in Recorded
        BY <2>2 DEF x
      <4> QED BY <2>1, <4>1, <4>2, <4>3
    <3>2. CASE recording' = recording
      BY <3>2
    <3> QED BY <1>8, <3>1, <3>2 DEF Spawned
  <2>5. recorder' \in Recorder
    BY <1>0, <1>8 DEF Spawned, Recorder
  <2> QED BY <1>8, <2>3, <2>4, <2>5 DEF Spawned
<1>9. ASSUME NEW p \in Presses, Finished(p) PROVE DictationTypeOK' /\ Agreeing'
  <2>1. PICK spot \in {"transcribing", "done"} : PressAt(p, spot)
    BY <1>9 DEF Finished
  <2>2. press' \in [Presses -> Pressed] /\ press'[p].at = spot /\ \A q \in Presses \ {p} : press'[q] = press[q]
    BY <1>0, <2>1, PressMoves
  <2>3. recording' \in [Presses -> Recorded] /\ \A q \in Presses : recording'[q].remote => consent'
    BY <1>9, RecordingChanges DEF Finished
  <2>4. recorder' \in Recorder
    BY <1>0, <1>9 DEF Finished, Recorder
  <2> QED BY <1>9, <2>2, <2>3, <2>4 DEF Finished
<1>10. ASSUME NEW p \in Presses, Transcribed(p) PROVE DictationTypeOK' /\ Agreeing'
  <2>1. press' \in [Presses -> Pressed] /\ press'[p].at = "done" /\ \A q \in Presses \ {p} : press'[q] = press[q]
    BY <1>0, <1>10, PressMoves DEF Transcribed
  <2>2. recording' \in [Presses -> Recorded] /\ \A q \in Presses : recording'[q].remote => consent'
    BY <1>10, RecordingChanges DEF Transcribed
  <2>3. recorder' \in Recorder
    BY <1>0, <1>10 DEF Transcribed, Recorder
  <2> QED BY <1>10, <2>1, <2>2, <2>3 DEF Transcribed
<1>11. ASSUME NEW p \in Presses, Cancelled(p) PROVE DictationTypeOK' /\ Agreeing'
  <2>1. press' \in [Presses -> Pressed] /\ press'[p].at = "done" /\ \A q \in Presses \ {p} : press'[q] = press[q]
    BY <1>0, <1>11, PressMoves DEF Cancelled
  <2>2. recording' \in [Presses -> Recorded] /\ \A q \in Presses : recording'[q].remote => consent'
    BY <1>11, RecordingChanges DEF Cancelled
  <2> QED BY <1>11, <2>1, <2>2 DEF Cancelled
<1>12. ASSUME NEW p \in Presses, RecorderEnds(p) PROVE DictationTypeOK' /\ Agreeing'
  <2>1. recording' \in [Presses -> Recorded] /\ \A q \in Presses : recording'[q].remote => consent'
    BY <1>12, RecordingChanges DEF RecorderEnds
  <2> QED BY <1>12, <2>1 DEF RecorderEnds
<1>13. CASE UNCHANGED dictationVars
  BY <1>13 DEF dictationVars
<1> QED
  BY <1>1, <1>2, <1>3, <1>4, <1>5, <1>6, <1>7, <1>8, <1>9, <1>10, <1>11, <1>12, <1>13 DEF DictationNext

(* Only toggle gives a recording to be transcribed, and it asks the project. *)
LEMMA StoppingIsAllowed ==
  ASSUME DictationInv, [DictationNext]_dictationVars,
         recorder'.stopping \notin {NoPress, recorder.stopping}, recording[recorder'.stopping].remote
  PROVE  allowed.cloud
<1>0. recorder \in Recorder
  BY DEF DictationInv, DictationTypeOK
<1> USE DEF Recorder
<1>1. ASSUME NEW p \in Presses, Press(p) PROVE allowed.cloud
  <2>1. CASE recorder' = [recorder EXCEPT !.active = NoPress] \/ recorder' = recorder
    BY <1>0, <2>1
  <2>2. CASE /\ recorder' = [recorder EXCEPT !.stopping = recorder.active, !.active = NoPress]
             /\ ~(recording[recorder.active].remote /\ ~allowed.cloud)
    BY <1>0, <2>2
  <2> QED BY <1>1, <2>1, <2>2 DEF Press, Cancel
<1>2. ASSUME NEW p \in Presses, Spawned(p) PROVE FALSE
  <2>1. recorder' = [recorder EXCEPT !.active = p] \/ recorder' = recorder
    BY <1>2 DEF Spawned
  <2> QED BY <1>0, <2>1
<1>3. ASSUME NEW p \in Presses, Finished(p) \/ Transcribed(p) PROVE FALSE
  <2>1. recorder' = [recorder EXCEPT !.stopping = NoPress] \/ recorder' = recorder
    BY <1>3 DEF Finished, Transcribed
  <2> QED BY <1>0, <2>1
<1>4. CASE ShutDown
  <2>1. recorder' = [recorder EXCEPT !.shut = TRUE, !.active = NoPress]
    BY <1>4 DEF ShutDown
  <2> QED BY <1>0, <2>1
<1>5. CASE recorder' = recorder
  BY <1>0, <1>5
<1> QED
  BY <1>1, <1>2, <1>3, <1>4, <1>5
  DEF DictationNext, dictationVars, PolicyChanges, SetupChanges, Chosen, Resolved, Confirmed, Cancelled, RecorderEnds

(* Whatever changes between a press and its recording, nothing is recorded   *)
(* for the cloud without consent, nor sent there against the project's       *)
(* settings (dictation.ts).                                        *)
THEOREM CloudIsAgreed == DictationSpec => CloudOnlyAsAgreed
<1> DEFINE Stops == (recorder'.stopping \notin {NoPress, recorder.stopping} /\ recording[recorder'.stopping].remote) => allowed.cloud
<1>1. DictationInv /\ DictationInv' /\ [DictationNext]_dictationVars
        => [(\A p \in Presses : recording'[p].remote => consent') /\ Stops]_dictationVars
  BY StoppingIsAllowed DEF DictationInv, Agreeing
<1> QED
  BY <1>1, DictationStart, DictationStep, PTL DEF DictationSpec, CloudOnlyAsAgreed

-----------------------------------------------------------------------------
(* WorkspaceMaps *)

LEMMA MapsStart == MapsInit => MapsInv
<1> SUFFICES ASSUME MapsInit PROVE MapsInv
  OBVIOUS
<1>1. NoMap \in StoredMap /\ NoJob \in Job
  BY MapAssumption DEF NoMap, NoJob, StoredMap, Job, Text, Nothing0
<1>2. MapsTypeOK
  BY <1>1 DEF MapsInit, MapsTypeOK, NoSelect, Text
<1>3. MapsMatch /\ MapIsCurrent
  BY DEF MapsInit, MapsMatch, Matching, OwnStep, MapIsCurrent, NoMap, NoJob, NoSelect, Nothing0
<1> QED BY <1>2, <1>3 DEF MapsInv

(* Where every digest is that of the file now, the text is too. *)
LEMMA MatchingIsCurrent == Matching(mapFile) /\ OwnStep(mapFile) => MapIsCurrent
BY DEF Matching, OwnStep, MapIsCurrent, Stale

(* A job that moves on keeps its own text and digests matching. *)
JobOK(x) == x \in Job /\ Matching(x) /\ x.previous \in x.steps \cup {NoStep} /\ (x.at = "digest" => x.text = Nothing0)

LEMMA JobMoves ==
  ASSUME MapsInv, NEW s \in ChatSessions, NEW x, JobOK(x), job' = [job EXCEPT ![s] = x], UNCHANGED <<content, mapFile, selecting>>
  PROVE  MapsTypeOK' /\ MapsMatch'
<1>1. job' \in [ChatSessions -> Job] /\ \A t \in ChatSessions : job'[t] = IF t = s THEN x ELSE job[t]
  BY DEF MapsInv, MapsTypeOK, JobOK
<1>2. \A t \in ChatSessions : JobOK(job'[t])
  BY <1>1 DEF MapsInv, MapsTypeOK, MapsMatch, JobOK
<1> QED BY <1>1, <1>2 DEF MapsInv, MapsTypeOK, MapsMatch, JobOK, Matching, OwnStep

LEMMA MapsStep == MapsInv /\ [MapsNext]_mapVars => MapsInv'
<1> SUFFICES ASSUME MapsInv, [MapsNext]_mapVars PROVE MapsTypeOK' /\ MapsMatch'
  BY MatchingIsCurrent, PTL DEF MapsInv, MapsMatch
<1> USE MapAssumption
<1>0. /\ \A s \in ChatSessions : JobOK(job[s])
      /\ content \in Text /\ mapFile \in StoredMap /\ JobOK(NoJob)
  <2>1. NoJob \in Job
    BY DEF NoJob, Job, Text, Nothing0
  <2>2. Matching(NoJob)
    BY DEF NoJob, Matching, Nothing0
  <2> QED BY <2>1, <2>2 DEF MapsInv, MapsTypeOK, MapsMatch, JobOK, NoJob
<1>1. ASSUME NEW f \in Files, EditFile(f) PROVE MapsTypeOK' /\ MapsMatch'
  BY <1>1 DEF EditFile, Text, MapsInv, MapsTypeOK, MapsMatch, Matching, OwnStep
<1>2. ASSUME NEW s \in ChatSessions, Generate(s) PROVE MapsTypeOK' /\ MapsMatch'
  <2> DEFINE x == [NoJob EXCEPT !.at = "digest", !.listed = Present, !.left = Present]
  <2>1. JobOK(x)
    BY DEF NoJob, Job, Text, Nothing0, Present, JobOK, Matching
  <2> QED BY <1>2, <2>1, JobMoves DEF Generate
<1>3. ASSUME NEW s \in ChatSessions, Digested(s) PROVE MapsTypeOK' /\ MapsMatch'
  <2> DEFINE x == [job[s] EXCEPT !.at = "read", !.left = job[s].listed]
  <2>1. JobOK(x)
    BY <1>0 DEF Job, JobOK, Matching
  <2>2. job' = [job EXCEPT ![s] = x]
    BY <1>3 DEF Digested, MapsInv, MapsTypeOK
  <2> HIDE DEF x
  <2> QED BY <1>3, <2>1, <2>2, JobMoves DEF Digested
<1>4. ASSUME NEW s \in ChatSessions, ModelAnswers(s) PROVE MapsTypeOK' /\ MapsMatch'
  <2>1. PICK steps \in SUBSET Steps \ {{}} :
          job' = [job EXCEPT ![s].at = "saving", ![s].steps = steps,
                    ![s].previous = IF mapFile.selected \in steps THEN mapFile.selected ELSE NoStep]
    BY <1>4 DEF ModelAnswers
  <2> DEFINE own == IF mapFile.selected \in steps THEN mapFile.selected ELSE NoStep
             x == [job[s] EXCEPT !.at = "saving", !.steps = steps, !.previous = own]
  <2>2. own \in steps \cup {NoStep}
    OBVIOUS
  <2>3. job' = [job EXCEPT ![s] = x]
    BY <2>1 DEF MapsInv, MapsTypeOK
  <2> HIDE DEF own
  <2>4. JobOK(x)
    <3>1. job[s] \in Job /\ Matching(job[s])
      BY <1>0 DEF JobOK
    <3>2. /\ x.at = "saving" /\ x.steps = steps /\ x.previous = own
          /\ x.text = job[s].text /\ x.digests = job[s].digests
      BY <3>1 DEF Job
    <3>3. x \in Job
      BY <3>1, <2>2 DEF Job
    <3> HIDE DEF x
    <3>4. Matching(x)
      BY <3>1, <3>2 DEF Matching
    <3> QED BY <2>2, <3>2, <3>3, <3>4 DEF JobOK
  <2> HIDE DEF x
  <2> QED BY <1>4, <2>3, <2>4, JobMoves DEF ModelAnswers
<1>5. ASSUME NEW s \in ChatSessions, SaveMap(s) PROVE MapsTypeOK' /\ MapsMatch'
  <2>1. \A t \in ChatSessions : job'[t] = (IF t = s THEN NoJob ELSE job[t]) /\ JobOK(job'[t])
    BY <1>0, <1>5 DEF SaveMap, MapsInv, MapsTypeOK
  <2>2. job' \in [ChatSessions -> Job]
    BY <1>0, <1>5 DEF SaveMap, MapsInv, MapsTypeOK, JobOK
  <2>3. mapFile' \in StoredMap /\ Matching(mapFile') /\ OwnStep(mapFile')
    BY <1>0, <1>5 DEF SaveMap, StoredMap, Job, JobOK, Matching, OwnStep
  <2> QED BY <1>5, <2>1, <2>2, <2>3 DEF SaveMap, MapsInv, MapsTypeOK, MapsMatch, JobOK, Matching, OwnStep
<1>6. ASSUME NEW s \in ChatSessions, GenerationFails(s) PROVE MapsTypeOK' /\ MapsMatch'
  BY <1>0, <1>6, JobMoves DEF GenerationFails
<1>7. ASSUME NEW s \in ChatSessions, NEW f \in Files, DigestFile(s, f) PROVE MapsTypeOK' /\ MapsMatch'
  <2> DEFINE digests == [job[s].digests EXCEPT ![f] = content[f]]
             x == [job[s] EXCEPT !.left = @ \ {f}, !.digests = digests]
  <2>1. digests \in Text
    BY <1>0 DEF Text, JobOK, Job
  <2>2. job' = [job EXCEPT ![s] = x]
    BY <1>7 DEF DigestFile, MapsInv, MapsTypeOK
  <2> HIDE DEF digests
  <2>3. job[s] \in Job /\ job[s].text = Nothing0 /\ x.digests = digests
    BY <1>0, <1>7 DEF DigestFile, JobOK, Job
  <2>4. x \in Job /\ x.text = job[s].text /\ x.previous = job[s].previous /\ x.steps = job[s].steps /\ x.at = job[s].at
    BY <2>1, <2>3 DEF Job
  <2>5. JobOK(x)
    BY <1>0, <2>3, <2>4 DEF JobOK, Matching, Nothing0
  <2> HIDE DEF x
  <2> QED BY <1>7, <2>2, <2>5, JobMoves DEF DigestFile
<1>8. ASSUME NEW s \in ChatSessions, NEW f \in Files, ReadFile(s, f) PROVE MapsTypeOK' /\ MapsMatch'
  <2> DEFINE text == [job[s].text EXCEPT ![f] = content[f]]
             digests == [job[s].digests EXCEPT ![f] = content[f]]
             x == [job[s] EXCEPT !.left = @ \ {f}, !.text = text, !.digests = digests]
             y == [job[s] EXCEPT !.left = @ \ {f}]
  <2>1. /\ text \in Text /\ digests \in Text
        /\ \A g \in Files : text[g] \in {0, digests[g]}
    BY <1>0 DEF Text, JobOK, Job, Matching
  <2>2. job' = [job EXCEPT ![s] = x] \/ job' = [job EXCEPT ![s] = y]
    BY <1>8 DEF ReadFile, MapsInv, MapsTypeOK
  <2> HIDE DEF text, digests
  <2>3. JobOK(x)
    <3>1. job[s] \in Job /\ job[s].at = "read"
      BY <1>0, <1>8 DEF ReadFile, JobOK
    <3>2. x \in Job /\ x.text = text /\ x.digests = digests /\ x.previous = job[s].previous /\ x.steps = job[s].steps /\ x.at = "read"
      BY <2>1, <3>1 DEF Job
    <3> QED BY <1>0, <2>1, <3>2 DEF JobOK, Matching
  <2>4. JobOK(y)
    BY <1>0, <1>8 DEF ReadFile, Job, JobOK, Matching
  <2> HIDE DEF x, y
  <2> QED BY <1>8, <2>2, <2>3, <2>4, JobMoves DEF ReadFile
<1>9. ASSUME NEW step \in Steps \cup {NoStep}, SelectStep(step) PROVE MapsTypeOK' /\ MapsMatch'
  BY <1>9 DEF SelectStep, StoredMap, MapsInv, MapsTypeOK, MapsMatch, Matching, OwnStep
<1>10. CASE WriteSelection
  BY <1>10 DEF WriteSelection, NoSelect, NoMap, StoredMap, Text, Nothing0, MapsInv, MapsTypeOK, MapsMatch, Matching, OwnStep
<1>11. CASE UNCHANGED mapVars
  BY <1>11 DEF mapVars, MapsInv, MapsTypeOK, MapsMatch, Matching, OwnStep
<1> QED BY <1>1, <1>2, <1>3, <1>4, <1>5, <1>6, <1>7, <1>8, <1>9, <1>10, <1>11 DEF MapsNext

(* A map that is not reported stale tells of the files as they are, whatever *)
(* was edited between the reads of its generation                            *)
(* (workspace-map-store.ts, ecosystem-bridge.ts).                            *)
THEOREM FreshMapsAreTrue == MapsSpec => []MapIsCurrent
<1>1. MapsInv => MapIsCurrent
  BY DEF MapsInv
<1> QED BY <1>1, MapsStart, MapsStep, PTL DEF MapsSpec

-----------------------------------------------------------------------------
(* MapPanel *)

LEMMA PanelStart == PanelInit => PanelInv
BY PanelAssumption
DEF PanelInit, PanelInv, PanelTypeOK, PanelHasPlace, PanelIsAnswered, FreshPanel, NoGraph, HasGraph, Places, Panel

(* Requests that come and go, of the project they name. *)
LEMMA Requests ==
  ASSUME NEW kind \in {"saved", "generate", "restore"}, NEW of \in Workspaces, NEW revision \in Nat
  PROVE  /\ Request(kind, of, revision) \in PanelRequest
         /\ Request(kind, of, revision).kind = kind /\ Request(kind, of, revision).revision = revision
BY DEF Request, PanelRequest

LEMMA HiddenPanel ==
  ASSUME NEW p \in Panel
  PROVE  /\ Hidden(p) \in Panel /\ Hidden(p).revision = p.revision + 1 /\ Hidden(p).workspace = p.workspace
         /\ Hidden(p).loading = FALSE /\ Hidden(p).tab = FALSE /\ ~HasGraph(Hidden(p)) /\ Hidden(p).selected = NoMapStep
<1>1. NoGraph \in [of : Places, steps : SUBSET MapSteps]
  BY DEF NoGraph, Places
<1> DEFINE next == p.revision + 1
<1>n. next \in Nat
  BY DEF Panel
<1>h. Hidden(p) = [p EXCEPT !.selected = NoMapStep, !.open = FALSE, !.tab = FALSE, !.graph = NoGraph, !.loading = FALSE,
                     !.revision = next]
  BY DEF Hidden
<1> HIDE DEF next
<1>2. Hidden(p) \in Panel
  BY <1>1, <1>n, <1>h DEF Panel
<1>3. /\ Hidden(p).graph = NoGraph /\ Hidden(p).revision = next /\ Hidden(p).workspace = p.workspace
      /\ Hidden(p).loading = FALSE /\ Hidden(p).tab = FALSE /\ Hidden(p).selected = NoMapStep
  BY <1>h DEF Panel
<1> QED BY <1>2, <1>3 DEF HasGraph, next

(* What the invariant says of a panel and its requests. *)
Waiting(p, rs) == \E r \in rs : r.kind # "restore" /\ r.revision = p.revision
PanelOK(p, rs) ==
  /\ p \in Panel /\ rs \subseteq PanelRequest /\ \A r \in rs : r.revision <= p.revision
  /\ p.tab \/ HasGraph(p) \/ Waiting(p, rs) => p.workspace # NoWorkspace
  /\ p.loading => Waiting(p, rs)
  /\ p.selected # NoMapStep => HasGraph(p)

(* show and generate: a newer revision, and a request of it. *)
LEMMA AskOK ==
  ASSUME PanelOK(panel, requests), NEW p \in Panel, NEW kind \in {"saved", "generate"}, Ask(kind, p),
         p.workspace # NoWorkspace, p.revision >= panel.revision, p.selected # NoMapStep => HasGraph(p)
  PROVE  PanelOK(panel', requests')
<1> DEFINE next == p.revision + 1
           q == [p EXCEPT !.revision = next, !.loading = TRUE]
           a == Request(kind, p.workspace, p.revision + 1)
<1>1. p.workspace \in Workspaces /\ p.revision \in Nat
  BY DEF Panel, Places
<1>2. a \in PanelRequest /\ a.kind = kind /\ a.revision = p.revision + 1
  BY <1>1, Requests
<1>n. next \in Nat
  BY <1>1
<1>4. panel' = q /\ requests' = requests \cup {a}
  BY DEF Ask
<1> HIDE DEF next
<1>3. /\ q \in Panel /\ q.revision = next /\ q.workspace = p.workspace
      /\ q.graph = p.graph /\ q.selected = p.selected
  BY <1>n DEF Panel
<1> USE DEF next
<1>5. panel.revision \in Nat /\ \A r \in requests : r.revision \in Nat /\ r.revision <= panel.revision
  BY DEF PanelOK, Panel, PanelRequest
<1> HIDE DEF q, a
<1>6. Waiting(q, requests \cup {a})
  BY <1>2, <1>3 DEF Waiting
<1>7. \A r \in requests \cup {a} : r.revision <= q.revision
  BY <1>1, <1>2, <1>3, <1>5
<1> QED BY <1>2, <1>3, <1>4, <1>6, <1>7 DEF PanelOK, HasGraph

LEMMA MountOK ==
  ASSUME PanelOK(panel, requests), address \in Places, Mount
  PROVE  PanelOK(panel', requests')
<1> USE PanelAssumption
<1> DEFINE left == panel.workspace # NoWorkspace /\ address # panel.workspace
           staying == IF left THEN [Hidden(panel) EXCEPT !.workspace = NoWorkspace] ELSE panel
           asks == address # NoWorkspace /\ ~HasGraph(staying) /\ ~staying.loading /\ staying.checked # address
           checked == IF asks \/ address = staying.checked THEN address ELSE NoWorkspace
           rs == requests \cup (IF asks THEN {Request("restore", address, 0)} ELSE {})
           tab == staying.tab \/ (address # NoWorkspace /\ HasGraph(staying))
           q == [staying EXCEPT !.checked = checked, !.tab = tab]
<1>0. panel \in Panel /\ panel.revision \in Nat /\ (\A r \in requests : r.revision \in Nat /\ r.revision <= panel.revision)
  BY DEF PanelOK, Panel, PanelRequest
<1>1. PanelOK(staying, requests)
  <2>1. CASE left
    <3> DEFINE h == Hidden(panel)
    <3>1. /\ h \in Panel /\ h.revision = panel.revision + 1 /\ h.loading = FALSE /\ h.tab = FALSE
          /\ ~HasGraph(h) /\ h.selected = NoMapStep
      BY <1>0, HiddenPanel
    <3> HIDE DEF h
    <3>2. /\ [h EXCEPT !.workspace = NoWorkspace] \in Panel
          /\ [h EXCEPT !.workspace = NoWorkspace].revision = panel.revision + 1
          /\ [h EXCEPT !.workspace = NoWorkspace].loading = FALSE
          /\ [h EXCEPT !.workspace = NoWorkspace].tab = FALSE
          /\ [h EXCEPT !.workspace = NoWorkspace].graph = h.graph
          /\ [h EXCEPT !.workspace = NoWorkspace].selected = NoMapStep
      BY <3>1 DEF Panel, Places
    <3>3. staying = [h EXCEPT !.workspace = NoWorkspace]
      BY <2>1 DEF h
    <3> HIDE DEF staying
    <3>4. ~Waiting(staying, requests) /\ \A r \in requests : r.revision <= staying.revision
      BY <1>0, <3>2, <3>3 DEF Waiting
    <3> QED BY <3>1, <3>2, <3>3, <3>4 DEF PanelOK, HasGraph
  <2>2. CASE ~left
    BY <2>2
  <2> QED BY <2>1, <2>2
<1>2. panel' = q /\ requests' = rs
  BY DEF Mount
<1> HIDE DEF left, staying
<1>3. checked \in Places /\ tab \in BOOLEAN
  <2>1. staying.tab \in BOOLEAN
    BY <1>1 DEF PanelOK, Panel
  <2> QED BY <2>1 DEF Places
<1>4. rs \subseteq PanelRequest /\ (\A r \in rs : r.revision <= staying.revision) /\ (Waiting(staying, rs) <=> Waiting(staying, requests))
  <2>1. CASE asks
    <3> DEFINE a == Request("restore", address, 0)
    <3>1. address \in Workspaces
      BY <2>1 DEF Places
    <3>2. a \in PanelRequest /\ a.kind = "restore" /\ a.revision = 0
      BY <3>1, Requests
    <3>3. rs = requests \cup {a}
      BY <2>1
    <3>4. staying.revision \in Nat
      BY <1>1 DEF PanelOK, Panel
    <3> HIDE DEF a, rs
    <3> QED BY <1>1, <3>2, <3>3, <3>4 DEF PanelOK, Waiting
  <2>2. CASE ~asks
    <3>1. rs = requests
      BY <2>2
    <3> HIDE DEF rs
    <3> QED BY <1>1, <3>1 DEF PanelOK
  <2> QED BY <2>1, <2>2
<1>5. tab => staying.tab \/ HasGraph(staying)
  OBVIOUS
<1> HIDE DEF checked, tab, rs, asks
<1>6. /\ q \in Panel /\ q.revision = staying.revision /\ q.workspace = staying.workspace /\ q.graph = staying.graph
      /\ q.selected = staying.selected /\ q.loading = staying.loading /\ q.tab = tab
  BY <1>1, <1>3 DEF PanelOK, Panel
<1> HIDE DEF q
<1> QED BY <1>1, <1>2, <1>4, <1>5, <1>6 DEF PanelOK, Waiting, HasGraph

(* An answer that is dropped, or that is not waited for any more. *)
LEMMA DroppedOK ==
  ASSUME PanelOK(panel, requests), NEW r \in requests, r.kind = "restore" \/ r.revision # panel.revision,
         panel' = panel, requests' = requests \ {r}
  PROVE  PanelOK(panel', requests')
<1>1. Waiting(panel, requests \ {r}) <=> Waiting(panel, requests)
  BY DEF Waiting
<1> QED BY <1>1 DEF PanelOK

(* An answer that is shown: of a project, with at least one step. *)
LEMMA ShownOK ==
  ASSUME PanelOK(panel, requests), NEW r \in requests, requests' = requests \ {r}, NEW q \in Panel, panel' = q,
         q.revision = panel.revision, q.workspace # NoWorkspace, HasGraph(q),
         q.loading => panel.loading /\ r.kind = "restore"
  PROVE  PanelOK(panel', requests')
BY DEF PanelOK, Waiting

LEMMA PanelStep == PanelInv /\ [PanelNext]_panelVars => PanelInv'
<1> SUFFICES ASSUME PanelInv, [PanelNext]_panelVars PROVE PanelInv'
  OBVIOUS
<1> USE PanelAssumption
<1>0. PanelOK(panel, requests) /\ address \in Places /\ storedMap \in [Workspaces -> SUBSET MapSteps]
  BY DEF PanelInv, PanelTypeOK, PanelHasPlace, PanelIsAnswered, PanelOK, Waiting
<1> SUFFICES PanelOK(panel', requests') /\ address' \in Places /\ storedMap' \in [Workspaces -> SUBSET MapSteps]
  BY DEF PanelInv, PanelTypeOK, PanelHasPlace, PanelIsAnswered, PanelOK, Waiting, HasGraph
<1>p. /\ panel \in Panel /\ panel.revision \in Nat /\ (panel.selected # NoMapStep => HasGraph(panel))
      /\ panel.tab \/ HasGraph(panel) => panel.workspace # NoWorkspace
  BY <1>0 DEF PanelOK, Panel
<1>1. CASE Navigate
  BY <1>0, <1>1 DEF Navigate, Places
<1>2. CASE Mount
  <2>1. UNCHANGED <<address, storedMap>>
    BY <1>2 DEF Mount
  <2> QED BY <1>0, <1>2, <2>1, MountOK
<1>3. CASE OpenMap
  <2> DEFINE h == Hidden(panel)
             p == [h EXCEPT !.workspace = address, !.open = TRUE, !.tab = TRUE]
  <2>1. h \in Panel /\ h.revision = panel.revision + 1 /\ h.selected = NoMapStep
    BY <1>p, HiddenPanel
  <2>2. address # NoWorkspace /\ Ask("saved", p)
    BY <1>3 DEF OpenMap
  <2> HIDE DEF h
  <2>3. p \in Panel /\ p.revision = h.revision /\ p.selected = h.selected /\ p.workspace = address
    BY <1>0, <2>1 DEF Panel
  <2> HIDE DEF p
  <2>4. PanelOK(panel', requests')
    BY <1>0, <1>p, <2>1, <2>2, <2>3, AskOK
  <2> QED BY <1>0, <2>2, <2>4 DEF Ask
<1>4. CASE ClickTab
  <2> DEFINE p == [panel EXCEPT !.open = TRUE]
  <2>1. /\ p \in Panel /\ p.revision = panel.revision /\ p.selected = panel.selected /\ p.workspace = panel.workspace
        /\ p.graph = panel.graph /\ p.tab = panel.tab /\ p.loading = panel.loading
    BY <1>p DEF Panel
  <2>2. panel.tab /\ (Ask("saved", p) \/ (panel' = p /\ UNCHANGED <<address, requests, storedMap>>))
    BY <1>4 DEF ClickTab
  <2> HIDE DEF p
  <2>3. CASE Ask("saved", p)
    <3>1. PanelOK(panel', requests')
      BY <1>0, <1>p, <2>1, <2>2, <2>3, AskOK DEF HasGraph
    <3> QED BY <1>0, <2>3, <3>1 DEF Ask
  <2>4. CASE panel' = p /\ UNCHANGED <<address, requests, storedMap>>
    BY <1>0, <2>1, <2>4 DEF PanelOK, Waiting, HasGraph
  <2> QED BY <2>2, <2>3, <2>4
<1>5. CASE LeaveTab
  <2> DEFINE p == [panel EXCEPT !.open = FALSE]
  <2>1. /\ p \in Panel /\ p.revision = panel.revision /\ p.selected = panel.selected /\ p.workspace = panel.workspace
        /\ p.graph = panel.graph /\ p.tab = panel.tab /\ p.loading = panel.loading
    BY <1>p DEF Panel
  <2>2. panel' = p /\ UNCHANGED <<address, requests, storedMap>>
    BY <1>5 DEF LeaveTab
  <2> HIDE DEF p
  <2> QED BY <1>0, <2>1, <2>2 DEF PanelOK, Waiting, HasGraph
<1>6. CASE Refresh
  <2>1. PanelOK(panel', requests')
    BY <1>0, <1>p, <1>6, AskOK DEF Refresh
  <2> QED BY <1>0, <1>6, <2>1 DEF Refresh, Ask
<1>7. CASE SelectNode
  <2>1. PICK step \in panel.graph.steps \cup {NoMapStep} : panel' = [panel EXCEPT !.selected = step]
    BY <1>7 DEF SelectNode
  <2>2. HasGraph(panel) /\ UNCHANGED <<address, requests, storedMap>>
    BY <1>7 DEF SelectNode
  <2> DEFINE p == [panel EXCEPT !.selected = step]
  <2>3. /\ p \in Panel /\ p.revision = panel.revision /\ p.workspace = panel.workspace
        /\ p.graph = panel.graph /\ p.tab = panel.tab /\ p.loading = panel.loading
    BY <1>p, <2>1 DEF Panel
  <2>4. panel' = p
    BY <2>1
  <2> HIDE DEF p
  <2> QED BY <1>0, <2>2, <2>3, <2>4 DEF PanelOK, Waiting, HasGraph
<1>8. CASE Close
  <2> DEFINE h == Hidden(panel)
  <2>1. /\ h \in Panel /\ h.revision = panel.revision + 1 /\ h.loading = FALSE /\ h.tab = FALSE
        /\ ~HasGraph(h) /\ h.selected = NoMapStep
    BY <1>p, HiddenPanel
  <2>2. panel' = h /\ UNCHANGED <<address, requests, storedMap>>
    BY <1>8 DEF Close
  <2> HIDE DEF h
  <2>3. \A r \in requests : r.revision <= panel.revision /\ r.revision \in Nat
    BY <1>0 DEF PanelOK, PanelRequest
  <2>4. ~Waiting(h, requests) /\ \A r \in requests : r.revision <= h.revision
    BY <1>p, <2>1, <2>3 DEF Waiting
  <2> QED BY <1>0, <2>1, <2>2, <2>4 DEF PanelOK
<1>9. ASSUME NEW r \in requests, Serve(r)
      PROVE  PanelOK(panel', requests') /\ address' \in Places /\ storedMap' \in [Workspaces -> SUBSET MapSteps]
  <2>0. r \in PanelRequest
    BY <1>0 DEF PanelOK
  <2>1. PICK spot \in {"answered", "failed"}, steps \in SUBSET MapSteps : Answer(r, spot, steps)
    BY <1>0, <1>9, <2>0 DEF Serve, PanelRequest
  <2> DEFINE a == [r EXCEPT !.at = spot, !.steps = steps]
  <2>2. a \in PanelRequest /\ a.kind = r.kind /\ a.revision = r.revision
    BY <2>0, <2>1 DEF PanelRequest
  <2>3. requests' = (requests \ {r}) \cup {a}
    BY <2>1 DEF Answer
  <2> HIDE DEF a
  <2>4. UNCHANGED <<address, panel>> /\ storedMap' \in [Workspaces -> SUBSET MapSteps]
    BY <1>0, <1>9 DEF Serve
  <2>5. Waiting(panel, requests') <=> Waiting(panel, requests)
    BY <2>2, <2>3 DEF Waiting
  <2> QED BY <1>0, <2>2, <2>3, <2>4, <2>5 DEF PanelOK
<1>10. ASSUME NEW r \in requests, SavedAnswered(r)
       PROVE  PanelOK(panel', requests') /\ address' \in Places /\ storedMap' \in [Workspaces -> SUBSET MapSteps]
  <2>0. r \in PanelRequest /\ r.kind = "saved" /\ UNCHANGED <<address, storedMap>>
    BY <1>0, <1>10 DEF SavedAnswered, PanelOK
  <2>1. CASE r.revision # panel.revision
    BY <1>0, <1>10, <2>0, <2>1, DroppedOK DEF SavedAnswered
  <2>2. CASE r.revision = panel.revision /\ r.steps # {}
    <3> DEFINE graph == [of |-> r.of, steps |-> r.steps]
    <3>1. PICK step \in {panel.selected} \cup r.steps :
            panel' = [panel EXCEPT !.loading = FALSE, !.workspace = panel.workspace, !.graph = graph, !.selected = step]
      <4>1. panel' \in Shown([panel EXCEPT !.loading = FALSE], r, panel.workspace)
        BY <1>10, <2>2 DEF SavedAnswered
      <4>2. [panel EXCEPT !.loading = FALSE].selected = panel.selected
        BY <1>p DEF Panel
      <4> QED BY <4>1, <4>2 DEF Shown
    <3>2. graph \in [of : Places, steps : SUBSET MapSteps] /\ graph # NoGraph
      BY <2>0 DEF PanelRequest, Places, NoGraph
    <3> DEFINE q == [panel EXCEPT !.loading = FALSE, !.workspace = panel.workspace, !.graph = graph, !.selected = step]
    <3>3. panel' = q
      BY <3>1
    <3>4. panel.workspace \in Places /\ step \in MapSteps \cup {NoMapStep}
      BY <1>p, <2>0 DEF Panel, PanelRequest
    <3> HIDE DEF graph
    <3>5. q \in Panel /\ q.revision = panel.revision /\ q.workspace = panel.workspace /\ q.graph = graph /\ q.loading = FALSE
      BY <1>p, <3>2, <3>4 DEF Panel
    <3> HIDE DEF q
    <3>6. Waiting(panel, requests) /\ requests' = requests \ {r}
      BY <1>10, <2>0, <2>2 DEF Waiting, SavedAnswered
    <3>7. panel.workspace # NoWorkspace
      BY <1>0, <3>6 DEF PanelOK
    <3> QED BY <1>0, <2>0, <3>2, <3>3, <3>5, <3>6, <3>7, ShownOK DEF HasGraph
  <2>3. CASE r.revision = panel.revision /\ r.steps = {}
    <3> DEFINE next == panel.revision + 1
               q == [panel EXCEPT !.revision = next]
               a == Request("generate", panel.workspace, next)
    <3>1. panel' = q /\ requests' = (requests \ {r}) \cup {a}
      BY <1>10, <2>3 DEF SavedAnswered
    <3>2. Waiting(panel, requests)
      BY <2>0, <2>3 DEF Waiting
    <3>3. panel.workspace \in Workspaces
      BY <1>0, <1>p, <3>2 DEF PanelOK, Panel, Places
    <3>4. next \in Nat /\ next > panel.revision
      BY <1>p
    <3> HIDE DEF next
    <3>5. a \in PanelRequest /\ a.kind = "generate" /\ a.revision = next
      BY <3>3, <3>4, Requests
    <3>6. /\ q \in Panel /\ q.revision = next /\ q.workspace = panel.workspace
          /\ q.graph = panel.graph /\ q.selected = panel.selected
      BY <1>p, <3>4 DEF Panel
    <3> HIDE DEF q, a
    <3>7. \A s \in requests \cup {a} : s.revision <= q.revision
      <4>1. \A s \in requests : s.revision \in Nat /\ s.revision <= panel.revision
        BY <1>0 DEF PanelOK, PanelRequest
      <4> QED BY <1>p, <3>4, <3>5, <3>6, <4>1
    <3>8. Waiting(q, (requests \ {r}) \cup {a})
      BY <3>5, <3>6 DEF Waiting
    <3>9. panel.workspace # NoWorkspace
      BY <3>3
    <3>10. PanelOK(q, (requests \ {r}) \cup {a})
      BY <1>0, <3>5, <3>6, <3>7, <3>8, <3>9 DEF PanelOK, HasGraph
    <3> QED BY <1>0, <2>0, <3>1, <3>10
  <2> QED BY <1>0, <2>0, <2>1, <2>2, <2>3
<1>11. ASSUME NEW r \in requests, GenerateAnswered(r)
       PROVE  PanelOK(panel', requests') /\ address' \in Places /\ storedMap' \in [Workspaces -> SUBSET MapSteps]
  <2>0. r \in PanelRequest /\ r.kind = "generate" /\ UNCHANGED <<address, storedMap>> /\ requests' = requests \ {r}
    BY <1>0, <1>11 DEF GenerateAnswered, PanelOK
  <2>1. CASE r.revision # panel.revision
    BY <1>0, <1>11, <2>0, <2>1, DroppedOK DEF GenerateAnswered
  <2>2. CASE r.revision = panel.revision /\ r.at = "failed"
    <3> DEFINE q == [panel EXCEPT !.loading = FALSE]
    <3>1. panel' = q
      BY <1>11, <2>2 DEF GenerateAnswered
    <3>2. /\ q \in Panel /\ q.revision = panel.revision /\ q.workspace = panel.workspace /\ q.graph = panel.graph
          /\ q.loading = FALSE /\ q.selected = panel.selected /\ q.tab = panel.tab
      BY <1>p DEF Panel
    <3> HIDE DEF q
    <3>3. Waiting(q, requests \ {r}) => Waiting(panel, requests)
      BY <3>2 DEF Waiting
    <3>4. PanelOK(q, requests \ {r})
      BY <1>0, <3>2, <3>3 DEF PanelOK, HasGraph
    <3> QED BY <1>0, <2>0, <3>1, <3>4
  <2>3. CASE r.revision = panel.revision /\ r.at # "failed"
    <3> DEFINE graph == [of |-> r.of, steps |-> r.steps]
               step == Kept(panel.selected, r.steps)
               q == [panel EXCEPT !.graph = graph, !.selected = step, !.loading = FALSE]
    <3>1. panel' = q
      BY <1>11, <2>3 DEF GenerateAnswered
    <3>2. graph \in [of : Places, steps : SUBSET MapSteps] /\ graph # NoGraph
      BY <2>0 DEF PanelRequest, Places, NoGraph
    <3>3. step \in MapSteps \cup {NoMapStep}
      BY <1>p, <2>0 DEF Kept, Panel, PanelRequest
    <3> HIDE DEF graph, step
    <3>4. q \in Panel /\ q.revision = panel.revision /\ q.workspace = panel.workspace /\ q.graph = graph /\ q.loading = FALSE
      BY <1>p, <3>2, <3>3 DEF Panel
    <3> HIDE DEF q
    <3>5. Waiting(panel, requests)
      BY <2>0, <2>3 DEF Waiting
    <3>6. panel.workspace # NoWorkspace
      BY <1>0, <3>5 DEF PanelOK
    <3> QED BY <1>0, <2>0, <3>1, <3>2, <3>4, <3>6, ShownOK DEF HasGraph
  <2> QED BY <2>1, <2>2, <2>3
<1>12. ASSUME NEW r \in requests, RestoreAnswered(r)
       PROVE  PanelOK(panel', requests') /\ address' \in Places /\ storedMap' \in [Workspaces -> SUBSET MapSteps]
  <2>0. r \in PanelRequest /\ r.kind = "restore" /\ UNCHANGED <<address, storedMap>> /\ requests' = requests \ {r}
    BY <1>0, <1>12 DEF RestoreAnswered, PanelOK
  <2>1. CASE panel' = panel
    BY <1>0, <2>0, <2>1, DroppedOK
  <2>2. CASE \E opened \in BOOLEAN : panel' \in Shown([panel EXCEPT !.open = opened, !.tab = TRUE], r, r.of)
    <3> DEFINE graph == [of |-> r.of, steps |-> r.steps]
    <3>1. PICK opened \in BOOLEAN, step \in {panel.selected} \cup r.steps :
            panel' = [panel EXCEPT !.open = opened, !.tab = TRUE, !.workspace = r.of, !.graph = graph, !.selected = step]
      <4>1. PICK opened \in BOOLEAN : panel' \in Shown([panel EXCEPT !.open = opened, !.tab = TRUE], r, r.of)
        BY <2>2
      <4>2. [panel EXCEPT !.open = opened, !.tab = TRUE].selected = panel.selected
        BY <1>p DEF Panel
      <4> QED BY <4>1, <4>2 DEF Shown
    <3>2. graph \in [of : Places, steps : SUBSET MapSteps] /\ graph # NoGraph /\ r.of \in Places /\ r.of # NoWorkspace
      BY <2>0 DEF PanelRequest, Places, NoGraph
    <3> DEFINE q == [panel EXCEPT !.open = opened, !.tab = TRUE, !.workspace = r.of, !.graph = graph, !.selected = step]
    <3>3. panel' = q
      BY <3>1
    <3>4. step \in MapSteps \cup {NoMapStep}
      BY <1>p, <2>0 DEF Panel, PanelRequest
    <3> HIDE DEF graph
    <3>5. q \in Panel /\ q.revision = panel.revision /\ q.workspace = r.of /\ q.graph = graph /\ q.loading = panel.loading
      BY <1>p, <3>2, <3>4 DEF Panel
    <3> HIDE DEF q
    <3> QED BY <1>0, <2>0, <3>2, <3>3, <3>5, ShownOK DEF HasGraph
  <2> QED BY <1>12, <2>1, <2>2 DEF RestoreAnswered
<1>13. CASE UNCHANGED panelVars
  BY <1>0, <1>13 DEF panelVars
<1> QED BY <1>1, <1>2, <1>3, <1>4, <1>5, <1>6, <1>7, <1>8, <1>9, <1>10, <1>11, <1>12, <1>13 DEF PanelNext

(* The Map panel waits for nothing that does not come, and keeps no step of  *)
(* a map it does not show, whatever is opened, closed, left and answered     *)
(* late (flowchart-ui.ts).                                                   *)
THEOREM PanelNeverWaits == PanelSpec => []PanelIsAnswered
<1>1. PanelInv => PanelIsAnswered
  BY DEF PanelInv
<1> QED BY <1>1, PanelStart, PanelStep, PTL DEF PanelSpec

-----------------------------------------------------------------------------
(* EditorCompletion: the counts *)

LEMMA WindowIsFinite ==
  ASSUME NEW A, NEW t, NEW ticks
  PROVE  IsFiniteSet(Window(A, t, ticks)) /\ Within(A, t, ticks) \in Nat
<1>1. IsFiniteSet(Times) /\ IsFiniteSet(1 .. DayLimit + 1)
  BY CompletionAssumption, FS_Interval DEF Times
<1>2. IsFiniteSet(Times \X (1 .. DayLimit + 1))
  BY <1>1, FS_Product
<1>3. IsFiniteSet(Window(A, t, ticks))
  BY <1>2, FS_Subset DEF Window
<1> QED BY <1>3, FS_CardinalityType DEF Within

(* Fewer attempts fill a window less. *)
LEMMA FewerWithin ==
  ASSUME NEW A \in Counts, NEW B \in Counts, \A u \in Times : B[u] <= A[u], NEW t, NEW ticks
  PROVE  Within(B, t, ticks) <= Within(A, t, ticks)
<1>1. Window(B, t, ticks) \subseteq Window(A, t, ticks)
  <2> SUFFICES ASSUME NEW a \in Times \X (1 .. DayLimit + 1), a[2] <= B[a[1]] PROVE a[2] <= A[a[1]]
    BY DEF Window
  <2>1. a[1] \in Times /\ a[2] \in Nat
    BY CompletionAssumption
  <2> QED BY <2>1 DEF Counts
<1> QED BY <1>1, WindowIsFinite, FS_Subset DEF Within

LEMMA PendingCounts ==
  ASSUME CompletionTypeOK
  PROVE  /\ Pending \in Counts /\ Known \in Counts /\ quota.asked \in Counts /\ quota.file \in Counts /\ quota.attempts \in Counts
         /\ \A t \in Times : quota.asked[t] \in Nat /\ Pending[t] \in {quota.asked[t], quota.asked[t] + 1}
BY DEF CompletionTypeOK, Pending, Known, Counts

(* What is counted: one attempt more, now, where the window has room for it. *)
LEMMA OneMoreFits ==
  ASSUME NEW A \in Counts, NEW P \in Counts, NEW Q \in Counts, NEW now \in Times, NEW ticks \in Nat, NEW limit \in Nat,
         ticks <= DayTicks,
         \A u \in Times : (u + DayTicks > now => P[u] <= A[u]) /\ (u > now => P[u] = 0),
         \A u \in Times : Q[u] = IF u = now THEN P[u] + 1 ELSE P[u],
         \A t \in Times : Within(P, t, ticks) <= limit,
         Within(A, now, ticks) < limit
  PROVE  \A t \in Times : Within(Q, t, ticks) <= limit
<1> SUFFICES ASSUME NEW t \in Times PROVE Within(Q, t, ticks) <= limit
  OBVIOUS
<1>0. Times \subseteq Nat /\ DayTicks \in Nat /\ \A a \in Times \X (1 .. DayLimit + 1) : a[1] \in Times /\ a[2] \in Nat \ {0}
  BY CompletionAssumption DEF Times
<1>1. CASE t < now
  <2>1. \A a \in Times \X (1 .. DayLimit + 1) : a[1] <= t => Q[a[1]] = P[a[1]]
    <3> SUFFICES ASSUME NEW a \in Times \X (1 .. DayLimit + 1), a[1] <= t PROVE Q[a[1]] = P[a[1]]
      OBVIOUS
    <3>1. a[1] \in Times /\ a[1] \in Nat /\ now \in Nat /\ t \in Nat
      BY <1>0
    <3>2. a[1] # now
      BY <1>1, <3>1
    <3> QED BY <3>1, <3>2
  <2>2. Window(Q, t, ticks) = Window(P, t, ticks)
    BY <2>1 DEF Window
  <2> QED BY <2>2 DEF Within
<1>2. CASE t >= now
  <2> DEFINE W == Window(A, now, ticks)
             new == <<now, P[now] + 1>>
  <2>1. Window(Q, t, ticks) \subseteq W \cup {new}
    <3> SUFFICES ASSUME NEW a \in Times \X (1 .. DayLimit + 1), a[1] + ticks > t, a[1] <= t, a[2] <= Q[a[1]]
                 PROVE  a \in W \/ a = new
      BY DEF Window
    <3>0. a = <<a[1], a[2]>>
      OBVIOUS
    <3>1. a[1] \in Times /\ a[1] \in Nat /\ a[2] \in Nat \ {0} /\ now \in Nat /\ t \in Nat
      BY <1>0
    <3>2. P[a[1]] \in Nat /\ A[a[1]] \in Nat
      BY <3>1 DEF Counts
    <3>3. a[1] <= now
      BY <3>1, <3>2
    <3>4. a[1] + ticks > now /\ a[1] + DayTicks > now
      BY <1>0, <1>2, <3>1
    <3>5. P[a[1]] <= A[a[1]]
      BY <3>1, <3>4
    <3>6. CASE a[2] <= P[a[1]]
      <4>1. a[2] <= A[a[1]]
        BY <3>1, <3>2, <3>5, <3>6
      <4> QED BY <3>1, <3>3, <3>4, <4>1 DEF Window
    <3>7. CASE ~(a[2] <= P[a[1]])
      <4>1. a[1] = now /\ a[2] = P[now] + 1
        BY <3>1, <3>2, <3>7
      <4> QED BY <3>0, <4>1
    <3> QED BY <3>6, <3>7
  <2>2. IsFiniteSet(W) /\ Cardinality(W) \in Nat /\ Cardinality(W) < limit
    BY WindowIsFinite DEF Within
  <2> HIDE DEF W, new
  <2>3. IsFiniteSet(W \cup {new}) /\ Cardinality(W \cup {new}) <= Cardinality(W) + 1 /\ Cardinality(W \cup {new}) \in Nat
    <3>1. IsFiniteSet(W \cup {new}) /\ Cardinality(W \cup {new}) = IF new \in W THEN Cardinality(W) ELSE Cardinality(W) + 1
      BY <2>2, FS_AddElement
    <3> QED BY <2>2, <3>1
  <2>4. Within(Q, t, ticks) <= Cardinality(W \cup {new})
    BY <2>1, <2>3, FS_Subset DEF Within
  <2>5. Within(Q, t, ticks) \in Nat
    BY WindowIsFinite
  <2> QED BY <2>2, <2>3, <2>4, <2>5
<1> QED BY <1>0, <1>1, <1>2

LEMMA CompletionStart == CompletionInit => CompletionInv
<1> SUFFICES ASSUME CompletionInit PROVE CompletionInv
  OBVIOUS
<1> USE CompletionAssumption
<1> DEFINE zero == [t \in Times |-> 0]
<1>0. 1 \in Times /\ zero \in Counts
  BY DEF Times, Counts
<1>1. suggests = {} /\ clock = 1 /\ quota = [attempts |-> zero, file |-> zero, asked |-> zero, loaded |-> FALSE]
  BY DEF CompletionInit
<1>2. /\ editor \in Editor /\ editor.timer = NoTimer /\ editor.popup = NoSuggestion
  <2>1. /\ editor \in [spot : Spots, model : CompletionModels, revision : {0}, popup : {NoSuggestion}, timer : {NoTimer},
                       enabled : BOOLEAN, paused : {FALSE}, here : {TRUE}, typed : {FALSE}]
        /\ NoSuggestion \in Suggestion /\ NoTimer \in [revision : Nat, spot : Spots \cup {NoSpot}]
    BY DEF CompletionInit, NoTimer, Suggestion
  <2> DEFINE page == [spot |-> editor.spot, model |-> editor.model, revision |-> 0, popup |-> NoSuggestion, timer |-> NoTimer,
                     enabled |-> editor.enabled, paused |-> FALSE, here |-> TRUE, typed |-> FALSE]
  <2>2. editor = page /\ editor.spot \in Spots /\ editor.model \in CompletionModels /\ editor.enabled \in BOOLEAN
    BY <2>1
  <2> HIDE DEF zero
  <2>3. page \in Editor
    BY <2>1, <2>2 DEF Editor
  <2>4. page.timer = NoTimer /\ page.popup = NoSuggestion
    OBVIOUS
  <2> HIDE DEF page
  <2> QED BY <2>2, <2>3, <2>4
<1>3. CompletionTypeOK
  BY <1>0, <1>1, <1>2 DEF CompletionTypeOK
<1>4. Pending = zero /\ Known = zero /\ quota.asked = zero /\ quota.file = zero
  BY <1>1 DEF Pending, Known
<1>5. \A t, ticks \in Nat : Within(zero, t, ticks) = 0
  <2> SUFFICES ASSUME NEW t \in Nat, NEW ticks \in Nat PROVE Within(zero, t, ticks) = 0
    OBVIOUS
  <2>1. Window(zero, t, ticks) = {}
    BY DEF Window, Times
  <2> QED BY <2>1, FS_EmptySet DEF Within
<1>6. PendingWithin /\ \A t \in Times : /\ Within(quota.asked, t, MinuteTicks) <= MinuteLimit
                                        /\ Within(quota.asked, t, DayTicks) <= DayLimit
  <2> HIDE DEF zero
  <2>1. Times \subseteq Nat /\ MinuteTicks \in Nat /\ DayTicks \in Nat /\ MinuteLimit >= 0 /\ DayLimit >= 0
    BY CompletionAssumption DEF Times
  <2>2. \A t \in Times : Within(zero, t, MinuteTicks) = 0 /\ Within(zero, t, DayTicks) = 0
    BY <1>5, <2>1
  <2>3. \A t \in Times : /\ Within(zero, t, MinuteTicks) <= MinuteLimit
                        /\ Within(zero, t, DayTicks) <= DayLimit
    BY <2>1, <2>2
  <2> QED BY <1>4, <2>3 DEF PendingWithin
<1>7. OneAtATime /\ Remembered /\ AskedOfModel
  BY <1>1, <1>2, <1>4 DEF OneAtATime, Remembered, AskedOfModel, NoTimer, Editor
<1> QED BY <1>2, <1>3, <1>6, <1>7 DEF CompletionInv, QuotaKept

(* The two halves of the invariant: the counts, and the page. *)
Counted == OneAtATime /\ Remembered /\ PendingWithin
Offered == AskedOfModel /\ (editor.popup # NoSuggestion => editor.enabled /\ editor.popup.model = editor.model)

LEMMA CountedIsKept ==
  ASSUME CompletionTypeOK, Counted, Offered
  PROVE  CompletionInv
<1>1. \A u \in Times : quota.asked[u] <= Pending[u]
  BY PendingCounts
<1>2. \A t \in Times : Within(quota.asked, t, MinuteTicks) <= MinuteLimit /\ Within(quota.asked, t, DayTicks) <= DayLimit
  <2> SUFFICES ASSUME NEW t \in Times, NEW ticks, NEW limit \in Nat, Within(Pending, t, ticks) <= limit
               PROVE  Within(quota.asked, t, ticks) <= limit
    BY CompletionAssumption DEF Counted, PendingWithin
  <2>1. Within(quota.asked, t, ticks) <= Within(Pending, t, ticks)
    BY <1>1, FewerWithin, PendingCounts
  <2> QED BY <2>1, WindowIsFinite
<1> QED BY <1>2 DEF CompletionInv, Counted, Offered, QuotaKept

(* A step that only lets requests go, or lets in some that count nothing. *)
LEMMA QuieterCounts ==
  ASSUME CompletionInv, CompletionTypeOK', UNCHANGED <<quota, clock>>, OneAtATime',
         \A x \in suggests' : x.at = "writing" => \E y \in suggests : y.at = "writing" /\ y.since = x.since
  PROVE  Counted'
<1>1. \A t \in Times : Pending'[t] <= Pending[t]
  BY DEF Pending, CompletionInv, CompletionTypeOK, Counts
<1>2. Pending \in Counts /\ Pending' \in Counts /\ Known' = Known /\ Known \in Counts
  <2>1. Pending' \in Counts
    BY DEF CompletionTypeOK, Pending, Counts
  <2> QED BY <2>1, PendingCounts DEF CompletionInv, Known
<1>3. Remembered'
  <2> SUFFICES ASSUME NEW t \in Times
               PROVE  /\ t + DayTicks > clock => Pending'[t] <= Known[t] /\ quota.asked[t] <= quota.file[t]
                      /\ t > clock => Pending'[t] = 0
    BY <1>2 DEF Remembered
  <2>1. Pending[t] \in Nat /\ Pending'[t] \in Nat /\ Known[t] \in Nat /\ Pending'[t] <= Pending[t]
    BY <1>1, <1>2 DEF Counts
  <2> QED BY <2>1 DEF CompletionInv, Remembered
<1>4. PendingWithin'
  <2> SUFFICES ASSUME NEW t \in Times PROVE Within(Pending', t, MinuteTicks) <= MinuteLimit /\ Within(Pending', t, DayTicks) <= DayLimit
    BY DEF PendingWithin
  <2>1. /\ Within(Pending', t, MinuteTicks) <= Within(Pending, t, MinuteTicks)
        /\ Within(Pending', t, DayTicks) <= Within(Pending, t, DayTicks)
    BY <1>1, <1>2, FewerWithin
  <2> QED BY <2>1, WindowIsFinite, CompletionAssumption DEF CompletionInv, PendingWithin
<1> QED BY <1>3, <1>4 DEF Counted

(* A request that moves on, another than the ones being counted or written. *)
LEMMA RequestMoves ==
  ASSUME CompletionInv, NEW r \in suggests, NEW spot \in {"queued", "failed", "asking", "answered"}, At(r, spot),
         UNCHANGED <<editor, quota, clock>>
  PROVE  CompletionInv'
<1> DEFINE moved == [r EXCEPT !.at = spot]
<1>1. r \in Suggest
  BY DEF CompletionInv, CompletionTypeOK
<1>2. moved \in Suggest /\ moved.at = spot /\ moved.revision = r.revision /\ moved.model = r.model
  BY <1>1 DEF Suggest
<1>3. suggests' = (suggests \ {r}) \cup {moved}
  BY DEF At
<1> HIDE DEF moved
<1>4. CompletionTypeOK'
  BY <1>2, <1>3 DEF CompletionInv, CompletionTypeOK
<1>5. OneAtATime'
  BY <1>2, <1>3 DEF CompletionInv, OneAtATime
<1>6. \A x \in suggests' : x.at = "writing" => \E y \in suggests : y.at = "writing" /\ y.since = x.since
  BY <1>2, <1>3
<1>7. Counted'
  BY <1>4, <1>5, <1>6, QuieterCounts
<1>8. Offered'
  BY <1>2, <1>3 DEF CompletionInv, AskedOfModel, QuotaKept, Offered
<1> QED BY <1>4, <1>7, <1>8, CountedIsKept, PTL

(* What the page aborts, and what it may ask for besides. *)
LEMMA AbortedRequests ==
  ASSUME CompletionInv
  PROVE  /\ AbortAll \subseteq Suggest
         /\ \A x \in AbortAll : \E y \in suggests : /\ x = [y EXCEPT !.aborted = TRUE] /\ x.at = y.at /\ x.since = y.since
                                                    /\ x.revision = y.revision /\ x.model = y.model
BY DEF CompletionInv, CompletionTypeOK, AbortAll, Suggest

LEMMA AsksBesides ==
  ASSUME CompletionInv, editor' \in Editor, editor'.timer = NoTimer \/ editor'.timer.spot \in Spots,
         UNCHANGED <<quota, clock>>, NEW others, others \in {suggests, AbortAll},
         NEW spot \in Spots, NEW asked \in CompletionModels, NEW revision \in Nat,
         \/ suggests' = others
         \/ suggests' = others \cup {[revision |-> revision, spot |-> spot, model |-> asked, at |-> "admitting", since |-> 1, aborted |-> FALSE]}
  PROVE  CompletionTypeOK' /\ Counted'
<1> DEFINE new == [revision |-> revision, spot |-> spot, model |-> asked, at |-> "admitting", since |-> 1, aborted |-> FALSE]
<1>1. new \in Suggest /\ new.at = "admitting"
  BY CompletionAssumption DEF Suggest, Times
<1>2. suggests' \subseteq others \cup {new}
  OBVIOUS
<1> HIDE DEF new
<1>3. /\ others \subseteq Suggest
      /\ \A x \in others : \E y \in suggests : x.at = y.at /\ x.since = y.since
      /\ \A x, z \in others : x.at \in {"loading", "writing"} /\ z.at \in {"loading", "writing"} => x = z
  <2>1. CASE others = suggests
    BY <2>1 DEF CompletionInv, CompletionTypeOK, OneAtATime
  <2>2. CASE others = AbortAll
    <3>1. ASSUME NEW x \in others, NEW z \in others, x.at \in {"loading", "writing"}, z.at \in {"loading", "writing"} PROVE x = z
      <4>1. PICK y \in suggests : x = [y EXCEPT !.aborted = TRUE] /\ x.at = y.at
        BY <2>2, AbortedRequests
      <4>2. PICK w \in suggests : z = [w EXCEPT !.aborted = TRUE] /\ z.at = w.at
        BY <2>2, AbortedRequests
      <4>3. y = w
        BY <3>1, <4>1, <4>2 DEF CompletionInv, OneAtATime
      <4> QED BY <4>1, <4>2, <4>3, Zenon
    <3> QED BY <2>2, <3>1, AbortedRequests
  <2> QED BY <2>1, <2>2
<1>4. CompletionTypeOK'
  BY <1>1, <1>2, <1>3 DEF CompletionInv, CompletionTypeOK
<1>5. OneAtATime'
  <2>1. \A x, z \in suggests' : x.at \in {"loading", "writing"} /\ z.at \in {"loading", "writing"} => x = z
    BY <1>1, <1>2, <1>3
  <2>2. \A x \in suggests' : (x.at = "writing" => quota.loaded) /\ (x.at = "loading" => ~quota.loaded)
    BY <1>1, <1>2, <1>3 DEF CompletionInv, OneAtATime
  <2> QED BY <2>1, <2>2 DEF OneAtATime
<1>6. \A x \in suggests' : x.at = "writing" => \E y \in suggests : y.at = "writing" /\ y.since = x.since
  BY <1>1, <1>2, <1>3
<1> QED BY <1>4, <1>5, <1>6, QuieterCounts

(* clear: whatever is on its way is older, and nothing is shown. *)
LEMMA ClearsPage ==
  ASSUME CompletionInv, NEW e \in Editor, e.revision = editor.revision, suggests' = AbortAll, UNCHANGED <<quota, clock>>,
         \/ editor' = Cleared(e)
         \/ editor' = [Cleared(e) EXCEPT !.timer = [revision |-> e.revision + 1, spot |-> e.spot]]
  PROVE  CompletionInv'
<1> DEFINE next == e.revision + 1
           timer == [revision |-> next, spot |-> e.spot]
<1>1. next \in Nat /\ e.spot \in Spots /\ e.model \in CompletionModels /\ NoSuggestion \in Suggestion
  BY DEF Editor, Suggestion
<1>2. /\ NoTimer \in [revision : Nat, spot : Spots \cup {NoSpot}] /\ NoTimer.revision = 0
      /\ timer \in [revision : Nat, spot : Spots \cup {NoSpot}] /\ timer.spot \in Spots /\ timer.revision = next
  BY <1>1 DEF NoTimer
<1>3. \/ editor' = [e EXCEPT !.revision = next, !.timer = NoTimer, !.popup = NoSuggestion]
      \/ editor' = [[e EXCEPT !.revision = next, !.timer = NoTimer, !.popup = NoSuggestion] EXCEPT !.timer = timer]
  BY DEF Cleared
<1>0. next > editor.revision /\ editor.revision \in Nat
  BY DEF Editor, CompletionInv, CompletionTypeOK
<1> HIDE DEF next, timer
<1>4. /\ editor' \in Editor /\ editor'.revision = next /\ editor'.popup = NoSuggestion
      /\ editor'.timer = NoTimer \/ editor'.timer = timer
  BY <1>1, <1>2, <1>3 DEF Editor
<1>5. CompletionTypeOK' /\ Counted'
  BY <1>1, <1>2, <1>4, AsksBesides
<1>6. \A x \in suggests' : x.revision < next
  <2> SUFFICES ASSUME NEW x \in AbortAll PROVE x.revision < next
    OBVIOUS
  <2>1. PICK y \in suggests : x.revision = y.revision
    BY AbortedRequests
  <2>2. y.revision \in Nat /\ y.revision <= editor.revision
    BY DEF CompletionInv, CompletionTypeOK, AskedOfModel, Suggest
  <2> QED BY <1>0, <1>1, <2>1, <2>2
<1>7. Offered'
  <2>1. editor'.timer.revision <= next
    BY <1>1, <1>2, <1>4
  <2> QED BY <1>1, <1>4, <1>6, <2>1, AbortedRequests DEF Offered, AskedOfModel, Suggest
<1> QED BY <1>5, <1>7, CountedIsKept, PTL

(* The page changes what does not count: where it is, what is typed. *)
LEMMA PageMoves ==
  ASSUME CompletionInv, editor' \in Editor, UNCHANGED <<suggests, quota, clock>>,
         \A half \in {"revision", "model", "popup", "timer", "enabled"} : editor'[half] = editor[half]
  PROVE  CompletionInv'
<1>1. /\ editor'.revision = editor.revision /\ editor'.model = editor.model /\ editor'.popup = editor.popup
      /\ editor'.timer = editor.timer /\ editor'.enabled = editor.enabled
  OBVIOUS
<1>2. Pending' = Pending /\ Known' = Known
  BY DEF Pending, Known
<1> QED
  BY <1>1, <1>2 DEF CompletionInv, CompletionTypeOK, OneAtATime, Remembered, PendingWithin, AskedOfModel, QuotaKept

(* reserveLocked: the attempts it goes by are those of every request before. *)
LEMMA CountKeeps ==
  ASSUME CompletionInv, NEW r \in suggests,
         \/ r.at = "queued" /\ ~Locked /\ quota.loaded /\ Count(r, quota.attempts)
         \/ r.at = "loading" /\ Count(r, quota.file)
  PROVE  CompletionInv'
<1> USE CompletionAssumption
<1> DEFINE kept == [t \in Times |-> IF t + DayTicks > clock THEN Known[t] ELSE 0]
           counted == [kept EXCEPT ![clock] = kept[clock] + 1]
<1>1. Count(r, Known)
  BY DEF Known, CompletionInv, OneAtATime
<1>2. /\ \A x \in suggests : x.at # "writing"
      /\ \A x \in suggests \ {r} : x.at \notin {"loading", "writing"}
  BY DEF CompletionInv, OneAtATime, Locked
<1>3. /\ CompletionTypeOK /\ r \in Suggest /\ clock \in Times /\ Known \in Counts /\ quota.asked \in Counts /\ quota.file \in Counts
      /\ Times \subseteq Nat
  BY PendingCounts DEF CompletionInv, CompletionTypeOK, Times
<1>4. Pending = quota.asked
  BY <1>2, <1>3 DEF Pending, Counts
<1>5. kept \in Counts /\ counted \in Counts
  BY <1>3 DEF Counts
<1>6. UNCHANGED <<editor, clock>>
  BY <1>1 DEF Count
<1>7. CASE At(r, "failed") /\ quota' = [quota EXCEPT !.attempts = kept, !.loaded = TRUE]
  <2> DEFINE moved == [r EXCEPT !.at = "failed"]
  <2>1. moved \in Suggest /\ moved.at = "failed" /\ moved.revision = r.revision /\ moved.model = r.model
    BY <1>3 DEF Suggest
  <2>2. suggests' = (suggests \ {r}) \cup {moved}
    BY <1>7 DEF At
  <2> HIDE DEF moved, kept
  <2>3. /\ quota' \in [attempts : Counts, file : Counts, asked : Counts, loaded : BOOLEAN]
        /\ quota'.attempts = kept /\ quota'.loaded = TRUE /\ quota'.file = quota.file /\ quota'.asked = quota.asked
    BY <1>3, <1>5, <1>7 DEF CompletionTypeOK
  <2>4. CompletionTypeOK'
    BY <1>3, <1>6, <2>1, <2>2, <2>3 DEF CompletionTypeOK
  <2>5. Pending' = Pending /\ Known' = kept
    <3>1. \A x \in suggests' : x.at # "writing"
      BY <1>2, <2>1, <2>2
    <3>2. Pending' = quota.asked
      BY <1>3, <2>3, <3>1 DEF Pending, Counts
    <3> QED BY <1>4, <2>3, <3>2 DEF Known
  <2>6. \A t \in Times : t + DayTicks > clock => kept[t] = Known[t]
    BY DEF kept
  <2>7. Counted'
    BY <1>2, <1>6, <2>1, <2>2, <2>3, <2>5, <2>6 DEF CompletionInv, Counted, OneAtATime, Remembered, PendingWithin
  <2>8. Offered'
    BY <1>6, <2>1, <2>2 DEF CompletionInv, AskedOfModel, QuotaKept, Offered
  <2> QED BY <2>4, <2>7, <2>8, CountedIsKept, PTL
<1>8. CASE /\ Within(kept, clock, MinuteTicks) < MinuteLimit /\ Within(kept, clock, DayTicks) < DayLimit
           /\ suggests' = (suggests \ {r}) \cup {[r EXCEPT !.at = "writing", !.since = clock]}
           /\ quota' = [quota EXCEPT !.attempts = counted, !.loaded = TRUE]
  <2> DEFINE moved == [r EXCEPT !.at = "writing", !.since = clock]
  <2>1. /\ moved \in Suggest /\ moved.at = "writing" /\ moved.since = clock /\ moved.revision = r.revision /\ moved.model = r.model
    BY <1>3 DEF Suggest
  <2>2. suggests' = (suggests \ {r}) \cup {moved}
    BY <1>8
  <2> HIDE DEF moved, counted
  <2>3. /\ quota' \in [attempts : Counts, file : Counts, asked : Counts, loaded : BOOLEAN]
        /\ quota'.attempts = counted /\ quota'.loaded = TRUE /\ quota'.file = quota.file /\ quota'.asked = quota.asked
    BY <1>3, <1>5, <1>8 DEF CompletionTypeOK
  <2>4. CompletionTypeOK'
    BY <1>3, <1>6, <2>1, <2>2, <2>3 DEF CompletionTypeOK
  <2>5. Known' = counted
    BY <2>3 DEF Known
  <2>6. /\ Pending' \in Counts
        /\ \A t \in Times : Pending'[t] = IF t = clock THEN Pending[t] + 1 ELSE Pending[t]
    <3>1. \A t \in Times : (\E x \in suggests' : x.at = "writing" /\ x.since = t) <=> t = clock
      BY <1>2, <2>1, <2>2
    <3>2. Pending' = [t \in Times |-> IF t = clock THEN quota.asked[t] + 1 ELSE quota.asked[t]]
      BY <2>3, <3>1 DEF Pending
    <3> QED BY <1>3, <1>4, <3>2 DEF Counts
  <2>7. \A t \in Times : /\ kept[t] \in Nat /\ Known[t] \in Nat /\ Pending[t] \in Nat
                         /\ t + DayTicks > clock => kept[t] = Known[t] /\ Pending[t] <= kept[t]
                         /\ counted[t] = IF t = clock THEN kept[t] + 1 ELSE kept[t]
    <3>1. \A t \in Times : t + DayTicks > clock => kept[t] = Known[t] /\ Pending[t] <= Known[t]
      BY DEF CompletionInv, Remembered
    <3>2. \A t \in Times : counted[t] = IF t = clock THEN kept[t] + 1 ELSE kept[t]
      BY <1>3 DEF counted
    <3> QED BY <1>3, <1>4, <1>5, <3>1, <3>2 DEF Counts
  <2> HIDE DEF kept
  <2>8. Remembered'
    <3> SUFFICES ASSUME NEW t \in Times
                 PROVE  /\ t + DayTicks > clock => Pending'[t] <= counted[t] /\ quota.asked[t] <= quota.file[t]
                        /\ t > clock => Pending'[t] = 0
      BY <1>6, <2>3, <2>5 DEF Remembered
    <3>1. t + DayTicks > clock => Pending'[t] <= counted[t]
      BY <2>6, <2>7
    <3>2. t > clock => Pending'[t] = 0
      BY <1>3, <2>6 DEF CompletionInv, Remembered
    <3> QED BY <3>1, <3>2 DEF CompletionInv, Remembered
  <2>9. PendingWithin'
    <3>1. Pending \in Counts
      BY <1>3, PendingCounts
    <3>2. \A u \in Times : (u + DayTicks > clock => Pending[u] <= kept[u]) /\ (u > clock => Pending[u] = 0)
      BY <2>7 DEF CompletionInv, Remembered
    <3> DEFINE P == Pending
               Q == Pending'
    <3>3. /\ \A t \in Times : Within(P, t, MinuteTicks) <= MinuteLimit /\ Within(P, t, DayTicks) <= DayLimit
          /\ P \in Counts /\ Q \in Counts /\ kept \in Counts /\ clock \in Times
          /\ \A u \in Times : (u + DayTicks > clock => P[u] <= kept[u]) /\ (u > clock => P[u] = 0)
          /\ \A u \in Times : Q[u] = IF u = clock THEN P[u] + 1 ELSE P[u]
          /\ Within(kept, clock, MinuteTicks) < MinuteLimit /\ Within(kept, clock, DayTicks) < DayLimit
          /\ MinuteTicks <= DayTicks /\ DayTicks <= DayTicks
      BY <1>3, <1>5, <1>8, <2>6, <3>1, <3>2 DEF CompletionInv, PendingWithin
    <3> HIDE DEF P, Q
    <3>4. \A t \in Times : Within(Q, t, MinuteTicks) <= MinuteLimit
      BY <3>3, OneMoreFits
    <3>5. \A t \in Times : Within(Q, t, DayTicks) <= DayLimit
      BY <3>3, OneMoreFits
    <3> QED BY <3>4, <3>5 DEF PendingWithin, Q
  <2>10. OneAtATime'
    BY <1>2, <2>1, <2>2, <2>3 DEF OneAtATime
  <2>11. Offered'
    BY <1>6, <2>1, <2>2 DEF CompletionInv, AskedOfModel, QuotaKept, Offered
  <2> QED BY <2>4, <2>8, <2>9, <2>10, <2>11, CountedIsKept, PTL DEF Counted
<1>9. /\ Within(kept, clock, MinuteTicks) \in Nat /\ Within(kept, clock, DayTicks) \in Nat
  BY WindowIsFinite
<1> QED BY <1>1, <1>7, <1>8, <1>9 DEF Count

(* The write: what was counted is let through, or dropped. *)
LEMMA WriteKeeps ==
  ASSUME CompletionInv, NEW r \in suggests, WriteQuota(r)
  PROVE  CompletionInv'
<1>0. r.at = "writing" /\ UNCHANGED <<editor, clock>>
  BY DEF WriteQuota
<1>1. CASE At(r, "failed") /\ UNCHANGED quota
  BY <1>0, <1>1, RequestMoves
<1>2. CASE At(r, "asking") /\ quota' = [quota EXCEPT !.file = quota.attempts, !.asked[r.since] = @ + 1]
  <2> DEFINE asked == [quota.asked EXCEPT ![r.since] = @ + 1]
             moved == [r EXCEPT !.at = "asking"]
  <2>1. CompletionTypeOK /\ r \in Suggest /\ quota.loaded /\ quota.asked \in Counts /\ quota.attempts \in Counts
    BY <1>0 DEF CompletionInv, CompletionTypeOK, OneAtATime
  <2>2. /\ moved \in Suggest /\ moved.at = "asking" /\ moved.revision = r.revision /\ moved.model = r.model
        /\ r.since \in Times
    BY <2>1 DEF Suggest
  <2>3. suggests' = (suggests \ {r}) \cup {moved}
    BY <1>2 DEF At
  <2>4. asked \in Counts /\ \A t \in Times : asked[t] = IF t = r.since THEN quota.asked[t] + 1 ELSE quota.asked[t]
    BY <2>1, <2>2 DEF Counts
  <2>5. quota' = [quota EXCEPT !.file = quota.attempts, !.asked = asked]
    BY <1>2, <2>1 DEF CompletionTypeOK
  <2> HIDE DEF moved, asked
  <2>6. /\ quota' \in [attempts : Counts, file : Counts, asked : Counts, loaded : BOOLEAN]
        /\ quota'.attempts = quota.attempts /\ quota'.loaded = TRUE /\ quota'.file = quota.attempts /\ quota'.asked = asked
    BY <2>1, <2>4, <2>5 DEF CompletionTypeOK
  <2>7. CompletionTypeOK'
    BY <1>0, <2>1, <2>2, <2>3, <2>6 DEF CompletionTypeOK
  <2>8. \A x \in suggests \ {r} : x.at \notin {"loading", "writing"}
    BY <1>0 DEF CompletionInv, OneAtATime
  <2>9. OneAtATime'
    BY <2>2, <2>3, <2>8 DEF OneAtATime
  <2>10. Pending' = Pending /\ \A t \in Times : asked[t] = Pending[t]
    <3>1. \A t \in Times : Pending[t] = IF t = r.since THEN quota.asked[t] + 1 ELSE quota.asked[t]
      BY <1>0, <2>8 DEF Pending
    <3>2. \A x \in suggests' : x.at # "writing"
      BY <2>2, <2>3, <2>8
    <3>3. Pending' = [t \in Times |-> asked[t]]
      BY <2>6, <3>2 DEF Pending
    <3>4. Pending = [t \in Times |-> Pending[t]]
      BY DEF Pending
    <3> QED BY <2>4, <3>1, <3>3, <3>4
  <2>11. Known' = Known /\ Known = quota.attempts
    BY <2>1, <2>6 DEF Known
  <2>12. Remembered' /\ PendingWithin'
    BY <1>0, <2>6, <2>10, <2>11 DEF CompletionInv, Remembered, PendingWithin
  <2>13. Offered'
    BY <1>0, <2>2, <2>3 DEF CompletionInv, AskedOfModel, QuotaKept, Offered
  <2> QED BY <2>7, <2>9, <2>12, <2>13, CountedIsKept, PTL DEF Counted
<1> QED BY <1>1, <1>2 DEF WriteQuota

(* A restart forgets what is in memory, and what was being written. *)
LEMMA StopKeeps == CompletionInv /\ BridgeStops => CompletionInv'
<1> SUFFICES ASSUME CompletionInv, BridgeStops PROVE CompletionInv'
  OBVIOUS
<1> DEFINE zero == [t \in Times |-> 0]
<1>1. UNCHANGED <<editor, clock>> /\ quota' = [quota EXCEPT !.attempts = zero, !.loaded = FALSE]
  BY DEF BridgeStops
<1>2. zero \in Counts /\ CompletionTypeOK
  BY DEF Counts, CompletionInv
<1> HIDE DEF zero
<1>3. /\ quota' \in [attempts : Counts, file : Counts, asked : Counts, loaded : BOOLEAN]
      /\ quota'.loaded = FALSE /\ quota'.file = quota.file /\ quota'.asked = quota.asked
  BY <1>1, <1>2 DEF CompletionTypeOK
<1>4. suggests' = {[r EXCEPT !.at = IF r.at = "answered" THEN r.at ELSE "failed"] : r \in suggests}
  BY DEF BridgeStops
<1>5. \A x \in suggests' : /\ x \in Suggest /\ x.at \in {"answered", "failed"}
                          /\ \E r \in suggests : x.revision = r.revision /\ x.model = r.model
  <2> SUFFICES ASSUME NEW x \in suggests'
               PROVE  /\ x \in Suggest /\ x.at \in {"answered", "failed"}
                      /\ \E r \in suggests : x.revision = r.revision /\ x.model = r.model
    OBVIOUS
  <2>1. PICK r \in suggests : x = [r EXCEPT !.at = IF r.at = "answered" THEN r.at ELSE "failed"]
    BY <1>4
  <2> DEFINE spot == IF r.at = "answered" THEN r.at ELSE "failed"
  <2>2. spot \in {"answered", "failed"} /\ x = [r EXCEPT !.at = spot]
    BY <2>1
  <2> HIDE DEF spot
  <2>3. r \in Suggest
    BY <1>2 DEF CompletionTypeOK
  <2>4. x \in Suggest /\ x.at = spot /\ x.revision = r.revision /\ x.model = r.model
    BY <2>2, <2>3 DEF Suggest
  <2> QED BY <2>2, <2>4
<1>6. CompletionTypeOK'
  BY <1>1, <1>2, <1>3, <1>5 DEF CompletionTypeOK
<1>7. Pending' = quota.asked /\ Known' = quota.file
  BY <1>2, <1>3, <1>5 DEF Pending, Known, CompletionTypeOK, Counts
<1>8. OneAtATime'
  BY <1>5 DEF OneAtATime
<1>9. \A t \in Times : /\ quota.asked[t] \in Nat /\ Pending[t] \in Nat /\ quota.asked[t] <= Pending[t]
  BY <1>2, PendingCounts
<1>10. Remembered'
  <2> SUFFICES ASSUME NEW t \in Times
               PROVE  /\ t + DayTicks > clock => quota.asked[t] <= quota.file[t]
                      /\ t > clock => quota.asked[t] = 0
    BY <1>1, <1>3, <1>7 DEF Remembered
  <2> QED BY <1>9 DEF CompletionInv, Remembered
<1>11. PendingWithin'
  BY <1>7 DEF CompletionInv, PendingWithin, QuotaKept
<1>12. Offered'
  <2>1. editor.timer.revision <= editor.revision /\ (editor.popup # NoSuggestion => editor.enabled /\ editor.popup.model = editor.model)
    BY DEF CompletionInv, AskedOfModel, QuotaKept
  <2>2. \A x \in suggests' : x.revision <= editor.revision /\ (x.revision = editor.revision => x.model = editor.model)
    BY <1>5 DEF CompletionInv, AskedOfModel
  <2> QED BY <1>1, <2>1, <2>2 DEF Offered, AskedOfModel
<1> QED BY <1>6, <1>8, <1>10, <1>11, <1>12, CountedIsKept, PTL DEF Counted

LEMMA TickKeeps == CompletionInv /\ Tick => CompletionInv'
<1> SUFFICES ASSUME CompletionInv, Tick PROVE CompletionInv'
  OBVIOUS
<1>1. UNCHANGED <<editor, suggests, quota>> /\ clock' = clock + 1 /\ clock < MaxTime
  BY DEF Tick
<1>2. CompletionTypeOK'
  BY <1>1, CompletionAssumption DEF CompletionInv, CompletionTypeOK, Times
<1>3. Pending' = Pending /\ Known' = Known
  BY <1>1 DEF Pending, Known
<1>4. Remembered'
  <2> SUFFICES ASSUME NEW t \in Times
               PROVE  /\ t + DayTicks > clock' => Pending[t] <= Known[t] /\ quota.asked[t] <= quota.file[t]
                      /\ t > clock' => Pending[t] = 0
    BY <1>1, <1>3 DEF Remembered
  <2>1. clock \in Nat /\ t \in Nat /\ DayTicks \in Nat
    BY CompletionAssumption DEF CompletionInv, CompletionTypeOK, Times
  <2>2. (t + DayTicks > clock' => t + DayTicks > clock) /\ (t > clock' => t > clock)
    BY <1>1, <2>1
  <2> QED BY <2>2 DEF CompletionInv, Remembered
<1> QED
  BY <1>1, <1>2, <1>3, <1>4
  DEF CompletionInv, OneAtATime, PendingWithin, AskedOfModel, QuotaKept

LEMMA CompletionStep == CompletionInv /\ [CompletionNext]_completionVars => CompletionInv'
<1> SUFFICES ASSUME CompletionInv, [CompletionNext]_completionVars PROVE CompletionInv'
  OBVIOUS
<1>0. /\ editor \in Editor /\ suggests \subseteq Suggest /\ (editor.timer = NoTimer \/ editor.timer.spot \in Spots)
      /\ editor.spot \in Spots /\ editor.model \in CompletionModels /\ editor.revision \in Nat /\ editor.timer.revision \in Nat
  BY DEF CompletionInv, CompletionTypeOK, Editor
<1>1. CASE Type
  <2>1. PICK spot \in Spots : editor' = [editor EXCEPT !.spot = spot, !.typed = TRUE]
    BY <1>1 DEF Type
  <2>2. editor' \in Editor /\ \A half \in {"revision", "model", "popup", "timer", "enabled"} : editor'[half] = editor[half]
    BY <1>0, <2>1 DEF Editor
  <2> QED BY <1>1, <2>2, PageMoves DEF Type
<1>2. CASE Typed
  <2> DEFINE e == [editor EXCEPT !.typed = FALSE]
  <2>1. e \in Editor /\ e.revision = editor.revision
    BY <1>0 DEF Editor
  <2>2. Schedule(e)
    BY <1>2 DEF Typed
  <2> HIDE DEF e
  <2> QED BY <2>1, <2>2, ClearsPage DEF Schedule
<1>3. CASE MoveByKey
  <2>1. PICK spot \in Spots : editor' = [editor EXCEPT !.spot = spot]
    BY <1>3 DEF MoveByKey
  <2>2. editor' \in Editor /\ \A half \in {"revision", "model", "popup", "timer", "enabled"} : editor'[half] = editor[half]
    BY <1>0, <2>1 DEF Editor
  <2> QED BY <1>3, <2>2, PageMoves DEF MoveByKey
<1>4. CASE Click
  <2>1. PICK spot \in Spots : Schedule([editor EXCEPT !.spot = spot])
    BY <1>4 DEF Click
  <2> DEFINE e == [editor EXCEPT !.spot = spot]
  <2>2. e \in Editor /\ e.revision = editor.revision
    BY <1>0 DEF Editor
  <2>3. Schedule(e)
    BY <2>1
  <2> HIDE DEF e
  <2> QED BY <2>2, <2>3, ClearsPage DEF Schedule
<1>5. CASE SwitchEnabled
  <2> DEFINE e == [editor EXCEPT !.enabled = FALSE]
             f == [editor EXCEPT !.enabled = TRUE]
  <2>1. e \in Editor /\ e.revision = editor.revision /\ f \in Editor /\ f.revision = editor.revision
    BY <1>0 DEF Editor
  <2>2. Clears(e) \/ Schedule(f)
    BY <1>5 DEF SwitchEnabled
  <2> HIDE DEF e, f
  <2> QED BY <2>1, <2>2, ClearsPage DEF Schedule, Clears
<1>6. CASE ChooseModel
  <2>1. PICK asked \in CompletionModels : Clears([editor EXCEPT !.model = asked])
    BY <1>6 DEF ChooseModel
  <2> DEFINE e == [editor EXCEPT !.model = asked]
  <2>2. e \in Editor /\ e.revision = editor.revision
    BY <1>0 DEF Editor
  <2>3. Clears(e)
    BY <2>1
  <2> HIDE DEF e
  <2> QED BY <2>2, <2>3, ClearsPage DEF Clears
<1>7. CASE Health
  <2> DEFINE e == [editor EXCEPT !.paused = TRUE]
             f == [editor EXCEPT !.paused = FALSE]
  <2>1. /\ e \in Editor /\ e.revision = editor.revision
        /\ f \in Editor /\ \A half \in {"revision", "model", "popup", "timer", "enabled"} : f[half] = editor[half]
    BY <1>0 DEF Editor
  <2>2. Clears(e) \/ (editor' = f /\ UNCHANGED <<suggests, quota, clock>>)
    BY <1>7 DEF Health
  <2> HIDE DEF e, f
  <2>3. CASE Clears(e)
    BY <2>1, <2>3, ClearsPage DEF Clears
  <2>4. CASE editor' = f /\ UNCHANGED <<suggests, quota, clock>>
    BY <2>1, <2>4, PageMoves
  <2> QED BY <2>2, <2>3, <2>4
<1>8. CASE Navigates
  <2>1. editor' \in Editor /\ \A half \in {"revision", "model", "popup", "timer", "enabled"} : editor'[half] = editor[half]
    BY <1>0, <1>8 DEF Navigates, Editor
  <2> QED BY <1>8, <2>1, PageMoves DEF Navigates
<1>9. CASE AcceptSuggestion
  <2>1. PICK spot \in Spots : Clears([editor EXCEPT !.spot = spot])
    BY <1>0, <1>9 DEF AcceptSuggestion
  <2> DEFINE e == [editor EXCEPT !.spot = spot]
  <2>2. e \in Editor /\ e.revision = editor.revision
    BY <1>0 DEF Editor
  <2>3. Clears(e)
    BY <2>1
  <2> HIDE DEF e
  <2> QED BY <2>2, <2>3, ClearsPage DEF Clears
<1>10. CASE TimerFires
  <2> DEFINE e == [editor EXCEPT !.timer = NoTimer]
  <2>1. NoTimer \in [revision : Nat, spot : Spots \cup {NoSpot}] /\ NoTimer.revision = 0
    BY DEF NoTimer
  <2>2. /\ e \in Editor /\ e.revision = editor.revision /\ e.model = editor.model /\ e.popup = editor.popup
        /\ e.enabled = editor.enabled /\ e.timer = NoTimer
    BY <1>0, <2>1 DEF Editor
  <2>3. RunAI(e, editor.timer.revision, editor.timer.spot, suggests) /\ editor.timer.spot \in Spots
    BY <1>0, <1>10 DEF TimerFires
  <2> HIDE DEF e
  <2> DEFINE new == [revision |-> editor.timer.revision, spot |-> editor.timer.spot, model |-> editor.model, at |-> "admitting",
                     since |-> 1, aborted |-> FALSE]
  <2>4. editor' = e /\ UNCHANGED <<quota, clock>> /\ (suggests' = suggests \/ suggests' = suggests \cup {new})
    BY <2>2, <2>3 DEF RunAI
  <2>5. CompletionTypeOK' /\ Counted'
    BY <1>0, <2>2, <2>3, <2>4, AsksBesides
  <2>6. new.revision = editor.timer.revision /\ new.model = editor.model
    OBVIOUS
  <2> HIDE DEF new
  <2>7. Offered'
    BY <1>0, <2>1, <2>2, <2>4, <2>6 DEF CompletionInv, AskedOfModel, QuotaKept, Offered
  <2> QED BY <2>5, <2>7, CountedIsKept, PTL
<1>11. CASE RetrySuggestion
  <2> DEFINE e == Cleared(editor)
             next == editor.revision + 1
  <2>1. /\ NoTimer \in [revision : Nat, spot : Spots \cup {NoSpot}] /\ NoTimer.revision = 0
        /\ NoSuggestion \in Suggestion /\ next \in Nat /\ next > editor.revision
    BY <1>0 DEF NoTimer, Suggestion
  <2>2. e = [editor EXCEPT !.revision = next, !.timer = NoTimer, !.popup = NoSuggestion]
    BY DEF Cleared
  <2>3. RunAI(e, next, editor.spot, AbortAll)
    BY <1>11 DEF RetrySuggestion
  <2> HIDE DEF next, e
  <2>4. e \in Editor /\ e.revision = next /\ e.model = editor.model /\ e.popup = NoSuggestion /\ e.timer = NoTimer
    BY <1>0, <2>1, <2>2 DEF Editor
  <2> DEFINE new == [revision |-> next, spot |-> editor.spot, model |-> editor.model, at |-> "admitting", since |-> 1, aborted |-> FALSE]
  <2>5. editor' = e /\ UNCHANGED <<quota, clock>> /\ (suggests' = AbortAll \/ suggests' = AbortAll \cup {new})
    BY <2>3, <2>4 DEF RunAI
  <2>6. CompletionTypeOK' /\ Counted'
    BY <1>0, <2>1, <2>4, <2>5, AsksBesides
  <2>7. new.revision = next /\ new.model = editor.model
    OBVIOUS
  <2> HIDE DEF new
  <2>8. \A x \in AbortAll : x.revision < next /\ x.revision \in Nat
    <3> SUFFICES ASSUME NEW x \in AbortAll PROVE x.revision < next /\ x.revision \in Nat
      OBVIOUS
    <3>1. PICK y \in suggests : x.revision = y.revision
      BY AbortedRequests
    <3>2. y.revision \in Nat /\ y.revision <= editor.revision
      BY <1>0 DEF CompletionInv, AskedOfModel, Suggest
    <3> QED BY <1>0, <2>1, <3>1, <3>2
  <2>9. Offered'
    <3>1. \A x \in suggests' : x.revision <= next /\ (x.revision = next => x.model = editor.model)
      BY <2>1, <2>5, <2>7, <2>8
    <3> QED BY <2>1, <2>4, <2>5, <3>1 DEF AskedOfModel, Offered
  <2> QED BY <2>6, <2>9, CountedIsKept, PTL
<1>12. ASSUME NEW r \in suggests, SuggestionArrives(r) PROVE CompletionInv'
  <2>1. r.at \in {"answered", "failed"} /\ suggests' = suggests \ {r} /\ UNCHANGED <<quota, clock>> /\ r \in Suggest
    BY <1>0, <1>12 DEF SuggestionArrives
  <2> DEFINE popup == [spot |-> r.spot, model |-> r.model]
  <2>2. popup \in Suggestion /\ popup.model = r.model
    BY <2>1 DEF Suggestion, Suggest
  <2>3. \/ editor' = editor
        \/ editor' = [editor EXCEPT !.popup = popup] /\ r.revision = editor.revision /\ editor.enabled
    BY <1>12 DEF SuggestionArrives
  <2> HIDE DEF popup
  <2>4. /\ editor' \in Editor /\ editor'.revision = editor.revision /\ editor'.model = editor.model
        /\ editor'.timer = editor.timer /\ editor'.enabled = editor.enabled
        /\ editor'.popup = editor.popup \/ (editor'.popup = popup /\ r.revision = editor.revision /\ editor.enabled)
    BY <1>0, <2>2, <2>3 DEF Editor
  <2>5. CompletionTypeOK'
    BY <1>0, <2>1, <2>4 DEF CompletionInv, CompletionTypeOK
  <2>6. OneAtATime'
    BY <2>1 DEF CompletionInv, OneAtATime
  <2>7. Counted'
    BY <2>1, <2>5, <2>6, QuieterCounts
  <2>8. Offered'
    BY <2>1, <2>2, <2>4 DEF CompletionInv, AskedOfModel, QuotaKept, Offered
  <2> QED BY <2>5, <2>7, <2>8, CountedIsKept, PTL
<1>13. ASSUME NEW r \in suggests, Admitted(r) \/ ModelAnswersRequest(r) PROVE CompletionInv'
  BY <1>13, RequestMoves DEF Admitted, ModelAnswersRequest
<1>14. ASSUME NEW r \in suggests, EnterQuota(r) PROVE CompletionInv'
  <2>1. CASE quota.loaded
    BY <1>14, <2>1, CountKeeps DEF EnterQuota
  <2>2. CASE ~quota.loaded
    <3> DEFINE moved == [r EXCEPT !.at = "loading"]
    <3>1. ~Locked /\ suggests' = (suggests \ {r}) \cup {moved} /\ UNCHANGED <<editor, quota, clock>>
      BY <1>14, <2>2 DEF EnterQuota, At
    <3>2. moved \in Suggest /\ moved.at = "loading" /\ moved.revision = r.revision /\ moved.model = r.model
      BY <1>0 DEF Suggest
    <3> HIDE DEF moved
    <3>3. CompletionTypeOK'
      BY <1>0, <3>1, <3>2 DEF CompletionInv, CompletionTypeOK
    <3>4. OneAtATime'
      BY <2>2, <3>1, <3>2 DEF CompletionInv, OneAtATime, Locked
    <3>5. Counted'
      BY <3>1, <3>2, <3>3, <3>4, QuieterCounts
    <3>6. Offered'
      BY <3>1, <3>2 DEF CompletionInv, AskedOfModel, QuotaKept, Offered
    <3> QED BY <3>3, <3>5, <3>6, CountedIsKept, PTL
  <2> QED BY <2>1, <2>2
<1>15. ASSUME NEW r \in suggests, LoadQuota(r) PROVE CompletionInv'
  BY <1>15, CountKeeps DEF LoadQuota
<1>16. ASSUME NEW r \in suggests, WriteQuota(r) PROVE CompletionInv'
  BY <1>16, WriteKeeps
<1>17. CASE BridgeStops
  BY <1>17, StopKeeps
<1>18. CASE Tick
  BY <1>18, TickKeeps
<1>19. CASE UNCHANGED completionVars
  <2>1. UNCHANGED <<editor, suggests, quota, clock>>
    BY <1>19 DEF completionVars
  <2> QED BY <1>0, <2>1, PageMoves
<1> QED
  BY <1>1, <1>2, <1>3, <1>4, <1>5, <1>6, <1>7, <1>8, <1>9, <1>10, <1>11, <1>12, <1>13, <1>14, <1>15, <1>16, <1>17, <1>18, <1>19
  DEF CompletionNext

(* Whatever overlaps, stops and starts again, the model is asked no more     *)
(* often in a minute or a day than the limits say, and no suggestion of      *)
(* another model is shown (editor-completion.ts, editor-completion-ui.ts).   *)
THEOREM QuotasHold == CompletionSpec => []QuotaKept
<1>1. CompletionInv => QuotaKept
  BY DEF CompletionInv
<1> QED BY <1>1, CompletionStart, CompletionStep, PTL DEF CompletionSpec

-----------------------------------------------------------------------------
(* The parts of the client that TLC runs, side by side. *)

LEMMA PartsAlone ==
  ASSUME [ClientNext]_clientVars
  PROVE  /\ part' = part
         /\ [SandboxNext]_sandboxVars /\ [SignInNext]_signInVars /\ [SelectionNext]_selectionVars /\ [LaneNext]_laneVars
         /\ [MapsNext]_mapVars /\ [PanelNext]_panelVars /\ [CompletionNext]_completionVars
         /\ [DictationNext]_dictationVars
<1>1. CASE UNCHANGED <<part, editorVars>>
  BY <1>1 DEF ClientNext, clientVars, sessionVars, editorVars
<1>2. CASE UNCHANGED <<part, sessionVars>>
  BY <1>2 DEF ClientNext, clientVars, sessionVars, editorVars
<1>3. CASE UNCHANGED clientVars
  BY <1>3 DEF clientVars, sessionVars, editorVars
<1> QED BY <1>1, <1>2, <1>3 DEF ClientNext

(* Each of these parts keeps what its properties rest on, for every value   *)
(* of its constants (sandbox-manager.ts, auth-lifecycle.ts,                 *)
(* session-context.ts, capability-runtime.ts, workspace-map.ts,             *)
(* flowchart-ui.ts, editor-completion.ts, dictation.ts).                    *)
THEOREM ClientKeepsItsParts == ClientSpec => []ClientInv
<1> DEFINE P == {"sandbox", "signIn", "selection", "lanes", "maps", "panel", "completion", "dictation"}
           I == part \in P /\ ClientInv
<1>1. ClientInit => I
  <2> SUFFICES ASSUME ClientInit PROVE I
    OBVIOUS
  <2>1. SandboxInv /\ SignInInv /\ SelectionInv /\ LaneInv
    BY SandboxStart, SignInStart, SelectionStart, LaneStart DEF ClientInit
  <2>2. MapsInv /\ PanelInv /\ CompletionInv /\ DictationInv
    BY MapsStart, PanelStart, CompletionStart, DictationStart DEF ClientInit
  <2> QED BY <2>1, <2>2 DEF ClientInit, ClientInv
<1>2. I /\ [ClientNext]_clientVars => I'
  <2> SUFFICES ASSUME I, [ClientNext]_clientVars PROVE I'
    OBVIOUS
  <2>1. part' = part /\ part \in P
    BY PartsAlone
  <2>2. /\ SandboxInv => SandboxInv'
        /\ SignInInv => SignInInv'
        /\ SelectionInv => SelectionInv'
        /\ LaneInv => LaneInv'
    BY PartsAlone, SandboxStep, SignInStep, SelectionStep, LaneStep
  <2>3. /\ MapsInv => MapsInv'
        /\ PanelInv => PanelInv'
        /\ CompletionInv => CompletionInv'
        /\ DictationInv => DictationInv'
    BY PartsAlone, MapsStep, PanelStep, CompletionStep, DictationStep
  <2> QED BY <2>1, <2>2, <2>3 DEF ClientInv
<1> QED BY <1>1, <1>2, PTL DEF ClientSpec
=============================================================================

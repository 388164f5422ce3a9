------------------------------- MODULE SignIn -------------------------------
(***************************************************************************)
(* createAuthLifecycle (packages/shared/src/auth-lifecycle.ts) in a page   *)
(* or a terminal: callbacks, confirmations, sign-out, and the stored       *)
(* session they share with the auth client.  An action is the code between *)
(* two awaits; the client's calls take effect one at a time.               *)
(***************************************************************************)
EXTENDS Naturals

CONSTANTS Codes,    \* callback codes; a code stands for its session and user
          Runs,     \* callers of the lifecycle
          Earlier,  \* the session of an earlier visit
          NoCode

VARIABLES session,   \* stored session: the code whose exchange created it
          stale,     \* its access token has expired
          snapshot,  \* [status, user, message]
          flow,       \* call under way of each caller
          settled,   \* callbacks that ended: "ok", "failed"
          late,      \* exchanges that outlived their time limit
          exchanges, \* times a code was exchanged since the page loaded or signed out
          redeemed   \* codes the service has redeemed, each once

signInVars == <<session, stale, snapshot, flow, settled, late, exchanges, redeemed>>
StoredSessions == Codes \cup {Earlier, NoCode}

ASSUME SignInAssumption == NoCode \notin Codes \cup {Earlier} /\ Earlier \notin Codes

AuthStatuses == {"logged_out", "authenticating", "callback", "authenticated", "expired", "denied", "unauthorized"}
Snap(status, user, message) == [status |-> status, user |-> user, message |-> message]
AtRest == [at |-> "idle", code |-> NoCode, previous |-> Snap("logged_out", NoCode, FALSE),
         refreshed |-> FALSE, user |-> NoCode]

Snapshot == [status : AuthStatuses, user : StoredSessions, message : BOOLEAN]
Flow ==
  [at : {"idle", "exchange", "getSession", "refresh", "getUser", "authorize", "drop", "clear"},
   code : Codes \cup {NoCode}, previous : Snapshot, refreshed : BOOLEAN, user : StoredSessions]

SignInTypeOK ==
  /\ session \in StoredSessions /\ stale \in BOOLEAN
  /\ snapshot \in Snapshot /\ flow \in [Runs -> Flow]
  /\ \A r \in Runs : flow[r].at = "exchange" => flow[r].code \in Codes
  /\ settled \in [Codes -> {"no", "ok", "failed"}]
  /\ late \in [Codes -> {"no", "pending", "landed", "dropped"}]
  /\ exchanges \in [Codes -> Nat] /\ redeemed \subseteq Codes

SignInInit ==
  /\ session \in {NoCode, Earlier} /\ stale \in BOOLEAN
  /\ snapshot = AtRest.previous /\ flow = [r \in Runs |-> AtRest]
  /\ settled = [k \in Codes |-> "no"] /\ late = [k \in Codes |-> "no"]
  /\ exchanges = [k \in Codes |-> 0] /\ redeemed = {}

FlowGoes(r, rec) == flow' = [flow EXCEPT ![r] = rec]
Confirming(r) == FlowGoes(r, [flow[r] EXCEPT !.at = "getSession", !.refreshed = FALSE])

\* A confirmation of resolve may put back the explanation from before it.
Restored(r, s) ==
  IF /\ flow[r].code = NoCode /\ s.status = "logged_out" /\ ~s.message
     /\ flow[r].previous.status \in {"denied", "expired"}
  THEN flow[r].previous ELSE s

FlowEnds(r, s) == snapshot' = Restored(r, s) /\ FlowGoes(r, AtRest)

(***************************************************************************)
(* handleCallback and finishCallback.                                      *)
(***************************************************************************)
inflight(k) == \E r \in Runs : flow[r].at # "idle" /\ flow[r].code = k

\* A delivery that repeats a running or an ended one changes nothing.  Bound: a
\* code whose late exchange is still open is not delivered again after a sign-out.
handleCallback(r, k) ==
  /\ flow[r].at = "idle" /\ ~inflight(k) /\ settled[k] = "no" /\ late[k] \notin {"pending", "landed"}
  /\ snapshot' = Snap("callback", NoCode, FALSE)
  /\ FlowGoes(r, [AtRest EXCEPT !.at = "exchange", !.code = k])
  /\ exchanges' = [exchanges EXCEPT ![k] = @ + 1]
  /\ UNCHANGED <<session, stale, settled, late, redeemed>>

\* The redirect reports an error: denied consent.
CallbackDenied ==
  /\ snapshot' = Snap("denied", NoCode, TRUE)
  /\ UNCHANGED <<session, stale, flow, settled, late, exchanges, redeemed>>

ExchangeSucceeds(r) ==
  LET k == flow[r].code IN
  /\ flow[r].at = "exchange" /\ k \notin redeemed
  /\ redeemed' = redeemed \cup {k}
  /\ session' = k /\ stale' = FALSE
  /\ settled' = [settled EXCEPT ![k] = "ok"]
  /\ snapshot' = Snap("authenticating", NoCode, FALSE)
  /\ Confirming(r)
  /\ UNCHANGED <<late, exchanges>>

ExchangeFails(r) ==
  /\ flow[r].at = "exchange"
  /\ settled' = [settled EXCEPT ![flow[r].code] = "failed"]
  /\ FlowEnds(r, Snap("denied", NoCode, TRUE))
  /\ UNCHANGED <<session, stale, late, exchanges, redeemed>>

ExchangeTimesOut(r) ==
  /\ flow[r].at = "exchange"
  /\ late' = [late EXCEPT ![flow[r].code] = "pending"]
  /\ settled' = [settled EXCEPT ![flow[r].code] = "failed"]
  /\ FlowEnds(r, Snap("denied", NoCode, TRUE))
  /\ UNCHANGED <<session, stale, exchanges, redeemed>>

\* The exchange that timed out ends after all; a success is undone.
LateExchange(k) ==
  /\ late[k] = "pending"
  /\ \/ /\ k \notin redeemed /\ redeemed' = redeemed \cup {k}
        /\ session' = k /\ stale' = FALSE /\ late' = [late EXCEPT ![k] = "landed"]
     \/ late' = [late EXCEPT ![k] = "no"] /\ UNCHANGED <<session, stale, redeemed>>
  /\ UNCHANGED <<snapshot, flow, settled, exchanges>>

\* A version that drops the session only when the late exchange failed.
BadLateDrop(k) ==
  /\ late[k] = "landed"
  /\ late' = [late EXCEPT ![k] = "dropped"]
  /\ UNCHANGED <<session, stale, snapshot, flow, settled, exchanges, redeemed>>

LateDrop(k) ==
  /\ late[k] = "landed"
  /\ session' = NoCode
  /\ late' = [late EXCEPT ![k] = "dropped"]
  /\ UNCHANGED <<stale, snapshot, flow, settled, exchanges, redeemed>>

(***************************************************************************)
(* resolve and confirm.                                                    *)
(***************************************************************************)
resolving == \E r \in Runs : flow[r].at \notin {"idle", "clear"} /\ flow[r].code = NoCode

resolve(r) ==
  /\ flow[r].at = "idle" /\ ~resolving
  /\ FlowGoes(r, [AtRest EXCEPT !.at = "getSession", !.previous = snapshot])
  /\ snapshot' = Snap("authenticating", NoCode, FALSE)
  /\ UNCHANGED <<session, stale, settled, late, exchanges, redeemed>>

\* A version that reports a stored session that has not expired.
BadGetSession(r) ==
  /\ flow[r].at = "getSession"
  /\ IF session = NoCode THEN FlowEnds(r, Snap("logged_out", NoCode, FALSE))
     ELSE IF stale THEN FlowGoes(r, [flow[r] EXCEPT !.at = "refresh"]) /\ UNCHANGED snapshot
     ELSE FlowEnds(r, Snap("authenticated", session, FALSE))
  /\ UNCHANGED <<session, stale, settled, late, exchanges, redeemed>>

getSession(r) ==
  /\ flow[r].at = "getSession"
  /\ IF session = NoCode THEN FlowEnds(r, Snap("logged_out", NoCode, FALSE))
     ELSE FlowGoes(r, [flow[r] EXCEPT !.at = IF stale THEN "refresh" ELSE "getUser"]) /\ UNCHANGED snapshot
  /\ UNCHANGED <<session, stale, settled, late, exchanges, redeemed>>

refreshSession(r) ==
  /\ flow[r].at = "refresh"
  /\ \/ session # NoCode /\ stale' = FALSE /\ FlowGoes(r, [flow[r] EXCEPT !.at = "getUser", !.refreshed = TRUE])
     \/ FlowGoes(r, [flow[r] EXCEPT !.at = "drop"]) /\ UNCHANGED stale
  /\ UNCHANGED <<session, snapshot, settled, late, exchanges, redeemed>>

\* The backend confirms the user of the stored session, or does not.
UserConfirmed(r) ==
  /\ flow[r].at = "getUser" /\ session # NoCode
  /\ FlowGoes(r, [flow[r] EXCEPT !.at = "authorize", !.user = session])
  /\ UNCHANGED <<session, stale, snapshot, settled, late, exchanges, redeemed>>

UserRefused(r) ==
  /\ flow[r].at = "getUser"
  /\ FlowGoes(r, [flow[r] EXCEPT !.at = IF flow[r].refreshed THEN "drop" ELSE "refresh"])
  /\ UNCHANGED <<session, stale, snapshot, settled, late, exchanges, redeemed>>

\* The caller's check passes, refuses, or cannot be made; a caller without one is always passed.
Authorized(r) ==
  /\ flow[r].at = "authorize"
  /\ FlowEnds(r, Snap("authenticated", flow[r].user, FALSE))
  /\ UNCHANGED <<session, stale, settled, late, exchanges, redeemed>>

NotAuthorized(r) ==
  /\ flow[r].at = "authorize"
  /\ FlowEnds(r, Snap("unauthorized", flow[r].user, TRUE))
  /\ UNCHANGED <<session, stale, settled, late, exchanges, redeemed>>

\* dropLocalSession, after which the confirmation reports the session as expired.
DropExpired(r) ==
  /\ flow[r].at = "drop"
  /\ session' = NoCode
  /\ FlowEnds(r, Snap("expired", NoCode, TRUE))
  /\ UNCHANGED <<stale, settled, late, exchanges, redeemed>>

\* A request of the confirmation fails or runs out of time.
ConfirmFails(r) ==
  /\ flow[r].at \in {"getSession", "refresh", "getUser"}
  /\ \/ FlowEnds(r, Snap("logged_out", NoCode, TRUE))
     \/ FlowGoes(r, [flow[r] EXCEPT !.at = "drop"]) /\ UNCHANGED snapshot
  /\ UNCHANGED <<session, stale, settled, late, exchanges, redeemed>>

(***************************************************************************)
(* signOut, a page that loads again, and a token that expires.             *)
(***************************************************************************)
signOut(r) ==
  /\ flow[r].at = "idle"
  /\ FlowGoes(r, [AtRest EXCEPT !.at = "clear"])
  /\ UNCHANGED <<session, stale, snapshot, settled, late, exchanges, redeemed>>

SignedOut(r) ==
  /\ flow[r].at = "clear"
  /\ session' = NoCode
  /\ settled' = [k \in Codes |-> "no"]
  /\ exchanges' = [k \in Codes |-> IF \E q \in Runs : flow[q].at = "exchange" /\ flow[q].code = k THEN 1 ELSE 0]
  /\ FlowEnds(r, Snap("logged_out", NoCode, FALSE))
  /\ UNCHANGED <<stale, late, redeemed>>

Reload ==
  /\ snapshot' = AtRest.previous /\ flow' = [r \in Runs |-> AtRest]
  /\ settled' = [k \in Codes |-> "no"] /\ late' = [k \in Codes |-> "no"]
  /\ exchanges' = [k \in Codes |-> 0]
  /\ UNCHANGED <<session, stale, redeemed>>

TokenExpires == stale' = TRUE /\ UNCHANGED <<session, snapshot, flow, settled, late, exchanges, redeemed>>

\* beginSignIn: the status waits for the redirect, or says why there is none.
beginSignIn ==
  /\ snapshot' \in {Snap("authenticating", NoCode, FALSE), Snap("logged_out", NoCode, TRUE)}
  /\ UNCHANGED <<session, stale, flow, settled, late, exchanges, redeemed>>

FlowSteps(r) ==
  \/ ExchangeSucceeds(r) \/ ExchangeFails(r) \/ ExchangeTimesOut(r)
  \/ getSession(r) \/ refreshSession(r) \/ UserConfirmed(r) \/ UserRefused(r)
  \/ Authorized(r) \/ NotAuthorized(r) \/ DropExpired(r) \/ ConfirmFails(r) \/ SignedOut(r)

SignInNext ==
  \/ \E r \in Runs : FlowSteps(r) \/ resolve(r) \/ signOut(r) \/ \E k \in Codes : handleCallback(r, k)
  \/ \E k \in Codes : LateExchange(k) \/ LateDrop(k)
  \/ CallbackDenied \/ Reload \/ TokenExpires \/ beginSignIn

SignInSpec == SignInInit /\ [][SignInNext]_signInVars

(***************************************************************************)
(* Properties                                                              *)
(***************************************************************************)
\* "authenticated is only ever reported after the auth backend has validated the
\* user": by a call that got that user from it, and never from the stored session.
AuthenticatedIsConfirmed ==
  [][ (snapshot' # snapshot /\ snapshot'.status = "authenticated") =>
        \E r \in Runs : flow[r].user = snapshot'.user /\ flow'[r] = AtRest ]_signInVars

\* A callback delivered again, at the same time or after any outcome, does not exchange
\* its single-use code again; and a slow exchange creates no session after its failure
\* was reported: what it stored is gone when it is over, whatever signed in, refreshed or
\* confirmed meanwhile.
LateLeavesNothing ==
  \A k \in Codes : exchanges[k] <= 1 /\ (late[k] = "dropped" => session # k)

\* What makes that inductive: a code that was exchanged is being exchanged or has been
\* answered for, and one whose late exchange took effect is redeemed for good.
ExchangedOnce ==
  \A k \in Codes :
    /\ exchanges[k] > 0 => settled[k] # "no" \/ \E r \in Runs : flow[r].at = "exchange" /\ flow[r].code = k
    /\ late[k] \in {"landed", "dropped"} => k \in redeemed

SignInInv == SignInTypeOK /\ ExchangedOnce /\ LateLeavesNothing
=============================================================================

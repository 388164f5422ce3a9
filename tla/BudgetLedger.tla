---------------------------- MODULE BudgetLedger ----------------------------
(***************************************************************************)
(* What the institution is promised about its model budgets, without the   *)
(* gateway, the transactions or the aggregates: a request commits an       *)
(* amount to the month it was reserved in, and only if every budget over   *)
(* its account stays within its limit; settling it can only lower the      *)
(* amount; nothing else moves it.  ModelBudget is shown to implement this. *)
(***************************************************************************)
EXTENDS Sums

CONSTANTS NumRequests, Accounts, Months, Budgets, Covers, Settings, Meters, NULL

VARIABLES
  cap,     \* the setting of each budget
  entry    \* what each request has committed

Requests == 1..NumRequests

Nothing == [phase |-> "none", month |-> 0, account |-> 0, agent |-> FALSE,
            charge |-> [m \in Meters |-> 0]]

Committed(b, k, m) ==
  SumTo([r \in Requests |->
         IF entry[r].phase # "none" /\ entry[r].month = k /\ entry[r].account \in Covers[b]
         THEN entry[r].charge[m] ELSE 0], NumRequests)

Init ==
  /\ cap \in [Budgets -> Settings]
  /\ entry = [r \in Requests |-> Nothing]

(* An agent request must also leave the tutoring reserve untouched. *)
Fits(b, isAgent, m, total) ==
  cap[b].limit[m] # NULL =>
    /\ total <= cap[b].limit[m]
    /\ isAgent => total * 1000 <= cap[b].limit[m] * (1000 - cap[b].reserve)

Commit(r) ==
  /\ entry[r].phase = "none"
  /\ entry'[r].phase = "reserved"
  /\ entry' = [entry EXCEPT ![r] = entry'[r]]
  /\ \A b \in Budgets : entry'[r].account \in Covers[b] =>
       \A m \in Meters :
         Fits(b, entry'[r].agent, m,
              Committed(b, entry'[r].month, m) + entry'[r].charge[m])
  /\ UNCHANGED cap

Settle(r) ==
  /\ entry[r].phase = "reserved"
  /\ entry'[r].charge \in [Meters -> Nat]
  /\ \A m \in Meters : entry'[r].charge[m] <= entry[r].charge[m]
  /\ entry' = [entry EXCEPT ![r].phase = "settled", ![r].charge = entry'[r].charge]
  /\ UNCHANGED cap

SetCap(b) ==
  /\ cap'[b] \in Settings
  /\ cap' = [cap EXCEPT ![b] = cap'[b]]
  /\ UNCHANGED entry

Next ==
  \/ \E r \in Requests : Commit(r) \/ Settle(r)
  \/ \E b \in Budgets : SetCap(b)

Spec == Init /\ [][Next]_<<cap, entry>>
=============================================================================

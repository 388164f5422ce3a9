---------------------------- MODULE ModelBudget ----------------------------
(***************************************************************************)
(* The institution's model budget: the gateway process that serves the     *)
(* students' model requests, and the two database functions that reserve   *)
(* budget before the provider is called and settle the real usage after.   *)
(*                                                                         *)
(*   services/model-gateway/src/index.ts            one process per request*)
(*   gateway_reserve_model_request                  Admit, Deny            *)
(*   gateway_settle_model_request                   Settle*                *)
(*   aggregate_usage_ledger (trigger)               part of SettleRecords  *)
(*   save_organization_budget, save_model_price     SaveBudget, SavePrice  *)
(*   check_model_budget (the client's preflight)    Preflight operators    *)
(*                                                                         *)
(* Both functions take the organization's row lock before they read a      *)
(* budget and keep it until they commit, so a decision is one step; what   *)
(* happens between the gateway's call and that step (the month turns, an   *)
(* administrator edits, the gateway dies) is interleaved.  A reply that is *)
(* lost after the commit is a gateway that gave up before it: LoseRpc and  *)
(* Crash leave the transaction running.                                    *)
(***************************************************************************)
EXTENDS Sums, FiniteSetsExt

CONSTANTS
  NumRequests,    \* requests the gateway ever receives (bound)
  NumAccounts,    \* usage_daily dimensions: class, user, project and profile
  NumMonths,      \* calendar months that pass (bound)
  Budgets,        \* keys of organization_budgets
  Covers,         \* Covers[b]: the accounts inside the scope of budget b
  Profiles,       \* model profiles
  ProfileOf,      \* the profile of an account
  Prices,         \* price versions an administrator may save
  Settings,       \* budget settings an administrator may save
  INPUT_BOUND,    \* input tokens reserved for every request
  OutputBounds,   \* output limits a request may ask for
  Usages,         \* usage a provider may report
  PerMillion,     \* a price is in micros per this many tokens
  NULL            \* SQL null: no limit, no price, no row

Requests == 1..NumRequests
Accounts == 1..NumAccounts
Months   == 1..NumMonths

(* A limit is set on either, both or none of the two. *)
Meters  == {"tokens", "cost"}
Amounts == [Meters -> Nat]

Price   == [input: Nat, output: Nat, cacheRead: Nat, cacheWrite: Nat]
Setting == [limit: [Meters -> (Nat \ {0}) \cup {NULL}], reserve: 0..999]
Usage   == [input: Nat, output: Nat, cacheRead: Nat, cacheWrite: Nat]

ASSUME BoundsAssumption ==
  /\ NumRequests \in Nat /\ NumAccounts \in Nat /\ NumMonths \in Nat \ {0}
  /\ INPUT_BOUND \in Nat \ {0} /\ PerMillion \in Nat \ {0}
  /\ OutputBounds \subseteq Nat \ {0}

ASSUME TenantAssumption ==
  /\ Covers \in [Budgets -> SUBSET Accounts]
  /\ ProfileOf \in [Accounts -> Profiles]
  /\ Prices \subseteq Price /\ Settings \subseteq Setting /\ Usages \subseteq Usage

ASSUME NullAssumption ==
  /\ NULL \notin Nat /\ NULL \notin Price /\ NULL \notin Usage
  /\ NULL \notin [month: Months, amount: Amounts]

VARIABLES
  month,    \* the database clock, in calendar months
  budget,   \* organization_budgets
  price,    \* the latest row of model_prices of each profile
  res,      \* model_request_reservations; status "none" is no row
  ledger,   \* usage_ledger, keyed by reservation id
  daily,    \* usage_daily, per month and account
  txn,      \* the database transaction a request has under way
  pc,       \* what the gateway is doing for a request
  call,     \* the arguments of the request and the start of its transaction
  usage     \* usage the provider reported

tables  == <<res, ledger, daily>>
tenant  == <<month, budget, price>>
gateway == <<txn, pc, call, usage>>
vars    == <<month, budget, price, res, ledger, daily, txn, pc, call, usage>>

-----------------------------------------------------------------------------
(* What a request costs *)

CeilDiv(x, d) == (x + d - 1) \div d

(* Faulty variants, named Bad..., stand before the definitions they vary: a *)
(* run that uses one in place of the code's own must fail.                  *)
BadReserveCostInputRate(p, out) ==   \* cached input priced as plain input
  IF p = NULL THEN 0 ELSE CeilDiv(INPUT_BOUND * p.input + out * p.output, PerMillion)

BadReserveCostNull(p, out) ==        \* no coalesce for an unpriced model
  IF p = NULL THEN NULL
  ELSE CeilDiv(INPUT_BOUND * Max({p.input, p.cacheRead, p.cacheWrite}) + out * p.output,
               PerMillion)

(* The most a request can cost: every input token at the dearest rate. *)
ReserveCost(p, out) ==
  IF p = NULL THEN 0
  ELSE CeilDiv(INPUT_BOUND * Max({p.input, p.cacheRead, p.cacheWrite}) + out * p.output,
               PerMillion)

Reserve(p, out) ==
  [m \in Meters |-> IF m = "tokens" THEN INPUT_BOUND + out ELSE ReserveCost(p, out)]

ActualCost(p, u) ==
  IF p = NULL THEN 0
  ELSE CeilDiv(u.input * p.input + u.output * p.output
               + u.cacheRead * p.cacheRead + u.cacheWrite * p.cacheWrite, PerMillion)

Actual(p, u) ==
  [m \in Meters |-> IF m = "tokens" THEN u.input + u.output + u.cacheRead + u.cacheWrite
                                    ELSE ActualCost(p, u)]

-----------------------------------------------------------------------------
(* What a budget has committed.  The queries take every row from the start *)
(* of the transaction's month on: a transaction that waited for the lock   *)
(* past the end of its month sees later rows too.                          *)

UsedIn(b, k, m) ==
  SumTo([a \in Accounts |-> IF a \in Covers[b] THEN daily[k][a].amount[m] ELSE 0], NumAccounts)

BadUsed(b, since, m) ==              \* the current month left out
  SumTo([k \in Months |-> IF k > since THEN UsedIn(b, k, m) ELSE 0], NumMonths)

Used(b, since, m) ==
  SumTo([k \in Months |-> IF k >= since THEN UsedIn(b, k, m) ELSE 0], NumMonths)

BadHeld(b, since, m) ==              \* reservations of the current month left out
  SumTo([r \in Requests |->
         IF res[r].status = "reserved" /\ res[r].month > since /\ res[r].account \in Covers[b]
         THEN res[r].amount[m] ELSE 0], NumRequests)

Held(b, since, m) ==
  SumTo([r \in Requests |->
         IF res[r].status = "reserved" /\ res[r].month >= since /\ res[r].account \in Covers[b]
         THEN res[r].amount[m] ELSE 0], NumRequests)

CostUnknown(b, since) ==
  \E k \in Months, a \in Covers[b] : k >= since /\ daily[k][a].unknown > 0

Limited(b, m) == budget[b].limit[m] # NULL

(* predicted > 1 *)
OverLimit(b, m, total) == Limited(b, m) /\ total > budget[b].limit[m]

(* predicted > 1 - assistance_reserve_fraction, in thousandths *)
OverAgentShare(b, m, total) ==
  /\ budget[b].reserve > 0
  /\ Limited(b, m)
  /\ total * 1000 > budget[b].limit[m] * (1000 - budget[b].reserve)

BadAllowsAgents(b, c, p) ==          \* agent requests judged like any other
  LET predicted(m) == Used(b, c.month, m) + Held(b, c.month, m) + Reserve(p, c.output)[m]
  IN  /\ Limited(b, "cost") => p # NULL /\ ~ CostUnknown(b, c.month)
      /\ \A m \in Meters : ~ OverLimit(b, m, predicted(m))

BadAllowsUnknown(b, c, p) ==         \* usage of unknown cost counted as free
  LET predicted(m) == Used(b, c.month, m) + Held(b, c.month, m) + Reserve(p, c.output)[m]
  IN  /\ Limited(b, "cost") => p # NULL
      /\ \A m \in Meters : ~ OverLimit(b, m, predicted(m))
      /\ c.agent => \A m \in Meters : ~ OverAgentShare(b, m, predicted(m))

BadAllowsHeld(b, c, p) ==            \* reservations still held not counted
  LET predicted(m) == Used(b, c.month, m) + Reserve(p, c.output)[m]
  IN  /\ Limited(b, "cost") => p # NULL /\ ~ CostUnknown(b, c.month)
      /\ \A m \in Meters : ~ OverLimit(b, m, predicted(m))
      /\ c.agent => \A m \in Meters : ~ OverAgentShare(b, m, predicted(m))

Allows(b, c, p) ==
  LET predicted(m) == Used(b, c.month, m) + Held(b, c.month, m) + Reserve(p, c.output)[m]
  IN  /\ Limited(b, "cost") => p # NULL /\ ~ CostUnknown(b, c.month)
      /\ \A m \in Meters : ~ OverLimit(b, m, predicted(m))
      /\ c.agent => \A m \in Meters : ~ OverAgentShare(b, m, predicted(m))

Applies(b, c) == c.account \in Covers[b]

-----------------------------------------------------------------------------
(* Initially nothing has been asked, spent or set in the month. *)

NoCall == [account |-> 0, agent |-> FALSE, output |-> 0, month |-> 0, price |-> NULL]
NoReservation == [status |-> "none", month |-> 0, account |-> 0, price |-> NULL,
                  amount |-> [m \in Meters |-> 0]]
NoUsage == [amount |-> [m \in Meters |-> 0], unknown |-> 0]

Init ==
  /\ month = 1
  /\ budget \in [Budgets -> Settings]
  /\ price \in [Profiles -> Prices \cup {NULL}]
  /\ res = [r \in Requests |-> NoReservation]
  /\ ledger = [r \in Requests |-> NULL]
  /\ daily = [k \in Months |-> [a \in Accounts |-> NoUsage]]
  /\ txn = [r \in Requests |-> "none"]
  /\ pc = [r \in Requests |-> "idle"]
  /\ call = [r \in Requests |-> NoCall]
  /\ usage = [r \in Requests |-> NULL]

-----------------------------------------------------------------------------
(* The gateway *)

(* Requests are numbered in the order the gateway takes them up. *)
IsNext(r) == pc[r] = "idle" /\ \A q \in 1..(r - 1) : pc[q] # "idle"

InFlight == {"reserving", "admitted", "calling", "settling"}

(* Sign-in, session, shape or size is refused before anything is reserved. *)
TurnAway(r) ==
  /\ IsNext(r)
  /\ pc' = [pc EXCEPT ![r] = "refused"]
  /\ UNCHANGED <<tenant, tables, txn, call, usage>>

(* The reservation is requested; its transaction's now() is fixed here, and *)
(* with it the month and the price that is effective.                       *)
Arrive(r, a, isAgent, out) ==
  /\ IsNext(r)
  /\ pc' = [pc EXCEPT ![r] = "reserving"]
  /\ call' = [call EXCEPT ![r] = [account |-> a, agent |-> isAgent, output |-> out,
                                  month |-> month, price |-> price[ProfileOf[a]]]]
  /\ txn' = [txn EXCEPT ![r] = "reserve"]
  /\ UNCHANGED <<tenant, tables, usage>>

(* The provider is not configured, or the reservation reply is unusable. *)
NoProvider(r) ==
  /\ pc[r] = "admitted"
  /\ pc' = [pc EXCEPT ![r] = "failed"]
  /\ UNCHANGED <<tenant, tables, txn, call, usage>>

CallProvider(r) ==
  /\ pc[r] = "admitted"
  /\ pc' = [pc EXCEPT ![r] = "calling"]
  /\ UNCHANGED <<tenant, tables, txn, call, usage>>

BadProviderFails(r) ==               \* a failed call releases its reservation
  /\ pc[r] = "calling"
  /\ pc' = [pc EXCEPT ![r] = "failed"]
  /\ res' = [res EXCEPT ![r] = NoReservation]
  /\ UNCHANGED <<tenant, ledger, daily, txn, call, usage>>

(* The provider refuses, breaks off, or reports usage that cannot be verified. *)
ProviderFails(r) ==
  /\ pc[r] = "calling"
  /\ pc' = [pc EXCEPT ![r] = "failed"]
  /\ UNCHANGED <<tenant, tables, txn, call, usage>>

(* A completion with verifiable usage: the gateway asks for settlement. *)
ProviderAnswers(r, u) ==
  /\ pc[r] = "calling"
  /\ pc' = [pc EXCEPT ![r] = "settling"]
  /\ usage' = [usage EXCEPT ![r] = u]
  /\ txn' = [txn EXCEPT ![r] = "settle"]
  /\ UNCHANGED <<tenant, tables, call>>

(* The database call fails for the gateway; the transaction may still commit. *)
LoseRpc(r) ==
  /\ pc[r] \in {"reserving", "settling"}
  /\ pc' = [pc EXCEPT ![r] = "failed"]
  /\ UNCHANGED <<tenant, tables, txn, call, usage>>

(* The gateway process dies with everything it had under way. *)
Crash ==
  /\ \E r \in Requests : pc[r] \in InFlight
  /\ pc' = [r \in Requests |-> IF pc[r] \in InFlight THEN "failed" ELSE pc[r]]
  /\ UNCHANGED <<tenant, tables, txn, call, usage>>

(* The network delivers a settlement again. *)
RedeliverSettle(r) ==
  /\ usage[r] # NULL /\ txn[r] = "none"
  /\ txn' = [txn EXCEPT ![r] = "settle"]
  /\ UNCHANGED <<tenant, tables, pc, call, usage>>

-----------------------------------------------------------------------------
(* The database, one step per transaction that holds the organization's lock *)

Done(r) == txn' = [txn EXCEPT ![r] = "none"]

Reply(r, from, to) == pc' = [pc EXCEPT ![r] = IF @ = from THEN to ELSE @]

(* A price saved while the transaction waited counts if its own transaction *)
(* started earlier, so either price may be the effective one.               *)
PriceAt(r) == {call[r].price, price[ProfileOf[call[r].account]]}

Admit(r, p) ==
  /\ \A b \in Budgets : Applies(b, call[r]) => Allows(b, call[r], p)
  /\ res' = [res EXCEPT ![r] = [status |-> "reserved", month |-> call[r].month,
                                account |-> call[r].account, price |-> p,
                                amount |-> Reserve(p, call[r].output)]]
  /\ Done(r)
  /\ Reply(r, "reserving", "admitted")
  /\ UNCHANGED <<tenant, ledger, daily, call, usage>>

BadDeny(r, p) ==                     \* the refusal is not passed on
  /\ \E b \in Budgets : Applies(b, call[r]) /\ ~ Allows(b, call[r], p)
  /\ Done(r)
  /\ UNCHANGED <<tenant, tables, pc, call, usage>>

Deny(r, p) ==
  /\ \E b \in Budgets : Applies(b, call[r]) /\ ~ Allows(b, call[r], p)
  /\ Done(r)
  /\ Reply(r, "reserving", "refused")
  /\ UNCHANGED <<tenant, tables, call, usage>>

Decide(r) ==
  /\ txn[r] = "reserve"
  /\ \E p \in PriceAt(r) : Admit(r, p) \/ Deny(r, p)

Exceeds(r) ==
  \E m \in Meters : Actual(res[r].price, usage[r])[m] > res[r].amount[m]

BadSettleRecords(r) ==               \* the row dated by the clock
  /\ txn[r] = "settle" /\ res[r].status = "reserved" /\ ~ Exceeds(r)
  /\ LET spent == Actual(res[r].price, usage[r])
         a == res[r].account
     IN  /\ ledger' = [ledger EXCEPT ![r] = [month |-> res[r].month, amount |-> spent]]
         /\ daily' = [daily EXCEPT ![month][a] =
                        [amount |-> [m \in Meters |-> @.amount[m] + spent[m]],
                         unknown |-> @.unknown + (IF res[r].price = NULL THEN 1 ELSE 0)]]
  /\ res' = [res EXCEPT ![r].status = "settled"]
  /\ Done(r)
  /\ Reply(r, "settling", "completed")
  /\ UNCHANGED <<tenant, call, usage>>

(* The ledger row, the daily aggregate its trigger keeps, and the status    *)
(* commit together; the row is dated by the reservation, not by the clock.  *)
SettleRecords(r) ==
  /\ txn[r] = "settle" /\ res[r].status = "reserved" /\ ~ Exceeds(r)
  /\ LET spent == Actual(res[r].price, usage[r])
         k == res[r].month
         a == res[r].account
     IN  /\ ledger' = [ledger EXCEPT ![r] = [month |-> k, amount |-> spent]]
         /\ daily' = [daily EXCEPT ![k][a] =
                        [amount |-> [m \in Meters |-> @.amount[m] + spent[m]],
                         unknown |-> @.unknown + (IF res[r].price = NULL THEN 1 ELSE 0)]]
  /\ res' = [res EXCEPT ![r].status = "settled"]
  /\ Done(r)
  /\ Reply(r, "settling", "completed")
  /\ UNCHANGED <<tenant, call, usage>>

(* Already settled: the function returns without a change. *)
SettleAgain(r) ==
  /\ txn[r] = "settle" /\ res[r].status = "settled"
  /\ Done(r)
  /\ Reply(r, "settling", "completed")
  /\ UNCHANGED <<tenant, tables, call, usage>>

(* Usage above the reservation: the exception leaves the reservation held. *)
SettleRejected(r) ==
  /\ txn[r] = "settle" /\ res[r].status = "reserved" /\ Exceeds(r)
  /\ Done(r)
  /\ Reply(r, "settling", "failed")
  /\ UNCHANGED <<tenant, tables, call, usage>>

BadAbortTxn(r) ==                    \* the error of the settlement not looked at
  /\ txn[r] # "none"
  /\ Done(r)
  /\ pc' = [pc EXCEPT ![r] = CASE @ = "reserving" -> "failed"
                               [] @ = "settling" -> "completed"
                               [] OTHER -> @]
  /\ UNCHANGED <<tenant, tables, call, usage>>

(* The database rolls a transaction back, or never receives it. *)
AbortTxn(r) ==
  /\ txn[r] # "none"
  /\ Done(r)
  /\ pc' = [pc EXCEPT ![r] = IF @ \in {"reserving", "settling"} THEN "failed" ELSE @]
  /\ UNCHANGED <<tenant, tables, call, usage>>

-----------------------------------------------------------------------------
(* Administrators and the calendar *)

SaveBudget(b, s) ==
  /\ budget' = [budget EXCEPT ![b] = s]
  /\ UNCHANGED <<month, price, tables, gateway>>

SavePrice(f, p) ==
  /\ price' = [price EXCEPT ![f] = p]
  /\ UNCHANGED <<month, budget, tables, gateway>>

NextMonth ==
  /\ month < NumMonths
  /\ month' = month + 1
  /\ UNCHANGED <<budget, price, tables, gateway>>

-----------------------------------------------------------------------------
GatewayStep(r) ==
  \/ TurnAway(r)
  \/ \E a \in Accounts, isAgent \in BOOLEAN, out \in OutputBounds : Arrive(r, a, isAgent, out)
  \/ NoProvider(r)
  \/ CallProvider(r)
  \/ ProviderFails(r)
  \/ \E u \in Usages : ProviderAnswers(r, u)
  \/ LoseRpc(r)
  \/ RedeliverSettle(r)

DatabaseStep(r) ==
  \/ Decide(r)
  \/ SettleRecords(r)
  \/ SettleAgain(r)
  \/ SettleRejected(r)
  \/ AbortTxn(r)

RequestStep == \E r \in Requests : GatewayStep(r) \/ DatabaseStep(r)

PriceOrClockStep ==
  \/ \E f \in Profiles, p \in Prices : SavePrice(f, p)
  \/ NextMonth

Next ==
  \/ RequestStep
  \/ Crash
  \/ \E b \in Budgets, s \in Settings : SaveBudget(b, s)
  \/ PriceOrClockStep

Spec == Init /\ [][Next]_vars

(* The same system while no administrator edits a budget. *)
FixedNext == RequestStep \/ Crash \/ PriceOrClockStep

FixedSpec == Init /\ [][FixedNext]_vars

-----------------------------------------------------------------------------
(* Types *)

Call == [account: Accounts \cup {0}, agent: BOOLEAN, output: OutputBounds \cup {0},
         month: Months \cup {0}, price: Prices \cup {NULL}]

Reservation == [status: {"none", "reserved", "settled"}, month: Months \cup {0},
                account: Accounts \cup {0}, price: Prices \cup {NULL}, amount: Amounts]

LedgerRow == [month: Months, amount: Amounts]

(* Every table and every request keeps its shape. *)
TypeOK ==
  /\ month \in Months
  /\ budget \in [Budgets -> Settings]
  /\ price \in [Profiles -> Prices \cup {NULL}]
  /\ res \in [Requests -> Reservation]
  /\ ledger \in [Requests -> LedgerRow \cup {NULL}]
  /\ daily \in [Months -> [Accounts -> [amount: Amounts, unknown: Nat]]]
  /\ txn \in [Requests -> {"none", "reserve", "settle"}]
  /\ pc \in [Requests -> InFlight \cup {"idle", "completed", "refused", "failed"}]
  /\ call \in [Requests -> Call]
  /\ usage \in [Requests -> Usages \cup {NULL}]

(* What ties the tables, the transaction and the gateway's step of one      *)
(* request together.  TypeOK is not inductive without it: a settlement      *)
(* dates its ledger row by the reservation, which must therefore have a     *)
(* month and an account.                                                    *)
RequestInv(r) ==
  /\ ledger[r] # NULL <=> res[r].status = "settled"
  /\ ledger[r] # NULL =>
       /\ ledger[r].month = res[r].month
       /\ \A m \in Meters : ledger[r].amount[m] <= res[r].amount[m]
  /\ res[r].status # "none" => res[r].month \in Months /\ res[r].account \in Accounts
  /\ txn[r] = "reserve" =>
       /\ res[r].status = "none"
       /\ call[r].month \in Months /\ call[r].account \in Accounts
       /\ call[r].output \in OutputBounds
  /\ txn[r] = "settle" => usage[r] # NULL
  /\ usage[r] # NULL => res[r].status # "none"
  /\ pc[r] = "idle" => txn[r] = "none" /\ res[r].status = "none"
  /\ pc[r] = "reserving" => txn[r] = "reserve"
  /\ pc[r] \in {"admitted", "calling"} => res[r].status # "none"
  /\ pc[r] = "settling" => usage[r] # NULL
  /\ pc[r] = "completed" => ledger[r] # NULL

Inv == TypeOK /\ \A r \in Requests : RequestInv(r)

-----------------------------------------------------------------------------
(* What a budget has really committed: every reservation, held or settled, *)
(* at its current charge.  The code never computes this sum; it adds the   *)
(* daily aggregate to the reservations still held.                         *)

Charge(r) == IF ledger[r] # NULL THEN ledger[r].amount ELSE res[r].amount

Counts(r, b, k) ==
  res[r].status # "none" /\ res[r].month = k /\ res[r].account \in Covers[b]

Committed(b, k, m) ==
  SumTo([r \in Requests |-> IF Counts(r, b, k) THEN Charge(r)[m] ELSE 0], NumRequests)

AgentCommitted(b, k, m) ==
  SumTo([r \in Requests |-> IF Counts(r, b, k) /\ call[r].agent THEN Charge(r)[m] ELSE 0],
      NumRequests)

Overcommitted(b, k, m) == OverLimit(b, m, Committed(b, k, m))

(* A month of a budget goes over its limit only when an administrator       *)
(* changes that budget: no interleaving of reservations, settlements, late  *)
(* transactions, crashes and price changes takes it there.                  *)
OvercommitOnlyByLimitChange ==
  [][\A b \in Budgets : budget'[b] = budget[b] =>
       \A k \in Months, m \in Meters : Overcommitted(b, k, m)' => Overcommitted(b, k, m)]_vars

(* While no administrator edits a budget, no month of it is ever over its   *)
(* limit, in tokens or in cost (ADR 0011: the gateway reservation enforces  *)
(* the limit under concurrency).                                            *)
WithinLimits ==
  \A b \in Budgets, k \in Months, m \in Meters : ~ Overcommitted(b, k, m)

(* Agent requests alone never reach into the share reserved for tutoring    *)
(* (ADR 0015), while no administrator edits a budget.                       *)
TutoringReserveKept ==
  \A b \in Budgets, k \in Months, m \in Meters :
    ~ OverAgentShare(b, m, AgentCommitted(b, k, m))

(* The aggregate the decisions read is exactly the ledger, and a row's      *)
(* month is its reservation's, however late it settled.                     *)
DailyMatchesLedger ==
  \A k \in Months, a \in Accounts, m \in Meters :
    daily[k][a].amount[m] =
      SumTo([r \in Requests |->
             IF ledger[r] # NULL /\ ledger[r].month = k /\ res[r].account = a
             THEN ledger[r].amount[m] ELSE 0], NumRequests)

(* A provider is only ever called against a reservation, and a student only *)
(* receives a completion whose ledger row exists, crashes and lost replies  *)
(* included (ADR 0011).                                                     *)
ModelWorkIsBooked ==
  \A r \in Requests :
    /\ pc[r] \in {"calling", "settling"} \/ usage[r] # NULL => res[r].status # "none"
    /\ pc[r] = "completed" => ledger[r] # NULL

(* A reservation is never released: it stays as it was made until the step  *)
(* that also writes its ledger row, and that row never changes.  A settled  *)
(* request is therefore never charged twice, nor a failed one for nothing.  *)
HeldUntilSettled ==
  [][\A r \in Requests :
       /\ res[r].status # "none" /\ res'[r] # res[r] =>
            /\ res'[r] = [res[r] EXCEPT !.status = "settled"]
            /\ ledger[r] = NULL /\ ledger'[r] # NULL
            /\ ledger'[r].month = res[r].month
       /\ ledger[r] # NULL => ledger'[r] = ledger[r]]_vars

(* Usage within the bounds the request was reserved for is never rejected:  *)
(* whatever mix of input, cached input and output the provider reports, the *)
(* rounded cost stays below the rounded reservation.                        *)
HonestUsageSettles ==
  \A r \in Requests :
    /\ txn[r] = "settle" /\ res[r].status = "reserved"
    /\ usage[r].input + usage[r].cacheRead + usage[r].cacheWrite <= INPUT_BOUND
    /\ usage[r].output <= call[r].output
    => ~ Exceeds(r)

-----------------------------------------------------------------------------
(* check_model_budget, what the student's client asks before it sends.  It  *)
(* reads the aggregate only: reservations still held are not counted.       *)

PreflightBlocked(b, a) ==
  \/ Limited(b, "cost") /\ (CostUnknown(b, month) \/ price[ProfileOf[a]] = NULL)
  \/ \E m \in Meters : Limited(b, m) /\ Used(b, month, m) >= budget[b].limit[m]

PreflightAgentBlocked(b, a) ==
  \/ PreflightBlocked(b, a)
  \/ budget[b].reserve > 0 /\ \E m \in Meters :
       Limited(b, m) /\ Used(b, month, m) * 1000 >= budget[b].limit[m] * (1000 - budget[b].reserve)

NewCall(a, isAgent, out) ==
  [account |-> a, agent |-> isAgent, output |-> out, month |-> month, price |-> price[ProfileOf[a]]]

Costs(a, out) == ReserveCost(price[ProfileOf[a]], out) > 0

(* For models that cost something, a client that trusts the                 *)
(* preflight gives up no request the gateway would have admitted, although  *)
(* the two functions compute their answer from different rows.              *)
PreflightGivesUpNothing ==
  \A b \in Budgets : \A a \in Covers[b], out \in OutputBounds, isAgent \in BOOLEAN :
    /\ price[ProfileOf[a]] = NULL \/ Costs(a, out)
    /\ IF isAgent THEN PreflightAgentBlocked(b, a) ELSE PreflightBlocked(b, a)
    => ~ Allows(b, NewCall(a, isAgent, out), price[ProfileOf[a]])

-----------------------------------------------------------------------------
(* Progress: the database serves the transactions that wait for the lock,   *)
(* the gateway goes on with a request it has a reply for, and a provider    *)
(* call ends, if only by the HTTP client's own time limit.                  *)
Fairness ==
  \A r \in Requests :
    /\ WF_vars(Decide(r))
    /\ WF_vars(SettleRecords(r) \/ SettleAgain(r) \/ SettleRejected(r))
    /\ WF_vars(NoProvider(r) \/ CallProvider(r))
    /\ WF_vars(ProviderFails(r) \/ \E u \in Usages : ProviderAnswers(r, u))

FairSpec == Spec /\ Fairness

(* Every request the gateway takes up is answered: completed, refused or    *)
(* failed, whatever waits for the organization's lock.                      *)
RequestsAnswered ==
  \A r \in Requests :
    pc[r] \in InFlight ~> pc[r] \in {"completed", "refused", "failed"}

-----------------------------------------------------------------------------
(* The gateway and its database implement the promise of BudgetLedger.      *)

Entry(r) ==
  [phase |-> res[r].status, month |-> res[r].month, account |-> res[r].account,
   agent |-> res[r].status # "none" /\ call[r].agent, charge |-> Charge(r)]

Promise == INSTANCE BudgetLedger WITH
  cap <- budget, entry <- [r \in Requests |-> Entry(r)]

(* Every decision taken from the aggregate and the held reservations, late  *)
(* or concurrent, is one the real commitments allow.                        *)
ImplementsPromise == Promise!Spec
=============================================================================

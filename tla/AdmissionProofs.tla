--------------------------- MODULE AdmissionProofs ---------------------------
(***************************************************************************)
(* What an institution is promised about the requests of its students.  Of *)
(* its budgets, for any number of requests, accounts, months and budgets,  *)
(* any prices and any limits: the aggregate is the ledger, agents leave    *)
(* tutoring its share, usage within the bounds settles, and ModelBudget    *)
(* implements BudgetLedger: every decision taken from the aggregate and    *)
(* the reservations held is one the commitments allow.  Of its policy, for *)
(* every content of the tables and any number of overlapping calls: what   *)
(* is resolved is the meet of the layers, and a request rests on a grant.  *)
(***************************************************************************)
EXTENDS AdmissionMC, ModelBudgetProofs

USE DEF Requests, Accounts, Months

-----------------------------------------------------------------------------
(* What the ledger holds of one account in one month. *)
LedgerRows(k, a, m) ==
  [r \in Requests |-> IF ledger[r] # NULL /\ ledger[r].month = k /\ res[r].account = a
                      THEN ledger[r].amount[m] ELSE 0]

(* The rows of an account and the aggregate are naturals. *)
LEMMA LedgerRowsTyped ==
  ASSUME Inv, NEW k \in Months, NEW a \in Accounts, NEW m \in Meters
  PROVE  LedgerRows(k, a, m) \in [1..NumRequests -> Nat] /\ daily[k][a].amount[m] \in Nat
<1>1. \A r \in Requests : ledger[r] # NULL => ledger[r].amount[m] \in Nat
  BY DEF Inv, TypeOK, LedgerRow, Amounts
<1>2. daily[k][a].amount \in Amounts
  <2>1. daily[k] \in [Accounts -> [amount: Amounts, unknown: Nat]]
    BY DEF Inv, TypeOK
  <2> QED BY <2>1
<1> QED BY <1>1, <1>2 DEF LedgerRows, Amounts

LedgerRowTypes ==
  \A k \in Months, a \in Accounts, m \in Meters :
    LedgerRows(k, a, m) \in [1..NumRequests -> Nat]

(* The same of every account and month at once. *)
LEMMA AllLedgerRowsTyped == Inv => LedgerRowTypes
BY LedgerRowsTyped DEF LedgerRowTypes

(* A settlement adds to the aggregate of its account and month what it adds  *)
(* to their rows.                                                            *)
LEMMA DailySettle ==
  ASSUME Inv, Inv', DailyMatchesLedger, NEW r \in Requests, SettleRecords(r)
  PROVE  DailyMatchesLedger'
<1> SUFFICES ASSUME NEW k \in Months, NEW a \in Accounts, NEW m \in Meters
             PROVE  daily'[k][a].amount[m] = SumTo(LedgerRows(k, a, m)', NumRequests)
  BY DEF DailyMatchesLedger, LedgerRows
<1> DEFINE spent == Actual(res[r].price, usage[r])
           d == IF k = res[r].month /\ a = res[r].account THEN spent[m] ELSE 0
           x == LedgerRows(k, a, m)
           y == LedgerRows(k, a, m)'
<1>1. /\ daily'[k][a].amount[m] = daily[k][a].amount[m] + d
      /\ d \in Nat /\ r \in 1..NumRequests /\ NumRequests \in Nat
  BY SettlementAdds, BoundsAssumption DEF Amounts
<1>2. x \in [1..NumRequests -> Nat] /\ y \in [1..NumRequests -> Nat]
  <2>1. LedgerRowTypes
    BY AllLedgerRowsTyped
  <2>2. LedgerRowTypes'
    BY AllLedgerRowsTyped, PTL
  <2> QED BY <2>1, <2>2 DEF LedgerRowTypes
<1>3. y[r] = x[r] + d /\ x[r] = 0 /\ \A q \in 1..NumRequests : q # r => y[q] = x[q]
  <2>1. /\ ledger[r] = NULL /\ ledger'[r] # NULL
        /\ res' = [res EXCEPT ![r].status = "settled"]
        /\ ledger' = [ledger EXCEPT ![r] = [month |-> res[r].month, amount |-> spent]]
    BY SettlementAdds
  <2> HIDE DEF spent
  <2>2. /\ ledger'[r].amount = spent /\ ledger'[r].month = res[r].month
        /\ res'[r].account = res[r].account
        /\ \A q \in Requests : q # r => ledger'[q] = ledger[q] /\ res'[q] = res[q]
    BY <2>1 DEF Inv, TypeOK, Reservation
  <2> QED BY <1>1, <2>1, <2>2 DEF LedgerRows
<1>4. daily[k][a].amount[m] = SumTo(x, NumRequests)
  BY DEF DailyMatchesLedger, LedgerRows
<1> HIDE DEF d, x, y
<1>5. SumTo(y, NumRequests) + x[r] = SumTo(x, NumRequests) + y[r]
  BY <1>1, <1>2, <1>3, SumUpdate
<1>6. SumTo(x, NumRequests) \in Nat /\ SumTo(y, NumRequests) \in Nat
  BY <1>1, <1>2, SumType
<1> QED BY <1>1, <1>3, <1>4, <1>5, <1>6 DEF y

(* The aggregate the decisions read is the ledger, account by account and    *)
(* month by month, however late a settlement arrives.                        *)
THEOREM DailyIsLedger == Spec => []DailyMatchesLedger
<1>1. Init => DailyMatchesLedger
  <2> SUFFICES ASSUME Init, NEW k \in Months, NEW a \in Accounts, NEW m \in Meters
               PROVE  daily[k][a].amount[m] = SumTo(LedgerRows(k, a, m), NumRequests)
    BY DEF DailyMatchesLedger, LedgerRows
  <2>1. LedgerRows(k, a, m) \in [1..NumRequests -> Nat] /\ NumRequests \in Nat
    BY InvInit, LedgerRowsTyped, BoundsAssumption
  <2>2. \A r \in 1..NumRequests : LedgerRows(k, a, m)[r] = 0
    BY DEF Init, LedgerRows
  <2>3. daily[k][a].amount[m] = 0
    BY DEF Init, NoUsage
  <2> QED BY <2>1, <2>2, <2>3, SumZero
<1>2. Inv /\ DailyMatchesLedger /\ [Next]_vars => DailyMatchesLedger'
  <2> SUFFICES ASSUME Inv, DailyMatchesLedger, [Next]_vars PROVE DailyMatchesLedger'
    OBVIOUS
  <2>1. Inv'
    BY InvStep
  <2>2. CASE UNCHANGED <<res, ledger, daily>>
    BY <2>2 DEF DailyMatchesLedger
  <2>3. ASSUME NEW r \in Requests, NEW p \in PriceAt(r), txn[r] = "reserve", Admit(r, p)
        PROVE  DailyMatchesLedger'
    <3>1. /\ ledger[r] = NULL /\ ledger' = ledger /\ daily' = daily
          /\ \A q \in Requests : q # r => res'[q] = res[q]
      BY <2>3, AdmissionAdds
    <3>2. \A k \in Months, a \in Accounts, m \in Meters :
            LedgerRows(k, a, m)' = LedgerRows(k, a, m)
      BY <3>1 DEF LedgerRows
    <3> QED BY <3>1, <3>2 DEF DailyMatchesLedger, LedgerRows
  <2>4. ASSUME NEW r \in Requests, SettleRecords(r) PROVE DailyMatchesLedger'
    BY <2>1, <2>4, DailySettle
  <2> QED BY <2>2, <2>3, <2>4, TableSteps
<1> QED BY <1>1, <1>2, InvCorrect, PTL DEF Spec

-----------------------------------------------------------------------------
(* What agent requests have committed, row by row. *)
AgentRow(b, k, m) ==
  [r \in Requests |-> IF Counts(r, b, k) /\ call[r].agent THEN Charge(r)[m] ELSE 0]

AgentRowTypes ==
  \A b \in Budgets, k \in Months, m \in Meters :
    /\ AgentRow(b, k, m) \in [1..NumRequests -> Nat]
    /\ \A r \in 1..NumRequests : AgentRow(b, k, m)[r] <= CommittedRow(b, k, m)[r]

(* An agent's row is a natural, and no more than the row of the request.     *)
LEMMA AgentRowsTyped == Inv => AgentRowTypes
<1> SUFFICES ASSUME Inv, NEW b \in Budgets, NEW k \in Months, NEW m \in Meters
             PROVE  /\ AgentRow(b, k, m) \in [1..NumRequests -> Nat]
                    /\ \A r \in 1..NumRequests : AgentRow(b, k, m)[r] <= CommittedRow(b, k, m)[r]
  BY DEF AgentRowTypes
<1>1. CommittedRow(b, k, m) \in [1..NumRequests -> Nat]
  BY RowsTyped DEF RowTypes
<1>2. \A r \in 1..NumRequests : AgentRow(b, k, m)[r] \in {0, CommittedRow(b, k, m)[r]}
  BY DEF AgentRow, CommittedRow
<1>3. \A r \in 1..NumRequests : AgentRow(b, k, m)[r] \in Nat
                                /\ AgentRow(b, k, m)[r] <= CommittedRow(b, k, m)[r]
  BY <1>1, <1>2
<1> QED BY <1>3 DEF AgentRow

AgentSums ==
  \A b \in Budgets, k \in Months, m \in Meters :
    /\ AgentCommitted(b, k, m) \in Nat /\ Committed(b, k, m) \in Nat
    /\ AgentCommitted(b, k, m) <= Committed(b, k, m)

(* Agents commit no more of a month than all requests do.                    *)
LEMMA AgentSumsTyped == Inv => AgentSums
<1> SUFFICES ASSUME Inv, NEW b \in Budgets, NEW k \in Months, NEW m \in Meters
             PROVE  /\ AgentCommitted(b, k, m) \in Nat /\ Committed(b, k, m) \in Nat
                    /\ AgentCommitted(b, k, m) <= Committed(b, k, m)
  BY DEF AgentSums
<1>1. /\ AgentRow(b, k, m) \in [1..NumRequests -> Nat]
      /\ CommittedRow(b, k, m) \in [1..NumRequests -> Nat] /\ NumRequests \in Nat
      /\ \A r \in 1..NumRequests : AgentRow(b, k, m)[r] <= CommittedRow(b, k, m)[r]
  BY AgentRowsTyped, RowsTyped, BoundsAssumption DEF AgentRowTypes, RowTypes
<1>2. AgentCommitted(b, k, m) = SumTo(AgentRow(b, k, m), NumRequests)
      /\ Committed(b, k, m) = SumTo(CommittedRow(b, k, m), NumRequests)
  BY DEF AgentCommitted, AgentRow, Committed, CommittedRow
<1> QED BY <1>1, <1>2, SumType, SumMonotone

(* Less committed is no closer to the share of tutoring. *)
LEMMA ShareMonotone ==
  ASSUME Inv, NEW b \in Budgets, NEW m \in Meters, NEW x \in Nat, NEW y \in Nat, x <= y,
         ~ OverAgentShare(b, m, y)
  PROVE  ~ OverAgentShare(b, m, x)
<1> SUFFICES ASSUME budget[b].reserve > 0, Limited(b, m)
             PROVE  ~ (x * 1000 > budget[b].limit[m] * (1000 - budget[b].reserve))
  BY DEF OverAgentShare
<1> DEFINE share == budget[b].limit[m] * (1000 - budget[b].reserve)
<1>1. budget[b] \in Setting
  BY TenantAssumption DEF Inv, TypeOK
<1>2. budget[b].limit[m] \in Nat
  BY <1>1 DEF Limited, Setting
<1>3. share \in Nat
  BY <1>2, ProductNat, ReserveShare DEF Inv, TypeOK
<1>4. ~ (y * 1000 > share)
  BY DEF OverAgentShare
<1> HIDE DEF share
<1>5. ~ (x * 1000 > share)
  BY <1>3, <1>4
<1> QED BY <1>5 DEF share

(* The arguments of a request with a reservation no longer change. *)
LEMMA CallKept ==
  ASSUME Inv, [Next]_vars, NEW q \in Requests, res[q].status # "none"
  PROVE  call'[q] = call[q]
<1>1. pc[q] # "idle"
  BY DEF Inv, RequestInv
<1>2. ASSUME NEW r \in Requests, GatewayStep(r) PROVE call'[q] = call[q]
  BY <1>1, <1>2 DEF GatewayStep, TurnAway, Arrive, IsNext, NoProvider, CallProvider,
     ProviderFails, ProviderAnswers, LoseRpc, RedeliverSettle, Inv, TypeOK
<1>3. ASSUME NEW r \in Requests, DatabaseStep(r) PROVE call' = call
  BY <1>3 DEF DatabaseStep, Decide, Admit, Deny, SettleRecords, SettleAgain, SettleRejected,
     AbortTxn
<1> QED BY <1>2, <1>3 DEF Next, RequestStep, Crash, SaveBudget, PriceOrClockStep, SavePrice,
                          NextMonth, gateway, vars

(* No step without a budget edit takes agents into the share of tutoring.    *)
LEMMA TutoringStep ==
  ASSUME Inv, Aggregated, TutoringReserveKept, [Next]_vars, budget' = budget
  PROVE  TutoringReserveKept'
<1> SUFFICES ASSUME NEW b \in Budgets, NEW k \in Months, NEW m \in Meters
             PROVE  ~ OverAgentShare(b, m, AgentCommitted(b, k, m)')
  BY DEF TutoringReserveKept, OverAgentShare, Limited
<1> DEFINE v == AgentRow(b, k, m)
           w == AgentRow(b, k, m)'
<1>1. Inv'
  BY InvStep
<1>2. /\ AgentCommitted(b, k, m) \in Nat /\ AgentCommitted(b, k, m)' \in Nat
      /\ Committed(b, k, m)' \in Nat /\ AgentCommitted(b, k, m)' <= Committed(b, k, m)'
  <2>1. AgentSums /\ AgentSums'
    BY <1>1, AgentSumsTyped, PTL
  <2> QED BY <2>1 DEF AgentSums
<1>3. v \in [1..NumRequests -> Nat] /\ w \in [1..NumRequests -> Nat] /\ NumRequests \in Nat
  <2>1. AgentRowTypes /\ AgentRowTypes'
    BY <1>1, AgentRowsTyped, PTL
  <2> QED BY <2>1, BoundsAssumption DEF AgentRowTypes
<1>4. /\ AgentCommitted(b, k, m) = SumTo(v, NumRequests)
      /\ AgentCommitted(b, k, m)' = SumTo(w, NumRequests)
  BY DEF AgentCommitted, AgentRow
<1>5. ASSUME \A q \in 1..NumRequests : w[q] <= v[q]
      PROVE  ~ OverAgentShare(b, m, AgentCommitted(b, k, m)')
  <2> HIDE DEF v, w
  <2>1. SumTo(w, NumRequests) <= SumTo(v, NumRequests)
    BY <1>3, <1>5, SumMonotone
  <2>2. ~ OverAgentShare(b, m, AgentCommitted(b, k, m))
    BY DEF TutoringReserveKept
  <2> QED BY <1>2, <1>4, <2>1, <2>2, ShareMonotone
<1>6. \A q \in Requests : res[q].status # "none" => call'[q] = call[q]
  BY CallKept
<1>7. CASE UNCHANGED <<res, ledger, daily>>
  <2>1. \A q \in 1..NumRequests : w[q] = v[q]
    BY <1>6, <1>7 DEF AgentRow, Counts, Charge
  <2> QED BY <1>3, <1>5, <2>1
<1>8. ASSUME NEW r \in Requests, NEW p \in PriceAt(r), txn[r] = "reserve", Admit(r, p)
      PROVE  ~ OverAgentShare(b, m, AgentCommitted(b, k, m)')
  <2>1. CASE k = call[r].month /\ call[r].account \in Covers[b] /\ call[r].agent
    <3>1. ~ OverAgentShare(b, m, Committed(b, k, m)')
      BY <1>1, <1>8, <2>1, AdmissionFits
    <3> QED BY <1>2, <3>1, ShareMonotone
  <2>2. CASE ~ (k = call[r].month /\ call[r].account \in Covers[b] /\ call[r].agent)
    <3>1. /\ res[r].status = "none" /\ ledger' = ledger /\ call' = call
          /\ res'[r].month = call[r].month /\ res'[r].account = call[r].account
          /\ \A q \in Requests : q # r => res'[q] = res[q]
      <4>1. res'[r] = [status |-> "reserved", month |-> call[r].month,
                       account |-> call[r].account, price |-> p,
                       amount |-> Reserve(p, call[r].output)]
        BY <1>8, AdmissionAdds
      <4>2. res'[r].month = call[r].month /\ res'[r].account = call[r].account
        BY <4>1
      <4> QED BY <1>8, <4>2, AdmissionAdds DEF Admit
    <3>2. w[r] = 0
      BY <2>2, <3>1 DEF AgentRow, Counts
    <3>3. v[r] = 0
      BY <3>1 DEF AgentRow, Counts
    <3>4. \A q \in 1..NumRequests : q # r => w[q] = v[q]
      BY <3>1 DEF AgentRow, Counts, Charge
    <3> HIDE DEF v, w
    <3> QED BY <1>3, <1>5, <3>2, <3>3, <3>4
  <2> QED BY <2>1, <2>2
<1>9. ASSUME NEW r \in Requests, SettleRecords(r)
      PROVE  ~ OverAgentShare(b, m, AgentCommitted(b, k, m)')
  <2> DEFINE spent == Actual(res[r].price, usage[r])
  <2>1. /\ spent \in Amounts /\ res[r].status = "reserved" /\ ledger[r] = NULL
        /\ res' = [res EXCEPT ![r].status = "settled"]
        /\ ledger' = [ledger EXCEPT ![r] = [month |-> res[r].month, amount |-> spent]]
        /\ ledger'[r] # NULL /\ spent[m] <= res[r].amount[m] /\ call' = call
    BY <1>9, SettlementAdds DEF SettleRecords
  <2> HIDE DEF spent
  <2>2. /\ res'[r].month = res[r].month /\ res'[r].account = res[r].account
        /\ ledger'[r].amount = spent
        /\ \A q \in Requests : q # r => res'[q] = res[q] /\ ledger'[q] = ledger[q]
    BY <2>1 DEF Inv, TypeOK, Reservation
  <2>3. \A q \in 1..NumRequests : q # r => w[q] = v[q]
    BY <2>1, <2>2 DEF AgentRow, Counts, Charge
  <2>4. w[r] <= v[r]
    <3>1. res'[r].status = "settled"
      BY <2>1 DEF Inv, TypeOK, Reservation
    <3>2. w[r] = IF Counts(r, b, k) /\ call[r].agent THEN spent[m] ELSE 0
      BY <2>1, <2>2, <3>1 DEF AgentRow, Counts, Charge
    <3>3. v[r] = IF Counts(r, b, k) /\ call[r].agent THEN res[r].amount[m] ELSE 0
      BY <2>1 DEF AgentRow, Charge
    <3> QED BY <2>1, <3>2, <3>3
  <2> HIDE DEF v, w
  <2> QED BY <1>3, <1>5, <2>3, <2>4
<1> QED BY <1>7, <1>8, <1>9, TableSteps

(* While no administrator edits a budget, agent requests never reach into    *)
(* the share kept for tutoring, however admissions and settlements interleave. *)
THEOREM TutoringKept == FixedSpec => []TutoringReserveKept
<1>1. [FixedNext]_vars => [Next]_vars /\ UNCHANGED budget
  BY FixedStep
<1>2. FixedSpec => Spec
  BY <1>1, PTL DEF FixedSpec, Spec
<1>3. Init => TutoringReserveKept
  <2> SUFFICES ASSUME Init, NEW b \in Budgets, NEW k \in Months, NEW m \in Meters
               PROVE  ~ OverAgentShare(b, m, AgentCommitted(b, k, m))
    BY DEF TutoringReserveKept
  <2>1. Inv
    BY InvInit
  <2>2. ~ Overcommitted(b, k, m)
    BY WithinLimitsInit DEF WithinLimits
  <2>3. AgentRow(b, k, m) \in [1..NumRequests -> Nat] /\ NumRequests \in Nat
    BY <2>1, AgentRowsTyped, BoundsAssumption DEF AgentRowTypes
  <2>4. \A r \in 1..NumRequests : AgentRow(b, k, m)[r] = 0
    BY DEF Init, AgentRow, Counts, NoReservation
  <2>5. AgentCommitted(b, k, m) = 0
    BY <2>3, <2>4, SumZero DEF AgentCommitted, AgentRow
  <2>6. ASSUME Limited(b, m)
        PROVE  ~ (0 * 1000 > budget[b].limit[m] * (1000 - budget[b].reserve))
    <3>1. budget[b] \in Setting
      BY <2>1, TenantAssumption DEF Inv, TypeOK
    <3>2. budget[b].limit[m] \in Nat
      BY <2>6, <3>1 DEF Limited, Setting
    <3>3. budget[b].limit[m] * (1000 - budget[b].reserve) \in Nat
      BY <2>1, <3>2, ProductNat, ReserveShare DEF Inv, TypeOK
    <3> QED BY <3>3
  <2> QED BY <2>5, <2>6 DEF OverAgentShare
<1>4. Inv /\ Aggregated /\ TutoringReserveKept /\ [FixedNext]_vars => TutoringReserveKept'
  BY <1>1, TutoringStep
<1> QED BY <1>2, <1>3, <1>4, AggregateCorrect, PTL DEF FixedSpec

-----------------------------------------------------------------------------
(* What a reservation holds is what its request was reserved for. *)
HeldIsReserve ==
  \A r \in Requests : res[r].status = "reserved" =>
    /\ res[r].amount = Reserve(res[r].price, call[r].output)
    /\ call[r].output \in OutputBounds

(* A smaller factor gives a smaller product. *)
LEMMA ProductMonotone == \A x, y, z \in Nat : x <= y => x * z <= y * z
OBVIOUS

(* Usage within what was reserved costs no more than the reservation. *)
LEMMA CostBound ==
  ASSUME NEW p \in Price, NEW u \in Usage, NEW out \in OutputBounds,
         u.input + u.cacheRead + u.cacheWrite <= INPUT_BOUND, u.output <= out
  PROVE  u.input * p.input + u.output * p.output + u.cacheRead * p.cacheRead
           + u.cacheWrite * p.cacheWrite
         <= INPUT_BOUND * Max({p.input, p.cacheRead, p.cacheWrite}) + out * p.output
<1> DEFINE top == Max({p.input, p.cacheRead, p.cacheWrite})
<1>1. /\ u.input \in Nat /\ u.output \in Nat /\ u.cacheRead \in Nat /\ u.cacheWrite \in Nat
      /\ p.input \in Nat /\ p.output \in Nat /\ p.cacheRead \in Nat /\ p.cacheWrite \in Nat
      /\ out \in Nat /\ INPUT_BOUND \in Nat
  BY BoundsAssumption DEF Price, Usage
<1>2. top \in Nat /\ p.input <= top /\ p.cacheRead <= top /\ p.cacheWrite <= top
  BY <1>1, MaxOfThree
<1> HIDE DEF top
<1>3. ASSUME NEW x \in Nat, NEW q \in Nat, NEW t \in Nat, q <= t PROVE x * q <= x * t
  <2>1. q * x <= t * x
    BY <1>3, ProductMonotone
  <2> QED BY <2>1
<1>4. /\ u.input * p.input <= u.input * top
      /\ u.cacheRead * p.cacheRead <= u.cacheRead * top
      /\ u.cacheWrite * p.cacheWrite <= u.cacheWrite * top
  BY <1>1, <1>2, <1>3
<1>5. (u.input + u.cacheRead + u.cacheWrite) * top <= INPUT_BOUND * top
  BY <1>1, <1>2, ProductMonotone
<1>6. (u.input + u.cacheRead + u.cacheWrite) * top
        = u.input * top + u.cacheRead * top + u.cacheWrite * top
  BY <1>1, <1>2
<1>7. u.output * p.output <= out * p.output
  BY <1>1, ProductMonotone
<1>8. /\ u.input * p.input \in Nat /\ u.output * p.output \in Nat
      /\ u.cacheRead * p.cacheRead \in Nat /\ u.cacheWrite * p.cacheWrite \in Nat
      /\ u.input * top \in Nat /\ u.cacheRead * top \in Nat /\ u.cacheWrite * top \in Nat
      /\ INPUT_BOUND * top \in Nat /\ out * p.output \in Nat
  BY <1>1, <1>2, ProductNat
<1>9. u.input * p.input + u.output * p.output + u.cacheRead * p.cacheRead
        + u.cacheWrite * p.cacheWrite <= INPUT_BOUND * top + out * p.output
  BY <1>4, <1>5, <1>6, <1>7, <1>8
<1> QED BY <1>9 DEF top

(* A reservation keeps the amount it was made with until it settles.         *)
LEMMA HeldIsReserveStep ==
  ASSUME Inv, HeldIsReserve, [Next]_vars
  PROVE  HeldIsReserve'
<1> SUFFICES ASSUME NEW q \in Requests, res'[q].status = "reserved"
             PROVE  /\ res'[q].amount = Reserve(res'[q].price, call'[q].output)
                    /\ call'[q].output \in OutputBounds
  BY DEF HeldIsReserve, Reserve, ReserveCost
<1>1. CASE res'[q] = res[q]
  <2>1. call'[q] = call[q]
    BY <1>1, CallKept
  <2> QED BY <1>1, <2>1 DEF HeldIsReserve
<1>2. ASSUME NEW r \in Requests, NEW p \in PriceAt(r), txn[r] = "reserve", Admit(r, p)
      PROVE  \/ res'[q] = res[q]
             \/ /\ res'[q].amount = Reserve(res'[q].price, call'[q].output)
                /\ call'[q].output \in OutputBounds
  <2>1. call' = call /\ \A o \in Requests : o # r => res'[o] = res[o]
    BY <1>2, AdmissionAdds DEF Admit
  <2>2. res'[r] = [status |-> "reserved", month |-> call[r].month,
                   account |-> call[r].account, price |-> p,
                   amount |-> Reserve(p, call[r].output)]
    BY <1>2, AdmissionAdds
  <2>3. res'[r].amount = Reserve(p, call[r].output) /\ res'[r].price = p
    BY <2>2
  <2>4. call[r].output \in OutputBounds
    BY <1>2 DEF Inv, RequestInv
  <2> QED BY <2>1, <2>3, <2>4
<1>3. ASSUME NEW r \in Requests, SettleRecords(r) PROVE res'[q] = res[q]
  <2>1. res' = [res EXCEPT ![r].status = "settled"]
    BY <1>3 DEF SettleRecords
  <2> QED BY <2>1 DEF Inv, TypeOK, Reservation
<1>4. CASE UNCHANGED <<res, ledger, daily>>
  BY <1>1, <1>4
<1> QED BY <1>1, <1>2, <1>3, <1>4, TableSteps

(* Usage within the bounds a request was reserved for always settles: for    *)
(* any prices, the rounded cost of any mix of plain and cached input and of   *)
(* output stays within the rounded reservation.                              *)
THEOREM HonestUsageAccepted == Spec => []HonestUsageSettles
<1>1. Init => HeldIsReserve
  BY DEF Init, HeldIsReserve, NoReservation
<1>2. Inv /\ HeldIsReserve /\ [Next]_vars => HeldIsReserve'
  BY HeldIsReserveStep
<1>3. Inv /\ HeldIsReserve => HonestUsageSettles
  <2> SUFFICES ASSUME Inv, HeldIsReserve, NEW r \in Requests,
                      txn[r] = "settle", res[r].status = "reserved",
                      usage[r].input + usage[r].cacheRead + usage[r].cacheWrite <= INPUT_BOUND,
                      usage[r].output <= call[r].output,
                      NEW m \in Meters
               PROVE  ~ (Actual(res[r].price, usage[r])[m] > res[r].amount[m])
    BY DEF HonestUsageSettles, Exceeds
  <2> DEFINE p == res[r].price
             u == usage[r]
             out == call[r].output
  <2>1. u \in Usages /\ u \in Usage
    BY TenantAssumption DEF Inv, TypeOK, RequestInv
  <2>2. p \in Prices \cup {NULL}
    BY DEF Inv, TypeOK, Reservation
  <2>3. res[r].amount = Reserve(p, out) /\ out \in OutputBounds
    BY DEF HeldIsReserve
  <2>4. Reserve(p, out) \in Amounts /\ Actual(p, u) \in Amounts
    BY <2>1, <2>2, <2>3, ReserveType, ActualType
  <2>5. u.input + u.cacheRead + u.cacheWrite <= INPUT_BOUND /\ u.output <= out
    OBVIOUS
  <2> HIDE DEF p, u, out
  <2>6. CASE m = "tokens"
    <3>1. /\ u.input \in Nat /\ u.output \in Nat /\ u.cacheRead \in Nat /\ u.cacheWrite \in Nat
          /\ out \in Nat /\ INPUT_BOUND \in Nat
      BY <2>1, <2>3, BoundsAssumption DEF Usage
    <3>2. /\ Actual(p, u)[m] = u.input + u.output + u.cacheRead + u.cacheWrite
          /\ Reserve(p, out)[m] = INPUT_BOUND + out
      BY <2>6 DEF Actual, Reserve
    <3>3. Actual(p, u)[m] <= Reserve(p, out)[m]
      BY <2>5, <3>1, <3>2
    <3> QED BY <2>3, <2>4, <3>3 DEF p, u, Amounts
  <2>7. CASE m = "cost"
    <3>1. Actual(p, u)[m] = ActualCost(p, u) /\ Reserve(p, out)[m] = ReserveCost(p, out)
      BY <2>7 DEF Actual, Reserve
    <3>2. ActualCost(p, u) <= ReserveCost(p, out)
      <4>1. CASE p = NULL
        BY <4>1 DEF ActualCost, ReserveCost
      <4>2. CASE p # NULL
        <5> DEFINE x == u.input * p.input + u.output * p.output
                          + u.cacheRead * p.cacheRead + u.cacheWrite * p.cacheWrite
                   y == INPUT_BOUND * Max({p.input, p.cacheRead, p.cacheWrite}) + out * p.output
        <5>1. p \in Price
          BY <2>2, <4>2, TenantAssumption
        <5>2. x <= y
          BY <2>1, <2>3, <2>5, <5>1, CostBound
        <5>3. x \in Nat /\ y \in Nat
          <6>1. /\ p.input \in Nat /\ p.output \in Nat /\ p.cacheRead \in Nat
                /\ p.cacheWrite \in Nat /\ out \in Nat /\ INPUT_BOUND \in Nat
                /\ u.input \in Nat /\ u.output \in Nat /\ u.cacheRead \in Nat
                /\ u.cacheWrite \in Nat
            BY <2>1, <2>3, <5>1, BoundsAssumption DEF Price, Usage
          <6>2. Max({p.input, p.cacheRead, p.cacheWrite}) \in Nat
            BY <6>1, MaxOfThree
          <6>3. /\ u.input * p.input \in Nat /\ u.output * p.output \in Nat
                /\ u.cacheRead * p.cacheRead \in Nat /\ u.cacheWrite * p.cacheWrite \in Nat
                /\ INPUT_BOUND * Max({p.input, p.cacheRead, p.cacheWrite}) \in Nat
                /\ out * p.output \in Nat
            BY <6>1, <6>2, ProductNat
          <6> QED BY <6>3
        <5>4. ActualCost(p, u) = CeilDiv(x, PerMillion)
              /\ ReserveCost(p, out) = CeilDiv(y, PerMillion)
          BY <4>2 DEF ActualCost, ReserveCost
        <5> HIDE DEF x, y
        <5> QED BY <5>2, <5>3, <5>4, CeilDivMonotone, BoundsAssumption
      <4> QED BY <4>1, <4>2
    <3> QED BY <2>3, <2>4, <3>1, <3>2 DEF p, u, Amounts
  <2> QED BY <2>6, <2>7 DEF Meters
<1> QED BY <1>1, <1>2, <1>3, InvCorrect, PTL DEF Spec

-----------------------------------------------------------------------------
(* The entry a request has in the ledger of promises. *)
Entries == [r \in Requests |-> Entry(r)]

(* Both modules take their sums alike. *)
LEMMA SumsAgree == \A v, n : Promise!SumTo(v, n) = SumTo(v, n)
BY DEF Promise!SumTo, SumTo, Promise!PartialSums, PartialSums

(* What the entries add up to is what is committed. *)
LEMMA PromiseCommitted ==
  ASSUME NEW b \in Budgets, NEW k \in Months, NEW m \in Meters
  PROVE  Promise!Committed(b, k, m) = Committed(b, k, m)
<1>1. \A r \in Requests :
        /\ Entries[r].phase = res[r].status /\ Entries[r].month = res[r].month
        /\ Entries[r].account = res[r].account /\ Entries[r].charge = Charge(r)
  BY DEF Entries, Entry
<1>2. [r \in Requests |-> IF Entries[r].phase # "none" /\ Entries[r].month = k
                             /\ Entries[r].account \in Covers[b]
                          THEN Entries[r].charge[m] ELSE 0]
      = [r \in Requests |-> IF Counts(r, b, k) THEN Charge(r)[m] ELSE 0]
  BY <1>1 DEF Counts
<1> QED BY <1>2, SumsAgree DEF Promise!Committed, Promise!Requests, Committed, Entries

(* Nothing is committed at first. *)
LEMMA PromiseInit == Init => Promise!Init
<1> SUFFICES ASSUME Init PROVE Promise!Init
  OBVIOUS
<1>1. ASSUME NEW r \in Requests PROVE Entry(r) = Promise!Nothing
  <2>1. res[r].status = "none" /\ res[r].month = 0 /\ res[r].account = 0
        /\ res[r].amount = [m \in Meters |-> 0] /\ ledger[r] = NULL
    BY DEF Init, NoReservation
  <2>2. (res[r].status # "none" /\ call[r].agent) = FALSE
    BY <2>1
  <2>3. Charge(r) = [m \in Meters |-> 0]
    BY <2>1 DEF Charge
  <2> QED BY <2>1, <2>2, <2>3, Zenon DEF Entry, Promise!Nothing
<1>2. Entries = [r \in Requests |-> Promise!Nothing]
  BY <1>1 DEF Entries
<1> QED BY <1>2 DEF Init, Promise!Init, Promise!Requests, Entries

(* The entries of requests a step leaves alone stay as they are. *)
LEMMA EntryKept ==
  ASSUME NEW q \in Requests, res'[q] = res[q], ledger'[q] = ledger[q], call'[q] = call[q]
  PROVE  Entry(q)' = Entry(q)
BY DEF Entry, Charge

(* An admission commits, within the limits, what it reserves. *)
LEMMA PromiseCommit ==
  ASSUME Inv, Inv', Aggregated, NEW r \in Requests, NEW p \in PriceAt(r), txn[r] = "reserve",
         Admit(r, p)
  PROVE  Promise!Commit(r)
<1>0. call[r].month \in Months
  BY AdmissionAdds
<1> SUFFICES ASSUME NEW k \in Months, k = call[r].month PROVE Promise!Commit(r)
  BY <1>0
<1> DEFINE amount == Reserve(p, call[r].output)
<1>1. call' = call /\ budget' = budget
  BY DEF Admit, tenant
<1>2. /\ res[r].status = "none" /\ ledger[r] = NULL /\ ledger' = ledger
      /\ amount \in Amounts
      /\ \A q \in Requests : q # r => res'[q] = res[q]
  BY AdmissionAdds
<1>3. res'[r] = [status |-> "reserved", month |-> k, account |-> call[r].account, price |-> p,
                 amount |-> amount]
  BY AdmissionAdds
<1>4. /\ Entries[r].phase = "none" /\ Entries'[r].phase = "reserved"
      /\ Entries'[r].month = k /\ Entries'[r].account = call[r].account
      /\ Entries'[r].charge = amount
  BY <1>2, <1>3 DEF Entries, Entry, Charge
<1>5. Entries'[r].agent => call[r].agent
  BY <1>1 DEF Entries, Entry
<1>6. Entries' = [Entries EXCEPT ![r] = Entries'[r]]
  <2>1. \A q \in Requests : q # r => Entries'[q] = Entries[q]
    BY <1>1, <1>2, EntryKept DEF Entries
  <2> QED BY <2>1 DEF Entries
<1>7. ASSUME NEW b \in Budgets, call[r].account \in Covers[b], NEW m \in Meters
      PROVE  Promise!Fits(b, Entries'[r].agent, m, Promise!Committed(b, k, m) + amount[m])
  <2> DEFINE total == Committed(b, k, m) + amount[m]
  <2>1. Committed(b, k, m)' = total
    BY <1>2, <1>7, CommittedAdmit
  <2>2. Promise!Committed(b, k, m) + amount[m] = total
    BY <1>2, PromiseCommitted
  <2>3. ~ OverLimit(b, m, total) /\ (call[r].agent => ~ OverAgentShare(b, m, total))
    BY <1>2, <1>7, <2>1, AdmissionFits
  <2>4. total \in Nat
    BY <1>2, DecisionCounts DEF Amounts
  <2>5. budget[b] \in Setting
    BY TenantAssumption DEF Inv, TypeOK
  <2> HIDE DEF total
  <2>6. ASSUME budget[b].limit[m] # NULL
        PROVE  /\ total <= budget[b].limit[m]
               /\ call[r].agent =>
                    total * 1000 <= budget[b].limit[m] * (1000 - budget[b].reserve)
    <3>1. budget[b].limit[m] \in Nat /\ budget[b].reserve \in 0..999
      BY <2>5, <2>6 DEF Setting
    <3> DEFINE l == budget[b].limit[m]
               v == budget[b].reserve
               share == l * (1000 - v)
    <3>2. share \in Nat
      BY <3>1, <2>5, ProductNat, ReserveShare DEF Inv, TypeOK
    <3>3. total <= l
      BY <2>3, <2>4, <2>6, <3>1 DEF OverLimit, Limited
    <3>4. CASE v = 0
      <4>1. share = l * 1000
        BY <3>4
      <4> HIDE DEF l, share
      <4> QED BY <2>4, <3>1, <3>3, <4>1 DEF l, share
    <3>5. CASE v > 0
      <4>1. call[r].agent => ~ (total * 1000 > share)
        BY <2>3, <2>6, <3>5 DEF OverAgentShare, Limited
      <4> HIDE DEF share
      <4>2. call[r].agent => total * 1000 <= share
        BY <2>4, <3>2, <4>1
      <4> QED BY <3>3, <4>2 DEF share
    <3>6. v = 0 \/ v > 0
      <4>1. v \in 0..999
        BY <3>1
      <4> HIDE DEF l, v, share
      <4> QED BY <4>1
    <3> QED BY <3>4, <3>5, <3>6, Zenon
  <2> QED BY <1>5, <2>2, <2>6 DEF Promise!Fits
<1> QED BY <1>1, <1>4, <1>6, <1>7 DEF Promise!Commit, Entries

(* A settlement lowers what the request committed and settles it. *)
LEMMA PromiseSettle ==
  ASSUME Inv, Inv', NEW r \in Requests, SettleRecords(r)
  PROVE  Promise!Settle(r)
<1> DEFINE spent == Actual(res[r].price, usage[r])
<1>1. call' = call /\ budget' = budget
  BY DEF SettleRecords, tenant
<1>2. /\ spent \in Amounts /\ res[r].status = "reserved" /\ ledger[r] = NULL
      /\ res' = [res EXCEPT ![r].status = "settled"]
      /\ ledger' = [ledger EXCEPT ![r] = [month |-> res[r].month, amount |-> spent]]
      /\ ledger'[r] # NULL
      /\ \A m \in Meters : spent[m] <= res[r].amount[m]
  BY SettlementAdds
<1>3. ledger'[r].amount = spent
  BY <1>2 DEF Inv, TypeOK
<1>4. /\ res'[r].status = "settled" /\ res'[r].month = res[r].month
      /\ res'[r].account = res[r].account
  BY <1>2 DEF Inv, TypeOK, Reservation
<1>5. /\ Entries[r].phase = "reserved" /\ Entries[r].charge = res[r].amount
      /\ Entries'[r].charge = spent
  BY <1>2, <1>3 DEF Entries, Entry, Charge
<1>6. Entries'[r] = [Entries[r] EXCEPT !.phase = "settled", !.charge = spent]
  <2> SUFFICES ASSUME NEW agent, agent = (res[r].status # "none" /\ call[r].agent)
               PROVE  Entries'[r] = [Entries[r] EXCEPT !.phase = "settled", !.charge = spent]
    OBVIOUS
  <2>1. (res'[r].status # "none" /\ call'[r].agent) = agent
    BY <1>1, <1>2, <1>4
  <2>2. Charge(r) = res[r].amount /\ Charge(r)' = spent
    BY <1>2, <1>3 DEF Charge
  <2>3. Entries[r] = [phase |-> "reserved", month |-> res[r].month, account |-> res[r].account,
                      agent |-> agent, charge |-> res[r].amount]
    BY <1>2, <2>2, Zenon DEF Entries, Entry
  <2>4. Entries'[r] = [phase |-> "settled", month |-> res[r].month, account |-> res[r].account,
                       agent |-> agent, charge |-> spent]
    BY <1>4, <2>1, <2>2, Zenon DEF Entries, Entry
  <2> DEFINE old == Entries[r]
             closed == [old EXCEPT !.phase = "settled"]
  <2> HIDE DEF spent, old
  <2>5. old = [phase |-> "reserved", month |-> res[r].month, account |-> res[r].account,
               agent |-> agent, charge |-> res[r].amount]
    BY <2>3 DEF old
  <2>6. [old EXCEPT !.phase = "settled", !.charge = spent] = [closed EXCEPT !.charge = spent]
    OBVIOUS
  <2>7. closed = [phase |-> "settled", month |-> res[r].month, account |-> res[r].account,
                  agent |-> agent, charge |-> res[r].amount]
    BY <2>5
  <2> HIDE DEF closed
  <2>8. [closed EXCEPT !.charge = spent]
          = [phase |-> "settled", month |-> res[r].month, account |-> res[r].account,
             agent |-> agent, charge |-> spent]
    BY <2>7
  <2> QED BY <2>4, <2>6, <2>8 DEF old
<1>7. \A q \in Requests : q # r => Entries'[q] = Entries[q]
  <2>1. \A q \in Requests : q # r => res'[q] = res[q] /\ ledger'[q] = ledger[q]
    BY <1>2 DEF Inv, TypeOK
  <2> QED BY <1>1, <2>1, EntryKept DEF Entries
<1>8. Entries' = [Entries EXCEPT ![r].phase = "settled", ![r].charge = Entries'[r].charge]
  BY <1>5, <1>6, <1>7 DEF Entries
<1> QED BY <1>1, <1>2, <1>5, <1>8 DEF Promise!Settle, Entries, Amounts

(* A step that writes no table commits nothing; it may edit a budget. *)
LEMMA PromiseStutter ==
  ASSUME Inv, [Next]_vars, UNCHANGED <<res, ledger, daily>>
  PROVE  UNCHANGED <<budget, Entries>> \/ \E b \in Budgets : Promise!SetCap(b)
<1>1. Entries' = Entries
  <2>1. \A q \in Requests : res[q].status # "none" => call'[q] = call[q]
    BY CallKept
  <2>2. \A q \in Requests : Entry(q)' = Entry(q)
    <3> TAKE q \in Requests
    <3>1. (res'[q].status # "none" /\ call'[q].agent) = (res[q].status # "none" /\ call[q].agent)
      BY <2>1
    <3>2. Charge(q)' = Charge(q)
      BY DEF Charge
    <3> QED BY <3>1, <3>2 DEF Entry
  <2> QED BY <2>2 DEF Entries
<1>2. ASSUME NEW b \in Budgets, NEW s \in Settings, SaveBudget(b, s) PROVE Promise!SetCap(b)
  BY <1>1, <1>2 DEF SaveBudget, Promise!SetCap, Entries, Inv, TypeOK
<1>3. \/ \E b \in Budgets, s \in Settings : SaveBudget(b, s)
      \/ budget' = budget
  <2>1. RequestStep => budget' = budget
    BY DEF RequestStep, GatewayStep, DatabaseStep, TurnAway, Arrive, NoProvider,
       CallProvider, ProviderFails, ProviderAnswers, LoseRpc, RedeliverSettle, Decide, Admit,
       Deny, SettleRecords, SettleAgain, SettleRejected, AbortTxn, tenant
  <2> QED BY <2>1 DEF Next, Crash, PriceOrClockStep, SavePrice, NextMonth, tenant, vars
<1> QED BY <1>1, <1>2, <1>3

(* The gateway and its database implement the promise: however requests,     *)
(* settlements, crashes, months, prices and edits interleave, every decision *)
(* is one that what is really committed allows.                              *)
THEOREM Refinement == Spec => ImplementsPromise
<1>1. Inv /\ Aggregated /\ [Next]_vars => [Promise!Next]_<<budget, Entries>>
  <2> SUFFICES ASSUME Inv, Aggregated, [Next]_vars
               PROVE  Promise!Next \/ UNCHANGED <<budget, Entries>>
    OBVIOUS
  <2>1. Inv'
    BY InvStep
  <2>2. CASE UNCHANGED <<res, ledger, daily>>
    BY <2>2, PromiseStutter DEF Promise!Next
  <2>3. ASSUME NEW r \in Requests, NEW p \in PriceAt(r), txn[r] = "reserve", Admit(r, p)
        PROVE  Promise!Next
    BY <2>1, <2>3, PromiseCommit DEF Promise!Next, Promise!Requests
  <2>4. ASSUME NEW r \in Requests, SettleRecords(r)
        PROVE  Promise!Next
    BY <2>1, <2>4, PromiseSettle DEF Promise!Next, Promise!Requests
  <2> QED BY <2>2, <2>3, <2>4, TableSteps
<1>2. Init => Promise!Init
  BY PromiseInit
<1> QED BY <1>1, <1>2, AggregateCorrect, PTL DEF Spec, ImplementsPromise, Promise!Spec, Entries
-----------------------------------------------------------------------------
(* What the client asks before it sends.                                     *)

(* A limit already reached, or the agents' share of it, is passed by any    *)
(* request that is charged something.                                        *)
LEMMA ReachedIsPassed ==
  ASSUME Inv, NEW b \in Budgets, NEW m \in Meters, Limited(b, m),
         NEW used \in Nat, NEW held \in Nat, NEW more \in Nat \ {0}
  PROVE  /\ used >= budget[b].limit[m] => OverLimit(b, m, used + held + more)
         /\ budget[b].reserve > 0 /\ used * 1000 >= budget[b].limit[m] * (1000 - budget[b].reserve)
              => OverAgentShare(b, m, used + held + more)
<1>1. budget[b] \in Setting
  BY TenantAssumption DEF Inv, TypeOK
<1>2. budget[b].limit[m] \in Nat
  BY <1>1 DEF Limited, Setting
<1> DEFINE share == budget[b].limit[m] * (1000 - budget[b].reserve)
<1>3. share \in Nat
  BY <1>2, ProductNat, ReserveShare DEF Inv, TypeOK
<1> HIDE DEF share
<1>4. used >= budget[b].limit[m] => used + held + more > budget[b].limit[m]
  BY <1>2
<1>5. used * 1000 >= share => (used + held + more) * 1000 > share
  BY <1>3
<1> QED BY <1>4, <1>5 DEF OverLimit, OverAgentShare, share

(* What a request reserves is never nothing, but for a model without a cost. *)
LEMMA ReservesSomething ==
  ASSUME NEW p \in Prices \cup {NULL}, NEW out \in OutputBounds, NEW m \in Meters,
         m = "cost" => ReserveCost(p, out) > 0
  PROVE  Reserve(p, out)[m] \in Nat \ {0}
<1>1. Reserve(p, out)[m] \in Nat
  BY ReserveType DEF Amounts
<1>2. out \in Nat \ {0} /\ INPUT_BOUND \in Nat \ {0}
  BY BoundsAssumption
<1>3. CASE m = "cost"
  BY <1>1, <1>3 DEF Reserve
<1>4. CASE m # "cost"
  BY <1>2, <1>4 DEF Reserve, Meters
<1> QED BY <1>3, <1>4

(* Where a model costs something or has no price, a request the client's     *)
(* preflight refuses is one the gateway would refuse: the preflight reads    *)
(* less, and asks for less.                                                  *)
LEMMA PreflightNeverAlone == Inv /\ Aggregated => PreflightGivesUpNothing
<1> SUFFICES ASSUME Inv, Aggregated, NEW b \in Budgets, NEW a \in Covers[b], NEW out \in OutputBounds,
                    NEW isAgent \in BOOLEAN,
                    price[ProfileOf[a]] = NULL \/ Costs(a, out),
                    IF isAgent THEN PreflightAgentBlocked(b, a) ELSE PreflightBlocked(b, a),
                    Allows(b, NewCall(a, isAgent, out), price[ProfileOf[a]])
             PROVE  FALSE
  BY DEF PreflightGivesUpNothing
<1> DEFINE p == price[ProfileOf[a]]
           predicted(m) == Used(b, month, m) + Held(b, month, m) + Reserve(p, out)[m]
<1>1. month \in Months /\ p \in Prices \cup {NULL}
  BY TenantAssumption DEF Inv, TypeOK
<1>2. /\ Limited(b, "cost") => p # NULL /\ ~ CostUnknown(b, month)
      /\ \A m \in Meters : ~ OverLimit(b, m, predicted(m))
      /\ isAgent => \A m \in Meters : ~ OverAgentShare(b, m, predicted(m))
  BY DEF Allows, NewCall
<1> HIDE DEF p
<1>3. ASSUME NEW m \in Meters, Limited(b, m)
      PROVE  /\ Used(b, month, m) \in Nat /\ Held(b, month, m) \in Nat
             /\ Reserve(p, out)[m] \in Nat \ {0}
  <2>1. m = "cost" => ReserveCost(p, out) > 0
    BY <1>2, <1>3 DEF Costs, p
  <2> QED BY <1>1, <2>1, DecisionCounts, ReservesSomething
<1>4. ~ PreflightBlocked(b, a)
  <2> SUFFICES ASSUME NEW m \in Meters, Limited(b, m), Used(b, month, m) >= budget[b].limit[m]
               PROVE  FALSE
    BY <1>2 DEF PreflightBlocked, p
  <2>1. OverLimit(b, m, predicted(m))
    BY <1>3, ReachedIsPassed
  <2> QED BY <1>2, <2>1
<1>5. isAgent => ~ PreflightAgentBlocked(b, a)
  <2> SUFFICES ASSUME isAgent, budget[b].reserve > 0, NEW m \in Meters, Limited(b, m),
                      Used(b, month, m) * 1000 >= budget[b].limit[m] * (1000 - budget[b].reserve)
               PROVE  FALSE
    BY <1>4 DEF PreflightAgentBlocked
  <2>1. OverAgentShare(b, m, predicted(m))
    BY <1>3, ReachedIsPassed
  <2> QED BY <1>2, <2>1
<1> QED BY <1>4, <1>5

(* The client gives up no request the gateway would have admitted, for all   *)
(* prices, limits, shares and charges.                                       *)
THEOREM PreflightIsSafe == Spec => []PreflightGivesUpNothing
BY AggregateCorrect, PreflightNeverAlone, PTL

-----------------------------------------------------------------------------
(* The policy resolved from the tables *)

Default == [ok |-> TRUE, settings |-> DEFAULT_CAPABILITY_POLICY]

(* Four layers are applied one after the other.                             *)
LEMMA FourLayers ==
  ASSUME NEW w, NEW x, NEW y, NEW z, NEW paths
  PROVE  resolveEffectivePolicy(<<w, x, y, z>>, paths)
           = ApplyLayer(ApplyLayer(ApplyLayer(ApplyLayer(Default, w, paths), x, paths), y, paths), z, paths)
<1> DEFINE layers == <<w, x, y, z>>
           r1 == ApplyLayer(Default, w, paths)
           r2 == ApplyLayer(r1, x, paths)
           r3 == ApplyLayer(r2, y, paths)
           r4 == ApplyLayer(r3, z, paths)
           Next1(g, i) == IF i = 0 THEN Default ELSE ApplyLayer(g[i - 1], layers[i], paths)
           g == [i \in 0..4 |-> IF i = 0 THEN Default ELSE IF i = 1 THEN r1 ELSE IF i = 2 THEN r2
                                ELSE IF i = 3 THEN r3 ELSE r4]
           p == CHOOSE h : h = [i \in 0..4 |-> Next1(h, i)]
<1>1. Len(layers) = 4 /\ layers[1] = w /\ layers[2] = x /\ layers[3] = y /\ layers[4] = z
  OBVIOUS
<1>2. resolveEffectivePolicy(layers, paths) = p[4]
  BY <1>1 DEF resolveEffectivePolicy, Default
<1> HIDE DEF layers
<1>3. g = [i \in 0..4 |-> Next1(g, i)]
  <2> SUFFICES ASSUME NEW i \in 0..4 PROVE g[i] = Next1(g, i)
    BY DEF g
  <2>1. i \in {0, 1, 2, 3, 4} /\ g[0] = Default /\ g[1] = r1 /\ g[2] = r2 /\ g[3] = r3 /\ g[4] = r4
    OBVIOUS
  <2> HIDE DEF g
  <2> QED BY <2>1, <1>1
<1>4. p = [i \in 0..4 |-> Next1(p, i)]
  <2> HIDE DEF g
  <2> QED BY <1>3
<1> HIDE DEF p
<1>5. p[0] = Next1(p, 0) /\ p[1] = Next1(p, 1) /\ p[2] = Next1(p, 2) /\ p[3] = Next1(p, 3) /\ p[4] = Next1(p, 4)
  BY <1>4
<1>6. /\ p[0] = Default /\ p[1] = ApplyLayer(p[0], w, paths) /\ p[2] = ApplyLayer(p[1], x, paths)
      /\ p[3] = ApplyLayer(p[2], y, paths) /\ p[4] = ApplyLayer(p[3], z, paths)
  BY <1>1, <1>5
<1> QED BY <1>2, <1>6 DEF layers

(* What a layer makes of each path.                                         *)
Layered(path, before, settings) ==
  IF path \in DOMAIN settings THEN Narrowed(path, before, settings[path]) ELSE before

(* A layer that is not refused narrows what it names and leaves the rest.   *)
LEMMA LayerNarrows ==
  ASSUME NEW r, NEW layer, NEW paths, ApplyLayer(r, layer, paths).ok
  PROVE  /\ r.ok
         /\ \A path \in Paths :
              ApplyLayer(r, layer, paths).settings[path] = Layered(path, r.settings[path], layer.settings)
         /\ "models" \in DOMAIN layer.settings => ApplyLayer(r, layer, paths).settings["models"] # {}
<1> DEFINE next == [p \in Paths |-> IF p \in DOMAIN layer.settings
                                    THEN Narrowed(p, r.settings[p], layer.settings[p]) ELSE r.settings[p]]
<1>1. /\ r.ok
      /\ ApplyLayer(r, layer, paths) = [ok |-> TRUE, settings |-> next]
      /\ \A p \in DOMAIN layer.settings \cap {"models", "levels"} : next[p] # {}
  BY DEF ApplyLayer, Unresolved
<1>2. ApplyLayer(r, layer, paths).settings = next
  BY <1>1
<1>3. \A path \in Paths : next[path] = Layered(path, r.settings[path], layer.settings)
  BY DEF Layered
<1> HIDE DEF next
<1> QED BY <1>1, <1>2, <1>3

(* What the class and the project propose, and what becomes of a path       *)
(* through the three layers that propose anything.                          *)
ClassLayer(rows) == modelSettings(rows, rows.class)

AfterOrganization(rows, path) == Layered(path, DEFAULT_CAPABILITY_POLICY[path], organizationLayer(rows))
AfterClass(rows, path) == Layered(path, AfterOrganization(rows, path), ClassLayer(rows))
AfterProject(rows, path) == Layered(path, AfterClass(rows, path), projectLayer(rows))

LEMMA ResolvedPaths ==
  ASSUME NEW rows, rows.managed, resolvePolicy(rows).ok
  PROVE  /\ \A path \in Paths : resolvePolicy(rows).settings[path] = AfterProject(rows, path)
         /\ "models" \in DOMAIN ClassLayer(rows) => AfterClass(rows, "models") # {}
         /\ "models" \in DOMAIN projectLayer(rows) => AfterProject(rows, "models") # {}
<1> DEFINE w == [scope |-> "platform", settings |-> <<>>]
           x == [scope |-> "organization", settings |-> organizationLayer(rows)]
           y == [scope |-> "class", settings |-> ClassLayer(rows)]
           z == [scope |-> "project", settings |-> projectLayer(rows)]
           r1 == ApplyLayer(Default, w, rows.delegated)
           r2 == ApplyLayer(r1, x, rows.delegated)
           r3 == ApplyLayer(r2, y, rows.delegated)
           r4 == ApplyLayer(r3, z, rows.delegated)
<1>1. resolvePolicy(rows) = r4
  BY FourLayers DEF resolvePolicy, ClassLayer
<1>2. /\ DOMAIN w.settings = {} /\ x.settings = organizationLayer(rows)
      /\ y.settings = ClassLayer(rows) /\ z.settings = projectLayer(rows)
  OBVIOUS
<1> HIDE DEF w, x, y, z
<1>3. /\ r3.ok
      /\ \A path \in Paths : r4.settings[path] = Layered(path, r3.settings[path], projectLayer(rows))
      /\ "models" \in DOMAIN projectLayer(rows) => r4.settings["models"] # {}
  BY <1>1, <1>2, LayerNarrows
<1>4. /\ r2.ok
      /\ \A path \in Paths : r3.settings[path] = Layered(path, r2.settings[path], ClassLayer(rows))
      /\ "models" \in DOMAIN ClassLayer(rows) => r3.settings["models"] # {}
  BY <1>2, <1>3, LayerNarrows
<1>5. /\ r1.ok
      /\ \A path \in Paths : r2.settings[path] = Layered(path, r1.settings[path], organizationLayer(rows))
  BY <1>2, <1>4, LayerNarrows
<1>6. \A path \in Paths : r1.settings[path] = Layered(path, Default.settings[path], w.settings)
  BY <1>5, LayerNarrows
<1>7. \A path \in Paths : r1.settings[path] = DEFAULT_CAPABILITY_POLICY[path]
  BY <1>2, <1>6 DEF Layered, Default
<1> HIDE DEF r1, r2, r3, r4
<1>8. \A path \in Paths : /\ r2.settings[path] = AfterOrganization(rows, path)
                          /\ r3.settings[path] = AfterClass(rows, path)
                          /\ r4.settings[path] = AfterProject(rows, path)
  BY <1>3, <1>4, <1>5, <1>7 DEF AfterOrganization, AfterClass, AfterProject
<1>9. "models" \in Paths
  BY DEF Paths
<1> QED BY <1>1, <1>3, <1>4, <1>8, <1>9

(* Who proposes a value for a path. *)
LEMMA ProposalsAre ==
  ASSUME NEW rows, NEW path
  PROVE  \A v : v \in Proposals(rows, path) <=>
           \/ path \in DOMAIN rows.organization /\ v = rows.organization[path]
           \/ path \in DOMAIN ClassLayer(rows) /\ v = ClassLayer(rows)[path]
           \/ path \in DOMAIN projectLayer(rows) /\ v = projectLayer(rows)[path]
<1> DEFINE L == LayersOf(rows)
<1>1. L[1] = rows.organization /\ L[2] = ClassLayer(rows) /\ L[3] = projectLayer(rows)
  BY DEF LayersOf, ClassLayer
<1>2. Proposals(rows, path) = {L[j][path] : j \in {k \in 1..3 : path \in DOMAIN L[k]}}
  BY DEF Proposals
<1> HIDE DEF L
<1> TAKE v
<1>3. v \in Proposals(rows, path) <=> \E j \in 1..3 : path \in DOMAIN L[j] /\ v = L[j][path]
  BY <1>2
<1>4. \A j : j \in 1..3 <=> j \in {1, 2, 3}
  OBVIOUS
<1>5. v \in Proposals(rows, path) <=> \E j \in {1, 2, 3} : path \in DOMAIN L[j] /\ v = L[j][path]
  BY <1>3, <1>4
<1> QED BY <1>1, <1>5

(* The organization's layer is its policy, but for the models.              *)
LEMMA OrganizationPaths ==
  ASSUME NEW rows
  PROVE  /\ \A path \in {"switch", "cap", "levels"} :
              /\ path \in DOMAIN organizationLayer(rows) <=> path \in DOMAIN rows.organization
              /\ path \in DOMAIN rows.organization => organizationLayer(rows)[path] = rows.organization[path]
         /\ "models" \in DOMAIN organizationLayer(rows) <=> selectedModels(rows) # {}
         /\ selectedModels(rows) # {} => organizationLayer(rows)["models"] = selectedModels(rows)
         /\ selectedModels(rows) = {} =>
              "models" \notin DOMAIN ClassLayer(rows) /\ "models" \notin DOMAIN projectLayer(rows)
<1> DEFINE others == DOMAIN rows.organization \ {"models"}
           names == others \cup (IF selectedModels(rows) = {} THEN {} ELSE {"models"})
<1>1. organizationLayer(rows) =
        [p \in names |-> IF p = "models" THEN selectedModels(rows) ELSE rows.organization[p]]
  BY DEF organizationLayer
<1>2. \A path \in {"switch", "cap", "levels"} :
        path # "models" /\ (path \in names <=> path \in DOMAIN rows.organization)
  OBVIOUS
<1>3. "models" \in names <=> selectedModels(rows) # {}
  OBVIOUS
<1> HIDE DEF names
<1>4. selectedModels(rows) = {} =>
        "models" \notin DOMAIN ClassLayer(rows) /\ "models" \notin DOMAIN projectLayer(rows)
  <2> SUFFICES ASSUME selectedModels(rows) = {}
               PROVE  "models" \notin DOMAIN ClassLayer(rows) /\ "models" \notin DOMAIN projectLayer(rows)
    OBVIOUS
  <2>1. \A settings : "models" \notin DOMAIN modelSettings(rows, settings)
    BY DEF modelSettings, Restrict
  <2> QED BY <2>1 DEF ClassLayer, projectLayer
<1> QED BY <1>1, <1>2, <1>3, <1>4

(* The layers of the tables hold what a policy may hold.                    *)
LEMMA LayersTyped ==
  ASSUME NEW rows, IsContent(rows)
  PROVE  IsLayer(rows.organization) /\ IsLayer(ClassLayer(rows)) /\ IsLayer(projectLayer(rows))
<1>1. ASSUME NEW settings, IsLayer(settings) PROVE IsLayer(modelSettings(rows, settings))
  <2>1. CASE selectedModels(rows) # {}
    BY <1>1, <2>1 DEF modelSettings
  <2>2. CASE selectedModels(rows) = {}
    <3>1. modelSettings(rows, settings) = [p \in DOMAIN settings \ {"models"} |-> settings[p]]
      BY <2>2 DEF modelSettings, Restrict
    <3> QED BY <1>1, <3>1 DEF IsLayer
  <2> QED BY <2>1, <2>2
<1>2. IsLayer(changedProjectSettings(rows.project))
  <2>1. changedProjectSettings(rows.project)
          = [p \in {q \in Paths : rows.project[q] # DEFAULT_CAPABILITY_POLICY[q]} |-> rows.project[p]]
    BY DEF changedProjectSettings, Restrict
  <2>2. rows.project \in [switch: BOOLEAN, cap: Nat \cup {Unlimited}, models: SUBSET Models, levels: SUBSET Levels]
    BY DEF IsContent
  <2>3. /\ rows.project["switch"] \in BOOLEAN /\ rows.project["cap"] \in Nat \cup {Unlimited}
        /\ rows.project["models"] \subseteq Models /\ rows.project["levels"] \subseteq Levels
    BY <2>2
  <2> QED BY <2>1, <2>3 DEF IsLayer
<1>3. IsLayer(rows.organization) /\ IsLayer(rows.class) /\ IsLayer(rows.layer)
  BY DEF IsContent
<1>4. IsLayer(ClassLayer(rows))
  BY <1>1, <1>3 DEF ClassLayer
<1>5. IsLayer(projectLayer(rows))
  <2> DEFINE stored == modelSettings(rows, changedProjectSettings(rows.project))
             layer == modelSettings(rows, rows.layer)
  <2>1. IsLayer(stored) /\ IsLayer(layer)
    BY <1>1, <1>2, <1>3
  <2>2. projectLayer(rows) =
          [p \in DOMAIN stored \cup DOMAIN layer |-> IF p \in DOMAIN layer THEN layer[p] ELSE stored[p]]
    BY DEF projectLayer
  <2> HIDE DEF stored, layer
  <2> QED BY <2>1, <2>2 DEF IsLayer
<1> QED BY <1>3, <1>4, <1>5

(* A switch is on if no layer turns it off. *)
LEMMA SwitchMeets ==
  ASSUME NEW rows, IsContent(rows)
  PROVE  AfterProject(rows, "switch") = (FALSE \notin Proposals(rows, "switch"))
<1>1. \A before, value : Narrowed("switch", before, value) = (before /\ value)
  BY DEF Narrowed
<1>2. DEFAULT_CAPABILITY_POLICY["switch"] = TRUE
  BY DEF DEFAULT_CAPABILITY_POLICY
<1> DEFINE p == "switch"
           o == rows.organization
           c == ClassLayer(rows)
           j == projectLayer(rows)
<1>3. /\ p \in DOMAIN o => o[p] \in BOOLEAN
      /\ p \in DOMAIN c => c[p] \in BOOLEAN
      /\ p \in DOMAIN j => j[p] \in BOOLEAN
  BY LayersTyped DEF IsLayer
<1>4. AfterOrganization(rows, p) = IF p \in DOMAIN o THEN o[p] ELSE TRUE
  <2>1. /\ p \in DOMAIN organizationLayer(rows) <=> p \in DOMAIN o
        /\ p \in DOMAIN o => organizationLayer(rows)[p] = o[p]
    BY OrganizationPaths
  <2>2. AfterOrganization(rows, p) = IF p \in DOMAIN organizationLayer(rows)
                                     THEN Narrowed(p, TRUE, organizationLayer(rows)[p]) ELSE TRUE
    BY <1>2, Zenon DEF AfterOrganization, Layered
  <2> HIDE DEF o, p
  <2>3. CASE p \in DOMAIN o
    <3>1. AfterOrganization(rows, p) = Narrowed(p, TRUE, o[p])
      BY <2>1, <2>2, <2>3, Zenon
    <3>2. Narrowed(p, TRUE, o[p]) = o[p]
      BY <1>1, <1>3, <2>3 DEF p
    <3> QED BY <2>3, <3>1, <3>2
  <2>4. CASE p \notin DOMAIN o
    BY <2>1, <2>2, <2>4
  <2> QED BY <2>3, <2>4
<1>5. AfterClass(rows, p) = IF p \in DOMAIN c THEN AfterOrganization(rows, p) /\ c[p] ELSE AfterOrganization(rows, p)
  BY <1>1 DEF AfterClass, Layered
<1>6. AfterProject(rows, p) = IF p \in DOMAIN j THEN AfterClass(rows, p) /\ j[p] ELSE AfterClass(rows, p)
  BY <1>1 DEF AfterProject, Layered
<1>7. FALSE \in Proposals(rows, p) <=> \/ p \in DOMAIN o /\ FALSE = o[p]
                                       \/ p \in DOMAIN c /\ FALSE = c[p]
                                       \/ p \in DOMAIN j /\ FALSE = j[p]
  BY ProposalsAre
<1> HIDE DEF p, o, c, j
<1>8. AfterOrganization(rows, p) \in BOOLEAN /\ (AfterOrganization(rows, p) <=> ~(p \in DOMAIN o /\ FALSE = o[p]))
  BY <1>3, <1>4
<1>9. /\ AfterClass(rows, p) \in BOOLEAN
      /\ AfterClass(rows, p) <=> AfterOrganization(rows, p) /\ ~(p \in DOMAIN c /\ FALSE = c[p])
  BY <1>3, <1>5, <1>8
<1>10. /\ AfterProject(rows, p) \in BOOLEAN
       /\ AfterProject(rows, p) <=> AfterClass(rows, p) /\ ~(p \in DOMAIN j /\ FALSE = j[p])
  BY <1>3, <1>6, <1>9
<1> QED BY <1>7, <1>8, <1>9, <1>10 DEF p

(* The levels are those every list leaves. *)
LEMMA LevelsMeet ==
  ASSUME NEW rows, IsContent(rows), rows.managed
  PROVE  AfterProject(rows, "levels") = GrantedLevels(rows)
<1>1. \A before, value : Narrowed("levels", before, value) = before \cap value
  BY DEF Narrowed
<1> DEFINE p == "levels"
           o == rows.organization
           c == ClassLayer(rows)
           j == projectLayer(rows)
<1>2. DEFAULT_CAPABILITY_POLICY[p] = Levels
  BY DEF DEFAULT_CAPABILITY_POLICY
<1>3. AfterOrganization(rows, p) = IF p \in DOMAIN o THEN Levels \cap o[p] ELSE Levels
  <2>1. /\ p \in DOMAIN organizationLayer(rows) <=> p \in DOMAIN o
        /\ p \in DOMAIN o => organizationLayer(rows)[p] = o[p]
    BY OrganizationPaths
  <2>2. AfterOrganization(rows, p) = IF p \in DOMAIN organizationLayer(rows)
                                     THEN Levels \cap organizationLayer(rows)[p] ELSE Levels
    BY <1>1, <1>2 DEF AfterOrganization, Layered
  <2> HIDE DEF o, p
  <2> QED BY <2>1, <2>2
<1>4. AfterClass(rows, p) = IF p \in DOMAIN c THEN AfterOrganization(rows, p) \cap c[p] ELSE AfterOrganization(rows, p)
  BY <1>1 DEF AfterClass, Layered
<1>5. AfterProject(rows, p) = IF p \in DOMAIN j THEN AfterClass(rows, p) \cap j[p] ELSE AfterClass(rows, p)
  BY <1>1 DEF AfterProject, Layered
<1>6. \A list : list \in Proposals(rows, p) <=> \/ p \in DOMAIN o /\ list = o[p]
                                                \/ p \in DOMAIN c /\ list = c[p]
                                                \/ p \in DOMAIN j /\ list = j[p]
  BY ProposalsAre
<1>7. GrantedLevels(rows) = {l \in Levels : \A list \in Proposals(rows, p) : l \in list}
  BY DEF GrantedLevels
<1> HIDE DEF p, o, c, j
<1>8. \A l : l \in AfterProject(rows, p) <=>
        /\ l \in Levels
        /\ p \in DOMAIN o => l \in o[p]
        /\ p \in DOMAIN c => l \in c[p]
        /\ p \in DOMAIN j => l \in j[p]
  BY <1>3, <1>4, <1>5
<1>9. \A l : l \in GrantedLevels(rows) <=>
        /\ l \in Levels
        /\ p \in DOMAIN o => l \in o[p]
        /\ p \in DOMAIN c => l \in c[p]
        /\ p \in DOMAIN j => l \in j[p]
  BY <1>6, <1>7
<1>10. AfterProject(rows, p) = GrantedLevels(rows)
  <2>1. \A l : l \in AfterProject(rows, p) <=> l \in GrantedLevels(rows)
    BY <1>8, <1>9
  <2>2. AfterProject(rows, p) \subseteq Levels /\ GrantedLevels(rows) \subseteq Levels
    BY <1>8, <1>9
  <2> QED BY <2>1, <2>2
<1> QED BY <1>10 DEF p

(* The lower of two caps, where Unlimited is none. *)
IsCap(v) == v \in Nat \cup {Unlimited}

LEMMA LowerCapMeets ==
  ASSUME NEW v, IsCap(v), NEW w, IsCap(w)
  PROVE  /\ IsCap(Narrowed("cap", v, w))
         /\ Narrowed("cap", v, w) = Unlimited <=> v = Unlimited /\ w = Unlimited
         /\ Narrowed("cap", v, w) \in {v, w}
         /\ v \in Nat => Narrowed("cap", v, w) <= v
         /\ w \in Nat => Narrowed("cap", v, w) <= w
<1>1. Unlimited \notin Nat
  BY PolicyAssumption
<1>2. Narrowed("cap", v, w) = LowerCap(v, w)
  BY DEF Narrowed
<1>3. CASE w = Unlimited
  <2>1. LowerCap(v, w) = v
    BY <1>3 DEF LowerCap
  <2> QED BY <1>1, <1>2, <1>3, <2>1 DEF IsCap
<1>4. CASE w # Unlimited /\ v = Unlimited
  <2>1. LowerCap(v, w) = w
    BY <1>4 DEF LowerCap
  <2> QED BY <1>1, <1>2, <1>4, <2>1 DEF IsCap
<1>5. CASE w # Unlimited /\ v # Unlimited
  <2>1. LowerCap(v, w) = IF v < w THEN v ELSE w
    BY <1>5 DEF LowerCap
  <2>2. v \in Nat /\ w \in Nat
    BY <1>5 DEF IsCap
  <2> QED BY <1>1, <1>2, <1>5, <2>1, <2>2 DEF IsCap
<1> QED BY <1>3, <1>4, <1>5

(* A cap a layer makes of another: never above either, and one of them.     *)
LEMMA CapLayer ==
  ASSUME NEW before, IsCap(before), NEW settings, IsLayer(settings)
  PROVE  /\ IsCap(Layered("cap", before, settings))
         /\ \/ Layered("cap", before, settings) = before
            \/ "cap" \in DOMAIN settings /\ Layered("cap", before, settings) = settings["cap"]
         /\ before # Unlimited =>
              Layered("cap", before, settings) # Unlimited /\ Layered("cap", before, settings) <= before
         /\ "cap" \in DOMAIN settings /\ settings["cap"] # Unlimited =>
              Layered("cap", before, settings) # Unlimited /\ Layered("cap", before, settings) <= settings["cap"]
<1>1. CASE "cap" \in DOMAIN settings
  <2> DEFINE w == settings["cap"]
             r == Narrowed("cap", before, w)
  <2>1. Layered("cap", before, settings) = r
    BY <1>1 DEF Layered
  <2>2. IsCap(w)
    BY <1>1 DEF IsLayer, IsCap
  <2>3. /\ IsCap(r)
        /\ r = Unlimited <=> before = Unlimited /\ w = Unlimited
        /\ r \in {before, w}
        /\ before \in Nat => r <= before
        /\ w \in Nat => r <= w
    <3> HIDE DEF w
    <3> QED BY <2>2, LowerCapMeets
  <2>4. /\ before # Unlimited => before \in Nat
        /\ w # Unlimited => w \in Nat
    BY <2>2 DEF IsCap
  <2> HIDE DEF r, w
  <2>5. /\ r = before \/ r = w
        /\ before # Unlimited => r # Unlimited /\ r <= before
        /\ w # Unlimited => r # Unlimited /\ r <= w
    BY <2>3, <2>4
  <2> QED BY <1>1, <2>1, <2>3, <2>5 DEF w
<1>2. CASE "cap" \notin DOMAIN settings
  <2>1. Layered("cap", before, settings) = before
    BY <1>2 DEF Layered
  <2>2. before # Unlimited => before <= before
    BY DEF IsCap
  <2> QED BY <1>2, <2>1, <2>2
<1> QED BY <1>1, <1>2

(* The cap is the least that a layer proposes. *)
LEMMA CapMeets ==
  ASSUME NEW rows, IsContent(rows)
  PROVE  LET caps == Proposals(rows, "cap") \ {Unlimited}
         IN IF caps = {} THEN AfterProject(rows, "cap") = Unlimited
            ELSE AfterProject(rows, "cap") \in caps /\ \A c \in caps : AfterProject(rows, "cap") <= c
<1> DEFINE p == "cap"
           o == rows.organization
           c == ClassLayer(rows)
           j == projectLayer(rows)
           caps == Proposals(rows, p) \ {Unlimited}
           after1 == AfterOrganization(rows, p)
           after2 == AfterClass(rows, p)
           after3 == AfterProject(rows, p)
<1>1. IsLayer(o) /\ IsLayer(c) /\ IsLayer(j)
  BY LayersTyped
<1>2. DEFAULT_CAPABILITY_POLICY[p] = Unlimited /\ IsCap(Unlimited)
  BY DEF DEFAULT_CAPABILITY_POLICY, IsCap
<1>3. after1 = Layered(p, Unlimited, o)
  BY <1>2, OrganizationPaths DEF AfterOrganization, Layered
<1>4. after2 = Layered(p, after1, c) /\ after3 = Layered(p, after2, j)
  BY DEF AfterClass, AfterProject
<1>5. \A v : v \in Proposals(rows, p) <=> \/ p \in DOMAIN o /\ v = o[p]
                                          \/ p \in DOMAIN c /\ v = c[p]
                                          \/ p \in DOMAIN j /\ v = j[p]
  BY ProposalsAre
<1>6. /\ IsCap(after1)
      /\ after1 = Unlimited \/ (p \in DOMAIN o /\ after1 = o[p])
      /\ p \in DOMAIN o /\ o[p] # Unlimited => after1 # Unlimited /\ after1 <= o[p]
  BY <1>1, <1>2, <1>3, CapLayer
<1>7. /\ IsCap(after2)
      /\ after2 = after1 \/ (p \in DOMAIN c /\ after2 = c[p])
      /\ after1 # Unlimited => after2 # Unlimited /\ after2 <= after1
      /\ p \in DOMAIN c /\ c[p] # Unlimited => after2 # Unlimited /\ after2 <= c[p]
  BY <1>1, <1>4, <1>6, CapLayer
<1>8. /\ IsCap(after3)
      /\ after3 = after2 \/ (p \in DOMAIN j /\ after3 = j[p])
      /\ after2 # Unlimited => after3 # Unlimited /\ after3 <= after2
      /\ p \in DOMAIN j /\ j[p] # Unlimited => after3 # Unlimited /\ after3 <= j[p]
  BY <1>1, <1>4, <1>7, CapLayer
<1>9. /\ p \in DOMAIN o => IsCap(o[p])
      /\ p \in DOMAIN c => IsCap(c[p])
      /\ p \in DOMAIN j => IsCap(j[p])
  BY <1>1 DEF IsLayer, IsCap
<1> HIDE DEF p, o, c, j, after1, after2, after3
<1>10. after3 = Unlimited \/ after3 \in caps
  BY <1>5, <1>6, <1>7, <1>8
<1>11. ASSUME NEW v \in caps PROVE after3 # Unlimited /\ after3 <= v
  <2>1. v # Unlimited /\ v \in Nat
    BY <1>5, <1>9, <1>11 DEF IsCap
  <2>2. CASE p \in DOMAIN o /\ v = o[p]
    <3>1. after1 # Unlimited /\ after1 <= v /\ after2 # Unlimited /\ after2 <= after1 /\ after3 # Unlimited /\ after3 <= after2
      BY <1>6, <1>7, <1>8, <2>1, <2>2
    <3> QED BY <1>6, <1>7, <1>8, <2>1, <3>1 DEF IsCap
  <2>3. CASE p \in DOMAIN c /\ v = c[p]
    <3>1. after2 # Unlimited /\ after2 <= v /\ after3 # Unlimited /\ after3 <= after2
      BY <1>7, <1>8, <2>1, <2>3
    <3> QED BY <1>7, <1>8, <2>1, <3>1 DEF IsCap
  <2>4. CASE p \in DOMAIN j /\ v = j[p]
    BY <1>8, <2>1, <2>4
  <2> QED BY <1>5, <1>11, <2>2, <2>3, <2>4
<1>12. IF caps = {} THEN after3 = Unlimited ELSE after3 \in caps /\ \A v \in caps : after3 <= v
  BY <1>10, <1>11
<1> QED BY <1>12 DEF p, after3

(* The list of models is what was approved and every list leaves: empty     *)
(* only where nothing is, although an empty list alone would mean any.      *)
LEMMA ModelsMeet ==
  ASSUME NEW rows, IsContent(rows), rows.managed, resolvePolicy(rows).ok
  PROVE  AfterProject(rows, "models") = GrantedModels(rows)
<1> DEFINE p == "models"
           o == rows.organization
           c == ClassLayer(rows)
           j == projectLayer(rows)
           selected == selectedModels(rows)
<1>1. \A before, value : Narrowed(p, before, value) = IF before = {} THEN value ELSE before \cap value
  BY DEF Narrowed
<1>2. DEFAULT_CAPABILITY_POLICY[p] = {}
  BY DEF DEFAULT_CAPABILITY_POLICY
<1>3. selected = IF p \in DOMAIN o THEN rows.approved \cap o[p] ELSE rows.approved
  BY DEF selectedModels
<1>4. /\ p \in DOMAIN organizationLayer(rows) <=> selected # {}
      /\ selected # {} => organizationLayer(rows)[p] = selected
      /\ selected = {} => p \notin DOMAIN c /\ p \notin DOMAIN j
  BY OrganizationPaths
<1>5. AfterOrganization(rows, p) = IF p \in DOMAIN organizationLayer(rows)
                                   THEN Narrowed(p, {}, organizationLayer(rows)[p]) ELSE {}
  BY <1>2 DEF AfterOrganization, Layered
<1>6. AfterClass(rows, p) = IF p \in DOMAIN c THEN Narrowed(p, AfterOrganization(rows, p), c[p]) ELSE AfterOrganization(rows, p)
  BY DEF AfterClass, Layered
<1>7. AfterProject(rows, p) = IF p \in DOMAIN j THEN Narrowed(p, AfterClass(rows, p), j[p]) ELSE AfterClass(rows, p)
  BY DEF AfterProject, Layered
<1>8. /\ p \in DOMAIN c => AfterClass(rows, p) # {}
      /\ p \in DOMAIN j => AfterProject(rows, p) # {}
  BY ResolvedPaths
<1>9. \A list : list \in Proposals(rows, p) <=> \/ p \in DOMAIN o /\ list = o[p]
                                                \/ p \in DOMAIN c /\ list = c[p]
                                                \/ p \in DOMAIN j /\ list = j[p]
  BY ProposalsAre
<1>10. GrantedModels(rows) = {m \in rows.approved : \A list \in Proposals(rows, p) : m \in list}
  BY DEF GrantedModels
<1> HIDE DEF p, o, c, j, selected
<1>11. \A m : m \in GrantedModels(rows) <=>
         /\ m \in selected
         /\ p \in DOMAIN c => m \in c[p]
         /\ p \in DOMAIN j => m \in j[p]
  BY <1>3, <1>9, <1>10
<1>12. AfterOrganization(rows, p) = selected
  BY <1>1, <1>4, <1>5
<1>13. CASE selected = {}
  <2>1. AfterProject(rows, p) = {}
    BY <1>4, <1>6, <1>7, <1>12, <1>13
  <2> QED BY <1>11, <1>13, <2>1 DEF p
<1>14. CASE selected # {}
  <2>1. AfterClass(rows, p) = (IF p \in DOMAIN c THEN selected \cap c[p] ELSE selected) /\ AfterClass(rows, p) # {}
    BY <1>1, <1>6, <1>8, <1>12, <1>14
  <2>2. AfterProject(rows, p) = IF p \in DOMAIN j THEN AfterClass(rows, p) \cap j[p] ELSE AfterClass(rows, p)
    BY <1>1, <1>7, <2>1
  <2>3. \A m : m \in AfterProject(rows, p) <=> m \in GrantedModels(rows)
    BY <1>11, <2>1, <2>2
  <2>4. AfterProject(rows, p) \subseteq selected /\ GrantedModels(rows) \subseteq selected
    BY <1>11, <2>1, <2>2
  <2> QED BY <2>3, <2>4 DEF p
<1> QED BY <1>13, <1>14

(* A policy that resolves grants what every layer grants and no more, in    *)
(* the organization's projects and in a project of no organization.         *)
LEMMA ResolvesToTheMeet ==
  ASSUME NEW rows, IsContent(rows)
  PROVE  NoWiderThanGranted(rows)
<1> SUFFICES ASSUME resolvePolicy(rows).ok PROVE NoWiderThanGranted(rows)
  BY DEF NoWiderThanGranted
<1> DEFINE settings == resolvePolicy(rows).settings
<1>1. CASE ~rows.managed
  <2>1. settings = rows.project
    BY <1>1 DEF resolvePolicy
  <2>2. GrantedModels(rows) = {m \in Models : settings.models = {} \/ m \in settings.models}
    BY <1>1, <2>1 DEF GrantedModels
  <2>3. GrantedLevels(rows) = settings.levels
    BY <1>1, <2>1 DEF GrantedLevels
  <2> HIDE DEF settings
  <2>4. Granted(rows) = {m \in Models : modelAllowed(settings, m)}
    BY <2>2, <2>3 DEF Granted, modelAllowed, allowedReasoningLevels
  <2>5. availableExecutionModels(rows.managed, settings) = {m \in Models : modelAllowed(settings, m)}
    BY <1>1 DEF availableExecutionModels
  <2> QED BY <1>1, <2>4, <2>5 DEF NoWiderThanGranted, settings
<1>2. CASE rows.managed
  <2>1. "switch" \in Paths /\ "cap" \in Paths /\ "models" \in Paths /\ "levels" \in Paths
    BY DEF Paths
  <2>2. /\ settings["switch"] = AfterProject(rows, "switch") /\ settings["cap"] = AfterProject(rows, "cap")
        /\ settings["models"] = AfterProject(rows, "models") /\ settings["levels"] = AfterProject(rows, "levels")
    BY <1>2, <2>1, ResolvedPaths
  <2>3. settings.models = GrantedModels(rows) /\ settings.levels = GrantedLevels(rows)
    BY <1>2, <2>2, ModelsMeet, LevelsMeet
  <2>4. settings.switch = (FALSE \notin Proposals(rows, "switch"))
    BY <2>2, SwitchMeets
  <2>5. LET caps == Proposals(rows, "cap") \ {Unlimited}
        IN IF caps = {} THEN settings.cap = Unlimited
           ELSE settings.cap \in caps /\ \A c \in caps : settings.cap <= c
    BY <2>2, CapMeets
  <2>6. GrantedModels(rows) \subseteq Models
    BY <1>2 DEF GrantedModels, IsContent
  <2> HIDE DEF settings
  <2>7. availableExecutionModels(rows.managed, settings) = Granted(rows)
    BY <1>2, <2>3, <2>6 DEF availableExecutionModels, modelAllowed, allowedReasoningLevels, Granted
  <2> QED BY <2>3, <2>4, <2>5, <2>7 DEF NoWiderThanGranted, settings
<1> QED BY <1>1, <1>2

-----------------------------------------------------------------------------
(* Requests and connector calls while the tables change *)

(* What a call under way has read, and how two that overlap relate.         *)
Sound(p, now, versions) ==
  p.at # "idle" =>
    /\ 1 <= p.since /\ p.ctx <= Len(versions)
    /\ p.op = "setModel" => p.model \in Models
    /\ p.at # "resolving" =>
         resolvePolicy(versions[p.ctx]).ok /\ p.ctx <= p.env /\ p.env <= Len(versions)
    /\ p.at = "validated" => p.since <= now
    /\ p.at = "setting" => p.op = "setModel"
    /\ p.at = "listing" => versions[p.env].managed /\ versions[p.env].ready /\ versions[p.env].connector

Overlap(p, q) == p.at # "idle" /\ q.at # "idle" => p.since <= q.ctx

EffectiveIsSound(now, versions) == now \in 0..Len(versions) /\ (now # 0 => resolvePolicy(versions[now]).ok)

LEMMA ReadsAreSound ==
  ASSUME effective \in 0..Len(revisions)
  PROVE  ReadsAreRecent <=>
           /\ EffectiveIsSound(effective, revisions)
           /\ \A c \in AccessCalls : Sound(pending[c], effective, revisions)
           /\ \A c, d \in AccessCalls : Overlap(pending[c], pending[d])
  BY DEF ReadsAreRecent, EffectiveIsSound, Sound, Overlap

LEMMA AccessParts ==
  ASSUME AccessInv
  PROVE  /\ revisions \in Seq(Range(revisions)) /\ Len(revisions) \in Versions /\ Len(revisions) \in Nat \ {0}
         /\ \A v \in DOMAIN revisions : IsContent(revisions[v])
         /\ DOMAIN revisions = 1..Len(revisions)
         /\ pending \in [AccessCalls -> PendingCall]
         /\ effective \in 0..Len(revisions) /\ current \in Models /\ accessStage \in {"plan", "implement"}
         /\ EffectiveIsSound(effective, revisions)
         /\ \A c \in AccessCalls : Sound(pending[c], effective, revisions)
         /\ \A c, d \in AccessCalls : Overlap(pending[c], pending[d])
<1>1. AccessTypeOK /\ ReadsAreRecent
  BY DEF AccessInv
<1>2. effective \in 0..Len(revisions)
  BY <1>1 DEF AccessTypeOK
<1>3. MaxChanges \in Nat
  BY AccessAssumption
<1> QED BY <1>1, <1>2, <1>3, ReadsAreSound DEF AccessTypeOK, Versions

(* One call moves, ends or begins, and perhaps puts the session's policy in *)
(* place: what it has read must be sound and no older than what overlaps.   *)
LEMMA OneCall ==
  ASSUME AccessInv, NEW c \in AccessCalls, NEW q \in PendingCall,
         pending' = [pending EXCEPT ![c] = q], UNCHANGED revisions,
         Sound(q, effective', revisions), Overlap(q, q),
         \A d \in AccessCalls : d # c => Overlap(q, pending[d]) /\ Overlap(pending[d], q),
         EffectiveIsSound(effective', revisions),
         effective' # effective => \A d \in AccessCalls : pending[d].at # "idle" => pending[d].since <= effective',
         current' \in Models, accessStage' \in {"plan", "implement"},
         sent' \in [kind: {"none", "request", "connector"}, model: Models \cup {"none"}, since: Nat, upTo: 0..Len(revisions)],
         RequestsAreGranted'
  PROVE  AccessInv'
<1>1. /\ pending' \in [AccessCalls -> PendingCall]
      /\ \A d \in AccessCalls : pending'[d] = IF d = c THEN q ELSE pending[d]
  BY AccessParts
<1>2. effective' \in 0..Len(revisions)
  BY DEF EffectiveIsSound
<1>3. AccessTypeOK'
  BY <1>1, <1>2, AccessParts DEF AccessTypeOK
<1>4. ASSUME NEW d \in AccessCalls PROVE Sound(pending'[d], effective', revisions)
  <2>1. CASE d = c
    BY <1>1, <2>1
  <2>2. CASE d # c
    <3>1. pending'[d] = pending[d] /\ Sound(pending[d], effective, revisions)
      BY <1>1, <2>2, AccessParts
    <3> QED BY <3>1 DEF Sound
  <2> QED BY <2>1, <2>2
<1>5. ASSUME NEW d \in AccessCalls, NEW e \in AccessCalls PROVE Overlap(pending'[d], pending'[e])
  BY <1>1, AccessParts
<1>6. ReadsAreRecent'
  <2>1. /\ EffectiveIsSound(effective', revisions')
        /\ \A d \in AccessCalls : Sound(pending'[d], effective', revisions')
        /\ \A d, e \in AccessCalls : Overlap(pending'[d], pending'[e])
    BY <1>4, <1>5
  <2>2. effective' \in 0..Len(revisions')
    BY <1>2
  <2> QED BY <2>1, <2>2 DEF ReadsAreRecent, EffectiveIsSound, Sound, Overlap
<1> QED BY <1>3, <1>6 DEF AccessInv

(* The usual case: nothing is sent, and the call's reads stay as they were. *)
LEMMA NothingSentGranted ==
  ASSUME NothingIsSent
  PROVE  /\ RequestsAreGranted'
         /\ \A n \in Nat : sent' \in [kind: {"none", "request", "connector"}, model: Models \cup {"none"}, since: Nat, upTo: 0..n]
  BY DEF NothingIsSent, NothingSent, RequestsAreGranted

LEMMA CallEnds ==
  ASSUME AccessInv, NEW c \in AccessCalls, Ends(c), UNCHANGED <<revisions, effective>>,
         current' \in Models, accessStage' \in {"plan", "implement"},
         sent' \in [kind: {"none", "request", "connector"}, model: Models \cup {"none"}, since: Nat, upTo: 0..Len(revisions)],
         RequestsAreGranted'
  PROVE  AccessInv'
<1>1. NoPending \in PendingCall /\ NoPending.at = "idle"
  BY DEF NoPending, PendingCall
<1>2. /\ Sound(NoPending, effective', revisions)
      /\ \A p : Overlap(NoPending, p) /\ Overlap(p, NoPending)
  BY <1>1 DEF Sound, Overlap
<1>3. pending' = [pending EXCEPT ![c] = NoPending] /\ EffectiveIsSound(effective', revisions)
  BY AccessParts DEF Ends
<1> QED BY <1>1, <1>2, <1>3, OneCall

(* A call that goes on without reading anything.                            *)
LEMMA CallGoesOn ==
  ASSUME AccessInv, NEW c \in AccessCalls, NEW at \in {"validated", "setting", "listing"}, Becomes(c, at),
         pending[c].at \notin {"idle", "resolving"}, UNCHANGED <<revisions, current, accessStage>>, NothingIsSent,
         at = "validated" => pending[c].since <= effective',
         at = "setting" => pending[c].op = "setModel",
         at = "listing" => LET rows == revisions[pending[c].env] IN rows.managed /\ rows.ready /\ rows.connector,
         effective' = effective \/ effective' = pending[c].ctx
  PROVE  AccessInv'
<1> DEFINE q == [pending[c] EXCEPT !.at = at]
<1>1. pending[c] \in PendingCall
  BY AccessParts
<1>2. /\ q \in PendingCall /\ q.at = at /\ q.op = pending[c].op /\ q.model = pending[c].model
      /\ q.ctx = pending[c].ctx /\ q.env = pending[c].env /\ q.since = pending[c].since
  BY <1>1 DEF PendingCall
<1>3. pending' = [pending EXCEPT ![c] = q]
  BY AccessParts DEF Becomes
<1> HIDE DEF q
<1>4. Sound(pending[c], effective, revisions) /\ \A d \in AccessCalls : Overlap(pending[c], pending[d]) /\ Overlap(pending[d], pending[c])
  BY AccessParts
<1>5. Sound(q, effective', revisions)
  BY <1>2, <1>4 DEF Sound
<1>6. Overlap(q, q) /\ \A d \in AccessCalls : Overlap(q, pending[d]) /\ Overlap(pending[d], q)
  BY <1>2, <1>4 DEF Overlap
<1>7. /\ EffectiveIsSound(effective', revisions)
      /\ effective' # effective => \A d \in AccessCalls : pending[d].at # "idle" => pending[d].since <= effective'
  <2>1. CASE effective' = effective
    BY <2>1, AccessParts
  <2>2. CASE effective' = pending[c].ctx
    <3>1. pending[c].ctx \in Nat /\ pending[c].ctx <= Len(revisions) /\ resolvePolicy(revisions[pending[c].ctx]).ok
      BY <1>1, <1>4 DEF Sound, PendingCall
    <3> QED BY <1>4, <2>2, <3>1, AccessParts DEF EffectiveIsSound, Overlap
  <2> QED BY <2>1, <2>2
<1>8. Len(revisions) \in Nat /\ current' \in Models /\ accessStage' \in {"plan", "implement"}
  BY AccessParts
<1> QED BY <1>2, <1>3, <1>5, <1>6, <1>7, <1>8, OneCall, NothingSentGranted

(* The oldest call under way began no later than any of them, nor later     *)
(* than now.                                                                *)
LEMMA OldestIsOldest ==
  ASSUME AccessInv
  PROVE  /\ Oldest \in 1..Len(revisions)
         /\ \A d \in AccessCalls : pending[d].at # "idle" => Oldest <= pending[d].ctx
<1> DEFINE under == {c \in AccessCalls : pending[c].at # "idle"}
           began == {pending[c].since : c \in under}
<1>1. Oldest = IF under = {} THEN Len(revisions) ELSE Min(began)
  BY DEF Oldest
<1>2. \A c \in under : /\ pending[c].since \in Nat /\ pending[c].ctx \in Nat
                      /\ 1 <= pending[c].since /\ pending[c].since <= pending[c].ctx /\ pending[c].ctx <= Len(revisions)
  BY AccessParts DEF Sound, Overlap, PendingCall
<1>3. Len(revisions) \in Nat \ {0}
  BY AccessParts
<1>4. CASE under = {}
  BY <1>1, <1>3, <1>4
<1>5. CASE under # {}
  <2>1. began \subseteq Nat /\ began # {}
    BY <1>2, <1>5
  <2> HIDE DEF began
  <2>2. Min(began) \in began /\ \A y \in began : Min(began) <= y
    BY <2>1, LeastElement DEF Min
  <2> USE DEF began
  <2>3. PICK c \in under : Min(began) = pending[c].since
    BY <2>2
  <2>4. Min(began) \in 1..Len(revisions)
    BY <1>2, <1>3, <2>3
  <2>5. ASSUME NEW d \in under PROVE Min(began) <= pending[d].ctx
    <3>1. Min(began) <= pending[d].since
      BY <2>2
    <3> HIDE DEF began, under
    <3> QED BY <1>2, <2>4, <3>1
  <2> QED BY <1>1, <1>5, <2>4, <2>5
<1> QED BY <1>4, <1>5

(* A session before its first call knows one content of the tables.         *)
LEMMA FirstRead ==
  ASSUME NEW rows, IsContent(rows), revisions = <<rows>>, pending = [c \in AccessCalls |-> NoPending],
         effective = 0, current \in Models, accessStage = "plan", sent = NothingSent
  PROVE  AccessInv
<1>1. /\ revisions \in Seq(Range(revisions)) /\ Len(revisions) = 1 /\ IsContent(revisions[1]) /\ DOMAIN revisions = {1}
  BY DEF Range
<1>2. 1 \in Versions
  BY AccessAssumption DEF Versions
<1>3. NoPending \in PendingCall /\ NoPending.at = "idle"
  BY DEF NoPending, PendingCall
<1>4. AccessTypeOK
  BY <1>1, <1>2, <1>3 DEF AccessTypeOK, NothingSent
<1>5. ReadsAreRecent
  BY <1>3 DEF ReadsAreRecent
<1>6. RequestsAreGranted
  BY DEF NothingSent, RequestsAreGranted
<1> QED BY <1>4, <1>5, <1>6 DEF AccessInv

LEMMA AccessInvInit == AccessInit => AccessInv
<1> SUFFICES ASSUME AccessInit PROVE AccessInv
  OBVIOUS
<1>1. PICK rows \in Governance : revisions = <<rows>>
  BY DEF AccessInit
<1>2. IsContent(rows)
  BY AccessAssumption
<1>3. current \in Models
  BY DEF AccessInit, available, availableExecutionModels
<1> QED BY <1>1, <1>2, <1>3, FirstRead DEF AccessInit

(* A model the session may use is one the tables granted.                   *)
LEMMA AvailableIsGranted ==
  ASSUME AccessInv, NEW v \in 1..Len(revisions), resolvePolicy(revisions[v]).ok
  PROVE  available(v) = Granted(revisions[v])
<1>1. IsContent(revisions[v])
  BY AccessParts
<1>2. NoWiderThanGranted(revisions[v])
  BY <1>1, ResolvesToTheMeet
<1> QED BY <1>2 DEF NoWiderThanGranted, available, Policy

LEMMA TablesChange ==
  ASSUME AccessInv, NEW rows \in Governance, GovernanceChanges(rows)
  PROVE  AccessInv'
<1>1. /\ revisions' = Append(revisions, rows) /\ Len(revisions) <= MaxChanges
      /\ UNCHANGED <<pending, effective, current, accessStage>> /\ NothingIsSent
  BY DEF GovernanceChanges
<1>2. /\ Len(revisions') = Len(revisions) + 1 /\ Len(revisions') \in Versions
      /\ \A v \in 1..Len(revisions) : revisions'[v] = revisions[v]
      /\ revisions'[Len(revisions) + 1] = rows /\ DOMAIN revisions' = 1..(Len(revisions) + 1)
      /\ revisions' \in Seq(Range(revisions'))
  <2>1. revisions \in Seq(Range(revisions)) /\ Len(revisions) \in Nat /\ MaxChanges \in Nat
    BY AccessParts, AccessAssumption
  <2>2. /\ revisions \in Seq(Range(revisions) \cup {rows}) /\ rows \in Range(revisions) \cup {rows}
    BY <2>1
  <2>3. /\ revisions' \in Seq(Range(revisions) \cup {rows}) /\ Len(revisions') = Len(revisions) + 1
        /\ \A v \in 1..Len(revisions) : revisions'[v] = revisions[v]
        /\ revisions'[Len(revisions) + 1] = rows /\ DOMAIN revisions' = 1..(Len(revisions) + 1)
    BY <1>1, <2>2
  <2>4. \A v \in 1..Len(revisions') : revisions'[v] \in Range(revisions')
    BY <2>3 DEF Range
  <2>5. revisions' \in Seq(Range(revisions'))
    BY <2>3, <2>4
  <2> QED BY <1>1, <2>1, <2>3, <2>5 DEF Versions
<1>3. \A v \in DOMAIN revisions' : IsContent(revisions'[v])
  BY <1>2, AccessParts, AccessAssumption
<1>4. Len(revisions) \in Nat \ {0}
  BY AccessParts
<1>5. AccessTypeOK'
  BY <1>1, <1>2, <1>3, <1>4, AccessParts, NothingSentGranted DEF AccessTypeOK
<1>6. \A c \in AccessCalls : Sound(pending[c], effective, revisions')
  <2> SUFFICES ASSUME NEW c \in AccessCalls PROVE Sound(pending[c], effective, revisions')
    OBVIOUS
  <2>1. /\ Sound(pending[c], effective, revisions) /\ Overlap(pending[c], pending[c])
        /\ pending[c].ctx \in Nat /\ pending[c].env \in Nat /\ pending[c].since \in Nat
    BY AccessParts DEF PendingCall
  <2>2. pending[c].at # "idle" => pending[c].ctx \in 1..Len(revisions)
    BY <1>4, <2>1 DEF Sound, Overlap
  <2>3. pending[c].at \notin {"idle", "resolving"} => pending[c].env \in 1..Len(revisions)
    BY <1>4, <2>1, <2>2 DEF Sound
  <2> QED BY <1>2, <1>4, <2>1, <2>2, <2>3 DEF Sound
<1>7. EffectiveIsSound(effective, revisions')
  BY <1>2, <1>4, AccessParts DEF EffectiveIsSound
<1>8. ReadsAreRecent'
  <2>1. \A c, d \in AccessCalls : Overlap(pending[c], pending[d])
    BY AccessParts
  <2>2. /\ EffectiveIsSound(effective', revisions')
        /\ \A d \in AccessCalls : Sound(pending'[d], effective', revisions')
        /\ \A d, e \in AccessCalls : Overlap(pending'[d], pending'[e])
    BY <1>1, <1>6, <1>7, <2>1
  <2> QED BY <2>2 DEF ReadsAreRecent, EffectiveIsSound, Sound, Overlap
<1> QED BY <1>1, <1>5, <1>8, NothingSentGranted DEF AccessInv

LEMMA CallBegins ==
  ASSUME AccessInv, NEW c \in AccessCalls, NEW op \in {"prompt", "setModel", "connector"},
         NEW m \in Models \cup {"none"}, op = "setModel" => m \in Models, Begin(c, op, m)
  PROVE  AccessInv'
<1> DEFINE q == [at |-> "resolving", op |-> op, model |-> m, ctx |-> Len(revisions), env |-> 0, since |-> Oldest]
<1>1. Len(revisions) \in Nat \ {0} /\ Oldest \in 1..Len(revisions)
  BY AccessParts, OldestIsOldest
<1>2. /\ q \in PendingCall /\ q.at = "resolving" /\ q.op = op /\ q.model = m /\ q.ctx = Len(revisions)
      /\ q.since = Oldest
  BY <1>1 DEF PendingCall
<1>3. pending' = [pending EXCEPT ![c] = q] /\ NothingIsSent /\ UNCHANGED <<revisions, effective, current, accessStage>>
  BY DEF Begin
<1> HIDE DEF q
<1>4. Sound(q, effective', revisions) /\ Overlap(q, q)
  BY <1>1, <1>2 DEF Sound, Overlap
<1>5. \A d \in AccessCalls : Overlap(q, pending[d])
  BY <1>2, OldestIsOldest DEF Overlap
<1>6. \A d \in AccessCalls : Overlap(pending[d], q)
  <2> SUFFICES ASSUME NEW d \in AccessCalls, pending[d].at # "idle" PROVE pending[d].since <= q.ctx
    BY DEF Overlap
  <2>1. /\ Sound(pending[d], effective, revisions) /\ Overlap(pending[d], pending[d])
        /\ pending[d].ctx \in Nat /\ pending[d].since \in Nat
    BY AccessParts DEF PendingCall
  <2> QED BY <1>1, <1>2, <2>1 DEF Sound, Overlap
<1>7. EffectiveIsSound(effective', revisions) /\ current' \in Models /\ accessStage' \in {"plan", "implement"}
  BY <1>3, AccessParts
<1> QED BY <1>1, <1>2, <1>3, <1>4, <1>5, <1>6, <1>7, OneCall, NothingSentGranted

LEMMA ContextResolves ==
  ASSUME AccessInv, NEW c \in AccessCalls, resolveExecutionContext(c)
  PROVE  AccessInv'
<1>1. /\ pending[c].at = "resolving" /\ NothingIsSent /\ UNCHANGED <<revisions, effective, current, accessStage>>
  BY DEF resolveExecutionContext
<1>2. EffectiveIsSound(effective', revisions) /\ current' \in Models /\ accessStage' \in {"plan", "implement"}
      /\ Len(revisions) \in Nat \ {0}
  BY <1>1, AccessParts
<1>3. CASE Ends(c)
  BY <1>1, <1>2, <1>3, CallEnds, NothingSentGranted
<1>4. CASE Reads(c, pending[c].ctx..Len(revisions))
  <2>0. PICK v \in pending[c].ctx..Len(revisions) : \E w \in v..Len(revisions) :
          /\ resolvePolicy(revisions[v]).ok
          /\ pending' = [pending EXCEPT ![c].at = "resolved", ![c].ctx = v, ![c].env = w]
    BY <1>4 DEF Reads
  <2>1. PICK w \in v..Len(revisions) :
          /\ resolvePolicy(revisions[v]).ok
          /\ pending' = [pending EXCEPT ![c].at = "resolved", ![c].ctx = v, ![c].env = w]
    BY <2>0
  <2> DEFINE q == [pending[c] EXCEPT !.at = "resolved", !.ctx = v, !.env = w]
  <2>2. pending[c] \in PendingCall /\ pending \in [AccessCalls -> PendingCall]
    BY AccessParts
  <2>3. pending[c].ctx \in Nat /\ v \in Nat /\ w \in Nat /\ pending[c].ctx <= v /\ v <= w /\ w <= Len(revisions)
    BY <1>2, <2>2 DEF PendingCall
  <2>4. /\ q \in PendingCall /\ q.at = "resolved" /\ q.op = pending[c].op /\ q.model = pending[c].model
        /\ q.ctx = v /\ q.env = w /\ q.since = pending[c].since
    BY <2>2, <2>3 DEF PendingCall
  <2>5. pending' = [pending EXCEPT ![c] = q]
    BY <2>1, <2>2
  <2> HIDE DEF q
  <2>6. /\ Sound(pending[c], effective, revisions)
        /\ \A d \in AccessCalls : Overlap(pending[c], pending[d]) /\ Overlap(pending[d], pending[c])
    BY AccessParts
  <2>7. Sound(q, effective', revisions)
    BY <1>1, <1>2, <2>1, <2>3, <2>4, <2>6 DEF Sound
  <2>8. \A d \in AccessCalls : pending[d].since \in Nat /\ pending[d].ctx \in Nat
    BY AccessParts DEF PendingCall
  <2>9. Overlap(q, q) /\ \A d \in AccessCalls : Overlap(q, pending[d]) /\ Overlap(pending[d], q)
    BY <1>1, <2>3, <2>4, <2>6, <2>8 DEF Overlap
  <2> QED BY <1>1, <1>2, <2>4, <2>5, <2>7, <2>9, OneCall, NothingSentGranted
<1> QED BY <1>3, <1>4 DEF resolveExecutionContext

(* A prompt goes to a model the tables granted when the session's policy    *)
(* was read; a connector is called as they allowed when its environment was.*)
LEMMA PromptIsGranted ==
  ASSUME AccessInv, NEW c \in AccessCalls, prompt(c)
  PROVE  AccessInv'
<1>1. /\ pending[c].at = "validated" /\ Ends(c) /\ UNCHANGED <<revisions, effective, current, accessStage>>
      /\ IF assertExecutionModel(c) /\ Permitted(current) THEN Sends(c, "request") ELSE NothingIsSent
  BY DEF prompt
<1>2. /\ current \in Models /\ accessStage \in {"plan", "implement"} /\ Len(revisions) \in Nat \ {0}
      /\ pending[c] \in PendingCall /\ Sound(pending[c], effective, revisions)
      /\ EffectiveIsSound(effective, revisions)
  BY AccessParts
<1>3. CASE NothingIsSent
  BY <1>1, <1>2, <1>3, CallEnds, NothingSentGranted
<1>4. CASE Permitted(current) /\ Sends(c, "request")
  <2>1. pending[c].since \in Nat /\ 1 <= pending[c].since /\ pending[c].since <= effective
    BY <1>1, <1>2 DEF Sound, PendingCall
  <2>2. /\ effective \in 1..Len(revisions) /\ effective # 0 /\ effective \in pending[c].since..Len(revisions)
        /\ resolvePolicy(revisions[effective]).ok
    BY <1>2, <2>1 DEF EffectiveIsSound
  <2>3. settingsNow = Policy(effective)
    BY <2>2 DEF settingsNow
  <2>4. current \in available(effective)
    BY <1>2, <1>4, <2>2, <2>3 DEF Permitted, available, availableExecutionModels
  <2>5. current \in Granted(revisions[effective])
    BY <2>2, <2>4, AvailableIsGranted
  <2>6. sent' = [kind |-> "request", model |-> current, since |-> pending[c].since, upTo |-> Len(revisions)]
    BY <1>4 DEF Sends
  <2>7. /\ sent' \in [kind: {"none", "request", "connector"}, model: Models \cup {"none"}, since: Nat, upTo: 0..Len(revisions)]
        /\ sent'.kind = "request" /\ sent'.model = current /\ sent'.since = pending[c].since /\ sent'.upTo = Len(revisions)
    BY <1>2, <2>1, <2>6
  <2>8. \E v \in sent'.since..sent'.upTo : sent'.model \in Granted(revisions[v])
    BY <2>2, <2>5, <2>7
  <2>9. RequestsAreGranted'
    BY <1>1, <2>7, <2>8 DEF RequestsAreGranted
  <2> QED BY <1>1, <1>2, <2>7, <2>9, CallEnds
<1> QED BY <1>1, <1>3, <1>4

LEMMA ConnectorIsGranted ==
  ASSUME AccessInv, NEW c \in AccessCalls, CallConnector(c)
  PROVE  AccessInv'
<1>1. /\ pending[c].at = "listing" /\ Ends(c) /\ UNCHANGED <<revisions, effective, current, accessStage>>
      /\ Sends(c, "connector") \/ NothingIsSent
  BY DEF CallConnector
<1>2. /\ current \in Models /\ accessStage \in {"plan", "implement"} /\ Len(revisions) \in Nat \ {0}
      /\ pending[c] \in PendingCall /\ Sound(pending[c], effective, revisions) /\ Overlap(pending[c], pending[c])
  BY AccessParts
<1>3. CASE NothingIsSent
  BY <1>1, <1>2, <1>3, CallEnds, NothingSentGranted
<1>4. CASE Sends(c, "connector")
  <2>1. /\ pending[c].env \in pending[c].since..Len(revisions) /\ pending[c].since \in Nat
        /\ revisions[pending[c].env].managed /\ revisions[pending[c].env].ready /\ revisions[pending[c].env].connector
    BY <1>1, <1>2 DEF Sound, Overlap, PendingCall
  <2>2. sent' = [kind |-> "connector", model |-> current, since |-> pending[c].since, upTo |-> Len(revisions)]
    BY <1>4 DEF Sends
  <2>3. /\ sent' \in [kind: {"none", "request", "connector"}, model: Models \cup {"none"}, since: Nat, upTo: 0..Len(revisions)]
        /\ sent'.kind = "connector" /\ sent'.since = pending[c].since /\ sent'.upTo = Len(revisions)
    BY <1>2, <2>1, <2>2
  <2>4. RequestsAreGranted'
    BY <1>1, <2>1, <2>3 DEF RequestsAreGranted
  <2> QED BY <1>1, <1>2, <2>3, <2>4, CallEnds
<1> QED BY <1>1, <1>3, <1>4

(* Each step of the tables, the stage and the calls. *)
LEMMA AccessInvStep == AccessInv /\ [AccessNext]_accessVars => AccessInv'
<1> SUFFICES ASSUME AccessInv, [AccessNext]_accessVars PROVE AccessInv'
  OBVIOUS
<1>0. AccessTypeOK /\ ReadsAreRecent /\ RequestsAreGranted
  BY DEF AccessInv
<1>1. ASSUME NEW rows \in Governance, GovernanceChanges(rows) PROVE AccessInv'
  BY <1>1, TablesChange
<1>2. CASE StageMoves
  <2>1. /\ UNCHANGED <<revisions, pending, effective, current>> /\ NothingIsSent /\ accessStage' \in {"plan", "implement"}
    BY <1>2 DEF StageMoves
  <2>2. Len(revisions) \in Nat
    BY AccessParts
  <2>3. AccessTypeOK'
    BY <1>0, <2>1, <2>2, NothingSentGranted DEF AccessTypeOK
  <2>4. ReadsAreRecent'
    BY <1>0, <2>1 DEF ReadsAreRecent
  <2> QED BY <2>1, <2>3, <2>4, NothingSentGranted DEF AccessInv
<1>3. ASSUME NEW c \in AccessCalls, Begin(c, "prompt", current) PROVE AccessInv'
  BY <1>3, AccessParts, CallBegins
<1>4. ASSUME NEW c \in AccessCalls, Begin(c, "connector", "none") PROVE AccessInv'
  BY <1>4, CallBegins
<1>5. ASSUME NEW c \in AccessCalls, NEW m \in Models, Begin(c, "setModel", m) \/ selectFallbackModel(c, m) PROVE AccessInv'
  <2>1. Begin(c, "setModel", m)
    BY <1>5 DEF selectFallbackModel
  <2> QED BY <2>1, CallBegins
<1>6. ASSUME NEW c \in AccessCalls, resolveExecutionContext(c) PROVE AccessInv'
  BY <1>6, ContextResolves
<1>7. ASSUME NEW c \in AccessCalls, Reconcile(c) PROVE AccessInv'
  <2>1. /\ pending[c].at = "resolved" /\ NothingIsSent /\ UNCHANGED <<revisions, current, accessStage>>
        /\ \/ Becomes(c, "validated") /\ effective' = pending[c].ctx
           \/ Ends(c) /\ UNCHANGED effective
    BY <1>7 DEF Reconcile
  <2>2. Len(revisions) \in Nat /\ current \in Models /\ accessStage \in {"plan", "implement"} /\ Overlap(pending[c], pending[c])
    BY AccessParts
  <2>3. CASE Becomes(c, "validated") /\ effective' = pending[c].ctx
    <3>1. pending[c].since <= effective'
      BY <2>1, <2>2, <2>3 DEF Overlap
    <3> QED BY <2>1, <2>3, <3>1, CallGoesOn
  <2>4. CASE Ends(c) /\ UNCHANGED effective
    BY <2>1, <2>2, <2>4, CallEnds, NothingSentGranted
  <2> QED BY <2>1, <2>3, <2>4
<1>8. ASSUME NEW c \in AccessCalls, prompt(c) PROVE AccessInv'
  BY <1>8, PromptIsGranted
<1>9. ASSUME NEW c \in AccessCalls, setModel(c) PROVE AccessInv'
  <2>1. /\ pending[c].at = "validated" /\ pending[c].op = "setModel"
        /\ NothingIsSent /\ UNCHANGED <<revisions, effective, current, accessStage>>
        /\ Becomes(c, "setting") \/ Ends(c)
    BY <1>9 DEF setModel
  <2>2. Len(revisions) \in Nat /\ current \in Models /\ accessStage \in {"plan", "implement"}
    BY AccessParts
  <2>3. CASE Becomes(c, "setting")
    BY <2>1, <2>3, CallGoesOn
  <2>4. CASE Ends(c)
    BY <2>1, <2>2, <2>4, CallEnds, NothingSentGranted
  <2> QED BY <2>1, <2>3, <2>4
<1>10. ASSUME NEW c \in AccessCalls, ModelIsSet(c) PROVE AccessInv'
  <2>1. /\ pending[c].at = "setting" /\ Ends(c) /\ current' = pending[c].model
        /\ NothingIsSent /\ UNCHANGED <<revisions, effective, accessStage>>
    BY <1>10 DEF ModelIsSet
  <2>2. Len(revisions) \in Nat /\ accessStage \in {"plan", "implement"} /\ Sound(pending[c], effective, revisions)
    BY AccessParts
  <2>3. current' \in Models
    BY <2>1, <2>2 DEF Sound
  <2> QED BY <2>1, <2>2, <2>3, CallEnds, NothingSentGranted
<1>11. ASSUME NEW c \in AccessCalls, AuthorizeCall(c) PROVE AccessInv'
  <2>1. /\ pending[c].at = "resolved" /\ NothingIsSent /\ UNCHANGED <<revisions, effective, current, accessStage>>
        /\ \/ authorizeExtension(c, "call") /\ Becomes(c, "listing")
           \/ Ends(c)
    BY <1>11 DEF AuthorizeCall
  <2>2. Len(revisions) \in Nat /\ current \in Models /\ accessStage \in {"plan", "implement"}
    BY AccessParts
  <2>3. CASE authorizeExtension(c, "call") /\ Becomes(c, "listing")
    <3>1. LET rows == revisions[pending[c].env] IN rows.managed /\ rows.ready /\ rows.connector
      BY <2>3 DEF authorizeExtension
    <3> QED BY <2>1, <2>3, <3>1, CallGoesOn
  <2>4. CASE Ends(c)
    BY <2>1, <2>2, <2>4, CallEnds, NothingSentGranted
  <2> QED BY <2>1, <2>3, <2>4
<1>12. ASSUME NEW c \in AccessCalls, CallConnector(c) PROVE AccessInv'
  BY <1>12, ConnectorIsGranted
<1>13. CASE UNCHANGED accessVars
  <2>1. UNCHANGED <<revisions, pending, effective, current, accessStage, sent>>
    BY <1>13 DEF accessVars
  <2>2. AccessTypeOK' /\ ReadsAreRecent' /\ RequestsAreGranted'
    BY <1>0, <2>1 DEF AccessTypeOK, ReadsAreRecent, RequestsAreGranted
  <2> QED BY <2>2 DEF AccessInv
<1> QED BY <1>1, <1>2, <1>3, <1>4, <1>5, <1>6, <1>7, <1>8, <1>9, <1>10, <1>11, <1>12, <1>13 DEF AccessNext

(* Whatever the organization's tables come to say, the policy resolved from *)
(* them grants what every layer grants and no more: for every table, every  *)
(* list of models, cap and level, and any number of changes.                *)
THEOREM PolicyIsTheMeet == AccessSpec => []PolicyIsMeet
<1>1. AccessInv => PolicyIsMeet
  <2> SUFFICES ASSUME AccessInv, NEW v \in DOMAIN revisions PROVE NoWiderThanGranted(revisions[v])
    BY DEF PolicyIsMeet
  <2>1. IsContent(revisions[v])
    BY AccessParts
  <2> QED BY <2>1, ResolvesToTheMeet
<1> QED BY <1>1, AccessInvInit, AccessInvStep, PTL DEF AccessSpec

(* Every prompt and every connector call rests on what the tables allowed   *)
(* since the oldest call it overlaps, for any number of calls at once.      *)
THEOREM RequestsRestOnGrants == AccessSpec => []RequestsAreGranted
<1>1. AccessInv => RequestsAreGranted
  BY DEF AccessInv
<1> QED BY <1>1, AccessInvInit, AccessInvStep, PTL DEF AccessSpec

-----------------------------------------------------------------------------
(* The admission that TLC runs: the gateway's budget, a session's calls and *)
(* every small content of the tables, side by side.                         *)

LEMMA OnePathIsALayer ==
  ASSUME NEW p \in Paths, NEW layer \in Patches(p)
  PROVE  IsLayer(layer)
<1>1. CASE layer = <<>>
  <2>1. DOMAIN layer = {}
    BY <1>1
  <2> QED BY <2>1 DEF IsLayer
<1>2. CASE layer \in [{p} -> Values(p)]
  <2>1. DOMAIN layer = {p} /\ layer[p] \in Values(p)
    BY <1>2
  <2> QED BY <2>1 DEF IsLayer, Values, Paths
<1> QED BY <1>1, <1>2 DEF Patches

LEMMA RowsAreContents ==
  ASSUME NEW p \in Paths, NEW rows \in RowsOf(p)
  PROVE  IsContent(rows)
<1>1. /\ rows.managed \in BOOLEAN /\ rows.ready \in BOOLEAN /\ rows.connector \in BOOLEAN
      /\ rows.approved \subseteq Models /\ rows.delegated \subseteq Paths
      /\ rows.organization \in Patches(p) /\ rows.class \in Patches(p) /\ rows.layer \in Patches(p)
      /\ rows.project \in SavedPolicies(p)
  BY DEF RowsOf
<1>2. rows.project \in [switch: BOOLEAN, cap: Nat \cup {Unlimited}, models: SUBSET Models, levels: SUBSET Levels]
  <2>1. DEFAULT_CAPABILITY_POLICY \in [switch: BOOLEAN, cap: Nat \cup {Unlimited}, models: SUBSET Models, levels: SUBSET Levels]
    BY DEF DEFAULT_CAPABILITY_POLICY
  <2>2. ASSUME NEW v \in Values(p)
        PROVE  [DEFAULT_CAPABILITY_POLICY EXCEPT ![p] = v]
                 \in [switch: BOOLEAN, cap: Nat \cup {Unlimited}, models: SUBSET Models, levels: SUBSET Levels]
    <3>1. CASE p = "switch" /\ v \in BOOLEAN
      BY <3>1, <2>1
    <3>2. CASE p = "cap" /\ v \in {1, 2, Unlimited}
      BY <3>2, <2>1
    <3>3. CASE p = "models" /\ v \in SUBSET Models
      BY <3>3, <2>1
    <3>4. CASE p = "levels" /\ v \in SUBSET Levels
      BY <3>4, <2>1
    <3> QED BY <2>2, <3>1, <3>2, <3>3, <3>4 DEF Values, Paths
  <2> QED BY <1>1, <2>1, <2>2 DEF SavedPolicies
<1> QED BY <1>1, <1>2, OnePathIsALayer DEF IsContent

LEMMA PolicyStarts == PolicyInit => AccessInv
<1> SUFFICES ASSUME PolicyInit PROVE AccessInv
  OBVIOUS
<1>1. PICK p \in Paths : \E rows \in RowsOf(p) : revisions = <<rows>>
  BY DEF PolicyInit
<1>2. PICK rows \in RowsOf(p) : revisions = <<rows>>
  BY <1>1
<1>3. IsContent(rows)
  BY RowsAreContents
<1>4. current \in Models
  BY PolicyAssumption DEF PolicyInit, NothingRead
<1> QED BY <1>2, <1>3, <1>4, FirstRead DEF PolicyInit, NothingRead

(* A request is admitted under a policy and a budget that keep what their   *)
(* properties rest on (gateway.ts, execution-context.ts), for every content *)
(* of the tables, any number of calls and any institution.                  *)
THEOREM AdmissionKeepsItsParts == AdmissionSpec => []AdmissionInv
<1>1. AdmissionInit => AdmissionInv
  BY InvInit, AccessInvInit, PolicyStarts DEF AdmissionInit, AdmissionInv
<1>2. AdmissionInv /\ [AdmissionNext]_<<part, vars, accessVars>> => AdmissionInv'
  <2> SUFFICES ASSUME AdmissionInv, [AdmissionNext]_<<part, vars, accessVars>> PROVE AdmissionInv'
    OBVIOUS
  <2>1. part' = part /\ [Next]_vars /\ [AccessNext]_accessVars
    BY DEF AdmissionNext
  <2>2. Inv => Inv'
    BY <2>1, InvStep
  <2>3. AccessInv => AccessInv'
    BY <2>1, AccessInvStep
  <2> QED BY <2>1, <2>2, <2>3 DEF AdmissionInv
<1> QED BY <1>1, <1>2, PTL DEF AdmissionSpec
=============================================================================

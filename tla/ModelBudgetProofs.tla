------------------------- MODULE ModelBudgetProofs -------------------------
(***************************************************************************)
(* Proofs about ModelBudget, for any number of requests, accounts, months  *)
(* and budgets, any prices and any limits.                                 *)
(***************************************************************************)
EXTENDS ModelBudget, SumsProofs

USE DEF Requests, Accounts, Months

-----------------------------------------------------------------------------
(* Arithmetic of what a request costs *)

(* A product of naturals is one: stated for the provers, which do not find  *)
(* it for themselves in a larger goal.                                      *)
LEMMA ProductNat == \A x, y \in Nat : x * y \in Nat
OBVIOUS

(* A cost rounded up to whole micros is a natural.                          *)
LEMMA CeilDivNat ==
  ASSUME NEW x \in Nat, NEW d \in Nat \ {0}
  PROVE  CeilDiv(x, d) \in Nat
BY DEF CeilDiv

(* The dearest of three rates bounds each of them.                          *)
LEMMA MaxOfThree ==
  ASSUME NEW x \in Nat, NEW y \in Nat, NEW z \in Nat
  PROVE  /\ Max({x, y, z}) \in Nat
         /\ x <= Max({x, y, z}) /\ y <= Max({x, y, z}) /\ z <= Max({x, y, z})
<1>1. \E w \in {x, y, z} : \A u \in {x, y, z} : w >= u
  BY DEF Max
<1>2. Max({x, y, z}) = CHOOSE w \in {x, y, z} : \A u \in {x, y, z} : w >= u
  BY DEF Max
<1> QED BY <1>1, <1>2

(* Rounding up keeps the order of two costs.                                *)
LEMMA CeilDivMonotone ==
  ASSUME NEW x \in Nat, NEW y \in Nat, NEW d \in Nat \ {0}, x <= y
  PROVE  CeilDiv(x, d) <= CeilDiv(y, d)
BY DEF CeilDiv

(* A reservation, and what is charged for real usage, are amounts. *)
LEMMA ReserveType ==
  ASSUME NEW p \in Prices \cup {NULL}, NEW out \in OutputBounds
  PROVE  Reserve(p, out) \in Amounts
<1>1. out \in Nat /\ INPUT_BOUND \in Nat /\ PerMillion \in Nat \ {0}
  BY BoundsAssumption
<1>2. ReserveCost(p, out) \in Nat
  <2>1. CASE p = NULL
    BY <2>1 DEF ReserveCost
  <2>2. CASE p # NULL
    <3>1. p \in Price
      BY <2>2, TenantAssumption
    <3>2. Max({p.input, p.cacheRead, p.cacheWrite}) \in Nat
      BY <3>1, MaxOfThree DEF Price
    <3>3. /\ INPUT_BOUND * Max({p.input, p.cacheRead, p.cacheWrite}) \in Nat
          /\ out * p.output \in Nat
      BY <1>1, <3>1, <3>2, ProductNat DEF Price
    <3>4. INPUT_BOUND * Max({p.input, p.cacheRead, p.cacheWrite}) + out * p.output \in Nat
      BY <3>3
    <3> QED BY <1>1, <2>2, <3>4, CeilDivNat DEF ReserveCost
  <2> QED BY <2>1, <2>2
<1> QED BY <1>1, <1>2 DEF Reserve, Amounts

(* What real usage is charged is an amount.                                 *)
LEMMA ActualType ==
  ASSUME NEW p \in Prices \cup {NULL}, NEW u \in Usages
  PROVE  Actual(p, u) \in Amounts
<1>1. u \in Usage /\ PerMillion \in Nat \ {0}
  BY BoundsAssumption, TenantAssumption
<1>2. ActualCost(p, u) \in Nat
  <2>1. CASE p = NULL
    BY <2>1 DEF ActualCost
  <2>2. CASE p # NULL
    <3>1. p \in Price
      BY <2>2, TenantAssumption
    <3>2. /\ u.input * p.input \in Nat /\ u.output * p.output \in Nat
          /\ u.cacheRead * p.cacheRead \in Nat /\ u.cacheWrite * p.cacheWrite \in Nat
      BY <1>1, <3>1, ProductNat DEF Price, Usage
    <3>3. u.input * p.input + u.output * p.output
            + u.cacheRead * p.cacheRead + u.cacheWrite * p.cacheWrite \in Nat
      BY <3>2
    <3> QED BY <1>1, <2>2, <3>3, CeilDivNat DEF ActualCost
  <2> QED BY <2>1, <2>2
<1> QED BY <1>1, <1>2 DEF Actual, Amounts, Usage

-----------------------------------------------------------------------------
(* The invariant holds before the first request.                            *)
LEMMA InvInit == Init => Inv
<1> SUFFICES ASSUME Init PROVE Inv
  OBVIOUS
<1>1. TypeOK
  BY BoundsAssumption, TenantAssumption
     DEF Init, TypeOK, NoReservation, NoUsage, NoCall, Reservation, Call, Amounts, InFlight, Meters
<1>2. \A r \in Requests : RequestInv(r)
  BY DEF Init, RequestInv, NoReservation
<1> QED BY <1>1, <1>2 DEF Inv

(* Each step of the gateway *)
LEMMA InvGateway ==
  ASSUME Inv, NEW r \in Requests, GatewayStep(r)
  PROVE  Inv'
<1> USE DEF tenant, tables
<1>1. CASE TurnAway(r)
  BY <1>1 DEF Inv, TypeOK, RequestInv, TurnAway, IsNext, InFlight
<1>2. ASSUME NEW a \in Accounts, NEW isAgent \in BOOLEAN, NEW out \in OutputBounds,
             Arrive(r, a, isAgent, out)
      PROVE  Inv'
  <2>1. price[ProfileOf[a]] \in Prices \cup {NULL}
    BY TenantAssumption DEF Inv, TypeOK
  <2>2. TypeOK'
    BY <1>2, <2>1 DEF Inv, TypeOK, Arrive, IsNext, InFlight, Call
  <2>3. month \in Months
    BY DEF Inv, TypeOK
  <2>4. ASSUME NEW q \in Requests PROVE RequestInv(q)'
    BY <1>2, <2>3 DEF Inv, RequestInv, Arrive, IsNext, TypeOK
  <2> QED BY <2>2, <2>4 DEF Inv
<1>3. CASE NoProvider(r) \/ CallProvider(r) \/ ProviderFails(r)
  <2>1. TypeOK'
    BY <1>3 DEF Inv, TypeOK, NoProvider, CallProvider, ProviderFails, InFlight
  <2>2. ASSUME NEW q \in Requests PROVE RequestInv(q)'
    BY <1>3 DEF Inv, TypeOK, RequestInv, NoProvider, CallProvider, ProviderFails
  <2> QED BY <2>1, <2>2 DEF Inv
<1>4. ASSUME NEW u \in Usages, ProviderAnswers(r, u) PROVE Inv'
  <2>1. u # NULL
    BY TenantAssumption, NullAssumption
  <2>2. TypeOK'
    BY <1>4 DEF Inv, TypeOK, ProviderAnswers, InFlight
  <2>3. ASSUME NEW q \in Requests PROVE RequestInv(q)'
    BY <1>4, <2>1 DEF Inv, RequestInv, ProviderAnswers, TypeOK
  <2> QED BY <2>2, <2>3 DEF Inv
<1>5. CASE LoseRpc(r)
  BY <1>5 DEF Inv, TypeOK, RequestInv, LoseRpc, InFlight
<1>6. CASE RedeliverSettle(r)
  BY <1>6 DEF Inv, TypeOK, RequestInv, RedeliverSettle
<1> QED BY <1>1, <1>2, <1>3, <1>4, <1>5, <1>6 DEF GatewayStep

(* Each transaction of the database *)
LEMMA InvAdmit ==
  ASSUME Inv, NEW r \in Requests, NEW p \in PriceAt(r), txn[r] = "reserve", Admit(r, p)
  PROVE  Inv'
<1> USE DEF tenant
<1>1. call[r].account \in Accounts /\ call[r].month \in Months /\ call[r].output \in OutputBounds
  BY DEF Inv, RequestInv
<1>2. p \in Prices \cup {NULL}
  BY <1>1, TenantAssumption DEF PriceAt, Inv, TypeOK, Call
<1>3. Reserve(p, call[r].output) \in Amounts
  BY <1>1, <1>2, ReserveType
<1> DEFINE new == [status |-> "reserved", month |-> call[r].month, account |-> call[r].account,
                   price |-> p, amount |-> Reserve(p, call[r].output)]
<1>4. new \in Reservation
  BY <1>1, <1>2, <1>3 DEF Reservation
<1>5. res' = [res EXCEPT ![r] = new]
  BY DEF Admit
<1>6. new.status = "reserved" /\ new.month \in Months /\ new.account \in Accounts
  BY <1>1
<1> HIDE DEF new
<1>7. TypeOK'
  BY <1>4, <1>5 DEF Inv, TypeOK, Admit, Done, Reply, InFlight
<1>8. ASSUME NEW q \in Requests PROVE RequestInv(q)'
  <2>1. CASE q = r
    <3>1. res'[r] = new /\ ledger[r] = NULL
      BY <1>5, <2>1 DEF Inv, TypeOK, RequestInv
    <3> QED BY <3>1, <1>6, <2>1 DEF Inv, TypeOK, RequestInv, Admit, Done, Reply
  <2>2. CASE q # r
    BY <1>5, <2>2 DEF Inv, TypeOK, RequestInv, Admit, Done, Reply
  <2> QED BY <2>1, <2>2
<1> QED BY <1>7, <1>8 DEF Inv

(* A settlement keeps the invariant: the ledger row takes month and account *)
(* from its reservation, and no more than its amount.                       *)
LEMMA InvSettleRecords ==
  ASSUME Inv, NEW r \in Requests, SettleRecords(r)
  PROVE  Inv'
<1> USE DEF tenant
<1> DEFINE spent == Actual(res[r].price, usage[r])
           k == res[r].month
           a == res[r].account
           row == [month |-> k, amount |-> spent]
           day == [amount |-> [m \in Meters |-> daily[k][a].amount[m] + spent[m]],
                   unknown |-> daily[k][a].unknown + (IF res[r].price = NULL THEN 1 ELSE 0)]
<1>1. usage[r] \in Usages /\ k \in Months /\ a \in Accounts /\ res[r] \in Reservation
  BY DEF Inv, TypeOK, RequestInv, SettleRecords
<1>2. spent \in Amounts
  BY <1>1, ActualType DEF Reservation
<1>3. row \in LedgerRow /\ row # NULL
  BY <1>1, <1>2, NullAssumption DEF LedgerRow
<1>4. daily[k][a] \in [amount: Amounts, unknown: Nat]
  <2>1. \A j \in Months, c \in Accounts : daily[j][c] \in [amount: Amounts, unknown: Nat]
    BY DEF Inv, TypeOK
  <2> QED BY <1>1, <2>1
<1>5. day \in [amount: Amounts, unknown: Nat]
  BY <1>2, <1>4 DEF Amounts
<1>6. /\ ledger' = [ledger EXCEPT ![r] = row]
      /\ daily' = [daily EXCEPT ![k][a] = day]
      /\ res' = [res EXCEPT ![r].status = "settled"]
  BY DEF SettleRecords
<1>7. \A m \in Meters : spent[m] <= res[r].amount[m]
  <2>1. \A m \in Meters : ~ (spent[m] > res[r].amount[m])
    BY DEF SettleRecords, Exceeds
  <2>2. res[r].amount \in Amounts
    BY <1>1 DEF Reservation
  <2> HIDE DEF spent
  <2> QED BY <1>2, <2>1, <2>2 DEF Amounts
<1>8. row.month = k /\ row.amount = spent
  OBVIOUS
<1> HIDE DEF spent, row, day
<1>9. TypeOK'
  <2>1. res' \in [Requests -> Reservation]
    <3>1. [res[r] EXCEPT !.status = "settled"] \in Reservation
      BY <1>1 DEF Reservation
    <3>2. res' = [res EXCEPT ![r] = [res[r] EXCEPT !.status = "settled"]]
      BY <1>6
    <3> QED BY <3>1, <3>2 DEF Inv, TypeOK
  <2>2. ledger' \in [Requests -> LedgerRow \cup {NULL}]
    BY <1>3, <1>6 DEF Inv, TypeOK
  <2>3. daily' \in [Months -> [Accounts -> [amount: Amounts, unknown: Nat]]]
    BY <1>5, <1>6 DEF Inv, TypeOK
  <2> QED BY <2>1, <2>2, <2>3 DEF Inv, TypeOK, SettleRecords, Done, Reply, InFlight
<1>10. ASSUME NEW q \in Requests PROVE RequestInv(q)'
  <2>1. CASE q = r
    <3>1. /\ ledger'[r] = row /\ res'[r].status = "settled"
          /\ res'[r].month = k /\ res'[r].account = a /\ res'[r].amount = res[r].amount
      BY <1>1, <1>6 DEF Inv, TypeOK, Reservation
    <3>2. txn'[r] = "none" /\ usage'[r] = usage[r] /\ pc'[r] \in {pc[r], "completed"}
      BY DEF Inv, TypeOK, SettleRecords, Done, Reply
    <3>3. usage[r] # NULL /\ pc[r] # "idle" /\ pc[r] # "reserving"
      BY DEF Inv, RequestInv, SettleRecords
    <3> QED BY <1>1, <1>3, <1>7, <1>8, <2>1, <3>1, <3>2, <3>3 DEF RequestInv
  <2>2. CASE q # r
    <3>1. /\ ledger'[q] = ledger[q] /\ res'[q] = res[q] /\ txn'[q] = txn[q] /\ pc'[q] = pc[q]
          /\ usage'[q] = usage[q] /\ call'[q] = call[q]
      BY <1>6, <2>2 DEF Inv, TypeOK, SettleRecords, Done, Reply
    <3> QED BY <3>1 DEF Inv, RequestInv
  <2> QED BY <2>1, <2>2
<1> QED BY <1>9, <1>10 DEF Inv

(* Every transaction keeps the invariant.                                   *)
LEMMA InvDatabase ==
  ASSUME Inv, NEW r \in Requests, DatabaseStep(r)
  PROVE  Inv'
<1> USE DEF tenant, tables
<1>1. ASSUME Decide(r) PROVE Inv'
  <2>1. ASSUME NEW p \in PriceAt(r), Deny(r, p) PROVE Inv'
    <3>1. txn[r] = "reserve"
      BY <1>1 DEF Decide
    <3>2. TypeOK'
      BY <2>1 DEF Inv, TypeOK, Deny, Done, Reply, InFlight
    <3>3. ASSUME NEW q \in Requests PROVE RequestInv(q)'
      BY <2>1, <3>1 DEF Inv, TypeOK, RequestInv, Deny, Done, Reply
    <3> QED BY <3>2, <3>3 DEF Inv
  <2> QED BY <1>1, <2>1, InvAdmit DEF Decide
<1>2. CASE SettleRecords(r)
  BY <1>2, InvSettleRecords
<1>3. ASSUME SettleAgain(r) \/ SettleRejected(r) \/ AbortTxn(r) PROVE Inv'
  <2>1. TypeOK'
    BY <1>3 DEF Inv, TypeOK, SettleAgain, SettleRejected, AbortTxn, Done, Reply, InFlight
  <2>2. ASSUME NEW q \in Requests PROVE RequestInv(q)'
    <3>1. CASE SettleAgain(r)
      BY <3>1 DEF Inv, TypeOK, RequestInv, SettleAgain, Done, Reply
    <3>2. CASE SettleRejected(r)
      BY <3>2 DEF Inv, TypeOK, RequestInv, SettleRejected, Done, Reply
    <3>3. CASE AbortTxn(r)
      BY <3>3 DEF Inv, TypeOK, RequestInv, AbortTxn, Done
    <3> QED BY <1>3, <3>1, <3>2, <3>3
  <2> QED BY <2>1, <2>2 DEF Inv
<1> QED BY <1>1, <1>2, <1>3 DEF DatabaseStep

(* The invariant is inductive.                                              *)
LEMMA InvStep == Inv /\ [Next]_vars => Inv'
<1> SUFFICES ASSUME Inv, [Next]_vars PROVE Inv'
  OBVIOUS
<1> USE DEF tables, gateway
<1>1. CASE RequestStep
  BY <1>1, InvGateway, InvDatabase DEF RequestStep
<1>2. CASE Crash
  <2>1. TypeOK'
    BY <1>2 DEF Inv, TypeOK, Crash, tenant, InFlight
  <2>2. ASSUME NEW q \in Requests PROVE RequestInv(q)'
    BY <1>2 DEF Inv, TypeOK, RequestInv, Crash, InFlight
  <2> QED BY <2>1, <2>2 DEF Inv
<1>3. ASSUME NEW b \in Budgets, NEW s \in Settings, SaveBudget(b, s) PROVE Inv'
  BY <1>3 DEF Inv, TypeOK, RequestInv, SaveBudget
<1>4. ASSUME NEW f \in Profiles, NEW p \in Prices, SavePrice(f, p) PROVE Inv'
  BY <1>4 DEF Inv, TypeOK, RequestInv, SavePrice
<1>5. CASE NextMonth
  BY <1>5, BoundsAssumption DEF Inv, TypeOK, RequestInv, NextMonth
<1>6. CASE UNCHANGED vars
  BY <1>6 DEF Inv, TypeOK, RequestInv, vars
<1> QED BY <1>1, <1>2, <1>3, <1>4, <1>5, <1>6 DEF Next, PriceOrClockStep

(* Type correctness: every table and every request keeps its shape, for any *)
(* institution, and the rows of one request stay consistent.                *)
THEOREM InvCorrect == Spec => []Inv
<1> QED BY InvInit, InvStep, PTL DEF Spec

(* Every table and every request keeps its shape.                           *)
THEOREM TypeCorrect == Spec => []TypeOK
<1>1. Inv => TypeOK
  BY DEF Inv
<1> QED BY <1>1, InvCorrect, PTL

(* A provider is only called against a reservation, and a completion is only *)
(* handed out with its ledger row, whatever crashes and replies are lost.    *)
THEOREM WorkBooked == Spec => []ModelWorkIsBooked
<1>1. Inv => ModelWorkIsBooked
  BY DEF Inv, RequestInv, ModelWorkIsBooked
<1> QED BY <1>1, InvCorrect, PTL

-----------------------------------------------------------------------------
(* Only an admission and a settlement write a table. *)
LEMMA TableSteps ==
  ASSUME [Next]_vars
  PROVE  \/ UNCHANGED <<res, ledger, daily>>
         \/ /\ budget' = budget /\ call' = call
            /\ \/ \E r \in Requests : \E p \in PriceAt(r) : txn[r] = "reserve" /\ Admit(r, p)
               \/ \E r \in Requests : SettleRecords(r)
<1> USE DEF tables, tenant, gateway
<1>1. ASSUME NEW r \in Requests, GatewayStep(r) PROVE UNCHANGED <<res, ledger, daily>>
  BY <1>1 DEF GatewayStep, TurnAway, Arrive, NoProvider, CallProvider, ProviderFails,
              ProviderAnswers, LoseRpc, RedeliverSettle
<1>2. ASSUME NEW r \in Requests, DatabaseStep(r)
      PROVE  \/ UNCHANGED <<res, ledger, daily>>
             \/ /\ budget' = budget /\ call' = call
                /\ \/ \E p \in PriceAt(r) : txn[r] = "reserve" /\ Admit(r, p)
                   \/ SettleRecords(r)
  <2>1. ASSUME NEW p \in PriceAt(r), txn[r] = "reserve", Admit(r, p) \/ Deny(r, p)
        PROVE  \/ UNCHANGED <<res, ledger, daily>>
               \/ budget' = budget /\ call' = call /\ Admit(r, p)
    BY <2>1 DEF Admit, Deny
  <2>2. CASE Decide(r)
    BY <2>1, <2>2 DEF Decide
  <2>3. CASE SettleRecords(r)
    BY <2>3 DEF SettleRecords
  <2>4. CASE SettleAgain(r) \/ SettleRejected(r) \/ AbortTxn(r)
    BY <2>4 DEF SettleAgain, SettleRejected, AbortTxn
  <2> QED BY <1>2, <2>2, <2>3, <2>4 DEF DatabaseStep
<1>3. CASE RequestStep
  BY <1>1, <1>2, <1>3 DEF RequestStep
<1>4. CASE Crash
  BY <1>4 DEF Crash
<1>5. ASSUME NEW b \in Budgets, NEW s \in Settings, SaveBudget(b, s)
      PROVE  UNCHANGED <<res, ledger, daily>>
  BY <1>5 DEF SaveBudget
<1>6. CASE PriceOrClockStep
  BY <1>6 DEF PriceOrClockStep, SavePrice, NextMonth
<1>7. CASE UNCHANGED vars
  BY <1>7 DEF vars
<1> QED BY <1>3, <1>4, <1>5, <1>6, <1>7 DEF Next

(* A reservation changes only by settling, in the step that writes its       *)
(* ledger row; the row never changes after.                                  *)
THEOREM HeldOnceSettledOnce == Spec => HeldUntilSettled
<1> DEFINE Step == \A r \in Requests :
       /\ res[r].status # "none" /\ res'[r] # res[r] =>
            /\ res'[r] = [res[r] EXCEPT !.status = "settled"]
            /\ ledger[r] = NULL /\ ledger'[r] # NULL
            /\ ledger'[r].month = res[r].month
       /\ ledger[r] # NULL => ledger'[r] = ledger[r]
<1>1. Inv /\ [Next]_vars => Step
  <2> SUFFICES ASSUME Inv, [Next]_vars, NEW r \in Requests
               PROVE  /\ res[r].status # "none" /\ res'[r] # res[r] =>
                           /\ res'[r] = [res[r] EXCEPT !.status = "settled"]
                           /\ ledger[r] = NULL /\ ledger'[r] # NULL
                           /\ ledger'[r].month = res[r].month
                      /\ ledger[r] # NULL => ledger'[r] = ledger[r]
    OBVIOUS
  <2>1. CASE UNCHANGED <<res, ledger, daily>>
    BY <2>1
  <2>2. ASSUME NEW q \in Requests, NEW p \in PriceAt(q), txn[q] = "reserve", Admit(q, p)
        PROVE  (q = r => res[r].status = "none") /\ (q # r => res'[r] = res[r])
               /\ ledger' = ledger
    BY <2>2 DEF Inv, TypeOK, RequestInv, Admit
  <2>3. ASSUME NEW q \in Requests, SettleRecords(q)
        PROVE  /\ q # r => res'[r] = res[r] /\ ledger'[r] = ledger[r]
               /\ q = r => /\ res'[r] = [res[r] EXCEPT !.status = "settled"]
                           /\ ledger[r] = NULL
                           /\ ledger'[r] # NULL
                           /\ ledger'[r].month = res[r].month
    <3>1. Inv'
      BY InvStep
    <3>2. ledger[q] = NULL /\ ledger' = [ledger EXCEPT ![q] = ledger'[q]]
          /\ res' = [res EXCEPT ![q].status = "settled"]
      BY <2>3 DEF Inv, TypeOK, RequestInv, SettleRecords
    <3> QED BY <3>1, <3>2 DEF Inv, TypeOK, RequestInv
  <2> QED BY <2>1, <2>2, <2>3, TableSteps
<1> QED BY <1>1, InvCorrect, PTL DEF Spec, HeldUntilSettled

-----------------------------------------------------------------------------
(* The sums of the model, as tables.  The month's held reservations and its  *)
(* ledger rows make up what a budget has committed.                          *)

AccountRow(b, k, m) ==
  [a \in Accounts |-> IF a \in Covers[b] THEN daily[k][a].amount[m] ELSE 0]

SettledRow(b, k, m) ==
  [r \in Requests |-> IF ledger[r] # NULL /\ Counts(r, b, k) THEN ledger[r].amount[m] ELSE 0]

HeldRow(b, k, m) ==
  [r \in Requests |-> IF res[r].status = "reserved" /\ Counts(r, b, k)
                      THEN res[r].amount[m] ELSE 0]

HeldSinceRow(b, k, m) ==
  [r \in Requests |-> IF res[r].status = "reserved" /\ res[r].month >= k
                         /\ res[r].account \in Covers[b]
                      THEN res[r].amount[m] ELSE 0]

CommittedRow(b, k, m) ==
  [r \in Requests |-> IF Counts(r, b, k) THEN Charge(r)[m] ELSE 0]

RowTypes ==
  \A b \in Budgets, k \in Months, m \in Meters :
    /\ AccountRow(b, k, m) \in [1..NumAccounts -> Nat]
    /\ SettledRow(b, k, m) \in [1..NumRequests -> Nat]
    /\ HeldRow(b, k, m) \in [1..NumRequests -> Nat]
    /\ HeldSinceRow(b, k, m) \in [1..NumRequests -> Nat]
    /\ CommittedRow(b, k, m) \in [1..NumRequests -> Nat]

(* The rows that the sums range over are naturals.                          *)
LEMMA RowsTyped == Inv => RowTypes
<1> SUFFICES ASSUME Inv, NEW b \in Budgets, NEW k \in Months, NEW m \in Meters
             PROVE  /\ AccountRow(b, k, m) \in [1..NumAccounts -> Nat]
                    /\ SettledRow(b, k, m) \in [1..NumRequests -> Nat]
                    /\ HeldRow(b, k, m) \in [1..NumRequests -> Nat]
                    /\ HeldSinceRow(b, k, m) \in [1..NumRequests -> Nat]
                    /\ CommittedRow(b, k, m) \in [1..NumRequests -> Nat]
  BY DEF RowTypes
<1>1. \A a \in Accounts : daily[k][a].amount[m] \in Nat
  <2> TAKE a \in Accounts
  <2>1. daily[k] \in [Accounts -> [amount: Amounts, unknown: Nat]]
    BY DEF Inv, TypeOK
  <2>2. daily[k][a].amount \in Amounts
    BY <2>1
  <2> QED BY <2>2 DEF Amounts
<1>2. \A r \in Requests : res[r].amount[m] \in Nat
  BY DEF Inv, TypeOK, Reservation, Amounts
<1>3. \A r \in Requests : ledger[r] # NULL => ledger[r].amount[m] \in Nat
  BY DEF Inv, TypeOK, LedgerRow, Amounts
<1> QED BY <1>1, <1>2, <1>3
        DEF AccountRow, SettledRow, HeldRow, HeldSinceRow, CommittedRow, Charge

(* What is committed is what has settled and what is held. *)
LEMMA CommittedSplit ==
  ASSUME Inv, NEW b \in Budgets, NEW k \in Months, NEW m \in Meters
  PROVE  Committed(b, k, m) = SumTo(SettledRow(b, k, m), NumRequests)
                              + SumTo(HeldRow(b, k, m), NumRequests)
<1>1. RowTypes /\ NumRequests \in Nat
  BY RowsTyped, BoundsAssumption
<1>2. \A r \in 1..NumRequests :
        CommittedRow(b, k, m)[r] = SettledRow(b, k, m)[r] + HeldRow(b, k, m)[r]
  <2> TAKE r \in 1..NumRequests
  <2>1. ledger[r] # NULL <=> res[r].status = "settled"
    BY DEF Inv, RequestInv
  <2>2. res[r].status \in {"none", "reserved", "settled"}
    BY DEF Inv, TypeOK, Reservation
  <2>3. /\ SettledRow(b, k, m)[r] \in Nat /\ HeldRow(b, k, m)[r] \in Nat
        /\ CommittedRow(b, k, m)[r] \in Nat
    BY <1>1 DEF RowTypes
  <2> QED BY <2>1, <2>2, <2>3 DEF CommittedRow, SettledRow, HeldRow, Counts, Charge
<1>3. SumTo(CommittedRow(b, k, m), NumRequests)
        = SumTo(SettledRow(b, k, m), NumRequests) + SumTo(HeldRow(b, k, m), NumRequests)
  BY <1>1, <1>2, SumAdd DEF RowTypes
<1> QED BY <1>3 DEF Committed, CommittedRow

-----------------------------------------------------------------------------
(* The aggregate the decisions read agrees with the ledger, budget by budget. *)
Aggregated ==
  \A b \in Budgets, k \in Months, m \in Meters :
    UsedIn(b, k, m) = SumTo(SettledRow(b, k, m), NumRequests)

(* What a settlement of r adds: the same amount to one account of one month *)
(* and to the ledger row of r.                                              *)
LEMMA SettlementAdds ==
  ASSUME Inv, NEW r \in Requests, SettleRecords(r)
  PROVE  LET k == res[r].month
             a == res[r].account
             spent == Actual(res[r].price, usage[r])
         IN  /\ k \in Months /\ a \in Accounts /\ spent \in Amounts
             /\ res[r].status = "reserved" /\ ledger[r] = NULL
             /\ res' = [res EXCEPT ![r].status = "settled"]
             /\ ledger' = [ledger EXCEPT ![r] = [month |-> k, amount |-> spent]]
             /\ ledger'[r] # NULL
             /\ \A m \in Meters : spent[m] <= res[r].amount[m]
             /\ \A j \in Months, c \in Accounts, m \in Meters :
                  daily'[j][c].amount[m] = daily[j][c].amount[m]
                                           + (IF j = k /\ c = a THEN spent[m] ELSE 0)
<1> DEFINE k == res[r].month
           a == res[r].account
           spent == Actual(res[r].price, usage[r])
           row == [month |-> k, amount |-> spent]
           day == [amount |-> [m \in Meters |-> daily[k][a].amount[m] + spent[m]],
                   unknown |-> daily[k][a].unknown + (IF res[r].price = NULL THEN 1 ELSE 0)]
<1>1. usage[r] \in Usages /\ k \in Months /\ a \in Accounts /\ res[r] \in Reservation
  BY DEF Inv, TypeOK, RequestInv, SettleRecords
<1>2. spent \in Amounts
  BY <1>1, ActualType DEF Reservation
<1>3. row # NULL
  BY <1>1, <1>2, NullAssumption
<1>4. /\ ledger' = [ledger EXCEPT ![r] = row]
      /\ daily' = [daily EXCEPT ![k][a] = day]
      /\ res' = [res EXCEPT ![r].status = "settled"]
      /\ res[r].status = "reserved"
  BY DEF SettleRecords
<1>5. \A m \in Meters : spent[m] <= res[r].amount[m]
  <2>1. \A m \in Meters : ~ (spent[m] > res[r].amount[m])
    BY DEF SettleRecords, Exceeds
  <2>2. res[r].amount \in Amounts
    BY <1>1 DEF Reservation
  <2> HIDE DEF spent
  <2> QED BY <1>2, <2>1, <2>2 DEF Amounts
<1>6. ledger[r] = NULL /\ ledger'[r] = row
  BY <1>4 DEF Inv, TypeOK, RequestInv
<1>7. ASSUME NEW j \in Months, NEW c \in Accounts, NEW m \in Meters
      PROVE  daily'[j][c].amount[m] = daily[j][c].amount[m]
                                      + (IF j = k /\ c = a THEN spent[m] ELSE 0)
  <2>1. daily \in [Months -> [Accounts -> [amount: Amounts, unknown: Nat]]]
    BY DEF Inv, TypeOK
  <2>2. daily[j][c].amount[m] \in Nat
    <3>1. daily[j] \in [Accounts -> [amount: Amounts, unknown: Nat]]
      BY <2>1
    <3>2. daily[j][c].amount \in Amounts
      BY <3>1
    <3> QED BY <3>2 DEF Amounts
  <2>3. CASE j = k /\ c = a
    <3>1. daily'[k] = [daily[k] EXCEPT ![a] = day]
      <4> HIDE DEF day, k
      <4> QED BY <1>1, <1>4, <2>1
    <3>2. daily[k] \in [Accounts -> [amount: Amounts, unknown: Nat]]
      BY <1>1, <2>1
    <3>3. daily'[k][a] = day
      <4> HIDE DEF day, k, a
      <4> QED BY <1>1, <3>1, <3>2
    <3>4. day.amount[m] = daily[k][a].amount[m] + spent[m]
      <4> HIDE DEF k, a, spent
      <4> QED BY DEF day
    <3> HIDE DEF day, k, a, spent
    <3> QED BY <2>3, <3>3, <3>4
  <2>4. CASE ~ (j = k /\ c = a)
    <3>1. daily'[j][c] = daily[j][c]
      BY <1>1, <1>4, <2>1, <2>4
    <3>2. daily[j][c].amount[m] = daily[j][c].amount[m] + 0
      BY <2>2
    <3> QED BY <2>4, <3>1, <3>2
  <2> QED BY <2>3, <2>4
<1> QED BY <1>1, <1>2, <1>3, <1>4, <1>5, <1>6, <1>7

(* A settlement adds the same amount to the aggregate and to the ledger.    *)
LEMMA AggregatedSettle ==
  ASSUME Inv, Aggregated, NEW r \in Requests, SettleRecords(r)
  PROVE  Aggregated'
<1> SUFFICES ASSUME NEW b \in Budgets, NEW k \in Months, NEW m \in Meters
             PROVE  UsedIn(b, k, m)' = SumTo(SettledRow(b, k, m)', NumRequests)
  BY DEF Aggregated
<1> DEFINE a == res[r].account
           spent == Actual(res[r].price, usage[r])
           d == IF res[r].month = k /\ a \in Covers[b] THEN spent[m] ELSE 0
           v == AccountRow(b, k, m)
           w == AccountRow(b, k, m)'
           x == SettledRow(b, k, m)
           y == SettledRow(b, k, m)'
<1>1. a \in 1..NumAccounts /\ r \in 1..NumRequests /\ d \in Nat
  BY SettlementAdds DEF Amounts
<1>2. /\ v \in [1..NumAccounts -> Nat] /\ x \in [1..NumRequests -> Nat]
      /\ w \in [1..NumAccounts -> Nat] /\ y \in [1..NumRequests -> Nat]
  <2>1. RowTypes
    BY RowsTyped
  <2>2. Inv'
    BY InvDatabase DEF DatabaseStep
  <2>3. RowTypes'
    BY <2>2, RowsTyped, PTL
  <2> QED BY <2>1, <2>3 DEF RowTypes
<1>3. w[a] = v[a] + d /\ \A c \in 1..NumAccounts : c # a => w[c] = v[c]
  <2>1. \A c \in Accounts : daily'[k][c].amount[m] = daily[k][c].amount[m]
                              + (IF k = res[r].month /\ c = a THEN spent[m] ELSE 0)
    BY SettlementAdds
  <2>2. \A c \in Accounts : daily[k][c].amount[m] \in Nat
    <3>1. daily[k] \in [Accounts -> [amount: Amounts, unknown: Nat]]
      BY DEF Inv, TypeOK
    <3>2. \A c \in Accounts : daily[k][c].amount \in Amounts
      BY <3>1
    <3> QED BY <3>2 DEF Amounts
  <2> HIDE DEF spent
  <2>3. \A c \in Accounts : /\ v[c] = IF c \in Covers[b] THEN daily[k][c].amount[m] ELSE 0
                           /\ w[c] = IF c \in Covers[b] THEN daily'[k][c].amount[m] ELSE 0
    BY DEF AccountRow
  <2> HIDE DEF v, w
  <2>4. ASSUME NEW c \in Accounts
        PROVE  w[c] = v[c] + (IF k = res[r].month /\ c = a /\ a \in Covers[b] THEN spent[m] ELSE 0)
    <3>1. daily[k][c].amount[m] \in Nat
      BY <2>2
    <3>2. daily'[k][c].amount[m] = daily[k][c].amount[m] + (IF k = res[r].month /\ c = a THEN spent[m] ELSE 0)
      BY <2>1
    <3> QED BY <2>3, <3>1, <3>2
  <2>5. \A c \in Accounts : v[c] \in Nat
    BY <1>2 DEF Accounts
  <2> QED BY <1>1, <2>4, <2>5 DEF Accounts
<1>4. y[r] = x[r] + d /\ \A q \in 1..NumRequests : q # r => y[q] = x[q]
  <2>1. /\ ledger[r] = NULL /\ ledger'[r] # NULL /\ ledger'[r].amount = spent
        /\ \A q \in Requests : q # r => ledger'[q] = ledger[q] /\ res'[q] = res[q]
        /\ res'[r].status = "settled" /\ res'[r].month = res[r].month
        /\ res'[r].account = res[r].account /\ res[r].status = "reserved"
    <3>1. /\ ledger[r] = NULL /\ ledger'[r] # NULL /\ res[r].status = "reserved"
          /\ res' = [res EXCEPT ![r].status = "settled"]
          /\ ledger' = [ledger EXCEPT ![r] = [month |-> res[r].month, amount |-> spent]]
      BY SettlementAdds
    <3> HIDE DEF spent
    <3>2. ledger'[r].amount = spent
      BY <3>1 DEF Inv, TypeOK
    <3> QED BY <3>1, <3>2 DEF Inv, TypeOK, Reservation
  <2> HIDE DEF spent
  <2> QED BY <1>1, <2>1 DEF SettledRow, Counts
<1>5. NumAccounts \in Nat /\ NumRequests \in Nat
  BY BoundsAssumption
<1>6. SumTo(v, NumAccounts) = SumTo(x, NumRequests)
  BY DEF Aggregated, UsedIn, AccountRow
<1> HIDE DEF a, d, v, w, x, y
<1>7. SumTo(w, NumAccounts) + v[a] = SumTo(v, NumAccounts) + w[a]
  BY <1>1, <1>2, <1>3, <1>5, SumUpdate
<1>8. SumTo(y, NumRequests) + x[r] = SumTo(x, NumRequests) + y[r]
  BY <1>1, <1>2, <1>4, <1>5, SumUpdate
<1>9. /\ SumTo(v, NumAccounts) \in Nat /\ SumTo(w, NumAccounts) \in Nat
      /\ SumTo(x, NumRequests) \in Nat /\ SumTo(y, NumRequests) \in Nat
      /\ v[a] \in Nat /\ x[r] \in Nat
  BY <1>1, <1>2, <1>5, SumType
<1>10. SumTo(w, NumAccounts) = SumTo(y, NumRequests)
  BY <1>1, <1>3, <1>4, <1>6, <1>7, <1>8, <1>9
<1> QED BY <1>10 DEF w, y, UsedIn, AccountRow

(* An admission adds a held reservation to a request that had none. *)
LEMMA AdmissionAdds ==
  ASSUME Inv, NEW r \in Requests, NEW p \in PriceAt(r), txn[r] = "reserve", Admit(r, p)
  PROVE  /\ res[r].status = "none" /\ ledger[r] = NULL
         /\ call[r].month \in Months /\ call[r].account \in Accounts
         /\ Reserve(p, call[r].output) \in Amounts
         /\ res'[r] = [status |-> "reserved", month |-> call[r].month,
                       account |-> call[r].account, price |-> p,
                       amount |-> Reserve(p, call[r].output)]
         /\ \A q \in Requests : q # r => res'[q] = res[q]
         /\ ledger' = ledger /\ daily' = daily
<1>1. /\ call[r].account \in Accounts /\ call[r].month \in Months
      /\ call[r].output \in OutputBounds /\ res[r].status = "none" /\ ledger[r] = NULL
  BY DEF Inv, TypeOK, RequestInv
<1>2. p \in Prices \cup {NULL}
  BY <1>1, TenantAssumption DEF PriceAt, Inv, TypeOK, Call
<1>3. Reserve(p, call[r].output) \in Amounts
  BY <1>1, <1>2, ReserveType
<1>4. \A q \in Requests : q # r => res'[q] = res[q]
  BY DEF Admit, Inv, TypeOK
<1> QED BY <1>1, <1>3, <1>4 DEF Admit, Inv, TypeOK

(* No step separates the aggregate from the ledger.                         *)
LEMMA AggregatedStep == Inv /\ Aggregated /\ [Next]_vars => Aggregated'
<1> SUFFICES ASSUME Inv, Aggregated, [Next]_vars PROVE Aggregated'
  OBVIOUS
<1>1. CASE UNCHANGED <<res, ledger, daily>>
  BY <1>1 DEF Aggregated, UsedIn, SettledRow, Counts
<1>2. ASSUME NEW r \in Requests, NEW p \in PriceAt(r), txn[r] = "reserve", Admit(r, p)
      PROVE  Aggregated'
  <2> SUFFICES ASSUME NEW b \in Budgets, NEW k \in Months, NEW m \in Meters
               PROVE  UsedIn(b, k, m)' = SumTo(SettledRow(b, k, m)', NumRequests)
    BY DEF Aggregated
  <2>1. UsedIn(b, k, m)' = UsedIn(b, k, m)
    BY <1>2, AdmissionAdds DEF UsedIn
  <2>2. SettledRow(b, k, m)' = SettledRow(b, k, m)
    BY <1>2, AdmissionAdds DEF SettledRow, Counts
  <2> QED BY <2>1, <2>2 DEF Aggregated
<1> QED BY <1>1, <1>2, TableSteps, AggregatedSettle

(* Aggregate and ledger are both empty at first.                            *)
LEMMA AggregatedInit == Init => Aggregated
<1> SUFFICES ASSUME Init, NEW b \in Budgets, NEW k \in Months, NEW m \in Meters
             PROVE  UsedIn(b, k, m) = SumTo(SettledRow(b, k, m), NumRequests)
  BY DEF Aggregated
<1>1. RowTypes /\ NumAccounts \in Nat /\ NumRequests \in Nat
  BY InvInit, RowsTyped, BoundsAssumption
<1>2. \A a \in 1..NumAccounts : AccountRow(b, k, m)[a] = 0
  BY DEF Init, AccountRow, NoUsage
<1>3. \A r \in 1..NumRequests : SettledRow(b, k, m)[r] = 0
  BY DEF Init, SettledRow
<1>4. SumTo(AccountRow(b, k, m), NumAccounts) = 0 /\ SumTo(SettledRow(b, k, m), NumRequests) = 0
  BY <1>1, <1>2, <1>3, SumZero DEF RowTypes
<1> QED BY <1>4 DEF UsedIn, AccountRow

(* The aggregate a decision reads is the ledger, for every budget and month. *)
LEMMA AggregateCorrect == Spec => [](Inv /\ Aggregated)
<1> QED BY InvInit, InvStep, AggregatedInit, AggregatedStep, PTL DEF Spec

-----------------------------------------------------------------------------
(* A decision taken in the month of the transaction counts at least what is  *)
(* committed to that month.                                                  *)
LEMMA DecisionCounts ==
  ASSUME Inv, Aggregated, NEW b \in Budgets, NEW k \in Months, NEW m \in Meters
  PROVE  /\ Committed(b, k, m) <= Used(b, k, m) + Held(b, k, m)
         /\ Committed(b, k, m) \in Nat /\ Used(b, k, m) \in Nat /\ Held(b, k, m) \in Nat
<1>1. RowTypes /\ NumRequests \in Nat /\ NumAccounts \in Nat /\ NumMonths \in Nat
  BY RowsTyped, BoundsAssumption
<1> DEFINE u == [j \in Months |-> IF j >= k THEN UsedIn(b, j, m) ELSE 0]
<1>2. \A j \in Months : UsedIn(b, j, m) \in Nat
  BY <1>1, SumType DEF RowTypes, UsedIn, AccountRow
<1>3. u \in [1..NumMonths -> Nat] /\ u[k] = UsedIn(b, k, m) /\ k \in 1..NumMonths
  BY <1>2
<1> HIDE DEF u
<1>4. SumTo(u, NumMonths) \in Nat /\ UsedIn(b, k, m) <= SumTo(u, NumMonths)
  BY <1>1, <1>3, SumTerm, SumType
<1>5. Used(b, k, m) = SumTo(u, NumMonths)
  BY DEF Used, u
<1>6. \A r \in 1..NumRequests : HeldRow(b, k, m)[r] <= HeldSinceRow(b, k, m)[r]
  <2> TAKE r \in 1..NumRequests
  <2>1. HeldRow(b, k, m)[r] \in Nat /\ HeldSinceRow(b, k, m)[r] \in Nat
    BY <1>1 DEF RowTypes
  <2> QED BY <2>1 DEF HeldRow, HeldSinceRow, Counts
<1>7. /\ SumTo(HeldRow(b, k, m), NumRequests) <= SumTo(HeldSinceRow(b, k, m), NumRequests)
      /\ SumTo(HeldRow(b, k, m), NumRequests) \in Nat
      /\ SumTo(HeldSinceRow(b, k, m), NumRequests) \in Nat
  BY <1>1, <1>6, SumMonotone, SumType DEF RowTypes
<1>8. Held(b, k, m) = SumTo(HeldSinceRow(b, k, m), NumRequests)
  BY DEF Held, HeldSinceRow
<1>9. Committed(b, k, m) = UsedIn(b, k, m) + SumTo(HeldRow(b, k, m), NumRequests)
  BY CommittedSplit DEF Aggregated
<1> QED BY <1>2, <1>4, <1>5, <1>7, <1>8, <1>9

(* An admission moves a month of a budget by the reservation, if it counts.  *)
LEMMA CommittedAdmit ==
  ASSUME Inv, Inv', NEW r \in Requests, NEW p \in PriceAt(r), txn[r] = "reserve", Admit(r, p),
         NEW b \in Budgets, NEW k \in Months, NEW m \in Meters
  PROVE  Committed(b, k, m)' = Committed(b, k, m)
           + (IF k = call[r].month /\ call[r].account \in Covers[b]
              THEN Reserve(p, call[r].output)[m] ELSE 0)
<1> DEFINE d == IF k = call[r].month /\ call[r].account \in Covers[b]
                THEN Reserve(p, call[r].output)[m] ELSE 0
           v == CommittedRow(b, k, m)
           w == CommittedRow(b, k, m)'
<1>1. /\ v \in [1..NumRequests -> Nat] /\ w \in [1..NumRequests -> Nat]
      /\ NumRequests \in Nat /\ r \in 1..NumRequests
  <2>1. RowTypes
    BY RowsTyped
  <2>2. RowTypes'
    BY RowsTyped, PTL
  <2> QED BY <2>1, <2>2, BoundsAssumption DEF RowTypes
<1>2. v[r] = 0 /\ w[r] = d /\ \A q \in 1..NumRequests : q # r => w[q] = v[q]
  <2>1. /\ res[r].status = "none" /\ ledger[r] = NULL /\ ledger' = ledger
        /\ res'[r].status = "reserved" /\ res'[r].month = call[r].month
        /\ res'[r].account = call[r].account /\ res'[r].amount = Reserve(p, call[r].output)
        /\ \A q \in Requests : q # r => res'[q] = res[q]
    <3>1. /\ res[r].status = "none" /\ ledger[r] = NULL /\ ledger' = ledger
          /\ \A q \in Requests : q # r => res'[q] = res[q]
      BY AdmissionAdds
    <3>2. res'[r] = [status |-> "reserved", month |-> call[r].month,
                     account |-> call[r].account, price |-> p,
                     amount |-> Reserve(p, call[r].output)]
      BY AdmissionAdds
    <3>3. /\ res'[r].status = "reserved" /\ res'[r].month = call[r].month
          /\ res'[r].account = call[r].account /\ res'[r].amount = Reserve(p, call[r].output)
      BY <3>2
    <3> QED BY <3>1, <3>3
  <2>2. v[r] = 0
    BY <2>1 DEF CommittedRow, Counts
  <2>3. w[r] = d
    BY <2>1 DEF CommittedRow, Counts, Charge
  <2>4. \A q \in 1..NumRequests : q # r => w[q] = v[q]
    BY <2>1 DEF CommittedRow, Counts, Charge
  <2> QED BY <2>2, <2>3, <2>4
<1> HIDE DEF d, v, w
<1>3. SumTo(w, NumRequests) + v[r] = SumTo(v, NumRequests) + w[r]
  BY <1>1, <1>2, SumUpdate
<1>4. SumTo(v, NumRequests) \in Nat /\ SumTo(w, NumRequests) \in Nat
  BY <1>1, SumType
<1>5. SumTo(w, NumRequests) = SumTo(v, NumRequests) + d
  BY <1>1, <1>2, <1>3, <1>4
<1> QED BY <1>5 DEF v, w, d, Committed, CommittedRow

(* A settlement never raises what is committed. *)
LEMMA CommittedSettle ==
  ASSUME Inv, Inv', NEW r \in Requests, SettleRecords(r),
         NEW b \in Budgets, NEW k \in Months, NEW m \in Meters
  PROVE  Committed(b, k, m)' <= Committed(b, k, m)
<1> DEFINE v == CommittedRow(b, k, m)
           w == CommittedRow(b, k, m)'
<1>1. v \in [1..NumRequests -> Nat] /\ w \in [1..NumRequests -> Nat] /\ NumRequests \in Nat
  <2>1. RowTypes
    BY RowsTyped
  <2>2. RowTypes'
    BY RowsTyped, PTL
  <2> QED BY <2>1, <2>2, BoundsAssumption DEF RowTypes
<1>2. ASSUME NEW q \in 1..NumRequests PROVE w[q] <= v[q]
  <2>1. v[q] \in Nat /\ w[q] \in Nat
    BY <1>1
  <2>2. CASE q # r
    <3>1. res'[q] = res[q] /\ ledger'[q] = ledger[q]
      BY <2>2 DEF SettleRecords, Inv, TypeOK
    <3> QED BY <2>1, <3>1 DEF CommittedRow, Counts, Charge
  <2>3. CASE q = r
    <3>1. /\ res[r].status = "reserved" /\ ledger[r] = NULL /\ ledger'[r] # NULL
          /\ res'[r].month = res[r].month /\ res'[r].account = res[r].account
          /\ ledger'[r].amount[m] <= res[r].amount[m]
      <4>1. res' = [res EXCEPT ![r].status = "settled"] /\ res[r].status = "reserved"
        BY DEF SettleRecords
      <4>2. res[r].status = "reserved" /\ ledger[r] = NULL /\ ledger'[r] # NULL
        BY SettlementAdds
      <4>3. res'[r].amount = res[r].amount /\ res'[r].month = res[r].month
            /\ res'[r].account = res[r].account
        BY <4>1 DEF Inv, TypeOK, Reservation
      <4>4. ledger'[r].amount[m] <= res'[r].amount[m]
        BY <4>2 DEF Inv, RequestInv
      <4> QED BY <4>2, <4>3, <4>4
    <3> QED BY <2>1, <2>3, <3>1 DEF CommittedRow, Counts, Charge
  <2> QED BY <2>2, <2>3
<1> HIDE DEF v, w
<1>3. SumTo(w, NumRequests) <= SumTo(v, NumRequests)
  BY <1>1, <1>2, SumMonotone
<1> QED BY <1>3 DEF v, w, Committed, CommittedRow

(* The reserve is a share of the limit, so something is left for agents.     *)
LEMMA ReserveShare == \A s \in Settings : 1000 - s.reserve \in Nat
<1> TAKE s \in Settings
<1>1. s \in Setting
  BY TenantAssumption
<1>2. s.reserve \in 0..999
  BY <1>1 DEF Setting
<1> DEFINE x == s.reserve
<1> HIDE DEF x
<1>3. x \in 0..999
  BY <1>2 DEF x
<1>4. 1000 - x \in Nat
  BY <1>3
<1> QED BY <1>4 DEF x

(* An admission leaves every budget over its account within its limit.       *)
LEMMA AdmissionFits ==
  ASSUME Inv, Inv', Aggregated,
         NEW r \in Requests, NEW p \in PriceAt(r), txn[r] = "reserve", Admit(r, p),
         NEW b \in Budgets, NEW k \in Months, NEW m \in Meters,
         k = call[r].month, call[r].account \in Covers[b]
  PROVE  /\ ~ OverLimit(b, m, Committed(b, k, m)')
         /\ call[r].agent => ~ OverAgentShare(b, m, Committed(b, k, m)')
<1> DEFINE predicted == Used(b, k, m) + Held(b, k, m) + Reserve(p, call[r].output)[m]
<1>1. /\ ~ OverLimit(b, m, predicted)
      /\ call[r].agent => ~ OverAgentShare(b, m, predicted)
  BY DEF Admit, Applies, Allows
<1>2. Reserve(p, call[r].output)[m] \in Nat
  BY AdmissionAdds DEF Amounts
<1>3. Committed(b, k, m)' = Committed(b, k, m) + Reserve(p, call[r].output)[m]
  BY CommittedAdmit
<1>4. /\ Committed(b, k, m)' <= predicted
      /\ Committed(b, k, m)' \in Nat /\ predicted \in Nat
  BY <1>2, <1>3, DecisionCounts
<1>5. Limited(b, m) => budget[b].limit[m] \in Nat
  <2>1. budget[b] \in Setting
    BY TenantAssumption DEF Inv, TypeOK
  <2> QED BY <2>1 DEF Limited, Setting
<1>6. ~ OverLimit(b, m, Committed(b, k, m)')
  BY <1>1, <1>4, <1>5 DEF OverLimit
<1>7. ASSUME call[r].agent PROVE ~ OverAgentShare(b, m, Committed(b, k, m)')
  <2> DEFINE share == budget[b].limit[m] * (1000 - budget[b].reserve)
  <2>1. CASE Limited(b, m)
    <3>2. 1000 - budget[b].reserve \in Nat
      BY ReserveShare DEF Inv, TypeOK
    <3>3. share \in Nat
      BY <1>5, <2>1, <3>2, ProductNat
    <3> HIDE DEF predicted, share
    <3> SUFFICES ASSUME budget[b].reserve > 0, Committed(b, k, m)' * 1000 > share PROVE FALSE
      BY DEF OverAgentShare, share
    <3>4. predicted * 1000 > share
      BY <1>4, <3>3
    <3> QED BY <1>1, <1>7, <2>1, <3>4 DEF OverAgentShare, share
  <2> QED BY <2>1 DEF OverAgentShare
<1> QED BY <1>6, <1>7

CommittedNat == \A b \in Budgets, k \in Months, m \in Meters : Committed(b, k, m) \in Nat

(* What a budget has committed is a natural.                                *)
LEMMA CommittedTyped == Inv /\ Aggregated => CommittedNat
BY DecisionCounts DEF CommittedNat

(* A month of a budget goes over its limit only in a step that changes that  *)
(* budget, for every schedule of requests, settlements, months and prices.   *)
THEOREM OvercommitNeedsLimitChange == Spec => OvercommitOnlyByLimitChange
<1> DEFINE Step == \A b \in Budgets : budget'[b] = budget[b] =>
       \A k \in Months, m \in Meters : Overcommitted(b, k, m)' => Overcommitted(b, k, m)
<1>1. Inv /\ Aggregated /\ [Next]_vars => Step
  <2> SUFFICES ASSUME Inv, Aggregated, [Next]_vars, NEW b \in Budgets, budget'[b] = budget[b],
                      NEW k \in Months, NEW m \in Meters, Overcommitted(b, k, m)'
               PROVE  Overcommitted(b, k, m)
    OBVIOUS
  <2>1. Inv'
    BY InvStep
  <2>2. Limited(b, m) /\ budget[b].limit[m] \in Nat /\ Committed(b, k, m)' > budget[b].limit[m]
    <3>1. budget[b] \in Setting
      BY TenantAssumption DEF Inv, TypeOK
    <3> QED BY <3>1 DEF Overcommitted, OverLimit, Limited, Setting
  <2>3. CASE UNCHANGED <<res, ledger, daily>>
    <3>1. Committed(b, k, m)' = Committed(b, k, m)
      BY <2>3 DEF Committed, Counts, Charge
    <3> QED BY <2>2, <3>1 DEF Overcommitted, OverLimit
  <2>4. ASSUME NEW r \in Requests, NEW p \in PriceAt(r), txn[r] = "reserve", Admit(r, p)
        PROVE  Overcommitted(b, k, m)
    <3>1. CASE k = call[r].month /\ call[r].account \in Covers[b]
      <4>1. ~ OverLimit(b, m, Committed(b, k, m)')
        BY <2>1, <2>4, <3>1, AdmissionFits
      <4> QED BY <2>2, <4>1 DEF OverLimit
    <3>2. CASE ~ (k = call[r].month /\ call[r].account \in Covers[b])
      <4>1. Committed(b, k, m)' = Committed(b, k, m) + 0
        BY <2>1, <2>4, <3>2, CommittedAdmit
      <4> QED BY <2>2, <4>1, DecisionCounts DEF Overcommitted, OverLimit
    <3> QED BY <3>1, <3>2
  <2>5. ASSUME NEW r \in Requests, SettleRecords(r)
        PROVE  Overcommitted(b, k, m)
    <3>1. Committed(b, k, m)' <= Committed(b, k, m)
      BY <2>1, <2>5, CommittedSettle
    <3>2. Committed(b, k, m)' \in Nat
      <4>1. Aggregated'
        BY AggregatedStep
      <4>2. CommittedNat'
        BY <2>1, <4>1, CommittedTyped, PTL
      <4> QED BY <4>2 DEF CommittedNat
    <3> QED BY <2>2, <3>1, <3>2, DecisionCounts DEF Overcommitted, OverLimit
  <2> QED BY <2>3, <2>4, <2>5, TableSteps
<1> QED BY <1>1, AggregateCorrect, PTL DEF Spec, OvercommitOnlyByLimitChange

(* No budget starts over its limit.                                          *)
LEMMA WithinLimitsInit == Init => WithinLimits
<1> SUFFICES ASSUME Init, NEW b \in Budgets, NEW k \in Months, NEW m \in Meters
             PROVE  ~ Overcommitted(b, k, m)
  BY DEF WithinLimits
<1>1. RowTypes /\ NumRequests \in Nat
  BY InvInit, RowsTyped, BoundsAssumption
<1>2. \A r \in 1..NumRequests : CommittedRow(b, k, m)[r] = 0
  BY DEF Init, CommittedRow, Counts, NoReservation
<1>3. Committed(b, k, m) = 0
  BY <1>1, <1>2, SumZero DEF RowTypes, Committed, CommittedRow
<1>4. budget[b] \in Setting
  BY TenantAssumption DEF Init
<1> QED BY <1>3, <1>4 DEF Overcommitted, OverLimit, Limited, Setting

(* Without edits the budgets stay as they are. *)
LEMMA FixedStep == [FixedNext]_vars => [Next]_vars /\ UNCHANGED budget
BY DEF FixedNext, Next, RequestStep, GatewayStep, DatabaseStep, TurnAway, Arrive, NoProvider,
       CallProvider, ProviderFails, ProviderAnswers, LoseRpc, RedeliverSettle, Decide, Admit,
       Deny, SettleRecords, SettleAgain, SettleRejected, AbortTxn, Crash, PriceOrClockStep,
       SavePrice, NextMonth, tenant, vars

(* While no administrator edits a budget, no month of it is ever over its    *)
(* limit, in tokens or in cost.                                              *)
THEOREM FixedWithinLimits == FixedSpec => []WithinLimits
<1>1. [FixedNext]_vars => [Next]_vars /\ UNCHANGED budget
  BY FixedStep
<1>2. FixedSpec => Spec
  BY <1>1, PTL DEF FixedSpec, Spec
<1> DEFINE Keeps == \A b \in Budgets : budget'[b] = budget[b] =>
       \A k \in Months, m \in Meters : Overcommitted(b, k, m)' => Overcommitted(b, k, m)
<1>3. WithinLimits /\ UNCHANGED budget /\ [Keeps]_vars => WithinLimits'
  <2>1. WithinLimits /\ UNCHANGED budget /\ Keeps => WithinLimits'
    BY DEF WithinLimits
  <2>2. WithinLimits /\ UNCHANGED vars => WithinLimits'
    BY DEF WithinLimits, Overcommitted, OverLimit, Limited, Committed, Counts, Charge, vars
  <2> QED BY <2>1, <2>2
<1> QED BY <1>1, <1>2, <1>3, WithinLimitsInit, OvercommitNeedsLimitChange, PTL
        DEF FixedSpec, OvercommitOnlyByLimitChange
=============================================================================

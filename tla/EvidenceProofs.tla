---------------------------- MODULE EvidenceProofs ----------------------------
(***************************************************************************)
(* The loop that derives a session's evidence and the definition of its    *)
(* categories agree on every journal: of any length, with any times, in    *)
(* any order of the sourceIds, and wherever the two limits cut it.  The    *)
(* loop's state after some of the events is what those events mean         *)
(* (Sound), one kind of event at a time.                                   *)
(***************************************************************************)
EXTENDS LearningEvidence, SumsProofs, SequenceTheorems

-----------------------------------------------------------------------------
(* The order in which the loop takes the events. *)

Places == DOMAIN history
(* Events are totally ordered, and none is earlier than one taken before it. *)
LEMMA Ordered ==
  ASSUME EvidenceTypeOK
  PROVE  /\ \A m \in Places : history[m] \in HistoryEvent /\ TimeOf(m) \in Nat /\ m \in Nat \ {0}
         /\ \A m \in Places : ~Precedes(m, m)
         /\ \A m, n \in Places : Precedes(m, n) => TimeOf(m) <= TimeOf(n) /\ ~Precedes(n, m)
         /\ \A m, n \in Places : m = n \/ Precedes(m, n) \/ Precedes(n, m)
         /\ \A k, m, n \in Places : Precedes(k, m) /\ Precedes(m, n) => Precedes(k, n)
<1>1. Places = 1..Len(history) /\ Len(history) \in Nat /\ Places \subseteq 1..MaxEvents
  BY EvidenceAssumption DEF EvidenceTypeOK, Places
<1>2. \A m \in Places : history[m] \in HistoryEvent /\ TimeOf(m) \in Nat /\ m \in Nat \ {0}
  <2> TAKE m \in Places
  <2>1. m \in 1..Len(history) /\ history[m] \in HistoryEvent
    BY <1>1 DEF EvidenceTypeOK
  <2> QED BY <2>1, <1>1 DEF HistoryEvent, TimeOf
<1>3. \A m, n \in Places : IdOrder[m] \in Nat /\ (IdOrder[m] = IdOrder[n] => m = n)
  BY <1>1, EvidenceAssumption
<1> QED BY <1>2, <1>3 DEF Precedes, Before, TimeOf

(* Some event of a set is its earliest: the least time, then the least sourceId. *)
LEMMA EarliestIs ==
  ASSUME EvidenceTypeOK, NEW S \in SUBSET Places, S # {}
  PROVE  Earliest(history, S) \in S /\ \A m \in S \ {Earliest(history, S)} : Precedes(Earliest(history, S), m)
<1>1. \A m, n \in Places : IdOrder[m] \in Nat /\ (IdOrder[m] = IdOrder[n] => m = n)
  <2>1. Places \subseteq 1..MaxEvents
    BY EvidenceAssumption DEF EvidenceTypeOK, Places
  <2> QED BY <2>1, EvidenceAssumption
<1> DEFINE times == {TimeOf(m) : m \in S}
<1>2. PICK t \in times : \A u \in times : t <= u
  <2>1. times \subseteq Nat /\ times # {}
    BY Ordered
  <2> HIDE DEF times
  <2> QED BY <2>1, LeastElement
<1> DEFINE ids == {IdOrder[m] : m \in {k \in S : TimeOf(k) = t}}
<1>3. PICK i \in ids : \A j \in ids : i <= j
  <2>1. ids \subseteq Nat /\ ids # {}
    BY <1>1, <1>2
  <2> HIDE DEF ids, times
  <2> QED BY <2>1, LeastElement
<1>4. PICK n \in S : TimeOf(n) = t /\ IdOrder[n] = i
  BY <1>3
<1>5. ASSUME NEW m \in S \ {n} PROVE Before(history, n, m)
  <2>1. t <= TimeOf(m) /\ t \in Nat /\ TimeOf(m) \in Nat /\ m \in Places /\ n \in Places
    BY <1>2, <1>4, Ordered
  <2>2. CASE TimeOf(m) = t
    <3>1. IdOrder[m] \in ids
      BY <2>2
    <3>2. i <= IdOrder[m] /\ IdOrder[m] # i
      BY <1>3, <1>1, <1>4, <2>1, <3>1
    <3> QED BY <3>2, <1>1, <1>4, <2>1, <2>2 DEF Before, TimeOf
  <2>3. CASE TimeOf(m) # t
    BY <2>1, <2>3, <1>4 DEF Before, TimeOf
  <2> QED BY <2>2, <2>3
<1>6. \E k \in S : \A m \in S \ {k} : Before(history, k, m)
  BY <1>5
<1> QED BY <1>6 DEF Earliest, Precedes

LEMMA SelectedPlaces == EvidenceTypeOK => Selected(history) \subseteq Places /\ IsFiniteSet(Selected(history))
<1> SUFFICES ASSUME EvidenceTypeOK PROVE Selected(history) \subseteq Places /\ IsFiniteSet(Selected(history))
  OBVIOUS
<1>1. Selected(history) \subseteq Places /\ Places = 1..Len(history) /\ Len(history) \in Nat
  BY DEF Selected, Places, EvidenceTypeOK
<1>2. IsFiniteSet(Places)
  BY <1>1, FS_Interval
<1> QED BY <1>1, <1>2, FS_Subset

(* The recursion of Loop has a solution, so it can be unfolded. *)
LEMMA LoopUnfold ==
  ASSUME EvidenceTypeOK, NEW N \in Nat, N = Cardinality(Selected(history))
  PROVE  /\ Loop(history)[0] = [left |-> Selected(history), seen |-> NothingSeen]
         /\ \A k \in 1..N : Loop(history)[k] =
              LET n == Earliest(history, Loop(history)[k - 1].left)
              IN  [left |-> Loop(history)[k - 1].left \ {n}, seen |-> Project(Loop(history)[k - 1].seen, n, history)]
<1> DEFINE First == [left |-> Selected(history), seen |-> NothingSeen]
           Further(x) == [left |-> x.left \ {Earliest(history, x.left)},
                          seen |-> Project(x.seen, Earliest(history, x.left), history)]
           Step(g, k) == IF k = 0 THEN First ELSE Further(g[k - 1])
           Solves(g, k) == g = [i \in 0..k |-> Step(g, i)]
           S == {k \in 0..N : \E g : Solves(g, k)}
<1> HIDE DEF First, Further
<1>1. 0 \in S
  <2> DEFINE g == [i \in 0..0 |-> First]
  <2>1. Solves(g, 0)
    OBVIOUS
  <2> HIDE DEF g, Solves
  <2> QED BY <2>1
<1>2. ASSUME NEW m \in 1..N, m - 1 \in S PROVE m \in S
  <2>1. PICK h : Solves(h, m - 1)
    <3> HIDE DEF Solves
    <3> QED BY <1>2
  <2> DEFINE g == [i \in 0..m |-> IF i = m THEN Step(h, m) ELSE h[i]]
  <2>2. ASSUME NEW i \in 0..m PROVE g[i] = Step(g, i)
    <3>1. CASE i # 0 /\ i # m
      <4>1. i \in 0..m - 1 /\ i - 1 \in 0..m - 1 /\ i - 1 \in 0..m /\ i - 1 # m
        BY <3>1
      <4>2. h[i] = Step(h, i) /\ g[i] = h[i] /\ g[i - 1] = h[i - 1]
        BY <2>1, <4>1, <3>1
      <4> HIDE DEF g
      <4> QED BY <4>2
    <3>2. CASE i = 0
      BY <2>1, <3>2
    <3>3. CASE i = m /\ i # 0
      <4>1. g[m] = Step(h, m) /\ g[m - 1] = h[m - 1]
        BY <3>3
      <4> HIDE DEF g
      <4> QED BY <3>3, <4>1
    <3> QED BY <3>1, <3>2, <3>3
  <2>3. Solves(g, m)
    BY <2>2
  <2> HIDE DEF g, Solves
  <2> QED BY <2>3
<1>3. PICK g : Solves(g, N)
  <2>1. \A k \in 0..N : k \in S
    <3> HIDE DEF S
    <3> QED BY <1>1, <1>2, IntervalInduction
  <2> HIDE DEF Solves
  <2> QED BY <2>1
<1> DEFINE p == Loop(history)
<1>4. p = [i \in 0..N |-> Step(p, i)]
  <2>1. p = CHOOSE k : k = [i \in 0..N |-> Step(k, i)]
    BY DEF Loop, First, Further
  <2> HIDE DEF p
  <2> QED BY <1>3, <2>1
<1> HIDE DEF p
<1>5. p[0] = First /\ \A k \in 1..N : p[k] = Further(p[k - 1])
  BY <1>4
<1> QED BY <1>5 DEF p, First, Further

-----------------------------------------------------------------------------
(* The sets of events that the categories are about, when the loop takes one *)
(* more event.                                                               *)

Grows(D, n) == D \subseteq Places /\ n \in Places \ D /\ \A m \in D : Precedes(m, n)
IsLast(m, S) == m \in S /\ \A k \in S \ {m} : Precedes(k, m)

\* A student's edit that no completion accepted just before explains.
Unexplained(D, n) ==
  \A c \in EditsOf(D, "autocomplete.accepted", history[n].file) : TimeOf(n) - TimeOf(c) > Debounce

LEMMA OfGrows ==
  ASSUME NEW D, NEW n, NEW t
  PROVE  Of(D \cup {n}, t) = IF history[n].type = t THEN Of(D, t) \cup {n} ELSE Of(D, t)
BY DEF Of

LEMMA EditsOfGrows ==
  ASSUME NEW D, NEW n, NEW t, NEW f
  PROVE  EditsOf(D \cup {n}, t, f) =
           IF history[n].type = t /\ history[n].file = f THEN EditsOf(D, t, f) \cup {n} ELSE EditsOf(D, t, f)
BY DEF Of, EditsOf

LEMMA TypedGrows ==
  ASSUME EvidenceTypeOK, NEW D, NEW n, Grows(D, n), NEW f
  PROVE  Typed(D \cup {n}, f) =
           IF history[n].type = "file.changed" /\ history[n].file = f /\ Unexplained(D, n)
           THEN Typed(D, f) \cup {n} ELSE Typed(D, f)
<1>1. \A m \in D : Precedes(m, n) /\ ~Precedes(n, m)
  BY Ordered DEF Grows
<1>2. ~Precedes(n, n)
  BY Ordered DEF Grows
<1>3. ASSUME NEW m \in D
      PROVE  m \in Typed(D \cup {n}, f) <=> m \in Typed(D, f)
  BY <1>1 DEF Typed, EditsOf, Of
<1>4. n \in Typed(D \cup {n}, f) <=> history[n].type = "file.changed" /\ history[n].file = f /\ Unexplained(D, n)
  BY <1>1, <1>2 DEF Typed, EditsOf, Of, Unexplained
<1>5. Typed(D, f) \subseteq D /\ Typed(D \cup {n}, f) \subseteq D \cup {n}
  BY DEF Typed, EditsOf, Of
<1> QED BY <1>3, <1>4, <1>5

(* The sets lie within the events taken. *)
LEMMA Within ==
  ASSUME NEW D
  PROVE  /\ \A t : Of(D, t) \subseteq D
         /\ \A t, f : EditsOf(D, t, f) \subseteq D
         /\ \A f : Typed(D, f) \subseteq D /\ Typed(D, f) \subseteq EditsOf(D, "file.changed", f)
         /\ \A f \in Files : Typed(D, f) \subseteq AllTyped(D)
         /\ AllTyped(D) \subseteq D /\ Tests(D) \subseteq D /\ Plans(D) \subseteq D
<1>1. /\ \A t : Of(D, t) \subseteq D
      /\ \A t, f : EditsOf(D, t, f) \subseteq D
  BY DEF Of, EditsOf
<1>2. \A f : Typed(D, f) \subseteq D /\ Typed(D, f) \subseteq EditsOf(D, "file.changed", f)
  BY DEF Typed, EditsOf, Of
<1>3. \A f \in Files : Typed(D, f) \subseteq AllTyped(D)
  BY DEF AllTyped
<1>4. AllTyped(D) \subseteq D
  BY <1>2 DEF AllTyped
<1> QED BY <1>1, <1>2, <1>3, <1>4 DEF Tests, Plans

LEMMA AllTypedGrows ==
  ASSUME EvidenceTypeOK, NEW D, NEW n, Grows(D, n)
  PROVE  AllTyped(D \cup {n}) =
           IF history[n].type = "file.changed" /\ Unexplained(D, n) THEN AllTyped(D) \cup {n} ELSE AllTyped(D)
<1>1. history[n].file \in Files
  BY Ordered DEF Grows, HistoryEvent
<1>2. \A f \in Files : Typed(D \cup {n}, f) =
           IF history[n].type = "file.changed" /\ history[n].file = f /\ Unexplained(D, n)
           THEN Typed(D, f) \cup {n} ELSE Typed(D, f)
  BY TypedGrows
<1> QED BY <1>1, <1>2 DEF AllTyped

(* What comes last is between no two events that were there. *)
LEMMA BetweenOld ==
  ASSUME EvidenceTypeOK, NEW D, NEW n, Grows(D, n), NEW k \in D, NEW m, NEW S
  PROVE  NoneBetween(m, k, S \cup {n}) <=> NoneBetween(m, k, S)
<1>1. ~Precedes(n, k)
  BY Ordered DEF Grows
<1> QED BY <1>1 DEF NoneBetween

-----------------------------------------------------------------------------
(* The relations between events, when the loop takes one more. *)

LEMMA ApprovalsGrow ==
  ASSUME EvidenceTypeOK, NEW D, NEW n, Grows(D, n)
  PROVE  Approvals(D \cup {n}) =
           IF history[n].type = "plan.approved" /\ \E m \in Of(D, "plan.open") : IsLast(m, Plans(D))
           THEN Approvals(D) \cup {n} ELSE Approvals(D)
<1> DEFINE E == D \cup {n}
<1>1. \A m \in D : Precedes(m, n) /\ ~Precedes(n, m)
  BY Ordered DEF Grows
<1>2. ~Precedes(n, n) /\ n \notin D
  BY Ordered DEF Grows
<1>3. /\ Of(E, "plan.open") = IF history[n].type = "plan.open" THEN Of(D, "plan.open") \cup {n} ELSE Of(D, "plan.open")
      /\ Of(E, "plan.approved") = IF history[n].type = "plan.approved" THEN Of(D, "plan.approved") \cup {n} ELSE Of(D, "plan.approved")
  BY OfGrows
<1>4. Plans(E) = Plans(D) \/ Plans(E) = Plans(D) \cup {n}
  BY <1>3 DEF Plans
<1>5. ASSUME NEW k \in D PROVE k \in Approvals(E) <=> k \in Approvals(D)
  <2>1. \A m : NoneBetween(m, k, Plans(E)) <=> NoneBetween(m, k, Plans(D))
    BY <1>4, BetweenOld
  <2>2. k \in Of(E, "plan.approved") <=> k \in Of(D, "plan.approved")
    BY DEF Of
  <2>3. \A m \in Of(E, "plan.open") : Precedes(m, k) => m \in Of(D, "plan.open")
    BY <1>1, <1>3
  <2>4. Of(D, "plan.open") \subseteq Of(E, "plan.open")
    BY <1>3
  <2> QED BY <2>1, <2>2, <2>3, <2>4 DEF Approvals
<1>6. n \in Approvals(E) <=> history[n].type = "plan.approved" /\ \E m \in Of(D, "plan.open") : IsLast(m, Plans(D))
  <2>1. n \in Of(E, "plan.approved") <=> history[n].type = "plan.approved"
    BY DEF Of
  <2>2. ASSUME history[n].type = "plan.approved", NEW m \in Of(D, "plan.open")
        PROVE  Precedes(m, n) /\ NoneBetween(m, n, Plans(E)) <=> IsLast(m, Plans(D))
    <3>1. m \in D /\ m \in Plans(D) /\ Plans(D) \subseteq D /\ D \subseteq Places /\ Plans(E) = Plans(D) \cup {n}
      BY <2>2, <1>3, Within DEF Plans, Grows
    <3>2. \A k \in Plans(D) : k = m \/ Precedes(k, m) \/ Precedes(m, k)
      BY <3>1, Ordered
    <3>3. \A k \in Plans(D) : Precedes(k, m) => ~Precedes(m, k)
      BY <3>1, Ordered
    <3>4. ~Precedes(m, m)
      BY <3>1, Ordered
    <3> QED BY <3>1, <3>2, <3>3, <3>4, <1>1, <1>2 DEF NoneBetween, IsLast
  <2>3. history[n].type = "plan.approved" => Of(E, "plan.open") = Of(D, "plan.open")
    BY <1>3
  <2> QED BY <2>1, <2>2, <2>3 DEF Approvals
<1>7. Approvals(D) \subseteq D /\ Approvals(E) \subseteq E
  BY DEF Approvals, Of
<1> QED BY <1>5, <1>6, <1>7

LEMMA FirstLearnGrows ==
  ASSUME EvidenceTypeOK, NEW D, NEW n, Grows(D, n)
  PROVE  FirstLearn(D \cup {n}) =
           IF history[n].type = "chat.learn" /\ Of(D, "chat.learn") = {} THEN FirstLearn(D) \cup {n} ELSE FirstLearn(D)
<1>1. \A m \in D : Precedes(m, n) /\ ~Precedes(n, m)
  BY Ordered DEF Grows
<1>2. ~Precedes(n, n) /\ n \notin D
  BY Ordered DEF Grows
<1>3. Of(D \cup {n}, "chat.learn") =
        IF history[n].type = "chat.learn" THEN Of(D, "chat.learn") \cup {n} ELSE Of(D, "chat.learn")
  BY OfGrows
<1>4. Of(D, "chat.learn") \subseteq D
  BY Within
<1> QED BY <1>1, <1>2, <1>3, <1>4 DEF FirstLearn

LEMMA RevisionsGrow ==
  ASSUME EvidenceTypeOK, NEW D, NEW n, Grows(D, n)
  PROVE  LET f == history[n].file
             revises(m) == /\ IsLast(m, EditsOf(D, "agent.files_changed", f)) /\ Follows(n, m)
                           /\ \A k \in Typed(D, f) : ~Precedes(m, k)
         IN  Revisions(D \cup {n}) =
               IF history[n].type = "file.changed" /\ Unexplained(D, n)
               THEN Revisions(D) \cup {<<m, n>> : m \in {k \in EditsOf(D, "agent.files_changed", f) : revises(k)}}
               ELSE Revisions(D)
<1> DEFINE E == D \cup {n}
           F == history[n].file
           Agent(X, f) == EditsOf(X, "agent.files_changed", f)
           Both(X, f) == Agent(X, f) \cup Typed(X, f)
           revises(m) == /\ IsLast(m, Agent(D, F)) /\ Follows(n, m) /\ \A k \in Typed(D, F) : ~Precedes(m, k)
           New == IF history[n].type = "file.changed" /\ Unexplained(D, n)
                  THEN {<<m, n>> : m \in {k \in Agent(D, F) : revises(k)}} ELSE {}
<1>1. \A m \in D : Precedes(m, n) /\ ~Precedes(n, m)
  BY Ordered DEF Grows
<1>2. ~Precedes(n, n) /\ n \notin D /\ F \in Files
  BY Ordered DEF Grows, HistoryEvent
<1>3. \A X, p : p \in Revisions(X) <=>
        \E f \in Files : \E m \in Agent(X, f), k \in Typed(X, f) : p = <<m, k>> /\ Follows(k, m) /\ NoneBetween(m, k, Both(X, f))
  <2> TAKE X, p
  <2> DEFINE Pairs(f) == {q \in Agent(X, f) \X Typed(X, f) : Follows(q[2], q[1]) /\ NoneBetween(q[1], q[2], Both(X, f))}
  <2>1. p \in Revisions(X) <=> \E f \in Files : p \in Pairs(f)
    BY DEF Revisions
  <2>2. \A f : p \in Pairs(f) <=>
          \E m \in Agent(X, f), k \in Typed(X, f) : p = <<m, k>> /\ Follows(k, m) /\ NoneBetween(m, k, Both(X, f))
    BY SMTT(30)
  <2> QED BY <2>1, <2>2
<1>4. /\ \A f : Agent(D, f) \subseteq D /\ Typed(D, f) \subseteq D
      /\ \A f : Agent(D, f) \subseteq Agent(E, f) /\ Agent(E, f) \subseteq Agent(D, f) \cup {n}
  <2>1. \A f : Agent(D, f) \subseteq D /\ Typed(D, f) \subseteq D
    BY Within
  <2>2. \A f : Agent(D, f) \subseteq Agent(E, f) /\ Agent(E, f) \subseteq Agent(D, f) \cup {n}
    BY DEF EditsOf, Of
  <2> QED BY <2>1, <2>2
<1>5. \A f : Typed(D, f) \subseteq Typed(E, f) /\ Typed(E, f) \subseteq Typed(D, f) \cup {n}
  BY TypedGrows
<1>6. \A f : Both(E, f) = Both(D, f) \/ Both(E, f) = Both(D, f) \cup {n}
  BY <1>4, <1>5
<1>7. ASSUME NEW f \in Files, NEW m \in Agent(E, f), NEW k \in Typed(E, f), Follows(k, m)
      PROVE  m \in Agent(D, f)
  BY <1>1, <1>2, <1>4, <1>5, <1>7 DEF Follows
<1>8. ASSUME NEW f \in Files, NEW m \in Agent(D, f), NEW k \in Typed(D, f)
      PROVE  NoneBetween(m, k, Both(E, f)) <=> NoneBetween(m, k, Both(D, f))
  <2>1. Both(E, f) = Both(D, f) \/ Both(E, f) = Both(D, f) \cup {n}
    BY <1>6
  <2>2. NoneBetween(m, k, Both(D, f) \cup {n}) <=> NoneBetween(m, k, Both(D, f))
    <3>1. k \in D
      BY <1>4
    <3> HIDE DEF Both
    <3> QED BY <3>1, BetweenOld
  <2> QED BY <2>1, <2>2
<1>9. ASSUME NEW m \in Agent(D, F), n \in Typed(E, F)
      PROVE  Follows(n, m) /\ NoneBetween(m, n, Both(E, F)) <=> revises(m)
  <2>1. \A k \in Agent(D, F) : (k = m \/ Precedes(k, m) \/ Precedes(m, k)) /\ (Precedes(k, m) => ~Precedes(m, k))
    BY <1>4, Ordered DEF Grows
  <2>2. ~Precedes(m, m)
    BY <1>4, Ordered DEF Grows
  <2>3. NoneBetween(m, n, Both(E, F)) <=> NoneBetween(m, n, Both(D, F))
    BY <1>2, <1>6 DEF NoneBetween
  <2>4. NoneBetween(m, n, Both(D, F)) <=> \A k \in Both(D, F) : ~Precedes(m, k)
    BY <1>1, <1>4 DEF NoneBetween
  <2> QED BY <2>1, <2>2, <2>3, <2>4 DEF IsLast
<1>10. n \in Typed(E, F) <=> history[n].type = "file.changed" /\ Unexplained(D, n)
  BY TypedGrows, <1>2, <1>4
<1>11. \A f : n \in Typed(E, f) => f = F
  BY TypedGrows, <1>2, <1>4
<1> HIDE DEF E, F, Agent, Both, revises
<1>12. ASSUME NEW p \in Revisions(E) PROVE p \in Revisions(D) \cup New
  <2>0. PICK f \in Files : \E m \in Agent(E, f), k \in Typed(E, f) : p = <<m, k>> /\ Follows(k, m) /\ NoneBetween(m, k, Both(E, f))
    BY <1>3
  <2>1. PICK m \in Agent(E, f), k \in Typed(E, f) : p = <<m, k>> /\ Follows(k, m) /\ NoneBetween(m, k, Both(E, f))
    BY <2>0
  <2>2. m \in Agent(D, f)
    BY <2>1, <1>7
  <2>3. CASE k = n
    <3>1. f = F
      BY <2>3, <1>11
    <3>2. revises(m)
      BY <3>1, <2>1, <2>2, <2>3, <1>9
    <3> QED BY <3>1, <3>2, <2>1, <2>2, <2>3, <1>10
  <2>4. CASE k # n
    <3>1. k \in Typed(D, f)
      BY <2>4, <1>5
    <3>2. NoneBetween(m, k, Both(D, f))
      BY <3>1, <2>1, <2>2, <1>8
    <3> QED BY <3>1, <3>2, <2>1, <2>2, <1>3
  <2> QED BY <2>3, <2>4
<1>13. ASSUME NEW p \in Revisions(D) PROVE p \in Revisions(E)
  <2>0. PICK f \in Files : \E m \in Agent(D, f), k \in Typed(D, f) : p = <<m, k>> /\ Follows(k, m) /\ NoneBetween(m, k, Both(D, f))
    BY <1>3
  <2>1. PICK m \in Agent(D, f), k \in Typed(D, f) : p = <<m, k>> /\ Follows(k, m) /\ NoneBetween(m, k, Both(D, f))
    BY <2>0
  <2>2. m \in Agent(E, f) /\ k \in Typed(E, f) /\ NoneBetween(m, k, Both(E, f))
    BY <2>1, <1>4, <1>5, <1>8
  <2> QED BY <2>1, <2>2, <1>3
<1>14. ASSUME NEW p \in New PROVE p \in Revisions(E)
  <2>1. n \in Typed(E, F)
    BY <1>10
  <2>2. PICK m \in Agent(D, F) : p = <<m, n>> /\ revises(m)
    BY <1>14
  <2>3. Follows(n, m) /\ NoneBetween(m, n, Both(E, F)) /\ m \in Agent(E, F)
    BY <2>1, <2>2, <1>4, <1>9
  <2> QED BY <2>1, <2>2, <2>3, <1>2, <1>3
<1>15. Revisions(E) = Revisions(D) \cup New
  BY <1>12, <1>13, <1>14
<1> QED BY <1>15 DEF E, F, Agent, revises

LEMMA AttemptIs ==
  ASSUME NEW D, NEW p
  PROVE  p \in Attempts(D) <=>
           \E m \in Of(D, "test.failed"), k \in AllTyped(D) :
             p = <<m, k>> /\ Follows(k, m) /\ NoneBetween(m, k, Tests(D) \cup AllTyped(D))
<1> DEFINE A == Of(D, "test.failed")
           B == AllTyped(D)
           C == Tests(D) \cup AllTyped(D)
<1>1. p \in Attempts(D) <=> p \in {q \in A \X B : Follows(q[2], q[1]) /\ NoneBetween(q[1], q[2], C)}
  BY DEF Attempts
<1> HIDE DEF A, B, C
<1>2. p \in {q \in A \X B : Follows(q[2], q[1]) /\ NoneBetween(q[1], q[2], C)} <=>
        \E m \in A, k \in B : p = <<m, k>> /\ Follows(k, m) /\ NoneBetween(m, k, C)
  BY SMTT(30)
<1> QED BY <1>1, <1>2 DEF A, B, C

LEMMA FixIs ==
  ASSUME NEW D, NEW p
  PROVE  p \in Fixes(D) <=>
           \E m \in Of(D, "test.failed"), k \in AllTyped(D), n \in Of(D, "test.passed") :
             p = <<m, k, n>> /\ <<m, k>> \in Attempts(D) /\ Precedes(k, n) /\ Follows(n, m) /\ NoneBetween(m, n, Tests(D))
<1> DEFINE A == Of(D, "test.failed")
           B == AllTyped(D)
           C == Of(D, "test.passed")
<1>1. p \in Fixes(D) <=>
        p \in {q \in A \X B \X C : <<q[1], q[2]>> \in Attempts(D) /\ Precedes(q[2], q[3]) /\ Follows(q[3], q[1])
                                    /\ NoneBetween(q[1], q[3], Tests(D))}
  BY DEF Fixes
<1> HIDE DEF A, B, C
<1> DEFINE Good(m, k, n) == <<m, k>> \in Attempts(D) /\ Precedes(k, n) /\ Follows(n, m) /\ NoneBetween(m, n, Tests(D))
<1> HIDE DEF Good
<1>2. p \in {q \in A \X B \X C : Good(q[1], q[2], q[3])} <=>
        \E m \in A, k \in B, n \in C : p = <<m, k, n>> /\ Good(m, k, n)
  <2>1. ASSUME p \in {q \in A \X B \X C : Good(q[1], q[2], q[3])}
        PROVE  \E m \in A, k \in B, n \in C : p = <<m, k, n>> /\ Good(m, k, n)
    <3>1. p[1] \in A /\ p[2] \in B /\ p[3] \in C /\ p = <<p[1], p[2], p[3]>> /\ Good(p[1], p[2], p[3])
      BY <2>1
    <3> QED BY <3>1
  <2>2. ASSUME NEW m \in A, NEW k \in B, NEW n \in C, p = <<m, k, n>>, Good(m, k, n)
        PROVE  p \in {q \in A \X B \X C : Good(q[1], q[2], q[3])}
    <3>1. p[1] = m /\ p[2] = k /\ p[3] = n /\ p \in A \X B \X C
      BY <2>2
    <3> QED BY <3>1, <2>2
  <2> QED BY <2>1, <2>2
<1> QED BY <1>1, <1>2 DEF A, B, C, Good

LEMMA TestsGrow ==
  ASSUME NEW D, NEW n
  PROVE  Tests(D \cup {n}) = IF history[n].type \in {"test.failed", "test.passed"} THEN Tests(D) \cup {n} ELSE Tests(D)
BY DEF Tests, Of

(* Between a test of D and an event later than all of D there is no test exactly when it is D's last. *)
LEMMA LastIs ==
  ASSUME EvidenceTypeOK, NEW D, NEW n, Grows(D, n), NEW S \in SUBSET D, NEW m \in S
  PROVE  /\ NoneBetween(m, n, S) <=> \A k \in S : ~Precedes(m, k)
         /\ (\A k \in S : ~Precedes(m, k)) <=> IsLast(m, S)
<1>1. \A k \in S : Precedes(k, n)
  BY DEF Grows
<1>2. \A k \in S : (k = m \/ Precedes(k, m) \/ Precedes(m, k)) /\ (Precedes(k, m) => ~Precedes(m, k))
  BY Ordered DEF Grows
<1>3. ~Precedes(m, m)
  BY Ordered DEF Grows
<1> QED BY <1>1, <1>2, <1>3 DEF NoneBetween, IsLast

LEMMA AttemptsGrow ==
  ASSUME EvidenceTypeOK, NEW D, NEW n, Grows(D, n)
  PROVE  LET attempts(m) == /\ IsLast(m, Tests(D)) /\ Follows(n, m)
                            /\ \A k \in AllTyped(D) : ~Precedes(m, k)
         IN  Attempts(D \cup {n}) =
               IF history[n].type = "file.changed" /\ Unexplained(D, n)
               THEN Attempts(D) \cup {<<m, n>> : m \in {k \in Of(D, "test.failed") : attempts(k)}}
               ELSE Attempts(D)
<1> DEFINE E == D \cup {n}
           Both(X) == Tests(X) \cup AllTyped(X)
           attempts(m) == IsLast(m, Tests(D)) /\ Follows(n, m) /\ \A k \in AllTyped(D) : ~Precedes(m, k)
           New == IF history[n].type = "file.changed" /\ Unexplained(D, n)
                  THEN {<<m, n>> : m \in {k \in Of(D, "test.failed") : attempts(k)}} ELSE {}
<1>1. \A m \in D : Precedes(m, n) /\ ~Precedes(n, m)
  BY Ordered DEF Grows
<1>2. ~Precedes(n, n) /\ n \notin D
  BY Ordered DEF Grows
<1>3. Of(E, "test.failed") = IF history[n].type = "test.failed" THEN Of(D, "test.failed") \cup {n} ELSE Of(D, "test.failed")
  BY OfGrows
<1>4. AllTyped(E) = IF history[n].type = "file.changed" /\ Unexplained(D, n) THEN AllTyped(D) \cup {n} ELSE AllTyped(D)
  BY AllTypedGrows
<1>5. Tests(E) = IF history[n].type \in {"test.failed", "test.passed"} THEN Tests(D) \cup {n} ELSE Tests(D)
  BY TestsGrow
<1>6. Of(D, "test.failed") \subseteq D /\ AllTyped(D) \subseteq D /\ Tests(D) \subseteq D /\ Of(D, "test.failed") \subseteq Tests(D)
  BY Within DEF Tests
<1>7. Both(E) = Both(D) \/ Both(E) = Both(D) \cup {n}
  BY <1>4, <1>5
<1>8. ASSUME NEW m \in D, NEW k \in D PROVE NoneBetween(m, k, Both(E)) <=> NoneBetween(m, k, Both(D))
  <2>1. NoneBetween(m, k, Both(D) \cup {n}) <=> NoneBetween(m, k, Both(D))
    <3> HIDE DEF Both
    <3> QED BY BetweenOld
  <2> QED BY <2>1, <1>7
<1>9. ASSUME NEW m \in Of(D, "test.failed")
      PROVE  Follows(n, m) /\ NoneBetween(m, n, Both(E)) <=> attempts(m)
  <2>1. m \in Tests(D)
    BY <1>6
  <2>2. NoneBetween(m, n, Both(E)) <=> NoneBetween(m, n, Both(D))
    BY <1>2, <1>7 DEF NoneBetween
  <2>3. NoneBetween(m, n, Both(D)) <=> (\A k \in Tests(D) : ~Precedes(m, k)) /\ \A k \in AllTyped(D) : ~Precedes(m, k)
    BY <1>1, <1>6 DEF NoneBetween
  <2>4. (\A k \in Tests(D) : ~Precedes(m, k)) <=> IsLast(m, Tests(D))
    BY <2>1, <1>6, LastIs
  <2> QED BY <2>2, <2>3, <2>4
<1> HIDE DEF E, attempts, Both
<1>10. ASSUME NEW p \in Attempts(E) PROVE p \in Attempts(D) \cup New
  <2>1. PICK m \in Of(E, "test.failed"), k \in AllTyped(E) : p = <<m, k>> /\ Follows(k, m) /\ NoneBetween(m, k, Both(E))
    BY AttemptIs DEF Both
  <2>2. m \in Of(D, "test.failed")
    BY <2>1, <1>1, <1>2, <1>3, <1>4, <1>6 DEF Follows
  <2>3. CASE k = n
    BY <2>1, <2>2, <2>3, <1>2, <1>4, <1>6, <1>9
  <2>4. CASE k # n
    <3>1. k \in AllTyped(D) /\ k \in D /\ m \in D
      BY <2>2, <2>4, <1>4, <1>6
    <3>2. NoneBetween(m, k, Both(D))
      BY <3>1, <2>1, <1>8
    <3> QED BY <2>1, <2>2, <3>1, <3>2, AttemptIs DEF Both
  <2> QED BY <2>3, <2>4
<1>11. ASSUME NEW p \in Attempts(D) PROVE p \in Attempts(E)
  <2>1. PICK m \in Of(D, "test.failed"), k \in AllTyped(D) : p = <<m, k>> /\ Follows(k, m) /\ NoneBetween(m, k, Both(D))
    BY AttemptIs DEF Both
  <2>2. m \in Of(E, "test.failed") /\ k \in AllTyped(E) /\ NoneBetween(m, k, Both(E))
    BY <2>1, <1>3, <1>4, <1>6, <1>8
  <2> QED BY <2>1, <2>2, AttemptIs DEF Both
<1>12. ASSUME NEW p \in New PROVE p \in Attempts(E)
  <2>1. PICK m \in Of(D, "test.failed") : p = <<m, n>> /\ attempts(m)
    BY <1>12
  <2>2. n \in AllTyped(E) /\ m \in Of(E, "test.failed") /\ Follows(n, m) /\ NoneBetween(m, n, Both(E))
    BY <2>1, <1>12, <1>3, <1>4, <1>9
  <2> QED BY <2>1, <2>2, AttemptIs DEF Both
<1>13. Attempts(E) = Attempts(D) \cup New
  BY <1>10, <1>11, <1>12
<1> QED BY <1>13 DEF E, attempts

LEMMA FixesGrow ==
  ASSUME EvidenceTypeOK, NEW D, NEW n, Grows(D, n)
  PROVE  Fixes(D \cup {n}) =
           IF history[n].type = "test.passed"
           THEN Fixes(D) \cup {<<p[1], p[2], n>> : p \in {q \in Attempts(D) : IsLast(q[1], Tests(D)) /\ Follows(n, q[1])}}
           ELSE Fixes(D)
<1> DEFINE E == D \cup {n}
           fixes(m) == IsLast(m, Tests(D)) /\ Follows(n, m)
           New == IF history[n].type = "test.passed"
                  THEN {<<p[1], p[2], n>> : p \in {q \in Attempts(D) : fixes(q[1])}} ELSE {}
<1>1. \A m \in D : Precedes(m, n) /\ ~Precedes(n, m)
  BY Ordered DEF Grows
<1>2. ~Precedes(n, n) /\ n \notin D
  BY Ordered DEF Grows
<1>3. /\ Of(E, "test.failed") = IF history[n].type = "test.failed" THEN Of(D, "test.failed") \cup {n} ELSE Of(D, "test.failed")
      /\ Of(E, "test.passed") = IF history[n].type = "test.passed" THEN Of(D, "test.passed") \cup {n} ELSE Of(D, "test.passed")
  BY OfGrows
<1>4. AllTyped(E) = IF history[n].type = "file.changed" /\ Unexplained(D, n) THEN AllTyped(D) \cup {n} ELSE AllTyped(D)
  BY AllTypedGrows
<1>5. Tests(E) = IF history[n].type \in {"test.failed", "test.passed"} THEN Tests(D) \cup {n} ELSE Tests(D)
  BY TestsGrow
<1>6. /\ Of(D, "test.failed") \subseteq D /\ Of(D, "test.passed") \subseteq D /\ AllTyped(D) \subseteq D /\ Tests(D) \subseteq D
      /\ Of(D, "test.failed") \subseteq Tests(D)
  BY Within DEF Tests
<1>7. Attempts(D) \subseteq Attempts(E)
  BY AttemptsGrow
<1>8. ASSUME NEW m \in D, NEW k \in D, <<m, k>> \in Attempts(E) PROVE <<m, k>> \in Attempts(D)
  <2>1. \/ Attempts(E) = Attempts(D)
        \/ \E X : Attempts(E) = Attempts(D) \cup {<<x, n>> : x \in X}
    BY AttemptsGrow
  <2> QED BY <2>1, <1>2, <1>8
<1>9. ASSUME NEW m \in D, NEW k \in D PROVE NoneBetween(m, k, Tests(E)) <=> NoneBetween(m, k, Tests(D))
  <2>1. NoneBetween(m, k, Tests(D) \cup {n}) <=> NoneBetween(m, k, Tests(D))
    BY BetweenOld
  <2> QED BY <2>1, <1>5
<1>10. ASSUME NEW m \in Of(D, "test.failed")
       PROVE  Follows(n, m) /\ NoneBetween(m, n, Tests(E)) <=> fixes(m)
  <2>1. NoneBetween(m, n, Tests(E)) <=> NoneBetween(m, n, Tests(D))
    BY <1>2, <1>5 DEF NoneBetween
  <2>2. NoneBetween(m, n, Tests(D)) <=> IsLast(m, Tests(D))
    BY <1>6, LastIs
  <2> QED BY <2>1, <2>2
<1>11. \A p \in Attempts(D) : p = <<p[1], p[2]>> /\ p[1] \in Of(D, "test.failed") /\ p[2] \in AllTyped(D)
  <2> TAKE p \in Attempts(D)
  <2>1. PICK m \in Of(D, "test.failed"), k \in AllTyped(D) :
          p = <<m, k>> /\ Follows(k, m) /\ NoneBetween(m, k, Tests(D) \cup AllTyped(D))
    BY AttemptIs
  <2> QED BY <2>1
<1> HIDE DEF E, fixes
<1>12. ASSUME NEW p \in Fixes(E) PROVE p \in Fixes(D) \cup New
  <2>1. PICK m \in Of(E, "test.failed"), k \in AllTyped(E), z \in Of(E, "test.passed") :
          p = <<m, k, z>> /\ <<m, k>> \in Attempts(E) /\ Precedes(k, z) /\ Follows(z, m) /\ NoneBetween(m, z, Tests(E))
    BY FixIs
  <2>2. z \in D \cup {n} /\ k \in D \cup {n} /\ m \in D \cup {n}
    BY <2>1, <1>3, <1>4, <1>6
  <2>3. m \in D /\ k \in D
    BY <2>1, <2>2, <1>1, <1>2 DEF Follows
  <2>4. m \in Of(D, "test.failed") /\ k \in AllTyped(D) /\ <<m, k>> \in Attempts(D)
    BY <2>1, <2>3, <1>2, <1>3, <1>4, <1>8
  <2>5. CASE z = n
    <3>1. history[n].type = "test.passed" /\ fixes(m)
      BY <2>1, <2>4, <2>5, <1>2, <1>3, <1>6, <1>10
    <3> DEFINE q == <<m, k>>
    <3>2. q \in Attempts(D) /\ fixes(q[1]) /\ p = <<q[1], q[2], n>>
      BY <3>1, <2>1, <2>4, <2>5
    <3> HIDE DEF q
    <3> QED BY <3>1, <3>2
  <2>6. CASE z # n
    <3>1. z \in Of(D, "test.passed") /\ z \in D
      BY <2>1, <2>2, <2>6, <1>3
    <3>2. NoneBetween(m, z, Tests(D))
      BY <3>1, <2>1, <2>3, <1>9
    <3> QED BY <2>1, <2>4, <3>1, <3>2, FixIs
  <2> QED BY <2>5, <2>6
<1>13. ASSUME NEW p \in Fixes(D) PROVE p \in Fixes(E)
  <2>1. PICK m \in Of(D, "test.failed"), k \in AllTyped(D), z \in Of(D, "test.passed") :
          p = <<m, k, z>> /\ <<m, k>> \in Attempts(D) /\ Precedes(k, z) /\ Follows(z, m) /\ NoneBetween(m, z, Tests(D))
    BY FixIs
  <2>2. m \in Of(E, "test.failed") /\ k \in AllTyped(E) /\ z \in Of(E, "test.passed") /\ m \in D /\ z \in D
    BY <2>1, <1>3, <1>4, <1>6
  <2>3. NoneBetween(m, z, Tests(E)) /\ <<m, k>> \in Attempts(E)
    BY <2>1, <2>2, <1>7, <1>9
  <2> QED BY <2>1, <2>2, <2>3, FixIs
<1>14. ASSUME NEW p \in New PROVE p \in Fixes(E)
  <2>1. PICK q \in Attempts(D) : p = <<q[1], q[2], n>> /\ fixes(q[1])
    BY <1>14
  <2>2. q[1] \in Of(D, "test.failed") /\ q[2] \in AllTyped(D) /\ <<q[1], q[2]>> \in Attempts(E)
    BY <1>7, <1>11
  <2>3. q[1] \in Of(E, "test.failed") /\ q[2] \in AllTyped(E) /\ n \in Of(E, "test.passed")
    BY <2>2, <1>3, <1>4, <1>14
  <2>4. Precedes(q[2], n) /\ Follows(n, q[1]) /\ NoneBetween(q[1], n, Tests(E))
    BY <2>1, <2>2, <1>1, <1>6, <1>10
  <2> QED BY <2>1, <2>2, <2>3, <2>4, FixIs
<1>15. Fixes(E) = Fixes(D) \cup New
  BY <1>12, <1>13, <1>14
<1> QED BY <1>15 DEF E, fixes

-----------------------------------------------------------------------------
(* The groups of edits: they divide the edits of a file, and a further edit  *)
(* joins the last group or makes a group of its own.                         *)

Near(m, n) == TimeOf(n) - TimeOf(m) <= EDIT_GROUP
LastIfAny(l, S) == S # {} => IsLast(l, S)
Joins(n, l, S) == S # {} /\ Near(l, n)

LEMMA LinkedTransitive ==
  ASSUME EvidenceTypeOK, NEW S \in SUBSET Places, NEW a \in S, NEW b \in S, NEW c \in S,
         Linked(S, a, b), Linked(S, b, c)
  PROVE  Linked(S, a, c)
<1> SUFFICES ASSUME NEW k \in S, ~Precedes(k, a), Precedes(k, c)
             PROVE  \E l \in S : Precedes(k, l) /\ ~Precedes(c, l) /\ Near(k, l)
  BY DEF Linked, Near
<1>1. /\ \A m \in S : TimeOf(m) \in Nat /\ ~Precedes(m, m)
      /\ \A m, n \in S : Precedes(m, n) => TimeOf(m) <= TimeOf(n) /\ ~Precedes(n, m)
      /\ \A m, n \in S : m = n \/ Precedes(m, n) \/ Precedes(n, m)
      /\ \A l, m, n \in S : Precedes(l, m) /\ Precedes(m, n) => Precedes(l, n)
  BY Ordered
<1>2. CASE ~Precedes(k, b)
  BY <1>2 DEF Linked, Near
<1>3. CASE Precedes(k, b)
  <2>1. PICK l \in S : Precedes(k, l) /\ ~Precedes(b, l) /\ Near(k, l)
    BY <1>3 DEF Linked, Near
  <2>2. CASE Precedes(c, l)
    <3>1. TimeOf(c) <= TimeOf(l) /\ ~Precedes(c, c)
      BY <1>1, <2>2
    <3> QED BY <1>1, <2>1, <3>1, EvidenceAssumption DEF Near
  <2>3. CASE ~Precedes(c, l)
    BY <2>1, <2>3
  <2> QED BY <2>2, <2>3
<1> QED BY <1>2, <1>3

LEMMA InOwnGroup ==
  ASSUME EvidenceTypeOK, NEW S \in SUBSET Places, NEW m \in S
  PROVE  m \in GroupOf(S, m) /\ GroupOf(S, m) \subseteq S
BY DEF GroupOf, Linked

LEMMA GroupsDivide ==
  ASSUME EvidenceTypeOK, NEW S \in SUBSET Places, NEW a \in S, NEW b \in GroupOf(S, a)
  PROVE  GroupOf(S, b) = GroupOf(S, a)
<1>1. b \in S /\ Linked(S, a, b) /\ Linked(S, b, a)
  BY DEF GroupOf
<1>2. \A x \in S : Linked(S, a, x) <=> Linked(S, b, x)
  BY <1>1, LinkedTransitive
<1>3. \A x \in S : Linked(S, x, a) <=> Linked(S, x, b)
  BY <1>1, LinkedTransitive
<1> QED BY <1>2, <1>3 DEF GroupOf

LEMMA LinkedGrows ==
  ASSUME EvidenceTypeOK, NEW S \in SUBSET Places, NEW n, Grows(S, n)
  PROVE  /\ \A a, b \in S : Linked(S \cup {n}, a, b) <=> Linked(S, a, b)
         /\ \A a \in S \cup {n} : Linked(S \cup {n}, n, a)
         /\ \A l : IsLast(l, S) =>
              /\ \A a \in S : Linked(S, l, a)
              /\ \A a \in S : Linked(S \cup {n}, a, n) <=> Near(l, n) /\ Linked(S, a, l)
<1> DEFINE E == S \cup {n}
<1>1. \A m \in S : Precedes(m, n) /\ ~Precedes(n, m)
  BY Ordered DEF Grows
<1>2. ~Precedes(n, n) /\ n \notin S /\ n \in Places
  BY Ordered DEF Grows
<1>3. \A a, b \in S : Linked(E, a, b) <=> Linked(S, a, b)
  BY <1>1 DEF Linked
<1>4. \A a \in E : Linked(E, n, a)
  BY <1>1, <1>2 DEF Linked
<1>5. ASSUME NEW l, IsLast(l, S)
      PROVE  /\ \A a \in S : Linked(S, l, a)
             /\ \A a \in S : Linked(E, a, n) <=> Near(l, n) /\ Linked(S, a, l)
  <2>1. /\ l \in S /\ \A k \in S : ~Precedes(l, k) /\ (k = l \/ Precedes(k, l))
        /\ \A k \in E : TimeOf(k) \in Nat
        /\ \A j, k \in E : Precedes(j, k) => TimeOf(j) <= TimeOf(k)
    BY <1>5, <1>2, Ordered DEF IsLast
  <2>2. \A a \in S : Linked(S, l, a)
    <3> SUFFICES ASSUME NEW a \in S, NEW k \in S, ~Precedes(k, l), Precedes(k, a) PROVE FALSE
      BY DEF Linked
    <3>1. k = l
      BY <2>1
    <3> QED BY <2>1, <3>1
  <2>3. ASSUME NEW a \in S, Linked(E, a, n) PROVE Near(l, n) /\ Linked(S, a, l)
    <3>1. \A k \in S : ~Precedes(k, a) => \E j \in E : Precedes(k, j) /\ Near(k, j)
      BY <2>3, <1>1 DEF Linked, Near
    <3>2. Near(l, n)
      BY <2>1, <3>1
    <3>3. ASSUME NEW k \in S, ~Precedes(k, a), Precedes(k, l)
          PROVE  \E j \in S : Precedes(k, j) /\ ~Precedes(l, j) /\ Near(k, j)
      <4>1. PICK j \in E : Precedes(k, j) /\ Near(k, j)
        BY <3>1, <3>3
      <4>2. CASE j = n
        <5>1. TimeOf(l) <= TimeOf(n)
          BY <1>1, <2>1
        <5>2. Near(k, l)
          BY <4>1, <4>2, <5>1, <2>1, EvidenceAssumption DEF Near
        <5> QED BY <5>2, <3>3, <2>1
      <4>3. CASE j \in S
        BY <4>1, <4>3, <2>1
      <4> QED BY <4>2, <4>3
    <3> QED BY <3>2, <3>3 DEF Linked, Near
  <2>4. ASSUME NEW a \in S, Near(l, n), Linked(S, a, l) PROVE Linked(E, a, n)
    <3> SUFFICES ASSUME NEW k \in E, ~Precedes(k, a), Precedes(k, n)
                 PROVE  \E j \in E : Precedes(k, j) /\ ~Precedes(n, j) /\ Near(k, j)
      BY DEF Linked, Near
    <3>1. k \in S
      BY <1>2
    <3>2. CASE k = l
      BY <3>2, <2>4, <1>2
    <3>3. CASE k # l
      <4>1. \E j \in S : Precedes(k, j) /\ Near(k, j)
        BY <3>1, <3>3, <2>1, <2>4 DEF Linked, Near
      <4> QED BY <4>1, <1>1
    <3> QED BY <3>2, <3>3
  <2> QED BY <2>2, <2>3, <2>4
<1> QED BY <1>3, <1>4, <1>5

(* The group that the further edit is in. *)
LEMMA LastGroupGrows ==
  ASSUME EvidenceTypeOK, NEW S \in SUBSET Places, NEW n, Grows(S, n), NEW E, E = S \cup {n}, NEW l, LastIfAny(l, S)
  PROVE  GroupOf(E, n) = IF Joins(n, l, S) THEN GroupOf(S, l) \cup {n} ELSE {n}
<1>1. /\ \A a, b \in S : Linked(E, a, b) <=> Linked(S, a, b)
      /\ \A a \in E : Linked(E, n, a)
  BY LinkedGrows
<1>2. CASE S = {}
  <2>1. GroupOf(E, n) = {n}
    BY <1>1, <1>2 DEF GroupOf
  <2> QED BY <2>1, <1>2 DEF Joins
<1>3. CASE S # {}
  <2>1. /\ l \in S
        /\ \A a \in S : Linked(S, l, a)
        /\ \A a \in S : Linked(E, a, n) <=> Near(l, n) /\ Linked(S, a, l)
    BY <1>3, LinkedGrows DEF IsLast, LastIfAny
  <2>2. GroupOf(S, l) = {a \in S : Linked(S, a, l)}
    BY <2>1 DEF GroupOf
  <2>3. GroupOf(E, n) = {a \in E : Linked(E, a, n)}
    BY <1>1 DEF GroupOf
  <2>4. GroupOf(E, n) = {n} \cup {a \in S : Near(l, n) /\ Linked(S, a, l)}
    BY <2>1, <2>3, <1>1
  <2> QED BY <2>2, <2>4, <1>3 DEF Joins
<1> QED BY <1>2, <1>3

(* The groups that the earlier edits are in. *)
LEMMA OldGroupsGrow ==
  ASSUME EvidenceTypeOK, NEW S \in SUBSET Places, NEW n, Grows(S, n), NEW E, E = S \cup {n}, NEW l, LastIfAny(l, S),
         NEW m \in S
  PROVE  GroupOf(E, m) = IF Joins(n, l, S) /\ m \in GroupOf(S, l) THEN GroupOf(S, l) \cup {n} ELSE GroupOf(S, m)
<1>1. /\ \A a, b \in S : Linked(E, a, b) <=> Linked(S, a, b)
      /\ \A a \in E : Linked(E, n, a)
  BY LinkedGrows
<1>2. /\ l \in S
      /\ \A a \in S : Linked(S, l, a)
      /\ \A a \in S : Linked(E, a, n) <=> Near(l, n) /\ Linked(S, a, l)
  BY LinkedGrows DEF IsLast, LastIfAny
<1>3. GroupOf(S, l) = {a \in S : Linked(S, a, l)}
  BY <1>2 DEF GroupOf
<1>4. GroupOf(E, m) = GroupOf(S, m) \cup {a \in {n} : Linked(E, m, n)}
  BY <1>1 DEF GroupOf
<1>5. Linked(E, m, n) <=> Joins(n, l, S) /\ m \in GroupOf(S, l)
  BY <1>2, <1>3 DEF Joins
<1>6. m \in GroupOf(S, l) => GroupOf(S, m) = GroupOf(S, l)
  BY <1>2, GroupsDivide
<1> QED BY <1>4, <1>5, <1>6

-----------------------------------------------------------------------------
(* The items of the edits. *)

IsEdit(D, n, c) ==
  CASE c = "student_edit" -> history[n].type = "file.changed" /\ Unexplained(D, n)
    [] c = "autocomplete_edit" -> history[n].type = "autocomplete.accepted"
    [] c = "agent_edit" -> history[n].type = "agent.files_changed"

LEMMA EditsGrow ==
  ASSUME EvidenceTypeOK, NEW D, NEW n, Grows(D, n), NEW E, E = D \cup {n}, NEW c \in EditCategories, NEW f
  PROVE  Edits(E, c, f) = IF IsEdit(D, n, c) /\ history[n].file = f THEN Edits(D, c, f) \cup {n} ELSE Edits(D, c, f)
<1>1. CASE c = "student_edit"
  BY <1>1, TypedGrows DEF Edits, IsEdit
<1>2. CASE c = "autocomplete_edit"
  BY <1>2 DEF Edits, IsEdit, EditsOf, Of
<1>3. CASE c = "agent_edit"
  BY <1>3 DEF Edits, IsEdit, EditsOf, Of
<1> QED BY <1>1, <1>2, <1>3 DEF EditCategories

LEMMA EditsWithin ==
  ASSUME NEW D, NEW c \in EditCategories, NEW f
  PROVE  Edits(D, c, f) \subseteq D /\ \A m \in Edits(D, c, f) : history[m].file = f
BY DEF Edits, EditCategories, Typed, EditsOf, Of

LEMMA CitedIs ==
  ASSUME EvidenceTypeOK, NEW G \in SUBSET Places, G # {}
  PROVE  Cited(history, G) \subseteq G /\ Earliest(history, G) \in Cited(history, G)
<1> DEFINE e == Earliest(history, G)
<1>1. e \in G /\ \A m \in G \ {e} : Precedes(e, m)
  BY EarliestIs
<1>2. \A m \in G : ~Precedes(m, e)
  BY <1>1, Ordered
<1>3. {m \in G : Before(history, m, e)} = {}
  BY <1>2 DEF Precedes
<1>4. Cardinality({m \in G : Before(history, m, e)}) = 0
  BY <1>3, FS_EmptySet
<1>5. 0 < MAX_REFERENCES
  BY EvidenceAssumption
<1> QED BY <1>1, <1>4, <1>5 DEF Cited

(* An item names the category, the file and the group it stands for. *)
LEMMA ItemNames ==
  ASSUME EvidenceTypeOK, NEW D \in SUBSET Places,
         NEW c \in EditCategories, NEW f, NEW a \in Edits(D, c, f),
         NEW d \in EditCategories, NEW g, NEW b \in Edits(D, d, g),
         EditItem(history, c, GroupOf(Edits(D, c, f), a)) = EditItem(history, d, GroupOf(Edits(D, d, g), b))
  PROVE  c = d /\ f = g /\ GroupOf(Edits(D, c, f), a) = GroupOf(Edits(D, d, g), b)
<1> DEFINE A == GroupOf(Edits(D, c, f), a)
           B == GroupOf(Edits(D, d, g), b)
<1>1. c = d /\ Cited(history, A) = Cited(history, B)
  BY DEF EditItem, Evidence
<1>2. Edits(D, c, f) \subseteq Places /\ Edits(D, d, g) \subseteq Places
  BY EditsWithin
<1>3. a \in A /\ A \subseteq Edits(D, c, f) /\ b \in B /\ B \subseteq Edits(D, d, g)
  BY <1>2, InOwnGroup
<1>4. PICK e : e \in A /\ e \in B
  <2>1. Cited(history, A) \subseteq A /\ Earliest(history, A) \in Cited(history, A)
    BY <1>2, <1>3, CitedIs
  <2>2. Cited(history, B) \subseteq B
    BY <1>2, <1>3, CitedIs
  <2> QED BY <2>1, <2>2, <1>1
<1>5. f = g
  BY <1>3, <1>4, EditsWithin
<1>6. GroupOf(Edits(D, c, f), e) = A /\ GroupOf(Edits(D, d, g), e) = B
  BY <1>2, <1>4, GroupsDivide
<1> QED BY <1>1, <1>5, <1>6

GroupItems(D, c, f) == {EditItem(history, c, GroupOf(Edits(D, c, f), m)) : m \in Edits(D, c, f)}

LEMMA EditItemsAre ==
  ASSUME NEW D, NEW x
  PROVE  x \in EditItems(D) <=> \E c \in EditCategories, f \in Files : x \in GroupItems(D, c, f)
<1>1. EditItems(D) = UNION {GroupItems(D, c, f) : c \in EditCategories, f \in Files}
  BY DEF EditItems, GroupItems
<1> QED BY <1>1

LEMMA EditItemsKept ==
  ASSUME EvidenceTypeOK, NEW D, NEW n, Grows(D, n), NEW E, E = D \cup {n}, \A c \in EditCategories : ~IsEdit(D, n, c)
  PROVE  EditItems(E) = EditItems(D)
<1>1. ASSUME NEW c \in EditCategories, NEW f \in Files PROVE GroupItems(E, c, f) = GroupItems(D, c, f)
  BY EditsGrow DEF GroupItems
<1>2. /\ \A x : x \in EditItems(E) <=> \E c \in EditCategories, f \in Files : x \in GroupItems(E, c, f)
      /\ \A x : x \in EditItems(D) <=> \E c \in EditCategories, f \in Files : x \in GroupItems(D, c, f)
  BY EditItemsAre
<1>3. ASSUME NEW x, x \in EditItems(E) PROVE x \in EditItems(D)
  <2>1. PICK c \in EditCategories, f \in Files : x \in GroupItems(E, c, f)
    BY <1>2, <1>3
  <2>2. x \in GroupItems(D, c, f)
    BY <1>1, <2>1
  <2> QED BY <1>2, <2>2
<1>4. ASSUME NEW x, x \in EditItems(D) PROVE x \in EditItems(E)
  <2>1. PICK c \in EditCategories, f \in Files : x \in GroupItems(D, c, f)
    BY <1>2, <1>4
  <2>2. x \in GroupItems(E, c, f)
    BY <1>1, <2>1
  <2> QED BY <1>2, <2>2
<1> QED BY <1>3, <1>4

\* The items of the edits after one more edit, where l is the last of the edits S of its file.
GroupAfter(n, l, S) == IF Joins(n, l, S) THEN GroupOf(S, l) \cup {n} ELSE {n}
ItemsAfter(D, n, c, l, S) ==
  (IF Joins(n, l, S) THEN EditItems(D) \ {EditItem(history, c, GroupOf(S, l))} ELSE EditItems(D))
  \cup {EditItem(history, c, GroupAfter(n, l, S))}

LEMMA EditItemsGrow ==
  ASSUME EvidenceTypeOK, NEW D, NEW n, Grows(D, n), NEW E, E = D \cup {n}, NEW C \in EditCategories, IsEdit(D, n, C),
         NEW S, S = Edits(D, C, history[n].file), NEW l, LastIfAny(l, S)
  PROVE  EditItems(E) = ItemsAfter(D, n, C, l, S)
<1> DEFINE T == S \cup {n}
           F == history[n].file
           Old == EditItem(history, C, GroupOf(S, l))
           New == EditItem(history, C, IF Joins(n, l, S) THEN GroupOf(S, l) \cup {n} ELSE {n})
<1>1. F \in Files /\ D \subseteq Places /\ S \subseteq D /\ S \in SUBSET Places /\ Grows(S, n)
  BY Ordered, EditsWithin DEF Grows, HistoryEvent
<1>2. Edits(E, C, F) = T
  BY EditsGrow
<1>3. \A c \in EditCategories, f \in Files : (c # C \/ f # F) => Edits(E, c, f) = Edits(D, c, f)
  <2>1. \A c \in EditCategories : IsEdit(D, n, c) => c = C
    BY DEF IsEdit, EditCategories
  <2> QED BY <2>1, EditsGrow
<1>4. \A c \in EditCategories, f \in Files : (c # C \/ f # F) => GroupItems(E, c, f) = GroupItems(D, c, f)
  BY <1>3 DEF GroupItems
<1>5. /\ GroupOf(T, n) = IF Joins(n, l, S) THEN GroupOf(S, l) \cup {n} ELSE {n}
      /\ \A m \in S : GroupOf(T, m) = IF Joins(n, l, S) /\ m \in GroupOf(S, l) THEN GroupOf(S, l) \cup {n} ELSE GroupOf(S, m)
  <2>1. S \in SUBSET Places /\ Grows(S, n) /\ T = S \cup {n}
    BY <1>1
  <2> HIDE DEF T, F
  <2>2. GroupOf(T, n) = IF Joins(n, l, S) THEN GroupOf(S, l) \cup {n} ELSE {n}
    BY <2>1, LastGroupGrows
  <2>3. \A m \in S : GroupOf(T, m) =
          IF Joins(n, l, S) /\ m \in GroupOf(S, l) THEN GroupOf(S, l) \cup {n} ELSE GroupOf(S, m)
    BY <2>1, OldGroupsGrow
  <2> QED BY <2>2, <2>3
<1>6. \A m \in S : (Joins(n, l, S) /\ EditItem(history, C, GroupOf(S, m)) = Old) => m \in GroupOf(S, l)
  <2> TAKE m \in S
  <2> HAVE Joins(n, l, S) /\ EditItem(history, C, GroupOf(S, m)) = Old
  <2>1. l \in S
    BY DEF IsLast, LastIfAny, Joins
  <2>2. GroupOf(S, m) = GroupOf(S, l)
    BY <2>1, <1>1, ItemNames
  <2> QED BY <2>2, <1>1, InOwnGroup
<1>7. \A m \in S : (Joins(n, l, S) /\ m \in GroupOf(S, l)) => EditItem(history, C, GroupOf(S, m)) = Old
  BY <1>1, GroupsDivide DEF IsLast, LastIfAny, Joins
<1>8. \A c \in EditCategories, f \in Files : (c # C \/ f # F) /\ Joins(n, l, S) => Old \notin GroupItems(D, c, f)
  <2> SUFFICES ASSUME NEW c \in EditCategories, NEW f \in Files, c # C \/ f # F, Joins(n, l, S), Old \in GroupItems(D, c, f)
               PROVE  FALSE
    OBVIOUS
  <2>1. PICK m \in Edits(D, c, f) : Old = EditItem(history, c, GroupOf(Edits(D, c, f), m))
    BY DEF GroupItems
  <2>2. l \in Edits(D, C, F)
    BY DEF IsLast, LastIfAny, Joins
  <2>3. c = C /\ f = F
    BY <2>1, <2>2, <1>1, ItemNames
  <2> QED BY <2>3
<1>9. GroupItems(E, C, F) = (IF Joins(n, l, S) THEN GroupItems(D, C, F) \ {Old} ELSE GroupItems(D, C, F)) \cup {New}
  <2>1. GroupItems(E, C, F) = {EditItem(history, C, GroupOf(T, m)) : m \in S \cup {n}}
    BY <1>2 DEF GroupItems
  <2>2. GroupItems(D, C, F) = {EditItem(history, C, GroupOf(S, m)) : m \in S}
    BY DEF GroupItems
  <2>3. EditItem(history, C, GroupOf(T, n)) = New
    BY <1>5
  <2>4. CASE ~Joins(n, l, S)
    <3>1. \A m \in S : GroupOf(T, m) = GroupOf(S, m)
      BY <2>4, <1>5
    <3> QED BY <2>1, <2>2, <2>3, <2>4, <3>1
  <2>5. CASE Joins(n, l, S)
    <3>1. \A m \in S : EditItem(history, C, GroupOf(T, m)) =
                         IF m \in GroupOf(S, l) THEN New ELSE EditItem(history, C, GroupOf(S, m))
      BY <2>5, <1>5
    <3> DEFINE ItemOf(m) == EditItem(history, C, GroupOf(S, m))
               Further(m) == EditItem(history, C, GroupOf(T, m))
    <3>2. /\ GroupItems(E, C, F) = {Further(m) : m \in S \cup {n}}
          /\ GroupItems(D, C, F) = {ItemOf(m) : m \in S}
          /\ Further(n) = New
          /\ \A m \in S : Further(m) = IF m \in GroupOf(S, l) THEN New ELSE ItemOf(m)
          /\ \A m \in S : m \in GroupOf(S, l) <=> ItemOf(m) = Old
      BY <2>1, <2>2, <2>3, <2>5, <3>1, <1>6, <1>7
    <3> HIDE DEF New, Old, ItemOf, Further
    <3>3. \A x \in GroupItems(E, C, F) : x \in (GroupItems(D, C, F) \ {Old}) \cup {New}
      BY <3>2
    <3>4. \A x \in GroupItems(D, C, F) \ {Old} : x \in GroupItems(E, C, F)
      BY <3>2
    <3>5. New \in GroupItems(E, C, F)
      BY <3>2
    <3> QED BY <3>3, <3>4, <3>5, <2>5
  <2> QED BY <2>4, <2>5
<1> HIDE DEF F, Old, New
<1>10. \A x : x \in EditItems(E) <=> x \in (IF Joins(n, l, S) THEN EditItems(D) \ {Old} ELSE EditItems(D)) \cup {New}
  <2> TAKE x
  <2>1. ASSUME x \in EditItems(E)
        PROVE  x \in (IF Joins(n, l, S) THEN EditItems(D) \ {Old} ELSE EditItems(D)) \cup {New}
    <3>1. PICK c \in EditCategories, f \in Files : x \in GroupItems(E, c, f)
      BY <2>1, EditItemsAre
    <3>2. CASE c = C /\ f = F
      BY <3>1, <3>2, <1>9, EditItemsAre
    <3>3. CASE c # C \/ f # F
      <4>1. x \in GroupItems(D, c, f)
        BY <3>1, <3>3, <1>4
      <4>2. x \in EditItems(D)
        BY <4>1, EditItemsAre
      <4> QED BY <4>1, <4>2, <3>3, <1>8
    <3> QED BY <3>2, <3>3
  <2>2. ASSUME x \in (IF Joins(n, l, S) THEN EditItems(D) \ {Old} ELSE EditItems(D)) \cup {New}
        PROVE  x \in EditItems(E)
    <3>1. CASE x = New
      <4>1. x \in GroupItems(E, C, F)
        BY <3>1, <1>9
      <4> QED BY <4>1, <1>1, EditItemsAre DEF F
    <3>2. CASE x # New
      <4>1. PICK c \in EditCategories, f \in Files : x \in GroupItems(D, c, f) /\ (Joins(n, l, S) => x # Old)
        BY <2>2, <3>2, EditItemsAre
      <4>2. x \in GroupItems(E, c, f)
        BY <4>1, <1>4, <1>9
      <4> QED BY <4>2, EditItemsAre
    <3> QED BY <3>1, <3>2
  <2> QED BY <2>1, <2>2
<1>11. EditItems(E) = (IF Joins(n, l, S) THEN EditItems(D) \ {Old} ELSE EditItems(D)) \cup {New}
  BY <1>10
<1> QED BY <1>11 DEF Old, New, ItemsAfter, GroupAfter

-----------------------------------------------------------------------------
(* What one event does to the state of the loop. *)

IsSeen(s) ==
  /\ s = [output |-> s.output, lastAgentEdit |-> s.lastAgentEdit, lastAutocomplete |-> s.lastAutocomplete,
          failed |-> s.failed, attempted |-> s.attempted, planSeen |-> s.planSeen, planApproved |-> s.planApproved,
          learnUsed |-> s.learnUsed, revised |-> s.revised, grouped |-> s.grouped]
  /\ s.lastAgentEdit \in [Files -> Nat] /\ s.lastAutocomplete \in [Files -> Nat]
  /\ s.failed \in Nat /\ s.attempted \in Nat
  /\ s.planSeen \in BOOLEAN /\ s.planApproved \in BOOLEAN /\ s.learnUsed \in BOOLEAN
  /\ s.revised \subseteq Nat
  /\ s.grouped \in [EditCategories -> [Files -> [last: Nat, refs: SUBSET Nat]]]

FileOf(n) == history[n].file
TypeOf(n) == history[n].type

Skips(s, n) ==
  s.lastAutocomplete[FileOf(n)] # NoEvent /\ TimeOf(n) - TimeOf(s.lastAutocomplete[FileOf(n)]) <= Debounce

Takes(s, n, c) ==
  CASE c = "student_edit" -> TypeOf(n) = "file.changed" /\ ~Skips(s, n)
    [] c = "autocomplete_edit" -> TypeOf(n) = "autocomplete.accepted"
    [] c = "agent_edit" -> TypeOf(n) = "agent.files_changed"

Prior(s, n, c) == s.grouped[c][FileOf(n)]
Extends(s, n, c) == Prior(s, n, c).refs # {} /\ Near(Prior(s, n, c).last, n)
GroupNow(s, n, c) == IF Extends(s, n, c) THEN Prior(s, n, c).refs \cup {n} ELSE {n}

RevisesNow(s, n) ==
  LET agent == s.lastAgentEdit[FileOf(n)]
  IN  Takes(s, n, "student_edit") /\ agent # NoEvent /\ TimeOf(n) - TimeOf(agent) <= RELATED /\ agent \notin s.revised
AttemptsNow(s, n) ==
  Takes(s, n, "student_edit") /\ s.failed # NoEvent /\ TimeOf(n) - TimeOf(s.failed) <= RELATED /\ s.attempted = NoEvent
VerifiesNow(s, n) ==
  TypeOf(n) = "test.passed" /\ s.failed # NoEvent /\ s.attempted # NoEvent /\ TimeOf(n) - TimeOf(s.failed) <= RELATED
ApprovesNow(s, n) == TypeOf(n) = "plan.approved" /\ s.planSeen /\ ~s.planApproved
LearnsNow(s, n) == TypeOf(n) = "chat.learn" /\ ~s.learnUsed

RevisionItem(m, n) == Evidence("student_revised_agent_work", "student", TimeOf(n), {m, n})
AttemptItem(m, n) == Evidence("fix_attempted", "student", TimeOf(n), {m, n})
FixItem(m, k, n) == Evidence("fix_verified", Runner(n, "mixed"), TimeOf(n), {m, k, n})
FailItem(n) == Evidence("test_failed", Runner(n, "agent"), TimeOf(n), {n})
PassItem(n) == Evidence("test_passed", Runner(n, "agent"), TimeOf(n), {n})
ApprovalItem(n) == Evidence("plan_approved", "student", TimeOf(n), {n})
LearnItem(n) == Evidence("learn_mode_used", "student", TimeOf(n), {n})
QuestionItem(n) == Evidence("question_completed", "student", TimeOf(n), {n})

When(condition, item) == IF condition THEN {item} ELSE {}

EditedOutput(s, n) ==
  {x \in s.output : \A c \in EditCategories :
       Takes(s, n, c) /\ Extends(s, n, c) => x # EditItem(history, c, Prior(s, n, c).refs)}
  \cup UNION {When(Takes(s, n, c), EditItem(history, c, GroupNow(s, n, c))) : c \in EditCategories}

NewItems(s, n) ==
  When(RevisesNow(s, n), RevisionItem(s.lastAgentEdit[FileOf(n)], n))
  \cup When(AttemptsNow(s, n), AttemptItem(s.failed, n))
  \cup When(VerifiesNow(s, n), FixItem(s.failed, s.attempted, n))
  \cup When(TypeOf(n) = "test.failed", FailItem(n))
  \cup When(TypeOf(n) = "test.passed", PassItem(n))
  \cup When(ApprovesNow(s, n), ApprovalItem(n))
  \cup When(LearnsNow(s, n), LearnItem(n))
  \cup When(TypeOf(n) = "question.completed", QuestionItem(n))

\* The state t after event n in state s, field by field.
OutputTaken(s, t, n) == t.output = EditedOutput(s, n) \cup NewItems(s, n)
LastsTaken(s, t, n) ==
  /\ t.lastAutocomplete = [f \in Files |->
       IF TypeOf(n) = "autocomplete.accepted" /\ f = FileOf(n) THEN n ELSE s.lastAutocomplete[f]]
  /\ t.lastAgentEdit = [f \in Files |->
       IF TypeOf(n) = "agent.files_changed" /\ f = FileOf(n) THEN n ELSE s.lastAgentEdit[f]]
RevisedTaken(s, t, n) ==
  t.revised = IF RevisesNow(s, n) THEN s.revised \cup {s.lastAgentEdit[FileOf(n)]} ELSE s.revised
GroupsTaken(s, t, n) ==
  \A c \in EditCategories, f \in Files :
    t.grouped[c][f] = IF Takes(s, n, c) /\ f = FileOf(n) THEN [last |-> n, refs |-> GroupNow(s, n, c)] ELSE s.grouped[c][f]
TestsTaken(s, t, n) ==
  /\ t.failed = IF TypeOf(n) = "test.failed" THEN n ELSE IF TypeOf(n) = "test.passed" THEN NoEvent ELSE s.failed
  /\ t.attempted = IF TypeOf(n) \in {"test.failed", "test.passed"} THEN NoEvent
                   ELSE IF AttemptsNow(s, n) THEN n ELSE s.attempted
PlansTaken(s, t, n) ==
  /\ t.planSeen = (s.planSeen \/ TypeOf(n) \in {"plan.open", "plan.approved"})
  /\ t.planApproved = IF TypeOf(n) \in {"plan.open", "plan.approved"} THEN TypeOf(n) = "plan.approved" ELSE s.planApproved
  /\ t.learnUsed = (s.learnUsed \/ TypeOf(n) = "chat.learn")
Taken(s, t, n) ==
  /\ IsSeen(t) /\ OutputTaken(s, t, n) /\ LastsTaken(s, t, n) /\ RevisedTaken(s, t, n)
  /\ GroupsTaken(s, t, n) /\ TestsTaken(s, t, n) /\ PlansTaken(s, t, n)

LEMMA EditedOutputIs ==
  ASSUME NEW s, NEW n
  PROVE  /\ (\A c \in EditCategories : ~Takes(s, n, c)) => EditedOutput(s, n) = s.output
         /\ \A c \in EditCategories : Takes(s, n, c) =>
              EditedOutput(s, n) =
                (IF Extends(s, n, c) THEN s.output \ {EditItem(history, c, Prior(s, n, c).refs)} ELSE s.output)
                \cup {EditItem(history, c, GroupNow(s, n, c))}
<1> DEFINE old(c) == EditItem(history, c, Prior(s, n, c).refs)
           new(c) == EditItem(history, c, GroupNow(s, n, c))
           kept == {x \in s.output : \A c \in EditCategories : Takes(s, n, c) /\ Extends(s, n, c) => x # old(c)}
           added == UNION {When(Takes(s, n, c), new(c)) : c \in EditCategories}
<1>1. EditedOutput(s, n) = kept \cup added
  BY DEF EditedOutput
<1>2. \A c, d \in EditCategories : Takes(s, n, c) /\ Takes(s, n, d) => c = d
  BY DEF Takes, EditCategories
<1> HIDE DEF old, new
<1>3. ASSUME \A c \in EditCategories : ~Takes(s, n, c) PROVE kept = s.output /\ added = {}
  BY <1>3 DEF When
<1>4. ASSUME NEW c \in EditCategories, Takes(s, n, c)
      PROVE  /\ kept = IF Extends(s, n, c) THEN s.output \ {old(c)} ELSE s.output
             /\ added = {new(c)}
  <2>1. \A d \in EditCategories : Takes(s, n, d) <=> d = c
    BY <1>2, <1>4
  <2>2. kept = IF Extends(s, n, c) THEN s.output \ {old(c)} ELSE s.output
    BY <2>1
  <2>3. added = {new(c)}
    BY <2>1 DEF When
  <2> QED BY <2>2, <2>3
<1> HIDE DEF kept, added
<1> QED BY <1>1, <1>3, <1>4 DEF old, new

(* A further edit of a file changes the output and the group of that file. *)
LEMMA GroupEditIs ==
  ASSUME EvidenceTypeOK, NEW s, IsSeen(s), NEW n \in Places, NEW c \in EditCategories, Takes(s, n, c),
         NEW t, t = GroupEdit(s, c, n, history)
  PROVE  /\ IsSeen(t)
         /\ t.output = EditedOutput(s, n)
         /\ t.lastAgentEdit = s.lastAgentEdit /\ t.lastAutocomplete = s.lastAutocomplete
         /\ t.failed = s.failed /\ t.attempted = s.attempted
         /\ t.planSeen = s.planSeen /\ t.planApproved = s.planApproved /\ t.learnUsed = s.learnUsed
         /\ t.revised = s.revised
         /\ GroupsTaken(s, t, n)
<1> DEFINE F == FileOf(n)
           O == (IF Extends(s, n, c) THEN s.output \ {EditItem(history, c, Prior(s, n, c).refs)} ELSE s.output)
                \cup {EditItem(history, c, GroupNow(s, n, c))}
           g == [last |-> n, refs |-> GroupNow(s, n, c)]
<1>1. F \in Files /\ n \in Nat
  BY Ordered DEF HistoryEvent, FileOf
<1>2. t = [s EXCEPT !.output = O, !.grouped[c][F] = g]
  <2>1. Extends(s, n, c) <=> s.grouped[c][F].refs # {} /\ history[n].at - history[s.grouped[c][F].last].at <= EDIT_GROUP
    BY DEF Extends, Prior, Near, TimeOf
  <2> QED BY <2>1 DEF GroupEdit, GroupNow, Prior, FileOf
<1>3. g \in [last: Nat, refs: SUBSET Nat]
  <2>1. Prior(s, n, c) \in [last: Nat, refs: SUBSET Nat]
    BY <1>1 DEF Prior, IsSeen
  <2> QED BY <2>1, <1>1 DEF GroupNow
<1> HIDE DEF O, g, F
<1>4. /\ t.output = O
      /\ t.lastAgentEdit = s.lastAgentEdit /\ t.lastAutocomplete = s.lastAutocomplete
      /\ t.failed = s.failed /\ t.attempted = s.attempted
      /\ t.planSeen = s.planSeen /\ t.planApproved = s.planApproved /\ t.learnUsed = s.learnUsed
      /\ t.revised = s.revised
      /\ t.grouped = [s.grouped EXCEPT ![c][F] = g]
      /\ t = [output |-> t.output, lastAgentEdit |-> t.lastAgentEdit, lastAutocomplete |-> t.lastAutocomplete,
              failed |-> t.failed, attempted |-> t.attempted, planSeen |-> t.planSeen, planApproved |-> t.planApproved,
              learnUsed |-> t.learnUsed, revised |-> t.revised, grouped |-> t.grouped]
  BY <1>2 DEF IsSeen
<1>5. t.grouped \in [EditCategories -> [Files -> [last: Nat, refs: SUBSET Nat]]]
  BY <1>1, <1>3, <1>4 DEF IsSeen
<1>6. \A d \in EditCategories, f \in Files : t.grouped[d][f] = IF d = c /\ f = F THEN g ELSE s.grouped[d][f]
  BY <1>1, <1>4 DEF IsSeen
<1>7. IsSeen(t)
  BY <1>4, <1>5 DEF IsSeen
<1>8. t.output = EditedOutput(s, n)
  BY <1>4, EditedOutputIs DEF O
<1>9. \A d \in EditCategories : Takes(s, n, d) <=> d = c
  BY DEF Takes, EditCategories
<1>10. GroupsTaken(s, t, n)
  BY <1>6, <1>9 DEF GroupsTaken, g, F
<1> QED BY <1>4, <1>7, <1>8, <1>10

LEMMA ProjectTaken ==
  ASSUME EvidenceTypeOK, NEW s, IsSeen(s), NEW n \in Places, NEW t, t = Project(s, n, history)
  PROVE  Taken(s, t, n)
<1> DEFINE F == FileOf(n)
           T == TypeOf(n)
<1>1. F \in Files /\ n \in Nat /\ T \in EventKinds
  BY Ordered DEF HistoryEvent, FileOf, TypeOf
<1>2. T \notin EditKinds => \A c \in EditCategories : ~Takes(s, n, c)
  BY DEF Takes, EditCategories, EditKinds
<1>3. /\ s.lastAutocomplete = [f \in Files |-> s.lastAutocomplete[f]] /\ s.lastAgentEdit = [f \in Files |-> s.lastAgentEdit[f]]
      /\ s.lastAutocomplete[F] \in Nat /\ s.lastAgentEdit[F] \in Nat
  BY <1>1 DEF IsSeen
<1>4. ASSUME \A c \in EditCategories : ~Takes(s, n, c), T \notin {"autocomplete.accepted", "agent.files_changed"}, IsSeen(t),
             t.output = s.output \cup NewItems(s, n),
             t.lastAutocomplete = s.lastAutocomplete, t.lastAgentEdit = s.lastAgentEdit, t.revised = s.revised,
             t.grouped = s.grouped, TestsTaken(s, t, n), PlansTaken(s, t, n)
      PROVE  Taken(s, t, n)
  <2>1. OutputTaken(s, t, n)
    BY <1>4, EditedOutputIs DEF OutputTaken
  <2>2. LastsTaken(s, t, n)
    BY <1>3, <1>4 DEF LastsTaken
  <2>3. RevisedTaken(s, t, n)
    BY <1>4 DEF RevisedTaken, RevisesNow, EditCategories
  <2>4. GroupsTaken(s, t, n)
    BY <1>4 DEF GroupsTaken
  <2> QED BY <1>4, <2>1, <2>2, <2>3, <2>4 DEF Taken
<1>5. CASE T = "test.failed"
  <2>1. t = Output([s EXCEPT !.failed = n, !.attempted = NoEvent], FailItem(n))
    BY <1>5 DEF Project, TestFailed, FailItem, Runner, TimeOf, TypeOf
  <2>2. /\ t.output = s.output \cup {FailItem(n)} /\ t.failed = n /\ t.attempted = NoEvent /\ IsSeen(t)
        /\ t.lastAutocomplete = s.lastAutocomplete /\ t.lastAgentEdit = s.lastAgentEdit /\ t.revised = s.revised
        /\ t.grouped = s.grouped /\ t.planSeen = s.planSeen /\ t.planApproved = s.planApproved /\ t.learnUsed = s.learnUsed
    <3>1. NoEvent \in Nat
      BY DEF NoEvent
    <3> HIDE DEF T
    <3> QED BY <2>1, <3>1, <1>1 DEF Output, OutputIf, IsSeen
  <2>3. NewItems(s, n) = {FailItem(n)}
    BY <1>5 DEF NewItems, When, RevisesNow, AttemptsNow, VerifiesNow, ApprovesNow, LearnsNow, Takes
  <2>4. TestsTaken(s, t, n) /\ PlansTaken(s, t, n)
    BY <2>2, <1>5 DEF TestsTaken, PlansTaken, IsSeen
  <2> QED BY <2>2, <2>3, <2>4, <1>2, <1>4, <1>5 DEF EditKinds
<1>6. CASE T = "test.passed"
  <2>1. t = [OutputIf(Output(s, PassItem(n)), VerifiesNow(s, n), FixItem(s.failed, s.attempted, n))
               EXCEPT !.failed = NoEvent, !.attempted = NoEvent]
    BY <1>6 DEF Project, TestPassed, PassItem, FixItem, Runner, TimeOf, TypeOf, VerifiesNow
  <2>2. /\ t.output = s.output \cup {PassItem(n)} \cup When(VerifiesNow(s, n), FixItem(s.failed, s.attempted, n))
        /\ t.failed = NoEvent /\ t.attempted = NoEvent /\ IsSeen(t)
        /\ t.lastAutocomplete = s.lastAutocomplete /\ t.lastAgentEdit = s.lastAgentEdit /\ t.revised = s.revised
        /\ t.grouped = s.grouped /\ t.planSeen = s.planSeen /\ t.planApproved = s.planApproved /\ t.learnUsed = s.learnUsed
    <3>1. NoEvent \in Nat
      BY DEF NoEvent
    <3> HIDE DEF T
    <3> QED BY <2>1, <3>1, <1>1 DEF Output, OutputIf, IsSeen, When
  <2>3. NewItems(s, n) = {PassItem(n)} \cup When(VerifiesNow(s, n), FixItem(s.failed, s.attempted, n))
    BY <1>6 DEF NewItems, When, RevisesNow, AttemptsNow, ApprovesNow, LearnsNow, Takes
  <2>4. TestsTaken(s, t, n) /\ PlansTaken(s, t, n)
    BY <2>2, <1>6 DEF TestsTaken, PlansTaken, IsSeen
  <2> QED BY <2>2, <2>3, <2>4, <1>2, <1>4, <1>6 DEF EditKinds
<1>7. CASE T \in {"plan.open", "plan.approved"}
  <2>1. t = [OutputIf(s, ApprovesNow(s, n), ApprovalItem(n)) EXCEPT !.planSeen = TRUE, !.planApproved = (T = "plan.approved")]
    BY <1>7 DEF Project, PlanProgress, ApprovalItem, TimeOf, TypeOf, ApprovesNow
  <2>2. /\ t.output = s.output \cup When(ApprovesNow(s, n), ApprovalItem(n))
        /\ t.planSeen = TRUE /\ t.planApproved = (T = "plan.approved") /\ IsSeen(t)
        /\ t.lastAutocomplete = s.lastAutocomplete /\ t.lastAgentEdit = s.lastAgentEdit /\ t.revised = s.revised
        /\ t.grouped = s.grouped /\ t.failed = s.failed /\ t.attempted = s.attempted /\ t.learnUsed = s.learnUsed
    BY <2>1, <1>1 DEF OutputIf, IsSeen, When
  <2>3. NewItems(s, n) = When(ApprovesNow(s, n), ApprovalItem(n))
    BY <1>7 DEF NewItems, When, RevisesNow, AttemptsNow, VerifiesNow, LearnsNow, Takes
  <2>4. TestsTaken(s, t, n) /\ PlansTaken(s, t, n)
    BY <2>2, <1>7 DEF TestsTaken, PlansTaken, IsSeen, AttemptsNow, Takes
  <2> QED BY <2>2, <2>3, <2>4, <1>2, <1>4, <1>7 DEF EditKinds
<1>8. CASE T = "chat.learn"
  <2>1. t = [OutputIf(s, LearnsNow(s, n), LearnItem(n)) EXCEPT !.learnUsed = TRUE]
    BY <1>8 DEF Project, LearnPrompted, LearnItem, TimeOf, TypeOf, LearnsNow
  <2>2. /\ t.output = s.output \cup When(LearnsNow(s, n), LearnItem(n))
        /\ t.learnUsed = TRUE /\ IsSeen(t)
        /\ t.lastAutocomplete = s.lastAutocomplete /\ t.lastAgentEdit = s.lastAgentEdit /\ t.revised = s.revised
        /\ t.grouped = s.grouped /\ t.failed = s.failed /\ t.attempted = s.attempted
        /\ t.planSeen = s.planSeen /\ t.planApproved = s.planApproved
    BY <2>1, <1>1 DEF OutputIf, IsSeen, When
  <2>3. NewItems(s, n) = When(LearnsNow(s, n), LearnItem(n))
    BY <1>8 DEF NewItems, When, RevisesNow, AttemptsNow, VerifiesNow, ApprovesNow, Takes
  <2>4. TestsTaken(s, t, n) /\ PlansTaken(s, t, n)
    BY <2>2, <1>8 DEF TestsTaken, PlansTaken, IsSeen, AttemptsNow, Takes
  <2> QED BY <2>2, <2>3, <2>4, <1>2, <1>4, <1>8 DEF EditKinds
<1>9. CASE T = "question.completed"
  <2>1. t = Output(s, QuestionItem(n))
    BY <1>9 DEF Project, QuestionItem, TimeOf, TypeOf
  <2>2. /\ t.output = s.output \cup {QuestionItem(n)} /\ IsSeen(t)
        /\ t.lastAutocomplete = s.lastAutocomplete /\ t.lastAgentEdit = s.lastAgentEdit /\ t.revised = s.revised
        /\ t.grouped = s.grouped /\ t.failed = s.failed /\ t.attempted = s.attempted
        /\ t.planSeen = s.planSeen /\ t.planApproved = s.planApproved /\ t.learnUsed = s.learnUsed
    BY <2>1 DEF Output, OutputIf, IsSeen
  <2>3. NewItems(s, n) = {QuestionItem(n)}
    BY <1>9 DEF NewItems, When, RevisesNow, AttemptsNow, VerifiesNow, ApprovesNow, LearnsNow, Takes
  <2>4. TestsTaken(s, t, n) /\ PlansTaken(s, t, n)
    BY <2>2, <1>9 DEF TestsTaken, PlansTaken, IsSeen, AttemptsNow, Takes
  <2> QED BY <2>2, <2>3, <2>4, <1>2, <1>4, <1>9 DEF EditKinds
<1>10. CASE T = "file.changed" /\ Skips(s, n)
  <2>1. t = s
    BY <1>10 DEF Project, StudentEdit, TypeOf, FileOf, TimeOf, Skips
  <2>2. \A c \in EditCategories : ~Takes(s, n, c)
    BY <1>10 DEF Takes, EditCategories
  <2>3. NewItems(s, n) = {}
    BY <1>10 DEF NewItems, When, RevisesNow, AttemptsNow, VerifiesNow, ApprovesNow, LearnsNow, Takes
  <2>4. TestsTaken(s, t, n) /\ PlansTaken(s, t, n)
    BY <2>1, <1>10 DEF TestsTaken, PlansTaken, IsSeen, AttemptsNow, Takes
  <2> QED BY <2>1, <2>2, <2>3, <2>4, <1>4, <1>10
<1>11. CASE T = "file.changed" /\ ~Skips(s, n)
  <2> DEFINE c == "student_edit"
             u == GroupEdit(s, c, n, history)
             agent == s.lastAgentEdit[F]
  <2>1. c \in EditCategories /\ Takes(s, n, c)
    BY <1>11 DEF Takes, EditCategories
  <2>2. /\ IsSeen(u)
        /\ u.output = EditedOutput(s, n)
        /\ u.lastAgentEdit = s.lastAgentEdit /\ u.lastAutocomplete = s.lastAutocomplete
        /\ u.failed = s.failed /\ u.attempted = s.attempted
        /\ u.planSeen = s.planSeen /\ u.planApproved = s.planApproved /\ u.learnUsed = s.learnUsed
        /\ u.revised = s.revised
        /\ GroupsTaken(s, u, n)
    BY <2>1, GroupEditIs
  <2>3. /\ RevisesNow(s, n) <=> agent # NoEvent /\ TimeOf(n) - TimeOf(agent) <= RELATED /\ agent \notin s.revised
        /\ AttemptsNow(s, n) <=> s.failed # NoEvent /\ TimeOf(n) - TimeOf(s.failed) <= RELATED /\ s.attempted = NoEvent
    BY <2>1 DEF RevisesNow, AttemptsNow
  <2> DEFINE a == [u EXCEPT !.revised = IF RevisesNow(s, n) THEN @ \cup {agent} ELSE @]
             b == IF RevisesNow(s, n) THEN [a EXCEPT !.output = @ \cup {RevisionItem(agent, n)}] ELSE a
             d == [b EXCEPT !.attempted = IF AttemptsNow(s, n) THEN n ELSE @]
  <2>4. /\ t.output = u.output \cup When(RevisesNow(s, n), RevisionItem(agent, n)) \cup When(AttemptsNow(s, n), AttemptItem(s.failed, n))
        /\ t.revised = (IF RevisesNow(s, n) THEN u.revised \cup {agent} ELSE u.revised)
        /\ t.attempted = (IF AttemptsNow(s, n) THEN n ELSE u.attempted)
        /\ t.lastAutocomplete = u.lastAutocomplete /\ t.lastAgentEdit = u.lastAgentEdit
        /\ t.grouped = u.grouped /\ t.failed = u.failed
        /\ t.planSeen = u.planSeen /\ t.planApproved = u.planApproved /\ t.learnUsed = u.learnUsed
        /\ t = [output |-> t.output, lastAgentEdit |-> t.lastAgentEdit, lastAutocomplete |-> t.lastAutocomplete,
                failed |-> t.failed, attempted |-> t.attempted, planSeen |-> t.planSeen, planApproved |-> t.planApproved,
                learnUsed |-> t.learnUsed, revised |-> t.revised, grouped |-> t.grouped]
    <3>1. Project(s, n, history) = StudentEdit(s, n, history)
      BY <1>11 DEF Project, TypeOf
    <3>2. t = IF AttemptsNow(s, n) THEN [d EXCEPT !.output = @ \cup {AttemptItem(s.failed, n)}] ELSE d
      BY <3>1, <2>3, <1>11 DEF StudentEdit, OutputIf, Skips, FileOf, TimeOf, RevisionItem, AttemptItem
    <3>3. u = [output |-> u.output, lastAgentEdit |-> u.lastAgentEdit, lastAutocomplete |-> u.lastAutocomplete,
               failed |-> u.failed, attempted |-> u.attempted, planSeen |-> u.planSeen, planApproved |-> u.planApproved,
               learnUsed |-> u.learnUsed, revised |-> u.revised, grouped |-> u.grouped]
      BY <2>2 DEF IsSeen
    <3> DEFINE R == IF RevisesNow(s, n) THEN u.revised \cup {agent} ELSE u.revised
               P == IF AttemptsNow(s, n) THEN n ELSE u.attempted
    <3> HIDE DEF u, agent
    <3>4. a = [output |-> u.output, lastAgentEdit |-> u.lastAgentEdit, lastAutocomplete |-> u.lastAutocomplete,
               failed |-> u.failed, attempted |-> u.attempted, planSeen |-> u.planSeen, planApproved |-> u.planApproved,
               learnUsed |-> u.learnUsed, revised |-> R, grouped |-> u.grouped]
      BY <3>3
    <3> HIDE DEF a, R
    <3>5. b = [output |-> u.output \cup When(RevisesNow(s, n), RevisionItem(agent, n)),
               lastAgentEdit |-> u.lastAgentEdit, lastAutocomplete |-> u.lastAutocomplete,
               failed |-> u.failed, attempted |-> u.attempted, planSeen |-> u.planSeen, planApproved |-> u.planApproved,
               learnUsed |-> u.learnUsed, revised |-> R, grouped |-> u.grouped]
      BY <3>4 DEF When
    <3> HIDE DEF b
    <3>6. d = [output |-> u.output \cup When(RevisesNow(s, n), RevisionItem(agent, n)),
               lastAgentEdit |-> u.lastAgentEdit, lastAutocomplete |-> u.lastAutocomplete,
               failed |-> u.failed, attempted |-> P, planSeen |-> u.planSeen, planApproved |-> u.planApproved,
               learnUsed |-> u.learnUsed, revised |-> R, grouped |-> u.grouped]
      <4>1. b.attempted = u.attempted
        BY <3>5
      <4>2. d = [b EXCEPT !.attempted = P]
        BY <4>1
      <4> HIDE DEF d, P
      <4> QED BY <3>5, <4>2
    <3> HIDE DEF d, P
    <3>7. t = [output |-> u.output \cup When(RevisesNow(s, n), RevisionItem(agent, n)) \cup When(AttemptsNow(s, n), AttemptItem(s.failed, n)),
               lastAgentEdit |-> u.lastAgentEdit, lastAutocomplete |-> u.lastAutocomplete,
               failed |-> u.failed, attempted |-> P, planSeen |-> u.planSeen, planApproved |-> u.planApproved,
               learnUsed |-> u.learnUsed, revised |-> R, grouped |-> u.grouped]
      BY <3>2, <3>6 DEF When
    <3> QED BY <3>7 DEF P, R
  <2> HIDE DEF u, agent
  <2>5. IsSeen(t)
    <3>1. agent \in Nat
      BY <1>3 DEF agent
    <3> QED BY <2>2, <2>4, <3>1, <1>1 DEF IsSeen
  <2>6. NewItems(s, n) = When(RevisesNow(s, n), RevisionItem(agent, n)) \cup When(AttemptsNow(s, n), AttemptItem(s.failed, n))
    BY <1>11 DEF NewItems, When, VerifiesNow, ApprovesNow, LearnsNow, agent
  <2>7. OutputTaken(s, t, n)
    BY <2>2, <2>4, <2>6 DEF OutputTaken
  <2>8. LastsTaken(s, t, n)
    BY <2>2, <2>4, <1>3, <1>11 DEF LastsTaken
  <2>9. RevisedTaken(s, t, n)
    BY <2>2, <2>4 DEF RevisedTaken, agent
  <2>10. GroupsTaken(s, t, n)
    BY <2>2, <2>4 DEF GroupsTaken
  <2>11. TestsTaken(s, t, n) /\ PlansTaken(s, t, n)
    BY <2>2, <2>4, <1>11 DEF TestsTaken, PlansTaken, IsSeen
  <2> QED BY <2>5, <2>7, <2>8, <2>9, <2>10, <2>11 DEF Taken
<1>12. CASE T = "autocomplete.accepted"
  <2> DEFINE c == "autocomplete_edit"
             u == GroupEdit(s, c, n, history)
  <2>1. c \in EditCategories /\ Takes(s, n, c)
    BY <1>12 DEF Takes, EditCategories
  <2>2. /\ IsSeen(u)
        /\ u.output = EditedOutput(s, n)
        /\ u.lastAgentEdit = s.lastAgentEdit /\ u.lastAutocomplete = s.lastAutocomplete
        /\ u.failed = s.failed /\ u.attempted = s.attempted
        /\ u.planSeen = s.planSeen /\ u.planApproved = s.planApproved /\ u.learnUsed = s.learnUsed
        /\ u.revised = s.revised
        /\ GroupsTaken(s, u, n)
    BY <2>1, GroupEditIs
  <2>3. t = [u EXCEPT !.lastAutocomplete[F] = n]
    BY <1>12 DEF Project, AcceptCompletion, TypeOf, FileOf
  <2> HIDE DEF u
  <2>4. /\ t.lastAutocomplete = [u.lastAutocomplete EXCEPT ![F] = n]
        /\ t.output = u.output /\ t.lastAgentEdit = u.lastAgentEdit /\ t.revised = u.revised
        /\ t.grouped = u.grouped /\ t.failed = u.failed /\ t.attempted = u.attempted
        /\ t.planSeen = u.planSeen /\ t.planApproved = u.planApproved /\ t.learnUsed = u.learnUsed
        /\ t = [output |-> t.output, lastAgentEdit |-> t.lastAgentEdit, lastAutocomplete |-> t.lastAutocomplete,
                failed |-> t.failed, attempted |-> t.attempted, planSeen |-> t.planSeen, planApproved |-> t.planApproved,
                learnUsed |-> t.learnUsed, revised |-> t.revised, grouped |-> t.grouped]
    BY <2>2, <2>3 DEF IsSeen
  <2>5. LastsTaken(s, t, n) /\ t.lastAutocomplete \in [Files -> Nat]
    BY <2>2, <2>4, <1>1, <1>3, <1>12 DEF LastsTaken, IsSeen
  <2>6. IsSeen(t)
    BY <2>2, <2>4, <2>5 DEF IsSeen
  <2>7. NewItems(s, n) = {}
    BY <1>12 DEF NewItems, When, RevisesNow, AttemptsNow, VerifiesNow, ApprovesNow, LearnsNow, Takes
  <2>8. OutputTaken(s, t, n) /\ RevisedTaken(s, t, n)
    BY <2>2, <2>4, <2>7, <1>12 DEF OutputTaken, RevisedTaken, RevisesNow, Takes
  <2>9. GroupsTaken(s, t, n)
    BY <2>2, <2>4 DEF GroupsTaken
  <2>10. TestsTaken(s, t, n) /\ PlansTaken(s, t, n)
    BY <2>2, <2>4, <1>12 DEF TestsTaken, PlansTaken, IsSeen, AttemptsNow, Takes
  <2> QED BY <2>5, <2>6, <2>8, <2>9, <2>10 DEF Taken
<1>13. CASE T = "agent.files_changed"
  <2> DEFINE c == "agent_edit"
             u == GroupEdit(s, c, n, history)
  <2>1. c \in EditCategories /\ Takes(s, n, c)
    BY <1>13 DEF Takes, EditCategories
  <2>2. /\ IsSeen(u)
        /\ u.output = EditedOutput(s, n)
        /\ u.lastAgentEdit = s.lastAgentEdit /\ u.lastAutocomplete = s.lastAutocomplete
        /\ u.failed = s.failed /\ u.attempted = s.attempted
        /\ u.planSeen = s.planSeen /\ u.planApproved = s.planApproved /\ u.learnUsed = s.learnUsed
        /\ u.revised = s.revised
        /\ GroupsTaken(s, u, n)
    BY <2>1, GroupEditIs
  <2>3. t = [u EXCEPT !.lastAgentEdit[F] = n]
    BY <1>13 DEF Project, AgentEdit, TypeOf, FileOf
  <2> HIDE DEF u
  <2>4. /\ t.lastAgentEdit = [u.lastAgentEdit EXCEPT ![F] = n]
        /\ t.output = u.output /\ t.lastAutocomplete = u.lastAutocomplete /\ t.revised = u.revised
        /\ t.grouped = u.grouped /\ t.failed = u.failed /\ t.attempted = u.attempted
        /\ t.planSeen = u.planSeen /\ t.planApproved = u.planApproved /\ t.learnUsed = u.learnUsed
        /\ t = [output |-> t.output, lastAgentEdit |-> t.lastAgentEdit, lastAutocomplete |-> t.lastAutocomplete,
                failed |-> t.failed, attempted |-> t.attempted, planSeen |-> t.planSeen, planApproved |-> t.planApproved,
                learnUsed |-> t.learnUsed, revised |-> t.revised, grouped |-> t.grouped]
    BY <2>2, <2>3 DEF IsSeen
  <2>5. LastsTaken(s, t, n) /\ t.lastAgentEdit \in [Files -> Nat]
    BY <2>2, <2>4, <1>1, <1>3, <1>13 DEF LastsTaken, IsSeen
  <2>6. IsSeen(t)
    BY <2>2, <2>4, <2>5 DEF IsSeen
  <2>7. NewItems(s, n) = {}
    BY <1>13 DEF NewItems, When, RevisesNow, AttemptsNow, VerifiesNow, ApprovesNow, LearnsNow, Takes
  <2>8. OutputTaken(s, t, n) /\ RevisedTaken(s, t, n)
    BY <2>2, <2>4, <2>7, <1>13 DEF OutputTaken, RevisedTaken, RevisesNow, Takes
  <2>9. GroupsTaken(s, t, n)
    BY <2>2, <2>4 DEF GroupsTaken
  <2>10. TestsTaken(s, t, n) /\ PlansTaken(s, t, n)
    BY <2>2, <2>4, <1>13 DEF TestsTaken, PlansTaken, IsSeen, AttemptsNow, Takes
  <2> QED BY <2>5, <2>6, <2>8, <2>9, <2>10 DEF Taken
<1> QED BY <1>1, <1>5, <1>6, <1>7, <1>8, <1>9, <1>10, <1>11, <1>12, <1>13 DEF EventKinds, EditKinds

-----------------------------------------------------------------------------
(* The state of the loop is what the events taken so far mean. *)

LastPlace(m, S) == IF S = {} THEN m = NoEvent ELSE IsLast(m, S)

SoundLasts(D, s) ==
  \A f \in Files : /\ LastPlace(s.lastAutocomplete[f], EditsOf(D, "autocomplete.accepted", f))
                   /\ LastPlace(s.lastAgentEdit[f], EditsOf(D, "agent.files_changed", f))

\* The agent's last edit of a file has been revised when an edit typed later followed it.
SoundRevised(D, s) ==
  /\ s.revised \subseteq D
  /\ \A f \in Files : \A m : IsLast(m, EditsOf(D, "agent.files_changed", f)) =>
       (m \in s.revised <=> \E k \in Typed(D, f) : Follows(k, m))

SoundGroups(D, s) ==
  \A c \in EditCategories, f \in Files :
    /\ LastPlace(s.grouped[c][f].last, Edits(D, c, f))
    /\ s.grouped[c][f].refs = IF Edits(D, c, f) = {} THEN {} ELSE GroupOf(Edits(D, c, f), s.grouped[c][f].last)

\* The failure remembered is the last test, and the attempt the first edit that follows it.
SoundTests(D, s) ==
  /\ s.failed # NoEvent => s.failed \in Of(D, "test.failed") /\ IsLast(s.failed, Tests(D))
  /\ s.failed = NoEvent => \A m \in Of(D, "test.failed") : ~IsLast(m, Tests(D))
  /\ s.attempted # NoEvent => s.failed # NoEvent /\ <<s.failed, s.attempted>> \in Attempts(D)
  /\ s.failed # NoEvent /\ s.attempted = NoEvent => \A k \in AllTyped(D) : ~Follows(k, s.failed)

SoundPlans(D, s) ==
  /\ IF s.planSeen THEN \E m \in Plans(D) : IsLast(m, Plans(D)) /\ (s.planApproved <=> TypeOf(m) = "plan.approved")
     ELSE Plans(D) = {}
  /\ s.learnUsed <=> Of(D, "chat.learn") # {}

\* The items of all categories but those of the edits.
OtherItems(D) ==
  {RevisionItem(p[1], p[2]) : p \in Revisions(D)}
  \cup {AttemptItem(p[1], p[2]) : p \in Attempts(D)}
  \cup {FixItem(p[1], p[2], p[3]) : p \in Fixes(D)}
  \cup {FailItem(n) : n \in Of(D, "test.failed")}
  \cup {PassItem(n) : n \in Of(D, "test.passed")}
  \cup {ApprovalItem(n) : n \in Approvals(D)}
  \cup {LearnItem(n) : n \in FirstLearn(D)}
  \cup {QuestionItem(n) : n \in Of(D, "question.completed")}

LEMMA MeaningIs == ASSUME NEW D PROVE Meaning(D) = EditItems(D) \cup OtherItems(D)
BY DEF Meaning, OtherItems, RevisionItem, AttemptItem, FixItem, FailItem, PassItem, ApprovalItem, LearnItem, QuestionItem

Sound(D, s) ==
  /\ D \subseteq Places /\ IsSeen(s) /\ s.output = Meaning(D) /\ IsFiniteSet(s.output)
  /\ SoundLasts(D, s) /\ SoundRevised(D, s) /\ SoundGroups(D, s) /\ SoundTests(D, s) /\ SoundPlans(D, s)

LEMMA LastGrows ==
  ASSUME NEW D, NEW n, Grows(D, n), NEW S \in SUBSET D
  PROVE  IsLast(n, S \cup {n}) /\ \A m : IsLast(m, S \cup {n}) => m = n \/ (m \in S /\ Precedes(n, m))
BY DEF Grows, IsLast

LEMMA OnlyLast ==
  ASSUME EvidenceTypeOK, NEW S \in SUBSET Places, NEW m, NEW k, IsLast(m, S), IsLast(k, S)
  PROVE  m = k
<1>1. m # k => Precedes(m, k) /\ Precedes(k, m)
  BY DEF IsLast
<1> QED BY <1>1, Ordered DEF IsLast

(* The loop skips the edits that a completion explains. *)
LEMMA TakesEdits ==
  ASSUME EvidenceTypeOK, NEW D, NEW n, Grows(D, n), NEW s, Sound(D, s), NEW c \in EditCategories
  PROVE  Takes(s, n, c) <=> IsEdit(D, n, c)
<1> DEFINE F == FileOf(n)
           S == EditsOf(D, "autocomplete.accepted", F)
           l == s.lastAutocomplete[F]
<1>1. F \in Files /\ S \subseteq Places /\ n \in Places
  BY Ordered, Within DEF FileOf, HistoryEvent, Grows
<1>2. LastPlace(l, S)
  BY <1>1 DEF Sound, SoundLasts
<1>3. Skips(s, n) <=> ~Unexplained(D, n)
  <2>1. Unexplained(D, n) <=> \A k \in S : TimeOf(n) - TimeOf(k) > Debounce
    BY DEF Unexplained, FileOf
  <2>2. Skips(s, n) <=> l # NoEvent /\ TimeOf(n) - TimeOf(l) <= Debounce
    BY DEF Skips
  <2> HIDE DEF S, l
  <2>3. CASE S = {}
    BY <2>1, <2>2, <2>3, <1>2 DEF LastPlace
  <2>4. CASE S # {}
    <3>1. l \in S /\ \A k \in S \ {l} : Precedes(k, l)
      BY <2>4, <1>2 DEF LastPlace, IsLast
    <3>2. l # NoEvent /\ \A k \in S : TimeOf(k) <= TimeOf(l)
      BY <3>1, <1>1, Ordered DEF NoEvent
    <3>3. \A k \in S : TimeOf(k) \in Nat
      BY <1>1, Ordered
    <3>4. TimeOf(n) \in Nat /\ Debounce \in Nat
      BY <1>1, Ordered, EvidenceAssumption
    <3> QED BY <2>1, <2>2, <3>1, <3>2, <3>3, <3>4
  <2> QED BY <2>3, <2>4
<1> QED BY <1>3 DEF Takes, IsEdit, TypeOf, EditCategories

LEMMA LastsStaySound ==
  ASSUME EvidenceTypeOK, NEW D, NEW n, Grows(D, n), NEW E, E = D \cup {n}, NEW s, Sound(D, s), NEW t, LastsTaken(s, t, n)
  PROVE  SoundLasts(E, t)
<1> SUFFICES ASSUME NEW f \in Files
             PROVE  /\ LastPlace(t.lastAutocomplete[f], EditsOf(E, "autocomplete.accepted", f))
                    /\ LastPlace(t.lastAgentEdit[f], EditsOf(E, "agent.files_changed", f))
  BY DEF SoundLasts
<1> DEFINE A(X) == EditsOf(X, "autocomplete.accepted", f)
           B(X) == EditsOf(X, "agent.files_changed", f)
<1>1. LastPlace(s.lastAutocomplete[f], A(D)) /\ LastPlace(s.lastAgentEdit[f], B(D))
  BY DEF Sound, SoundLasts
<1>2. /\ t.lastAutocomplete[f] = IF TypeOf(n) = "autocomplete.accepted" /\ f = FileOf(n) THEN n ELSE s.lastAutocomplete[f]
      /\ t.lastAgentEdit[f] = IF TypeOf(n) = "agent.files_changed" /\ f = FileOf(n) THEN n ELSE s.lastAgentEdit[f]
  BY DEF LastsTaken
<1>3. /\ A(E) = IF TypeOf(n) = "autocomplete.accepted" /\ f = FileOf(n) THEN A(D) \cup {n} ELSE A(D)
      /\ B(E) = IF TypeOf(n) = "agent.files_changed" /\ f = FileOf(n) THEN B(D) \cup {n} ELSE B(D)
  BY DEF EditsOf, Of, TypeOf, FileOf
<1>4. A(D) \subseteq D /\ B(D) \subseteq D
  BY Within
<1>5. IsLast(n, A(D) \cup {n}) /\ IsLast(n, B(D) \cup {n})
  BY <1>4 DEF IsLast, Grows
<1> QED BY <1>1, <1>2, <1>3, <1>5 DEF LastPlace

LEMMA RevisedStaysSound ==
  ASSUME EvidenceTypeOK, NEW D, NEW n, Grows(D, n), NEW E, E = D \cup {n}, NEW s, Sound(D, s), NEW t, RevisedTaken(s, t, n)
  PROVE  SoundRevised(E, t)
<1> DEFINE F == FileOf(n)
           Agent(X, f) == EditsOf(X, "agent.files_changed", f)
           agent == s.lastAgentEdit[F]
<1>0. F \in Files /\ n \in Places /\ n \notin D /\ D \subseteq Places
  BY Ordered DEF FileOf, HistoryEvent, Grows
<1>1. \A f : Agent(E, f) = IF TypeOf(n) = "agent.files_changed" /\ f = F THEN Agent(D, f) \cup {n} ELSE Agent(D, f)
  BY DEF EditsOf, Of, TypeOf, FileOf
<1>2. \A f : Typed(E, f) = IF IsEdit(D, n, "student_edit") /\ f = F THEN Typed(D, f) \cup {n} ELSE Typed(D, f)
  BY TypedGrows DEF IsEdit, FileOf
<1>3. Takes(s, n, "student_edit") <=> IsEdit(D, n, "student_edit")
  BY TakesEdits DEF EditCategories
<1>4. \A f \in Files : LastPlace(s.lastAgentEdit[f], Agent(D, f))
  BY DEF Sound, SoundLasts
<1>5. /\ s.revised \subseteq D
      /\ \A f \in Files : \A m : IsLast(m, Agent(D, f)) => (m \in s.revised <=> \E k \in Typed(D, f) : Follows(k, m))
  BY DEF Sound, SoundRevised
<1>6. \A f : Agent(D, f) \subseteq D /\ Typed(D, f) \subseteq D /\ \A m \in Agent(D, f) : FileOf(m) = f
  BY Within DEF EditsOf, FileOf
<1>7. t.revised = IF RevisesNow(s, n) THEN s.revised \cup {agent} ELSE s.revised
  BY DEF RevisedTaken
<1>8. agent # NoEvent => IsLast(agent, Agent(D, F)) /\ agent \in D
  BY <1>0, <1>4, <1>6 DEF LastPlace, IsLast
<1>9. t.revised \subseteq E
  BY <1>5, <1>7, <1>8 DEF RevisesNow
<1>10. ASSUME NEW f \in Files, NEW m, IsLast(m, Agent(E, f))
       PROVE  m \in t.revised <=> \E k \in Typed(E, f) : Follows(k, m)
  <2>1. CASE TypeOf(n) = "agent.files_changed" /\ f = F
    <3>1. m = n
      <4>1. n \in Agent(E, f) /\ Agent(E, f) \subseteq D \cup {n}
        BY <2>1, <1>1, <1>6
      <4>2. m # n => Precedes(n, m) /\ m \in D
        BY <4>1, <1>10 DEF IsLast
      <4> QED BY <4>2, <1>0, Ordered DEF Grows
    <3>2. ~Takes(s, n, "student_edit")
      BY <2>1 DEF Takes
    <3>3. t.revised = s.revised /\ Typed(E, f) = Typed(D, f)
      BY <3>2, <1>2, <1>3, <1>7 DEF RevisesNow
    <3>4. \A k \in Typed(D, f) : ~Precedes(n, k)
      BY <1>0, <1>6, Ordered DEF Grows
    <3> QED BY <3>1, <3>3, <3>4, <1>0, <1>5 DEF Follows
  <2>2. CASE ~(TypeOf(n) = "agent.files_changed" /\ f = F)
    <3>1. IsLast(m, Agent(D, f)) /\ m \in D /\ FileOf(m) = f
      BY <2>2, <1>1, <1>6, <1>10 DEF IsLast
    <3>2. m \in s.revised <=> \E k \in Typed(D, f) : Follows(k, m)
      BY <3>1, <1>5
    <3>3. CASE ~(IsEdit(D, n, "student_edit") /\ f = F)
      <4>1. Typed(E, f) = Typed(D, f)
        BY <3>3, <1>2
      <4>2. m \in t.revised <=> m \in s.revised
        <5>1. RevisesNow(s, n) => f # F /\ agent \in Agent(D, F)
          BY <3>3, <1>3, <1>8 DEF RevisesNow, IsLast
        <5> QED BY <5>1, <3>1, <1>6, <1>7
      <4> QED BY <4>1, <4>2, <3>2
    <3>4. CASE IsEdit(D, n, "student_edit") /\ f = F
      <4>1. m = agent /\ agent # NoEvent
        <5>1. agent = NoEvent => Agent(D, F) = {}
          <6>1. IsLast(agent, Agent(D, F)) => agent \in Places
            BY <1>0, <1>6 DEF IsLast
          <6>2. NoEvent \notin Places
            BY Ordered DEF NoEvent
          <6> QED BY <6>1, <6>2, <1>0, <1>4 DEF LastPlace
        <5>2. agent # NoEvent
          BY <5>1, <3>1, <3>4 DEF IsLast
        <5>3. Agent(D, F) \in SUBSET Places
          BY <1>0, <1>6
        <5> QED BY <5>2, <5>3, <3>1, <3>4, <1>8, OnlyLast
      <4>2. RevisesNow(s, n) <=> TimeOf(n) - TimeOf(m) <= RELATED /\ m \notin s.revised
        BY <4>1, <3>4, <1>3 DEF RevisesNow
      <4>3. Follows(n, m) <=> TimeOf(n) - TimeOf(m) <= RELATED
        BY <3>1 DEF Follows, Grows
      <4>4. m \in t.revised <=> m \in s.revised \/ Follows(n, m)
        BY <4>1, <4>2, <4>3, <1>7
      <4>5. Typed(E, f) = Typed(D, f) \cup {n}
        BY <3>4, <1>2
      <4> QED BY <4>4, <4>5, <3>2
    <3> QED BY <3>3, <3>4
  <2> QED BY <2>1, <2>2
<1> QED BY <1>9, <1>10 DEF SoundRevised

(* The group the loop keeps for a file is the last group of its edits. *)
LEMMA PriorIs ==
  ASSUME EvidenceTypeOK, NEW D, NEW n, Grows(D, n), NEW s, Sound(D, s), NEW c \in EditCategories,
         NEW S, S = Edits(D, c, FileOf(n)), NEW l, l = Prior(s, n, c).last
  PROVE  /\ LastIfAny(l, S)
         /\ Extends(s, n, c) <=> Joins(n, l, S)
         /\ Joins(n, l, S) => Prior(s, n, c).refs = GroupOf(S, l)
<1>1. FileOf(n) \in Files /\ S \subseteq Places
  BY Ordered, EditsWithin DEF FileOf, HistoryEvent, Grows
<1>2. LastPlace(l, S) /\ Prior(s, n, c).refs = IF S = {} THEN {} ELSE GroupOf(S, l)
  BY <1>1 DEF Sound, SoundGroups, Prior
<1>3. S # {} => l \in S /\ l \in GroupOf(S, l)
  BY <1>1, <1>2, InOwnGroup DEF LastPlace, IsLast
<1> QED BY <1>2, <1>3 DEF LastPlace, LastIfAny, Extends, Joins

LEMMA GroupsStaySound ==
  ASSUME EvidenceTypeOK, NEW D, NEW n, Grows(D, n), NEW E, E = D \cup {n}, NEW s, Sound(D, s), NEW t, GroupsTaken(s, t, n)
  PROVE  SoundGroups(E, t)
<1> SUFFICES ASSUME NEW c \in EditCategories, NEW f \in Files
             PROVE  /\ LastPlace(t.grouped[c][f].last, Edits(E, c, f))
                    /\ t.grouped[c][f].refs = IF Edits(E, c, f) = {} THEN {} ELSE GroupOf(Edits(E, c, f), t.grouped[c][f].last)
  BY DEF SoundGroups
<1>1. Edits(E, c, f) = IF Takes(s, n, c) /\ f = FileOf(n) THEN Edits(D, c, f) \cup {n} ELSE Edits(D, c, f)
  <2>1. Takes(s, n, c) <=> IsEdit(D, n, c)
    BY TakesEdits
  <2>2. Edits(E, c, f) = IF IsEdit(D, n, c) /\ history[n].file = f THEN Edits(D, c, f) \cup {n} ELSE Edits(D, c, f)
    BY EditsGrow, SMTT(60)
  <2> QED BY <2>1, <2>2 DEF FileOf
<1>2. t.grouped[c][f] = IF Takes(s, n, c) /\ f = FileOf(n) THEN [last |-> n, refs |-> GroupNow(s, n, c)] ELSE s.grouped[c][f]
  BY DEF GroupsTaken
<1>3. CASE ~(Takes(s, n, c) /\ f = FileOf(n))
  BY <1>1, <1>2, <1>3 DEF Sound, SoundGroups
<1>4. CASE Takes(s, n, c) /\ f = FileOf(n)
  <2> DEFINE S == Edits(D, c, f)
             T == Edits(E, c, f)
             l == Prior(s, n, c).last
  <2>1. S \subseteq D /\ S \in SUBSET Places /\ Grows(S, n) /\ T = S \cup {n}
    BY <1>1, <1>4, EditsWithin DEF Grows
  <2>2. /\ LastIfAny(l, S)
        /\ Extends(s, n, c) <=> Joins(n, l, S)
        /\ Joins(n, l, S) => Prior(s, n, c).refs = GroupOf(S, l)
    BY <1>4, PriorIs
  <2>3. t.grouped[c][f].last = n /\ t.grouped[c][f].refs = GroupNow(s, n, c)
    BY <1>2, <1>4
  <2> HIDE DEF S, T, l
  <2>4. GroupOf(T, n) = IF Joins(n, l, S) THEN GroupOf(S, l) \cup {n} ELSE {n}
    BY <2>1, <2>2, LastGroupGrows
  <2>5. GroupNow(s, n, c) = GroupOf(T, n)
    BY <2>2, <2>4 DEF GroupNow
  <2>6. IsLast(n, T) /\ T # {}
    BY <2>1 DEF IsLast, Grows
  <2> QED BY <2>3, <2>5, <2>6 DEF LastPlace, T
<1> QED BY <1>3, <1>4

(* What the loop adds for a student's edit, for a test, for a plan and for a question. *)
LEMMA RevisesNowIs ==
  ASSUME EvidenceTypeOK, NEW D, NEW n, Grows(D, n), NEW s, Sound(D, s),
         NEW m \in EditsOf(D, "agent.files_changed", FileOf(n))
  PROVE  (/\ IsEdit(D, n, "student_edit") /\ IsLast(m, EditsOf(D, "agent.files_changed", FileOf(n))) /\ Follows(n, m)
          /\ \A k \in Typed(D, FileOf(n)) : ~Precedes(m, k))
         <=> RevisesNow(s, n) /\ m = s.lastAgentEdit[FileOf(n)]
<1> DEFINE F == FileOf(n)
           A == EditsOf(D, "agent.files_changed", F)
           agent == s.lastAgentEdit[F]
<1>1. F \in Files /\ n \in Places /\ D \subseteq Places /\ A \subseteq D /\ Typed(D, F) \subseteq D
  <2>1. n \in Places /\ D \subseteq Places
    BY DEF Grows
  <2>2. F \in Files
    BY <2>1, Ordered DEF FileOf, HistoryEvent
  <2> HIDE DEF F
  <2> QED BY <2>1, <2>2, Within
<1>2. LastPlace(agent, A) /\ A # {} /\ A \in SUBSET Places
  BY <1>1 DEF Sound, SoundLasts
<1>3. IsLast(agent, A) /\ agent \in D /\ agent # NoEvent
  BY <1>1, <1>2, Ordered DEF LastPlace, IsLast, NoEvent
<1>4. agent \in s.revised <=> \E k \in Typed(D, F) : Follows(k, agent)
  BY <1>1, <1>3 DEF Sound, SoundRevised
<1>5. Takes(s, n, "student_edit") <=> IsEdit(D, n, "student_edit")
  BY TakesEdits DEF EditCategories
<1>6. Follows(n, agent) <=> TimeOf(n) - TimeOf(agent) <= RELATED
  BY <1>3 DEF Follows, Grows
<1>7. ASSUME NEW k \in Typed(D, F), Follows(n, agent) PROVE Precedes(agent, k) <=> Follows(k, agent)
  <2>1. TimeOf(k) <= TimeOf(n) /\ TimeOf(k) \in Nat /\ TimeOf(n) \in Nat /\ TimeOf(agent) \in Nat
    BY <1>1, <1>3, Ordered DEF Grows
  <2> QED BY <2>1, <1>7, EvidenceAssumption DEF Follows
<1>8. RevisesNow(s, n) <=> IsEdit(D, n, "student_edit") /\ Follows(n, agent) /\ \A k \in Typed(D, F) : ~Precedes(agent, k)
  BY <1>3, <1>4, <1>5, <1>6, <1>7 DEF RevisesNow
<1>9. IsLast(m, A) <=> m = agent
  BY <1>2, <1>3, OnlyLast
<1> QED BY <1>8, <1>9

LEMMA AttemptsNowIs ==
  ASSUME EvidenceTypeOK, NEW D, NEW n, Grows(D, n), NEW s, Sound(D, s), NEW m \in Of(D, "test.failed")
  PROVE  (/\ IsEdit(D, n, "student_edit") /\ IsLast(m, Tests(D)) /\ Follows(n, m)
          /\ \A k \in AllTyped(D) : ~Precedes(m, k))
         <=> AttemptsNow(s, n) /\ m = s.failed
<1>1. n \in Places /\ D \subseteq Places /\ Tests(D) \in SUBSET Places /\ AllTyped(D) \subseteq D /\ m \in Tests(D) /\ m \in D
  BY Within DEF Grows, Tests
<1>2. Takes(s, n, "student_edit") <=> IsEdit(D, n, "student_edit")
  BY TakesEdits DEF EditCategories
<1>3. SoundTests(D, s)
  BY DEF Sound
<1>4. IsLast(m, Tests(D)) <=> s.failed # NoEvent /\ m = s.failed
  BY <1>1, <1>3, OnlyLast DEF SoundTests
<1>5. Follows(n, m) <=> TimeOf(n) - TimeOf(m) <= RELATED
  BY <1>1 DEF Follows, Grows
<1>6. ASSUME NEW k \in AllTyped(D), Follows(n, m) PROVE Precedes(m, k) <=> Follows(k, m)
  <2>1. TimeOf(k) <= TimeOf(n) /\ TimeOf(k) \in Nat /\ TimeOf(n) \in Nat /\ TimeOf(m) \in Nat
    BY <1>1, Ordered DEF Grows
  <2> QED BY <2>1, <1>6, EvidenceAssumption DEF Follows
<1>7. s.attempted # NoEvent => \E k \in AllTyped(D) : Follows(k, s.failed)
  <2> HAVE s.attempted # NoEvent
  <2> DEFINE p == <<s.failed, s.attempted>>
  <2>1. p \in Attempts(D)
    BY <1>3 DEF SoundTests
  <2>2. PICK j \in Of(D, "test.failed"), k \in AllTyped(D) :
          p = <<j, k>> /\ Follows(k, j) /\ NoneBetween(j, k, Tests(D) \cup AllTyped(D))
    <3> HIDE DEF p
    <3> QED BY <2>1, AttemptIs
  <2> QED BY <2>2
<1>8. s.failed # NoEvent => (s.attempted = NoEvent <=> \A k \in AllTyped(D) : ~Follows(k, s.failed))
  BY <1>3, <1>7 DEF SoundTests
<1> QED BY <1>2, <1>4, <1>5, <1>6, <1>8 DEF AttemptsNow

LEMMA VerifiesNowIs ==
  ASSUME EvidenceTypeOK, NEW D, NEW n, Grows(D, n), NEW s, Sound(D, s)
  PROVE  /\ \A q \in Attempts(D) : TypeOf(n) = "test.passed" /\ IsLast(q[1], Tests(D)) /\ Follows(n, q[1])
              => VerifiesNow(s, n) /\ q[1] = s.failed /\ q[2] = s.attempted
         /\ VerifiesNow(s, n) => /\ <<s.failed, s.attempted>> \in Attempts(D)
                                 /\ IsLast(s.failed, Tests(D)) /\ Follows(n, s.failed)
<1>1. n \in Places /\ D \subseteq Places /\ Tests(D) \in SUBSET Places /\ AllTyped(D) \subseteq D /\ Tests(D) \subseteq D
  BY Within DEF Grows
<1>2. SoundTests(D, s)
  BY DEF Sound
<1>3. ASSUME NEW q \in Attempts(D), TypeOf(n) = "test.passed", IsLast(q[1], Tests(D)), Follows(n, q[1])
      PROVE  VerifiesNow(s, n) /\ q[1] = s.failed /\ q[2] = s.attempted
  <2>1. PICK m \in Of(D, "test.failed"), k \in AllTyped(D) :
          q = <<m, k>> /\ Follows(k, m) /\ NoneBetween(m, k, Tests(D) \cup AllTyped(D))
    BY AttemptIs
  <2>2. q[1] = m /\ q[2] = k
    BY <2>1
  <2>3. s.failed # NoEvent /\ m = s.failed
    BY <2>2, <1>1, <1>2, <1>3, OnlyLast DEF SoundTests
  <2>4. s.attempted # NoEvent
    BY <2>1, <2>3, <1>2 DEF SoundTests
  <2> DEFINE p == <<s.failed, s.attempted>>
  <2>5. PICK i \in Of(D, "test.failed"), j \in AllTyped(D) :
          p = <<i, j>> /\ Follows(j, i) /\ NoneBetween(i, j, Tests(D) \cup AllTyped(D))
    <3>1. p \in Attempts(D)
      BY <2>4, <1>2 DEF SoundTests
    <3> HIDE DEF p
    <3> QED BY <3>1, AttemptIs
  <2>6. i = m /\ j = s.attempted
    BY <2>3, <2>5
  <2>7. j = k
    BY <2>1, <2>5, <2>6, <1>1, Ordered DEF NoneBetween, Follows
  <2>8. TimeOf(n) - TimeOf(s.failed) <= RELATED
    BY <2>2, <2>3, <1>3 DEF Follows
  <2> QED BY <2>2, <2>3, <2>4, <2>6, <2>7, <2>8, <1>3 DEF VerifiesNow
<1>4. ASSUME VerifiesNow(s, n)
      PROVE  <<s.failed, s.attempted>> \in Attempts(D) /\ IsLast(s.failed, Tests(D)) /\ Follows(n, s.failed)
  <2>1. <<s.failed, s.attempted>> \in Attempts(D) /\ IsLast(s.failed, Tests(D)) /\ TimeOf(n) - TimeOf(s.failed) <= RELATED
    BY <1>2, <1>4 DEF SoundTests, VerifiesNow
  <2>2. Precedes(s.failed, n)
    BY <2>1, <1>1 DEF IsLast, Grows
  <2> QED BY <2>1, <2>2 DEF Follows
<1> QED BY <1>3, <1>4

LEMMA ApprovesNowIs ==
  ASSUME EvidenceTypeOK, NEW D, NEW n, Grows(D, n), NEW s, Sound(D, s)
  PROVE  /\ ApprovesNow(s, n) <=> TypeOf(n) = "plan.approved" /\ \E m \in Of(D, "plan.open") : IsLast(m, Plans(D))
         /\ LearnsNow(s, n) <=> TypeOf(n) = "chat.learn" /\ Of(D, "chat.learn") = {}
<1>1. Plans(D) \in SUBSET Places
  BY Within DEF Grows
<1>2. SoundPlans(D, s)
  BY DEF Sound
<1>3. (s.planSeen /\ ~s.planApproved) <=> \E m \in Of(D, "plan.open") : IsLast(m, Plans(D))
  <2>1. \A m \in Plans(D) : m \in Of(D, "plan.open") <=> TypeOf(m) # "plan.approved"
    BY DEF Plans, Of, TypeOf
  <2>2. \A m : IsLast(m, Plans(D)) => m \in Plans(D)
    BY DEF IsLast
  <2>3. \A m, k : IsLast(m, Plans(D)) /\ IsLast(k, Plans(D)) => m = k
    BY <1>1, OnlyLast
  <2>4. Of(D, "plan.open") \subseteq Plans(D)
    BY DEF Plans
  <2> QED BY <2>1, <2>2, <2>3, <2>4, <1>2 DEF SoundPlans
<1> QED BY <1>2, <1>3 DEF ApprovesNow, LearnsNow, SoundPlans

LEMMA RevisionsTaken ==
  ASSUME EvidenceTypeOK, NEW D, NEW n, Grows(D, n), NEW E, E = D \cup {n}, NEW s, Sound(D, s)
  PROVE  Revisions(E) = Revisions(D) \cup When(RevisesNow(s, n), <<s.lastAgentEdit[FileOf(n)], n>>)
<1> DEFINE F == FileOf(n)
           A == EditsOf(D, "agent.files_changed", F)
           revises(m) == IsLast(m, A) /\ Follows(n, m) /\ \A k \in Typed(D, F) : ~Precedes(m, k)
           New == {m \in A : IsEdit(D, n, "student_edit") /\ revises(m)}
           agent == s.lastAgentEdit[F]
<1>1. Revisions(E) = Revisions(D) \cup {<<m, n>> : m \in New}
  <2>1. IsEdit(D, n, "student_edit") <=> history[n].type = "file.changed" /\ Unexplained(D, n)
    BY DEF IsEdit
  <2>2. Revisions(E) = IF history[n].type = "file.changed" /\ Unexplained(D, n)
                       THEN Revisions(D) \cup {<<m, n>> : m \in {k \in A : revises(k)}} ELSE Revisions(D)
    BY RevisionsGrow DEF FileOf
  <2> HIDE DEF A, revises
  <2> QED BY <2>1, <2>2
<1>2. \A m \in A : m \in New <=> RevisesNow(s, n) /\ m = agent
  BY RevisesNowIs
<1>3. RevisesNow(s, n) => agent \in A
  <2>1. F \in Files
    BY Ordered DEF FileOf, HistoryEvent, Grows
  <2>2. LastPlace(agent, A)
    BY <2>1 DEF Sound, SoundLasts
  <2>3. RevisesNow(s, n) => agent # NoEvent
    BY DEF RevisesNow
  <2> QED BY <2>2, <2>3 DEF LastPlace, IsLast
<1>4. New = When(RevisesNow(s, n), agent)
  <2>1. \A m : m \in New => m \in A
    OBVIOUS
  <2> HIDE DEF New
  <2> QED BY <2>1, <1>2, <1>3 DEF When
<1> HIDE DEF New, agent
<1> QED BY <1>1, <1>4 DEF When, agent

LEMMA AttemptsTaken ==
  ASSUME EvidenceTypeOK, NEW D, NEW n, Grows(D, n), NEW E, E = D \cup {n}, NEW s, Sound(D, s)
  PROVE  Attempts(E) = Attempts(D) \cup When(AttemptsNow(s, n), <<s.failed, n>>)
<1> DEFINE A == Of(D, "test.failed")
           attempts(m) == IsLast(m, Tests(D)) /\ Follows(n, m) /\ \A k \in AllTyped(D) : ~Precedes(m, k)
           New == {m \in A : IsEdit(D, n, "student_edit") /\ attempts(m)}
<1>1. Attempts(E) = Attempts(D) \cup {<<m, n>> : m \in New}
  <2>1. IsEdit(D, n, "student_edit") <=> history[n].type = "file.changed" /\ Unexplained(D, n)
    BY DEF IsEdit
  <2>2. Attempts(E) = IF history[n].type = "file.changed" /\ Unexplained(D, n)
                      THEN Attempts(D) \cup {<<m, n>> : m \in {k \in A : attempts(k)}} ELSE Attempts(D)
    BY AttemptsGrow
  <2> HIDE DEF A, attempts
  <2> QED BY <2>1, <2>2
<1>2. \A m \in A : m \in New <=> AttemptsNow(s, n) /\ m = s.failed
  BY AttemptsNowIs
<1>3. AttemptsNow(s, n) => s.failed \in A
  BY DEF AttemptsNow, Sound, SoundTests
<1>4. New = When(AttemptsNow(s, n), s.failed)
  <2>1. \A m : m \in New => m \in A
    OBVIOUS
  <2> HIDE DEF New
  <2> QED BY <2>1, <1>2, <1>3 DEF When
<1> HIDE DEF New
<1> QED BY <1>1, <1>4 DEF When

LEMMA FixesTaken ==
  ASSUME EvidenceTypeOK, NEW D, NEW n, Grows(D, n), NEW E, E = D \cup {n}, NEW s, Sound(D, s)
  PROVE  Fixes(E) = Fixes(D) \cup When(VerifiesNow(s, n), <<s.failed, s.attempted, n>>)
<1> DEFINE Good == {q \in Attempts(D) : IsLast(q[1], Tests(D)) /\ Follows(n, q[1])}
           New == IF TypeOf(n) = "test.passed" THEN {<<q[1], q[2], n>> : q \in Good} ELSE {}
           fix == <<s.failed, s.attempted, n>>
<1>1. Fixes(E) = Fixes(D) \cup New
  <2>1. Fixes(E) = IF history[n].type = "test.passed" THEN Fixes(D) \cup {<<q[1], q[2], n>> : q \in Good} ELSE Fixes(D)
    BY FixesGrow
  <2> HIDE DEF Good
  <2> QED BY <2>1 DEF TypeOf
<1>2. /\ \A q \in Attempts(D) : TypeOf(n) = "test.passed" /\ IsLast(q[1], Tests(D)) /\ Follows(n, q[1])
           => VerifiesNow(s, n) /\ q[1] = s.failed /\ q[2] = s.attempted
      /\ VerifiesNow(s, n) => /\ <<s.failed, s.attempted>> \in Attempts(D)
                              /\ IsLast(s.failed, Tests(D)) /\ Follows(n, s.failed)
  BY VerifiesNowIs
<1>3. \A p \in New : VerifiesNow(s, n) /\ p = fix
  <2> TAKE p \in New
  <2>1. PICK q \in Good : p = <<q[1], q[2], n>> /\ TypeOf(n) = "test.passed"
    <3> HIDE DEF Good
    <3> QED OBVIOUS
  <2> QED BY <2>1, <1>2
<1>4. VerifiesNow(s, n) => fix \in New
  <2> HAVE VerifiesNow(s, n)
  <2> DEFINE q == <<s.failed, s.attempted>>
  <2>1. q \in Good /\ fix = <<q[1], q[2], n>>
    BY <1>2
  <2>2. TypeOf(n) = "test.passed"
    BY DEF VerifiesNow
  <2> HIDE DEF q, Good, fix
  <2> QED BY <2>1, <2>2
<1> HIDE DEF New, fix
<1>5. New = When(VerifiesNow(s, n), fix)
  BY <1>3, <1>4 DEF When
<1> QED BY <1>1, <1>5 DEF fix

LEMMA OtherItemsGrow ==
  ASSUME EvidenceTypeOK, NEW D, NEW n, Grows(D, n), NEW E, E = D \cup {n}, NEW s, Sound(D, s)
  PROVE  OtherItems(E) = OtherItems(D) \cup NewItems(s, n)
<1>1. {RevisionItem(p[1], p[2]) : p \in Revisions(E)} =
        {RevisionItem(p[1], p[2]) : p \in Revisions(D)} \cup When(RevisesNow(s, n), RevisionItem(s.lastAgentEdit[FileOf(n)], n))
  <2> DEFINE new == <<s.lastAgentEdit[FileOf(n)], n>>
  <2>1. Revisions(E) = Revisions(D) \cup When(RevisesNow(s, n), new)
    BY RevisionsTaken
  <2>2. RevisionItem(new[1], new[2]) = RevisionItem(s.lastAgentEdit[FileOf(n)], n)
    OBVIOUS
  <2> HIDE DEF new
  <2> QED BY <2>1, <2>2 DEF When
<1>2. {AttemptItem(p[1], p[2]) : p \in Attempts(E)} =
        {AttemptItem(p[1], p[2]) : p \in Attempts(D)} \cup When(AttemptsNow(s, n), AttemptItem(s.failed, n))
  <2> DEFINE new == <<s.failed, n>>
  <2>1. Attempts(E) = Attempts(D) \cup When(AttemptsNow(s, n), new)
    BY AttemptsTaken
  <2>2. AttemptItem(new[1], new[2]) = AttemptItem(s.failed, n)
    OBVIOUS
  <2> HIDE DEF new
  <2> QED BY <2>1, <2>2 DEF When
<1>3. {FixItem(p[1], p[2], p[3]) : p \in Fixes(E)} =
        {FixItem(p[1], p[2], p[3]) : p \in Fixes(D)} \cup When(VerifiesNow(s, n), FixItem(s.failed, s.attempted, n))
  <2> DEFINE new == <<s.failed, s.attempted, n>>
  <2>1. Fixes(E) = Fixes(D) \cup When(VerifiesNow(s, n), new)
    BY FixesTaken
  <2>2. FixItem(new[1], new[2], new[3]) = FixItem(s.failed, s.attempted, n)
    OBVIOUS
  <2> HIDE DEF new
  <2> QED BY <2>1, <2>2 DEF When
<1>4. {FailItem(m) : m \in Of(E, "test.failed")} =
        {FailItem(m) : m \in Of(D, "test.failed")} \cup When(TypeOf(n) = "test.failed", FailItem(n))
  <2>1. Of(E, "test.failed") = Of(D, "test.failed") \cup When(TypeOf(n) = "test.failed", n)
    BY DEF Of, TypeOf, When
  <2> QED BY <2>1 DEF When
<1>5. {PassItem(m) : m \in Of(E, "test.passed")} =
        {PassItem(m) : m \in Of(D, "test.passed")} \cup When(TypeOf(n) = "test.passed", PassItem(n))
  <2>1. Of(E, "test.passed") = Of(D, "test.passed") \cup When(TypeOf(n) = "test.passed", n)
    BY DEF Of, TypeOf, When
  <2> QED BY <2>1 DEF When
<1>6. {ApprovalItem(m) : m \in Approvals(E)} =
        {ApprovalItem(m) : m \in Approvals(D)} \cup When(ApprovesNow(s, n), ApprovalItem(n))
  <2>1. Approvals(E) = Approvals(D) \cup When(ApprovesNow(s, n), n)
    BY ApprovalsGrow, ApprovesNowIs DEF TypeOf, When
  <2> QED BY <2>1 DEF When
<1>7. {LearnItem(m) : m \in FirstLearn(E)} =
        {LearnItem(m) : m \in FirstLearn(D)} \cup When(LearnsNow(s, n), LearnItem(n))
  <2>1. FirstLearn(E) = FirstLearn(D) \cup When(LearnsNow(s, n), n)
    BY FirstLearnGrows, ApprovesNowIs DEF TypeOf, When
  <2> QED BY <2>1 DEF When
<1>8. {QuestionItem(m) : m \in Of(E, "question.completed")} =
        {QuestionItem(m) : m \in Of(D, "question.completed")} \cup When(TypeOf(n) = "question.completed", QuestionItem(n))
  <2>1. Of(E, "question.completed") = Of(D, "question.completed") \cup When(TypeOf(n) = "question.completed", n)
    BY DEF Of, TypeOf, When
  <2> QED BY <2>1 DEF When
<1> HIDE DEF When
<1> QED BY <1>1, <1>2, <1>3, <1>4, <1>5, <1>6, <1>7, <1>8 DEF OtherItems, NewItems

LEMMA TestsStaySound ==
  ASSUME EvidenceTypeOK, NEW D, NEW n, Grows(D, n), NEW E, E = D \cup {n}, NEW s, Sound(D, s), NEW t, TestsTaken(s, t, n)
  PROVE  SoundTests(E, t)
<1>1. n \in Places /\ D \subseteq Places /\ Tests(D) \subseteq D /\ AllTyped(D) \subseteq D /\ n \notin D /\ n # NoEvent
  BY Within, Ordered DEF Grows, NoEvent
<1>2. \A m \in D : Precedes(m, n) /\ ~Precedes(n, m)
  BY Ordered DEF Grows
<1>3. SoundTests(D, s)
  BY DEF Sound
<1>4. Of(E, "test.failed") = IF TypeOf(n) = "test.failed" THEN Of(D, "test.failed") \cup {n} ELSE Of(D, "test.failed")
  BY DEF Of, TypeOf
<1>5. Tests(E) = IF TypeOf(n) \in {"test.failed", "test.passed"} THEN Tests(D) \cup {n} ELSE Tests(D)
  BY DEF Tests, Of, TypeOf
<1>6. AllTyped(E) = IF IsEdit(D, n, "student_edit") THEN AllTyped(D) \cup {n} ELSE AllTyped(D)
  BY AllTypedGrows DEF IsEdit
<1>7. Attempts(E) = Attempts(D) \cup When(AttemptsNow(s, n), <<s.failed, n>>)
  BY AttemptsTaken
<1>8. CASE TypeOf(n) = "test.failed"
  <2>1. t.failed = n /\ t.attempted = NoEvent
    BY <1>8 DEF TestsTaken
  <2>2. n \in Of(E, "test.failed") /\ IsLast(n, Tests(E))
    BY <1>1, <1>2, <1>4, <1>5, <1>8 DEF IsLast
  <2>3. \A k \in AllTyped(E) : ~Follows(k, n)
    BY <1>1, <1>2, <1>6, <1>8 DEF Follows, IsEdit, TypeOf
  <2> QED BY <2>1, <2>2, <2>3, <1>1 DEF SoundTests
<1>9. CASE TypeOf(n) = "test.passed"
  <2>1. t.failed = NoEvent /\ t.attempted = NoEvent
    BY <1>9 DEF TestsTaken
  <2>2. \A m \in Of(E, "test.failed") : ~IsLast(m, Tests(E))
    BY <1>1, <1>2, <1>4, <1>5, <1>9, Within DEF IsLast
  <2> QED BY <2>1, <2>2 DEF SoundTests
<1>10. CASE TypeOf(n) \notin {"test.failed", "test.passed"}
  <2>1. /\ t.failed = s.failed /\ t.attempted = IF AttemptsNow(s, n) THEN n ELSE s.attempted
        /\ Of(E, "test.failed") = Of(D, "test.failed") /\ Tests(E) = Tests(D)
    BY <1>4, <1>5, <1>10 DEF TestsTaken
  <2>2. t.attempted # NoEvent => t.failed # NoEvent /\ <<t.failed, t.attempted>> \in Attempts(E)
    BY <2>1, <1>3, <1>7 DEF SoundTests, AttemptsNow, When
  <2>3. ASSUME t.failed # NoEvent, t.attempted = NoEvent, NEW k \in AllTyped(E) PROVE ~Follows(k, t.failed)
    <3>1. ~AttemptsNow(s, n) /\ s.attempted = NoEvent
      BY <2>1, <2>3, <1>1
    <3>2. k \in AllTyped(D) => ~Follows(k, s.failed)
      BY <2>1, <2>3, <3>1, <1>3 DEF SoundTests
    <3>3. IsEdit(D, n, "student_edit") => ~Follows(n, s.failed)
      BY <3>1, <2>1, <2>3, TakesEdits DEF AttemptsNow, Follows, EditCategories
    <3> QED BY <3>2, <3>3, <2>1, <1>6
  <2> QED BY <2>1, <2>2, <2>3, <1>3 DEF SoundTests
<1> QED BY <1>8, <1>9, <1>10

LEMMA PlansStaySound ==
  ASSUME EvidenceTypeOK, NEW D, NEW n, Grows(D, n), NEW E, E = D \cup {n}, NEW s, Sound(D, s), NEW t, PlansTaken(s, t, n)
  PROVE  SoundPlans(E, t)
<1>1. Plans(D) \subseteq D /\ \A m \in D : Precedes(m, n)
  BY Within DEF Grows
<1>2. SoundPlans(D, s)
  BY DEF Sound
<1>3. Plans(E) = IF TypeOf(n) \in {"plan.open", "plan.approved"} THEN Plans(D) \cup {n} ELSE Plans(D)
  BY DEF Plans, Of, TypeOf
<1>4. Of(E, "chat.learn") = IF TypeOf(n) = "chat.learn" THEN Of(D, "chat.learn") \cup {n} ELSE Of(D, "chat.learn")
  BY DEF Of, TypeOf
<1>5. t.learnUsed <=> Of(E, "chat.learn") # {}
  BY <1>2, <1>4 DEF SoundPlans, PlansTaken
<1>6. CASE TypeOf(n) \in {"plan.open", "plan.approved"}
  <2>1. n \in Plans(E) /\ IsLast(n, Plans(E))
    BY <1>1, <1>3, <1>6 DEF IsLast
  <2>2. t.planSeen /\ (t.planApproved <=> TypeOf(n) = "plan.approved")
    BY <1>6 DEF PlansTaken
  <2> QED BY <2>1, <2>2, <1>5 DEF SoundPlans
<1>7. CASE TypeOf(n) \notin {"plan.open", "plan.approved"}
  <2>1. Plans(E) = Plans(D) /\ (t.planSeen <=> s.planSeen) /\ (t.planApproved <=> s.planApproved)
    BY <1>3, <1>7 DEF PlansTaken
  <2> QED BY <2>1, <1>2, <1>5 DEF SoundPlans
<1> QED BY <1>6, <1>7

(* An edit's item is none of the others. *)
LEMMA OthersApart ==
  ASSUME NEW D, NEW c \in EditCategories, NEW G
  PROVE  EditItem(history, c, G) \notin OtherItems(D)
<1> DEFINE Named(x) == x.category \notin EditCategories
<1>1. ~Named(EditItem(history, c, G))
  BY DEF EditItem, Evidence
<1>2. /\ \A m, n : Named(RevisionItem(m, n)) /\ Named(AttemptItem(m, n))
      /\ \A m, k, n : Named(FixItem(m, k, n))
      /\ \A n : Named(FailItem(n)) /\ Named(PassItem(n)) /\ Named(ApprovalItem(n)) /\ Named(LearnItem(n)) /\ Named(QuestionItem(n))
  BY DEF RevisionItem, AttemptItem, FixItem, FailItem, PassItem, ApprovalItem, LearnItem, QuestionItem, Evidence, EditCategories
<1> HIDE DEF Named
<1>3. \A x \in OtherItems(D) : Named(x)
  BY <1>2 DEF OtherItems
<1> QED BY <1>1, <1>3

LEMMA OutputStaysSound ==
  ASSUME EvidenceTypeOK, NEW D, NEW n, Grows(D, n), NEW E, E = D \cup {n}, NEW s, Sound(D, s), NEW t, OutputTaken(s, t, n)
  PROVE  t.output = Meaning(E)
<1>1. s.output = EditItems(D) \cup OtherItems(D)
  BY MeaningIs DEF Sound
<1>2. OtherItems(E) = OtherItems(D) \cup NewItems(s, n)
  BY OtherItemsGrow
<1>3. t.output = EditedOutput(s, n) \cup NewItems(s, n)
  BY DEF OutputTaken
<1>4. Meaning(E) = EditItems(E) \cup OtherItems(E)
  BY MeaningIs
<1>5. CASE \A c \in EditCategories : ~Takes(s, n, c)
  <2>1. EditedOutput(s, n) = s.output
    BY <1>5, EditedOutputIs
  <2>2. EditItems(E) = EditItems(D)
    <3>1. \A c \in EditCategories : ~IsEdit(D, n, c)
      BY <1>5, TakesEdits
    <3> QED BY <3>1, EditItemsKept
  <2> QED BY <2>1, <2>2, <1>1, <1>2, <1>3, <1>4
<1>6. ASSUME NEW c \in EditCategories, Takes(s, n, c) PROVE t.output = Meaning(E)
  <2> DEFINE S == Edits(D, c, FileOf(n))
             l == Prior(s, n, c).last
             old == EditItem(history, c, GroupOf(S, l))
             new == EditItem(history, c, GroupNow(s, n, c))
  <2>1. /\ LastIfAny(l, S)
        /\ Extends(s, n, c) <=> Joins(n, l, S)
        /\ Joins(n, l, S) => Prior(s, n, c).refs = GroupOf(S, l)
    BY PriorIs
  <2>2. EditedOutput(s, n) =
          (IF Extends(s, n, c) THEN s.output \ {EditItem(history, c, Prior(s, n, c).refs)} ELSE s.output) \cup {new}
    BY <1>6, EditedOutputIs
  <2>3. EditedOutput(s, n) = (IF Joins(n, l, S) THEN s.output \ {old} ELSE s.output) \cup {new}
    BY <2>1, <2>2
  <2>4. GroupNow(s, n, c) = IF Joins(n, l, S) THEN GroupOf(S, l) \cup {n} ELSE {n}
    BY <2>1 DEF GroupNow
  <2>5. IsEdit(D, n, c)
    BY <1>6, TakesEdits
  <2>6. S = Edits(D, c, history[n].file)
    BY DEF FileOf
  <2> HIDE DEF S, l
  <2> HIDE DEF old, new
  <2>7. EditItems(E) = (IF Joins(n, l, S) THEN EditItems(D) \ {old} ELSE EditItems(D)) \cup {new}
    <3>1. EditItems(E) = ItemsAfter(D, n, c, l, S)
      BY <2>1, <2>5, <2>6, EditItemsGrow
    <3> QED BY <3>1, <2>4 DEF ItemsAfter, GroupAfter, old, new
  <2>8. old \notin OtherItems(D)
    BY OthersApart DEF old
  <2> QED BY <2>3, <2>7, <2>8, <1>1, <1>2, <1>3, <1>4
<1> QED BY <1>5, <1>6

LEMMA OutputStaysFinite ==
  ASSUME NEW s, IsFiniteSet(s.output), NEW n, NEW t, OutputTaken(s, t, n)
  PROVE  IsFiniteSet(t.output)
<1>1. \A condition, item : IsFiniteSet(When(condition, item))
  <2> TAKE condition, item
  <2>1. IsFiniteSet({item}) /\ IsFiniteSet({})
    BY FS_Singleton, FS_EmptySet
  <2> QED BY <2>1 DEF When
<1>2. IsFiniteSet(NewItems(s, n))
  <2> DEFINE a == When(RevisesNow(s, n), RevisionItem(s.lastAgentEdit[FileOf(n)], n))
             b == When(AttemptsNow(s, n), AttemptItem(s.failed, n))
             c == When(VerifiesNow(s, n), FixItem(s.failed, s.attempted, n))
             d == When(TypeOf(n) = "test.failed", FailItem(n))
             e == When(TypeOf(n) = "test.passed", PassItem(n))
             f == When(ApprovesNow(s, n), ApprovalItem(n))
             g == When(LearnsNow(s, n), LearnItem(n))
             h == When(TypeOf(n) = "question.completed", QuestionItem(n))
  <2>1. /\ IsFiniteSet(a) /\ IsFiniteSet(b) /\ IsFiniteSet(c) /\ IsFiniteSet(d)
        /\ IsFiniteSet(e) /\ IsFiniteSet(f) /\ IsFiniteSet(g) /\ IsFiniteSet(h)
    BY <1>1
  <2>2. NewItems(s, n) = a \cup b \cup c \cup d \cup e \cup f \cup g \cup h
    BY DEF NewItems
  <2> HIDE DEF a, b, c, d, e, f, g, h
  <2>3. IsFiniteSet(a \cup b \cup c \cup d)
    BY <2>1, FS_Union
  <2>4. IsFiniteSet(a \cup b \cup c \cup d \cup e \cup f)
    BY <2>1, <2>3, FS_Union
  <2> QED BY <2>1, <2>2, <2>4, FS_Union
<1>3. IsFiniteSet(EditedOutput(s, n))
  <2>1. CASE \A c \in EditCategories : ~Takes(s, n, c)
    BY <2>1, EditedOutputIs
  <2>2. ASSUME NEW c \in EditCategories, Takes(s, n, c) PROVE IsFiniteSet(EditedOutput(s, n))
    <3> DEFINE new == EditItem(history, c, GroupNow(s, n, c))
               kept == IF Extends(s, n, c) THEN s.output \ {EditItem(history, c, Prior(s, n, c).refs)} ELSE s.output
    <3>1. EditedOutput(s, n) = kept \cup {new}
      BY <2>2, EditedOutputIs
    <3>2. IsFiniteSet(kept)
      BY FS_Subset
    <3> HIDE DEF new, kept
    <3> QED BY <3>1, <3>2, FS_AddElement
  <2> QED BY <2>1, <2>2
<1> QED BY <1>2, <1>3, FS_Union DEF OutputTaken

(* One more event keeps the state sound. *)
LEMMA ProjectSound ==
  ASSUME EvidenceTypeOK, NEW D, NEW n, Grows(D, n), NEW E, E = D \cup {n}, NEW s, Sound(D, s),
         NEW t, t = Project(s, n, history)
  PROVE  Sound(E, t)
<1>1. Taken(s, t, n)
  BY ProjectTaken DEF Sound, Grows
<1>2. /\ IsSeen(t) /\ OutputTaken(s, t, n) /\ LastsTaken(s, t, n) /\ RevisedTaken(s, t, n)
      /\ GroupsTaken(s, t, n) /\ TestsTaken(s, t, n) /\ PlansTaken(s, t, n)
  BY <1>1 DEF Taken
<1>3. E \subseteq Places
  BY DEF Grows
<1>4. t.output = Meaning(E) /\ IsFiniteSet(t.output)
  BY <1>2, OutputStaysSound, OutputStaysFinite DEF Sound
<1>5. SoundLasts(E, t) /\ SoundRevised(E, t) /\ SoundGroups(E, t)
  BY <1>2, LastsStaySound, RevisedStaysSound, GroupsStaySound
<1>6. SoundTests(E, t) /\ SoundPlans(E, t)
  BY <1>2, TestsStaySound, PlansStaySound
<1> QED BY <1>2, <1>3, <1>4, <1>5, <1>6 DEF Sound

LEMMA NothingSound == Sound({}, NothingSeen)
<1> DEFINE s == NothingSeen
<1>1. /\ \A t : Of({}, t) = {}
      /\ \A t, f : EditsOf({}, t, f) = {}
      /\ \A f : Typed({}, f) = {}
  BY DEF Of, EditsOf, Typed
<1>2. AllTyped({}) = {} /\ Tests({}) = {} /\ Plans({}) = {}
  BY <1>1 DEF AllTyped, Tests, Plans
<1>3. \A c \in EditCategories : \A f : Edits({}, c, f) = {}
  BY <1>1 DEF Edits, EditCategories
<1>4. IsSeen(s)
  BY DEF NothingSeen, IsSeen, NoEvent, NoGroup
<1>5. s.output = Meaning({}) /\ IsFiniteSet(s.output)
  <2>1. EditItems({}) = {}
    <3>1. \A c \in EditCategories, f \in Files : GroupItems({}, c, f) = {}
      BY <1>3 DEF GroupItems
    <3>2. \A x : x \notin EditItems({})
      BY <3>1, EditItemsAre
    <3> QED BY <3>2
  <2>2. Revisions({}) = {} /\ Attempts({}) = {} /\ Fixes({}) = {} /\ Approvals({}) = {} /\ FirstLearn({}) = {}
    <3>1. Revisions({}) = {}
      BY <1>1 DEF Revisions
    <3>2. Attempts({}) = {}
      BY <1>1 DEF Attempts
    <3>3. Fixes({}) = {}
      BY <1>1 DEF Fixes
    <3>4. Approvals({}) = {} /\ FirstLearn({}) = {}
      BY <1>1 DEF Approvals, FirstLearn
    <3> QED BY <3>1, <3>2, <3>3, <3>4
  <2>3. OtherItems({}) = {}
    BY <1>1, <2>2 DEF OtherItems
  <2>4. s.output = {}
    BY DEF NothingSeen
  <2> QED BY <2>1, <2>3, <2>4, MeaningIs, FS_EmptySet
<1>6. SoundLasts({}, s)
  BY <1>1 DEF SoundLasts, LastPlace, NothingSeen
<1>7. SoundRevised({}, s)
  BY <1>1 DEF SoundRevised, IsLast, NothingSeen
<1>8. SoundGroups({}, s)
  BY <1>3 DEF SoundGroups, LastPlace, NothingSeen, NoGroup
<1>9. SoundTests({}, s)
  BY <1>1, <1>2 DEF SoundTests, NothingSeen
<1>10. SoundPlans({}, s)
  BY <1>1, <1>2 DEF SoundPlans, NothingSeen
<1> QED BY <1>4, <1>5, <1>6, <1>7, <1>8, <1>9, <1>10 DEF Sound

(* After k events the loop has taken the k earliest, and its state is what they mean. *)
LEMMA LoopSound ==
  ASSUME EvidenceTypeOK
  PROVE  Sound(Selected(history), Loop(history)[Cardinality(Selected(history))].seen)
<1> DEFINE N == Cardinality(Selected(history))
           All == Selected(history)
           left(k) == Loop(history)[k].left
           seen(k) == Loop(history)[k].seen
           Good(k) == /\ left(k) \subseteq All /\ Cardinality(left(k)) = N - k
                      /\ \A m \in All \ left(k), n \in left(k) : Precedes(m, n)
                      /\ Sound(All \ left(k), seen(k))
           G == {k \in 0..N : Good(k)}
<1>1. All \subseteq Places /\ IsFiniteSet(All) /\ N \in Nat
  BY SelectedPlaces, FS_CardinalityType
<1>2. Loop(history)[0] = [left |-> All, seen |-> NothingSeen]
  BY <1>1, LoopUnfold
<1>3. \A k \in 1..N : Loop(history)[k] =
        LET n == Earliest(history, left(k - 1)) IN [left |-> left(k - 1) \ {n}, seen |-> Project(seen(k - 1), n, history)]
  BY <1>1, LoopUnfold
<1> HIDE DEF N, All
<1>4. 0 \in G
  <2>1. left(0) = All /\ seen(0) = NothingSeen
    BY <1>2
  <2>2. All \ left(0) = {}
    BY <2>1
  <2>3. Sound(All \ left(0), seen(0))
    BY <2>1, <2>2, NothingSound
  <2>4. Cardinality(left(0)) = N - 0
    BY <2>1, <1>1 DEF N, All
  <2> QED BY <2>1, <2>3, <2>4, <1>1
<1>5. ASSUME NEW k \in 1..N, k - 1 \in G PROVE k \in G
  <2> DEFINE L == left(k - 1)
             n == Earliest(history, L)
             D == All \ L
             E == All \ (L \ {n})
  <2>1. L \subseteq All /\ Cardinality(L) = N - (k - 1) /\ Sound(D, seen(k - 1)) /\ \A m \in D, j \in L : Precedes(m, j)
    BY <1>5
  <2>2. left(k) = L \ {n} /\ seen(k) = Project(seen(k - 1), n, history)
    <3>1. Loop(history)[k] = [left |-> L \ {n}, seen |-> Project(seen(k - 1), n, history)]
      BY <1>3
    <3> HIDE DEF L, n
    <3> QED BY <3>1
  <2> HIDE DEF left, seen, L
  <2>3. IsFiniteSet(L) /\ L # {}
    <3>1. IsFiniteSet(L)
      BY <2>1, <1>1, FS_Subset
    <3>2. Cardinality(L) # 0
      BY <2>1, <1>1
    <3> QED BY <3>1, <3>2, FS_EmptySet
  <2>4. n \in L /\ \A m \in L \ {n} : Precedes(n, m)
    BY <2>1, <2>3, <1>1, EarliestIs
  <2> HIDE DEF n
  <2>5. Grows(D, n) /\ E = D \cup {n}
    BY <2>1, <2>4, <1>1 DEF Grows
  <2> HIDE DEF D, E
  <2>6. Sound(E, seen(k))
    BY <2>1, <2>2, <2>5, ProjectSound
  <2>7. Cardinality(L \ {n}) = N - k
    <3>1. Cardinality(L \ {n}) = Cardinality(L) - 1
      BY <2>3, <2>4, FS_RemoveElement
    <3> QED BY <3>1, <2>1, <1>1
  <2>8. \A m \in E, j \in L \ {n} : Precedes(m, j)
    BY <2>1, <2>4, <2>5
  <2>9. /\ left(k) \subseteq All /\ Cardinality(left(k)) = N - k /\ All \ left(k) = E
        /\ \A m \in All \ left(k), j \in left(k) : Precedes(m, j)
    BY <2>1, <2>2, <2>7, <2>8 DEF E
  <2> QED BY <2>6, <2>9
<1>6. N \in G
  <2>1. \A k \in 0..N : k \in G
    <3> HIDE DEF G
    <3> QED BY <1>1, <1>4, <1>5, IntervalInduction
  <2> HIDE DEF G
  <2> QED BY <2>1, <1>1
<1>7. left(N) = {}
  <2>1. IsFiniteSet(left(N)) /\ Cardinality(left(N)) = 0
    BY <1>1, <1>6, FS_Subset
  <2> QED BY <2>1, FS_EmptySet
<1>8. Sound(All \ left(N), seen(N))
  BY <1>6
<1>9. All \ left(N) = All
  BY <1>7
<1> QED BY <1>8, <1>9 DEF N, All

-----------------------------------------------------------------------------
(* The limit on the items keeps the latest. *)

Limited(K, items) ==
  K \subseteq items /\ \A x \in items \ K : Cardinality(K) >= MAX_EVIDENCE /\ \A y \in K : x.at <= y.at

LEMMA LatestIs ==
  ASSUME NEW items, IsFiniteSet(items), \A x \in items : x.at \in Nat
  PROVE  Limited(Latest(items), items)
<1> DEFINE N == Cardinality(items)
           Upper(K) == \A x \in items \ K, y \in K : x.at <= y.at
<1>1. N \in Nat /\ MAX_EVIDENCE \in Nat
  BY FS_CardinalityType, EvidenceAssumption
<1>2. CASE N <= MAX_EVIDENCE
  BY <1>2 DEF Latest, Limited
<1>3. CASE N > MAX_EVIDENCE
  <2> DEFINE Cut(k) == \E K \in SUBSET items : Cardinality(K) = N - k /\ Upper(K)
             S == {k \in 0..(N - MAX_EVIDENCE) : Cut(k)}
  <2>0. N - MAX_EVIDENCE \in Nat
    BY <1>1, <1>3
  <2>1. 0 \in S
    <3>1. Cardinality(items) = N - 0 /\ Upper(items)
      BY <1>1
    <3> QED BY <2>0, <3>1
  <2>2. ASSUME NEW k \in 1..(N - MAX_EVIDENCE), k - 1 \in S PROVE k \in S
    <3>1. PICK K \in SUBSET items : Cardinality(K) = N - (k - 1) /\ Upper(K)
      BY <2>2
    <3> HIDE DEF N
    <3>2. IsFiniteSet(K) /\ K # {}
      <4>1. IsFiniteSet(K)
        BY FS_Subset
      <4>2. Cardinality(K) # 0
        BY <3>1, <1>1, <2>0
      <4> QED BY <4>1, <4>2, FS_EmptySet
    <3>3. PICK z \in K : \A y \in K : z.at <= y.at
      <4> DEFINE times == {y.at : y \in K}
      <4>1. times \subseteq Nat /\ times # {}
        BY <3>2
      <4>2. PICK t \in times : \A u \in times : t <= u
        <5> HIDE DEF times
        <5> QED BY <4>1, LeastElement
      <4> QED BY <4>2
    <3> DEFINE L == K \ {z}
    <3>4. Cardinality(L) = N - k
      <4>1. Cardinality(L) = Cardinality(K) - 1
        BY <3>2, FS_RemoveElement
      <4> QED BY <4>1, <3>1, <1>1
    <3>5. Upper(L)
      BY <3>1, <3>3
    <3> HIDE DEF Upper
    <3> QED BY <3>4, <3>5
  <2>3. Cut(N - MAX_EVIDENCE)
    <3>1. \A k \in 0..(N - MAX_EVIDENCE) : k \in S
      <4> HIDE DEF S, N
      <4> QED BY <2>0, <2>1, <2>2, IntervalInduction
    <3> HIDE DEF Cut, N
    <3> QED BY <3>1, <2>0
  <2>4. \E K \in SUBSET items : Cardinality(K) = MAX_EVIDENCE /\ \A x \in items \ K, y \in K : x.at <= y.at
    <3>1. N - (N - MAX_EVIDENCE) = MAX_EVIDENCE
      BY <1>1
    <3> QED BY <2>3, <3>1
  <2>5. Latest(items) = CHOOSE K \in SUBSET items : Cardinality(K) = MAX_EVIDENCE /\ \A x \in items \ K, y \in K : x.at <= y.at
    <3>1. ~(Cardinality(items) <= MAX_EVIDENCE)
      BY <1>1, <1>3
    <3> QED BY <3>1, Zenon DEF Latest
  <2>6. Latest(items) \in SUBSET items /\ Cardinality(Latest(items)) = MAX_EVIDENCE /\ Upper(Latest(items))
    BY <2>4, <2>5
  <2> QED BY <2>6, <1>1 DEF Limited
<1> QED BY <1>1, <1>2, <1>3

LEMMA MeaningTimes ==
  ASSUME EvidenceTypeOK, NEW D \in SUBSET Places
  PROVE  \A x \in Meaning(D) : x.at \in Nat
<1> DEFINE Timed(x) == x.at \in Nat
<1>1. /\ \A m : \A n \in Places : Timed(RevisionItem(m, n)) /\ Timed(AttemptItem(m, n))
      /\ \A m, k : \A n \in Places : Timed(FixItem(m, k, n))
      /\ \A n \in Places : Timed(FailItem(n)) /\ Timed(PassItem(n)) /\ Timed(ApprovalItem(n)) /\ Timed(LearnItem(n)) /\ Timed(QuestionItem(n))
  BY Ordered DEF RevisionItem, AttemptItem, FixItem, FailItem, PassItem, ApprovalItem, LearnItem, QuestionItem, Evidence
<1>2. \A p \in Revisions(D) : p[2] \in Places
  <2> TAKE p \in Revisions(D)
  <2>1. PICK f \in Files : p \in EditsOf(D, "agent.files_changed", f) \X Typed(D, f)
    BY DEF Revisions
  <2>2. Typed(D, f) \subseteq D
    BY Within
  <2> QED BY <2>1, <2>2
<1>3. \A p \in Attempts(D) : p[2] \in Places
  <2> TAKE p \in Attempts(D)
  <2>1. p \in Of(D, "test.failed") \X AllTyped(D)
    BY DEF Attempts
  <2> QED BY <2>1, Within
<1>4. \A p \in Fixes(D) : p[3] \in Places
  <2> TAKE p \in Fixes(D)
  <2>1. p \in Of(D, "test.failed") \X AllTyped(D) \X Of(D, "test.passed")
    BY DEF Fixes
  <2> QED BY <2>1, Within
<1>5. \A t : Of(D, t) \subseteq Places
  BY Within
<1>6. Approvals(D) \subseteq Places /\ FirstLearn(D) \subseteq Places
  BY <1>5 DEF Approvals, FirstLearn
<1>7. \A c \in EditCategories, f \in Files : \A x \in GroupItems(D, c, f) : Timed(x)
  <2> TAKE c \in EditCategories, f \in Files
  <2> TAKE x \in GroupItems(D, c, f)
  <2> DEFINE S == Edits(D, c, f)
  <2>1. PICK m \in S : x = EditItem(history, c, GroupOf(S, m))
    BY DEF GroupItems
  <2>2. S \in SUBSET Places
    BY EditsWithin
  <2> HIDE DEF S
  <2>3. GroupOf(S, m) \in SUBSET Places /\ GroupOf(S, m) # {}
    BY <2>2, InOwnGroup
  <2>4. Earliest(history, GroupOf(S, m)) \in Places
    BY <2>3, EarliestIs
  <2>5. x.at = TimeOf(Earliest(history, GroupOf(S, m)))
    BY <2>1 DEF EditItem, Evidence, TimeOf
  <2> QED BY <2>4, <2>5, Ordered
<1> HIDE DEF Timed
<1>8. \A x \in EditItems(D) : Timed(x)
  BY <1>7, EditItemsAre
<1>9. \A x \in OtherItems(D) : Timed(x)
  BY <1>1, <1>2, <1>3, <1>4, <1>5, <1>6 DEF OtherItems
<1>10. \A x \in Meaning(D) : Timed(x)
  BY <1>8, <1>9, MeaningIs
<1> QED BY <1>10 DEF Timed

-----------------------------------------------------------------------------
(* The evidence of every journal is what its events mean. *)

LEMMA EvidenceMeant == EvidenceTypeOK => EvidenceIsMeant
<1> SUFFICES ASSUME EvidenceTypeOK PROVE EvidenceIsMeant
  OBVIOUS
<1> DEFINE D == Selected(history)
           s == Loop(history)[Cardinality(D)].seen
           item == Evidence("reflection_completed", "student", confirmed, {0})
           items == Meaning(D) \cup Reflected
<1>1. Sound(D, s)
  BY LoopSound
<1>2. /\ s.output = Meaning(D) /\ IsFiniteSet(Meaning(D)) /\ D \in SUBSET Places
      /\ s = [output |-> s.output, lastAgentEdit |-> s.lastAgentEdit, lastAutocomplete |-> s.lastAutocomplete,
              failed |-> s.failed, attempted |-> s.attempted, planSeen |-> s.planSeen, planApproved |-> s.planApproved,
              learnUsed |-> s.learnUsed, revised |-> s.revised, grouped |-> s.grouped]
  BY <1>1 DEF Sound, IsSeen
<1>3. Reflected = IF confirmed # 0 THEN {item} ELSE {}
  BY DEF Reflected
<1>4. OutputIf(s, confirmed # 0, item).output = items
  <2> HIDE DEF s, D, item
  <2> QED BY <1>2, <1>3 DEF OutputIf
<1>5. deriveLearningEvidence(history, confirmed) = Latest(items)
  BY <1>4 DEF deriveLearningEvidence
<1>6. IsFiniteSet(items)
  <2>1. IsFiniteSet(Reflected)
    BY <1>3, FS_Singleton, FS_EmptySet
  <2> QED BY <2>1, <1>2, FS_Union
<1>7. \A x \in items : x.at \in Nat
  <2>1. \A x \in Meaning(D) : x.at \in Nat
    BY <1>2, MeaningTimes
  <2>2. item.at \in Nat
    BY DEF Evidence, EvidenceTypeOK
  <2> HIDE DEF item, D
  <2> QED BY <2>1, <2>2, <1>3
<1>8. Limited(Latest(items), items)
  <2> HIDE DEF items
  <2> QED BY <1>6, <1>7, LatestIs
<1> QED BY <1>5, <1>8 DEF EvidenceIsMeant, Limited

LEMMA EvidenceStart == EvidenceInit => EvidenceTypeOK
BY EvidenceAssumption DEF EvidenceInit, EvidenceTypeOK

LEMMA EvidenceStep == EvidenceTypeOK /\ [EvidenceNext]_evidenceVars => EvidenceTypeOK'
<1> SUFFICES ASSUME EvidenceTypeOK, [EvidenceNext]_evidenceVars PROVE EvidenceTypeOK'
  OBVIOUS
<1>0. Len(history) \in Nat /\ LastAt \in Nat
  BY Ordered DEF EvidenceTypeOK, LastAt, Places, TimeOf
<1>1. CASE Happen
  <2>1. PICK K \in KindSets : \E type \in K \ {"reflection"}, gap \in Gaps, ours \in BOOLEAN, by \in {"terminal", "chat"}, f \in Files :
          LastAt + gap > 0 /\ history' = Append(history, [type |-> type, file |-> f, at |-> LastAt + gap, ours |-> ours, by |-> by])
    BY <1>1 DEF Happen
  <2>2. PICK type \in K \ {"reflection"}, gap \in Gaps, ours \in BOOLEAN, by \in {"terminal", "chat"}, f \in Files :
          LastAt + gap > 0 /\ history' = Append(history, [type |-> type, file |-> f, at |-> LastAt + gap, ours |-> ours, by |-> by])
    BY <2>1
  <2>3. type \in EventKinds /\ gap \in Int
    BY EvidenceAssumption
  <2> DEFINE e == [type |-> type, file |-> f, at |-> LastAt + gap, ours |-> ours, by |-> by]
  <2>4. e \in HistoryEvent
    BY <2>2, <2>3, <1>0 DEF HistoryEvent
  <2> HIDE DEF e
  <2>5. history' = Append(history, e) /\ Len(history) < MaxEvents /\ confirmed' = confirmed
    BY <2>2, <1>1 DEF e, Happen
  <2>6. history' \in Seq(HistoryEvent) /\ Len(history') = Len(history) + 1
    BY <2>4, <2>5 DEF EvidenceTypeOK
  <2> QED BY <2>5, <2>6, <1>0, EvidenceAssumption DEF EvidenceTypeOK
<1>2. CASE Confirm
  BY <1>0, <1>2 DEF Confirm, EvidenceTypeOK
<1>3. CASE UNCHANGED evidenceVars
  BY <1>3 DEF evidenceVars, EvidenceTypeOK
<1> QED BY <1>1, <1>2, <1>3 DEF EvidenceNext

(* The types of the journal and of the confirmed time hold, and the journal stays within its bound. *)
THEOREM EvidenceTypes == EvidenceSpec => []EvidenceTypeOK
BY EvidenceStart, EvidenceStep, PTL DEF EvidenceSpec

(* Whatever happens in a session, in whatever order its events were stamped,  *)
(* the evidence made of it is what the definition of the categories says, and *)
(* what the limit of the items leaves out is no later than anything kept      *)
(* (deriveLearningEvidence, learning-evidence.ts:34-125).                     *)
THEOREM EvidenceMeans == EvidenceSpec => []EvidenceIsMeant
BY EvidenceStart, EvidenceStep, EvidenceMeant, PTL DEF EvidenceSpec
=============================================================================

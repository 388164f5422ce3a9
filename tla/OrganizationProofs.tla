------------------------- MODULE OrganizationProofs -------------------------
(***************************************************************************)
(* Memberships and ownership under any number of concurrent transactions:  *)
(* OrgInv of OrganizationOwnership is inductive.  It has one part for each  *)
(* function, about what it has written and which locks it holds; a step     *)
(* that is not a commit shows the part of its own transaction again         *)
(* (OnStep, GoStep), and a commit shows that what it changes under its      *)
(* locks (ChangesUnder) leaves the parts of all others true (KindKept).     *)
(***************************************************************************)
EXTENDS OrganizationOwnership, TLAPS

(* A call as one connection executes it: c, what it has written, e and o,   *)
(* and the locks it holds, h and s.                                         *)
IsCall(t, c, e, o, h, s) ==
  /\ tx[t] = c /\ edits[t] = e /\ newOrg[t] = o /\ held[t] = h /\ shared[t] = s
  /\ CallInv(c, e, o, h, s)
  /\ DOMAIN e \subseteq Users /\ \A u \in DOMAIN e : e[u] \in Membership \cup {NoRow}
  /\ o \in Org \cup {NoRow}

Moves(t, c, e, o, h, s) ==
  /\ tx' = [tx EXCEPT ![t] = c] /\ edits' = [edits EXCEPT ![t] = e] /\ newOrg' = [newOrg EXCEPT ![t] = o]
  /\ held' = [held EXCEPT ![t] = h] /\ shared' = [shared EXCEPT ![t] = s]

Writable(e, o) ==
  /\ DOMAIN e \subseteq Users /\ \A u \in DOMAIN e : e[u] \in Membership \cup {NoRow}
  /\ o \in Org \cup {NoRow}

Free(t, h, s) == \A q \in Txns \ {t} : h \cap (held[q] \cup shared[q]) = {} /\ s \cap held[q] = {}

LEMMA CallStays ==
  ASSUME UNCHANGED rows, NEW c, NEW e, NEW o, NEW h, NEW s
  PROVE  CallInv(c, e, o, h, s)' <=> CallInv(c, e, o, h, s)
BY DEF rows, CallInv, CallOK, WritesAreLocked, MemberCall, TransferCall, DeactivateCall, UpdateCall, ClosureCall, IsOwner

LEMMA CallReads ==
  ASSUME NEW q, NEW c, NEW e, NEW o, NEW h, NEW s,
         tx'[q] = c, edits'[q] = e, newOrg'[q] = o, held'[q] = h, shared'[q] = s
  PROVE  CallInv(tx[q], edits[q], newOrg[q], held[q], shared[q])' <=> CallInv(c, e, o, h, s)'
BY DEF CallInv, CallOK, WritesAreLocked, MemberCall, TransferCall, DeactivateCall, UpdateCall, ClosureCall, IsOwner

LEMMA CallAt ==
  ASSUME OrgInv, NEW t \in Txns
  PROVE  (\E c, e, o, h, s : IsCall(t, c, e, o, h, s)) /\ Free(t, held[t], shared[t])
<1>1. PICK c, e, o, h, s : tx[t] = c /\ edits[t] = e /\ newOrg[t] = o /\ held[t] = h /\ shared[t] = s
  OBVIOUS
<1>2. CallInv(c, e, o, h, s)
  BY <1>1 DEF OrgInv
<1>3. IsCall(t, c, e, o, h, s)
  BY <1>1, <1>2 DEF OrgInv, OrgTypeOK, IsCall
<1>4. Free(t, held[t], shared[t])
  BY DEF OrgInv, LocksExclude, Free
<1> QED BY <1>3, <1>4

LEMMA FreeGrows ==
  ASSUME NEW t, NEW h, NEW s, Free(t, h, s), NEW row
  PROVE  /\ CanLock(t, row) => Free(t, h \cup {row}, s)
         /\ CanShare(t, row) => Free(t, h, s \cup {row})
BY DEF Free, CanLock, CanShare

(* The others keep what they have when one call moves on. *)
LEMMA MovesAre ==
  ASSUME OrgInv, NEW t \in Txns, NEW c, NEW e, NEW o, NEW h, NEW s, Moves(t, c, e, o, h, s), CallOK(c), Writable(e, o)
  PROVE  /\ tx'[t] = c /\ edits'[t] = e /\ newOrg'[t] = o /\ held'[t] = h /\ shared'[t] = s
         /\ \A q \in Txns \ {t} : /\ tx'[q] = tx[q] /\ edits'[q] = edits[q] /\ newOrg'[q] = newOrg[q]
                                  /\ held'[q] = held[q] /\ shared'[q] = shared[q]
         /\ tx' = [q \in Txns |-> tx'[q]] /\ edits' = [q \in Txns |-> edits'[q]] /\ newOrg' \in [Txns -> Org \cup {NoRow}]
         /\ held' = [q \in Txns |-> held'[q]] /\ shared' = [q \in Txns |-> shared'[q]]
BY DEF OrgInv, OrgTypeOK, Moves, Writable

LEMMA TypesStay ==
  ASSUME OrgInv, NEW t \in Txns, NEW c, NEW e, NEW o, NEW h, NEW s, Moves(t, c, e, o, h, s), CallOK(c), Writable(e, o),
         org' \in Org, member' \in [Users -> Membership \cup {NoRow}], deleted' \subseteq Users
  PROVE  OrgTypeOK'
<1>1. ASSUME NEW q \in Txns
      PROVE  CallOK(tx[q])' /\ DOMAIN edits'[q] \subseteq Users /\ \A u \in DOMAIN edits'[q] : edits'[q][u] \in Membership \cup {NoRow}
  <2>1. CASE q = t
    BY <2>1, MovesAre DEF CallOK, Writable
  <2>2. CASE q # t
    BY <2>2, MovesAre DEF CallOK, OrgInv, OrgTypeOK
  <2> QED BY <2>1, <2>2
<1> QED BY <1>1, MovesAre DEF OrgTypeOK

LEMMA LocksStay ==
  ASSUME OrgInv, NEW t \in Txns, NEW c, NEW e, NEW o, NEW h, NEW s, Moves(t, c, e, o, h, s), CallOK(c), Writable(e, o), Free(t, h, s)
  PROVE  LocksExclude'
BY MovesAre DEF OrgInv, LocksExclude, Free

LEMMA MoveStep ==
  ASSUME OrgInv, NEW t \in Txns, NEW c, NEW e, NEW o, NEW h, NEW s, Moves(t, c, e, o, h, s), UNCHANGED rows,
         CallInv(c, e, o, h, s), Writable(e, o), Free(t, h, s)
  PROVE  OrgInv'
<1>1. CallOK(c)
  BY DEF CallInv
<1>2. OrgTypeOK'
  <2>1. org' \in Org /\ member' \in [Users -> Membership \cup {NoRow}] /\ deleted' \subseteq Users
    BY DEF rows, OrgInv, OrgTypeOK
  <2> QED BY <1>1, <2>1, TypesStay
<1>3. MembershipKept'
  BY DEF rows, OrgInv, MembershipKept, OneOwner, DeletedHoldsNothing, ClosedIsEmpty
<1>4. LocksExclude'
  BY <1>1, LocksStay
<1>5. ASSUME NEW q \in Txns PROVE CallInv(tx[q], edits[q], newOrg[q], held[q], shared[q])'
  <2>1. CASE q = t
    <3>1. CallInv(c, e, o, h, s)'
      BY CallStays
    <3> QED BY <1>1, <2>1, <3>1, MovesAre, CallReads
  <2>2. CASE q # t
    <3>1. PICK c2, e2, o2, h2, s2 : IsCall(q, c2, e2, o2, h2, s2)
      BY CallAt
    <3>2. CallInv(c2, e2, o2, h2, s2)'
      BY <3>1, CallStays DEF IsCall
    <3>3. tx'[q] = c2 /\ edits'[q] = e2 /\ newOrg'[q] = o2 /\ held'[q] = h2 /\ shared'[q] = s2
      BY <1>1, <2>2, <3>1, MovesAre DEF IsCall
    <3> QED BY <3>2, <3>3, CallReads
  <2> QED BY <2>1, <2>2
<1> QED BY <1>2, <1>3, <1>4, <1>5 DEF OrgInv

LEMMA IdleIs ==
  /\ CallOK(Idle) /\ Idle.pc = "idle" /\ DOMAIN NoRows = {} /\ Writable(NoRows, NoRow)
  /\ \A h, s : CallInv(Idle, NoRows, NoRow, h, s)
<1>1. Idle.pc = "idle" /\ Idle.kind = NoRow
  BY DEF Idle
<1>2. CallOK(Idle)
  BY <1>1, NoRowAssumption DEF Idle, CallOK, PCs, AllKinds
<1>3. DOMAIN NoRows = {}
  BY DEF NoRows
<1> QED BY <1>1, <1>2, <1>3 DEF Writable, CallInv, WritesAreLocked

LEMMA RaiseStep == ASSUME OrgInv, NEW t \in Txns, Raise(t) PROVE OrgInv'
<1>1. Moves(t, Idle, NoRows, NoRow, {}, {}) /\ UNCHANGED rows
  BY DEF Raise, End, Moves
<1>2. Free(t, {}, {})
  BY DEF Free
<1> QED BY <1>1, <1>2, IdleIs, MoveStep

(* How a call goes on: what it is for stays the same. *)
GoesOn(c, d) ==
  /\ CallOK(d) /\ d.kind = c.kind /\ d.actor = c.actor /\ d.user = c.user /\ d.role = c.role /\ d.status = c.status
  /\ c.pc # "idle"

LEMMA GoIs ==
  ASSUME OrgInv, NEW t \in Txns, NEW c, tx[t] = c, CallOK(c), c.pc # "idle", NEW p \in PCs, Go(t, p)
  PROVE  \E d : tx' = [tx EXCEPT ![t] = d] /\ GoesOn(c, d) /\ d.pc = p /\ d.saw = c.saw
<1>1. PICK d : d = [c EXCEPT !.pc = p]
  OBVIOUS
<1>2. tx' = [tx EXCEPT ![t] = d]
  BY <1>1 DEF Go, OrgInv, OrgTypeOK
<1>3. /\ d = [pc |-> p, kind |-> c.kind, actor |-> c.actor, user |-> c.user, role |-> c.role,
              status |-> c.status, as |-> c.as, saw |-> c.saw]
  BY <1>1 DEF CallOK
<1>4. GoesOn(c, d) /\ d.pc = p /\ d.saw = c.saw
  BY <1>3 DEF CallOK, GoesOn
<1> QED BY <1>2, <1>4

RowWritten(t, e, f, u, value) ==
  /\ edits' = [edits EXCEPT ![t] = f] /\ DOMAIN f = DOMAIN e \cup {u} /\ f[u] = value
  /\ \A v \in DOMAIN e \ {u} : f[v] = e[v]

LEMMA WriteRowIs ==
  ASSUME OrgInv, NEW t \in Txns, NEW e, edits[t] = e, NEW u, NEW value, Write(t, Row(u, value))
  PROVE  \E f : RowWritten(t, e, f, u, value)
<1>1. PICK f : f = [v \in DOMAIN e \cup {u} |-> IF v \in {u} THEN value ELSE e[v]]
  OBVIOUS
<1>2. edits' = [edits EXCEPT ![t] = f]
  BY <1>1 DEF Write, Row, OrgInv, OrgTypeOK
<1>3. DOMAIN f = DOMAIN e \cup {u} /\ f[u] = value /\ \A v \in DOMAIN e \ {u} : f[v] = e[v]
  BY <1>1
<1> QED BY <1>2, <1>3 DEF RowWritten

LEMMA Unmoved ==
  ASSUME OrgInv, NEW t \in Txns
  PROVE  /\ tx = [tx EXCEPT ![t] = tx[t]] /\ edits = [edits EXCEPT ![t] = edits[t]] /\ newOrg = [newOrg EXCEPT ![t] = newOrg[t]]
         /\ held = [held EXCEPT ![t] = held[t]] /\ shared = [shared EXCEPT ![t] = shared[t]]
BY DEF OrgInv, OrgTypeOK

LEMMA LockedStill ==
  ASSUME NEW e, NEW h, NEW s, WritesAreLocked(e, h, s), NEW g, NEW r, h \subseteq g, s \subseteq r
  PROVE  WritesAreLocked(e, g, r)
BY DEF WritesAreLocked

(* One more row written under its lock. *)
LEMMA LockedMore ==
  ASSUME NEW e, NEW h, NEW s, WritesAreLocked(e, h, s), NEW g, NEW r, h \subseteq g, s \subseteq r,
         NEW f, NEW u, DOMAIN f = DOMAIN e \cup {u}, \A v \in DOMAIN e \ {u} : f[v] = e[v],
         MemberRow(u) \in g,
         f[u] # NoRow => OrgRow \in g /\ ~ org.closed /\ u \notin deleted /\ (Account(u) \in r \/ member[u] # NoRow)
  PROVE  WritesAreLocked(f, g, r)
BY DEF WritesAreLocked

LEMMA RequestIs ==
  ASSUME NEW c \in Requests, c.kind \in Kinds, c.kind = "transfer" => c.actor # c.user, NEW p \in PCs,
         NEW d, d = [c EXCEPT !.pc = p]
  PROVE  CallOK(d) /\ d.pc = p /\ d.kind = c.kind
<1> DEFINE Of(k, a, u, r, w) == [pc |-> "idle", kind |-> k, actor |-> a, user |-> u, role |-> r, status |-> w, as |-> NoRow, saw |-> NoRow]
<1>1. \A k, a, u, r, w : Call(k, a, u, r, w) = Of(k, a, u, r, w)
  <2> SUFFICES ASSUME NEW k, NEW a, NEW u, NEW r, NEW w PROVE Call(k, a, u, r, w) = Of(k, a, u, r, w)
    OBVIOUS
  <2>1. PICK idle : idle = Idle
    OBVIOUS
  <2>2. idle = Of(NoRow, NoRow, NoRow, NoRow, NoRow)
    BY <2>1 DEF Idle
  <2>3. Call(k, a, u, r, w) = [idle EXCEPT !.kind = k, !.actor = a, !.user = u, !.role = r, !.status = w]
    BY <2>1 DEF Call
  <2> QED BY <2>2, <2>3
<1>2. PICK k, a, u, r, w :
        /\ c = Of(k, a, u, r, w) /\ k \in AllKinds
        /\ k \in AllKinds \ {"update"} => u \in Users
        /\ k = "edit" => r \in {"admin", "teacher"}
        /\ k = "appoint" => r \in {"admin", NoRow}
        /\ k \in {"edit", "appoint", "update"} => w \in {"active", "suspended"}
        /\ k = "transfer" => a \in Users
  <2> HIDE DEF Of
  <2>1. CASE c \in {Call("edit", a, u, r, w) : a \in Users, u \in Users, r \in {"admin", "teacher"}, w \in {"active", "suspended"}}
    BY <1>1, <2>1 DEF AllKinds
  <2>2. CASE c \in {Call("remove", a, u, NoRow, NoRow) : a \in Users, u \in Users}
    BY <1>1, <2>2 DEF AllKinds
  <2>3. CASE c \in {Call("transfer", a, u, NoRow, NoRow) : a \in Users, u \in Users}
    BY <1>1, <2>3 DEF AllKinds
  <2>4. CASE c \in {Call("deactivate", a, a, NoRow, NoRow) : a \in Users}
    BY <1>1, <2>4 DEF AllKinds
  <2>5. CASE c \in {Call("leave", a, a, NoRow, NoRow) : a \in Users}
    BY <1>1, <2>5 DEF AllKinds
  <2>6. CASE c \in {Call("delete", NoRow, u, NoRow, NoRow) : u \in Users}
    BY <1>1, <2>6 DEF AllKinds
  <2>7. CASE c \in {Call("appoint", NoRow, u, r, "active") : u \in Users, r \in {"admin", NoRow}}
    BY <1>1, <2>7 DEF AllKinds
  <2>8. CASE c \in {Call("update", NoRow, NoRow, NoRow, w) : w \in {"active", "suspended"}}
    BY <1>1, <2>8 DEF AllKinds
  <2> QED BY <2>1, <2>2, <2>3, <2>4, <2>5, <2>6, <2>7, <2>8 DEF Requests
<1>4. d = [pc |-> p, kind |-> k, actor |-> a, user |-> u, role |-> r, status |-> w, as |-> NoRow, saw |-> NoRow]
  BY <1>2
<1>5. c.kind = k /\ c.actor = a /\ c.user = u
  BY <1>2
<1>6. CallOK(d)
  BY <1>2, <1>4, <1>5, NoRowAssumption DEF CallOK
<1> QED BY <1>4, <1>5, <1>6

LEMMA BeginsStep == ASSUME OrgInv, NEW t \in Txns, NEW c \in Requests, Begin(t, c) PROVE OrgInv'
<1>1. PICK b, e, o, h, s : IsCall(t, b, e, o, h, s)
  BY CallAt
<1>2. PICK p \in {"account", "organization"} : p = IF c.kind \in {"leave", "delete"} THEN "account" ELSE "organization"
  OBVIOUS
<1>3. PICK d : d = [c EXCEPT !.pc = p]
  OBVIOUS
<1>4. tx' = [tx EXCEPT ![t] = d] /\ c.kind \in Kinds /\ (c.kind = "transfer" => c.actor # c.user) /\ b.pc = "idle"
      /\ UNCHANGED <<rows, edits, newOrg, held, shared>>
  BY <1>1, <1>2, <1>3 DEF Begin, IsCall
<1>5. CallOK(d) /\ d.pc = p /\ d.kind = c.kind
  BY <1>2, <1>3, <1>4, RequestIs DEF PCs
<1>6. DOMAIN e = {} /\ o = NoRow /\ WritesAreLocked(e, h, s) /\ Writable(e, o)
  BY <1>1, <1>4 DEF IsCall, CallInv, Writable
<1>7. CallInv(d, e, o, h, s)
  BY <1>2, <1>5, <1>6 DEF CallInv, MemberCall, TransferCall, DeactivateCall, UpdateCall, ClosureCall
<1>8. Moves(t, d, e, o, h, s) /\ UNCHANGED rows
  BY <1>1, <1>4, Unmoved DEF Moves, IsCall
<1>9. Free(t, h, s)
  BY <1>1, CallAt DEF IsCall
<1> QED BY <1>6, <1>7, <1>8, <1>9, MoveStep

KindInv(c, e, o, h) ==
  /\ c.kind \in {"edit", "appoint", "remove"} => MemberCall(c, e, o, h)
  /\ c.kind = "transfer" => TransferCall(c, e, o, h)
  /\ c.kind = "deactivate" => DeactivateCall(c, e, o, h)
  /\ c.kind = "update" => UpdateCall(c, e, o, h)
  /\ c.kind \in {"leave", "delete"} => ClosureCall(c, e, o, h)

(* One statement of a call: what it leaves is all there is to show. *)
LEMMA OnStep ==
  ASSUME OrgInv, NEW t \in Txns, NEW c, NEW d, NEW f, NEW n, NEW g, NEW r, GoesOn(c, d), d.pc # "idle", UNCHANGED rows,
         Moves(t, d, f, n, g, r), Writable(f, n), Free(t, g, r), WritesAreLocked(f, g, r), KindInv(d, f, n, g)
  PROVE  OrgInv'
<1>1. CallInv(d, f, n, g, r)
  BY DEF CallInv, GoesOn, KindInv
<1> QED BY <1>1, MoveStep

LEMMA GoStep ==
  ASSUME OrgInv, NEW t \in Txns, NEW c, NEW e, NEW o, NEW h, NEW s, IsCall(t, c, e, o, h, s),
         NEW p \in PCs \ {"idle"}, Go(t, p), c.pc # "idle", UNCHANGED rows,
         NEW f, NEW n, NEW g, NEW r,
         edits' = [edits EXCEPT ![t] = f], newOrg' = [newOrg EXCEPT ![t] = n],
         held' = [held EXCEPT ![t] = g], shared' = [shared EXCEPT ![t] = r],
         Writable(f, n), Free(t, g, r), WritesAreLocked(f, g, r),
         \A d : GoesOn(c, d) /\ d.pc = p /\ d.saw = c.saw => KindInv(d, f, n, g)
  PROVE  OrgInv'
<1>1. PICK d : tx' = [tx EXCEPT ![t] = d] /\ GoesOn(c, d) /\ d.pc = p /\ d.saw = c.saw
  BY GoIs DEF IsCall, CallInv
<1>2. Moves(t, d, f, n, g, r) /\ d.pc # "idle" /\ KindInv(d, f, n, g)
  BY <1>1 DEF Moves
<1> QED BY <1>1, <1>2, OnStep

(* What is known of a call before its statement. *)
LEMMA CallKnows ==
  ASSUME NEW t, NEW c, NEW e, NEW o, NEW h, NEW s, IsCall(t, c, e, o, h, s), c.pc # "idle"
  PROVE  /\ CallOK(c) /\ WritesAreLocked(e, h, s) /\ Writable(e, o) /\ KindInv(c, e, o, h)
         /\ tx[t] = c /\ edits[t] = e /\ newOrg[t] = o /\ held[t] = h /\ shared[t] = s
BY DEF IsCall, CallInv, KindInv, Writable

LEMMA LockOrganizationStep == ASSUME OrgInv, NEW t \in Txns, LockOrganization(t) PROVE OrgInv'
<1>1. PICK c, e, o, h, s : IsCall(t, c, e, o, h, s)
  BY CallAt
<1>2. c.kind \in {"edit", "remove", "transfer", "deactivate", "appoint"} /\ c.pc = "organization" /\ CanLock(t, OrgRow)
  BY <1>1 DEF LockOrganization, At, IsCall
<1>3. CASE Raise(t)
  BY <1>3, RaiseStep
<1>4. CASE ~ Raise(t)
  <2>1. PICK p \in {"read", "authorize"} : Go(t, p)
    BY <1>4 DEF LockOrganization
  <2>2. PICK g : g = h \cup {OrgRow}
    OBVIOUS
  <2>3. /\ edits' = [edits EXCEPT ![t] = e] /\ newOrg' = [newOrg EXCEPT ![t] = o]
        /\ held' = [held EXCEPT ![t] = g] /\ shared' = [shared EXCEPT ![t] = s] /\ UNCHANGED rows
    BY <1>1, <1>4, <2>2, Unmoved DEF LockOrganization, Lock, IsCall, OrgInv, OrgTypeOK
  <2>4. WritesAreLocked(e, g, s) /\ Writable(e, o) /\ KindInv(c, e, o, h)
    BY <1>1, <1>2, <2>2, CallKnows, LockedStill
  <2>5. ASSUME NEW d, GoesOn(c, d), d.pc = p, d.saw = c.saw PROVE KindInv(d, e, o, g)
    BY <1>2, <2>2, <2>4, <2>5 DEF KindInv, GoesOn, MemberCall, TransferCall, DeactivateCall
  <2>6. Free(t, g, s)
    BY <1>1, <1>2, <2>2, CallAt, FreeGrows DEF IsCall
  <2>7. p \in PCs \ {"idle"} /\ c.pc # "idle"
    BY <1>2, <2>1 DEF PCs
  <2> QED BY <1>1, <2>1, <2>3, <2>4, <2>5, <2>6, <2>7, GoStep
<1> QED BY <1>3, <1>4

LEMMA AuthorizeStep == ASSUME OrgInv, NEW t \in Txns, Authorize(t) PROVE OrgInv'
<1>1. PICK c, e, o, h, s : IsCall(t, c, e, o, h, s)
  BY CallAt
<1>2. c.kind \in {"edit", "remove", "transfer", "deactivate"} /\ c.pc = "authorize" /\ tx[t] = c
  BY <1>1 DEF Authorize, At, IsCall
<1>3. CASE Raise(t)
  BY <1>3, RaiseStep
<1>4. CASE ~ Raise(t)
  <2>1. PICK role : role = RoleOf(c.actor)
    OBVIOUS
  <2>2. PICK p \in {"close", "target"} : p = IF c.kind = "deactivate" THEN "close" ELSE "target"
    OBVIOUS
  <2>3. PICK d : d = [c EXCEPT !.as = role, !.pc = p]
    OBVIOUS
  <2>4. tx' = [tx EXCEPT ![t] = d] /\ UNCHANGED <<rows, edits, newOrg, held, shared>> /\ (c.kind = "transfer" => role = "owner")
    BY <1>2, <1>4, <2>1, <2>2, <2>3 DEF Authorize, OrgInv, OrgTypeOK
  <2>5. CallOK(c) /\ WritesAreLocked(e, h, s) /\ Writable(e, o) /\ KindInv(c, e, o, h)
    BY <1>1, <1>2, CallKnows
  <2>6. /\ d = [pc |-> p, kind |-> c.kind, actor |-> c.actor, user |-> c.user, role |-> c.role,
                status |-> c.status, as |-> role, saw |-> c.saw]
    BY <2>3, <2>5 DEF CallOK
  <2>7. GoesOn(c, d) /\ d.pc = p
    BY <1>2, <2>2, <2>5, <2>6 DEF CallOK, GoesOn, PCs
  <2>8. ASSUME c.kind = "transfer" PROVE ~ org.closed /\ \A u \in Users : IsOwner(u) => u = c.actor
    <3>1. role = "owner" /\ NoRow # "owner" /\ c.actor \in Users
      BY <2>4, <2>5, <2>8, NoRowAssumption DEF CallOK
    <3>2. Operating(org) /\ IsOwner(c.actor)
      BY <2>1, <3>1 DEF RoleOf, IsOwner
    <3> QED BY <3>1, <3>2 DEF OrgInv, MembershipKept, OneOwner, IsOwner, Operating
  <2>9. KindInv(d, e, o, h)
    BY <1>2, <2>2, <2>5, <2>7, <2>8 DEF KindInv, GoesOn, MemberCall, TransferCall, DeactivateCall
  <2>10. Moves(t, d, e, o, h, s) /\ UNCHANGED rows /\ Free(t, h, s)
    BY <1>1, <2>4, Unmoved, CallAt DEF IsCall, Moves
  <2> QED BY <2>2, <2>5, <2>7, <2>9, <2>10, OnStep
<1> QED BY <1>3, <1>4

(* A target's row is locked where there is one. *)
LEMMA LockTargetIs ==
  ASSUME OrgInv, NEW t \in Txns, NEW c, NEW e, NEW o, NEW h, NEW s, IsCall(t, c, e, o, h, s), LockTarget(t)
  PROVE  \E g : /\ held' = [held EXCEPT ![t] = g] /\ h \subseteq g /\ Free(t, g, s)
                /\ member[c.user] # NoRow => MemberRow(c.user) \in g
<1>1. CASE member[c.user] = NoRow
  <2>1. held' = [held EXCEPT ![t] = h] /\ Free(t, h, s)
    BY <1>1, Unmoved, CallAt DEF LockTarget, IsCall
  <2> QED BY <1>1, <2>1
<1>2. CASE member[c.user] # NoRow
  <2>1. PICK g : g = h \cup {MemberRow(c.user)}
    OBVIOUS
  <2>2. held' = [held EXCEPT ![t] = g] /\ Free(t, g, s)
    BY <1>2, <2>1, CallAt, FreeGrows DEF LockTarget, IsCall, OrgInv, OrgTypeOK
  <2>3. h \subseteq g /\ MemberRow(c.user) \in g
    BY <2>1
  <2> QED BY <2>2, <2>3
<1> QED BY <1>1, <1>2

LEMMA EditTargetStep == ASSUME OrgInv, NEW t \in Txns, EditTarget(t) PROVE OrgInv'
<1>1. PICK c, e, o, h, s : IsCall(t, c, e, o, h, s)
  BY CallAt
<1>2. c.kind = "edit" /\ c.pc = "target" /\ tx[t] = c
  BY <1>1 DEF EditTarget, At, IsCall
<1>3. CASE Raise(t)
  BY <1>3, RaiseStep
<1>4. CASE ~ Raise(t)
  <2>1. Go(t, "insert") /\ LockTarget(t) /\ UNCHANGED <<rows, edits, newOrg, shared>> /\ ~ Protected(t, c.user)
    BY <1>2, <1>4 DEF EditTarget, LockTarget
  <2>2. PICK g : held' = [held EXCEPT ![t] = g] /\ h \subseteq g /\ Free(t, g, s)
    BY <1>1, <2>1, LockTargetIs
  <2>3. edits' = [edits EXCEPT ![t] = e] /\ newOrg' = [newOrg EXCEPT ![t] = o] /\ shared' = [shared EXCEPT ![t] = s] /\ UNCHANGED rows
    BY <1>1, <2>1, Unmoved DEF IsCall
  <2>4. CallOK(c) /\ WritesAreLocked(e, g, s) /\ Writable(e, o) /\ KindInv(c, e, o, h)
    BY <1>1, <1>2, <2>2, CallKnows, LockedStill
  <2>5. ASSUME NEW d, GoesOn(c, d), d.pc = "insert", d.saw = c.saw PROVE KindInv(d, e, o, g)
    <3>1. ~ IsOwner(c.user) /\ c.role # NoRow
      BY <1>2, <2>1, <2>4, NoRowAssumption DEF Protected, IsOwner, CallOK
    <3> QED BY <1>2, <2>2, <2>4, <2>5, <3>1 DEF KindInv, GoesOn, MemberCall, IsOwner
  <2>6. "insert" \in PCs \ {"idle"} /\ c.pc # "idle"
    BY <1>2 DEF PCs
  <2> QED BY <1>1, <2>1, <2>2, <2>3, <2>4, <2>5, <2>6, GoStep
<1> QED BY <1>3, <1>4

(* A row written with its lock, or none where there is no row. *)
LEMMA RemoveTargetStep == ASSUME OrgInv, NEW t \in Txns, RemoveTarget(t) PROVE OrgInv'
<1>1. PICK c, e, o, h, s : IsCall(t, c, e, o, h, s)
  BY CallAt
<1>2. c.kind = "remove" /\ c.pc = "target" /\ tx[t] = c
  BY <1>1 DEF RemoveTarget, At, IsCall
<1>3. CASE Raise(t)
  BY <1>3, RaiseStep
<1>4. CASE ~ Raise(t)
  <2>1. /\ Go(t, "check") /\ LockTarget(t) /\ UNCHANGED <<rows, newOrg, shared>> /\ ~ Protected(t, c.user)
        /\ IF member[c.user] = NoRow THEN edits' = edits ELSE Write(t, Row(c.user, NoRow))
    BY <1>2, <1>4 DEF RemoveTarget, LockTarget
  <2>2. PICK g : held' = [held EXCEPT ![t] = g] /\ h \subseteq g /\ Free(t, g, s) /\ (member[c.user] # NoRow => MemberRow(c.user) \in g)
    BY <1>1, <2>1, LockTargetIs
  <2>3. newOrg' = [newOrg EXCEPT ![t] = o] /\ shared' = [shared EXCEPT ![t] = s] /\ UNCHANGED rows
    BY <1>1, <2>1, Unmoved DEF IsCall
  <2>4. CallOK(c) /\ WritesAreLocked(e, h, s) /\ Writable(e, o) /\ KindInv(c, e, o, h) /\ c.user \in Users
    BY <1>1, <1>2, CallKnows DEF CallOK, AllKinds
  <2>5. PICK f : /\ edits' = [edits EXCEPT ![t] = f] /\ WritesAreLocked(f, g, s) /\ DOMAIN f \subseteq DOMAIN e \cup {c.user}
                 /\ f[c.user] = NoRow \/ DOMAIN f = DOMAIN e
                 /\ \A v \in DOMAIN f : f[v] = NoRow \/ (v \in DOMAIN e /\ f[v] = e[v])
    <3>1. CASE member[c.user] = NoRow
      BY <1>1, <2>1, <2>2, <2>4, <3>1, Unmoved, LockedStill DEF IsCall
    <3>2. CASE member[c.user] # NoRow
      <4>1. PICK f : RowWritten(t, e, f, c.user, NoRow)
        <5>1. edits[t] = e /\ Write(t, Row(c.user, NoRow))
          BY <1>1, <2>1, <3>2 DEF IsCall
        <5> QED BY <5>1, WriteRowIs
      <4>2. WritesAreLocked(f, g, s)
        BY <2>2, <2>4, <3>2, <4>1, LockedMore DEF RowWritten
      <4> QED BY <4>1, <4>2 DEF RowWritten
    <3> QED BY <3>1, <3>2
  <2>6. Writable(f, o)
    BY <2>4, <2>5 DEF Writable
  <2>7. ASSUME NEW d, GoesOn(c, d), d.pc = "check", d.saw = c.saw PROVE KindInv(d, f, o, g)
    <3>1. ~ IsOwner(c.user)
      BY <2>1 DEF Protected, IsOwner
    <3> QED BY <1>2, <2>2, <2>4, <2>5, <2>7, <3>1 DEF KindInv, GoesOn, MemberCall, IsOwner
  <2>8. "check" \in PCs \ {"idle"} /\ c.pc # "idle"
    BY <1>2 DEF PCs
  <2>9. Go(t, "check") /\ held' = [held EXCEPT ![t] = g] /\ Free(t, g, s) /\ edits' = [edits EXCEPT ![t] = f] /\ WritesAreLocked(f, g, s)
    BY <2>1, <2>2, <2>5
  <2> QED BY <1>1, <2>3, <2>6, <2>7, <2>8, <2>9, GoStep
<1> QED BY <1>3, <1>4

LEMMA PromoteStep == ASSUME OrgInv, NEW t \in Txns, Promote(t) PROVE OrgInv'
<1>1. PICK c, e, o, h, s : IsCall(t, c, e, o, h, s)
  BY CallAt
<1>2. c.kind \in {"transfer"} /\ c.pc = "target" /\ tx[t] = c
  BY <1>1 DEF Promote, At, IsCall
<1>3. /\ CallOK(c) /\ WritesAreLocked(e, h, s) /\ Writable(e, o) /\ KindInv(c, e, o, h)
      /\ edits[t] = e /\ newOrg[t] = o /\ held[t] = h /\ shared[t] = s /\ Free(t, h, s)
  BY <1>1, <1>2, CallKnows, CallAt
<1>4. CASE Raise(t)
  BY <1>4, RaiseStep
<1>5. CASE ~ Raise(t)
  <2>1. PICK u \in Users : u = c.user /\ u # c.actor
    BY <1>2, <1>3 DEF CallOK, AllKinds
  <2>2. /\ Go(t, "demote") /\ LockTarget(t) /\ UNCHANGED <<rows, newOrg, shared>> /\ member[u] # NoRow
        /\ Write(t, Row(u, [role |-> "owner", status |-> "active"]))
    BY <1>2, <1>5, <2>1 DEF Promote
  <2>3. PICK g : held' = [held EXCEPT ![t] = g] /\ h \subseteq g /\ Free(t, g, s) /\ MemberRow(u) \in g
    BY <1>1, <2>1, <2>2, LockTargetIs
  <2>4. PICK f : RowWritten(t, e, f, u, [role |-> "owner", status |-> "active"])
    BY <1>3, <2>2, WriteRowIs
  <2>5. newOrg' = [newOrg EXCEPT ![t] = o] /\ shared' = [shared EXCEPT ![t] = s] /\ UNCHANGED rows /\ edits' = [edits EXCEPT ![t] = f]
    BY <1>3, <2>2, <2>4, Unmoved DEF RowWritten
  <2>6. OrgRow \in h /\ ~ org.closed /\ u \notin deleted /\ DOMAIN e = {}
    BY <1>2, <1>3, <2>1, <2>2 DEF KindInv, TransferCall, OrgInv, MembershipKept, DeletedHoldsNothing
  <2>7. WritesAreLocked(f, g, s) /\ Writable(f, o)
    <3>1. WritesAreLocked(f, g, s)
      BY <1>3, <2>2, <2>3, <2>4, <2>6, LockedMore DEF RowWritten
    <3>2. Writable(f, o)
      BY <1>3, <2>1, <2>4 DEF Writable, RowWritten, Membership, Roles
    <3> QED BY <3>1, <3>2
  <2>8. "demote" \in PCs \ {"idle"} /\ c.pc # "idle"
    BY <1>2 DEF PCs
  <2>9. ASSUME NEW d, GoesOn(c, d), d.pc = "demote", d.saw = c.saw PROVE KindInv(d, f, o, g)
    BY <1>2, <1>3, <2>1, <2>3, <2>4, <2>6, <2>9 DEF KindInv, GoesOn, TransferCall, RowWritten
  <2>10. Go(t, "demote") /\ held' = [held EXCEPT ![t] = g] /\ Free(t, g, s)
    BY <2>2, <2>3
  <2> QED BY <1>1, <2>5, <2>7, <2>8, <2>9, <2>10, GoStep
<1> QED BY <1>4, <1>5

LEMMA DemoteStep == ASSUME OrgInv, NEW t \in Txns, Demote(t) PROVE OrgInv'
<1>1. PICK c, e, o, h, s : IsCall(t, c, e, o, h, s)
  BY CallAt
<1>2. c.kind \in {"transfer"} /\ c.pc = "demote" /\ tx[t] = c
  BY <1>1 DEF Demote, At, IsCall
<1>3. /\ CallOK(c) /\ WritesAreLocked(e, h, s) /\ Writable(e, o) /\ KindInv(c, e, o, h)
      /\ edits[t] = e /\ newOrg[t] = o /\ held[t] = h /\ shared[t] = s /\ Free(t, h, s)
  BY <1>1, <1>2, CallKnows, CallAt
<1>4. PICK u \in Users : u = c.actor /\ u # c.user
  BY <1>2, <1>3 DEF CallOK
<1>5. /\ Go(t, "check") /\ CanLock(t, MemberRow(u)) /\ Lock(t, MemberRow(u)) /\ UNCHANGED <<rows, newOrg, shared>>
      /\ IF member[u] = NoRow THEN edits' = edits ELSE Write(t, Row(u, [role |-> "admin", status |-> "active"]))
  BY <1>2, <1>4 DEF Demote
<1>6. PICK g : g = h \cup {MemberRow(u)}
  OBVIOUS
<1>7. held' = [held EXCEPT ![t] = g] /\ Free(t, g, s) /\ h \subseteq g /\ MemberRow(u) \in g
  BY <1>3, <1>5, <1>6, FreeGrows DEF Lock, OrgInv, OrgTypeOK
<1>8. /\ OrgRow \in h /\ ~ org.closed /\ DOMAIN e = {c.user} /\ e[c.user] = [role |-> "owner", status |-> "active"]
      /\ o = NoRow /\ \A v \in Users : IsOwner(v) => v = u
  BY <1>2, <1>3, <1>4 DEF KindInv, TransferCall
<1>9. PICK f : /\ edits' = [edits EXCEPT ![t] = f] /\ DOMAIN f \subseteq {c.user, u} /\ c.user \in DOMAIN f
               /\ f[c.user] = [role |-> "owner", status |-> "active"]
               /\ IF u \in DOMAIN f THEN f[u] = [role |-> "admin", status |-> "active"] ELSE member[u] = NoRow
               /\ WritesAreLocked(f, g, s) /\ Writable(f, o)
  <2>1. CASE member[u] = NoRow
    BY <1>3, <1>4, <1>5, <1>7, <1>8, <2>1, Unmoved, LockedStill
  <2>2. CASE member[u] # NoRow
    <3>1. PICK f : RowWritten(t, e, f, u, [role |-> "admin", status |-> "active"])
      BY <1>3, <1>5, <2>2, WriteRowIs
    <3>2. u \notin deleted
      BY <2>2 DEF OrgInv, MembershipKept, DeletedHoldsNothing
    <3>3. WritesAreLocked(f, g, s)
      BY <1>3, <1>7, <1>8, <2>2, <3>1, <3>2, LockedMore DEF RowWritten
    <3>4. Writable(f, o)
      BY <1>3, <1>4, <3>1 DEF Writable, RowWritten, Membership, Roles
    <3> QED BY <1>4, <1>8, <3>1, <3>3, <3>4 DEF RowWritten
  <2> QED BY <2>1, <2>2
<1>10. newOrg' = [newOrg EXCEPT ![t] = o] /\ shared' = [shared EXCEPT ![t] = s] /\ UNCHANGED rows
  BY <1>3, <1>5, Unmoved
<1>11. ASSUME NEW d, GoesOn(c, d), d.pc = "check", d.saw = c.saw PROVE KindInv(d, f, o, g)
  BY <1>2, <1>4, <1>7, <1>8, <1>9, <1>11 DEF KindInv, GoesOn, TransferCall
<1>12. "check" \in PCs \ {"idle"} /\ c.pc # "idle"
  BY <1>2 DEF PCs
<1>13. Go(t, "check") /\ edits' = [edits EXCEPT ![t] = f] /\ WritesAreLocked(f, g, s) /\ Writable(f, o)
  BY <1>5, <1>9
<1> QED BY <1>1, <1>7, <1>10, <1>11, <1>12, <1>13, GoStep

LEMMA ReadRoleStep == ASSUME OrgInv, NEW t \in Txns, ReadRole(t) PROVE OrgInv'
<1>1. PICK c, e, o, h, s : IsCall(t, c, e, o, h, s)
  BY CallAt
<1>2. c.kind \in {"appoint"} /\ c.pc = "read" /\ tx[t] = c
  BY <1>1 DEF ReadRole, At, IsCall
<1>3. /\ CallOK(c) /\ WritesAreLocked(e, h, s) /\ Writable(e, o) /\ KindInv(c, e, o, h)
      /\ edits[t] = e /\ newOrg[t] = o /\ held[t] = h /\ shared[t] = s /\ Free(t, h, s)
  BY <1>1, <1>2, CallKnows, CallAt
<1>4. CASE Raise(t)
  BY <1>4, RaiseStep
<1>5. CASE ~ Raise(t)
  <2>1. PICK p \in {"insert", "row", "check"} : Go(t, p) /\ (p = "insert" => c.role # NoRow)
    BY <1>2, <1>5 DEF ReadRole
  <2>2. UNCHANGED <<rows, edits, newOrg, held, shared>> /\ ~ IsOwner(c.user)
    BY <1>2, <1>5 DEF ReadRole, IsOwner
  <2>3. /\ edits' = [edits EXCEPT ![t] = e] /\ newOrg' = [newOrg EXCEPT ![t] = o]
        /\ held' = [held EXCEPT ![t] = h] /\ shared' = [shared EXCEPT ![t] = s] /\ UNCHANGED rows
    BY <1>3, <2>2, Unmoved
  <2>4. ASSUME NEW d, GoesOn(c, d), d.pc = p, d.saw = c.saw PROVE KindInv(d, e, o, h)
    BY <1>2, <1>3, <2>1, <2>2, <2>4 DEF KindInv, GoesOn, MemberCall, IsOwner
  <2>5. p \in PCs \ {"idle"} /\ c.pc # "idle"
    BY <1>2, <2>1 DEF PCs
  <2>6. Go(t, p) /\ WritesAreLocked(e, h, s) /\ Writable(e, o) /\ Free(t, h, s)
    BY <1>3, <2>1
  <2> QED BY <1>1, <2>3, <2>4, <2>5, <2>6, GoStep
<1> QED BY <1>4, <1>5

LEMMA InsertStep == ASSUME OrgInv, NEW t \in Txns, Insert(t) PROVE OrgInv'
<1>1. PICK c, e, o, h, s : IsCall(t, c, e, o, h, s)
  BY CallAt
<1>2. c.kind \in {"edit", "appoint"} /\ c.pc = "insert" /\ tx[t] = c
  BY <1>1 DEF Insert, At, IsCall
<1>3. /\ CallOK(c) /\ WritesAreLocked(e, h, s) /\ Writable(e, o) /\ KindInv(c, e, o, h)
      /\ edits[t] = e /\ newOrg[t] = o /\ held[t] = h /\ shared[t] = s /\ Free(t, h, s)
  BY <1>1, <1>2, CallKnows, CallAt
<1>4. CASE Raise(t)
  BY <1>4, RaiseStep
<1>5. CASE ~ Raise(t)
  <2>1. PICK u \in Users : u = c.user
    BY <1>2, <1>3 DEF CallOK, AllKinds
  <2>2. /\ CanShare(t, Account(u)) /\ CanShare(t, OrgRow) /\ CanLock(t, MemberRow(u)) /\ u \notin deleted /\ ~ org.closed
        /\ Lock(t, MemberRow(u)) /\ shared' = [shared EXCEPT ![t] = @ \cup {Account(u), OrgRow}]
        /\ Write(t, Row(u, [role |-> c.role, status |-> c.status])) /\ Go(t, "check") /\ UNCHANGED <<rows, newOrg>>
    BY <1>2, <1>5, <2>1 DEF Insert
  <2>3. PICK g : g = h \cup {MemberRow(u)}
    OBVIOUS
  <2>4. PICK r : r = (s \cup {Account(u)}) \cup {OrgRow}
    OBVIOUS
  <2>5. /\ held' = [held EXCEPT ![t] = g] /\ shared' = [shared EXCEPT ![t] = r] /\ newOrg' = [newOrg EXCEPT ![t] = o]
        /\ UNCHANGED rows /\ h \subseteq g /\ s \subseteq r /\ MemberRow(u) \in g /\ Account(u) \in r
    <3>1. held' = [held EXCEPT ![t] = g]
      BY <1>3, <2>2, <2>3 DEF Lock, OrgInv, OrgTypeOK
    <3>2. shared' = [shared EXCEPT ![t] = r]
      <4>1. s \cup {Account(u), OrgRow} = r
        BY <2>4
      <4> QED BY <1>3, <2>2, <4>1 DEF OrgInv, OrgTypeOK
    <3> QED BY <1>3, <2>2, <2>3, <2>4, <3>1, <3>2, Unmoved
  <2>6. Free(t, g, r)
    <3>1. Free(t, g, s)
      BY <1>3, <2>2, <2>3, FreeGrows
    <3>2. Free(t, g, s \cup {Account(u)})
      BY <2>2, <3>1, FreeGrows
    <3> QED BY <2>2, <2>4, <3>2, FreeGrows
  <2>7. PICK f : RowWritten(t, e, f, u, [role |-> c.role, status |-> c.status])
    BY <1>3, <2>2, WriteRowIs
  <2>8. OrgRow \in h /\ c.role \in {"admin", "teacher"} /\ c.status \in {"active", "suspended"} /\ o = NoRow
        /\ DOMAIN e \subseteq {u} /\ ~ IsOwner(u)
    BY <1>2, <1>3, <2>1 DEF KindInv, MemberCall, CallOK, IsOwner
  <2>9. WritesAreLocked(f, g, r)
    BY <1>3, <2>2, <2>5, <2>7, <2>8, LockedMore DEF RowWritten
  <2>10. Writable(f, o)
    BY <1>3, <2>1, <2>7, <2>8 DEF Writable, RowWritten, Membership, Roles
  <2>11. ASSUME NEW d, GoesOn(c, d), d.pc = "check", d.saw = c.saw PROVE KindInv(d, f, o, g)
    <3>1. DOMAIN f = {u} /\ f[u].role # "owner"
      BY <2>7, <2>8 DEF RowWritten
    <3> QED BY <1>2, <2>1, <2>5, <2>8, <2>11, <3>1 DEF KindInv, GoesOn, MemberCall, IsOwner
  <2>12. "check" \in PCs \ {"idle"} /\ c.pc # "idle" /\ edits' = [edits EXCEPT ![t] = f]
    BY <1>2, <2>7 DEF PCs, RowWritten
  <2>13. /\ Go(t, "check") /\ held' = [held EXCEPT ![t] = g] /\ shared' = [shared EXCEPT ![t] = r] /\ newOrg' = [newOrg EXCEPT ![t] = o]
         /\ UNCHANGED rows
    BY <2>2, <2>5
  <2> QED BY <1>1, <2>6, <2>9, <2>10, <2>11, <2>12, <2>13, GoStep
<1> QED BY <1>4, <1>5

LEMMA UpdateOrganizationStep == ASSUME OrgInv, NEW t \in Txns, UpdateOrganization(t) PROVE OrgInv'
<1>1. PICK c, e, o, h, s : IsCall(t, c, e, o, h, s)
  BY CallAt
<1>2. c.kind \in {"update"} /\ c.pc = "organization" /\ tx[t] = c
  BY <1>1 DEF UpdateOrganization, At, IsCall
<1>3. /\ CallOK(c) /\ WritesAreLocked(e, h, s) /\ Writable(e, o) /\ KindInv(c, e, o, h)
      /\ edits[t] = e /\ newOrg[t] = o /\ held[t] = h /\ shared[t] = s /\ Free(t, h, s)
  BY <1>1, <1>2, CallKnows, CallAt
<1>4. CASE Raise(t)
  BY <1>4, RaiseStep
<1>5. CASE ~ Raise(t)
  <2>1. /\ CanLock(t, OrgRow) /\ Lock(t, OrgRow) /\ Go(t, "check") /\ UNCHANGED <<rows, edits, shared>> /\ ~ org.closed
        /\ newOrg' = [newOrg EXCEPT ![t] = [org EXCEPT !.status = c.status]]
    BY <1>2, <1>5 DEF UpdateOrganization
  <2>2. PICK n : n = [org EXCEPT !.status = c.status]
    OBVIOUS
  <2>3. n \in Org /\ ~ n.closed
    BY <1>2, <1>3, <2>1, <2>2 DEF OrgInv, OrgTypeOK, Org, CallOK
  <2>4. PICK g : g = h \cup {OrgRow}
    OBVIOUS
  <2>5. /\ edits' = [edits EXCEPT ![t] = e] /\ newOrg' = [newOrg EXCEPT ![t] = n]
        /\ held' = [held EXCEPT ![t] = g] /\ shared' = [shared EXCEPT ![t] = s] /\ UNCHANGED rows
    BY <1>3, <2>1, <2>2, <2>4, Unmoved DEF Lock, OrgInv, OrgTypeOK
  <2>6. Free(t, g, s) /\ WritesAreLocked(e, g, s) /\ Writable(e, n)
    BY <1>3, <2>1, <2>3, <2>4, FreeGrows, LockedStill DEF Writable
  <2>7. ASSUME NEW d, GoesOn(c, d), d.pc = "check", d.saw = c.saw PROVE KindInv(d, e, n, g)
    BY <1>2, <1>3, <2>1, <2>3, <2>4, <2>7 DEF KindInv, GoesOn, UpdateCall
  <2>8. "check" \in PCs \ {"idle"} /\ c.pc # "idle"
    BY <1>2 DEF PCs
  <2>9. Go(t, "check")
    BY <2>1
  <2> QED BY <1>1, <2>5, <2>6, <2>7, <2>8, <2>9, GoStep
<1> QED BY <1>4, <1>5

LEMMA CloseOrganizationStep == ASSUME OrgInv, NEW t \in Txns, CloseOrganization(t) PROVE OrgInv'
<1>1. PICK c, e, o, h, s : IsCall(t, c, e, o, h, s)
  BY CallAt
<1>2. c.kind \in {"deactivate"} /\ c.pc = "close" /\ tx[t] = c
  BY <1>1 DEF CloseOrganization, At, IsCall
<1>3. /\ CallOK(c) /\ WritesAreLocked(e, h, s) /\ Writable(e, o) /\ KindInv(c, e, o, h)
      /\ edits[t] = e /\ newOrg[t] = o /\ held[t] = h /\ shared[t] = s /\ Free(t, h, s)
  BY <1>1, <1>2, CallKnows, CallAt
<1>4. PICK n : n = [status |-> "suspended", closed |-> TRUE]
  OBVIOUS
<1>5. n \in Org
  BY <1>4 DEF Org
<1>6. /\ edits' = [edits EXCEPT ![t] = e] /\ newOrg' = [newOrg EXCEPT ![t] = n] /\ Go(t, "sweep")
      /\ held' = [held EXCEPT ![t] = h] /\ shared' = [shared EXCEPT ![t] = s] /\ UNCHANGED rows
  BY <1>3, <1>4, Unmoved DEF CloseOrganization
<1>7. Writable(e, n) /\ WritesAreLocked(e, h, s) /\ Free(t, h, s)
  BY <1>3, <1>5 DEF Writable
<1>8. ASSUME NEW d, GoesOn(c, d), d.pc = "sweep", d.saw = c.saw PROVE KindInv(d, e, n, h)
  BY <1>2, <1>3, <1>4, <1>8 DEF KindInv, GoesOn, DeactivateCall
<1>9. "sweep" \in PCs \ {"idle"} /\ c.pc # "idle"
  BY <1>2 DEF PCs
<1> QED BY <1>1, <1>6, <1>7, <1>8, <1>9, GoStep

LEMMA SweepStep == ASSUME OrgInv, NEW t \in Txns, Sweep(t) PROVE OrgInv'
<1>1. PICK c, e, o, h, s : IsCall(t, c, e, o, h, s)
  BY CallAt
<1>2. c.kind \in {"deactivate"} /\ c.pc = "sweep" /\ tx[t] = c
  BY <1>1 DEF Sweep, At, IsCall
<1>3. /\ CallOK(c) /\ WritesAreLocked(e, h, s) /\ Writable(e, o) /\ KindInv(c, e, o, h)
      /\ edits[t] = e /\ newOrg[t] = o /\ held[t] = h /\ shared[t] = s /\ Free(t, h, s)
  BY <1>1, <1>2, CallKnows, CallAt
<1>4. CASE \A u \in Users : u \in DOMAIN e \/ member[u] = NoRow
  <2>1. Go(t, "check") /\ UNCHANGED <<rows, edits, newOrg, held, shared>>
    BY <1>3, <1>4 DEF Sweep
  <2>2. /\ edits' = [edits EXCEPT ![t] = e] /\ newOrg' = [newOrg EXCEPT ![t] = o]
        /\ held' = [held EXCEPT ![t] = h] /\ shared' = [shared EXCEPT ![t] = s] /\ UNCHANGED rows
    BY <1>3, <2>1, Unmoved
  <2>3. ASSUME NEW d, GoesOn(c, d), d.pc = "check", d.saw = c.saw PROVE KindInv(d, e, o, h)
    BY <1>2, <1>3, <1>4, <2>3 DEF KindInv, GoesOn, DeactivateCall
  <2>8. "check" \in PCs \ {"idle"} /\ c.pc # "idle"
    BY <1>2 DEF PCs
  <2>9. WritesAreLocked(e, h, s) /\ Writable(e, o) /\ Free(t, h, s)
    BY <1>3
  <2> QED BY <1>1, <2>1, <2>2, <2>3, <2>8, <2>9, GoStep
<1>5. CASE ~ \A u \in Users : u \in DOMAIN e \/ member[u] = NoRow
  <2>1. PICK u \in Users : CanLock(t, MemberRow(u)) /\ Lock(t, MemberRow(u)) /\ Write(t, Row(u, NoRow)) /\ UNCHANGED <<rows, tx, newOrg, shared>>
    BY <1>3, <1>5 DEF Sweep
  <2>2. PICK g : g = h \cup {MemberRow(u)}
    OBVIOUS
  <2>3. PICK f : RowWritten(t, e, f, u, NoRow)
    BY <1>3, <2>1, WriteRowIs
  <2>4. Moves(t, c, f, o, g, s) /\ UNCHANGED rows
    BY <1>2, <1>3, <2>1, <2>2, <2>3, Unmoved DEF Moves, Lock, RowWritten, OrgInv, OrgTypeOK
  <2>5. Free(t, g, s) /\ WritesAreLocked(f, g, s)
    BY <1>3, <2>1, <2>2, <2>3, FreeGrows, LockedMore DEF RowWritten
  <2>6. Writable(f, o)
    BY <1>3, <2>1, <2>3 DEF Writable, RowWritten
  <2>7. KindInv(c, f, o, g)
    BY <1>2, <1>3, <2>2, <2>3 DEF KindInv, DeactivateCall, RowWritten
  <2>8. GoesOn(c, c) /\ c.pc # "idle"
    BY <1>2, <1>3 DEF GoesOn
  <2> QED BY <2>4, <2>5, <2>6, <2>7, <2>8, OnStep
<1> QED BY <1>4, <1>5

LEMMA LockAccountStep == ASSUME OrgInv, NEW t \in Txns, LockAccount(t) PROVE OrgInv'
<1>1. PICK c, e, o, h, s : IsCall(t, c, e, o, h, s)
  BY CallAt
<1>2. c.kind \in {"leave", "delete"} /\ c.pc = "account" /\ tx[t] = c
  BY <1>1 DEF LockAccount, At, IsCall
<1>3. /\ CallOK(c) /\ WritesAreLocked(e, h, s) /\ Writable(e, o) /\ KindInv(c, e, o, h)
      /\ edits[t] = e /\ newOrg[t] = o /\ held[t] = h /\ shared[t] = s /\ Free(t, h, s)
  BY <1>1, <1>2, CallKnows, CallAt
<1>4. PICK g : g = h \cup {Account(c.user)}
  OBVIOUS
<1>5. /\ edits' = [edits EXCEPT ![t] = e] /\ newOrg' = [newOrg EXCEPT ![t] = o] /\ Go(t, "find")
      /\ held' = [held EXCEPT ![t] = g] /\ shared' = [shared EXCEPT ![t] = s] /\ UNCHANGED rows
  BY <1>2, <1>3, <1>4, Unmoved DEF LockAccount, Lock, OrgInv, OrgTypeOK
<1>6. Free(t, g, s) /\ WritesAreLocked(e, g, s) /\ Writable(e, o)
  BY <1>2, <1>3, <1>4, FreeGrows, LockedStill DEF LockAccount
<1>7. ASSUME NEW d, GoesOn(c, d), d.pc = "find", d.saw = c.saw PROVE KindInv(d, e, o, g)
  BY <1>2, <1>3, <1>4, <1>7 DEF KindInv, GoesOn, ClosureCall, IsOwner
<1>8. "find" \in PCs \ {"idle"} /\ c.pc # "idle"
  BY <1>2 DEF PCs
<1> QED BY <1>1, <1>5, <1>6, <1>7, <1>8, GoStep

LEMMA FindOrganizationsStep == ASSUME OrgInv, NEW t \in Txns, FindOrganizations(t) PROVE OrgInv'
<1>1. PICK c, e, o, h, s : IsCall(t, c, e, o, h, s)
  BY CallAt
<1>2. c.kind \in {"leave", "delete"} /\ c.pc = "find" /\ tx[t] = c
  BY <1>1 DEF FindOrganizations, At, IsCall
<1>3. /\ CallOK(c) /\ WritesAreLocked(e, h, s) /\ Writable(e, o) /\ KindInv(c, e, o, h)
      /\ edits[t] = e /\ newOrg[t] = o /\ held[t] = h /\ shared[t] = s /\ Free(t, h, s)
  BY <1>1, <1>2, CallKnows, CallAt
<1>4. PICK g : /\ held' = [held EXCEPT ![t] = g] /\ h \subseteq g /\ Free(t, g, s)
  <2>1. CASE c.kind = "leave"
    BY <1>2, <1>3, <2>1, Unmoved DEF FindOrganizations
  <2>2. CASE c.kind = "delete"
    <3>1. PICK g : g = h \cup {PlatformRows}
      OBVIOUS
    <3>2. held' = [held EXCEPT ![t] = g] /\ CanLock(t, PlatformRows)
      BY <1>2, <1>3, <2>2, <3>1 DEF FindOrganizations, Lock, OrgInv, OrgTypeOK
    <3>3. Free(t, g, s) /\ h \subseteq g
      BY <1>3, <3>1, <3>2, FreeGrows
    <3> QED BY <3>2, <3>3
  <2> QED BY <1>2, <2>1, <2>2
<1>5. PICK p \in {"lock", "owners"} : Go(t, p) /\ (c.kind = "delete" /\ p = "owners" => member[c.user] = NoRow)
  BY <1>2 DEF FindOrganizations
<1>6. /\ edits' = [edits EXCEPT ![t] = e] /\ newOrg' = [newOrg EXCEPT ![t] = o]
      /\ shared' = [shared EXCEPT ![t] = s] /\ UNCHANGED rows
  BY <1>3, Unmoved DEF FindOrganizations
<1>7. WritesAreLocked(e, g, s) /\ Writable(e, o)
  BY <1>3, <1>4, LockedStill
<1>8. ASSUME NEW d, GoesOn(c, d), d.pc = p, d.saw = c.saw PROVE KindInv(d, e, o, g)
  BY <1>2, <1>3, <1>4, <1>5, <1>8 DEF KindInv, GoesOn, ClosureCall, IsOwner
<1>9. p \in PCs \ {"idle"} /\ c.pc # "idle"
  BY <1>2, <1>5 DEF PCs
<1>10. Go(t, p) /\ held' = [held EXCEPT ![t] = g] /\ Free(t, g, s)
  BY <1>4, <1>5
<1> QED BY <1>1, <1>6, <1>7, <1>8, <1>9, <1>10, GoStep

LEMMA LockFoundStep == ASSUME OrgInv, NEW t \in Txns, LockFound(t) PROVE OrgInv'
<1>1. PICK c, e, o, h, s : IsCall(t, c, e, o, h, s)
  BY CallAt
<1>2. c.kind \in {"leave", "delete"} /\ c.pc = "lock" /\ tx[t] = c
  BY <1>1 DEF LockFound, At, IsCall
<1>3. /\ CallOK(c) /\ WritesAreLocked(e, h, s) /\ Writable(e, o) /\ KindInv(c, e, o, h)
      /\ edits[t] = e /\ newOrg[t] = o /\ held[t] = h /\ shared[t] = s /\ Free(t, h, s)
  BY <1>1, <1>2, CallKnows, CallAt
<1>4. PICK g : /\ held' = [held EXCEPT ![t] = g] /\ h \subseteq g /\ Free(t, g, s) /\ (c.kind = "delete" => OrgRow \in g)
  <2>1. CASE c.kind = "delete" \/ Operating(org)
    <3>1. PICK g : g = h \cup {OrgRow}
      OBVIOUS
    <3>2. held' = [held EXCEPT ![t] = g] /\ CanLock(t, OrgRow)
      BY <1>2, <1>3, <2>1, <3>1 DEF LockFound, OrgInv, OrgTypeOK
    <3>3. Free(t, g, s) /\ h \subseteq g /\ OrgRow \in g
      BY <1>3, <3>1, <3>2, FreeGrows
    <3> QED BY <3>2, <3>3
  <2>2. CASE ~ (c.kind = "delete" \/ Operating(org))
    BY <1>2, <1>3, <2>2, Unmoved DEF LockFound
  <2> QED BY <2>1, <2>2
<1>5. /\ edits' = [edits EXCEPT ![t] = e] /\ newOrg' = [newOrg EXCEPT ![t] = o]
      /\ shared' = [shared EXCEPT ![t] = s] /\ UNCHANGED rows /\ Go(t, "owners")
  BY <1>3, Unmoved DEF LockFound
<1>6. WritesAreLocked(e, g, s) /\ Writable(e, o)
  BY <1>3, <1>4, LockedStill
<1>7. ASSUME NEW d, GoesOn(c, d), d.pc = "owners", d.saw = c.saw PROVE KindInv(d, e, o, g)
  BY <1>2, <1>3, <1>4, <1>7 DEF KindInv, GoesOn, ClosureCall, IsOwner
<1>8. "owners" \in PCs \ {"idle"} /\ c.pc # "idle"
  BY <1>2 DEF PCs
<1> QED BY <1>1, <1>4, <1>5, <1>6, <1>7, <1>8, GoStep

LEMMA CheckLastOwnerStep == ASSUME OrgInv, NEW t \in Txns, CheckLastOwner(t) PROVE OrgInv'
<1>1. PICK c, e, o, h, s : IsCall(t, c, e, o, h, s)
  BY CallAt
<1>2. c.kind \in {"leave", "delete"} /\ c.pc = "owners" /\ tx[t] = c
  BY <1>1 DEF CheckLastOwner, At, IsCall
<1>3. /\ CallOK(c) /\ WritesAreLocked(e, h, s) /\ Writable(e, o) /\ KindInv(c, e, o, h)
      /\ edits[t] = e /\ newOrg[t] = o /\ held[t] = h /\ shared[t] = s /\ Free(t, h, s)
  BY <1>1, <1>2, CallKnows, CallAt
<1>4. CASE Raise(t)
  BY <1>4, RaiseStep
<1>5. CASE ~ Raise(t)
  <2>1. Go(t, "row") /\ UNCHANGED <<rows, edits, newOrg, held, shared>> /\ ~ (LastOwner(c.user) /\ Guarded(c.kind))
    BY <1>2, <1>5 DEF CheckLastOwner
  <2>2. /\ edits' = [edits EXCEPT ![t] = e] /\ newOrg' = [newOrg EXCEPT ![t] = o]
        /\ held' = [held EXCEPT ![t] = h] /\ shared' = [shared EXCEPT ![t] = s] /\ UNCHANGED rows
    BY <1>3, <2>1, Unmoved
  <2>3. c.user \in Users
    BY <1>2, <1>3 DEF CallOK, AllKinds
  <2>4. ASSUME c.kind = "delete" PROVE ~ IsOwner(c.user)
    <3> SUFFICES ASSUME IsOwner(c.user) PROVE FALSE
      OBVIOUS
    <3>1. LastOwner(c.user)
      BY <2>3 DEF OrgInv, MembershipKept, OneOwner, IsOwner, LastOwner, OwnedBy
    <3>2. ~ org.closed
      BY <2>3 DEF OrgInv, MembershipKept, ClosedIsEmpty, IsOwner
    <3> QED BY <2>1, <2>4, <3>1, <3>2 DEF Guarded
  <2>5. ASSUME NEW d, GoesOn(c, d), d.pc = "row", d.saw = c.saw PROVE KindInv(d, e, o, h)
    BY <1>2, <1>3, <2>4, <2>5 DEF KindInv, GoesOn, ClosureCall, IsOwner
  <2>8. "row" \in PCs \ {"idle"} /\ c.pc # "idle"
    BY <1>2 DEF PCs
  <2>9. WritesAreLocked(e, h, s) /\ Writable(e, o) /\ Free(t, h, s)
    BY <1>3
  <2> QED BY <1>1, <2>1, <2>2, <2>5, <2>8, <2>9, GoStep
<1> QED BY <1>4, <1>5

LEMMA DeleteRowStep == ASSUME OrgInv, NEW t \in Txns, DeleteRow(t) PROVE OrgInv'
<1>1. PICK c, e, o, h, s : IsCall(t, c, e, o, h, s)
  BY CallAt
<1>2. c.kind \in {"leave", "delete", "appoint"} /\ c.pc = "row" /\ tx[t] = c
  BY <1>1 DEF DeleteRow, At, IsCall
<1>3. /\ CallOK(c) /\ WritesAreLocked(e, h, s) /\ Writable(e, o) /\ KindInv(c, e, o, h)
      /\ edits[t] = e /\ newOrg[t] = o /\ held[t] = h /\ shared[t] = s /\ Free(t, h, s)
  BY <1>1, <1>2, CallKnows, CallAt
<1>4. PICK u \in Users : u = c.user
  BY <1>2, <1>3 DEF CallOK, AllKinds
<1>5. Go(t, "check") /\ CanLock(t, MemberRow(u)) /\ UNCHANGED <<rows, newOrg, shared>>
  BY <1>2, <1>4 DEF DeleteRow
<1>6. newOrg' = [newOrg EXCEPT ![t] = o] /\ shared' = [shared EXCEPT ![t] = s] /\ UNCHANGED rows
  BY <1>3, <1>5, Unmoved
<1>7. "check" \in PCs \ {"idle"} /\ c.pc # "idle"
  BY <1>2 DEF PCs
<1>8. CASE member[u] = NoRow
  <2>1. edits' = [edits EXCEPT ![t] = e] /\ held' = [held EXCEPT ![t] = h]
    BY <1>2, <1>3, <1>4, <1>8, Unmoved DEF DeleteRow
  <2>2. ASSUME NEW d, GoesOn(c, d), d.pc = "check", d.saw = c.saw PROVE KindInv(d, e, o, h)
    BY <1>2, <1>3, <1>4, <1>8, <2>2 DEF KindInv, GoesOn, ClosureCall, MemberCall, IsOwner
  <2>3. WritesAreLocked(e, h, s) /\ Writable(e, o) /\ Free(t, h, s)
    BY <1>3
  <2> QED BY <1>1, <1>5, <1>6, <1>7, <2>1, <2>2, <2>3, GoStep
<1>9. CASE member[u] # NoRow
  <2>1. Lock(t, MemberRow(u)) /\ Write(t, Row(u, NoRow))
    BY <1>2, <1>4, <1>9 DEF DeleteRow
  <2>2. PICK g : g = h \cup {MemberRow(u)}
    OBVIOUS
  <2>3. PICK f : RowWritten(t, e, f, u, NoRow)
    BY <1>3, <2>1, WriteRowIs
  <2>4. held' = [held EXCEPT ![t] = g] /\ edits' = [edits EXCEPT ![t] = f]
    BY <1>3, <2>1, <2>2, <2>3 DEF Lock, RowWritten, OrgInv, OrgTypeOK
  <2>5. Free(t, g, s) /\ WritesAreLocked(f, g, s)
    BY <1>3, <1>5, <2>2, <2>3, FreeGrows, LockedMore DEF RowWritten
  <2>6. Writable(f, o)
    BY <1>3, <2>3 DEF Writable, RowWritten
  <2>7. ASSUME NEW d, GoesOn(c, d), d.pc = "check", d.saw = c.saw PROVE KindInv(d, f, o, g)
    BY <1>2, <1>3, <1>4, <2>2, <2>3, <2>7 DEF KindInv, GoesOn, ClosureCall, MemberCall, RowWritten, IsOwner
  <2>8. Go(t, "check")
    BY <1>5
  <2> QED BY <1>1, <1>6, <1>7, <2>4, <2>5, <2>6, <2>7, <2>8, GoStep
<1> QED BY <1>8, <1>9

(* What a check that lets an account closure through has seen. *)
LEMMA CheckOwnerStep == ASSUME OrgInv, NEW t \in Txns, CheckOwner(t) PROVE OrgInv'
<1>1. PICK c, e, o, h, s : IsCall(t, c, e, o, h, s)
  BY CallAt
<1>2. c.pc = "check" /\ tx[t] = c
  BY <1>1 DEF CheckOwner, IsCall
<1>3. /\ CallOK(c) /\ WritesAreLocked(e, h, s) /\ Writable(e, o) /\ KindInv(c, e, o, h)
      /\ edits[t] = e /\ newOrg[t] = o /\ held[t] = h /\ shared[t] = s /\ Free(t, h, s)
  BY <1>1, <1>2, CallKnows, CallAt
<1>4. CASE Raise(t)
  BY <1>4, RaiseStep
<1>5. CASE ~ Raise(t)
  <2>1. PICK seen : seen = OrgSeenBy(t)
    OBVIOUS
  <2>2. PICK d : d = [c EXCEPT !.pc = "commit", !.saw = seen.status]
    OBVIOUS
  <2>3. /\ tx' = [tx EXCEPT ![t] = d] /\ UNCHANGED <<rows, edits, newOrg, held, shared>>
        /\ DOMAIN e # {} /\ Operating(seen) => HasOwner(Merged(t))
    BY <1>2, <1>3, <1>5, <2>1, <2>2 DEF CheckOwner, OrgInv, OrgTypeOK
  <2>4. d = [pc |-> "commit", kind |-> c.kind, actor |-> c.actor, user |-> c.user, role |-> c.role,
             status |-> c.status, as |-> c.as, saw |-> seen.status]
    BY <1>3, <2>2 DEF CallOK
  <2>5. GoesOn(c, d) /\ d.pc = "commit" /\ d.saw = seen.status
    BY <1>2, <1>3, <2>4 DEF CallOK, GoesOn, PCs
  <2>6. ASSUME c.kind = "leave", seen.status # "suspended", c.user \in DOMAIN e PROVE ~ IsOwner(c.user)
    <3>1. o = NoRow /\ \A u \in DOMAIN e : e[u] = NoRow
      BY <1>2, <1>3, <2>6 DEF KindInv, ClosureCall
    <3>2. Operating(seen)
      BY <1>3, <2>1, <2>6, <3>1 DEF OrgSeenBy, Operating, OrgInv, OrgTypeOK, Org, MembershipKept, ClosedIsEmpty
    <3>3. PICK v \in Users : OwnedBy(Merged(t), v)
      BY <2>3, <2>6, <3>2 DEF HasOwner
    <3>4. v \notin DOMAIN e /\ IsOwner(v)
      BY <1>3, <3>1, <3>3 DEF OwnedBy, Merged, IsOwner
    <3>5. c.user \in Users
      BY <1>3, <2>6 DEF Writable
    <3> QED BY <2>6, <3>4, <3>5 DEF OrgInv, MembershipKept, OneOwner, IsOwner
  <2>7. KindInv(d, e, o, h)
    BY <1>2, <1>3, <2>5, <2>6 DEF KindInv, GoesOn, MemberCall, TransferCall, DeactivateCall, UpdateCall, ClosureCall, IsOwner
  <2>8. Moves(t, d, e, o, h, s) /\ UNCHANGED rows
    BY <1>3, <2>3, Unmoved DEF Moves
  <2>9. d.pc # "idle" /\ Writable(e, o) /\ Free(t, h, s) /\ WritesAreLocked(e, h, s)
    BY <1>3, <2>5
  <2> QED BY <2>5, <2>7, <2>8, <2>9, OnStep
<1> QED BY <1>4, <1>5

(* What a commit under the locks h and s may change. *)
ChangesUnder(h, s) ==
  /\ org' = org \/ OrgRow \in h
  /\ \A u \in Users : member'[u] = member[u] \/ MemberRow(u) \in h
  /\ \A u \in Users : member'[u] # member[u] /\ member'[u] # NoRow => OrgRow \in h /\ (Account(u) \in s \/ member[u] # NoRow)
  /\ \A u \in deleted' \ deleted : u \in Users /\ Account(u) \in h /\ member'[u] = NoRow

LEMMA WritesKept ==
  ASSUME NEW h, NEW s, ChangesUnder(h, s), NEW e, NEW g, NEW r, WritesAreLocked(e, g, r), DOMAIN e \subseteq Users,
         g \cap (h \cup s) = {}, h \cap r = {}
  PROVE  WritesAreLocked(e, g, r)'
<1> SUFFICES ASSUME NEW u \in DOMAIN e
             PROVE  /\ MemberRow(u) \in g
                    /\ e[u] # NoRow => /\ OrgRow \in g /\ ~ org'.closed /\ u \notin deleted'
                                       /\ Account(u) \in r \/ member'[u] # NoRow
  BY DEF WritesAreLocked, MemberRow, Account, OrgRow
<1>1. MemberRow(u) \in g /\ member'[u] = member[u]
  BY DEF WritesAreLocked, ChangesUnder
<1>2. ASSUME e[u] # NoRow
      PROVE  OrgRow \in g /\ ~ org'.closed /\ u \notin deleted' /\ (Account(u) \in r \/ member'[u] # NoRow)
  <2>1. OrgRow \in g /\ ~ org.closed /\ u \notin deleted /\ (Account(u) \in r \/ member[u] # NoRow)
    BY <1>2 DEF WritesAreLocked
  <2>2. org' = org
    BY <2>1 DEF ChangesUnder
  <2>3. u \notin deleted'
    BY <1>1, <2>1 DEF ChangesUnder
  <2> QED BY <1>1, <2>1, <2>2, <2>3
<1> QED BY <1>1, <1>2

LEMMA KindKept ==
  ASSUME NEW h, NEW s, ChangesUnder(h, s), NEW c, NEW e, NEW o, NEW g, KindInv(c, e, o, g), CallOK(c), DOMAIN e \subseteq Users,
         \A u \in DOMAIN e : MemberRow(u) \in g, g \cap (h \cup s) = {}
  PROVE  KindInv(c, e, o, g)'
<1>1. OrgRow \in g => org' = org /\ \A u \in Users : (IsOwner(u)' => IsOwner(u)) /\ (member[u] = NoRow => member'[u] = NoRow)
  BY DEF ChangesUnder, IsOwner
<1>2. \A u \in Users : Account(u) \in g /\ member[u] = NoRow => member'[u] = NoRow
  BY DEF ChangesUnder
<1>3. \A u \in DOMAIN e : member'[u] = member[u]
  BY DEF ChangesUnder
<1>4. c.kind \in AllKinds \ {"update"} => c.user \in Users
  BY DEF CallOK
<1>5. c.kind \in {"edit", "appoint", "remove"} => MemberCall(c, e, o, g)'
  BY <1>1, <1>4 DEF KindInv, MemberCall, AllKinds, OrgRow, IsOwner
<1>6. c.kind = "transfer" => TransferCall(c, e, o, g)'
  BY <1>1, <1>4 DEF KindInv, TransferCall, AllKinds, OrgRow, IsOwner, CallOK
<1>7. c.kind = "deactivate" => DeactivateCall(c, e, o, g)'
  BY <1>1 DEF KindInv, DeactivateCall, OrgRow
<1>8. c.kind = "update" => UpdateCall(c, e, o, g)'
  BY <1>1 DEF KindInv, UpdateCall, OrgRow
<1>9. c.kind \in {"leave", "delete"} => ClosureCall(c, e, o, g)'
  BY <1>1, <1>2, <1>3, <1>4 DEF KindInv, ClosureCall, AllKinds, OrgRow, Account, IsOwner
<1> QED BY <1>5, <1>6, <1>7, <1>8, <1>9 DEF KindInv

(* What a commit makes of the rows. *)
Commits(t, c, e, o, h, s) ==
  /\ IsCall(t, c, e, o, h, s) /\ c.pc = "commit" /\ Moves(t, Idle, NoRows, NoRow, {}, {})
  /\ org' = (IF o = NoRow THEN org ELSE o)
  /\ member' = [u \in Users |-> IF u \in DOMAIN e THEN e[u] ELSE member[u]]
  /\ deleted' = (IF c.kind \in {"leave", "delete"} THEN deleted \cup {c.user} ELSE deleted)

LEMMA CommitIs ==
  ASSUME OrgInv, NEW t \in Txns, Commit(t)
  PROVE  \E c, e, o, h, s : Commits(t, c, e, o, h, s)
<1>1. PICK c, e, o, h, s : IsCall(t, c, e, o, h, s)
  BY CallAt
<1>2. tx[t] = c /\ edits[t] = e /\ newOrg[t] = o
  BY <1>1 DEF IsCall
<1>3. c.pc = "commit" /\ Moves(t, Idle, NoRows, NoRow, {}, {})
  BY <1>2 DEF Commit, End, Moves
<1>4. org' = (IF o = NoRow THEN org ELSE o) /\ member' = [u \in Users |-> IF u \in DOMAIN e THEN e[u] ELSE member[u]]
  BY <1>2 DEF Commit, OrgSeenBy, Merged
<1>5. deleted' = (IF c.kind \in {"leave", "delete"} THEN deleted \cup {c.user} ELSE deleted)
  BY <1>2 DEF Commit
<1>6. Commits(t, c, e, o, h, s)
  BY <1>1, <1>3, <1>4, <1>5 DEF Commits
<1> QED BY <1>6

(* What it has written, and under which locks. *)
CommitsUnder(c, e, o, h, s) ==
  /\ CallOK(c) /\ WritesAreLocked(e, h, s) /\ Writable(e, o) /\ KindInv(c, e, o, h) /\ c.pc = "commit" /\ c.kind \in AllKinds
  /\ org' = (IF o = NoRow THEN org ELSE o)
  /\ \A u \in Users : member'[u] = IF u \in DOMAIN e THEN e[u] ELSE member[u]
  /\ deleted' = (IF c.kind \in {"leave", "delete"} THEN deleted \cup {c.user} ELSE deleted)

LEMMA CommitsAre ==
  ASSUME OrgInv, NEW t \in Txns, NEW c, NEW e, NEW o, NEW h, NEW s, Commits(t, c, e, o, h, s)
  PROVE  CommitsUnder(c, e, o, h, s) /\ Free(t, h, s)
<1>1. IsCall(t, c, e, o, h, s) /\ c.pc = "commit"
  BY DEF Commits
<1>2. CallOK(c) /\ WritesAreLocked(e, h, s) /\ Writable(e, o) /\ KindInv(c, e, o, h)
  BY <1>1, CallKnows
<1>3. c.kind \in AllKinds
  BY <1>1, <1>2, CallAssumption DEF CallOK
<1>4. Free(t, h, s)
  BY <1>1, CallAt DEF IsCall
<1> QED BY <1>1, <1>2, <1>3, <1>4 DEF Commits, CommitsUnder

LEMMA CommitChanges ==
  ASSUME OrgInv, NEW c, NEW e, NEW o, NEW h, NEW s, CommitsUnder(c, e, o, h, s)
  PROVE  ChangesUnder(h, s)
<1>1. o # NoRow => OrgRow \in h
  BY DEF CommitsUnder, KindInv, AllKinds, MemberCall, TransferCall, DeactivateCall, UpdateCall, ClosureCall
<1>2. \A u \in Users : member'[u] # member[u] => u \in DOMAIN e /\ member'[u] = e[u]
  BY DEF CommitsUnder
<1>3. \A u \in Users : member'[u] # member[u] => MemberRow(u) \in h
  BY <1>2 DEF CommitsUnder, WritesAreLocked
<1>4. \A u \in Users : member'[u] # member[u] /\ member'[u] # NoRow => OrgRow \in h /\ (Account(u) \in s \/ member[u] # NoRow)
  BY <1>2 DEF CommitsUnder, WritesAreLocked
<1>5. \A u \in deleted' \ deleted : u \in Users /\ Account(u) \in h /\ member'[u] = NoRow
  <2> SUFFICES ASSUME NEW u \in deleted' \ deleted PROVE u \in Users /\ Account(u) \in h /\ member'[u] = NoRow
    OBVIOUS
  <2>1. c.kind \in {"leave", "delete"} /\ u = c.user /\ c.pc = "commit"
    BY DEF CommitsUnder
  <2>2. u \in Users
    BY <2>1 DEF CommitsUnder, CallOK, AllKinds
  <2>3. ClosureCall(c, e, o, h)
    BY <2>1 DEF CommitsUnder, KindInv
  <2> QED BY <2>1, <2>2, <2>3 DEF CommitsUnder, ClosureCall
<1>6. org' = org \/ OrgRow \in h
  BY <1>1 DEF CommitsUnder
<1> QED BY <1>3, <1>4, <1>5, <1>6 DEF ChangesUnder

(* Only a transfer makes an owner. *)
LEMMA NoNewOwner ==
  ASSUME OrgInv, NEW c, NEW e, NEW o, NEW h, NEW s, CommitsUnder(c, e, o, h, s), c.kind # "transfer", NEW u \in Users, IsOwner(u)'
  PROVE  IsOwner(u) /\ member'[u] = member[u]
<1>1. \A v \in DOMAIN e : e[v] = NoRow \/ e[v].role # "owner"
  BY DEF CommitsUnder, KindInv, AllKinds, MemberCall, DeactivateCall, UpdateCall, ClosureCall
<1> QED BY <1>1 DEF CommitsUnder, IsOwner

LEMMA CommitKeepsOwner ==
  ASSUME OrgInv, NEW c, NEW e, NEW o, NEW h, NEW s, CommitsUnder(c, e, o, h, s)
  PROVE  OneOwner'
<1>1. CASE c.kind # "transfer"
  <2> SUFFICES ASSUME NEW u \in Users, IsOwner(u)'
               PROVE  member'[u].status = "active" /\ \A v \in Users \ {u} : member'[v] = NoRow \/ member'[v].role # "owner"
    BY DEF OneOwner, IsOwner
  <2>1. IsOwner(u) /\ member'[u] = member[u]
    BY <1>1, NoNewOwner
  <2>2. ASSUME NEW v \in Users \ {u}, IsOwner(v)' PROVE FALSE
    <3>1. IsOwner(v)
      BY <1>1, <2>2, NoNewOwner
    <3> QED BY <2>1, <3>1 DEF OrgInv, MembershipKept, OneOwner, IsOwner
  <2>3. member[u].status = "active"
    BY <2>1 DEF OrgInv, MembershipKept, OneOwner, IsOwner
  <2> QED BY <2>1, <2>2, <2>3 DEF IsOwner
<1>2. CASE c.kind = "transfer"
  <2>1. TransferCall(c, e, o, h) /\ c.pc = "commit" /\ c.actor # c.user
    BY <1>2 DEF CommitsUnder, KindInv, CallOK
  <2>2. \A u \in Users : IsOwner(u)' => u = c.user /\ member'[u] = [role |-> "owner", status |-> "active"]
    BY <2>1 DEF CommitsUnder, TransferCall, IsOwner
  <2> QED BY <2>2 DEF OneOwner, IsOwner
<1> QED BY <1>1, <1>2

LEMMA CommitKeepsRest ==
  ASSUME OrgInv, NEW c, NEW e, NEW o, NEW h, NEW s, CommitsUnder(c, e, o, h, s)
  PROVE  DeletedHoldsNothing' /\ ClosedIsEmpty'
<1>1. DeletedHoldsNothing'
  <2> SUFFICES ASSUME NEW u \in deleted' PROVE member'[u] = NoRow
    BY DEF DeletedHoldsNothing
  <2>1. CASE u \in deleted
    <3>1. u \in Users /\ member[u] = NoRow
      BY <2>1 DEF OrgInv, OrgTypeOK, MembershipKept, DeletedHoldsNothing
    <3>2. u \in DOMAIN e => e[u] = NoRow
      BY <2>1 DEF CommitsUnder, WritesAreLocked
    <3> QED BY <3>1, <3>2 DEF CommitsUnder
  <2>2. CASE u \notin deleted
    BY <2>2, CommitChanges DEF ChangesUnder
  <2> QED BY <2>1, <2>2
<1>2. ASSUME org'.closed PROVE org'.status = "suspended" /\ \A u \in Users : member'[u] = NoRow
  <2>1. CASE o = NoRow
    <3>1. org' = org /\ org.closed /\ org.status = "suspended" /\ \A u \in Users : member[u] = NoRow
      BY <1>2, <2>1 DEF CommitsUnder, OrgInv, MembershipKept, ClosedIsEmpty
    <3>2. \A u \in DOMAIN e : e[u] = NoRow
      BY <3>1 DEF CommitsUnder, WritesAreLocked
    <3> QED BY <3>1, <3>2 DEF CommitsUnder
  <2>2. CASE o # NoRow
    <3>1. org' = o /\ o.closed
      BY <1>2, <2>2 DEF CommitsUnder
    <3>2. c.kind = "deactivate" /\ c.pc = "commit" /\ DeactivateCall(c, e, o, h)
      BY <2>2, <3>1 DEF CommitsUnder, KindInv, AllKinds, MemberCall, TransferCall, UpdateCall, ClosureCall
    <3> QED BY <3>1, <3>2 DEF CommitsUnder, DeactivateCall
  <2> QED BY <2>1, <2>2
<1>3. ClosedIsEmpty'
  BY <1>2 DEF ClosedIsEmpty
<1> QED BY <1>1, <1>3

LEMMA CommitsStep == ASSUME OrgInv, NEW t \in Txns, Commit(t) PROVE OrgInv'
<1>1. PICK c, e, o, h, s : Commits(t, c, e, o, h, s)
  BY CommitIs
<1>2. CommitsUnder(c, e, o, h, s) /\ Free(t, h, s) /\ ChangesUnder(h, s)
  BY <1>1, CommitsAre, CommitChanges
<1>3. Moves(t, Idle, NoRows, NoRow, {}, {}) /\ member' = [u \in Users |-> IF u \in DOMAIN e THEN e[u] ELSE member[u]]
  BY <1>1 DEF Commits
<1>4. OrgTypeOK'
  <2>1. org' \in Org
    BY <1>2 DEF CommitsUnder, Writable, OrgInv, OrgTypeOK
  <2>2. member' \in [Users -> Membership \cup {NoRow}]
    BY <1>2, <1>3 DEF CommitsUnder, Writable, OrgInv, OrgTypeOK
  <2>3. deleted' \subseteq Users
    BY <1>2 DEF ChangesUnder, OrgInv, OrgTypeOK
  <2> QED BY <1>3, <2>1, <2>2, <2>3, IdleIs, TypesStay
<1>5. LocksExclude'
  <2>1. Free(t, {}, {})
    BY DEF Free
  <2> QED BY <1>3, <2>1, IdleIs, LocksStay
<1>6. ASSUME NEW q \in Txns PROVE CallInv(tx[q], edits[q], newOrg[q], held[q], shared[q])'
  <2>1. CASE q = t
    <3>1. CallInv(Idle, NoRows, NoRow, {}, {})'
      BY IdleIs DEF CallInv, CallOK, WritesAreLocked
    <3>2. PICK idle, none : idle = Idle /\ none = NoRows /\ CallInv(idle, none, NoRow, {}, {})'
      BY <3>1 DEF CallInv, CallOK, WritesAreLocked, MemberCall, TransferCall, DeactivateCall, UpdateCall, ClosureCall, IsOwner
    <3>3. tx'[t] = idle /\ edits'[t] = none /\ newOrg'[t] = NoRow /\ held'[t] = {} /\ shared'[t] = {}
      BY <1>3, <3>2, IdleIs, MovesAre
    <3> QED BY <2>1, <3>2, <3>3, CallReads
  <2>2. CASE q # t
    <3>1. PICK c2, e2, o2, h2, s2 : IsCall(q, c2, e2, o2, h2, s2)
      BY CallAt
    <3>2. CallOK(c2) /\ WritesAreLocked(e2, h2, s2) /\ DOMAIN e2 \subseteq Users /\ (c2.pc = "idle" => DOMAIN e2 = {} /\ o2 = NoRow)
          /\ (c2.pc # "idle" => KindInv(c2, e2, o2, h2))
      BY <3>1, CallKnows DEF IsCall, CallInv
    <3>3. h2 \cap (h \cup s) = {} /\ h \cap s2 = {}
      BY <1>1, <1>2, <2>2, <3>1 DEF Free, IsCall
    <3>4. WritesAreLocked(e2, h2, s2)'
      BY <1>2, <3>2, <3>3, WritesKept
    <3>5. c2.pc # "idle" => KindInv(c2, e2, o2, h2)'
      <4>1. \A u \in DOMAIN e2 : MemberRow(u) \in h2
        BY <3>2 DEF WritesAreLocked
      <4> QED BY <1>2, <3>2, <3>3, <4>1, KindKept
    <3>6. CallInv(c2, e2, o2, h2, s2)'
      BY <3>2, <3>4, <3>5 DEF CallInv, KindInv, CallOK
    <3>7. tx'[q] = c2 /\ edits'[q] = e2 /\ newOrg'[q] = o2 /\ held'[q] = h2 /\ shared'[q] = s2
      BY <1>3, <2>2, <3>1, IdleIs, MovesAre DEF IsCall
    <3> QED BY <3>6, <3>7, CallReads
  <2> QED BY <2>1, <2>2
<1>7. MembershipKept'
  BY <1>2, CommitKeepsOwner, CommitKeepsRest DEF MembershipKept
<1> QED BY <1>4, <1>5, <1>6, <1>7 DEF OrgInv

(* A commit that takes the last owner away. *)
LEMMA CommitLoses ==
  ASSUME OrgInv, NEW t \in Txns, Commit(t), HasOwner(member), ~ HasOwner(member'), ~ org'.closed
  PROVE  At(t, {"leave"}, "commit") /\ tx[t].saw = "suspended"
<1>1. PICK c, e, o, h, s : Commits(t, c, e, o, h, s)
  BY CommitIs
<1>2. CommitsUnder(c, e, o, h, s) /\ tx[t] = c
  BY <1>1, CommitsAre DEF Commits, IsCall
<1>3. PICK u \in Users : OwnedBy(member, u) /\ ~ OwnedBy(member', u)
  BY DEF HasOwner
<1>4. IsOwner(u) /\ u \in DOMAIN e
  BY <1>2, <1>3 DEF OwnedBy, IsOwner, CommitsUnder
<1>5. ~ org.closed
  BY <1>4 DEF OrgInv, MembershipKept, ClosedIsEmpty, IsOwner
<1>6. c.kind \notin {"edit", "appoint", "remove"}
  BY <1>2, <1>4 DEF CommitsUnder, KindInv, MemberCall, IsOwner
<1>7. c.kind # "transfer"
  <2> SUFFICES ASSUME c.kind = "transfer" PROVE FALSE
    OBVIOUS
  <2>1. c.user \in Users /\ member'[c.user] = [role |-> "owner", status |-> "active"]
    BY <1>2 DEF CommitsUnder, KindInv, TransferCall, CallOK, AllKinds
  <2>2. [role |-> "owner", status |-> "active"] # NoRow
    BY NoRowAssumption
  <2> QED BY <2>1, <2>2 DEF HasOwner, OwnedBy
<1>8. c.kind # "deactivate"
  <2> SUFFICES ASSUME c.kind = "deactivate" PROVE FALSE
    OBVIOUS
  <2>1. o = [status |-> "suspended", closed |-> TRUE]
    BY <1>2 DEF CommitsUnder, KindInv, DeactivateCall
  <2>2. o \in [status: {"active", "suspended"}, closed: BOOLEAN]
    BY <2>1
  <2>3. o # NoRow
    BY <2>2, NoRowAssumption
  <2> QED BY <1>2, <2>1, <2>3 DEF CommitsUnder
<1>9. c.kind # "update"
  BY <1>2, <1>4 DEF CommitsUnder, KindInv, UpdateCall
<1>10. c.kind # "delete"
  BY <1>2, <1>4 DEF CommitsUnder, KindInv, ClosureCall, IsOwner
<1>11. c.kind = "leave" /\ c.pc = "commit"
  BY <1>2, <1>6, <1>7, <1>8, <1>9, <1>10 DEF CommitsUnder, AllKinds
<1>12. c.saw = "suspended"
  BY <1>2, <1>4, <1>11 DEF CommitsUnder, KindInv, ClosureCall, IsOwner
<1> QED BY <1>2, <1>11, <1>12 DEF At

LEMMA OrgStart == OrgInit => OrgInv
<1> SUFFICES ASSUME OrgInit PROVE OrgInv
  OBVIOUS
<1>1. PICK u \in Users, m \in [Users -> {NoRow} \cup [role: {"admin", "teacher"}, status: {"active"}]] :
        member = [m EXCEPT ![u] = [role |-> "owner", status |-> "active"]]
  BY DEF OrgInit
<1>2. /\ member[u] = [role |-> "owner", status |-> "active"]
      /\ \A v \in Users \ {u} : member[v] \in {NoRow} \cup [role: {"admin", "teacher"}, status: {"active"}]
      /\ member \in [Users -> Membership \cup {NoRow}]
  BY <1>1 DEF Membership, Roles
<1>3. OneOwner
  BY <1>2 DEF OneOwner
<1>4. DeletedHoldsNothing /\ ClosedIsEmpty /\ LocksExclude
  BY DEF OrgInit, DeletedHoldsNothing, ClosedIsEmpty, LocksExclude
<1>5. OrgTypeOK
  BY <1>2, IdleIs DEF OrgInit, OrgTypeOK, Org, Writable
<1>6. ASSUME NEW t \in Txns PROVE CallInv(tx[t], edits[t], newOrg[t], held[t], shared[t])
  BY IdleIs DEF OrgInit
<1> QED BY <1>3, <1>4, <1>5, <1>6 DEF OrgInv, MembershipKept

LEMMA OrgStep == ASSUME OrgInv, [OrgNext]_orgVars PROVE OrgInv'
<1>1. ASSUME NEW t \in Txns, NEW c \in Requests, Begin(t, c) PROVE OrgInv'
  BY <1>1, BeginsStep
<1>2. ASSUME NEW t \in Txns, Step(t) PROVE OrgInv'
  BY <1>2, LockOrganizationStep, AuthorizeStep, EditTargetStep, RemoveTargetStep, PromoteStep, DemoteStep, ReadRoleStep,
     InsertStep, UpdateOrganizationStep, CloseOrganizationStep, SweepStep, LockAccountStep, FindOrganizationsStep,
     LockFoundStep, CheckLastOwnerStep, DeleteRowStep, CheckOwnerStep, CommitsStep DEF Step
<1>3. ASSUME NEW t \in Txns, Abort(t) PROVE OrgInv'
  BY <1>3, RaiseStep DEF Abort
<1>4. CASE UNCHANGED orgVars
  <2>1. UNCHANGED <<rows, tx, edits, newOrg, held, shared>>
    BY <1>4 DEF orgVars, rows
  <2>2. OrgTypeOK'
    BY <2>1 DEF OrgInv, OrgTypeOK, rows, CallOK
  <2>3. MembershipKept' /\ LocksExclude'
    BY <2>1 DEF OrgInv, rows, MembershipKept, OneOwner, DeletedHoldsNothing, ClosedIsEmpty, LocksExclude
  <2>4. ASSUME NEW t \in Txns PROVE CallInv(tx[t], edits[t], newOrg[t], held[t], shared[t])'
    <3>1. PICK c, e, o, h, s : IsCall(t, c, e, o, h, s)
      BY CallAt
    <3>2. CallInv(c, e, o, h, s)'
      BY <2>1, <3>1, CallStays DEF IsCall
    <3>3. tx'[t] = c /\ edits'[t] = e /\ newOrg'[t] = o /\ held'[t] = h /\ shared'[t] = s
      BY <2>1, <3>1 DEF IsCall
    <3> QED BY <3>2, <3>3, CallReads
  <2> QED BY <2>2, <2>3, <2>4 DEF OrgInv
<1> QED BY <1>1, <1>2, <1>3, <1>4 DEF OrgNext

LEMMA OnlyCommitsChange == ASSUME OrgNext, member' # member PROVE \E t \in Txns : Commit(t)
BY DEF OrgNext, Begin, Step, Abort, Raise, LockOrganization, Authorize, EditTarget, RemoveTarget, Promote, Demote, ReadRole, Insert,
       UpdateOrganization, CloseOrganization, Sweep, LockAccount, FindOrganizations, LockFound, CheckLastOwner, DeleteRow,
       CheckOwner, rows

(* Whatever functions run against each other, on however many connections,  *)
(* nobody is a second owner, nobody belongs to a closed organization, and    *)
(* no deleted account to any (set_organization_membership and the others,    *)
(* with the row locks they take).                                            *)
THEOREM MembershipIsKept == OrgSpec => []MembershipKept
<1>1. OrgInv /\ [OrgNext]_orgVars => OrgInv'
  BY OrgStep
<1>2. OrgInv => MembershipKept
  BY DEF OrgInv
<1> QED BY <1>1, <1>2, OrgStart, PTL DEF OrgSpec

(* And an organization that is not closed loses its owner only to the        *)
(* owner's own account closure, by a check that saw it suspended             *)
(* (prepare_teacher_account_deletion, assert_active_organization_owner).     *)
THEOREM OwnerIsKept == OrgSpec => OwnerLostOnlyUnseen
<1>1. OrgInv /\ [OrgNext]_orgVars => OrgInv'
  BY OrgStep
<1>2. ASSUME OrgInv, [OrgNext]_orgVars
      PROVE  [HasOwner(member) /\ ~ HasOwner(member') /\ ~ org'.closed =>
               \E t \in Txns : At(t, {"leave"}, "commit") /\ tx[t].saw = "suspended"]_orgVars
  <2> SUFFICES ASSUME OrgNext, HasOwner(member), ~ HasOwner(member'), ~ org'.closed
               PROVE  \E t \in Txns : At(t, {"leave"}, "commit") /\ tx[t].saw = "suspended"
    BY <1>2
  <2>1. member' # member
    OBVIOUS
  <2>2. PICK t \in Txns : Commit(t)
    BY <2>1, OnlyCommitsChange
  <2> QED BY <1>2, <2>2, CommitLoses
<1> QED BY <1>1, <1>2, OrgStart, PTL DEF OrgSpec, OwnerLostOnlyUnseen
=============================================================================

----------------------- MODULE OrganizationOwnership -----------------------
(***************************************************************************)
(* One organization, its memberships and the accounts behind them: the     *)
(* database functions that change them, run as concurrent READ COMMITTED   *)
(* transactions.                                                           *)
(*                                                                         *)
(*   set_organization_membership        kind "edit"                        *)
(*   remove_organization_membership     kind "remove"                      *)
(*   transfer_organization_ownership    kind "transfer"                    *)
(*   deactivate_organization            kind "deactivate"                  *)
(*   prepare_teacher_account_deletion   kind "leave"                       *)
(*   platform_update_organization       kind "update"                      *)
(*   platform_set_organization_admin    kind "appoint"                     *)
(*   platform_prepare_user_deletion     kind "delete"                      *)
(*                                                                         *)
(* A step is one statement: it waits for the row locks it takes, reads     *)
(* what is committed, and keeps its writes to itself until Commit.  The    *)
(* owner triggers are deferred: they run in CheckOwner, a step before the  *)
(* commit they allow becomes visible to anyone else.                       *)
(***************************************************************************)
EXTENDS Naturals, FiniteSets

CONSTANTS
  Users,       \* accounts
  Txns,        \* database connections
  Kinds,       \* the functions in use
  MaxCalls,    \* calls ever made (bound)
  NoRow        \* no row

AllKinds == {"edit", "remove", "transfer", "deactivate", "leave", "update", "appoint", "delete"}

ASSUME CallAssumption == Kinds \subseteq AllKinds /\ MaxCalls \in Nat
ASSUME NoRowAssumption ==
  /\ NoRow \notin AllKinds \cup {"owner", "admin", "teacher"}
  /\ NoRow \notin [role: {"owner", "admin", "teacher"}, status: {"active", "suspended"}]
  /\ NoRow \notin [status: {"active", "suspended"}, closed: BOOLEAN]

VARIABLES
  org,       \* the organizations row
  member,    \* organization_memberships, NoRow where there is no row
  deleted,   \* accounts whose profile carries account_deleted_at
  tx,        \* what each connection is executing
  edits,     \* membership rows a transaction has written
  newOrg,    \* the organizations row it has written, or NoRow
  held,      \* row locks FOR UPDATE
  shared,    \* row locks FOR SHARE
  calls      \* calls made so far

rows == <<org, member, deleted>>
work == <<tx, edits, newOrg, held, shared>>
orgVars == <<org, member, deleted, tx, edits, newOrg, held, shared, calls>>

(* The roles teacher and member differ in nothing here. *)
Roles == {"owner", "admin", "teacher"}
Membership == [role: Roles, status: {"active", "suspended"}]
Org == [status: {"active", "suspended"}, closed: BOOLEAN]

OrgRow == <<"organization", "row">>
PlatformRows == <<"platform administrators", "rows">>
Account(u) == <<"account", u>>
MemberRow(u) == <<"membership", u>>

Operating(o) == o.status = "active" /\ ~ o.closed

OwnedBy(m, u) == m[u] # NoRow /\ m[u].role = "owner" /\ m[u].status = "active"

HasOwner(m) == \E u \in Users : OwnedBy(m, u)

(* organization_role_for: nobody has a role in a suspended organization. *)
RoleOf(u) ==
  IF Operating(org) /\ member[u] # NoRow /\ member[u].status = "active"
  THEN member[u].role ELSE NoRow

NoRows == [u \in {} |-> NoRow]
Idle == [pc |-> "idle", kind |-> NoRow, actor |-> NoRow, user |-> NoRow, role |-> NoRow,
         status |-> NoRow, as |-> NoRow, saw |-> NoRow]

Call(k, actor, user, role, status) ==
  [Idle EXCEPT !.kind = k, !.actor = actor, !.user = user, !.role = role, !.status = status]

(* Faulty variants, named Bad..., stand before the definitions they vary: a *)
(* run that uses one in place of the code's own must fail.                  *)

-----------------------------------------------------------------------------
(* Locks, writes, and the end of a transaction *)

CanLock(t, row) == \A q \in Txns \ {t} : row \notin held[q] \cup shared[q]
CanShare(t, row) == \A q \in Txns \ {t} : row \notin held[q]

Go(t, pc) == tx' = [tx EXCEPT ![t].pc = pc]
Lock(t, row) == held' = [held EXCEPT ![t] = @ \cup {row}]

At(t, kinds, pc) == tx[t].kind \in kinds /\ tx[t].pc = pc

Merged(t) == [u \in Users |-> IF u \in DOMAIN edits[t] THEN edits[t][u] ELSE member[u]]
Write(t, f) == edits' = [edits EXCEPT ![t] = [u \in DOMAIN @ \cup DOMAIN f |->
                                                IF u \in DOMAIN f THEN f[u] ELSE @[u]]]
Row(u, value) == [v \in {u} |-> value]

End(t) ==
  /\ tx' = [tx EXCEPT ![t] = Idle]
  /\ edits' = [edits EXCEPT ![t] = NoRows]
  /\ newOrg' = [newOrg EXCEPT ![t] = NoRow]
  /\ held' = [held EXCEPT ![t] = {}]
  /\ shared' = [shared EXCEPT ![t] = {}]

(* An exception rolls the transaction back. *)
Raise(t) == End(t) /\ UNCHANGED <<rows, calls>>

OrgInit ==
  /\ org = [status |-> "active", closed |-> FALSE]
  /\ \E o \in Users :
       \E m \in [Users -> {NoRow} \cup [role: {"admin", "teacher"}, status: {"active"}]] :
         member = [m EXCEPT ![o] = [role |-> "owner", status |-> "active"]]
  /\ deleted = {}
  /\ tx = [t \in Txns |-> Idle]
  /\ edits = [t \in Txns |-> NoRows]
  /\ newOrg = [t \in Txns |-> NoRow]
  /\ held = [t \in Txns |-> {}]
  /\ shared = [t \in Txns |-> {}]
  /\ calls = 0

-----------------------------------------------------------------------------
(* The calls.  Platform operators and people without a membership are not  *)
(* among the users' roles; a caller whose account is deleted has no session. *)

Requests ==
  {Call("edit", a, u, r, s) : a \in Users, u \in Users, r \in {"admin", "teacher"},
                              s \in {"active", "suspended"}}
  \cup {Call("remove", a, u, NoRow, NoRow) : a \in Users, u \in Users}
  \cup {Call("transfer", a, u, NoRow, NoRow) : a \in Users, u \in Users}
  \cup {Call("deactivate", a, a, NoRow, NoRow) : a \in Users}
  \cup {Call("leave", a, a, NoRow, NoRow) : a \in Users}
  \cup {Call("delete", NoRow, u, NoRow, NoRow) : u \in Users}
  \cup {Call("appoint", NoRow, u, r, "active") : u \in Users, r \in {"admin", NoRow}}
  \cup {Call("update", NoRow, NoRow, NoRow, s) : s \in {"active", "suspended"}}

Begin(t, c) ==
  /\ tx[t].pc = "idle" /\ calls < MaxCalls
  /\ c.kind \in Kinds /\ c.actor \notin deleted
  /\ c.kind = "transfer" => c.actor # c.user
  /\ tx' = [tx EXCEPT ![t] = [c EXCEPT !.pc =
              IF c.kind \in {"leave", "delete"} THEN "account" ELSE "organization"]]
  /\ calls' = calls + 1
  /\ UNCHANGED <<rows, edits, newOrg, held, shared>>

(* select ... from organizations ... for update *)
LockOrganization(t) ==
  /\ At(t, {"edit", "remove", "transfer", "deactivate", "appoint"}, "organization")
  /\ CanLock(t, OrgRow)
  /\ IF tx[t].kind \in {"transfer", "deactivate"} => Operating(org)
     THEN /\ Lock(t, OrgRow)
          /\ Go(t, IF tx[t].kind = "appoint" THEN "read" ELSE "authorize")
          /\ UNCHANGED <<rows, edits, newOrg, shared, calls>>
     ELSE Raise(t)

(* actor_role := organization_role_for(...) and what it is compared with.  *)
(* remove compares after it has locked its target, which changes nothing   *)
(* but how long a refused call holds that lock.                            *)
Authorize(t) ==
  LET c == tx[t]
      r == RoleOf(c.actor)
      ok == IF c.kind \in {"transfer", "deactivate"} THEN r = "owner"
            ELSE r \in {"owner", "admin"} /\ ~ (r = "admin" /\ c.role = "admin")
  IN  /\ At(t, {"edit", "remove", "transfer", "deactivate"}, "authorize")
      /\ IF ok
         THEN /\ tx' = [tx EXCEPT ![t].as = r,
                                  ![t].pc = IF c.kind = "deactivate" THEN "close" ELSE "target"]
              /\ UNCHANGED <<rows, edits, newOrg, held, shared, calls>>
         ELSE Raise(t)

(* The target's row is read FOR UPDATE. *)
LockTarget(t) ==
  LET u == tx[t].user
  IN  /\ CanLock(t, MemberRow(u))
      /\ held' = IF member[u] = NoRow THEN held ELSE [held EXCEPT ![t] = @ \cup {MemberRow(u)}]

Protected(t, u) ==
  /\ member[u] # NoRow
  /\ member[u].role = "owner" \/ (tx[t].as = "admin" /\ member[u].role = "admin")

EditTarget(t) ==
  /\ At(t, {"edit"}, "target")
  /\ IF Protected(t, tx[t].user) /\ CanLock(t, MemberRow(tx[t].user)) THEN Raise(t)
     ELSE /\ LockTarget(t) /\ Go(t, "insert")
          /\ UNCHANGED <<rows, edits, newOrg, shared, calls>>

RemoveTarget(t) ==
  /\ At(t, {"remove"}, "target")
  /\ IF Protected(t, tx[t].user) /\ CanLock(t, MemberRow(tx[t].user)) THEN Raise(t)
     ELSE /\ LockTarget(t) /\ Go(t, "check")
          /\ IF member[tx[t].user] = NoRow THEN edits' = edits ELSE Write(t, Row(tx[t].user, NoRow))
          /\ UNCHANGED <<rows, newOrg, shared, calls>>

Promote(t) ==
  LET u == tx[t].user
  IN  /\ At(t, {"transfer"}, "target")
      /\ CanLock(t, MemberRow(u))
      /\ IF member[u] # NoRow /\ member[u].status = "active" /\ member[u].role # "owner"
         THEN /\ LockTarget(t) /\ Go(t, "demote")
              /\ Write(t, Row(u, [role |-> "owner", status |-> "active"]))
              /\ UNCHANGED <<rows, newOrg, shared, calls>>
         ELSE Raise(t)

(* The update of a row that has gone meanwhile changes nothing. *)
Demote(t) ==
  LET a == tx[t].actor
  IN  /\ At(t, {"transfer"}, "demote")
      /\ CanLock(t, MemberRow(a))
      /\ Lock(t, MemberRow(a)) /\ Go(t, "check")
      /\ IF member[a] = NoRow THEN edits' = edits
         ELSE Write(t, Row(a, [role |-> "admin", status |-> "active"]))
      /\ UNCHANGED <<rows, newOrg, shared, calls>>

(* platform_set_organization_admin reads the current role without a lock. *)
ReadRole(t) ==
  LET m == member[tx[t].user]
  IN  /\ At(t, {"appoint"}, "read")
      /\ IF m # NoRow /\ m.role = "owner" THEN Raise(t)
         ELSE /\ Go(t, IF tx[t].role # NoRow THEN "insert"
                       ELSE IF m # NoRow /\ m.role = "admin" THEN "row" ELSE "check")
              /\ UNCHANGED <<rows, edits, newOrg, held, shared, calls>>

BadInsert(t) ==                      \* a plain read of the account's marker
  LET c == tx[t]
  IN  /\ At(t, {"edit", "appoint"}, "insert")
      /\ CanShare(t, OrgRow) /\ CanLock(t, MemberRow(c.user))
      /\ IF c.user \in deleted \/ org.closed THEN Raise(t)
         ELSE /\ Lock(t, MemberRow(c.user))
              /\ shared' = [shared EXCEPT ![t] = @ \cup {OrgRow}]
              /\ Write(t, Row(c.user, [role |-> c.role, status |-> c.status]))
              /\ Go(t, "check")
              /\ UNCHANGED <<rows, newOrg, calls>>

(* insert ... on conflict do update, with the triggers that run before it:  *)
(* the account and the organization are locked FOR SHARE; the account must  *)
(* be live, the organization not deactivated.                               *)
Insert(t) ==
  LET c == tx[t]
  IN  /\ At(t, {"edit", "appoint"}, "insert")
      /\ CanShare(t, Account(c.user)) /\ CanShare(t, OrgRow) /\ CanLock(t, MemberRow(c.user))
      /\ IF c.user \in deleted \/ org.closed THEN Raise(t)
         ELSE /\ Lock(t, MemberRow(c.user))
              /\ shared' = [shared EXCEPT ![t] = @ \cup {Account(c.user), OrgRow}]
              /\ Write(t, Row(c.user, [role |-> c.role, status |-> c.status]))
              /\ Go(t, "check")
              /\ UNCHANGED <<rows, newOrg, calls>>

(* update organizations set status = ... where deactivated_at is null *)
UpdateOrganization(t) ==
  /\ At(t, {"update"}, "organization")
  /\ CanLock(t, OrgRow)
  /\ IF org.closed THEN Raise(t)
     ELSE /\ Lock(t, OrgRow) /\ Go(t, "check")
          /\ newOrg' = [newOrg EXCEPT ![t] = [org EXCEPT !.status = tx[t].status]]
          /\ UNCHANGED <<rows, edits, shared, calls>>

CloseOrganization(t) ==
  /\ At(t, {"deactivate"}, "close")
  /\ newOrg' = [newOrg EXCEPT ![t] = [status |-> "suspended", closed |-> TRUE]]
  /\ Go(t, "sweep")
  /\ UNCHANGED <<rows, edits, held, shared, calls>>

(* delete from organization_memberships of the organization, row by row *)
Sweep(t) ==
  LET left == {u \in Users \ DOMAIN edits[t] : member[u] # NoRow}
  IN  /\ At(t, {"deactivate"}, "sweep")
      /\ IF left = {}
         THEN Go(t, "check") /\ UNCHANGED <<rows, edits, newOrg, held, shared, calls>>
         ELSE \E u \in left :
                /\ CanLock(t, MemberRow(u)) /\ Lock(t, MemberRow(u)) /\ Write(t, Row(u, NoRow))
                /\ UNCHANGED <<rows, tx, newOrg, shared, calls>>

-----------------------------------------------------------------------------
(* Account closure *)

LockAccount(t) ==
  /\ At(t, {"leave", "delete"}, "account")
  /\ CanLock(t, Account(tx[t].user))
  /\ Lock(t, Account(tx[t].user)) /\ Go(t, "find")
  /\ UNCHANGED <<rows, edits, newOrg, shared, calls>>

(* Which organization rows the FOR UPDATE join finds in its snapshot: an    *)
(* owner who leaves locks the organizations that operate, the platform all, *)
(* after it has locked its own administrators.                              *)
FindOrganizations(t) ==
  LET u == tx[t].user
      found == IF tx[t].kind = "leave" THEN OwnedBy(member, u) /\ Operating(org)
               ELSE member[u] # NoRow
  IN  /\ At(t, {"leave", "delete"}, "find")
      /\ IF tx[t].kind = "leave" THEN held' = held
         ELSE CanLock(t, PlatformRows) /\ Lock(t, PlatformRows)
      /\ Go(t, IF found THEN "lock" ELSE "owners")
      /\ UNCHANGED <<rows, edits, newOrg, shared, calls>>

(* After the wait the row's own condition is evaluated again. *)
LockFound(t) ==
  /\ At(t, {"leave", "delete"}, "lock")
  /\ CanLock(t, OrgRow)
  /\ held' = IF tx[t].kind = "delete" \/ Operating(org)
             THEN [held EXCEPT ![t] = @ \cup {OrgRow}] ELSE held
  /\ Go(t, "owners")
  /\ UNCHANGED <<rows, edits, newOrg, shared, calls>>

Guarded(kind) == IF kind = "leave" THEN Operating(org) ELSE ~ org.closed

LastOwner(u) == OwnedBy(member, u) /\ \A v \in Users \ {u} : ~ OwnedBy(member, v)

CheckLastOwner(t) ==
  /\ At(t, {"leave", "delete"}, "owners")
  /\ IF LastOwner(tx[t].user) /\ Guarded(tx[t].kind) THEN Raise(t)
     ELSE Go(t, "row") /\ UNCHANGED <<rows, edits, newOrg, held, shared, calls>>

(* delete from organization_memberships where user_id = ... *)
DeleteRow(t) ==
  LET u == tx[t].user
  IN  /\ At(t, {"leave", "delete", "appoint"}, "row")
      /\ CanLock(t, MemberRow(u))
      /\ Go(t, "check")
      /\ IF member[u] = NoRow THEN UNCHANGED <<edits, held>>
         ELSE Lock(t, MemberRow(u)) /\ Write(t, Row(u, NoRow))
      /\ UNCHANGED <<rows, newOrg, shared, calls>>

-----------------------------------------------------------------------------
(* The end of every transaction *)

OrgSeenBy(t) == IF newOrg[t] = NoRow THEN org ELSE newOrg[t]

BadCheckOwner(t) ==                  \* no trigger on the memberships
  LET fires == newOrg[t] # NoRow
  IN  /\ tx[t].pc = "check"
      /\ IF fires /\ Operating(OrgSeenBy(t)) /\ ~ HasOwner(Merged(t)) THEN Raise(t)
         ELSE /\ tx' = [tx EXCEPT ![t].pc = "commit", ![t].saw = OrgSeenBy(t).status]
              /\ UNCHANGED <<rows, edits, newOrg, held, shared, calls>>

(* assert_active_organization_owner, deferred to the commit, sees the       *)
(* transaction's own writes and what others have committed.                 *)
CheckOwner(t) ==
  LET fires == DOMAIN edits[t] # {} \/ newOrg[t] # NoRow
  IN  /\ tx[t].pc = "check"
      /\ IF fires /\ Operating(OrgSeenBy(t)) /\ ~ HasOwner(Merged(t)) THEN Raise(t)
         ELSE /\ tx' = [tx EXCEPT ![t].pc = "commit", ![t].saw = OrgSeenBy(t).status]
              /\ UNCHANGED <<rows, edits, newOrg, held, shared, calls>>

Commit(t) ==
  /\ tx[t].pc = "commit"
  /\ org' = OrgSeenBy(t)
  /\ member' = Merged(t)
  /\ deleted' = IF tx[t].kind \in {"leave", "delete"} THEN deleted \cup {tx[t].user} ELSE deleted
  /\ End(t)
  /\ UNCHANGED calls

(* A missing entitlement, a lost connection, or the deadlock detector. *)
Abort(t) == tx[t].pc # "idle" /\ Raise(t)

Step(t) ==
  \/ LockOrganization(t) \/ Authorize(t)
  \/ EditTarget(t) \/ RemoveTarget(t) \/ Promote(t) \/ Demote(t) \/ ReadRole(t) \/ Insert(t)
  \/ UpdateOrganization(t) \/ CloseOrganization(t) \/ Sweep(t)
  \/ LockAccount(t) \/ FindOrganizations(t) \/ LockFound(t) \/ CheckLastOwner(t) \/ DeleteRow(t)
  \/ CheckOwner(t) \/ Commit(t)

OrgNext == \E t \in Txns : (\E c \in Requests : Begin(t, c)) \/ Step(t) \/ Abort(t)

OrgSpec == OrgInit /\ [][OrgNext]_orgVars

-----------------------------------------------------------------------------
PCs == {"idle", "organization", "authorize", "target", "demote", "read", "insert", "close", "sweep",
        "account", "find", "lock", "owners", "row", "check", "commit"}

CallOK(c) ==
  /\ c = [pc |-> c.pc, kind |-> c.kind, actor |-> c.actor, user |-> c.user, role |-> c.role,
          status |-> c.status, as |-> c.as, saw |-> c.saw]
  /\ c.pc \in PCs /\ c.kind \in Kinds \cup {NoRow} /\ (c.pc # "idle" => c.kind # NoRow)
  /\ c.kind \in AllKinds \ {"update"} => c.user \in Users
  /\ c.kind = "edit" => c.role \in {"admin", "teacher"}
  /\ c.kind = "appoint" => c.role \in {"admin", NoRow}
  /\ c.kind \in {"edit", "appoint", "update"} => c.status \in {"active", "suspended"}
  /\ c.kind = "transfer" => c.actor \in Users /\ c.actor # c.user

(* Tables and transactions keep their shape. *)
OrgTypeOK ==
  /\ org \in Org
  /\ member \in [Users -> Membership \cup {NoRow}]
  /\ deleted \subseteq Users
  /\ tx = [t \in Txns |-> tx[t]] /\ edits = [t \in Txns |-> edits[t]] /\ newOrg \in [Txns -> Org \cup {NoRow}]
  /\ held = [t \in Txns |-> held[t]] /\ shared = [t \in Txns |-> shared[t]]
  /\ \A t \in Txns :
       /\ CallOK(tx[t])
       /\ DOMAIN edits[t] \subseteq Users
       /\ \A u \in DOMAIN edits[t] : edits[t][u] \in Membership \cup {NoRow}

(* "A direct trusted write must not be able to leave an active organization *)
(* without an active owner" (the comment on assert_active_organization_owner). *)
OperatingHasOwner == Operating(org) => HasOwner(member)

(* Ownership is never shared and never dormant: there is at most one owner, *)
(* whose membership is active, however transfers, edits and closures meet.  *)
OneOwner ==
  \A u \in Users :
    member[u] # NoRow /\ member[u].role = "owner" =>
      /\ member[u].status = "active"
      /\ \A v \in Users \ {u} : member[v] = NoRow \/ member[v].role # "owner"

(* A deleted account holds no membership, and none is ever made for it      *)
(* (the comment on require_live_account: a concurrent insert waits and sees *)
(* the committed marker).                                                   *)
DeletedHoldsNothing == \A u \in deleted : member[u] = NoRow

(* Deactivation is final: nobody belongs to a closed organization, nor is   *)
(* anyone added by a call that was under way when it closed.                *)
ClosedIsEmpty == org.closed => org.status = "suspended" /\ \A u \in Users : member[u] = NoRow

(* Whatever functions run against each other, no membership is left that    *)
(* should not be: no second owner, none of a deleted account, none in a     *)
(* closed organization.                                                     *)
MembershipKept == OneOwner /\ DeletedHoldsNothing /\ ClosedIsEmpty

(* An organization that is not closed loses its last owner in one way only: *)
(* the owner's own account closure, let through by owner checks that saw    *)
(* the organization suspended.                                              *)
OwnerLostOnlyUnseen ==
  [][HasOwner(member) /\ ~ HasOwner(member') /\ ~ org'.closed =>
       \E t \in Txns : At(t, {"leave"}, "commit") /\ tx[t].saw = "suspended"]_orgVars

-----------------------------------------------------------------------------
(* What makes these inductive: the locks, and what each call c that has    *)
(* written e and o, and holds h and s, relies on while they last.  A call   *)
(* that has not locked the organization only takes memberships away.        *)

LocksExclude == \A t, q \in Txns : t # q => held[t] \cap (held[q] \cup shared[q]) = {}

IsOwner(u) == member[u] # NoRow /\ member[u].role = "owner"

(* A row is written under its lock; a call that makes one has locked the    *)
(* organization besides, and the account unless the row was there.          *)
WritesAreLocked(e, h, s) ==
  \A u \in DOMAIN e :
    /\ MemberRow(u) \in h
    /\ e[u] # NoRow => /\ OrgRow \in h /\ ~ org.closed /\ u \notin deleted
                       /\ Account(u) \in s \/ member[u] # NoRow

(* The functions that make or take a membership other than an owner's. *)
MemberCall(c, e, o, h) ==
  /\ o = NoRow /\ DOMAIN e \subseteq {c.user}
  /\ c.pc # "organization" => OrgRow \in h
  /\ c.pc \in {"insert", "row", "check", "commit"} => ~ IsOwner(c.user)
  /\ c.pc = "insert" => c.role # NoRow
  /\ \A u \in DOMAIN e : e[u] = NoRow \/ e[u].role # "owner"

(* The owner hands over, and nobody else is one. *)
TransferCall(c, e, o, h) ==
  /\ o = NoRow
  /\ c.pc # "organization" => OrgRow \in h
  /\ c.pc \in {"organization", "authorize", "target"} => DOMAIN e = {}
  /\ c.pc \in {"target", "demote", "check", "commit"} => ~ org.closed /\ \A u \in Users : IsOwner(u) => u = c.actor
  /\ c.pc \in {"demote", "check", "commit"} =>
       /\ c.user \in DOMAIN e /\ DOMAIN e \subseteq IF c.pc = "demote" THEN {c.user} ELSE {c.user, c.actor}
       /\ e[c.user] = [role |-> "owner", status |-> "active"]
  /\ c.pc \in {"check", "commit"} =>
       IF c.actor \in DOMAIN e THEN e[c.actor] = [role |-> "admin", status |-> "active"] ELSE member[c.actor] = NoRow

(* The organization closes, and nobody is left. *)
DeactivateCall(c, e, o, h) ==
  /\ c.pc # "organization" => OrgRow \in h
  /\ o = IF c.pc \in {"sweep", "check", "commit"} THEN [status |-> "suspended", closed |-> TRUE] ELSE NoRow
  /\ \A u \in DOMAIN e : e[u] = NoRow
  /\ c.pc \in {"check", "commit"} => \A u \in Users : u \in DOMAIN e \/ member[u] = NoRow

UpdateCall(c, e, o, h) == DOMAIN e = {} /\ (o # NoRow => OrgRow \in h /\ ~ o.closed /\ ~ org.closed)

(* An account closes: nobody makes it a member any more, and an owner's row *)
(* goes only by a check that saw no organization to guard, or saw another   *)
(* owner, of which there is none.                                           *)
ClosureCall(c, e, o, h) ==
  /\ o = NoRow /\ DOMAIN e \subseteq {c.user} /\ \A u \in DOMAIN e : e[u] = NoRow
  /\ c.pc # "account" => Account(c.user) \in h
  /\ c.pc \in {"check", "commit"} => c.user \in DOMAIN e \/ member[c.user] = NoRow
  /\ c.kind = "delete" /\ c.pc \in {"owners", "row", "check", "commit"} => OrgRow \in h \/ member[c.user] = NoRow
  /\ c.kind = "delete" /\ c.pc \in {"row", "check", "commit"} => ~ IsOwner(c.user)
  /\ c.kind = "leave" /\ c.pc = "commit" /\ c.saw # "suspended" /\ c.user \in DOMAIN e => ~ IsOwner(c.user)

CallInv(c, e, o, h, s) ==
  /\ CallOK(c) /\ WritesAreLocked(e, h, s)
  /\ c.pc = "idle" => DOMAIN e = {} /\ o = NoRow
  /\ c.pc # "idle" =>
       /\ c.kind \in {"edit", "appoint", "remove"} => MemberCall(c, e, o, h)
       /\ c.kind = "transfer" => TransferCall(c, e, o, h)
       /\ c.kind = "deactivate" => DeactivateCall(c, e, o, h)
       /\ c.kind = "update" => UpdateCall(c, e, o, h)
       /\ c.kind \in {"leave", "delete"} => ClosureCall(c, e, o, h)

OrgInv ==
  /\ OrgTypeOK /\ MembershipKept /\ LocksExclude
  /\ \A t \in Txns : CallInv(tx[t], edits[t], newOrg[t], held[t], shared[t])
=============================================================================

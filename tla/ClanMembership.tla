---------------------------- MODULE ClanMembership ----------------------------
(***************************************************************************)
(* The roster of one clan: who is a member, in which role, bound to which  *)
(* node of the tree, limited to which branch; and the invites that let new *)
(* users in.  One row of giapha_clanmember per user, one row of            *)
(* giapha_claninvite per invite.                                           *)
(*                                                                         *)
(* A web worker serves one request at a time, in three steps that other    *)
(* workers interleave with:                                                *)
(*   Arrive   the permission class runs and caches the caller's row ("me") *)
(*   ...Read  the handler reads what it decides on, or takes a row lock    *)
(*            with SELECT ... FOR UPDATE and re-reads under it             *)
(*   ...Save  its writing transaction commits and the response is sent     *)
(* MySQL runs at READ COMMITTED: a read sees what is committed at that     *)
(* moment, and nothing keeps it true until the save but a row lock.        *)
(***************************************************************************)
EXTENDS Naturals, FiniteSets

CONSTANTS
  Users, Workers, Invites, Persons,
  NoUser, NoPerson, NoInvite, Free,   \* NULLs of the columns, no lock holder
  Keep,             \* "this field is not in the PATCH body"
  Kinds,            \* the requests clients of this instance send
  InitialRosters,   \* the rosters the clan may start with
  Branch,           \* branch_scope_ids of every node: it, its descendants, their spouses
  UseLimits,        \* the max_uses clients ask for (0: unlimited)
  MaxOpen,          \* MAX_OPEN_INVITES_PER_MEMBER
  MaxRequests,      \* bound: requests in one behaviour
  Mortals           \* bound: the nodes the tree editor touches meanwhile

Roles == {"owner", "manager", "editor", "viewer"}
EditorRoles == {"owner", "manager", "editor"}
ApproverRoles == {"owner", "manager"}
InviteRoles == {"editor", "viewer"}
AllKinds == {"patch", "remove", "leave", "join", "create", "revoke", "approve",
             "reject", "bind", "unbind", "verify", "unverify"}

(* A member row; role "none" stands for "no row".  `row` is its primary    *)
(* key: a user who leaves and joins again gets another one.                *)
MemberRows == [role : Roles \cup {"none"}, person : Persons \cup {NoPerson},
               verified : BOOLEAN, scope : Persons \cup {NoPerson}, row : Nat]

NoRow == [role |-> "none", person |-> NoPerson, verified |-> FALSE,
          scope |-> NoPerson, row |-> 0]

InviteRows == [status : {"unborn", "pending_approval", "active", "rejected", "gone"},
               role : InviteRoles, person : Persons \cup {NoPerson},
               max : Nat, used : Nat, by : Users \cup {NoUser},
               approvedBy : Users \cup {NoUser}, expired : BOOLEAN]

NoInviteRow == [status |-> "unborn", role |-> "viewer", person |-> NoPerson,
                max |-> 0, used |-> 0, by |-> NoUser, approvedBy |-> NoUser,
                expired |-> FALSE]

ASSUME NullsAssumption ==
  /\ NoUser \notin Users
  /\ NoPerson \notin Persons
  /\ NoInvite \notin Invites
  /\ Free \notin Workers
  /\ Keep \notin Persons \cup {NoPerson} \cup Roles
ASSUME KindsAssumption == Kinds \subseteq AllKinds
ASSUME LimitsAssumption ==
  /\ UseLimits \subseteq Nat
  /\ MaxOpen \in Nat
  /\ MaxRequests \in Nat
  /\ Mortals \subseteq Persons
ASSUME BranchAssumption == Branch \in [Persons -> SUBSET Persons]
(* Every clan is created with its creator as owner, a role other than      *)
(* `editor` has no branch, and what is verified is a claim to a node.      *)
ASSUME RosterAssumption ==
  /\ IsFiniteSet(Users)
  /\ InitialRosters \subseteq [Users -> MemberRows]
  /\ \A r \in InitialRosters :
       /\ \E u \in Users : r[u].role = "owner"
       /\ \A u \in Users : /\ r[u].scope # NoPerson => r[u].role = "editor"
                           /\ r[u].verified => r[u].person # NoPerson

VARIABLES
  member,   \* giapha_clanmember, by user
  invite,   \* giapha_claninvite
  node,     \* what the person table says of each node: "living", "deceased", "deleted"
  lock,     \* the worker holding the row lock of each invite
  req,      \* the request each worker is serving, with what it has read
  arrived,  \* requests sent so far
  vetted,   \* history: the node somebody entitled to it has vouched the user is
  joins     \* history: memberships created by redeeming each invite

db == <<member, invite, node>>
history == <<vetted, joins>>
vars == <<member, invite, node, lock, req, arrived, vetted, joins>>

Steps == {"idle", "permitted", "ready"}

Requests ==
  [kind : AllKinds \cup {"none"}, user : Users \cup {NoUser},
   target : Users \cup {NoUser}, role : Roles \cup {Keep},
   scope : Persons \cup {NoPerson, Keep}, person : Persons \cup {NoPerson},
   invite : Invites \cup {NoInvite}, uses : Nat, step : Steps,
   me : MemberRows, row : MemberRows, inv : InviteRows,
   vouched : Persons \cup {NoPerson}]

Idle == [kind |-> "none", user |-> NoUser, target |-> NoUser, role |-> Keep,
         scope |-> Keep, person |-> NoPerson, invite |-> NoInvite, uses |-> 0,
         step |-> "idle", me |-> NoRow, row |-> NoRow, inv |-> NoInviteRow,
         vouched |-> NoPerson]

TypeOK ==
  /\ member \in [Users -> MemberRows]
  /\ invite \in [Invites -> InviteRows]
  /\ node \in [Persons -> {"living", "deceased", "deleted"}]
  /\ lock \in [Invites -> Workers \cup {Free}]
  /\ req \in [Workers -> Requests]
  /\ arrived \in 0..MaxRequests
  /\ vetted \in [Users -> Persons \cup {NoPerson}]
  /\ joins \in [Invites -> Nat]

Init ==
  /\ member \in InitialRosters
  /\ invite = [i \in Invites |-> NoInviteRow]
  /\ node = [p \in Persons |-> "living"]
  /\ lock = [i \in Invites |-> Free]
  /\ req = [w \in Workers |-> Idle]
  /\ arrived = 0
  /\ vetted = [u \in Users |-> IF member[u].verified THEN member[u].person ELSE NoPerson]
  /\ joins = [i \in Invites |-> 0]

-----------------------------------------------------------------------------
(* Queries the handlers make.                                              *)

IsMember(row) == row.role # "none"
OwnerCount == Cardinality({u \in Users : member[u].role = "owner"})
Claimed(p) == \E u \in Users : member[u].person = p
ClaimedByOther(p, u) == \E v \in Users \ {u} : member[v].person = p

(* save(update_fields) and delete() address the primary key of the row     *)
(* that was read.                                                          *)
Exists(u, row) == IsMember(member[u]) /\ member[u].row = row.row

OpenInvites(u) ==
  {i \in Invites :
     /\ invite[i].by = u
     /\ \/ invite[i].status = "pending_approval"
        \/ /\ invite[i].status = "active"
           /\ ~invite[i].expired
           /\ invite[i].max = 0 \/ invite[i].used < invite[i].max}

IsExhausted(inv) == inv.max > 0 /\ inv.used >= inv.max

(* Whole-clan callers: approvers, and editors without a branch.            *)
WholeClan(row) ==
  row.role \in ApproverRoles \/ (row.role = "editor" /\ row.scope = NoPerson)

LiveBranch(root) ==
  IF root = NoPerson \/ node[root] = "deleted" THEN {}
  ELSE {p \in Branch[root] : node[p] # "deleted"}

BindingAutoVerified(me, p) ==
  WholeClan(me) \/ (me.role = "editor" /\ p \in LiveBranch(me.scope))

CanVerifyBinding(me, p) ==
  \/ me.role \in ApproverRoles
  \/ me.role = "editor" /\ me.scope # NoPerson /\ p \in LiveBranch(me.scope)

InviteScopeIds(me) ==
  LET branchRoot == IF me.role = "editor" THEN me.scope ELSE NoPerson
      ownNode == IF me.verified THEN me.person ELSE NoPerson
  IN IF WholeClan(me) THEN Persons
     ELSE UNION {LiveBranch(r) \ {r} : r \in {branchRoot, ownNode}}

\* Mutant: a manager's invites are active whatever role they grant.
ManagerFirstStatus(me, role, p) ==
  IF me.role \in ApproverRoles \/ (role = "viewer" /\ p # NoPerson /\ p \in InviteScopeIds(me))
  THEN "active" ELSE "pending_approval"

InviteInitialStatus(me, role, p) ==
  IF \/ me.role = "owner"
     \/ role = "viewer" /\ me.role = "manager"
     \/ role = "viewer" /\ p # NoPerson /\ p \in InviteScopeIds(me)
  THEN "active" ELSE "pending_approval"

-----------------------------------------------------------------------------
(* What clients send, and the permission class in front of each handler.   *)

HasPermission(kind, role) ==
  CASE kind = "join" -> TRUE
    [] kind \in {"patch", "remove"} -> role = "owner"
    [] kind \in {"approve", "reject"} -> role \in ApproverRoles
    [] kind \in {"verify", "unverify"} -> role \in EditorRoles
    [] OTHER -> role \in Roles

(* A request gets past its permission class; cached_member(request) is the *)
(* row the class read, and stays what it was for the rest of the request.  *)
Permit(w, q) ==
  /\ HasPermission(q.kind, member[q.user].role)
  /\ req' = [req EXCEPT ![w] = [q EXCEPT !.step = "permitted", !.me = member[q.user]]]

Ask(kind, u, t) == [Idle EXCEPT !.kind = kind, !.user = u, !.target = t]

Arrive(w) ==
  /\ req[w].step = "idle"
  /\ arrived < MaxRequests
  /\ \E kind \in Kinds, u \in Users :
       \/ /\ kind = "patch"
          /\ \E t \in Users, role \in Roles \cup {Keep}, scope \in Persons \cup {NoPerson, Keep} :
               /\ role # Keep \/ scope # Keep
               /\ Permit(w, [Ask(kind, u, t) EXCEPT !.role = role, !.scope = scope])
       \/ /\ kind \in {"remove", "verify", "unverify"}
          /\ \E t \in Users : Permit(w, Ask(kind, u, t))
       \/ /\ kind \in {"leave", "unbind"}
          /\ Permit(w, Ask(kind, u, u))
       \/ /\ kind = "bind"
          /\ \E p \in Persons : Permit(w, [Ask(kind, u, u) EXCEPT !.person = p])
       \/ /\ kind = "create"
          /\ \E role \in InviteRoles, p \in Persons \cup {NoPerson}, n \in UseLimits :
               Permit(w, [Ask(kind, u, NoUser) EXCEPT !.role = role, !.person = p, !.uses = n])
       \/ /\ kind \in {"join", "revoke", "approve", "reject"}
          /\ \E i \in Invites : Permit(w, [Ask(kind, u, u) EXCEPT !.invite = i])
  /\ arrived' = arrived + 1
  /\ UNCHANGED <<db, lock, history>>

-----------------------------------------------------------------------------
(* How a step of a handler ends.                                           *)

At(w, kinds, step) == req[w].kind \in kinds /\ req[w].step = step

\* Mutant: an error response leaves the transaction of the request open.
LocksKept(w) == lock
(* The end of transaction.atomic(), by COMMIT or ROLLBACK.                 *)
LocksReleased(w) == [i \in Invites |-> IF lock[i] = w THEN Free ELSE lock[i]]

(* An error response before anything was written.                          *)
Refuse(w) ==
  /\ req' = [req EXCEPT ![w] = Idle]
  /\ lock' = LocksReleased(w)
  /\ UNCHANGED <<db, arrived, history>>

(* The handler goes on to its save with what it has read or computed, and  *)
(* with the node it has vouched for (history).                             *)
ProceedVouching(w, row, inv, p) ==
  /\ req' = [req EXCEPT ![w] =
       [@ EXCEPT !.step = "ready", !.row = row, !.inv = inv, !.vouched = p]]
  /\ UNCHANGED <<db, arrived, history>>
Proceed(w, row, inv) == ProceedVouching(w, row, inv, NoPerson)

(* The save has committed: the worker is free, and so are its locks.       *)
Respond(w) ==
  /\ req' = [req EXCEPT ![w] = Idle]
  /\ lock' = LocksReleased(w)
  /\ UNCHANGED <<node, arrived>>

-----------------------------------------------------------------------------
(* PATCH members/{user_id}: a new role, a new branch, or both.             *)

\* Mutant: the branch of a former editor stays in the row.
BranchKept(q, row) ==
  [row EXCEPT !.role = IF q.role = Keep THEN @ ELSE q.role,
              !.scope = IF q.scope = Keep THEN @ ELSE q.scope]

\* Mutant: a role missing from the body is written as it is.
KeepWritten(q, row) ==
  [row EXCEPT !.role = q.role,
              !.scope = IF q.role = "editor" THEN @ ELSE NoPerson]

PatchedRow(q, row) ==
  LET newRole == IF q.role = Keep THEN row.role ELSE q.role
      root == IF q.scope = Keep THEN row.scope ELSE q.scope
  IN [row EXCEPT !.role = newRole,
                 !.scope = IF newRole = "editor" THEN root ELSE NoPerson]

\* Mutant: an off-by-one lets the last owner go.
LosesLastOwnerOffByOne(row, newRole) ==
  row.role = "owner" /\ newRole # "owner" /\ OwnerCount <= 0
LosesLastOwner(row, newRole) ==
  row.role = "owner" /\ newRole # "owner" /\ OwnerCount <= 1

PatchRead(w) ==
  LET q == req[w]
      row == member[q.target]
      new == PatchedRow(q, row)
  IN /\ At(w, {"patch"}, "permitted")
     /\ \/ /\ IsMember(row)
           /\ ~LosesLastOwner(row, new.role)
           /\ new.role # "editor" => q.scope \notin Persons
           /\ new.role = "editor" /\ new.scope # NoPerson => node[new.scope] # "deleted"
           /\ Proceed(w, new, NoInviteRow)
           /\ UNCHANGED lock
        \/ /\ \/ ~IsMember(row)
              \/ LosesLastOwner(row, new.role)
              \/ new.role # "editor" /\ q.scope \in Persons
              \/ new.role = "editor" /\ new.scope # NoPerson /\ node[new.scope] = "deleted"
           /\ Refuse(w)

(* save(update_fields=['role', 'scope_root_person']); a row that is gone   *)
(* makes it raise, and nothing is written.                                 *)
PatchSave(w) ==
  LET q == req[w] IN
  /\ At(w, {"patch"}, "ready")
  /\ member' = IF Exists(q.target, q.row)
               THEN [member EXCEPT ![q.target].role = q.row.role,
                                   ![q.target].scope = q.row.scope]
               ELSE member
  /\ UNCHANGED <<invite, history>>
  /\ Respond(w)

-----------------------------------------------------------------------------
(* DELETE members/{user_id} and DELETE members/me.                         *)

RemoveRead(w) ==
  LET q == req[w]
      row == member[q.target]
  IN /\ At(w, {"remove"}, "permitted")
     /\ \/ /\ IsMember(row)
           /\ ~LosesLastOwner(row, "none")
           /\ Proceed(w, row, NoInviteRow)
           /\ UNCHANGED lock
        \/ /\ ~IsMember(row) \/ LosesLastOwner(row, "none")
           /\ Refuse(w)

(* The handler of "leave" decides on the cached row alone.                 *)
LeaveRead(w) ==
  /\ At(w, {"leave"}, "permitted")
  /\ \/ /\ req[w].me.role # "owner"
        /\ Proceed(w, req[w].me, NoInviteRow)
        /\ UNCHANGED lock
     \/ /\ req[w].me.role = "owner"
        /\ Refuse(w)

\* Mutant: the codes the member minted survive them.
InvitesKept(u) == invite
InvitesDropped(u) ==
  [i \in Invites |-> IF invite[i].by = u THEN [NoInviteRow EXCEPT !.status = "gone"]
                     ELSE invite[i]]

(* _remove_member, in one transaction: the invites the user minted go, and *)
(* the row that was read (a row of the same user with another key stays).  *)
(* Deleting an invite waits for whoever holds its lock.  The deferred      *)
(* columns of a cached row are fetched on use, so "leave" raises when the  *)
(* row is gone.                                                            *)
RemoveSave(w) ==
  LET q == req[w]
      u == q.target
  IN /\ At(w, {"remove", "leave"}, "ready")
     /\ \/ /\ q.kind = "leave" => Exists(u, q.row)
           /\ \A i \in Invites : invite[i].by = u => lock[i] = Free
           /\ invite' = InvitesDropped(u)
           /\ IF Exists(u, q.row)
              THEN /\ member' = [member EXCEPT ![u] = [NoRow EXCEPT !.row = q.row.row]]
                   /\ vetted' = [vetted EXCEPT ![u] = NoPerson]
              ELSE UNCHANGED <<member, vetted>>
           /\ UNCHANGED joins
           /\ Respond(w)
        \/ /\ q.kind = "leave" /\ ~Exists(u, q.row)
           /\ Refuse(w)

-----------------------------------------------------------------------------
(* POST /clans/join: redeem a code.                                        *)

\* Mutant: the invite is read without FOR UPDATE.
ReadUnlocked(w, i) == UNCHANGED lock
(* SELECT ... FOR UPDATE on the invite's row.                              *)
TakeLock(w, i) ==
  /\ lock[i] = Free
  /\ lock' = [lock EXCEPT ![i] = w]

Redeemable(inv, u) ==
  /\ inv.status = "active"
  /\ ~IsMember(member[u])
  /\ ~inv.expired
  /\ ~IsExhausted(inv)
  /\ inv.role \in InviteRoles

(* A member who redeems a code gets a 200 and no second row.               *)
JoinRead(w) ==
  LET q == req[w]
      inv == invite[q.invite]
  IN /\ At(w, {"join"}, "permitted")
     /\ \/ /\ Redeemable(inv, q.user)
           /\ TakeLock(w, q.invite)
           /\ Proceed(w, NoRow, inv)
        \/ /\ ~Redeemable(inv, q.user)
           /\ lock[q.invite] = Free
           /\ Refuse(w)

(* The node an invite names is bound to the joiner if it is still live and *)
(* unclaimed when its row is locked; otherwise they join unbound.          *)
BindableTo(p) == p # NoPerson /\ node[p] # "deleted" /\ ~Claimed(p)

JoinSave(w) ==
  LET q == req[w]
      u == q.user
      bound == q.inv.person # NoPerson /\ BindableTo(q.inv.person)
  IN /\ At(w, {"join"}, "ready")
     /\ \/ /\ ~IsMember(member[u])
           /\ member' = [member EXCEPT ![u] =
                [role |-> q.inv.role,
                 person |-> IF bound THEN q.inv.person ELSE NoPerson,
                 verified |-> bound, scope |-> NoPerson, row |-> @.row + 1]]
           /\ vetted' = [vetted EXCEPT ![u] = IF bound THEN q.inv.person ELSE NoPerson]
           /\ invite' = [invite EXCEPT ![q.invite].used = q.inv.used + 1]
           /\ joins' = [joins EXCEPT ![q.invite] = @ + 1]
           /\ Respond(w)
        \/ /\ IsMember(member[u])    \* unique (clan, user): the INSERT fails
           /\ Refuse(w)

-----------------------------------------------------------------------------
(* POST /clans/{id}/invites and DELETE /clans/{id}/invites/{id}.           *)

MayMint(me, u, p) ==
  /\ me.role \in EditorRoles \/ (me.person # NoPerson /\ me.verified)
  /\ p # NoPerson => node[p] = "living" /\ ~Claimed(p)
  /\ me.role \notin ApproverRoles => Cardinality(OpenInvites(u)) < MaxOpen

CreateRead(w) ==
  LET q == req[w] IN
  /\ At(w, {"create"}, "permitted")
  /\ \/ /\ MayMint(q.me, q.user, q.person)
        /\ Proceed(w, NoRow,
             [NoInviteRow EXCEPT
                !.status = InviteInitialStatus(q.me, q.role, q.person),
                !.role = q.role, !.person = q.person, !.by = q.user,
                !.max = IF q.person = NoPerson THEN q.uses ELSE 1])
        /\ UNCHANGED lock
     \/ /\ ~MayMint(q.me, q.user, q.person)
        /\ Refuse(w)

CreateSave(w) ==
  /\ At(w, {"create"}, "ready")
  /\ \E i \in Invites :
       /\ invite[i].status = "unborn"
       /\ invite' = [invite EXCEPT ![i] = req[w].inv]
  /\ UNCHANGED <<member, history>>
  /\ Respond(w)

(* The bound on invites is reached: the request is dropped.                *)
CreateBeyondBound(w) ==
  /\ At(w, {"create"}, "ready")
  /\ \A i \in Invites : invite[i].status # "unborn"
  /\ Refuse(w)

Stored(inv) == inv.status \notin {"unborn", "gone"}

RevokeRead(w) ==
  LET q == req[w]
      inv == invite[q.invite]
      mine == Stored(inv) /\ (inv.by = q.user \/ q.me.role = "owner")
  IN /\ At(w, {"revoke"}, "permitted")
     /\ \/ mine /\ Proceed(w, NoRow, inv) /\ UNCHANGED lock
        \/ ~mine /\ Refuse(w)

RevokeSave(w) ==
  LET i == req[w].invite IN
  /\ At(w, {"revoke"}, "ready")
  /\ lock[i] = Free
  /\ invite' = [invite EXCEPT ![i] = [NoInviteRow EXCEPT !.status = "gone"]]
  /\ UNCHANGED <<member, history>>
  /\ Respond(w)

-----------------------------------------------------------------------------
(* POST invites/{id}/approve and /reject.                                  *)

Reviewable(inv, me) ==
  /\ inv.status = "pending_approval"
  /\ inv.role # "viewer" => me.role = "owner"

ReviewRead(w) ==
  LET q == req[w]
      inv == invite[q.invite]
  IN /\ At(w, {"approve", "reject"}, "permitted")
     /\ \/ Reviewable(inv, q.me) /\ TakeLock(w, q.invite) /\ Proceed(w, NoRow, inv)
        \/ ~Reviewable(inv, q.me) /\ lock[q.invite] = Free /\ Refuse(w)

(* Approving saves every column of the row that was read (a missing row    *)
(* would be inserted again); rejecting saves the decision only.            *)
ReviewSave(w) ==
  LET q == req[w]
      i == q.invite
  IN /\ At(w, {"approve", "reject"}, "ready")
     /\ \/ /\ q.kind = "approve"
           /\ invite' = [invite EXCEPT ![i] =
                [q.inv EXCEPT !.status = "active", !.approvedBy = q.user]]
        \/ /\ q.kind = "reject"
           /\ invite' = IF Stored(invite[i])
                        THEN [invite EXCEPT ![i].status = "rejected",
                                            ![i].approvedBy = q.user]
                        ELSE invite
     /\ UNCHANGED <<member, history>>
     /\ Respond(w)

-----------------------------------------------------------------------------
(* PUT and DELETE toi-la: a member says which node of the tree they are.   *)

\* Mutant: a verified member stays verified on whatever node they move to.
VerifiedWhateverNode(me, row, p) == BindingAutoVerified(me, p) \/ row.verified
ClaimVerified(me, row, p) ==
  BindingAutoVerified(me, p) \/ (row.person = p /\ row.verified)

Claimable(q) ==
  /\ node[q.person] = "living"
  /\ ~ClaimedByOther(q.person, q.user)
  /\ IsMember(member[q.user])

BindRead(w) ==
  LET q == req[w]
      row == member[q.user]
  IN /\ At(w, {"bind"}, "permitted")
     /\ \/ /\ Claimable(q)
           /\ ProceedVouching(w,
                [row EXCEPT !.person = q.person,
                            !.verified = ClaimVerified(q.me, row, q.person)],
                NoInviteRow,
                IF BindingAutoVerified(q.me, q.person) THEN q.person ELSE NoPerson)
           /\ UNCHANGED lock
        \/ ~Claimable(q) /\ Refuse(w)

(* The unique index on `person` turns a lost race into a 400; a claim      *)
(* vouched for by the caller's own role is vetted as it is made, any other *)
(* claim is vetted only if it repeats the one that is in the row.          *)
BindSave(w) ==
  LET q == req[w]
      u == q.user
  IN /\ At(w, {"bind"}, "ready")
     /\ \/ /\ Exists(u, q.row) /\ ~ClaimedByOther(q.person, u)
           /\ member' = [member EXCEPT ![u].person = q.row.person,
                                       ![u].verified = q.row.verified]
           /\ vetted' = [vetted EXCEPT ![u] =
                IF q.person \in {q.vouched, @} THEN q.person ELSE NoPerson]
           /\ UNCHANGED <<invite, joins>>
           /\ Respond(w)
        \/ /\ ~Exists(u, q.row) \/ ClaimedByOther(q.person, u)
           /\ Refuse(w)

UnbindRead(w) ==
  LET q == req[w]
      row == member[q.user]
      bound == IsMember(row) /\ row.person # NoPerson
  IN /\ At(w, {"unbind"}, "permitted")
     /\ \/ bound /\ Proceed(w, row, NoInviteRow) /\ UNCHANGED lock
        \/ ~bound /\ Refuse(w)

-----------------------------------------------------------------------------
(* POST and DELETE members/{user_id}/verify: an approver judges a claim.   *)

VerifyRead(w) ==
  LET q == req[w]
      row == member[q.target]
      judged == /\ IsMember(row)
                /\ row.person # NoPerson
                /\ CanVerifyBinding(q.me, row.person)
                /\ q.kind = "verify" => ~row.verified
  IN /\ At(w, {"verify", "unverify"}, "permitted")
     /\ \/ judged /\ Proceed(w, row, NoInviteRow) /\ UNCHANGED lock
        \/ ~judged /\ Refuse(w)

(* save(update_fields=['person_verified']): the node is not written, so it *)
(* is whatever the row holds by now.                                       *)
VerifySave(w) ==
  LET q == req[w]
      u == q.target
  IN /\ At(w, {"verify"}, "ready")
     /\ \/ /\ Exists(u, q.row)
           /\ member' = [member EXCEPT ![u].verified = TRUE]
           /\ vetted' = [vetted EXCEPT ![u] = q.row.person]
           /\ UNCHANGED <<invite, joins>>
           /\ Respond(w)
        \/ ~Exists(u, q.row) /\ Refuse(w)

ClearBindingSave(w) ==
  LET q == req[w]
      u == q.target
  IN /\ At(w, {"unbind", "unverify"}, "ready")
     /\ \/ /\ Exists(u, q.row)
           /\ member' = [member EXCEPT ![u].person = NoPerson, ![u].verified = FALSE]
           /\ vetted' = [vetted EXCEPT ![u] = NoPerson]
           /\ UNCHANGED <<invite, joins>>
           /\ Respond(w)
        \/ ~Exists(u, q.row) /\ Refuse(w)

-----------------------------------------------------------------------------
(* What happens around the roster: a person dies or is soft-deleted by the *)
(* tree editor, an invite's expires_at passes.                             *)

NodeChanges(p) ==
  /\ \/ node[p] = "living" /\ node' = [node EXCEPT ![p] = "deceased"]
     \/ node[p] # "deleted" /\ node' = [node EXCEPT ![p] = "deleted"]
  /\ UNCHANGED <<member, invite, lock, req, arrived, history>>

InviteExpires(i) ==
  /\ Stored(invite[i]) /\ ~invite[i].expired
  /\ lock[i] = Free
  /\ invite' = [invite EXCEPT ![i].expired = TRUE]
  /\ UNCHANGED <<member, node, lock, req, arrived, history>>

Serve(w) ==
  \/ PatchRead(w) \/ PatchSave(w) \/ RemoveRead(w) \/ LeaveRead(w) \/ RemoveSave(w)
  \/ JoinRead(w) \/ JoinSave(w) \/ CreateRead(w) \/ CreateSave(w) \/ CreateBeyondBound(w)
  \/ RevokeRead(w) \/ RevokeSave(w) \/ ReviewRead(w) \/ ReviewSave(w)
  \/ BindRead(w) \/ BindSave(w) \/ UnbindRead(w)
  \/ VerifyRead(w) \/ VerifySave(w) \/ ClearBindingSave(w)

Next ==
  \/ \E w \in Workers : Arrive(w) \/ Serve(w)
  \/ \E p \in Mortals : NodeChanges(p)
  \/ \E i \in Invites : InviteExpires(i)

(* A worker goes on with the request it is serving; nothing makes clients  *)
(* send one.                                                               *)
Spec == Init /\ [][Next]_vars
FairSpec == Spec /\ \A w \in Workers : WF_vars(Serve(w))

-----------------------------------------------------------------------------
(* Properties.                                                             *)

(* "A clan must have at least one owner": neither a role change nor a      *)
(* removal takes the last one (LAST_OWNER_DETAIL).                         *)
ClanKeepsAnOwner == OwnerCount >= 1

(* A verified binding is a write grant over a family: it is only in force  *)
(* for the very node an approver, an invite naming that node, or the       *)
(* caller's own role vouched for.                                          *)
VerifiedOnlyIfVetted ==
  \A u \in Users : member[u].verified => vetted[u] # NoPerson /\ vetted[u] = member[u].person

(* Codes minted by someone who has left the clan no longer exist, so they  *)
(* cannot let them, or an alt, back in.                                    *)
NoInviteFromNonMember ==
  \A i \in Invites : Stored(invite[i]) => IsMember(member[invite[i].by])

(* Only an editor is limited to a branch; every path that takes a member   *)
(* out of that role clears the branch too.                                 *)
ScopeOnlyForEditors == \A u \in Users : member[u].scope # NoPerson => member[u].role = "editor"

(* used_count is the number of members an invite has let in, and never     *)
(* passes max_uses, however many redemptions race.                         *)
UsesMatchAdmissions ==
  \A i \in Invites :
    Stored(invite[i]) =>
      /\ invite[i].used = joins[i]
      /\ invite[i].max > 0 => joins[i] <= invite[i].max

(* A decision on an invite is final: what was rejected is never active     *)
(* afterwards, what is active is never rejected, what was revoked never    *)
(* comes back.                                                             *)
InviteDecidedOnce ==
  [][\A i \in Invites :
       /\ invite[i].status \in {"rejected", "active"} =>
            invite'[i].status \in {invite[i].status, "gone"}
       /\ invite[i].status = "gone" => invite'[i].status = "gone"]_vars

(* An invite that grants `editor` becomes redeemable only by the hand of   *)
(* an owner, who minted it or approved it.                                 *)
EditorInvitesFromOwner ==
  [][\A i \in Invites :
       /\ invite[i].status # "active"
       /\ invite'[i].status = "active"
       /\ invite'[i].role = "editor"
       => \E u \in {invite'[i].by, invite'[i].approvedBy} \ {NoUser} :
            member[u].role = "owner"]_vars

(* Every request is answered, also one that waits for another's row lock.  *)
RequestsAnswered == \A w \in Workers : req[w].step # "idle" ~> req[w].step = "idle"
=============================================================================

------------------------ MODULE ClanMembership_proofs ------------------------
(***************************************************************************)
(* What a clan guarantees for any number of users, workers, invites, nodes *)
(* and requests: first its invites, then its roster.                       *)
(***************************************************************************)
EXTENDS ClanMembership, FiniteSetTheorems, TLAPS


(***************************************************************************)
(* What the invites of a clan guarantee for any number of users, workers,  *)
(* invites and requests.                                                   *)
(*                                                                         *)
(* The argument is about row locks.  A worker that is about to redeem or   *)
(* review an invite holds its lock, and the row it read under it is still  *)
(* the one in the table (HoldersHold): a revocation, the removal of the    *)
(* inviter and the other redemptions wait.  Roster and nodes play no part, *)
(* and of a row and a request only the columns read here are typed.        *)
(***************************************************************************)

IsInvite(inv) ==
  /\ {"status", "max", "used", "by", "approvedBy", "expired"} \subseteq DOMAIN inv
  /\ inv.max \in Nat /\ inv.used \in Nat

InvitesOK ==
  /\ DOMAIN invite = Invites /\ DOMAIN joins = Invites /\ DOMAIN lock = Invites
  /\ \A i \in Invites : /\ IsInvite(invite[i])
                        /\ joins[i] \in Nat
                        /\ invite[i].status = "unborn" => joins[i] = 0

LockKinds == {"join", "approve", "reject"}

Columns == {"kind", "user", "target", "role", "scope", "person", "invite", "uses", "step", "me",
            "row", "inv", "vouched"}

RequestOK(q) ==
  /\ Columns \subseteq DOMAIN q
  /\ q.uses \in Nat
  /\ q.kind \in LockKinds \cup {"revoke"} => q.invite \in Invites
  /\ q.kind = "create" /\ q.step = "ready" =>
       /\ IsInvite(q.inv) /\ q.inv.used = 0
       /\ q.inv.status \in {"active", "pending_approval"}

RequestsOK == DOMAIN req = Workers /\ \A w \in Workers : RequestOK(req[w])

Holding(q) == q.kind \in LockKinds /\ q.step = "ready"

Held(w, q) ==
  /\ lock[q.invite] = w
  /\ q.inv = invite[q.invite]
  /\ q.kind = "join" => invite[q.invite].status = "active" /\ ~IsExhausted(invite[q.invite])
  /\ q.kind # "join" => invite[q.invite].status = "pending_approval"

HoldersHold == \A w \in Workers : Holding(req[w]) => Held(w, req[w])

IInv == InvitesOK /\ RequestsOK /\ HoldersHold /\ UsesMatchAdmissions

(* The body of InviteDecidedOnce.                                          *)
Decided ==
  \A i \in Invites :
    /\ invite[i].status \in {"rejected", "active"} =>
         invite'[i].status \in {invite[i].status, "gone"}
    /\ invite[i].status = "gone" => invite'[i].status = "gone"

LEMMA IdleOK == RequestOK(Idle) /\ ~Holding(Idle) /\ Idle.kind = "none" /\ Idle.step = "idle"
BY DEF RequestOK, Holding, Idle, Columns, LockKinds

LEMMA NoInviteRowOK ==
  /\ IsInvite(NoInviteRow) /\ NoInviteRow.used = 0 /\ NoInviteRow.max = 0
  /\ NoInviteRow.status = "unborn"
BY DEF IsInvite, NoInviteRow

LEMMA InitIInv == Init => IInv
<1> SUFFICES ASSUME Init PROVE IInv
  OBVIOUS
<1>1. /\ invite = [i \in Invites |-> NoInviteRow] /\ lock = [i \in Invites |-> Free]
      /\ req = [w \in Workers |-> Idle] /\ joins = [i \in Invites |-> 0]
  BY DEF Init
<1>2. InvitesOK
  BY <1>1, NoInviteRowOK DEF InvitesOK
<1>3. RequestsOK /\ HoldersHold
  BY <1>1, IdleOK DEF RequestsOK, HoldersHold
<1>4. UsesMatchAdmissions
  BY <1>1, NoInviteRowOK DEF UsesMatchAdmissions, Stored
<1> QED
  BY <1>2, <1>3, <1>4 DEF IInv

-----------------------------------------------------------------------------
(* A step of a worker, as far as invites go: what the others hold stays as *)
(* they hold it.                                                           *)
LEMMA StepIInv ==
  ASSUME IInv, NEW w \in Workers, NEW q, req' = [req EXCEPT ![w] = q], RequestOK(q),
         Holding(q) => Held(w, q)',
         InvitesOK', UsesMatchAdmissions',
         \A v \in Workers \ {w} : Holding(req[v]) =>
           /\ lock'[req[v].invite] = v
           /\ invite'[req[v].invite] = invite[req[v].invite]
  PROVE  IInv'
<1>1. DOMAIN req' = Workers /\ \A v \in Workers : req'[v] = IF v = w THEN q ELSE req[v]
  BY DEF IInv, RequestsOK
<1>2. RequestsOK'
  BY <1>1 DEF IInv, RequestsOK, RequestOK, IsInvite
<1>3. HoldersHold'
  BY <1>1 DEF IInv, HoldersHold, Holding, Held, IsExhausted
<1> QED
  BY <1>2, <1>3 DEF IInv

(* A step that writes no invite.                                           *)
LEMMA SameIInv ==
  ASSUME IInv, NEW w \in Workers, NEW q, req' = [req EXCEPT ![w] = q], RequestOK(q),
         ~Holding(q), invite' = invite, joins' = joins, lock' \in {lock, LocksReleased(w)}
  PROVE  IInv' /\ Decided
<1>1. \A v \in Workers \ {w} : Holding(req[v]) => lock[req[v].invite] = v /\ req[v].invite \in Invites
  BY DEF IInv, HoldersHold, Held, RequestsOK, RequestOK, Holding
<1>2. DOMAIN lock = Invites /\ DOMAIN lock' = Invites
  BY DEF IInv, InvitesOK, LocksReleased
<1>3. \A v \in Workers \ {w} : Holding(req[v]) => lock'[req[v].invite] = v
  BY <1>1 DEF LocksReleased
<1>4. InvitesOK' /\ UsesMatchAdmissions'
  BY <1>2 DEF IInv, InvitesOK, UsesMatchAdmissions, Stored
<1>5. Decided
  BY DEF Decided
<1> QED
  BY <1>3, <1>4, <1>5, StepIInv

(* The requests of clients name what exists.                               *)
LEMMA ArriveIInv == ASSUME IInv, NEW w \in Workers, Arrive(w) PROVE IInv' /\ Decided
<1>0. /\ Columns \subseteq DOMAIN Idle /\ Idle.uses = 0 /\ Idle.step = "idle"
      /\ UNCHANGED <<db, lock, history>>
  BY DEF Idle, Columns, Arrive
<1>1. ASSUME NEW kind \in Kinds, NEW u, NEW t
      PROVE  /\ Columns \subseteq DOMAIN Ask(kind, u, t)
             /\ Ask(kind, u, t).kind = kind /\ Ask(kind, u, t).uses = 0
  BY <1>0 DEF Ask, Columns
<1>2. \E q : /\ Permit(w, q)
             /\ Columns \subseteq DOMAIN q /\ q.uses \in Nat
             /\ q.kind \in LockKinds \cup {"revoke"} => q.invite \in Invites
  <2>1. PICK kind \in Kinds, u \in Users :
       \/ /\ kind = "patch"
          /\ \E t \in Users, role \in Roles \cup {Keep}, scope \in Persons \cup {NoPerson, Keep} :
               Permit(w, [Ask(kind, u, t) EXCEPT !.role = role, !.scope = scope])
       \/ /\ kind \in {"remove", "verify", "unverify"}
          /\ \E t \in Users : Permit(w, Ask(kind, u, t))
       \/ /\ kind \in {"leave", "unbind"}
          /\ Permit(w, Ask(kind, u, u))
       \/ /\ kind = "bind"
          /\ \E p \in Persons : Permit(w, [Ask(kind, u, u) EXCEPT !.person = p])
       \/ /\ kind = "create"
          /\ \E role \in InviteRoles, p \in Persons \cup {NoPerson}, n \in UseLimits :
               Permit(w, [Ask(kind, u, NoUser) EXCEPT !.role = role, !.person = p, !.uses = n])
       \/ /\ kind \in {"join", "revoke", "approve", "reject"}
          /\ \E i \in Invites : Permit(w, [Ask(kind, u, u) EXCEPT !.invite = i])
    BY DEF Arrive
  <2> USE DEF LockKinds, Columns
  <2>2. CASE kind = "patch"
    <3>1. PICK t, role, scope : Permit(w, [Ask(kind, u, t) EXCEPT !.role = role, !.scope = scope])
      BY <2>1, <2>2
    <3>2. PICK q : q = [Ask(kind, u, t) EXCEPT !.role = role, !.scope = scope]
      OBVIOUS
    <3>3. Columns \subseteq DOMAIN q /\ q.uses = 0 /\ q.kind = "patch"
      BY <1>1, <2>2, <3>2
    <3>4. q.kind \notin LockKinds \cup {"revoke"} /\ q.uses \in Nat
      BY <3>3
    <3> QED
      BY <3>1, <3>2, <3>3, <3>4
  <2>3. CASE kind \in {"remove", "verify", "unverify", "leave", "unbind"}
    <3>1. PICK t : Permit(w, Ask(kind, u, t))
      BY <2>1, <2>3
    <3> QED
      BY <1>1, <2>3, <3>1
  <2>4. CASE kind = "bind"
    <3>1. PICK p : Permit(w, [Ask(kind, u, u) EXCEPT !.person = p])
      BY <2>1, <2>4
    <3> QED
      BY <1>1, <2>4, <3>1
  <2>5. CASE kind = "create"
    <3>1. PICK n \in UseLimits : \E role, p :
            Permit(w, [Ask(kind, u, NoUser) EXCEPT !.role = role, !.person = p, !.uses = n])
      BY <2>1, <2>5
    <3>2. PICK role, p :
            Permit(w, [Ask(kind, u, NoUser) EXCEPT !.role = role, !.person = p, !.uses = n])
      BY <3>1
    <3>3. PICK q : q = [Ask(kind, u, NoUser) EXCEPT !.role = role, !.person = p, !.uses = n]
      OBVIOUS
    <3>4. Columns \subseteq DOMAIN q /\ q.uses = n /\ q.kind = "create"
      BY <1>1, <2>5, <3>3
    <3>5. n \in Nat
      BY LimitsAssumption
    <3> QED
      BY <3>2, <3>3, <3>4, <3>5
  <2>6. CASE kind \in {"join", "revoke", "approve", "reject"}
    <3>1. PICK i \in Invites : Permit(w, [Ask(kind, u, u) EXCEPT !.invite = i])
      BY <2>1, <2>6
    <3> QED
      BY <1>1, <2>6, <3>1
  <2> QED
    BY <2>1, <2>2, <2>3, <2>4, <2>5, <2>6, KindsAssumption
<1>3. PICK q : /\ Permit(w, q)
               /\ Columns \subseteq DOMAIN q /\ q.uses \in Nat
               /\ q.kind \in LockKinds \cup {"revoke"} => q.invite \in Invites
  BY <1>2
<1>4. PICK r : r = [q EXCEPT !.step = "permitted", !.me = member[q.user]]
  OBVIOUS
<1>5. req' = [req EXCEPT ![w] = r] /\ r.step = "permitted"
  BY <1>3, <1>4 DEF Permit, Columns
<1>6. /\ Columns \subseteq DOMAIN r /\ r.uses = q.uses /\ r.kind = q.kind /\ r.invite = q.invite
  BY <1>3, <1>4 DEF Columns
<1>7. RequestOK(r) /\ ~Holding(r)
  BY <1>3, <1>5, <1>6 DEF RequestOK, Holding
<1> QED
  BY <1>0, <1>5, <1>7, SameIInv DEF db, history

LEMMA RefuseIInv == ASSUME IInv, NEW w \in Workers, Refuse(w) PROVE IInv' /\ Decided
BY IdleOK, SameIInv DEF Refuse, db, history

(* The handler goes on, without a lock.                                    *)
LEMMA ProceedIInv ==
  ASSUME IInv, NEW w \in Workers, NEW row, NEW inv, NEW p,
         ProceedVouching(w, row, inv, p), UNCHANGED lock,
         req[w].kind \notin LockKinds,
         req[w].kind = "create" =>
           IsInvite(inv) /\ inv.used = 0 /\ inv.status \in {"active", "pending_approval"}
  PROVE  IInv' /\ Decided
<1>1. PICK q : q = [req[w] EXCEPT !.step = "ready", !.row = row, !.inv = inv, !.vouched = p]
  OBVIOUS
<1>2. RequestOK(req[w]) /\ DOMAIN req = Workers
  BY DEF IInv, RequestsOK
<1>3. req' = [req EXCEPT ![w] = q] /\ UNCHANGED <<invite, joins>>
  BY <1>1, <1>2 DEF ProceedVouching, db, history
<1>4. /\ Columns \subseteq DOMAIN q /\ q.uses = req[w].uses /\ q.kind = req[w].kind
      /\ q.invite = req[w].invite /\ q.inv = inv
  BY <1>1, <1>2 DEF RequestOK, Columns
<1>5. RequestOK(q) /\ ~Holding(q)
  BY <1>2, <1>4 DEF RequestOK, Holding
<1> QED
  BY <1>3, <1>5, SameIInv

(* It goes on with the row it has locked.                                  *)
LEMMA LockedIInv ==
  ASSUME IInv, NEW w \in Workers, NEW i, i = req[w].invite,
         ProceedVouching(w, NoRow, invite[i], NoPerson), TakeLock(w, i),
         req[w].kind \in LockKinds,
         req[w].kind = "join" => invite[i].status = "active" /\ ~IsExhausted(invite[i]),
         req[w].kind # "join" => invite[i].status = "pending_approval"
  PROVE  IInv' /\ Decided
<1>1. PICK q : q = [req[w] EXCEPT !.step = "ready", !.row = NoRow, !.inv = invite[i],
                                  !.vouched = NoPerson]
  OBVIOUS
<1>2. RequestOK(req[w]) /\ DOMAIN req = Workers /\ i \in Invites /\ DOMAIN lock = Invites
  BY DEF IInv, RequestsOK, RequestOK, InvitesOK
<1>3. req' = [req EXCEPT ![w] = q] /\ UNCHANGED <<invite, joins>>
  BY <1>1, <1>2 DEF ProceedVouching, db, history
<1>4. /\ Columns \subseteq DOMAIN q /\ q.uses = req[w].uses /\ q.kind = req[w].kind
      /\ q.invite = i /\ q.inv = invite[i]
  BY <1>1, <1>2 DEF RequestOK, Columns
<1>5. RequestOK(q)
  BY <1>2, <1>4 DEF RequestOK, LockKinds
<1>6. lock[i] = Free /\ lock' = [lock EXCEPT ![i] = w] /\ Free \notin Workers
  BY NullsAssumption DEF TakeLock
<1>7. Held(w, q)'
  BY <1>2, <1>3, <1>4, <1>6 DEF Held, IsExhausted
<1>8. \A v \in Workers \ {w} : Holding(req[v]) =>
        /\ lock'[req[v].invite] = v
        /\ invite'[req[v].invite] = invite[req[v].invite]
  BY <1>2, <1>3, <1>6 DEF IInv, HoldersHold, Held
<1>9. InvitesOK' /\ UsesMatchAdmissions'
  BY <1>3, <1>6 DEF IInv, InvitesOK, UsesMatchAdmissions, Stored
<1>10. Decided
  BY <1>3 DEF Decided
<1> QED
  BY <1>3, <1>5, <1>7, <1>8, <1>9, <1>10, StepIInv

(* The response to a save that wrote invites nobody else holds.            *)
LEMMA RespondIInv ==
  ASSUME IInv, NEW w \in Workers, Respond(w), InvitesOK', UsesMatchAdmissions',
         \A v \in Workers \ {w} : Holding(req[v]) =>
           invite'[req[v].invite] = invite[req[v].invite]
  PROVE  IInv'
<1>1. req' = [req EXCEPT ![w] = Idle] /\ lock' = LocksReleased(w)
  BY DEF Respond
<1>2. \A v \in Workers \ {w} : Holding(req[v]) =>
        lock[req[v].invite] = v /\ req[v].invite \in Invites
  BY DEF IInv, HoldersHold, Held, RequestsOK, RequestOK, Holding
<1>3. \A v \in Workers \ {w} : Holding(req[v]) => lock'[req[v].invite] = v
  BY <1>1, <1>2 DEF LocksReleased
<1> QED
  BY <1>1, <1>3, IdleOK, StepIInv

(* One that wrote members only.                                            *)
LEMMA MemberSavedIInv ==
  ASSUME IInv, NEW w \in Workers, Respond(w), UNCHANGED <<invite, joins>>
  PROVE  IInv' /\ Decided
BY IdleOK, SameIInv DEF Respond

(* What a holder holds is another invite than one that is free, unborn, or *)
(* held by somebody else.                                                  *)
LEMMA OthersElsewhere ==
  ASSUME IInv, NEW w \in Workers, NEW i \in Invites,
         \/ lock[i] = Free
         \/ invite[i].status = "unborn"
         \/ Holding(req[w]) /\ req[w].invite = i
  PROVE  \A v \in Workers \ {w} : Holding(req[v]) => req[v].invite # i
BY NullsAssumption DEF IInv, HoldersHold, Held

-----------------------------------------------------------------------------
(* The saves.                                                              *)

LEMMA JoinIInv == ASSUME IInv, NEW w \in Workers, JoinSave(w) PROVE IInv' /\ Decided
<1>1. CASE Refuse(w)
  BY <1>1, RefuseIInv
<1>2. CASE ~Refuse(w)
  <2>1. PICK i : i = req[w].invite
    OBVIOUS
  <2>2. /\ Holding(req[w]) /\ i \in Invites /\ req[w].kind = "join"
        /\ invite' = [invite EXCEPT ![i].used = req[w].inv.used + 1]
        /\ joins' = [joins EXCEPT ![i] = @ + 1]
        /\ Respond(w)
    BY <1>2, <2>1 DEF JoinSave, At, Holding, LockKinds, IInv, RequestsOK, RequestOK
  <2>3. req[w].inv = invite[i] /\ invite[i].status = "active" /\ ~IsExhausted(invite[i])
    BY <2>1, <2>2 DEF IInv, HoldersHold, Held
  <2>4. /\ DOMAIN invite = Invites /\ DOMAIN joins = Invites /\ DOMAIN lock = Invites
        /\ IsInvite(invite[i]) /\ joins[i] \in Nat
        /\ \A j \in Invites : IsInvite(invite[j]) /\ joins[j] \in Nat
    BY <2>2 DEF IInv, InvitesOK
  <2>5. /\ IsInvite(invite'[i]) /\ invite'[i].used = invite[i].used + 1
        /\ invite'[i].max = invite[i].max /\ invite'[i].status = invite[i].status
        /\ joins'[i] = joins[i] + 1
    BY <2>2, <2>3, <2>4 DEF IsInvite
  <2>6. \A j \in Invites : j # i => invite'[j] = invite[j] /\ joins'[j] = joins[j]
    BY <2>2, <2>4
  <2>7. /\ DOMAIN invite' = Invites /\ DOMAIN joins' = Invites /\ DOMAIN lock' = Invites
    BY <2>2, <2>4 DEF Respond, LocksReleased
  <2>8. InvitesOK'
    BY <2>3, <2>4, <2>5, <2>6, <2>7 DEF IInv, InvitesOK
  <2>9. invite[i].used = joins[i] /\ (invite[i].max > 0 => joins[i] + 1 <= invite[i].max)
    BY <2>2, <2>3, <2>4 DEF IInv, UsesMatchAdmissions, Stored, IsExhausted, IsInvite
  <2>10. UsesMatchAdmissions'
    BY <2>5, <2>6, <2>9 DEF IInv, UsesMatchAdmissions, Stored
  <2>11. \A v \in Workers \ {w} : Holding(req[v]) => req[v].invite # i /\ req[v].invite \in Invites
    BY <2>1, <2>2, OthersElsewhere DEF IInv, RequestsOK, RequestOK, Holding
  <2>12. Decided
    BY <2>5, <2>6 DEF Decided
  <2> QED
    BY <2>2, <2>6, <2>8, <2>10, <2>11, <2>12, RespondIInv
<1> QED
  BY <1>1, <1>2

(* A save that writes one invite.                                          *)
LEMMA WriteIInv ==
  ASSUME IInv, NEW w \in Workers, Respond(w), NEW i \in Invites, NEW inv,
         invite' = [invite EXCEPT ![i] = inv], joins' = joins,
         \/ lock[i] = Free
         \/ invite[i].status = "unborn"
         \/ Holding(req[w]) /\ req[w].invite = i,
         IsInvite(inv), inv.status # "unborn",
         Stored(inv) => inv.used = joins[i] /\ (inv.max > 0 => joins[i] <= inv.max),
         invite[i].status \in {"rejected", "active"} => inv.status \in {invite[i].status, "gone"},
         invite[i].status = "gone" => inv.status = "gone"
  PROVE  IInv' /\ Decided
<1>1. DOMAIN invite = Invites /\ DOMAIN joins = Invites /\ DOMAIN lock = Invites
  BY DEF IInv, InvitesOK
<1>2. \A j \in Invites : invite'[j] = IF j = i THEN inv ELSE invite[j]
  BY <1>1
<1>3. DOMAIN invite' = Invites /\ DOMAIN joins' = Invites /\ DOMAIN lock' = Invites
  BY <1>1 DEF Respond, LocksReleased
<1>4. InvitesOK'
  BY <1>2, <1>3 DEF IInv, InvitesOK
<1>5. UsesMatchAdmissions'
  BY <1>2 DEF IInv, UsesMatchAdmissions, Stored
<1>6. \A v \in Workers \ {w} : Holding(req[v]) => req[v].invite # i /\ req[v].invite \in Invites
  BY OthersElsewhere DEF IInv, RequestsOK, RequestOK, Holding
<1>7. Decided
  BY <1>2 DEF Decided
<1> QED
  BY <1>2, <1>4, <1>5, <1>6, <1>7, RespondIInv

LEMMA GoneRow ==
  LET gone == [NoInviteRow EXCEPT !.status = "gone"]
  IN IsInvite(gone) /\ gone.status = "gone"
BY NoInviteRowOK DEF IsInvite

LEMMA CreateIInv == ASSUME IInv, NEW w \in Workers, CreateSave(w) PROVE IInv' /\ Decided
<1>1. PICK i \in Invites :
        invite[i].status = "unborn" /\ invite' = [invite EXCEPT ![i] = req[w].inv]
  BY DEF CreateSave
<1>2. PICK inv : inv = req[w].inv
  OBVIOUS
<1>3. /\ IsInvite(inv) /\ inv.used = 0 /\ inv.status \in {"active", "pending_approval"}
      /\ joins[i] = 0 /\ joins' = joins /\ Respond(w)
  BY <1>1, <1>2 DEF CreateSave, At, IInv, RequestsOK, RequestOK, InvitesOK, history
<1>4. Stored(inv) => inv.used = joins[i] /\ (inv.max > 0 => joins[i] <= inv.max)
  BY <1>3 DEF IsInvite
<1> QED
  BY <1>1, <1>2, <1>3, <1>4, WriteIInv

LEMMA RevokeIInv == ASSUME IInv, NEW w \in Workers, RevokeSave(w) PROVE IInv' /\ Decided
<1>1. PICK i : i = req[w].invite
  OBVIOUS
<1>2. PICK gone : gone = [NoInviteRow EXCEPT !.status = "gone"]
  OBVIOUS
<1>3. /\ i \in Invites /\ lock[i] = Free /\ Respond(w) /\ joins' = joins
      /\ invite' = [invite EXCEPT ![i] = gone]
  BY <1>1, <1>2 DEF RevokeSave, At, IInv, RequestsOK, RequestOK, history
<1>4. IsInvite(gone) /\ gone.status = "gone" /\ ~Stored(gone)
  BY <1>2, GoneRow DEF Stored
<1> QED
  BY <1>3, <1>4, WriteIInv

LEMMA ReviewIInv == ASSUME IInv, NEW w \in Workers, ReviewSave(w) PROVE IInv' /\ Decided
<1>1. PICK i : i = req[w].invite
  OBVIOUS
<1>2. /\ Holding(req[w]) /\ i \in Invites /\ req[w].kind # "join"
      /\ Respond(w) /\ joins' = joins
  BY <1>1 DEF ReviewSave, At, Holding, LockKinds, IInv, RequestsOK, RequestOK, history
<1>3. /\ req[w].inv = invite[i] /\ invite[i].status = "pending_approval"
      /\ IsInvite(invite[i]) /\ DOMAIN invite = Invites
  BY <1>1, <1>2 DEF IInv, HoldersHold, Held, InvitesOK
<1>4. \E status \in {"active", "rejected"} :
        invite' = [invite EXCEPT ![i] = [invite[i] EXCEPT !.status = status,
                                                          !.approvedBy = req[w].user]]
  <2>1. CASE invite' = [invite EXCEPT ![i] =
               [req[w].inv EXCEPT !.status = "active", !.approvedBy = req[w].user]]
    BY <1>3, <2>1
  <2>2. CASE invite' = IF Stored(invite[i])
                       THEN [invite EXCEPT ![i].status = "rejected", ![i].approvedBy = req[w].user]
                       ELSE invite
    <3>1. invite' = [invite EXCEPT ![i].status = "rejected", ![i].approvedBy = req[w].user]
      BY <1>3, <2>2 DEF Stored
    <3>2. invite' = [invite EXCEPT ![i] = [invite[i] EXCEPT !.status = "rejected",
                                                            !.approvedBy = req[w].user]]
      BY <1>2, <1>3, <3>1
    <3> QED
      BY <3>2
  <2> QED
    BY <1>1, <2>1, <2>2 DEF ReviewSave
<1>5. PICK status \in {"active", "rejected"} :
        invite' = [invite EXCEPT ![i] = [invite[i] EXCEPT !.status = status,
                                                          !.approvedBy = req[w].user]]
  BY <1>4
<1>6. PICK inv : inv = [invite[i] EXCEPT !.status = status, !.approvedBy = req[w].user]
  OBVIOUS
<1>7. /\ IsInvite(inv) /\ inv.status = status
      /\ inv.used = invite[i].used /\ inv.max = invite[i].max
  BY <1>3, <1>6 DEF IsInvite
<1>8. invite[i].used = joins[i] /\ (invite[i].max > 0 => joins[i] <= invite[i].max)
  BY <1>2, <1>3 DEF IInv, UsesMatchAdmissions, Stored
<1> QED
  BY <1>1, <1>2, <1>3, <1>5, <1>6, <1>7, <1>8, WriteIInv

LEMMA RemoveIInv == ASSUME IInv, NEW w \in Workers, RemoveSave(w) PROVE IInv' /\ Decided
<1>1. CASE Refuse(w)
  BY <1>1, RefuseIInv
<1>2. CASE ~Refuse(w)
  <2>1. PICK u : u = req[w].target
    OBVIOUS
  <2>2. /\ \A i \in Invites : invite[i].by = u => lock[i] = Free
        /\ invite' = InvitesDropped(u) /\ joins' = joins /\ Respond(w)
    BY <1>2, <2>1 DEF RemoveSave
  <2>3. PICK gone : gone = [NoInviteRow EXCEPT !.status = "gone"]
    OBVIOUS
  <2>4. IsInvite(gone) /\ gone.status = "gone"
    BY <2>3, GoneRow
  <2>5. /\ DOMAIN invite' = Invites
        /\ \A i \in Invites : invite'[i] = IF invite[i].by = u THEN gone ELSE invite[i]
    BY <2>2, <2>3 DEF InvitesDropped
  <2>6. DOMAIN joins' = Invites /\ DOMAIN lock' = Invites
    BY <2>2 DEF Respond, LocksReleased, IInv, InvitesOK
  <2>7. InvitesOK'
    BY <2>2, <2>4, <2>5, <2>6 DEF IInv, InvitesOK
  <2>8. UsesMatchAdmissions' /\ Decided
    BY <2>2, <2>4, <2>5 DEF IInv, UsesMatchAdmissions, Stored, Decided
  <2>9. \A v \in Workers \ {w} : Holding(req[v]) => invite'[req[v].invite] = invite[req[v].invite]
    <3> SUFFICES ASSUME NEW v \in Workers \ {w}, Holding(req[v])
                 PROVE  invite'[req[v].invite] = invite[req[v].invite]
      OBVIOUS
    <3>1. req[v].invite \in Invites /\ lock[req[v].invite] = v /\ Free \notin Workers
      BY NullsAssumption DEF IInv, HoldersHold, Held, RequestsOK, RequestOK, Holding
    <3> QED
      BY <2>2, <2>5, <3>1
  <2> QED
    BY <2>2, <2>7, <2>8, <2>9, RespondIInv
<1> QED
  BY <1>1, <1>2

-----------------------------------------------------------------------------
(* Every step keeps the invariant, and decides no invite twice.            *)

LEMMA ReadIInv ==
  ASSUME IInv, NEW w \in Workers,
         \/ PatchRead(w) \/ RemoveRead(w) \/ LeaveRead(w) \/ JoinRead(w) \/ CreateRead(w)
         \/ CreateBeyondBound(w) \/ RevokeRead(w) \/ ReviewRead(w) \/ BindRead(w)
         \/ UnbindRead(w) \/ VerifyRead(w)
  PROVE  IInv' /\ Decided
<1>1. CASE Refuse(w)
  BY <1>1, RefuseIInv
<1>2. CASE ~Refuse(w) /\ JoinRead(w)
  <2>1. /\ req[w].kind = "join" /\ TakeLock(w, req[w].invite)
        /\ Redeemable(invite[req[w].invite], req[w].user)
        /\ ProceedVouching(w, NoRow, invite[req[w].invite], NoPerson)
    BY <1>2 DEF JoinRead, At, Proceed
  <2>2. /\ invite[req[w].invite].status = "active"
        /\ ~IsExhausted(invite[req[w].invite])
    BY <2>1 DEF Redeemable
  <2> QED
    BY <2>1, <2>2, LockedIInv DEF LockKinds
<1>3. CASE ~Refuse(w) /\ ReviewRead(w)
  <2>1. /\ req[w].kind \in {"approve", "reject"} /\ TakeLock(w, req[w].invite)
        /\ Reviewable(invite[req[w].invite], req[w].me)
        /\ ProceedVouching(w, NoRow, invite[req[w].invite], NoPerson)
    BY <1>3 DEF ReviewRead, At, Proceed
  <2>2. invite[req[w].invite].status = "pending_approval"
    BY <2>1 DEF Reviewable
  <2> QED
    BY <2>1, <2>2, LockedIInv DEF LockKinds
<1>4. CASE ~Refuse(w) /\ CreateRead(w)
  <2>1. PICK status, q :
          /\ q = req[w]
          /\ status = InviteInitialStatus(q.me, q.role, q.person)
    OBVIOUS
  <2>2. PICK inv : inv = [NoInviteRow EXCEPT !.status = status,
                !.role = q.role, !.person = q.person, !.by = q.user,
                !.max = IF q.person = NoPerson THEN q.uses ELSE 1]
    OBVIOUS
  <2>3. q.kind = "create" /\ UNCHANGED lock /\ ProceedVouching(w, NoRow, inv, NoPerson)
    BY <1>4, <2>1, <2>2 DEF CreateRead, At, Proceed
  <2>4. status \in {"active", "pending_approval"} /\ q.uses \in Nat
    BY <2>1 DEF InviteInitialStatus, IInv, RequestsOK, RequestOK
  <2>5. IsInvite(inv) /\ inv.used = 0 /\ inv.status = status
    BY <2>2, <2>4, NoInviteRowOK DEF IsInvite
  <2> QED
    BY <2>1, <2>3, <2>4, <2>5, ProceedIInv DEF LockKinds
<1>5. CASE ~Refuse(w) /\ ~JoinRead(w) /\ ~ReviewRead(w) /\ ~CreateRead(w)
  <2>1. /\ UNCHANGED lock /\ \E row, inv, p : ProceedVouching(w, row, inv, p)
        /\ req[w].kind \in {"patch", "remove", "leave", "revoke", "bind", "unbind", "verify",
                            "unverify"}
    BY <1>5 DEF PatchRead, RemoveRead, LeaveRead, CreateBeyondBound, RevokeRead, BindRead,
                UnbindRead, VerifyRead, At, Proceed
  <2> QED
    BY <2>1, ProceedIInv DEF LockKinds
<1> QED
  BY <1>1, <1>2, <1>3, <1>4, <1>5

LEMMA NextIInv == ASSUME IInv, [Next]_vars PROVE IInv' /\ Decided
<1>1. ASSUME UNCHANGED <<invite, joins, lock, req>> PROVE IInv' /\ Decided
  BY <1>1 DEF IInv, InvitesOK, RequestsOK, HoldersHold, Held, UsesMatchAdmissions, Stored,
              IsExhausted, Decided
<1>2. ASSUME NEW w \in Workers, Serve(w) PROVE IInv' /\ Decided
  <2>1. CASE \/ PatchRead(w) \/ RemoveRead(w) \/ LeaveRead(w) \/ JoinRead(w) \/ CreateRead(w)
             \/ CreateBeyondBound(w) \/ RevokeRead(w) \/ ReviewRead(w) \/ BindRead(w)
             \/ UnbindRead(w) \/ VerifyRead(w)
    BY <2>1, ReadIInv
  <2>2. CASE PatchSave(w) \/ BindSave(w) \/ VerifySave(w) \/ ClearBindingSave(w)
    <3>1. Refuse(w) \/ (Respond(w) /\ UNCHANGED <<invite, joins>>)
      BY <2>2 DEF PatchSave, BindSave, VerifySave, ClearBindingSave, history
    <3> QED
      BY <3>1, RefuseIInv, MemberSavedIInv
  <2> QED
    BY <1>2, <2>1, <2>2, JoinIInv, CreateIInv, RevokeIInv, ReviewIInv, RemoveIInv DEF Serve
<1>3. ASSUME NEW i \in Invites, InviteExpires(i) PROVE IInv' /\ Decided
  <2>1. PICK inv : inv = [invite[i] EXCEPT !.expired = TRUE]
    OBVIOUS
  <2>2. /\ lock[i] = Free /\ invite' = [invite EXCEPT ![i] = inv]
        /\ UNCHANGED <<joins, lock, req>>
    BY <1>3, <2>1 DEF InviteExpires, IInv, InvitesOK, history
  <2>3. /\ DOMAIN invite = Invites /\ IsInvite(invite[i])
        /\ IsInvite(inv) /\ inv.status = invite[i].status /\ inv.used = invite[i].used
        /\ inv.max = invite[i].max
    BY <2>1 DEF IsInvite, IInv, InvitesOK
  <2>4. DOMAIN invite' = Invites /\ \A j \in Invites : invite'[j] = IF j = i THEN inv ELSE invite[j]
    BY <2>2, <2>3
  <2>5. InvitesOK' /\ UsesMatchAdmissions' /\ Decided
    BY <2>2, <2>3, <2>4 DEF IInv, InvitesOK, UsesMatchAdmissions, Stored, Decided
  <2>6. RequestsOK'
    BY <2>2 DEF IInv, RequestsOK
  <2>7. HoldersHold'
    <3> SUFFICES ASSUME NEW w \in Workers, Holding(req[w]) PROVE Held(w, req[w])'
      BY <2>2 DEF HoldersHold
    <3>1. /\ Held(w, req[w]) /\ req[w].invite \in Invites /\ req[w].invite # i
      BY <2>2, NullsAssumption DEF IInv, HoldersHold, Held, RequestsOK, RequestOK, Holding
    <3> QED
      BY <2>2, <2>4, <3>1 DEF Held, IsExhausted
  <2> QED
    BY <2>5, <2>6, <2>7 DEF IInv
<1>4. CASE (\E p \in Mortals : NodeChanges(p)) \/ UNCHANGED vars
  BY <1>1, <1>4 DEF NodeChanges, vars, history
<1> QED
  BY <1>2, <1>3, <1>4, ArriveIInv DEF Next

(* The inductive invariant holds in every reachable state.                 *)
THEOREM Invariance == Spec => []IInv
<1>1. IInv /\ [Next]_vars => IInv'
  BY NextIInv
<1> QED
  BY InitIInv, <1>1, PTL DEF Spec

(***************************************************************************)
(* used_count is the number of members an invite has let in, and never     *)
(* passes max_uses, however many redemptions, reviews, revocations and     *)
(* removals race (clan_join.py).                                           *)
(***************************************************************************)
THEOREM UsesAreExact == Spec => []UsesMatchAdmissions
<1>1. IInv => UsesMatchAdmissions
  BY DEF IInv
<1> QED
  BY <1>1, Invariance, PTL

(***************************************************************************)
(* A decision on an invite is final, whoever reviews, redeems or revokes   *)
(* it at the same time (invite_review.py).                                 *)
(***************************************************************************)
THEOREM DecisionsAreFinal == Spec => InviteDecidedOnce
<1>1. IInv /\ [Next]_vars =>
        [\A i \in Invites :
           /\ invite[i].status \in {"rejected", "active"} =>
                invite'[i].status \in {invite[i].status, "gone"}
           /\ invite[i].status = "gone" => invite'[i].status = "gone"]_vars
  BY NextIInv DEF Decided
<1> QED
  BY <1>1, Invariance, PTL DEF Spec, InviteDecidedOnce

-----------------------------------------------------------------------------
(***************************************************************************)
(* What the roster of a clan guarantees for any number of users, workers,  *)
(* nodes and requests.                                                     *)
(*                                                                         *)
(* Types and branches hold whatever overlaps.  The other properties rest   *)
(* on rows that are read without a lock, and are lost to some overlapping  *)
(* requests (the runs `last_owner` and `unvetted_claim` show two).  Each   *)
(* theorem names the kinds of requests that must not overlap, and lets all *)
(* the others race: what a request in flight has read is then still true   *)
(* of the row it is about to write, as long as that row has the key that   *)
(* was read.                                                               *)
(***************************************************************************)

(* No request of one of the kinds A overlaps with another of kind B.       *)
Apart(A, B) == \A v, w \in Workers : v # w => ~(req[v].kind \in A /\ req[w].kind \in B)

RoleKinds == {"patch", "remove", "leave"}
ClaimKinds == {"bind", "unbind", "verify", "unverify"}

(* A request names what exists, and a key it has read is not newer than    *)
(* the one in the table.                                                   *)
KeysKnown(q) ==
  q.kind # "none" =>
    /\ q.step # "idle"
    /\ q.user \in Users /\ q.me.row <= member[q.user].row
    /\ q.kind # "create" => q.target \in Users
    /\ q.kind \in {"leave", "bind", "unbind"} => q.target = q.user
    /\ q.kind # "create" /\ q.step = "ready" => q.row.row <= member[q.target].row
    /\ q.kind = "bind" => q.person \in Persons
    /\ q.kind = "create" => q.role \in InviteRoles
    /\ q.kind \in LockKinds \cup {"revoke"} => q.invite \in Invites

(* What a PATCH writes is a role, with a branch only for an editor.        *)
PatchOK(q) ==
  q.kind = "patch" /\ q.step = "ready" =>
    /\ q.row.role \in Roles
    /\ q.row.scope # NoPerson => q.row.role = "editor"

(* While no other request changes a role: the row of who is about to leave *)
(* has the role they were let in with, and whoever is about to take the    *)
(* owner role from somebody leaves another owner.                          *)
RoleOK(q) ==
  /\ q.kind = "leave" /\ q.step = "permitted" =>
       (Exists(q.user, q.me) => member[q.user].role = q.me.role)
  /\ q.kind \in RoleKinds /\ q.step = "ready" =>
       (Exists(q.target, q.row) /\ member[q.target].role = "owner" =>
          \/ q.kind = "patch" /\ q.row.role = "owner"
          \/ \E v \in Users \ {q.target} : member[v].role = "owner")

(* While no other request claims, drops or judges a claim.                 *)
ClaimOK(q) ==
  /\ q.kind = "bind" /\ q.step = "ready" =>
       /\ q.row.person = q.person
       /\ Exists(q.user, q.row) /\ q.row.verified =>
            \/ q.vouched = q.person
            \/ member[q.user].person = q.person /\ member[q.user].verified
  /\ q.kind = "verify" /\ q.step = "ready" =>
       (Exists(q.target, q.row) =>
          q.row.person = member[q.target].person /\ q.row.person # NoPerson)

(* While nobody is removed or leaves: who mints an invite is a member.     *)
MintOK(q) ==
  q.kind = "create" =>
    /\ IsMember(member[q.user])
    /\ q.step = "ready" => q.inv.by = q.user

(* While no role changes: who is about to make an invite for an editor     *)
(* redeemable is an owner.                                                 *)
GrantOK(q) ==
  q.kind \in {"create", "approve"} =>
    /\ q.step = "permitted" =>
         (q.me.role = "owner" => member[q.user].role = "owner")
    /\ q.kind = "create" /\ q.step = "ready" =>
         /\ q.inv.by = q.user
         /\ (q.inv.status = "active" /\ q.inv.role = "editor") => member[q.user].role = "owner"
    /\ q.kind = "approve" /\ q.step = "ready" =>
         (q.inv.role = "editor" => member[q.user].role = "owner")

(* With any number of workers, and no condition on what overlaps.          *)
RosterInv ==
  /\ TypeOK
  /\ \A w \in Workers : KeysKnown(req[w]) /\ PatchOK(req[w])
  /\ ScopeOnlyForEditors

HasOwner == \E u \in Users : member[u].role = "owner"
OwnerInv == HasOwner /\ \A w \in Workers : RoleOK(req[w])
ClaimInv == VerifiedOnlyIfVetted /\ \A w \in Workers : ClaimOK(req[w])
ByMembers ==
  \A i \in Invites :
    Stored(invite[i]) => invite[i].by \in Users /\ IsMember(member[invite[i].by])
MintInv == ByMembers /\ \A w \in Workers : MintOK(req[w])
GrantInv == \A w \in Workers : GrantOK(req[w])
LEMMA NoRowOK == NoRow \in MemberRows /\ NoRow.role = "none" /\ NoRow.row = 0
BY DEF NoRow, MemberRows, Roles

LEMMA NoInviteRowTyped == NoInviteRow \in InviteRows /\ NoInviteRow.status = "unborn"
BY DEF NoInviteRow, InviteRows, InviteRoles

LEMMA IdleTyped == Idle \in Requests /\ Idle.kind = "none" /\ Idle.step = "idle"
BY NoRowOK, NoInviteRowTyped DEF Idle, Requests, AllKinds, Steps

LEMMA AskTyped ==
  ASSUME NEW kind \in AllKinds, NEW u \in Users, NEW t \in Users \cup {NoUser}
  PROVE  Ask(kind, u, t) \in Requests
BY IdleTyped DEF Ask, Requests

LEMMA ArriveTyped ==
  ASSUME TypeOK, NEW w \in Workers, Arrive(w)
  PROVE  \E q \in Requests :
           /\ q.user \in Users
           /\ q.kind # "create" => q.target \in Users
           /\ q.kind \in {"leave", "bind", "unbind"} => q.target = q.user
           /\ q.kind = "bind" => q.person \in Persons
           /\ q.kind = "create" => q.role \in InviteRoles
           /\ q.kind \in LockKinds \cup {"revoke"} => q.invite \in Invites
           /\ q.kind \in AllKinds
           /\ Permit(w, q)
<1> USE DEF LockKinds
<1>0. PICK kind \in Kinds, u \in Users :
       \/ /\ kind = "patch"
          /\ \E t \in Users, role \in Roles \cup {Keep}, scope \in Persons \cup {NoPerson, Keep} :
               Permit(w, [Ask(kind, u, t) EXCEPT !.role = role, !.scope = scope])
       \/ /\ kind \in {"remove", "verify", "unverify"}
          /\ \E t \in Users : Permit(w, Ask(kind, u, t))
       \/ /\ kind \in {"leave", "unbind"}
          /\ Permit(w, Ask(kind, u, u))
       \/ /\ kind = "bind"
          /\ \E p \in Persons : Permit(w, [Ask(kind, u, u) EXCEPT !.person = p])
       \/ /\ kind = "create"
          /\ \E role \in InviteRoles, p \in Persons \cup {NoPerson}, n \in UseLimits :
               Permit(w, [Ask(kind, u, NoUser) EXCEPT !.role = role, !.person = p, !.uses = n])
       \/ /\ kind \in {"join", "revoke", "approve", "reject"}
          /\ \E i \in Invites : Permit(w, [Ask(kind, u, u) EXCEPT !.invite = i])
  BY DEF Arrive
<1>1. kind \in AllKinds /\ UseLimits \subseteq Nat
  BY KindsAssumption, LimitsAssumption
<1>2. ASSUME NEW t \in Users \cup {NoUser}
      PROVE  /\ Ask(kind, u, t) \in Requests /\ Ask(kind, u, t).kind = kind
             /\ Ask(kind, u, t).user = u /\ Ask(kind, u, t).target = t
  BY <1>1, IdleTyped, AskTyped, ZenonT(60) DEF Ask, Requests
<1>3. CASE kind = "patch"
  <2>1. PICK t \in Users, role \in Roles \cup {Keep}, scope \in Persons \cup {NoPerson, Keep} :
          Permit(w, [Ask(kind, u, t) EXCEPT !.role = role, !.scope = scope])
    BY <1>0, <1>3
  <2>2. PICK a \in Requests : a = Ask(kind, u, t)
    BY <1>2
  <2>3. PICK q : q = [a EXCEPT !.role = role, !.scope = scope]
    OBVIOUS
  <2>4. q \in Requests /\ q.kind = "patch" /\ q.user = u /\ q.target = t
    BY <1>2, <1>3, <2>2, <2>3, ZenonT(60) DEF Requests
  <2> QED
    BY <1>1, <1>3, <2>1, <2>2, <2>3, <2>4
<1>4. CASE kind \in {"remove", "verify", "unverify", "leave", "unbind"}
  <2>1. PICK t \in Users : Permit(w, Ask(kind, u, t)) /\ (kind \in {"leave", "unbind"} => t = u)
    BY <1>0, <1>4
  <2> QED
    BY <1>1, <1>2, <1>4, <2>1
<1>5. CASE kind = "bind"
  <2>1. PICK p \in Persons : Permit(w, [Ask(kind, u, u) EXCEPT !.person = p])
    BY <1>0, <1>5
  <2>2. PICK a \in Requests : a = Ask(kind, u, u)
    BY <1>2
  <2>3. PICK q : q = [a EXCEPT !.person = p]
    OBVIOUS
  <2>4. q \in Requests /\ q.kind = "bind" /\ q.user = u /\ q.target = u /\ q.person = p
    BY <1>2, <1>5, <2>2, <2>3 DEF Requests
  <2> QED
    BY <1>1, <1>5, <2>1, <2>2, <2>3, <2>4
<1>6. CASE kind = "create"
  <2>1. PICK role \in InviteRoles, p \in Persons \cup {NoPerson}, n \in UseLimits :
          Permit(w, [Ask(kind, u, NoUser) EXCEPT !.role = role, !.person = p, !.uses = n])
    BY <1>0, <1>6
  <2>2. PICK a \in Requests : a = Ask(kind, u, NoUser)
    BY <1>2
  <2>3. PICK q : q = [a EXCEPT !.role = role, !.person = p, !.uses = n]
    OBVIOUS
  <2>4. q \in Requests /\ q.kind = "create" /\ q.user = u /\ q.role = role
    BY <1>1, <1>2, <1>6, <2>2, <2>3 DEF Requests, Roles, InviteRoles
  <2> QED
    BY <1>1, <1>6, <2>1, <2>2, <2>3, <2>4
<1>7. CASE kind \in {"join", "revoke", "approve", "reject"}
  <2>1. PICK i \in Invites : Permit(w, [Ask(kind, u, u) EXCEPT !.invite = i])
    BY <1>0, <1>7
  <2>2. PICK a \in Requests : a = Ask(kind, u, u)
    BY <1>2
  <2>3. PICK q : q = [a EXCEPT !.invite = i]
    OBVIOUS
  <2>4. q \in Requests /\ q.kind = kind /\ q.user = u /\ q.target = u /\ q.invite = i
    BY <1>2, <1>7, <2>2, <2>3 DEF Requests
  <2> QED
    BY <1>1, <1>7, <2>1, <2>2, <2>3, <2>4
<1> QED
  BY <1>0, <1>3, <1>4, <1>5, <1>6, <1>7

(* What a step of a worker does, up to the tables it writes.               *)
Written(w, q) ==
  /\ q \in Requests /\ req' = [req EXCEPT ![w] = q]
  /\ lock' \in [Invites -> Workers \cup {Free}]

LEMMA WrittenTyped ==
  ASSUME TypeOK, NEW w \in Workers, NEW q, Written(w, q),
         member' \in [Users -> MemberRows], invite' \in [Invites -> InviteRows],
         node' = node, arrived' \in 0..MaxRequests,
         vetted' \in [Users -> Persons \cup {NoPerson}], joins' \in [Invites -> Nat]
  PROVE  TypeOK' /\ \A v \in Workers : req'[v] = IF v = w THEN q ELSE req[v]
BY DEF TypeOK, Written

LEMMA LocksTyped ==
  ASSUME TypeOK, NEW w \in Workers
  PROVE  LocksReleased(w) \in [Invites -> Workers \cup {Free}]
BY DEF TypeOK, LocksReleased

LEMMA RefuseTyped ==
  ASSUME TypeOK, NEW w \in Workers, Refuse(w)
  PROVE  /\ TypeOK' /\ UNCHANGED <<member, invite, vetted, node>>
         /\ \A v \in Workers : req'[v] = IF v = w THEN Idle ELSE req[v]
<1>1. Written(w, Idle)
  BY IdleTyped, LocksTyped DEF Refuse, Written
<1> QED
  BY <1>1, WrittenTyped DEF Refuse, db, history, TypeOK

LEMMA RespondTyped ==
  ASSUME TypeOK, NEW w \in Workers, Respond(w),
         member' \in [Users -> MemberRows], invite' \in [Invites -> InviteRows],
         vetted' \in [Users -> Persons \cup {NoPerson}], joins' \in [Invites -> Nat]
  PROVE  TypeOK' /\ \A v \in Workers : req'[v] = IF v = w THEN Idle ELSE req[v]
<1>1. Written(w, Idle)
  BY IdleTyped, LocksTyped DEF Respond, Written
<1> QED
  BY <1>1, WrittenTyped DEF Respond, TypeOK

(* The request a handler goes on with.                                     *)
Ready(q, r, row, inv, p) ==
  /\ r.kind = q.kind /\ r.user = q.user /\ r.target = q.target /\ r.person = q.person
  /\ r.role = q.role /\ r.me = q.me /\ r.invite = q.invite
  /\ r.step = "ready" /\ r.row = row /\ r.inv = inv /\ r.vouched = p

LEMMA ProceedTyped ==
  ASSUME TypeOK, NEW w \in Workers, NEW row \in MemberRows, NEW inv \in InviteRows,
         NEW p \in Persons \cup {NoPerson}, ProceedVouching(w, row, inv, p),
         lock' \in [Invites -> Workers \cup {Free}]
  PROVE  /\ TypeOK' /\ UNCHANGED <<member, invite, vetted, node>>
         /\ \E r \in Requests :
              /\ Ready(req[w], r, row, inv, p)
              /\ \A v \in Workers : req'[v] = IF v = w THEN r ELSE req[v]
<1>1. PICK q \in Requests : q = req[w]
  BY DEF TypeOK
<1>2. PICK r : r = [q EXCEPT !.step = "ready", !.row = row, !.inv = inv, !.vouched = p]
  OBVIOUS
<1>3. r \in Requests /\ Ready(q, r, row, inv, p)
  BY <1>2 DEF Requests, Steps, Ready
<1>4. Written(w, r)
  BY <1>1, <1>2, <1>3 DEF ProceedVouching, Written, TypeOK
<1> QED
  BY <1>1, <1>3, <1>4, WrittenTyped DEF ProceedVouching, db, history, TypeOK

LEMMA InitTyped == Init => TypeOK
<1> SUFFICES ASSUME Init PROVE TypeOK
  OBVIOUS
<1>1. member \in [Users -> MemberRows]
  BY RosterAssumption DEF Init
<1>2. vetted \in [Users -> Persons \cup {NoPerson}]
  BY <1>1 DEF Init, MemberRows
<1> QED
  BY <1>1, <1>2, IdleTyped, NoInviteRowTyped, LimitsAssumption DEF Init, TypeOK

-----------------------------------------------------------------------------
(* What each save does to the rows of the clan.                            *)

Answered(w) == \A v \in Workers : req'[v] = IF v = w THEN Idle ELSE req[v]

LEMMA PatchEffect ==
  ASSUME TypeOK, NEW w \in Workers, PatchSave(w), KeysKnown(req[w]), NEW t, t = req[w].target
  PROVE  /\ TypeOK' /\ Answered(w) /\ UNCHANGED <<invite, vetted, node>>
         /\ t \in Users
         /\ \A u \in Users \ {t} : member'[u] = member[u]
         /\ ~Exists(t, req[w].row) => member' = member
         /\ member'[t].person = member[t].person /\ member'[t].verified = member[t].verified
         /\ member'[t].row = member[t].row
         /\ Exists(t, req[w].row) =>
              member'[t].role = req[w].row.role /\ member'[t].scope = req[w].row.scope
<1>1. /\ req[w] \in Requests /\ req[w].kind = "patch" /\ member \in [Users -> MemberRows]
      /\ Respond(w) /\ UNCHANGED <<invite, vetted, joins, node>>
  BY DEF TypeOK, PatchSave, At, history, Respond
<1>2. PICK row \in MemberRows : row = req[w].row
  BY <1>1 DEF Requests
<1>3. t \in Users /\ member[t] \in MemberRows
  BY <1>1 DEF KeysKnown
<1>4. PICK new : new = [member[t] EXCEPT !.role = row.role, !.scope = row.scope]
  OBVIOUS
<1>5. /\ new \in MemberRows /\ new.role = row.role /\ new.scope = row.scope
      /\ new.person = member[t].person /\ new.verified = member[t].verified
      /\ new.row = member[t].row
  BY <1>3, <1>4 DEF MemberRows
<1>6. member' = IF Exists(t, row) THEN [member EXCEPT ![t] = new] ELSE member
  <2>1. member' = IF Exists(t, row)
                  THEN [member EXCEPT ![t].role = row.role, ![t].scope = row.scope]
                  ELSE member
    BY <1>2 DEF PatchSave
  <2> QED
    BY <1>1, <1>3, <1>4, <2>1
<1>7. member' \in [Users -> MemberRows]
  BY <1>1, <1>5, <1>6
<1>8. TypeOK' /\ Answered(w)
  BY <1>1, <1>7, RespondTyped DEF TypeOK, Answered
<1> QED
  BY <1>1, <1>2, <1>3, <1>5, <1>6, <1>8

LEMMA RemoveEffect ==
  ASSUME TypeOK, NEW w \in Workers, RemoveSave(w), ~Refuse(w), KeysKnown(req[w]),
         NEW t, t = req[w].target
  PROVE  /\ TypeOK' /\ Answered(w) /\ UNCHANGED node /\ invite' = InvitesDropped(t)
         /\ t \in Users
         /\ \A u \in Users \ {t} : member'[u] = member[u] /\ vetted'[u] = vetted[u]
         /\ ~Exists(t, req[w].row) => UNCHANGED <<member, vetted>>
         /\ Exists(t, req[w].row) =>
              /\ member'[t].role = "none" /\ member'[t].row = member[t].row
              /\ member'[t].scope = NoPerson /\ ~member'[t].verified
<1>1. /\ req[w] \in Requests /\ req[w].kind \in {"remove", "leave"}
      /\ member \in [Users -> MemberRows] /\ invite \in [Invites -> InviteRows]
      /\ vetted \in [Users -> Persons \cup {NoPerson}]
      /\ joins \in [Invites -> Nat]
      /\ invite' = InvitesDropped(t) /\ Respond(w) /\ UNCHANGED <<joins, node>>
  BY DEF TypeOK, RemoveSave, At, Respond
<1>2. PICK row \in MemberRows : row = req[w].row
  BY <1>1 DEF Requests
<1>3. t \in Users
  BY <1>1 DEF KeysKnown
<1>4. PICK none : none = [NoRow EXCEPT !.row = row.row]
  OBVIOUS
<1>5. /\ none \in MemberRows /\ none.role = "none" /\ none.row = row.row
      /\ none.scope = NoPerson /\ ~none.verified
  BY <1>2, <1>4 DEF MemberRows, NoRow
<1>6. IF Exists(t, row)
      THEN member' = [member EXCEPT ![t] = none] /\ vetted' = [vetted EXCEPT ![t] = NoPerson]
      ELSE UNCHANGED <<member, vetted>>
  BY <1>2, <1>4 DEF RemoveSave
<1>7. member' \in [Users -> MemberRows] /\ vetted' \in [Users -> Persons \cup {NoPerson}]
  BY <1>1, <1>5, <1>6
<1>8. invite' \in [Invites -> InviteRows]
  <2>1. PICK gone : gone = [NoInviteRow EXCEPT !.status = "gone"]
    OBVIOUS
  <2>2. gone \in InviteRows
    BY <2>1, NoInviteRowTyped DEF InviteRows
  <2> QED
    BY <1>1, <2>1, <2>2 DEF InvitesDropped
<1>9. TypeOK' /\ Answered(w)
  BY <1>1, <1>7, <1>8, RespondTyped DEF Answered
<1>10. Exists(t, row) => member[t].row = row.row
  BY DEF Exists
<1> QED
  BY <1>1, <1>2, <1>3, <1>5, <1>6, <1>9, <1>10

LEMMA JoinEffect ==
  ASSUME TypeOK, NEW w \in Workers, JoinSave(w), ~Refuse(w), KeysKnown(req[w]),
         NEW u, u = req[w].user
  PROVE  /\ TypeOK' /\ Answered(w) /\ UNCHANGED node
         /\ u \in Users /\ ~IsMember(member[u])
         /\ \A v \in Users \ {u} : member'[v] = member[v] /\ vetted'[v] = vetted[v]
         /\ member'[u].role \in Roles /\ member'[u].row = member[u].row + 1
         /\ member'[u].scope = NoPerson
         /\ member'[u].verified => vetted'[u] = member'[u].person /\ member'[u].person # NoPerson
         /\ \A i \in Invites : invite'[i].status = invite[i].status /\ invite'[i].by = invite[i].by
<1>1. /\ req[w] \in Requests /\ req[w].kind = "join"
      /\ member \in [Users -> MemberRows] /\ invite \in [Invites -> InviteRows]
      /\ vetted \in [Users -> Persons \cup {NoPerson}]
      /\ joins \in [Invites -> Nat] /\ ~IsMember(member[u]) /\ Respond(w) /\ UNCHANGED node
      /\ joins' = [joins EXCEPT ![req[w].invite] = @ + 1]
  BY DEF TypeOK, JoinSave, At, Respond
<1>2. PICK inv \in InviteRows : inv = req[w].inv
  BY <1>1 DEF Requests
<1>3. u \in Users /\ member[u].row \in Nat
  BY <1>1 DEF KeysKnown, MemberRows
<1>4. PICK bound \in BOOLEAN : bound = (inv.person # NoPerson /\ BindableTo(inv.person))
  OBVIOUS
<1>5. PICK new : new =
        [role |-> inv.role, person |-> IF bound THEN inv.person ELSE NoPerson,
         verified |-> bound, scope |-> NoPerson, row |-> member[u].row + 1]
  OBVIOUS
<1>6. /\ new \in MemberRows /\ new.role \in Roles /\ new.row = member[u].row + 1
      /\ new.scope = NoPerson
      /\ new.verified => bound /\ new.person = inv.person
  BY <1>2, <1>3, <1>5 DEF MemberRows, InviteRows, Roles, InviteRoles
<1>7. member' = [member EXCEPT ![u] = new]
  <2>1. member' = [member EXCEPT ![u] =
                [role |-> inv.role,
                 person |-> IF bound THEN inv.person ELSE NoPerson,
                 verified |-> bound, scope |-> NoPerson, row |-> @.row + 1]]
    BY <1>2, <1>4 DEF JoinSave
  <2> QED
    BY <1>1, <1>5, <2>1
<1>8. vetted' = [vetted EXCEPT ![u] = IF bound THEN inv.person ELSE NoPerson]
  BY <1>2, <1>4 DEF JoinSave
<1>9. /\ member' \in [Users -> MemberRows] /\ vetted' \in [Users -> Persons \cup {NoPerson}]
      /\ joins' \in [Invites -> Nat]
  <2>1. inv.person \in Persons \cup {NoPerson}
    BY <1>2 DEF InviteRows
  <2>2. member' \in [Users -> MemberRows]
    BY <1>1, <1>6, <1>7
  <2>3. vetted' \in [Users -> Persons \cup {NoPerson}]
    BY <1>1, <1>8, <2>1
  <2>4. joins' \in [Invites -> Nat]
    <3>1. PICK i \in Invites : i = req[w].invite
      BY <1>1 DEF KeysKnown, LockKinds
    <3>2. PICK n \in Nat : n = joins[i] + 1
      BY <1>1
    <3>3. joins' = [joins EXCEPT ![i] = n]
      BY <1>1, <3>1, <3>2
    <3> QED
      BY <1>1, <3>3
  <2> QED
    BY <2>2, <2>3, <2>4
<1>10. invite' = [invite EXCEPT ![req[w].invite].used = inv.used + 1]
  BY <1>2 DEF JoinSave
<1>11. /\ invite' \in [Invites -> InviteRows]
       /\ \A i \in Invites : invite'[i].status = invite[i].status /\ invite'[i].by = invite[i].by
  <2>1. CASE req[w].invite \in Invites
    <3>1. PICK i \in Invites : i = req[w].invite
      BY <2>1
    <3>2. PICK j : j = [invite[i] EXCEPT !.used = inv.used + 1]
      OBVIOUS
    <3>3. j \in InviteRows /\ j.status = invite[i].status /\ j.by = invite[i].by
      BY <1>1, <1>2, <3>2 DEF InviteRows
    <3>4. invite' = [invite EXCEPT ![i] = j]
      BY <1>1, <1>10, <3>1, <3>2
    <3> QED
      BY <1>1, <3>3, <3>4
  <2>2. CASE req[w].invite \notin Invites
    BY <1>1, <1>10, <2>2
  <2> QED
    BY <2>1, <2>2
<1>12. TypeOK' /\ Answered(w)
  BY <1>1, <1>9, <1>11, RespondTyped DEF Answered
<1> QED
  BY <1>1, <1>3, <1>4, <1>6, <1>7, <1>8, <1>11, <1>12

LEMMA BindEffect ==
  ASSUME TypeOK, NEW w \in Workers, BindSave(w), ~Refuse(w), KeysKnown(req[w]),
         NEW u, u = req[w].user
  PROVE  /\ TypeOK' /\ Answered(w) /\ UNCHANGED <<invite, node>>
         /\ u \in Users /\ Exists(u, req[w].row) /\ req[w].kind = "bind" /\ req[w].step = "ready"
         /\ \A v \in Users \ {u} : member'[v] = member[v] /\ vetted'[v] = vetted[v]
         /\ member'[u].role = member[u].role /\ member'[u].row = member[u].row
         /\ member'[u].scope = member[u].scope
         /\ member'[u].person = req[w].row.person /\ member'[u].verified = req[w].row.verified
         /\ vetted'[u] = IF req[w].person \in {req[w].vouched, vetted[u]}
                         THEN req[w].person ELSE NoPerson
<1>1. /\ req[w] \in Requests /\ req[w].kind = "bind" /\ req[w].step = "ready"
      /\ member \in [Users -> MemberRows]
      /\ vetted \in [Users -> Persons \cup {NoPerson}]
      /\ Respond(w) /\ UNCHANGED <<invite, node, joins>> /\ Exists(u, req[w].row)
      /\ vetted' = [vetted EXCEPT ![u] =
            IF req[w].person \in {req[w].vouched, @} THEN req[w].person ELSE NoPerson]
  BY DEF TypeOK, BindSave, At, Respond
<1>2. PICK row \in MemberRows : row = req[w].row
  BY <1>1 DEF Requests
<1>3. u \in Users /\ member[u] \in MemberRows /\ req[w].person \in Persons
  BY <1>1 DEF KeysKnown
<1>4. PICK new : new = [member[u] EXCEPT !.person = row.person, !.verified = row.verified]
  OBVIOUS
<1>5. /\ new \in MemberRows /\ new.role = member[u].role /\ new.scope = member[u].scope
      /\ new.person = row.person /\ new.verified = row.verified /\ new.row = member[u].row
  BY <1>3, <1>4 DEF MemberRows
<1>6. member' = [member EXCEPT ![u] = new]
  <2>1. member' = [member EXCEPT ![u].person = row.person, ![u].verified = row.verified]
    BY <1>2 DEF BindSave
  <2> QED
    BY <1>1, <1>3, <1>4, <2>1
<1>7. member' \in [Users -> MemberRows] /\ vetted' \in [Users -> Persons \cup {NoPerson}]
  BY <1>1, <1>3, <1>5, <1>6
<1>8. TypeOK' /\ Answered(w)
  BY <1>1, <1>7, RespondTyped DEF TypeOK, Answered
<1> QED
  BY <1>1, <1>2, <1>3, <1>5, <1>6, <1>8

LEMMA VerifyEffect ==
  ASSUME TypeOK, NEW w \in Workers, VerifySave(w), ~Refuse(w), KeysKnown(req[w]),
         NEW u, u = req[w].target
  PROVE  /\ TypeOK' /\ Answered(w) /\ UNCHANGED <<invite, node>>
         /\ u \in Users /\ Exists(u, req[w].row) /\ req[w].kind = "verify" /\ req[w].step = "ready"
         /\ \A v \in Users \ {u} : member'[v] = member[v] /\ vetted'[v] = vetted[v]
         /\ member'[u].role = member[u].role /\ member'[u].row = member[u].row
         /\ member'[u].scope = member[u].scope
         /\ member'[u].person = member[u].person
         /\ vetted'[u] = req[w].row.person
<1>1. /\ req[w] \in Requests /\ req[w].kind = "verify" /\ req[w].step = "ready"
      /\ member \in [Users -> MemberRows]
      /\ vetted \in [Users -> Persons \cup {NoPerson}]
      /\ Respond(w) /\ UNCHANGED <<invite, node, joins>> /\ Exists(u, req[w].row)
      /\ vetted' = [vetted EXCEPT ![u] = req[w].row.person]
  BY DEF TypeOK, VerifySave, At, Respond
<1>2. PICK row \in MemberRows : row = req[w].row
  BY <1>1 DEF Requests
<1>3. u \in Users /\ member[u] \in MemberRows /\ row.person \in Persons \cup {NoPerson}
  BY <1>1 DEF KeysKnown, MemberRows
<1>4. PICK new : new = [member[u] EXCEPT !.verified = TRUE]
  OBVIOUS
<1>5. /\ new \in MemberRows /\ new.role = member[u].role /\ new.scope = member[u].scope
      /\ new.person = member[u].person /\ new.row = member[u].row
  BY <1>3, <1>4 DEF MemberRows
<1>6. member' = [member EXCEPT ![u] = new]
  <2>1. member' = [member EXCEPT ![u].verified = TRUE]
    BY DEF VerifySave
  <2> QED
    BY <1>1, <1>3, <1>4, <2>1
<1>7. member' \in [Users -> MemberRows] /\ vetted' \in [Users -> Persons \cup {NoPerson}]
  BY <1>1, <1>2, <1>3, <1>5, <1>6
<1>8. TypeOK' /\ Answered(w)
  BY <1>1, <1>7, RespondTyped DEF TypeOK, Answered
<1> QED
  BY <1>1, <1>3, <1>5, <1>6, <1>8

LEMMA ClearEffect ==
  ASSUME TypeOK, NEW w \in Workers, ClearBindingSave(w), ~Refuse(w), KeysKnown(req[w]),
         NEW u, u = req[w].target
  PROVE  /\ TypeOK' /\ Answered(w) /\ UNCHANGED <<invite, node>>
         /\ u \in Users /\ req[w].kind \in {"unbind", "unverify"}
         /\ \A v \in Users \ {u} : member'[v] = member[v] /\ vetted'[v] = vetted[v]
         /\ member'[u].role = member[u].role /\ member'[u].row = member[u].row
         /\ member'[u].scope = member[u].scope
         /\ ~member'[u].verified
<1>1. /\ req[w] \in Requests /\ req[w].kind \in {"unbind", "unverify"}
      /\ member \in [Users -> MemberRows]
      /\ vetted \in [Users -> Persons \cup {NoPerson}]
      /\ Respond(w) /\ UNCHANGED <<invite, node, joins>>
      /\ vetted' = [vetted EXCEPT ![u] = NoPerson]
  BY DEF TypeOK, ClearBindingSave, At, Respond
<1>2. u \in Users /\ member[u] \in MemberRows
  BY <1>1 DEF KeysKnown
<1>3. PICK new : new = [member[u] EXCEPT !.person = NoPerson, !.verified = FALSE]
  OBVIOUS
<1>4. /\ new \in MemberRows /\ new.role = member[u].role /\ new.scope = member[u].scope
      /\ ~new.verified /\ new.row = member[u].row
  BY <1>2, <1>3 DEF MemberRows
<1>5. member' = [member EXCEPT ![u] = new]
  <2>1. member' = [member EXCEPT ![u].person = NoPerson, ![u].verified = FALSE]
    BY DEF ClearBindingSave
  <2> QED
    BY <1>1, <1>2, <1>3, <2>1
<1>6. member' \in [Users -> MemberRows] /\ vetted' \in [Users -> Persons \cup {NoPerson}]
  BY <1>1, <1>4, <1>5
<1>7. TypeOK' /\ Answered(w)
  BY <1>1, <1>6, RespondTyped DEF TypeOK, Answered
<1> QED
  BY <1>1, <1>2, <1>4, <1>5, <1>7

(* The saves that write invites and no member.                             *)
LEMMA InviteSaveEffect ==
  ASSUME TypeOK, NEW w \in Workers, CreateSave(w) \/ RevokeSave(w) \/ ReviewSave(w)
  PROVE  /\ TypeOK' /\ Answered(w) /\ UNCHANGED <<member, vetted, node>>
<1>1. /\ req[w] \in Requests /\ invite \in [Invites -> InviteRows]
      /\ Respond(w) /\ UNCHANGED <<member, vetted, joins, node>>
  BY DEF TypeOK, CreateSave, RevokeSave, ReviewSave, Respond, history
<1>2. PICK inv \in InviteRows : inv = req[w].inv
  BY <1>1 DEF Requests
<1>3. req[w].user \in Users \cup {NoUser}
  BY <1>1 DEF Requests
<1>4. invite' \in [Invites -> InviteRows]
  <2>1. CASE CreateSave(w)
    BY <1>1, <1>2, <2>1 DEF CreateSave
  <2>2. CASE RevokeSave(w)
    <3>1. PICK gone : gone = [NoInviteRow EXCEPT !.status = "gone"]
      OBVIOUS
    <3>2. gone \in InviteRows
      BY <3>1, NoInviteRowTyped DEF InviteRows
    <3> QED
      BY <1>1, <2>2, <3>1, <3>2 DEF RevokeSave
  <2>3. CASE ReviewSave(w) /\ invite' = [invite EXCEPT ![req[w].invite] =
                [req[w].inv EXCEPT !.status = "active", !.approvedBy = req[w].user]]
    <3>1. PICK new : new = [inv EXCEPT !.status = "active", !.approvedBy = req[w].user]
      OBVIOUS
    <3>2. new \in InviteRows
      BY <1>2, <1>3, <3>1 DEF InviteRows
    <3> QED
      BY <1>1, <1>2, <2>3, <3>1, <3>2
  <2>4. CASE invite' = [invite EXCEPT ![req[w].invite].status = "rejected",
                                      ![req[w].invite].approvedBy = req[w].user]
    <3>1. CASE req[w].invite \notin Invites
      BY <1>1, <2>4, <3>1
    <3>2. CASE req[w].invite \in Invites
      <4>1. PICK i \in Invites : i = req[w].invite
        BY <3>2
      <4>2. PICK new : new = [invite[i] EXCEPT !.status = "rejected", !.approvedBy = req[w].user]
        OBVIOUS
      <4>3. new \in InviteRows
        BY <1>1, <1>3, <4>2 DEF InviteRows
      <4>4. invite' = [invite EXCEPT ![i] = new]
        BY <1>1, <2>4, <4>1, <4>2
      <4> QED
        BY <1>1, <4>3, <4>4
    <3> QED
      BY <3>1, <3>2
  <2> QED
    BY <1>1, <2>1, <2>2, <2>3, <2>4 DEF ReviewSave
<1> QED
  BY <1>1, <1>4, RespondTyped DEF TypeOK, Answered

-----------------------------------------------------------------------------
(* What each handler goes on to its save with.                             *)

ReadFor(q, row, inv, p) ==
  /\ q.kind # "create" => row.row <= member[q.target].row
  /\ q.kind = "patch" =>
       /\ row.role \in Roles
       /\ row.scope # NoPerson => row.role = "editor"
       /\ ~LosesLastOwner(member[q.target], row.role)
  /\ q.kind = "remove" => ~LosesLastOwner(member[q.target], "none")
  /\ q.kind = "leave" => row = q.me /\ q.me.role # "owner"
  /\ q.kind = "bind" =>
       /\ row.person = q.person
       /\ row.verified =>
            \/ p = q.person
            \/ member[q.user].person = q.person /\ member[q.user].verified
  /\ q.kind = "verify" => row = member[q.target] /\ row.person # NoPerson
  /\ q.kind = "create" =>
       /\ inv.by = q.user
       /\ inv.status = "active" /\ inv.role = "editor" => q.me.role = "owner"
  /\ q.kind = "approve" /\ inv.role # "viewer" => q.me.role = "owner"

Reads(w) ==
  \/ PatchRead(w) \/ RemoveRead(w) \/ LeaveRead(w) \/ JoinRead(w) \/ CreateRead(w)
  \/ RevokeRead(w) \/ ReviewRead(w) \/ BindRead(w) \/ UnbindRead(w) \/ VerifyRead(w)

LEMMA LockTaken ==
  ASSUME TypeOK, NEW w \in Workers, NEW i, TakeLock(w, i) \/ UNCHANGED lock
  PROVE  lock' \in [Invites -> Workers \cup {Free}]
BY DEF TypeOK, TakeLock

LEMMA ReadEffect ==
  ASSUME RosterInv, NEW w \in Workers, Reads(w), ~Refuse(w)
  PROVE  \E row \in MemberRows, inv \in InviteRows, p \in Persons \cup {NoPerson} :
           /\ ProceedVouching(w, row, inv, p)
           /\ lock' \in [Invites -> Workers \cup {Free}]
           /\ ReadFor(req[w], row, inv, p)
           /\ req[w].step = "permitted" /\ req[w].kind # "none"
<1>1. PICK q \in Requests : q = req[w]
  BY DEF RosterInv, TypeOK
<1>2. KeysKnown(q) /\ TypeOK
  BY <1>1 DEF RosterInv
<1>3. /\ q.me \in MemberRows /\ q.uses \in Nat /\ q.user \in Users \cup {NoUser}
      /\ q.person \in Persons \cup {NoPerson}
      /\ member \in [Users -> MemberRows] /\ invite \in [Invites -> InviteRows]
  BY <1>1, <1>2 DEF Requests, TypeOK
<1>4. /\ NoRow \in MemberRows /\ NoRow.row = 0 /\ NoInviteRow \in InviteRows
  BY NoRowOK, NoInviteRowTyped
<1>5. \A u \in Users : member[u] \in MemberRows /\ member[u].row \in Nat /\ 0 <= member[u].row
  BY <1>3 DEF MemberRows
<1>6. ASSUME NEW row \in MemberRows, NEW inv \in InviteRows, NEW p \in Persons \cup {NoPerson},
             NEW i, ProceedVouching(w, row, inv, p), TakeLock(w, i) \/ UNCHANGED lock,
             ReadFor(q, row, inv, p), q.step = "permitted", q.kind # "none"
      PROVE  \E rr \in MemberRows, ii \in InviteRows, pp \in Persons \cup {NoPerson} :
               /\ ProceedVouching(w, rr, ii, pp)
               /\ lock' \in [Invites -> Workers \cup {Free}]
               /\ ReadFor(req[w], rr, ii, pp)
               /\ req[w].step = "permitted" /\ req[w].kind # "none"
  BY <1>1, <1>2, <1>6, LockTaken
<1>7. CASE PatchRead(w)
  <2>1. PICK row : row = PatchedRow(q, member[q.target])
    OBVIOUS
  <2>2. /\ q.kind = "patch" /\ q.step = "permitted" /\ q.target \in Users
        /\ IsMember(member[q.target]) /\ ~LosesLastOwner(member[q.target], row.role)
        /\ ProceedVouching(w, row, NoInviteRow, NoPerson) /\ UNCHANGED lock
    BY <1>1, <1>2, <1>7, <2>1 DEF PatchRead, At, Proceed, KeysKnown
  <2>3. PICK old \in MemberRows : old = member[q.target]
    BY <1>5, <2>2
  <2>4. PICK newRole : newRole = IF q.role = Keep THEN old.role ELSE q.role
    OBVIOUS
  <2>5. PICK root : root = IF q.scope = Keep THEN old.scope ELSE q.scope
    OBVIOUS
  <2>6. PICK scope : scope = IF newRole = "editor" THEN root ELSE NoPerson
    OBVIOUS
  <2>7. /\ newRole \in Roles /\ scope \in Persons \cup {NoPerson}
        /\ scope # NoPerson => newRole = "editor"
    BY <2>2, <2>3, <2>4, <2>5, <2>6 DEF Requests, MemberRows, IsMember
  <2>8. row = [old EXCEPT !.role = newRole, !.scope = scope]
    BY <2>1, <2>3, <2>4, <2>5, <2>6 DEF PatchedRow
  <2>9. row \in MemberRows /\ row.role = newRole /\ row.scope = scope /\ row.row = old.row
    BY <2>7, <2>8 DEF MemberRows
  <2>10. row.row <= member[q.target].row
    BY <1>5, <2>2, <2>3, <2>9
  <2>11. ReadFor(q, row, NoInviteRow, NoPerson)
    BY <2>2, <2>7, <2>9, <2>10 DEF ReadFor
  <2> QED
    BY <1>4, <1>6, <2>2, <2>9, <2>11
<1>8. CASE RemoveRead(w) \/ VerifyRead(w) \/ UnbindRead(w)
  <2>1. PICK t : t = IF q.kind = "unbind" THEN q.user ELSE q.target
    OBVIOUS
  <2>2. /\ q.kind \in {"remove", "verify", "unverify", "unbind"} /\ q.step = "permitted"
        /\ ProceedVouching(w, member[t], NoInviteRow, NoPerson) /\ UNCHANGED lock
        /\ q.kind = "remove" => ~LosesLastOwner(member[t], "none")
        /\ q.kind = "verify" => member[t].person # NoPerson
    BY <1>1, <1>8, <2>1 DEF RemoveRead, VerifyRead, UnbindRead, At, Proceed
  <2>3. t \in Users /\ t = q.target
    BY <1>2, <2>1, <2>2 DEF KeysKnown
  <2>4. member[t].row <= member[t].row
    BY <1>5, <2>3
  <2>5. ReadFor(q, member[t], NoInviteRow, NoPerson)
    BY <2>2, <2>3, <2>4 DEF ReadFor
  <2> QED
    BY <1>4, <1>5, <1>6, <2>2, <2>3, <2>5
<1>9. CASE LeaveRead(w)
  <2>1. /\ q.kind = "leave" /\ q.step = "permitted" /\ q.me.role # "owner"
        /\ ProceedVouching(w, q.me, NoInviteRow, NoPerson) /\ UNCHANGED lock
    BY <1>1, <1>9 DEF LeaveRead, At, Proceed
  <2>2. ReadFor(q, q.me, NoInviteRow, NoPerson)
    BY <1>2, <2>1 DEF ReadFor, KeysKnown
  <2> QED
    BY <1>3, <1>4, <1>6, <2>1, <2>2
<1>10. CASE JoinRead(w) \/ RevokeRead(w) \/ ReviewRead(w)
  <2>1. /\ q.kind \in {"join", "revoke", "approve", "reject"} /\ q.step = "permitted"
        /\ ProceedVouching(w, NoRow, invite[q.invite], NoPerson)
        /\ TakeLock(w, q.invite) \/ UNCHANGED lock
        /\ q.kind = "approve" => Reviewable(invite[q.invite], q.me)
    BY <1>1, <1>10 DEF JoinRead, RevokeRead, ReviewRead, At, Proceed
  <2>2. q.target \in Users /\ 0 <= member[q.target].row
    BY <1>2, <1>5, <2>1 DEF KeysKnown
  <2>3. ReadFor(q, NoRow, invite[q.invite], NoPerson)
    BY <1>4, <2>1, <2>2 DEF ReadFor, Reviewable
  <2>4. q.invite \in Invites
    BY <1>2, <2>1 DEF KeysKnown, LockKinds
  <2> QED
    BY <1>3, <1>4, <1>6, <2>1, <2>3, <2>4
<1>11. CASE CreateRead(w)
  <2>1. PICK status : status = InviteInitialStatus(q.me, q.role, q.person)
    OBVIOUS
  <2>2. PICK inv : inv =
             [NoInviteRow EXCEPT
                !.status = status,
                !.role = q.role, !.person = q.person, !.by = q.user,
                !.max = IF q.person = NoPerson THEN q.uses ELSE 1]
    OBVIOUS
  <2>3. /\ q.kind = "create" /\ q.step = "permitted"
        /\ ProceedVouching(w, NoRow, inv, NoPerson) /\ UNCHANGED lock
    BY <1>1, <1>11, <2>1, <2>2 DEF CreateRead, At, Proceed
  <2>4. status \in {"active", "pending_approval"} /\ q.role \in InviteRoles
    BY <1>2, <2>1, <2>3 DEF InviteInitialStatus, KeysKnown
  <2>5. inv \in InviteRows /\ inv.by = q.user /\ inv.status = status /\ inv.role = q.role
    BY <1>3, <1>4, <2>2, <2>4 DEF InviteRows
  <2>6. status = "active" /\ q.role = "editor" => q.me.role = "owner"
    BY <2>1 DEF InviteInitialStatus
  <2>7. ReadFor(q, NoRow, inv, NoPerson)
    BY <2>3, <2>5, <2>6 DEF ReadFor
  <2> QED
    BY <1>4, <1>6, <2>3, <2>5, <2>7
<1>12. CASE BindRead(w)
  <2>1. PICK row : row = [member[q.user] EXCEPT !.person = q.person,
                            !.verified = ClaimVerified(q.me, member[q.user], q.person)]
    OBVIOUS
  <2>2. PICK p \in Persons \cup {NoPerson} :
          p = IF BindingAutoVerified(q.me, q.person) THEN q.person ELSE NoPerson
    BY <1>3
  <2>3. /\ q.kind = "bind" /\ q.step = "permitted"
        /\ ProceedVouching(w, row, NoInviteRow, p) /\ UNCHANGED lock
    BY <1>1, <1>12, <2>1, <2>2 DEF BindRead, At
  <2>4. q.user \in Users /\ q.target = q.user /\ q.person \in Persons
    BY <1>2, <2>3 DEF KeysKnown
  <2>5. PICK old \in MemberRows : old = member[q.user]
    BY <1>5, <2>4
  <2>6. ClaimVerified(q.me, old, q.person) \in BOOLEAN
    BY <2>5 DEF ClaimVerified, BindingAutoVerified, WholeClan, MemberRows
  <2>7. /\ row \in MemberRows /\ row.row = old.row /\ row.person = q.person
        /\ row.verified = ClaimVerified(q.me, old, q.person)
    BY <2>1, <2>4, <2>5, <2>6 DEF MemberRows
  <2>8. row.verified => p = q.person \/ (old.person = q.person /\ old.verified)
    BY <2>2, <2>7 DEF ClaimVerified
  <2>9. row.row <= member[q.target].row
    BY <1>5, <2>4, <2>5, <2>7
  <2>10. ReadFor(q, row, NoInviteRow, p)
    BY <2>3, <2>5, <2>7, <2>8, <2>9 DEF ReadFor
  <2> QED
    BY <1>4, <1>6, <2>2, <2>3, <2>7, <2>10
<1> QED
  BY <1>7, <1>8, <1>9, <1>10, <1>11, <1>12 DEF Reads

-----------------------------------------------------------------------------
(* Type correctness, keys and branches, with any number of workers.        *)

Serving(w, q) == \A v \in Workers : req'[v] = IF v = w THEN q ELSE req[v]

LEMMA ArriveEffect ==
  ASSUME RosterInv, NEW w \in Workers, Arrive(w)
  PROVE  /\ TypeOK' /\ UNCHANGED <<member, invite, vetted, node>>
         /\ \E r \in Requests :
              /\ Serving(w, r) /\ KeysKnown(r)' /\ r.user \in Users
              /\ r.step = "permitted" /\ r.me = member[r.user]
              /\ HasPermission(r.kind, r.me.role)
<1>1. TypeOK
  BY DEF RosterInv
<1>2. PICK q \in Requests :
           /\ q.user \in Users
           /\ q.kind # "create" => q.target \in Users
           /\ q.kind \in {"leave", "bind", "unbind"} => q.target = q.user
           /\ q.kind = "bind" => q.person \in Persons
           /\ q.kind = "create" => q.role \in InviteRoles
           /\ q.kind \in LockKinds \cup {"revoke"} => q.invite \in Invites
           /\ q.kind \in AllKinds
           /\ Permit(w, q)
  BY <1>1, ArriveTyped
<1>3. PICK r : r = [q EXCEPT !.step = "permitted", !.me = member[q.user]]
  OBVIOUS
<1>4. member \in [Users -> MemberRows] /\ member[q.user] \in MemberRows
  BY <1>1, <1>2 DEF TypeOK
<1>5. /\ r \in Requests /\ r.kind = q.kind /\ r.user = q.user /\ r.target = q.target
      /\ r.person = q.person /\ r.role = q.role /\ r.invite = q.invite
      /\ r.step = "permitted" /\ r.me = member[q.user]
  BY <1>3, <1>4 DEF Requests, Steps
<1>6. /\ req' = [req EXCEPT ![w] = r] /\ HasPermission(q.kind, member[q.user].role)
      /\ UNCHANGED <<member, invite, node, lock, vetted, joins>> /\ arrived' \in 0..MaxRequests
  <2>1. arrived \in 0..MaxRequests /\ arrived < MaxRequests /\ arrived' = arrived + 1
    BY <1>1 DEF TypeOK, Arrive
  <2>2. arrived' \in 0..MaxRequests
    BY <2>1, LimitsAssumption
  <2> QED
    BY <1>2, <1>3, <2>2 DEF Permit, Arrive, db, history
<1>7. Written(w, r)
  BY <1>1, <1>5, <1>6 DEF Written, TypeOK
<1>8. TypeOK' /\ Serving(w, r)
  BY <1>1, <1>6, <1>7, WrittenTyped DEF TypeOK, Serving
<1>9. KeysKnown(r)'
  <2>1. member[r.user].row \in Nat /\ member'[r.user] = member[r.user] /\ r.me = member[r.user]
    BY <1>4, <1>5, <1>6 DEF MemberRows
  <2>2. r.me.row <= member'[r.user].row
    BY <2>1
  <2> QED
    BY <1>2, <1>5, <1>6, <2>2 DEF KeysKnown
<1> QED
  BY <1>2, <1>5, <1>6, <1>8, <1>9

LEMMA ReadServes ==
  ASSUME RosterInv, NEW w \in Workers, Reads(w), ~Refuse(w)
  PROVE  /\ TypeOK' /\ UNCHANGED <<member, invite, vetted, node>>
         /\ req[w].step = "permitted"
         /\ \E r \in Requests :
              /\ Serving(w, r)
              /\ r.kind = req[w].kind /\ r.user = req[w].user /\ r.target = req[w].target
              /\ r.person = req[w].person /\ r.me = req[w].me /\ r.step = "ready"
              /\ ReadFor(req[w], r.row, r.inv, r.vouched)
              /\ KeysKnown(r)' /\ PatchOK(r)
<1>1. PICK row \in MemberRows, inv \in InviteRows, p \in Persons \cup {NoPerson} :
           /\ ProceedVouching(w, row, inv, p)
           /\ lock' \in [Invites -> Workers \cup {Free}]
           /\ ReadFor(req[w], row, inv, p)
           /\ req[w].step = "permitted" /\ req[w].kind # "none"
  BY ReadEffect
<1>2. PICK q \in Requests : q = req[w]
  BY DEF RosterInv, TypeOK
<1>3. KeysKnown(q)
  BY <1>2 DEF RosterInv
<1>4. /\ TypeOK' /\ UNCHANGED <<member, invite, vetted, node>>
      /\ \E r \in Requests : Ready(q, r, row, inv, p) /\ Serving(w, r)
  BY <1>1, <1>2, ProceedTyped DEF RosterInv, Serving
<1>5. PICK r \in Requests : Ready(q, r, row, inv, p) /\ Serving(w, r)
  BY <1>4
<1>6. KeysKnown(r)'
  BY <1>1, <1>2, <1>3, <1>4, <1>5 DEF Ready, KeysKnown, ReadFor
<1>7. PatchOK(r)
  BY <1>1, <1>2, <1>5 DEF Ready, PatchOK, ReadFor
<1> QED
  BY <1>1, <1>2, <1>4, <1>5, <1>6, <1>7 DEF Ready

LEMMA IdleKnown == KeysKnown(Idle) /\ KeysKnown(Idle)' /\ PatchOK(Idle)
BY IdleTyped DEF KeysKnown, PatchOK

(* The rows of the clan only get newer keys.                               *)
LEMMA StepRosterInv ==
  ASSUME RosterInv, NEW w \in Workers, NEW q, Serving(w, q), TypeOK', KeysKnown(q)', PatchOK(q),
         \A u \in Users : member[u].row <= member'[u].row,
         ScopeOnlyForEditors'
  PROVE  RosterInv'
<1> SUFFICES ASSUME NEW v \in Workers, v # w
             PROVE  KeysKnown(req[v])' /\ PatchOK(req[v])'
  BY DEF RosterInv, Serving, KeysKnown, PatchOK
<1>1. req'[v] = req[v] /\ KeysKnown(req[v]) /\ PatchOK(req[v]) /\ TypeOK
  BY DEF RosterInv, Serving
<1>2. PICK r \in Requests : r = req[v]
  BY <1>1 DEF TypeOK
<1>3. r.me.row \in Nat /\ r.row.row \in Nat
  BY <1>2 DEF Requests, MemberRows
<1>4. \A u \in Users : member[u].row \in Nat /\ member'[u].row \in Nat
  BY <1>1 DEF TypeOK, MemberRows
<1>5. KeysKnown(r)'
  BY <1>1, <1>2, <1>3, <1>4 DEF KeysKnown
<1> QED
  BY <1>1, <1>2, <1>5 DEF PatchOK

LEMMA RowsTyped ==
  ASSUME TypeOK
  PROVE  \A u \in Users : member[u] \in MemberRows /\ member[u].row \in Nat
BY DEF TypeOK, MemberRows

LEMMA NextRosterInv == ASSUME RosterInv, [Next]_vars PROVE RosterInv'
<1>0. /\ TypeOK /\ ScopeOnlyForEditors
      /\ \A w \in Workers : KeysKnown(req[w]) /\ PatchOK(req[w])
  BY DEF RosterInv
<1>1. \A u \in Users : member[u].row <= member[u].row
  BY <1>0, RowsTyped
<1>2. ASSUME member' = member PROVE ScopeOnlyForEditors'
  BY <1>0, <1>2 DEF ScopeOnlyForEditors
<1>3. ASSUME NEW w \in Workers, Arrive(w) PROVE RosterInv'
  <2>1. PICK r \in Requests : Serving(w, r) /\ KeysKnown(r)' /\ r.step = "permitted"
    BY <1>3, ArriveEffect
  <2>2. TypeOK' /\ member' = member
    BY <1>3, ArriveEffect
  <2> QED
    BY <1>1, <1>2, <2>1, <2>2, StepRosterInv DEF PatchOK
<1>4. ASSUME NEW w \in Workers, Refuse(w) PROVE RosterInv'
  BY <1>0, <1>1, <1>2, <1>4, RefuseTyped, IdleKnown, StepRosterInv DEF Serving
<1>5. ASSUME NEW w \in Workers, Reads(w), ~Refuse(w) PROVE RosterInv'
  <2>1. PICK r : Serving(w, r) /\ KeysKnown(r)' /\ PatchOK(r)
    BY <1>5, ReadServes
  <2>2. TypeOK' /\ member' = member
    BY <1>5, ReadServes
  <2> QED
    BY <1>1, <1>2, <2>1, <2>2, StepRosterInv
<1>6. ASSUME NEW w \in Workers, TypeOK', Answered(w), ScopeOnlyForEditors',
             \A u \in Users : member[u].row <= member'[u].row
      PROVE  RosterInv'
  BY <1>6, IdleKnown, StepRosterInv DEF Answered, Serving
<1>7. ASSUME NEW w \in Workers, PatchSave(w) PROVE RosterInv'
  <2>1. PICK t : t = req[w].target
    OBVIOUS
  <2>2. req[w].kind = "patch" /\ req[w].step = "ready"
    BY <1>7 DEF PatchSave, At
  <2>3. /\ TypeOK' /\ Answered(w) /\ t \in Users
        /\ \A u \in Users \ {t} : member'[u] = member[u]
        /\ ~Exists(t, req[w].row) => member' = member
        /\ member'[t].row = member[t].row
        /\ Exists(t, req[w].row) =>
              member'[t].role = req[w].row.role /\ member'[t].scope = req[w].row.scope
    BY <1>0, <1>7, <2>1, PatchEffect
  <2>4. \A u \in Users : member'[u].row = member[u].row
    BY <2>3
  <2>5. ScopeOnlyForEditors'
    BY <1>0, <2>2, <2>3 DEF ScopeOnlyForEditors, PatchOK
  <2> QED
    BY <1>1, <1>6, <2>3, <2>4, <2>5
<1>8. ASSUME NEW w \in Workers, RemoveSave(w), ~Refuse(w) PROVE RosterInv'
  <2>1. PICK t : t = req[w].target
    OBVIOUS
  <2>2. /\ TypeOK' /\ Answered(w) /\ t \in Users
        /\ \A u \in Users \ {t} : member'[u] = member[u]
        /\ ~Exists(t, req[w].row) => member' = member
        /\ Exists(t, req[w].row) =>
              member'[t].row = member[t].row /\ member'[t].scope = NoPerson
    BY <1>0, <1>8, <2>1, RemoveEffect
  <2>3. \A u \in Users : member'[u].row = member[u].row
    BY <2>2
  <2>4. ScopeOnlyForEditors'
    BY <1>0, <2>2 DEF ScopeOnlyForEditors
  <2> QED
    BY <1>1, <1>6, <2>2, <2>3, <2>4
<1>9. ASSUME NEW w \in Workers, JoinSave(w), ~Refuse(w) PROVE RosterInv'
  <2>1. PICK u : u = req[w].user
    OBVIOUS
  <2>2. /\ TypeOK' /\ Answered(w) /\ u \in Users
        /\ \A v \in Users \ {u} : member'[v] = member[v]
        /\ member'[u].row = member[u].row + 1 /\ member'[u].scope = NoPerson
    BY <1>0, <1>9, <2>1, JoinEffect
  <2>3. \A v \in Users : member[v].row <= member'[v].row
    BY <1>0, <2>2, RowsTyped
  <2>4. ScopeOnlyForEditors'
    BY <1>0, <2>2 DEF ScopeOnlyForEditors
  <2> QED
    BY <1>6, <2>2, <2>3, <2>4
<1>10. ASSUME NEW w \in Workers, BindSave(w) \/ VerifySave(w) \/ ClearBindingSave(w), ~Refuse(w)
       PROVE  RosterInv'
  <2>1. PICK u : u = IF BindSave(w) THEN req[w].user ELSE req[w].target
    OBVIOUS
  <2>2. /\ TypeOK' /\ Answered(w) /\ u \in Users
        /\ \A v \in Users \ {u} : member'[v] = member[v]
        /\ member'[u].role = member[u].role /\ member'[u].row = member[u].row
        /\ member'[u].scope = member[u].scope
    BY <1>0, <1>10, <2>1, BindEffect, VerifyEffect, ClearEffect
  <2>3. \A v \in Users : member'[v].row = member[v].row
    BY <2>2
  <2>4. ScopeOnlyForEditors'
    BY <1>0, <2>2 DEF ScopeOnlyForEditors
  <2> QED
    BY <1>1, <1>6, <2>2, <2>3, <2>4
<1>11. ASSUME NEW w \in Workers, CreateSave(w) \/ RevokeSave(w) \/ ReviewSave(w) PROVE RosterInv'
  BY <1>0, <1>1, <1>2, <1>6, <1>11, InviteSaveEffect
<1>12. ASSUME UNCHANGED <<member, req>>, TypeOK' PROVE RosterInv'
  BY <1>0, <1>2, <1>12 DEF RosterInv, KeysKnown, PatchOK
<1>13. ASSUME NEW p \in Mortals, NodeChanges(p) PROVE RosterInv'
  <2>1. node' \in [Persons -> {"living", "deceased", "deleted"}]
    BY <1>0, <1>13 DEF NodeChanges, TypeOK
  <2> QED
    BY <1>0, <1>12, <1>13, <2>1 DEF NodeChanges, TypeOK, history
<1>14. ASSUME NEW i \in Invites, InviteExpires(i) PROVE RosterInv'
  <2>1. PICK inv : inv = [invite[i] EXCEPT !.expired = TRUE]
    OBVIOUS
  <2>2. invite \in [Invites -> InviteRows] /\ inv \in InviteRows
    BY <1>0, <2>1, ZenonT(60) DEF TypeOK, InviteRows
  <2>3. invite' = [invite EXCEPT ![i] = inv]
    BY <1>14, <2>1, <2>2 DEF InviteExpires
  <2> QED
    BY <1>0, <1>12, <1>14, <2>2, <2>3 DEF InviteExpires, TypeOK, history
<1>15. CASE UNCHANGED vars
  BY <1>0, <1>12, <1>15 DEF vars, TypeOK
<1>16. ASSUME NEW w \in Workers, Serve(w) PROVE RosterInv'
  BY <1>4, <1>5, <1>7, <1>8, <1>9, <1>10, <1>11, <1>16 DEF Serve, Reads, CreateBeyondBound
<1> QED
  BY <1>3, <1>13, <1>14, <1>15, <1>16 DEF Next

LEMMA InitRosterInv == Init => RosterInv
<1> SUFFICES ASSUME Init PROVE RosterInv
  OBVIOUS
<1>1. ScopeOnlyForEditors
  BY RosterAssumption DEF Init, ScopeOnlyForEditors
<1>2. \A w \in Workers : req[w] = Idle
  BY DEF Init
<1> QED
  BY <1>1, <1>2, InitTyped, IdleKnown DEF RosterInv

(* The inductive invariant holds in every reachable state.                 *)
THEOREM RosterInvariance == Spec => []RosterInv
<1>1. RosterInv /\ [Next]_vars => RosterInv'
  BY NextRosterInv
<1> QED
  BY InitRosterInv, <1>1, PTL DEF Spec

(***************************************************************************)
(* Types are right in every reachable state: no request ever writes a row  *)
(* with a role, a node or a count that the columns do not have.            *)
(***************************************************************************)
THEOREM TypeCorrect == Spec => []TypeOK
<1>1. RosterInv => TypeOK
  BY DEF RosterInv
<1> QED
  BY <1>1, RosterInvariance, PTL

(***************************************************************************)
(* A branch limits editors only (clan_membership.py), whatever overlaps:   *)
(* role and branch are decided together and written by one UPDATE.         *)
(***************************************************************************)
THEOREM BranchesAreEditors == Spec => []ScopeOnlyForEditors
<1>1. RosterInv => ScopeOnlyForEditors
  BY DEF RosterInv
<1> QED
  BY <1>1, RosterInvariance, PTL

-----------------------------------------------------------------------------
(* The last owner.                                                         *)

LEMMA OwnerCounted == HasOwner <=> OwnerCount >= 1
<1> DEFINE owners == {u \in Users : member[u].role = "owner"}
<1>1. IsFiniteSet(owners)
  BY RosterAssumption, FS_Subset
<1>2. Cardinality(owners) \in Nat /\ (Cardinality(owners) = 0 <=> owners = {})
  BY <1>1, FS_CardinalityType, FS_EmptySet
<1> QED
  BY <1>2 DEF HasOwner, OwnerCount

LEMMA AnotherOwner ==
  ASSUME NEW t \in Users, member[t].role = "owner", ~(OwnerCount <= 1)
  PROVE  \E v \in Users \ {t} : member[v].role = "owner"
<1> DEFINE owners == {u \in Users : member[u].role = "owner"}
<1>1. SUFFICES ASSUME owners = {t} PROVE FALSE
  OBVIOUS
<1>2. Cardinality(owners) = 1
  BY <1>1, FS_Singleton
<1> QED
  BY <1>2 DEF OwnerCount

(* A step that changes no role, but lets somebody in.                      *)
SameRoles ==
  \A u \in Users :
    \/ member'[u].role = member[u].role /\ member'[u].row = member[u].row
    \/ member[u].role = "none" /\ member'[u].row = member[u].row + 1

LEMMA RoleStays ==
  ASSUME RosterInv, NEW v \in Workers, RoleOK(req[v]), req'[v] = req[v], SameRoles
  PROVE  RoleOK(req[v])'
<1>1. KeysKnown(req[v]) /\ TypeOK
  BY DEF RosterInv
<1>2. PICK q \in Requests : q = req[v]
  BY <1>1 DEF TypeOK
<1>3. q.me.row \in Nat /\ q.row.row \in Nat
  BY <1>2 DEF Requests, MemberRows
<1>4. \A u \in Users : member[u].row \in Nat
  BY <1>1, RowsTyped
<1>5. ASSUME NEW u \in Users, NEW row, row.row \in Nat, row.row <= member[u].row, Exists(u, row)'
      PROVE  Exists(u, row) /\ member'[u].role = member[u].role
  BY <1>4, <1>5 DEF SameRoles, Exists, IsMember
<1>6. ASSUME NEW u \in Users, member[u].role = "owner" PROVE member'[u].role = "owner"
  BY <1>6 DEF SameRoles
<1>7. RoleOK(q) /\ KeysKnown(q)
  BY <1>1, <1>2
<1>8. q.kind \in RoleKinds => q.kind # "none" /\ q.kind # "create"
  BY DEF RoleKinds
<1>9. RoleOK(q)'
  <2>1. ASSUME q.kind = "leave", q.step = "permitted", Exists(q.user, q.me)'
        PROVE  member'[q.user].role = q.me.role
    BY <1>3, <1>5, <1>7, <2>1 DEF RoleOK, KeysKnown
  <2>2. ASSUME q.kind \in RoleKinds, q.step = "ready", Exists(q.target, q.row)',
               member'[q.target].role = "owner", ~(q.kind = "patch" /\ q.row.role = "owner")
        PROVE  \E u \in Users \ {q.target} : member'[u].role = "owner"
    <3>1. q.target \in Users /\ q.row.row <= member[q.target].row
      BY <1>7, <1>8, <2>2 DEF KeysKnown
    <3>2. Exists(q.target, q.row) /\ member[q.target].role = "owner"
      BY <1>3, <1>5, <2>2, <3>1
    <3>3. PICK u \in Users \ {q.target} : member[u].role = "owner"
      BY <1>7, <2>2, <3>2 DEF RoleOK
    <3> QED
      BY <1>6, <3>3
  <2> QED
    BY <2>1, <2>2 DEF RoleOK
<1> QED
  BY <1>2, <1>9

LEMMA IdleRole == RoleOK(Idle)'
BY IdleTyped DEF RoleOK, RoleKinds

LEMMA NextOwnerInv ==
  ASSUME RosterInv, Apart(RoleKinds, RoleKinds), OwnerInv, [Next]_vars
  PROVE  OwnerInv'
<1>0. /\ TypeOK /\ HasOwner
      /\ \A w \in Workers : KeysKnown(req[w]) /\ RoleOK(req[w])
  BY DEF RosterInv, OwnerInv
<1>1. ASSUME NEW w \in Workers, NEW r, Serving(w, r), RoleOK(r)', SameRoles
      PROVE  OwnerInv'
  <2>1. HasOwner'
    BY <1>0, <1>1 DEF HasOwner, SameRoles
  <2>2. \A v \in Workers : RoleOK(req[v])'
    BY <1>0, <1>1, RoleStays DEF Serving, RoleOK
  <2> QED
    BY <2>1, <2>2 DEF OwnerInv
<1>2. ASSUME member' = member PROVE SameRoles
  BY <1>2 DEF SameRoles
<1>3. ASSUME NEW w \in Workers, Arrive(w) PROVE OwnerInv'
  <2>1. PICK r \in Requests :
           Serving(w, r) /\ r.step = "permitted" /\ r.me = member[r.user]
    BY <1>3, ArriveEffect
  <2>2. member' = member
    BY <1>3, ArriveEffect
  <2>3. RoleOK(r)'
    BY <2>1, <2>2 DEF RoleOK
  <2> QED
    BY <1>1, <1>2, <2>1, <2>2, <2>3
<1>4. ASSUME NEW w \in Workers, Refuse(w) PROVE OwnerInv'
  BY <1>0, <1>1, <1>2, <1>4, RefuseTyped, IdleRole DEF Serving
<1>5. ASSUME NEW w \in Workers, Reads(w), ~Refuse(w) PROVE OwnerInv'
  <2>1. PICK r \in Requests :
              /\ Serving(w, r)
              /\ r.kind = req[w].kind /\ r.user = req[w].user /\ r.target = req[w].target
              /\ r.me = req[w].me /\ r.step = "ready"
              /\ ReadFor(req[w], r.row, r.inv, r.vouched)
              /\ KeysKnown(r)'
    BY <1>5, ReadServes
  <2>2. member' = member /\ req[w].step = "permitted"
    BY <1>5, ReadServes
  <2>3. ASSUME r.kind \in RoleKinds, Exists(r.target, r.row)', member[r.target].role = "owner",
               ~(r.kind = "patch" /\ r.row.role = "owner")
        PROVE  \E v \in Users \ {r.target} : member'[v].role = "owner"
    <3>1. r.target \in Users /\ Exists(r.target, r.row) /\ (r.kind = "leave" => r.target = r.user)
      BY <2>1, <2>2, <2>3 DEF KeysKnown, RoleKinds, Exists
    <3>2. r.kind # "leave"
      BY <1>0, <2>1, <2>2, <2>3, <3>1 DEF ReadFor, RoleOK
    <3>3. ~(OwnerCount <= 1)
      BY <2>1, <2>3, <3>2 DEF ReadFor, LosesLastOwner, RoleKinds
    <3> QED
      BY <2>2, <2>3, <3>1, <3>3, AnotherOwner
  <2>4. RoleOK(r)'
    BY <2>1, <2>2, <2>3 DEF RoleOK
  <2> QED
    BY <1>1, <1>2, <2>1, <2>2, <2>4
(* While one of them saves, no other request changes a role.               *)
<1>6. ASSUME NEW w \in Workers, req[w].kind \in RoleKinds, Answered(w), HasOwner' PROVE OwnerInv'
  BY <1>6, IdleRole DEF Apart, Answered, OwnerInv, RoleOK, RoleKinds
<1>7. ASSUME NEW w \in Workers, NEW t, t = req[w].target, req[w].step = "ready",
             req[w].kind \in RoleKinds, t \in Users, Answered(w),
             \A u \in Users \ {t} : member'[u] = member[u],
             ~Exists(t, req[w].row) => member' = member,
             req[w].kind = "patch" /\ Exists(t, req[w].row) => member'[t].role = req[w].row.role
      PROVE  OwnerInv'
  <2>1. RoleOK(req[w])
    BY <1>0
  <2>2. HasOwner'
    BY <1>0, <1>7, <2>1 DEF HasOwner, RoleOK
  <2> QED
    BY <1>6, <1>7, <2>2
<1>8. ASSUME NEW w \in Workers, PatchSave(w) PROVE OwnerInv'
  <2>1. PICK t : t = req[w].target
    OBVIOUS
  <2>2. req[w].kind = "patch" /\ req[w].step = "ready" /\ req[w].kind \in RoleKinds
    BY <1>8 DEF PatchSave, At, RoleKinds
  <2>3. /\ Answered(w) /\ t \in Users
        /\ \A u \in Users \ {t} : member'[u] = member[u]
        /\ ~Exists(t, req[w].row) => member' = member
        /\ Exists(t, req[w].row) => member'[t].role = req[w].row.role
    BY <1>0, <1>8, <2>1, PatchEffect
  <2> QED
    BY <1>7, <2>1, <2>2, <2>3
<1>9. ASSUME NEW w \in Workers, RemoveSave(w), ~Refuse(w) PROVE OwnerInv'
  <2>1. PICK t : t = req[w].target
    OBVIOUS
  <2>2. req[w].kind # "patch" /\ req[w].step = "ready" /\ req[w].kind \in RoleKinds
    BY <1>9 DEF RemoveSave, At, RoleKinds
  <2>3. /\ Answered(w) /\ t \in Users
        /\ \A u \in Users \ {t} : member'[u] = member[u]
        /\ ~Exists(t, req[w].row) => member' = member
    BY <1>0, <1>9, <2>1, RemoveEffect
  <2> QED
    BY <1>7, <2>1, <2>2, <2>3
<1>10. ASSUME NEW w \in Workers, Answered(w), SameRoles PROVE OwnerInv'
  BY <1>1, <1>10, IdleRole DEF Answered, Serving
<1>11. ASSUME NEW w \in Workers, JoinSave(w), ~Refuse(w) PROVE OwnerInv'
  <2>1. PICK u : u = req[w].user
    OBVIOUS
  <2>2. /\ Answered(w) /\ u \in Users /\ ~IsMember(member[u])
        /\ \A v \in Users \ {u} : member'[v] = member[v]
        /\ member'[u].row = member[u].row + 1
    BY <1>0, <1>11, <2>1, JoinEffect
  <2>3. SameRoles
    BY <2>2 DEF SameRoles, IsMember
  <2> QED
    BY <1>10, <2>2, <2>3
<1>12. ASSUME NEW w \in Workers, BindSave(w) \/ VerifySave(w) \/ ClearBindingSave(w), ~Refuse(w)
       PROVE  OwnerInv'
  <2>1. PICK u : u = IF BindSave(w) THEN req[w].user ELSE req[w].target
    OBVIOUS
  <2>2. /\ Answered(w) /\ u \in Users
        /\ \A v \in Users \ {u} : member'[v] = member[v]
        /\ member'[u].role = member[u].role /\ member'[u].row = member[u].row
    BY <1>0, <1>12, <2>1, BindEffect, VerifyEffect, ClearEffect
  <2>3. SameRoles
    BY <2>2 DEF SameRoles
  <2> QED
    BY <1>10, <2>2, <2>3
<1>13. ASSUME NEW w \in Workers, CreateSave(w) \/ RevokeSave(w) \/ ReviewSave(w) PROVE OwnerInv'
  BY <1>0, <1>2, <1>10, <1>13, InviteSaveEffect
<1>14. ASSUME NEW w \in Workers, Serve(w) PROVE OwnerInv'
  BY <1>4, <1>5, <1>8, <1>9, <1>11, <1>12, <1>13, <1>14 DEF Serve, Reads, CreateBeyondBound
<1>15. ASSUME UNCHANGED <<member, req>> PROVE OwnerInv'
  BY <1>0, <1>15 DEF OwnerInv, HasOwner, RoleOK, Exists
<1>16. CASE \/ \E p \in Mortals : NodeChanges(p)
            \/ \E i \in Invites : InviteExpires(i)
            \/ UNCHANGED vars
  BY <1>15, <1>16 DEF NodeChanges, InviteExpires, vars
<1> QED
  BY <1>3, <1>14, <1>16 DEF Next

LEMMA InitOwnerInv == Init => OwnerInv
<1>1. ASSUME Init PROVE HasOwner /\ \A w \in Workers : req[w] = Idle
  BY <1>1, RosterAssumption DEF Init, HasOwner
<1> QED
  BY <1>1, IdleTyped DEF OwnerInv, RoleOK, RoleKinds

(***************************************************************************)
(* "A clan must have at least one owner" (LAST_OWNER_DETAIL): with any     *)
(* number of workers, only two role changes, removals or departures that   *)
(* overlap can take the last owner away.                                   *)
(***************************************************************************)
THEOREM OwnerKept == Spec /\ []Apart(RoleKinds, RoleKinds) => []ClanKeepsAnOwner
<1>1. RosterInv /\ Apart(RoleKinds, RoleKinds) /\ OwnerInv /\ [Next]_vars => OwnerInv'
  BY NextOwnerInv
<1>2. OwnerInv => ClanKeepsAnOwner
  BY OwnerCounted DEF OwnerInv, ClanKeepsAnOwner
<1> QED
  BY <1>1, <1>2, InitOwnerInv, RosterInvariance, PTL DEF Spec

-----------------------------------------------------------------------------
(* Verified bindings.                                                      *)

(* A step that leaves every claim with its row.                            *)
SameClaims ==
  \A u \in Users :
    \/ /\ member'[u].person = member[u].person /\ member'[u].verified = member[u].verified
       /\ member'[u].row = member[u].row
       /\ member[u].role = "none" => member'[u].role = "none"
    \/ member'[u].role = "none"
    \/ member[u].role = "none" /\ member'[u].row = member[u].row + 1

LEMMA ClaimStays ==
  ASSUME RosterInv, NEW v \in Workers, ClaimOK(req[v]), req'[v] = req[v], SameClaims
  PROVE  ClaimOK(req[v])'
<1>1. KeysKnown(req[v]) /\ TypeOK
  BY DEF RosterInv
<1>2. PICK q \in Requests : q = req[v]
  BY <1>1 DEF TypeOK
<1>3. q.row.row \in Nat
  BY <1>2 DEF Requests, MemberRows
<1>4. \A u \in Users : member[u].row \in Nat
  BY <1>1, RowsTyped
<1>5. ASSUME NEW u \in Users, q.row.row <= member[u].row, Exists(u, q.row)'
      PROVE  /\ Exists(u, q.row) /\ member'[u].person = member[u].person
             /\ member'[u].verified = member[u].verified
  BY <1>3, <1>4, <1>5 DEF SameClaims, Exists, IsMember
<1>6. ClaimOK(q) /\ KeysKnown(q)
  BY <1>1, <1>2
<1>7. ClaimOK(q)'
  <2>1. ASSUME q.kind \in {"bind", "verify"}, q.step = "ready"
        PROVE  /\ q.user \in Users /\ q.target \in Users /\ q.row.row <= member[q.target].row
               /\ q.kind = "bind" => q.target = q.user
    BY <1>6, <2>1 DEF KeysKnown
  <2> QED
    BY <1>5, <1>6, <2>1 DEF ClaimOK
<1> QED
  BY <1>2, <1>7

LEMMA IdleClaim == ClaimOK(Idle)'
BY IdleTyped DEF ClaimOK

LEMMA NextClaimInv ==
  ASSUME RosterInv, Apart(ClaimKinds, ClaimKinds), ClaimInv, [Next]_vars
  PROVE  ClaimInv'
<1>0. /\ TypeOK /\ VerifiedOnlyIfVetted
      /\ \A w \in Workers : KeysKnown(req[w]) /\ ClaimOK(req[w])
  BY DEF RosterInv, ClaimInv
<1>1. ASSUME NEW w \in Workers, NEW r, Serving(w, r), ClaimOK(r)', SameClaims,
             VerifiedOnlyIfVetted'
      PROVE  ClaimInv'
  BY <1>0, <1>1, ClaimStays DEF Serving, ClaimOK, ClaimInv
<1>2. ASSUME UNCHANGED <<member, vetted>> PROVE SameClaims /\ VerifiedOnlyIfVetted'
  BY <1>0, <1>2 DEF SameClaims, VerifiedOnlyIfVetted
<1>3. ASSUME NEW w \in Workers, Arrive(w) PROVE ClaimInv'
  <2>1. PICK r \in Requests : Serving(w, r) /\ r.step = "permitted"
    BY <1>3, ArriveEffect
  <2>2. UNCHANGED <<member, vetted>>
    BY <1>3, ArriveEffect
  <2>3. ClaimOK(r)'
    BY <2>1 DEF ClaimOK
  <2> QED
    BY <1>1, <1>2, <2>1, <2>2, <2>3
<1>4. ASSUME NEW w \in Workers, Refuse(w) PROVE ClaimInv'
  BY <1>0, <1>1, <1>2, <1>4, RefuseTyped, IdleClaim DEF Serving
<1>5. ASSUME NEW w \in Workers, Reads(w), ~Refuse(w) PROVE ClaimInv'
  <2>1. PICK r \in Requests :
              /\ Serving(w, r)
              /\ r.kind = req[w].kind /\ r.user = req[w].user /\ r.target = req[w].target
              /\ r.person = req[w].person /\ r.step = "ready"
              /\ ReadFor(req[w], r.row, r.inv, r.vouched)
    BY <1>5, ReadServes
  <2>2. UNCHANGED <<member, vetted>>
    BY <1>5, ReadServes
  <2>3. ClaimOK(r)'
    BY <2>1, <2>2 DEF ClaimOK, ReadFor
  <2> QED
    BY <1>1, <1>2, <2>1, <2>2, <2>3
<1>6. ASSUME NEW w \in Workers, Answered(w), SameClaims, VerifiedOnlyIfVetted' PROVE ClaimInv'
  BY <1>1, <1>6, IdleClaim DEF Answered, Serving
<1>7. ASSUME NEW w \in Workers, PatchSave(w) PROVE ClaimInv'
  <2>1. PICK t : t = req[w].target
    OBVIOUS
  <2>2. /\ Answered(w) /\ t \in Users /\ vetted' = vetted
        /\ \A u \in Users \ {t} : member'[u] = member[u]
        /\ ~Exists(t, req[w].row) => member' = member
        /\ member'[t].person = member[t].person /\ member'[t].verified = member[t].verified
        /\ member'[t].row = member[t].row
    BY <1>0, <1>7, <2>1, PatchEffect
  <2>3. SameClaims
    BY <2>2 DEF SameClaims, Exists, IsMember
  <2>4. VerifiedOnlyIfVetted'
    BY <1>0, <2>2 DEF VerifiedOnlyIfVetted
  <2> QED
    BY <1>6, <2>2, <2>3, <2>4
<1>8. ASSUME NEW w \in Workers, RemoveSave(w), ~Refuse(w) PROVE ClaimInv'
  <2>1. PICK t : t = req[w].target
    OBVIOUS
  <2>2. /\ Answered(w) /\ t \in Users
        /\ \A u \in Users \ {t} : member'[u] = member[u] /\ vetted'[u] = vetted[u]
        /\ ~Exists(t, req[w].row) => UNCHANGED <<member, vetted>>
        /\ Exists(t, req[w].row) => member'[t].role = "none" /\ ~member'[t].verified
    BY <1>0, <1>8, <2>1, RemoveEffect
  <2>3. SameClaims /\ VerifiedOnlyIfVetted'
    BY <1>0, <2>2 DEF SameClaims, VerifiedOnlyIfVetted
  <2> QED
    BY <1>6, <2>2, <2>3
<1>9. ASSUME NEW w \in Workers, JoinSave(w), ~Refuse(w) PROVE ClaimInv'
  <2>1. PICK u : u = req[w].user
    OBVIOUS
  <2>2. /\ Answered(w) /\ u \in Users /\ ~IsMember(member[u])
        /\ \A v \in Users \ {u} : member'[v] = member[v] /\ vetted'[v] = vetted[v]
        /\ member'[u].row = member[u].row + 1
        /\ member'[u].verified => vetted'[u] = member'[u].person /\ member'[u].person # NoPerson
    BY <1>0, <1>9, <2>1, JoinEffect
  <2>3. SameClaims /\ VerifiedOnlyIfVetted'
    BY <1>0, <2>2 DEF SameClaims, VerifiedOnlyIfVetted, IsMember
  <2> QED
    BY <1>6, <2>2, <2>3
<1>10. ASSUME NEW w \in Workers, CreateSave(w) \/ RevokeSave(w) \/ ReviewSave(w) PROVE ClaimInv'
  BY <1>0, <1>2, <1>6, <1>10, InviteSaveEffect
(* While a claim is saved, no other request claims, drops or judges one.   *)
<1>11. ASSUME NEW w \in Workers, req[w].kind \in ClaimKinds, Answered(w), VerifiedOnlyIfVetted'
       PROVE  ClaimInv'
  BY <1>11, IdleClaim DEF Apart, Answered, ClaimInv, ClaimOK, ClaimKinds
<1>12. ASSUME NEW w \in Workers, BindSave(w), ~Refuse(w) PROVE ClaimInv'
  <2>1. PICK u : u = req[w].user
    OBVIOUS
  <2>2. /\ Answered(w) /\ u \in Users /\ Exists(u, req[w].row)
        /\ req[w].kind = "bind" /\ req[w].step = "ready"
        /\ \A v \in Users \ {u} : member'[v] = member[v] /\ vetted'[v] = vetted[v]
        /\ member'[u].person = req[w].row.person /\ member'[u].verified = req[w].row.verified
        /\ vetted'[u] = IF req[w].person \in {req[w].vouched, vetted[u]}
                        THEN req[w].person ELSE NoPerson
    BY <1>0, <1>12, <2>1, BindEffect
  <2>3. req[w].person # NoPerson
    BY <1>0, <2>2, NullsAssumption DEF KeysKnown
  <2>4. /\ req[w].row.person = req[w].person
        /\ req[w].row.verified =>
             \/ req[w].vouched = req[w].person
             \/ member[u].person = req[w].person /\ member[u].verified
    BY <1>0, <2>1, <2>2 DEF ClaimOK
  <2>5. VerifiedOnlyIfVetted'
    BY <1>0, <2>2, <2>3, <2>4 DEF VerifiedOnlyIfVetted
  <2> QED
    BY <1>11, <2>2, <2>5 DEF ClaimKinds
<1>13. ASSUME NEW w \in Workers, VerifySave(w), ~Refuse(w) PROVE ClaimInv'
  <2>1. PICK u : u = req[w].target
    OBVIOUS
  <2>2. /\ Answered(w) /\ u \in Users /\ Exists(u, req[w].row)
        /\ req[w].kind = "verify" /\ req[w].step = "ready"
        /\ \A v \in Users \ {u} : member'[v] = member[v] /\ vetted'[v] = vetted[v]
        /\ member'[u].person = member[u].person
        /\ vetted'[u] = req[w].row.person
    BY <1>0, <1>13, <2>1, VerifyEffect
  <2>3. req[w].row.person = member[u].person /\ req[w].row.person # NoPerson
    BY <1>0, <2>1, <2>2 DEF ClaimOK
  <2>4. VerifiedOnlyIfVetted'
    BY <1>0, <2>2, <2>3 DEF VerifiedOnlyIfVetted
  <2> QED
    BY <1>11, <2>2, <2>4 DEF ClaimKinds
<1>14. ASSUME NEW w \in Workers, ClearBindingSave(w), ~Refuse(w) PROVE ClaimInv'
  <2>1. PICK u : u = req[w].target
    OBVIOUS
  <2>2. /\ Answered(w) /\ u \in Users /\ req[w].kind \in {"unbind", "unverify"}
        /\ \A v \in Users \ {u} : member'[v] = member[v] /\ vetted'[v] = vetted[v]
        /\ ~member'[u].verified
    BY <1>0, <1>14, <2>1, ClearEffect
  <2>3. VerifiedOnlyIfVetted'
    BY <1>0, <2>2 DEF VerifiedOnlyIfVetted
  <2> QED
    BY <1>11, <2>2, <2>3 DEF ClaimKinds
<1>15. ASSUME NEW w \in Workers, Serve(w) PROVE ClaimInv'
  BY <1>4, <1>5, <1>7, <1>8, <1>9, <1>10, <1>12, <1>13, <1>14, <1>15
     DEF Serve, Reads, CreateBeyondBound
<1>16. ASSUME UNCHANGED <<member, vetted, req>> PROVE ClaimInv'
  BY <1>0, <1>2, <1>16 DEF ClaimInv, ClaimOK, Exists
<1>17. CASE \/ \E p \in Mortals : NodeChanges(p)
            \/ \E i \in Invites : InviteExpires(i)
            \/ UNCHANGED vars
  BY <1>16, <1>17 DEF NodeChanges, InviteExpires, vars, history
<1> QED
  BY <1>3, <1>15, <1>17 DEF Next

LEMMA InitClaimInv == Init => ClaimInv
<1>1. ASSUME Init PROVE VerifiedOnlyIfVetted /\ \A w \in Workers : req[w] = Idle
  <2>1. /\ vetted = [u \in Users |-> IF member[u].verified THEN member[u].person ELSE NoPerson]
        /\ \A w \in Workers : req[w] = Idle
        /\ \A u \in Users : member[u].verified => member[u].person # NoPerson
    BY <1>1, RosterAssumption DEF Init
  <2> QED
    BY <2>1 DEF VerifiedOnlyIfVetted
<1> QED
  BY <1>1, IdleTyped DEF ClaimInv, ClaimOK

(***************************************************************************)
(* A verified binding is the one somebody entitled to it vouched for       *)
(* (member_binding.py, member_verify.py): with any number of workers,       *)
(* only two requests that claim, drop or judge a claim and overlap can     *)
(* leave one that nobody vetted.                                           *)
(***************************************************************************)
THEOREM VettedBindings == Spec /\ []Apart(ClaimKinds, ClaimKinds) => []VerifiedOnlyIfVetted
<1>1. RosterInv /\ Apart(ClaimKinds, ClaimKinds) /\ ClaimInv /\ [Next]_vars => ClaimInv'
  BY NextClaimInv
<1>2. ClaimInv => VerifiedOnlyIfVetted
  BY DEF ClaimInv
<1> QED
  BY <1>1, <1>2, InitClaimInv, RosterInvariance, PTL DEF Spec

-----------------------------------------------------------------------------
(* Invites and their minters.                                              *)

(* The invites after each save that writes some.                           *)
LEMMA CreatedInvite ==
  ASSUME TypeOK, NEW w \in Workers, CreateSave(w)
  PROVE  /\ req[w].kind = "create" /\ req[w].step = "ready"
         /\ \E i \in Invites : \A j \in Invites :
              invite'[j] = IF j = i THEN req[w].inv ELSE invite[j]
BY DEF TypeOK, CreateSave, At

LEMMA RevokedInvite ==
  ASSUME TypeOK, NEW w \in Workers, RevokeSave(w)
  PROVE  \A j \in Invites : invite'[j] = invite[j] \/ invite'[j].status = "gone"
<1>1. PICK gone : gone = [NoInviteRow EXCEPT !.status = "gone"]
  OBVIOUS
<1>2. gone.status = "gone"
  BY <1>1, GoneRow
<1>3. PICK i : i = req[w].invite
  OBVIOUS
<1>4. invite' = [invite EXCEPT ![i] = gone] /\ invite \in [Invites -> InviteRows]
  BY <1>1, <1>3 DEF RevokeSave, TypeOK
<1> QED
  BY <1>2, <1>4

LEMMA DroppedInvites ==
  ASSUME NEW u, invite' = InvitesDropped(u)
  PROVE  \A j \in Invites : \/ invite'[j] = invite[j] /\ invite[j].by # u
                            \/ invite'[j].status = "gone"
BY GoneRow DEF InvitesDropped

LEMMA ReviewedInvite ==
  ASSUME RosterInv, NEW w \in Workers, ReviewSave(w), NEW i, i = req[w].invite
  PROVE  /\ i \in Invites /\ req[w].step = "ready"
         /\ \A j \in Invites \ {i} : invite'[j] = invite[j]
         /\ \/ /\ req[w].kind = "approve"
               /\ invite'[i].status = "active" /\ invite'[i].approvedBy = req[w].user
               /\ invite'[i].role = req[w].inv.role /\ invite'[i].by = req[w].inv.by
            \/ /\ req[w].kind = "reject"
               /\ invite'[i].status = "rejected" /\ Stored(invite[i])
               /\ invite'[i].by = invite[i].by
            \/ invite' = invite
<1>1. /\ req[w].kind \in {"approve", "reject"} /\ req[w].step = "ready"
      /\ invite \in [Invites -> InviteRows] /\ req[w].inv \in InviteRows
      /\ i \in Invites
  BY DEF RosterInv, TypeOK, Requests, ReviewSave, At, KeysKnown, LockKinds
<1>2. CASE req[w].kind = "approve"
  <2>1. PICK new : new = [req[w].inv EXCEPT !.status = "active", !.approvedBy = req[w].user]
    OBVIOUS
  <2>2. /\ new.status = "active" /\ new.approvedBy = req[w].user
        /\ new.role = req[w].inv.role /\ new.by = req[w].inv.by
    BY <1>1, <2>1 DEF InviteRows
  <2>3. invite' = [invite EXCEPT ![i] = new]
    BY <1>2, <2>1 DEF ReviewSave
  <2> QED
    BY <1>1, <1>2, <2>2, <2>3
<1>3. CASE req[w].kind = "reject"
  <2>1. PICK new : new = [invite[i] EXCEPT !.status = "rejected", !.approvedBy = req[w].user]
    OBVIOUS
  <2>2. new.status = "rejected" /\ new.by = invite[i].by
    BY <1>1, <2>1 DEF InviteRows
  <2>3. invite' = IF Stored(invite[i])
                  THEN [invite EXCEPT ![i].status = "rejected", ![i].approvedBy = req[w].user]
                  ELSE invite
    BY <1>3 DEF ReviewSave
  <2>4. Stored(invite[i]) => invite' = [invite EXCEPT ![i] = new]
    BY <1>1, <2>1, <2>3
  <2> QED
    BY <1>1, <1>3, <2>2, <2>3, <2>4
<1> QED
  BY <1>1, <1>2, <1>3

LEMMA ExpiredInvite ==
  ASSUME TypeOK, NEW i \in Invites, InviteExpires(i)
  PROVE  \A j \in Invites : invite'[j].status = invite[j].status /\ invite'[j].by = invite[j].by
<1>1. PICK new : new = [invite[i] EXCEPT !.expired = TRUE]
  OBVIOUS
<1>2. invite \in [Invites -> InviteRows] /\ new.status = invite[i].status /\ new.by = invite[i].by
  BY <1>1 DEF TypeOK, InviteRows
<1>3. invite' = [invite EXCEPT ![i] = new]
  BY <1>1, <1>2 DEF InviteExpires
<1> QED
  BY <1>2, <1>3

Leavers == {"remove", "leave"}

(* The step lets nobody go.                                                *)
MembersStay == \A u \in Users : IsMember(member[u]) => IsMember(member'[u])

LEMMA NextMintInv ==
  ASSUME RosterInv, IInv, Apart({"create"}, Leavers), MintInv, [Next]_vars
  PROVE  MintInv'
<1>0. /\ TypeOK /\ ByMembers
      /\ \A w \in Workers : KeysKnown(req[w]) /\ MintOK(req[w]) /\ PatchOK(req[w])
  BY DEF RosterInv, MintInv
<1>1. ASSUME NEW w \in Workers, NEW r, Serving(w, r), MintOK(r)', MembersStay, ByMembers'
      PROVE  MintInv'
  <2>1. ASSUME NEW v \in Workers, v # w PROVE MintOK(req[v])'
    <3>1. req'[v] = req[v] /\ MintOK(req[v]) /\ KeysKnown(req[v])
      BY <1>0, <1>1, <2>1 DEF Serving
    <3>2. req[v].kind = "create" => req[v].user \in Users
      BY <3>1 DEF KeysKnown
    <3> QED
      BY <1>1, <3>1, <3>2 DEF MintOK, MembersStay
  <2>2. MintOK(req[w])'
    BY <1>1 DEF Serving, MintOK
  <2> QED
    BY <1>1, <2>1, <2>2 DEF MintInv
<1>2. ASSUME member' = member PROVE MembersStay
  BY <1>2 DEF MembersStay
<1>3. ASSUME MembersStay,
             \A i \in Invites :
               Stored(invite'[i]) => Stored(invite[i]) /\ invite'[i].by = invite[i].by
      PROVE  ByMembers'
  BY <1>0, <1>3 DEF ByMembers, MembersStay
<1>4. ASSUME NEW w \in Workers, Arrive(w) PROVE MintInv'
  <2>1. PICK r \in Requests :
              /\ Serving(w, r) /\ r.user \in Users
              /\ r.step = "permitted" /\ r.me = member[r.user]
              /\ HasPermission(r.kind, r.me.role)
    BY <1>4, ArriveEffect
  <2>2. member' = member /\ invite' = invite
    BY <1>4, ArriveEffect
  <2>3. r.kind = "create" => r.me.role \in Roles
    BY <2>1 DEF HasPermission
  <2>4. MintOK(r)'
    BY <2>1, <2>2, <2>3 DEF MintOK, IsMember, Roles
  <2> QED
    BY <1>1, <1>2, <1>3, <2>1, <2>2, <2>4
<1>5. MintOK(Idle)'
  BY IdleTyped DEF MintOK
<1>6. ASSUME NEW w \in Workers, Refuse(w) PROVE MintInv'
  BY <1>0, <1>1, <1>2, <1>3, <1>5, <1>6, RefuseTyped DEF Serving
<1>7. ASSUME NEW w \in Workers, Reads(w), ~Refuse(w) PROVE MintInv'
  <2>1. PICK r \in Requests :
              /\ Serving(w, r)
              /\ r.kind = req[w].kind /\ r.user = req[w].user /\ r.step = "ready"
              /\ ReadFor(req[w], r.row, r.inv, r.vouched)
    BY <1>7, ReadServes
  <2>2. member' = member /\ invite' = invite
    BY <1>7, ReadServes
  <2>3. MintOK(r)'
    BY <1>0, <2>1, <2>2 DEF MintOK, ReadFor
  <2> QED
    BY <1>1, <1>2, <1>3, <2>1, <2>2, <2>3
<1>8. ASSUME NEW w \in Workers, Answered(w), MembersStay, ByMembers' PROVE MintInv'
  BY <1>1, <1>5, <1>8 DEF Answered, Serving
<1>9. ASSUME NEW w \in Workers, PatchSave(w) PROVE MintInv'
  <2>1. PICK t : t = req[w].target
    OBVIOUS
  <2>2. /\ Answered(w) /\ t \in Users /\ invite' = invite
        /\ \A u \in Users \ {t} : member'[u] = member[u]
        /\ ~Exists(t, req[w].row) => member' = member
        /\ Exists(t, req[w].row) => member'[t].role = req[w].row.role
    BY <1>0, <1>9, <2>1, PatchEffect
  <2>3. req[w].row.role \in Roles
    BY <1>0, <1>9 DEF PatchSave, At, PatchOK
  <2>4. MembersStay
    BY <2>2, <2>3 DEF MembersStay, IsMember, Roles
  <2> QED
    BY <1>3, <1>8, <2>2, <2>4
<1>10. ASSUME NEW w \in Workers, RemoveSave(w), ~Refuse(w) PROVE MintInv'
  <2>1. PICK t : t = req[w].target
    OBVIOUS
  <2>2. /\ Answered(w) /\ t \in Users /\ invite' = InvitesDropped(t)
        /\ \A u \in Users \ {t} : member'[u] = member[u]
    BY <1>0, <1>10, <2>1, RemoveEffect
  <2>3. ByMembers'
    BY <1>0, <2>2, DroppedInvites DEF ByMembers, Stored
  <2>4. req[w].kind \in Leavers
    BY <1>10 DEF RemoveSave, At, Leavers
  <2>5. \A v \in Workers \ {w} : req[v].kind # "create"
    BY <2>4 DEF Apart
  <2> QED
    BY <1>5, <2>2, <2>3, <2>5 DEF MintInv, MintOK, Answered
<1>11. ASSUME NEW w \in Workers, JoinSave(w), ~Refuse(w) PROVE MintInv'
  <2>1. PICK u : u = req[w].user
    OBVIOUS
  <2>2. /\ Answered(w) /\ u \in Users
        /\ \A v \in Users \ {u} : member'[v] = member[v]
        /\ member'[u].role \in Roles
        /\ \A i \in Invites : invite'[i].status = invite[i].status /\ invite'[i].by = invite[i].by
    BY <1>0, <1>11, <2>1, JoinEffect
  <2>3. MembersStay
    BY <2>2 DEF MembersStay, IsMember, Roles
  <2> QED
    BY <1>3, <1>8, <2>2, <2>3 DEF Stored
<1>12. ASSUME NEW w \in Workers, BindSave(w) \/ VerifySave(w) \/ ClearBindingSave(w), ~Refuse(w)
       PROVE  MintInv'
  <2>1. PICK u : u = IF BindSave(w) THEN req[w].user ELSE req[w].target
    OBVIOUS
  <2>2. /\ Answered(w) /\ u \in Users /\ invite' = invite
        /\ \A v \in Users \ {u} : member'[v] = member[v]
        /\ member'[u].role = member[u].role
    BY <1>0, <1>12, <2>1, BindEffect, VerifyEffect, ClearEffect
  <2>3. MembersStay
    BY <2>2 DEF MembersStay, IsMember
  <2> QED
    BY <1>3, <1>8, <2>2, <2>3
<1>13. ASSUME NEW w \in Workers, CreateSave(w) \/ RevokeSave(w) \/ ReviewSave(w) PROVE MintInv'
  <2>1. Answered(w) /\ member' = member
    BY <1>0, <1>13, InviteSaveEffect
  <2>2. CASE CreateSave(w)
    <3>1. PICK i \in Invites : \A j \in Invites :
            invite'[j] = IF j = i THEN req[w].inv ELSE invite[j]
      BY <1>0, <2>2, CreatedInvite
    <3>2. req[w].user \in Users /\ IsMember(member[req[w].user]) /\ req[w].inv.by = req[w].user
      BY <1>0, <2>2, CreatedInvite DEF MintOK, KeysKnown
    <3>3. ByMembers'
      BY <1>0, <2>1, <3>1, <3>2 DEF ByMembers
    <3> QED
      BY <1>2, <1>8, <2>1, <3>3
  <2>3. CASE RevokeSave(w)
    <3>1. ByMembers'
      BY <1>0, <2>1, <2>3, RevokedInvite DEF ByMembers, Stored
    <3> QED
      BY <1>2, <1>8, <2>1, <3>1
  <2>4. CASE ReviewSave(w)
    <3>1. PICK i : i = req[w].invite
      OBVIOUS
    <3>2. /\ i \in Invites /\ req[w].kind \in {"approve", "reject"} /\ req[w].step = "ready"
      BY <2>4, <3>1, ReviewedInvite DEF ReviewSave, At
    <3>3. req[w].inv = invite[i] /\ invite[i].status = "pending_approval"
      BY <3>1, <3>2 DEF IInv, HoldersHold, Holding, Held, LockKinds
    <3>4. /\ \A j \in Invites \ {i} : invite'[j] = invite[j]
          /\ invite'[i].by = invite[i].by
      BY <2>4, <3>1, <3>3, ReviewedInvite
    <3>5. ByMembers'
      BY <1>0, <2>1, <3>2, <3>3, <3>4 DEF ByMembers, Stored
    <3> QED
      BY <1>2, <1>8, <2>1, <3>5
  <2> QED
    BY <1>13, <2>2, <2>3, <2>4
<1>14. ASSUME NEW w \in Workers, Serve(w) PROVE MintInv'
  BY <1>6, <1>7, <1>9, <1>10, <1>11, <1>12, <1>13, <1>14 DEF Serve, Reads, CreateBeyondBound
<1>15. ASSUME UNCHANGED <<member, req>>,
              \A i \in Invites :
                invite'[i].status = invite[i].status /\ invite'[i].by = invite[i].by
       PROVE  MintInv'
  BY <1>0, <1>2, <1>3, <1>15 DEF MintInv, MintOK, Stored
<1>16. ASSUME NEW i \in Invites, InviteExpires(i) PROVE MintInv'
  BY <1>0, <1>15, <1>16, ExpiredInvite DEF InviteExpires
<1>17. CASE (\E p \in Mortals : NodeChanges(p)) \/ UNCHANGED vars
  BY <1>15, <1>17 DEF NodeChanges, vars, db
<1> QED
  BY <1>4, <1>14, <1>16, <1>17 DEF Next

LEMMA InitMintInv == Init => MintInv
<1>1. ASSUME Init PROVE ByMembers /\ \A w \in Workers : req[w] = Idle
  BY <1>1, NoInviteRowOK DEF Init, ByMembers, Stored
<1> QED
  BY <1>1, IdleTyped DEF MintInv, MintOK

(***************************************************************************)
(* Leaving takes the codes one minted along (clan_membership.py): an invite *)
(* whose minter is no member any more needs a `create` that overlaps with  *)
(* the minter's removal or departure, whatever the others do.              *)
(***************************************************************************)
THEOREM InvitesLeaveWithMinter ==
  Spec /\ []Apart({"create"}, Leavers) => []NoInviteFromNonMember
<1>1. RosterInv /\ IInv /\ Apart({"create"}, Leavers) /\ MintInv /\ [Next]_vars => MintInv'
  BY NextMintInv
<1>2. MintInv => NoInviteFromNonMember
  BY DEF MintInv, ByMembers, NoInviteFromNonMember
<1> QED
  BY <1>1, <1>2, InitMintInv, RosterInvariance, Invariance, PTL DEF Spec

-----------------------------------------------------------------------------
(* Invites that grant `editor`.                                            *)

OwnersStay == \A u \in Users : member[u].role = "owner" => member'[u].role = "owner"

Granters == {"create", "approve"}

(* The body of EditorInvitesFromOwner.                                     *)
GrantedByOwner ==
  \A i \in Invites :
    /\ invite[i].status # "active"
    /\ invite'[i].status = "active"
    /\ invite'[i].role = "editor"
    => \E u \in {invite'[i].by, invite'[i].approvedBy} \ {NoUser} : member[u].role = "owner"

LEMMA NextGrantInv ==
  ASSUME RosterInv, Apart(Granters, RoleKinds), GrantInv, [Next]_vars
  PROVE  GrantInv' /\ GrantedByOwner
<1>0. /\ TypeOK
      /\ \A w \in Workers : KeysKnown(req[w]) /\ GrantOK(req[w])
  BY DEF RosterInv, GrantInv
<1>1. ASSUME NEW w \in Workers, NEW r, Serving(w, r), GrantOK(r)', OwnersStay
      PROVE  GrantInv'
  <2>1. ASSUME NEW v \in Workers, v # w PROVE GrantOK(req[v])'
    <3>1. req'[v] = req[v] /\ GrantOK(req[v]) /\ KeysKnown(req[v])
      BY <1>0, <1>1, <2>1 DEF Serving
    <3>2. req[v].kind \in {"create", "approve"} => req[v].user \in Users
      BY <3>1 DEF KeysKnown
    <3> QED
      BY <1>1, <3>1, <3>2 DEF GrantOK, OwnersStay
  <2>2. GrantOK(req[w])'
    BY <1>1 DEF Serving, GrantOK
  <2> QED
    BY <2>1, <2>2 DEF GrantInv
<1>2. ASSUME member' = member PROVE OwnersStay
  BY <1>2 DEF OwnersStay
<1>3. ASSUME \A i \in Invites : \/ invite'[i].status = invite[i].status
                                \/ invite'[i].status = "gone"
      PROVE  GrantedByOwner
  BY <1>3 DEF GrantedByOwner
<1>4. ASSUME NEW w \in Workers, Arrive(w) PROVE GrantInv' /\ GrantedByOwner
  <2>1. PICK r \in Requests :
              Serving(w, r) /\ r.step = "permitted" /\ r.me = member[r.user]
    BY <1>4, ArriveEffect
  <2>2. member' = member /\ invite' = invite
    BY <1>4, ArriveEffect
  <2>3. GrantOK(r)'
    BY <2>1, <2>2 DEF GrantOK
  <2> QED
    BY <1>1, <1>2, <1>3, <2>1, <2>2, <2>3
<1>5. GrantOK(Idle)'
  BY IdleTyped DEF GrantOK
<1>6. ASSUME NEW w \in Workers, Refuse(w) PROVE GrantInv' /\ GrantedByOwner
  BY <1>0, <1>1, <1>2, <1>3, <1>5, <1>6, RefuseTyped DEF Serving
<1>7. ASSUME NEW w \in Workers, Reads(w), ~Refuse(w) PROVE GrantInv' /\ GrantedByOwner
  <2>1. PICK r \in Requests :
              /\ Serving(w, r)
              /\ r.kind = req[w].kind /\ r.user = req[w].user /\ r.step = "ready"
              /\ ReadFor(req[w], r.row, r.inv, r.vouched)
    BY <1>7, ReadServes
  <2>2. member' = member /\ invite' = invite /\ req[w].step = "permitted"
    BY <1>7, ReadServes
  <2>3. GrantOK(r)'
    BY <1>0, <2>1, <2>2 DEF GrantOK, ReadFor
  <2> QED
    BY <1>1, <1>2, <1>3, <2>1, <2>2, <2>3
<1>8. ASSUME NEW w \in Workers, Answered(w), OwnersStay PROVE GrantInv'
  BY <1>1, <1>5, <1>8 DEF Answered, Serving
(* While a role is changed, nobody is about to grant one.                  *)
<1>9. ASSUME NEW w \in Workers, req[w].kind \in RoleKinds, Answered(w) PROVE GrantInv'
  BY <1>5, <1>9 DEF Apart, Granters, Answered, GrantInv, GrantOK
<1>10. ASSUME NEW w \in Workers, PatchSave(w) PROVE GrantInv' /\ GrantedByOwner
  <2>1. Answered(w) /\ invite' = invite
    BY <1>0, <1>10, PatchEffect
  <2> QED
    BY <1>3, <1>9, <1>10, <2>1 DEF PatchSave, At, RoleKinds
<1>11. ASSUME NEW w \in Workers, RemoveSave(w), ~Refuse(w) PROVE GrantInv' /\ GrantedByOwner
  <2>1. Answered(w) /\ invite' = InvitesDropped(req[w].target)
    BY <1>0, <1>11, RemoveEffect
  <2>2. GrantedByOwner
    BY <1>3, <2>1, DroppedInvites
  <2> QED
    BY <1>9, <1>11, <2>1, <2>2 DEF RemoveSave, At, RoleKinds
<1>12. ASSUME NEW w \in Workers, JoinSave(w), ~Refuse(w) PROVE GrantInv' /\ GrantedByOwner
  <2>1. PICK u : u = req[w].user
    OBVIOUS
  <2>2. /\ Answered(w) /\ u \in Users /\ ~IsMember(member[u])
        /\ \A v \in Users \ {u} : member'[v] = member[v]
        /\ \A i \in Invites : invite'[i].status = invite[i].status
    BY <1>0, <1>12, <2>1, JoinEffect
  <2>3. OwnersStay
    BY <2>2 DEF OwnersStay, IsMember
  <2> QED
    BY <1>3, <1>8, <2>2, <2>3
<1>13. ASSUME NEW w \in Workers, BindSave(w) \/ VerifySave(w) \/ ClearBindingSave(w), ~Refuse(w)
       PROVE  GrantInv' /\ GrantedByOwner
  <2>1. PICK u : u = IF BindSave(w) THEN req[w].user ELSE req[w].target
    OBVIOUS
  <2>2. /\ Answered(w) /\ u \in Users /\ invite' = invite
        /\ \A v \in Users \ {u} : member'[v] = member[v]
        /\ member'[u].role = member[u].role
    BY <1>0, <1>13, <2>1, BindEffect, VerifyEffect, ClearEffect
  <2>3. OwnersStay
    BY <2>2 DEF OwnersStay
  <2> QED
    BY <1>3, <1>8, <2>2, <2>3
<1>14. ASSUME NEW w \in Workers, CreateSave(w) \/ RevokeSave(w) \/ ReviewSave(w)
       PROVE  GrantInv' /\ GrantedByOwner
  <2>1. Answered(w) /\ member' = member
    BY <1>0, <1>14, InviteSaveEffect
  <2>2. GrantInv'
    BY <1>2, <1>8, <2>1
  <2>3. CASE CreateSave(w)
    <3>1. PICK i \in Invites : \A j \in Invites :
            invite'[j] = IF j = i THEN req[w].inv ELSE invite[j]
      BY <1>0, <2>3, CreatedInvite
    <3>2. req[w].user \in Users /\ req[w].user # NoUser /\ req[w].inv.by = req[w].user
      BY <1>0, <2>3, CreatedInvite, NullsAssumption DEF GrantOK, KeysKnown
    <3>3. req[w].inv.status = "active" /\ req[w].inv.role = "editor" =>
            member[req[w].user].role = "owner"
      BY <1>0, <2>3, CreatedInvite DEF GrantOK
    <3>4. GrantedByOwner
      BY <3>1, <3>2, <3>3 DEF GrantedByOwner
    <3> QED
      BY <2>2, <3>4
  <2>4. CASE RevokeSave(w)
    BY <1>0, <1>3, <2>2, <2>4, RevokedInvite
  <2>5. CASE ReviewSave(w)
    <3>1. PICK i : i = req[w].invite
      OBVIOUS
    <3>2. /\ i \in Invites /\ req[w].step = "ready"
          /\ \A j \in Invites \ {i} : invite'[j] = invite[j]
      BY <2>5, <3>1, ReviewedInvite
    <3>3. CASE /\ req[w].kind = "approve"
               /\ invite'[i].approvedBy = req[w].user /\ invite'[i].role = req[w].inv.role
      <4>1. req[w].user \in Users /\ req[w].user # NoUser
        BY <1>0, <3>3, NullsAssumption DEF KeysKnown
      <4>2. req[w].inv.role = "editor" => member[req[w].user].role = "owner"
        BY <1>0, <3>2, <3>3 DEF GrantOK
      <4>3. GrantedByOwner
        BY <3>2, <3>3, <4>1, <4>2 DEF GrantedByOwner
      <4> QED
        BY <2>2, <4>3
    <3>4. CASE invite'[i].status = "rejected" \/ invite' = invite
      BY <2>2, <3>2, <3>4 DEF GrantedByOwner
    <3> QED
      BY <2>5, <3>1, <3>3, <3>4, ReviewedInvite
  <2> QED
    BY <1>14, <2>3, <2>4, <2>5
<1>15. ASSUME NEW w \in Workers, Serve(w) PROVE GrantInv' /\ GrantedByOwner
  BY <1>6, <1>7, <1>10, <1>11, <1>12, <1>13, <1>14, <1>15 DEF Serve, Reads, CreateBeyondBound
<1>16. ASSUME UNCHANGED <<member, req>>,
              \A i \in Invites : invite'[i].status = invite[i].status
       PROVE  GrantInv' /\ GrantedByOwner
  BY <1>0, <1>3, <1>16 DEF GrantInv, GrantOK
<1>17. ASSUME NEW i \in Invites, InviteExpires(i) PROVE GrantInv' /\ GrantedByOwner
  BY <1>0, <1>16, <1>17, ExpiredInvite DEF InviteExpires
<1>18. CASE (\E p \in Mortals : NodeChanges(p)) \/ UNCHANGED vars
  BY <1>16, <1>18 DEF NodeChanges, vars, db
<1> QED
  BY <1>4, <1>15, <1>17, <1>18 DEF Next

LEMMA InitGrantInv == Init => GrantInv
BY IdleTyped DEF Init, GrantInv, GrantOK

(***************************************************************************)
(* Only an owner hands out `editor` (invite_policy.py): with any number of *)
(* workers, an invite that grants it becomes redeemable by the hand of     *)
(* somebody who is an owner at that moment, unless the request that mints  *)
(* or approves it overlaps with a change of roles.                         *)
(***************************************************************************)
THEOREM EditorsFromOwners == Spec /\ []Apart(Granters, RoleKinds) => EditorInvitesFromOwner
<1>1. RosterInv /\ Apart(Granters, RoleKinds) /\ GrantInv /\ [Next]_vars =>
        /\ GrantInv'
        /\ [\A i \in Invites :
              /\ invite[i].status # "active"
              /\ invite'[i].status = "active"
              /\ invite'[i].role = "editor"
              => \E u \in {invite'[i].by, invite'[i].approvedBy} \ {NoUser} :
                   member[u].role = "owner"]_vars
  BY NextGrantInv DEF GrantedByOwner
<1> QED
  BY <1>1, InitGrantInv, RosterInvariance, PTL DEF Spec, EditorInvitesFromOwner
==============================================================================

-------------------------- MODULE MCClanMembership --------------------------
(***************************************************************************)
(* Small clans for TLC: three users, two nodes (p2 a child of p1).         *)
(***************************************************************************)
EXTENDS ClanMembership, TLC

CONSTANTS u1, u2, u3, p1, p2

Row(role, p, verified, scope) ==
  [role |-> role, person |-> p, verified |-> verified, scope |-> scope, row |-> 0]

Plain(role) == Row(role, NoPerson, FALSE, NoPerson)

(* An owner, a branch editor who has claimed the child, an outsider.       *)
OneOwner == u1 :> Plain("owner") @@ u2 :> Row("editor", NoPerson, FALSE, p1) @@ u3 :> NoRow
(* Two owners, and a viewer whose claim is verified.                       *)
TwoOwners == u1 :> Plain("owner") @@ u2 :> Plain("owner") @@ u3 :> Row("viewer", p1, TRUE, NoPerson)
(* An owner, a manager, and a viewer with a claim nobody has looked at.    *)
WithManager == u1 :> Plain("owner") @@ u2 :> Plain("manager") @@ u3 :> Row("viewer", p1, FALSE, NoPerson)

SequentialRosters == {OneOwner, TwoOwners, WithManager}
(* An owner alone with two outsiders; an owner and a manager with one.     *)
InviteRosters == {u1 :> Plain("owner") @@ u2 :> NoRow @@ u3 :> NoRow,
                  u1 :> Plain("owner") @@ u2 :> Plain("manager") @@ u3 :> NoRow}
OwnerRosters == {TwoOwners}
ClaimRosters == {WithManager}

ParentAndChild == p1 :> {p1, p2} @@ p2 :> {p2}

NoTree == [p \in {} |-> {}]

=============================================================================

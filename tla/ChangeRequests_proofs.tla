-------------------------- MODULE ChangeRequests_proofs --------------------------
(***************************************************************************)
(* The review queue keeps its promise for any number of proposals,         *)
(* reviewers, users, targets and edits: the endpoints and the expiry job   *)
(* implement Proposals, and an update reaches only what its proposer saw.  *)
(*                                                                         *)
(* The row lock is what the argument rests on.  While a worker approves a  *)
(* proposal, its row is pending, it is the row that worker read, and no    *)
(* other worker approves it (LockHeld): so the status that ApproveSave     *)
(* overwrites is "pending", although reviewers, proposer, leaving members  *)
(* and cron go on in the meantime.                                         *)
(***************************************************************************)
EXTENDS ChangeRequests, TLAPS

Statuses ==
  {"none", "pending", "approved", "rejected", "withdrawn", "expired", "stale"}
Rows == [status : Statuses, action : AllActions, target : Targets \cup {NoTarget},
         base : Nat \cup {NoVersion}, proposer : Users \cup {NoUser}, aged : BOOLEAN]
Works == [at : {"idle", "submit", "approve"}, c : Proposed \cup {NoProposal}, row : Rows,
          override : BOOLEAN]

TypeOK ==
  /\ proposal \in [Proposed -> Rows]
  /\ target \in [Targets -> [live : BOOLEAN, version : Nat]]
  /\ member \subseteq Users
  /\ work \in [Workers -> Works]
  /\ due \subseteq Proposed
  /\ applied \in [Proposed -> Nat]

SubmitsPending == \A w \in Workers : work[w].at = "submit" => work[w].row.status = "pending"

LockHeld ==
  /\ \A w \in Workers : work[w].at = "approve" =>
       /\ work[w].c \in Proposed
       /\ Pending(work[w].c)
       /\ work[w].row.action = proposal[work[w].c].action
       /\ work[w].row.target = proposal[work[w].c].target
       /\ work[w].row.base = proposal[work[w].c].base
  /\ \A v, w \in Workers :
       work[v].at = "approve" /\ work[w].at = "approve" /\ work[v].c = work[w].c => v = w

(* The target of every proposal there is, other than a create, exists.     *)
Targeted(row) == row.status # "none" /\ row.action # "create" => row.target \in Targets
TargetsNamed ==
  /\ \A c \in Proposed : Targeted(proposal[c])
  /\ \A w \in Workers : work[w].at # "idle" => Targeted(work[w].row)

AppliedWhenApproved ==
  \A c \in Proposed : applied[c] = IF proposal[c].status = "approved" THEN 1 ELSE 0

IInv == TypeOK /\ SubmitsPending /\ LockHeld /\ TargetsNamed /\ AppliedWhenApproved

LEMMA InitIInv == Init => IInv
<1> SUFFICES ASSUME Init PROVE IInv
  OBVIOUS
<1> USE ChangeRequestsAssumption DEF Init
<1>1. Unmade \in Rows
  BY DEF Unmade, Rows, Statuses, AllActions
<1>2. TypeOK
  BY <1>1 DEF TypeOK, Idle, Works
<1>3. SubmitsPending /\ LockHeld /\ TargetsNamed /\ AppliedWhenApproved
  BY DEF SubmitsPending, LockHeld, TargetsNamed, Targeted, AppliedWhenApproved, Idle, Unmade
<1> QED
  BY <1>2, <1>3 DEF IInv

LEMMA IdleIsWork == Idle \in Works
<1>1. Unmade \in Rows
  BY DEF Unmade, Rows, Statuses, AllActions
<1> QED
  BY <1>1 DEF Idle, Works

(* A step that changes no proposal but ends, at most, the work of one      *)
(* worker, whatever happens to targets, members and the list of the job.   *)
LEMMA EndIInv ==
  ASSUME IInv, proposal' = proposal, applied' = applied,
         work' = work \/ \E w \in Workers : work' = [work EXCEPT ![w] = Idle],
         target' \in [Targets -> [live : BOOLEAN, version : Nat]],
         member' \subseteq Users, due' \subseteq Proposed
  PROVE  IInv'
<1> USE DEF IInv
<1>1. \A w \in Workers : work'[w] = work[w] \/ work'[w] = Idle
  BY DEF TypeOK
<1>2. TypeOK'
  BY IdleIsWork DEF TypeOK
<1>3. SubmitsPending'
  BY <1>1 DEF SubmitsPending, Idle
<1>4. LockHeld'
  BY <1>1 DEF LockHeld, Pending, Idle
<1>5. TargetsNamed'
  BY <1>1 DEF TargetsNamed, Targeted, Idle
<1>6. AppliedWhenApproved'
  BY DEF AppliedWhenApproved
<1> QED
  BY <1>2, <1>3, <1>4, <1>5, <1>6

(* A step that closes or ages pending proposals that nobody is approving,  *)
(* and writes nothing but them.                                            *)
LEMMA CloseIInv ==
  ASSUME IInv, NEW S \in SUBSET Proposed,
         \A c \in S : Pending(c) /\ ~Locked(c),
         proposal' \in [Proposed -> Rows],
         \A c \in Proposed \ S : proposal'[c] = proposal[c],
         \A c \in S : /\ proposal'[c].status \notin {"none", "approved"}
                      /\ proposal'[c].action = proposal[c].action
                      /\ proposal'[c].target = proposal[c].target
                      /\ proposal'[c].base = proposal[c].base,
         UNCHANGED <<target, work, applied>>,
         member' \subseteq Users, due' \subseteq Proposed
  PROVE  IInv'
<1> USE DEF IInv
<1>1. TypeOK'
  BY DEF TypeOK
<1>2. SubmitsPending'
  BY DEF SubmitsPending
<1>3. \A w \in Workers : work[w].at = "approve" => proposal'[work[w].c] = proposal[work[w].c]
  BY DEF LockHeld, Locked
<1>4. LockHeld'
  BY <1>3 DEF LockHeld, Pending
<1>5. TargetsNamed'
  BY DEF TargetsNamed, Targeted, Pending
<1>6. AppliedWhenApproved'
  BY DEF AppliedWhenApproved, Pending
<1> QED
  BY <1>1, <1>2, <1>4, <1>5, <1>6

LEMMA ClosedRow ==
  ASSUME TypeOK, NEW c \in Proposed, NEW how \in Statuses
  PROVE  /\ Closed(c, how) \in [Proposed -> Rows]
         /\ Closed(c, how)[c] = [proposal[c] EXCEPT !.status = how]
         /\ Closed(c, how)[c].status = how
         /\ Closed(c, how)[c].action = proposal[c].action
         /\ Closed(c, how)[c].target = proposal[c].target
         /\ Closed(c, how)[c].base = proposal[c].base
         /\ \A d \in Proposed \ {c} : Closed(c, how)[d] = proposal[d]
BY DEF TypeOK, Closed, Rows

LEMMA ClosingIInv ==
  ASSUME IInv, NEW c \in Proposed, NEW how \in Statuses, how \notin {"none", "approved"},
         Reviewable(c), proposal' = Closed(c, how), UNCHANGED <<target, work, applied>>,
         member' \subseteq Users, due' \subseteq Proposed
  PROVE  IInv'
<1>1. TypeOK
  BY DEF IInv
<1> DEFINE S == {c}
<1>2. \A d \in S : Pending(d) /\ ~Locked(d)
  BY DEF Reviewable
<1>3. /\ proposal' \in [Proposed -> Rows]
      /\ proposal'[c].status = how
      /\ proposal'[c].action = proposal[c].action
      /\ proposal'[c].target = proposal[c].target
      /\ proposal'[c].base = proposal[c].base
      /\ \A d \in Proposed \ S : proposal'[d] = proposal[d]
  BY <1>1, ClosedRow, ZenonT(60)
<1>4. \A d \in S : /\ proposal'[d].status \notin {"none", "approved"}
                   /\ proposal'[d].action = proposal[d].action
                   /\ proposal'[d].target = proposal[d].target
                   /\ proposal'[d].base = proposal[d].base
  BY <1>3
<1>5. S \in SUBSET Proposed
  OBVIOUS
<1> HIDE DEF S
<1> QED
  BY <1>2, <1>3, <1>4, <1>5, CloseIInv

(* A worker takes up a submission or an approval.                          *)
LEMMA TakeIInv ==
  ASSUME IInv, NEW w \in Workers, NEW q \in Works, work[w] = Idle,
         work' = [work EXCEPT ![w] = q],
         q.at = "submit" => q.row.status = "pending",
         q.at = "approve" => q.c \in Proposed /\ Reviewable(q.c) /\ q.row = proposal[q.c],
         Targeted(q.row),
         UNCHANGED <<proposal, target, member, due, applied>>
  PROVE  IInv'
<1> USE DEF IInv
<1>1. TypeOK'
  BY DEF TypeOK
<1>2. SubmitsPending'
  BY DEF SubmitsPending, TypeOK
<1>3. LockHeld'
  BY DEF LockHeld, Pending, Reviewable, Locked, TypeOK
<1>4. TargetsNamed'
  BY DEF TargetsNamed, Targeted, TypeOK
<1>5. AppliedWhenApproved'
  BY DEF AppliedWhenApproved
<1> QED
  BY <1>1, <1>2, <1>3, <1>4, <1>5

LEMMA SubmitReadIInv == ASSUME IInv, NEW w \in Workers, SubmitRead(w) PROVE IInv'
<1>1. PICK u \in member, action \in Actions, t \in Targets \cup {NoTarget} :
        /\ (action = "create") <=> (t = NoTarget)
        /\ work' = [work EXCEPT ![w] =
             [at |-> "submit", c |-> NoProposal, override |-> FALSE,
              row |-> [status |-> "pending", action |-> action, target |-> t, proposer |-> u,
                       base |-> IF t \in Persons THEN target[t].version ELSE NoVersion,
                       aged |-> FALSE]]]
  BY DEF SubmitRead
<1> DEFINE row == [status |-> "pending", action |-> action, target |-> t, proposer |-> u,
                   base |-> IF t \in Persons THEN target[t].version ELSE NoVersion,
                   aged |-> FALSE]
           q == [at |-> "submit", c |-> NoProposal, override |-> FALSE, row |-> row]
<1>2. row \in Rows
  <2>1. (IF t \in Persons THEN target[t].version ELSE NoVersion) \in Nat \cup {NoVersion}
    BY DEF IInv, TypeOK, Targets
  <2>2. u \in Users /\ action \in AllActions
    BY ChangeRequestsAssumption DEF IInv, TypeOK
  <2> QED
    BY <2>1, <2>2 DEF Rows, Statuses
<1>3. q \in Works
  BY <1>2 DEF Works
<1>4. Targeted(q.row)
  BY <1>1, ChangeRequestsAssumption DEF Targeted
<1>5. /\ work[w] = Idle /\ UNCHANGED <<proposal, target, member, due, applied>>
      /\ q.at = "submit" /\ q.row.status = "pending"
      /\ work' = [work EXCEPT ![w] = q]
  BY <1>1 DEF SubmitRead
<1> HIDE DEF q, row
<1> QED
  BY <1>3, <1>4, <1>5, TakeIInv

LEMMA ApproveReadIInv == ASSUME IInv, NEW w \in Workers, ApproveRead(w) PROVE IInv'
<1>1. PICK c \in Proposed, override \in BOOLEAN :
        /\ Reviewable(c)
        /\ work' = [work EXCEPT ![w] = [at |-> "approve", c |-> c, row |-> proposal[c],
                                        override |-> override]]
  BY DEF ApproveRead
<1> DEFINE q == [at |-> "approve", c |-> c, row |-> proposal[c], override |-> override]
<1>2. q \in Works
  BY DEF IInv, TypeOK, Works
<1>3. Targeted(q.row)
  BY DEF IInv, TargetsNamed
<1>4. /\ work[w] = Idle /\ UNCHANGED <<proposal, target, member, due, applied>>
      /\ q.at = "approve" /\ q.c = c /\ q.row = proposal[c]
      /\ work' = [work EXCEPT ![w] = q]
  BY <1>1 DEF ApproveRead
<1> HIDE DEF q
<1> QED
  BY <1>1, <1>2, <1>3, <1>4, TakeIInv

LEMMA SubmitSaveIInv == ASSUME IInv, NEW w \in Workers, SubmitSave(w) PROVE IInv'
<1> USE DEF IInv
<1>1. PICK c \in Proposed : proposal[c] = Unmade /\ proposal' = [proposal EXCEPT ![c] = work[w].row]
  BY DEF SubmitSave
<1>2. /\ work[w].at = "submit" /\ work' = [work EXCEPT ![w] = Idle]
      /\ UNCHANGED <<target, member, due, applied>>
  BY DEF SubmitSave
<1>3. TypeOK'
  BY <1>1, <1>2, IdleIsWork DEF TypeOK, Works
<1>4. SubmitsPending'
  BY <1>2 DEF SubmitsPending, TypeOK, Idle
<1>5. LockHeld'
  <2>1. \A v \in Workers : work[v].at = "approve" => work[v].c # c
    BY <1>1 DEF LockHeld, Pending, Unmade
  <2>2. \A v \in Workers : work'[v].at = "approve" => v # w /\ work'[v] = work[v]
    BY <1>2 DEF TypeOK, Idle
  <2> QED
    BY <1>1, <2>1, <2>2 DEF LockHeld, Pending, TypeOK
<1>6. TargetsNamed'
  BY <1>1, <1>2 DEF TargetsNamed, Targeted, TypeOK, Idle
<1>7. AppliedWhenApproved'
  BY <1>1, <1>2 DEF AppliedWhenApproved, SubmitsPending, TypeOK, Unmade
<1> QED
  BY <1>3, <1>4, <1>5, <1>6, <1>7

LEMMA ApproveSaveIInv == ASSUME IInv, NEW w \in Workers, ApproveSave(w) PROVE IInv'
<1> USE DEF IInv
<1> DEFINE c == work[w].c
           row == work[w].row
<1>1. /\ work[w].at = "approve" /\ c \in Proposed /\ Pending(c)
      /\ row.action = proposal[c].action /\ row.target = proposal[c].target
  BY DEF ApproveSave, LockHeld
<1>2. /\ target' = AppliedTo(row)
      /\ applied' = [applied EXCEPT ![c] = @ + 1]
      /\ proposal' = Closed(c, "approved")
      /\ work' = [work EXCEPT ![w] = Idle]
      /\ UNCHANGED <<member, due>>
  BY DEF ApproveSave, Released
<1>3. row.action # "create" => row.target \in Targets
  BY <1>1 DEF TargetsNamed, Targeted, Pending
<1>4. target' \in [Targets -> [live : BOOLEAN, version : Nat]]
  BY <1>2, <1>3 DEF AppliedTo, TypeOK
<1>5. /\ proposal' \in [Proposed -> Rows]
      /\ proposal'[c].status = "approved"
      /\ proposal'[c].action = proposal[c].action
      /\ proposal'[c].target = proposal[c].target
      /\ \A d \in Proposed \ {c} : proposal'[d] = proposal[d]
  BY <1>1, <1>2, ClosedRow DEF Statuses
<1>6. TypeOK'
  <2>1. work' \in [Workers -> Works]
    BY <1>2, IdleIsWork DEF TypeOK
  <2>2. applied' \in [Proposed -> Nat]
    BY <1>1, <1>2 DEF TypeOK
  <2> QED
    BY <1>2, <1>4, <1>5, <2>1, <2>2 DEF TypeOK
<1>7. SubmitsPending'
  BY <1>2 DEF SubmitsPending, TypeOK, Idle
<1>8. \A v \in Workers : work'[v].at = "approve" => v # w /\ work'[v] = work[v] /\ work[v].c # c
  BY <1>1, <1>2 DEF LockHeld, TypeOK, Idle
<1>9. LockHeld'
  BY <1>5, <1>8 DEF LockHeld, Pending
<1>10. TargetsNamed'
  <2>1. \A d \in Proposed : Targeted(proposal[d])'
    BY <1>1, <1>5 DEF TargetsNamed, Targeted, Pending
  <2>2. \A v \in Workers : work'[v].at # "idle" => Targeted(work[v].row)'
    BY <1>2 DEF TargetsNamed, Targeted, TypeOK, Idle
  <2> QED
    BY <2>1, <2>2 DEF TargetsNamed
<1>11. AppliedWhenApproved'
  BY <1>1, <1>2, <1>5 DEF AppliedWhenApproved, TypeOK, Pending
<1> QED
  BY <1>6, <1>7, <1>9, <1>10, <1>11

LEMMA GrowsOldIInv == ASSUME IInv, NEW c \in Proposed, GrowsOld(c) PROVE IInv'
<1> USE DEF IInv, GrowsOld
<1>1. \A d \in Proposed : /\ proposal'[d].status = proposal[d].status
                          /\ proposal'[d].action = proposal[d].action
                          /\ proposal'[d].target = proposal[d].target
                          /\ proposal'[d].base = proposal[d].base
  BY DEF TypeOK, Rows
<1>2. TypeOK'
  BY DEF TypeOK, Rows
<1>3. SubmitsPending'
  BY DEF SubmitsPending
<1>4. LockHeld'
  BY <1>1 DEF LockHeld, Pending
<1>5. TargetsNamed'
  BY <1>1 DEF TargetsNamed, Targeted
<1>6. AppliedWhenApproved'
  BY <1>1 DEF AppliedWhenApproved
<1> QED
  BY <1>2, <1>3, <1>4, <1>5, <1>6

LEMMA LeaveIInv == ASSUME IInv, NEW u \in Users, Leave(u) PROVE IInv'
<1>1. PendingOf(u) \in SUBSET Proposed
  BY DEF PendingOf
<1>2. \A c \in PendingOf(u) : Pending(c) /\ ~Locked(c)
  BY DEF PendingOf, Leave
<1>3. /\ proposal' \in [Proposed -> Rows]
      /\ \A c \in Proposed \ PendingOf(u) : proposal'[c] = proposal[c]
      /\ \A c \in PendingOf(u) : /\ proposal'[c].status = "withdrawn"
                                 /\ proposal'[c].action = proposal[c].action
                                 /\ proposal'[c].target = proposal[c].target
                                 /\ proposal'[c].base = proposal[c].base
  <2>1. \A c \in Proposed : proposal[c] \in Rows
    BY DEF IInv, TypeOK
  <2>2. \A c \in Proposed : [proposal[c] EXCEPT !.status = "withdrawn"] \in Rows
    BY <2>1 DEF Rows, Statuses
  <2>3. proposal' = [c \in Proposed |-> IF c \in PendingOf(u)
                                        THEN [proposal[c] EXCEPT !.status = "withdrawn"]
                                        ELSE proposal[c]]
    BY DEF Leave
  <2> QED
    BY <1>1, <2>1, <2>2, <2>3 DEF Rows
<1>4. UNCHANGED <<target, work, applied>> /\ member' \subseteq Users /\ due' \subseteq Proposed
  BY DEF Leave, IInv, TypeOK
<1> QED
  BY <1>1, <1>2, <1>3, <1>4, CloseIInv

LEMMA ExpireOneIInv == ASSUME IInv, NEW c \in Proposed, ExpireOne(c) PROVE IInv'
<1>1. /\ UNCHANGED <<target, work, applied>> /\ member' \subseteq Users /\ due' \subseteq Proposed
      /\ target' \in [Targets -> [live : BOOLEAN, version : Nat]]
  BY DEF ExpireOne, IInv, TypeOK
<1>2. CASE StillExpires(c)
  <2>1. Reviewable(c) /\ proposal' = Closed(c, "expired") /\ "expired" \in Statuses
    BY <1>2 DEF ExpireOne, Reviewable, StillExpires, Statuses
  <2> QED
    BY <1>1, <2>1, ClosingIInv
<1>3. CASE ~StillExpires(c)
  BY <1>1, <1>3, EndIInv DEF ExpireOne
<1> QED
  BY <1>2, <1>3

LEMMA EditIInv == ASSUME IInv, NEW t \in Targets, Edit(t) PROVE IInv'
<1>1. target' \in [Targets -> [live : BOOLEAN, version : Nat]]
  BY DEF Edit, IInv, TypeOK
<1>2. /\ proposal' = proposal /\ applied' = applied /\ work' = work
      /\ member' \subseteq Users /\ due' \subseteq Proposed
  BY DEF Edit, IInv, TypeOK
<1> QED
  BY <1>1, <1>2, EndIInv

LEMMA WorkerIInv == ASSUME IInv, NEW w \in Workers, Begin(w) \/ Continue(w) PROVE IInv'
<1>0. /\ target \in [Targets -> [live : BOOLEAN, version : Nat]]
      /\ member \subseteq Users /\ due \subseteq Proposed
      /\ {"stale", "rejected", "withdrawn"} \subseteq Statuses
  BY DEF IInv, TypeOK, Statuses
<1>1. CASE SubmitRead(w)
  BY <1>1, SubmitReadIInv
<1>2. CASE ApproveRead(w)
  BY <1>2, ApproveReadIInv
<1>3. CASE ApproveGone(w)
  BY <1>0, <1>3, ClosingIInv DEF ApproveGone
<1>4. CASE Reject(w)
  BY <1>0, <1>4, ClosingIInv DEF Reject
<1>5. CASE Withdraw(w)
  BY <1>0, <1>5, ClosingIInv DEF Withdraw
<1>6. CASE SubmitSave(w)
  BY <1>6, SubmitSaveIInv
<1>7. CASE SubmitBeyondBound(w)
  BY <1>0, <1>7, EndIInv DEF SubmitBeyondBound
<1>8. CASE ApproveSave(w)
  BY <1>8, ApproveSaveIInv
<1>9. CASE ApproveFails(w)
  BY <1>0, <1>9, EndIInv DEF ApproveFails, Released
<1> QED
  BY <1>1, <1>2, <1>3, <1>4, <1>5, <1>6, <1>7, <1>8, <1>9 DEF Begin, Continue

LEMMA NextIInv == IInv /\ [Next]_vars => IInv'
<1> SUFFICES ASSUME IInv, [Next]_vars PROVE IInv'
  OBVIOUS
<1>1. CASE \E w \in Workers : Begin(w) \/ Continue(w)
  BY <1>1, WorkerIInv
<1>2. CASE \E u \in Users : Leave(u)
  BY <1>2, LeaveIInv
<1>3. CASE \E t \in Targets : Edit(t)
  BY <1>3, EditIInv
<1>4. CASE \E c \in Proposed : GrowsOld(c) \/ ExpireOne(c)
  BY <1>4, GrowsOldIInv, ExpireOneIInv
<1>5. CASE ExpireRead
  BY <1>5, EndIInv DEF ExpireRead, IInv, TypeOK
<1>6. CASE UNCHANGED vars
  BY <1>6, EndIInv DEF vars, IInv, TypeOK
<1> QED
  BY <1>1, <1>2, <1>3, <1>4, <1>5, <1>6 DEF Next

(***************************************************************************)
(* Invariance: whoever approves a proposal holds its row, and a change is  *)
(* made exactly when its proposal is approved.                             *)
(***************************************************************************)
THEOREM Invariance == Spec => []IInv
BY InitIInv, NextIInv, PTL DEF Spec

-----------------------------------------------------------------------------
(* The status column and `applied`, step by step, against Proposals.       *)

LEMMA ClosingRefines ==
  ASSUME TypeOK, NEW S \in SUBSET Proposed, NEW how \in Promised!Refusals,
         \A c \in S : Pending(c),
         \A c \in Proposed : proposal'[c].status = IF c \in S THEN how ELSE proposal[c].status,
         applied' = applied
  PROVE  Promised!Next
<1>1. Promised!Close(S, how)
  BY DEF Promised!Close, Pending
<1> QED
  BY <1>1 DEF Promised!Next

LEMMA ClosedRefines ==
  ASSUME IInv, NEW c \in Proposed, NEW how \in Promised!Refusals,
         Reviewable(c), proposal' = Closed(c, how), applied' = applied
  PROVE  Promised!Next
<1> DEFINE S == {c}
<1>1. TypeOK /\ how \in Statuses
  BY DEF IInv, Promised!Refusals, Statuses
<1>2. \A d \in Proposed : proposal'[d].status = IF d \in S THEN how ELSE proposal[d].status
  <2>1. proposal'[c].status = how /\ \A d \in Proposed \ {c} : proposal'[d] = proposal[d]
    BY <1>1, ClosedRow
  <2> QED
    BY <2>1
<1>3. S \in SUBSET Proposed /\ \A d \in S : Pending(d)
  BY DEF Reviewable
<1> HIDE DEF S
<1> QED
  BY <1>1, <1>2, <1>3, ClosingRefines

LEMMA SubmitRefines ==
  ASSUME IInv, NEW w \in Workers, SubmitSave(w)
  PROVE  Promised!Next
<1>1. PICK c \in Proposed : proposal[c] = Unmade /\ proposal' = [proposal EXCEPT ![c] = work[w].row]
  BY DEF SubmitSave
<1>2. work[w].row.status = "pending" /\ applied' = applied
  BY DEF SubmitSave, IInv, SubmitsPending
<1>3. \A d \in Proposed : proposal'[d].status = IF d = c THEN "pending" ELSE proposal[d].status
  BY <1>1, <1>2 DEF IInv, TypeOK
<1>4. proposal[c].status = "none"
  BY <1>1 DEF Unmade
<1>5. Promised!Submit(c)
  BY <1>2, <1>3, <1>4 DEF Promised!Submit
<1> QED
  BY <1>5 DEF Promised!Next

LEMMA ApproveRefines ==
  ASSUME IInv, NEW w \in Workers, ApproveSave(w)
  PROVE  Promised!Next
<1>1. PICK c \in Proposed :
        c = work[w].c /\ proposal[c].status = "pending" /\ applied[c] = 0
  BY DEF IInv, ApproveSave, LockHeld, Pending, AppliedWhenApproved
<1>2. applied' = [applied EXCEPT ![c] = 1] /\ proposal' = Closed(c, "approved")
  BY <1>1 DEF ApproveSave, IInv, TypeOK
<1>3. Promised!Approve(c)
  BY <1>1, <1>2 DEF Promised!Approve, Closed, IInv, TypeOK, Rows
<1> QED
  BY <1>3 DEF Promised!Next

LEMMA StepRefines == IInv /\ [Next]_vars => [Promised!Next]_(Promised!vars)
<1> SUFFICES ASSUME IInv, [Next]_vars PROVE Promised!Next \/ UNCHANGED Promised!vars
  OBVIOUS
<1>0. {"stale", "rejected", "withdrawn", "expired"} \subseteq Promised!Refusals
  BY DEF Promised!Refusals
<1>1. ASSUME proposal' = proposal, applied' = applied PROVE UNCHANGED Promised!vars
  BY <1>1 DEF Promised!vars
<1>2. ASSUME NEW w \in Workers, Begin(w) \/ Continue(w)
      PROVE  Promised!Next \/ UNCHANGED Promised!vars
  <2>1. CASE SubmitRead(w) \/ ApproveRead(w) \/ SubmitBeyondBound(w) \/ ApproveFails(w)
    BY <1>1, <2>1 DEF SubmitRead, ApproveRead, SubmitBeyondBound, ApproveFails
  <2>2. CASE ApproveGone(w) \/ Reject(w) \/ Withdraw(w)
    BY <1>0, <2>2, ClosedRefines DEF ApproveGone, Reject, Withdraw
  <2>3. CASE SubmitSave(w)
    BY <2>3, SubmitRefines
  <2>4. CASE ApproveSave(w)
    BY <2>4, ApproveRefines
  <2> QED
    BY <1>2, <2>1, <2>2, <2>3, <2>4 DEF Begin, Continue
<1>3. ASSUME NEW u \in Users, Leave(u) PROVE Promised!Next
  <2>1. PendingOf(u) \in SUBSET Proposed /\ \A c \in PendingOf(u) : Pending(c)
    BY DEF PendingOf
  <2>2. \A c \in Proposed :
          proposal'[c].status = IF c \in PendingOf(u) THEN "withdrawn" ELSE proposal[c].status
    BY <1>3 DEF Leave, IInv, TypeOK, Rows
  <2> QED
    BY <1>0, <1>3, <2>1, <2>2, ClosingRefines DEF Leave, IInv
<1>4. CASE \E t \in Targets : Edit(t)
  BY <1>1, <1>4 DEF Edit
<1>5. ASSUME NEW c \in Proposed, GrowsOld(c) PROVE UNCHANGED Promised!vars
  <2>1. \A d \in Proposed : proposal'[d].status = proposal[d].status
    BY <1>5 DEF GrowsOld, IInv, TypeOK, Rows
  <2> QED
    BY <1>5, <2>1 DEF GrowsOld, Promised!vars
<1>6. ASSUME NEW c \in Proposed, ExpireOne(c) PROVE Promised!Next \/ UNCHANGED Promised!vars
  <2>1. CASE StillExpires(c)
    BY <1>0, <1>6, <2>1, ClosedRefines DEF ExpireOne, Reviewable, StillExpires
  <2>2. CASE ~StillExpires(c)
    BY <1>1, <1>6, <2>2 DEF ExpireOne
  <2> QED
    BY <2>1, <2>2
<1>7. CASE ExpireRead \/ UNCHANGED vars
  BY <1>1, <1>7 DEF ExpireRead, vars
<1> QED
  BY <1>2, <1>3, <1>4, <1>5, <1>6, <1>7 DEF Next

(***************************************************************************)
(* The queue keeps the promise of Proposals: every proposal is decided     *)
(* once, and its change made once, exactly when it is approved, whoever    *)
(* acts on it at the same time (change_request_review.py,                  *)
(* expire_change_requests.py).                                             *)
(***************************************************************************)
THEOREM QueueKeepsPromise == Spec => ImplementsProposals
<1>1. Init => Promised!Init
  BY DEF Init, Promised!Init, Unmade
<1> QED
  BY <1>1, Invariance, StepRefines, PTL DEF ImplementsProposals, Promised!Spec, Spec

(***************************************************************************)
(* An approved update without an override is made to the very version its  *)
(* proposer saw: lock_and_bump compares it under the row lock.             *)
(***************************************************************************)
THEOREM UpdatesAreFresh == Spec => UpdatedOnlyIfFresh
<1>1. ASSUME IInv, [Next]_vars
      PROVE  \A w \in Workers : work[w].row.action = "update" => Fresh(w)
  <2> SUFFICES ASSUME NEW w \in Workers, work[w].row.action = "update", Approves(w),
                      ~work[w].override, work[w].row.base # NoVersion
               PROVE  target[work[w].row.target].version = work[w].row.base
    BY DEF Fresh
  <2>1. applied' # applied /\ work'[w] # work[w]
    BY DEF Approves
  <2>2. PICK v \in Workers : ApproveSave(v)
    BY <1>1, <2>1 DEF Next, vars, Begin, Continue, SubmitRead, ApproveGone, ApproveRead, Reject,
       Withdraw, SubmitSave, SubmitBeyondBound, ApproveFails, Leave, Edit, GrowsOld, ExpireOne,
       ExpireRead
  <2>3. v = w
    BY <1>1, <2>1, <2>2 DEF ApproveSave, Released, IInv, TypeOK
  <2> QED
    BY <2>2, <2>3 DEF ApproveSave, VersionHolds
<1> QED
  BY <1>1, Invariance, PTL DEF UpdatedOnlyIfFresh, Spec
==============================================================================

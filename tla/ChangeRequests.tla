----------------------------- MODULE ChangeRequests -----------------------------
(***************************************************************************)
(* The change requests (de xuat thay doi) of one clan: proposed by any     *)
(* member, applied to the tree only when a reviewer approves them.  One    *)
(* row of giapha_changerequest per proposal; their targets are rows of     *)
(* giapha_person and giapha_marriage, which other requests edit meanwhile. *)
(*                                                                         *)
(* Approve, reject and withdraw lock the proposal row (SELECT ... FOR      *)
(* UPDATE) and re-read it under the lock; only approve reads more (the     *)
(* target) before it writes, so it alone is split in two steps.  Submit    *)
(* reads the target and counts the open proposals before it inserts.       *)
(* The lock of proposal c is held by the worker whose work is approving c. *)
(***************************************************************************)
EXTENDS Naturals, FiniteSets

CONSTANTS
  Proposed,         \* the ids of the proposals that may be made
  Users, Workers,
  Persons,          \* targets with a version column
  Marriages,        \* targets without one
  NoTarget, NoVersion, NoUser, NoProposal,
  Actions,          \* the proposals clients of this instance send
  MaxPending,       \* MAX_PENDING_PER_PROPOSER
  MaxEdits          \* bound: writes of other requests to the targets

Targets == Persons \cup Marriages
AllActions == {"create", "update", "delete"}

Unmade == [status |-> "none", action |-> "create", target |-> NoTarget,
           base |-> NoVersion, proposer |-> NoUser, aged |-> FALSE]

ASSUME ChangeRequestsAssumption ==
  /\ Proposed \subseteq Nat
  /\ NoVersion \notin Nat
  /\ NoTarget \notin Targets
  /\ NoUser \notin Users
  /\ NoProposal \notin Proposed
  /\ Persons \cap Marriages = {}
  /\ Actions \subseteq AllActions
  /\ {MaxPending, MaxEdits} \subseteq Nat

VARIABLES
  proposal,   \* the rows of giapha_changerequest; aged: pending for 30 days
  target,     \* the rows the proposals are about
  member,     \* the users who are members of the clan
  work,       \* what each worker is serving
  due,        \* what the running expire_change_requests has still to expire
  applied,    \* how often the change of a proposal was made
  edits       \* bound: writes by other requests so far

vars == <<proposal, target, member, work, due, applied, edits>>

Idle == [at |-> "idle", c |-> NoProposal, row |-> Unmade, override |-> FALSE]

Init ==
  /\ proposal = [c \in Proposed |-> Unmade]
  /\ target = [t \in Targets |-> [live |-> TRUE, version |-> 1]]
  /\ member = Users
  /\ work = [w \in Workers |-> Idle]
  /\ due = {}
  /\ applied = [c \in Proposed |-> 0]
  /\ edits = 0

-------------------------------------------------------------------------------
Pending(c) == proposal[c].status = "pending"
PendingOf(u) == {c \in Proposed : Pending(c) /\ proposal[c].proposer = u}

Locked(c) == \E w \in Workers : work[w].at = "approve" /\ work[w].c = c

\* _locked_reviewable: pending, read under a row lock no other worker holds
Reviewable(c) == Pending(c) /\ ~Locked(c)

\* staleness
Gone(row) == row.action # "create" /\ ~target[row.target].live
Changed(row) == row.base # NoVersion /\ target[row.target].version # row.base

\* Mutant: the write trusts the unlocked staleness check.
StalenessTrusted(row, override) == TRUE
(* lock_and_bump with expected_version: the version is compared once more  *)
(* under the row lock, by a person update that is not an override          *)
VersionHolds(row, override) ==
  ~override /\ row.action = "update" /\ row.base # NoVersion
  => target[row.target].version = row.base

Closed(c, how) == [proposal EXCEPT ![c].status = how]

\* Mutant: a failed approval leaves its transaction, and the lock, open.
TransactionLeftOpen(w) == work
Released(w) == [work EXCEPT ![w] = Idle]

-------------------------------------------------------------------------------
(* POST /change-requests.  The target's version is the proposal's base;    *)
(* marriages have none.  The cap is counted before the insert.             *)

SubmitRead(w) ==
  /\ work[w] = Idle
  /\ \E u \in member, action \in Actions, t \in Targets \cup {NoTarget} :
       /\ Cardinality(PendingOf(u)) < MaxPending
       /\ (action = "create") <=> (t = NoTarget)
       /\ t # NoTarget => target[t].live
       /\ work' = [work EXCEPT ![w] =
            [at |-> "submit", c |-> NoProposal, override |-> FALSE,
             row |-> [status |-> "pending", action |-> action, target |-> t, proposer |-> u,
                      base |-> IF t \in Persons THEN target[t].version ELSE NoVersion,
                      aged |-> FALSE]]]
  /\ UNCHANGED <<proposal, target, member, due, applied, edits>>

SubmitSave(w) ==
  /\ work[w].at = "submit"
  /\ \E c \in Proposed :
       /\ proposal[c] = Unmade
       /\ \A d \in Proposed : d < c => proposal[d] # Unmade
       /\ proposal' = [proposal EXCEPT ![c] = work[w].row]
  /\ work' = [work EXCEPT ![w] = Idle]
  /\ UNCHANGED <<target, member, due, applied, edits>>

\* Bound: every proposal of this instance has been made.
SubmitBeyondBound(w) ==
  /\ work[w].at = "submit"
  /\ \A c \in Proposed : proposal[c] # Unmade
  /\ work' = [work EXCEPT ![w] = Idle]
  /\ UNCHANGED <<proposal, target, member, due, applied, edits>>

-------------------------------------------------------------------------------
(* POST /change-requests/{c}/approve.  A vanished target closes the        *)
(* proposal; an edited one is a 409 that changes nothing, unless the       *)
(* reviewer overrides it.                                                  *)

ApproveGone(w) ==
  /\ work[w] = Idle
  /\ \E c \in Proposed :
       /\ Reviewable(c)
       /\ Gone(proposal[c])
       /\ proposal' = Closed(c, "stale")
  /\ UNCHANGED <<target, member, work, due, applied, edits>>

ApproveRead(w) ==
  /\ work[w] = Idle
  /\ \E c \in Proposed, override \in BOOLEAN :
       /\ Reviewable(c)
       /\ ~Gone(proposal[c])
       /\ Changed(proposal[c]) => override
       /\ work' = [work EXCEPT ![w] = [at |-> "approve", c |-> c, row |-> proposal[c],
                                       override |-> override]]
  /\ UNCHANGED <<proposal, target, member, due, applied, edits>>

(* apply_change_request.  An update saves the whole row it read, live as   *)
(* it was; a person delete takes the version lock without comparing.       *)
AppliedTo(row) ==
  IF row.action = "create" THEN target
  ELSE [target EXCEPT ![row.target] =
          [live |-> row.action = "update",
           version |-> IF row.target \in Persons THEN @.version + 1 ELSE @.version]]

ApproveSave(w) ==
  LET c == work[w].c
      row == work[w].row
  IN /\ work[w].at = "approve"
     /\ VersionHolds(row, work[w].override)
     /\ target' = AppliedTo(row)
     /\ applied' = [applied EXCEPT ![c] = @ + 1]
     /\ proposal' = Closed(c, "approved")
     /\ work' = Released(w)
     /\ UNCHANGED <<member, due, edits>>

\* VersionConflict, or a rule of the write path refuses: it stays pending
ApproveFails(w) ==
  /\ work[w].at = "approve"
  /\ work' = Released(w)
  /\ UNCHANGED <<proposal, target, member, due, applied, edits>>

\* POST .../reject
Reject(w) ==
  /\ work[w] = Idle
  /\ \E c \in Proposed : Reviewable(c) /\ proposal' = Closed(c, "rejected")
  /\ UNCHANGED <<target, member, work, due, applied, edits>>

\* DELETE .../{c}, by the proposer
Withdraw(w) ==
  /\ work[w] = Idle
  /\ \E c \in Proposed :
       /\ Reviewable(c)
       /\ proposal[c].proposer \in member
       /\ proposal' = Closed(c, "withdrawn")
  /\ UNCHANGED <<target, member, work, due, applied, edits>>

-------------------------------------------------------------------------------
(* A member leaves or is removed: withdraw_pending_for is one UPDATE over  *)
(* their pending rows, which waits for the locks on them.                  *)
Leave(u) ==
  /\ u \in member
  /\ \A c \in PendingOf(u) : ~Locked(c)
  /\ member' = member \ {u}
  /\ proposal' = [c \in Proposed |-> IF c \in PendingOf(u)
                                     THEN [proposal[c] EXCEPT !.status = "withdrawn"]
                                     ELSE proposal[c]]
  /\ UNCHANGED <<target, work, due, applied, edits>>

(* Direct edits of a target by other requests (module PersonWrites): any   *)
(* write moves a person's version, a delete also makes the row go.         *)
Edit(t) ==
  /\ edits < MaxEdits
  /\ target[t].live
  /\ \E live \in BOOLEAN :
       target' = [target EXCEPT ![t] =
         [live |-> live, version |-> IF t \in Persons THEN @.version + 1 ELSE @.version]]
  /\ edits' = edits + 1
  /\ UNCHANGED <<proposal, member, work, due, applied>>

-------------------------------------------------------------------------------
(* The daily expire_change_requests: a list of the old pending proposals,  *)
(* then one guarded UPDATE per row, which waits for a lock on it.          *)

GrowsOld(c) ==
  /\ Pending(c) /\ ~proposal[c].aged
  /\ proposal' = [proposal EXCEPT ![c].aged = TRUE]
  /\ UNCHANGED <<target, member, work, due, applied, edits>>

ExpireRead ==
  /\ due = {}
  /\ due' = {c \in Proposed : Pending(c) /\ proposal[c].aged}
  /\ UNCHANGED <<proposal, target, member, work, applied, edits>>

\* Mutant: the UPDATE is not guarded by status='pending'.
ExpiresAnyway(c) == TRUE
StillExpires(c) == Pending(c)

ExpireOne(c) ==
  /\ c \in due
  /\ ~Locked(c)
  /\ proposal' = IF StillExpires(c) THEN Closed(c, "expired") ELSE proposal
  /\ due' = due \ {c}
  /\ UNCHANGED <<target, member, work, applied, edits>>

-------------------------------------------------------------------------------
Continue(w) == SubmitSave(w) \/ SubmitBeyondBound(w) \/ ApproveSave(w) \/ ApproveFails(w)
Begin(w) == SubmitRead(w) \/ ApproveGone(w) \/ ApproveRead(w) \/ Reject(w) \/ Withdraw(w)

Next ==
  \/ \E w \in Workers : Begin(w) \/ Continue(w)
  \/ \E u \in Users : Leave(u)
  \/ \E t \in Targets : Edit(t)
  \/ \E c \in Proposed : GrowsOld(c) \/ ExpireOne(c)
  \/ ExpireRead

Spec == Init /\ [][Next]_vars

(* A worker that has begun a request ends it; days pass and the cron job   *)
(* runs; and an UPDATE that waits for a row lock is in InnoDB's queue for  *)
(* it, so that it gets the lock if the lock is free again and again.       *)
FairSpec ==
  /\ Spec
  /\ \A w \in Workers : WF_vars(Continue(w))
  /\ WF_vars(ExpireRead)
  /\ \A c \in Proposed : WF_vars(GrowsOld(c)) /\ SF_vars(ExpireOne(c))

-------------------------------------------------------------------------------
\* Two reviewers, the proposer, a leaving member and the cron job may act on
\* a proposal at once: it is still decided once, and its change made exactly
\* when it is approved (change_request_review.py, expire_change_requests.py).
Promised == INSTANCE Proposals WITH status <- [c \in Proposed |-> proposal[c].status]
ImplementsProposals == Promised!Spec

\* The approval that worker w is committing.
Approves(w) == work[w].at = "approve" /\ applied' # applied /\ work'[w] # work[w]

\* "A target edited after the proposal answers 409 `stale` unless
\* `override_stale=true`": a change made without an override is made to the
\* very version the proposer saw.
Fresh(w) ==
  Approves(w) /\ ~work[w].override /\ work[w].row.base # NoVersion
  => target[work[w].row.target].version = work[w].row.base
AppliedOnlyIfFresh == [][\A w \in Workers : Fresh(w)]_vars

\* The same of updates alone, whose write compares the version again.
UpdatedOnlyIfFresh ==
  [][\A w \in Workers : work[w].row.action = "update" => Fresh(w)]_vars

\* No proposal is pending for ever, whatever reviewers do or fail to do.
EveryProposalCloses == \A c \in Proposed : Pending(c) ~> ~Pending(c)
=================================================================================

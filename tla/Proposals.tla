------------------------------- MODULE Proposals -------------------------------
(***************************************************************************)
(* What the review queue promises about a proposal (a change request): it  *)
(* is decided once, its change is made exactly when it is approved, and a  *)
(* closed proposal is never touched again.                                 *)
(***************************************************************************)
EXTENDS Naturals

CONSTANT Proposed   \* the proposals that may be made

VARIABLES status, applied   \* applied: how often the change was made

vars == <<status, applied>>

Refusals == {"rejected", "withdrawn", "expired", "stale"}

Init ==
  /\ status = [c \in Proposed |-> "none"]
  /\ applied = [c \in Proposed |-> 0]

Submit(c) ==
  /\ status[c] = "none"
  /\ status' = [status EXCEPT ![c] = "pending"]
  /\ UNCHANGED applied

Approve(c) ==
  /\ status[c] = "pending"
  /\ status' = [status EXCEPT ![c] = "approved"]
  /\ applied' = [applied EXCEPT ![c] = 1]

\* One proposal is refused, or all those of a member who leaves at once.
Close(S, how) ==
  /\ \A c \in S : status[c] = "pending"
  /\ status' = [c \in Proposed |-> IF c \in S THEN how ELSE status[c]]
  /\ UNCHANGED applied

Next ==
  \/ \E c \in Proposed : Submit(c) \/ Approve(c)
  \/ \E S \in SUBSET Proposed, how \in Refusals : Close(S, how)

Spec == Init /\ [][Next]_vars
================================================================================

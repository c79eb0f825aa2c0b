--------------------------- MODULE MCAuthSessions ---------------------------
(***************************************************************************)
(* Two workers on one account, with tokens, logins and workers             *)
(* interchangeable (no formula tells one of them from another).  Sessions  *)
(* come and go, with the code just sent among them if a token fewer is     *)
(* issued; or codes are asked for and tried, with no session left.         *)
(***************************************************************************)
EXTENDS ResetCodes, TLC

Symmetry == Permutations(Workers) \cup Permutations(Tokens) \cup Permutations(Logins)

Visits == [requests |-> 0, revoked |-> {}, issued |-> 0]
OneRecovery(t) == [requests |-> 1, revoked |-> {t}, issued |-> 1]
Recoveries == [requests |-> 5, revoked |-> Tokens, issued |-> 0]

MCSituations == {Visits, Recoveries} \cup {OneRecovery(t) : t \in Tokens}
=============================================================================

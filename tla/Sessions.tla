------------------------------- MODULE Sessions -------------------------------
(***************************************************************************)
(* What the token endpoints promise about the sessions of one account.     *)
(* A login starts a session; the session holds one refresh token at a      *)
(* time, which a refresh replaces; logout, expiry and every password       *)
(* change end it, and a session that has ended never works again.          *)
(***************************************************************************)
CONSTANTS Logins, Tokens, NotStarted, Ended

VARIABLE session   \* the refresh token each login can still use

Init == session = [l \in Logins |-> NotStarted]

Held == {session[l] : l \in Logins} \cap Tokens

Begin(l) ==
  /\ session[l] = NotStarted
  /\ \E t \in Tokens \ Held : session' = [session EXCEPT ![l] = t]

Rotate(l) ==
  /\ session[l] \in Tokens
  /\ \E t \in Tokens \ Held : session' = [session EXCEPT ![l] = t]

(* A login may also be over before its first token is ever used: the       *)
(* password changed while the login was being served.                      *)
End(S) == session' = [l \in Logins |-> IF l \in S THEN Ended ELSE session[l]]

Next ==
  \/ \E l \in Logins : Begin(l) \/ Rotate(l)
  \/ \E S \in SUBSET Logins : End(S)

Spec == Init /\ [][Next]_session
=============================================================================

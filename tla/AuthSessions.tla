----------------------------- MODULE AuthSessions -----------------------------
(***************************************************************************)
(* The sessions of one account: refresh tokens (rows of apis_refreshtoken, *)
(* deleted to revoke them) and access tokens (stateless JWTs that die when *)
(* the password they were minted under is replaced).  Tables of different  *)
(* accounts never meet, so one account is the whole component.             *)
(*                                                                         *)
(* A password is the number of set_password() calls so far: every call     *)
(* salts afresh, so its fingerprint is new, also for the same characters.  *)
(* issue_token_pair mints both tokens of a pair from the same user object; *)
(* a member of Tokens stands for the pair.                                 *)
(*                                                                         *)
(* A web worker serves a request in two steps, which other workers         *)
(* interleave with: it reads the user and the row, and then commits what   *)
(* it decided from that reading.                                           *)
(***************************************************************************)
EXTENDS Naturals

CONSTANTS
  Workers,
  Logins,         \* bound: successful logins in one behaviour
  Tokens,         \* bound: token pairs minted in one behaviour
  Devices,        \* handsets with a push registration
  MaxPassword,    \* bound: password changes in one behaviour
  NoToken, NoLogin, NoDevice,
  NotStarted, Ended

ASSUME NullsAssumption ==
  /\ NoToken \notin Tokens
  /\ NoLogin \notin Logins
  /\ NoDevice \notin Devices
  /\ {NotStarted, Ended} \cap Tokens = {}
  /\ NotStarted # Ended
ASSUME BoundAssumption == MaxPassword \in Nat

VARIABLES
  password,   \* auth_user.password
  active,     \* auth_user.is_active
  pair,       \* the token pairs: the refresh row, and the pwd claim of its JWT
  devices,    \* giapha_devicetoken rows of the account
  req         \* the request each worker is serving, with what it has read

vars == <<password, active, pair, devices, req>>

Passwords == 0..MaxPassword

(* `login` and `proof` are history: the login the pair descends from, and  *)
(* the password that login was checked against.                            *)
Pairs == [row : {"unissued", "live", "gone"}, expired : BOOLEAN, pwd : Passwords,
          login : Logins \cup {NoLogin}, proof : Passwords]

Unissued == [row |-> "unissued", expired |-> FALSE, pwd |-> 0, login |-> NoLogin, proof |-> 0]

Kinds == {"login", "refresh", "logout", "change", "reset", "register"}

Requests == [kind : Kinds \cup {"none"}, token : Tokens \cup {NoToken},
             device : Devices \cup {NoDevice}, pwd : Passwords]

Ask(kind, t, d, pwd) == [kind |-> kind, token |-> t, device |-> d, pwd |-> pwd]
Idle == Ask("none", NoToken, NoDevice, 0)

TypeOK ==
  /\ password \in Passwords
  /\ active \in BOOLEAN
  /\ pair \in [Tokens -> Pairs]
  /\ devices \subseteq Devices
  /\ req \in [Workers -> Requests]

Init ==
  /\ password = 0
  /\ active = TRUE
  /\ pair = [t \in Tokens |-> Unissued]
  /\ devices = {}
  /\ req = [w \in Workers |-> Idle]

-----------------------------------------------------------------------------
Minted(t) == pair[t].row # "unissued"

(* JWTAuthentication: a minted token whose pwd claim is the fingerprint of *)
(* the password in force (expiry only narrows this).                       *)
AccessWorks(t) == Minted(t) /\ pair[t].pwd = password

(* What consume_refresh_token would still accept.                          *)
RefreshWorks(t) ==
  pair[t].row = "live" /\ ~pair[t].expired /\ pair[t].pwd = password

Hold(w, q) ==
  /\ req[w] = Idle
  /\ req' = [req EXCEPT ![w] = q]
  /\ UNCHANGED <<password, active, pair, devices>>

Done(w) == req' = [req EXCEPT ![w] = Idle]

\* Mutant: revocation leaves a marked row behind.
SoftRevoked(ts) ==
  [t \in Tokens |-> IF t \in ts /\ pair[t].row = "live"
                    THEN [pair[t] EXCEPT !.row = "revoked"] ELSE pair[t]]
Deleted(ts) ==
  [t \in Tokens |-> IF t \in ts /\ pair[t].row = "live"
                    THEN [pair[t] EXCEPT !.row = "gone"] ELSE pair[t]]

\* Mutant: the fingerprint of a new pair is read from the database again.
StampedAnew(q, login, proof) ==
  [row |-> "live", expired |-> FALSE, pwd |-> password, login |-> login, proof |-> proof]
(* issue_token_pair(user): the fingerprint is the one of the user object   *)
(* the request has in memory.                                              *)
IssuedPair(q, login, proof) ==
  [row |-> "live", expired |-> FALSE, pwd |-> q.pwd, login |-> login, proof |-> proof]

-----------------------------------------------------------------------------
(* POST /api/auth/login.  authenticate() checks the password against the   *)
(* row it reads, and refuses an inactive user.                             *)
LoginRead(w) ==
  /\ active
  /\ Hold(w, Ask("login", NoToken, NoDevice, password))

LoginSave(w) ==
  LET q == req[w] IN
  /\ q.kind = "login"
  /\ \E l \in Logins, t \in Tokens :
       /\ \A s \in Tokens : pair[s].login # l
       /\ ~Minted(t)
       /\ pair' = [pair EXCEPT ![t] = IssuedPair(q, l, q.pwd)]
  /\ Done(w)
  /\ UNCHANGED <<password, active, devices>>

-----------------------------------------------------------------------------
(* POST /api/auth/refresh.  The SELECT joins the user: the row and the     *)
(* password and is_active of that moment are in memory from here on.       *)
RefreshRead(w) ==
  \E t \in Tokens :
    /\ pair[t].row = "live" /\ ~pair[t].expired
    /\ Hold(w, Ask(IF active THEN "refresh" ELSE "logout", t, NoDevice, password))

\* Mutant: rotation mints whether or not its own DELETE removed the row.
RowWasThere(q) == Minted(q.token)
(* The rowcount of the DELETE: of two refreshes with one token, only one   *)
(* removes the row.                                                        *)
RowRemoved(q) == pair[q.token].row = "live"

\* Mutant: a row that survived a password change mints again.
AnyFingerprint(q) == TRUE
FingerprintMatches(q) == pair[q.token].pwd = q.pwd

(* One transaction: the DELETE, and a new pair if it removed the row and   *)
(* the row's fingerprint is that of the user in memory.  A refusal is a    *)
(* return, not an exception: the DELETE commits.                           *)
RefreshSave(w) ==
  LET q == req[w]
      old == pair[q.token]
  IN /\ q.kind = "refresh"
     /\ \/ /\ RowRemoved(q) /\ FingerprintMatches(q)
           /\ \E t \in Tokens :
                /\ ~Minted(t)
                /\ pair' = [Deleted({q.token}) EXCEPT ![t] = IssuedPair(q, old.login, old.proof)]
        \/ /\ ~(RowRemoved(q) /\ FingerprintMatches(q))
           /\ pair' = Deleted({q.token})
     /\ Done(w)
     /\ UNCHANGED <<password, active, devices>>

(* POST /api/auth/logout, and the refresh of a deactivated user: the row   *)
(* is deleted and nothing minted.                                          *)
LogoutRead(w) ==
  \E t \in Tokens :
    Minted(t) /\ Hold(w, Ask("logout", t, NoDevice, 0))

LogoutSave(w) ==
  /\ req[w].kind = "logout"
  /\ pair' = Deleted({req[w].token})
  /\ Done(w)
  /\ UNCHANGED <<password, active, devices>>

-----------------------------------------------------------------------------
(* POST /api/auth/change-password and /api/auth/reset-password.            *)

(* The caller is authenticated by an access token, and its current         *)
(* password is checked against the user object authentication loaded.      *)
ChangeRead(w) ==
  \E t \in Tokens :
    /\ AccessWorks(t) /\ active
    /\ Hold(w, Ask("change", t, NoDevice, password))

(* A reset whose emailed code was found valid (the code table itself is    *)
(* not part of this module).                                               *)
ResetRead(w) == active /\ Hold(w, Ask("reset", NoToken, NoDevice, password))

\* Mutant: an unsalted hash, so that returning to an old password returns
\* to its fingerprint.
AlternatingPassword == IF password = 0 THEN 1 ELSE 0
(* set_password(): a salt, hash and fingerprint never seen before.         *)
NewPassword == password + 1

(* set_password_and_revoke_tokens: one transaction.                        *)
PasswordSave(w) ==
  /\ req[w].kind \in {"change", "reset"}
  /\ password < MaxPassword
  /\ password' = NewPassword
  /\ pair' = Deleted(Tokens)
  /\ devices' = {}
  /\ Done(w)
  /\ UNCHANGED active

(* The bound on passwords is reached: the request is dropped.              *)
PasswordBeyondBound(w) ==
  /\ req[w].kind \in {"change", "reset"}
  /\ password = MaxPassword
  /\ Done(w)
  /\ UNCHANGED <<password, active, pair, devices>>

-----------------------------------------------------------------------------
(* POST /devices by an authenticated caller.                               *)
RegisterRead(w) ==
  \E t \in Tokens, d \in Devices :
    /\ AccessWorks(t) /\ active
    /\ Hold(w, Ask("register", t, d, 0))

RegisterSave(w) ==
  /\ req[w].kind = "register"
  /\ devices' = devices \cup {req[w].device}
  /\ Done(w)
  /\ UNCHANGED <<password, active, pair>>

-----------------------------------------------------------------------------
(* Outside the endpoints: the admin or a shell sets a password (the rows   *)
(* stay), bans and unbans the account; the lifetime of a row runs out.     *)
AdminSetsPassword ==
  /\ password < MaxPassword
  /\ password' = NewPassword
  /\ UNCHANGED <<active, pair, devices, req>>

AdminTogglesActive ==
  /\ active' = ~active
  /\ UNCHANGED <<password, pair, devices, req>>

Expire(t) ==
  /\ pair[t].row = "live" /\ ~pair[t].expired
  /\ pair' = [pair EXCEPT ![t].expired = TRUE]
  /\ UNCHANGED <<password, active, devices, req>>

Serve(w) ==
  \/ LoginRead(w) \/ LoginSave(w) \/ RefreshRead(w) \/ RefreshSave(w)
  \/ LogoutRead(w) \/ LogoutSave(w) \/ ChangeRead(w) \/ ResetRead(w)
  \/ PasswordSave(w) \/ PasswordBeyondBound(w) \/ RegisterRead(w) \/ RegisterSave(w)

Next ==
  \/ \E w \in Workers : Serve(w)
  \/ AdminSetsPassword \/ AdminTogglesActive
  \/ \E t \in Tokens : Expire(t)

Spec == Init /\ [][Next]_vars

-----------------------------------------------------------------------------
(* Properties.                                                             *)

(* Whatever raced with a password change, a token that works descends from *)
(* a login that presented the password now in force: the change evicts     *)
(* every session, including the ones being rotated at that moment.         *)
TokensProvePassword ==
  \A t \in Tokens : AccessWorks(t) => pair[t].proof = password

(* Rotation is single-use: at no time do two refresh rows descend from one *)
(* login, so a replayed token cannot hand out two live sessions.           *)
OneRowPerLogin ==
  \A s, t \in Tokens :
    pair[s].row = "live" /\ pair[t].row = "live" /\ pair[s].login = pair[t].login => s = t

(* A refresh token that has stopped working (consumed, revoked, expired,   *)
(* or orphaned by a new password) never works again, whatever comes later. *)
DeadTokensStayDead ==
  [][\A t \in Tokens : Minted(t) /\ ~RefreshWorks(t) => ~RefreshWorks(t)']_vars

(* The token each login can still use, as Sessions sees it.  A token whose *)
(* lifetime runs out while its refresh is being served still counts.       *)
BeingRefreshed(t) == \E w \in Workers : req[w].kind = "refresh" /\ req[w].token = t

Usable(t) ==
  /\ pair[t].row = "live" /\ pair[t].pwd = password
  /\ pair[t].expired => BeingRefreshed(t)

SessionOf ==
  [l \in Logins |->
     IF \E t \in Tokens : pair[t].login = l /\ Usable(t)
     THEN CHOOSE t \in Tokens : pair[t].login = l /\ Usable(t)
     ELSE IF \E t \in Tokens : pair[t].login = l THEN Ended ELSE NotStarted]

AsSessions == INSTANCE Sessions WITH session <- SessionOf

(* The token endpoints implement the abstract sessions.                    *)
ImplementsSessions == AsSessions!Spec
=============================================================================

--------------------------- MODULE Sessions_proofs ---------------------------
(***************************************************************************)
(* What login, refresh, logout, password changes and recovery by emailed   *)
(* codes guarantee for any number of workers, logins, tokens, devices and  *)
(* changes: first AuthSessions, then ResetCodes on top of it, and last that*)
(* both implement Sessions.                                                *)
(***************************************************************************)
EXTENDS ResetCodes, FiniteSetTheorems, TLAPS


(***************************************************************************)
(* What AuthSessions guarantees for any number of workers, logins, tokens, *)
(* devices and password changes.                                           *)
(*                                                                         *)
(* The inductive invariant adds three facts to the properties.  Every pair *)
(* carries the password its own login was checked against (StampedByProof),*)
(* which makes "works now" and "proves the password in force" the same     *)
(* thing.  No pair and no request in flight is stamped with a password     *)
(* that has not been set yet (NoFuturePassword), so a change always makes  *)
(* every fingerprint stale.  And the requests in flight name what exists.  *)
(***************************************************************************)

StampedByProof == \A t \in Tokens : Minted(t) => pair[t].pwd = pair[t].proof

LiveRowsHaveLogins == \A t \in Tokens : pair[t].row = "live" => pair[t].login \in Logins

NoFuturePassword ==
  /\ \A t \in Tokens : Minted(t) => pair[t].pwd <= password
  /\ \A w \in Workers : req[w].pwd <= password

WellFormed(q) ==
  /\ q.kind = "refresh" => q.token \in Tokens /\ Minted(q.token)
  /\ q.kind = "register" => q.device \in Devices

RequestsWellFormed == \A w \in Workers : WellFormed(req[w])

IInv ==
  /\ TypeOK
  /\ StampedByProof
  /\ LiveRowsHaveLogins
  /\ NoFuturePassword
  /\ RequestsWellFormed
  /\ OneRowPerLogin

(* Init establishes the invariant.                                         *)
LEMMA InitIInv == Init => IInv
<1> SUFFICES ASSUME Init PROVE IInv
  OBVIOUS
<1> USE NullsAssumption, BoundAssumption DEF Init
<1>1. TypeOK
  BY DEF TypeOK, Passwords, Pairs, Unissued, Requests, Idle, Ask, Kinds
<1>2. StampedByProof /\ LiveRowsHaveLogins /\ OneRowPerLogin
  BY DEF StampedByProof, LiveRowsHaveLogins, OneRowPerLogin, Minted, Unissued
<1>3. NoFuturePassword /\ RequestsWellFormed
  BY DEF NoFuturePassword, RequestsWellFormed, WellFormed, Minted, Unissued, Idle, Ask
<1> QED
  BY <1>1, <1>2, <1>3 DEF IInv

(* Taking up a request touches nothing but the worker's own request.       *)
LEMMA HoldIInv ==
  ASSUME IInv, NEW w \in Workers, NEW q \in Requests, Hold(w, q),
         q.pwd <= password,
         WellFormed(q)
  PROVE  IInv'
<1> USE DEF Hold, IInv
<1>1. TypeOK'
  BY DEF TypeOK
<1>2. /\ StampedByProof'
      /\ LiveRowsHaveLogins'
      /\ OneRowPerLogin'
  BY DEF StampedByProof, LiveRowsHaveLogins, OneRowPerLogin, Minted
<1>3. NoFuturePassword'
  BY DEF NoFuturePassword, Minted, TypeOK
<1>4. RequestsWellFormed'
  BY DEF RequestsWellFormed, WellFormed, Minted, TypeOK
<1> QED
  BY <1>1, <1>2, <1>3, <1>4

(* Deleting rows changes the `row` column of minted pairs, and that only.  *)
LEMMA DeletedFacts ==
  ASSUME TypeOK, NEW S
  PROVE  /\ Deleted(S) \in [Tokens -> Pairs]
         /\ \A t \in Tokens :
              /\ Deleted(S)[t].pwd = pair[t].pwd
              /\ Deleted(S)[t].login = pair[t].login
              /\ Deleted(S)[t].proof = pair[t].proof
              /\ Deleted(S)[t].expired = pair[t].expired
              /\ Deleted(S)[t].row = "unissued" <=> pair[t].row = "unissued"
              /\ Deleted(S)[t].row = "live" => pair[t].row = "live"
              /\ t \in S => Deleted(S)[t].row # "live"
BY DEF TypeOK, Deleted, Pairs

(* A step that only deletes rows, ends the request and moves the password  *)
(* forward if at all keeps the invariant.                                  *)
LEMMA DeleteIInv ==
  ASSUME IInv, NEW w \in Workers, NEW S, pair' = Deleted(S), Done(w),
         password' \in Passwords, password <= password',
         active' \in BOOLEAN, devices' \subseteq Devices
  PROVE  IInv'
<1> USE NullsAssumption, BoundAssumption
<1>0. TypeOK
  BY DEF IInv
<1>1. Idle \in Requests
  BY DEF Idle, Ask, Requests, Kinds, Passwords
<1>2. TypeOK'
  BY <1>0, <1>1, DeletedFacts DEF TypeOK, Done
<1>3. \A t \in Tokens : /\ pair'[t].pwd = pair[t].pwd
                        /\ pair'[t].login = pair[t].login
                        /\ pair'[t].proof = pair[t].proof
                        /\ Minted(t)' <=> Minted(t)
                        /\ pair'[t].row = "live" => pair[t].row = "live"
  BY <1>0, DeletedFacts DEF Minted
<1>4. StampedByProof' /\ LiveRowsHaveLogins' /\ OneRowPerLogin'
  BY <1>3 DEF IInv, StampedByProof, LiveRowsHaveLogins, OneRowPerLogin
<1>5. NoFuturePassword'
  <2>1. \A t \in Tokens : Minted(t)' => pair'[t].pwd <= password'
    BY <1>0, <1>3 DEF IInv, NoFuturePassword, TypeOK, Pairs, Passwords
  <2>2. \A v \in Workers : req'[v].pwd <= password'
    BY <1>0 DEF IInv, NoFuturePassword, TypeOK, Requests, Passwords, Done, Idle, Ask
  <2> QED
    BY <2>1, <2>2 DEF NoFuturePassword
<1>6. RequestsWellFormed'
  BY <1>0, <1>3 DEF IInv, RequestsWellFormed, WellFormed, TypeOK, Done, Idle, Ask
<1> QED
  BY <1>2, <1>4, <1>5, <1>6 DEF IInv

(* Inserting a freshly minted pair, stamped with the password its login    *)
(* was checked against, of a login none of whose rows is live any more.    *)
LEMMA MintIInv ==
  ASSUME IInv, NEW w \in Workers, NEW S, NEW t \in Tokens, NEW l \in Logins,
         ~Minted(t), req[w] \in Requests,
         pair' = [Deleted(S) EXCEPT ![t] = IssuedPair(req[w], l, req[w].pwd)],
         \A s \in Tokens : pair[s].login = l /\ pair[s].row = "live" => s \in S,
         Done(w), UNCHANGED <<password, active, devices>>
  PROVE  IInv'
<1> USE NullsAssumption, BoundAssumption
<1> DEFINE new == IssuedPair(req[w], l, req[w].pwd)
<1>0. TypeOK /\ req[w].pwd \in Passwords /\ req[w].pwd <= password
  BY DEF IInv, NoFuturePassword, Requests
<1>1. new \in Pairs /\ new.row = "live" /\ new.pwd = req[w].pwd /\ new.proof = req[w].pwd /\ new.login = l
  BY <1>0 DEF IssuedPair, Pairs
<1>2. /\ pair'[t] = new
      /\ \A s \in Tokens \ {t} : pair'[s] = Deleted(S)[s]
      /\ pair' \in [Tokens -> Pairs]
  BY <1>0, <1>1, DeletedFacts
<1>3. \A s \in Tokens \ {t} : /\ pair'[s].pwd = pair[s].pwd
                              /\ pair'[s].login = pair[s].login
                              /\ pair'[s].proof = pair[s].proof
                              /\ Minted(s)' <=> Minted(s)
                              /\ pair'[s].row = "live" => pair[s].row = "live" /\ s \notin S
  BY <1>0, <1>2, DeletedFacts DEF Minted
<1>4. Minted(t)'
  BY <1>1, <1>2 DEF Minted
<1>5. TypeOK'
  <2>1. Idle \in Requests
    BY DEF Idle, Ask, Requests, Kinds, Passwords
  <2> QED
    BY <1>0, <1>2, <2>1 DEF TypeOK, Done
<1>6. StampedByProof' /\ LiveRowsHaveLogins'
  <2>1. ASSUME NEW s \in Tokens
        PROVE  /\ Minted(s)' => pair'[s].pwd = pair'[s].proof
               /\ pair'[s].row = "live" => pair'[s].login \in Logins
    <3>1. CASE s = t
      BY <3>1, <1>1, <1>2, <1>4
    <3>2. CASE s # t
      BY <3>2, <1>3 DEF IInv, StampedByProof, LiveRowsHaveLogins
    <3> QED
      BY <3>1, <3>2
  <2> QED
    BY <2>1 DEF StampedByProof, LiveRowsHaveLogins
<1>7. OneRowPerLogin'
  <2> SUFFICES ASSUME NEW s \in Tokens, NEW r \in Tokens,
                      pair'[s].row = "live", pair'[r].row = "live",
                      pair'[s].login = pair'[r].login
               PROVE  s = r
    BY DEF OneRowPerLogin
  <2>1. CASE s # t /\ r # t
    BY <2>1, <1>3 DEF IInv, OneRowPerLogin
  <2>2. CASE s = t /\ r # t
    BY <2>2, <1>1, <1>2, <1>3
  <2>3. CASE s # t /\ r = t
    BY <2>3, <1>1, <1>2, <1>3
  <2> QED
    BY <2>1, <2>2, <2>3
<1>8. NoFuturePassword'
  <2>1. \A s \in Tokens : Minted(s)' => pair'[s].pwd <= password'
    BY <1>0, <1>1, <1>2, <1>3 DEF IInv, NoFuturePassword
  <2>2. \A v \in Workers : req'[v].pwd <= password'
    BY <1>0 DEF IInv, NoFuturePassword, TypeOK, Passwords, Done, Idle, Ask
  <2> QED
    BY <2>1, <2>2 DEF NoFuturePassword
<1>9. RequestsWellFormed'
  <2> SUFFICES ASSUME NEW v \in Workers PROVE WellFormed(req[v])'
    BY DEF RequestsWellFormed
  <2>1. CASE v = w
    BY <2>1, <1>0 DEF Done, Idle, Ask, TypeOK, WellFormed
  <2>2. CASE v # w
    <3>1. req'[v] = req[v] /\ WellFormed(req[v])
      BY <2>2, <1>0 DEF IInv, RequestsWellFormed, Done, TypeOK
    <3> QED
      BY <3>1, <1>3, <1>4 DEF WellFormed
  <2> QED
    BY <2>1, <2>2
<1> QED
  BY <1>5, <1>6, <1>7, <1>8, <1>9 DEF IInv

(* A request that ends without a word to the tables.                       *)
LEMMA DoneIInv ==
  ASSUME IInv, NEW w \in Workers, Done(w), UNCHANGED <<password, active, pair>>,
         devices' \subseteq Devices
  PROVE  IInv'
<1>1. TypeOK
  BY DEF IInv
<1>2. pair' = Deleted({})
  BY <1>1 DEF TypeOK, Deleted
<1>3. password' \in Passwords /\ password <= password' /\ active' \in BOOLEAN
  BY <1>1, BoundAssumption DEF TypeOK, Passwords
<1> QED
  BY <1>1, <1>2, <1>3, DeleteIInv

(* Every action of a worker keeps the invariant.                           *)
LEMMA ServeIInv == ASSUME IInv, NEW w \in Workers, Serve(w) PROVE IInv'
<1> USE NullsAssumption, BoundAssumption
<1>0. TypeOK /\ req[w] \in Requests /\ password \in Passwords /\ password <= password
  BY DEF IInv, TypeOK, Passwords
<1>1. CASE LoginRead(w)
  <2>1. Ask("login", NoToken, NoDevice, password) \in Requests
    BY <1>0 DEF Idle, Ask, Requests, Kinds, Passwords
  <2> QED
    BY <1>0, <1>1, <2>1, HoldIInv DEF LoginRead, Ask, WellFormed
<1>2. CASE LoginSave(w)
  <2>1. PICK l \in Logins, t \in Tokens :
          /\ \A s \in Tokens : pair[s].login # l
          /\ ~Minted(t)
          /\ pair' = [pair EXCEPT ![t] = IssuedPair(req[w], l, req[w].pwd)]
    BY <1>2 DEF LoginSave
  <2>2. pair = Deleted({})
    BY <1>0 DEF TypeOK, Deleted
  <2>3. Done(w) /\ UNCHANGED <<password, active, devices>>
    BY <1>2 DEF LoginSave
  <2>4. pair' = [Deleted({}) EXCEPT ![t] = IssuedPair(req[w], l, req[w].pwd)]
    BY <2>1, <2>2
  <2> QED
    BY <1>0, <2>1, <2>3, <2>4, MintIInv
<1>3. CASE RefreshRead(w)
  <2>1. PICK t \in Tokens :
          /\ pair[t].row = "live"
          /\ Hold(w, Ask(IF active THEN "refresh" ELSE "logout", t, NoDevice, password))
    BY <1>3 DEF RefreshRead
  <2> DEFINE q == Ask(IF active THEN "refresh" ELSE "logout", t, NoDevice, password)
  <2>2. q \in Requests /\ q.pwd = password /\ q.token = t
    BY <1>0 DEF Idle, Ask, Requests, Kinds, Passwords
  <2>3. Minted(t)
    BY <2>1 DEF Minted
  <2> QED
    BY <1>0, <2>1, <2>2, <2>3, HoldIInv DEF Ask, WellFormed
<1>4. CASE RefreshSave(w)
  <2> DEFINE q == req[w]
  <2>1. q.token \in Tokens /\ Minted(q.token) /\ Done(w) /\ UNCHANGED <<password, active, devices>>
    BY <1>4 DEF RefreshSave, IInv, RequestsWellFormed, WellFormed
  <2>2. CASE RowRemoved(q) /\ FingerprintMatches(q)
    <3>1. PICK t \in Tokens :
            /\ ~Minted(t)
            /\ pair' = [Deleted({q.token}) EXCEPT
                         ![t] = IssuedPair(q, pair[q.token].login, pair[q.token].proof)]
      BY <1>4, <2>2 DEF RefreshSave
    <3>2. pair[q.token].proof = q.pwd /\ pair[q.token].login \in Logins
      BY <2>1, <2>2 DEF IInv, StampedByProof, LiveRowsHaveLogins, FingerprintMatches, RowRemoved
    <3>3. PICK l \in Logins : l = pair[q.token].login
      BY <3>2
    <3>4. PICK S : S = {q.token}
      OBVIOUS
    <3>5. \A s \in Tokens : pair[s].login = l /\ pair[s].row = "live" => s \in S
      BY <2>1, <2>2, <3>3, <3>4 DEF IInv, OneRowPerLogin, RowRemoved
    <3>6. pair' = [Deleted(S) EXCEPT ![t] = IssuedPair(req[w], l, req[w].pwd)]
      BY <3>1, <3>2, <3>3, <3>4
    <3>7. ~Minted(t) /\ Done(w) /\ UNCHANGED <<password, active, devices>>
      BY <2>1, <3>1
    <3> QED
      BY <1>0, <3>5, <3>6, <3>7, MintIInv
  <2>3. CASE pair' = Deleted({q.token})
    BY <1>0, <2>1, <2>3, DeleteIInv DEF TypeOK
  <2> QED
    BY <1>4, <2>2, <2>3 DEF RefreshSave
<1>5. CASE LogoutRead(w)
  <2>1. PICK t \in Tokens : Hold(w, Ask("logout", t, NoDevice, 0))
    BY <1>5 DEF LogoutRead
  <2>2. Ask("logout", t, NoDevice, 0) \in Requests
    BY DEF Idle, Ask, Requests, Kinds, Passwords
  <2> QED
    BY <1>0, <2>1, <2>2, HoldIInv DEF Ask, WellFormed, Passwords
<1>6. CASE LogoutSave(w)
  BY <1>0, <1>6, DeleteIInv DEF LogoutSave, TypeOK
<1>7. CASE ChangeRead(w)
  <2>1. PICK t \in Tokens : Hold(w, Ask("change", t, NoDevice, password))
    BY <1>7 DEF ChangeRead
  <2>2. Ask("change", t, NoDevice, password) \in Requests
    BY <1>0 DEF Ask, Requests, Kinds
  <2> QED
    BY <1>0, <2>1, <2>2, HoldIInv DEF Ask, WellFormed
<1>8. CASE ResetRead(w)
  <2>1. Ask("reset", NoToken, NoDevice, password) \in Requests
    BY <1>0 DEF Ask, Requests, Kinds
  <2> QED
    BY <1>0, <1>8, <2>1, HoldIInv DEF ResetRead, Ask, WellFormed
<1>9. CASE PasswordSave(w)
  <2>1. password' \in Passwords /\ password <= password'
    BY <1>0, <1>9 DEF PasswordSave, NewPassword, Passwords
  <2> QED
    BY <1>0, <1>9, <2>1, DeleteIInv DEF PasswordSave, TypeOK
<1>10. CASE PasswordBeyondBound(w)
  BY <1>0, <1>10, DoneIInv DEF PasswordBeyondBound, TypeOK
<1>11. CASE RegisterRead(w)
  <2>1. PICK t \in Tokens, d \in Devices :
          Hold(w, Ask("register", t, d, 0))
    BY <1>11 DEF RegisterRead
  <2>2. Ask("register", t, d, 0) \in Requests
    BY DEF Idle, Ask, Requests, Kinds, Passwords
  <2> QED
    BY <1>0, <2>1, <2>2, HoldIInv DEF Ask, WellFormed, Passwords
<1>12. CASE RegisterSave(w)
  <2>1. req[w].device \in Devices
    BY <1>12 DEF RegisterSave, IInv, RequestsWellFormed, WellFormed
  <2> QED
    BY <1>0, <1>12, <2>1, DoneIInv DEF RegisterSave, TypeOK
<1> QED
  BY <1>1, <1>2, <1>3, <1>4, <1>5, <1>6, <1>7, <1>8, <1>9, <1>10, <1>11, <1>12 DEF Serve

(* Every step keeps the invariant.                                         *)
LEMMA NextIInv == IInv /\ [Next]_vars => IInv'
<1> SUFFICES ASSUME IInv, [Next]_vars PROVE IInv'
  OBVIOUS
<1> USE BoundAssumption
<1>0. TypeOK
  BY DEF IInv
<1>1. CASE \E w \in Workers : Serve(w)
  BY <1>1, ServeIInv
<1>2. CASE AdminSetsPassword
  <2>1. password' \in Passwords /\ password <= password'
    BY <1>0, <1>2 DEF AdminSetsPassword, NewPassword, TypeOK, Passwords
  <2>2. TypeOK'
    BY <1>0, <1>2, <2>1 DEF AdminSetsPassword, TypeOK
  <2>3. NoFuturePassword'
    BY <1>0, <1>2, <2>1 DEF AdminSetsPassword, IInv, NoFuturePassword, TypeOK, Pairs,
                            Requests, Passwords, Minted
  <2>4. StampedByProof' /\ LiveRowsHaveLogins' /\ RequestsWellFormed' /\ OneRowPerLogin'
    BY <1>2 DEF AdminSetsPassword, IInv, StampedByProof, LiveRowsHaveLogins,
                RequestsWellFormed, WellFormed, OneRowPerLogin, Minted
  <2> QED
    BY <2>2, <2>3, <2>4 DEF IInv
<1>3. CASE AdminTogglesActive
  BY <1>3 DEF AdminTogglesActive, IInv, TypeOK, StampedByProof, LiveRowsHaveLogins,
              NoFuturePassword, RequestsWellFormed, WellFormed, OneRowPerLogin, Minted
<1>4. CASE \E t \in Tokens : Expire(t)
  <2>1. PICK t \in Tokens : Expire(t)
    BY <1>4
  <2>2. pair' \in [Tokens -> Pairs]
    BY <1>0, <2>1 DEF Expire, TypeOK, Pairs
  <2>3. \A s \in Tokens : /\ pair'[s].pwd = pair[s].pwd
                          /\ pair'[s].login = pair[s].login
                          /\ pair'[s].proof = pair[s].proof
                          /\ pair'[s].row = pair[s].row
    BY <1>0, <2>1 DEF Expire, TypeOK, Pairs
  <2>4. UNCHANGED <<password, active, devices, req>>
    BY <2>1 DEF Expire
  <2> QED
    BY <2>2, <2>3, <2>4 DEF IInv, TypeOK, StampedByProof, LiveRowsHaveLogins,
              NoFuturePassword, RequestsWellFormed, WellFormed, OneRowPerLogin, Minted
<1>5. CASE UNCHANGED vars
  BY <1>5 DEF vars, IInv, TypeOK, StampedByProof, LiveRowsHaveLogins,
              NoFuturePassword, RequestsWellFormed, WellFormed, OneRowPerLogin, Minted
<1> QED
  BY <1>1, <1>2, <1>3, <1>4, <1>5 DEF Next

(* The inductive invariant holds in every reachable state.                 *)
THEOREM Invariance == Spec => []IInv
BY InitIInv, NextIInv, PTL DEF Spec

(* The variables stay in the sets the tables and requests draw from.       *)
THEOREM TypeCorrect == Spec => []TypeOK
<1>1. IInv => TypeOK
  BY DEF IInv
<1> QED
  BY <1>1, Invariance, PTL

(* However password changes race with logins and rotations, a token that   *)
(* works descends from a login that presented the password now in force.   *)
THEOREM EvictionIsComplete == Spec => []TokensProvePassword
<1>1. IInv => TokensProvePassword
  BY DEF IInv, StampedByProof, TokensProvePassword, AccessWorks
<1> QED
  BY <1>1, Invariance, PTL

(* No two live refresh rows ever descend from one login.                   *)
THEOREM RotationIsSingleUse == Spec => []OneRowPerLogin
<1>1. IInv => OneRowPerLogin
  BY DEF IInv
<1> QED
  BY <1>1, Invariance, PTL

(* What no step ever does to a minted pair: revive its row, restamp it, or *)
(* take its expiry back; nor does the password ever return to an old one.  *)
LEMMA MintedPairsOnlyAge ==
  ASSUME IInv, [Next]_vars, NEW t \in Tokens, Minted(t)
  PROVE  /\ pair'[t].row = "live" => pair[t].row = "live"
         /\ pair'[t].pwd = pair[t].pwd
         /\ pair[t].expired => pair'[t].expired
         /\ password <= password'
<1> DEFINE Aged == /\ pair'[t].row = "live" => pair[t].row = "live"
                   /\ pair'[t].pwd = pair[t].pwd
                   /\ pair[t].expired => pair'[t].expired
                   /\ password <= password'
<1>0. TypeOK /\ password <= password /\ password <= NewPassword
  BY DEF IInv, TypeOK, Passwords, NewPassword
<1>1. CASE UNCHANGED <<password, pair>>
  BY <1>0, <1>1
<1>2. ASSUME NEW S, pair' = Deleted(S), password <= password'
      PROVE  Aged
  BY <1>0, <1>2, DeletedFacts
<1>3. ASSUME NEW S, NEW s \in Tokens, NEW new, ~Minted(s),
             pair' = [Deleted(S) EXCEPT ![s] = new], password' = password
      PROVE  Aged
  <2>1. s # t /\ pair'[t] = Deleted(S)[t]
    BY <1>0, <1>3, DeletedFacts DEF Minted
  <2> QED
    BY <1>0, <1>3, <2>1, DeletedFacts
<1>4. ASSUME NEW w \in Workers, Serve(w) PROVE Aged
  <2>1. CASE \/ LoginRead(w) \/ RefreshRead(w) \/ LogoutRead(w) \/ ChangeRead(w)
             \/ ResetRead(w) \/ PasswordBeyondBound(w) \/ RegisterRead(w) \/ RegisterSave(w)
    BY <2>1, <1>1 DEF LoginRead, RefreshRead, LogoutRead, ChangeRead, ResetRead,
                      PasswordBeyondBound, RegisterRead, RegisterSave, Hold
  <2>2. CASE LoginSave(w)
    <3>1. PICK l \in Logins, s \in Tokens :
            ~Minted(s) /\ pair' = [pair EXCEPT ![s] = IssuedPair(req[w], l, req[w].pwd)]
      BY <2>2 DEF LoginSave
    <3>2. pair = Deleted({})
      BY <1>0 DEF TypeOK, Deleted
    <3> QED
      BY <2>2, <3>1, <3>2, <1>3 DEF LoginSave
  <2>3. CASE RefreshSave(w)
    <3>1. CASE pair' = Deleted({req[w].token})
      BY <2>3, <3>1, <1>0, <1>2 DEF RefreshSave
    <3>2. CASE \E s \in Tokens :
                 /\ ~Minted(s)
                 /\ pair' = [Deleted({req[w].token}) EXCEPT
                      ![s] = IssuedPair(req[w], pair[req[w].token].login, pair[req[w].token].proof)]
      BY <2>3, <3>2, <1>3 DEF RefreshSave
    <3> QED
      BY <2>3, <3>1, <3>2 DEF RefreshSave
  <2>4. CASE LogoutSave(w)
    BY <2>4, <1>0, <1>2 DEF LogoutSave
  <2>5. CASE PasswordSave(w)
    BY <2>5, <1>0, <1>2 DEF PasswordSave
  <2> QED
    BY <1>4, <2>1, <2>2, <2>3, <2>4, <2>5 DEF Serve
<1>5. CASE AdminSetsPassword
  BY <1>5, <1>0 DEF AdminSetsPassword
<1>6. CASE AdminTogglesActive
  BY <1>6, <1>1 DEF AdminTogglesActive
<1>7. CASE \E s \in Tokens : Expire(s)
  BY <1>7, <1>0 DEF Expire, TypeOK, Pairs
<1>8. CASE UNCHANGED vars
  BY <1>8, <1>1 DEF vars
<1> QED
  BY <1>4, <1>5, <1>6, <1>7, <1>8 DEF Next

(* No step makes a refresh token that has stopped working work again.      *)
LEMMA MintedTokensStayDead ==
  ASSUME IInv, [Next]_vars, NEW t \in Tokens, Minted(t), ~RefreshWorks(t)
  PROVE  ~RefreshWorks(t)'
<1>1. /\ pair'[t].row = "live" => pair[t].row = "live"
      /\ pair'[t].pwd = pair[t].pwd
      /\ pair[t].expired => pair'[t].expired
      /\ password <= password'
  BY MintedPairsOnlyAge
<1>2. pair[t].pwd <= password /\ pair[t].pwd \in Nat /\ password \in Nat
  BY BoundAssumption DEF IInv, NoFuturePassword, TypeOK, Pairs, Passwords
<1>3. password' \in Nat
  BY NextIInv, BoundAssumption DEF IInv, TypeOK, Passwords
<1>4. pair[t].pwd = password' => pair[t].pwd = password
  BY <1>1, <1>2, <1>3
<1> QED
  BY <1>1, <1>4 DEF RefreshWorks

(* A refresh token that has stopped working never works again.             *)
THEOREM DeadTokensNeverRevive == Spec => DeadTokensStayDead
<1>1. IInv /\ [Next]_vars =>
        [\A t \in Tokens : Minted(t) /\ ~RefreshWorks(t) => ~RefreshWorks(t)']_vars
  BY MintedTokensStayDead
<1> QED
  BY <1>1, Invariance, PTL DEF Spec, DeadTokensStayDead

-----------------------------------------------------------------------------
(***************************************************************************)
(* What recovery by emailed codes guarantees for any number of workers,    *)
(* codes and attempts; and that it takes nothing from the sessions: every  *)
(* step of it is one that the part above has dealt with.                   *)
(*                                                                         *)
(* A code that two requests were never checking at a time is checked by    *)
(* one worker at most (OneChecker), so what that worker has in memory is   *)
(* what the row says: the count of attempts is the count of guesses, but   *)
(* for the one being counted, and an unused code has set no password.      *)
(***************************************************************************)

CodeRows == [row : {"none", "there", "deleted"}, used : BOOLEAN, attempts : Nat,
             age : Valid..DayOld, guesses : Nat, resets : 0..2]
Steps == [step : {"free", "supersede", "insert", "count", "reset"},
          code : Codes \cup {0}, attempts : Nat]

(* The ids are given out in order: the rows there ever were come first.    *)
IdsInOrder ==
  \E n \in 1..(MaxCodes + 1) : \A c \in Codes : code[c].row # "none" <=> c < n

CodesTypeOK ==
  /\ code \in [Codes -> CodeRows]
  /\ doing \in [Workers -> Steps]
  /\ \A w \in Workers : doing[w].step \in {"count", "reset"} <=> doing[w].code \in Codes

CodesExist == \A w \in Workers : doing[w].code \in Codes => code[doing[w].code].row # "none"

OneChecker ==
  \A v, w \in Workers :
    doing[v].code = doing[w].code /\ doing[v].code \in Codes \ raced => v = w

Counted(c) == {w \in Workers : doing[w].step = "count" /\ doing[w].code = c} = {}

GuessesCounted ==
  \A c \in Codes \ raced :
    /\ code[c].guesses <= MaxAttempts
    /\ There(c) /\ Counted(c) => code[c].guesses = code[c].attempts
    /\ \A w \in Workers : There(c) /\ doing[w].step = "count" /\ doing[w].code = c =>
         code[c].attempts = doing[w].attempts /\ code[c].guesses = doing[w].attempts + 1

SpentOnce ==
  \A c \in Codes \ raced :
    /\ code[c].resets <= 1
    /\ There(c) /\ ~code[c].used => code[c].resets = 0
    /\ \A w \in Workers : doing[w].step = "reset" /\ doing[w].code = c => code[c].resets = 0

CInv == CodesTypeOK /\ IdsInOrder /\ CodesExist /\ OneChecker /\ GuessesCounted /\ SpentOnce

(* The row an insert writes, and the one that is not there yet.            *)
LEMMA RowFacts ==
  /\ NoRow \in CodeRows /\ NoRow.row = "none"
  /\ NoRow.attempts = 0 /\ NoRow.guesses = 0 /\ NoRow.resets = 0
  /\ NewRow \in CodeRows /\ NewRow.row = "there"
  /\ NewRow.attempts = 0 /\ NewRow.guesses = 0 /\ NewRow.resets = 0
<1>1. /\ NoRow \in CodeRows /\ NoRow.row = "none"
      /\ NoRow.attempts = 0 /\ NoRow.guesses = 0 /\ NoRow.resets = 0
  BY DEF NoRow, CodeRows, Valid, DayOld
<1>2. PICK r \in CodeRows : r = NoRow
  BY <1>1
<1>3. NewRow = [r EXCEPT !.row = "there"]
  BY <1>2 DEF NewRow
<1>4. /\ NewRow \in CodeRows /\ NewRow.row = "there"
      /\ NewRow.attempts = r.attempts /\ NewRow.guesses = r.guesses /\ NewRow.resets = r.resets
  BY <1>3 DEF CodeRows
<1> QED
  BY <1>1, <1>2, <1>4

LEMMA InitCInv == CodesInit => CInv
<1> SUFFICES ASSUME NEW s \in Situations,
                    code = [c \in Codes |-> IF c <= s.issued THEN NewRow ELSE NoRow],
                    doing = [w \in Workers |-> Free], raced = {}
             PROVE  CInv
  BY DEF CodesInit
<1>0. s.issued \in 0..1 /\ MaxCodes \in Nat /\ MaxAttempts \in Nat
  BY CodeAssumption
<1>1. /\ NewRow \in CodeRows /\ NewRow.row = "there"
      /\ NewRow.attempts = 0 /\ NewRow.guesses = 0 /\ NewRow.resets = 0
  BY RowFacts
<1>2. /\ NoRow \in CodeRows /\ NoRow.row = "none"
      /\ NoRow.attempts = 0 /\ NoRow.guesses = 0 /\ NoRow.resets = 0
  BY RowFacts
<1>3. Free = [step |-> "free", code |-> 0, attempts |-> 0] /\ 0 \notin Codes
  BY DEF Free, Codes
<1>4. CodesTypeOK
  BY <1>1, <1>2, <1>3 DEF CodesTypeOK, Steps
<1>5. IdsInOrder
  <2>1. PICK n : n = IF s.issued = 1 /\ 1 <= MaxCodes THEN 2 ELSE 1
    OBVIOUS
  <2>2. n \in 1..(MaxCodes + 1) /\ \A c \in Codes : code[c].row # "none" <=> c < n
    BY <1>0, <1>1, <1>2, <2>1 DEF Codes
  <2> QED
    BY <2>2 DEF IdsInOrder
<1>6. CodesExist /\ OneChecker
  BY <1>3 DEF CodesExist, OneChecker
<1>7. \A c \in Codes : code[c].guesses = 0 /\ code[c].attempts = 0 /\ code[c].resets = 0
  BY <1>1, <1>2
<1>8. GuessesCounted /\ SpentOnce
  BY <1>0, <1>3, <1>7 DEF GuessesCounted, SpentOnce, Counted, There
<1> QED
  BY <1>4, <1>5, <1>6, <1>8 DEF CInv

(* The id of an insert is the first that has no row yet, or beyond bound.  *)
LEMMA NextCodeIsNew ==
  ASSUME CInv
  PROVE  /\ NextCode \in 1..(MaxCodes + 1)
         /\ \A c \in Codes : code[c].row # "none" <=> c < NextCode
BY DEF CInv, IdsInOrder, NextCode

(* The worker's own record changes to one that checks no code.             *)
LEMMA QuietCInv ==
  ASSUME CInv, NEW w \in Workers, NEW q \in Steps, doing[w].step # "count",
         q.code = 0, q.step \notin {"count", "reset"},
         doing' = [doing EXCEPT ![w] = q], code' = code, raced' = raced
  PROVE  CInv'
<1>0. CodesTypeOK /\ IdsInOrder /\ CodesExist /\ OneChecker /\ GuessesCounted /\ SpentOnce
  BY DEF CInv
<1>1. \A v \in Workers : doing'[v] = IF v = w THEN q ELSE doing[v]
  BY <1>0 DEF CodesTypeOK
<1>2. 0 \notin Codes
  BY DEF Codes
<1>3. CodesTypeOK'
  BY <1>0, <1>1, <1>2 DEF CodesTypeOK
<1>4. IdsInOrder'
  BY <1>0 DEF IdsInOrder
<1>5. CodesExist' /\ OneChecker'
  BY <1>0, <1>1, <1>2 DEF CodesExist, OneChecker
<1>6. \A c \in Codes : Counted(c)' <=> Counted(c)
  BY <1>1, <1>2 DEF Counted
<1>7. GuessesCounted'
  BY <1>0, <1>1, <1>2, <1>6 DEF GuessesCounted, There
<1>8. SpentOnce'
  BY <1>0, <1>1, <1>2 DEF SpentOnce, There
<1> QED
  BY <1>3, <1>4, <1>5, <1>7, <1>8 DEF CInv

LEMMA SupersedeCInv == ASSUME CInv, NEW w \in Workers, ForgotSupersede(w) PROVE CInv'
<1>0. CodesTypeOK /\ IdsInOrder /\ CodesExist /\ OneChecker /\ GuessesCounted /\ SpentOnce
  BY DEF CInv
<1>1. \A c \in Codes : /\ code'[c] \in CodeRows
                       /\ code'[c].row # "none" <=> code[c].row # "none"
                       /\ There(c)' => There(c)
                       /\ code'[c].attempts = code[c].attempts
                       /\ code'[c].guesses = code[c].guesses
                       /\ code'[c].resets = code[c].resets
                       /\ There(c)' /\ ~code'[c].used => ~code[c].used
  BY <1>0 DEF ForgotSupersede, There, Unused, DeletedRow, CodesTypeOK, CodeRows
<1>2. /\ doing[w].step = "supersede" /\ doing' = [doing EXCEPT ![w].step = "insert"]
      /\ code' \in [Codes -> CodeRows] /\ raced' = raced
  BY <1>1 DEF ForgotSupersede
<1>3. \A v \in Workers : /\ doing'[v].code = doing[v].code
                         /\ doing'[v].attempts = doing[v].attempts
                         /\ doing'[v].step = "count" <=> doing[v].step = "count"
                         /\ doing'[v].step = "reset" <=> doing[v].step = "reset"
  BY <1>0, <1>2 DEF CodesTypeOK, Steps
<1>4. CodesTypeOK'
  BY <1>0, <1>2 DEF CodesTypeOK, Steps
<1>5. IdsInOrder'
  BY <1>0, <1>1 DEF IdsInOrder
<1>6. CodesExist' /\ OneChecker'
  BY <1>0, <1>1, <1>2, <1>3 DEF CodesExist, OneChecker
<1>7. \A c \in Codes : Counted(c)' <=> Counted(c)
  BY <1>3 DEF Counted
<1>8. GuessesCounted'
  BY <1>0, <1>1, <1>2, <1>3, <1>7 DEF GuessesCounted
<1>9. SpentOnce'
  BY <1>0, <1>1, <1>2, <1>3 DEF SpentOnce
<1> QED
  BY <1>4, <1>5, <1>6, <1>8, <1>9 DEF CInv

LEMMA InsertCInv == ASSUME CInv, NEW w \in Workers, ForgotInsert(w) PROVE CInv'
<1>0. CodesTypeOK /\ IdsInOrder /\ CodesExist /\ OneChecker /\ GuessesCounted /\ SpentOnce
  BY DEF CInv
<1>1. PICK n \in 1..(MaxCodes + 1) :
        /\ \A c \in Codes : code[c].row # "none" <=> c < n
        /\ \A c \in Codes : code'[c] = IF c = n THEN NewRow ELSE code[c]
  BY NextCodeIsNew DEF ForgotInsert
<1>2. /\ \A v \in Workers : doing'[v] = IF v = w THEN Free ELSE doing[v]
      /\ doing[w].step = "insert" /\ raced' = raced
  BY <1>0 DEF ForgotInsert, CodesTypeOK
<1>3. \A v \in Workers : doing[v].code # n \/ n \notin Codes
  BY <1>0, <1>1, CodeAssumption DEF CodesExist, Codes
<1>4. Free.code = 0 /\ Free.step = "free" /\ Free \in Steps /\ 0 \notin Codes
  BY DEF Free, Steps, Codes
<1>5. /\ NewRow.row = "there" /\ NewRow.guesses = 0 /\ NewRow.attempts = 0 /\ NewRow.resets = 0
      /\ NewRow \in CodeRows
  BY RowFacts
<1>6. CodesTypeOK'
  BY <1>0, <1>1, <1>2, <1>4, <1>5 DEF CodesTypeOK, ForgotInsert
<1>7. IdsInOrder'
  <2>1. CASE n \notin Codes
    BY <1>0, <1>1, <2>1 DEF IdsInOrder
  <2>2. CASE n \in Codes
    <3>1. n + 1 \in 1..(MaxCodes + 1) /\ \A c \in Codes : code'[c].row # "none" <=> c < n + 1
      BY <1>1, <1>5, <2>2, CodeAssumption DEF Codes
    <3> QED
      BY <3>1 DEF IdsInOrder
  <2> QED
    BY <2>1, <2>2
<1>8. CodesExist' /\ OneChecker'
  BY <1>0, <1>1, <1>2, <1>3, <1>4, <1>5 DEF CodesExist, OneChecker
<1>9. \A c \in Codes : Counted(c)' <=> Counted(c)
  BY <1>2, <1>4 DEF Counted
<1>10. GuessesCounted'
  BY <1>0, <1>1, <1>2, <1>3, <1>4, <1>5, <1>9, CodeAssumption DEF GuessesCounted, There
<1>11. SpentOnce'
  BY <1>0, <1>1, <1>2, <1>3, <1>4, <1>5 DEF SpentOnce, There
<1> QED
  BY <1>6, <1>7, <1>8, <1>10, <1>11 DEF CInv

(* A worker takes the newest live code in hand: if another one has it, the *)
(* code counts as raced from now on.                                       *)
LEMMA CheckedFacts ==
  ASSUME CInv, NEW w \in Workers, NEW step \in {"count", "reset"}, NEW c \in Codes,
         Checked(w, step, c)
  PROVE  /\ There(c) /\ ~code[c].used /\ code[c].attempts < MaxAttempts
         /\ doing[w] = Free
         /\ raced \subseteq raced'
         /\ c \notin raced' => \A v \in Workers : doing[v].code # c
         /\ \A v \in Workers : doing'[v] =
              IF v = w THEN [step |-> step, code |-> c, attempts |-> code[c].attempts]
                       ELSE doing[v]
         /\ doing' \in [Workers -> Steps]
<1>1. CodesTypeOK
  BY DEF CInv
<1>2. /\ doing[w] = Free
      /\ doing' = [doing EXCEPT ![w] = [step |-> step, code |-> c, attempts |-> code[c].attempts]]
      /\ There(c) /\ ~code[c].used /\ code[c].attempts < MaxAttempts
      /\ raced' = IF Checking(c) THEN raced \cup {c} ELSE raced
  BY DEF Checked, Take, ActiveCode, Live
<1>3. code[c].attempts \in Nat
  BY <1>1 DEF CodesTypeOK, CodeRows
<1>4. [step |-> step, code |-> c, attempts |-> code[c].attempts] \in Steps
  BY <1>3 DEF Steps
<1>5. doing' \in [Workers -> Steps]
  BY <1>1, <1>2, <1>4 DEF CodesTypeOK
<1>6. c \notin raced' => \A v \in Workers : doing[v].code # c
  BY <1>2 DEF Checking
<1> QED
  BY <1>1, <1>2, <1>5, <1>6 DEF CodesTypeOK

(* A wrong guess: a code nobody else has in hand had its guesses counted.  *)
LEMMA GuessReadCInv == ASSUME CInv, NEW w \in Workers, GuessRead(w) PROVE CInv'
<1>0. CodesTypeOK /\ IdsInOrder /\ CodesExist /\ OneChecker /\ GuessesCounted /\ SpentOnce
  BY DEF CInv
<1>1. PICK c \in Codes :
        /\ Checked(w, "count", c)
        /\ code' = [code EXCEPT ![c].guesses = IF @ > MaxAttempts THEN @ ELSE @ + 1]
  BY DEF GuessRead
<1>2. /\ There(c) /\ ~code[c].used /\ code[c].attempts < MaxAttempts
      /\ doing[w] = Free
      /\ raced \subseteq raced'
      /\ c \notin raced' => \A v \in Workers : doing[v].code # c
      /\ \A v \in Workers : doing'[v] =
           IF v = w THEN [step |-> "count", code |-> c, attempts |-> code[c].attempts]
                    ELSE doing[v]
      /\ doing' \in [Workers -> Steps]
  BY <1>1, CheckedFacts
<1>3. Free.code = 0 /\ Free.step = "free" /\ 0 \notin Codes
  BY DEF Free, Codes
<1>4. /\ code' \in [Codes -> CodeRows]
      /\ \A d \in Codes : /\ code'[d].row = code[d].row
                          /\ code'[d].attempts = code[d].attempts
                          /\ code'[d].used = code[d].used
                          /\ code'[d].resets = code[d].resets
                          /\ d # c => code'[d].guesses = code[d].guesses
      /\ code'[c].guesses = IF code[c].guesses > MaxAttempts THEN code[c].guesses
                            ELSE code[c].guesses + 1
  BY <1>0, <1>1, CodeAssumption DEF CodesTypeOK, CodeRows
<1>5. CodesTypeOK'
  BY <1>0, <1>2, <1>4 DEF CodesTypeOK
<1>6. IdsInOrder'
  BY <1>0, <1>4 DEF IdsInOrder
<1>7. CodesExist'
  BY <1>0, <1>2, <1>4 DEF CodesExist, There
<1>8. OneChecker'
  BY <1>0, <1>2, <1>3 DEF OneChecker
<1>9. ASSUME NEW d \in Codes \ raced'
      PROVE  /\ code'[d].guesses <= MaxAttempts
             /\ There(d)' /\ Counted(d)' => code'[d].guesses = code'[d].attempts
             /\ \A v \in Workers : There(d)' /\ doing'[v].step = "count" /\ doing'[v].code = d =>
                  /\ code'[d].attempts = doing'[v].attempts
                  /\ code'[d].guesses = doing'[v].attempts + 1
  <2>1. CASE d = c
    <3>1. Counted(c) /\ \A v \in Workers : doing[v].code # c
      BY <1>2, <1>9, <2>1 DEF Counted
    <3>2. code[c].guesses = code[c].attempts /\ code[c].attempts \in Nat
      BY <1>0, <1>2, <1>9, <2>1, <3>1 DEF GuessesCounted, CodesTypeOK, CodeRows
    <3>3. code'[c].guesses = code[c].attempts + 1 /\ code'[c].guesses <= MaxAttempts
      BY <1>2, <1>4, <3>2, CodeAssumption
    <3>4. ~Counted(c)'
      BY <1>2 DEF Counted
    <3>5. \A v \in Workers : doing'[v].code = c => v = w
      BY <1>2, <3>1
    <3>6. doing'[w].attempts = code[c].attempts
      BY <1>2
    <3> QED
      BY <1>4, <2>1, <3>3, <3>4, <3>5, <3>6
  <2>2. CASE d # c
    <3>1. \A v \in Workers : doing'[v].code = d => doing'[v] = doing[v]
      BY <1>2, <2>2
    <3>2. \A v \in Workers : doing[v].code = d => doing'[v] = doing[v]
      BY <1>2, <1>3
    <3>3. Counted(d)' <=> Counted(d)
      BY <3>1, <3>2 DEF Counted
    <3>4. d \in Codes \ raced
      BY <1>2
    <3> QED
      BY <1>0, <1>4, <2>2, <3>1, <3>3, <3>4 DEF GuessesCounted, There
  <2> QED
    BY <2>1, <2>2
<1>10. GuessesCounted'
  BY <1>9 DEF GuessesCounted
<1>11. \A v \in Workers : doing'[v].step = "reset" => doing[v] = doing'[v]
  BY <1>2
<1>12. SpentOnce'
  BY <1>0, <1>2, <1>4, <1>11 DEF SpentOnce, There
<1> QED
  BY <1>5, <1>6, <1>7, <1>8, <1>10, <1>12 DEF CInv

(* Its count is written: the one the worker read, plus one.                *)
LEMMA GuessSaveCInv == ASSUME CInv, NEW w \in Workers, GuessSave(w) PROVE CInv'
<1>0. CodesTypeOK /\ IdsInOrder /\ CodesExist /\ OneChecker /\ GuessesCounted /\ SpentOnce
  BY DEF CInv
<1>1. PICK c : c = doing[w].code
  OBVIOUS
<1>2. /\ doing[w].step = "count" /\ raced' = raced
      /\ code' = IF There(c) THEN [code EXCEPT ![c].attempts = OneMore(w)] ELSE code
      /\ doing' = [doing EXCEPT ![w] = Free]
  BY <1>1 DEF GuessSave
<1>3. c \in Codes
  BY <1>0, <1>1, <1>2 DEF CodesTypeOK
<1>4. /\ Free.code = 0 /\ Free.step = "free" /\ Free \in Steps /\ 0 \notin Codes
      /\ OneMore(w) = doing[w].attempts + 1 /\ OneMore(w) \in Nat
  BY <1>0 DEF Free, Steps, Codes, CodesTypeOK, OneMore
<1>5. \A v \in Workers : doing'[v] = IF v = w THEN Free ELSE doing[v]
  BY <1>0, <1>2 DEF CodesTypeOK
<1>6. /\ code' \in [Codes -> CodeRows]
      /\ \A d \in Codes : /\ code'[d].row = code[d].row
                          /\ code'[d].guesses = code[d].guesses
                          /\ code'[d].used = code[d].used
                          /\ code'[d].resets = code[d].resets
                          /\ d # c => code'[d].attempts = code[d].attempts
      /\ There(c) => code'[c].attempts = doing[w].attempts + 1
  BY <1>0, <1>2, <1>3, <1>4 DEF CodesTypeOK, CodeRows
<1>7. CodesTypeOK'
  <2>1. doing' \in [Workers -> Steps]
    BY <1>0, <1>2, <1>4 DEF CodesTypeOK
  <2> QED
    BY <1>0, <1>4, <1>5, <1>6, <2>1 DEF CodesTypeOK
<1>8. IdsInOrder'
  BY <1>0, <1>6 DEF IdsInOrder
<1>9. CodesExist' /\ OneChecker'
  BY <1>0, <1>2, <1>4, <1>5, <1>6 DEF CodesExist, OneChecker
<1>10. ASSUME NEW d \in Codes \ raced'
       PROVE  /\ code'[d].guesses <= MaxAttempts
              /\ There(d)' /\ Counted(d)' => code'[d].guesses = code'[d].attempts
              /\ \A v \in Workers : There(d)' /\ doing'[v].step = "count" /\ doing'[v].code = d =>
                   /\ code'[d].attempts = doing'[v].attempts
                   /\ code'[d].guesses = doing'[v].attempts + 1
  <2>1. CASE d = c
    <3>1. \A v \in Workers : doing'[v].code # c
      BY <1>0, <1>1, <1>2, <1>3, <1>4, <1>5, <1>10, <2>1 DEF OneChecker
    <3>2. There(c) => code[c].guesses = doing[w].attempts + 1
      BY <1>0, <1>1, <1>2, <1>10, <2>1 DEF GuessesCounted
    <3>3. There(c)' <=> There(c)
      BY <1>3, <1>6 DEF There
    <3>4. code[c].guesses <= MaxAttempts
      BY <1>0, <1>2, <1>10, <2>1 DEF GuessesCounted
    <3> QED
      BY <1>3, <1>6, <2>1, <3>1, <3>2, <3>3, <3>4
  <2>2. CASE d # c
    <3>1. Counted(d)' <=> Counted(d)
      BY <1>1, <1>4, <1>5, <2>2 DEF Counted
    <3>2. \A v \in Workers : doing'[v].code = d => doing'[v] = doing[v]
      BY <1>4, <1>5
    <3> QED
      BY <1>0, <1>2, <1>6, <1>10, <2>2, <3>1, <3>2 DEF GuessesCounted, There
  <2> QED
    BY <2>1, <2>2
<1>11. GuessesCounted'
  BY <1>10 DEF GuessesCounted
<1>12. SpentOnce'
  BY <1>0, <1>2, <1>4, <1>5, <1>6 DEF SpentOnce, There
<1> QED
  BY <1>7, <1>8, <1>9, <1>11, <1>12 DEF CInv

(* A right guess opens a transaction: an unused code has reset nothing.    *)
LEMMA AcceptedCInv == ASSUME CInv, NEW w \in Workers, CodeAccepted(w) PROVE CInv'
<1>0. CodesTypeOK /\ IdsInOrder /\ CodesExist /\ OneChecker /\ GuessesCounted /\ SpentOnce
  BY DEF CInv
<1>1. PICK c \in Codes : Checked(w, "reset", c)
  BY DEF CodeAccepted
<1>2. /\ There(c) /\ ~code[c].used /\ code[c].attempts < MaxAttempts
      /\ doing[w] = Free
      /\ raced \subseteq raced'
      /\ c \notin raced' => \A v \in Workers : doing[v].code # c
      /\ \A v \in Workers : doing'[v] =
           IF v = w THEN [step |-> "reset", code |-> c, attempts |-> code[c].attempts]
                    ELSE doing[v]
      /\ doing' \in [Workers -> Steps]
  BY <1>1, CheckedFacts
<1>3. Free.code = 0 /\ Free.step = "free" /\ 0 \notin Codes /\ code' = code
  BY DEF Free, Codes, CodeAccepted
<1>4. CodesTypeOK'
  BY <1>0, <1>2, <1>3 DEF CodesTypeOK
<1>5. IdsInOrder'
  BY <1>0, <1>3 DEF IdsInOrder
<1>6. CodesExist'
  BY <1>0, <1>2, <1>3 DEF CodesExist, There
<1>7. OneChecker'
  BY <1>0, <1>2, <1>3 DEF OneChecker
<1>8. /\ \A v \in Workers : doing'[v].step = "count" => doing[v] = doing'[v]
      /\ \A v \in Workers : doing[v].step = "count" => doing[v] = doing'[v]
  BY <1>2, <1>3
<1>9. \A d \in Codes : Counted(d)' <=> Counted(d)
  BY <1>8 DEF Counted
<1>10. GuessesCounted'
  BY <1>0, <1>2, <1>3, <1>8, <1>9 DEF GuessesCounted, There
<1>11. \A v \in Workers : doing'[v].step = "reset" /\ v # w => doing[v] = doing'[v]
  BY <1>2
<1>12. SpentOnce'
  BY <1>0, <1>2, <1>3, <1>11 DEF SpentOnce, There
<1> QED
  BY <1>4, <1>5, <1>6, <1>7, <1>10, <1>12 DEF CInv

(* The transaction commits: the code is spent.                             *)
LEMMA ResetSaveCInv == ASSUME CInv, NEW w \in Workers, ResetSave(w) PROVE CInv'
<1>0. CodesTypeOK /\ IdsInOrder /\ CodesExist /\ OneChecker /\ GuessesCounted /\ SpentOnce
  BY DEF CInv
<1>1. PICK c : c = doing[w].code
  OBVIOUS
<1>2. /\ doing[w].step = "reset" /\ raced' = raced /\ There(c)
      /\ code' = [code EXCEPT ![c].used = TRUE, ![c].resets = IF @ = 0 THEN 1 ELSE 2]
      /\ doing' = [doing EXCEPT ![w] = Free]
  BY <1>1 DEF ResetSave
<1>3. c \in Codes
  BY <1>0, <1>1, <1>2 DEF CodesTypeOK
<1>4. Free.code = 0 /\ Free.step = "free" /\ Free \in Steps /\ 0 \notin Codes
  BY DEF Free, Steps, Codes
<1>5. \A v \in Workers : doing'[v] = IF v = w THEN Free ELSE doing[v]
  BY <1>0, <1>2 DEF CodesTypeOK
<1>6. /\ code' \in [Codes -> CodeRows]
      /\ \A d \in Codes : /\ code'[d].row = code[d].row
                          /\ code'[d].guesses = code[d].guesses
                          /\ code'[d].attempts = code[d].attempts
                          /\ d # c => /\ code'[d].resets = code[d].resets
                                      /\ code'[d].used = code[d].used
      /\ code'[c].used = TRUE
      /\ code'[c].resets = IF code[c].resets = 0 THEN 1 ELSE 2
  <2>1. PICK n \in 0..2 : n = IF code[c].resets = 0 THEN 1 ELSE 2
    OBVIOUS
  <2>2. code' = [code EXCEPT ![c] = [code[c] EXCEPT !.used = TRUE, !.resets = n]]
    BY <1>0, <1>2, <1>3, <2>1 DEF CodesTypeOK
  <2>3. [code[c] EXCEPT !.used = TRUE, !.resets = n] \in CodeRows
    BY <1>0, <1>3 DEF CodesTypeOK, CodeRows
  <2> QED
    BY <1>0, <1>3, <2>1, <2>2, <2>3 DEF CodesTypeOK, CodeRows
<1>7. CodesTypeOK'
  <2>1. doing' \in [Workers -> Steps]
    BY <1>0, <1>2, <1>4 DEF CodesTypeOK
  <2> QED
    BY <1>0, <1>4, <1>5, <1>6, <2>1 DEF CodesTypeOK
<1>8. IdsInOrder'
  BY <1>0, <1>6 DEF IdsInOrder
<1>9. CodesExist' /\ OneChecker'
  BY <1>0, <1>2, <1>4, <1>5, <1>6 DEF CodesExist, OneChecker
<1>10. \A d \in Codes : Counted(d)' <=> Counted(d)
  BY <1>2, <1>4, <1>5 DEF Counted
<1>11. GuessesCounted'
  BY <1>0, <1>2, <1>4, <1>5, <1>6, <1>10 DEF GuessesCounted, There
<1>12. ASSUME NEW d \in Codes \ raced'
       PROVE  /\ code'[d].resets <= 1
              /\ There(d)' /\ ~code'[d].used => code'[d].resets = 0
              /\ \A v \in Workers : doing'[v].step = "reset" /\ doing'[v].code = d =>
                   code'[d].resets = 0
  <2>1. CASE d = c
    <3>1. code'[c].resets = 1
      BY <1>0, <1>1, <1>2, <1>6, <1>12, <2>1 DEF SpentOnce
    <3>2. \A v \in Workers : doing'[v].code # c
      BY <1>0, <1>1, <1>2, <1>3, <1>4, <1>5, <1>12, <2>1 DEF OneChecker
    <3> QED
      BY <1>6, <2>1, <3>1, <3>2
  <2>2. CASE d # c
    BY <1>0, <1>2, <1>4, <1>5, <1>6, <1>12, <2>2 DEF SpentOnce, There
  <2> QED
    BY <2>1, <2>2
<1>13. SpentOnce'
  BY <1>12 DEF SpentOnce
<1> QED
  BY <1>7, <1>8, <1>9, <1>11, <1>13 DEF CInv

LEMMA TimeCInv == ASSUME CInv, NEW c \in Codes, TimePasses(c) PROVE CInv'
<1>0. CodesTypeOK /\ IdsInOrder /\ CodesExist /\ OneChecker /\ GuessesCounted /\ SpentOnce
  BY DEF CInv
<1>1. /\ doing' = doing /\ raced' = raced
      /\ code' = [code EXCEPT ![c].age = @ + 1] /\ code[c].age < DayOld
  BY DEF TimePasses
<1>2. /\ code' \in [Codes -> CodeRows]
      /\ \A d \in Codes : /\ code'[d].row = code[d].row
                          /\ code'[d].guesses = code[d].guesses
                          /\ code'[d].attempts = code[d].attempts
                          /\ code'[d].resets = code[d].resets
                          /\ code'[d].used = code[d].used
  BY <1>0, <1>1 DEF CodesTypeOK, CodeRows, Valid, DayOld
<1>3. CodesTypeOK' /\ CodesExist' /\ OneChecker'
  BY <1>0, <1>1, <1>2 DEF CodesTypeOK, CodesExist, OneChecker
<1>4. IdsInOrder'
  BY <1>0, <1>2 DEF IdsInOrder
<1>5. GuessesCounted'
  BY <1>0, <1>1, <1>2 DEF GuessesCounted, Counted, There
<1>6. SpentOnce'
  BY <1>0, <1>1, <1>2 DEF SpentOnce, There
<1> QED
  BY <1>3, <1>4, <1>5, <1>6 DEF CInv

LEMMA SameCodesCInv == ASSUME CInv, UNCHANGED <<code, doing, raced>> PROVE CInv'
BY DEF CInv, CodesTypeOK, IdsInOrder, CodesExist, OneChecker, GuessesCounted, SpentOnce,
       Counted, There

LEMMA NextCInv == CInv /\ [CodesNext]_allVars => CInv'
<1> SUFFICES ASSUME CInv, [CodesNext]_allVars PROVE CInv'
  OBVIOUS
<1>1. CASE UNCHANGED codeVars
  BY <1>1, SameCodesCInv DEF codeVars
<1>2. ASSUME NEW w \in Workers, CodeServe(w) PROVE CInv'
  <2>0. Free.code = 0 /\ Free.step = "free" /\ Free \in Steps
    BY DEF Free, Steps
  <2>1. CASE ForgotRead(w)
    <3>1. PICK q : q = [step |-> "supersede", code |-> 0, attempts |-> 0]
      OBVIOUS
    <3>2. /\ doing[w] = Free /\ doing' = [doing EXCEPT ![w] = q]
          /\ code' = code /\ raced' = raced
      BY <2>1, <3>1 DEF ForgotRead, Take
    <3>3. q \in Steps /\ q.code = 0 /\ q.step \notin {"count", "reset"}
      BY <3>1 DEF Steps
    <3> QED
      BY <2>0, <3>2, <3>3, QuietCInv
  <2>2. CASE ForgotSupersede(w)
    BY <2>2, SupersedeCInv
  <2>3. CASE ForgotInsert(w)
    BY <2>3, InsertCInv
  <2>4. CASE GuessRead(w)
    BY <2>4, GuessReadCInv
  <2>5. CASE GuessSave(w)
    BY <2>5, GuessSaveCInv
  <2>6. CASE CodeAccepted(w)
    BY <2>6, AcceptedCInv
  <2>7. CASE ResetSave(w)
    BY <2>7, ResetSaveCInv
  <2>8. CASE ResetFails(w)
    BY <2>0, <2>8, QuietCInv DEF ResetFails
  <2> QED
    BY <1>2, <2>1, <2>2, <2>3, <2>4, <2>5, <2>6, <2>7, <2>8 DEF CodeServe
<1>3. CASE \E c \in Codes : TimePasses(c)
  BY <1>3, TimeCInv
<1>4. CASE UNCHANGED allVars
  BY <1>1, <1>4 DEF allVars
<1> QED
  BY <1>1, <1>2, <1>3, <1>4 DEF CodesNext, SessionServe

(* The inductive invariant of the codes holds in every reachable state.    *)
THEOREM CodesInvariance == CodesSpec => []CInv
BY InitCInv, NextCInv, PTL DEF CodesSpec

(* A code is worn out by MaxAttempts wrong guesses and by one reset, for   *)
(* any number of workers, unless two requests had it in hand at a time.    *)
THEOREM CodesWearOutAlone == CodesSpec => []CodesWearOut
<1>1. CInv => CodesWearOut
  <2> SUFFICES ASSUME CInv, NEW c \in Codes \ raced
               PROVE  ~(code[c].guesses > MaxAttempts) /\ ~(code[c].resets > 1)
    BY DEF CodesWearOut
  <2>1. code[c].guesses \in Nat /\ code[c].resets \in Nat
    BY DEF CInv, CodesTypeOK, CodeRows
  <2>2. code[c].guesses <= MaxAttempts /\ code[c].resets <= 1
    BY DEF CInv, GuessesCounted, SpentOnce
  <2> QED
    BY <2>1, <2>2, CodeAssumption
<1> QED
  BY <1>1, CodesInvariance, PTL

(***************************************************************************)
(* How many codes live: a live code was inserted by a worker that had      *)
(* marked all the others used, so the workers that will insert one and the *)
(* codes that live are together no more than there are workers.            *)
(***************************************************************************)
Inserting == {w \in Workers : doing[w].step = "insert"}

FewLive == Cardinality(Live) + Cardinality(Inserting) <= Cardinality(Workers)

LEMMA CountsAreNumbers ==
  /\ \A S \in SUBSET Codes : IsFiniteSet(S) /\ Cardinality(S) \in Nat
  /\ \A S \in SUBSET Workers : IsFiniteSet(S) /\ Cardinality(S) \in Nat
                               /\ Cardinality(S) <= Cardinality(Workers)
  /\ Cardinality(Workers) \in Nat \ {0}
<1>1. IsFiniteSet(Codes)
  BY CodeAssumption, FS_Interval DEF Codes
<1>2. IsFiniteSet(Workers) /\ Workers # {}
  BY CodeAssumption
<1>3. Cardinality(Workers) \in Nat /\ Cardinality(Workers) # 0
  BY <1>2, FS_CardinalityType, FS_EmptySet
<1> QED
  BY <1>1, <1>2, <1>3, FS_Subset, FS_CardinalityType

LEMMA InitFewLive == CodesInit => FewLive
<1> SUFFICES ASSUME CodesInit PROVE FewLive
  OBVIOUS
<1>1. Inserting = {}
  BY DEF CodesInit, Inserting, Free
<1>2. Live \subseteq {1}
  <2>1. PICK s \in Situations : code = [c \in Codes |-> IF c <= s.issued THEN NewRow ELSE NoRow]
    BY DEF CodesInit
  <2>2. s.issued \in 0..1
    BY CodeAssumption
  <2>3. \A c \in Codes : c > 1 => code[c].row = "none"
    BY <2>1, <2>2, RowFacts DEF Codes
  <2> QED
    BY <2>3 DEF Live, There, Codes
<1>3. Cardinality(Live) <= 1 /\ Cardinality(Inserting) = 0
  <2>1. IsFiniteSet({1}) /\ Cardinality({1}) = 1
    BY FS_Singleton
  <2>2. Live \in SUBSET {1}
    BY <1>2
  <2>3. Cardinality(Live) <= Cardinality({1})
    BY <2>1, <2>2, FS_Subset
  <2>4. Cardinality(Inserting) = 0
    BY <1>1, FS_EmptySet
  <2> QED
    BY <2>1, <2>3, <2>4
<1>4. Cardinality(Live) \in Nat
  BY CountsAreNumbers DEF Live
<1> QED
  BY <1>3, <1>4, CountsAreNumbers DEF FewLive

(* What neither makes a code live nor a worker insert one.                 *)
LEMMA FewerLive ==
  ASSUME FewLive, Live' \subseteq Live, Inserting' \subseteq Inserting
  PROVE  FewLive'
<1>1. Cardinality(Live') <= Cardinality(Live) /\ Cardinality(Inserting') <= Cardinality(Inserting)
  BY CountsAreNumbers, FS_Subset DEF Live, Inserting
<1>2. /\ Cardinality(Live) \in Nat /\ Cardinality(Live') \in Nat
      /\ Cardinality(Inserting) \in Nat /\ Cardinality(Inserting') \in Nat
      /\ Cardinality(Workers) \in Nat
  BY CountsAreNumbers DEF Live, Inserting
<1> QED
  BY <1>1, <1>2 DEF FewLive

LEMMA SupersedeFewLive == ASSUME CInv, NEW w \in Workers, ForgotSupersede(w) PROVE FewLive'
<1>1. Live' = {}
  <2>1. ASSUME NEW c \in Codes PROVE ~(code'[c].row = "there" /\ ~code'[c].used /\ code'[c].age = Valid)
    <3>1. code[c] \in CodeRows
      BY DEF CInv, CodesTypeOK
    <3>2. code'[c] = IF There(c) /\ code[c].age = DayOld THEN DeletedRow(code[c])
                     ELSE IF Unused(c) THEN [code[c] EXCEPT !.used = TRUE] ELSE code[c]
      BY DEF ForgotSupersede
    <3>3. DeletedRow(code[c]).row = "deleted" /\ [code[c] EXCEPT !.used = TRUE].used
      BY <3>1 DEF DeletedRow, CodeRows
    <3> QED
      BY <3>2, <3>3 DEF Unused, There
  <2> QED
    BY <2>1 DEF Live, There
<1>2. Cardinality(Live') = 0
  BY <1>1, FS_EmptySet
<1>3. Cardinality(Inserting') \in Nat /\ Cardinality(Inserting') <= Cardinality(Workers)
  BY CountsAreNumbers DEF Inserting
<1> QED
  BY <1>2, <1>3, CountsAreNumbers DEF FewLive

LEMMA InsertFewLive == ASSUME CInv, FewLive, NEW w \in Workers, ForgotInsert(w) PROVE FewLive'
<1>1. Live' \subseteq Live \cup {NextCode}
  BY DEF ForgotInsert, Live, There
<1>2. Inserting' \subseteq Inserting \ {w} /\ w \in Inserting
  BY DEF ForgotInsert, Inserting, Free, CInv, CodesTypeOK
<1>3. IsFiniteSet(Live) /\ IsFiniteSet(Inserting)
  BY CountsAreNumbers DEF Live, Inserting
<1>4. Cardinality(Live') <= Cardinality(Live) + 1
  <2>1. /\ IsFiniteSet(Live \cup {NextCode})
        /\ Cardinality(Live \cup {NextCode}) \in {Cardinality(Live), Cardinality(Live) + 1}
    BY <1>3, FS_AddElement
  <2>2. Cardinality(Live') <= Cardinality(Live \cup {NextCode})
    BY <1>1, <2>1, FS_Subset
  <2>3. Cardinality(Live) \in Nat /\ Cardinality(Live') \in Nat
    BY CountsAreNumbers DEF Live
  <2> QED
    BY <2>1, <2>2, <2>3
<1>5. Cardinality(Inserting') <= Cardinality(Inserting) - 1
  <2>1. /\ IsFiniteSet(Inserting \ {w})
        /\ Cardinality(Inserting \ {w}) = Cardinality(Inserting) - 1
    BY <1>2, <1>3, FS_RemoveElement
  <2> QED
    BY <1>2, <2>1, FS_Subset
<1>6. /\ Cardinality(Live) \in Nat /\ Cardinality(Live') \in Nat
      /\ Cardinality(Inserting) \in Nat /\ Cardinality(Inserting') \in Nat
      /\ Cardinality(Workers) \in Nat
  BY CountsAreNumbers DEF Live, Inserting
<1> QED
  BY <1>4, <1>5, <1>6 DEF FewLive

(* No other request makes a code live, and time makes none young again.    *)
LEMMA NextFewLive == CInv /\ FewLive /\ [CodesNext]_allVars => FewLive'
<1> SUFFICES ASSUME CInv, FewLive, [CodesNext]_allVars PROVE FewLive'
  OBVIOUS
<1>0. CodesTypeOK
  BY DEF CInv
<1>1. CASE UNCHANGED codeVars
  <2>1. Live' = Live /\ Inserting' = Inserting
    BY <1>1 DEF codeVars, Live, There, Inserting
  <2> QED
    BY <2>1, FewerLive
<1>2. ASSUME NEW w \in Workers, CodeServe(w) PROVE FewLive'
  <2>1. CASE ForgotRead(w)
    <3>1. doing' = [doing EXCEPT ![w] = [step |-> "supersede", code |-> 0, attempts |-> 0]] /\ code' = code
      BY <2>1 DEF ForgotRead, Take
    <3>2. Live' = Live /\ Inserting' \subseteq Inserting
      BY <1>0, <3>1 DEF Live, There, Inserting, CodesTypeOK
    <3> QED
      BY <3>2, FewerLive
  <2>2. CASE ForgotSupersede(w)
    BY <2>2, SupersedeFewLive
  <2>3. CASE ForgotInsert(w)
    BY <2>3, InsertFewLive
  <2>4. CASE GuessRead(w)
    <3>1. PICK c \in Codes : /\ Checked(w, "count", c)
                             /\ code' = [code EXCEPT ![c].guesses = IF @ > MaxAttempts THEN @ ELSE @ + 1]
      BY <2>4 DEF GuessRead
    <3>2. Live' \subseteq Live
      BY <1>0, <3>1 DEF Live, There, CodesTypeOK, CodeRows
    <3>3. doing' = [doing EXCEPT ![w] = [step |-> "count", code |-> c, attempts |-> code[c].attempts]]
      BY <3>1 DEF Checked, Take
    <3>4. Inserting' \subseteq Inserting
      BY <1>0, <3>3 DEF Inserting, CodesTypeOK
    <3> QED
      BY <3>2, <3>4, FewerLive
  <2>5. CASE GuessSave(w)
    <3>1. Live' \subseteq Live
      BY <1>0, <2>5 DEF GuessSave, Live, There, CodesTypeOK, CodeRows
    <3>2. Inserting' \subseteq Inserting
      BY <1>0, <2>5 DEF GuessSave, Free, Inserting, CodesTypeOK
    <3> QED
      BY <3>1, <3>2, FewerLive
  <2>6. CASE CodeAccepted(w)
    <3>1. PICK c \in Codes : Checked(w, "reset", c)
      BY <2>6 DEF CodeAccepted
    <3>2. doing' = [doing EXCEPT ![w] = [step |-> "reset", code |-> c, attempts |-> code[c].attempts]]
      BY <3>1 DEF Checked, Take
    <3>3. Live' = Live /\ Inserting' \subseteq Inserting
      BY <1>0, <2>6, <3>2 DEF CodeAccepted, Live, There, Inserting, CodesTypeOK
    <3> QED
      BY <3>3, FewerLive
  <2>7. CASE ResetSave(w)
    <3>1. Live' \subseteq Live
      BY <1>0, <2>7 DEF ResetSave, Live, There, CodesTypeOK, CodeRows
    <3>2. Inserting' \subseteq Inserting
      BY <1>0, <2>7 DEF ResetSave, Free, Inserting, CodesTypeOK
    <3> QED
      BY <3>1, <3>2, FewerLive
  <2>8. CASE ResetFails(w)
    <3>1. Live' = Live /\ Inserting' \subseteq Inserting
      BY <1>0, <2>8 DEF ResetFails, Free, Live, There, Inserting, CodesTypeOK
    <3> QED
      BY <3>1, FewerLive
  <2> QED
    BY <1>2, <2>1, <2>2, <2>3, <2>4, <2>5, <2>6, <2>7, <2>8 DEF CodeServe
<1>3. ASSUME NEW c \in Codes, TimePasses(c) PROVE FewLive'
  <2>1. code' = [code EXCEPT ![c].age = @ + 1] /\ doing' = doing /\ code[c] \in CodeRows
    BY <1>0, <1>3 DEF TimePasses, CodesTypeOK
  <2>2. code[c].age + 1 # Valid
    BY <2>1 DEF CodeRows, Valid, DayOld
  <2>3. Live' \subseteq Live /\ Inserting' = Inserting
    BY <1>0, <2>1, <2>2 DEF Live, There, Inserting, CodesTypeOK, CodeRows
  <2> QED
    BY <2>3, FewerLive
<1>4. CASE UNCHANGED allVars
  BY <1>1, <1>4 DEF allVars
<1> QED
  BY <1>1, <1>2, <1>3, <1>4 DEF CodesNext, SessionServe

(***************************************************************************)
(* However many requests for a code overlap, they leave no more live codes *)
(* than there are workers, and one worker no more than one: each marks the *)
(* unused ones used before it inserts (auth_password_reset.py).            *)
(***************************************************************************)
THEOREM FewCodesLive == CodesSpec => []ResendingDoesNotMultiply
<1>1. FewLive => ResendingDoesNotMultiply
  <2>1. /\ Cardinality(Live) \in Nat /\ Cardinality(Inserting) \in Nat
        /\ Cardinality(Workers) \in Nat
    BY CountsAreNumbers DEF Live, Inserting
  <2> QED
    BY <2>1 DEF FewLive, ResendingDoesNotMultiply
<1>2. CInv /\ FewLive /\ [CodesNext]_allVars => FewLive'
  BY NextFewLive
<1> QED
  BY <1>1, <1>2, InitFewLive, CodesInvariance, PTL DEF CodesSpec


-----------------------------------------------------------------------------
(* The sessions under recovery.  A step of this module is, to the tables   *)
(* of the sessions, one of AuthSessions or a request given up.             *)
LEMMA CodesStepIsSessionStep ==
  ASSUME [CodesNext]_allVars
  PROVE  \/ [Next]_vars
         \/ \E w \in Workers : Done(w) /\ UNCHANGED <<password, active, pair, devices>>
<1>1. ASSUME NEW w \in Workers, SessionServe(w) PROVE Serve(w)
  BY <1>1 DEF SessionServe, Serve
<1>2. ASSUME NEW w \in Workers, CodeServe(w)
      PROVE  \/ Serve(w)
             \/ UNCHANGED vars
             \/ Done(w) /\ UNCHANGED <<password, active, pair, devices>>
  <2>1. CASE CodeAccepted(w)
    <3>1. active /\ req[w] = Idle
      BY <2>1 DEF CodeAccepted, Checked, Take
    <3>2. ResetRead(w)
      BY <2>1, <3>1 DEF CodeAccepted, ResetRead, Hold
    <3> QED
      BY <3>2 DEF Serve
  <2>2. CASE ResetSave(w)
    BY <2>2 DEF ResetSave, Serve
  <2>3. CASE ResetFails(w)
    BY <2>3 DEF ResetFails
  <2> QED
    BY <1>2, <2>1, <2>2, <2>3 DEF CodeServe, ForgotRead, ForgotSupersede, ForgotInsert,
                                  GuessRead, GuessSave
<1>3. CASE \E c \in Codes : TimePasses(c)
  BY <1>3 DEF TimePasses
<1>4. CASE UNCHANGED allVars
  BY <1>4 DEF allVars
<1> QED
  BY <1>1, <1>2, <1>3, <1>4 DEF CodesNext, Next

LEMMA InitSessions == CodesInit => IInv
<1> SUFFICES ASSUME NEW s \in Situations,
                    password = 1, active = TRUE, devices = {},
                    req = [w \in Workers |-> Idle],
                    pair = [t \in Tokens |->
                              IF t \in s.revoked THEN [Unissued EXCEPT !.row = "gone"]
                              ELSE Unissued]
             PROVE  IInv
  BY DEF CodesInit
<1> USE NullsAssumption, BoundAssumption, CodeAssumption
<1>0. 0 \in Passwords
  BY DEF Passwords
<1>1. PICK none \in Pairs : none = Unissued /\ none.row = "unissued" /\ none.pwd = 0 /\ none.proof = 0
  <2>1. Unissued \in Pairs /\ Unissued.row = "unissued" /\ Unissued.pwd = 0 /\ Unissued.proof = 0
    BY <1>0 DEF Unissued, Pairs
  <2> QED
    BY <2>1
<1>2. \A t \in Tokens : /\ pair[t] \in Pairs /\ pair[t].row # "live"
                        /\ pair[t].pwd = 0 /\ pair[t].proof = 0
  <2>1. \A t \in Tokens : pair[t] = IF t \in s.revoked THEN [none EXCEPT !.row = "gone"] ELSE none
    BY <1>1
  <2> QED
    BY <1>1, <2>1 DEF Pairs
<1>3. TypeOK
  BY <1>2 DEF TypeOK, Passwords, Requests, Idle, Ask, Kinds
<1>4. StampedByProof /\ LiveRowsHaveLogins /\ OneRowPerLogin
  BY <1>2 DEF StampedByProof, LiveRowsHaveLogins, OneRowPerLogin
<1>5. NoFuturePassword /\ RequestsWellFormed
  BY <1>2 DEF NoFuturePassword, RequestsWellFormed, WellFormed, Idle, Ask
<1> QED
  BY <1>3, <1>4, <1>5 DEF IInv

LEMMA CodesStepKeepsSessions == IInv /\ [CodesNext]_allVars => IInv'
<1> SUFFICES ASSUME IInv, [CodesNext]_allVars PROVE IInv'
  OBVIOUS
<1>1. CASE [Next]_vars
  BY <1>1, NextIInv
<1>2. CASE \E w \in Workers : Done(w) /\ UNCHANGED <<password, active, pair, devices>>
  BY <1>2, DoneIInv DEF IInv, TypeOK
<1> QED
  BY <1>1, <1>2, CodesStepIsSessionStep

(* With recovery by code among the requests, a token that works still      *)
(* descends from a login with the password now in force.                   *)
THEOREM RecoveryEvicts == CodesSpec => []TokensProvePassword
<1>1. IInv => TokensProvePassword
  BY DEF IInv, StampedByProof, TokensProvePassword, AccessWorks
<1> QED
  BY <1>1, InitSessions, CodesStepKeepsSessions, PTL DEF CodesSpec

(* And no two live refresh rows descend from one login.                    *)
THEOREM RecoveryKeepsRotation == CodesSpec => []OneRowPerLogin
<1>1. IInv => OneRowPerLogin
  BY DEF IInv
<1> QED
  BY <1>1, InitSessions, CodesStepKeepsSessions, PTL DEF CodesSpec

(* Nor does a refresh token that has stopped working work again.           *)
THEOREM RecoveryRevivesNothing == CodesSpec => DeadTokensStayDead
<1>1. ASSUME IInv, [CodesNext]_allVars
      PROVE  [\A t \in Tokens : Minted(t) /\ ~RefreshWorks(t) => ~RefreshWorks(t)']_vars
  <2>1. CASE [Next]_vars
    BY <1>1, <2>1, MintedTokensStayDead
  <2>2. CASE \E w \in Workers : Done(w) /\ UNCHANGED <<password, active, pair, devices>>
    BY <2>2 DEF RefreshWorks
  <2> QED
    BY <1>1, <2>1, <2>2, CodesStepIsSessionStep
<1>2. IInv /\ [CodesNext]_allVars =>
        [\A t \in Tokens : Minted(t) /\ ~RefreshWorks(t) => ~RefreshWorks(t)']_vars
  BY <1>1
<1> QED
  BY <1>2, InitSessions, CodesStepKeepsSessions, PTL DEF CodesSpec, DeadTokensStayDead

-----------------------------------------------------------------------------
(***************************************************************************)
(* AuthSessions implements Sessions, alone and with recovery by code, for  *)
(* any number of workers, logins, tokens and password changes.             *)
(*                                                                         *)
(* SessionOf chooses a token; the proof first says what it chooses (Told), *)
(* and then looks at tokens only.  A step either makes tokens less usable, *)
(* which is End (OverRefines), or mints one for a login, which is Begin,   *)
(* Rotate, or nothing when the password has changed (MintRefines).         *)
(***************************************************************************)

Own(l, t) == pair[t].login = l /\ Usable(t)

Told ==
  /\ SessionOf = [l \in Logins |-> SessionOf[l]]
  /\ \A l \in Logins :
       /\ SessionOf[l] \in Tokens \cup {NotStarted, Ended}
       /\ \A t \in Tokens : SessionOf[l] = t <=> Own(l, t)
       /\ SessionOf[l] = NotStarted <=> \A t \in Tokens : pair[t].login # l

(* A pair that is not minted belongs to nobody.                            *)
Blank == \A t \in Tokens : ~Minted(t) => pair[t].login \notin Logins

LEMMA SessionTold == IInv => Told
<1> SUFFICES ASSUME IInv PROVE Told
  OBVIOUS
<1>1. SessionOf = [l \in Logins |-> SessionOf[l]]
  BY DEF SessionOf
<1>2. ASSUME NEW l \in Logins
      PROVE  /\ SessionOf[l] \in Tokens \cup {NotStarted, Ended}
             /\ \A t \in Tokens : SessionOf[l] = t <=> Own(l, t)
             /\ SessionOf[l] = NotStarted <=> \A t \in Tokens : pair[t].login # l
  <2>1. SessionOf[l] =
          IF \E t \in Tokens : pair[t].login = l /\ Usable(t)
          THEN CHOOSE t \in Tokens : pair[t].login = l /\ Usable(t)
          ELSE IF \E t \in Tokens : pair[t].login = l THEN Ended ELSE NotStarted
    BY DEF SessionOf
  <2>2. CASE \E t \in Tokens : pair[t].login = l /\ Usable(t)
    <3>1. SessionOf[l] \in Tokens /\ Own(l, SessionOf[l])
      BY <2>1, <2>2 DEF Own
    <3>2. \A s, t \in Tokens : Own(l, s) /\ Own(l, t) => s = t
      BY DEF IInv, OneRowPerLogin, Own, Usable
    <3> QED
      BY <3>1, <3>2, NullsAssumption DEF Own
  <2>3. CASE ~\E t \in Tokens : pair[t].login = l /\ Usable(t)
    BY <2>1, <2>3, NullsAssumption DEF Own
  <2> QED
    BY <2>2, <2>3
<1> QED
  BY <1>1, <1>2 DEF Told

(* What only takes away the use of tokens ends some sessions, or none.     *)
LEMMA OverRefines ==
  ASSUME Told, Told',
         \A t \in Tokens : pair'[t].login = pair[t].login /\ (Usable(t)' => Usable(t))
  PROVE  AsSessions!Next
<1> DEFINE S == {l \in Logins : SessionOf'[l] # SessionOf[l]}
<1>1. ASSUME NEW l \in Logins, SessionOf'[l] # SessionOf[l] PROVE SessionOf'[l] = Ended
  <2>1. \A t \in Tokens : Own(l, t)' => Own(l, t)
    BY DEF Own
  <2> QED
    BY <1>1, <2>1 DEF Told
<1>2. SessionOf' = [l \in Logins |-> IF l \in S THEN Ended ELSE SessionOf[l]]
  <2>1. PICK f : f = SessionOf'
    OBVIOUS
  <2>2. f = [l \in Logins |-> f[l]] /\ \A l \in Logins : f[l] = IF l \in S THEN Ended ELSE SessionOf[l]
    BY <1>1, <2>1 DEF Told
  <2>3. f = [l \in Logins |-> IF l \in S THEN Ended ELSE SessionOf[l]]
    BY <2>2
  <2> QED
    BY <2>1, <2>3
<1>3. S \in SUBSET Logins
  OBVIOUS
<1> QED
  BY <1>2, <1>3 DEF AsSessions!Next, AsSessions!End

(* Minting t for l, whose old token can no longer be used: the session of  *)
(* l begins or goes on with t, if t can be used at all.                    *)
LEMMA MintRefines ==
  ASSUME Told, Told', Blank, NEW l \in Logins, NEW t \in Tokens,
         ~Minted(t), pair'[t].login = l,
         \A s \in Tokens \ {t} : /\ pair'[s].login = pair[s].login
                                 /\ pair[s].login # l => (Usable(s)' <=> Usable(s))
                                 /\ pair[s].login = l => ~Usable(s)',
         SessionOf[l] \in Tokens => Usable(t)',
         SessionOf[l] = Ended => ~Usable(t)'
  PROVE  AsSessions!Next \/ UNCHANGED SessionOf
<1>1. PICK f : f = SessionOf'
  OBVIOUS
<1>2. \A k \in Logins : ~Own(k, t) /\ SessionOf[k] # t
  BY DEF Told, Own, Usable, Minted
<1>3. ASSUME NEW k \in Logins, k # l PROVE f[k] = SessionOf[k]
  <2>1. \A s \in Tokens : Own(k, s)' <=> Own(k, s)
    BY <1>2, <1>3 DEF Own
  <2>2. (\A s \in Tokens : pair'[s].login # k) <=> (\A s \in Tokens : pair[s].login # k)
    BY <1>3 DEF Blank
  <2> QED
    BY <1>1, <2>1, <2>2 DEF Told
<1>4. f[l] = IF Usable(t)' THEN t ELSE Ended
  <2>1. \A s \in Tokens : Own(l, s)' <=> (s = t /\ Usable(t)')
    BY DEF Own
  <2> QED
    BY <1>1, <2>1 DEF Told
<1>5. f = [k \in Logins |-> f[k]] /\ SessionOf = [k \in Logins |-> SessionOf[k]]
  BY <1>1 DEF Told
<1>6. t \notin AsSessions!Held
  BY <1>2 DEF AsSessions!Held
<1>7. CASE Usable(t)'
  <2>1. f = [SessionOf EXCEPT ![l] = t]
    BY <1>3, <1>4, <1>5, <1>7
  <2>2. SessionOf[l] \in Tokens \/ SessionOf[l] = NotStarted
    BY <1>7 DEF Told
  <2> QED
    BY <1>1, <1>6, <2>1, <2>2, ZenonT(60) DEF AsSessions!Next, AsSessions!Begin, AsSessions!Rotate
<1>8. CASE ~Usable(t)'
  <2>1. f = [k \in Logins |-> IF k \in {l} THEN Ended ELSE SessionOf[k]]
    BY <1>3, <1>4, <1>5, <1>8
  <2> QED
    BY <1>1, <2>1 DEF AsSessions!Next, AsSessions!End
<1> QED
  BY <1>7, <1>8

-----------------------------------------------------------------------------
LEMMA SessionToldNext == IInv' => Told'
BY SessionTold, PTL

(* A step that mints nothing: it deletes rows, lets them expire, changes   *)
(* the password, or takes up a request, of a token that has not expired if *)
(* it is to be refreshed.                                                  *)
LEMMA AgeRefines ==
  ASSUME IInv, IInv', Blank, password <= password',
         \A t \in Tokens : /\ pair'[t].login = pair[t].login
                           /\ pair'[t].pwd = pair[t].pwd
                           /\ Minted(t)' <=> Minted(t)
                           /\ pair'[t].row = "live" => pair[t].row = "live"
                           /\ pair[t].expired => pair'[t].expired
                           /\ pair[t].expired /\ BeingRefreshed(t)' => BeingRefreshed(t)
  PROVE  AsSessions!Next /\ Blank'
<1>1. Blank'
  BY DEF Blank
<1>2. password \in Nat /\ password' \in Nat
  BY BoundAssumption DEF IInv, TypeOK, Passwords
<1>3. ASSUME NEW t \in Tokens, Usable(t)' PROVE Usable(t)
  <2>1. /\ pair'[t].row = "live" /\ pair[t].row = "live" /\ pair[t].pwd = password'
        /\ pair[t].expired => BeingRefreshed(t)
    BY <1>3 DEF Usable
  <2>2. pair[t].pwd <= password /\ pair[t].pwd \in Nat
    BY <2>1, BoundAssumption DEF IInv, NoFuturePassword, Minted, TypeOK, Pairs, Passwords
  <2> QED
    BY <1>2, <2>1, <2>2 DEF Usable
<1> QED
  BY <1>1, <1>3, SessionTold, SessionToldNext, OverRefines

(* Ending a request, and deleting rows on the way.                         *)
LEMMA DeleteRefines ==
  ASSUME IInv, IInv', Blank, NEW w \in Workers, NEW S, pair' = Deleted(S), Done(w),
         password <= password'
  PROVE  AsSessions!Next /\ Blank'
<1>1. TypeOK
  BY DEF IInv
<1>2. \A v \in Workers : req'[v] = req[v] \/ req'[v].kind = "none"
  BY <1>1 DEF TypeOK, Done, Idle, Ask
<1>3. \A t \in Tokens : BeingRefreshed(t)' => BeingRefreshed(t)
  BY <1>2 DEF BeingRefreshed
<1> QED
  BY <1>1, <1>3, DeletedFacts, AgeRefines DEF Minted

LEMMA HoldRefines ==
  ASSUME IInv, IInv', Blank, NEW w \in Workers, NEW q, Hold(w, q),
         q.kind = "refresh" => ~pair[q.token].expired
  PROVE  AsSessions!Next /\ Blank'
<1>1. TypeOK /\ UNCHANGED <<pair, password>> /\ password <= password
  BY BoundAssumption DEF IInv, TypeOK, Hold, Passwords
<1>2. \A v \in Workers : req'[v] = req[v] \/ req'[v] = q
  BY <1>1 DEF TypeOK, Hold
<1>3. \A t \in Tokens : pair[t].expired /\ BeingRefreshed(t)' => BeingRefreshed(t)
  BY <1>2 DEF BeingRefreshed
<1> QED
  BY <1>1, <1>3, AgeRefines DEF Minted

(* Minting a pair for l at the end of request w.                           *)
LEMMA IssueRefines ==
  ASSUME IInv, IInv', Blank, NEW w \in Workers, NEW S, NEW l \in Logins, NEW t \in Tokens,
         NEW proof, ~Minted(t), Done(w), password' = password,
         pair' = [Deleted(S) EXCEPT ![t] = IssuedPair(req[w], l, proof)],
         \A s \in S : pair[s].login = l,
         \A s \in Tokens : pair[s].login = l /\ pair[s].row = "live" => s \in S,
         req[w].kind = "refresh" => req[w].token \in S,
         SessionOf[l] \in Tokens => req[w].pwd = password,
         SessionOf[l] = Ended => req[w].pwd # password
  PROVE  (AsSessions!Next \/ UNCHANGED SessionOf) /\ Blank'
<1>0. TypeOK /\ S \cap Tokens \subseteq Tokens
  BY DEF IInv
<1>1. PICK new : /\ new = IssuedPair(req[w], l, proof)
                 /\ new.row = "live" /\ ~new.expired /\ new.pwd = req[w].pwd /\ new.login = l
  <2>1. PICK old : old = req[w]
    OBVIOUS
  <2>2. /\ IssuedPair(old, l, proof).row = "live" /\ ~IssuedPair(old, l, proof).expired
        /\ IssuedPair(old, l, proof).pwd = old.pwd /\ IssuedPair(old, l, proof).login = l
    BY DEF IssuedPair
  <2> QED
    BY <2>1, <2>2
<1>2. pair'[t] = new /\ \A s \in Tokens \ {t} : pair'[s] = Deleted(S)[s]
  BY <1>0, <1>1, DeletedFacts
<1>3. Usable(t)' <=> req[w].pwd = password
  BY <1>1, <1>2 DEF Usable
<1>4. \A v \in Workers \ {w} : req'[v] = req[v]
  BY <1>0 DEF TypeOK, Done
<1>5. req'[w].kind = "none"
  BY <1>0 DEF TypeOK, Done, Idle, Ask
<1>6. \A s \in Tokens : s \notin S => (BeingRefreshed(s)' <=> BeingRefreshed(s))
  BY <1>4, <1>5 DEF BeingRefreshed
<1>7. ASSUME NEW s \in Tokens \ {t}
      PROVE  /\ pair'[s].login = pair[s].login
             /\ Minted(s)' <=> Minted(s)
             /\ pair[s].login # l => (Usable(s)' <=> Usable(s))
             /\ pair[s].login = l => ~Usable(s)'
  <2>1. /\ pair'[s].login = pair[s].login
        /\ Minted(s)' <=> Minted(s)
        /\ pair'[s].row = "live" => pair[s].row = "live" /\ s \notin S
    BY <1>0, <1>2, DeletedFacts DEF Minted
  <2>2. CASE pair[s].login = l
    BY <2>1, <2>2 DEF Usable
  <2>3. CASE pair[s].login # l
    <3>1. s \notin S /\ pair'[s] = pair[s]
      BY <1>2, <2>3 DEF Deleted
    <3> QED
      BY <1>6, <2>1, <2>3, <3>1 DEF Usable
  <2> QED
    BY <2>1, <2>2, <2>3
<1>8. Minted(t)' /\ pair'[t].login = l
  BY <1>1, <1>2 DEF Minted
<1>9. Blank'
  BY <1>7, <1>8 DEF Blank
<1> QED
  BY <1>3, <1>7, <1>8, <1>9, SessionTold, SessionToldNext, MintRefines

LEMMA ServeRefines ==
  ASSUME IInv, IInv', Blank, NEW w \in Workers, Serve(w)
  PROVE  (AsSessions!Next \/ UNCHANGED SessionOf) /\ Blank'
<1>0. TypeOK /\ password <= password
  BY BoundAssumption DEF IInv, TypeOK, Passwords
<1>1. Told
  BY SessionTold
<1>2. pair = Deleted({})
  BY <1>0 DEF TypeOK, Deleted
<1>3. CASE \/ LoginRead(w) \/ RefreshRead(w) \/ LogoutRead(w) \/ ChangeRead(w)
           \/ ResetRead(w) \/ RegisterRead(w)
  <2>1. CASE RefreshRead(w)
    <3>1. PICK t \in Tokens, kind \in {"refresh", "logout"} :
            ~pair[t].expired /\ Hold(w, Ask(kind, t, NoDevice, password))
      BY <2>1 DEF RefreshRead
    <3>2. Ask(kind, t, NoDevice, password).token = t
      BY DEF Ask
    <3> QED
      BY <3>1, <3>2, HoldRefines
  <2>2. CASE ~RefreshRead(w)
    <3>1. PICK kind, t, d, pwd : kind # "refresh" /\ Hold(w, Ask(kind, t, d, pwd))
      BY <1>3, <2>2 DEF LoginRead, LogoutRead, ChangeRead, ResetRead, RegisterRead
    <3>2. Ask(kind, t, d, pwd).kind # "refresh"
      BY <3>1 DEF Ask
    <3> QED
      BY <3>1, <3>2, HoldRefines
  <2> QED
    BY <2>1, <2>2
<1>4. CASE PasswordBeyondBound(w) \/ RegisterSave(w)
  BY <1>0, <1>2, <1>4, DeleteRefines DEF PasswordBeyondBound, RegisterSave
<1>5. CASE LogoutSave(w)
  BY <1>0, <1>5, DeleteRefines DEF LogoutSave
<1>6. CASE PasswordSave(w)
  <2>1. password <= password'
    BY <1>0, <1>6, BoundAssumption DEF PasswordSave, NewPassword, TypeOK, Passwords
  <2> QED
    BY <1>6, <2>1, DeleteRefines DEF PasswordSave
<1>7. CASE LoginSave(w)
  <2>1. PICK l \in Logins, t \in Tokens :
          /\ \A s \in Tokens : pair[s].login # l
          /\ ~Minted(t)
          /\ pair' = [Deleted({}) EXCEPT ![t] = IssuedPair(req[w], l, req[w].pwd)]
    BY <1>2, <1>7 DEF LoginSave
  <2>2. SessionOf[l] = NotStarted
    BY <1>1, <2>1 DEF Told
  <2>3. Done(w) /\ password' = password /\ req[w].kind = "login"
    BY <1>7 DEF LoginSave
  <2> QED
    BY <2>1, <2>2, <2>3, NullsAssumption, IssueRefines
<1>8. CASE RefreshSave(w)
  <2>1. CASE pair' = Deleted({req[w].token})
    BY <1>0, <1>8, <2>1, DeleteRefines DEF RefreshSave
  <2>2. CASE /\ RowRemoved(req[w]) /\ FingerprintMatches(req[w])
             /\ \E t \in Tokens :
                  /\ ~Minted(t)
                  /\ pair' = [Deleted({req[w].token}) EXCEPT
                       ![t] = IssuedPair(req[w], pair[req[w].token].login, pair[req[w].token].proof)]
    <3>1. PICK old, l, proof : old = req[w].token /\ l = pair[old].login /\ proof = pair[old].proof
      OBVIOUS
    <3>2. PICK t \in Tokens : ~Minted(t) /\ pair' = [Deleted({old}) EXCEPT ![t] = IssuedPair(req[w], l, proof)]
      BY <2>2, <3>1
    <3>3. /\ req[w].kind = "refresh" /\ old \in Tokens
          /\ pair[old].row = "live" /\ pair[old].pwd = req[w].pwd
      BY <1>8, <2>2, <3>1 DEF RefreshSave, RowRemoved, FingerprintMatches, IInv,
                              RequestsWellFormed, WellFormed
    <3>4. l \in Logins /\ \A s \in Tokens : pair[s].login = l /\ pair[s].row = "live" => s = old
      BY <3>1, <3>3 DEF IInv, LiveRowsHaveLogins, OneRowPerLogin
    <3>5. SessionOf[l] \in Tokens => req[w].pwd = password
      BY <1>1, <3>3, <3>4 DEF Told, Own, Usable
    <3>6. SessionOf[l] = Ended => req[w].pwd # password
      <4>1. BeingRefreshed(old)
        BY <3>1, <3>3 DEF BeingRefreshed
      <4>2. req[w].pwd = password => Own(l, old)
        BY <3>1, <3>3, <4>1 DEF Own, Usable
      <4> QED
        BY <1>1, <3>3, <3>4, <4>2, NullsAssumption DEF Told
    <3>7. Done(w) /\ password' = password
      BY <1>8 DEF RefreshSave
    <3>8. /\ \A s \in {old} : pair[s].login = l
          /\ \A s \in Tokens : pair[s].login = l /\ pair[s].row = "live" => s \in {old}
          /\ req[w].kind = "refresh" => req[w].token \in {old}
          /\ l \in Logins
      BY <3>1, <3>4
    <3> QED
      BY <3>2, <3>5, <3>6, <3>7, <3>8, IssueRefines
  <2> QED
    BY <1>8, <2>1, <2>2 DEF RefreshSave
<1> QED
  BY <1>3, <1>4, <1>5, <1>6, <1>7, <1>8 DEF Serve

LEMMA StepRefines ==
  ASSUME IInv, IInv', Blank,
         \/ [Next]_vars
         \/ \E w \in Workers : Done(w) /\ UNCHANGED <<password, active, pair, devices>>
  PROVE  (AsSessions!Next \/ UNCHANGED SessionOf) /\ Blank'
<1>0. TypeOK /\ password <= password /\ pair = Deleted({})
  BY BoundAssumption DEF IInv, TypeOK, Passwords, Deleted
<1>1. CASE \E w \in Workers : Serve(w)
  BY <1>1, ServeRefines
<1>2. CASE \E w \in Workers : Done(w) /\ UNCHANGED <<password, active, pair, devices>>
  BY <1>0, <1>2, DeleteRefines
<1>3. CASE AdminSetsPassword \/ AdminTogglesActive \/ UNCHANGED vars
  <2>1. password <= password' /\ UNCHANGED <<pair, req>>
    BY <1>0, <1>3, BoundAssumption DEF AdminSetsPassword, AdminTogglesActive, vars, NewPassword,
                                       TypeOK, Passwords
  <2> QED
    BY <2>1, AgeRefines DEF Minted, BeingRefreshed
<1>4. CASE \E t \in Tokens : Expire(t)
  <2>1. PICK t \in Tokens : Expire(t)
    BY <1>4
  <2>2. \A s \in Tokens : /\ pair'[s].pwd = pair[s].pwd /\ pair'[s].login = pair[s].login
                          /\ pair'[s].row = pair[s].row
                          /\ pair[s].expired => pair'[s].expired
    BY <1>0, <2>1 DEF Expire, TypeOK, Pairs
  <2> QED
    BY <1>0, <2>1, <2>2, AgeRefines DEF Expire, Minted, BeingRefreshed
<1> QED
  BY <1>1, <1>2, <1>3, <1>4 DEF Next

LEMMA NobodyStarted ==
  (\A t \in Tokens : pair[t].login = NoLogin) => AsSessions!Init /\ Blank
<1> SUFFICES ASSUME \A t \in Tokens : pair[t].login = NoLogin PROVE AsSessions!Init /\ Blank
  OBVIOUS
<1>1. \A l \in Logins, t \in Tokens : pair[t].login # l
  BY NullsAssumption
<1> QED
  BY <1>1 DEF Blank, AsSessions!Init, SessionOf

(***************************************************************************)
(* The token endpoints keep the promise of Sessions: a login has one       *)
(* usable refresh token at a time, which a refresh replaces and logout,    *)
(* expiry and password changes end for good, however requests interleave   *)
(* (auth_login.py, refresh_tokens.py).                                     *)
(***************************************************************************)
THEOREM EndpointsKeepPromise == Spec => ImplementsSessions
<1>1. Init => AsSessions!Init /\ Blank
  BY NobodyStarted DEF Init, Unissued
<1>2. IInv /\ IInv' /\ Blank /\ [Next]_vars => (AsSessions!Next \/ UNCHANGED SessionOf) /\ Blank'
  BY StepRefines
<1> QED
  BY <1>1, <1>2, Invariance, PTL DEF Spec, ImplementsSessions, AsSessions!Spec

(* And so they do with recovery by emailed codes among the requests        *)
(* (auth_password_reset.py).                                               *)
THEOREM RecoveryKeepsPromise == CodesSpec => ImplementsSessions
<1>1. CodesInit => AsSessions!Init /\ Blank
  <2> SUFFICES ASSUME NEW s \in Situations,
                      pair = [t \in Tokens |->
                                IF t \in s.revoked THEN [Unissued EXCEPT !.row = "gone"]
                                ELSE Unissued]
               PROVE  \A t \in Tokens : pair[t].login = NoLogin
    BY NobodyStarted DEF CodesInit
  <2> QED
    BY DEF Unissued
<1>2. IInv /\ IInv' /\ Blank /\ [CodesNext]_allVars =>
        (AsSessions!Next \/ UNCHANGED SessionOf) /\ Blank'
  BY StepRefines, CodesStepIsSessionStep
<1> QED
  BY <1>1, <1>2, InitSessions, CodesStepKeepsSessions, PTL
     DEF CodesSpec, ImplementsSessions, AsSessions!Spec
==============================================================================

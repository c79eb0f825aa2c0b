------------------------------ MODULE ResetCodes ------------------------------
(***************************************************************************)
(* Password recovery by an emailed code, on top of the sessions of the     *)
(* account: forgot-password, verify-otp and reset-password over the rows   *)
(* of apis_passwordresetcode.  No request locks or re-reads anything: a    *)
(* worker reads, and later writes what it made of that reading.            *)
(***************************************************************************)
EXTENDS AuthSessions, FiniteSets

CONSTANTS
  MaxCodes,             \* bound: codes issued in one behaviour
  MaxAttempts,          \* PASSWORD_RESET_MAX_ATTEMPTS
  MaxRequestsPerHour,
  Situations            \* initial states (tokens revoked, codes issued), and the bound on
                        \* recovery requests to come

ASSUME CodeAssumption ==
  /\ MaxPassword >= 1
  /\ MaxCodes \in Nat /\ MaxAttempts \in Nat \ {0} /\ MaxRequestsPerHour \in Nat
  /\ \A s \in Situations : s.issued \in 0..1
  /\ IsFiniteSet(Workers) /\ Workers # {}

VARIABLES
  code,    \* the rows, in the order of their ids
  doing,   \* the recovery request each worker is serving
  raced,   \* history: codes that two requests were checking at a time
  left     \* bound: recovery requests, and steps of time, left

codeVars == <<code, doing, raced, left>>
allVars == <<vars, codeVars>>

Codes == 1..MaxCodes

(* How old a code is: still valid, past its TTL, past the hour of the      *)
(* request cap, past the day after which it is deleted.                    *)
Valid == 0
Expired == 1
HourOld == 2
DayOld == 3

(* `guesses` and `resets` are history: wrong guesses compared with the     *)
(* code, and passwords set with it.                                        *)
NoRow == [row |-> "none", used |-> FALSE, attempts |-> 0, age |-> Valid,
          guesses |-> 0, resets |-> 0]
NewRow == [NoRow EXCEPT !.row = "there"]
DeletedRow(r) == [r EXCEPT !.row = "deleted"]

Free == [step |-> "free", code |-> 0, attempts |-> 0]

There(c) == code[c].row = "there"
NextCode == CHOOSE c \in 1..(MaxCodes + 1) :
              \A d \in Codes : code[d].row # "none" <=> d < c

(* The password was set once before, which ended the sessions of then; a   *)
(* code may have been sent.                                                *)
CodesInit ==
  \E s \in Situations :
    /\ password = 1 /\ active = TRUE /\ devices = {}
    /\ req = [w \in Workers |-> Idle]
    /\ pair = [t \in Tokens |->
                 IF t \in s.revoked THEN [Unissued EXCEPT !.row = "gone"]
                 ELSE Unissued]
    /\ code = [c \in Codes |-> IF c <= s.issued THEN NewRow ELSE NoRow]
    /\ doing = [w \in Workers |-> Free]
    /\ raced = {} /\ left = s.requests

-----------------------------------------------------------------------------
RecentRequests == {c \in Codes : There(c) /\ code[c].age < HourOld}

(* active_code_for: the newest unused, unexpired one.                      *)
Live == {c \in Codes : There(c) /\ ~code[c].used /\ code[c].age = Valid}
ActiveCode(c) == c \in Live /\ \A d \in Live : d <= c

Take(w, step, c, attempts) ==
  /\ left > 0 /\ left' = left - 1
  /\ doing[w] = Free /\ req[w] = Idle
  /\ doing' = [doing EXCEPT ![w] = [step |-> step, code |-> c, attempts |-> attempts]]

(* POST /api/auth/forgot-password: a count, then three statements without  *)
(* a transaction: delete the day-old, mark the unused used, insert.        *)
ForgotRead(w) ==
  /\ active
  /\ Cardinality(RecentRequests) < MaxRequestsPerHour
  /\ NextCode <= MaxCodes
  /\ Take(w, "supersede", 0, 0)
  /\ UNCHANGED <<vars, code, raced>>

\* Mutant: a code is superseded only once it has been tried.
TriedUnused(c) == There(c) /\ ~code[c].used /\ code[c].attempts > 0
Unused(c) == There(c) /\ ~code[c].used

ForgotSupersede(w) ==
  /\ doing[w].step = "supersede"
  /\ code' = [c \in Codes |->
       IF There(c) /\ code[c].age = DayOld THEN DeletedRow(code[c])
       ELSE IF Unused(c) THEN [code[c] EXCEPT !.used = TRUE] ELSE code[c]]
  /\ doing' = [doing EXCEPT ![w].step = "insert"]
  /\ UNCHANGED <<vars, raced, left>>

(* The mail may fail: nobody learns that code, which changes nothing here. *)
(* A request beyond the bound on codes is dropped.                         *)
ForgotInsert(w) ==
  /\ doing[w].step = "insert"
  /\ code' = [c \in Codes |-> IF c = NextCode THEN NewRow ELSE code[c]]
  /\ doing' = [doing EXCEPT ![w] = Free]
  /\ UNCHANGED <<vars, raced, left>>

-----------------------------------------------------------------------------
(* check_code, by verify-otp and reset-password.                           *)
Checking(c) == \E w \in Workers : doing[w].code = c

Checked(w, step, c) ==
  /\ active /\ ActiveCode(c)
  /\ code[c].attempts < MaxAttempts
  /\ Take(w, step, c, code[c].attempts)
  /\ raced' = IF Checking(c) THEN raced \cup {c} ELSE raced

(* A wrong guess: attempts is incremented on the row object in memory.     *)
GuessRead(w) ==
  /\ \E c \in Codes :
       /\ Checked(w, "count", c)
       /\ code' = [code EXCEPT ![c].guesses = IF @ > MaxAttempts THEN @ ELSE @ + 1]
  /\ UNCHANGED vars

\* Mutant: the guess is reported and not counted.
Uncounted(w) == doing[w].attempts
OneMore(w) == doing[w].attempts + 1

GuessSave(w) ==
  LET c == doing[w].code IN
  /\ doing[w].step = "count"
  /\ code' = IF There(c) THEN [code EXCEPT ![c].attempts = OneMore(w)] ELSE code
  /\ doing' = [doing EXCEPT ![w] = Free]
  /\ UNCHANGED <<vars, raced, left>>

(* A right one to verify-otp changes nothing; to reset-password it opens   *)
(* the transaction that sets the password and spends the code.             *)
CodeAccepted(w) ==
  /\ \E c \in Codes : Checked(w, "reset", c)
  /\ req' = [req EXCEPT ![w] = Ask("reset", NoToken, NoDevice, password)]
  /\ UNCHANGED <<password, active, pair, devices, code>>

ResetSave(w) ==
  LET c == doing[w].code IN
  /\ doing[w].step = "reset"
  /\ There(c)
  /\ PasswordSave(w)
  /\ code' = [code EXCEPT ![c].used = TRUE, ![c].resets = IF @ = 0 THEN 1 ELSE 2]
  /\ doing' = [doing EXCEPT ![w] = Free]
  /\ UNCHANGED <<raced, left>>

(* Saving used_at of a row deleted meanwhile raises, and the transaction   *)
(* rolls the password back.  (A reset beyond the bound is dropped.)        *)
ResetFails(w) ==
  /\ doing[w].step = "reset"
  /\ There(doing[w].code) => password = MaxPassword
  /\ Done(w)
  /\ doing' = [doing EXCEPT ![w] = Free]
  /\ UNCHANGED <<password, active, pair, devices, code, raced, left>>

(* Codes age in the order of their ids.                                    *)
TimePasses(c) ==
  /\ left > 0 /\ left' = left - 1
  /\ There(c) /\ code[c].age < DayOld
  /\ \A d \in Codes : d < c /\ There(d) => code[d].age > code[c].age
  /\ code' = [code EXCEPT ![c].age = @ + 1]
  /\ UNCHANGED <<vars, doing, raced>>

-----------------------------------------------------------------------------
(* Everything AuthSessions serves, with the reset it left open done here.  *)
SessionServe(w) ==
  /\ doing[w] = Free
  /\ \/ LoginRead(w) \/ LoginSave(w) \/ RefreshRead(w) \/ RefreshSave(w)
     \/ LogoutRead(w) \/ LogoutSave(w) \/ ChangeRead(w)
     \/ PasswordSave(w) \/ PasswordBeyondBound(w) \/ RegisterRead(w) \/ RegisterSave(w)
  /\ UNCHANGED codeVars

CodeServe(w) ==
  \/ ForgotRead(w) \/ ForgotSupersede(w) \/ ForgotInsert(w)
  \/ GuessRead(w) \/ GuessSave(w)
  \/ CodeAccepted(w) \/ ResetSave(w) \/ ResetFails(w)

CodesNext ==
  \/ \E w \in Workers : SessionServe(w) \/ CodeServe(w)
  \/ (AdminSetsPassword \/ AdminTogglesActive) /\ UNCHANGED codeVars
  \/ \E t \in Tokens : Expire(t) /\ UNCHANGED codeVars
  \/ \E c \in Codes : TimePasses(c)

CodesSpec == CodesInit /\ [][CodesNext]_allVars

-----------------------------------------------------------------------------
(* Properties.                                                             *)

(* Asking again supersedes: with requests served one at a time there is    *)
(* never more than one live code, and parallel requests cannot leave more  *)
(* live codes than there are workers.                                      *)
ResendingDoesNotMultiply == Cardinality(Live) <= Cardinality(Workers)

(* A code is worn out by MaxAttempts wrong guesses and by one reset,       *)
(* unless two requests were checking it at the same time: then a guess may *)
(* overwrite the count of another, and both resets go through.             *)
CodesWearOut ==
  \A c \in Codes :
    code[c].guesses > MaxAttempts \/ code[c].resets > 1 => c \in raced
=============================================================================

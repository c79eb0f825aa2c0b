------------------------------- MODULE Reminders -------------------------------
(***************************************************************************)
(* The two daily jobs that push reminders: remind_death_anniversary (the   *)
(* gio of the persons one follows in a clan) and remind_appointment_date.  *)
(* Both collect a list of pushes, then send and log them one by one, while *)
(* users go on registering devices, following persons, joining, leaving    *)
(* and replacing their appointments.  A job may be killed between any two  *)
(* steps, fail to write its log, be run again, and overlap another run.    *)
(*                                                                         *)
(* One clan.  Rights and the tree's rules are the subject of other         *)
(* modules; here the roster and the tree just change.                      *)
(***************************************************************************)
EXTENDS Devices, LunarCalendar, FiniteSets

CONSTANTS
  Persons, Parents,      \* the tree: the parents on each person's row
  DeathOf,               \* lunar death date of the persons who have one
  Appts,                 \* bound: appointment ids ever given out
  Runs,                  \* processes that run the commands
  Scenarios,             \* initial states and bounds
  Unbound, NotMember

ASSUME RemindersAssumption ==
  /\ IsFiniteSet(Persons)
  /\ Parents \in [Persons -> SUBSET Persons]
  /\ DOMAIN DeathOf \subseteq Persons
  /\ {Unbound, NotMember} \cap Persons = {} /\ Unbound # NotMember

(* What a scenario starts with is what the database can hold.              *)
ASSUME ScenariosAssumption ==
  \A s \in Scenarios :
    /\ {s.from, s.to} \subseteq JdFromDate(1, 1, MinYear)..JdFromDate(31, 12, MaxYear)
    /\ s.device \in [Tokens -> DeviceRows]
    /\ s.member \in [Users -> Persons \cup {Unbound, NotMember}]
    /\ s.follow \in [Users -> [Persons -> {"none", "on", "off"}]]
    /\ \A a \in Appts : s.appt[a].state = "live" => s.appt[a].owner \in Users

VARIABLES
  day, lastDay,  \* today_vn(); bound: the last day of the behaviour
  before,        \* clan.gio_remind_before_days
  live,          \* persons that are not soft-deleted
  member,        \* the clanmember row of each user: the bound person, if any
  follow,        \* giofollow overrides: "none", "on", "off"
  appt,          \* appointment_dates rows
  log,           \* the two log tables: key -> "none", "failed", "sent"
  run,           \* what each process is doing
  left,          \* bound: requests and faults left
  fcm,           \* whether FCM (and the minting of its bearer token) can be reached
  accepted,      \* history: how often a device took the push of a key
  excused        \* history: keys whose log a crash, a failure or an overlap spoiled

vars == <<day, lastDay, before, live, member, follow, appt, log, run, left, fcm,
          accepted, excused, device>>
requestVars == <<day, lastDay, log, fcm, accepted, excused>>

(* What a push is about, which is also the unique key of its log row: the  *)
(* gio of a person on a day, for a user; an appointment, on a day.         *)
GioKey(p, u, d) == <<"gio", p, u, d>>
ApptKey(a, d) == <<"appointment", a, d>>

(* A namedtuple job with its recipient's tokens, as collected.             *)
Push(key, u, ts) == [key |-> key, user |-> u, tokens |-> ts]

IdleRun == [todo |-> {}, sending |-> {}, results |-> <<>>, touched |-> {}]

Absent == [state |-> "new", owner |-> NoUser, date |-> 0, lead |-> 0]

Init ==
  \E s \in Scenarios :
    /\ day = s.from /\ lastDay = s.to /\ left = s.left /\ fcm = s.fcm
    /\ before = s.before
    /\ device = s.device /\ member = s.member
    /\ appt = s.appt
    /\ live = Persons
    /\ follow = s.follow
    /\ log = <<>> /\ accepted = <<>> /\ excused = {}
    /\ run = [r \in s.runs |-> IdleRun]

At(f, key, default) == IF key \in DOMAIN f THEN f[key] ELSE default
Logged(key) == At(log, key, "none")
With(f, key, value) == [k \in DOMAIN f \cup {key} |-> IF k = key THEN value ELSE f[k]]

-----------------------------------------------------------------------------
(* Who follows whose gio: services/gio_follow.py.                          *)

(* clan_edges_all: the walk passes through soft-deleted persons.           *)
EdgesAll(p) == Parents[p]

Ancestors(self) ==
  LET seen[n \in 0..Cardinality(Persons)] ==
        IF n = 0 THEN EdgesAll(self)
        ELSE seen[n - 1] \cup UNION {EdgesAll(p) : p \in seen[n - 1]}
  IN seen[Cardinality(Persons)] \ {self}

\* Mutant: overrides are read without the join on the membership.
EveryOverride(u) == follow[u]
(* overrides_for_clan: only those of current members.                      *)
OverridesOf(u) ==
  IF member[u] = NotMember THEN [p \in Persons |-> "none"] ELSE follow[u]

(* followers_by_person, for one user: the persons among `due` they follow. *)
Followed(u, due) ==
  LET line == IF member[u] \in Persons THEN Ancestors(member[u]) \cap due ELSE {}
      overrides == OverridesOf(u)
  IN {p \in line : overrides[p] # "off"} \cup {p \in due : overrides[p] = "on"}

HasGio(p) == p \in live /\ p \in DOMAIN DeathOf

FirstDay == JdFromDate(1, 1, MinYear)
FinalDay == JdFromDate(31, 12, MaxYear)

(* The days of the calendar on which each person has a gio.                *)
GioDays ==
  [p \in DOMAIN DeathOf |->
     {d \in FirstDay..FinalDay : GioOccurrencesInRange(DeathOf[p], d, d) # {}}]

(* due_rows, on the persons of deceased_with_lunar_death.                  *)
DueOn(target) == {p \in live \cap DOMAIN DeathOf : target \in GioDays[p]}

GioPushes ==
  UNION {LET target == day + before
             tokens == ActiveTokens(u)
         IN IF tokens = {} THEN {}
            ELSE {Push(GioKey(p, u, target), u, tokens) : p \in Followed(u, DueOn(target))} :
         u \in Users}

(* due_appointments: every day from date - before_days to the date.        *)
InWindow(a) ==
  appt[a].state = "live" /\ appt[a].date - appt[a].lead <= day /\ day <= appt[a].date

ApptPushes ==
  {Push(ApptKey(a, day), appt[a].owner, ActiveTokens(appt[a].owner)) :
     a \in {b \in Appts : InWindow(b) /\ ActiveTokens(appt[b].owner) # {}}}

-----------------------------------------------------------------------------
(* A run of one of the commands.                                           *)

\* Mutant: a failed attempt blocks the retry, too.
AnyAttempt(key) == Logged(key) # "none"
(* notified_pairs and sent_today: `sent` rows only.                        *)
Already(key) == Logged(key) = "sent"

Holds(q) == {p.key : p \in run[q].todo \cup run[q].sending}

(* collect_due, and the log as dispatch reads it up front.                 *)
Start(r, pushes) ==
  LET todo == {p \in pushes : ~Already(p.key)} IN
  /\ run[r] = IdleRun
  /\ todo # {}
  /\ run' = [run EXCEPT ![r].todo = todo]
  /\ excused' = excused \cup
       UNION {Holds(q) \cap {p.key : p \in todo} : q \in DOMAIN run \ {r}}
  /\ UNCHANGED <<day, lastDay, before, live, member, follow, appt, log, left, fcm,
                 accepted, device>>

StartGio(r) == Start(r, GioPushes)
StartAppointments(r) == Start(r, ApptPushes)

\* Mutant: a push counts as delivered only when every device took it.
AllDelivered(results) == \A t \in DOMAIN results : results[t] = "ok"
Took(results) == Delivered(results)

(* What the tokens of one push are told.  With FCM out of reach all fail;  *)
(* otherwise a token is accepted or dead, and single errors use up faults. *)
Answers(ts) ==
  IF fcm = "down" THEN {[t \in ts |-> "error"]}
  ELSE {a \in FcmAnswers(ts) : left > 0 \/ \A t \in ts : a[t] # "error"}

Spent(results) ==
  IF fcm = "up" /\ \E t \in DOMAIN results : results[t] = "error" THEN left - 1 ELSE left

(* send_multicast for the next job of the list.  From here on the phones   *)
(* have it, and the database does not know.                                *)
Send(r) ==
  \E p \in run[r].todo : \E results \in Answers(p.tokens) :
    /\ run[r].sending = {}
    /\ run' = [run EXCEPT ![r].todo = @ \ {p}, ![r].sending = {p}, ![r].results = results]
    /\ accepted' = IF Delivered(results)
                   THEN With(accepted, p.key, IF At(accepted, p.key, 0) = 0 THEN 1 ELSE 2)
                   ELSE accepted
    /\ left' = Spent(results)
    /\ UNCHANGED <<day, lastDay, before, live, member, follow, appt, log, fcm,
                   excused, device>>

(* The run without what it was sending; touched is forgotten at the end.   *)
Next1(r) ==
  IF run[r].todo = {} THEN IdleRun
  ELSE [run[r] EXCEPT !.sending = {}, !.results = <<>>]

Loggable(key) == key[1] = "appointment" => appt[key[2]].state = "live"

(* deactivate_dead and log_attempt (update_or_create on the key).  The row *)
(* of an appointment deleted meanwhile cannot be written (foreign key).    *)
Record(r) ==
  \E p \in run[r].sending :
    /\ Loggable(p.key)
    /\ device' = Deactivated(run[r].results)
    /\ log' = With(log, p.key, IF Took(run[r].results) THEN "sent" ELSE "failed")
    /\ run' = [run EXCEPT ![r] = Next1(r)]
    /\ UNCHANGED <<day, lastDay, before, live, member, follow, appt, left, fcm,
                   accepted, excused>>

(* What is left of a push whose log write raised: the exception is caught, *)
(* and the run goes on.                                                    *)
Unlogged(r, p) ==
  /\ p \in run[r].sending
  /\ device' = Deactivated(run[r].results)
  /\ excused' = excused \cup {p.key}
  /\ run' = [run EXCEPT ![r] = Next1(r)]
  /\ UNCHANGED <<day, lastDay, before, live, member, follow, appt, log, fcm, accepted>>

RecordRefused(r) ==
  \E p \in run[r].sending : ~Loggable(p.key) /\ Unlogged(r, p) /\ UNCHANGED left

RecordFails(r) ==
  /\ left > 0 /\ left' = left - 1
  /\ \E p \in run[r].sending : Loggable(p.key) /\ Unlogged(r, p)

(* The process dies, or FCM turns out not to be configured ({}), which     *)
(* ends the run before anything is sent or logged.                         *)
Stop(r) ==
  /\ run[r] # IdleRun /\ left > 0
  /\ left' = left - 1
  /\ excused' = excused \cup {p.key : p \in run[r].sending}
  /\ run' = [run EXCEPT ![r] = IdleRun]
  /\ UNCHANGED <<day, lastDay, before, live, member, follow, appt, log, fcm, accepted,
                 device>>

-----------------------------------------------------------------------------
(* Meanwhile.  `touched` remembers, for each run under way, the users      *)
(* whose answer may have changed since it collected.                       *)
Touch(us) ==
  run' = [r \in DOMAIN run |-> IF run[r] = IdleRun THEN IdleRun
                         ELSE [run[r] EXCEPT !.touched = @ \cup us]]

Request(us) ==
  /\ left > 0 /\ left' = left - 1
  /\ Touch(us)
  /\ UNCHANGED requestVars

RegisterDevice ==
  \E t \in Tokens, u \in Users :
    /\ device' = Registered(t, u)
    /\ Request({u, device[t].owner} \cap Users)
    /\ UNCHANGED <<before, live, member, follow, appt>>

ForgetDevice ==
  \E t \in Tokens, u \in Users :
    /\ device' = Forgotten(t, u)
    /\ Request({u})
    /\ UNCHANGED <<before, live, member, follow, appt>>

(* PUT .../gio-follows/{person}: of a live person with a gio, by a member. *)
PutFollow ==
  \E u \in Users, p \in Persons, v \in {"on", "off"} :
    /\ member[u] # NotMember /\ HasGio(p)
    /\ follow' = [follow EXCEPT ![u][p] = v]
    /\ Request({u})
    /\ UNCHANGED <<before, live, member, appt, device>>

(* DELETE .../gio-follows/{person}: back to the default, gio or not.       *)
DeleteFollow ==
  \E u \in Users, p \in live :
    /\ member[u] # NotMember /\ follow[u][p] # "none"
    /\ follow' = [follow EXCEPT ![u][p] = "none"]
    /\ Request({u})
    /\ UNCHANGED <<before, live, member, appt, device>>

(* Joining, leaving (the overrides stay behind) and binding to a person:   *)
(* ClanMembership has the detail.                                          *)
RosterChanges ==
  \E u \in Users, p \in {Unbound, NotMember} \cup live :
    /\ p # member[u]
    /\ member[u] = NotMember => p = Unbound
    /\ \A v \in Users : p \in Persons => member[v] # p
    /\ member' = [member EXCEPT ![u] = p]
    /\ Request({u})
    /\ UNCHANGED <<before, live, follow, appt, device>>

(* A person is soft-deleted (which unbinds nobody) or restored.            *)
PersonChanges ==
  \E p \in Persons :
    /\ live' = IF p \in live THEN live \ {p} ELSE live \cup {p}
    /\ Request(Users)
    /\ UNCHANGED <<before, member, follow, appt, device>>

(* PATCH of the clan's setting.                                            *)
SettingChanges ==
  \E n \in {0, 1} :
    /\ n # before /\ before' = n
    /\ Request(Users)
    /\ UNCHANGED <<live, member, follow, appt, device>>

Owned(u) == {a \in Appts : appt[a].state = "live" /\ appt[a].owner = u}

(* POST /appointment-dates replaces the caller's list: the posted ids must *)
(* all be theirs, the others are deleted (their log goes with them), and   *)
(* items without an id become new rows.                                    *)
ReplaceAppointments ==
  \E u \in Users : \E keep \in SUBSET Owned(u) :
  \E new \in {{}} \cup {{a} : a \in {b \in Appts : appt[b].state = "new"}} :
  \E date \in {day, day + 1}, lead \in {0, 1} :
    /\ left > 0 /\ left' = left - 1
    /\ appt' = [a \in Appts |->
         IF a \in keep \cup new
         THEN [state |-> "live", owner |-> u, date |-> date, lead |-> lead]
         ELSE IF a \in Owned(u) THEN [Absent EXCEPT !.state = "gone"] ELSE appt[a]]
    /\ log' = [k \in {x \in DOMAIN log : ~(x[1] = "appointment" /\ x[2] \in Owned(u) \ keep)} |->
                 log[k]]
    /\ Touch({u})
    /\ UNCHANGED <<day, lastDay, before, live, member, follow, fcm, accepted, excused,
                   device>>

NewDay ==
  /\ day < lastDay
  /\ day' = day + 1
  /\ Touch(Users)
  /\ UNCHANGED <<lastDay, before, live, member, follow, appt, log, left, fcm, accepted,
                 excused, device>>

FcmFails ==
  /\ fcm = "up" /\ left > 0
  /\ fcm' = "down" /\ left' = left - 1
  /\ UNCHANGED <<day, lastDay, before, live, member, follow, appt, log, run, accepted,
                 excused, device>>

FcmRecovers ==
  /\ fcm = "down" /\ fcm' = "up"
  /\ UNCHANGED <<day, lastDay, before, live, member, follow, appt, log, run, left,
                 accepted, excused, device>>

GoesOn(r) ==
  /\ r \in DOMAIN run
  /\ StartGio(r) \/ StartAppointments(r) \/ Send(r) \/ Record(r) \/ RecordRefused(r)

Next ==
  \/ \E r \in DOMAIN run : GoesOn(r) \/ RecordFails(r) \/ Stop(r)
  \/ RegisterDevice \/ ForgetDevice \/ PutFollow \/ DeleteFollow
  \/ RosterChanges \/ PersonChanges \/ SettingChanges \/ ReplaceAppointments
  \/ NewDay \/ FcmFails \/ FcmRecovers

(* A process that has begun goes on, the commands are run again while      *)
(* something is owed, an outage of FCM ends.  Days, users and faults are   *)
(* free to stop.                                                           *)
Fairness ==
  /\ \A r \in Runs : WF_vars(GoesOn(r))
  /\ WF_vars(FcmRecovers)

Spec == Init /\ [][Next]_vars /\ Fairness

-----------------------------------------------------------------------------
(* Properties.                                                             *)

(* Nobody is pushed the same reminder twice, over all devices, re-runs,    *)
(* days, changes of the lead time and edits, unless a run lost its log     *)
(* (killed between push and log, or the write failed) or overlapped        *)
(* another that was about to send the same.                                *)
RemindedOnce ==
  \A k \in DOMAIN accepted : accepted[k] > 1 => k \in excused

(* What the lists should contain, said without walks: p is above self iff  *)
(* it is in every set that contains self's parents and is closed upwards.  *)
IsAncestor(p, self) ==
  /\ p # self
  /\ \A S \in SUBSET Persons :
       Parents[self] \subseteq S /\ (\A q \in S : Parents[q] \subseteq S) => p \in S

Follows(u, p) ==
  /\ member[u] # NotMember
  /\ \/ follow[u][p] = "on"
     \/ follow[u][p] = "none" /\ member[u] \in Persons /\ IsAncestor(p, member[u])

LunarOf == [d \in FirstDay..(FinalDay + 1) |-> SolarToLunar(d)]

(* The custom: the lunar day itself in the regular month, or the last day  *)
(* of a month too short for day 30.                                        *)
Observes(death, d) ==
  /\ ~LunarOf[d].leap /\ LunarOf[d].month = death.month
  /\ \/ LunarOf[d].day = death.day
     \/ death.day = 30 /\ LunarOf[d].day = 29 /\ LunarOf[d + 1].day = 1

IsFor(push) ==
  IF push.key[1] = "gio"
  THEN /\ push.key[3] = push.user
       /\ HasGio(push.key[2]) /\ Observes(DeathOf[push.key[2]], push.key[4])
       /\ Follows(push.user, push.key[2])
  ELSE InWindow(push.key[2]) /\ appt[push.key[2]].owner = push.user

(* What a run is about to push is meant for that user and goes to their    *)
(* devices, all of the active ones, unless something about that user       *)
(* changed after the run collected: nothing reaches someone who left the   *)
(* clan before, a device that had changed hands, or a gio dropped or       *)
(* deleted before.                                                         *)
PushesReachTheirAudience ==
  \A r \in DOMAIN run : \A push \in run[r].todo :
    push.user \notin run[r].touched =>
      /\ IsFor(push)
      /\ \A t \in push.tokens : device[t].owner = push.user
      /\ ActiveTokens(push.user) \subseteq push.tokens

Owed(k) ==
  IF k[1] = "gio"
  THEN /\ k[4] = day + before /\ ActiveTokens(k[3]) # {}
       /\ HasGio(k[2]) /\ Observes(DeathOf[k[2]], k[4]) /\ Follows(k[3], k[2])
  ELSE /\ k[3] = day /\ InWindow(k[2])
       /\ ActiveTokens(appt[k[2]].owner) # {}

Keys ==
  LET days == UNION {s.from..s.to : s \in {x \in Scenarios : x.left > 0}} IN
  {k \in {GioKey(p, u, d) : p \in DOMAIN DeathOf, u \in Users, d \in {e + n : e \in days, n \in {0, 1}}} :
     k[4] \in GioDays[k[2]]}
    \cup {ApptKey(a, d) : a \in Appts, d \in days}

(* A reminder that is due stays owed, through outages, failed attempts and *)
(* crashes, until it has gone out or is no longer due (the day, the        *)
(* follower, the device or the appointment has gone).  An ancestor behind  *)
(* a soft-deleted one is owed like any other.                              *)
DueRemindersGoOut ==
  \A k \in Keys : Owed(k) ~> (Logged(k) = "sent" \/ ~Owed(k))

(* Day after day the lunar date moves on by one, into the next month after *)
(* the length of the month, leap month included, and leads back to the     *)
(* same day: no month boundary is shifted, skipped or doubled.             *)
NextMonth(l, n) ==
  \/ ~l.leap /\ n = [l EXCEPT !.leap = TRUE]
  \/ n = [l EXCEPT !.leap = FALSE, !.month = (l.month % 12) + 1,
                   !.year = IF l.month = 12 THEN l.year + 1 ELSE l.year]
LunarDatesAdvance ==
  LET l == LunarOf[day]
      n == LunarOf[day + 1]
  IN /\ LunarToSolar(l) = day
     /\ IF l.day < MonthLength(l.month, l.year, l.leap)
        THEN n = [l EXCEPT !.day = l.day + 1]
        ELSE n.day = 1 /\ NextMonth([l EXCEPT !.day = 1], n)

(* A gio falls on its lunar day every year, on the 29th where the month    *)
(* has no 30th, never in a leap month.  The daily sweep finds it there, and *)
(* so does every calendar a member can open that day, once and under the   *)
(* right lunar year, from whatever side of the lunar new year it comes.    *)
GioDates ==
  [d \in FirstDay..FinalDay |->
     \A death \in {Death(n, m) : n \in {1, 29, 30}, m \in 1..12} :
       (GioOccurrencesInRange(death, d, d) # {}) <=> Observes(death, d)]
DeathsAsked == {Death(n, m) : n \in {1, 30}, m \in {1, 6, 11, 12}}
CalendarHolds ==
  [w \in {v \in UNION {Windows(d) : d \in FirstDay..FinalDay} : ValidWindow(v)} |->
     ItemsFor([death \in DeathsAsked |-> death], w) =
       {Item(g[1], g[1], LunarOf[g[2]].year, g[2], LunarOf[g[2]].day) :
          g \in {h \in DeathsAsked \X (w[1]..w[2]) : Observes(h[1], h[2])}}]
GioKeepsItsLunarDay ==
  GioDates[day] /\ \A w \in Windows(day) : ValidWindow(w) => CalendarHolds[w]
=============================================================================

------------------------------ MODULE MCReminders ------------------------------
(***************************************************************************)
(* The lunations around 2025 and 2026 (from services/vn_lunar.py): 2025    *)
(* repeats its 6th month.  Two days before Tet 2025, when the 12th month   *)
(* has 29 days, with requests and faults; and every day of the two years   *)
(* with none.                                                              *)
(***************************************************************************)
EXTENDS Reminders, TLC

CONSTANTS Ann, Binh, TokenA, TokenB, Grandfather, Father, Child, A1, A2, R1, R2

MCMoons == <<2459849, 2459878, 2459908, 2459937, 2459967, 2459996, 2460026, 2460055, 2460084,
  2460114, 2460144, 2460173, 2460203, 2460233, 2460262, 2460292, 2460321, 2460351, 2460380,
  2460410, 2460439, 2460468, 2460498, 2460527, 2460557, 2460587, 2460616, 2460646, 2460676,
  2460705, 2460735, 2460764, 2460794, 2460823, 2460852, 2460882, 2460911, 2460941, 2460970,
  2461000, 2461030, 2461060, 2461089, 2461119, 2461148, 2461178, 2461207, 2461236, 2461266,
  2461295, 2461324, 2461354, 2461384, 2461414, 2461443, 2461473, 2461503, 2461532, 2461562,
  2461591, 2461620, 2461650, 2461679, 2461708, 2461738, 2461768, 2461797, 2461827, 2461857,
  2461887, 2461916, 2461946, 2461975, 2462004, 2462034, 2462063, 2462092, 2462122, 2462152,
  2462181>>
MCSectors == <<6, 7, 8, 9, 10, 11, 0, 0, 1, 2, 3, 4, 5, 6, 7, 8, 9, 10, 11, 0, 1, 2, 3, 4, 5, 6, 7,
  8, 9, 10, 11, 0, 1, 2, 3, 4, 4, 5, 6, 7, 8, 9, 10, 11, 0, 1, 2, 3, 4, 5, 6, 7, 8, 9, 10, 11, 0,
  1, 2, 3, 4, 5, 6, 7, 8, 9, 10, 11, 0, 1, 2, 3, 3, 4, 5, 6, 7, 8, 9, 10>>

\* What the theorems about the calendar ask of the lunations.
ASSUME MoonsOnTime == NewMoonsOnTime

MCParents == (Grandfather :> {}) @@ (Father :> {Grandfather}) @@ (Child :> {Father})
MCDeathOf == (Grandfather :> Death(30, 12)) @@ (Father :> Death(1, 1))

NoDevices == [t \in Tokens |-> NoDeviceRow]
NoAppts == [a \in Appts |-> Absent]
Tet == 2460705

Family == (Ann :> Child) @@ (Binh :> Unbound)
NoFollows == [u \in Users |-> [p \in Persons |-> "none"]]
BinhFollows == [NoFollows EXCEPT ![Binh][Grandfather] = "on"]
Registrations == (TokenA :> Ann) @@ (TokenB :> Binh)

Own(owners) == [t \in Tokens |-> [owner |-> owners[t], active |-> TRUE]]

TwoDays == [from |-> Tet - 2, to |-> Tet - 1, left |-> 1, fcm |-> "up", runs |-> {R1}, before |-> 1,
            member |-> Family, follow |-> BinhFollows, device |-> Own(Registrations),
            appt |-> NoAppts]
Overlap == [TwoDays EXCEPT !.to = Tet - 2, !.runs = {R1, R2}]
Outage == [Overlap EXCEPT !.fcm = "down", !.left = 0]
Appointments ==
  [TwoDays EXCEPT !.follow = NoFollows, !.before = 0, !.device = Own([t \in Tokens |-> Ann]),
     !.appt[A1] = [state |-> "live", owner |-> Ann, date |-> Tet - 1, lead |-> 1]]
Calendar ==
  [TwoDays EXCEPT !.from = 2460677, !.to = 2461405, !.left = 0, !.device = NoDevices]

MCScenarios == {TwoDays, Overlap, Outage, Appointments, Calendar}
=============================================================================

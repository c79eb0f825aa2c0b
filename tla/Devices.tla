-------------------------------- MODULE Devices --------------------------------
(***************************************************************************)
(* The push registrations (giapha_devicetoken, unique by token) and what   *)
(* FCM can answer to a send.                                               *)
(***************************************************************************)
EXTENDS Naturals

CONSTANTS Users, Tokens, NoUser

ASSUME NoUserAssumption == NoUser \notin Users

VARIABLE device   \* token -> its row; owner NoUser means that there is none

DeviceRows == [owner : Users \cup {NoUser}, active : BOOLEAN]
NoDeviceRow == [owner |-> NoUser, active |-> FALSE]

ActiveTokens(u) == {t \in Tokens : device[t].owner = u /\ device[t].active}

(* POST /devices: an upsert by token alone, which takes the row over and   *)
(* revives it.                                                             *)
Registered(t, u) == [device EXCEPT ![t] = [owner |-> u, active |-> TRUE]]

(* DELETE /devices: only one's own row.                                    *)
Forgotten(t, u) ==
  [device EXCEPT ![t] = IF @.owner = u THEN NoDeviceRow ELSE @]

(* What send_multicast reports for a token: accepted, dead (uninstalled or *)
(* malformed), or any transient failure, the minting of the OAuth bearer   *)
(* included.  The caller's catch reports the last for an exception.        *)
Results == {"ok", "dead", "error"}
FcmAnswers(ts) == [ts -> Results]
Delivered(results) == \E t \in DOMAIN results : results[t] = "ok"

(* deactivate_dead.                                                        *)
Deactivated(results) ==
  [t \in Tokens |->
     IF t \in DOMAIN results /\ results[t] = "dead" /\ device[t].owner # NoUser
     THEN [device[t] EXCEPT !.active = FALSE] ELSE device[t]]
================================================================================

---------------------------- MODULE MCFleetClient ----------------------------
(***************************************************************************)
(* Instances of FleetClient for TLC: two profiles that set everything, one *)
(* with the zone and one with the url alone, one that is refused at once,  *)
(* one refused for a zone without BLE, and one whose mqtt_url does not     *)
(* parse.                                                                  *)
(***************************************************************************)
EXTENDS FleetClient

CONSTANTS z1, z2, absent, none, good, malformed

Env == [poll |-> 30, url |-> none, ble |-> 0, zone |-> none]

Full == [poll |-> 10, url |-> good, ble |-> 5, zone |-> z1]
Other == [poll |-> 20, url |-> good, ble |-> 3, zone |-> z2]
ZoneOnly == [poll |-> absent, url |-> absent, ble |-> absent, zone |-> z2]
BadPoll == [Full EXCEPT !.poll = 0]
BadUrl == [Full EXCEPT !.url = malformed]
NoBle == [Full EXCEPT !.ble = 0]
UrlOnly == [poll |-> absent, url |-> good, ble |-> absent, zone |-> absent]

AllProfiles == {Full, Other, ZoneOnly, BadPoll, BadUrl, NoBle, UrlOnly}
TwoProfiles == {Full, ZoneOnly}
==============================================================================

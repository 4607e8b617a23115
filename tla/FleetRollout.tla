----------------------------- MODULE FleetRollout -----------------------------
(***************************************************************************)
(* What the fleet client of radiochron-agent promises the fleet, without   *)
(* exchanges, profiles, lost answers or kills: a device goes forward       *)
(* through the revisions it is offered, runs the one it has on disk        *)
(* ("exiting so the service manager restarts with the new configuration",  *)
(* main.rs), reports the one it runs, and stays enrolled.                  *)
(* FleetClient.tla implements it.                                          *)
(***************************************************************************)
EXTENDS Naturals

VARIABLES
  offered,   \* the revision the fleet offers, 0 for none
  enrolled,  \* the device has its identity
  stored,    \* the revision on its disk
  running,   \* the revision it runs with, as a set of at most one
  reported   \* the last one it reported

rvars == <<offered, enrolled, stored, running, reported>>

RInit ==
  /\ offered = 0 /\ stored = 0 /\ reported = 0
  /\ enrolled = FALSE /\ running = {}

Publish ==
  /\ offered' = offered + 1
  /\ UNCHANGED <<enrolled, stored, running, reported>>

\* Once and for all.
Enroll ==
  /\ enrolled' = TRUE
  /\ UNCHANGED <<offered, stored, running, reported>>

\* Forward only, by an enrolled device, and what ran before runs no longer.
Adopt(r) ==
  /\ enrolled /\ stored < r
  /\ stored' = r
  /\ running' = {}
  /\ UNCHANGED <<offered, enrolled, reported>>

Run ==
  /\ running = {}
  /\ running' = {stored}
  /\ UNCHANGED <<offered, enrolled, stored, reported>>

Stop ==
  /\ running' = {}
  /\ UNCHANGED <<offered, enrolled, stored, reported>>

Report ==
  /\ reported' \in running
  /\ UNCHANGED <<offered, enrolled, stored, running>>

RNext == Publish \/ Enroll \/ (\E r \in 1..offered : Adopt(r)) \/ Run \/ Stop \/ Report

RSpec == RInit /\ [][RNext]_rvars
==============================================================================

----------------------------- MODULE FleetClient -----------------------------
(***************************************************************************)
(* The fleet client of radiochron-agent (src/fleet.rs), the profiles it    *)
(* applies (src/config.rs) and its place in src/main.rs: the cached        *)
(* revision is applied to the environment's settings, bootstrap exchanges  *)
(* once before exporters and collectors are built, and every tick after    *)
(* that may end the process so that it restarts with a new revision.       *)
(*                                                                         *)
(* Abstractions.                                                           *)
(*  - A profile sets four of the settings, one for each way apply_profile  *)
(*    treats them: poll_seconds (refused when 0), mqtt_url (any string is  *)
(*    taken, and parsed when the exporters are built), ble_scan_seconds    *)
(*    (0 turns BLE off) and ble_zone (refused unless BLE is on).           *)
(*  - Signatures are right: what the fleet publishes verifies.             *)
(*  - An exchange may fail at any of its calls, and the poll interval may   *)
(*    have passed whenever the loop gets to tick.                          *)
(***************************************************************************)
EXTENDS Naturals

CONSTANTS
  Profiles,     \* the profiles the fleet may publish
  Environment,  \* the settings from the environment
  Zones,        \* values of ble_zone
  Absent,       \* a setting a profile does not mention
  None,         \* no value
  Good, Malformed, \* values of mqtt_url
  Tokens,       \* TRUE: the fleet takes an enrollment token once; FALSE: again
  MaxRevision,  \* bound: revisions published
  MaxKills,     \* bound: kills
  MaxLost       \* bound: enrollment replies lost

Urls == {None, Good, Malformed}

Profile == [poll : Nat \cup {Absent}, url : Urls \cup {Absent},
            ble : Nat \cup {Absent}, zone : Zones \cup {None, Absent}]

Config == [poll : Nat \ {0}, url : Urls, ble : Nat, zone : Zones \cup {None}]

ASSUME ProfilesAssumption == Profiles \subseteq Profile /\ Environment \in Config
ASSUME AbsentAssumption ==
  /\ Absent \notin Nat \cup Urls \cup Zones \cup {None} /\ None \notin Zones \cup {Good, Malformed}
  /\ Good # Malformed
ASSUME BoundsAssumption ==
  MaxRevision \in Nat /\ MaxKills \in Nat /\ MaxLost \in Nat /\ Tokens \subseteq BOOLEAN

VARIABLES
  \* on disk
  identity,  \* identity.json is there
  desired,   \* desired.json
  \* in the process
  pc,        \* "down", or the next thing main does for the fleet
  ticking,   \* the exchange was begun by tick, not by bootstrap
  enrolled,  \* self.identity
  held,      \* self.desired
  got,       \* the desired state just fetched
  config,    \* the settings in memory
  built,     \* what the exporters, the collector and the recorder were built with
  \* the fleet
  oneTime,   \* its kind of token
  offer,     \* what it offers this device
  uses,      \* enrollments it granted
  reported,  \* last revision it heard of in a heartbeat
  \* environment
  kills, lost

process == <<ticking, enrolled, held, got, config, built>>
fleet == <<oneTime, offer, uses, reported>>
disk == <<identity, desired>>
faults == <<kills, lost>>
vars == <<disk, pc, process, fleet, faults>>

Signed == [rev : 1..MaxRevision, profile : Profiles]

Built == [rev : 0..MaxRevision, config : Config]

ASSUME NoneAssumption == None \notin Signed \cup Built

Rev(d) == IF d = None THEN 0 ELSE d.rev

----------------------------------------------------------------------------
(* apply_profile: settings are taken one after the other, up to the first    *)
(* that is refused; what was taken before it stays.                          *)

Taken(old, new) == IF new = Absent THEN old ELSE new

Ble(c, p) == Taken(c.ble, p.ble)

\* Mutant: no bound on the interval.
PollRefused_Never(p) == FALSE

PollRefused(p) == p.poll = 0

Accepts(c, p) == ~ PollRefused(p) /\ (p.zone # Absent => Ble(c, p) # 0)

Applied(c, p) ==
  IF PollRefused(p) THEN c
  ELSE [poll |-> Taken(c.poll, p.poll),
        url  |-> Taken(c.url, p.url),
        ble  |-> Ble(c, p),
        zone |-> IF Ble(c, p) = 0 THEN None ELSE Taken(c.zone, p.zone)]

----------------------------------------------------------------------------
Init ==
  /\ identity = FALSE /\ desired = None
  /\ pc = "down" /\ ticking = FALSE
  /\ enrolled = FALSE /\ held = None /\ got = None
  /\ config = Environment /\ built = None
  /\ oneTime \in Tokens /\ offer = None /\ uses = 0 /\ reported = 0
  /\ kills = 0 /\ lost = 0

\* What ends the process takes its memory along.
Exit ==
  /\ pc' = "down" /\ ticking' = FALSE
  /\ enrolled' = FALSE /\ held' = None /\ got' = None
  /\ config' = Environment /\ built' = None

\* main: the settings of the environment, and FleetClient::open.
Start ==
  /\ pc = "down"
  /\ pc' = "cached"
  /\ enrolled' = identity /\ held' = desired
  /\ UNCHANGED <<disk, ticking, got, config, built, fleet, faults>>

\* apply_cached
ApplyCached ==
  /\ pc = "cached"
  /\ held # None => Accepts(config, held.profile)
  /\ config' = IF held = None THEN config ELSE Applied(config, held.profile)
  /\ pc' = "enroll"
  /\ UNCHANGED <<disk, ticking, enrolled, held, got, built, fleet, faults>>

\* apply_cached returns an error: so does main.
CachedRefused ==
  /\ pc = "cached"
  /\ held # None /\ ~ Accepts(config, held.profile)
  /\ Exit
  /\ UNCHANGED <<disk, fleet, faults>>

\* An exchange is over, well or with an error that main prints.
Return == pc' = (IF ticking THEN "loop" ELSE "build") /\ ticking' = FALSE

Fails ==
  /\ Return
  /\ UNCHANGED <<disk, enrolled, held, built, oneTime, offer>>

----------------------------------------------------------------------------
(* ensure_enrolled *)

\* Mutant: the identity in memory is not looked at.
Enrolled_Forgotten == FALSE

Enrolled == enrolled

EnrollKnown ==
  /\ pc = "enroll" /\ Enrolled
  /\ pc' = IF ticking THEN "heartbeat" ELSE "fetch"
  /\ UNCHANGED <<disk, process, fleet, faults>>

Grants == ~ (oneTime /\ uses > 0)

EnrollGranted ==
  /\ pc = "enroll" /\ ~ Enrolled /\ Grants
  /\ uses' = uses + 1
  /\ pc' = "identity"
  /\ UNCHANGED <<disk, process, oneTime, offer, reported, faults>>

\* The fleet grants the request and the answer is lost.
EnrollLost ==
  /\ pc = "enroll" /\ ~ Enrolled /\ Grants
  /\ lost < MaxLost
  /\ uses' = uses + 1 /\ lost' = lost + 1
  /\ Fails
  /\ UNCHANGED <<got, config, reported, kills>>

\* The fleet refuses, or is not reached.
EnrollFails ==
  /\ pc = "enroll" /\ ~ Enrolled
  /\ Fails
  /\ UNCHANGED <<got, config, uses, reported, faults>>

\* Mutant: memory only.
StoreIdentity_MemoryOnly ==
  /\ pc = "identity"
  /\ enrolled' = TRUE
  /\ pc' = IF ticking THEN "heartbeat" ELSE "fetch"
  /\ UNCHANGED <<disk, ticking, held, got, config, built, fleet, faults>>

StoreIdentity ==
  /\ pc = "identity"
  /\ identity' = TRUE /\ enrolled' = TRUE
  /\ pc' = IF ticking THEN "heartbeat" ELSE "fetch"
  /\ UNCHANGED <<desired, ticking, held, got, config, built, fleet, faults>>

----------------------------------------------------------------------------
(* The exchange *)

HeartbeatOk ==
  /\ pc = "heartbeat"
  /\ reported' = Rev(held)
  /\ pc' = "fetch"
  /\ UNCHANGED <<disk, process, oneTime, offer, uses, faults>>

\* The heartbeat fails, and the fleet may have heard it all the same.
HeartbeatFails ==
  /\ pc = "heartbeat"
  /\ reported' \in {reported, Rev(held)}
  /\ Fails
  /\ UNCHANGED <<got, config, uses, faults>>

\* fetch_desired: 204 while there is nothing, or an error.
FetchNothing ==
  /\ pc = "fetch"
  /\ Fails
  /\ UNCHANGED <<got, config, uses, reported, faults>>

FetchOk ==
  /\ pc = "fetch" /\ offer # None
  /\ got' = offer
  /\ pc' = "apply"
  /\ UNCHANGED <<disk, ticking, enrolled, held, config, built, fleet, faults>>

ApplyFetched ==
  /\ pc = "apply" /\ Accepts(config, got.profile)
  /\ config' = Applied(config, got.profile)
  /\ pc' = "stage"
  /\ UNCHANGED <<disk, ticking, enrolled, held, got, built, fleet, faults>>

\* A refused profile stays half applied.
ApplyRefused ==
  /\ pc = "apply" /\ ~ Accepts(config, got.profile)
  /\ config' = Applied(config, got.profile)
  /\ got' = None
  /\ Fails
  /\ UNCHANGED <<uses, reported, faults>>

StageOk ==
  /\ pc = "stage"
  /\ pc' = "store"
  /\ UNCHANGED <<disk, process, fleet, faults>>

\* stage_ota fails, or the write of desired.json does: what was applied stays,
\* what was fetched is not stored.
StageFails ==
  /\ pc = "stage"
  /\ got' = None
  /\ Fails
  /\ UNCHANGED <<config, uses, reported, faults>>

\* Mutant: compared after the revision was stored.
Changed_AfterStore == FALSE

\* tick: the revision differs from the one held before.
Changed == Rev(held) # got.rev

\* Mutant: memory only.
Persisted_Never == desired

\* store_desired: desired.json is replaced.
Persisted == got

\* store_desired; after a tick with a new revision, main ends the process.
Store ==
  /\ pc = "store"
  /\ desired' = Persisted
  /\ IF ticking /\ Changed
       THEN Exit
       ELSE held' = got /\ got' = None /\ Return /\ UNCHANGED <<enrolled, config, built>>
  /\ UNCHANGED <<identity, fleet, faults>>

----------------------------------------------------------------------------
(* main after bootstrap *)

\* Exporters and collector are built from the settings as they are.
Build ==
  /\ pc = "build" /\ config.url # Malformed
  /\ built' = [rev |-> Rev(held), config |-> config]
  /\ pc' = "loop"
  /\ UNCHANGED <<disk, ticking, enrolled, held, got, config, fleet, faults>>

\* build_exporters returns an error: so does main.
BuildFails ==
  /\ pc = "build" /\ config.url = Malformed
  /\ Exit
  /\ UNCHANGED <<disk, fleet, faults>>

\* The poll interval has passed.
Tick ==
  /\ pc = "loop"
  /\ pc' = "enroll" /\ ticking' = TRUE
  /\ UNCHANGED <<disk, enrolled, held, got, config, built, fleet, faults>>

Kill ==
  /\ pc # "down" /\ kills < MaxKills
  /\ kills' = kills + 1
  /\ Exit
  /\ UNCHANGED <<disk, fleet, lost>>

Publish(p) ==
  /\ Rev(offer) < MaxRevision
  /\ offer' = [rev |-> Rev(offer) + 1, profile |-> p]
  /\ UNCHANGED <<disk, pc, process, oneTime, uses, reported, faults>>

Agent ==
  \/ Start \/ ApplyCached \/ CachedRefused
  \/ EnrollKnown \/ EnrollGranted \/ EnrollLost \/ EnrollFails \/ StoreIdentity
  \/ HeartbeatOk \/ HeartbeatFails \/ FetchNothing \/ FetchOk
  \/ ApplyFetched \/ ApplyRefused \/ StageOk \/ StageFails \/ Store
  \/ Build \/ BuildFails \/ Tick

Next == Agent \/ Kill \/ \E p \in Profiles : Publish(p)

Spec == Init /\ [][Next]_vars

\* The agent is restarted and never suspended; no call to the fleet fails for
\* ever.
Fairness ==
  /\ WF_vars(Agent)
  /\ SF_vars(EnrollGranted) /\ SF_vars(HeartbeatOk) /\ SF_vars(FetchOk) /\ SF_vars(StageOk)

FairSpec == Spec /\ Fairness

----------------------------------------------------------------------------
(* Properties *)

\* Types, and the program points at which a fetched state is in hand.
TypeOK ==
  /\ identity \in BOOLEAN /\ enrolled \in BOOLEAN /\ ticking \in BOOLEAN
  /\ desired \in Signed \cup {None} /\ held \in Signed \cup {None}
  /\ offer \in Signed \cup {None}
  /\ got \in Signed \cup {None} /\ (got # None <=> pc \in {"apply", "stage", "store"})
  /\ pc \in {"down", "cached", "enroll", "identity", "heartbeat", "fetch",
             "apply", "stage", "store", "build", "loop"}
  /\ config \in Config /\ built \in Built \cup {None}
  /\ oneTime \in BOOLEAN /\ uses \in Nat /\ reported \in 0..MaxRevision
  /\ kills \in 0..MaxKills /\ lost \in 0..MaxLost

\* While the agent runs, its exporters and its collector were built by a process
\* that held the revision it now holds and reports: a tick that brings another
\* ends the process (main.rs:148, fleet.rs:141).
BuiltIsHeld == pc = "loop" => built # None /\ built.rev = Rev(held)

\* The fleet never hears of a revision that a restart would not find again:
\* heartbeats speak of what is on disk (fleet.rs:224, 273-277).
FleetNotAhead == reported <= Rev(desired)

\* What a process holds is on disk, and a stored state is never without the
\* identity whose key apply_cached verifies it with: were it otherwise, no start
\* would succeed (fleet.rs:92-93, 106-112, 184-185).
Recoverable ==
  /\ desired # None => identity
  /\ pc # "down" => enrolled = identity /\ held = desired

\* The fleet's revisions grow on their way to the device.
RevisionsGrow ==
  /\ Rev(desired) <= Rev(offer)
  /\ got # None => Rev(desired) <= Rev(got) /\ Rev(got) <= Rev(offer)

\* A tick starts from a running agent, whose revision is the one held, and only a
\* tick sends a heartbeat.
TickOfHeld ==
  /\ ticking => built # None /\ built.rev = Rev(held)
  /\ built # None => pc = "loop" \/ ticking
  /\ pc \in {"down", "cached", "build", "loop"} => ~ ticking
  /\ pc = "heartbeat" => ticking

\* A process starts from the settings of the environment, whatever the one before
\* made of them.
FreshSettings == pc \in {"down", "cached"} => config = Environment

\* Nothing is fetched or stored before the identity is on disk.
EnrolledFirst == pc \in {"heartbeat", "fetch", "apply", "stage", "store"} => identity

\* A device that stored its identity enrolls no more, whatever process asks
\* (fleet.rs:149-152).
TokenSpentOnce == [][identity => uses' = uses]_vars

\* The stored profile leans on a setting of an earlier one and is refused on the
\* environment's settings.
Stuck == desired # None /\ ~ Accepts(Environment, desired.profile)

\* A one-time token was used and the answer did not reach the disk.
Locked == ~ identity /\ pc # "identity" /\ ~ Grants

\* A profile that mentions every setting, all of them usable.
Complete(p) ==
  /\ \A s \in DOMAIN p : p[s] # Absent
  /\ Accepts(Environment, p) /\ p.url # Malformed

Offered == offer # None /\ Complete(offer.profile)

\* A revision is one profile: what is on disk or in hand under the revision on offer
\* is what is on offer.
OneProfilePerRevision ==
  \A d \in {desired, got} : d # None /\ Rev(d) = Rev(offer) => d = offer

OfferedSettings == Applied(Environment, offer.profile)

\* What the agent runs with: what was built, but the loop sleeps for the interval that
\* is in memory, whichever profile has set it since (main.rs:155).
InUse == [built.config EXCEPT !.poll = config.poll]

\* From the cached profile to the building of the exporters.
Bootstrapping ==
  pc \in {"enroll", "identity", "heartbeat", "fetch", "apply", "build"} /\ ~ ticking

\* A complete profile leaves nothing of the settings it is applied to, and until the
\* exporters are built nothing but a newer one is applied after it.
SettingsOfOffer ==
  Offered =>
    /\ pc \in {"stage", "store"} /\ got = offer => config = OfferedSettings
    /\ Bootstrapping /\ held = offer => config = OfferedSettings
    /\ built # None /\ built.rev = offer.rev => InUse = OfferedSettings

\* A device that reports the revision on offer, a complete profile, runs with exactly
\* the settings of that profile, the interval of its loop included: whatever was cached,
\* half applied by an exchange that was refused, or applied and not stored before.
RevisionMeansSettings ==
  pc = "loop" /\ Offered /\ Rev(held) = offer.rev => InUse = OfferedSettings

\* Every enrollment that was granted is accounted for: by the identity, on disk or
\* about to be written, by an answer that was lost or by a kill before the write.
TokensAccounted ==
  uses <= lost + kills + (IF identity \/ pc = "identity" THEN 1 ELSE 0)

\* The process does not end for nothing: it is killed, a start refuses the stored
\* profile on the environment's settings, the exporters cannot be built, or a tick
\* has put a newer revision on disk.  So ticks cannot restart it for ever.
RestartsForNews ==
  [][pc # "down" /\ pc' = "down" /\ kills' = kills =>
       \/ pc = "cached" /\ Stuck
       \/ pc = "build" /\ config.url = Malformed
       \/ ticking /\ Rev(desired') > Rev(desired)]_vars

\* The inductive invariant.
IInv ==
  /\ TypeOK /\ BuiltIsHeld /\ FleetNotAhead /\ Recoverable
  /\ RevisionsGrow /\ TickOfHeld /\ EnrolledFirst
  /\ FreshSettings /\ TokensAccounted /\ OneProfilePerRevision /\ SettingsOfOffer

\* What the abstract rollout is in the client's terms.
Rollout == INSTANCE FleetRollout WITH
  offered <- Rev(offer),
  enrolled <- identity,
  stored <- Rev(desired),
  running <- IF built = None THEN {} ELSE {built.rev}

\* Whatever is killed, lost or half applied, the device goes forward through the
\* revisions it is offered, runs the one on its disk until a newer one ends the
\* process, and reports no other (fleet.rs:114-147, 224, 273-277).
ImplementsRollout == Rollout!RSpec

Settled == offer # None /\ built # None /\ InUse = OfferedSettings

\* Once the fleet keeps offering a complete profile, the agent comes to run with
\* exactly its settings and stays so: whatever was half applied, refused or
\* malformed before, and wherever it was killed (fleet.rs:114-147).
Converges == [](~ Stuck /\ ~ Locked) /\ <>[]Offered => <>[]Settled

\* "exiting so the service manager restarts with the new configuration"
\* (main.rs:149): a stored revision comes to be what the agent runs with.
RestartApplies ==
  \A r \in 1..MaxRevision : Rev(desired) = r ~> (built # None /\ built.rev >= r)
==============================================================================

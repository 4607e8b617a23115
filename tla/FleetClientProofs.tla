-------------------------- MODULE FleetClientProofs --------------------------
(***************************************************************************)
(* Proofs about FleetClient, for every set of profiles and zones, every    *)
(* environment, both kinds of token and every number of revisions, kills   *)
(* and lost answers.  StepKeeps has one lemma per half of IInv: types, and *)
(* the relations between the revisions on disk, in memory and at the fleet.*)
(***************************************************************************)
EXTENDS FleetClient, TLAPS

\* The fields of what a fleet publishes.
LEMMA SignedFields ==
  ASSUME NEW d \in Signed
  PROVE  /\ d # None /\ d.profile \in Profiles /\ d.profile \in Profile
         /\ d.rev \in 1..MaxRevision /\ Rev(d) = d.rev /\ Rev(d) \in Nat
BY ProfilesAssumption, NoneAssumption, BoundsAssumption DEF Signed, Rev

\* Revisions are numbers, 0 for none.
LEMMA RevBound ==
  ASSUME NEW d \in Signed \cup {None}
  PROVE  Rev(d) \in 0..MaxRevision /\ Rev(d) \in Nat
BY SignedFields, BoundsAssumption DEF Rev

\* Whether a profile is accepted or refused half-way, the settings stay in range.
LEMMA AppliedType ==
  ASSUME NEW c \in Config, NEW p \in Profile
  PROVE  Applied(c, p) \in Config
<1>1. /\ c.poll \in Nat \ {0} /\ c.url \in Urls /\ c.ble \in Nat /\ c.zone \in Zones \cup {None}
      /\ p.poll \in Nat \cup {Absent} /\ p.url \in Urls \cup {Absent}
      /\ p.ble \in Nat \cup {Absent} /\ p.zone \in Zones \cup {None, Absent}
  BY DEF Config, Profile
<1>2. CASE PollRefused(p)
  BY <1>2 DEF Applied
<1>3. CASE ~ PollRefused(p)
  <2>1. Taken(c.poll, p.poll) \in Nat \ {0}
    BY <1>1, <1>3 DEF Taken, PollRefused
  <2>2. Taken(c.url, p.url) \in Urls
    BY <1>1 DEF Taken
  <2>3. Ble(c, p) \in Nat
    BY <1>1 DEF Ble, Taken
  <2>4. (IF Ble(c, p) = 0 THEN None ELSE Taken(c.zone, p.zone)) \in Zones \cup {None}
    BY <1>1 DEF Taken
  <2> QED
    BY <1>3, <2>1, <2>2, <2>3, <2>4 DEF Applied, Config
<1> QED
  BY <1>2, <1>3

\* A complete profile is accepted on any settings and leaves nothing of them.
LEMMA CompleteForgets ==
  ASSUME NEW c \in Config, NEW p \in Profile, Complete(p)
  PROVE  Accepts(c, p) /\ Applied(c, p) = Applied(Environment, p)
<1>1. p.poll # Absent /\ p.url # Absent /\ p.ble # Absent /\ p.zone # Absent
  <2>1. DOMAIN p = {"poll", "url", "ble", "zone"}
    BY DEF Profile
  <2>2. /\ p["poll"] # Absent /\ p["url"] # Absent /\ p["ble"] # Absent /\ p["zone"] # Absent
    BY <2>1 DEF Complete
  <2> QED
    BY <2>2
<1>2. Ble(c, p) = p.ble /\ Ble(Environment, p) = p.ble
  BY <1>1 DEF Ble, Taken
<1>3. ~ PollRefused(p) /\ p.ble # 0
  BY <1>1, <1>2 DEF Complete, Accepts
<1>4. Accepts(c, p)
  BY <1>2, <1>3 DEF Accepts
<1>5. Applied(c, p) = [poll |-> p.poll, url |-> p.url, ble |-> p.ble, zone |-> p.zone]
  BY <1>1, <1>2, <1>3 DEF Applied, Taken
<1>6. Applied(Environment, p) = [poll |-> p.poll, url |-> p.url, ble |-> p.ble, zone |-> p.zone]
  BY <1>1, <1>2, <1>3 DEF Applied, Taken
<1> QED
  BY <1>4, <1>5, <1>6

\* TypeOK, one step per action.
LEMMA TypeStep == TypeOK /\ [Next]_vars => TypeOK'
<1> SUFFICES ASSUME TypeOK, [Next]_vars PROVE TypeOK'
  OBVIOUS
<1> USE BoundsAssumption, ProfilesAssumption
<1>1. CASE Start
  BY <1>1, NoneAssumption DEF TypeOK, Start, vars, disk, process, fleet, faults
<1>2. CASE ApplyCached
  BY <1>2, SignedFields, AppliedType, NoneAssumption DEF TypeOK, ApplyCached, vars, disk, process, fleet, faults
<1>3. CASE CachedRefused
  BY <1>3, NoneAssumption DEF TypeOK, CachedRefused, Exit, vars, disk, process, fleet, faults
<1>4. CASE EnrollKnown
  BY <1>4, NoneAssumption DEF TypeOK, EnrollKnown, Enrolled, vars, disk, process, fleet, faults
<1>5. CASE EnrollGranted
  BY <1>5, NoneAssumption DEF TypeOK, EnrollGranted, Enrolled, vars, disk, process, fleet, faults
<1>6. CASE EnrollLost
  <2>1. lost' \in 0..MaxLost /\ uses' \in Nat
    BY <1>6 DEF TypeOK, EnrollLost
  <2> QED
    BY <1>6, <2>1, NoneAssumption DEF TypeOK, EnrollLost, Fails, Return, disk
<1>7. CASE EnrollFails
  BY <1>7, NoneAssumption DEF TypeOK, EnrollFails, Enrolled, Fails, Return, vars, disk, process, fleet, faults
<1>8. CASE StoreIdentity
  BY <1>8, NoneAssumption DEF TypeOK, StoreIdentity, vars, disk, process, fleet, faults
<1>9. CASE HeartbeatOk
  BY <1>9, RevBound, NoneAssumption DEF TypeOK, HeartbeatOk, vars, disk, process, fleet, faults
<1>10. CASE HeartbeatFails
  BY <1>10, RevBound, NoneAssumption DEF TypeOK, HeartbeatFails, Fails, Return, vars, disk, process, fleet, faults
<1>11. CASE FetchNothing
  BY <1>11, NoneAssumption DEF TypeOK, FetchNothing, Fails, Return, vars, disk, process, fleet, faults
<1>12. CASE FetchOk
  BY <1>12, SignedFields, NoneAssumption DEF TypeOK, FetchOk, vars, disk, process, fleet, faults
<1>13. CASE ApplyFetched
  BY <1>13, SignedFields, AppliedType, NoneAssumption DEF TypeOK, ApplyFetched, vars, disk, process, fleet, faults
<1>14. CASE ApplyRefused
  BY <1>14, SignedFields, AppliedType, NoneAssumption DEF TypeOK, ApplyRefused, Fails, Return, vars, disk, process, fleet, faults
<1>15. CASE StageOk
  BY <1>15, NoneAssumption DEF TypeOK, StageOk, vars, disk, process, fleet, faults
<1>16. CASE StageFails
  BY <1>16, NoneAssumption DEF TypeOK, StageFails, Fails, Return, vars, disk, process, fleet, faults
<1>17. CASE Store
  BY <1>17, SignedFields, NoneAssumption DEF TypeOK, Store, Persisted, Exit, Return, vars, disk, process, fleet, faults
<1>18. CASE Build
  BY <1>18, RevBound, NoneAssumption DEF TypeOK, Build, Built, vars, disk, process, fleet, faults
<1>19. CASE BuildFails
  BY <1>19, NoneAssumption DEF TypeOK, BuildFails, Exit, vars, disk, process, fleet, faults
<1>20. CASE Tick
  BY <1>20, NoneAssumption DEF TypeOK, Tick, vars, disk, process, fleet, faults
<1>21. CASE Kill
  <2>1. kills' \in 0..MaxKills
    BY <1>21 DEF TypeOK, Kill
  <2> QED
    BY <1>21, <2>1, NoneAssumption DEF TypeOK, Kill, Exit, disk, fleet
<1>22. ASSUME NEW p \in Profiles, Publish(p) PROVE TypeOK'
  <2>1. Rev(offer) + 1 \in 1..MaxRevision
    BY <1>22, RevBound DEF TypeOK, Publish
  <2>2. offer' \in Signed
    BY <1>22, <2>1 DEF Publish, Signed
  <2> QED
    BY <1>22, <2>2, NoneAssumption DEF TypeOK, Publish, disk, process, faults
<1>23. CASE UNCHANGED vars
  BY <1>23 DEF TypeOK, vars, disk, process, fleet, faults
<1> QED
  BY <1>1, <1>2, <1>3, <1>4, <1>5, <1>6, <1>7, <1>8, <1>9, <1>10, <1>11, <1>12, <1>13, <1>14, <1>15, <1>16, <1>17, <1>18, <1>19, <1>20, <1>21, <1>22, <1>23 DEF Next, Agent

\* What relates the revisions on disk, in memory and at the fleet, and the
\* identity in memory to the one on disk.
Related ==
  /\ BuiltIsHeld /\ FleetNotAhead /\ Recoverable
  /\ RevisionsGrow /\ TickOfHeld /\ EnrolledFirst

LEMMA RelatedStep == IInv /\ [Next]_vars => Related'
<1> SUFFICES ASSUME IInv, [Next]_vars PROVE Related'
  OBVIOUS
<1> USE BoundsAssumption
<1> USE DEF Related, IInv, BuiltIsHeld, FleetNotAhead, Recoverable, RevisionsGrow, TickOfHeld,
            EnrolledFirst
<1>1. CASE Start
  BY <1>1, RevBound, NoneAssumption DEF TypeOK, Rev, Start, vars, disk, process, fleet, faults
<1>2. CASE ApplyCached
  BY <1>2, RevBound, NoneAssumption DEF TypeOK, Rev, ApplyCached, vars, disk, process, fleet, faults
<1>3. CASE CachedRefused
  BY <1>3, RevBound, NoneAssumption DEF TypeOK, Rev, CachedRefused, Exit, vars, disk, process, fleet, faults
<1>4. CASE EnrollKnown
  BY <1>4, RevBound, NoneAssumption DEF TypeOK, Rev, EnrollKnown, Enrolled, vars, disk, process, fleet, faults
<1>5. CASE EnrollGranted
  BY <1>5, RevBound, NoneAssumption DEF TypeOK, Rev, EnrollGranted, Enrolled, vars, disk, process, fleet, faults
<1>6. CASE EnrollLost
  BY <1>6, RevBound, NoneAssumption DEF TypeOK, Rev, EnrollLost, Enrolled, Fails, Return, vars, disk, process, fleet, faults
<1>7. CASE EnrollFails
  BY <1>7, RevBound, NoneAssumption DEF TypeOK, Rev, EnrollFails, Enrolled, Fails, Return, vars, disk, process, fleet, faults
<1>8. CASE StoreIdentity
  BY <1>8, RevBound, NoneAssumption DEF TypeOK, Rev, StoreIdentity, vars, disk, process, fleet, faults
<1>9. CASE HeartbeatOk
  BY <1>9, RevBound, NoneAssumption DEF TypeOK, Rev, HeartbeatOk, vars, disk, process, fleet, faults
<1>10. CASE HeartbeatFails
  BY <1>10, RevBound, NoneAssumption DEF TypeOK, Rev, HeartbeatFails, Fails, Return, vars, disk, process, fleet, faults
<1>11. CASE FetchNothing
  BY <1>11, RevBound, NoneAssumption DEF TypeOK, Rev, FetchNothing, Fails, Return, vars, disk, process, fleet, faults
<1>12. CASE FetchOk
  BY <1>12, RevBound, NoneAssumption, SignedFields DEF TypeOK, Rev, FetchOk, vars, disk, process, fleet, faults
<1>13. CASE ApplyFetched
  BY <1>13, RevBound, NoneAssumption DEF TypeOK, Rev, ApplyFetched, vars, disk, process, fleet, faults
<1>14. CASE ApplyRefused
  BY <1>14, RevBound, NoneAssumption DEF TypeOK, Rev, ApplyRefused, Fails, Return, vars, disk, process, fleet, faults
<1>15. CASE StageOk
  BY <1>15, RevBound, NoneAssumption DEF TypeOK, Rev, StageOk, vars, disk, process, fleet, faults
<1>16. CASE StageFails
  BY <1>16, RevBound, NoneAssumption DEF TypeOK, Rev, StageFails, Fails, Return, vars, disk, process, fleet, faults
<1>17. CASE Store
  <2>1. /\ got \in Signed /\ got # None /\ identity /\ held = desired
        /\ Rev(got) = got.rev /\ Rev(got) \in Nat /\ Rev(desired) \in Nat /\ Rev(offer) \in Nat
        /\ reported \in Nat
    <3>1. got # None /\ got \in Signed /\ pc # "down"
      BY <1>17 DEF Store, TypeOK
    <3>2. Rev(desired) \in Nat /\ Rev(offer) \in Nat /\ reported \in Nat
      BY RevBound DEF TypeOK
    <3>3. held = desired
      BY <3>1
    <3>4. Rev(got) = got.rev /\ Rev(got) \in Nat
      BY <3>1, SignedFields
    <3>5. identity
      BY <1>17 DEF Store, TypeOK
    <3> QED
      BY <3>1, <3>2, <3>3, <3>4, <3>5
  <2>2. desired' = got /\ offer' = offer /\ reported' = reported /\ identity' = identity
    BY <1>17 DEF Store, Persisted, fleet
  <2>3. Rev(desired') = Rev(got) /\ Rev(offer') = Rev(offer) /\ reported <= Rev(got)
    BY <2>1, <2>2
  <2>4. CASE ticking /\ Changed
    BY <1>17, <2>1, <2>2, <2>3, <2>4, NoneAssumption DEF Store, Exit, TypeOK
  <2>5. CASE ~ (ticking /\ Changed)
    <3>1. held' = got /\ got' = None /\ Return /\ enrolled' = enrolled /\ built' = built
      BY <1>17, <2>5 DEF Store
    <3>2. Rev(held') = Rev(got)
      BY <3>1
    <3>3. ticking => built # None /\ built.rev = Rev(got)
      BY <2>1, <2>5 DEF Changed
    <3> QED
      BY <1>17, <2>1, <2>2, <2>3, <3>1, <3>2, <3>3 DEF Store, Return, TypeOK
  <2> QED
    BY <2>4, <2>5
<1>18. CASE Build
  BY <1>18, RevBound, NoneAssumption DEF TypeOK, Rev, Build, Built, vars, disk, process, fleet, faults
<1>19. CASE BuildFails
  BY <1>19, RevBound, NoneAssumption DEF TypeOK, Rev, BuildFails, Exit, vars, disk, process, fleet, faults
<1>20. CASE Tick
  BY <1>20, RevBound, NoneAssumption DEF TypeOK, Rev, Tick, vars, disk, process, fleet, faults
<1>21. CASE Kill
  BY <1>21, RevBound, NoneAssumption DEF TypeOK, Rev, Kill, Exit, vars, disk, process, fleet, faults
<1>22. ASSUME NEW p \in Profiles, Publish(p) PROVE Related'
  <2>1. Rev(offer') = Rev(offer) + 1
    <3>1. offer' # None
      <4>1. Rev(offer) + 1 \in 1..MaxRevision
        BY <1>22, RevBound DEF TypeOK, Publish
      <4> QED
        BY <1>22, <4>1, NoneAssumption DEF Publish, Signed
    <3> QED
      BY <1>22, <3>1 DEF Publish, Rev
  <2>2. Rev(offer) \in Nat /\ Rev(desired) \in Nat /\ (got # None => Rev(got) \in Nat)
    BY RevBound DEF TypeOK
  <2>3. UNCHANGED <<disk, pc, process, reported>>
    BY <1>22 DEF Publish
  <2> QED
    BY <2>1, <2>2, <2>3 DEF disk, process, Rev
<1>23. CASE UNCHANGED vars
  BY <1>23 DEF vars, disk, process, fleet, faults, Rev
<1> QED
  BY <1>1, <1>2, <1>3, <1>4, <1>5, <1>6, <1>7, <1>8, <1>9, <1>10, <1>11, <1>12, <1>13, <1>14, <1>15, <1>16, <1>17, <1>18, <1>19, <1>20, <1>21, <1>22, <1>23 DEF Next, Agent

\* A process starts from the environment, and every grant is accounted for.
LEMMA FreshStep == IInv /\ [Next]_vars => (FreshSettings /\ TokensAccounted)'
<1> SUFFICES ASSUME IInv, [Next]_vars PROVE (FreshSettings /\ TokensAccounted)'
  OBVIOUS
<1>0. /\ TypeOK /\ Recoverable /\ FreshSettings /\ TokensAccounted
      /\ uses \in Nat /\ lost \in Nat /\ kills \in Nat
  <2>1. /\ TypeOK /\ Recoverable /\ FreshSettings /\ TokensAccounted
    BY DEF IInv
  <2>2. uses \in Nat /\ lost \in Nat /\ kills \in Nat
    BY <2>1, BoundsAssumption DEF TypeOK
  <2> QED
    BY <2>1, <2>2
<1> USE DEF FreshSettings, TokensAccounted
<1>1. CASE EnrollGranted
  <2>1. ~ identity
    BY <1>0, <1>1 DEF EnrollGranted, Enrolled, Recoverable
  <2> QED
    BY <1>0, <1>1, <2>1 DEF EnrollGranted, disk, process, faults
<1>2. CASE EnrollLost
  <2>1. ~ identity /\ identity' = identity
    BY <1>0, <1>2 DEF EnrollLost, Enrolled, Recoverable, Fails, disk
  <2> QED
    BY <1>0, <1>2, <2>1 DEF EnrollLost, Fails, Return
<1>3. CASE StoreIdentity
  BY <1>0, <1>3 DEF StoreIdentity, fleet, faults
<1>4. CASE Kill
  BY <1>0, <1>4 DEF Kill, Exit, disk, fleet
<1>5. CASE Start \/ ApplyCached \/ CachedRefused \/ EnrollKnown \/ EnrollFails
  BY <1>0, <1>5 DEF Start, ApplyCached, CachedRefused, EnrollKnown, EnrollFails, Fails, Return,
                    Exit, disk, process, fleet, faults
<1>6. CASE HeartbeatOk \/ HeartbeatFails \/ FetchNothing \/ FetchOk
  BY <1>0, <1>6 DEF HeartbeatOk, HeartbeatFails, FetchNothing, FetchOk, Fails, Return,
                    disk, process, fleet, faults
<1>7. CASE ApplyFetched \/ ApplyRefused \/ StageOk \/ StageFails
  BY <1>0, <1>7 DEF ApplyFetched, ApplyRefused, StageOk, StageFails, Fails, Return,
                    disk, process, fleet, faults
<1>8. CASE Store \/ Build \/ BuildFails \/ Tick
  BY <1>0, <1>8 DEF Store, Build, BuildFails, Tick, Exit, Return, disk, process, fleet, faults
<1>9. ASSUME NEW p \in Profiles, Publish(p) PROVE (FreshSettings /\ TokensAccounted)'
  BY <1>0, <1>9 DEF Publish, disk, process, faults
<1>10. CASE UNCHANGED vars
  BY <1>0, <1>10 DEF vars, disk, process, fleet, faults
<1> QED
  BY <1>1, <1>2, <1>3, <1>4, <1>5, <1>6, <1>7, <1>8, <1>9, <1>10 DEF Next, Agent

\* What the fleet publishes has a new revision: neither stored, nor in hand, nor built.
LEMMA Published ==
  ASSUME IInv, NEW p \in Profiles, Publish(p)
  PROVE  /\ offer' # None /\ Rev(offer') = offer'.rev
         /\ \A d \in {desired, got} : d # None => Rev(d) # Rev(offer')
         /\ pc # "down" => held # offer'
         /\ built # None => built.rev # offer'.rev
<1>0. TypeOK /\ RevisionsGrow /\ Recoverable /\ TickOfHeld /\ BuiltIsHeld
  BY DEF IInv
<1>1. /\ Rev(offer) \in Nat /\ Rev(desired) \in Nat /\ (got # None => Rev(got) \in Nat)
      /\ Rev(desired) <= Rev(offer) /\ (got # None => Rev(got) <= Rev(offer))
  BY <1>0, RevBound DEF TypeOK, RevisionsGrow
<1>2. offer' \in Signed /\ offer'.rev = Rev(offer) + 1
  <2>1. Rev(offer) + 1 \in 1..MaxRevision
    BY <1>0, RevBound, BoundsAssumption DEF TypeOK, Publish
  <2> QED
    BY <2>1 DEF Publish, Signed
<1>3. offer' # None /\ Rev(offer') = Rev(offer) + 1
  BY <1>2, SignedFields
<1>4. pc # "down" => held = desired
  BY <1>0 DEF Recoverable
<1>5. built # None => pc # "down" /\ built.rev = Rev(held)
  BY <1>0 DEF TickOfHeld, BuiltIsHeld
<1> QED
  BY <1>1, <1>2, <1>3, <1>4, <1>5

\* A revision is one profile, on its way and on disk.
LEMMA OneProfileStep == IInv /\ [Next]_vars => OneProfilePerRevision'
<1> SUFFICES ASSUME IInv, [Next]_vars PROVE OneProfilePerRevision'
  OBVIOUS
<1>0. TypeOK /\ OneProfilePerRevision
  BY DEF IInv
<1> USE DEF OneProfilePerRevision, Rev
<1>1. CASE FetchOk
  BY <1>0, <1>1 DEF FetchOk, disk, fleet
<1>2. CASE Store
  BY <1>0, <1>2 DEF Store, Persisted, Exit, fleet
<1>3. ASSUME NEW p \in Profiles, Publish(p) PROVE OneProfilePerRevision'
  <2>1. UNCHANGED <<desired, got>>
    BY <1>3 DEF Publish, disk, process
  <2> QED
    BY <1>3, <2>1, Published
<1>4. CASE Start \/ ApplyCached \/ CachedRefused \/ EnrollKnown \/ EnrollGranted \/ EnrollLost
           \/ EnrollFails \/ StoreIdentity
  BY <1>0, <1>4 DEF Start, ApplyCached, CachedRefused, EnrollKnown, EnrollGranted, EnrollLost,
                    EnrollFails, StoreIdentity, Fails, Exit, disk, process, fleet
<1>5. CASE HeartbeatOk \/ HeartbeatFails \/ FetchNothing \/ ApplyFetched \/ ApplyRefused
           \/ StageOk \/ StageFails
  BY <1>0, <1>5 DEF HeartbeatOk, HeartbeatFails, FetchNothing, ApplyFetched, ApplyRefused,
                    StageOk, StageFails, Fails, disk, process, fleet
<1>6. CASE Build \/ BuildFails \/ Tick \/ Kill
  BY <1>0, <1>6 DEF Build, BuildFails, Tick, Kill, Exit, disk, process, fleet
<1>7. CASE UNCHANGED vars
  BY <1>0, <1>7 DEF vars, disk, process, fleet
<1> QED
  BY <1>1, <1>2, <1>3, <1>4, <1>5, <1>6, <1>7 DEF Next, Agent

\* What is in hand lies between what is stored and what is on offer: once the offer is
\* stored, it is the offer.
LEMMA InHandIsOffer ==
  ASSUME IInv, pc # "down", offer # None, held = offer, got # None
  PROVE  got = offer
<1>1. TypeOK /\ RevisionsGrow /\ OneProfilePerRevision /\ held = desired
  BY DEF IInv, Recoverable
<1>2. Rev(got) \in Nat /\ Rev(offer) \in Nat /\ Rev(offer) <= Rev(got) /\ Rev(got) <= Rev(offer)
  BY <1>1, RevBound DEF TypeOK, RevisionsGrow
<1> QED
  BY <1>1, <1>2 DEF OneProfilePerRevision

\* From its acceptance to the building of the exporters a complete profile on offer
\* decides the settings alone.
LEMMA SettingsStep == IInv /\ [Next]_vars => SettingsOfOffer'
<1> SUFFICES ASSUME IInv, [Next]_vars, Offered'
             PROVE  /\ pc' \in {"stage", "store"} /\ got' = offer' => config' = OfferedSettings'
                    /\ Bootstrapping' /\ held' = offer' => config' = OfferedSettings'
                    /\ built' # None /\ built'.rev = offer'.rev => InUse' = OfferedSettings'
  BY DEF SettingsOfOffer
<1> DEFINE Goal == /\ pc' \in {"stage", "store"} /\ got' = offer' => config' = OfferedSettings'
                   /\ Bootstrapping' /\ held' = offer' => config' = OfferedSettings'
                   /\ built' # None /\ built'.rev = offer'.rev => InUse' = OfferedSettings'
<1>0. /\ TypeOK /\ SettingsOfOffer /\ TickOfHeld /\ Recoverable /\ FreshSettings
      /\ OneProfilePerRevision /\ BuiltIsHeld
  BY DEF IInv
\* Steps of the agent leave the offer alone.
<1>k. ASSUME offer' = offer
      PROVE  /\ Offered /\ OfferedSettings' = OfferedSettings /\ offer # None
             /\ Complete(offer.profile) /\ offer \in Signed
             /\ pc \in {"stage", "store"} /\ got = offer => config = OfferedSettings
             /\ Bootstrapping /\ held = offer => config = OfferedSettings
             /\ built # None /\ built.rev = offer.rev => InUse = OfferedSettings
  <2>1. Offered /\ offer # None /\ Complete(offer.profile)
    BY <1>k DEF Offered
  <2>2. OfferedSettings' = OfferedSettings
    BY <1>k DEF OfferedSettings
  <2>3. offer \in Signed
    BY <1>0, <2>1 DEF TypeOK
  <2> QED
    BY <1>0, <2>1, <2>2, <2>3 DEF SettingsOfOffer
\* The offer in hand is accepted whatever the settings are.
<1>c. ASSUME offer' = offer, got = offer
      PROVE  /\ Accepts(config, got.profile) /\ Applied(config, got.profile) = OfferedSettings
  <2>1. offer.profile \in Profile /\ Complete(offer.profile) /\ config \in Config
    BY <1>0, <1>c, <1>k, SignedFields DEF TypeOK
  <2> QED
    BY <1>c, <2>1, CompleteForgets DEF OfferedSettings
\* Who was built with the offer holds it.
<1>h. ASSUME offer' = offer, built # None, built.rev = offer.rev
      PROVE  held = offer /\ pc \notin {"down", "cached", "build"}
  <2>1. built.rev = Rev(held) /\ pc \notin {"down", "cached", "build"}
    BY <1>0, <1>h DEF TickOfHeld, BuiltIsHeld
  <2>2. held = desired
    BY <1>0, <2>1 DEF Recoverable
  <2>3. offer.rev \in 1..MaxRevision /\ Rev(offer) = offer.rev
    BY <1>h, <1>k, SignedFields
  <2>4. desired # None
    BY <1>h, <2>1, <2>2, <2>3 DEF Rev
  <2> QED
    BY <1>0, <1>h, <2>1, <2>2, <2>3, <2>4 DEF OneProfilePerRevision
\* Steps that leave both alone leave the settings in use.
<1>u. ASSUME UNCHANGED <<built, config>> PROVE InUse' = InUse
  BY <1>u DEF InUse
\* No settings change and no process ends: what was in force stays so.
<1>f. ASSUME UNCHANGED <<offer, config, built, held>>,
             Bootstrapping' => Bootstrapping, pc' \notin {"stage", "store"}
      PROVE  Goal
  BY <1>f, <1>k, <1>u
\* The process ends.
<1>e. ASSUME Exit PROVE Goal
  BY <1>e DEF Exit, Bootstrapping
<1>1. CASE Start
  BY <1>1, <1>k, <1>h DEF Start, Bootstrapping, process, fleet
<1>2. CASE ApplyCached
  <2>1. offer' = offer /\ pc' = "enroll" /\ UNCHANGED <<held, built>> /\ config = Environment
        /\ (held # None => config' = Applied(Environment, held.profile))
    BY <1>0, <1>2 DEF ApplyCached, fleet, FreshSettings
  <2>2. pc = "cached"
    BY <1>2 DEF ApplyCached
  <2> QED
    BY <1>k, <1>h, <2>1, <2>2 DEF OfferedSettings
<1>3. CASE CachedRefused \/ BuildFails \/ Kill
  BY <1>3, <1>e DEF CachedRefused, BuildFails, Kill
<1>4. CASE EnrollKnown \/ EnrollGranted \/ StoreIdentity \/ HeartbeatOk
  BY <1>4, <1>f DEF EnrollKnown, EnrollGranted, StoreIdentity, HeartbeatOk, process, fleet,
                    Bootstrapping
<1>5. CASE EnrollLost \/ EnrollFails \/ HeartbeatFails \/ FetchNothing
  BY <1>5, <1>f DEF EnrollLost, EnrollFails, HeartbeatFails, FetchNothing, Fails, Return,
                    Bootstrapping
<1>6. CASE FetchOk
  BY <1>6, <1>f DEF FetchOk, fleet, Bootstrapping
<1>7. CASE ApplyFetched
  <2>1. /\ offer' = offer /\ pc = "apply" /\ pc' = "stage" /\ got # None
        /\ config' = Applied(config, got.profile) /\ UNCHANGED <<got, built>>
    BY <1>0, <1>7 DEF ApplyFetched, fleet, TypeOK
  <2>2. built # None /\ built.rev = offer.rev => InUse' = OfferedSettings
    <3> SUFFICES ASSUME built # None, built.rev = offer.rev PROVE InUse' = OfferedSettings
      OBVIOUS
    <3>1. got = offer
      BY <1>h, <1>k, <2>1, InHandIsOffer
    <3>2. config' = OfferedSettings
      BY <1>c, <2>1, <3>1
    <3>3. InUse = OfferedSettings
      BY <1>k, <2>1
    <3>4. built.config \in Config
      BY <1>0 DEF TypeOK, Built
    <3> QED
      BY <2>1, <3>2, <3>3, <3>4 DEF InUse, Config
  <2> QED
    BY <1>k, <1>c, <2>1, <2>2 DEF Bootstrapping
<1>8. CASE ApplyRefused
  <2>1. offer' = offer /\ pc = "apply" /\ pc' \in {"loop", "build"} /\ UNCHANGED <<held, built>>
        /\ ~ Accepts(config, got.profile) /\ got # None
    BY <1>0, <1>8 DEF ApplyRefused, Fails, Return, TypeOK
  <2>2. held # offer
    BY <1>c, <1>k, <2>1, InHandIsOffer
  <2> QED
    BY <1>k, <1>h, <2>1, <2>2
<1>9. CASE StageOk
  BY <1>9, <1>k, <1>u DEF StageOk, process, fleet, Bootstrapping
<1>10. CASE StageFails
  <2>1. offer' = offer /\ pc = "stage" /\ pc' \in {"loop", "build"} /\ got # None
        /\ UNCHANGED <<held, built, config>>
    BY <1>0, <1>10 DEF StageFails, Fails, Return, TypeOK
  <2>2. held = offer => got = offer
    BY <1>k, <2>1, InHandIsOffer
  <2> QED
    BY <1>k, <1>u, <2>1, <2>2
<1>11. CASE Store
  <2>1. CASE ticking /\ Changed
    BY <1>11, <1>e, <2>1 DEF Store
  <2>2. CASE ~ (ticking /\ Changed)
    <3>1. offer' = offer /\ pc = "store" /\ pc' \in {"loop", "build"} /\ held' = got
          /\ UNCHANGED <<built, config>>
      BY <1>11, <2>2 DEF Store, Return, fleet
    <3> QED
      BY <1>k, <1>u, <3>1
  <2> QED
    BY <2>1, <2>2
<1>12. CASE Build
  <2>1. /\ offer' = offer /\ pc = "build" /\ pc' = "loop" /\ ~ ticking /\ held = desired
        /\ built' = [rev |-> Rev(held), config |-> config] /\ UNCHANGED config
    BY <1>0, <1>12 DEF Build, fleet, TickOfHeld, Recoverable
  <2>2. Rev(held) = offer.rev => held = offer
    <3>1. offer.rev \in 1..MaxRevision /\ Rev(offer) = offer.rev
      BY <1>k, <2>1, SignedFields
    <3>2. Rev(held) = offer.rev => held # None
      BY <3>1 DEF Rev
    <3> QED
      BY <1>0, <2>1, <3>1, <3>2 DEF OneProfilePerRevision
  <2>3. Bootstrapping
    BY <2>1 DEF Bootstrapping
  <2>4. InUse' = config
    BY <1>0, <2>1 DEF InUse, TypeOK, Config
  <2> QED
    BY <1>k, <2>1, <2>2, <2>3, <2>4 DEF Bootstrapping
<1>13. CASE Tick
  BY <1>13, <1>k, <1>u DEF Tick, fleet, Bootstrapping
<1>14. ASSUME NEW p \in Profiles, Publish(p) PROVE Goal
  <2>1. /\ \A d \in {desired, got} : d # None => d # offer'
        /\ pc # "down" => held # offer'
        /\ built # None => built.rev # offer'.rev
        /\ offer' # None
    BY <1>14, Published
  <2>2. UNCHANGED <<pc, got, held, built, config, ticking>>
    BY <1>14 DEF Publish, process
  <2> QED
    BY <2>1, <2>2 DEF Bootstrapping
<1>15. CASE UNCHANGED vars
  BY <1>15, <1>k, <1>u DEF vars, process, fleet, Bootstrapping
<1> QED
  BY <1>1, <1>2, <1>3, <1>4, <1>5, <1>6, <1>7, <1>8, <1>9, <1>10, <1>11, <1>12, <1>13, <1>14, <1>15
     DEF Next, Agent

\* The initial states satisfy the invariant.
LEMMA InvariantInit == Init => IInv
<1> SUFFICES ASSUME Init PROVE IInv
  OBVIOUS
<1>1. TypeOK
  <2>1. oneTime \in BOOLEAN /\ config \in Config
    BY ProfilesAssumption, BoundsAssumption DEF Init
  <2>2. reported \in 0..MaxRevision /\ kills \in 0..MaxKills /\ lost \in 0..MaxLost /\ uses \in Nat
    BY BoundsAssumption DEF Init
  <2>3. got = None /\ pc = "down"
    BY DEF Init
  <2> QED
    BY <2>1, <2>2, <2>3, Zenon DEF Init, TypeOK
<1>2. BuiltIsHeld /\ FleetNotAhead /\ Recoverable /\ RevisionsGrow /\ TickOfHeld /\ EnrolledFirst
  BY DEF Init, BuiltIsHeld, FleetNotAhead, Recoverable, RevisionsGrow, TickOfHeld, EnrolledFirst, Rev
<1>3. FreshSettings /\ TokensAccounted /\ OneProfilePerRevision /\ SettingsOfOffer
  BY DEF Init, FreshSettings, TokensAccounted, OneProfilePerRevision, SettingsOfOffer, Offered
<1> QED
  BY <1>1, <1>2, <1>3 DEF IInv

\* Every step keeps it.
LEMMA InvariantStep == IInv /\ [Next]_vars => IInv'
BY TypeStep, RelatedStep, FreshStep, OneProfileStep, SettingsStep DEF IInv, Related

\* The inductive invariant holds in every reachable state (fleet.rs, main.rs).
THEOREM Invariance == Spec => []IInv
BY InvariantInit, InvariantStep, PTL DEF Spec

\* Every variable of the client keeps its type.
THEOREM TypeCorrect == Spec => []TypeOK
<1>1. IInv => TypeOK
  BY DEF IInv
<1> QED
  BY <1>1, Invariance, PTL

\* A running agent was built by a process that held the revision it reports.
THEOREM BuiltIsHeldAlways == Spec => []BuiltIsHeld
<1>1. IInv => BuiltIsHeld
  BY DEF IInv
<1> QED
  BY <1>1, Invariance, PTL

\* The fleet never hears of a revision that is not on disk.
THEOREM FleetNotAheadAlways == Spec => []FleetNotAhead
<1>1. IInv => FleetNotAhead
  BY DEF IInv
<1> QED
  BY <1>1, Invariance, PTL

\* Memory agrees with the disk, and a stored state has its identity.
THEOREM RecoverableAlways == Spec => []Recoverable
<1>1. IInv => Recoverable
  BY DEF IInv
<1> QED
  BY <1>1, Invariance, PTL

\* No process of an enrolled device asks the fleet to enroll again.
THEOREM TokenSpentOnceAlways == Spec => TokenSpentOnce
<1>1. IInv /\ [Next]_vars => [identity => uses' = uses]_vars
  <2> SUFFICES ASSUME IInv, identity, Next PROVE uses' = uses
    BY DEF vars
  <2>1. ~ EnrollGranted /\ ~ EnrollLost
    BY DEF IInv, Recoverable, EnrollGranted, EnrollLost, Enrolled
  <2> QED
    BY <2>1 DEF Next, Agent, ApplyCached, ApplyFetched, ApplyRefused, Build, BuildFails, CachedRefused, EnrollFails, EnrollKnown, Exit, Fails, FetchNothing, FetchOk, HeartbeatFails, HeartbeatOk, Kill, Return, StageFails, StageOk, Start, Store, StoreIdentity, Tick, Publish, fleet
<1> QED
  BY <1>1, Invariance, PTL DEF Spec, TokenSpentOnce

\* A device that reports the revision on offer, a complete profile, runs with exactly
\* its settings.
THEOREM RevisionMeansSettingsAlways == Spec => []RevisionMeansSettings
<1>1. IInv => RevisionMeansSettings
  <2> SUFFICES ASSUME IInv, pc = "loop", Offered, Rev(held) = offer.rev
               PROVE  InUse = OfferedSettings
    BY DEF RevisionMeansSettings
  <2>1. built # None /\ built.rev = offer.rev
    BY DEF IInv, BuiltIsHeld
  <2> QED
    BY <2>1 DEF IInv, SettingsOfOffer
<1> QED
  BY <1>1, Invariance, PTL

\* Every grant led to the identity, was lost, or was cut off by a kill.
THEOREM TokensAccountedAlways == Spec => []TokensAccounted
<1>1. IInv => TokensAccounted
  BY DEF IInv
<1> QED
  BY <1>1, Invariance, PTL

\* How a process ends that is not killed.
LEMMA EndStep ==
  ASSUME IInv, Next, pc # "down", pc' = "down", kills' = kills
  PROVE  \/ pc = "cached" /\ Stuck
         \/ pc = "build" /\ config.url = Malformed
         \/ ticking /\ Rev(desired') > Rev(desired)
<1>0. TypeOK /\ Recoverable /\ FreshSettings /\ RevisionsGrow
  BY DEF IInv
<1>1. CASE CachedRefused
  <2>1. held = desired /\ config = Environment
    BY <1>0, <1>1 DEF CachedRefused, Recoverable, FreshSettings
  <2> QED
    BY <1>1, <2>1 DEF CachedRefused, Stuck
<1>2. CASE BuildFails
  BY <1>2 DEF BuildFails
<1>3. CASE Store
  <2>1. ticking /\ Changed
    BY <1>3 DEF Store, Return
  <2>2. got \in Signed /\ got # None /\ desired' = got /\ held = desired
    BY <1>0, <1>3 DEF Store, Persisted, TypeOK, Recoverable
  <2>3. /\ Rev(got) = got.rev /\ Rev(got) \in Nat /\ Rev(desired) \in Nat
        /\ Rev(desired) <= Rev(got)
    BY <1>0, <2>2, SignedFields, RevBound DEF TypeOK, RevisionsGrow
  <2>4. Rev(desired') = Rev(got) /\ Rev(desired) # Rev(got)
    BY <2>1, <2>2, <2>3 DEF Changed
  <2> QED
    BY <2>1, <2>3, <2>4
<1>4. CASE Kill
  BY <1>0, <1>4, BoundsAssumption DEF Kill, TypeOK
<1>5. CASE Start \/ ApplyCached \/ EnrollKnown \/ EnrollGranted \/ StoreIdentity \/ HeartbeatOk
           \/ FetchOk \/ ApplyFetched \/ StageOk \/ Build \/ Tick
  BY <1>5 DEF Start, ApplyCached, EnrollKnown, EnrollGranted, StoreIdentity, HeartbeatOk, FetchOk,
              ApplyFetched, StageOk, Build, Tick
<1>6. CASE EnrollLost \/ EnrollFails \/ HeartbeatFails \/ FetchNothing \/ ApplyRefused \/ StageFails
  BY <1>6 DEF EnrollLost, EnrollFails, HeartbeatFails, FetchNothing, ApplyRefused, StageFails,
              Fails, Return
<1>7. ASSUME NEW p \in Profiles, Publish(p) PROVE FALSE
  BY <1>7 DEF Publish
<1> QED
  BY <1>1, <1>2, <1>3, <1>4, <1>5, <1>6, <1>7 DEF Next, Agent

\* A process that is not killed ends over a stored profile that the environment's
\* settings refuse, over an unusable url, or for a newer revision.
THEOREM RestartsForNewsAlways == Spec => RestartsForNews
<1>1. IInv /\ [Next]_vars =>
        [pc # "down" /\ pc' = "down" /\ kills' = kills =>
           \/ pc = "cached" /\ Stuck
           \/ pc = "build" /\ config.url = Malformed
           \/ ticking /\ Rev(desired') > Rev(desired)]_vars
  BY EndStep
<1> QED
  BY <1>1, Invariance, PTL DEF Spec, RestartsForNews

----------------------------------------------------------------------------
(* When every profile is complete *)

\* The settings of the environment, or of one profile: never a mixture of two.
Unmixed ==
  LET Clean == {Environment} \cup {Applied(Environment, p) : p \in Profiles}
  IN  config \in Clean /\ (built # None => built.config \in Clean)

LEMMA UnmixedStep ==
  ASSUME \A p \in Profiles : Complete(p)
  PROVE  IInv /\ Unmixed /\ [Next]_vars => Unmixed'
<1> SUFFICES ASSUME IInv, Unmixed, [Next]_vars PROVE Unmixed'
  OBVIOUS
<1> USE DEF Unmixed
<1>0. TypeOK
  BY DEF IInv
\* A profile, applied to whatever settings, leaves its own.
<1>a. ASSUME NEW d \in Signed
      PROVE  /\ Applied(config, d.profile) = Applied(Environment, d.profile)
             /\ Accepts(config, d.profile) /\ d.profile \in Profiles
  BY <1>0, SignedFields, CompleteForgets DEF TypeOK
<1>1. CASE ApplyCached
  <2>1. held # None => held \in Signed
    BY <1>0 DEF TypeOK
  <2> QED
    BY <1>1, <1>a, <2>1 DEF ApplyCached
<1>2. CASE ApplyFetched \/ ApplyRefused
  <2>1. got \in Signed
    BY <1>0, <1>2 DEF TypeOK, ApplyFetched, ApplyRefused
  <2> QED
    BY <1>2, <1>a, <2>1 DEF ApplyFetched, ApplyRefused, Fails
<1>3. CASE Build
  BY <1>3 DEF Build
<1>4. CASE CachedRefused \/ BuildFails \/ Kill
  BY <1>4 DEF CachedRefused, BuildFails, Kill, Exit
<1>5. CASE Store
  BY <1>5 DEF Store, Exit
<1>6. CASE Start \/ EnrollKnown \/ EnrollGranted \/ StoreIdentity \/ HeartbeatOk \/ FetchOk
           \/ StageOk \/ Tick
  BY <1>6 DEF Start, EnrollKnown, EnrollGranted, StoreIdentity, HeartbeatOk, FetchOk, StageOk, Tick,
              process
<1>7. CASE EnrollLost \/ EnrollFails \/ HeartbeatFails \/ FetchNothing \/ StageFails
  BY <1>7 DEF EnrollLost, EnrollFails, HeartbeatFails, FetchNothing, StageFails, Fails
<1>8. ASSUME NEW p \in Profiles, Publish(p) PROVE Unmixed'
  BY <1>8 DEF Publish, process
<1>9. CASE UNCHANGED vars
  BY <1>9 DEF vars, process
<1> QED
  BY <1>1, <1>2, <1>3, <1>4, <1>5, <1>6, <1>7, <1>8, <1>9 DEF Next, Agent

\* Under profiles that all mention every setting, exporters and collector are built with
\* the environment's settings or with those of one profile, never with a mixture. (The
\* interval of the loop may already be that of a later one: InUse.)
THEOREM CompleteProfilesUnmixed ==
  ASSUME \A p \in Profiles : Complete(p)
  PROVE  Spec => []Unmixed
<1>1. Init => Unmixed
  BY DEF Init, Unmixed
<1> QED
  BY <1>1, UnmixedStep, Invariance, PTL DEF Spec

\* A process ends by a kill, or because a tick stored a newer revision.
EndsForNewsOnly ==
  [][pc # "down" /\ pc' = "down" /\ kills' = kills =>
       ticking /\ Rev(desired') > Rev(desired)]_vars

\* With such profiles, and a usable url in the environment, no start is refused: the
\* agent ends only by a kill or for a newer revision.
THEOREM CompleteProfilesStart ==
  ASSUME \A p \in Profiles : Complete(p), Environment.url # Malformed
  PROVE  Spec => EndsForNewsOnly
<1>1. IInv /\ Unmixed => ~ Stuck /\ config.url # Malformed
  <2> SUFFICES ASSUME IInv, Unmixed PROVE ~ Stuck /\ config.url # Malformed
    OBVIOUS
  <2>1. ~ Stuck
    <3>1. desired # None => desired.profile \in Profiles
      BY SignedFields DEF IInv, TypeOK
    <3> QED
      BY <3>1 DEF Stuck, Complete
  <2>2. ASSUME NEW p \in Profiles PROVE Applied(Environment, p).url # Malformed
    <3>1. p \in Profile /\ Complete(p)
      BY ProfilesAssumption
    <3>2. DOMAIN p = {"poll", "url", "ble", "zone"}
      BY <3>1 DEF Profile
    <3>3. p.url # Malformed /\ p.url # Absent /\ ~ PollRefused(p)
      BY <3>1, <3>2 DEF Complete, Accepts
    <3>4. Applied(Environment, p).url = p.url
      BY <3>3 DEF Applied, Taken
    <3> QED
      BY <3>3, <3>4
  <2> QED
    BY <2>1, <2>2 DEF Unmixed
<1>2. IInv /\ Unmixed /\ [Next]_vars =>
        [pc # "down" /\ pc' = "down" /\ kills' = kills =>
           ticking /\ Rev(desired') > Rev(desired)]_vars
  BY <1>1, EndStep
<1> QED
  BY <1>2, CompleteProfilesUnmixed, Invariance, PTL DEF Spec, EndsForNewsOnly
----------------------------------------------------------------------------
(* The fleet client implements the abstract rollout *)

\* What the rollout sees.
Seen == <<Rev(offer), identity, Rev(desired), IF built = None THEN {} ELSE {built.rev}, reported>>

LEMMA SeenIsRollout == Rollout!rvars = Seen
BY DEF Rollout!rvars, Seen

\* A process that ends, whatever else it leaves.
LEMMA ExitStops ==
  ASSUME Exit, UNCHANGED <<desired, identity, fleet>>
  PROVE  Rollout!Stop
BY DEF Exit, Rollout!Stop, Rev, fleet

\* The store of a revision: adopted if it is newer, written again if it is not.
LEMMA StoreAdopts ==
  ASSUME IInv, Store
  PROVE  (\E r \in 1..Rev(offer) : Rollout!Adopt(r)) \/ UNCHANGED Seen
<1>0. TypeOK /\ Recoverable /\ RevisionsGrow /\ TickOfHeld /\ EnrolledFirst
  BY DEF IInv
<1>1. /\ pc = "store" /\ desired' = got /\ identity /\ got \in Signed /\ got # None
      /\ UNCHANGED <<identity, fleet>>
  BY <1>0 DEF Store, Persisted, EnrolledFirst, TypeOK
<1>2. /\ Rev(desired') = Rev(got) /\ Rev(got) = got.rev
      /\ Rev(got) \in Nat /\ Rev(desired) \in Nat /\ Rev(offer) \in Nat
      /\ Rev(desired) <= Rev(got) /\ Rev(got) <= Rev(offer)
  BY <1>0, <1>1, SignedFields, RevBound DEF TypeOK, RevisionsGrow
<1>3. held = desired
  BY <1>0, <1>1 DEF Recoverable
<1>4. offer' = offer /\ reported' = reported
  BY <1>1 DEF fleet
<1>5. CASE Rev(desired) = Rev(got)
  <2>1. ~ Changed
    BY <1>2, <1>3, <1>5 DEF Changed
  <2>2. built' = built
    BY <2>1 DEF Store
  <2> QED
    BY <1>1, <1>2, <1>4, <1>5, <2>2 DEF Seen, Rev
<1>6. CASE Rev(desired) < Rev(got)
  <2>1. Changed
    BY <1>2, <1>3, <1>6 DEF Changed
  <2>2. built' = None
    <3>1. CASE ticking
      BY <2>1, <3>1 DEF Store, Exit
    <3>2. CASE ~ ticking
      <4>1. built = None
        BY <1>0, <1>1, <3>2 DEF TickOfHeld
      <4> QED
        BY <3>2, <4>1 DEF Store
    <3> QED
      BY <3>1, <3>2
  <2>3. Rev(got) \in 1..Rev(offer)
    BY <1>2, <1>6
  <2>4. Rollout!Adopt(Rev(got))
    BY <1>1, <1>2, <1>4, <1>6, <2>2 DEF Rollout!Adopt, Rev
  <2> QED
    BY <2>3, <2>4
<1> QED
  BY <1>2, <1>5, <1>6

LEMMA RolloutStep == IInv /\ [Next]_vars => [Rollout!RNext]_(Rollout!rvars)
<1> SUFFICES ASSUME IInv, [Next]_vars PROVE Rollout!RNext \/ UNCHANGED Seen
  BY SeenIsRollout DEF Rollout!rvars, Seen
<1>0. TypeOK /\ Recoverable /\ TickOfHeld /\ BuiltIsHeld
  BY DEF IInv
<1>1. CASE CachedRefused \/ BuildFails \/ Kill
  <2>1. Exit /\ UNCHANGED <<desired, identity, fleet>>
    BY <1>1 DEF CachedRefused, BuildFails, Kill, disk
  <2> QED
    BY <2>1, ExitStops DEF Rollout!RNext
<1>2. CASE Store
  BY <1>2, StoreAdopts DEF Rollout!RNext
<1>3. CASE StoreIdentity
  <2>1. Rollout!Enroll
    BY <1>3 DEF StoreIdentity, Rollout!Enroll, Rev, fleet
  <2> QED
    BY <2>1 DEF Rollout!RNext
<1>4. CASE HeartbeatOk \/ HeartbeatFails
  <2>1. built # None /\ built.rev = Rev(held) /\ pc = "heartbeat"
    BY <1>0, <1>4 DEF HeartbeatOk, HeartbeatFails, TickOfHeld
  <2>2. /\ reported' \in {reported, Rev(held)}
        /\ UNCHANGED <<identity, desired, offer, built>>
    BY <1>4 DEF HeartbeatOk, HeartbeatFails, Fails, disk, process
  <2>3. CASE reported' = reported
    BY <2>2, <2>3 DEF Seen, Rev
  <2>4. CASE reported' = Rev(held)
    <3>1. Rollout!Report
      BY <2>1, <2>2, <2>4 DEF Rollout!Report, Rev
    <3> QED
      BY <3>1 DEF Rollout!RNext
  <2> QED
    BY <2>2, <2>3, <2>4
<1>5. CASE Build
  <2>1. pc = "build" /\ built = None /\ held = desired
    BY <1>0, <1>5 DEF Build, TickOfHeld, Recoverable
  <2>2. /\ built' = [rev |-> Rev(held), config |-> config]
        /\ UNCHANGED <<identity, desired, offer, reported>>
    BY <1>5 DEF Build, disk, fleet
  <2>3. built' # None
    <3>1. Rev(held) \in 0..MaxRevision /\ config \in Config
      BY <1>0, RevBound DEF TypeOK
    <3>2. built' \in Built
      BY <2>2, <3>1 DEF Built
    <3> QED
      BY <3>2, NoneAssumption
  <2>4. Rollout!Run
    BY <2>1, <2>2, <2>3 DEF Rollout!Run, Rev
  <2> QED
    BY <2>4 DEF Rollout!RNext
<1>6. ASSUME NEW p \in Profiles, Publish(p) PROVE Rollout!RNext
  <2>1. Rev(offer') = Rev(offer) + 1
    BY <1>6, Published DEF Publish
  <2>2. Rollout!Publish
    BY <1>6, <2>1 DEF Publish, Rollout!Publish, Rev, disk, process
  <2> QED
    BY <2>2 DEF Rollout!RNext
<1>7. CASE Start \/ ApplyCached \/ EnrollKnown \/ EnrollGranted \/ FetchOk \/ ApplyFetched \/ StageOk
           \/ Tick
  <2>1. UNCHANGED <<offer, identity, desired, built, reported>>
    BY <1>7 DEF Start, ApplyCached, EnrollKnown, EnrollGranted, FetchOk, ApplyFetched, StageOk, Tick,
                disk, process, fleet
  <2> QED
    BY <2>1 DEF Seen, Rev
<1>8. CASE EnrollLost \/ EnrollFails \/ FetchNothing \/ ApplyRefused \/ StageFails
  <2>1. UNCHANGED <<offer, identity, desired, built, reported>>
    BY <1>8 DEF EnrollLost, EnrollFails, FetchNothing, ApplyRefused, StageFails, Fails, disk
  <2> QED
    BY <2>1 DEF Seen, Rev
<1>9. CASE UNCHANGED vars
  BY <1>9 DEF vars, disk, process, fleet, Seen, Rev
<1> QED
  BY <1>1, <1>2, <1>3, <1>4, <1>5, <1>6, <1>7, <1>8, <1>9 DEF Next, Agent

\* Whatever is killed, lost, refused or half applied, the device goes forward through
\* the revisions it is offered, runs the one on its disk and reports the one it runs.
THEOREM FleetImplementsRollout == Spec => ImplementsRollout
<1>1. Init => Rollout!RInit
  BY DEF Init, Rollout!RInit, Rev
<1> QED
  BY <1>1, RolloutStep, Invariance, PTL DEF Spec, ImplementsRollout, Rollout!RSpec
==============================================================================

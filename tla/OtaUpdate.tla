------------------------------ MODULE OtaUpdate ------------------------------
(***************************************************************************)
(* Over-the-air updates: the running agent stages a binary the fleet       *)
(* offers (src/ota.rs, called by src/fleet.rs), and the separate updater   *)
(* (src/bin/radiochron-agent-update.rs) swaps executables before the agent *)
(* starts, counts the tries of an unproven one and rolls it back.  The two *)
(* share pending-update.json, the executable and its .previous copy; they  *)
(* never run at the same time, but either may die between two file writes. *)
(*                                                                         *)
(* Abstractions.                                                           *)
(*  - A binary stands for its version and digest.  Working ones reach      *)
(*    mark_healthy, hanging ones never leave their first step, all others  *)
(*    exit before it.                                                      *)
(*  - atomic_json and replace_file are one step: write aside, rename.  The *)
(*    copy to .previous is not: it truncates first.                        *)
(*  - The health timeout is a flag the passing of time sets.               *)
(*  - Errors of the fleet exchange end the exchange and change nothing.    *)
(***************************************************************************)
EXTENDS Naturals, FiniteSets

CONSTANTS
  Binaries,     \* all agent executables
  Installed,    \* the one installed by hand
  Working,      \* those that reach mark_healthy
  Hanging,      \* those that neither reach it nor end
  None,         \* no file
  Torn,         \* a file that is not whole
  Supervisors,  \* TRUE in it: launchd, updater `supervise'; FALSE: systemd, `reconcile'
  Writable,     \* the updater may write beside the executable
  Clocks,       \* TRUE in it: the wall clock never steps back; FALSE: it may
  MaxRevision,  \* bound: profile revisions the fleet publishes
  MaxKills      \* bound: power losses and kills

ASSUME BinariesAssumption ==
  /\ Installed \in Working /\ Working \subseteq Binaries
  /\ Hanging \subseteq Binaries \ Working
  /\ None \notin Binaries /\ Torn \notin Binaries /\ None # Torn
ASSUME SwitchAssumption ==
  Supervisors \subseteq BOOLEAN /\ Clocks \subseteq BOOLEAN /\ Writable \in BOOLEAN
ASSUME BoundAssumption == MaxRevision \in Nat /\ MaxKills \in Nat

VARIABLES
  \* on disk
  target,     \* the executable the service runs
  previous,   \* its .previous copy
  artifact,   \* artifact[b]: the downloaded file of b
  pend,       \* pending-update.json
  desired,    \* revision in desired.json (0: none)
  \* processes
  pc,         \* "stopped", or what the updater or the agent is doing
  after,      \* the updater runs after the agent's exit (supervise)
  manifest,   \* the offer the agent is staging
  \* environment
  supervised, \* how the service is installed
  steady,     \* how the clock behaves
  offer,      \* revision the fleet offers, and its binary if it has one
  expired,    \* the health timeout of the applied update has passed
  kills,      \* kills so far
  \* history
  starts,     \* starts of the agent since the pending update was applied
  rolled      \* <<revision, binary>> rolled back so far

files == <<target, previous, artifact, pend, desired>>
env == <<supervised, steady, offer, expired, kills>>
history == <<starts, rolled>>
vars == <<target, previous, artifact, pend, desired, pc, after, manifest,
          supervised, steady, offer, expired, kills, starts, rolled>>

Offer == [rev : 0..MaxRevision, bin : Binaries \cup {None}]

Update == [rev : 0..MaxRevision, bin : Binaries, attempts : 0..1,
           phase : {"pending", "awaiting_health", "healthy", "rolled_back"}]

ASSUME NoneAssumption == None \notin Update /\ None \notin Offer

Phase(p) == pend # None /\ pend.phase = p

Init ==
  /\ target = Installed /\ previous = None
  /\ artifact = [b \in Binaries |-> None]
  /\ pend = None /\ desired = 0
  /\ pc = "stopped" /\ after = FALSE
  /\ manifest = None
  /\ supervised \in Supervisors /\ steady \in Clocks
  /\ offer = [rev |-> 0, bin |-> None]
  /\ expired = FALSE /\ kills = 0
  /\ starts = 0 /\ rolled = {}

----------------------------------------------------------------------------
(* The updater *)

\* The service manager starts the service: reconcile comes first.
Launch ==
  /\ pc = "stopped"
  /\ pc' = "reconcile" /\ after' = FALSE
  /\ UNCHANGED <<files, manifest, env, history>>

\* reconcile is done: the agent starts, unless it has just ended.
Finish ==
  /\ pc' = IF after THEN "stopped" ELSE "boot"
  /\ after' = FALSE

\* reconcile returns an error: ExecStartPre, or supervise, fails.
Bail == pc' = "stopped" /\ after' = FALSE

ReconcileIdle ==
  /\ pc = "reconcile"
  /\ pend = None \/ Phase("healthy") \/ Phase("rolled_back")
  /\ Finish
  /\ UNCHANGED <<files, manifest, env, history>>

\* Mutant: the phase is recorded before the files are in place.
ApplyStart_RecordFirst ==
  /\ pc = "reconcile" /\ Phase("pending")
  /\ artifact[pend.bin] = pend.bin /\ Writable
  /\ previous' = Torn
  /\ pend' = [pend EXCEPT !.phase = "awaiting_health"]
  /\ pc' = "backup"
  /\ UNCHANGED <<target, artifact, desired, after, manifest, env, history>>

\* apply: the digest is checked, the new binary copied beside the old one.
ApplyStart ==
  /\ pc = "reconcile" /\ Phase("pending")
  /\ artifact[pend.bin] = pend.bin /\ Writable
  /\ previous' = Torn
  /\ pc' = "backup"
  /\ UNCHANGED <<target, artifact, pend, desired, after, manifest, env, history>>

ApplyBackup ==
  /\ pc = "backup"
  /\ previous' = target
  /\ pc' = "swap"
  /\ UNCHANGED <<target, artifact, pend, desired, after, manifest, env, history>>

ApplySwap ==
  /\ pc = "swap"
  /\ target' = pend.bin
  /\ pc' = "record"
  /\ UNCHANGED <<previous, artifact, pend, desired, after, manifest, env, history>>

ApplyRecord ==
  /\ pc = "record"
  /\ pend' = [rev |-> pend.rev, bin |-> pend.bin, attempts |-> 0, phase |-> "awaiting_health"]
  /\ expired' = FALSE
  /\ starts' = IF after THEN 0 ELSE 1
  /\ Finish
  /\ UNCHANGED <<target, previous, artifact, desired, manifest, supervised, steady, offer, kills, rolled>>

\* Mutant: one try more.
Due_Late == pend.attempts >= 2 \/ expired

\* Mutant: tries do not count.
Due_TimeOnly == expired

\* The new binary has had its second try, or its time.
Due == pend.attempts >= 1 \/ expired

\* Mutant: the try is not recorded.
Retry_Uncounted ==
  /\ pc = "reconcile" /\ Phase("awaiting_health") /\ ~ Due
  /\ Finish
  /\ UNCHANGED <<files, manifest, env, history>>

Retry ==
  /\ pc = "reconcile" /\ Phase("awaiting_health") /\ ~ Due
  /\ pend' = [pend EXCEPT !.attempts = @ + 1]
  /\ starts' = IF after THEN starts ELSE starts + 1
  /\ Finish
  /\ UNCHANGED <<target, previous, artifact, desired, manifest, env, rolled>>

\* apply finds the artifact damaged, rollback no .previous, or neither may write.
Refused ==
  /\ pc = "reconcile"
  /\ \/ Phase("pending") /\ (artifact[pend.bin] # pend.bin \/ ~ Writable)
     \/ Phase("awaiting_health") /\ Due /\ (previous = None \/ ~ Writable)
  /\ Bail
  /\ UNCHANGED <<files, manifest, env, history>>

\* Mutant: the record says rolled back, the executable is still the update.
RollbackSwap_Skipped ==
  /\ pc = "reconcile" /\ Phase("awaiting_health") /\ Due
  /\ previous # None /\ Writable
  /\ pc' = "rollback"
  /\ UNCHANGED <<target, previous, artifact, pend, desired, after, manifest, env, history>>

RollbackSwap ==
  /\ pc = "reconcile" /\ Phase("awaiting_health") /\ Due
  /\ previous # None /\ Writable
  /\ target' = previous
  /\ pc' = "rollback"
  /\ UNCHANGED <<previous, artifact, pend, desired, after, manifest, env, history>>

RollbackRecord ==
  /\ pc = "rollback"
  /\ pend' = [pend EXCEPT !.phase = "rolled_back"]
  /\ rolled' = rolled \cup {<<pend.rev, pend.bin>>}
  /\ Finish
  /\ UNCHANGED <<target, previous, artifact, desired, manifest, env, starts>>

Updater ==
  \/ Launch \/ ReconcileIdle \/ ApplyStart \/ ApplyBackup \/ ApplySwap
  \/ ApplyRecord \/ Retry \/ RollbackSwap \/ RollbackRecord \/ Refused

----------------------------------------------------------------------------
(* The agent.  Its control states: "boot" before bootstrap, "loop" before     *)
(* step, drain and mark_healthy, "tick" before the fleet poll, and "stage" and *)
(* "store" within an exchange, remembered by `at' as begun in boot or tick.   *)

AgentUp == pc \in {"boot", "boot_stage", "boot_store", "loop", "tick", "tick_stage", "tick_store"}

\* Begun in bootstrap or in tick; both fetch, stage, then store.
Fetch(from, staging) ==
  /\ pc = from
  /\ offer.rev > 0
  /\ manifest' = offer
  /\ pc' = staging
  /\ UNCHANGED <<files, after, env, history>>

\* No answer, no offer, or an error before staging: go on with the loop.
NoExchange ==
  /\ pc \in {"boot", "tick"}
  /\ pc' = "loop"
  /\ UNCHANGED <<files, after, manifest, env, history>>

Staging == pc \in {"boot_stage", "tick_stage"}

\* Mutant: only an update that is still to be applied counts as recorded.
Matches_PendingOnly ==
  \/ manifest.bin = None
  \/ Phase("pending") /\ pend.rev = manifest.rev /\ pend.bin = manifest.bin

\* stage has nothing to do: the revision has no update, or it is the one
\* recorded already, whatever became of it.
Matches ==
  \/ manifest.bin = None
  \/ pend # None /\ pend.rev = manifest.rev /\ pend.bin = manifest.bin

NextStored == IF pc = "boot_stage" THEN "boot_store" ELSE "tick_store"

StageMatch ==
  /\ Staging /\ Matches
  /\ pc' = NextStored
  /\ UNCHANGED <<files, after, manifest, env, history>>

\* stage: the artifact is missing or not whole; download it.
StageDownload ==
  /\ Staging /\ ~ Matches
  /\ artifact[manifest.bin] # manifest.bin
  /\ artifact' = [artifact EXCEPT ![manifest.bin] = manifest.bin]
  /\ UNCHANGED <<target, previous, pend, desired, pc, after, manifest, env, history>>

\* The download fails or its digest differs: the exchange ends.
StageFails ==
  /\ Staging /\ ~ Matches
  /\ artifact[manifest.bin] # manifest.bin
  /\ pc' = "loop"
  /\ UNCHANGED <<files, after, manifest, env, history>>

StageWrite ==
  /\ Staging /\ ~ Matches
  /\ artifact[manifest.bin] = manifest.bin
  /\ pend' = [rev |-> manifest.rev, bin |-> manifest.bin, attempts |-> 0, phase |-> "pending"]
  /\ pc' = NextStored
  /\ UNCHANGED <<target, previous, artifact, desired, after, manifest, env, history>>

\* The agent ends with a failure status; supervise reconciles at once.
AgentExits ==
  /\ pc' = IF supervised THEN "reconcile" ELSE "stopped"
  /\ after' = supervised

\* bootstrap keeps running; tick ends the process when the revision is new.
BootStore ==
  /\ pc = "boot_store"
  /\ desired' = manifest.rev
  /\ pc' = "loop"
  /\ UNCHANGED <<target, previous, artifact, pend, after, manifest, env, history>>

TickStore ==
  /\ pc = "tick_store"
  /\ desired' = manifest.rev
  /\ IF desired # manifest.rev THEN AgentExits ELSE pc' = "loop" /\ UNCHANGED after
  /\ UNCHANGED <<target, previous, artifact, pend, manifest, env, history>>

\* Mutant: the marker is set in any phase.
MarkHealthy_AnyPhase ==
  /\ pc = "loop" /\ target \in Working
  /\ pend' = IF pend # None THEN [pend EXCEPT !.phase = "healthy"] ELSE pend
  /\ pc' = "tick"
  /\ UNCHANGED <<target, previous, artifact, desired, after, manifest, env, history>>

\* A working agent completes step and drain, and marks itself healthy.
MarkHealthy ==
  /\ pc = "loop" /\ target \in Working
  /\ pend' = IF Phase("awaiting_health") THEN [pend EXCEPT !.phase = "healthy"] ELSE pend
  /\ pc' = "tick"
  /\ UNCHANGED <<target, previous, artifact, desired, after, manifest, env, history>>

\* A broken agent fails, at once or in its first step.
Fail ==
  /\ pc \in {"boot", "loop"} /\ target \notin Working \cup Hanging
  /\ AgentExits
  /\ UNCHANGED <<files, manifest, env, history>>

\* A hanging agent stays where it is: reconcile looks at the time and the tries
\* when the service starts, and nothing makes it start.
Hang ==
  /\ pc = "loop" /\ target \in Hanging
  /\ UNCHANGED vars

Agent ==
  \/ Fetch("boot", "boot_stage") \/ Fetch("tick", "tick_stage") \/ NoExchange
  \/ StageMatch \/ StageDownload \/ StageFails \/ StageWrite
  \/ BootStore \/ TickStore \/ MarkHealthy \/ Fail \/ Hang

----------------------------------------------------------------------------
(* The environment *)

\* The fleet publishes a new revision, with an update or without (None).
Publish(b) ==
  /\ offer.rev < MaxRevision
  /\ offer' = [rev |-> offer.rev + 1, bin |-> b]
  /\ UNCHANGED <<files, pc, after, manifest, supervised, steady, expired, kills, history>>

Expire ==
  /\ Phase("awaiting_health") /\ ~ expired
  /\ expired' = TRUE
  /\ UNCHANGED <<files, pc, after, manifest, supervised, steady, offer, kills, history>>

ClockBack ==
  /\ ~ steady /\ expired
  /\ expired' = FALSE
  /\ UNCHANGED <<files, pc, after, manifest, supervised, steady, offer, kills, history>>

Killed ==
  /\ pc # "stopped" /\ kills < MaxKills
  /\ kills' = kills + 1
  /\ pc' = "stopped" /\ after' = FALSE
  /\ UNCHANGED <<target, previous, pend, desired, manifest, supervised, steady, offer, expired, history>>

\* Whatever runs is killed ...
Kill == Killed /\ UNCHANGED artifact

\* ... or the agent alone is, or ends with an error; its supervisor lives on ...
AgentDies ==
  /\ AgentUp /\ kills < MaxKills
  /\ kills' = kills + 1
  /\ AgentExits
  /\ UNCHANGED <<files, manifest, supervised, steady, offer, expired, history>>

\* ... or the power fails, and a download that was never synced is lost.
PowerLoss(b) ==
  /\ Killed
  /\ artifact[b] = b
  /\ artifact' = [artifact EXCEPT ![b] = Torn]

Environment ==
  \/ \E b \in Binaries \cup {None} : Publish(b)
  \/ Expire \/ ClockBack
  \/ Kill \/ AgentDies \/ \E b \in Binaries : PowerLoss(b)

Next == Updater \/ Agent \/ Environment

Spec == Init /\ [][Next]_vars

\* The service manager restarts the service, and processes are not suspended.
Fairness == WF_vars(Updater) /\ WF_vars(Agent)

FairSpec == Spec /\ Fairness

----------------------------------------------------------------------------
(* Properties *)

\* Types of all variables.
TypeOK ==
  /\ target \in Binaries \cup {Torn}
  /\ previous \in Binaries \cup {None, Torn}
  /\ artifact \in [Binaries -> Binaries \cup {None, Torn}]
  /\ pend \in Update \cup {None}
  /\ desired \in 0..MaxRevision
  /\ pc \in {"stopped", "reconcile", "backup", "swap", "record", "rollback", "boot",
             "boot_stage", "boot_store", "loop", "tick", "tick_stage", "tick_store"}
  /\ after \in BOOLEAN /\ supervised \in BOOLEAN /\ steady \in BOOLEAN
  /\ manifest \in Offer \cup {None}
  /\ offer \in Offer
  /\ expired \in BOOLEAN /\ kills \in Nat /\ starts \in Nat
  /\ rolled \subseteq (0..MaxRevision) \X Binaries

\* Whatever dies when: the service never finds half an executable, neither
\* after a swap nor after a rollback.
TargetWhole == target \in Binaries

\* An update on trial can be rolled back: the copy to go back to is whole.
RollbackReady == Phase("awaiting_health") => previous \in Binaries

\* The health marker tells the truth: while an update is on trial the agent that
\* runs is the update, and one recorded healthy works and is the one installed.
\* (A clock that steps back after the rollback of an expired update was cut short
\* grants another try, to the old binary: so it takes a steady clock.)
HealthyIsProven ==
  steady =>
    /\ Phase("awaiting_health") /\ AgentUp => target = pend.bin
    /\ Phase("healthy") => pend.bin \in Working /\ target = pend.bin

\* "within the manifest timeout/retry budget": an update on trial is started
\* twice at most, also when processes are killed in between.
RetryBudget == Phase("awaiting_health") => starts <= 2

\* An update that was rolled back is not applied again under the same revision.
RolledBackStays ==
  Phase("pending") \/ Phase("awaiting_health") =>
    <<pend.rev, pend.bin>> \notin rolled

\* "The separate updater keeps the prior executable": while a new binary is on
\* trial, the copy to roll back to is another one.
PriorKept == Phase("awaiting_health") /\ pend.bin # Installed => previous # pend.bin

\* The updater, killed wherever it may be, the staging agent and the health marker
\* keep to the life of an update that UpdateLifecycle promises: copy, swap, trial,
\* then the marker or the way back, each at most once per revision.
Lifecycle == INSTANCE UpdateLifecycle WITH
  Revisions <- 0..MaxRevision,
  update <- pend, installed <- target, fallback <- previous

ImplementsLifecycle == Lifecycle!LSpec

\* How far an update has come: on trial once, twice, and judged.
Rank(p) ==
  CASE p.phase = "pending" -> 0
    [] p.phase = "awaiting_health" -> 1 + p.attempts
    [] OTHER -> 3

\* Every write of the record takes an update further or puts a newer one in its
\* place: no verdict is taken back, no update is tried anew, and a fleet that
\* publishes no more leaves the updater nothing to do after three writes.
RecordAdvances ==
  [][pend # None /\ pend' # pend =>
       /\ pend' # None
       /\ \/ pend'.rev > pend.rev
          \/ pend'.rev = pend.rev /\ pend'.bin = pend.bin /\ Rank(pend') > Rank(pend)]_vars

\* The service keeps coming back to its loop.
AgentRuns == []<>(pc = "loop")

\* A bad update does not last: for ever and again a working agent is in its loop,
\* unless the binary to go back to was overwritten by a broken one, a download was
\* lost with the power, or the bad update hangs and nothing ends it any more: what
\* does end is rolled back in time, hung or failed.
UpdateSettles ==
  \/ []<>(pc = "loop" /\ target \in Working)
  \/ <>(previous \in Binaries \ Working)
  \/ <>(\E b \in Binaries : artifact[b] = Torn)
  \/ <>[](pc = "loop" /\ target \in Hanging)

----------------------------------------------------------------------------
(* The inductive invariant: what the reader of pending-update.json may rely  *)
(* on at each control state, whatever died before.                            *)

\* While apply and rollback run the phase is still the old one, and the files
\* are in place in the order the phase will vouch for.
InProgress ==
  /\ pc \in {"backup", "swap", "record"} => Phase("pending")
  /\ pc \in {"swap", "record"} => previous \in Binaries
  /\ pc = "record" => target = pend.bin
  /\ pc = "rollback" => Phase("awaiting_health") /\ (steady => Due) /\ target = previous
  /\ pc \in {"boot_stage", "boot_store", "tick_stage", "tick_store"} => manifest # None

\* Only a rollback that was cut short leaves another binary installed than the one
\* on trial, and the next reconcile takes it up again.
Interrupted ==
  steady /\ Phase("awaiting_health") /\ target # pend.bin =>
    Due /\ pc \in {"stopped", "reconcile", "rollback"}

\* Revisions come in order: rolled back before recorded, recorded before offered.
RevisionsGrow ==
  /\ pend # None =>
       /\ manifest # None /\ pend.rev <= manifest.rev
       /\ pend.rev = manifest.rev => pend.bin = manifest.bin
  /\ manifest # None =>
       /\ manifest.rev <= offer.rev
       /\ manifest.rev = offer.rev => manifest.bin = offer.bin
  /\ \A r \in rolled :
       /\ pend # None /\ r[1] <= pend.rev
       /\ r[1] = pend.rev => Phase("rolled_back")

\* Every start of an update on trial but the first is on record.
TriesCounted == Phase("awaiting_health") => starts <= pend.attempts + 1

\* The inductive invariant of reconcile, stage and mark_healthy.
IInv ==
  /\ TypeOK /\ InProgress /\ TargetWhole /\ RollbackReady
  /\ Interrupted /\ HealthyIsProven /\ RevisionsGrow /\ TriesCounted
==============================================================================

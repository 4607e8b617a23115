# radiochron-agent: formal models

TLA+ modules of radiochron-agent, checked with TLC on small instances and, where
stated, proved with TLAPS for every value of the constants. Source references are
to the repository: `spool.rs:165` is line 165 of `src/spool.rs`.

## 1. The system

radiochron-agent is a single-threaded daemon (plus one Prometheus thread) and a
separate updater process. All of its hard behaviour comes from what survives a
process: files that are renamed into place one by one while the process may be
killed between any two system calls, and is started again by systemd or launchd.

| Component | State it keeps | Operations | Talks to |
|---|---|---|---|
| Event spool (`spool.rs`) | `events/*.json`, `.tmp` files, one sequence journal per boot; `TEMP_ID` | `open`, `next_sequence`, `sink`, `write` (store, limit, journal), `drain` | recorder (called by), exporters (calls), metrics |
| Recorder (crate `radiochron`, external) | next sequence | `step` | collector, spool sink |
| Main loop (`main.rs`) | configuration, exporter list | start; `step`, `drain`, `mark_healthy`, `tick`, sleep; exit | everything |
| MQTT exporter (`export/mqtt.rs`) | connection kept between calls, next packet id | `export`: connect, publish | broker, over `transport.rs` |
| OTLP exporter (`export/otlp.rs`) | none between calls | `export`: one POST on a connection of its own | OTLP server, over `http.rs` |
| Metrics (`metrics.rs`, `export/prometheus.rs`) | counters and gauges | updates by the spool, scrapes by a thread | shared memory |
| Fleet client (`fleet.rs`) | `identity.json`, `desired.json`, last poll | `apply_cached`, `bootstrap`, `tick` | fleet server, config, OTA |
| Profiles (`config.rs`) | the configuration in memory | `apply_profile` | fleet client |
| OTA staging (`ota.rs`) | `pending-update.json`, downloaded artifact | `stage`, `mark_healthy` | fleet client, main loop |
| Updater (`bin/radiochron-agent-update.rs`) | `pending-update.json`, the executable, `.previous` | `reconcile` (apply, retry, rollback), `supervise` | service manager, agent, through files only |
| Collector (`collector.rs`, `ble_collector.rs`) | both schedules, stage gauges, BLE tracker | `collect_events` | recorder, metrics |
| HTTP, TLS (`http.rs`, `transport.rs`) | none between calls | `request`, `connect` | exporters, fleet client |
| `private_fs.rs`, macOS location | none | file modes, a permission prompt | |

What makes each of them correct, and what is hard about it:

- **Spool.** No stored event is lost; an event leaves only when every configured
  exporter acknowledged it, or when the limit or the medium took it; a number in
  use is never given out again; the oldest goes first; the counters balance. Hard:
  crashes between file, journal and removal; torn journal lines; damaged files;
  wall-clock steps; exporter lists that change over a restart; partial failures.
- **OTA.** The service always finds a whole executable; a bad update is rolled
  back within its budget and stays rolled back; the health marker tells the truth.
  Hard: three files in two processes, changed one by one; the agent may stage a
  new update while the last is on trial; clocks; two kinds of supervision.
- **Fleet client.** What runs is what the stored revision says; enrollment
  survives lost replies. Hard: a profile is applied in memory before staging and
  storing can fail; `bootstrap` overlays one revision on another.
- **MQTT.** An acknowledgement belongs to the event in hand. Hard: ids wrap, the
  stream is kept between calls without keepalive packets, what was written on a
  dropped stream may still arrive, the length codec has boundaries.
- **OTLP.** Ok means the server took the event. Hard: a request that failed may have
  arrived; the answer ends only with the stream.
- **Exporters and spool together.** An event leaves only when every backend has it,
  no backend sees an event before an earlier one, and every event leaves in the end.
- **Collector.** The gauges show the network, with a bounded delay, and scans keep
  their distance. Hard: an error at any source drops what the pass gathered, after
  the schedules have advanced.

Every hazard, at its line, with the properties that watch it, is in
`PROJECT.json` under "hazards".

## 2. Modules

| Module | Role |
|---|---|
| `DeliveryQueue` | abstract specification: an at-least-once queue with shedding and subscribers |
| `Spool` | the spool and the loop that drives it, one action per system call that a crash can separate |
| `MCSpool` | instances of `Spool` for TLC |
| `SpoolProofs` | invariants and action properties of `Spool`, and what confines copies and reused numbers, proved |
| `SpoolRefinement` | `Spool` implements `DeliveryQueue`, proved |
| `ExporterContract` | abstract specification: what the drain expects of an exporter's call |
| `MqttExporter` | `publish` over the kept connection, and the broker |
| `OtlpExporter` | `export` over one HTTP exchange, and the server |
| `ExporterProofs` | both exporters implement `ExporterContract` and recover from faults, proved |
| `Delivery` | the composition: `Spool`'s drain calling the two exporters, in one thread |
| `MqttCodec` | the remaining length as `write_packet` writes and `read_packet` reads it |
| `MCDelivery` | instances of `Delivery` and `MqttCodec` for TLC |
| `DeliveryProofs` | `Delivery` is `Spool` and both exporters at once, and what follows, proved |
| `MqttCodecProofs` | every length is read back or refused, proved |
| `Collector` | the schedules, the pass of the loop around `collect_events`, the gauges |
| `CollectorProofs` | the delay of the gauges and the distance of scans, proved |
| `UpdateLifecycle` | abstract specification: the life of an update on record, and what is installed in it |
| `OtaUpdate` | staging, updater, health marker, supervision, kills and power losses |
| `MCOtaUpdate` | instances of `OtaUpdate` for TLC |
| `OtaUpdateProofs` | the invariants of `OtaUpdate`, and that it implements `UpdateLifecycle`, proved |
| `FleetRollout` | abstract specification: forward through the revisions, run the stored one, report the running one |
| `FleetClient` | enrollment, cached and fetched profiles, heartbeats, restarts for a new revision |
| `MCFleetClient` | instances of `FleetClient` for TLC |
| `FleetClientProofs` | the invariants and action properties of `FleetClient`, and that it implements `FleetRollout`, proved |

### Spool

`files` are the entries on disk (a record of identity, epoch, boot, sequence,
size); `damaged` are those whose JSON no longer parses; `journal[b]` abstracts the
text of a journal to what `next_sequence` can tell of it: the highest complete line
that parses, the digits of an unfinished one, and whether some line no longer
parses. Digits that are appended to unfinished digits are joined as decimal
numbers (`Appended`), which is what the file system does. `pc` is the program
counter of the one thread:

| pc | Code |
|---|---|
| `step` | `Recorder::step`, between two events (`main.rs:128`) |
| `store`, `temp` | `store` before the temporary file, and before the rename (`spool.rs:139-165`) |
| `limit` | `enforce_limit`, one turn per file removed (`spool.rs:171-189`) |
| `journal`, `newline` | `writeln!` of the sequence: digits, then newline and sync (`spool.rs:214-217`) |
| `drain`, `export`, `remove` | the drain's loop (`spool.rs:93-137`) |
| `down`, `failed` | no process: killed, or ended by an error |

`Crash` may strike anywhere and takes the memory; `Start` recovers the sequence,
chooses any configured exporter list and any boot. `Damage` spoils a stored file.
History variables (`issued`, `acked`, `received`, `shed`) record what happened.

`listing` are the paths the drain's loop has still to take: set where the drain begins
(`StepEnd`), worked off from the oldest by `Quarantine` and `DrainRead`, given up when an
export fails. The drain ends when it is empty, whatever the directory holds by then; that
the two agree is `DrainListing`. `enforce_limit` lists and removes without a step of
another kind in between, so `LimitDrop` looks at `files`. A number stays within `U64Max`
in `NewEntry`: what the recorder does after the last u64 is its own crate's.

### The exporters

`Spool` by itself says only what a call may come to: `ExportOk`, or `ExportFail` of
an event that was delivered or was not. The exporters fill this in.

`MqttExporter`: `stream` says whether a connection is kept (`self.stream`), `up` and
`down` are the packets on it in either direction, `open` whether the broker still
holds its end, `stray` what was written on connections given up and may still arrive.
`mpc` follows `publish`: `connect`, `connack`, `publish`, `puback`, then `ok` or `err`.
A read that finds nothing is a timeout or the end of the stream; either may happen at
any time. The broker may accept or refuse, acknowledge twice, and close when it likes,
as a broker does after 1.5 times the keepalive that CONNECT announces and no PINGREQ keeps.

`OtlpExporter`: `hpc` follows `export` and `http::request`; `reply` and `eof` are what
the stream holds, for `read_to_end` returns at its end only; `late` are requests that
may still arrive.

`ExporterContract` is what the drain relies on: one call at a time, Ok only for an
event that was taken, no promise with Err.

`Delivery` joins them: a step of the agent's thread is a step of the spool outside
calls, the start of a call, a step within it, or its return, which is `ExportOk` or
`ExportFail` of the spool, by the exporter's result. The backends and the network move
independently. A process that ends abandons its exporters' connections.

`MqttCodec` works on numbers: `Written(n)` are the bytes before a body of n bytes,
`Read` what the reader makes of bytes: a length, or nothing when it refuses them. The
writer emits a fifth byte from 2^28 on, which the reader does not accept.

### Collector

Time runs in ticks. `sinceReport` and `sinceScan` are the ages of `last_connectivity`
and `last_scan`, `spent` the time of the present pass or sleep, `at` where the thread
is. `hand` is the report among the events a pass has gathered; it reaches `gauge` only
if no later source of the pass fails (`NativeFails`, `ScanFails`: the `?` of
`collect_events`). `Diagnose` reads the network, `Stamp` advances `last_connectivity`
afterwards (`collector.rs`), while a scan is stamped before it runs
(`ble_collector.rs:42`). `calm` and `scanning` are history: the time since anything
interfered, and since the last scan began.

### OtaUpdate

`target`, `previous`, `artifact`, `pend` and `desired` are the files. `pc` walks
through the updater (`reconcile`, `backup`, `swap`, `record`, `rollback`) and the
agent (`boot`, `boot_stage`, `boot_store`, `loop`, `tick`, `tick_stage`,
`tick_store`). `supervised` says whether launchd runs the updater as parent
(`supervise`, which reconciles again when the agent fails) or systemd runs it
before the agent (`reconcile` in ExecStartPre). A copy truncates its target first
(`previous' = Torn`); a rename is atomic. `Kill` may strike anywhere; `PowerLoss`
also tears a download that was never synced. `AgentDies` is the end of the agent
alone, after which `supervise` reconciles again. Binaries are working, failing or
hanging ones; a hanging one stays in its first step (`Hang`) until something kills it.

The fleet publishes revisions in order (`Publish`); `fleet.rs` does not check that.

`UpdateLifecycle` says what this comes to: an update is offered once per revision, the
executable is put aside whole before anything overwrites it, a trial begins with both
in place, is retried once, and ends accepted or given up; `ImplementsLifecycle` maps
`pend`, `target` and `previous` to it.

### FleetClient

`identity` and `desired` are the two files, `enrolled` and `held` their copies in
memory, `config` the settings in memory, which start from the environment's at each
start, and `built` the revision held and the settings when exporters and collector
were built; only the loop's poll interval is read from `config` as it is then
(`main.rs:155`), which `InUse` puts together. `pc` follows main: `cached`
(`apply_cached`), the exchange (`enroll`, `identity`, `heartbeat`, `fetch`, `apply`,
`stage`, `store`), `build`, `loop`.
`ticking` tells the exchange of `tick` from that of `bootstrap`, which sends no
heartbeat and never ends the process. Each call of the exchange may fail, and what
was applied before stays applied; a failing write of `desired.json` counts as a
failing stage, for it leaves the same state.

A profile has one setting for each way `apply_profile` treats them: `poll` (an
error when 0), `url` (taken as it is, parsed later), `ble` (0 drops the whole
section) and `zone` (an error unless the section is there). What `stage_ota` does
to the files is `OtaUpdate`'s part; both modules share the order of fetch, apply,
stage and store.

`FleetRollout` is what the fleet sees of it, without exchanges, profiles and kills. The
refinement (`ImplementsRollout`) maps `running` to the revision in `built`: `Store` of a
newer revision adopts it and, in a tick, ends the process at once, `Build` runs it,
`StoreIdentity` enrolls, a heartbeat that arrives reports.

## 3. Runs

| Run | Question | Bounds |
|---|---|---|
| `spool_sequences` | Is a sequence ever reused, an event swallowed, an acknowledged number forgotten? | 2 boots, 3 events, u64 of one digit (9) so that joined journal lines outgrow it, 1 damaged file, pids reused, all events in one second (names then differ by boot and sequence only; the proofs let the clock go anywhere) |
| `spool_delivery` | Does the spool implement the queue, in order, with balanced counters, and does a drain leave only what a failed export holds up? | 3 events of size 1 or 2 under a ceiling that two can exceed, none or two exporters at each start, 2 epochs, 1 damaged file |
| `delivery` | With the real exporters: does an event leave only when both backends have it, in order, and in the end; does a killed agent come back? | 2 events, both exporters, packet ids that wrap at 2, any number of connections, crashes and faults, no damaged files, fairness; beside it, the codec's boundary lengths |
| `collector` | Do the gauges follow the network within `Lag`, and catch up after any trouble; do scans keep their distance? | report every 3 ticks, scan every 4, sleep 2, pass up to 2, fairness |
| `ota_update` | Do agent and updater together keep to the life of an update: executable whole, trials counted, the record only advancing, rollbacks kept, bad updates gone? | 4 binaries (installed, good, failing, hanging), 2 revisions, 2 kills or power losses, both supervisors, both clocks, fairness |
| `fleet_client` | Does the agent keep to the rollout, run with exactly the settings of the revision it reports, account for every token, restart only for news, and end up with what the fleet offers? | 7 profiles (two complete, zone only, URL only, refused, zone without BLE, malformed URL), 3 revisions, 1 kill, 1 lost answer, both kinds of token, fairness |
| `spool_sequence_reuse`, `spool_clock_order`, `spool_restart_loop`, `ota_prior_lost`, `ota_read_only`, `fleet_profile_stuck` | statements of the documentation the code does not keep | the least that shows it |

A run that checks an `IInv` checks the type invariant in it.

Why the bounds suffice: a sequence needs two events to be reused and a third to
be swallowed by the second's file; one boot to return to and one to leave for; two
exporters to fail one after the other; two kills to interrupt an operation and its
repetition; three revisions so that one profile can lean on the first, half of it
applied, and a third come as the way out; two kills also end a hung update twice,
after which it is rolled back. In `delivery` two events are enough for an
acknowledgement of one to meet the other, and two packet ids for an id to come back
while an old packet is under way. In `collector` the intervals do not divide each other, so
every offset between the schedules and the pass occurs, and `Lag` is met exactly: one tick
less is refuted. `MaxEvents`, `MaxEpoch`, `MaxDamaged`, `MaxPacketId`,
`MaxRevision`, `MaxKills` and `MaxLost` are the bounds; the proofs hold for every
value of them.

The six disagreements are listed in `PROJECT.json` under "findings", with the
lines that disagree:

1. a crash before the journal line lets a later event reuse an exported sequence;
2. a clock step makes the limit and the drain take newer events first;
3. a leftover temporary file fails every restart that gets the same pid;
4. an interrupted apply copies the new binary over the prior one;
5. in the packaged systemd sandbox a staged update keeps the agent from starting;
6. a profile accepted on top of an earlier one is stored and refused at every
   restart, before the agent could fetch another.

## 4. Fairness

- `WF(Boot)`, and `Launch` in `WF(Updater)`: the unit has `Restart=on-failure`
  and launchd keeps its jobs alive, so a process that is down is started again.
- `WF(Agent)`, `WF(Updater)`: one thread whose calls all have timeouts, never
  suspended for ever. A hanging binary is modelled (`Hang`); see `UpdateSettles` below.
- `Delivery` assumes only `WF` of the start and of the one thread, for every blocking
  call has a timeout. That backends answer (`BackendsAnswer`) and that faults end
  (`<>[][~ Fault]`) are premises of `PendingLeaves`, since nothing else can get an event
  out. A connection the broker closed before, or one with a repeated PUBACK on it, is
  not excused: it costs one failed call. `AgentRecovers` asks for neither premise.
- `SF(ExportOk(x))` in `Spool`, where an exporter is a choice of results: it does not
  fail every time. Only `spool_restart_loop` uses it, and fails with it.
- `Collector`: `WF` of the thread, whose steps may be failures, of time, and of the
  restart. `GaugeCatchesUp` has the end of trouble as its premise.
- `SF` of the answered calls in `FleetClient` (`EnrollGranted`, `HeartbeatOk`,
  `FetchOk`, `StageOk`): a fleet that is asked at every poll answers some time.
- Crashes, damage, failures, publications and clock steps are never forced.
- `Converges` excuses `Stuck` (finding 6) and `Locked` (a one-time token whose
  answer was lost; the code has no second way in), and asks for complete profiles:
  `bootstrap` overlays a fetched profile on the cached one, so settings a partial
  profile leaves out stay as they were until the next restart.
- `AgentRecovers` asks only for behaviours whose crashes end; `UpdateSettles`
  excuses the cases the code gives no defence against (the rollback target was
  itself a broken update; the download was lost with the power), and the update that
  hangs with nothing to end it. The repository's `README.md:147` promises the rollback of
  that one too, but `reconcile` runs at starts only, and neither the unit (no watchdog)
  nor `supervise` (which waits without limit) starts it.

## 5. Proofs

`SpoolProofs` proves for every set of boots and exporters, every ceiling, every
u64 and every bound that `IInv` is inductive, and from it `TypeOK`, `RestartFresh`,
`UniquePending`, `NothingSwallowed`, `AckedNeverReused`, `Accounted`, `Conservation`,
`DrainIsThorough` and, with a steady clock, `OldestFirst`. The properties alone are not
inductive. `SeqOrder` adds that the recorder's next number lies above every readable
file of the boot (or has reached the end of u64), and that between stamping and rename
the number in hand does too; `JournalCovers` that every acknowledged number is at most
the journal's highest line unless a line is garbled (and that the digits just written
are at least the number); `EventOrder` that identities are issued once; `DrainListing`
that the drain's listing is the directory but for the file in hand, so that working it
off empties the directory; `DrainProgress` that the exporters before the current one
have had the file in hand; `NameOrder` that with a steady clock names sort as recorded;
`CountersAgree` that the file about to be renamed into place is a new one, so that
counter and directory move together, and that the gauge is fresh wherever the next
operation finds it.

Further theorems of `SpoolProofs` say how far the findings reach, each under a hypothesis
about the environment or the steps of the behaviour:

- `NoNameTaken`: unless pids come back, no `create_new` meets a name in use, so finding 3
  cannot happen (`TempsOwn`: a running process meets only its own, lower temporary numbers).
- `SequenceNamesEventIfJournalled`: a number is reused (finding 1) only when the process
  ends between an event's rename and the end of its journal line. `JournalComplete` carries
  it: outside those steps every number issued is journalled.
- `DeliveredOnceUnlessCutShort`: an exporter gets an event it has acknowledged only after a
  drain was cut short. Neither the limit, damage, a restart elsewhere nor a change of the
  exporter list makes a copy (`ReceivedOnce`: outside a drain nothing on disk was received).
- `LoopsEnd`: a drain takes at most one step more per file than there are calls and the
  removal, and `enforce_limit` one turn per file: the safety half of getting back to the loop.

`SpoolRefinement` uses the invariant to show that every step of `Spool` is a step
of `DeliveryQueue` or a stutter: `Rename` records, `ExportOk` and a delivered
`ExportFail` receive, `Remove` retires (all exporters have it, by `DrainProgress`),
`LimitDrop` and `Damage` shed, `Start`, `Exit` and `Crash` reconfigure.

`ExporterProofs` proves for every set of events and every largest packet id that both
exporters implement `ExporterContract`. For MQTT this needs `LinkInSync`: between calls
nothing unanswered is on a kept stream and every PUBACK left unread carries another id
than the next one; the ids are then enough to tell the answers apart, although they wrap,
because a stream is dropped at the first answer that does not match.

It also proves how the exporters recover. `LinkSound` and `ReplySound` describe the
connection that no fault has touched. `MqttHealsHolds`: after a failed call the next one
starts on such a connection and fails by a new fault only, so a connection closed in the
quiet or a repeated PUBACK costs one call; `MqttErrsOnFaultsOnly`: without faults no call
fails, however the ids wrap and processes end; `OtlpHealsHolds`: no call inherits anything.

`DeliveryProofs` proves that every step of `Delivery` is a step, or a stutter, of `Spool`
and of each exporter, so that their invariants carry over; with `CallInHand` and
`ReceivedIsTaken` (what the spool notes as received, the backend has) the drain's
`DrainProgress` becomes `RetiredIsTaken`. `SeenInOrder` is inductive with these: a new
file is the newest of its boot, the drain takes up the oldest, and a packet still under
way belongs to an event some drain had in hand before. `SentOnceInCalm` joins the two
kinds of theorem above: while nothing faults and no drain is killed, each event is sent to
each backend once, whatever else is killed, restarted, damaged or dropped.

`MqttCodecProofs` proves `LengthsReadBack` for every length below 2^31: written in base
128, the digits of `n` are recovered by the reader, and the fifth byte is met only from
2^28 on, where four bytes all say that another follows. It stands by itself: the packets
of `Delivery` are abstract and have no length, so `PacketsFramed` of the run `delivery` says
no more than `LengthsReadBack` does at the boundaries.

`CollectorProofs` proves for all intervals and durations that the gauges follow the
network within `Lag` = report interval + sleep + 3 passes, and that scans keep their
distance. `GaugeLag` bounds the age of a wrong gauge by the thread's place in the loop,
`HandRecent` that of a report in hand.

`OtaUpdateProofs` proves the same way, for every set of binaries and every number
of revisions and kills, `TypeOK`, `TargetWhole`, `RollbackReady`, `HealthyIsProven`,
`RetryBudget` and `RolledBackStays`. The strengthening: `InProgress` (which files
are in place at each step of apply and rollback, while the phase is still the old
one; between restoring and recording a rollback the executable is the prior one),
`Interrupted` (another binary than the one on trial is installed only after
a rollback that was cut short, and then it is still due), `RevisionsGrow` and
`TriesCounted`. From it, step by step, `UpdateImplementsLifecycle` (the refinement of
`UpdateLifecycle`, whatever is killed when) and `RecordAdvancesHolds` (every write of
`pending-update.json` advances the update or replaces it by a newer one).
`PriorKeptUndisturbed` confines finding 4: the prior executable is lost only by a death
between the swap and its record, or by staging a binary that runs already.

`FleetClientProofs` proves, for every set of profiles, environment and bound,
`TypeOK`, `BuiltIsHeld`, `FleetNotAhead`, `Recoverable` and `TokenSpentOnce`. The
strengthening: `RevisionsGrow` (the revision on disk is at most the one in hand, and
that at most the one on offer, so a store never takes back what was reported),
`TickOfHeld` (a tick starts from a process built with the revision it holds, and only a
tick sends a heartbeat), `EnrolledFirst`, `FreshSettings`, `OneProfilePerRevision` and
`SettingsOfOffer` (what the settings are at each point between fetching a complete profile
and building with it; a complete profile forgets the settings it is applied to). From it:

- `RevisionMeansSettingsAlways`: a device that reports the revision on offer, a complete
  profile, runs with exactly its settings; `TokensAccountedAlways`: every grant led to the
  identity, was lost or was cut off by a kill; `RestartsForNewsAlways`: a process ends for a
  kill, a refused cached profile, an unusable URL or a newer revision, and nothing else.
- `FleetImplementsRollout`: every step is a step of `FleetRollout` or a stutter. `StoreAdopts`
  is the step that matters: it needs that the tick's process is the one to end.
- `CompleteProfilesUnmixed`, `CompleteProfilesStart`: where every published profile mentions
  every setting with a usable value, exporters and collector are never built with a mixture
  of two profiles and no start is refused:
  finding 6 needs a partial or an unusable profile. (The live poll interval may already
  be that of a later profile, refused or not yet stored.)

The theorems with a hypothesis about steps, pids or profiles restrict no model: the
hypotheses describe ordinary operation, and the runs that expect a violation, or `IInv`,
cover what happens outside them.

Assumptions are those the modules name: the constants' types, distinctness of
`None`, `Torn` and `Absent` from proper values, exporter lists without repetition, positive sizes.

Only model-checked: everything under fairness (`PendingLeaves`, `AgentRecovers`,
`UpdateSettles`, `Converges`, `GaugeCatchesUp`), since liveness and ENABLED are out of the
prover's reach.

## 6. Not modelled, and why

- JSON layout, URL and environment parsing, HTTP and TLS bytes, logging, file modes: no
  state between calls. `safe_id`, which may map two names to one MQTT client id, is a
  property of names the operator chooses.
- The native Wi-Fi and BLE scans, the tracker's findings and the recorder's diffing:
  other crates. `Collector` takes a source to work or to fail.
- The Prometheus thread reads each counter once with relaxed loads, so one scrape may mix
  two passes of the loop; nothing in code or documents promises more.
- An event file that can never be read (`spool.rs:105`) keeps the agent from draining: the
  code returns the error and ends, at every start. A read that fails once is a `Crash`.
- The disk space of quarantined `.invalid` files (`spool.rs:109`), which nothing bounds.
- Two processes on one directory (`--once` beside the service, `main.rs:116`): the code
  has no lock whose working could be checked.
- `pending-update.json`, `identity.json` or `desired.json` emptied by a power loss, because
  rename and data may reach the disk in either order: it depends on the file system. The
  artifact's loss is modelled.
- The numbers after u64::MAX: `next_sequence` saturates (`spool.rs:90`) and the recorder goes
  on from there. `RestartFresh` and `JournalCovers` stop at the end of u64.
- Damaged files in `delivery`, for the size of its instance: `DrainIsThorough` checks and
  proves that they hold nothing up in `Spool`, and the proofs of `Delivery` allow them;
  `PendingLeaves`, being liveness, is checked without them.
- A server that answers and keeps its connection open (`http.rs:76`): each export fails after
  its timeout, although the event was taken. `AgentRecovers` holds; that the event
  never leaves is excused in `PendingLeaves`.
- When an update staged by `bootstrap` is applied (`fleet.rs:116`): at the next start,
  whenever that is.
- Scans that go on failing: while one is due with every report, no report is recorded, though
  `README.md:94` asks for one at each interval (`collector.rs:85`): `GaugeFollows` and
  `GaugeCatchesUp` ask for passes without an error.
- Signatures, version and digest checks of the fleet client are taken to be right; they
  end an exchange and change nothing.

## 7. Plan

1. Done: `DeliveryQueue`, `Spool`, `OtaUpdate`, `FleetClient`, the exporters with their
   contract, `Delivery`, `MqttCodec`, `Collector`, with their runs and proofs.
2. Dropped: a model of the scraping thread, which has nothing to keep (section 6).
3. Done: abstract specifications of an update's life (`UpdateLifecycle`) and of a device's
   way through the revisions (`FleetRollout`), each refined by its component.
4. Open: `FleetClient` and `OtaUpdate` composed into one device; two processes on one spool;
   liveness of `Spool` with an unreadable file at the head of the queue.

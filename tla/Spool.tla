-------------------------------- MODULE Spool --------------------------------
(***************************************************************************)
(* The durable event spool of radiochron-agent (src/spool.rs) with the     *)
(* loop that drives it (src/main.rs): the recorder stores an entry in its  *)
(* own file, journals its sequence number, and the drain hands the oldest  *)
(* files to the exporters.  The process may die between any two system     *)
(* calls and is started again, for the same boot or for another.           *)
(*                                                                         *)
(* Abstractions.                                                           *)
(*  - An entry is an event identity (a number, in the order recorded) with *)
(*    the fields file names and limits use: epoch, boot, sequence, size.   *)
(*  - `fsync' before `rename' makes a complete file appear at once, so a   *)
(*    file is either absent or whole until the medium damages it.          *)
(*  - The drain works through a listing taken when it begins; enforce_limit *)
(*    lists as it goes, for nothing happens between its listing and its    *)
(*    removals but damage, which changes no name and no size.              *)
(*  - I/O errors other than the ones named below end the process: they are *)
(*    the Crash action.                                                    *)
(***************************************************************************)
EXTENDS Integers, FiniteSets, Sequences, FiniteSetsExt

CONSTANTS
  Boots,        \* boot identities, numbered in the order of their file names
  Exporters,    \* the exporters that can be configured
  Configs,      \* exporter lists a start of the process may find
  Sizes,        \* sizes of stored entries
  MaxBytes,     \* the spool's ceiling (spool_max_bytes)
  U64Max,       \* the largest number a journal line can hold
  PowersOfTen,  \* 10, 100, ... : enough of them to append any sequence
  MaxEvents,    \* bound: events recorded
  MaxEpoch,     \* bound: wall-clock readings
  MaxDamaged,   \* bound: files the medium damages
  SteadyClock,  \* TRUE: the wall clock never steps back
  PidReuse,     \* TRUE: a restarted process gets its old pid (a container)
  NoEntry       \* no entry in hand

ASSUME BootsAssumption == Boots \subseteq Nat
ASSUME ConfigsAssumption ==
  \A c \in Configs : c \in Seq(Exporters) /\ \A i, j \in 1..Len(c) : c[i] = c[j] => i = j
ASSUME SizesAssumption == Sizes \subseteq Nat \ {0} /\ MaxBytes \in Nat
ASSUME U64Assumption == U64Max \in Nat \ {0} /\ PowersOfTen \subseteq Nat \ {0}
ASSUME BoundsAssumption == MaxEvents \in Nat /\ MaxEpoch \in Nat /\ MaxDamaged \in Nat
ASSUME SwitchesAssumption == SteadyClock \in BOOLEAN /\ PidReuse \in BOOLEAN

VARIABLES
  \* on disk
  files,      \* events/*.json
  damaged,    \* those of them that no longer parse
  temps,      \* events/.<pid>-<sequence>-<id>.tmp left or in use, as <<seq, id>>
  journal,    \* state/sequence-<boot>.journal
  \* in the process
  pc,         \* where the process is; "down" (killed) or "failed" (returned
              \* an error) when there is none
  boot,       \* its boot identity
  nextSeq,    \* the recorder's next sequence number
  tempId,     \* TEMP_ID
  entry,      \* the entry being stored or exported
  exporters,  \* the configured exporter list
  listing,    \* the paths the drain's loop has still to take
  xi,         \* index of the exporter being called
  metrics,    \* counters of src/metrics.rs, and the files found at start
  \* environment
  clock,      \* last wall-clock reading
  \* history
  created,    \* number of events recorded or swallowed so far
  issued,     \* [ev, boot, seq] of every event that reached a file
  acked,      \* events whose sequence was journalled
  received,   \* events each exporter was handed
  shed        \* events dropped by the limit or lost to damage

disk == <<files, damaged, temps, journal>>
process == <<boot, nextSeq, exporters, listing>>
history == <<created, issued, acked, received, shed>>
vars == <<files, damaged, temps, journal, pc, boot, nextSeq, tempId, entry,
          exporters, listing, xi, metrics, clock, created, issued, acked, received,
          shed>>

Entry == [ev : Nat, epoch : Nat, boot : Boots, seq : Nat, size : Sizes]

Journal == [top : Nat, tail : Nat, garbled : BOOLEAN]

Metrics == [base : Nat, recorded : Nat, exported : Nat, dropped : Nat, depth : Nat]

Identity(f) == [ev |-> f.ev, boot |-> f.boot, seq |-> f.seq]

SameName(f, g) == f.epoch = g.epoch /\ f.boot = g.boot /\ f.seq = g.seq

\* Zero-padded numbers: the lexicographic order of names is this order.
NameBefore(f, g) ==
  \/ f.epoch < g.epoch
  \/ f.epoch = g.epoch /\ f.boot < g.boot
  \/ f.epoch = g.epoch /\ f.boot = g.boot /\ f.seq < g.seq

\* Mutant: the listing is not sorted.
OldestOf_Unsorted(S, f) == f \in S

OldestOf(S, f) == f \in S /\ \A g \in S : ~ NameBefore(g, f)

Oldest(f) == OldestOf(files, f)

Intact == files \ damaged

TotalSize(F) == MapThenSumSet(LAMBDA f : f.size, F)

----------------------------------------------------------------------------
\* The journal: complete lines that parse (their maximum), the digits of an
\* unfinished line (0: none), and whether some line no longer parses.

EmptyJournal == [top |-> 0, tail |-> 0, garbled |-> FALSE]

Parsed(n) == IF n <= U64Max THEN n ELSE 0

\* The digits of n written after the digits of t; any number beyond U64Max
\* stands for all of them.
Appended(t, n, p) ==
  LET joined == t * p + n IN IF joined <= U64Max THEN joined ELSE U64Max + 1

CloseLine(j) ==
  IF j.tail <= U64Max
    THEN [j EXCEPT !.top = IF j.tail > j.top THEN j.tail ELSE j.top, !.tail = 0]
    ELSE [j EXCEPT !.tail = 0, !.garbled = TRUE]

\* Mutant: pending files are not consulted.
Remembered_JournalOnly(b) == {0, journal[b].top, Parsed(journal[b].tail)}

\* Mutant: the journal is not consulted.
Remembered_FilesOnly(b) == {0} \cup {f.seq : f \in {g \in Intact : g.boot = b}}

\* What next_sequence can have seen for boot b: journal lines, complete or
\* not, and the sequence of every pending file that parses.
Remembered(b) ==
  {0, journal[b].top, Parsed(journal[b].tail)} \cup {f.seq : f \in {g \in Intact : g.boot = b}}

\* Mutant: the last number seen, not the highest.
IsHighest_Last(h, S) == h \in S

IsHighest(h, S) == h \in S /\ \A n \in S : n <= h

\* Mutant: the increment is dropped.
NextSequence_Same(h) == h

NextSequence(h) == IF h < U64Max THEN h + 1 ELSE U64Max

----------------------------------------------------------------------------
Up == pc \notin {"down", "failed"}

NoMetrics == [base |-> 0, recorded |-> 0, exported |-> 0, dropped |-> 0, depth |-> 0]

\* Mutant: the depth is left alone.
Refreshed_Stale(m) == m

\* update_depth
Refreshed(m) == [m EXCEPT !.depth = Cardinality(files)]

Init ==
  /\ files = {} /\ damaged = {} /\ temps = {}
  /\ journal = [b \in Boots |-> EmptyJournal]
  /\ pc = "down"
  /\ boot \in Boots
  /\ nextSeq = 1 /\ tempId = 1
  /\ entry = NoEntry
  /\ exporters = <<>> /\ listing = {} /\ xi = 1
  /\ metrics = NoMetrics
  /\ clock = 0
  /\ created = 0
  /\ issued = {} /\ acked = {}
  /\ received = [x \in Exporters |-> {}]
  /\ shed = {}

\* Mutant: temporary names do not carry the pid.
Leftovers_NoPid == temps

\* The temporary names an earlier process left that this one can hit again.
Leftovers == IF PidReuse THEN temps ELSE {}

\* main: Spool::open, next_sequence, sink, and the recorder that starts there.
Start(b, c) ==
  /\ ~ Up
  /\ pc' = "step"
  /\ boot' = b
  /\ \E h \in Remembered(b) : IsHighest(h, Remembered(b)) /\ nextSeq' = NextSequence(h)
  /\ temps' = Leftovers
  /\ exporters' = c
  /\ metrics' = Refreshed([NoMetrics EXCEPT !.base = Cardinality(files)])
  /\ UNCHANGED <<files, damaged, journal, tempId, entry, listing, xi, clock, history>>

\* What ends the process takes its memory along.
Exit(how) ==
  /\ pc' = how
  /\ nextSeq' = 1 /\ tempId' = 1
  /\ entry' = NoEntry
  /\ exporters' = <<>> /\ listing' = {} /\ xi' = 1
  /\ metrics' = NoMetrics

\* The process is killed, or leaves its loop for a new fleet profile.
Crash ==
  /\ Up
  /\ Exit("down")
  /\ UNCHANGED <<disk, boot, clock, history>>

----------------------------------------------------------------------------
\* Recorder::step

\* The recorder stamps a new event with its sequence and the wall clock. What it does
\* with the last u64 is its own crate's, so U64Max also bounds the numbers given out.
NewEntry(t, s) ==
  /\ pc = "step"
  /\ created < MaxEvents
  /\ nextSeq < U64Max
  /\ SteadyClock => t >= clock
  /\ entry' = [ev |-> created + 1, epoch |-> t, boot |-> boot, seq |-> nextSeq, size |-> s]
  /\ nextSeq' = nextSeq + 1
  /\ clock' = t
  /\ pc' = "store"
  /\ UNCHANGED <<disk, boot, exporters, listing, tempId, xi, metrics, history>>

\* store: a file of that name is taken for the same event.
StoreExisting ==
  /\ pc = "store"
  /\ \E f \in files : SameName(f, entry)
  /\ created' = entry.ev
  /\ pc' = "journal"
  /\ UNCHANGED <<disk, process, tempId, entry, xi, metrics, clock, issued, acked, received, shed>>

\* store: create_new finds the temporary name in use; main returns the error.
StoreTempTaken ==
  /\ pc = "store"
  /\ ~ \E f \in files : SameName(f, entry)
  /\ <<entry.seq, tempId>> \in temps
  /\ Exit("failed")
  /\ UNCHANGED <<disk, boot, clock, history>>

\* store: the temporary file is created, written and synced.
StoreTemp ==
  /\ pc = "store"
  /\ ~ \E f \in files : SameName(f, entry)
  /\ <<entry.seq, tempId>> \notin temps
  /\ temps' = temps \cup {<<entry.seq, tempId>>}
  /\ tempId' = tempId + 1
  /\ pc' = "temp"
  /\ UNCHANGED <<files, damaged, journal, process, entry, xi, metrics, clock, history>>

\* store: rename makes the entry pending, and it is counted.
Rename ==
  /\ pc = "temp"
  /\ files' = files \cup {entry}
  /\ temps' = temps \ {<<entry.seq, tempId - 1>>}
  /\ created' = entry.ev
  /\ issued' = issued \cup {Identity(entry)}
  /\ metrics' = [metrics EXCEPT !.recorded = @ + 1]
  /\ pc' = "limit"
  /\ UNCHANGED <<damaged, journal, process, tempId, entry, xi, clock, acked, received, shed>>

OverLimit == TotalSize(files) > MaxBytes /\ Cardinality(files) > 1

\* enforce_limit: one turn of the loop.
LimitDrop(f) ==
  /\ pc = "limit"
  /\ OverLimit
  /\ Oldest(f)
  /\ files' = files \ {f}
  /\ damaged' = damaged \ {f}
  /\ shed' = shed \cup {f.ev}
  /\ metrics' = [metrics EXCEPT !.dropped = @ + 1]
  /\ UNCHANGED <<temps, journal, pc, process, tempId, entry, xi, clock, created, issued, acked, received>>

LimitDone ==
  /\ pc = "limit"
  /\ ~ OverLimit
  /\ metrics' = Refreshed(metrics)
  /\ pc' = "journal"
  /\ UNCHANGED <<disk, process, tempId, entry, xi, clock, history>>

\* Sink::write: writeln! issues one write for the digits ...
JournalDigits ==
  /\ pc = "journal"
  /\ \E p \in PowersOfTen :
       /\ entry.seq < p /\ p <= 10 * entry.seq
       /\ journal' = [journal EXCEPT ![boot].tail = Appended(@, entry.seq, p)]
  /\ pc' = "newline"
  /\ UNCHANGED <<files, damaged, temps, process, tempId, entry, xi, metrics, clock, history>>

\* ... and one for the end of the line; then the journal is synced.
JournalNewline ==
  /\ pc = "newline"
  /\ journal' = [journal EXCEPT ![boot] = CloseLine(@)]
  /\ acked' = acked \cup {entry.ev}
  /\ entry' = NoEntry
  /\ pc' = "step"
  /\ UNCHANGED <<files, damaged, temps, process, tempId, xi, metrics, clock, created, issued, received, shed>>

\* The step has no more events to record; drain begins with a listing.
StepEnd ==
  /\ pc = "step"
  /\ listing' = files
  /\ pc' = "drain"
  /\ UNCHANGED <<disk, boot, nextSeq, exporters, tempId, entry, xi, metrics, clock, history>>

----------------------------------------------------------------------------
\* Spool::drain

\* Nothing to export to, or the listing is worked off: the depth is refreshed.
DrainEnd ==
  /\ pc = "drain"
  /\ exporters = <<>> \/ listing = {}
  /\ metrics' = Refreshed(metrics)
  /\ listing' = {}
  /\ pc' = "step"
  /\ UNCHANGED <<disk, boot, nextSeq, exporters, tempId, entry, xi, clock, history>>

\* Mutant: a file that does not parse ends the drain instead of being set aside.
Quarantine_Stop(f) ==
  /\ pc = "drain"
  /\ exporters # <<>>
  /\ OldestOf(listing, f)
  /\ f \in damaged
  /\ listing' = {}
  /\ pc' = "step"
  /\ UNCHANGED <<disk, boot, nextSeq, exporters, tempId, entry, xi, metrics, clock, history>>

Quarantine(f) ==
  /\ pc = "drain"
  /\ exporters # <<>>
  /\ OldestOf(listing, f)
  /\ f \in damaged
  /\ listing' = listing \ {f}
  /\ files' = files \ {f}
  /\ damaged' = damaged \ {f}
  /\ metrics' = [metrics EXCEPT !.dropped = @ + 1]
  /\ UNCHANGED <<temps, journal, pc, boot, nextSeq, exporters, tempId, entry, xi, clock, history>>

DrainRead(f) ==
  /\ pc = "drain"
  /\ exporters # <<>>
  /\ OldestOf(listing, f)
  /\ f \notin damaged
  /\ listing' = listing \ {f}
  /\ entry' = f
  /\ xi' = 1
  /\ pc' = "export"
  /\ UNCHANGED <<disk, boot, nextSeq, exporters, tempId, metrics, clock, history>>

\* Mutant: one acknowledgement is enough.
LastExporter_First == TRUE

LastExporter == xi = Len(exporters)

\* Delivered and acknowledged: the next exporter, or the file can go.
ExportOk(x) ==
  /\ pc = "export"
  /\ x = exporters[xi]
  /\ received' = [received EXCEPT ![x] = @ \cup {entry.ev}]
  /\ xi' = xi + 1
  /\ pc' = IF LastExporter THEN "remove" ELSE "export"
  /\ UNCHANGED <<disk, process, tempId, entry, metrics, clock, created, issued, acked, shed>>

\* Mutant: an error does not keep the file.
ExportFail_Remove(x, delivered) ==
  /\ pc = "export"
  /\ pc' = "remove"
  /\ UNCHANGED <<disk, process, tempId, entry, xi, metrics, clock, history>>

\* The exporter reports an error, delivered or not; the drain stops here.
ExportFail(x, delivered) ==
  /\ pc = "export"
  /\ x = exporters[xi]
  /\ received' = IF delivered THEN [received EXCEPT ![x] = @ \cup {entry.ev}] ELSE received
  /\ metrics' = Refreshed(metrics)
  /\ entry' = NoEntry
  /\ listing' = {}
  /\ xi' = 1
  /\ pc' = "step"
  /\ UNCHANGED <<disk, boot, nextSeq, exporters, tempId, clock, created, issued, acked, shed>>

Remove ==
  /\ pc = "remove"
  /\ files' = files \ {entry}
  /\ damaged' = damaged \ {entry}
  /\ metrics' = [metrics EXCEPT !.exported = @ + 1]
  /\ entry' = NoEntry
  /\ xi' = 1
  /\ pc' = "drain"
  /\ UNCHANGED <<temps, journal, process, tempId, clock, history>>

----------------------------------------------------------------------------
\* The medium spoils a stored file, at any time.
Damage(f) ==
  /\ f \in Intact
  /\ Cardinality(damaged) < MaxDamaged
  /\ damaged' = damaged \cup {f}
  /\ shed' = shed \cup {f.ev}
  /\ UNCHANGED <<files, temps, journal, pc, process, tempId, entry, xi, metrics, clock, created, issued, acked, received>>

Store ==
  \/ StoreExisting \/ StoreTempTaken \/ StoreTemp \/ Rename
  \/ \E f \in files : LimitDrop(f)
  \/ LimitDone \/ JournalDigits \/ JournalNewline

Drain ==
  \/ DrainEnd
  \/ \E f \in files : Quarantine(f) \/ DrainRead(f)
  \/ Remove

Export(x) == ExportOk(x) \/ \E delivered \in BOOLEAN : ExportFail(x, delivered)

Agent ==
  \/ \E t \in 0..MaxEpoch, s \in Sizes : NewEntry(t, s)
  \/ Store \/ StepEnd \/ Drain
  \/ \E x \in Exporters : Export(x)

Boot == \E b \in Boots, c \in Configs : Start(b, c)

Next == Agent \/ Boot \/ Crash \/ \E f \in files : Damage(f)

Spec == Init /\ [][Next]_vars

----------------------------------------------------------------------------
\* Scheduling: the service manager restarts the agent, the agent's one thread
\* is never suspended for ever, and no exporter fails for ever once it is tried
\* again and again.
Fairness ==
  /\ WF_vars(Boot)
  /\ WF_vars(Agent)
  /\ \A x \in Exporters : SF_vars(ExportOk(x))

FairSpec == Spec /\ Fairness

----------------------------------------------------------------------------
(* Properties *)

\* Types of all variables.
TypeOK ==
  /\ files \subseteq Entry /\ IsFiniteSet(files)
  /\ damaged \subseteq files
  /\ temps \subseteq Nat \X Nat
  /\ journal \in [Boots -> Journal]
  /\ pc \in {"down", "failed", "step", "store", "temp", "limit", "journal", "newline",
             "drain", "export", "remove"}
  /\ boot \in Boots
  /\ nextSeq \in Nat \ {0} /\ tempId \in Nat \ {0}
  /\ entry \in IF pc \in {"down", "failed", "step", "drain"} THEN {NoEntry} ELSE Entry
  /\ exporters \in Seq(Exporters) /\ xi \in Nat \ {0} /\ listing \subseteq Entry
  /\ metrics \in Metrics
  /\ clock \in Nat /\ created \in Nat
  /\ issued \subseteq [ev : Nat, boot : Boots, seq : Nat]
  /\ acked \subseteq Nat /\ shed \subseteq Nat
  /\ received \in [Exporters -> SUBSET Nat]

\* "a restart does not reuse a sequence that is still in the spool"
\* (README.md): the recorder's next number lies above that of every file of
\* its boot that can be read, wherever earlier processes died.
RestartFresh ==
  Up => \A f \in Intact : f.boot = boot => f.seq < nextSeq \/ nextSeq = U64Max

\* Two pending events of one boot never carry the same sequence, so that
\* `already delivered copies dedupe by event_id' merges copies only.
UniquePending ==
  \A f, g \in Intact : f.boot = g.boot /\ f.seq = g.seq => f = g

\* store() takes an existing file for the same logical event and returns Ok;
\* it never does so to the file of another event that can still be read.
NothingSwallowed ==
  pc = "store" => \A f \in Intact : ~ SameName(f, entry)

\* A sequence that reached the journal is never given to a later event of the
\* boot, whatever was exported meanwhile: unless a torn line grew past u64.
AckedNeverReused ==
  \A i, j \in issued :
    /\ i.boot = j.boot /\ i.seq = j.seq /\ i.ev < j.ev
    => i.ev \notin acked \/ journal[i.boot].garbled

\* Every event that reached the spool is still pending, was shed, or was
\* handed to some exporter: crashes, retries and restarts lose none.
Accounted ==
  \A i \in issued :
    \/ \E f \in Intact : f.ev = i.ev
    \/ i.ev \in shed
    \/ \E x \in Exporters : i.ev \in received[x]

\* The counters and the directory agree: what was found at start and what was
\* recorded since is exported, dropped or still a file; and whenever the agent
\* is between two operations the depth gauge shows the files there are.
Conservation ==
  /\ Up => metrics.base + metrics.recorded
             = metrics.exported + metrics.dropped + Cardinality(files)
  /\ pc = "step" => metrics.depth = Cardinality(files)

Storing == pc \in {"store", "temp"}
Stored == pc \in {"limit", "journal", "newline"}
Draining == pc \in {"export", "remove"}

\* Event identities: files stem from issued events, an identity is issued once,
\* and the event in hand is the newest.
EventOrder ==
  /\ \A f \in files : Identity(f) \in issued
  /\ \A i \in issued : i.ev \in 1..created
  /\ \A i, j \in issued : i.ev = j.ev => i = j
  /\ acked \subseteq 1..created
  /\ \A f \in damaged : f.ev \in shed
  /\ created <= MaxEvents
  /\ Storing => entry.ev = created + 1 /\ created < MaxEvents
  /\ Stored => /\ entry.ev = created /\ created # 0
               /\ \A i \in issued : i.ev = created => i = Identity(entry)

\* Sequences: the next one lies above everything readable, and so does the one
\* in hand until its file appears.
SeqOrder ==
  /\ nextSeq <= U64Max
  /\ Storing \/ Stored => entry.boot = boot /\ entry.seq < nextSeq
  /\ Storing => \A f \in Intact : f.boot = boot => f.seq < entry.seq
  /\ RestartFresh
  /\ UniquePending

\* Journal: it covers every acknowledged sequence unless a line is garbled, and
\* so the sequences in use lie above them.
JournalCovers ==
  /\ pc = "newline" => entry.seq <= journal[boot].tail
  /\ \A i \in issued : i.ev \in acked =>
       \/ journal[i.boot].garbled
       \/ /\ i.seq <= journal[i.boot].top
          /\ Up /\ i.boot = boot => i.seq < nextSeq \/ nextSeq = U64Max
          /\ Storing /\ i.boot = boot => i.seq < entry.seq
  /\ AckedNeverReused

\* Delivery: the exporters before xi have had the file in hand, which is the
\* oldest.
DrainProgress ==
  /\ Draining => Oldest(entry) /\ exporters # <<>>
  /\ pc = "export" => xi <= Len(exporters)
  /\ pc = "export" => \A k \in 1..(xi - 1) : entry.ev \in received[exporters[k]]
  /\ pc = "remove" => \A k \in 1..Len(exporters) : entry.ev \in received[exporters[k]]
  /\ Accounted

\* The drain's listing, taken before the first call, stays true: what is left of it is
\* the directory but for the file in hand.
DrainListing ==
  listing = IF pc = "drain" THEN files ELSE IF Draining THEN files \ {entry} ELSE {}

\* Order: with a steady clock, names sort the readable files of a boot as they
\* were recorded.
NameOrder ==
  SteadyClock =>
    /\ \A f \in files : f.epoch <= clock
    /\ Storing => entry.epoch = clock
    /\ \A f, g \in Intact : f.boot = g.boot /\ f.ev < g.ev => f.epoch <= g.epoch /\ f.seq < g.seq

\* Counters: the name about to be renamed into place is free, so a store adds one
\* file; and from each refresh of the depth until the next change of the
\* directory the gauge shows it.
CountersAgree ==
  /\ pc = "temp" => ~ \E f \in files : SameName(f, entry)
  /\ pc \in {"step", "store", "temp", "journal", "newline"} => metrics.depth = Cardinality(files)
  /\ Conservation

\* The inductive invariant: no process, wherever it dies, leaves the directory,
\* the journal, the counters and the history at odds.
IInv ==
  /\ TypeOK /\ EventOrder /\ SeqOrder /\ JournalCovers /\ DrainProgress /\ DrainListing
  /\ NameOrder /\ CountersAgree

\* "preserve event order", "the oldest entries are removed": no readable event
\* leaves the spool, exported or shed, before an earlier one of its boot.
OldestFirst ==
  [][ \A f \in Intact : f \notin files' =>
        \A g \in Intact : g \in files' /\ g.boot = f.boot => f.ev <= g.ev ]_vars

\* The code's reading of a repeated (boot, sequence): it is the same event.
SequenceNamesEvent ==
  \A i, j \in issued : i.boot = j.boot /\ i.seq = j.seq => i = j

\* The spool implements the abstract queue.
Queue == INSTANCE DeliveryQueue WITH
  Events <- 1..MaxEvents,
  known <- {i.ev : i \in issued},
  pending <- {f.ev : f \in Intact},
  subscribers <- {exporters[k] : k \in 1..Len(exporters)}

ImplementsQueue == Queue!QueueSpec

\* "preserve event order" (spool.rs:129): a drain leaves in the directory only the file
\* whose export failed and those behind it, and nothing if no export failed. Whatever
\* was damaged before or during it, no file that does not parse holds up another.
DrainIsThorough ==
  [][ (pc = "drain" \/ pc = "export") /\ pc' = "step" /\ exporters # <<>> =>
        \A g \in files' : pc = "export" /\ ~ NameBefore(g, entry) ]_vars

\* Once nothing kills the process any more, it gets back to exporting: whatever
\* the restart found on disk, and however an exporter's call goes.
AgentRecovers == <>[][~ Crash]_vars => []<>(pc = "drain")
==============================================================================

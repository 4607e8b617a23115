----------------------------- MODULE SpoolProofs -----------------------------
(***************************************************************************)
(* Proofs about Spool, for every set of boots and exporters, every ceiling *)
(* and every bound.  The invariant is proved part by part: each lemma      *)
(* XxxStep shows that a step keeps one conjunct of IInv.                   *)
(***************************************************************************)
EXTENDS Spool, TLAPS, FiniteSetTheorems

LEMMA AppendedProperties ==
  ASSUME NEW t \in Nat, NEW n \in Nat, NEW p \in Nat
  PROVE  /\ Appended(t, n, p) \in Nat
         /\ n <= Appended(t, n, p) \/ U64Max < Appended(t, n, p)
<1>1. t * p \in Nat
  OBVIOUS
<1>2. U64Max \in Nat
  BY U64Assumption
<1> QED
  BY <1>1, <1>2 DEF Appended

LEMMA CloseLineProperties ==
  ASSUME NEW j \in Journal
  PROVE  /\ CloseLine(j) \in Journal
         /\ j.top <= CloseLine(j).top
         /\ j.garbled => CloseLine(j).garbled
         /\ CloseLine(j).garbled \/ j.tail <= CloseLine(j).top
<1>1. U64Max \in Nat
  BY U64Assumption
<1>2. j.top \in Nat /\ j.tail \in Nat /\ j.garbled \in BOOLEAN
  BY DEF Journal
<1>3. CASE ~ j.tail <= U64Max
  <2>1. CloseLine(j) = [top |-> j.top, tail |-> 0, garbled |-> TRUE]
    BY <1>3 DEF CloseLine, Journal
  <2> QED
    BY <1>2, <2>1 DEF Journal
<1>4. CASE j.tail <= U64Max
  <2>1. CloseLine(j) = [top |-> IF j.tail > j.top THEN j.tail ELSE j.top,
                        tail |-> 0, garbled |-> j.garbled]
    BY <1>4 DEF CloseLine, Journal
  <2>2. CASE j.tail > j.top
    BY <1>2, <2>1, <2>2 DEF Journal
  <2>3. CASE ~ j.tail > j.top
    BY <1>2, <2>1, <2>3 DEF Journal
  <2> QED
    BY <2>2, <2>3
<1> QED
  BY <1>3, <1>4

\* The next number is a positive u64 above the highest one seen, or the last.
LEMMA NextSequenceProperties ==
  ASSUME NEW h \in Nat
  PROVE  /\ NextSequence(h) \in Nat \ {0}
         /\ NextSequence(h) <= U64Max
         /\ h < NextSequence(h) \/ NextSequence(h) = U64Max
BY U64Assumption DEF NextSequence

\* Counters stay counters.
LEMMA MetricsProperties ==
  ASSUME NEW m \in Metrics
  PROVE  /\ [m EXCEPT !.recorded = @ + 1] \in Metrics
         /\ [m EXCEPT !.exported = @ + 1] \in Metrics
         /\ [m EXCEPT !.dropped = @ + 1] \in Metrics
         /\ \A n \in Nat : [m EXCEPT !.depth = n] \in Metrics
         /\ \A n \in Nat : [m EXCEPT !.base = n] \in Metrics
BY DEF Metrics

LEMMA NoMetricsType == NoMetrics \in Metrics
BY DEF NoMetrics, Metrics

LEMMA RememberedIsNat ==
  ASSUME TypeOK, NEW b \in Boots, NEW h \in Remembered(b)
  PROVE  h \in Nat
<1>1. journal[b].top \in Nat /\ journal[b].tail \in Nat
  BY DEF TypeOK, Journal
<1>2. \A f \in Intact : f.seq \in Nat
  BY DEF TypeOK, Intact, Entry
<1> QED
  BY <1>1, <1>2 DEF Remembered, Parsed

----------------------------------------------------------------------------
(* Types *)

LEMMA TypeInit == Init => TypeOK
<1> SUFFICES ASSUME Init PROVE TypeOK
  OBVIOUS
<1>1. IsFiniteSet(files)
  BY FS_EmptySet DEF Init
<1>2. journal \in [Boots -> Journal]
  BY DEF Init, EmptyJournal, Journal
<1>3. metrics \in Metrics
  BY NoMetricsType DEF Init
<1>4. exporters \in Seq(Exporters)
  BY DEF Init
<1> QED
  BY <1>1, <1>2, <1>3, <1>4 DEF Init, TypeOK

LEMMA TypeStep == TypeOK /\ [Next]_vars => TypeOK'
<1> SUFFICES ASSUME TypeOK, [Next]_vars PROVE TypeOK'
  OBVIOUS
<1> USE DEF TypeOK
<1>card. Cardinality(files) \in Nat
  BY FS_CardinalityType
<1>u64. U64Max \in Nat /\ PowersOfTen \subseteq Nat
  BY U64Assumption
<1>1. ASSUME NEW b \in Boots, NEW c \in Configs, Start(b, c) PROVE TypeOK'
  <2>1. exporters' \in Seq(Exporters)
    BY <1>1, ConfigsAssumption DEF Start
  <2>2. nextSeq' \in Nat \ {0}
    BY <1>1, RememberedIsNat, NextSequenceProperties DEF Start, IsHighest
  <2>3. metrics' \in Metrics
    BY <1>1, <1>card, NoMetricsType, MetricsProperties DEF Start, Refreshed
  <2> QED
    BY <1>1, <2>1, <2>2, <2>3 DEF Start, Leftovers, history, Up
<1>2. CASE Crash
  BY <1>2, NoMetricsType DEF Crash, Exit, disk, history, Up
<1>3. ASSUME NEW t \in 0..MaxEpoch, NEW s \in Sizes, NewEntry(t, s) PROVE TypeOK'
  <2>1. t \in Nat
    BY BoundsAssumption
  <2>2. entry' \in Entry
    BY <1>3, <2>1 DEF NewEntry, Entry
  <2>3. nextSeq' \in Nat \ {0} /\ clock' \in Nat
    BY <1>3, <2>1 DEF NewEntry
  <2> QED
    BY <1>3, <2>2, <2>3 DEF NewEntry, disk, history
<1>4. CASE StoreExisting
  BY <1>4 DEF StoreExisting, disk, process, Entry
<1>5. CASE StoreTempTaken
  BY <1>5, NoMetricsType DEF StoreTempTaken, Exit, disk, history
<1>6. CASE StoreTemp
  <2>1. entry.seq \in Nat /\ tempId \in Nat
    BY <1>6 DEF StoreTemp, Entry
  <2>2. temps' \subseteq Nat \X Nat
    BY <1>6, <2>1 DEF StoreTemp
  <2>3. tempId' \in Nat \ {0}
    BY <1>6 DEF StoreTemp
  <2> QED
    BY <1>6, <2>2, <2>3 DEF StoreTemp, process, history
<1>7. CASE Rename
  <2>1. IsFiniteSet(files')
    BY <1>7, FS_AddElement DEF Rename
  <2>2. Identity(entry) \in [ev : Nat, boot : Boots, seq : Nat] /\ entry \in Entry /\ entry.ev \in Nat
    BY <1>7 DEF Rename, Identity, Entry
  <2>3. metrics' \in Metrics
    BY <1>7, MetricsProperties DEF Rename
  <2> QED
    BY <1>7, <2>1, <2>2, <2>3 DEF Rename, process
<1>8. ASSUME NEW f \in files, LimitDrop(f) PROVE TypeOK'
  <2>1. IsFiniteSet(files')
    BY <1>8, FS_RemoveElement DEF LimitDrop
  <2>2. f.ev \in Nat
    BY DEF Entry
  <2>3. metrics' \in Metrics
    BY <1>8, MetricsProperties DEF LimitDrop
  <2> QED
    BY <1>8, <2>1, <2>2, <2>3 DEF LimitDrop, process
<1>9. CASE LimitDone
  BY <1>9, <1>card, MetricsProperties DEF LimitDone, Refreshed, disk, process, history
<1>10. CASE JournalDigits
  <2>1. entry \in Entry /\ entry.seq \in Nat
    BY <1>10 DEF JournalDigits, Entry
  <2>2. PICK p \in PowersOfTen :
          journal' = [journal EXCEPT ![boot].tail = Appended(@, entry.seq, p)]
    BY <1>10 DEF JournalDigits
  <2>3. journal[boot].tail \in Nat
    BY DEF Journal
  <2>4. Appended(journal[boot].tail, entry.seq, p) \in Nat
    BY <2>1, <2>3, <1>u64, AppendedProperties
  <2>5. [journal[boot] EXCEPT !.tail = Appended(journal[boot].tail, entry.seq, p)] \in Journal
    BY <2>4 DEF Journal
  <2>6. journal' \in [Boots -> Journal]
    BY <2>2, <2>5
  <2> QED
    BY <1>10, <2>1, <2>6 DEF JournalDigits, process, history
<1>11. CASE JournalNewline
  <2>1. journal' \in [Boots -> Journal]
    BY <1>11, CloseLineProperties DEF JournalNewline
  <2>2. entry.ev \in Nat
    BY <1>11 DEF JournalNewline, Entry
  <2> QED
    BY <1>11, <2>1, <2>2 DEF JournalNewline, process
<1>12. CASE StepEnd
  BY <1>12 DEF StepEnd, disk, process, history
<1>13. CASE DrainEnd
  BY <1>13, <1>card, MetricsProperties DEF DrainEnd, Refreshed, disk, process, history
<1>14. ASSUME NEW f \in files, Quarantine(f) PROVE TypeOK'
  <2>1. IsFiniteSet(files')
    BY <1>14, FS_RemoveElement DEF Quarantine
  <2>2. metrics' \in Metrics
    BY <1>14, MetricsProperties DEF Quarantine
  <2> QED
    BY <1>14, <2>1, <2>2 DEF Quarantine, process, history
<1>15. ASSUME NEW f \in files, DrainRead(f) PROVE TypeOK'
  BY <1>15 DEF DrainRead, disk, process, history
<1>16. CASE Remove
  <2>1. IsFiniteSet(files')
    BY <1>16, FS_RemoveElement DEF Remove
  <2>2. metrics' \in Metrics
    BY <1>16, MetricsProperties DEF Remove
  <2> QED
    BY <1>16, <2>1, <2>2 DEF Remove, process, history
<1>17. ASSUME NEW x \in Exporters, ExportOk(x) PROVE TypeOK'
  <2>1. entry \in Entry /\ entry.ev \in Nat
    BY <1>17 DEF ExportOk, Entry
  <2> QED
    BY <1>17, <2>1 DEF ExportOk, disk, process
<1>18. ASSUME NEW x \in Exporters, NEW d \in BOOLEAN, ExportFail(x, d) PROVE TypeOK'
  <2>1. entry \in Entry /\ entry.ev \in Nat
    BY <1>18 DEF ExportFail, Entry
  <2>2. received' \in [Exporters -> SUBSET Nat]
    BY <1>18, <2>1 DEF ExportFail
  <2>3. metrics' \in Metrics
    BY <1>18, <1>card, MetricsProperties DEF ExportFail, Refreshed
  <2> QED
    BY <1>18, <2>2, <2>3 DEF ExportFail, disk, process
<1>19. ASSUME NEW f \in files, Damage(f) PROVE TypeOK'
  <2>1. f.ev \in Nat
    BY DEF Entry
  <2> QED
    BY <1>19, <2>1 DEF Damage, Intact, process
<1>20. CASE UNCHANGED vars
  BY <1>20 DEF vars
<1> QED
  BY <1>1, <1>2, <1>3, <1>4, <1>5, <1>6, <1>7, <1>8, <1>9, <1>10, <1>11, <1>12, <1>13,
     <1>14, <1>15, <1>16, <1>17, <1>18, <1>19, <1>20
     DEF Next, Agent, Boot, Store, Drain, Export

\* Every variable keeps its type, whatever the constants are.
THEOREM TypeCorrect == Spec => []TypeOK
BY TypeInit, TypeStep, PTL DEF Spec

----------------------------------------------------------------------------
(* Event identities *)

LEMMA EventOrderInit == Init => EventOrder
BY BoundsAssumption DEF Init, EventOrder, Storing, Stored

LEMMA EventOrderStep == TypeOK /\ EventOrder /\ [Next]_vars => EventOrder'
<1> SUFFICES ASSUME TypeOK, EventOrder, [Next]_vars PROVE EventOrder'
  OBVIOUS
<1> USE DEF EventOrder, Storing, Stored
<1>n. created \in Nat /\ MaxEvents \in Nat
  BY BoundsAssumption DEF TypeOK
<1>1. ASSUME NEW b \in Boots, NEW c \in Configs, Start(b, c) PROVE EventOrder'
  BY <1>1 DEF Start, history
<1>2. CASE Crash
  BY <1>2 DEF Crash, Exit, disk, history
<1>3. ASSUME NEW t \in 0..MaxEpoch, NEW s \in Sizes, NewEntry(t, s) PROVE EventOrder'
  BY <1>3 DEF NewEntry, disk, history
<1>4. CASE StoreExisting
  <2>1. created' = created + 1
    BY <1>4 DEF StoreExisting
  <2>2. \A i \in issued : i.ev # created'
    BY <1>n, <2>1
  <2> QED
    BY <1>4, <1>n, <2>1, <2>2 DEF StoreExisting, disk
<1>5. CASE StoreTempTaken
  BY <1>5 DEF StoreTempTaken, Exit, disk, history
<1>6. CASE StoreTemp
  BY <1>6 DEF StoreTemp, history
<1>7. CASE Rename
  <2>1. created' = created + 1 /\ entry.ev = created + 1 /\ created < MaxEvents
    BY <1>7 DEF Rename
  <2>2. issued' = issued \cup {Identity(entry)} /\ Identity(entry).ev = created + 1
    BY <1>7, <2>1 DEF Rename, Identity
  <2>3. \A i \in issued : i.ev # created + 1
    BY <1>n
  <2>4. \A f \in files' : Identity(f) \in issued'
    BY <1>7, <2>2 DEF Rename
  <2>5. \A i \in issued' : i.ev \in 1..created'
    BY <1>n, <2>1, <2>2
  <2>6. \A i, j \in issued' : i.ev = j.ev => i = j
    BY <2>2, <2>3
  <2>7. acked' \subseteq 1..created'
    BY <1>7, <1>n, <2>1 DEF Rename
  <2>8. \A i \in issued' : i.ev = created' => i = Identity(entry')
    BY <1>7, <2>1, <2>2, <2>3 DEF Rename
  <2> QED
    BY <1>7, <1>n, <2>1, <2>4, <2>5, <2>6, <2>7, <2>8 DEF Rename
<1>8. ASSUME NEW f \in files, LimitDrop(f) PROVE EventOrder'
  BY <1>8 DEF LimitDrop
<1>9. CASE LimitDone
  BY <1>9 DEF LimitDone, disk, history
<1>10. CASE JournalDigits
  BY <1>10 DEF JournalDigits, history
<1>11. CASE JournalNewline
  <2>1. entry.ev = created /\ entry.ev \in Nat
    BY <1>11, <1>n DEF JournalNewline
  <2>2. created # 0
    BY <1>11 DEF JournalNewline
  <2> QED
    BY <1>11, <1>n, <2>1, <2>2 DEF JournalNewline
<1>12. CASE StepEnd
  BY <1>12 DEF StepEnd, disk, history
<1>13. CASE DrainEnd
  BY <1>13 DEF DrainEnd, disk, history
<1>14. ASSUME NEW f \in files, Quarantine(f) PROVE EventOrder'
  BY <1>14 DEF Quarantine, history
<1>15. ASSUME NEW f \in files, DrainRead(f) PROVE EventOrder'
  BY <1>15 DEF DrainRead, disk, history
<1>16. CASE Remove
  BY <1>16 DEF Remove, history
<1>17. ASSUME NEW x \in Exporters, ExportOk(x) PROVE EventOrder'
  BY <1>17 DEF ExportOk, disk
<1>18. ASSUME NEW x \in Exporters, NEW d \in BOOLEAN, ExportFail(x, d) PROVE EventOrder'
  BY <1>18 DEF ExportFail, disk
<1>19. ASSUME NEW f \in files, Damage(f) PROVE EventOrder'
  BY <1>19 DEF Damage
<1>20. CASE UNCHANGED vars
  BY <1>20 DEF vars
<1> QED
  BY <1>1, <1>2, <1>3, <1>4, <1>5, <1>6, <1>7, <1>8, <1>9, <1>10, <1>11, <1>12, <1>13,
     <1>14, <1>15, <1>16, <1>17, <1>18, <1>19, <1>20
     DEF Next, Agent, Boot, Store, Drain, Export

----------------------------------------------------------------------------
(* Sequences *)

LEMMA SeqOrderInit == Init => SeqOrder
BY U64Assumption DEF Init, SeqOrder, Storing, Stored, RestartFresh, UniquePending, Up, Intact

\* The number a start resumes from is above every file of the boot it can read.
LEMMA StartAbove ==
  ASSUME TypeOK, NEW b \in Boots, NEW c \in Configs, Start(b, c)
  PROVE  /\ nextSeq' <= U64Max
         /\ \A n \in Remembered(b) : n < nextSeq' \/ nextSeq' = U64Max
<1>1. PICK h \in Remembered(b) : IsHighest(h, Remembered(b)) /\ nextSeq' = NextSequence(h)
  BY DEF Start
<1>2. h \in Nat /\ \A n \in Remembered(b) : n \in Nat
  BY RememberedIsNat
<1>3. nextSeq' \in Nat /\ nextSeq' <= U64Max /\ (h < nextSeq' \/ nextSeq' = U64Max)
  BY <1>1, <1>2, NextSequenceProperties
<1>4. \A n \in Remembered(b) : n <= h
  BY <1>1 DEF IsHighest
<1> QED
  BY <1>2, <1>3, <1>4

LEMMA SeqOrderStep == TypeOK /\ EventOrder /\ SeqOrder /\ [Next]_vars => SeqOrder'
<1> SUFFICES ASSUME TypeOK, EventOrder, SeqOrder, [Next]_vars PROVE SeqOrder'
  OBVIOUS
<1> USE DEF SeqOrder, Storing, Stored, RestartFresh, UniquePending, Up
<1>n. nextSeq \in Nat /\ U64Max \in Nat /\ \A f \in files : f.seq \in Nat
  BY U64Assumption DEF TypeOK, Entry
\* A step that at most shrinks the readable files, away from the recorder.
<1>shrink. ASSUME Intact' \subseteq Intact, UNCHANGED <<boot, nextSeq>>, Up,
                  ~ Storing', Stored' => Stored /\ UNCHANGED entry
           PROVE SeqOrder'
  BY <1>shrink
<1>1. ASSUME NEW b \in Boots, NEW c \in Configs, Start(b, c) PROVE SeqOrder'
  <2>1. Intact' = Intact /\ boot' = b /\ pc' = "step"
    BY <1>1 DEF Start, Intact
  <2>2. \A f \in Intact : f.boot = b => f.seq \in Remembered(b)
    BY DEF Remembered
  <2> QED
    BY <1>1, <2>1, <2>2, StartAbove
<1>2. CASE Crash
  <2>1. Intact' = Intact /\ pc' = "down" /\ nextSeq' = 1
    BY <1>2 DEF Crash, Exit, Intact, disk
  <2> QED
    BY <2>1, U64Assumption
<1>3. ASSUME NEW t \in 0..MaxEpoch, NEW s \in Sizes, NewEntry(t, s) PROVE SeqOrder'
  <2>1. Intact' = Intact /\ boot' = boot /\ pc = "step" /\ pc' = "store" /\ nextSeq' = nextSeq + 1
    BY <1>3 DEF NewEntry, Intact, disk
  <2>2. entry'.seq = nextSeq /\ entry'.boot = boot /\ nextSeq < U64Max
    BY <1>3 DEF NewEntry
  <2>3. \A f \in Intact : f.boot = boot => f.seq < nextSeq
    BY <1>n, <2>1, <2>2
  <2>4. \A f \in Intact : f.seq \in Nat
    BY <1>n DEF Intact
  <2> QED
    BY <1>n, <2>1, <2>2, <2>3, <2>4
<1>4. CASE StoreExisting
  BY <1>4 DEF StoreExisting, disk, process, Intact
<1>5. CASE StoreTempTaken
  <2>1. Intact' = Intact /\ pc' = "failed" /\ nextSeq' = 1
    BY <1>5 DEF StoreTempTaken, Exit, Intact, disk
  <2> QED
    BY <2>1, U64Assumption
<1>6. CASE StoreTemp
  BY <1>6 DEF StoreTemp, process, Intact
<1>7. CASE Rename
  <2>1. /\ pc = "temp" /\ pc' = "limit"
        /\ UNCHANGED <<boot, nextSeq, entry>>
        /\ Intact' \subseteq Intact \cup {entry}
    BY <1>7 DEF Rename, process, Intact
  <2>2. entry.boot = boot /\ entry.seq < nextSeq /\ entry.seq \in Nat
    BY <2>1 DEF TypeOK, Entry
  <2>3. \A f \in Intact : f.boot = boot => f.seq < entry.seq /\ f.seq \in Nat
    BY <1>n, <2>1 DEF Intact
  <2> QED
    BY <1>n, <2>1, <2>2, <2>3
<1>8. ASSUME NEW f \in files, LimitDrop(f) PROVE SeqOrder'
  BY <1>8, <1>shrink DEF LimitDrop, process, Intact
<1>9. CASE LimitDone
  BY <1>9, <1>shrink DEF LimitDone, disk, process, Intact
<1>10. CASE JournalDigits
  BY <1>10, <1>shrink DEF JournalDigits, process, Intact
<1>11. CASE JournalNewline
  BY <1>11, <1>shrink DEF JournalNewline, process, Intact
<1>12. CASE StepEnd
  BY <1>12, <1>shrink DEF StepEnd, disk, process, Intact
<1>13. CASE DrainEnd
  BY <1>13, <1>shrink DEF DrainEnd, disk, process, Intact
<1>14. ASSUME NEW f \in files, Quarantine(f) PROVE SeqOrder'
  BY <1>14, <1>shrink DEF Quarantine, process, Intact
<1>15. ASSUME NEW f \in files, DrainRead(f) PROVE SeqOrder'
  BY <1>15, <1>shrink DEF DrainRead, disk, process, Intact
<1>16. CASE Remove
  BY <1>16, <1>shrink DEF Remove, process, Intact
<1>17. ASSUME NEW x \in Exporters, ExportOk(x) PROVE SeqOrder'
  BY <1>17, <1>shrink DEF ExportOk, disk, process, Intact
<1>18. ASSUME NEW x \in Exporters, NEW d \in BOOLEAN, ExportFail(x, d) PROVE SeqOrder'
  BY <1>18, <1>shrink DEF ExportFail, disk, process, Intact
<1>19. ASSUME NEW f \in files, Damage(f) PROVE SeqOrder'
  BY <1>19 DEF Damage, process, Intact
<1>20. CASE UNCHANGED vars
  BY <1>20 DEF vars, Intact
<1> QED
  BY <1>1, <1>2, <1>3, <1>4, <1>5, <1>6, <1>7, <1>8, <1>9, <1>10, <1>11, <1>12, <1>13,
     <1>14, <1>15, <1>16, <1>17, <1>18, <1>19, <1>20
     DEF Next, Agent, Boot, Store, Drain, Export

----------------------------------------------------------------------------
(* The journal *)

LEMMA JournalCoversInit == Init => JournalCovers
BY DEF Init, JournalCovers, AckedNeverReused, Storing

LEMMA JournalCoversStep ==
  TypeOK /\ EventOrder /\ SeqOrder /\ JournalCovers /\ [Next]_vars => JournalCovers'
<1> SUFFICES ASSUME TypeOK, EventOrder, SeqOrder, JournalCovers, [Next]_vars
             PROVE JournalCovers'
  OBVIOUS
<1> USE DEF JournalCovers, AckedNeverReused, Storing, Up
<1>n. /\ nextSeq \in Nat /\ U64Max \in Nat /\ created \in Nat
      /\ \A i \in issued : i.seq \in Nat /\ i.ev \in Nat /\ i.boot \in Boots
      /\ \A b \in Boots : journal[b].top \in Nat /\ journal[b].tail \in Nat
  BY U64Assumption DEF TypeOK, Journal
\* A step that leaves journal, history and the next sequence alone, and does not
\* take a new entry in hand.
<1>frame. ASSUME UNCHANGED <<journal, issued, acked, boot, nextSeq>>, Up,
                 pc' # "newline", Storing' => Storing /\ UNCHANGED entry
          PROVE JournalCovers'
  BY <1>frame
<1>1. ASSUME NEW b \in Boots, NEW c \in Configs, Start(b, c) PROVE JournalCovers'
  <2>1. UNCHANGED <<journal, issued, acked>> /\ boot' = b /\ pc' = "step"
    BY <1>1 DEF Start, history
  <2>2. journal[b].top < nextSeq' \/ nextSeq' = U64Max
    BY <1>1, StartAbove DEF Remembered
  <2>3. nextSeq' \in Nat
    BY <1>1, TypeStep DEF TypeOK, Next, Boot
  <2>4. \A i \in issued : i.ev \in acked /\ i.boot = b =>
          journal[b].garbled \/ i.seq < nextSeq' \/ nextSeq' = U64Max
    BY <1>n, <2>2, <2>3
  <2> QED
    BY <2>1, <2>4
<1>2. CASE Crash
  BY <1>2 DEF Crash, Exit, disk, history
<1>3. ASSUME NEW t \in 0..MaxEpoch, NEW s \in Sizes, NewEntry(t, s) PROVE JournalCovers'
  <2>1. /\ UNCHANGED <<journal, issued, acked, boot>>
        /\ pc = "step" /\ pc' = "store"
        /\ nextSeq < U64Max /\ nextSeq' = nextSeq + 1 /\ entry'.seq = nextSeq
    BY <1>3 DEF NewEntry, disk, history
  <2>2. \A i \in issued : i.ev \in acked /\ i.boot = boot =>
          journal[boot].garbled \/ i.seq < nextSeq
    BY <1>n, <2>1
  <2> QED
    BY <1>n, <2>1, <2>2
<1>4. CASE StoreExisting
  BY <1>4, <1>frame DEF StoreExisting, disk, process
<1>5. CASE StoreTempTaken
  BY <1>5 DEF StoreTempTaken, Exit, disk, history
<1>6. CASE StoreTemp
  BY <1>6, <1>frame DEF StoreTemp, process, history
<1>7. CASE Rename
  <2>1. /\ UNCHANGED <<journal, acked, boot, nextSeq>>
        /\ pc = "temp" /\ pc' = "limit"
        /\ issued' = issued \cup {Identity(entry)}
    BY <1>7 DEF Rename, process
  <2>2. /\ Identity(entry).ev = created + 1
        /\ Identity(entry).boot = boot /\ Identity(entry).seq = entry.seq
    BY <2>1 DEF EventOrder, SeqOrder, Identity
  <2>3. Identity(entry).ev \notin acked
    BY <1>n, <2>2 DEF EventOrder
  <2>4. \A i \in issued : i.ev < Identity(entry).ev
    BY <1>n, <2>2 DEF EventOrder
  <2>5. \A i \in issued : i.ev \in acked /\ i.boot = boot =>
          journal[i.boot].garbled \/ i.seq < entry.seq
    BY <2>1
  <2>6. AckedNeverReused'
    <3> SUFFICES ASSUME NEW i \in issued', NEW j \in issued',
                        i.boot = j.boot, i.seq = j.seq, i.ev < j.ev, i.ev \in acked
                 PROVE journal[i.boot].garbled
      BY <2>1
    <3>1. i \in issued
      BY <2>1, <2>3
    <3>2. CASE j \in issued
      BY <3>1, <3>2
    <3>3. CASE j = Identity(entry)
      BY <1>n, <2>2, <2>5, <3>1, <3>3 DEF EventOrder
    <3> QED
      BY <2>1, <3>2, <3>3
  <2> QED
    BY <1>n, <2>1, <2>3, <2>6
<1>8. ASSUME NEW f \in files, LimitDrop(f) PROVE JournalCovers'
  BY <1>8, <1>frame DEF LimitDrop, process
<1>9. CASE LimitDone
  BY <1>9, <1>frame DEF LimitDone, disk, process, history
<1>10. CASE JournalDigits
  <2>1. /\ UNCHANGED <<issued, acked, boot, nextSeq, entry>>
        /\ pc = "journal" /\ pc' = "newline"
    BY <1>10 DEF JournalDigits, process, history
  <2>2. PICK p \in PowersOfTen :
          journal' = [journal EXCEPT ![boot].tail = Appended(@, entry.seq, p)]
    BY <1>10 DEF JournalDigits
  <2>3. boot \in Boots /\ p \in Nat /\ entry.seq \in Nat /\ entry.seq < nextSeq
    BY <2>1, U64Assumption DEF TypeOK, Entry, SeqOrder, Stored
  <2>4. journal'[boot].tail = Appended(journal[boot].tail, entry.seq, p)
    BY <2>2, <2>3 DEF TypeOK, Journal
  <2>5. entry.seq <= journal'[boot].tail
    <3>1. nextSeq <= U64Max /\ journal[boot].tail \in Nat
      BY <1>n, <2>3 DEF SeqOrder
    <3>2. /\ Appended(journal[boot].tail, entry.seq, p) \in Nat
          /\ \/ entry.seq <= Appended(journal[boot].tail, entry.seq, p)
             \/ U64Max < Appended(journal[boot].tail, entry.seq, p)
      BY <2>3, <3>1, AppendedProperties
    <3> QED
      BY <1>n, <2>3, <2>4, <3>1, <3>2
  <2>6. \A b \in Boots : /\ journal'[b].top = journal[b].top
                        /\ journal'[b].garbled = journal[b].garbled
    BY <2>2, <2>3 DEF TypeOK, Journal
  <2> QED
    BY <1>n, <2>1, <2>5, <2>6
<1>11. CASE JournalNewline
  <2>1. /\ UNCHANGED <<issued, boot, nextSeq>>
        /\ pc = "newline" /\ pc' = "step"
        /\ acked' = acked \cup {entry.ev}
        /\ journal' = [journal EXCEPT ![boot] = CloseLine(@)]
    BY <1>11 DEF JournalNewline, process
  <2>2. boot \in Boots /\ journal[boot] \in Journal
    BY DEF TypeOK
  <2>3. \A b \in Boots : journal[b].top <= journal'[b].top
    BY <1>n, <2>1, <2>2, CloseLineProperties DEF TypeOK
  <2>g. \A b \in Boots : journal[b].garbled => journal'[b].garbled
    BY <2>1, <2>2, CloseLineProperties DEF TypeOK
  <2>b. \A i \in issued : i.boot \in Boots
    BY <1>n
  <2>4. journal'[boot].garbled \/ entry.seq <= journal'[boot].top
    <3>1. /\ CloseLine(journal[boot]).top \in Nat
          /\ CloseLine(journal[boot]).garbled \/ journal[boot].tail <= CloseLine(journal[boot]).top
      BY <2>2, CloseLineProperties DEF Journal
    <3>2. entry.seq \in Nat /\ entry.seq <= journal[boot].tail /\ journal[boot].tail \in Nat
      BY <1>n, <2>1, <2>2 DEF TypeOK, Entry
    <3> QED
      BY <2>1, <2>2, <3>1, <3>2 DEF TypeOK
  <2>5. \A i \in issued : i.ev = entry.ev =>
          i.boot = boot /\ i.seq = entry.seq /\ i.ev = created
    BY <2>1 DEF EventOrder, SeqOrder, Stored, Identity
  <2>6. entry.seq < nextSeq
    BY <2>1 DEF SeqOrder, Stored
  <2>7. \A b \in Boots : journal'[b].top \in Nat
    BY <2>1, <2>2, CloseLineProperties DEF TypeOK, Journal
  <2>8. \A i \in issued : i.ev \in acked' =>
          \/ journal'[i.boot].garbled
          \/ /\ i.seq <= journal'[i.boot].top
             /\ i.boot = boot => i.seq < nextSeq \/ nextSeq = U64Max
    <3> SUFFICES ASSUME NEW i \in issued, i.ev \in acked'
                 PROVE  \/ journal'[i.boot].garbled
                        \/ /\ i.seq <= journal'[i.boot].top
                           /\ i.boot = boot => i.seq < nextSeq \/ nextSeq = U64Max
      OBVIOUS
    <3>1. CASE i.ev = entry.ev
      <4>1. i.boot = boot /\ i.seq = entry.seq
        BY <2>5, <3>1
      <4> QED
        BY <2>4, <2>6, <4>1
    <3>2. CASE i.ev \in acked
      <4>1. CASE journal[i.boot].garbled
        BY <2>g, <2>b, <4>1, Zenon
      <4>2. CASE ~ journal[i.boot].garbled
        <5>1. i.seq <= journal[i.boot].top
          BY <3>2, <4>2
        <5>2. i.boot = boot => i.seq < nextSeq \/ nextSeq = U64Max
          BY <2>1, <3>2, <4>2
        <5>3. i.seq <= journal'[i.boot].top
          BY <1>n, <2>3, <2>7, <2>b, <5>1
        <5> QED
          BY <5>2, <5>3
      <4> QED
        BY <4>1, <4>2
    <3> QED
      BY <2>1, <3>1, <3>2
  <2>9. AckedNeverReused'
    <3> SUFFICES ASSUME NEW i \in issued, NEW j \in issued,
                        i.boot = j.boot, i.seq = j.seq, i.ev < j.ev, i.ev \in acked'
                 PROVE journal'[i.boot].garbled
      BY <2>1
    <3>1. i.ev # entry.ev
      <4>1. j.ev <= created /\ i.ev \in Nat /\ j.ev \in Nat
        BY <1>n DEF EventOrder
      <4>2. i.ev = entry.ev => i.ev = created
        BY <2>5
      <4> QED
        BY <1>n, <4>1, <4>2
    <3>2. journal[i.boot].garbled
      BY <2>1, <3>1
    <3> QED
      BY <2>g, <2>b, <3>2, Zenon
  <2> QED
    BY <2>1, <2>8, <2>9
<1>12. CASE StepEnd
  BY <1>12, <1>frame DEF StepEnd, disk, process, history
<1>13. CASE DrainEnd
  BY <1>13, <1>frame DEF DrainEnd, disk, process, history
<1>14. ASSUME NEW f \in files, Quarantine(f) PROVE JournalCovers'
  BY <1>14, <1>frame DEF Quarantine, process, history
<1>15. ASSUME NEW f \in files, DrainRead(f) PROVE JournalCovers'
  BY <1>15, <1>frame DEF DrainRead, disk, process, history
<1>16. CASE Remove
  BY <1>16, <1>frame DEF Remove, process, history
<1>17. ASSUME NEW x \in Exporters, ExportOk(x) PROVE JournalCovers'
  BY <1>17, <1>frame DEF ExportOk, disk, process
<1>18. ASSUME NEW x \in Exporters, NEW d \in BOOLEAN, ExportFail(x, d) PROVE JournalCovers'
  BY <1>18, <1>frame DEF ExportFail, disk, process
<1>19. ASSUME NEW f \in files, Damage(f) PROVE JournalCovers'
  BY <1>19 DEF Damage, process
<1>20. CASE UNCHANGED vars
  BY <1>20 DEF vars
<1> QED
  BY <1>1, <1>2, <1>3, <1>4, <1>5, <1>6, <1>7, <1>8, <1>9, <1>10, <1>11, <1>12, <1>13,
     <1>14, <1>15, <1>16, <1>17, <1>18, <1>19, <1>20
     DEF Next, Agent, Boot, Store, Drain, Export

----------------------------------------------------------------------------
(* Delivery *)

\* What the drain takes next from its listing is the oldest file there is.
LEMMA ListedOldest ==
  ASSUME DrainListing, pc = "drain", NEW f, OldestOf(listing, f)
  PROVE  Oldest(f)
BY DEF DrainListing, Oldest

LEMMA DrainProgressInit == Init => DrainProgress
BY DEF Init, DrainProgress, Accounted, Draining

LEMMA DrainProgressStep ==
  TypeOK /\ EventOrder /\ DrainProgress /\ DrainListing /\ [Next]_vars => DrainProgress'
<1> SUFFICES ASSUME TypeOK, EventOrder, DrainProgress, DrainListing, [Next]_vars
             PROVE  DrainProgress'
  OBVIOUS
<1> USE DEF DrainProgress, Accounted, Draining
<1>n. xi \in Nat \ {0} /\ exporters \in Seq(Exporters) /\ Len(exporters) \in Nat
  BY DEF TypeOK
\* A step that loses no readable file and leaves no entry in the exporters' hands.
<1>frame. ASSUME ~ Draining', issued' = issued, received' = received, shed' = shed,
                 Intact \subseteq Intact'
          PROVE DrainProgress'
  BY <1>frame
<1>1. ASSUME NEW b \in Boots, NEW c \in Configs, Start(b, c) PROVE DrainProgress'
  BY <1>1, <1>frame DEF Start, Intact, history
<1>2. CASE Crash
  BY <1>2, <1>frame DEF Crash, Exit, Intact, disk, history
<1>3. ASSUME NEW t \in 0..MaxEpoch, NEW s \in Sizes, NewEntry(t, s) PROVE DrainProgress'
  BY <1>3, <1>frame DEF NewEntry, Intact, disk, history
<1>4. CASE StoreExisting
  BY <1>4, <1>frame DEF StoreExisting, Intact, disk
<1>5. CASE StoreTempTaken
  BY <1>5, <1>frame DEF StoreTempTaken, Exit, Intact, disk, history
<1>6. CASE StoreTemp
  BY <1>6, <1>frame DEF StoreTemp, Intact, history
<1>7. CASE Rename
  <2>1. /\ pc' = "limit" /\ UNCHANGED <<received, shed>>
        /\ issued' = issued \cup {Identity(entry)}
        /\ files' = files \cup {entry} /\ damaged' = damaged /\ pc = "temp"
    BY <1>7 DEF Rename
  <2>2. entry.ev = created + 1 /\ \A f \in files : f.ev \in 1..created
    BY <2>1 DEF EventOrder, Storing, Identity
  <2>3. entry \notin damaged
    <3>1. created \in Nat /\ damaged \subseteq files
      BY DEF TypeOK
    <3> QED
      BY <2>2, <3>1
  <2>4. entry \in Intact' /\ Intact \subseteq Intact' /\ Identity(entry).ev = entry.ev
    BY <2>1, <2>3 DEF Intact, Identity
  <2>5. Accounted'
    BY <2>1, <2>4
  <2> QED
    BY <2>1, <2>5
<1>8. ASSUME NEW f \in files, LimitDrop(f) PROVE DrainProgress'
  <2>1. /\ pc = "limit" /\ pc' = "limit" /\ UNCHANGED <<issued, received>>
        /\ shed' = shed \cup {f.ev} /\ Intact \subseteq Intact' \cup {f}
    BY <1>8 DEF LimitDrop, Intact
  <2> QED
    BY <2>1
<1>9. CASE LimitDone
  BY <1>9, <1>frame DEF LimitDone, Intact, disk, history
<1>10. CASE JournalDigits
  BY <1>10, <1>frame DEF JournalDigits, Intact, history
<1>11. CASE JournalNewline
  BY <1>11, <1>frame DEF JournalNewline, Intact
<1>12. CASE StepEnd
  BY <1>12, <1>frame DEF StepEnd, Intact, disk, history
<1>13. CASE DrainEnd
  BY <1>13, <1>frame DEF DrainEnd, Intact, disk, history
<1>14. ASSUME NEW f \in files, Quarantine(f) PROVE DrainProgress'
  BY <1>14, <1>frame DEF Quarantine, Intact, history
<1>15. ASSUME NEW f \in files, DrainRead(f) PROVE DrainProgress'
  <2>1. /\ pc' = "export" /\ xi' = 1 /\ entry' = f /\ Oldest(f) /\ exporters # <<>>
        /\ UNCHANGED <<files, damaged, exporters, issued, received, shed>>
    BY <1>15, ListedOldest DEF DrainRead, disk, history
  <2>2. Len(exporters) >= 1
    BY <1>n, <2>1
  <2>3. Oldest(entry)' /\ Intact' = Intact
    BY <2>1 DEF Oldest, OldestOf, Intact
  <2> QED
    BY <1>n, <2>1, <2>2, <2>3
<1>16. CASE Remove
  <2>1. /\ pc = "remove" /\ pc' = "drain" /\ UNCHANGED <<issued, received, shed>>
        /\ Intact \subseteq Intact' \cup {entry}
    BY <1>16 DEF Remove, Intact, history
  <2>2. Len(exporters) >= 1 /\ entry.ev \in received[exporters[1]] /\ exporters[1] \in Exporters
    BY <1>n, <2>1
  <2> QED
    BY <2>1, <2>2
<1>17. ASSUME NEW x \in Exporters, ExportOk(x) PROVE DrainProgress'
  <2>1. /\ pc = "export" /\ x = exporters[xi] /\ xi' = xi + 1
        /\ received' = [received EXCEPT ![x] = @ \cup {entry.ev}]
        /\ UNCHANGED <<files, damaged, exporters, issued, shed, entry>>
        /\ pc' = IF xi = Len(exporters) THEN "remove" ELSE "export"
    BY <1>17 DEF ExportOk, LastExporter, disk, process
  <2>2. \A y \in Exporters : received[y] \subseteq received'[y]
    BY <2>1 DEF TypeOK
  <2>3. entry.ev \in received'[exporters[xi]]
    BY <2>1 DEF TypeOK
  <2>4. \A k \in 1..Len(exporters) : exporters[k] \in Exporters
    BY <1>n
  <2>5. \A k \in 1..xi : entry.ev \in received'[exporters[k]]
    <3> SUFFICES ASSUME NEW k \in 1..xi PROVE entry.ev \in received'[exporters[k]]
      OBVIOUS
    <3>1. CASE k = xi
      BY <2>3, <3>1
    <3>2. CASE k # xi
      <4>1. k \in 1..(xi - 1) /\ k \in 1..Len(exporters)
        BY <1>n, <2>1, <3>2
      <4> QED
        BY <2>1, <2>2, <2>4, <4>1
    <3> QED
      BY <3>1, <3>2
  <2>6. Oldest(entry)' /\ Intact' = Intact /\ exporters' # <<>>
    BY <2>1 DEF Oldest, OldestOf, Intact
  <2>7. Accounted'
    BY <2>1, <2>2, <2>6
  <2>8. pc' = "export" => xi' <= Len(exporters) /\ xi' - 1 = xi
    BY <1>n, <2>1
  <2>9. pc' = "remove" => xi = Len(exporters)
    BY <2>1
  <2> QED
    BY <2>1, <2>5, <2>6, <2>7, <2>8, <2>9
<1>18. ASSUME NEW x \in Exporters, NEW d \in BOOLEAN, ExportFail(x, d) PROVE DrainProgress'
  <2>1. pc' = "step" /\ UNCHANGED <<files, damaged, issued, shed>>
    BY <1>18 DEF ExportFail, disk
  <2>2. \A y \in Exporters : received[y] \subseteq received'[y]
    BY <1>18 DEF ExportFail, TypeOK
  <2> QED
    BY <2>1, <2>2 DEF Intact
<1>19. ASSUME NEW f \in files, Damage(f) PROVE DrainProgress'
  <2>1. /\ UNCHANGED <<files, pc, exporters, xi, entry, issued, received>>
        /\ shed' = shed \cup {f.ev} /\ Intact \subseteq Intact' \cup {f}
    BY <1>19 DEF Damage, Intact, process
  <2>2. Oldest(entry) => Oldest(entry)'
    BY <2>1 DEF Oldest, OldestOf
  <2> QED
    BY <2>1, <2>2
<1>20. CASE UNCHANGED vars
  BY <1>20 DEF vars, Intact, Oldest, OldestOf
<1> QED
  BY <1>1, <1>2, <1>3, <1>4, <1>5, <1>6, <1>7, <1>8, <1>9, <1>10, <1>11, <1>12, <1>13,
     <1>14, <1>15, <1>16, <1>17, <1>18, <1>19, <1>20
     DEF Next, Agent, Boot, Store, Drain, Export

----------------------------------------------------------------------------
(* Order of names *)

LEMMA NameOrderInit == Init => NameOrder
BY DEF Init, NameOrder, Intact, Storing

LEMMA NameOrderStep ==
  TypeOK /\ EventOrder /\ SeqOrder /\ NameOrder /\ [Next]_vars => NameOrder'
<1> SUFFICES ASSUME TypeOK, EventOrder, SeqOrder, NameOrder, [Next]_vars, SteadyClock
             PROVE NameOrder'
  BY DEF NameOrder
<1> USE DEF NameOrder, Storing
<1>n. clock \in Nat /\ \A f \in files : f.epoch \in Nat
  BY DEF TypeOK, Entry
\* A step that adds no file and takes no new entry in hand.
<1>frame. ASSUME files' \subseteq files, Intact' \subseteq Intact, clock' = clock,
                 Storing' => Storing /\ UNCHANGED entry
          PROVE NameOrder'
  BY <1>frame
<1>1. ASSUME NEW b \in Boots, NEW c \in Configs, Start(b, c) PROVE NameOrder'
  BY <1>1, <1>frame DEF Start, Intact
<1>2. CASE Crash
  BY <1>2, <1>frame DEF Crash, Exit, Intact, disk
<1>3. ASSUME NEW t \in 0..MaxEpoch, NEW s \in Sizes, NewEntry(t, s) PROVE NameOrder'
  <2>1. /\ UNCHANGED <<files, damaged>> /\ t >= clock /\ clock' = t /\ entry'.epoch = t
    BY <1>3 DEF NewEntry, disk
  <2>2. t \in Nat /\ Intact' = Intact
    BY <2>1, BoundsAssumption DEF Intact
  <2>3. \A f \in files' : f.epoch <= clock'
    BY <1>n, <2>1, <2>2
  <2> QED
    BY <2>1, <2>2, <2>3
<1>4. CASE StoreExisting
  BY <1>4, <1>frame DEF StoreExisting, Intact, disk
<1>5. CASE StoreTempTaken
  BY <1>5, <1>frame DEF StoreTempTaken, Exit, Intact, disk
<1>6. CASE StoreTemp
  BY <1>6, <1>frame DEF StoreTemp, Intact
<1>7. CASE Rename
  <2>1. /\ pc = "temp" /\ pc' = "limit" /\ clock' = clock
        /\ files' = files \cup {entry} /\ Intact' \subseteq Intact \cup {entry}
    BY <1>7 DEF Rename, Intact
  <2>2. entry.epoch = clock /\ entry.boot = boot /\ entry.ev = created + 1
    BY <2>1 DEF SeqOrder, EventOrder
  <2>3. \A f \in Intact : f.boot = boot => f.seq < entry.seq
    BY <2>1 DEF SeqOrder
  <2>4. \A f \in Intact : f.ev \in Nat /\ f.ev < entry.ev /\ f.epoch <= entry.epoch
    <3>1. created \in Nat /\ \A f \in files : f.ev \in 1..created
      BY DEF EventOrder, Identity, TypeOK
    <3> QED
      BY <1>n, <2>2, <3>1 DEF Intact
  <2>5. \A f \in files' : f.epoch <= clock
    BY <1>n, <2>1, <2>2
  <2>6. entry.ev \in Nat
    BY <2>2 DEF TypeOK
  <2>7. \A f, g \in Intact' : f.boot = g.boot /\ f.ev < g.ev => f.epoch <= g.epoch /\ f.seq < g.seq
    <3> SUFFICES ASSUME NEW f \in Intact', NEW g \in Intact', f.boot = g.boot, f.ev < g.ev
                 PROVE f.epoch <= g.epoch /\ f.seq < g.seq
      OBVIOUS
    <3>1. CASE f \in Intact /\ g \in Intact
      BY <3>1
    <3>2. CASE f \in Intact /\ g = entry
      BY <2>2, <2>3, <2>4, <3>2
    <3>3. f # entry
      BY <2>1, <2>4, <2>6
    <3> QED
      BY <2>1, <3>1, <3>2, <3>3
  <2> QED
    BY <2>1, <2>5, <2>7
<1>8. ASSUME NEW f \in files, LimitDrop(f) PROVE NameOrder'
  BY <1>8, <1>frame DEF LimitDrop, Intact
<1>9. CASE LimitDone
  BY <1>9, <1>frame DEF LimitDone, Intact, disk
<1>10. CASE JournalDigits
  BY <1>10, <1>frame DEF JournalDigits, Intact
<1>11. CASE JournalNewline
  BY <1>11, <1>frame DEF JournalNewline, Intact
<1>12. CASE StepEnd
  BY <1>12, <1>frame DEF StepEnd, Intact, disk
<1>13. CASE DrainEnd
  BY <1>13, <1>frame DEF DrainEnd, Intact, disk
<1>14. ASSUME NEW f \in files, Quarantine(f) PROVE NameOrder'
  BY <1>14, <1>frame DEF Quarantine, Intact
<1>15. ASSUME NEW f \in files, DrainRead(f) PROVE NameOrder'
  BY <1>15, <1>frame DEF DrainRead, Intact, disk
<1>16. CASE Remove
  BY <1>16, <1>frame DEF Remove, Intact
<1>17. ASSUME NEW x \in Exporters, ExportOk(x) PROVE NameOrder'
  BY <1>17, <1>frame DEF ExportOk, Intact, disk
<1>18. ASSUME NEW x \in Exporters, NEW d \in BOOLEAN, ExportFail(x, d) PROVE NameOrder'
  BY <1>18, <1>frame DEF ExportFail, Intact, disk
<1>19. ASSUME NEW f \in files, Damage(f) PROVE NameOrder'
  BY <1>19, <1>frame DEF Damage, Intact
<1>20. CASE UNCHANGED vars
  BY <1>20 DEF vars, Intact
<1> QED
  BY <1>1, <1>2, <1>3, <1>4, <1>5, <1>6, <1>7, <1>8, <1>9, <1>10, <1>11, <1>12, <1>13,
     <1>14, <1>15, <1>16, <1>17, <1>18, <1>19, <1>20
     DEF Next, Agent, Boot, Store, Drain, Export

----------------------------------------------------------------------------
(* Counters *)

\* One counter goes up by one, the others stay.
LEMMA CountersMove ==
  ASSUME NEW m \in Metrics
  PROVE  /\ LET n == [m EXCEPT !.recorded = @ + 1]
            IN  /\ n.base + n.recorded = m.base + m.recorded + 1
                /\ n.exported + n.dropped = m.exported + m.dropped
         /\ LET n == [m EXCEPT !.exported = @ + 1]
            IN  /\ n.base + n.recorded = m.base + m.recorded
                /\ n.exported + n.dropped = m.exported + m.dropped + 1
         /\ LET n == [m EXCEPT !.dropped = @ + 1]
            IN  /\ n.base + n.recorded = m.base + m.recorded
                /\ n.exported + n.dropped = m.exported + m.dropped + 1
BY DEF Metrics

\* update_depth sets the gauge to the number of files and moves no counter.
LEMMA RefreshedProperties ==
  ASSUME NEW m \in Metrics
  PROVE  /\ Refreshed(m).depth = Cardinality(files)
         /\ Refreshed(m).base = m.base /\ Refreshed(m).recorded = m.recorded
         /\ Refreshed(m).exported = m.exported /\ Refreshed(m).dropped = m.dropped
BY DEF Refreshed, Metrics

LEMMA CountersAgreeInit == Init => CountersAgree
BY DEF Init, CountersAgree, Conservation, Up

LEMMA CountersAgreeStep ==
  TypeOK /\ DrainProgress /\ CountersAgree /\ [Next]_vars => CountersAgree'
<1> SUFFICES ASSUME TypeOK, DrainProgress, CountersAgree, [Next]_vars PROVE CountersAgree'
  OBVIOUS
<1> DEFINE Sum == metrics.base + metrics.recorded
           Out == metrics.exported + metrics.dropped
           Fresh == {"step", "store", "temp", "journal", "newline"}
           Free == ~ \E f \in files : SameName(f, entry)
<1>n. /\ IsFiniteSet(files) /\ Cardinality(files) \in Nat
      /\ metrics \in Metrics /\ Sum \in Nat /\ Out \in Nat
  BY FS_CardinalityType DEF TypeOK, Metrics
<1>h. /\ Up => Sum = Out + Cardinality(files)
      /\ pc = "temp" => Free
      /\ pc \in Fresh => metrics.depth = Cardinality(files)
  BY <1>n DEF CountersAgree, Conservation, Metrics
\* What has to be shown of a step: the balance, and the gauge where it is due.
<1>goal. ASSUME Up' => Sum' = Out' + Cardinality(files)',
                pc' = "temp" => Free',
                pc' \in Fresh => metrics'.depth = Cardinality(files)',
                metrics' \in Metrics, Cardinality(files)' \in Nat
         PROVE  CountersAgree'
  BY <1>goal DEF CountersAgree, Conservation, Metrics
\* A step that leaves directory and counters alone.
<1>frame. ASSUME UNCHANGED <<files, metrics>>, Up' => Up,
                 pc' \in Fresh => pc \in Fresh, pc' = "temp" => Free'
          PROVE  CountersAgree'
  BY <1>frame, <1>n, <1>h, <1>goal
\* A step that leaves the directory alone and refreshes the gauge.
<1>fresh. ASSUME UNCHANGED files, metrics' = Refreshed(metrics), Up, pc' # "temp"
          PROVE  CountersAgree'
  <2>1. /\ metrics' \in Metrics /\ metrics'.depth = Cardinality(files)
        /\ Sum' = Sum /\ Out' = Out
    BY <1>fresh, <1>n, RefreshedProperties, MetricsProperties DEF Refreshed
  <2> QED
    BY <1>fresh, <1>n, <1>h, <1>goal, <2>1
\* A step that removes one file and counts it.
<1>less. ASSUME NEW f \in files, files' = files \ {f}, Up, pc' \notin Fresh,
                \/ metrics' = [metrics EXCEPT !.dropped = @ + 1]
                \/ metrics' = [metrics EXCEPT !.exported = @ + 1]
         PROVE  CountersAgree'
  <2>1. metrics' \in Metrics /\ Sum' = Sum /\ Out' = Out + 1
    BY <1>less, <1>n, CountersMove, MetricsProperties
  <2>2. Cardinality(files)' = Cardinality(files) - 1 /\ Cardinality(files)' \in Nat
    BY <1>less, <1>n, FS_RemoveElement, FS_CardinalityType
  <2> QED
    BY <1>less, <1>n, <1>h, <1>goal, <2>1, <2>2
<1>1. ASSUME NEW b \in Boots, NEW c \in Configs, Start(b, c) PROVE CountersAgree'
  <2> DEFINE found == [NoMetrics EXCEPT !.base = Cardinality(files)]
  <2>1. found \in Metrics
    BY <1>n, NoMetricsType, MetricsProperties
  <2>2. /\ found.base = Cardinality(files) /\ found.recorded = 0
        /\ found.exported = 0 /\ found.dropped = 0
    BY DEF NoMetrics
  <2>3. metrics' = Refreshed(found) /\ files' = files /\ pc' = "step"
    BY <1>1 DEF Start
  <2> HIDE DEF found
  <2>4. metrics' \in Metrics
    BY <1>n, <2>1, <2>3, MetricsProperties DEF Refreshed
  <2>5. /\ metrics'.depth = Cardinality(files) /\ Sum' = Cardinality(files) /\ Out' = 0
    BY <1>n, <2>1, <2>2, <2>3, RefreshedProperties
  <2> QED
    BY <1>n, <1>goal, <2>3, <2>4, <2>5
<1>2. CASE Crash
  <2>1. files' = files /\ metrics' = NoMetrics /\ pc' = "down"
    BY <1>2 DEF Crash, Exit, disk
  <2> QED
    BY <1>n, <1>goal, <2>1, NoMetricsType DEF Up
<1>3. ASSUME NEW t \in 0..MaxEpoch, NEW s \in Sizes, NewEntry(t, s) PROVE CountersAgree'
  BY <1>3, <1>frame DEF NewEntry, disk, Up
<1>4. CASE StoreExisting
  BY <1>4, <1>frame DEF StoreExisting, disk, Up
<1>5. CASE StoreTempTaken
  <2>1. files' = files /\ metrics' = NoMetrics /\ pc' = "failed"
    BY <1>5 DEF StoreTempTaken, Exit, disk
  <2> QED
    BY <1>n, <1>goal, <2>1, NoMetricsType DEF Up
<1>6. CASE StoreTemp
  <2>1. UNCHANGED <<files, metrics, entry>> /\ Free /\ pc = "store" /\ pc' = "temp"
    BY <1>6 DEF StoreTemp
  <2> QED
    BY <1>frame, <2>1 DEF Up
<1>7. CASE Rename
  <2>1. /\ pc = "temp" /\ pc' = "limit" /\ files' = files \cup {entry}
        /\ metrics' = [metrics EXCEPT !.recorded = @ + 1]
    BY <1>7 DEF Rename
  <2>2. entry \notin files
    BY <1>h, <2>1 DEF SameName
  <2>3. Cardinality(files)' = Cardinality(files) + 1
    BY <1>n, <2>1, <2>2, FS_AddElement
  <2>4. metrics' \in Metrics /\ Sum' = Sum + 1 /\ Out' = Out
    BY <1>n, <2>1, CountersMove, MetricsProperties
  <2> QED
    BY <1>n, <1>h, <1>goal, <2>1, <2>3, <2>4 DEF Up
<1>8. ASSUME NEW f \in files, LimitDrop(f) PROVE CountersAgree'
  BY <1>8, <1>less DEF LimitDrop, Up
<1>9. CASE LimitDone
  BY <1>9, <1>fresh DEF LimitDone, disk, Up
<1>10. CASE JournalDigits
  BY <1>10, <1>frame DEF JournalDigits, Up
<1>11. CASE JournalNewline
  BY <1>11, <1>frame DEF JournalNewline, Up
<1>12. CASE StepEnd
  BY <1>12, <1>frame DEF StepEnd, disk, Up
<1>13. CASE DrainEnd
  BY <1>13, <1>fresh DEF DrainEnd, disk, Up
<1>14. ASSUME NEW f \in files, Quarantine(f) PROVE CountersAgree'
  BY <1>14, <1>less DEF Quarantine, Up
<1>15. ASSUME NEW f \in files, DrainRead(f) PROVE CountersAgree'
  BY <1>15, <1>frame DEF DrainRead, disk, Up
<1>16. CASE Remove
  <2>1. entry \in files
    BY <1>16 DEF Remove, DrainProgress, Draining, Oldest, OldestOf
  <2> QED
    BY <1>16, <1>less, <2>1 DEF Remove, Up
<1>17. ASSUME NEW x \in Exporters, ExportOk(x) PROVE CountersAgree'
  BY <1>17, <1>frame DEF ExportOk, disk, Up
<1>18. ASSUME NEW x \in Exporters, NEW d \in BOOLEAN, ExportFail(x, d) PROVE CountersAgree'
  BY <1>18, <1>fresh DEF ExportFail, disk, Up
<1>19. ASSUME NEW f \in files, Damage(f) PROVE CountersAgree'
  <2>1. UNCHANGED <<files, metrics, entry, pc>>
    BY <1>19 DEF Damage
  <2> QED
    BY <1>h, <1>frame, <2>1 DEF Up
<1>20. CASE UNCHANGED vars
  <2>1. UNCHANGED <<files, metrics, entry, pc>>
    BY <1>20 DEF vars
  <2> QED
    BY <1>h, <1>frame, <2>1 DEF Up
<1> QED
  BY <1>1, <1>2, <1>3, <1>4, <1>5, <1>6, <1>7, <1>8, <1>9, <1>10, <1>11, <1>12, <1>13,
     <1>14, <1>15, <1>16, <1>17, <1>18, <1>19, <1>20
     DEF Next, Agent, Boot, Store, Drain, Export

----------------------------------------------------------------------------
(* DrainListing *)

LEMMA DrainListingInit == Init => DrainListing
BY DEF Init, DrainListing, Draining

LEMMA DrainListingStep ==
  TypeOK /\ DrainProgress /\ DrainListing /\ [Next]_vars => DrainListing'
<1> SUFFICES ASSUME TypeOK, DrainProgress, DrainListing, [Next]_vars PROVE DrainListing'
  OBVIOUS
<1> USE DEF DrainListing, Draining
<1>1. ASSUME NEW b \in Boots, NEW c \in Configs, Start(b, c) PROVE DrainListing'
  BY <1>1 DEF Start, Up
<1>2. CASE Crash \/ StoreTempTaken
  BY <1>2 DEF Crash, StoreTempTaken, Exit
<1>3. ASSUME NEW t \in 0..MaxEpoch, NEW s \in Sizes, NewEntry(t, s) PROVE DrainListing'
  BY <1>3 DEF NewEntry
<1>4. CASE StoreExisting \/ StoreTemp \/ Rename \/ LimitDone \/ JournalDigits \/ JournalNewline
  BY <1>4 DEF StoreExisting, StoreTemp, Rename, LimitDone, JournalDigits, JournalNewline, process
<1>5. ASSUME NEW f \in files, LimitDrop(f) PROVE DrainListing'
  BY <1>5 DEF LimitDrop, process
<1>6. CASE StepEnd
  BY <1>6 DEF StepEnd, disk
<1>7. CASE DrainEnd
  BY <1>7 DEF DrainEnd
<1>8. ASSUME NEW f \in files, Quarantine(f) PROVE DrainListing'
  BY <1>8 DEF Quarantine
<1>9. ASSUME NEW f \in files, DrainRead(f) PROVE DrainListing'
  BY <1>9 DEF DrainRead, disk
<1>10. CASE Remove
  BY <1>10 DEF Remove, process
<1>11. ASSUME NEW x \in Exporters, ExportOk(x) PROVE DrainListing'
  BY <1>11 DEF ExportOk, disk, process
<1>12. ASSUME NEW x \in Exporters, NEW d \in BOOLEAN, ExportFail(x, d) PROVE DrainListing'
  BY <1>12 DEF ExportFail
<1>13. ASSUME NEW f \in files, Damage(f) PROVE DrainListing'
  BY <1>13 DEF Damage, process
<1>14. CASE UNCHANGED vars
  BY <1>14 DEF vars
<1> QED
  BY <1>1, <1>2, <1>3, <1>4, <1>5, <1>6, <1>7, <1>8, <1>9, <1>10, <1>11, <1>12, <1>13, <1>14
     DEF Next, Agent, Boot, Store, Drain, Export

----------------------------------------------------------------------------
(* Results *)

LEMMA InvariantInit == Init => IInv
BY TypeInit, EventOrderInit, SeqOrderInit, JournalCoversInit, DrainProgressInit, DrainListingInit,
   NameOrderInit, CountersAgreeInit
   DEF IInv

LEMMA InvariantStep == IInv /\ [Next]_vars => IInv'
BY TypeStep, EventOrderStep, SeqOrderStep, JournalCoversStep, DrainProgressStep, DrainListingStep,
   NameOrderStep, CountersAgreeStep
   DEF IInv

\* The conjuncts of IInv hold together in every reachable state.
THEOREM Invariance == Spec => []IInv
BY InvariantInit, InvariantStep, PTL DEF Spec

\* A restart never reuses a sequence that is still in the spool.
THEOREM RestartFreshHolds == Spec => []RestartFresh
<1>1. IInv => RestartFresh
  BY DEF IInv, SeqOrder
<1> QED
  BY <1>1, Invariance, PTL

\* No two readable pending events of a boot share a sequence.
THEOREM UniquePendingHolds == Spec => []UniquePending
<1>1. IInv => UniquePending
  BY DEF IInv, SeqOrder
<1> QED
  BY <1>1, Invariance, PTL

\* store() never takes the readable file of another event for its own.
THEOREM NothingSwallowedHolds == Spec => []NothingSwallowed
<1>1. IInv => NothingSwallowed
  <2> SUFFICES ASSUME IInv, pc = "store", NEW f \in Intact, SameName(f, entry)
               PROVE FALSE
    BY DEF NothingSwallowed
  <2>1. f.seq < entry.seq /\ f.seq = entry.seq
    BY DEF IInv, SeqOrder, Storing, SameName
  <2>2. f.seq \in Nat
    BY DEF IInv, TypeOK, Entry, Intact
  <2> QED
    BY <2>1, <2>2
<1> QED
  BY <1>1, Invariance, PTL

\* A journalled sequence is never given to a later event of its boot, as long as
\* no journal line outgrew u64.
THEOREM AckedNeverReusedHolds == Spec => []AckedNeverReused
<1>1. IInv => AckedNeverReused
  BY DEF IInv, JournalCovers
<1> QED
  BY <1>1, Invariance, PTL

\* No recorded event is lost: it is pending, shed or was delivered.
THEOREM AccountedHolds == Spec => []Accounted
<1>1. IInv => Accounted
  BY DEF IInv, DrainProgress
<1> QED
  BY <1>1, Invariance, PTL

\* The counters balance with the directory, and the depth gauge shows it between
\* two operations.
THEOREM ConservationHolds == Spec => []Conservation
<1>1. IInv => Conservation
  BY DEF IInv, CountersAgree
<1> QED
  BY <1>1, Invariance, PTL

\* A drain ends with nothing left, or with the file whose export failed as the oldest
\* that is left: no other file stops it, whether it parses or not.
THEOREM DrainIsThoroughHolds == Spec => DrainIsThorough
<1> DEFINE Thorough == (pc = "drain" \/ pc = "export") /\ pc' = "step" /\ exporters # <<>> =>
                         \A g \in files' : pc = "export" /\ ~ NameBefore(g, entry)
<1>1. ASSUME IInv, [Next]_vars PROVE [Thorough]_vars
  <2> SUFFICES ASSUME pc = "drain" \/ pc = "export", pc' = "step", exporters # <<>>,
                      NEW g \in files'
               PROVE  pc = "export" /\ ~ NameBefore(g, entry)
    OBVIOUS
  <2>1. DrainEnd \/ \E x \in Exporters, d \in BOOLEAN : ExportFail(x, d)
    BY <1>1 DEF Next, Agent, Boot, Store, Drain, Export, Start, Crash, NewEntry, StoreExisting,
       StoreTempTaken, Exit, StoreTemp, Rename, LimitDrop, LimitDone, JournalDigits, JournalNewline,
       StepEnd, Quarantine, DrainRead, ExportOk, Remove, Damage, vars, Up
  <2>2. files' = files
    BY <2>1 DEF DrainEnd, ExportFail, disk
  <2>3. CASE DrainEnd
    <3>1. listing = {} /\ listing = files
      BY <1>1, <2>3 DEF DrainEnd, IInv, DrainListing
    <3> QED
      BY <2>2, <3>1
  <2>4. ASSUME NEW x \in Exporters, NEW d \in BOOLEAN, ExportFail(x, d)
        PROVE  pc = "export" /\ ~ NameBefore(g, entry)
    <3>1. pc = "export" /\ Oldest(entry)
      BY <1>1, <2>4 DEF ExportFail, IInv, DrainProgress, Draining
    <3> QED
      BY <2>2, <3>1 DEF Oldest, OldestOf
  <2> QED
    BY <2>1, <2>3, <2>4
<1> QED
  BY <1>1, Invariance, PTL DEF Spec, DrainIsThorough

\* With a clock that never steps back, exports and the limit take the readable
\* events of a boot in the order they were recorded.
THEOREM OldestFirstHolds == ASSUME SteadyClock PROVE Spec => OldestFirst
<1> DEFINE Kept == \A f \in Intact : f \notin files' =>
                     \A g \in Intact : g \in files' /\ g.boot = f.boot => f.ev <= g.ev
<1>1. ASSUME IInv, [Next]_vars PROVE [Kept]_vars
  <2> SUFFICES ASSUME NEW f \in Intact, f \notin files',
                      NEW g \in Intact, g \in files', g.boot = f.boot, ~ f.ev <= g.ev
               PROVE FALSE
    OBVIOUS
  <2>1. f \in files /\ g \in files /\ f.ev \in Nat /\ g.ev \in Nat
    BY <1>1 DEF Intact, IInv, TypeOK, Entry
  <2>2. g.epoch <= f.epoch /\ g.seq < f.seq
    BY <1>1, <2>1 DEF IInv, NameOrder
  <2>3. /\ g.epoch \in Nat /\ f.epoch \in Nat
    BY <1>1, <2>1 DEF IInv, TypeOK, Entry
  <2>4. NameBefore(g, f)
    BY <2>2, <2>3 DEF NameBefore
  <2>5. ~ Oldest(f)
    BY <2>1, <2>4 DEF Oldest, OldestOf
  <2>6. CASE Remove
    BY <1>1, <2>1, <2>5, <2>6 DEF Remove, IInv, DrainProgress, Draining
  <2>7. ASSUME NEW h \in files, LimitDrop(h) PROVE FALSE
    BY <2>1, <2>5, <2>7 DEF LimitDrop
  <2>8. ASSUME NEW h \in files, Quarantine(h) PROVE FALSE
    BY <1>1, <2>1, <2>5, <2>8, ListedOldest DEF Quarantine, IInv
  <2>9. \/ Remove
        \/ \E h \in files : LimitDrop(h) \/ Quarantine(h)
        \/ files \subseteq files'
    BY <1>1 DEF Next, Agent, Boot, Store, Drain, Export, Start, Crash, NewEntry, StoreExisting,
         StoreTempTaken, Exit, StoreTemp, Rename, LimitDone, JournalDigits, JournalNewline, StepEnd,
         DrainEnd, DrainRead, ExportOk, ExportFail, Damage, vars, disk
  <2> QED
    BY <2>1, <2>6, <2>7, <2>8, <2>9
<1> QED
  BY <1>1, Invariance, PTL DEF Spec, OldestFirst

----------------------------------------------------------------------------
(* What it takes to fail for ever: a temporary file under a name that is used     *)
(* again                                                                          *)

\* A running process meets no temporary file but its own, all of an earlier number.
TempsOwn ==
  /\ pc # "failed"
  /\ Up => \A t \in temps : t[2] < tempId

\* Without a pid that comes back create_new never meets a name in use: the agent
\* stops for kills only, and what AgentRecovers asks for cannot fail that way.
THEOREM NoNameTaken == ASSUME ~ PidReuse PROVE Spec => [](pc # "failed")
<1>1. Init => TempsOwn
  BY DEF Init, TempsOwn, Up
<1>2. IInv /\ TempsOwn /\ [Next]_vars => TempsOwn'
  <2> SUFFICES ASSUME IInv, TempsOwn, [Next]_vars PROVE TempsOwn'
    OBVIOUS
  <2> USE DEF TempsOwn, Up
  <2>0. TypeOK
    BY DEF IInv
  <2>1. ASSUME NEW b \in Boots, NEW c \in Configs, Start(b, c) PROVE TempsOwn'
    BY <2>1 DEF Start, Leftovers
  <2>2. CASE Crash
    BY <2>2 DEF Crash, Exit
  <2>3. CASE StoreTempTaken
    <3>1. <<entry.seq, tempId>>[2] < tempId
      BY <2>3 DEF StoreTempTaken
    <3> QED
      BY <2>0, <3>1 DEF TypeOK
  <2>4. CASE StoreTemp
    <3>1. temps' = temps \cup {<<entry.seq, tempId>>} /\ tempId' = tempId + 1 /\ pc = "store"
          /\ pc' = "temp"
      BY <2>4 DEF StoreTemp
    <3>2. tempId \in Nat /\ \A t \in temps : t[2] \in Nat
      BY <2>0 DEF TypeOK
    <3> QED
      BY <3>1, <3>2
  <2>5. CASE Rename
    BY <2>5 DEF Rename
  <2>6. ASSUME NEW t \in 0..MaxEpoch, NEW s \in Sizes, NewEntry(t, s) PROVE TempsOwn'
    BY <2>6 DEF NewEntry, disk
  <2>7. CASE StoreExisting \/ LimitDone \/ JournalDigits \/ JournalNewline \/ StepEnd \/ DrainEnd \/ Remove
    BY <2>7 DEF StoreExisting, LimitDone, JournalDigits, JournalNewline, StepEnd, DrainEnd, Remove,
                disk
  <2>8. ASSUME NEW f \in files, LimitDrop(f) \/ Quarantine(f) \/ DrainRead(f) \/ Damage(f)
        PROVE TempsOwn'
    BY <2>8 DEF LimitDrop, Quarantine, DrainRead, Damage, disk
  <2>9. ASSUME NEW x \in Exporters, NEW d \in BOOLEAN, ExportOk(x) \/ ExportFail(x, d)
        PROVE TempsOwn'
    BY <2>9 DEF ExportOk, ExportFail, disk
  <2>10. CASE UNCHANGED vars
    BY <2>10 DEF vars
  <2> QED
    BY <2>1, <2>2, <2>3, <2>4, <2>5, <2>6, <2>7, <2>8, <2>9, <2>10
       DEF Next, Agent, Boot, Store, Drain, Export
<1>3. TempsOwn => pc # "failed"
  BY DEF TempsOwn
<1> QED
  BY <1>1, <1>2, <1>3, Invariance, PTL DEF Spec

----------------------------------------------------------------------------
(* What it takes to reuse a sequence: a kill between an event's rename and the end *)
(* of its journal line                                                            *)

\* An event that is renamed into place is journalled before the process ends.
Journalled == Stored => Up'

\* While that is so the journal alone remembers every sequence in use.
JournalComplete ==
  /\ \A b \in Boots :
       /\ journal[b].tail = IF pc = "newline" /\ b = boot THEN entry.seq ELSE 0
       /\ journal[b].top < U64Max
  /\ Storing \/ Stored => entry.seq < U64Max
  /\ \A i \in issued :
       /\ i.seq < U64Max
       /\ i.seq <= journal[i.boot].top \/ (Stored /\ i = Identity(entry))
       /\ i.boot = boot => (Up => i.seq < nextSeq) /\ (Storing => i.seq < entry.seq)
  /\ SequenceNamesEvent

\* The next number of a start lies above all that the journal covers.
LEMMA StartFresh ==
  ASSUME IInv, JournalComplete, NEW b \in Boots, NEW c \in Configs, Start(b, c)
  PROVE  \A i \in issued : i.boot = b => i.seq < nextSeq'
<1>0. TypeOK /\ EventOrder /\ U64Max \in Nat \ {0}
  BY U64Assumption DEF IInv
<1>1. PICK h \in Remembered(b) : IsHighest(h, Remembered(b)) /\ nextSeq' = NextSequence(h)
  BY DEF Start
<1>2. h \in Nat /\ journal[b].top \in Nat /\ journal[b].tail = 0
  BY <1>0, <1>1, RememberedIsNat DEF JournalComplete, TypeOK, Journal, Start, Up
<1>3. h < U64Max
  <2>1. \A f \in Intact : f.seq < U64Max
    <3> SUFFICES ASSUME NEW f \in Intact PROVE f.seq < U64Max
      OBVIOUS
    <3>1. Identity(f) \in issued
      BY <1>0 DEF EventOrder, Intact
    <3>2. Identity(f).seq < U64Max
      BY <3>1 DEF JournalComplete
    <3> QED
      BY <3>2 DEF Identity
  <2>2. journal[b].top < U64Max /\ 0 < U64Max
    BY <1>0 DEF JournalComplete
  <2>3. h = 0 \/ h = journal[b].top \/ h = Parsed(0) \/ \E f \in Intact : h = f.seq
    BY <1>1, <1>2 DEF Remembered
  <2> QED
    BY <1>0, <2>1, <2>2, <2>3 DEF Parsed
<1>4. nextSeq' = h + 1
  BY <1>1, <1>3 DEF NextSequence
<1>5. journal[b].top <= h
  BY <1>1 DEF IsHighest, Remembered
<1>6. ASSUME NEW i \in issued, i.boot = b PROVE i.seq < nextSeq'
  <2>1. i.seq <= journal[b].top /\ i.seq \in Nat
    BY <1>0, <1>6 DEF JournalComplete, Start, Stored, Up, TypeOK
  <2> QED
    BY <1>2, <1>4, <1>5, <2>1
<1> QED
  BY <1>6

LEMMA JournalCompleteStep ==
  IInv /\ JournalComplete /\ [Next]_vars /\ [Journalled]_vars => JournalComplete'
<1> SUFFICES ASSUME IInv, JournalComplete, [Next]_vars, [Journalled]_vars PROVE JournalComplete'
  OBVIOUS
<1> USE DEF JournalComplete, Storing, Stored, Up, SequenceNamesEvent
<1>0. TypeOK /\ EventOrder /\ SeqOrder /\ U64Max \in Nat /\ nextSeq \in Nat
  BY U64Assumption DEF IInv, TypeOK
\* Steps that touch neither the journal nor the events nor the numbers.
<1>f. ASSUME UNCHANGED <<journal, issued, boot, nextSeq>>,
             \/ UNCHANGED <<pc, entry>>
             \/ /\ pc \notin {"store", "temp", "limit", "journal", "newline"}
                /\ pc' \notin {"store", "temp", "limit", "journal", "newline"}
                /\ Up' => Up
             \/ pc \in {"store", "temp"} /\ pc' = "temp" /\ UNCHANGED entry
             \/ pc \in {"limit"} /\ pc' = "journal" /\ UNCHANGED entry
      PROVE JournalComplete'
  BY <1>f
<1>1. ASSUME NEW b \in Boots, NEW c \in Configs, Start(b, c) PROVE JournalComplete'
  <2>1. \A i \in issued : i.boot = b => i.seq < nextSeq'
    BY <1>1, StartFresh
  <2>2. UNCHANGED <<journal, issued>> /\ boot' = b /\ pc' = "step" /\ ~ Up
    BY <1>1 DEF Start, history
  <2> QED
    BY <2>1, <2>2
<1>2. CASE Crash
  <2>1. ~ Stored /\ UNCHANGED <<journal, issued, boot>> /\ pc' = "down"
    BY <1>2 DEF Crash, Exit, disk, history, Journalled, vars
  <2> QED
    BY <2>1
<1>3. ASSUME NEW t \in 0..MaxEpoch, NEW s \in Sizes, NewEntry(t, s) PROVE JournalComplete'
  <2>1. /\ entry'.seq = nextSeq /\ nextSeq < U64Max /\ nextSeq' = nextSeq + 1
        /\ UNCHANGED <<journal, issued, boot>> /\ pc = "step" /\ pc' = "store"
    BY <1>3 DEF NewEntry, disk, history
  <2>2. \A i \in issued : i.seq \in Nat
    BY <1>0 DEF TypeOK
  <2> QED
    BY <1>0, <2>1, <2>2
<1>4. CASE StoreExisting
  <2>1. UNCHANGED <<journal, issued, boot, nextSeq, entry>> /\ pc = "store" /\ pc' = "journal"
    BY <1>4 DEF StoreExisting, disk, process
  <2> QED
    BY <2>1
<1>5. CASE StoreTempTaken
  <2>1. UNCHANGED <<journal, issued, boot>> /\ pc = "store" /\ pc' = "failed"
    BY <1>5 DEF StoreTempTaken, Exit, disk, history
  <2> QED
    BY <2>1
<1>6. CASE StoreTemp
  BY <1>6, <1>f DEF StoreTemp, process, history
<1>7. CASE Rename
  <2>1. /\ issued' = issued \cup {Identity(entry)} /\ pc = "temp" /\ pc' = "limit"
        /\ UNCHANGED <<journal, boot, nextSeq, entry>>
    BY <1>7 DEF Rename, process
  <2>2. Identity(entry).seq = entry.seq /\ Identity(entry).boot = boot /\ entry.seq < nextSeq
    BY <1>0, <2>1 DEF SeqOrder, Identity
  <2>3. entry.seq \in Nat
    BY <1>0, <2>1 DEF TypeOK, Entry
  <2>4. \A i \in issued : i.boot = boot => i.seq # entry.seq
    BY <1>0, <2>1, <2>3 DEF TypeOK
  <2> QED
    BY <2>1, <2>2, <2>4
<1>8. ASSUME NEW f \in files, LimitDrop(f) PROVE JournalComplete'
  BY <1>8, <1>f DEF LimitDrop, process
<1>9. CASE LimitDone
  BY <1>9, <1>f DEF LimitDone, disk, process, history
<1>10. CASE JournalDigits
  <2>1. PICK p \in PowersOfTen :
          journal' = [journal EXCEPT ![boot].tail = Appended(journal[boot].tail, entry.seq, p)]
    BY <1>10 DEF JournalDigits
  <2>2. /\ pc = "journal" /\ pc' = "newline" /\ UNCHANGED <<issued, boot, nextSeq, entry>>
        /\ boot \in Boots /\ entry.seq \in Nat /\ entry.seq < U64Max /\ journal[boot].tail = 0
    BY <1>0, <1>10 DEF JournalDigits, process, history, TypeOK, Entry
  <2>3. Appended(0, entry.seq, p) = entry.seq
    <3>1. 0 * p + entry.seq = entry.seq
      BY <2>2, U64Assumption
    <3> QED
      BY <1>0, <2>2, <3>1 DEF Appended
  <2>4. \A b \in Boots : /\ journal'[b].top = journal[b].top
                         /\ journal'[b].tail = IF b = boot THEN entry.seq ELSE journal[b].tail
    BY <1>0, <2>1, <2>2, <2>3 DEF TypeOK, Journal
  <2>5. \A i \in issued : i.boot \in Boots
    BY <1>0 DEF TypeOK
  <2> QED
    BY <2>2, <2>4, <2>5
<1>11. CASE JournalNewline
  <2>1. /\ pc = "newline" /\ pc' = "step" /\ UNCHANGED <<issued, boot, nextSeq>>
        /\ journal' = [journal EXCEPT ![boot] = CloseLine(journal[boot])]
        /\ boot \in Boots /\ entry.seq \in Nat /\ entry.seq < U64Max
        /\ journal[boot].tail = entry.seq /\ journal[boot] \in Journal
    BY <1>0, <1>11 DEF JournalNewline, process, TypeOK, Entry
  <2>2. /\ CloseLine(journal[boot]).tail = 0
        /\ CloseLine(journal[boot]).top < U64Max
        /\ journal[boot].top <= CloseLine(journal[boot]).top
        /\ entry.seq <= CloseLine(journal[boot]).top
    BY <1>0, <2>1 DEF CloseLine, Journal
  <2>3. \A b \in Boots : journal'[b] = IF b = boot THEN CloseLine(journal[boot]) ELSE journal[b]
    BY <1>0, <2>1 DEF TypeOK
  <2>4. \A i \in issued : i.boot \in Boots /\ i.seq \in Nat
    BY <1>0 DEF TypeOK
  <2>5. ASSUME NEW i \in issued PROVE i.seq <= journal'[i.boot].top
    <3>1. CASE i = Identity(entry)
      <4>1. i.boot = boot /\ i.seq = entry.seq
        BY <1>0, <2>1, <3>1 DEF Identity, SeqOrder
      <4> QED
        BY <2>1, <2>2, <2>3, <4>1
    <3>2. CASE i.seq <= journal[i.boot].top
      <4>1. journal[i.boot].top \in Nat /\ CloseLine(journal[boot]).top \in Nat
        BY <1>0, <2>1, <2>4, CloseLineProperties DEF TypeOK, Journal
      <4> QED
        BY <2>2, <2>3, <2>4, <3>2, <4>1
    <3> QED
      BY <3>1, <3>2
  <2> QED
    BY <2>1, <2>2, <2>3, <2>5
<1>12. CASE StepEnd \/ DrainEnd
  BY <1>12, <1>f DEF StepEnd, DrainEnd, disk, process, history
<1>13. ASSUME NEW f \in files, Quarantine(f) \/ DrainRead(f) PROVE JournalComplete'
  BY <1>13, <1>f DEF Quarantine, DrainRead, disk, process, history
<1>14. CASE Remove
  BY <1>14, <1>f DEF Remove, process, history
<1>15. ASSUME NEW x \in Exporters, NEW d \in BOOLEAN, ExportOk(x) \/ ExportFail(x, d)
       PROVE JournalComplete'
  BY <1>15, <1>f DEF ExportOk, ExportFail, disk, process
<1>16. ASSUME NEW f \in files, Damage(f) PROVE JournalComplete'
  BY <1>16, <1>f DEF Damage, process
<1>17. CASE UNCHANGED vars
  BY <1>17, <1>f DEF vars
<1> QED
  BY <1>1, <1>2, <1>3, <1>4, <1>5, <1>6, <1>7, <1>8, <1>9, <1>10, <1>11, <1>12, <1>13, <1>14,
     <1>15, <1>16, <1>17 DEF Next, Agent, Boot, Store, Drain, Export

\* The reading of a repeated sequence as the same event is right as long as no kill
\* falls between an event's rename and the end of its journal line: no other kill, no
\* damage and no removal makes two events share one.
THEOREM SequenceNamesEventIfJournalled == Spec /\ [][Journalled]_vars => []SequenceNamesEvent
<1>1. Init => JournalComplete
  BY U64Assumption DEF Init, JournalComplete, EmptyJournal, Storing, Stored, SequenceNamesEvent
<1>2. JournalComplete => SequenceNamesEvent
  BY DEF JournalComplete
<1> QED
  BY <1>1, <1>2, JournalCompleteStep, Invariance, PTL DEF Spec

----------------------------------------------------------------------------
(* The loops of drain and of enforce_limit end *)

Passing == pc \in {"drain", "export", "remove"}

\* How far the drain has come with the file in hand.
Place == CASE pc = "drain" -> 0 [] pc = "export" -> xi [] OTHER -> Len(exporters) + 1

Fewer == Cardinality(files') < Cardinality(files)

\* Every step within a drain leaves fewer files, or takes the one in hand further, and
\* there are only the calls to the exporters and the removal to come; every turn of
\* enforce_limit leaves fewer files.
LoopsAdvance ==
  [][/\ Passing /\ Passing' =>
          Fewer \/ (files' = files /\ Place' > Place /\ Place' <= Len(exporters) + 1)
     /\ pc = "limit" /\ pc' = "limit" => Fewer]_<<files, pc, xi>>

LEMMA OneFewer ==
  ASSUME TypeOK, NEW f \in files, files' = files \ {f}
  PROVE  Fewer
<1>1. IsFiniteSet(files) /\ Cardinality(files) \in Nat
  BY FS_CardinalityType DEF TypeOK
<1>2. Cardinality(files') = Cardinality(files) - 1
  BY <1>1, FS_RemoveElement
<1> QED
  BY <1>1, <1>2 DEF Fewer

LEMMA LoopStep ==
  ASSUME IInv, Next, ~ UNCHANGED <<files, pc, xi>>
  PROVE  /\ Passing /\ Passing' =>
               Fewer \/ (files' = files /\ Place' > Place /\ Place' <= Len(exporters) + 1)
         /\ pc = "limit" /\ pc' = "limit" => Fewer
<1> DEFINE Goal == /\ Passing /\ Passing' =>
                        Fewer \/ (files' = files /\ Place' > Place /\ Place' <= Len(exporters) + 1)
                   /\ pc = "limit" /\ pc' = "limit" => Fewer
<1>0. /\ TypeOK /\ DrainProgress /\ Len(exporters) \in Nat /\ xi \in Nat \ {0}
  BY DEF IInv, TypeOK
<1>1. ASSUME NEW f \in files, LimitDrop(f) \/ Quarantine(f) PROVE Goal
  BY <1>0, <1>1, OneFewer DEF LimitDrop, Quarantine
<1>2. CASE Remove
  <2>1. entry \in files
    BY <1>0, <1>2 DEF Remove, DrainProgress, Draining, Oldest, OldestOf
  <2> QED
    BY <1>0, <1>2, <2>1, OneFewer DEF Remove
<1>3. ASSUME NEW f \in files, DrainRead(f) PROVE Goal
  <2>1. /\ pc = "drain" /\ pc' = "export" /\ xi' = 1 /\ files' = files /\ exporters' = exporters
        /\ exporters # <<>>
    BY <1>3 DEF DrainRead, disk, process
  <2>2. Place = 0 /\ Place' = 1
    BY <2>1 DEF Place
  <2> QED
    BY <1>0, <2>1, <2>2
<1>4. ASSUME NEW x \in Exporters, ExportOk(x) PROVE Goal
  <2>1. /\ pc = "export" /\ xi' = xi + 1 /\ files' = files /\ exporters' = exporters
        /\ xi <= Len(exporters) /\ pc' = IF xi = Len(exporters) THEN "remove" ELSE "export"
    BY <1>0, <1>4 DEF ExportOk, LastExporter, DrainProgress, disk, process
  <2>2. Place = xi
    BY <2>1 DEF Place
  <2>3. Place' = xi + 1
    BY <1>0, <2>1 DEF Place
  <2> QED
    BY <1>0, <2>1, <2>2, <2>3
<1>5. ASSUME NEW x \in Exporters, NEW d \in BOOLEAN, ExportFail(x, d) PROVE Goal
  BY <1>5 DEF ExportFail, Passing
<1>6. ASSUME NEW b \in Boots, NEW c \in Configs, Start(b, c) PROVE Goal
  BY <1>6 DEF Start, Passing, Up
<1>7. CASE Crash \/ StoreTempTaken
  BY <1>7 DEF Crash, StoreTempTaken, Exit, Passing
<1>8. ASSUME NEW t \in 0..MaxEpoch, NEW s \in Sizes, NewEntry(t, s) PROVE Goal
  BY <1>8 DEF NewEntry, Passing
<1>9. CASE StoreExisting \/ StoreTemp \/ Rename \/ LimitDone \/ JournalDigits \/ JournalNewline
           \/ StepEnd \/ DrainEnd
  BY <1>9 DEF StoreExisting, StoreTemp, Rename, LimitDone, JournalDigits, JournalNewline, StepEnd,
              DrainEnd, Passing
<1>10. ASSUME NEW f \in files, Damage(f) PROVE Goal
  BY <1>10 DEF Damage
<1> QED
  BY <1>1, <1>2, <1>3, <1>4, <1>5, <1>6, <1>7, <1>8, <1>9, <1>10
     DEF Next, Agent, Boot, Store, Drain, Export

\* A drain takes at most one step more per file than there are calls and the removal,
\* and enforce_limit one turn per file, whatever the medium damages meanwhile: the safety half of
\* the spool getting back to its loop.
THEOREM LoopsEnd == Spec => LoopsAdvance
<1>1. IInv /\ [Next]_vars =>
        [/\ Passing /\ Passing' =>
              Fewer \/ (files' = files /\ Place' > Place /\ Place' <= Len(exporters) + 1)
         /\ pc = "limit" /\ pc' = "limit" => Fewer]_<<files, pc, xi>>
  BY LoopStep DEF vars
<1> QED
  BY <1>1, Invariance, PTL DEF Spec, LoopsAdvance
----------------------------------------------------------------------------
(* What it takes to deliver an event twice to the same exporter: a drain that is cut *)
(* short after some exporter has had the event in hand                             *)

\* The drain lets go of an event that an exporter has had: it is killed after the
\* first acknowledgement and before the removal, a call fails that delivered, or
\* one that came after another exporter's Ok.
CutShort ==
  \/ Crash /\ (pc = "remove" \/ (pc = "export" /\ xi > 1))
  \/ \E x \in Exporters : ExportFail(x, TRUE) \/ (xi > 1 /\ ExportFail(x, FALSE))

\* The exporters that have acknowledged the file in hand.
Served ==
  CASE pc = "export" -> {exporters[k] : k \in 1..(xi - 1)}
    [] pc = "remove" -> {exporters[k] : k \in 1..Len(exporters)}
    [] OTHER -> {}

\* While no drain is cut short: nothing on disk was received, but for the file in
\* hand, by those that acknowledged it.
ReceivedOnce ==
  /\ \A x \in Exporters : received[x] \subseteq 1..created
  /\ \A f \in files, x \in Exporters : f.ev \in received[x] => f = entry /\ x \in Served
  /\ \A f, g \in files : f.ev = g.ev => f = g
  /\ \A k, m \in 1..Len(exporters) : exporters[k] = exporters[m] => k = m

LEMMA ReceivedOnceStep == IInv /\ ReceivedOnce /\ [Next]_vars /\ [~ CutShort]_vars => ReceivedOnce'
<1> SUFFICES ASSUME IInv, ReceivedOnce, [Next]_vars, [~ CutShort]_vars PROVE ReceivedOnce'
  OBVIOUS
<1> USE DEF ReceivedOnce
<1>0. TypeOK /\ EventOrder /\ DrainProgress
  BY DEF IInv
<1>a. \A f \in files : f.ev \in 1..created
  <2> SUFFICES ASSUME NEW f \in files PROVE f.ev \in 1..created
    OBVIOUS
  <2>1. Identity(f).ev \in 1..created
    BY <1>0 DEF EventOrder
  <2> QED
    BY <2>1 DEF Identity
\* Outside a drain nobody is served.
<1>b. pc \notin {"export", "remove"} => Served = {}
  BY DEF Served
\* A step that takes nothing up and hands nothing over only removes files.
<1>c. ASSUME files' \subseteq files, received' = received, created' = created,
             exporters' = exporters, Served = {}
      PROVE  ReceivedOnce'
  BY <1>c
<1>1. ASSUME NEW b \in Boots, NEW c \in Configs, Start(b, c) PROVE ReceivedOnce'
  <2>1. /\ Served = {} /\ files' = files /\ received' = received /\ created' = created
        /\ exporters' = c
    BY <1>1, <1>b DEF Start, Up, history
  <2>2. \A k, m \in 1..Len(exporters') : exporters'[k] = exporters'[m] => k = m
    BY <2>1, ConfigsAssumption
  <2> QED
    BY <2>1, <2>2
<1>2. CASE Crash
  <2>1. /\ files' = files /\ received' = received /\ created' = created /\ exporters' = <<>>
    BY <1>2 DEF Crash, Exit, disk, history
  <2>2. pc # "remove" /\ ~ (pc = "export" /\ xi > 1)
    BY <1>2 DEF CutShort, Crash, Exit, Up, vars
  <2>3. Served = {}
    BY <1>0, <1>b, <2>2 DEF Served, TypeOK
  <2> QED
    BY <2>1, <2>3
<1>3. CASE StoreTempTaken
  BY <1>3, <1>b DEF StoreTempTaken, Exit, disk, history
<1>4. CASE Rename
  <2>1. /\ Served = {} /\ entry.ev = created + 1 /\ created' = entry.ev /\ created \in Nat
        /\ files' = files \cup {entry} /\ received' = received /\ exporters' = exporters
    BY <1>0, <1>4, <1>b DEF Rename, EventOrder, Storing, TypeOK, process
  <2>2. \A f \in files : f.ev # entry.ev
    BY <1>a, <2>1
  <2>3. \A x \in Exporters : received'[x] \subseteq 1..created' /\ entry.ev \notin received'[x]
    BY <2>1
  <2> QED
    BY <2>1, <2>2, <2>3
<1>5. CASE StoreExisting
  <2>1. /\ Served = {} /\ entry.ev = created + 1 /\ created' = entry.ev /\ created \in Nat
        /\ files' = files /\ received' = received /\ exporters' = exporters
    BY <1>0, <1>5, <1>b DEF StoreExisting, EventOrder, Storing, TypeOK, process, disk
  <2>2. \A x \in Exporters : received'[x] \subseteq 1..created'
    BY <2>1
  <2> QED
    BY <2>1, <2>2
<1>6. CASE StoreTemp \/ LimitDone \/ JournalDigits \/ JournalNewline \/ StepEnd \/ DrainEnd
  <2>1. /\ files' = files /\ received' = received /\ created' = created /\ exporters' = exporters
        /\ pc \notin {"export", "remove"}
    BY <1>6 DEF StoreTemp, LimitDone, JournalDigits, JournalNewline, StepEnd, DrainEnd,
                disk, process, history
  <2> QED
    BY <1>b, <1>c, <2>1
<1>7. ASSUME NEW t \in 0..MaxEpoch, NEW s \in Sizes, NewEntry(t, s) PROVE ReceivedOnce'
  BY <1>7, <1>b, <1>c DEF NewEntry, disk, history
<1>8. ASSUME NEW f \in files, LimitDrop(f) \/ Quarantine(f) PROVE ReceivedOnce'
  BY <1>8, <1>b, <1>c DEF LimitDrop, Quarantine, process, history
<1>9. ASSUME NEW f \in files, DrainRead(f) PROVE ReceivedOnce'
  <2>1. /\ files' = files /\ received' = received /\ created' = created /\ exporters' = exporters
        /\ pc = "drain"
    BY <1>9 DEF DrainRead, disk, process, history
  <2> QED
    BY <1>b, <1>c, <2>1
<1>10. ASSUME NEW x \in Exporters, ExportOk(x) PROVE ReceivedOnce'
  <2>1. /\ pc = "export" /\ x = exporters[xi] /\ entry \in files /\ xi \in 1..Len(exporters)
        /\ files' = files /\ created' = created /\ exporters' = exporters /\ entry' = entry
        /\ received' = [received EXCEPT ![x] = @ \cup {entry.ev}] /\ xi' = xi + 1
        /\ pc' = IF xi = Len(exporters) THEN "remove" ELSE "export"
    BY <1>0, <1>10 DEF ExportOk, LastExporter, DrainProgress, Draining, Oldest, OldestOf, TypeOK,
                     disk, process
  <2>2. Served = {exporters[k] : k \in 1..(xi - 1)}
    BY <2>1 DEF Served
  <2>3. Served' = Served \cup {x}
    <3>1. Served' = {exporters[k] : k \in 1..xi}
      BY <2>1 DEF Served
    <3>2. 1..xi = 1..(xi - 1) \cup {xi}
      BY <2>1
    <3> QED
      BY <2>1, <2>2, <3>1, <3>2
  <2>4. \A y \in Exporters : received'[y] = IF y = x THEN received[x] \cup {entry.ev} ELSE received[y]
    BY <1>0, <2>1 DEF TypeOK
  <2> QED
    BY <1>a, <2>1, <2>3, <2>4
<1>11. ASSUME NEW x \in Exporters, NEW d \in BOOLEAN, ExportFail(x, d) PROVE ReceivedOnce'
  <2>1. /\ pc = "export" /\ pc' = "step" /\ files' = files /\ created' = created
        /\ exporters' = exporters /\ xi \in Nat \ {0}
    BY <1>0, <1>11 DEF ExportFail, TypeOK, disk, process
  <2>2. ~ CutShort
    BY <2>1 DEF vars
  <2>3. d = FALSE /\ xi = 1
    <3>1. d # TRUE
      BY <1>11, <2>2 DEF CutShort
    <3>2. d = FALSE
      BY <3>1
    <3>3. ExportFail(x, FALSE)
      BY <1>11, <3>2
    <3>4. ~ (xi > 1)
      BY <2>2, <3>3 DEF CutShort
    <3> QED
      BY <2>1, <3>2, <3>4
  <2>4. received' = received
    BY <1>11, <2>3 DEF ExportFail
  <2>5. Served = {}
    BY <2>1, <2>3 DEF Served
  <2> QED
    BY <1>c, <2>1, <2>4, <2>5
<1>12. CASE Remove
  <2>1. /\ files' = files \ {entry} /\ received' = received /\ created' = created
        /\ exporters' = exporters
    BY <1>12 DEF Remove, process, history
  <2> QED
    BY <2>1
<1>13. ASSUME NEW f \in files, Damage(f) PROVE ReceivedOnce'
  <2>1. /\ files' = files /\ received' = received /\ created' = created /\ exporters' = exporters
        /\ entry' = entry /\ pc' = pc /\ xi' = xi
    BY <1>13 DEF Damage, process
  <2> QED
    BY <2>1 DEF Served
<1>14. CASE UNCHANGED vars
  BY <1>14 DEF vars, Served
<1> QED
  BY <1>1, <1>2, <1>3, <1>4, <1>5, <1>6, <1>7, <1>8, <1>9, <1>10, <1>11, <1>12, <1>13, <1>14
     DEF Next, Agent, Boot, Store, Drain, Export

\* The exporter whose turn it is has not had the file in hand.
LEMMA NotYetReceived ==
  ASSUME IInv, ReceivedOnce, pc = "export", NEW x \in Exporters, x = exporters[xi]
  PROVE  entry.ev \notin received[x]
<1> SUFFICES ASSUME entry.ev \in received[x] PROVE FALSE
  OBVIOUS
<1>1. entry \in files /\ xi \in 1..Len(exporters)
  BY DEF IInv, DrainProgress, Draining, Oldest, OldestOf, TypeOK
<1>2. x \in Served
  BY <1>1 DEF ReceivedOnce
<1>3. PICK k \in 1..(xi - 1) : x = exporters[k]
  BY <1>2 DEF Served
<1>4. k \in 1..Len(exporters) /\ k # xi /\ exporters[k] = exporters[xi]
  BY <1>1, <1>3 DEF IInv, TypeOK
<1> QED
  BY <1>1, <1>4 DEF ReceivedOnce

\* An exporter is called to its Ok for events it has not had.
DeliveredOnce == [][\A x \in Exporters : ExportOk(x) => entry.ev \notin received[x]]_vars

\* "already delivered copies dedupe by event_id" (spool.rs:129): a copy is sent only
\* after a drain was cut short. No limit, no damage, no restart at another point and no
\* change of the exporter list makes one.
THEOREM DeliveredOnceUnlessCutShort == Spec /\ [][~ CutShort]_vars => DeliveredOnce
<1>1. Init => ReceivedOnce
  BY DEF Init, ReceivedOnce
<1>2. IInv /\ ReceivedOnce => \A x \in Exporters : ExportOk(x) => entry.ev \notin received[x]
  BY NotYetReceived DEF ExportOk
<1> QED
  BY <1>1, <1>2, ReceivedOnceStep, Invariance, PTL DEF Spec, DeliveredOnce
==============================================================================

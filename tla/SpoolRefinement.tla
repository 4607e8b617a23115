--------------------------- MODULE SpoolRefinement ---------------------------
(***************************************************************************)
(* Spool implements DeliveryQueue: an event is recorded when its file is   *)
(* renamed into place, received when an exporter returns Ok (or an error   *)
(* after delivering), retired when the drain removes its file, and shed by *)
(* the limit or by damage.  Everything else, restarts included, is a       *)
(* stutter or changes the subscribers.                                     *)
(***************************************************************************)
EXTENDS SpoolProofs

Known == {i.ev : i \in issued}
Pending == {f.ev : f \in Intact}
Subscribers == {exporters[k] : k \in 1..Len(exporters)}
QueueVars == <<Known, Pending, received, shed, Subscribers>>

LEMMA QueueVarsExpand == Queue!qvars = QueueVars
BY DEF Queue!qvars, QueueVars, Known, Pending, Subscribers

\* A readable file is the only one of its event.
LEMMA OneFilePerEvent ==
  ASSUME IInv, NEW f \in Intact, NEW g \in Intact, f.ev = g.ev
  PROVE  f = g
<1>1. Identity(f) \in issued /\ Identity(g) \in issued /\ Identity(f).ev = Identity(g).ev
  BY DEF IInv, EventOrder, Intact, Identity
<1>2. Identity(f) = Identity(g)
  BY <1>1 DEF IInv, EventOrder
<1>3. f.boot = g.boot /\ f.seq = g.seq
  BY <1>2 DEF Identity
<1> QED
  BY <1>3 DEF IInv, SeqOrder, UniquePending

\* Losing file f, readable, loses its event; losing another loses none.
LEMMA PendingWithout ==
  ASSUME IInv, NEW f \in files, Intact' = Intact \ {f}
  PROVE  Pending' = IF f \in Intact THEN Pending \ {f.ev} ELSE Pending
<1>1. CASE f \in Intact
  <2>1. \A g \in Intact : g # f => g.ev # f.ev
    BY <1>1, OneFilePerEvent
  <2> QED
    BY <1>1, <2>1 DEF Pending
<1>2. CASE f \notin Intact
  BY <1>2 DEF Pending
<1> QED
  BY <1>1, <1>2

LEMMA KnownEvent ==
  ASSUME IInv, NEW f \in files
  PROVE  f.ev \in 1..MaxEvents
<1>1. Identity(f) \in issued
  BY DEF IInv, EventOrder
<1>2. f.ev \in 1..created /\ created <= MaxEvents
  BY <1>1 DEF IInv, EventOrder, Identity
<1> QED
  BY <1>2, BoundsAssumption DEF IInv, TypeOK

LEMMA QueueInitHolds == Init => Queue!QueueInit
BY DEF Init, Queue!QueueInit, Intact

LEMMA QueueStepHolds == IInv /\ [Next]_vars => [Queue!QueueNext]_(Queue!qvars)
<1> SUFFICES ASSUME IInv, [Next]_vars
             PROVE  Queue!QueueNext \/ UNCHANGED QueueVars
  BY QueueVarsExpand DEF Queue!qvars, QueueVars, Known, Pending, Subscribers
<1>u. ASSUME NEW e \in 1..MaxEvents, Queue!Record(e) \/ Queue!Retire(e) \/ Queue!Shed(e)
      PROVE Queue!QueueNext
  BY <1>u DEF Queue!QueueNext
<1>r. ASSUME NEW e \in 1..MaxEvents, NEW x \in Exporters, Queue!Receive(x, e)
      PROVE Queue!QueueNext
  BY <1>r DEF Queue!QueueNext
<1>c. ASSUME NEW S \in SUBSET Exporters, Queue!Reconfigure(S) PROVE Queue!QueueNext
  BY <1>c DEF Queue!QueueNext
<1>t. /\ exporters \in Seq(Exporters) /\ Len(exporters) \in Nat /\ created \in Nat
      /\ MaxEvents \in Nat
  BY BoundsAssumption DEF IInv, TypeOK
\* Steps that leave files, history and exporters alone are stutters.
<1>frame. ASSUME Intact' = Intact, issued' = issued, received' = received, shed' = shed,
                 exporters' = exporters
          PROVE UNCHANGED QueueVars
  BY <1>frame DEF QueueVars, Known, Pending, Subscribers
\* Starts and exits change the subscribers only.
<1>reconfigure. ASSUME Intact' = Intact, issued' = issued, received' = received, shed' = shed,
                       exporters' \in Seq(Exporters)
                PROVE Queue!QueueNext
  <2>1. Subscribers' \in SUBSET Exporters
    BY <1>reconfigure DEF Subscribers
  <2>2. PICK S \in SUBSET Exporters : S = Subscribers'
    BY <2>1
  <2>3. Queue!Reconfigure(S)
    BY <1>reconfigure, <2>2 DEF Queue!Reconfigure, Subscribers
  <2> QED
    BY <1>c, <2>3
<1>1. ASSUME NEW b \in Boots, NEW c \in Configs, Start(b, c) PROVE Queue!QueueNext
  BY <1>1, <1>reconfigure, ConfigsAssumption DEF Start, Intact, history
<1>2. CASE Crash
  BY <1>2, <1>reconfigure DEF Crash, Exit, Intact, disk, history
<1>3. ASSUME NEW t \in 0..MaxEpoch, NEW s \in Sizes, NewEntry(t, s) PROVE UNCHANGED QueueVars
  BY <1>3, <1>frame DEF NewEntry, Intact, disk, history
<1>4. CASE StoreExisting
  BY <1>4, <1>frame DEF StoreExisting, Intact, disk, process
<1>5. CASE StoreTempTaken
  BY <1>5, <1>reconfigure DEF StoreTempTaken, Exit, Intact, disk, history
<1>6. CASE StoreTemp
  BY <1>6, <1>frame DEF StoreTemp, Intact, process, history
<1>7. CASE Rename
  <2>1. /\ pc = "temp" /\ UNCHANGED <<received, shed, exporters, damaged>>
        /\ issued' = issued \cup {Identity(entry)} /\ files' = files \cup {entry}
    BY <1>7 DEF Rename, process
  <2>2. entry.ev = created + 1 /\ created < MaxEvents
    BY <2>1 DEF IInv, EventOrder, Storing
  <2>3. \A i \in issued : i.ev \in 1..created
    BY DEF IInv, EventOrder
  <2>4. \A f \in files : f.ev \in 1..created
    BY DEF IInv, EventOrder, Identity
  <2>5. entry \notin damaged
    BY <1>t, <2>2, <2>4 DEF IInv, TypeOK
  <2>6. Intact' = Intact \cup {entry}
    BY <2>1, <2>5 DEF Intact
  <2>7. Identity(entry).ev = entry.ev
    BY DEF Identity
  <2>k. Known' = Known \cup {entry.ev}
    BY <2>1, <2>7 DEF Known
  <2>p. Pending' = Pending \cup {entry.ev}
    BY <2>6 DEF Pending
  <2>8. entry.ev \notin Known /\ entry.ev \in 1..MaxEvents
    BY <1>t, <2>2, <2>3 DEF Known
  <2>9. PICK e \in 1..MaxEvents : e = entry.ev
    BY <2>8
  <2>10. Queue!Record(e)
    BY <2>1, <2>k, <2>p, <2>8, <2>9 DEF Queue!Record, Known, Pending, Subscribers
  <2> QED
    BY <1>u, <2>10
<1>8. ASSUME NEW f \in files, LimitDrop(f) PROVE Queue!QueueNext \/ UNCHANGED QueueVars
  <2>1. /\ UNCHANGED <<issued, received, exporters>> /\ shed' = shed \cup {f.ev}
        /\ Intact' = Intact \ {f}
    BY <1>8 DEF LimitDrop, process, Intact
  <2>2. CASE f \in Intact
    <3>1. Queue!Shed(f.ev)
      BY <2>1, <2>2, PendingWithout DEF Queue!Shed, Pending, Subscribers
    <3> QED
      BY <1>u, <3>1, KnownEvent
  <2>3. CASE f \notin Intact
    <3>1. shed' = shed
      BY <2>1, <2>3 DEF IInv, EventOrder, Intact
    <3> QED
      BY <1>frame, <2>1, <2>3, <3>1
  <2> QED
    BY <2>2, <2>3
<1>9. CASE LimitDone
  BY <1>9, <1>frame DEF LimitDone, Intact, disk, process, history
<1>10. CASE JournalDigits
  BY <1>10, <1>frame DEF JournalDigits, Intact, process, history
<1>11. CASE JournalNewline
  BY <1>11, <1>frame DEF JournalNewline, Intact, process
<1>12. CASE StepEnd
  BY <1>12, <1>frame DEF StepEnd, Intact, disk, process, history
<1>13. CASE DrainEnd
  BY <1>13, <1>frame DEF DrainEnd, Intact, disk, process, history
<1>14. ASSUME NEW f \in files, Quarantine(f) PROVE UNCHANGED QueueVars
  BY <1>14, <1>frame DEF Quarantine, Intact, process, history
<1>15. ASSUME NEW f \in files, DrainRead(f) PROVE UNCHANGED QueueVars
  BY <1>15, <1>frame DEF DrainRead, Intact, disk, process, history
<1>16. CASE Remove
  <2>1. /\ pc = "remove" /\ UNCHANGED <<issued, received, shed, exporters>>
        /\ Intact' = Intact \ {entry} /\ entry \in files
    BY <1>16 DEF Remove, Intact, process, history, IInv, DrainProgress, Draining, Oldest, OldestOf
  <2>2. CASE entry \in Intact
    <3>1. Subscribers # {}
      <4>1. exporters # <<>>
        BY <2>1 DEF IInv, DrainProgress, Draining
      <4> QED
        BY <1>t, <4>1 DEF Subscribers
    <3>2. \A x \in Subscribers : entry.ev \in received[x]
      BY <2>1 DEF Subscribers, IInv, DrainProgress
    <3>3. PICK e \in 1..MaxEvents : e = entry.ev
      BY <2>1, KnownEvent
    <3>4. PICK f \in files : f = entry
      BY <2>1
    <3>5. Pending' = Pending \ {e} /\ e \in Pending
      BY <2>1, <2>2, <3>3, <3>4, PendingWithout DEF Pending
    <3>6. Queue!Retire(e)
      BY <2>1, <3>1, <3>2, <3>3, <3>5 DEF Queue!Retire, Pending, Subscribers
    <3> QED
      BY <1>u, <3>6
  <2>3. CASE entry \notin Intact
    BY <1>frame, <2>1, <2>3
  <2> QED
    BY <2>2, <2>3
\* The entry in an exporter's hands is pending, or was spoiled after it was read.
<1>hand. ASSUME pc = "export", NEW x \in Exporters, x = exporters[xi],
                UNCHANGED <<issued, shed, exporters>>, Intact' = Intact,
                received' = [received EXCEPT ![x] = @ \cup {entry.ev}]
         PROVE Queue!QueueNext
  <2>1. entry \in files /\ xi \in 1..Len(exporters)
    BY <1>hand DEF IInv, TypeOK, DrainProgress, Draining, Oldest, OldestOf
  <2>2. entry.ev \in Pending \cup shed
    BY <2>1 DEF Pending, Intact, IInv, EventOrder
  <2>3. x \in Subscribers
    BY <1>hand, <2>1 DEF Subscribers
  <2>4. PICK e \in 1..MaxEvents : e = entry.ev
    BY <2>1, KnownEvent
  <2>5. Queue!Receive(x, e)
    BY <1>hand, <2>2, <2>3, <2>4 DEF Queue!Receive, Pending, Subscribers
  <2> QED
    BY <1>r, <2>5
<1>17. ASSUME NEW x \in Exporters, ExportOk(x) PROVE Queue!QueueNext
  BY <1>17, <1>hand DEF ExportOk, Intact, disk, process
<1>18. ASSUME NEW x \in Exporters, NEW d \in BOOLEAN, ExportFail(x, d)
       PROVE Queue!QueueNext \/ UNCHANGED QueueVars
  <2>1. CASE d
    BY <1>18, <2>1, <1>hand DEF ExportFail, Intact, disk, process
  <2>2. CASE ~ d
    BY <1>18, <2>2, <1>frame DEF ExportFail, Intact, disk, process
  <2> QED
    BY <2>1, <2>2
<1>19. ASSUME NEW f \in files, Damage(f) PROVE Queue!QueueNext
  <2>1. /\ f \in Intact /\ UNCHANGED <<issued, received, exporters>>
        /\ shed' = shed \cup {f.ev} /\ Intact' = Intact \ {f}
    BY <1>19 DEF Damage, Intact, process
  <2>2. Queue!Shed(f.ev)
    BY <2>1, PendingWithout DEF Queue!Shed, Pending, Subscribers
  <2> QED
    BY <1>u, <2>2, KnownEvent
<1>20. CASE UNCHANGED vars
  BY <1>20, <1>frame DEF vars, Intact
<1> QED
  BY <1>1, <1>2, <1>3, <1>4, <1>5, <1>6, <1>7, <1>8, <1>9, <1>10, <1>11, <1>12, <1>13,
     <1>14, <1>15, <1>16, <1>17, <1>18, <1>19, <1>20
     DEF Next, Agent, Boot, Store, Drain, Export

\* The spool is an at-least-once delivery queue: an event leaves it only when
\* every configured exporter has had it, or by being shed.
THEOREM SpoolImplementsQueue == Spec => ImplementsQueue
BY QueueInitHolds, QueueStepHolds, Invariance, PTL
   DEF Spec, ImplementsQueue, Queue!QueueSpec
==============================================================================

--------------------------- MODULE CollectorProofs ---------------------------
(***************************************************************************)
(* How far the gauges of Collector can lag behind the network, and how far *)
(* apart its scans are, for every interval and every length of a pass.     *)
(***************************************************************************)
EXTENDS Collector, TLAPS

\* The counters are compared with natural numbers.
LEMMA Bounds ==
  /\ ConnectivityEvery \in Nat /\ ConnectivityEvery > 0
  /\ BleEvery \in Nat /\ BleEvery > 0
  /\ SleepTicks \in Nat /\ WorkTicks \in Nat /\ Lag \in Nat
  /\ Lag = ConnectivityEvery + SleepTicks + 3 * WorkTicks
<1>1. ConnectivityEvery \in Nat /\ SleepTicks \in Nat /\ WorkTicks \in Nat
  BY CollectorAssumption
<1>2. 3 * WorkTicks \in Nat
  BY <1>1
<1> QED BY <1>1, <1>2, CollectorAssumption DEF Lag

\* A process starts with nothing in hand and both sources due.
LEMMA InitOk == CollectorInit => CollectorInv
  BY Bounds DEF CollectorInit, CollectorInv, CollectorTypeOK, HandRecent, GaugeLag, Statuses, Up

\* A tick, which no counter but a capped one misses, keeps the invariant.
LEMMA TickOk ==
  ASSUME CollectorInv, Tick
  PROVE  CollectorInv'
<1> USE Bounds DEF Tick, Later, CollectorInv, thread, memory, history, Up, Statuses
<1>1. CollectorTypeOK'
  BY DEF CollectorTypeOK
<1>2. HandRecent'
  BY DEF CollectorTypeOK, HandRecent
<1>3. GaugeLag'
  BY DEF CollectorTypeOK, HandRecent, GaugeLag
<1>4. scanning' >= sinceScan'
  BY DEF CollectorTypeOK
<1> QED BY <1>1, <1>2, <1>3, <1>4

\* A change of the network keeps the invariant.
LEMMA NetworkChangesOk ==
  ASSUME CollectorInv, NetworkChanges
  PROVE  CollectorInv'
<1> USE Bounds DEF NetworkChanges, CollectorInv, thread, memory, history, Up, Statuses
<1>1. CollectorTypeOK'
  BY DEF CollectorTypeOK
<1>2. HandRecent'
  BY DEF CollectorTypeOK, HandRecent
<1>3. GaugeLag'
  BY DEF CollectorTypeOK, HandRecent, GaugeLag
<1>4. scanning' >= sinceScan'
  BY DEF CollectorTypeOK
<1> QED BY <1>1, <1>2, <1>3, <1>4

\* The end of the process keeps the invariant.
LEMMA StopOk ==
  ASSUME CollectorInv, Stop
  PROVE  CollectorInv'
<1> USE Bounds DEF Stop, CollectorInv, thread, memory, history, Up, Statuses
<1>1. CollectorTypeOK'
  BY DEF CollectorTypeOK
<1>2. HandRecent'
  BY DEF CollectorTypeOK, HandRecent
<1>3. GaugeLag'
  BY DEF CollectorTypeOK, HandRecent, GaugeLag
<1>4. scanning' >= sinceScan'
  BY DEF CollectorTypeOK
<1> QED BY <1>1, <1>2, <1>3, <1>4

\* A restart keeps the invariant.
LEMMA RestartOk ==
  ASSUME CollectorInv, Restart
  PROVE  CollectorInv'
<1> USE Bounds DEF Restart, CollectorInv, thread, memory, history, Up, Statuses
<1>1. CollectorTypeOK'
  BY DEF CollectorTypeOK
<1>2. HandRecent'
  BY DEF CollectorTypeOK, HandRecent
<1>3. GaugeLag'
  BY DEF CollectorTypeOK, HandRecent, GaugeLag
<1>4. scanning' >= sinceScan'
  BY DEF CollectorTypeOK
<1> QED BY <1>1, <1>2, <1>3, <1>4

\* The native collector keeps the invariant.
LEMMA NativeOkOk ==
  ASSUME CollectorInv, NativeOk
  PROVE  CollectorInv'
<1> USE Bounds DEF NativeOk, CollectorInv, thread, memory, history, Up, Statuses
<1>1. CollectorTypeOK'
  BY DEF CollectorTypeOK
<1>2. HandRecent'
  BY DEF CollectorTypeOK, HandRecent
<1>3. GaugeLag'
  BY DEF CollectorTypeOK, HandRecent, GaugeLag
<1>4. scanning' >= sinceScan'
  BY DEF CollectorTypeOK
<1> QED BY <1>1, <1>2, <1>3, <1>4

\* A failing native collector keeps the invariant.
LEMMA NativeFailsOk ==
  ASSUME CollectorInv, NativeFails
  PROVE  CollectorInv'
<1> USE Bounds DEF NativeFails, Fails, CollectorInv, thread, memory, history, Up, Statuses
<1>1. CollectorTypeOK'
  BY DEF CollectorTypeOK
<1>2. HandRecent'
  BY DEF CollectorTypeOK, HandRecent
<1>3. GaugeLag'
  BY DEF CollectorTypeOK, HandRecent, GaugeLag
<1>4. scanning' >= sinceScan'
  BY DEF CollectorTypeOK
<1> QED BY <1>1, <1>2, <1>3, <1>4

\* A report that is not due keeps the invariant.
LEMMA ReportNotDueOk ==
  ASSUME CollectorInv, ReportNotDue
  PROVE  CollectorInv'
<1> USE Bounds DEF ReportNotDue, ReportDue, CollectorInv, thread, memory, history, Up, Statuses
<1>1. CollectorTypeOK'
  BY DEF CollectorTypeOK
<1>2. HandRecent'
  BY DEF CollectorTypeOK, HandRecent
<1>3. GaugeLag'
  BY DEF CollectorTypeOK, HandRecent, GaugeLag
<1>4. scanning' >= sinceScan'
  BY DEF CollectorTypeOK
<1> QED BY <1>1, <1>2, <1>3, <1>4

\* The diagnosis keeps the invariant.
LEMMA DiagnoseOk ==
  ASSUME CollectorInv, Diagnose
  PROVE  CollectorInv'
<1> USE Bounds DEF Diagnose, ReportDue, CollectorInv, thread, memory, history, Up, Statuses
<1>1. CollectorTypeOK'
  BY DEF CollectorTypeOK
<1>2. HandRecent'
  BY DEF CollectorTypeOK, HandRecent
<1>3. GaugeLag'
  BY DEF CollectorTypeOK, HandRecent, GaugeLag
<1>4. scanning' >= sinceScan'
  BY DEF CollectorTypeOK
<1> QED BY <1>1, <1>2, <1>3, <1>4

\* The stamp of the diagnosis keeps the invariant.
LEMMA StampOk ==
  ASSUME CollectorInv, Stamp
  PROVE  CollectorInv'
<1> USE Bounds DEF Stamp, CollectorInv, thread, memory, history, Up, Statuses
<1>1. CollectorTypeOK'
  BY DEF CollectorTypeOK
<1>2. HandRecent'
  BY DEF CollectorTypeOK, HandRecent
<1>3. GaugeLag'
  BY DEF CollectorTypeOK, HandRecent, GaugeLag
<1>4. scanning' >= sinceScan'
  BY DEF CollectorTypeOK
<1> QED BY <1>1, <1>2, <1>3, <1>4

\* A scan that is not due keeps the invariant.
LEMMA ScanNotDueOk ==
  ASSUME CollectorInv, ScanNotDue
  PROVE  CollectorInv'
<1> USE Bounds DEF ScanNotDue, ScanDue, CollectorInv, thread, memory, history, Up, Statuses
<1>1. CollectorTypeOK'
  BY DEF CollectorTypeOK
<1>2. HandRecent'
  BY DEF CollectorTypeOK, HandRecent
<1>3. GaugeLag'
  BY DEF CollectorTypeOK, HandRecent, GaugeLag
<1>4. scanning' >= sinceScan'
  BY DEF CollectorTypeOK
<1> QED BY <1>1, <1>2, <1>3, <1>4

\* The begin of a scan keeps the invariant.
LEMMA ScanBeginsOk ==
  ASSUME CollectorInv, ScanBegins
  PROVE  CollectorInv'
<1> USE Bounds DEF ScanBegins, ScanDue, CollectorInv, thread, memory, history, Up, Statuses
<1>1. CollectorTypeOK'
  BY DEF CollectorTypeOK
<1>2. HandRecent'
  BY DEF CollectorTypeOK, HandRecent
<1>3. GaugeLag'
  BY DEF CollectorTypeOK, HandRecent, GaugeLag
<1>4. scanning' >= sinceScan'
  BY DEF CollectorTypeOK
<1> QED BY <1>1, <1>2, <1>3, <1>4

\* A scan keeps the invariant.
LEMMA ScanOkOk ==
  ASSUME CollectorInv, ScanOk
  PROVE  CollectorInv'
<1> USE Bounds DEF ScanOk, CollectorInv, thread, memory, history, Up, Statuses
<1>1. CollectorTypeOK'
  BY DEF CollectorTypeOK
<1>2. HandRecent'
  BY DEF CollectorTypeOK, HandRecent
<1>3. GaugeLag'
  BY DEF CollectorTypeOK, HandRecent, GaugeLag
<1>4. scanning' >= sinceScan'
  BY DEF CollectorTypeOK
<1> QED BY <1>1, <1>2, <1>3, <1>4

\* A failed scan keeps the invariant.
LEMMA ScanFailsOk ==
  ASSUME CollectorInv, ScanFails
  PROVE  CollectorInv'
<1> USE Bounds DEF ScanFails, Fails, LastScanAfterError, CollectorInv, thread, memory, history, Up, Statuses
<1>1. CollectorTypeOK'
  BY DEF CollectorTypeOK
<1>2. HandRecent'
  BY DEF CollectorTypeOK, HandRecent
<1>3. GaugeLag'
  BY DEF CollectorTypeOK, HandRecent, GaugeLag
<1>4. scanning' >= sinceScan'
  BY DEF CollectorTypeOK
<1> QED BY <1>1, <1>2, <1>3, <1>4

\* The record keeps the invariant.
LEMMA RecordOk ==
  ASSUME CollectorInv, Record
  PROVE  CollectorInv'
<1> USE Bounds DEF Record, Recorded, CollectorInv, thread, memory, history, Up, Statuses
<1>1. CollectorTypeOK'
  BY DEF CollectorTypeOK
<1>2. HandRecent'
  BY DEF CollectorTypeOK, HandRecent
<1>3. GaugeLag'
  BY DEF CollectorTypeOK, HandRecent, GaugeLag
<1>4. scanning' >= sinceScan'
  BY DEF CollectorTypeOK
<1> QED BY <1>1, <1>2, <1>3, <1>4

\* The rest of the pass keeps the invariant.
LEMMA SleepOk ==
  ASSUME CollectorInv, Sleep
  PROVE  CollectorInv'
<1> USE Bounds DEF Sleep, CollectorInv, thread, memory, history, Up, Statuses
<1>1. CollectorTypeOK'
  BY DEF CollectorTypeOK
<1>2. HandRecent'
  BY DEF CollectorTypeOK, HandRecent
<1>3. GaugeLag'
  BY DEF CollectorTypeOK, HandRecent, GaugeLag
<1>4. scanning' >= sinceScan'
  BY DEF CollectorTypeOK
<1> QED BY <1>1, <1>2, <1>3, <1>4

\* The end of the sleep keeps the invariant.
LEMMA WakeOk ==
  ASSUME CollectorInv, Wake
  PROVE  CollectorInv'
<1> USE Bounds DEF Wake, CollectorInv, thread, memory, history, Up, Statuses
<1>1. CollectorTypeOK'
  BY DEF CollectorTypeOK
<1>2. HandRecent'
  BY DEF CollectorTypeOK, HandRecent
<1>3. GaugeLag'
  BY DEF CollectorTypeOK, HandRecent, GaugeLag
<1>4. scanning' >= sinceScan'
  BY DEF CollectorTypeOK
<1> QED BY <1>1, <1>2, <1>3, <1>4

\* Every step keeps the invariant.
LEMMA NextOk == CollectorInv /\ [CollectorNext]_collectorVars => CollectorInv'
<1> SUFFICES ASSUME CollectorInv, [CollectorNext]_collectorVars PROVE CollectorInv'
  OBVIOUS
<1>1. CASE Tick
  BY <1>1, TickOk
<1>2. CASE NetworkChanges
  BY <1>2, NetworkChangesOk
<1>3. CASE Stop
  BY <1>3, StopOk
<1>4. CASE Restart
  BY <1>4, RestartOk
<1>5. CASE NativeOk
  BY <1>5, NativeOkOk
<1>6. CASE NativeFails
  BY <1>6, NativeFailsOk
<1>7. CASE ReportNotDue
  BY <1>7, ReportNotDueOk
<1>8. CASE Diagnose
  BY <1>8, DiagnoseOk
<1>9. CASE Stamp
  BY <1>9, StampOk
<1>10. CASE ScanNotDue
  BY <1>10, ScanNotDueOk
<1>11. CASE ScanBegins
  BY <1>11, ScanBeginsOk
<1>12. CASE ScanOk
  BY <1>12, ScanOkOk
<1>13. CASE ScanFails
  BY <1>13, ScanFailsOk
<1>14. CASE Record
  BY <1>14, RecordOk
<1>15. CASE Sleep
  BY <1>15, SleepOk
<1>16. CASE Wake
  BY <1>16, WakeOk
<1>17. CASE UNCHANGED collectorVars
  BY <1>17 DEF CollectorInv, CollectorTypeOK, HandRecent, GaugeLag, Up, collectorVars, thread, memory, history
<1> QED BY <1>1, <1>2, <1>3, <1>4, <1>5, <1>6, <1>7, <1>8, <1>9, <1>10, <1>11, <1>12, <1>13, <1>14, <1>15, <1>16, <1>17
       DEF CollectorNext, AgentStep, Trouble

\* The invariant holds of every behaviour: what is recorded, or waits to be, is
\* never older than its place in the loop allows.
THEOREM CollectorInvariance == CollectorSpec => []CollectorInv
<1> QED BY InitOk, NextOk, PTL DEF CollectorSpec

\* The gauges show the network's state Lag ticks after the last change, start or
\* failed collection, for every interval and every length of a pass.
THEOREM GaugeFollowsHolds == CollectorSpec => []GaugeFollows
<1>1. CollectorInv => GaugeFollows
  <2> SUFFICES ASSUME CollectorInv, "connectivity" \in Configured, Up, calm = Lag, gauge # network
               PROVE  FALSE
    BY DEF GaugeFollows
  <2> USE Bounds DEF CollectorInv, CollectorTypeOK
  <2>1. CASE at \in {"native", "report"} \/ hand = network
    BY <2>1 DEF GaugeLag
  <2>2. CASE at = "sleep"
    BY <2>2 DEF GaugeLag
  <2>3. CASE at \in {"scan", "window", "record", "rest"} /\ hand # network
    BY <2>3 DEF GaugeLag
  <2>4. CASE at = "stamp" /\ hand # network
    BY <2>4 DEF HandRecent
  <2> QED BY <2>1, <2>2, <2>3, <2>4 DEF Up
<1> QED BY <1>1, CollectorInvariance, PTL

\* Two scans of a process are BleEvery apart, whatever became of the first.
THEOREM ScansSpacedHolds == CollectorSpec => ScansSpaced
<1>1. CollectorInv /\ [CollectorNext]_collectorVars
        => [at # "window" /\ at' = "window" => scanning >= BleEvery]_collectorVars
  <2> SUFFICES ASSUME CollectorInv, CollectorNext, at # "window", at' = "window"
               PROVE  scanning >= BleEvery
    OBVIOUS
  <2>1. ScanBegins
    BY DEF CollectorNext, AgentStep, Trouble, Tick, NetworkChanges, Stop, Restart, NativeOk,
           NativeFails, Fails, ReportNotDue, Diagnose, Stamp, ScanNotDue, ScanOk, ScanFails,
           Record, Sleep, Wake, thread
  <2> QED BY <2>1, Bounds DEF ScanBegins, ScanDue, CollectorInv, CollectorTypeOK
<1> QED BY <1>1, CollectorInvariance, PTL DEF CollectorSpec, ScansSpaced
==============================================================================

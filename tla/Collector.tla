------------------------------ MODULE Collector ------------------------------
(***************************************************************************)
(* The agent's collector (src/collector.rs, src/ble_collector.rs): at each *)
(* pass of the main loop the native collector, a diagnosis of the network  *)
(* when one is due, and a BLE scan when one is due, whose events reach the *)
(* recorder and the gauges (src/metrics.rs) only if all three succeed.     *)
(* Time is counted in ticks, and no counter runs past what the code or a   *)
(* property compares it with.                                              *)
(***************************************************************************)
EXTENDS Naturals

CONSTANTS
  Configured,         \* what the settings switch on: "connectivity", "ble"
  ConnectivityEvery,  \* connectivity_interval
  BleEvery,           \* options.interval
  SleepTicks,         \* poll_interval
  WorkTicks           \* the longest a pass of the loop takes, without the sleep

ASSUME CollectorAssumption ==
  /\ Configured \subseteq {"connectivity", "ble"}
  /\ ConnectivityEvery \in Nat \ {0}
  /\ BleEvery \in Nat \ {0}
  /\ SleepTicks \in Nat \ {0}
  /\ WorkTicks \in Nat

Statuses == {"pass", "fail"}

\* How far the gauges may lag behind: a report that a check has just missed waits
\* for the rest of the pass, the sleep and the next pass, and the diagnosis before
\* it may have read the network a pass before it was stamped.
Lag == ConnectivityEvery + SleepTicks + 3 * WorkTicks

VARIABLES
  at,           \* where the one thread is
  spent,        \* ticks of the present pass, or of the present sleep
  sinceReport,  \* ticks since last_connectivity; the interval when it is None
  sinceScan,    \* ticks since last_scan; the interval when it is None
  hand,         \* the report among the events gathered, or "none"
  gauge,        \* the stage gauges: the last report recorded, or "unset" (-1)
  network,      \* what a diagnosis would find
  calm,         \* ticks since the network changed, a process started or a
                \* collection failed (history)
  scanning      \* ticks since a scan of this process began (history)

thread == <<at, spent>>
memory == <<sinceReport, sinceScan, hand, gauge>>
history == <<calm, scanning>>
collectorVars == <<thread, memory, network, history>>

Later(ticks, limit) == IF ticks < limit THEN ticks + 1 ELSE limit

CollectorInit ==
  /\ at = "native" /\ spent = 0
  /\ sinceReport = ConnectivityEvery /\ sinceScan = BleEvery
  /\ hand = "none" /\ gauge = "unset"
  /\ network \in Statuses
  /\ calm = 0 /\ scanning = BleEvery

Up == at # "down"

----------------------------------------------------------------------------
(* The world *)

\* A tick passes wherever the process is, as long as its work and its sleep take.
Tick ==
  /\ Up
  /\ spent < (IF at = "sleep" THEN SleepTicks ELSE WorkTicks)
  /\ spent' = spent + 1
  /\ sinceReport' = Later(sinceReport, ConnectivityEvery)
  /\ sinceScan' = Later(sinceScan, BleEvery)
  /\ calm' = Later(calm, Lag)
  /\ scanning' = Later(scanning, BleEvery)
  /\ UNCHANGED <<at, hand, gauge, network>>

NetworkChanges ==
  /\ network' \in Statuses \ {network}
  /\ calm' = 0
  /\ UNCHANGED <<thread, memory, scanning>>

\* The process ends, killed or by an error.
Stop ==
  /\ Up
  /\ at' = "down" /\ spent' = 0
  /\ hand' = "none"
  /\ UNCHANGED <<sinceReport, sinceScan, gauge, network, history>>

\* The service manager starts it again: Metrics::default, AgentCollector::new.
Restart ==
  /\ at = "down"
  /\ at' = "native" /\ spent' = 0
  /\ sinceReport' = ConnectivityEvery /\ sinceScan' = BleEvery
  /\ hand' = "none" /\ gauge' = "unset"
  /\ calm' = 0 /\ scanning' = BleEvery
  /\ UNCHANGED network

----------------------------------------------------------------------------
(* AgentCollector::collect_events *)

\* An error leaves collect_events with `?': the events gathered are dropped.
\* The recorder notes it and goes on, or ends the process.
Fails ==
  /\ at' \in {"rest", "down"}
  /\ hand' = "none"
  /\ calm' = 0

NativeOk ==
  /\ at = "native"
  /\ at' = "report"
  /\ UNCHANGED <<spent, memory, network, history>>

NativeFails ==
  /\ at = "native"
  /\ Fails
  /\ UNCHANGED <<spent, sinceReport, sinceScan, gauge, network, scanning>>

ReportDue == sinceReport >= ConnectivityEvery

ReportNotDue ==
  /\ at = "report"
  /\ ~ ReportDue \/ "connectivity" \notin Configured
  /\ at' = "scan"
  /\ UNCHANGED <<spent, memory, network, history>>

\* The diagnosis reads the network, and takes its time.
Diagnose ==
  /\ at = "report"
  /\ ReportDue
  /\ "connectivity" \in Configured
  /\ hand' = network
  /\ at' = "stamp"
  /\ UNCHANGED <<spent, sinceReport, sinceScan, gauge, network, history>>

\* last_connectivity = now.
Stamp ==
  /\ at = "stamp"
  /\ sinceReport' = 0
  /\ at' = "scan"
  /\ UNCHANGED <<spent, sinceScan, hand, gauge, network, history>>

ScanDue == sinceScan >= BleEvery

\* No BLE, or no scan due: the events gathered are the result.
ScanNotDue ==
  /\ at = "scan"
  /\ ~ ScanDue \/ "ble" \notin Configured
  /\ at' = "record"
  /\ UNCHANGED <<spent, memory, network, history>>

\* last_scan is set before the window opens.
ScanBegins ==
  /\ at = "scan"
  /\ ScanDue
  /\ "ble" \in Configured
  /\ sinceScan' = 0
  /\ scanning' = 0
  /\ at' = "window"
  /\ UNCHANGED <<spent, sinceReport, hand, gauge, network, calm>>

\* Errors the scan reports are events like the advertisements.
ScanOk ==
  /\ at = "window"
  /\ at' = "record"
  /\ UNCHANGED <<spent, memory, network, history>>

\* Mutant: a failed scan is tried again at the next pass.
LastScanAfterError_None == BleEvery

\* What a failed scan leaves of last_scan: the time it began.
LastScanAfterError == sinceScan

ScanFails ==
  /\ at = "window"
  /\ Fails
  /\ sinceScan' = LastScanAfterError
  /\ UNCHANGED <<spent, sinceReport, gauge, network, scanning>>

----------------------------------------------------------------------------
(* The rest of the pass *)

\* Mutant: only reports of success reach the gauges.
Recorded_PassOnly == IF hand = "pass" THEN hand ELSE gauge

\* record_entry stores the stages of a report; other entries leave the gauges.
Recorded == IF hand = "none" THEN gauge ELSE hand

Record ==
  /\ at = "record"
  /\ gauge' = Recorded
  /\ hand' = "none"
  /\ at' = "rest"
  /\ UNCHANGED <<spent, sinceReport, sinceScan, network, history>>

\* drain, mark_healthy and tick, then the sleep.
Sleep ==
  /\ at = "rest"
  /\ at' = "sleep" /\ spent' = 0
  /\ UNCHANGED <<memory, network, history>>

Wake ==
  /\ at = "sleep"
  /\ spent = SleepTicks
  /\ at' = "native" /\ spent' = 0
  /\ UNCHANGED <<memory, network, history>>

AgentStep ==
  \/ NativeOk \/ ReportNotDue \/ Diagnose \/ Stamp
  \/ ScanNotDue \/ ScanBegins \/ ScanOk
  \/ Record \/ Sleep \/ Wake

Trouble == NativeFails \/ ScanFails \/ Stop \/ NetworkChanges

CollectorNext == Tick \/ AgentStep \/ Trouble \/ Restart

CollectorSpec == CollectorInit /\ [][CollectorNext]_collectorVars

\* The thread is never suspended for ever and its calls return, with a result
\* or an error; time goes on; the service manager restarts the agent.
CollectorFairness ==
  /\ WF_collectorVars(AgentStep \/ NativeFails \/ ScanFails)
  /\ WF_collectorVars(Tick)
  /\ WF_collectorVars(Restart)

FairCollector == CollectorSpec /\ CollectorFairness

----------------------------------------------------------------------------
(* Properties *)

CollectorTypeOK ==
  /\ at \in {"native", "report", "stamp", "scan", "window", "record", "rest", "sleep", "down"}
  /\ spent \in 0..(IF at = "sleep" THEN SleepTicks ELSE WorkTicks)
  /\ sinceReport \in 0..ConnectivityEvery
  /\ sinceScan \in 0..BleEvery
  /\ hand \in Statuses \cup {"none"}
  /\ gauge \in Statuses \cup {"unset"}
  /\ network \in Statuses
  /\ calm \in 0..Lag
  /\ scanning \in 0..BleEvery

\* A report is in hand from its diagnosis to its record, and is out of date only if
\* the network changed in this very pass.
HandRecent ==
  /\ hand # "none" => at \in {"stamp", "scan", "window", "record"}
  /\ at = "stamp" => hand # "none"
  /\ hand \notin {"none", network} => calm <= spent

\* How long the gauges can have been out of date, by where the thread is.
GaugeLag ==
  LET missed == ConnectivityEvery - 1 + WorkTicks IN
  "connectivity" \in Configured /\ Up /\ gauge # network =>
    /\ hand # network /\ sinceReport < ConnectivityEvery => calm <= sinceReport + WorkTicks
    /\ at \in {"scan", "window", "record", "rest"} /\ hand # network => calm <= missed + spent
    /\ at = "sleep" => calm <= missed + WorkTicks + spent
    /\ at \in {"native", "report"} \/ hand = network
         => calm <= missed + WorkTicks + SleepTicks + spent

\* What is recorded and what waits to be recorded is never older than its place
\* in the loop allows, and a scan due is a scan begun long enough ago.
CollectorInv ==
  /\ CollectorTypeOK /\ HandRecent /\ GaugeLag
  /\ scanning >= sinceScan

\* The stage gauges follow the network: Lag after the last change, start or
\* failed collection they show what a diagnosis would find.
GaugeFollows ==
  "connectivity" \in Configured /\ Up /\ calm = Lag => gauge = network

\* "RADIOCHRON_BLE_SCAN_SECONDS: Interval between scans" (README.md), also when
\* the scan before failed.
ScansSpaced == [][at # "window" /\ at' = "window" => scanning >= BleEvery]_collectorVars

\* Whatever failed before, once collections succeed and the network is steady the
\* gauges come to show it.
GaugeCatchesUp ==
  "connectivity" \in Configured /\ <>[][~ Trouble]_collectorVars => <>[](gauge = network)
==============================================================================

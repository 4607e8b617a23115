------------------------------- MODULE Delivery -------------------------------
(***************************************************************************)
(* The drain of the spool calling the real exporters: Spool.tla composed   *)
(* with MqttExporter.tla and OtlpExporter.tla, as build_exporters in       *)
(* src/main.rs and Spool::drain in src/spool.rs put them together.  The    *)
(* process has one thread: while an export call is under way the spool     *)
(* waits; the broker, the server, the network and the medium do not.  The  *)
(* exporters live in the process and end with it.                          *)
(***************************************************************************)
EXTENDS Spool, MqttExporter, OtlpExporter

CONSTANTS mqtt, otlp   \* the two exporters, as Configs names them

ASSUME DeliveryAssumption ==
  /\ mqtt # otlp /\ Exporters = {mqtt, otlp}
  /\ Published = 1..MaxEvents /\ Posted = 1..MaxEvents

deliveryVars == <<vars, mqttVars, otlpVars>>

DeliveryInit == Init /\ MqttInit /\ OtlpInit

\* The exporters share the fate of the process.
WithExporters ==
  IF Up' THEN UNCHANGED <<mqttVars, otlpVars>> ELSE MqttAbandon /\ OtlpAbandon

\* The agent's thread outside the exporters.
OwnStep ==
  /\ \/ \E t \in 0..MaxEpoch, s \in Sizes : NewEntry(t, s)
     \/ Store \/ StepEnd \/ Drain
  /\ WithExporters

Exporting(x) == pc = "export" /\ exporters[xi] = x

\* The drain calls the next exporter, ...
CallExporter ==
  /\ UNCHANGED vars
  /\ \/ Exporting(mqtt) /\ MqttCall(entry.ev) /\ UNCHANGED otlpVars
     \/ Exporting(otlp) /\ OtlpCall(entry.ev) /\ UNCHANGED mqttVars

\* ... which works, waits and gives up in the agent's thread ...
ExporterStep ==
  /\ UNCHANGED vars
  /\ \/ MqttStep /\ UNCHANGED otlpVars
     \/ OtlpStep /\ UNCHANGED mqttVars

\* Mutant: the result of the last exporter is not looked at.
MqttOk_Ignored == TRUE

MqttOk == mpc = "ok"

\* ... and hands back its result.
ReturnFromMqtt ==
  /\ Exporting(mqtt)
  /\ MqttReturn /\ UNCHANGED otlpVars
  /\ IF MqttOk THEN ExportOk(mqtt) ELSE ExportFail(mqtt, entry.ev \in broker)

ReturnFromOtlp ==
  /\ Exporting(otlp)
  /\ OtlpReturn /\ UNCHANGED mqttVars
  /\ IF hpc = "ok" THEN ExportOk(otlp) ELSE ExportFail(otlp, entry.ev \in server)

Thread == OwnStep \/ CallExporter \/ ExporterStep \/ ReturnFromMqtt \/ ReturnFromOtlp

\* What the backends and the network do, whatever the agent is doing.
BackendStep ==
  /\ UNCHANGED vars
  /\ \/ BrokerStep /\ UNCHANGED otlpVars
     \/ ServerStep /\ UNCHANGED mqttVars

DeliveryNext ==
  \/ Thread
  \/ BackendStep
  \/ (Boot \/ Crash \/ \E f \in files : Damage(f)) /\ WithExporters

DeliverySpec == DeliveryInit /\ [][DeliveryNext]_deliveryVars

----------------------------------------------------------------------------
\* The service manager restarts the agent and its thread is never suspended
\* for ever: every blocking call has a timeout.
DeliveryFairness ==
  /\ WF_deliveryVars(Boot /\ WithExporters)
  /\ WF_deliveryVars(Thread)

FairDelivery == DeliverySpec /\ DeliveryFairness

Fault == MqttFault \/ OtlpFault

\* A backend that is asked and still connected answers in the end, and the
\* server closes the connection as the request tells it to.
BackendsAnswer ==
  /\ WF_deliveryVars((BrokerConnect(TRUE) \/ BrokerPublish(FALSE)) /\ UNCHANGED <<vars, otlpVars>>)
  /\ WF_deliveryVars((ServerAnswers("taken", TRUE) \/ (reply # "none" /\ ServerCloses(FALSE)))
                     /\ UNCHANGED <<vars, mqttVars>>)

----------------------------------------------------------------------------
(* Properties *)

\* The events a backend has taken.
Taken(x) == IF x = mqtt THEN broker ELSE server

\* The events a backend has taken or may still be reached by.
Seen == broker \cup stray \cup server \cup late
          \cup IF pc = "export" THEN {entry.ev} ELSE {}

\* A call is about the event the drain has in hand, one exporter at a time.
CallInHand ==
  /\ mpc # "idle" => Exporting(mqtt) /\ publishing = entry.ev
  /\ hpc # "idle" => Exporting(otlp) /\ posting = entry.ev
  /\ Up \/ ~ stream

\* What the spool takes for delivered, the backend has taken.
ReceivedIsTaken == \A x \in Exporters : received[x] \subseteq Taken(x)

\* The invariants of the parts and what ties them together.
DeliveryInv == MqttInv /\ OtlpInv /\ CallInHand /\ ReceivedIsTaken

\* "An event is deleted only after every configured event exporter
\* acknowledges it" (README.md): no event that can be read leaves the spool
\* unless it is shed or every configured backend has it, whatever was refused,
\* lost, late or repeated on the way.
RetiredIsTaken ==
  [][ \A f \in Intact : f \notin files' =>
        f.ev \in shed' \/ \A k \in 1..Len(exporters) : f.ev \in Taken(exporters[k]) ]_deliveryVars

\* "preserve event order": while the clock is steady no backend has seen, or
\* can still be reached by, an event recorded after one of its boot that is
\* pending; and none sees an event that was never in the spool.
SeenInOrder ==
  \A e \in Seen : \E i \in issued :
    /\ i.ev = e
    /\ SteadyClock => \A f \in Intact : f.boot = i.boot => e <= f.ev

\* With exporters configured, no more deaths and no more faults, every pending
\* event leaves the spool: a connection the broker has closed, or one with a
\* repeated PUBACK on it, costs one failed call and no more.
PendingLeaves ==
  <>[](exporters # <<>>) /\ <>[][~ Fault]_deliveryVars /\ BackendsAnswer =>
    \A e \in 1..MaxEvents : [](e \in {f.ev : f \in Intact} => <>(e \notin {f.ev : f \in Intact}))
==============================================================================

---------------------------- MODULE DeliveryProofs ----------------------------
(***************************************************************************)
(* Proofs about the spool and its exporters together.  A step of Delivery  *)
(* is a step, or none, of each of the three parts (Projects), so each      *)
(* keeps the invariant proved for it alone; what is left is what ties them *)
(* together: the call in hand, and that the spool counts as received only  *)
(* what the backends have.                                                 *)
(***************************************************************************)
EXTENDS Delivery, SpoolRefinement, ExporterProofs

\* What the exporters hand back is about a file of the spool.
LEMMA EntryPublished ==
  ASSUME IInv, pc = "export"
  PROVE  entry.ev \in Published /\ entry.ev \in Posted /\ entry \in files
<1>1. entry \in files
  BY DEF IInv, DrainProgress, Draining, Oldest, OldestOf
<1> QED
  BY <1>1, KnownEvent, DeliveryAssumption

LEMMA MqttAbandons == MqttAbandon => [MqttNext]_mqttVars
BY DEF MqttNext

LEMMA OtlpAbandons == OtlpAbandon => [OtlpNext]_otlpVars
BY DEF OtlpNext

LEMMA SharedFate == WithExporters => [MqttNext]_mqttVars /\ [OtlpNext]_otlpVars
<1>1. CASE Up'
  BY <1>1 DEF WithExporters, mqttVars, otlpVars
<1>2. CASE ~ Up'
  BY <1>2, MqttAbandons, OtlpAbandons DEF WithExporters
<1> QED BY <1>1, <1>2

LEMMA Projects ==
  IInv /\ [DeliveryNext]_deliveryVars =>
    [Next]_vars /\ [MqttNext]_mqttVars /\ [OtlpNext]_otlpVars
<1> SUFFICES ASSUME IInv, [DeliveryNext]_deliveryVars
             PROVE  [Next]_vars /\ [MqttNext]_mqttVars /\ [OtlpNext]_otlpVars
  OBVIOUS
<1>1. CASE OwnStep
  BY <1>1, SharedFate DEF OwnStep, Next, Agent
<1>2. CASE CallExporter
  BY <1>2, EntryPublished DEF CallExporter, Exporting, MqttNext, OtlpNext
<1>3. CASE ExporterStep
  BY <1>3 DEF ExporterStep, MqttNext, OtlpNext
<1>4. CASE ReturnFromMqtt
  <2>1. MqttReturn /\ UNCHANGED otlpVars /\ (ExportOk(mqtt) \/ ExportFail(mqtt, entry.ev \in broker))
    BY <1>4 DEF ReturnFromMqtt
  <2>2. mqtt \in Exporters /\ (entry.ev \in broker) \in BOOLEAN
    BY DeliveryAssumption
  <2> QED
    BY <2>1, <2>2 DEF Next, Agent, Export, MqttNext
<1>5. CASE ReturnFromOtlp
  <2>1. OtlpReturn /\ UNCHANGED mqttVars /\ (ExportOk(otlp) \/ ExportFail(otlp, entry.ev \in server))
    BY <1>5 DEF ReturnFromOtlp
  <2>2. otlp \in Exporters /\ (entry.ev \in server) \in BOOLEAN
    BY DeliveryAssumption
  <2> QED
    BY <2>1, <2>2 DEF Next, Agent, Export, OtlpNext
<1>6. CASE BackendStep
  BY <1>6 DEF BackendStep, MqttNext, OtlpNext
<1>7. CASE (Boot \/ Crash \/ \E f \in files : Damage(f)) /\ WithExporters
  BY <1>7, SharedFate DEF Next
<1>8. CASE UNCHANGED deliveryVars
  BY <1>8 DEF deliveryVars
<1> QED
  BY <1>1, <1>2, <1>3, <1>4, <1>5, <1>6, <1>7, <1>8 DEF DeliveryNext, Thread

LEMMA BackendsKeep ==
  [MqttNext]_mqttVars /\ [OtlpNext]_otlpVars => broker \subseteq broker' /\ server \subseteq server'
<1>1. [MqttNext]_mqttVars => broker \subseteq broker'
  BY DEF MqttNext, MqttCall, MqttStep, ConnectFails, ConnectSent, ConnackAccepted, ConnackRefused,
         ConnackMissing, PublishSent, PublishFails, PubackRead, PubackMismatch, PubackMissing,
         BrokerStep, BrokerConnect, BrokerPublish, BrokerClose, StrayArrives, MqttReturn,
         MqttAbandon, mqttVars
<1>2. [OtlpNext]_otlpVars => server \subseteq server'
  BY DEF OtlpNext, OtlpCall, OtlpStep, RequestFails, RequestSent, ResponseRead, ResponseTimeout,
         ServerStep, ServerAnswers, ServerCloses, LateArrives, OtlpReturn, OtlpAbandon, otlpVars
<1> QED BY <1>1, <1>2

\* Outside the exporters no call is under way.
LEMMA NoCall ==
  ASSUME CallInHand, pc # "export"
  PROVE  mpc = "idle" /\ hpc = "idle"
BY DEF CallInHand, Exporting

LEMMA OwnStepOutside == OwnStep => pc # "export"
BY DEF OwnStep, NewEntry, Store, StoreExisting, StoreTempTaken, StoreTemp, Rename, LimitDrop,
       LimitDone, JournalDigits, JournalNewline, StepEnd, Drain, DrainEnd, Quarantine,
       DrainRead, Remove

LEMMA CallInHandStep ==
  ASSUME IInv, MqttInv, OtlpInv, CallInHand, [DeliveryNext]_deliveryVars
  PROVE  CallInHand'
<1>1. CASE OwnStep
  <2>1. CASE Up'
    BY <1>1, <2>1, OwnStepOutside, NoCall DEF OwnStep, WithExporters, CallInHand, mqttVars, otlpVars
  <2>2. CASE ~ Up'
    BY <1>1, <2>2, HungUp DEF OwnStep, WithExporters, CallInHand, MqttAbandon, OtlpAbandon
  <2> QED BY <2>1, <2>2
<1>2. CASE CallExporter
  BY <1>2, DeliveryAssumption
     DEF CallExporter, MqttCall, OtlpCall, CallInHand, Exporting, vars, mqttVars, otlpVars, Up
<1>3. CASE ExporterStep
  <2>1. pc = "export"
    <3>1. MqttStep => mpc # "idle"
      BY DEF MqttStep, ConnectFails, ConnectSent, ConnackAccepted, ConnackRefused, ConnackMissing,
             PublishSent, PublishFails, PubackRead, PubackMismatch, PubackMissing
    <3>2. OtlpStep => hpc # "idle"
      BY DEF OtlpStep, RequestFails, RequestSent, ResponseRead, ResponseTimeout
    <3> QED
      BY <1>3, <3>1, <3>2 DEF ExporterStep, CallInHand, Exporting
  <2>2. CASE MqttStep /\ UNCHANGED otlpVars
    <3>1. publishing' = publishing /\ mpc # "idle"
      BY <2>2 DEF MqttStep, ConnectFails, ConnectSent, ConnackAccepted, ConnackRefused, ConnackMissing,
             PublishSent, PublishFails, PubackRead, PubackMismatch, PubackMissing
    <3> QED
      BY <1>3, <2>1, <2>2, <3>1 DEF ExporterStep, CallInHand, Exporting, vars, otlpVars, Up
  <2>3. CASE OtlpStep /\ UNCHANGED mqttVars
    <3>1. posting' = posting /\ hpc # "idle"
      BY <2>3 DEF OtlpStep, RequestFails, RequestSent, ResponseRead, ResponseTimeout
    <3> QED
      BY <1>3, <2>1, <2>3, <3>1 DEF ExporterStep, CallInHand, Exporting, vars, mqttVars, Up
  <2> QED
    BY <1>3, <2>2, <2>3 DEF ExporterStep
<1>4. CASE ReturnFromMqtt
  <2>1. hpc = "idle" /\ hpc' = "idle" /\ mpc' = "idle"
    BY <1>4, DeliveryAssumption DEF ReturnFromMqtt, MqttReturn, CallInHand, Exporting, otlpVars
  <2>2. pc' \in {"remove", "export", "step"}
    BY <1>4 DEF ReturnFromMqtt, ExportOk, ExportFail
  <2> QED
    BY <2>1, <2>2 DEF CallInHand, Up
<1>5. CASE ReturnFromOtlp
  <2>1. mpc = "idle" /\ mpc' = "idle" /\ hpc' = "idle"
    BY <1>5, DeliveryAssumption DEF ReturnFromOtlp, OtlpReturn, CallInHand, Exporting, mqttVars
  <2>2. pc' \in {"remove", "export", "step"}
    BY <1>5 DEF ReturnFromOtlp, ExportOk, ExportFail
  <2> QED
    BY <2>1, <2>2 DEF CallInHand, Up
<1>6. CASE BackendStep
  <2>1. BrokerStep => UNCHANGED <<mpc, publishing, stream>>
    BY DEF BrokerStep, BrokerConnect, BrokerPublish, BrokerClose, StrayArrives
  <2>2. ServerStep => UNCHANGED <<hpc, posting>>
    BY DEF ServerStep, ServerAnswers, ServerCloses, LateArrives
  <2> QED
    BY <1>6, <2>1, <2>2 DEF BackendStep, CallInHand, Exporting, vars, mqttVars, otlpVars, Up
<1>7. CASE Boot /\ WithExporters
  <2>1. ~ Up /\ pc' = "step"
    BY <1>7 DEF Boot, Start
  <2> QED
    BY <1>7, <2>1, NoCall DEF WithExporters, CallInHand, Up, mqttVars, otlpVars
<1>8. CASE Crash /\ WithExporters
  <2>1. ~ Up'
    BY <1>8 DEF Crash, Exit, Up
  <2> QED
    BY <1>8, <2>1, HungUp DEF WithExporters, CallInHand, MqttAbandon, OtlpAbandon
<1>9. CASE (\E f \in files : Damage(f)) /\ WithExporters
  <2>1. UNCHANGED <<pc, exporters, xi, entry>>
    BY <1>9 DEF Damage, process
  <2>2. CASE Up'
    BY <1>9, <2>1, <2>2 DEF WithExporters, CallInHand, Exporting, mqttVars, otlpVars, Up
  <2>3. CASE ~ Up'
    BY <1>9, <2>3, HungUp DEF WithExporters, CallInHand, MqttAbandon, OtlpAbandon
  <2> QED BY <2>2, <2>3
<1>10. CASE UNCHANGED deliveryVars
  BY <1>10 DEF deliveryVars, CallInHand, Exporting, vars, mqttVars, otlpVars, Up
<1> QED
  BY <1>1, <1>2, <1>3, <1>4, <1>5, <1>6, <1>7, <1>8, <1>9, <1>10 DEF DeliveryNext, Thread

LEMMA ReceivedIsTakenStep ==
  ASSUME IInv, DeliveryInv, [DeliveryNext]_deliveryVars
  PROVE  ReceivedIsTaken'
<1>1. broker \subseteq broker' /\ server \subseteq server'
  BY Projects, BackendsKeep
<1>2. received \in [Exporters -> SUBSET Nat] /\ Exporters = {mqtt, otlp} /\ mqtt # otlp
  BY DeliveryAssumption DEF IInv, TypeOK
<1>3. CASE received' = received
  BY <1>1, <1>2, <1>3 DEF DeliveryInv, ReceivedIsTaken, Taken
<1>4. CASE ReturnFromMqtt
  <2>1. Exporting(mqtt) /\ mpc \in {"ok", "err"} /\ publishing = entry.ev
    BY <1>4 DEF ReturnFromMqtt, MqttReturn, DeliveryInv, CallInHand
  <2>2. mpc = "ok" => entry.ev \in broker
    BY <2>1 DEF DeliveryInv, MqttInv, OkMeansTaken
  <2>3. \/ received' = received
        \/ entry.ev \in broker /\ received' = [received EXCEPT ![mqtt] = @ \cup {entry.ev}]
    BY <1>4, <2>2 DEF ReturnFromMqtt, MqttOk, ExportOk, ExportFail
  <2>4. CASE entry.ev \in broker /\ received' = [received EXCEPT ![mqtt] = @ \cup {entry.ev}]
    <3>1. received'[otlp] = received[otlp] /\ received'[mqtt] = received[mqtt] \cup {entry.ev}
      BY <1>2, <2>4
    <3> QED
      BY <1>1, <1>2, <2>4, <3>1 DEF DeliveryInv, ReceivedIsTaken, Taken
  <2> QED
    BY <1>3, <2>3, <2>4
<1>5. CASE ReturnFromOtlp
  <2>1. Exporting(otlp) /\ hpc \in {"ok", "err"} /\ posting = entry.ev
    BY <1>5 DEF ReturnFromOtlp, OtlpReturn, DeliveryInv, CallInHand
  <2>2. hpc = "ok" => entry.ev \in server
    BY <2>1 DEF DeliveryInv, OtlpInv, ReplyIsOurs
  <2>3. \/ received' = received
        \/ entry.ev \in server /\ received' = [received EXCEPT ![otlp] = @ \cup {entry.ev}]
    BY <1>5, <2>2 DEF ReturnFromOtlp, ExportOk, ExportFail
  <2>4. CASE entry.ev \in server /\ received' = [received EXCEPT ![otlp] = @ \cup {entry.ev}]
    <3>1. received'[mqtt] = received[mqtt] /\ received'[otlp] = received[otlp] \cup {entry.ev}
      BY <1>2, <2>4
    <3> QED
      BY <1>1, <1>2, <2>4, <3>1 DEF DeliveryInv, ReceivedIsTaken, Taken
  <2> QED
    BY <1>3, <2>3, <2>4
<1>6. OwnStep => received' = received
  BY DEF OwnStep, NewEntry, Store, StoreExisting, StoreTempTaken, StoreTemp, Rename, LimitDrop,
         LimitDone, JournalDigits, JournalNewline, StepEnd, Drain, DrainEnd, Quarantine,
         DrainRead, Remove, history
<1>7. Boot \/ Crash \/ (\E f \in files : Damage(f)) => received' = received
  BY DEF Boot, Start, Crash, Damage, history
<1>8. CallExporter \/ ExporterStep \/ BackendStep \/ UNCHANGED deliveryVars => received' = received
  BY DEF CallExporter, ExporterStep, BackendStep, deliveryVars, vars
<1> QED
  BY <1>3, <1>4, <1>5, <1>6, <1>7, <1>8 DEF DeliveryNext, Thread

LEMMA DeliveryInvInit == DeliveryInit => IInv /\ DeliveryInv
<1> SUFFICES ASSUME DeliveryInit PROVE IInv /\ DeliveryInv
  OBVIOUS
<1>1. IInv /\ MqttInv /\ OtlpInv
  BY InvariantInit, MqttInitInv, OtlpInitInv DEF DeliveryInit
<1>2. CallInHand
  BY DEF DeliveryInit, MqttInit, OtlpInit, CallInHand
<1>3. ReceivedIsTaken
  BY DEF DeliveryInit, Init, ReceivedIsTaken
<1> QED
  BY <1>1, <1>2, <1>3 DEF DeliveryInv

LEMMA DeliveryInvStep ==
  IInv /\ DeliveryInv /\ [DeliveryNext]_deliveryVars => IInv' /\ DeliveryInv'
<1> SUFFICES ASSUME IInv, DeliveryInv, [DeliveryNext]_deliveryVars PROVE IInv' /\ DeliveryInv'
  OBVIOUS
<1>1. IInv' /\ MqttInv' /\ OtlpInv'
  BY Projects, InvariantStep, MqttStepInv, OtlpStepInv DEF DeliveryInv
<1>2. CallInHand'
  BY CallInHandStep DEF DeliveryInv
<1>3. ReceivedIsTaken'
  BY ReceivedIsTakenStep
<1> QED
  BY <1>1, <1>2, <1>3 DEF DeliveryInv

\* Composed with its exporters the spool keeps its invariant, the exporters keep
\* theirs, and what the spool counts as received the backends have taken.
THEOREM DeliveryCorrect == DeliverySpec => [](IInv /\ DeliveryInv)
<1>1. DeliveryInit => IInv /\ DeliveryInv
  BY DeliveryInvInit
<1>2. (IInv /\ DeliveryInv) /\ [DeliveryNext]_deliveryVars => (IInv /\ DeliveryInv)'
  BY DeliveryInvStep
<1> QED
  BY <1>1, <1>2, PTL DEF DeliverySpec

\* The composition is still the spool of Spool.tla: everything proved of it, the
\* implementation of DeliveryQueue included, holds with the real exporters.
THEOREM DeliveryIsSpool == DeliverySpec => Spec /\ ImplementsQueue
<1>1. DeliveryInit => Init
  BY DEF DeliveryInit
<1>2. IInv /\ [DeliveryNext]_deliveryVars => [Next]_vars
  BY Projects
<1> QED
  BY <1>1, <1>2, DeliveryCorrect, SpoolImplementsQueue, PTL DEF DeliverySpec, Spec

\* Nor does the spool ask of an exporter what it was not built for.
THEOREM DeliveryUsesExporters == DeliverySpec => MqttImplementsContract /\ OtlpImplementsContract
<1>1. DeliveryInit => MqttInit /\ OtlpInit
  BY DEF DeliveryInit
<1>2. IInv /\ [DeliveryNext]_deliveryVars => [MqttNext]_mqttVars /\ [OtlpNext]_otlpVars
  BY Projects
<1> QED
  BY <1>1, <1>2, DeliveryCorrect, MqttRefinesContract, OtlpRefinesContract, PTL
     DEF DeliverySpec, MqttSpec, OtlpSpec

\* No readable event leaves the spool unless it is shed or every backend that is
\* configured has taken it.
THEOREM RetiredIsTakenHolds == DeliverySpec => RetiredIsTaken
<1> DEFINE Retires == \A f \in Intact : f \notin files' =>
                        f.ev \in shed' \/ \A k \in 1..Len(exporters) : f.ev \in Taken(exporters[k])
<1>1. ASSUME IInv, DeliveryInv, [DeliveryNext]_deliveryVars PROVE [Retires]_deliveryVars
  <2> SUFFICES ASSUME NEW f \in Intact, f \notin files'
               PROVE  f.ev \in shed' \/ \A k \in 1..Len(exporters) : f.ev \in Taken(exporters[k])
    OBVIOUS
  <2>1. f \in files /\ f \notin damaged
    BY DEF Intact
  <2>2. [Next]_vars
    BY <1>1, Projects
  <2>3. CASE Remove
    <3>1. f = entry /\ pc = "remove"
      BY <2>1, <2>3 DEF Remove
    <3>2. \A k \in 1..Len(exporters) : entry.ev \in received[exporters[k]]
      BY <1>1, <3>1 DEF IInv, DrainProgress
    <3>3. \A k \in 1..Len(exporters) : exporters[k] \in Exporters
      BY <1>1 DEF IInv, TypeOK
    <3> QED
      BY <1>1, <3>1, <3>2, <3>3 DEF DeliveryInv, ReceivedIsTaken
  <2>4. ASSUME NEW h \in files, LimitDrop(h) PROVE f.ev \in shed'
    BY <2>1, <2>4 DEF LimitDrop
  <2>5. ASSUME NEW h \in files, Quarantine(h) PROVE FALSE
    BY <2>1, <2>5 DEF Quarantine
  <2>6. \/ Remove
        \/ \E h \in files : LimitDrop(h) \/ Quarantine(h)
        \/ files \subseteq files'
    BY <2>2 DEF Next, Agent, Boot, Store, Drain, Export, Start, Crash, NewEntry, StoreExisting,
         StoreTempTaken, Exit, StoreTemp, Rename, LimitDone, JournalDigits, JournalNewline, StepEnd,
         DrainEnd, DrainRead, ExportOk, ExportFail, Damage, vars, disk
  <2> QED
    BY <2>1, <2>3, <2>4, <2>5, <2>6
<1> QED
  BY <1>1, DeliveryCorrect, PTL DEF DeliverySpec, RetiredIsTaken

----------------------------------------------------------------------------
(* Order *)

\* PUBLISH packets under way carry the event in hand.
LEMMA InFlightInHand ==
  ASSUME DeliveryInv
  PROVE  InFlight \subseteq IF pc = "export" THEN {entry.ev} ELSE {}
<1>1. CASE up = <<>>
  BY <1>1 DEF InFlight
<1>2. CASE up # <<>>
  <2>1. up = <<Connect>> \/ (mpc = "puback" /\ up = <<Publish(packetId, publishing)>>)
    BY <1>2 DEF DeliveryInv, MqttInv, MqttTypeOK, LinkInSync
  <2>2. mpc = "puback" => pc = "export" /\ publishing = entry.ev
    BY DEF DeliveryInv, CallInHand, Exporting
  <2> QED
    BY <2>1, <2>2 DEF InFlight, Connect, Publish
<1> QED BY <1>1, <1>2

LEMMA HandSeen == pc = "export" => entry.ev \in Seen
BY DEF Seen

\* What the MQTT exporter and the broker do reaches only what is seen already.
LEMMA MqttSeesNothingNew ==
  ASSUME DeliveryInv, [MqttNext]_mqttVars
  PROVE  broker' \cup stray' \subseteq Seen
<1> DEFINE Old == broker \cup stray \cup InFlight
<1>1. Old \subseteq Seen
  BY InFlightInHand DEF Seen
<1>2. CASE BrokerStep
  <2>1. ASSUME NEW b \in BOOLEAN, BrokerPublish(b) PROVE broker' \cup stray' \subseteq Old
    <3>1. Head(up).ev \in InFlight
      <4>1. up = <<Publish(packetId, publishing)>> /\ Head(up).ev = publishing
        BY <2>1 DEF BrokerPublish, DeliveryInv, MqttInv, MqttTypeOK, LinkInSync, Connect, Publish
      <4>2. Len(up) = 1 /\ up[1].type = "publish" /\ up[1].ev = publishing
        BY <4>1 DEF Publish
      <4> QED
        BY <4>1, <4>2 DEF InFlight
    <3> QED
      BY <2>1, <3>1 DEF BrokerPublish
  <2>2. ASSUME NEW e \in Published, StrayArrives(e) PROVE broker' \cup stray' \subseteq Old
    BY <2>2 DEF StrayArrives
  <2>3. ASSUME NEW b \in BOOLEAN, BrokerConnect(b) \/ BrokerClose PROVE broker' \cup stray' \subseteq Old
    BY <2>3 DEF BrokerConnect, BrokerClose
  <2> QED
    BY <1>1, <1>2, <2>1, <2>2, <2>3 DEF BrokerStep
<1>3. CASE MqttAbandon \/ MqttReturn \/ MqttStep \/ UNCHANGED mqttVars
          \/ \E e \in Published : MqttCall(e)
  <2>1. broker' = broker /\ stray' \subseteq stray \cup InFlight
    BY <1>3 DEF MqttAbandon, MqttReturn, MqttCall, MqttStep, ConnectFails, ConnectSent, ConnackAccepted,
           ConnackRefused, ConnackMissing, PublishSent, PublishFails, PubackRead, PubackMismatch,
           PubackMissing, GiveUp, HangUp, mqttVars
  <2> QED
    BY <1>1, <2>1
<1> QED
  BY <1>2, <1>3 DEF MqttNext

LEMMA OtlpSeesNothingNew ==
  ASSUME DeliveryInv, [OtlpNext]_otlpVars
  PROVE  server' \cup late' \subseteq Seen
<1>1. hpc \in {"connect", "response"} => posting \in Seen
  BY HandSeen DEF DeliveryInv, CallInHand, Exporting
<1>2. request => hpc = "response"
  BY DEF DeliveryInv, OtlpInv, ReplyIsOurs
<1>3. server \cup late \subseteq Seen
  BY DEF Seen
<1>4. CASE OtlpStep
  <2>1. ASSUME NEW whole \in BOOLEAN, RequestFails(whole)
        PROVE  hpc = "connect" /\ server' = server /\ late' \subseteq late \cup {posting}
    BY <2>1 DEF RequestFails
  <2>2. ASSUME RequestSent \/ ResponseRead \/ ResponseTimeout
        PROVE  hpc \in {"connect", "response"} /\ server' = server /\ late' \subseteq late \cup {posting}
    BY <2>2 DEF RequestSent, ResponseRead, ResponseTimeout, Disconnect
  <2> QED
    BY <1>1, <1>3, <1>4, <2>1, <2>2 DEF OtlpStep
<1>5. CASE ServerStep
  <2>1. ASSUME NEW a \in {"taken", "other", "cut"}, NEW stored \in BOOLEAN, ServerAnswers(a, stored)
        PROVE  hpc = "response" /\ late' = late /\ server' \subseteq server \cup {posting}
    BY <1>2, <2>1 DEF ServerAnswers
  <2>2. ASSUME NEW lost \in BOOLEAN, ServerCloses(lost) PROVE late' = late /\ server' = server
    BY <2>2 DEF ServerCloses
  <2>3. ASSUME NEW e \in Posted, LateArrives(e) PROVE server' \cup late' \subseteq server \cup late
    BY <2>3 DEF LateArrives
  <2> QED
    BY <1>1, <1>3, <1>5, <2>1, <2>2, <2>3 DEF ServerStep
<1>6. CASE OtlpAbandon \/ OtlpReturn \/ UNCHANGED otlpVars \/ \E e \in Posted : OtlpCall(e)
  <2>1. server' = server /\ late' \subseteq IF request THEN late \cup {posting} ELSE late
    BY <1>6 DEF OtlpAbandon, OtlpReturn, OtlpCall, Disconnect, otlpVars
  <2> QED
    BY <1>1, <1>2, <1>3, <2>1
<1> QED
  BY <1>4, <1>5, <1>6 DEF OtlpNext

\* Event e was recorded, and no pending event of its boot before it.
InOrder(e) ==
  \E i \in issued : i.ev = e /\ (SteadyClock => \A f \in Intact : f.boot = i.boot => e <= f.ev)

\* A step of the spool adds at most one readable file, of an event after all others.
LEMMA NewFilesAreNewest ==
  ASSUME IInv, [Next]_vars, NEW f \in Intact', f \notin Intact
  PROVE  f.ev = created + 1
<1>1. CASE Rename
  <2>1. f = entry /\ pc = "temp"
    BY <1>1 DEF Rename, Intact
  <2> QED
    BY <2>1 DEF IInv, EventOrder, Storing
<1>2. Rename \/ Intact' \subseteq Intact
  BY DEF Next, Agent, Boot, Store, Drain, Export, Start, Crash, NewEntry, StoreExisting,
       StoreTempTaken, Exit, StoreTemp, LimitDrop, LimitDone, JournalDigits, JournalNewline, StepEnd,
       DrainEnd, Quarantine, DrainRead, ExportOk, ExportFail, Remove, Damage, vars, disk, Intact
<1> QED
  BY <1>1, <1>2

LEMMA IssuedGrows == [Next]_vars => issued \subseteq issued'
BY DEF Next, Agent, Boot, Store, Drain, Export, Start, Crash, NewEntry, StoreExisting,
     StoreTempTaken, StoreTemp, Rename, LimitDrop, LimitDone, JournalDigits, JournalNewline, StepEnd,
     DrainEnd, Quarantine, DrainRead, ExportOk, ExportFail, Remove, Damage, vars, history

LEMMA InOrderKept ==
  ASSUME IInv, [Next]_vars, NEW e, InOrder(e)
  PROVE  InOrder(e)'
<1>1. PICK i \in issued : i.ev = e /\ (SteadyClock => \A f \in Intact : f.boot = i.boot => e <= f.ev)
  BY DEF InOrder
<1>2. i \in issued' /\ e \in Nat /\ created \in Nat /\ e <= created
  BY <1>1, IssuedGrows DEF IInv, EventOrder, TypeOK
<1>3. ASSUME SteadyClock, NEW f \in Intact', f.boot = i.boot PROVE e <= f.ev
  <2>1. CASE f \in Intact
    BY <1>1, <1>3, <2>1
  <2>2. CASE f \notin Intact
    BY <1>2, <2>2, NewFilesAreNewest
  <2> QED BY <2>1, <2>2
<1> QED
  BY <1>1, <1>2, <1>3 DEF InOrder

\* The drain reads the oldest file, and names sort the files of a boot.
LEMMA DrainReadInOrder ==
  ASSUME IInv, NEW f \in files, DrainRead(f)
  PROVE  InOrder(f.ev)'
<1>1. /\ Oldest(f) /\ f \in Intact /\ Intact' = Intact /\ issued' = issued
  BY ListedOldest DEF DrainRead, Intact, disk, history, IInv
<1>2. Identity(f) \in issued /\ Identity(f).ev = f.ev /\ Identity(f).boot = f.boot
  BY DEF IInv, EventOrder, Identity
<1>3. ASSUME SteadyClock, NEW g \in Intact, g.boot = f.boot PROVE f.ev <= g.ev
  <2> SUFFICES ASSUME ~ f.ev <= g.ev PROVE FALSE
    OBVIOUS
  <2>1. /\ g \in files /\ f.ev \in Nat /\ g.ev \in Nat
        /\ f.epoch \in Nat /\ g.epoch \in Nat /\ f.seq \in Nat /\ g.seq \in Nat
    BY DEF Intact, IInv, TypeOK, Entry
  <2>2. g.epoch <= f.epoch /\ g.seq < f.seq
    BY <1>1, <1>3, <2>1 DEF IInv, NameOrder
  <2>3. NameBefore(g, f)
    BY <1>3, <2>1, <2>2 DEF NameBefore
  <2> QED
    BY <1>1, <2>1, <2>3 DEF Oldest, OldestOf
<1> QED
  BY <1>1, <1>2, <1>3 DEF InOrder

\* An event comes into the exporters' hands by being read.
LEMMA HandComesFromDrain ==
  ASSUME [Next]_vars, pc' = "export"
  PROVE  \/ pc = "export" /\ entry' = entry
         \/ \E f \in files : DrainRead(f) /\ entry' = f
BY DEF Next, Agent, Boot, Store, Drain, Export, Start, Crash, Exit, NewEntry, StoreExisting,
     StoreTempTaken, StoreTemp, Rename, LimitDrop, LimitDone, JournalDigits, JournalNewline, StepEnd,
     DrainEnd, Quarantine, DrainRead, ExportOk, ExportFail, Remove, Damage, vars

LEMMA SeenInOrderStep ==
  ASSUME IInv, DeliveryInv, SeenInOrder, [DeliveryNext]_deliveryVars
  PROVE  SeenInOrder'
<1>1. [Next]_vars /\ [MqttNext]_mqttVars /\ [OtlpNext]_otlpVars
  BY Projects
<1>2. \A e \in Seen : InOrder(e)'
  BY <1>1, InOrderKept DEF SeenInOrder, InOrder
<1>3. broker' \cup stray' \subseteq Seen /\ server' \cup late' \subseteq Seen
  BY <1>1, MqttSeesNothingNew, OtlpSeesNothingNew
<1>4. pc' = "export" => InOrder(entry.ev)'
  <2> SUFFICES ASSUME pc' = "export" PROVE InOrder(entry.ev)'
    OBVIOUS
  <2>1. CASE pc = "export" /\ entry' = entry
    BY <1>2, <2>1, HandSeen
  <2>2. ASSUME NEW f \in files, DrainRead(f), entry' = f PROVE InOrder(entry.ev)'
    BY <2>2, DrainReadInOrder
  <2> QED
    BY <1>1, <2>1, <2>2, HandComesFromDrain
<1>5. \A e \in Seen' : InOrder(e)'
  BY <1>2, <1>3, <1>4 DEF Seen
<1> QED
  BY <1>5 DEF SeenInOrder, InOrder

\* While the clock is steady no backend has seen, or can be reached by, an event
\* newer than a pending one of its boot, late packets of dead processes included.
THEOREM SeenInOrderHolds == DeliverySpec => []SeenInOrder
<1>1. DeliveryInit => SeenInOrder
  BY DEF DeliveryInit, Init, MqttInit, OtlpInit, SeenInOrder, Seen
<1>2. (IInv /\ DeliveryInv) /\ SeenInOrder /\ [DeliveryNext]_deliveryVars => SeenInOrder'
  BY SeenInOrderStep
<1> QED
  BY <1>1, <1>2, DeliveryCorrect, PTL DEF DeliverySpec
----------------------------------------------------------------------------
(* Copies: none without a fault or a kill *)

\* Neither the network nor a backend is at fault, and no drain is killed.
Calm == ~ Fault /\ ~ (Crash /\ Draining)

\* What a backend has, or may still get, its exporter has reported, but for the call
\* under way.
ReportedOrInHand ==
  /\ broker \cup stray \subseteq
       received[mqtt] \cup IF mpc \in {"puback", "ok"} THEN {publishing} ELSE {}
  /\ server \cup late \subseteq
       received[otlp] \cup IF hpc \in {"response", "ok"} THEN {posting} ELSE {}

CalmInv ==
  /\ LinkSound /\ mpc # "err"
  /\ ReplySound /\ hpc # "err"
  /\ ReceivedOnce
  /\ ReportedOrInHand

\* In a calm step no call fails, and the connections stay sound.
LEMMA CalmExporters ==
  ASSUME IInv, DeliveryInv, CalmInv, [DeliveryNext]_deliveryVars, ~ Fault
  PROVE  LinkSound' /\ mpc' # "err" /\ ReplySound' /\ hpc' # "err"
<1>1. [MqttNext]_mqttVars /\ [OtlpNext]_otlpVars
  BY Projects
<1> QED
  BY <1>1, SoundStep, ReplySoundStep DEF DeliveryInv, CalmInv, Fault

\* The drain of a calm step is not cut short.
LEMMA CalmDrain ==
  ASSUME IInv, DeliveryInv, CalmInv, [DeliveryNext]_deliveryVars, Calm
  PROVE  ~ CutShort
<1>1. pc = "export" => pc' # "step"
  <2> SUFFICES ASSUME pc = "export", pc' = "step" PROVE FALSE
    OBVIOUS
  <2>1. ~ OwnStep
    BY OwnStepOutside
  <2>2. ~ (CallExporter \/ ExporterStep \/ BackendStep \/ UNCHANGED deliveryVars)
    BY DEF CallExporter, ExporterStep, BackendStep, deliveryVars, vars
  <2>3. ~ ReturnFromMqtt
    BY DEF ReturnFromMqtt, MqttReturn, MqttOk, ExportOk, CalmInv
  <2>4. ~ ReturnFromOtlp
    BY DEF ReturnFromOtlp, OtlpReturn, ExportOk, CalmInv
  <2>5. ~ (Boot \/ Crash \/ \E f \in files : Damage(f))
    BY DEF Boot, Start, Crash, Exit, Damage, Up
  <2> QED
    BY <2>1, <2>2, <2>3, <2>4, <2>5 DEF DeliveryNext, Thread
<1>2. \A x \in Exporters, d \in BOOLEAN : ~ ExportFail(x, d)
  BY <1>1 DEF ExportFail
<1>3. ~ (Crash /\ (pc = "remove" \/ (pc = "export" /\ xi > 1)))
  BY DEF Calm, Draining
<1> QED
  BY <1>2, <1>3 DEF CutShort

\* What is received stays so.
LEMMA ReceivedGrows ==
  ASSUME IInv, [Next]_vars, NEW x \in Exporters
  PROVE  received[x] \subseteq received'[x]
<1>1. received \in [Exporters -> SUBSET Nat]
  BY DEF IInv, TypeOK
<1>2. ASSUME NEW y \in Exporters, NEW d \in BOOLEAN, ExportOk(y) \/ ExportFail(y, d)
      PROVE  received[x] \subseteq received'[x]
  BY <1>1, <1>2 DEF ExportOk, ExportFail
<1>3. \/ received' = received
      \/ \E y \in Exporters, d \in BOOLEAN : ExportOk(y) \/ ExportFail(y, d)
  BY DEF Next, Agent, Boot, Store, Drain, Export, Start, Crash, NewEntry, StoreExisting,
         StoreTempTaken, StoreTemp, Rename, LimitDrop, LimitDone, JournalDigits, JournalNewline,
         StepEnd, DrainEnd, Quarantine, DrainRead, Remove, Damage, vars, history
<1> QED
  BY <1>2, <1>3

\* Exporters that are abandoned outside a call leave nothing behind.
LEMMA CalmWithExporters ==
  ASSUME DeliveryInv, CalmInv, WithExporters, pc # "export"
  PROVE  /\ broker' = broker /\ stray' \subseteq stray /\ mpc' = "idle" /\ mpc = "idle"
         /\ server' = server /\ late' \subseteq late /\ hpc' = "idle" /\ hpc = "idle"
<1>1. mpc = "idle" /\ hpc = "idle"
  BY NoCall DEF DeliveryInv
<1>2. InFlight = {} /\ ~ request
  BY <1>1, InFlightInHand DEF DeliveryInv, OtlpInv, ReplyIsOurs
<1> QED
  BY <1>1, <1>2 DEF WithExporters, MqttAbandon, OtlpAbandon, HangUp, Disconnect, mqttVars, otlpVars

LEMMA ReportedStep ==
  ASSUME IInv, DeliveryInv, CalmInv, [DeliveryNext]_deliveryVars, Calm
  PROVE  ReportedOrInHand'
<1> USE DEF ReportedOrInHand
<1>0. /\ [Next]_vars /\ mqtt \in Exporters /\ otlp \in Exporters /\ mqtt # otlp
      /\ mpc' # "err" /\ hpc' # "err"
      /\ received \in [Exporters -> SUBSET Nat]
  BY Projects, CalmExporters, DeliveryAssumption DEF Calm, IInv, TypeOK
<1>a. ReportedOrInHand /\ received[mqtt] \subseteq received'[mqtt] /\ received[otlp] \subseteq received'[otlp]
  BY <1>0, ReceivedGrows DEF CalmInv
<1>1. CASE OwnStep
  BY <1>1, <1>a, OwnStepOutside, CalmWithExporters DEF OwnStep
<1>2. CASE CallExporter
  <2>1. MqttCall(entry.ev) => UNCHANGED <<broker, stray>> /\ mpc = "idle"
    BY DEF MqttCall
  <2>2. OtlpCall(entry.ev) => UNCHANGED <<server, late>> /\ hpc = "idle"
    BY DEF OtlpCall
  <2> QED
    BY <1>2, <1>a, <2>1, <2>2 DEF CallExporter, mqttVars, otlpVars
<1>3. ASSUME MqttStep, UNCHANGED otlpVars PROVE ReportedOrInHand'
  <2>1. ConnectSent \/ ConnackAccepted \/ PublishSent \/ PubackRead
    BY <1>0, <1>3 DEF MqttStep, ConnectFails, ConnackRefused, ConnackMissing, PublishFails,
                      PubackMismatch, PubackMissing
  <2>2. /\ UNCHANGED <<broker, stray, publishing>>
        /\ mpc \in {"puback", "ok"} => mpc' \in {"puback", "ok"}
    BY <2>1 DEF ConnectSent, ConnackAccepted, PublishSent, PubackRead
  <2> QED
    BY <1>3, <1>a, <2>2 DEF otlpVars
<1>4. ASSUME OtlpStep, UNCHANGED mqttVars PROVE ReportedOrInHand'
  <2>1. RequestSent \/ (ResponseRead /\ hpc' = "ok")
    BY <1>0, <1>4 DEF OtlpStep, RequestFails, ResponseRead, ResponseTimeout
  <2>2. CASE RequestSent
    BY <1>4, <1>a, <2>2 DEF RequestSent, mqttVars
  <2>3. CASE ResponseRead /\ hpc' = "ok"
    <3>1. reply = "taken" /\ posting \in server /\ hpc = "response" /\ posting' = posting
          /\ server' = server /\ late' \subseteq late \cup {posting}
      BY <2>3 DEF ResponseRead, Accepted, Disconnect, DeliveryInv, OtlpInv, ReplyIsOurs
    <3> QED
      BY <1>4, <1>a, <2>3, <3>1 DEF mqttVars
  <2> QED
    BY <2>1, <2>2, <2>3
<1>5. CASE ReturnFromMqtt
  <2>1. mpc = "ok" /\ publishing = entry.ev /\ mpc' = "idle"
    BY <1>5 DEF ReturnFromMqtt, MqttReturn, CalmInv, DeliveryInv, CallInHand
  <2>2. received'[mqtt] = received[mqtt] \cup {publishing}
    BY <1>0, <1>5, <2>1 DEF ReturnFromMqtt, MqttOk, ExportOk
  <2>3. UNCHANGED <<broker, stray, otlpVars>>
    BY <1>5 DEF ReturnFromMqtt, MqttReturn
  <2> QED
    BY <1>a, <2>1, <2>2, <2>3 DEF otlpVars
<1>6. CASE ReturnFromOtlp
  <2>1. hpc = "ok" /\ posting = entry.ev /\ hpc' = "idle"
    BY <1>6 DEF ReturnFromOtlp, OtlpReturn, CalmInv, DeliveryInv, CallInHand
  <2>2. received'[otlp] = received[otlp] \cup {posting}
    BY <1>0, <1>6, <2>1 DEF ReturnFromOtlp, ExportOk
  <2>3. UNCHANGED <<server, late, mqttVars>>
    BY <1>6 DEF ReturnFromOtlp, OtlpReturn
  <2> QED
    BY <1>a, <2>1, <2>2, <2>3 DEF mqttVars
<1>7. ASSUME BrokerStep, UNCHANGED otlpVars PROVE ReportedOrInHand'
  <2>1. ASSUME NEW b \in BOOLEAN, BrokerPublish(b)
        PROVE  /\ mpc = "puback" /\ broker' = broker \cup {publishing}
               /\ UNCHANGED <<stray, mpc, publishing>>
    BY <2>1 DEF BrokerPublish, DeliveryInv, MqttInv, LinkInSync, Connect, Publish
  <2>2. ASSUME NEW b \in BOOLEAN, BrokerConnect(b) \/ BrokerClose
        PROVE  UNCHANGED <<stray, mpc, publishing, broker>>
    BY <2>2 DEF BrokerConnect, BrokerClose
  <2>3. ASSUME NEW e \in Published, StrayArrives(e)
        PROVE  broker' \cup stray' \subseteq broker \cup stray /\ UNCHANGED <<mpc, publishing>>
    BY <2>3 DEF StrayArrives
  <2> QED
    BY <1>7, <1>a, <2>1, <2>2, <2>3 DEF BrokerStep, otlpVars
<1>8. ASSUME ServerStep, UNCHANGED mqttVars PROVE ReportedOrInHand'
  <2>1. ASSUME NEW a \in {"taken", "other", "cut"}, NEW stored \in BOOLEAN, ServerAnswers(a, stored)
        PROVE  /\ hpc = "response" /\ server' \subseteq server \cup {posting}
               /\ UNCHANGED <<late, hpc, posting>>
    BY <2>1 DEF ServerAnswers, DeliveryInv, OtlpInv, ReplyIsOurs
  <2>2. ASSUME NEW lost \in BOOLEAN, ServerCloses(lost) PROVE UNCHANGED <<server, late, hpc, posting>>
    BY <2>2 DEF ServerCloses
  <2>3. ASSUME NEW e \in Posted, LateArrives(e)
        PROVE  server' \cup late' \subseteq server \cup late /\ UNCHANGED <<hpc, posting>>
    BY <2>3 DEF LateArrives
  <2> QED
    BY <1>8, <1>a, <2>1, <2>2, <2>3 DEF ServerStep, mqttVars
<1>9. CASE (Boot \/ Crash) /\ WithExporters
  <2>1. pc # "export"
    BY <1>9 DEF Boot, Start, Up, Calm, Draining
  <2> QED
    BY <1>9, <1>a, <2>1, CalmWithExporters
<1>10. CASE (\E f \in files : Damage(f)) /\ WithExporters
  <2>1. CASE pc # "export"
    BY <1>10, <1>a, <2>1, CalmWithExporters
  <2>2. CASE pc = "export"
    BY <1>10, <1>a, <2>2 DEF Damage, WithExporters, Up, mqttVars, otlpVars
  <2> QED
    BY <2>1, <2>2
<1>11. CASE UNCHANGED deliveryVars
  BY <1>11, <1>a DEF deliveryVars, mqttVars, otlpVars
<1> QED
  BY <1>1, <1>2, <1>3, <1>4, <1>5, <1>6, <1>7, <1>8, <1>9, <1>10, <1>11
     DEF DeliveryNext, Thread, ExporterStep, BackendStep

LEMMA CalmStep ==
  (IInv /\ DeliveryInv) /\ CalmInv /\ [DeliveryNext]_deliveryVars /\ [Calm]_deliveryVars => CalmInv'
<1> SUFFICES ASSUME IInv, DeliveryInv, CalmInv, [DeliveryNext]_deliveryVars, [Calm]_deliveryVars
             PROVE  CalmInv'
  OBVIOUS
<1>1. CASE UNCHANGED deliveryVars
  <2>1. (LinkSound /\ mpc # "err") => (LinkSound /\ mpc # "err")'
    BY <1>1 DEF deliveryVars, mqttVars, LinkSound
  <2>2. (ReplySound /\ hpc # "err") => (ReplySound /\ hpc # "err")'
    BY <1>1 DEF deliveryVars, otlpVars, ReplySound
  <2>3. ReceivedOnce => ReceivedOnce'
    BY <1>1 DEF deliveryVars, vars, ReceivedOnce, Served
  <2>4. ReportedOrInHand => ReportedOrInHand'
    BY <1>1 DEF deliveryVars, vars, mqttVars, otlpVars, ReportedOrInHand
  <2> QED
    BY <2>1, <2>2, <2>3, <2>4 DEF CalmInv
<1>2. CASE Calm
  <2>1. LinkSound' /\ mpc' # "err" /\ ReplySound' /\ hpc' # "err"
    BY <1>2, CalmExporters DEF Calm
  <2>2. ReceivedOnce'
    BY <1>2, CalmDrain, Projects, ReceivedOnceStep DEF CalmInv
  <2>3. ReportedOrInHand'
    BY <1>2, ReportedStep
  <2> QED
    BY <2>1, <2>2, <2>3 DEF CalmInv
<1> QED
  BY <1>1, <1>2

\* What is sent to a backend it has not got, nor is it on the way there.
SentOnce ==
  [][/\ PublishSent => publishing \notin broker \cup stray
     /\ RequestSent => posting \notin server \cup late]_deliveryVars

\* Each event goes to each backend once, as long as no backend and no network is at
\* fault and no drain is killed: whatever else is killed, restarted, reconfigured,
\* damaged or dropped, consumers then have nothing to deduplicate.
THEOREM SentOnceInCalm == DeliverySpec /\ [][Calm]_deliveryVars => SentOnce
<1>1. DeliveryInit => CalmInv
  BY DEF DeliveryInit, Init, MqttInit, OtlpInit, CalmInv, LinkSound, ReplySound, ReceivedOnce,
         ReportedOrInHand
<1>2. IInv /\ DeliveryInv /\ CalmInv =>
        /\ PublishSent => publishing \notin broker \cup stray
        /\ RequestSent => posting \notin server \cup late
  <2> SUFFICES ASSUME IInv, DeliveryInv, CalmInv
               PROVE  /\ PublishSent => publishing \notin broker \cup stray
                      /\ RequestSent => posting \notin server \cup late
    OBVIOUS
  <2>1. mqtt \in Exporters /\ otlp \in Exporters
    BY DeliveryAssumption
  <2>2. PublishSent => publishing \notin broker \cup stray
    <3> SUFFICES ASSUME PublishSent PROVE publishing \notin broker \cup stray
      OBVIOUS
    <3>1. mpc = "publish" /\ Exporting(mqtt) /\ publishing = entry.ev
      BY DEF PublishSent, DeliveryInv, CallInHand
    <3>2. entry.ev \notin received[mqtt]
      BY <2>1, <3>1, NotYetReceived DEF CalmInv, Exporting
    <3> QED
      BY <3>1, <3>2 DEF CalmInv, ReportedOrInHand
  <2>3. RequestSent => posting \notin server \cup late
    <3> SUFFICES ASSUME RequestSent PROVE posting \notin server \cup late
      OBVIOUS
    <3>1. hpc = "connect" /\ Exporting(otlp) /\ posting = entry.ev
      BY DEF RequestSent, DeliveryInv, CallInHand
    <3>2. entry.ev \notin received[otlp]
      BY <2>1, <3>1, NotYetReceived DEF CalmInv, Exporting
    <3> QED
      BY <3>1, <3>2 DEF CalmInv, ReportedOrInHand
  <2> QED
    BY <2>2, <2>3
<1> QED
  BY <1>1, <1>2, CalmStep, DeliveryCorrect, PTL DEF DeliverySpec, SentOnce
==============================================================================

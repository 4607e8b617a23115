---------------------------- MODULE ExporterProofs ----------------------------
(***************************************************************************)
(* Proofs about the exporters, for every set of events and every number of *)
(* packet identifiers: MqttInv and OtlpInv are inductive, and both         *)
(* exporters implement ExporterContract.  One lemma per action; those of   *)
(* the MQTT exporter rest on LinkInSync, which says what can be under way  *)
(* on a connection at each point of publish().                             *)
(***************************************************************************)
EXTENDS MqttExporter, OtlpExporter, TLAPS

LEMMA MqttInitInv == MqttInit => MqttInv
<1> SUFFICES ASSUME MqttInit PROVE MqttInv
  OBVIOUS
<1>1. MqttTypeOK
  <2>1. up \in Seq(Packet) /\ down \in Seq(Packet)
    BY DEF MqttInit
  <2>2. nextId \in 1..MaxPacketId /\ packetId \in 0..MaxPacketId
    BY PacketIdAssumption DEF MqttInit
  <2> QED
    BY <2>1, <2>2 DEF MqttInit, MqttTypeOK
<1>2. LinkInSync /\ OkMeansTaken
  BY DEF MqttInit, LinkInSync, OkMeansTaken
<1> QED BY <1>1, <1>2 DEF MqttInv

LEMMA IdAdvances ==
  ASSUME NEW i \in 1..MaxPacketId
  PROVE  IdAfter(i) \in 1..MaxPacketId /\ IdAfter(i) # i
BY PacketIdAssumption DEF IdAfter

LEMMA InFlightPublished ==
  ASSUME MqttInv
  PROVE  InFlight \subseteq Published
<1>1. CASE up = <<>>
  BY <1>1 DEF InFlight
<1>2. CASE up # <<>>
  BY <1>2 DEF InFlight, MqttInv, MqttTypeOK, LinkInSync, Connect, Publish
<1> QED BY <1>1, <1>2

LEMMA HungUp ==
  ASSUME HangUp
  PROVE  ~ stream' /\ stream' \in BOOLEAN /\ open' \in BOOLEAN /\ up' = <<>> /\ down' = <<>>
BY DEF HangUp

\* Types once the stream is dropped, whatever else the step does.
LEMMA HungUpTypes ==
  ASSUME MqttInv, HangUp
  PROVE  /\ stream' \in BOOLEAN /\ open' \in BOOLEAN
         /\ up' \in Seq(Packet) /\ down' \in Seq(Packet)
         /\ stray' \subseteq Published
<1>1. stray' \subseteq stray \cup Published
  BY InFlightPublished DEF HangUp
<1>2. stray \subseteq Published
  BY DEF MqttInv, MqttTypeOK
<1> QED
  BY <1>1, <1>2, HungUp

LEMMA MqttCallInv == ASSUME MqttInv, NEW e \in Published, MqttCall(e) PROVE MqttInv'
BY DEF MqttCall, MqttInv, MqttTypeOK, LinkInSync, OkMeansTaken, link

LEMMA ConnectFailsInv == ASSUME MqttInv, ConnectFails PROVE MqttInv'
BY DEF ConnectFails, MqttInv, MqttTypeOK, LinkInSync, OkMeansTaken, link

LEMMA ConnectSentInv == ASSUME MqttInv, ConnectSent PROVE MqttInv'
BY DEF ConnectSent, MqttInv, MqttTypeOK, LinkInSync, OkMeansTaken, Connect, Packet

LEMMA ConnackAcceptedInv == ASSUME MqttInv, ConnackAccepted PROVE MqttInv'
BY DEF ConnackAccepted, MqttInv, MqttTypeOK, LinkInSync, OkMeansTaken, Connect, Connack, Packet

LEMMA ConnackRefusedInv == ASSUME MqttInv, ConnackRefused PROVE MqttInv'
BY InFlightPublished DEF ConnackRefused, HangUp, MqttInv, MqttTypeOK, LinkInSync, OkMeansTaken

LEMMA ConnackMissingInv == ASSUME MqttInv, ConnackMissing PROVE MqttInv'
BY InFlightPublished DEF ConnackMissing, HangUp, MqttInv, MqttTypeOK, LinkInSync, OkMeansTaken

LEMMA PublishSentInv == ASSUME MqttInv, PublishSent PROVE MqttInv'
<1>1. /\ nextId' \in 1..MaxPacketId /\ packetId' \in 1..MaxPacketId /\ packetId' = nextId
      /\ nextId' # packetId'
  BY IdAdvances DEF PublishSent, TakeId, MqttInv, MqttTypeOK
<1>2. /\ stream /\ up = <<>> /\ publishing \in Published
      /\ \A i \in 1..Len(down) : down[i].type = "puback" /\ down[i].id # nextId
  BY DEF PublishSent, MqttInv, MqttTypeOK, LinkInSync
<1>3. up' = <<>> \/ up' = <<Publish(packetId', publishing)>>
  BY <1>2 DEF PublishSent, MqttInv, MqttTypeOK
<1>4. Publish(packetId', publishing) \in Packet
  BY <1>1, <1>2, PublishedAssumption, PacketIdAssumption DEF Publish, Packet
<1>5. down' # <<>> => Head(down').id # packetId'
  BY <1>1, <1>2 DEF PublishSent, MqttInv, MqttTypeOK
<1>6. MqttTypeOK'
  BY <1>1, <1>2, <1>3, <1>4 DEF PublishSent, MqttInv, MqttTypeOK
<1>7. LinkInSync'
  <2>1. mpc' = "puback" /\ stream' /\ down' = down /\ publishing' = publishing
    BY <1>2 DEF PublishSent
  <2>2. \A i \in 1..Len(down') : down'[i].type = "puback"
    BY <1>2, <2>1
  <2>3. up' = <<>> \/ up' = <<Publish(packetId', publishing')>>
    BY <1>3, <2>1
  <2> QED
    BY <1>1, <1>5, <2>1, <2>2, <2>3 DEF LinkInSync
<1>8. OkMeansTaken'
  BY DEF PublishSent, OkMeansTaken
<1> QED
  BY <1>6, <1>7, <1>8 DEF MqttInv

LEMMA GiveUpInv ==
  ASSUME MqttInv, GiveUp, mpc' = "err", publishing' = publishing, publishing \in Published,
         nextId' \in 1..MaxPacketId, packetId' \in 0..MaxPacketId, broker' = broker
  PROVE  MqttInv'
<1>1. HangUp
  BY DEF GiveUp
<1>2. MqttTypeOK'
  BY <1>1, HungUpTypes DEF MqttInv, MqttTypeOK
<1>3. ~ stream' /\ up' = <<>> /\ down' = <<>>
  BY <1>1, HungUp
<1>4. LinkInSync'
  BY <1>3 DEF LinkInSync
<1>5. OkMeansTaken'
  BY DEF OkMeansTaken
<1> QED
  BY <1>2, <1>4, <1>5 DEF MqttInv

LEMMA PublishFailsInv == ASSUME MqttInv, PublishFails PROVE MqttInv'
<1>1. nextId' \in 1..MaxPacketId /\ packetId' \in 0..MaxPacketId
  BY IdAdvances DEF PublishFails, TakeId, MqttInv, MqttTypeOK
<1> QED
  BY <1>1, GiveUpInv DEF PublishFails, MqttInv, MqttTypeOK

LEMMA PubackReadInv == ASSUME MqttInv, PubackRead PROVE MqttInv'
<1>1. /\ stream /\ packetId # nextId /\ up = <<>> /\ publishing \in broker
      /\ \A i \in 1..Len(down) : down[i].type = "puback" /\ down[i].id = packetId
  BY DEF PubackRead, Acknowledges, MqttInv, MqttTypeOK, LinkInSync
<1>2. /\ Len(down') = Len(down) - 1 /\ down' \in Seq(Packet) /\ Len(down) \in Nat
      /\ \A i \in 1..Len(down') : down'[i] = down[i + 1]
  BY DEF PubackRead, MqttInv, MqttTypeOK
<1>3. \A i \in 1..Len(down') : down'[i].type = "puback" /\ down'[i].id = packetId
  BY <1>1, <1>2
<1>4. MqttTypeOK'
  BY <1>2 DEF PubackRead, MqttInv, MqttTypeOK
<1> QED
  BY <1>1, <1>3, <1>4 DEF PubackRead, MqttInv, LinkInSync, OkMeansTaken

LEMMA PubackMismatchInv == ASSUME MqttInv, PubackMismatch PROVE MqttInv'
<1>1. publishing \in Published /\ nextId \in 1..MaxPacketId /\ packetId \in 0..MaxPacketId
  BY DEF PubackMismatch, MqttInv, MqttTypeOK
<1>2. /\ GiveUp /\ mpc' = "err" /\ publishing' = publishing /\ broker' = broker
      /\ nextId' = nextId /\ packetId' = packetId
  BY DEF PubackMismatch
<1> QED
  BY <1>1, <1>2, GiveUpInv

LEMMA PubackMissingInv == ASSUME MqttInv, PubackMissing PROVE MqttInv'
<1>1. publishing \in Published /\ nextId \in 1..MaxPacketId /\ packetId \in 0..MaxPacketId
  BY DEF PubackMissing, MqttInv, MqttTypeOK
<1>2. /\ GiveUp /\ mpc' = "err" /\ publishing' = publishing /\ broker' = broker
      /\ nextId' = nextId /\ packetId' = packetId
  BY DEF PubackMissing
<1> QED
  BY <1>1, <1>2, GiveUpInv

LEMMA MqttReturnInv == ASSUME MqttInv, MqttReturn PROVE MqttInv'
BY PacketIdAssumption DEF MqttReturn, MqttInv, MqttTypeOK, LinkInSync, OkMeansTaken, link

LEMMA MqttAbandonInv == ASSUME MqttInv, MqttAbandon PROVE MqttInv'
<1>1. nextId' \in 1..MaxPacketId /\ packetId' \in 0..MaxPacketId
  BY PacketIdAssumption DEF MqttAbandon
<1>2. MqttTypeOK'
  <2>1. HangUp /\ mpc' = "idle" /\ publishing' = 0 /\ broker' = broker
    BY DEF MqttAbandon
  <2> QED
    BY <1>1, <2>1, HungUpTypes DEF MqttInv, MqttTypeOK
<1>3. ~ stream' /\ up' = <<>> /\ down' = <<>> /\ mpc' = "idle"
  BY HungUp DEF MqttAbandon
<1>4. LinkInSync'
  BY <1>3 DEF LinkInSync
<1>5. OkMeansTaken'
  BY <1>3 DEF OkMeansTaken
<1> QED
  BY <1>2, <1>4, <1>5 DEF MqttInv

LEMMA BrokerConnectInv ==
  ASSUME MqttInv, NEW b \in BOOLEAN, BrokerConnect(b)
  PROVE  MqttInv'
<1>1. mpc = "connack" /\ ~ stream /\ up = <<Connect>> /\ down = <<>>
  BY DEF BrokerConnect, MqttInv, MqttTypeOK, LinkInSync, Publish
<1>2. up' = <<>> /\ down' = <<Connack(b)>>
  BY <1>1 DEF BrokerConnect
<1>3. Connack(b) \in Packet
  BY DEF Connack, Packet
<1>4. down' \in Seq(Packet)
  BY <1>2, <1>3
<1> QED
  BY <1>1, <1>2, <1>4 DEF BrokerConnect, MqttInv, MqttTypeOK, LinkInSync, OkMeansTaken

LEMMA BrokerPublishInv ==
  ASSUME MqttInv, NEW b \in BOOLEAN, BrokerPublish(b)
  PROVE  MqttInv'
<1> DEFINE ack == Puback(packetId)
<1>1. /\ mpc = "puback" /\ up = <<Publish(packetId, publishing)>>
      /\ down \in Seq(Packet) /\ publishing \in Published /\ packetId \in 0..MaxPacketId
      /\ packetId # nextId /\ stream
      /\ \A i \in 1..Len(down) : down[i].type = "puback"
      /\ down # <<>> => down[1].id # packetId
  BY DEF BrokerPublish, MqttInv, MqttTypeOK, LinkInSync, Connect
<1>2. Head(up).id = packetId /\ Head(up).ev = publishing /\ Tail(up) = <<>>
  BY <1>1 DEF Publish
<1>3. /\ up' = <<>> /\ broker' = broker \cup {publishing}
      /\ down' = IF b THEN Append(Append(down, ack), ack) ELSE Append(down, ack)
      /\ UNCHANGED <<mpc, publishing, stream, nextId, packetId, open, stray>>
  BY <1>2 DEF BrokerPublish
<1>4. ack \in Packet /\ ack.type = "puback" /\ ack.id = packetId
  BY <1>1, PacketIdAssumption DEF Puback, Packet
<1> HIDE DEF ack
<1>5. /\ down' \in Seq(Packet) /\ down' # <<>>
      /\ \A i \in 1..Len(down') : (i \in 1..Len(down) /\ down'[i] = down[i]) \/ down'[i] = ack
      /\ down # <<>> => down'[1] = down[1]
  <2>1. CASE b
    BY <2>1, <1>1, <1>3, <1>4
  <2>2. CASE ~ b
    BY <2>2, <1>1, <1>3, <1>4
  <2> QED BY <2>1, <2>2
<1>6. \A i \in 1..Len(down') : down'[i].type = "puback"
  BY <1>1, <1>4, <1>5
<1>7. down'[1].id = packetId => \A i \in 1..Len(down') : down'[i].id = packetId
  <2>1. CASE down = <<>>
    BY <2>1, <1>4, <1>5
  <2>2. CASE down # <<>>
    BY <2>2, <1>1, <1>5
  <2> QED BY <2>1, <2>2
<1>8. MqttTypeOK'
  BY <1>1, <1>3, <1>5 DEF MqttInv, MqttTypeOK
<1>9. LinkInSync'
  BY <1>1, <1>3, <1>5, <1>6, <1>7 DEF LinkInSync
<1>10. OkMeansTaken'
  BY <1>1, <1>3 DEF OkMeansTaken
<1> QED
  BY <1>8, <1>9, <1>10 DEF MqttInv

LEMMA BrokerCloseInv == ASSUME MqttInv, BrokerClose PROVE MqttInv'
<1>1. up' = <<>> /\ (down' = down \/ down' = <<>>) /\ open' = FALSE
      /\ UNCHANGED <<mpc, publishing, stream, nextId, packetId, stray, broker>>
  BY DEF BrokerClose
<1>2. MqttTypeOK'
  <2>1. open' \in BOOLEAN
    BY <1>1
  <2>2. up' \in Seq(Packet)
    BY <1>1
  <2>3. down' \in Seq(Packet)
    <3>1. CASE down' = <<>>
      BY <3>1
    <3>2. CASE down' = down
      BY <3>2 DEF MqttInv, MqttTypeOK
    <3> QED BY <1>1, <3>1, <3>2
  <2> QED
    BY <1>1, <2>1, <2>2, <2>3 DEF MqttInv, MqttTypeOK
<1>3. LinkInSync'
  BY <1>1 DEF MqttInv, LinkInSync, Connect, Connack
<1>4. OkMeansTaken'
  BY <1>1 DEF MqttInv, OkMeansTaken
<1> QED
  BY <1>2, <1>3, <1>4 DEF MqttInv

LEMMA StrayArrivesInv == ASSUME MqttInv, NEW e \in Published, StrayArrives(e) PROVE MqttInv'
BY DEF StrayArrives, MqttInv, MqttTypeOK, LinkInSync, OkMeansTaken, link

LEMMA MqttStepInv == MqttInv /\ [MqttNext]_mqttVars => MqttInv'
<1> SUFFICES ASSUME MqttInv, [MqttNext]_mqttVars PROVE MqttInv'
  OBVIOUS
<1>1. CASE \E e \in Published : MqttCall(e)
  BY <1>1, MqttCallInv
<1>2. CASE MqttStep
  BY <1>2, ConnectFailsInv, ConnectSentInv, ConnackAcceptedInv, ConnackRefusedInv,
     ConnackMissingInv, PublishSentInv, PublishFailsInv, PubackReadInv, PubackMismatchInv,
     PubackMissingInv DEF MqttStep
<1>3. CASE BrokerStep
  BY <1>3, BrokerConnectInv, BrokerPublishInv, BrokerCloseInv, StrayArrivesInv DEF BrokerStep
<1>4. CASE MqttReturn
  BY <1>4, MqttReturnInv
<1>5. CASE MqttAbandon
  BY <1>5, MqttAbandonInv
<1>6. CASE UNCHANGED mqttVars
  BY <1>6 DEF mqttVars, MqttInv, MqttTypeOK, LinkInSync, OkMeansTaken
<1> QED
  BY <1>1, <1>2, <1>3, <1>4, <1>5, <1>6 DEF MqttNext

\* The exporter of src/export/mqtt.rs returns Ok for an event only if the broker
\* has taken that event, for every history of timeouts, closed connections,
\* refused clients and repeated acknowledgements.
THEOREM MqttOkMeansTaken == MqttSpec => []MqttInv
<1>1. MqttInit => MqttInv
  BY MqttInitInv
<1>2. MqttInv /\ [MqttNext]_mqttVars => MqttInv'
  BY MqttStepInv
<1> QED
  BY <1>1, <1>2, PTL DEF MqttSpec

----------------------------------------------------------------------------
\* Both exporters implement the contract.

LEMMA MqttStepContract == MqttInv /\ [MqttNext]_mqttVars => [MqttContract!CNext]_(MqttContract!cvars)
<1> SUFFICES ASSUME MqttInv, [MqttNext]_mqttVars
             PROVE  [MqttContract!CNext]_(MqttContract!cvars)
  OBVIOUS
<1>1. ASSUME NEW e \in Published, MqttCall(e) PROVE MqttContract!Call(e)
  BY <1>1 DEF MqttCall, MqttContract!Call
<1>2. CASE MqttStep
  <2>1. PubackRead => MqttContract!Succeed
    BY DEF PubackRead, Acknowledges, MqttContract!Succeed, MqttInv, MqttTypeOK, LinkInSync
  <2>2. ConnectFails \/ ConnackRefused \/ ConnackMissing \/ PublishFails \/ PubackMismatch
          \/ PubackMissing => MqttContract!Fail
    BY DEF ConnectFails, ConnackRefused, ConnackMissing, PublishFails, PubackMismatch,
           PubackMissing, MqttContract!Fail
  <2>3. ConnectSent \/ ConnackAccepted \/ PublishSent => UNCHANGED MqttContract!cvars
    BY DEF ConnectSent, ConnackAccepted, PublishSent, MqttContract!cvars
  <2> QED
    BY <1>2, <2>1, <2>2, <2>3 DEF MqttStep, MqttContract!CNext
<1>3. CASE BrokerStep
  <2>1. ASSUME NEW b \in BOOLEAN, BrokerPublish(b) PROVE MqttContract!Take(publishing) /\ publishing \in Published
    BY <2>1 DEF BrokerPublish, Connect, Publish, MqttContract!Take, MqttInv, MqttTypeOK, LinkInSync
  <2>2. ASSUME NEW e \in Published, StrayArrives(e) PROVE MqttContract!Take(e)
    BY <2>2 DEF StrayArrives, MqttContract!Take
  <2>3. ASSUME NEW b \in BOOLEAN, BrokerConnect(b) \/ BrokerClose
        PROVE  UNCHANGED MqttContract!cvars
    BY <2>3 DEF BrokerConnect, BrokerClose, MqttContract!cvars
  <2> QED
    BY <1>3, <2>1, <2>2, <2>3 DEF BrokerStep, MqttContract!CNext
<1>4. CASE MqttReturn \/ MqttAbandon
  BY <1>4 DEF MqttReturn, MqttAbandon, MqttContract!Return, MqttContract!CNext
<1>5. CASE UNCHANGED mqttVars
  BY <1>5 DEF mqttVars, MqttContract!cvars
<1> QED
  BY <1>1, <1>2, <1>3, <1>4, <1>5 DEF MqttNext, MqttContract!CNext

\* The MQTT exporter keeps the promise of trait Exporter: every step of it is a
\* step of the contract, or none that the drain can see.
THEOREM MqttRefinesContract == MqttSpec => MqttImplementsContract
<1>1. MqttInit => MqttContract!CInit
  BY DEF MqttInit, MqttContract!CInit
<1>2. MqttInv /\ [MqttNext]_mqttVars => [MqttContract!CNext]_(MqttContract!cvars)
  BY MqttStepContract
<1> QED
  BY <1>1, <1>2, MqttOkMeansTaken, PTL DEF MqttSpec, MqttImplementsContract, MqttContract!CSpec

----------------------------------------------------------------------------
LEMMA OtlpInitInv == OtlpInit => OtlpInv
BY DEF OtlpInit, OtlpInv, OtlpTypeOK, ReplyIsOurs

LEMMA OtlpStepInv == OtlpInv /\ [OtlpNext]_otlpVars => OtlpInv'
<1> SUFFICES ASSUME OtlpInv, [OtlpNext]_otlpVars PROVE OtlpInv'
  OBVIOUS
<1> USE DEF OtlpInv, OtlpTypeOK, ReplyIsOurs
<1>1. ASSUME NEW e \in Posted, OtlpCall(e) PROVE OtlpInv'
  BY <1>1 DEF OtlpCall
<1>2. CASE OtlpStep
  <2>1. ASSUME NEW whole \in BOOLEAN, RequestFails(whole) PROVE OtlpInv'
    BY <2>1 DEF RequestFails
  <2>2. ASSUME RequestSent PROVE OtlpInv'
    BY <2>2 DEF RequestSent
  <2>3. ASSUME ResponseRead PROVE OtlpInv'
    BY <2>3 DEF ResponseRead, Accepted, Disconnect
  <2>4. ASSUME ResponseTimeout PROVE OtlpInv'
    BY <2>4 DEF ResponseTimeout, Disconnect
  <2> QED
    BY <1>2, <2>1, <2>2, <2>3, <2>4 DEF OtlpStep
<1>3. CASE ServerStep
  <2>1. ASSUME NEW a \in {"taken", "other", "cut"}, NEW stored \in BOOLEAN, ServerAnswers(a, stored)
        PROVE  OtlpInv'
    BY <2>1 DEF ServerAnswers
  <2>2. ASSUME NEW lost \in BOOLEAN, ServerCloses(lost) PROVE OtlpInv'
    BY <2>2 DEF ServerCloses
  <2>3. ASSUME NEW e \in Posted, LateArrives(e) PROVE OtlpInv'
    BY <2>3 DEF LateArrives
  <2> QED
    BY <1>3, <2>1, <2>2, <2>3 DEF ServerStep
<1>4. CASE OtlpReturn
  BY <1>4 DEF OtlpReturn
<1>5. CASE OtlpAbandon
  BY <1>5 DEF OtlpAbandon, Disconnect
<1>6. CASE UNCHANGED otlpVars
  BY <1>6 DEF otlpVars
<1> QED
  BY <1>1, <1>2, <1>3, <1>4, <1>5, <1>6 DEF OtlpNext

\* The OTLP exporter returns Ok for an event only if the server has taken it:
\* no answer outlives the connection of the event it answers.
THEOREM OtlpOkMeansTaken == OtlpSpec => []OtlpInv
<1>1. OtlpInit => OtlpInv
  BY OtlpInitInv
<1>2. OtlpInv /\ [OtlpNext]_otlpVars => OtlpInv'
  BY OtlpStepInv
<1> QED
  BY <1>1, <1>2, PTL DEF OtlpSpec

LEMMA OtlpStepContract == OtlpInv /\ [OtlpNext]_otlpVars => [OtlpContract!CNext]_(OtlpContract!cvars)
<1> SUFFICES ASSUME OtlpInv, [OtlpNext]_otlpVars
             PROVE  [OtlpContract!CNext]_(OtlpContract!cvars)
  OBVIOUS
<1>1. ASSUME NEW e \in Posted, OtlpCall(e) PROVE OtlpContract!Call(e)
  BY <1>1 DEF OtlpCall, OtlpContract!Call
<1>2. CASE OtlpStep
  <2>1. ResponseRead => OtlpContract!Succeed \/ OtlpContract!Fail
    BY DEF ResponseRead, Accepted, OtlpContract!Succeed, OtlpContract!Fail, OtlpInv, ReplyIsOurs
  <2>2. ResponseTimeout \/ (\E whole \in BOOLEAN : RequestFails(whole)) => OtlpContract!Fail
    BY DEF ResponseTimeout, RequestFails, OtlpContract!Fail
  <2>3. RequestSent => UNCHANGED OtlpContract!cvars
    BY DEF RequestSent, OtlpContract!cvars
  <2> QED
    BY <1>2, <2>1, <2>2, <2>3 DEF OtlpStep, OtlpContract!CNext
<1>3. CASE ServerStep
  <2>1. ASSUME NEW a \in {"taken", "other", "cut"}, NEW stored \in BOOLEAN, ServerAnswers(a, stored)
        PROVE  \/ posting \in Posted /\ OtlpContract!Take(posting)
               \/ UNCHANGED OtlpContract!cvars
    BY <2>1 DEF ServerAnswers, OtlpContract!Take, OtlpContract!cvars, OtlpInv, OtlpTypeOK, ReplyIsOurs
  <2>2. ASSUME NEW lost \in BOOLEAN, ServerCloses(lost) PROVE UNCHANGED OtlpContract!cvars
    BY <2>2 DEF ServerCloses, OtlpContract!cvars
  <2>3. ASSUME NEW e \in Posted, LateArrives(e) PROVE OtlpContract!Take(e)
    BY <2>3 DEF LateArrives, OtlpContract!Take
  <2> QED
    BY <1>3, <2>1, <2>2, <2>3 DEF ServerStep, OtlpContract!CNext
<1>4. CASE OtlpReturn \/ OtlpAbandon
  BY <1>4 DEF OtlpReturn, OtlpAbandon, OtlpContract!Return, OtlpContract!CNext
<1>5. CASE UNCHANGED otlpVars
  BY <1>5 DEF otlpVars, OtlpContract!cvars
<1> QED
  BY <1>1, <1>2, <1>3, <1>4, <1>5 DEF OtlpNext, OtlpContract!CNext

\* The OTLP exporter keeps the promise of trait Exporter.
THEOREM OtlpRefinesContract == OtlpSpec => OtlpImplementsContract
<1>1. OtlpInit => OtlpContract!CInit
  BY DEF OtlpInit, OtlpContract!CInit
<1>2. OtlpInv /\ [OtlpNext]_otlpVars => [OtlpContract!CNext]_(OtlpContract!cvars)
  BY OtlpStepContract
<1> QED
  BY <1>1, <1>2, OtlpOkMeansTaken, PTL DEF OtlpSpec, OtlpImplementsContract, OtlpContract!CSpec
----------------------------------------------------------------------------
(* A fault costs one call: what went wrong before is over with the next call *)

\* The connection of a call is open, and nothing is on it but the answer the call
\* waits for, at most once.
LinkSound ==
  /\ stream \/ mpc = "connack" => open
  /\ stream /\ mpc # "puback" => down = <<>>
  /\ mpc = "connack" => up = <<Connect>> \/ down = <<Connack(TRUE)>>
  /\ mpc = "puback" =>
       \/ up = <<Publish(packetId, publishing)>> /\ down = <<>>
       \/ up = <<>> /\ down = <<Puback(packetId)>>

\* A failed call leaves no connection behind.
ErrHangsUp == mpc = "err" => ~ stream

LEMMA ErrHangsUpStep == MqttInv /\ ErrHangsUp /\ [MqttNext]_mqttVars => ErrHangsUp'
<1> SUFFICES ASSUME MqttInv, ErrHangsUp, [MqttNext]_mqttVars PROVE ErrHangsUp'
  OBVIOUS
<1> USE DEF ErrHangsUp
<1>1. CASE ConnectFails
  BY <1>1 DEF ConnectFails, MqttInv, LinkInSync
<1>2. CASE ConnackRefused \/ ConnackMissing \/ PublishFails \/ PubackMismatch \/ PubackMissing \/ MqttAbandon
  BY <1>2, HungUp DEF ConnackRefused, ConnackMissing, PublishFails, PubackMismatch, PubackMissing,
                      MqttAbandon, GiveUp
<1>3. CASE ConnectSent \/ ConnackAccepted \/ PublishSent \/ PubackRead \/ MqttReturn
  BY <1>3 DEF ConnectSent, ConnackAccepted, PublishSent, PubackRead, MqttReturn
<1>4. CASE \E e \in Published : MqttCall(e)
  BY <1>4 DEF MqttCall
<1>5. CASE BrokerStep
  BY <1>5 DEF BrokerStep, BrokerConnect, BrokerPublish, BrokerClose, StrayArrives
<1>6. CASE UNCHANGED mqttVars
  BY <1>6 DEF mqttVars
<1> QED
  BY <1>1, <1>2, <1>3, <1>4, <1>5, <1>6 DEF MqttNext, MqttStep

\* Without a fault a sound connection stays sound and no call over it fails.
LEMMA SoundStep ==
  ASSUME MqttInv, LinkSound, [MqttNext]_mqttVars, ~ MqttFault
  PROVE  LinkSound' /\ (mpc' = "err" => mpc = "err")
<1> DEFINE Goal == LinkSound' /\ (mpc' = "err" => mpc = "err")
<1>0. MqttTypeOK /\ LinkInSync
  BY DEF MqttInv
<1>1. ASSUME NEW e \in Published, MqttCall(e) PROVE Goal
  BY <1>0, <1>1 DEF MqttCall, LinkSound, LinkInSync, link
<1>2. CASE ConnectSent
  BY <1>2 DEF ConnectSent, LinkSound, LinkInSync
<1>3. CASE ConnackAccepted
  <2>1. mpc = "connack" /\ mpc' = "publish" /\ open' = open /\ down # <<>> /\ down' = Tail(down)
    BY <1>3 DEF ConnackAccepted
  <2>2. up # <<Connect>>
    <3>1. (up = <<Connect>> /\ down = <<>>) \/ up = <<>>
      BY <1>0, <2>1 DEF LinkInSync
    <3>2. <<Connect>> # <<>>
      OBVIOUS
    <3> QED
      BY <2>1, <3>1, <3>2
  <2>3. open /\ down = <<Connack(TRUE)>>
    BY <2>1, <2>2 DEF LinkSound
  <2> QED
    BY <2>1, <2>3 DEF LinkSound
<1>4. ~ ConnackRefused
  BY <1>0 DEF ConnackRefused, LinkSound, LinkInSync, Connack
<1>5. ~ (ConnectFails \/ ConnackMissing \/ PublishFails \/ PubackMissing \/ BrokerClose)
  BY <1>0 DEF MqttFault, LinkSound, LinkInSync, ConnackMissing, PublishFails, PubackMissing
<1>6. ~ PubackMismatch
  BY DEF PubackMismatch, Acknowledges, LinkSound, Puback
<1>7. CASE PublishSent
  <2>1. /\ mpc = "publish" /\ mpc' = "puback" /\ stream /\ open /\ up = <<>> /\ down = <<>>
        /\ publishing' = publishing /\ open' = open /\ down' = down
        /\ up' = Append(up, Publish(packetId', publishing))
    BY <1>0, <1>7 DEF PublishSent, LinkSound, LinkInSync
  <2>2. up' = <<Publish(packetId', publishing')>>
    BY <2>1
  <2> QED
    BY <2>1, <2>2 DEF LinkSound
<1>8. CASE PubackRead
  <2>1. /\ mpc' = "ok" /\ stream /\ open /\ open' = open /\ down = <<Puback(packetId)>>
        /\ down' = Tail(down)
    BY <1>0, <1>8 DEF PubackRead, LinkSound, LinkInSync
  <2> QED
    BY <2>1 DEF LinkSound
<1>9. CASE MqttReturn
  BY <1>9 DEF MqttReturn, LinkSound, link
<1>10. CASE MqttAbandon
  BY <1>10, HungUp DEF MqttAbandon, LinkSound
<1>11. ASSUME NEW b \in BOOLEAN, BrokerConnect(b) PROVE Goal
  <2>1. b = TRUE
    BY <1>11 DEF MqttFault
  <2>2. /\ mpc = "connack" /\ ~ stream /\ down = <<>>
    BY <1>0, <1>11 DEF BrokerConnect, LinkInSync, Publish
  <2>3. /\ down' = Append(down, Connack(TRUE)) /\ UNCHANGED <<mpc, stream, open>>
    BY <1>11, <2>1 DEF BrokerConnect
  <2>4. down' = <<Connack(TRUE)>>
    BY <2>2, <2>3
  <2> QED
    BY <2>2, <2>3, <2>4 DEF LinkSound
<1>12. ASSUME NEW b \in BOOLEAN, BrokerPublish(b) PROVE Goal
  <2>1. b = FALSE
    BY <1>12 DEF MqttFault
  <2>2. mpc = "puback" /\ up = <<Publish(packetId, publishing)>> /\ down = <<>> /\ stream
    BY <1>0, <1>12 DEF BrokerPublish, LinkSound, LinkInSync, Connect
  <2>3. /\ up' = <<>> /\ down' = Append(down, Puback(packetId))
        /\ UNCHANGED <<mpc, publishing, stream, packetId, open>>
    BY <1>12, <2>1, <2>2 DEF BrokerPublish, Publish
  <2>4. down' = <<Puback(packetId)>>
    BY <2>2, <2>3
  <2> QED
    BY <2>2, <2>3, <2>4 DEF LinkSound
<1>13. ASSUME NEW e \in Published, StrayArrives(e) PROVE Goal
  BY <1>13 DEF StrayArrives, LinkSound, link
<1>14. CASE UNCHANGED mqttVars
  BY <1>14 DEF mqttVars, LinkSound
<1> QED
  BY <1>1, <1>2, <1>3, <1>4, <1>5, <1>6, <1>7, <1>8, <1>9, <1>10, <1>11, <1>12, <1>13, <1>14
     DEF MqttNext, MqttStep, BrokerStep

\* After a failed call the next one starts on a sound connection, and without another
\* fault it does not fail.
MqttHeals ==
  /\ [](mpc = "err" => LinkSound)
  /\ [][LinkSound /\ ~ MqttFault => LinkSound' /\ (mpc' = "err" => mpc = "err")]_mqttVars

\* Whatever the broker did, a connection closed in the quiet between two calls or a
\* repeated PUBACK costs one failed call and no more (mqtt.rs: a failed publish drops the stream).
THEOREM MqttHealsHolds == MqttSpec => MqttHeals
<1>1. MqttInit => ErrHangsUp
  BY DEF MqttInit, ErrHangsUp
<1>2. MqttInv /\ ErrHangsUp => (mpc = "err" => LinkSound)
  BY DEF ErrHangsUp, LinkSound
<1>3. MqttInv /\ [MqttNext]_mqttVars =>
        [LinkSound /\ ~ MqttFault => LinkSound' /\ (mpc' = "err" => mpc = "err")]_mqttVars
  BY SoundStep
<1> QED
  BY <1>1, <1>2, <1>3, ErrHangsUpStep, MqttOkMeansTaken, PTL DEF MqttSpec, MqttHeals

\* The exporter itself makes no errors: no call fails while neither the broker nor the
\* network is at fault, however the packet identifiers wrap and processes end.
THEOREM MqttErrsOnFaultsOnly == MqttSpec /\ [][~ MqttFault]_mqttVars => [](mpc # "err")
<1> DEFINE Fine == LinkSound /\ mpc # "err"
<1>1. MqttInit => Fine
  BY DEF MqttInit, LinkSound
<1>2. MqttInv /\ Fine /\ [MqttNext]_mqttVars /\ [~ MqttFault]_mqttVars => Fine'
  <2>1. CASE UNCHANGED mqttVars
    BY <2>1 DEF mqttVars, LinkSound
  <2>2. CASE ~ MqttFault
    BY <2>2, SoundStep
  <2> QED
    BY <2>1, <2>2
<1>3. Fine => mpc # "err"
  OBVIOUS
<1> QED
  BY <1>1, <1>2, <1>3, MqttOkMeansTaken, PTL DEF MqttSpec

\* An answer worth waiting for: it says that the event was taken, and the server closes
\* only after it.
ReplySound == (reply = "none" /\ ~ eof) \/ reply = "taken"

\* A call of the OTLP exporter starts on a connection of its own.
LEMMA ReplySoundStep ==
  ASSUME OtlpInv, ReplySound, [OtlpNext]_otlpVars, ~ OtlpFault
  PROVE  ReplySound' /\ (hpc' = "err" => hpc = "err")
<1> USE DEF ReplySound
<1>0. OtlpTypeOK /\ ReplyIsOurs
  BY DEF OtlpInv
<1> DEFINE Goal == ReplySound' /\ (hpc' = "err" => hpc = "err")
<1>1. ASSUME NEW e \in Posted, OtlpCall(e) PROVE Goal
  BY <1>1 DEF OtlpCall
<1>2. ~ ResponseTimeout /\ \A whole \in BOOLEAN : ~ RequestFails(whole)
  BY DEF OtlpFault
<1>3. CASE RequestSent
  BY <1>3 DEF RequestSent
<1>4. CASE ResponseRead
  BY <1>4 DEF ResponseRead, Accepted, Disconnect
<1>5. CASE OtlpReturn
  BY <1>5 DEF OtlpReturn
<1>6. CASE OtlpAbandon
  BY <1>6 DEF OtlpAbandon, Disconnect
<1>7. ASSUME NEW a \in {"taken", "other", "cut"}, NEW stored \in BOOLEAN, ServerAnswers(a, stored)
      PROVE  Goal
  <2>1. a = "taken"
    BY <1>7 DEF OtlpFault
  <2> QED
    BY <1>7, <2>1 DEF ServerAnswers
<1>8. ASSUME NEW lost \in BOOLEAN, ServerCloses(lost) PROVE Goal
  <2>1. lost = FALSE /\ reply # "none"
    BY <1>8 DEF OtlpFault, ServerCloses
  <2> QED
    BY <1>8, <2>1 DEF ServerCloses
<1>9. ASSUME NEW e \in Posted, LateArrives(e) PROVE Goal
  BY <1>9 DEF LateArrives
<1>10. CASE UNCHANGED otlpVars
  BY <1>10 DEF otlpVars
<1> QED
  BY <1>1, <1>2, <1>3, <1>4, <1>5, <1>6, <1>7, <1>8, <1>9, <1>10 DEF OtlpNext, OtlpStep, ServerStep

\* Every call starts clean, and without a fault while it runs it does not fail.
OtlpHeals ==
  /\ [](hpc # "response" => ReplySound)
  /\ [][ReplySound /\ ~ OtlpFault => ReplySound' /\ (hpc' = "err" => hpc = "err")]_otlpVars

\* No call of the OTLP exporter inherits anything from the one before: each fails for a
\* fault of its own only (http.rs: a connection per request).
THEOREM OtlpHealsHolds == OtlpSpec => OtlpHeals
<1>1. OtlpInv => (hpc # "response" => ReplySound)
  BY DEF OtlpInv, ReplyIsOurs, ReplySound
<1>2. OtlpInv /\ [OtlpNext]_otlpVars =>
        [ReplySound /\ ~ OtlpFault => ReplySound' /\ (hpc' = "err" => hpc = "err")]_otlpVars
  BY ReplySoundStep
<1> QED
  BY <1>1, <1>2, OtlpOkMeansTaken, PTL DEF OtlpSpec, OtlpHeals
==============================================================================

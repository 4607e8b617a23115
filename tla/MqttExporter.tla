----------------------------- MODULE MqttExporter -----------------------------
(***************************************************************************)
(* The MQTT exporter of radiochron-agent (src/export/mqtt.rs): one call of *)
(* publish() at a time, over a connection it keeps between calls.  The     *)
(* broker (not in src/) is modelled from the packets the exporter expects; *)
(* it may be slow, close the connection, refuse a client or acknowledge a  *)
(* packet twice.                                                           *)
(*                                                                         *)
(* Abstractions.                                                           *)
(*  - A packet is its type, packet identifier and event; the framing of    *)
(*    write_packet and read_packet is in MqttCodec.tla.                    *)
(*  - Resolving, the TCP connection, the TLS handshake and the CONNECT     *)
(*    packet are one step, which works or fails (src/transport.rs).        *)
(*  - What is written before the connection is given up may still arrive:  *)
(*    `stray'.                                                             *)
(*  - The topic fits its length field (push_utf8): one that does not fails *)
(*    every call alike.                                                    *)
(***************************************************************************)
EXTENDS Naturals, Sequences

CONSTANTS
  Published,    \* events the exporter may be called with
  MaxPacketId   \* the largest packet identifier (u16::MAX)

ASSUME PublishedAssumption == Published \subseteq Nat \ {0}
ASSUME PacketIdAssumption == MaxPacketId \in Nat /\ MaxPacketId >= 2

VARIABLES
  mpc,        \* where publish() is; "idle" between calls, "ok" and "err" at its end
  publishing, \* the event of the call (0: no call)
  stream,     \* a connection is kept (self.stream is Some)
  nextId,     \* next_packet_id
  packetId,   \* packet_id of the call (0: none yet)
  up, down,   \* packets under way to the broker and to the agent
  open,       \* the broker has not closed the connection
  stray,      \* events under way on connections given up
  broker      \* events the broker has taken

link == <<up, down, open>>
mqttVars == <<mpc, publishing, stream, nextId, packetId, up, down, open, stray, broker>>

Packet == [type : {"connect", "publish", "accepted", "refused", "puback"}, id : Nat, ev : Nat]

Connect == [type |-> "connect", id |-> 0, ev |-> 0]
Connack(accept) == [type |-> IF accept THEN "accepted" ELSE "refused", id |-> 0, ev |-> 0]
Publish(i, e) == [type |-> "publish", id |-> i, ev |-> e]
Puback(i) == [type |-> "puback", id |-> i, ev |-> 0]

\* Mutant: the identifier is not advanced.
IdAfter_Same(i) == i

\* wrapping_add(1).max(1)
IdAfter(i) == IF i < MaxPacketId THEN i + 1 ELSE 1

MqttInit ==
  /\ mpc = "idle" /\ publishing = 0
  /\ stream = FALSE
  /\ nextId = 1 /\ packetId = 0
  /\ up = <<>> /\ down = <<>> /\ open = FALSE
  /\ stray = {} /\ broker = {}

\* Events of the PUBLISH packets still under way to the broker.
InFlight == {up[i].ev : i \in {k \in 1..Len(up) : up[k].type = "publish"}}

\* The stream is dropped.
HangUp ==
  /\ stream' = FALSE
  /\ up' = <<>> /\ down' = <<>> /\ open' = FALSE
  /\ stray' = stray \cup InFlight

----------------------------------------------------------------------------
\* publish and connect

MqttCall(e) ==
  /\ mpc = "idle"
  /\ publishing' = e
  /\ mpc' = IF stream THEN "publish" ELSE "connect"
  /\ UNCHANGED <<stream, nextId, packetId, link, stray, broker>>

\* Name, TCP, TLS or the CONNECT packet fails: no identifier is used up.
ConnectFails ==
  /\ mpc = "connect"
  /\ mpc' = "err"
  /\ UNCHANGED <<publishing, stream, nextId, packetId, link, stray, broker>>

ConnectSent ==
  /\ mpc = "connect"
  /\ up' = <<Connect>> /\ down' = <<>> /\ open' = TRUE
  /\ mpc' = "connack"
  /\ UNCHANGED <<publishing, stream, nextId, packetId, stray, broker>>

ConnackAccepted ==
  /\ mpc = "connack" /\ down # <<>>
  /\ Head(down).type = "accepted"
  /\ down' = Tail(down)
  /\ stream' = TRUE
  /\ mpc' = "publish"
  /\ UNCHANGED <<publishing, nextId, packetId, up, open, stray, broker>>

ConnackRefused ==
  /\ mpc = "connack" /\ down # <<>>
  /\ Head(down).type # "accepted"
  /\ HangUp
  /\ mpc' = "err"
  /\ UNCHANGED <<publishing, nextId, packetId, broker>>

\* The read ends without a packet: timeout, or the connection was closed.
ConnackMissing ==
  /\ mpc = "connack" /\ down = <<>>
  /\ HangUp
  /\ mpc' = "err"
  /\ UNCHANGED <<publishing, nextId, packetId, broker>>

\* Mutant: a failed publish keeps its stream.
GiveUp_Keep == UNCHANGED <<stream, link, stray>>

\* A publish that failed does not leave its stream to the next one.
GiveUp == HangUp

\* The identifier is used up before the packet is written.
TakeId == packetId' = nextId /\ nextId' = IdAfter(nextId)

\* Written, if only into the buffers of a connection the broker has closed.
PublishSent ==
  /\ mpc = "publish"
  /\ TakeId
  /\ up' = IF open THEN Append(up, Publish(packetId', publishing)) ELSE up
  /\ mpc' = "puback"
  /\ UNCHANGED <<publishing, stream, down, open, stray, broker>>

PublishFails ==
  /\ mpc = "publish"
  /\ TakeId
  /\ GiveUp
  /\ mpc' = "err"
  /\ UNCHANGED <<publishing, broker>>

\* Mutant: any PUBACK will do.
Acknowledges_Any(p) == p.type = "puback"

Acknowledges(p) == p.type = "puback" /\ p.id = packetId

PubackRead ==
  /\ mpc = "puback" /\ down # <<>>
  /\ Acknowledges(Head(down))
  /\ down' = Tail(down)
  /\ mpc' = "ok"
  /\ UNCHANGED <<publishing, stream, nextId, packetId, up, open, stray, broker>>

PubackMismatch ==
  /\ mpc = "puback" /\ down # <<>>
  /\ ~ Acknowledges(Head(down))
  /\ GiveUp
  /\ mpc' = "err"
  /\ UNCHANGED <<publishing, nextId, packetId, broker>>

\* Timeout, or the connection was closed.
PubackMissing ==
  /\ mpc = "puback" /\ down = <<>>
  /\ GiveUp
  /\ mpc' = "err"
  /\ UNCHANGED <<publishing, nextId, packetId, broker>>

MqttReturn ==
  /\ mpc \in {"ok", "err"}
  /\ mpc' = "idle" /\ publishing' = 0 /\ packetId' = 0
  /\ UNCHANGED <<stream, nextId, link, stray, broker>>

\* The process ends; another one starts with a new exporter.
MqttAbandon ==
  /\ HangUp
  /\ mpc' = "idle"
  /\ nextId' = 1 /\ packetId' = 0 /\ publishing' = 0
  /\ UNCHANGED broker

----------------------------------------------------------------------------
\* The broker and the network

BrokerConnect(accept) ==
  /\ up # <<>> /\ Head(up).type = "connect"
  /\ up' = Tail(up)
  /\ down' = Append(down, Connack(accept))
  /\ UNCHANGED <<mpc, publishing, stream, nextId, packetId, open, stray, broker>>

\* The event is taken and acknowledged, perhaps twice.
BrokerPublish(repeat) ==
  /\ up # <<>> /\ Head(up).type = "publish"
  /\ up' = Tail(up)
  /\ broker' = broker \cup {Head(up).ev}
  /\ LET ack == Puback(Head(up).id)
     IN  down' = IF repeat THEN Append(Append(down, ack), ack) ELSE Append(down, ack)
  /\ UNCHANGED <<mpc, publishing, stream, nextId, packetId, open, stray>>

\* The broker closes, as it may when the 30 s of keepalive pass without a
\* packet (the exporter sends no PINGREQ); unread answers may be lost.
BrokerClose ==
  /\ open
  /\ open' = FALSE
  /\ up' = <<>>
  /\ down' \in {down, <<>>}
  /\ UNCHANGED <<mpc, publishing, stream, nextId, packetId, stray, broker>>

StrayArrives(e) ==
  /\ e \in stray
  /\ stray' = stray \ {e}
  /\ broker' = broker \cup {e}
  /\ UNCHANGED <<mpc, publishing, stream, nextId, packetId, link>>

----------------------------------------------------------------------------
MqttStep ==
  \/ ConnectFails \/ ConnectSent
  \/ ConnackAccepted \/ ConnackRefused \/ ConnackMissing
  \/ PublishSent \/ PublishFails
  \/ PubackRead \/ PubackMismatch \/ PubackMissing

BrokerStep ==
  \/ \E b \in BOOLEAN : BrokerConnect(b) \/ BrokerPublish(b)
  \/ BrokerClose
  \/ \E e \in Published : StrayArrives(e)

MqttNext ==
  \/ \E e \in Published : MqttCall(e)
  \/ MqttStep \/ BrokerStep \/ MqttReturn \/ MqttAbandon

MqttSpec == MqttInit /\ [][MqttNext]_mqttVars

\* What the network or the broker does to an exporter that is not at fault.
MqttFault ==
  \/ ConnectFails
  \/ open /\ (ConnackMissing \/ PublishFails \/ PubackMissing)
  \/ BrokerConnect(FALSE) \/ BrokerPublish(TRUE)
  \/ BrokerClose

----------------------------------------------------------------------------
(* Properties *)

\* Types of the variables.
MqttTypeOK ==
  /\ mpc \in {"idle", "connect", "connack", "publish", "puback", "ok", "err"}
  /\ publishing \in Published \cup {0}
  /\ mpc # "idle" => publishing \in Published
  /\ stream \in BOOLEAN /\ open \in BOOLEAN
  /\ nextId \in 1..MaxPacketId /\ packetId \in 0..MaxPacketId
  /\ up \in Seq(Packet) /\ down \in Seq(Packet)
  /\ stray \subseteq Published /\ broker \subseteq Published

\* Only an answer to the packet in hand can be first in line when it matches:
\* a connection with anything unanswered on it is never used for another event.
LinkInSync ==
  /\ stream /\ mpc # "puback" =>
       up = <<>> /\ \A i \in 1..Len(down) : down[i].type = "puback" /\ down[i].id # nextId
  /\ mpc = "connect" => ~ stream
  /\ mpc = "connack" =>
       /\ ~ stream
       /\ \/ up = <<Connect>> /\ down = <<>>
          \/ up = <<>> /\ (down = <<>> \/ \E b \in BOOLEAN : down = <<Connack(b)>>)
  /\ mpc = "puback" =>
       /\ stream /\ packetId # nextId
       /\ up = <<>> \/ up = <<Publish(packetId, publishing)>>
       /\ \A i \in 1..Len(down) : down[i].type = "puback"
       /\ down # <<>> /\ Head(down).id = packetId =>
            /\ up = <<>> /\ publishing \in broker
            /\ \A i \in 1..Len(down) : down[i].id = packetId
  /\ ~ stream /\ mpc # "connack" => up = <<>> /\ down = <<>>
  /\ mpc = "publish" => stream

\* Ok means taken: a PUBACK for an earlier packet, repeated or left unread,
\* never acknowledges the event in hand.
OkMeansTaken == mpc = "ok" => publishing \in broker

MqttInv == MqttTypeOK /\ LinkInSync /\ OkMeansTaken

\* The exporter implements the contract of trait Exporter.
MqttContract == INSTANCE ExporterContract WITH
  Events <- Published,
  None <- 0,
  phase <- IF mpc \in {"idle", "ok", "err"} THEN mpc ELSE "busy",
  event <- publishing,
  taken <- broker

MqttImplementsContract == MqttContract!CSpec
==============================================================================

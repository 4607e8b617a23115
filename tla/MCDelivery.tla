------------------------------ MODULE MCDelivery ------------------------------
(***************************************************************************)
(* The instance of Delivery for TLC: two events, both exporters in the     *)
(* order build_exporters pushes them, and two packet identifiers, so that  *)
(* they wrap round.  MqttCodec has no state; it is evaluated once, at the  *)
(* packet lengths where one to five length bytes begin and end.            *)
(***************************************************************************)
EXTENDS Delivery, MqttCodec

Pair == {<<mqtt, otlp>>}
AllEvents == 1..MaxEvents
EdgeLengths == {0, 1, 127, 128, 16383, 16384, 2097151, 2097152, 268435455, 268435456, 2147483647}

\* Where publish() has write_packet frame its packet: the length of a body is read back as
\* itself, or refused where it takes more than four bytes. A fact about numbers alone, for
\* the packets of Delivery carry no length; the guard only names the place it is about.
PacketsFramed == mpc = "publish" => LengthsReadBack
===============================================================================

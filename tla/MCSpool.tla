------------------------------- MODULE MCSpool -------------------------------
(***************************************************************************)
(* Instances of Spool for TLC: one or two boots, the exporter lists that   *)
(* build_exporters can produce (none, MQTT, MQTT then OTLP), and a u64 of  *)
(* one or two digits so that joined journal lines can grow past it.        *)
(***************************************************************************)
EXTENDS Spool

CONSTANTS mqtt, otlp

OnlyMqtt == {<<mqtt>>}
Pair == {<<mqtt, otlp>>}
NoneOrPair == {<<>>, <<mqtt, otlp>>}
==============================================================================

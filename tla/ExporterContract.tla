--------------------------- MODULE ExporterContract ---------------------------
(***************************************************************************)
(* What the drain of the spool expects of an exporter (trait Exporter,     *)
(* src/export/mod.rs): export() is called for one event at a time and      *)
(* returns Ok only when the backend has taken that event.  An Err promises *)
(* nothing: the backend may have taken the event, or take it later.  The   *)
(* process may die during a call.  MqttExporter.tla and OtlpExporter.tla   *)
(* implement it.                                                           *)
(***************************************************************************)
CONSTANTS
  Events,  \* identities of events
  None     \* no event

VARIABLES
  phase,   \* of the call: "idle", "busy", or its result, "ok" or "err"
  event,   \* the event the call is about, or None
  taken    \* events the backend has taken

cvars == <<phase, event, taken>>

CInit == phase = "idle" /\ event = None /\ taken = {}

Call(e) ==
  /\ phase = "idle"
  /\ phase' = "busy" /\ event' = e
  /\ UNCHANGED taken

\* A packet of this call or of an earlier one reaches the backend.
Take(e) ==
  /\ taken' = taken \cup {e}
  /\ UNCHANGED <<phase, event>>

Succeed ==
  /\ phase = "busy" /\ event \in taken
  /\ phase' = "ok"
  /\ UNCHANGED <<event, taken>>

Fail ==
  /\ phase = "busy"
  /\ phase' = "err"
  /\ UNCHANGED <<event, taken>>

\* The caller has the result, or is gone.
Return ==
  /\ phase' = "idle" /\ event' = None
  /\ UNCHANGED taken

CNext == (\E e \in Events : Call(e) \/ Take(e)) \/ Succeed \/ Fail \/ Return

CSpec == CInit /\ [][CNext]_cvars
==============================================================================

----------------------------- MODULE MCOtaUpdate -----------------------------
(***************************************************************************)
(* Instances of OtaUpdate for TLC: the binary installed by hand, a good    *)
(* update, one that fails and one that hangs.                              *)
(***************************************************************************)
EXTENDS OtaUpdate

CONSTANTS installed, good, bad, stuck
==============================================================================

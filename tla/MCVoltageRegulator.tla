------------------------- MODULE MCVoltageRegulator -------------------------
(* One regulator; the .cfg files give the constants. *)
EXTENDS VoltageRegulator
==============================================================================

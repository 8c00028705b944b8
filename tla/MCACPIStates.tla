---------------------------- MODULE MCACPIStates ----------------------------
(* The ACPI states of ACPIStates.tla; the .cfg files give the constants. *)
EXTENDS ACPIStates
==============================================================================

---------------------------- MODULE MCPeripherals ----------------------------
(* One item with a child; the .cfg file gives the constants. *)
EXTENDS Peripherals
==============================================================================

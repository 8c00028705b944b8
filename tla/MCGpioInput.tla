---------------------------- MODULE MCGpioInput -----------------------------
(* One gated input; the .cfg files give the constants. *)
EXTENDS GpioInput
==============================================================================

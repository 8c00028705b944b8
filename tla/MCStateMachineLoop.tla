------------------------- MODULE MCStateMachineLoop -------------------------
(***************************************************************************)
(* A netlist with an oscillating loop: osc is its own inverse while enable *)
(* is on.  doc/StateMachine.md:27 knows that such a configuration does not *)
(* settle; the code bounds the rounds of one evaluation.                   *)
(***************************************************************************)
EXTENDS StateMachine

In(s) == [signal |-> s, invert |-> FALSE]

MCSignals == {"enable", "osc"}
MCInputs == {"enable"}
MCBlocks == {"inverter"}
MCBlock ==
  [b \in MCBlocks |->
    [and |-> {In("enable"), [signal |-> "osc", invert |-> TRUE]}, or |-> {},
     andThenOr |-> FALSE, invertFirst |-> FALSE, activeLow |-> FALSE,
     out |-> "osc"]]
MCOutputs == {}
MCOutput == [o \in MCOutputs |-> [in |-> "osc", enabled |-> "osc"]]
MCReceivers == [s \in MCSignals |-> <<"inverter">>]
MCConstruction == <<SetDirtyBitEvent>> \o ConstructLogic("inverter")
==============================================================================

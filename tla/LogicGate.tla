------------------------------ MODULE LogicGate ------------------------------
(***************************************************************************)
(* The combinational part of a Logic block (Logic.cpp, LogicInput.cpp):    *)
(* what Logic::Update computes from the levels of the block's inputs.      *)
(*                                                                         *)
(* A signal's level is Signal::active: -1 until something drives the       *)
(* signal, then 0 or 1.  A block is a record with the fields of struct     *)
(* ConfigLogic that Update reads:                                          *)
(*   and, or       the sets of its inputs [signal, invert];                *)
(*   andThenOr, invertFirst, activeLow   the BOOLEAN options;              *)
(*   out           the signal it drives.                                   *)
(* Delays and input filters (delay_usec, input_stable_usec) are 0 here.    *)
(***************************************************************************)
EXTENDS Integers

CONSTANT Signals

Undefined == -1

Level == {Undefined, 0, 1}

LogicInput == [signal : Signals, invert : BOOLEAN]

Logic == [and : SUBSET LogicInput, or : SUBSET LogicInput,
          andThenOr : BOOLEAN, invertFirst : BOOLEAN, activeLow : BOOLEAN,
          out : Signals]

(* The signals a block listens to: its LogicInputs are receivers of them. *)
InputsOf(g) == {i.signal : i \in g.and \cup g.or}

ToLevel(b) == IF b THEN 1 ELSE 0

(* LogicInput::GetLevel with no filter.  An undefined signal reads as 0,
   whether the input is inverted or not. *)
Asserted(i, level) ==
  /\ level[i.signal] # Undefined
  /\ (level[i.signal] = 1) # i.invert

GetLevelOrInputs(g, level) == \E i \in g.or : Asserted(i, level)

GetLevelAndInputs(g, level) == \A i \in g.and : Asserted(i, level)

(* The first gate with its optional inversion; an empty one is neutral. *)
FirstGate(g, level) ==
  IF g.andThenOr
    THEN g.and # {} /\ (GetLevelAndInputs(g, level) # g.invertFirst)
    ELSE g.or = {} \/ (GetLevelOrInputs(g, level) # g.invertFirst)

SecondGate(g, level) ==
  IF g.andThenOr
    THEN FirstGate(g, level) \/ GetLevelOrInputs(g, level)
    ELSE FirstGate(g, level) /\ GetLevelAndInputs(g, level)

(* `result' at the end of the gates of Logic::Update. *)
Result(g, level) == ToLevel(SecondGate(g, level) # g.activeLow)
==============================================================================

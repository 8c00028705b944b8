---------------------------- MODULE MCLogicTiming ----------------------------
(* A filtered power good and an inverted, unfiltered fault. *)
EXTENDS LogicTiming

MCSignals == {"good", "fault", "reset_n"}
MCBlock ==
  [and |-> {[signal |-> "good", invert |-> FALSE],
            [signal |-> "fault", invert |-> TRUE]},
   or |-> {}, andThenOr |-> FALSE, invertFirst |-> FALSE, activeLow |-> FALSE,
   out |-> "reset_n"]
MCStable == [s \in {"good", "fault"} |-> IF s = "good" THEN 2 ELSE 0]
==============================================================================

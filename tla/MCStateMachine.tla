--------------------------- MODULE MCStateMachine ---------------------------
(***************************************************************************)
(* A power sequence: the line of rail1 is on when the request is; rail2,   *)
(* whose signal is active low, follows once that line is reported on, or   *)
(* when it is forced by an immutable signal.  The blocks use both orders   *)
(* of the gates, and none depends on itself.  The line is a receiver of a  *)
(* signal that is walked once before anything drives it.                   *)
(***************************************************************************)
EXTENDS StateMachine

In(s) == [signal |-> s, invert |-> FALSE]

MCSignals == {"request", "force", "rail1_On", "rail1_Enabled", "rail2_n"}
MCInputs == {"request"}
MCBlocks == {"rail1", "rail2"}
MCBlock ==
  [b \in MCBlocks |->
    IF b = "rail1"
      THEN [and |-> {}, or |-> {In("request")},
            andThenOr |-> FALSE, invertFirst |-> TRUE, activeLow |-> TRUE,
            out |-> "rail1_On"]
      ELSE [and |-> {In("rail1_On"), In("rail1_Enabled")},
            or |-> {In("force")},
            andThenOr |-> TRUE, invertFirst |-> FALSE, activeLow |-> TRUE,
            out |-> "rail2_n"]]
MCOutputs == {"line1"}
MCOutput == [o \in MCOutputs |-> [in |-> "rail1_On", enabled |-> "rail1_Enabled"]]
MCReceivers ==
  [s \in MCSignals |->
    CASE s = "request" -> <<"rail1">>
      [] s = "force" -> <<"rail2">>
      [] s = "rail1_On" -> <<"rail2", "line1">>
      [] s = "rail1_Enabled" -> <<"rail2">>
      [] s = "rail2_n" -> <<>>]
MCConstruction ==
  ConstructImmutable("force", 0) \o <<SetDirtyBitEvent>>
    \o ConstructLogic("rail2") \o ConstructLogic("rail1")
    \o ConstructOutput("line1")

ASSUME Layered
==============================================================================

------------------------------ MODULE LogOutput ------------------------------
(***************************************************************************)
(* LogOutput: an output that writes an entry of the event log when its     *)
(* signal is asserted, and a message when it is de-asserted.  Update runs  *)
(* on io, Apply on the output thread.  Peripherals puts them into steps.   *)
(***************************************************************************)
EXTENDS Integers, Sequences

CONSTANT LogActiveLow   \* active_low of the output: 0 or 1

ASSUME LogAssumption == LogActiveLow \in {0, 1}

VARIABLES
  logLevel,   \* LogOutput::level
  entry       \* history: the last entry it has written

logVars == <<logLevel, entry>>

Unknown == -1

LogTypeOK ==
  /\ logLevel \in {Unknown, 0, 1}
  /\ entry \in {"none", "asserted", "de-asserted"}

LogInit == logLevel = Unknown /\ entry = "none"

Real(v) == (v + LogActiveLow) % 2

Entry(v) == IF Real(v) = 1 THEN "asserted" ELSE "de-asserted"

(* What Update posts for the level v while _On has the level `on'. *)
PostsUndriven(v, on) ==   \* mutant
  IF on <= 0 THEN <<>> ELSE <<[output |-> "log", value |-> v]>>
Posts(v, on) ==
  IF v < 0 \/ on <= 0 THEN <<>> ELSE <<[output |-> "log", value |-> v]>>

(* The first level is not worth an entry unless it is an assertion. *)
Silent(v) == logLevel = v \/ (logLevel = Unknown /\ Real(v) = 0)

ApplyLog(v) ==
  /\ logLevel' = v
  /\ entry' = IF Silent(v) THEN entry ELSE Entry(v)
==============================================================================

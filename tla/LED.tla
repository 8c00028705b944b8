--------------------------------- MODULE LED ---------------------------------
(***************************************************************************)
(* LED: an output that sets a group of LEDs by a call on D-Bus.  Update    *)
(* runs on io and Apply on the output thread; newLevel is shared by both   *)
(* without a lock, so Apply is two steps.  Peripherals composes them.      *)
(*                                                                         *)
(* External: the bus keeps the order of the calls, and the LED service     *)
(* carries one out or is down.                                             *)
(***************************************************************************)
EXTENDS Integers, Sequences

CONSTANT LedActiveLow   \* active_low of the output: 0 or 1

ASSUME LedAssumption == LedActiveLow \in {0, 1}

VARIABLES
  newLevel,   \* LED::newLevel
  ledLevel,   \* LED::level
  applying,   \* Apply has found a new level
  ledCalls,   \* SetLEDState calls under way
  lamp,       \* external: the group of LEDs
  refused     \* history: the last call was answered with an error

ledVars == <<newLevel, ledLevel, applying, ledCalls, lamp, refused>>

LedTypeOK ==
  /\ {newLevel, ledLevel, lamp} \subseteq {0, 1}
  /\ {applying, refused} \subseteq BOOLEAN
  /\ ledCalls \in Seq({0, 1})

(* The constructor sends the level of a signal that nothing has driven. *)
LedInit ==
  /\ newLevel = 0 /\ ledLevel = 0
  /\ applying = FALSE
  /\ ledCalls = <<0>>
  /\ lamp \in {0, 1}
  /\ refused = FALSE

Shows(v) == (v + LedActiveLow) % 2

(* Update on io, for the level v of the signal: the new level, and what is
   posted to the output thread. *)
LedUpdated(v) == IF v < 0 THEN newLevel ELSE Shows(v)
LedPosts(v) == IF v < 0 THEN <<>> ELSE <<[output |-> "led"]>>

(* Apply: compare, then remember and send. *)
ComparesUndone == newLevel > ledLevel   \* mutant
Differs == newLevel # ledLevel

LedCompare ==
  /\ applying' = Differs
  /\ UNCHANGED <<newLevel, ledLevel, ledCalls, lamp, refused>>

LedSend ==
  /\ applying
  /\ applying' = FALSE
  /\ ledLevel' = newLevel
  /\ ledCalls' = Append(ledCalls, newLevel)
  /\ UNCHANGED <<newLevel, lamp, refused>>

(* A call that fails is logged, and not repeated. *)
LedAnswer ==
  /\ ledCalls # <<>>
  /\ ledCalls' = Tail(ledCalls)
  /\ \/ lamp' = Head(ledCalls) /\ refused' = FALSE
     \/ lamp' = lamp /\ refused' = TRUE
  /\ UNCHANGED <<newLevel, ledLevel, applying>>
==============================================================================

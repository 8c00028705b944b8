----------------------------- MODULE Peripherals -----------------------------
(***************************************************************************)
(* From the inventory to a lamp and the event log: an ItemPresent input    *)
(* drives a signal that an LED and a LogOutput show, the latter while its  *)
(* _On signal, `enable', is high.                                          *)
(*                                                                         *)
(* EvaluateState is one step of io that calls Update for the receivers of  *)
(* the dirty signals, as Propagation.tla allows.                           *)
(***************************************************************************)
EXTENDS Presence, LED, LogOutput

CONSTANT MaxQueue   \* bound: the outside acts while less is under way

ASSUME QueueAssumption == MaxQueue \in Nat \ {0}

VARIABLES
  enable,    \* level of the _On signal of the LogOutput
  dirty,     \* dirty signals: "present" and "enable"
  outQueue   \* calls of Apply that are posted to the output thread

vars == <<presenceVars, ledVars, logVars, enable, dirty, outQueue>>

TypeOK ==
  /\ PresenceTypeOK /\ LedTypeOK /\ LogTypeOK
  /\ enable \in {Undefined, 0, 1}
  /\ dirty \subseteq {"present", "enable"}
  /\ outQueue \in Seq({[output |-> "led"]}
                        \cup {[output |-> "log", value |-> v] : v \in {0, 1}})

Init ==
  /\ PresenceInit /\ LedInit /\ LogInit
  /\ enable = Undefined
  /\ dirty = {"present", "enable"}
  /\ outQueue = <<>>

UnderWay == Len(outQueue) + Len(ledCalls)

-----------------------------------------------------------------------------
(* The io thread, which first constructs the input. *)

ConstructInput ==
  /\ Construct
  /\ UNCHANGED <<ledVars, logVars, enable, dirty, outQueue>>

RunMessage ==
  /\ HandleMessage
  /\ dirty' = IF present' = present THEN dirty ELSE dirty \cup {"present"}
  /\ UNCHANGED <<ledVars, logVars, enable, outQueue>>

(* Who is called for the dirty signals: the LogOutput listens to both. *)
WakesLogOnce == "present" \in dirty   \* mutant of WakesLog
WakesLog == dirty # {}
WakesLed == "present" \in dirty

EvaluateState ==
  /\ ctor = <<>> /\ dirty # {}
  /\ newLevel' = IF WakesLed THEN LedUpdated(present) ELSE newLevel
  /\ outQueue' = outQueue \o (IF WakesLed THEN LedPosts(present) ELSE <<>>)
                          \o (IF WakesLog THEN Posts(present, enable) ELSE <<>>)
  /\ dirty' = {}
  /\ UNCHANGED <<presenceVars, ledLevel, applying, ledCalls, lamp,
                 refused, logVars, enable>>

IoThread == ConstructInput \/ RunMessage \/ EvaluateState

(* The output thread. *)

RunLedApply ==
  /\ ~applying /\ outQueue # <<>> /\ Head(outQueue).output = "led"
  /\ LedCompare
  /\ outQueue' = Tail(outQueue)
  /\ UNCHANGED <<presenceVars, logVars, enable, dirty>>

RunLedSend ==
  /\ LedSend
  /\ UNCHANGED <<presenceVars, logVars, enable, dirty, outQueue>>

RunLogApply ==
  /\ ~applying /\ outQueue # <<>> /\ Head(outQueue).output = "log"
  /\ ApplyLog(Head(outQueue).value)
  /\ outQueue' = Tail(outQueue)
  /\ UNCHANGED <<presenceVars, ledVars, enable, dirty>>

OutputThread == RunLedApply \/ RunLedSend \/ RunLogApply

-----------------------------------------------------------------------------
(* Outside: the services, the bus and the driver of `enable'. *)

AnswerGet == Answer /\ UNCHANGED <<ledVars, logVars, enable, dirty, outQueue>>

AnswerLed == LedAnswer /\ UNCHANGED <<presenceVars, logVars, enable, dirty, outQueue>>

InventoryActs ==
  /\ UnderWay < MaxQueue
  /\ Inventory
  /\ UNCHANGED <<ledVars, logVars, enable, dirty, outQueue>>

Drive(v) ==
  /\ UnderWay < MaxQueue
  /\ ctor = <<>> /\ enable # v
  /\ enable' = v
  /\ dirty' = dirty \cup {"enable"}
  /\ UNCHANGED <<presenceVars, ledVars, logVars, outQueue>>

Outside == InventoryActs \/ \E v \in {0, 1} : Drive(v)

Next == IoThread \/ OutputThread \/ AnswerGet \/ AnswerLed \/ Outside

Spec == Init /\ [][Next]_vars

(* Both threads run what is queued, and the bus answers every call.  The
   services owe nothing. *)
Fairness ==
  /\ WF_vars(ConstructInput) /\ WF_vars(RunMessage) /\ WF_vars(EvaluateState)
  /\ WF_vars(OutputThread) /\ WF_vars(AnswerGet) /\ WF_vars(AnswerLed)

FairSpec == Spec /\ Fairness

-----------------------------------------------------------------------------
(* Properties. *)

(* The signal shows the item: when no message is under way, it is the Present
   property of the service (doc/config.md:98-99).  No change falls between the
   Get and the match, no answer is applied after a newer change.  Excepted
   are a restart of a service that has answered, which sends no change, and
   the message of a child, which the match takes for the item's. *)
Quiet == ctor = <<>> /\ ~asks /\ inbox = <<>>

PresenceIsCurrent ==
  Quiet /\ ~Down /\ ~renewed /\ ~misled => present = inventory

OutputsIdle == dirty = {} /\ outQueue = <<>> /\ ~applying

(* The lamp shows the signal at rest, although the output thread reads
   newLevel while io writes it, unless the last call has failed: an LED does
   not repeat one. *)
LampShowsSignal ==
  OutputsIdle /\ ledCalls = <<>> /\ ~refused /\ present # Undefined =>
    lamp = Shows(present)

(* The event log shows the signal at rest while the output is enabled: an
   assertion that comes before the enable is not overlooked. *)
MonitorIsCurrent ==
  OutputsIdle /\ enable = 1 /\ present # Undefined =>
    entry \in (IF Real(present) = 1 THEN {"asserted"} ELSE {"none", "de-asserted"})

(* From the item to the lamp: when the services stay up and nothing changes
   any more, the lamp ends at the presence of the item, however long the
   inventory was down before (the Get is repeated until it succeeds). *)
Steady == ~Down /\ ~renewed /\ ~misled

ReachesLamp ==
  <>[][~Outside]_vars /\ <>[]Steady =>
    <>[](refused \/ lamp = Shows(inventory))
==============================================================================

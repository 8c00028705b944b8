----------------------------- MODULE GpioInput ------------------------------
(***************************************************************************)
(* GpioInput: an input line that a gate signal <name>_On switches between  *)
(* following the line and an idle level.                                   *)
(*                                                                         *)
(* The output thread requests and releases the line (Acquire, Release);    *)
(* io waits for its edges.  `gated' is written on the output thread and    *)
(* read on both, without a lock.                                           *)
(*                                                                         *)
(* External: the level of the `pin', active low already accounted for by   *)
(* the kernel, and the `edges' that the kernel keeps for a requested line. *)
(***************************************************************************)
EXTENDS Integers, TwoThreads

CONSTANTS
  ActiveLow, GatedIdleHigh, GatedIdleLow, GatedOutputODLow,
  MaxQueue,   \* bound: the gate moves while fewer handlers are queued
  MaxEdges    \* bound: the pin moves while the kernel keeps fewer edges

ASSUME ConstantsAssumption ==
  /\ {ActiveLow, GatedIdleHigh, GatedIdleLow, GatedOutputODLow} \subseteq BOOLEAN
  /\ {MaxQueue, MaxEdges} \subseteq Nat \ {0}

Undefined == -1

(* The instructions. *)
Acquire == [op |-> "Acquire"]
Open == [op |-> "Open"]
PostInitial == [op |-> "PostInitial"]
ReadInitial == [op |-> "ReadInitial"]
SetInitial(v) == [op |-> "SetInitial", value |-> v]
Release == [op |-> "Release"]
Close == [op |-> "Close"]
Gate == [op |-> "Gate"]
SetGated(v) == [op |-> "SetGated", value |-> v]
ReadEvent == [op |-> "ReadEvent"]
OnEvent(v) == [op |-> "OnEvent", value |-> v]
WaitAgain == [op |-> "WaitAgain"]

Instruction ==
  {Acquire, Open, PostInitial, ReadInitial, Release, Close, Gate, ReadEvent,
   WaitAgain}
    \cup UNION {{SetInitial(v), SetGated(v), OnEvent(v)} : v \in {0, 1}}

VARIABLES
  on,          \* level of <name>_On
  out,         \* level of the signal
  enabled,     \* level of <name>_Enabled
  gated,
  line,        \* the request of the line, and whether io can wait for it
  waits,       \* how many async_wait for an edge are outstanding on io
  pin,         \* external: level of the line
  edges,       \* external: edges not yet read from the requested line
  hurried,     \* history: the gate moved before its last change was over, or
               \* two waits from such a change were still outstanding
  disturbed    \* history: the pin moved while the line was being opened

signals == <<on, out, enabled>>
lineVars == <<line, waits, edges>>
histories == <<hurried, disturbed>>
vars == <<signals, gated, lineVars, pin, histories, queue, run>>

TypeOK ==
  /\ on \in {Undefined, 0, 1}
  /\ out \in {Undefined, 0, 1}
  /\ enabled \in {0, 1}
  /\ gated \in BOOLEAN
  /\ line \in {"released", "low", "input", "closing"}
  /\ waits \in Nat
  /\ pin \in {0, 1}
  /\ edges \in Seq({0, 1})
  /\ {hurried, disturbed} \subseteq BOOLEAN
  /\ ThreadsTypeOK(Instruction)

(* A level of a gated input.  Without a configured one, Release leaves
   newLevel as it finds it on the stack. *)
IdleLevelsOnlyHigh ==   \* mutant
  IF GatedIdleHigh THEN {IF ActiveLow THEN 0 ELSE 1} ELSE {Undefined}
IdleLevels ==
  IF GatedIdleHigh THEN {IF ActiveLow THEN 0 ELSE 1}
  ELSE IF GatedIdleLow THEN {IF ActiveLow THEN 1 ELSE 0}
  ELSE {0, 1}

(* The line while it is not an input of the program. *)
GatedLine == IF GatedOutputODLow THEN "low" ELSE "released"

(* The constructor of a gated input. *)
Init ==
  /\ on = Undefined
  /\ out \in IF GatedIdleHigh \/ GatedIdleLow THEN IdleLevels ELSE {Undefined}
  /\ enabled = 0
  /\ gated = TRUE
  /\ line = GatedLine
  /\ waits = 0
  /\ pin \in {0, 1}
  /\ edges = <<>>
  /\ hurried = FALSE
  /\ disturbed = FALSE
  /\ queue = [t \in Threads |-> <<>>]
  /\ run = [t \in Threads |-> <<>>]

waiting == waits > 0

AtRest == ThreadsIdle /\ ~(waiting /\ edges # <<>>)

Start(t) == TakeHandler(t) /\ UNCHANGED <<signals, gated, lineVars, pin, histories>>

-----------------------------------------------------------------------------
(* Acquire and Release, on the output thread.  Errors of the request end   *)
(* the program.                                                            *)

RunAcquire ==
  /\ At("output", "Acquire")
  /\ IF gated
     THEN /\ line' = "input"
          /\ edges' = <<>>
          /\ waits' = waits + 1
          /\ Continue("output", <<Open, PostInitial>>)
     ELSE /\ Continue("output", <<>>)
          /\ UNCHANGED lineVars
  /\ UNCHANGED <<signals, gated, pin, histories, queue>>

RunOpen ==
  /\ At("output", "Open")
  /\ gated' = FALSE
  /\ Continue("output", <<>>)
  /\ UNCHANGED <<signals, lineVars, pin, histories, queue>>

RunPostInitial ==
  /\ At("output", "PostInitial")
  /\ Post("output", <<ReadInitial>>)
  /\ Continue("output", <<>>)
  /\ UNCHANGED <<signals, gated, lineVars, pin, histories>>

(* "If Release() is called before initial level could be read". *)
ReleasedBeforeNever == FALSE   \* mutant
ReleasedBefore == gated

RunReadInitial ==
  /\ At("output", "ReadInitial")
  /\ IF ReleasedBefore THEN UNCHANGED queue ELSE Post("io", <<SetInitial(pin)>>)
  /\ Continue("output", <<>>)
  /\ UNCHANGED <<signals, gated, lineVars, pin, histories>>

RunRelease ==
  /\ At("output", "Release")
  /\ IF gated
     THEN /\ Continue("output", <<>>)
          /\ UNCHANGED lineVars
     ELSE /\ line' = "closing"
          /\ waits' = 0
          /\ Continue("output", <<Close, Gate>>)
          /\ UNCHANGED edges
  /\ UNCHANGED <<signals, gated, pin, histories, queue>>

RunClose ==
  /\ At("output", "Close")
  /\ line' = "released"
  /\ edges' = <<>>
  /\ Continue("output", <<>>)
  /\ UNCHANGED <<signals, gated, waits, pin, histories, queue>>

RunGate ==
  /\ At("output", "Gate")
  /\ gated' = TRUE
  /\ line' = GatedLine
  /\ \E v \in IdleLevels : Post("io", <<SetGated(v)>>)
  /\ Continue("output", <<>>)
  /\ disturbed' = FALSE
  /\ UNCHANGED <<signals, waits, edges, pin, hurried>>

OutputThread ==
  \/ Start("output") \/ RunAcquire \/ RunOpen \/ RunPostInitial
  \/ RunReadInitial \/ RunRelease \/ RunClose \/ RunGate

-----------------------------------------------------------------------------
(* io. *)

RunSetInitial ==
  /\ At("io", "SetInitial")
  /\ out' = Head(run["io"]).value
  /\ enabled' = 1
  /\ Continue("io", <<>>)
  /\ UNCHANGED <<on, gated, lineVars, pin, histories, queue>>

RunSetGatedLevel ==   \* mutant: _Enabled is not set
  /\ At("io", "SetGated")
  /\ out' = Head(run["io"]).value
  /\ Continue("io", <<>>)
  /\ UNCHANGED <<on, enabled, gated, lineVars, pin, histories, queue>>

RunSetGated ==
  /\ At("io", "SetGated")
  /\ out' = Head(run["io"]).value
  /\ enabled' = 0
  /\ Continue("io", <<>>)
  /\ UNCHANGED <<on, gated, lineVars, pin, histories, queue>>

Requested == line \in {"input", "closing"}

(* One edge ends all the waits: io has a handler to run for each, which
   cancelling no longer takes back. *)
ReadEvents == [i \in 1..waits |-> <<ReadEvent>>]

ReadyWaitsOn ==   \* mutant: the next wait starts before the event is read
  /\ waiting /\ edges # <<>>
  /\ queue' = [queue EXCEPT !["io"] = @ \o ReadEvents]
  /\ UNCHANGED <<signals, gated, lineVars, pin, histories, run>>

Ready ==
  /\ waiting /\ edges # <<>>
  /\ waits' = 0
  /\ queue' = [queue EXCEPT !["io"] = @ \o ReadEvents]
  /\ UNCHANGED <<signals, gated, line, edges, pin, histories, run>>

(* event_read throws if the line is released, and blocks if there is none. *)
RunReadEvent ==
  /\ At("io", "ReadEvent")
  /\ \/ /\ ~Requested
        /\ Continue("io", <<>>)
        /\ UNCHANGED edges
     \/ /\ Requested /\ edges # <<>>
        /\ edges' = Tail(edges)
        /\ Continue("io", <<OnEvent(Head(edges)), WaitAgain>>)
  /\ UNCHANGED <<signals, gated, line, waits, pin, histories, queue>>

RunOnEvent ==
  /\ At("io", "OnEvent")
  /\ out' = Head(run["io"]).value
  /\ Continue("io", <<>>)
  /\ UNCHANGED <<on, enabled, gated, lineVars, pin, histories, queue>>

WaitsAgainNever == FALSE   \* mutant
WaitsAgain == ~gated

(* A wait for a descriptor that was released fails at once.  A handler that a
   quick release has left behind waits again beside the wait of Acquire. *)
RunWaitAgain ==
  /\ At("io", "WaitAgain")
  /\ waits' = IF WaitsAgain /\ line = "input" THEN waits + 1 ELSE waits
  /\ Continue("io", <<>>)
  /\ UNCHANGED <<signals, gated, line, edges, pin, histories, queue>>

(* Update: EvaluateState walks <name>_On, for the first time perhaps before
   anything has driven it.  A level that is not 0 opens the gate. *)
Opens(v) == v # 0

Update(v) ==
  /\ run["io"] = <<>>
  /\ \A t \in Threads : Len(queue[t]) < MaxQueue
  /\ on # v \/ v = Undefined
  /\ v = Undefined => on = Undefined /\ AtRest /\ gated
  /\ on' = v
  /\ hurried' = ~(AtRest /\ waits <= 1)
  /\ \/ Opens(v) /\ gated /\ Post("output", <<Acquire>>)
     \/ ~Opens(v) /\ ~gated /\ Post("output", <<Release>>)
     \/ Opens(v) # gated /\ UNCHANGED queue
  /\ UNCHANGED <<out, enabled, gated, lineVars, pin, disturbed, run>>

IoThread ==
  \/ Start("io") \/ RunSetInitial \/ RunSetGated \/ RunReadEvent
  \/ RunOnEvent \/ RunWaitAgain

-----------------------------------------------------------------------------
(* The line is on its way from Acquire to the first level on io. *)
Opening ==
  \/ \E op \in {"Open", "PostInitial", "ReadInitial"} : At("output", op)
  \/ \E i \in DOMAIN queue["output"] : queue["output"][i] = <<ReadInitial>>
  \/ At("io", "SetInitial")
  \/ \E i \in DOMAIN queue["io"] : Head(queue["io"][i]).op = "SetInitial"

PinMoves ==
  /\ Len(edges) < MaxEdges
  /\ pin' = 1 - pin
  /\ edges' = IF Requested THEN Append(edges, 1 - pin) ELSE edges
  /\ disturbed' = (disturbed \/ Opening)
  /\ UNCHANGED <<signals, gated, line, waits, hurried, queue, run>>

Next ==
  \/ IoThread \/ OutputThread \/ Ready \/ PinMoves
  \/ \E v \in {Undefined, 0, 1} : Update(v)

Spec == Init /\ [][Next]_vars

Fairness == WF_vars(IoThread) /\ WF_vars(OutputThread) /\ WF_vars(Ready)

FairSpec == Spec /\ Fairness

-----------------------------------------------------------------------------
(* Properties. *)

(* A gated input reads as its idle level, whatever edges were on their way
   when it was gated (doc/config.md:119-120). *)
GatedReadsIdle ==
  AtRest /\ gated /\ (GatedIdleHigh \/ GatedIdleLow) =>
    out \in IdleLevels /\ enabled = 0

(* An open input reads as its line (doc/config.md:118), unless the line
   moved before its first level was read and set. *)
OpenReadsLine == AtRest /\ ~gated /\ ~disturbed => out = pin /\ enabled = 1

(* io does not block in event_read on a line that has no event. *)
NeverBlocks ==
  At("io", "ReadEvent") /\ Requested /\ ~hurried => edges # <<>>

(* A gate that waits for its last change takes effect in the end: the input
   is gated when <name>_On is low and open when it is high
   (doc/config.md:115-118), and _Enabled reports it. *)
GateTakesEffect ==
  \A v \in {0, 1} :
    on = v /\ ~hurried ~> (on # v \/ hurried \/ (enabled = v /\ gated = (v = 0)))
==============================================================================

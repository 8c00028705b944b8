---------------------------- MODULE StateMachine ----------------------------
(***************************************************************************)
(* The evaluation engine: StateMachine, driving SignalProvider, Logic      *)
(* blocks and GpioOutputs.                                                 *)
(*                                                                         *)
(* Two threads run.  The io thread constructs everything and then executes *)
(* the handlers posted to `io' in FIFO order: EvaluateState, the Update    *)
(* that the constructor of Logic posts, and closures of drivers that call  *)
(* Signal::SetLevel.  EvaluateState is a loop, so it is split here into    *)
(* the steps of the loop; no other handler of io runs in between, but the  *)
(* output thread and the drivers do.  The output thread executes the       *)
(* GpioOutput::Apply calls posted to `IoOutput', in FIFO order.            *)
(***************************************************************************)
EXTENDS SignalProvider, FiniteSets

CONSTANTS
  Blocks,       \* the Logic blocks
  Block,        \* the configuration of each
  Outputs,      \* the GpioOutputs
  Output,       \* the signals of each: [in, enabled]
  Receivers,    \* Signal::receivers: the objects listening to each signal
  Inputs,       \* the signals set by input drivers
  Construction, \* what the constructors do, in the order they do it
  EvalLimit,    \* the rounds of one EvaluateState; 10000 in the code
  MaxPending    \* bound: drivers report while less than this is under way

EvaluateState == [op |-> "evaluate"]
LogicUpdate(b) == [op |-> "update", block |-> b]
SetLevelTo(s, v) == [op |-> "set", signal |-> s, value |-> v]
FindOrAdd(s) == [op |-> "find", signal |-> s]
SetDirtyBitEvent == [op |-> "listen"]

Handler == {EvaluateState} \cup {LogicUpdate(b) : b \in Blocks}
             \cup {SetLevelTo(s, v) : s \in Signals, v \in {0, 1}}

ConstructionStep == {FindOrAdd(s) : s \in Signals} \cup {SetDirtyBitEvent}
             \cup {LogicUpdate(b) : b \in Blocks}
             \cup {SetLevelTo(s, v) : s \in Signals, v \in {0, 1}}

(* What the constructors of Logic and GpioOutput, and that of
   SignalProvider for an immutable signal, contribute to Construction. *)
Finds(signals) == [i \in DOMAIN signals |-> FindOrAdd(signals[i])]

ConstructLogic(b) ==
  Finds(Append(SetToSeq(InputsOf(Block[b])), Block[b].out))
    \o <<LogicUpdate(b)>>

ConstructOutput(o) ==
  Finds(<<Output[o].in, Output[o].enabled>>)
    \o <<SetLevelTo(Output[o].enabled, 0)>>

ConstructImmutable(s, v) == <<FindOrAdd(s), SetLevelTo(s, v)>>

ASSUME NetlistAssumption ==
  /\ Block \in [Blocks -> Logic]
  /\ Output \in [Outputs -> [in : Signals, enabled : Signals]]
  /\ Blocks \cap Outputs = {}
  /\ Receivers \in [Signals -> Seq(Blocks \cup Outputs)]
  /\ Inputs \subseteq Signals

(* Every block and output is a receiver of the signals it reads. *)
ASSUME ReceiversAssumption ==
  /\ \A b \in Blocks, s \in Signals :
        s \in InputsOf(Block[b]) => b \in ToSet(Receivers[s])
  /\ \A o \in Outputs : o \in ToSet(Receivers[Output[o].in])

ASSUME ConstructionAssumption ==
  /\ Construction \in Seq(ConstructionStep)
  /\ \A b \in Blocks : LogicUpdate(b) \in ToSet(Construction)
  /\ SetDirtyBitEvent \in ToSet(Construction)

ASSUME BoundsAssumption == EvalLimit \in Nat \ {0} /\ MaxPending \in Nat \ {0}

VARIABLES
  pc,         \* of the io thread: "construct", "idle" or "evaluate"
  todo,       \* what is left of Construction
  ioQueue,    \* handlers posted to io
  position,   \* EvaluateState: the index in the list it walks
  receiver,   \* EvaluateState: the index in the receivers of that signal
  timeout,    \* EvaluateState: the rounds left
  lastValue,  \* Logic::lastValue; Undefined while lastValueValid is false
  outQueue,   \* Apply calls posted to IoOutput
  pin,        \* GpioOutput::level, which is the level of the line
  abandoned   \* history: EvaluateState returned with a list it did not walk

evalVars == <<position, receiver, timeout>>
outputVars == <<outQueue, pin>>
vars == <<providerVars, pc, todo, ioQueue, evalVars, lastValue, outputVars,
          abandoned>>

Apply(o, v) == [output |-> o, value |-> v]

TypeOK ==
  /\ ProviderTypeOK
  /\ pc \in {"construct", "idle", "evaluate"}
  /\ todo \in Seq(ConstructionStep)
  /\ ioQueue \in Seq(Handler)
  /\ position \in Nat \ {0}
  /\ receiver \in Nat \ {0}
  /\ timeout \in (IF pc = "evaluate" THEN 1 ELSE 0) .. EvalLimit
  /\ lastValue \in [Blocks -> Level]
  /\ outQueue \in Seq([output : Outputs, value : {0, 1}])
  /\ pin \in [Outputs -> Level]
  /\ abandoned \in BOOLEAN

Init ==
  /\ ProviderInit
  /\ pc = "construct"
  /\ todo = Construction
  /\ ioQueue = <<>>
  /\ position = 1
  /\ receiver = 1
  /\ timeout = 0
  /\ lastValue = [b \in Blocks |-> Undefined]
  /\ outQueue = <<>>
  /\ pin = [o \in Outputs |-> Undefined]
  /\ abandoned = FALSE

OnDirtySet(notified) == IF notified THEN <<EvaluateState>> ELSE <<>>

-----------------------------------------------------------------------------
(* The constructors, then StateMachine::Run. *)

Constructing(step) ==
  /\ pc = "construct"
  /\ todo # <<>>
  /\ Head(todo) = step
  /\ todo' = Tail(todo)
  /\ UNCHANGED <<pc, evalVars, lastValue, outputVars, abandoned>>

ConstructFindOrAdd(s) ==
  /\ Constructing(FindOrAdd(s))
  /\ IF s \in created
       THEN UNCHANGED <<providerVars, ioQueue>>
       ELSE /\ Add(s)
            /\ ioQueue' = ioQueue \o OnDirtySet(Notifies(s))
            /\ UNCHANGED listening

ConstructSetLevel(s, v) ==
  /\ Constructing(SetLevelTo(s, v))
  /\ SetLevel(s, v)
  /\ ioQueue' = ioQueue \o OnDirtySet(SetLevelNotifies(s, v))
  /\ UNCHANGED <<created, listening>>

ConstructListen ==
  /\ Constructing(SetDirtyBitEvent)
  /\ listening' = TRUE
  /\ UNCHANGED <<created, level, dirty, dirtyA, dirtyB, dirtyAIsActive,
                 ioQueue>>

ConstructPost(b) ==
  /\ Constructing(LogicUpdate(b))
  /\ ioQueue' = Append(ioQueue, LogicUpdate(b))
  /\ UNCHANGED providerVars

Run ==
  /\ pc = "construct"
  /\ todo = <<>>
  /\ pc' = "idle"
  /\ ioQueue' = Append(ioQueue, EvaluateState)
  /\ UNCHANGED <<providerVars, todo, evalVars, lastValue, outputVars,
                 abandoned>>

Construct ==
  \/ \E s \in Signals : ConstructFindOrAdd(s)
  \/ \E s \in Signals, v \in {0, 1} : ConstructSetLevel(s, v)
  \/ ConstructListen
  \/ \E b \in Blocks : ConstructPost(b)
  \/ Run

-----------------------------------------------------------------------------
(* Handlers of io other than EvaluateState. *)

(* Logic::Update.  `posts' is what the handler leaves of ioQueue. *)
UpdateLogic(b, posts) ==
  LET result == Result(Block[b], level)
      out == Block[b].out
  IN IF lastValue[b] = result
       THEN /\ ioQueue' = posts
            /\ UNCHANGED <<level, dirty, dirtyA, dirtyB, dirtyAIsActive,
                           lastValue>>
       ELSE /\ SetLevel(out, result)
            /\ ioQueue' = posts \o OnDirtySet(SetLevelNotifies(out, result))
            /\ lastValue' = [lastValue EXCEPT ![b] = result]

Running(handler) ==
  /\ pc = "idle"
  /\ ioQueue # <<>>
  /\ Head(ioQueue) = handler

RunUpdate(b) ==
  /\ Running(LogicUpdate(b))
  /\ UpdateLogic(b, Tail(ioQueue))
  /\ UNCHANGED <<created, listening, pc, todo, evalVars, outputVars,
                 abandoned>>

RunSetLevel(s, v) ==
  /\ Running(SetLevelTo(s, v))
  /\ SetLevel(s, v)
  /\ ioQueue' = Tail(ioQueue) \o OnDirtySet(SetLevelNotifies(s, v))
  /\ UNCHANGED <<created, listening, pc, todo, evalVars, lastValue,
                 outputVars, abandoned>>

-----------------------------------------------------------------------------
(* StateMachine::EvaluateState.  It walks Fetched, the list that
   GetDirtySignalsAndClearList handed out, and for each signal its
   receivers. *)

(* Mutant: the evaluation is tried again whenever the loop ends. *)
EnterRoundRetries(left, posts) ==
  LET again == Active # <<>> /\ left > 0
  IN /\ GetDirtySignalsAndClearList
     /\ pc' = IF again THEN "evaluate" ELSE "idle"
     /\ position' = 1
     /\ receiver' = 1
     /\ timeout' = left
     /\ ioQueue' = posts \o OnDirtySet(~again)
     /\ abandoned' = (abandoned \/ (Active # <<>> /\ ~again))
     /\ UNCHANGED <<created, level, listening, todo, lastValue, outputVars>>

(* The loop condition for the list just handed out, with `left' rounds
   left, and what follows the loop. *)
EnterRound(left, posts) ==
  LET again == Active # <<>> /\ left > 0
  IN /\ GetDirtySignalsAndClearList
     /\ pc' = IF again THEN "evaluate" ELSE "idle"
     /\ position' = 1
     /\ receiver' = 1
     /\ timeout' = left
     /\ ioQueue' = posts \o OnDirtySet(left = 0)
     /\ abandoned' = (abandoned \/ (Active # <<>> /\ ~again))
     /\ UNCHANGED <<created, level, listening, todo, lastValue, outputVars>>

StartEvaluate ==
  /\ Running(EvaluateState)
  /\ EnterRound(EvalLimit, Tail(ioQueue))

(* Mutant: the last receiver of a signal is left out. *)
WalkedAllButLast == receiver >= Len(Receivers[Fetched[position]])

WalkedReceivers == receiver > Len(Receivers[Fetched[position]])
WalkedSignals == position > Len(Fetched)

(* The receiver that UpdateReceivers calls next. *)
AtReceiver(r) ==
  /\ pc = "evaluate"
  /\ ~WalkedSignals
  /\ ~WalkedReceivers
  /\ Receivers[Fetched[position]][receiver] = r
  /\ receiver' = receiver + 1
  /\ UNCHANGED <<created, listening, pc, todo, position, timeout, pin,
                 abandoned>>

UpdateBlock(b) ==
  /\ AtReceiver(b)
  /\ UpdateLogic(b, ioQueue)
  /\ UNCHANGED outQueue

(* Mutants: an undefined level is applied too; no Apply is posted when the
   line has the level already, whatever is queued before it. *)
UpdateOutputUnguarded(o) ==
  /\ AtReceiver(o)
  /\ outQueue' = Append(outQueue, Apply(o, level[Output[o].in]))
  /\ UNCHANGED <<level, dirty, dirtyA, dirtyB, dirtyAIsActive, ioQueue,
                 lastValue>>

UpdateOutputIfNew(o) ==
  LET in == level[Output[o].in]
  IN /\ AtReceiver(o)
     /\ outQueue' = IF in \in {Undefined, pin[o]} THEN outQueue
                    ELSE Append(outQueue, Apply(o, in))
     /\ UNCHANGED <<level, dirty, dirtyA, dirtyB, dirtyAIsActive, ioQueue,
                    lastValue>>

(* GpioOutput::Update.  The posted Apply holds the level read here. *)
UpdateOutput(o) ==
  LET in == level[Output[o].in]
  IN /\ AtReceiver(o)
     /\ outQueue' = IF in = Undefined THEN outQueue
                    ELSE Append(outQueue, Apply(o, in))
     /\ UNCHANGED <<level, dirty, dirtyA, dirtyB, dirtyAIsActive, ioQueue,
                    lastValue>>

NextSignal ==
  /\ pc = "evaluate"
  /\ ~WalkedSignals
  /\ WalkedReceivers
  /\ position' = position + 1
  /\ receiver' = 1
  /\ UNCHANGED <<providerVars, pc, todo, ioQueue, timeout, lastValue,
                 outputVars, abandoned>>

NextRound ==
  /\ pc = "evaluate"
  /\ WalkedSignals
  /\ EnterRound(timeout - 1, ioQueue)

Evaluate ==
  \/ StartEvaluate
  \/ \E b \in Blocks : UpdateBlock(b)
  \/ \E o \in Outputs : UpdateOutput(o)
  \/ NextSignal
  \/ NextRound

-----------------------------------------------------------------------------
(* The output thread and the drivers. *)

(* Mutant: a line that goes low is not reported. *)
RunApplyReportsHigh(o, v) ==
  /\ outQueue # <<>>
  /\ Head(outQueue) = Apply(o, v)
  /\ outQueue' = Tail(outQueue)
  /\ pin' = [pin EXCEPT ![o] = v]
  /\ ioQueue' = IF pin[o] = v \/ v = 0 THEN ioQueue
                ELSE Append(ioQueue, SetLevelTo(Output[o].enabled, v))
  /\ UNCHANGED <<providerVars, pc, todo, evalVars, lastValue, abandoned>>

(* GpioOutput::Apply.  Only a new level is written and reported. *)
RunApply(o, v) ==
  /\ outQueue # <<>>
  /\ Head(outQueue) = Apply(o, v)
  /\ outQueue' = Tail(outQueue)
  /\ pin' = [pin EXCEPT ![o] = v]
  /\ ioQueue' = IF pin[o] = v THEN ioQueue
                ELSE Append(ioQueue, SetLevelTo(Output[o].enabled, v))
  /\ UNCHANGED <<providerVars, pc, todo, evalVars, lastValue, abandoned>>

(* What drivers and outputs have under way, for the bound on Drive. *)
UnderWay ==
  Len(outQueue) + Cardinality({i \in DOMAIN ioQueue : ioQueue[i].op = "set"})

(* An input driver reports a level: its closure is queued to io. *)
Drive(s, v) ==
  /\ s \in created
  /\ UnderWay < MaxPending
  /\ ioQueue' = Append(ioQueue, SetLevelTo(s, v))
  /\ UNCHANGED <<providerVars, pc, todo, evalVars, lastValue, outputVars,
                 abandoned>>

IoThread ==
  \/ Construct
  \/ \E b \in Blocks : RunUpdate(b)
  \/ \E s \in Signals, v \in {0, 1} : RunSetLevel(s, v)
  \/ Evaluate

OutputThread == \E o \in Outputs, v \in {0, 1} : RunApply(o, v)

Drivers == \E s \in Inputs, v \in {0, 1} : Drive(s, v)

Next == IoThread \/ OutputThread \/ Drivers

Spec == Init /\ [][Next]_vars

(* Both threads keep running their queues; drivers need never report. *)
Fairness == WF_vars(IoThread) /\ WF_vars(OutputThread)

FairSpec == Spec /\ Fairness

-----------------------------------------------------------------------------
(* Properties. *)

(* The walk of EvaluateState has still to come past receiver r. *)
AheadInWalk(r) ==
  /\ pc = "evaluate"
  /\ \E i \in DOMAIN Fetched : \E j \in DOMAIN Receivers[Fetched[i]] :
        /\ Receivers[Fetched[i]][j] = r
        /\ i > position \/ (i = position /\ j >= receiver)

(* An Update of block b is certain: its first one is posted, the walk is on
   the way to it, or one of its inputs is listed for the next walk. *)
UpdatePending(b) ==
  \/ LogicUpdate(b) \in ToSet(todo)
  \/ LogicUpdate(b) \in ToSet(ioQueue)
  \/ AheadInWalk(b)
  \/ \E s \in InputsOf(Block[b]) : InActive(s)

UpToDate(b) == lastValue[b] = Result(Block[b], level)

(* No change of a signal is lost on a block: a block whose output does not
   fit the levels of its inputs has an Update coming.  Unless EvaluateState
   gave up, at StateMachine.cpp:184. *)
NoLostUpdate == ~abandoned => \A b \in Blocks : UpToDate(b) \/ UpdatePending(b)

(* The same without the exception: StateMachine.cpp:184 announces that a
   failed evaluation is tried again, and doc/StateMachine.md:30 that it goes
   on until no signal is dirty, so giving up would lose nothing. *)
RetryLosesNothing == \A b \in Blocks : UpToDate(b) \/ UpdatePending(b)

(* A non-empty dirty list has an evaluation coming that will fetch it, so
   OnDirtySet is called often enough although SetDirty returns early for a
   signal that is listed already. *)
Wakeup ==
  Active # <<>> => \/ pc \in {"construct", "evaluate"}
                  \/ EvaluateState \in ToSet(ioQueue)

(* The dirty bit of a signal and its presence in the active list agree:
   SetLevel and ClearDirty keep the two representations together. *)
DirtyBitIsListed == \A s \in Signals : dirty[s] <=> InActive(s)

(* The level the output thread was last told to apply to o. *)
Posted(o) ==
  LET mine == {i \in DOMAIN outQueue : outQueue[i].output = o}
  IN IF mine = {} THEN pin[o] ELSE outQueue[Max(mine)].value

(* No change of a signal is lost on an output either: the level last posted
   for it is its signal's, or GpioOutput::Update will be called again. *)
NoLostOutput ==
  ~abandoned => \A o \in Outputs :
    \/ level[Output[o].in] = Undefined
    \/ Posted(o) = level[Output[o].in]
    \/ AheadInWalk(o)
    \/ InActive(Output[o].in)

AtRest == pc = "idle" /\ ioQueue = <<>> /\ outQueue = <<>>

(* When nothing is left to do, the machine is a solution of the netlist:
   every block's signal is the function of its inputs, every line has the
   level of its signal and every _Enabled signal reports its line. *)
RestIsSolution ==
  AtRest /\ ~abandoned =>
    /\ \A b \in Blocks : level[Block[b].out] = Result(Block[b], level)
    /\ \A o \in Outputs :
          /\ level[Output[o].in] # Undefined => pin[o] = level[Output[o].in]
          /\ pin[o] # Undefined => level[Output[o].enabled] = pin[o]

(* An evaluation of this netlist ends within its EvalLimit rounds. *)
Converges == ~abandoned

(* The signals are in layers, no more of them than an evaluation has rounds,
   and each block that hears a signal drives one of a higher layer.  So no
   block depends on itself, except through a line that io is told of later. *)
Layered ==
  \E layer \in [Signals -> 0 .. EvalLimit - 1] :
    \A s \in Signals : \A b \in Blocks \cap ToSet(Receivers[s]) :
       layer[s] < layer[Block[b].out]

(* Once the drivers stop reporting, the machine comes to rest. *)
Settles == <>[][~Drivers]_vars => <>[]AtRest

(* The receivers whose Update the lists and the walk lead to. *)
Due ==
  {r \in Blocks \cup Outputs :
     \/ AheadInWalk(r)
     \/ \E s \in Signals : InActive(s) /\ r \in ToSet(Receivers[s])}

(* The value a receiver made last: a block's output, and the level that an
   output has posted. *)
Shown ==
  [r \in Blocks \cup Outputs |-> IF r \in Blocks THEN lastValue[r] ELSE Posted(r)]

ValueOf(r, lv) ==
  IF r \in Blocks THEN Result(Block[r], lv) ELSE lv[Output[r].in]

Promise ==
  INSTANCE Propagation
    WITH Listeners <- Blocks \cup Outputs,
         ListenersOf <- [s \in Signals |-> ToSet(Receivers[s])],
         Drives <- [b \in Blocks |-> Block[b].out],
         Value <- ValueOf,
         shown <- Shown,
         due <- Due

(* The two buffers, their swap and the rounds implement the propagation of
   Propagation.tla, on every schedule of the threads: the Update of every
   receiver of a signal is called after the signal is set. *)
Propagates == Promise!FairSpec
==============================================================================

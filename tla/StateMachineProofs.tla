------------------------- MODULE StateMachineProofs -------------------------
(***************************************************************************)
(* Theorems about StateMachine, for every netlist, every order of          *)
(* construction and every EvalLimit: no change is lost on a block, the     *)
(* dirty bits and the dirty list agree, a list that is not empty has an    *)
(* evaluation coming, no change is lost on an output, a machine at rest is *)
(* a solution of its netlist, and the engine implements Propagation.       *)
(* A netlist whose signals are in layers never gives an evaluation up.     *)
(***************************************************************************)
EXTENDS StateMachine, QueueLemmas

-----------------------------------------------------------------------------
(* What Logic::Update computes. *)

(* A block computes 0 or 1, whatever the levels of its inputs. *)
LEMMA ResultIsBit ==
  ASSUME NEW g, NEW lv
  PROVE  Result(g, lv) \in {0, 1}
BY DEF Result, ToLevel

(* The result depends on the block's inputs only, so a change of any other
   signal leaves a block as up to date as it was. *)
LEMMA ResultIsLocal ==
  ASSUME NEW g, NEW lv, NEW other,
         \A s \in InputsOf(g) : lv[s] = other[s]
  PROVE  Result(g, lv) = Result(g, other)
<1>1. \A i \in g.and \cup g.or : Asserted(i, lv) = Asserted(i, other)
  BY DEF Asserted, InputsOf
<1>2. GetLevelAndInputs(g, lv) = GetLevelAndInputs(g, other)
  BY <1>1 DEF GetLevelAndInputs
<1>3. GetLevelOrInputs(g, lv) = GetLevelOrInputs(g, other)
  BY <1>1 DEF GetLevelOrInputs
<1> QED
  BY <1>2, <1>3 DEF Result, SecondGate, FirstGate

-----------------------------------------------------------------------------
(* The calls of SignalProvider. *)

(* SetDirty's append grows the active list and no other. *)
LEMMA AppendActiveEffect ==
  ASSUME ProviderTypeOK, NEW seq \in Seq(Signals), AppendActive(seq)
  PROVE  /\ dirtyA' \in Seq(Signals)
         /\ dirtyB' \in Seq(Signals)
         /\ dirtyAIsActive' = dirtyAIsActive
         /\ Fetched' = Fetched
         /\ ToSet(Active') = ToSet(Active) \cup ToSet(seq)
<1>1. CASE dirtyAIsActive
  <2>1. dirtyA' = dirtyA \o seq /\ dirtyB' = dirtyB
    BY <1>1 DEF AppendActive
  <2>2. dirtyA' \in Seq(Signals) /\ dirtyB' \in Seq(Signals)
    BY <2>1 DEF ProviderTypeOK
  <2>3. ToSet(dirtyA') = ToSet(dirtyA) \cup ToSet(seq)
    BY <2>1, ToSetConcat DEF ProviderTypeOK
  <2> QED
    BY <1>1, <2>1, <2>2, <2>3 DEF AppendActive, Active, Fetched
<1>2. CASE ~dirtyAIsActive
  <2>1. dirtyB' = dirtyB \o seq /\ dirtyA' = dirtyA
    BY <1>2 DEF AppendActive
  <2>2. dirtyA' \in Seq(Signals) /\ dirtyB' \in Seq(Signals)
    BY <2>1 DEF ProviderTypeOK
  <2>3. ToSet(dirtyB') = ToSet(dirtyB) \cup ToSet(seq)
    BY <2>1, ToSetConcat DEF ProviderTypeOK
  <2> QED
    BY <1>2, <2>1, <2>2, <2>3 DEF AppendActive, Active, Fetched
<1> QED
  BY <1>1, <1>2

(* SetLevel stores the level and lists the signal if the level is new; it
   leaves the list that is being walked alone. *)
LEMMA SetLevelEffect ==
  ASSUME ProviderTypeOK, NEW s \in Signals, NEW v \in {0, 1}, SetLevel(s, v)
  PROVE  /\ level' = [level EXCEPT ![s] = v]
         /\ dirty' \in [Signals -> BOOLEAN]
         /\ dirtyA' \in Seq(Signals)
         /\ dirtyB' \in Seq(Signals)
         /\ dirtyAIsActive' = dirtyAIsActive
         /\ Fetched' = Fetched
         /\ ToSet(Active') = ToSet(Active) \cup
                               (IF level[s] = v THEN {} ELSE {s})
         /\ dirty' = IF level[s] = v THEN dirty
                     ELSE [dirty EXCEPT ![s] = TRUE]
<1>1. CASE level[s] = v
  <2>1. UNCHANGED <<level, dirty, dirtyA, dirtyB, dirtyAIsActive>>
    BY <1>1 DEF SetLevel
  <2>2. level = [level EXCEPT ![s] = v]
    BY <1>1 DEF ProviderTypeOK
  <2> QED
    BY <1>1, <2>1, <2>2 DEF ProviderTypeOK, Active, Fetched
<1>2. CASE level[s] # v
  <2>1. /\ level' = [level EXCEPT ![s] = v]
        /\ dirty' = [dirty EXCEPT ![s] = TRUE]
        /\ SetDirty(s)
    BY <1>2 DEF SetLevel
  <2>2. dirty' \in [Signals -> BOOLEAN]
    BY <2>1 DEF ProviderTypeOK
  <2> DEFINE seq == IF InActive(s) THEN <<>> ELSE <<s>>
  <2>3. seq \in Seq(Signals) /\ AppendActive(seq)
    BY <2>1 DEF SetDirty
  <2>4. ToSet(Active) \cup ToSet(seq) = ToSet(Active) \cup {s}
    BY ToSetSmall DEF InActive
  <2> HIDE DEF seq
  <2>5. /\ dirtyA' \in Seq(Signals)
        /\ dirtyB' \in Seq(Signals)
        /\ dirtyAIsActive' = dirtyAIsActive
        /\ Fetched' = Fetched
        /\ ToSet(Active') = ToSet(Active) \cup {s}
    BY <2>3, <2>4, AppendActiveEffect
  <2> QED
    BY <1>2, <2>1, <2>2, <2>5
<1> QED
  BY <1>1, <1>2

(* SignalProvider::Add marks the new signal and lists it as active. *)
LEMMA AddEffect ==
  ASSUME ProviderTypeOK, NEW s \in Signals, Add(s)
  PROVE  /\ dirty' = [dirty EXCEPT ![s] = TRUE]
         /\ dirtyA' \in Seq(Signals)
         /\ dirtyB' \in Seq(Signals)
         /\ dirtyAIsActive' = dirtyAIsActive
         /\ Fetched' = Fetched
         /\ ToSet(Active') = ToSet(Active) \cup {s}
<1> DEFINE seq == IF InActive(s) THEN <<s>> ELSE <<s, s>>
<1>1. seq \in Seq(Signals) /\ ToSet(seq) = {s}
  BY ToSetSmall
<1>2. AppendActive(seq) /\ dirty' = [dirty EXCEPT ![s] = TRUE]
  BY DEF Add
<1> HIDE DEF seq
<1> QED
  BY <1>1, <1>2, AppendActiveEffect

(* GetDirtySignalsAndClearList hands out the active list and leaves an
   empty one in its place. *)
LEMMA GetDirtyEffect ==
  ASSUME ProviderTypeOK, GetDirtySignalsAndClearList
  PROVE  /\ dirty' \in [Signals -> BOOLEAN]
         /\ dirtyA' \in Seq(Signals)
         /\ dirtyB' \in Seq(Signals)
         /\ dirtyAIsActive' \in BOOLEAN
         /\ Fetched' = Active
         /\ Active' = <<>>
<1>1. dirty' \in [Signals -> BOOLEAN]
  BY DEF GetDirtySignalsAndClearList, ProviderTypeOK
<1>2. CASE dirtyAIsActive = TRUE
  <2>1. dirtyAIsActive' = FALSE /\ dirtyA' = dirtyA /\ dirtyB' = <<>>
    BY <1>2 DEF GetDirtySignalsAndClearList
  <2>2. dirtyA' \in Seq(Signals) /\ dirtyB' \in Seq(Signals)
    BY <2>1 DEF ProviderTypeOK
  <2>3. Fetched' = Active /\ Active' = <<>>
    BY <1>2, <2>1 DEF Active, Fetched
  <2> QED
    BY <1>1, <2>1, <2>2, <2>3
<1>3. CASE dirtyAIsActive = FALSE
  <2>1. dirtyAIsActive' = TRUE /\ dirtyB' = dirtyB /\ dirtyA' = <<>>
    BY <1>3 DEF GetDirtySignalsAndClearList
  <2>2. dirtyA' \in Seq(Signals) /\ dirtyB' \in Seq(Signals)
    BY <2>1 DEF ProviderTypeOK
  <2>3. Fetched' = Active /\ Active' = <<>>
    BY <1>3, <2>1 DEF Active, Fetched
  <2> QED
    BY <1>1, <2>1, <2>2, <2>3
<1> QED
  BY <1>2, <1>3 DEF ProviderTypeOK

(* What every step does to the provider that does not fetch the list: the
   walked list stays, listed signals stay listed, and a signal whose level
   changes is listed. *)
ProviderAdvances ==
  /\ ProviderTypeOK'
  /\ dirtyAIsActive' = dirtyAIsActive
  /\ Fetched' = Fetched
  /\ ToSet(Active) \subseteq ToSet(Active')
  /\ \A s \in Signals : level'[s] = level[s] \/ s \in ToSet(Active')

(* Signal::SetLevel keeps the types and lists what it changes. *)
LEMMA SetLevelAdvances ==
  ASSUME ProviderTypeOK, NEW s \in Signals, NEW v \in {0, 1}, SetLevel(s, v),
         created' = created, listening' = listening
  PROVE  ProviderAdvances
<1>1. /\ level' = [level EXCEPT ![s] = v]
      /\ dirty' \in [Signals -> BOOLEAN]
      /\ dirtyA' \in Seq(Signals)
      /\ dirtyB' \in Seq(Signals)
      /\ dirtyAIsActive' = dirtyAIsActive
      /\ Fetched' = Fetched
      /\ ToSet(Active') = ToSet(Active) \cup
                           (IF level[s] = v THEN {} ELSE {s})
  BY SetLevelEffect
<1>2. v \in Level
  BY DEF Level
<1>3. level' \in [Signals -> Level]
  BY <1>1, <1>2 DEF ProviderTypeOK
<1>4. ASSUME NEW t \in Signals
      PROVE  level'[t] = level[t] \/ t \in ToSet(Active')
  BY <1>1 DEF ProviderTypeOK
<1> QED
  BY <1>1, <1>3, <1>4 DEF ProviderAdvances, ProviderTypeOK

(* SignalProvider::Add does the same for the signal it creates. *)
LEMMA AddAdvances ==
  ASSUME ProviderTypeOK, NEW s \in Signals, Add(s), listening' = listening
  PROVE  ProviderAdvances
<1>1. /\ dirty' = [dirty EXCEPT ![s] = TRUE]
      /\ dirtyA' \in Seq(Signals)
      /\ dirtyB' \in Seq(Signals)
      /\ dirtyAIsActive' = dirtyAIsActive
      /\ Fetched' = Fetched
      /\ ToSet(Active') = ToSet(Active) \cup {s}
  BY AddEffect
<1>2. created' = created \cup {s} /\ level' = level
  BY DEF Add
<1>3. dirty' \in [Signals -> BOOLEAN]
  BY <1>1 DEF ProviderTypeOK
<1> QED
  BY <1>1, <1>2, <1>3 DEF ProviderAdvances, ProviderTypeOK

(* So does a step that leaves signals and lists alone. *)
LEMMA UnchangedAdvances ==
  ASSUME ProviderTypeOK, created' = created, listening' \in BOOLEAN,
         UNCHANGED <<level, dirty, dirtyA, dirtyB, dirtyAIsActive>>
  PROVE  ProviderAdvances /\ Active' = Active
BY DEF ProviderAdvances, ProviderTypeOK, Active, Fetched

-----------------------------------------------------------------------------
(* Posting to io, and Logic::Update. *)

(* The handlers that drivers and constructors post have their type. *)
LEMMA HandlerType ==
  /\ EvaluateState \in Handler
  /\ \A b \in Blocks : LogicUpdate(b) \in Handler
  /\ \A s \in Signals, v \in {0, 1} : SetLevelTo(s, v) \in Handler
BY DEF Handler

(* What OnDirtySet appends to a queue of handlers: EvaluateState or nothing. *)
LEMMA Posting ==
  ASSUME NEW q \in Seq(Handler), NEW notified
  PROVE  /\ q \o OnDirtySet(notified) \in Seq(Handler)
         /\ ToSet(q \o OnDirtySet(notified)) =
              ToSet(q) \cup (IF notified THEN {EvaluateState} ELSE {})
<1> DEFINE e == EvaluateState
           posted == IF notified THEN <<e>> ELSE <<>>
<1>1. OnDirtySet(notified) = posted
  BY DEF OnDirtySet
<1>2. e \in Handler
  BY HandlerType
<1> HIDE DEF e
<1>3. posted \in Seq(Handler)
  BY <1>2
<1>4. ToSet(posted) = IF notified THEN {e} ELSE {}
  BY ToSetSmall
<1> HIDE DEF posted
<1>5. /\ q \o posted \in Seq(Handler)
      /\ ToSet(q \o posted) = ToSet(q) \cup ToSet(posted)
  BY <1>3, ToSetConcat
<1> QED
  BY <1>1, <1>4, <1>5 DEF e

(* Logic::Update stores the result of the block as its last value and keeps
   every type; handlers posted before it are still queued. *)
LEMMA UpdateLogicEffect ==
  ASSUME TypeOK, NEW b \in Blocks, NEW posts \in Seq(Handler),
         UpdateLogic(b, posts), created' = created, listening' = listening
  PROVE  /\ ProviderAdvances
         /\ ioQueue' \in Seq(Handler)
         /\ ToSet(posts) \subseteq ToSet(ioQueue')
         /\ lastValue' = [lastValue EXCEPT ![b] = Result(Block[b], level)]
<1> DEFINE result == Result(Block[b], level)
           out == Block[b].out
<1>1. result \in {0, 1} /\ out \in Signals
  BY ResultIsBit, NetlistAssumption DEF Logic
<1>2. ProviderTypeOK /\ lastValue \in [Blocks -> Level]
  BY DEF TypeOK
<1>3. CASE lastValue[b] = result
  <2>1. /\ ioQueue' = posts
        /\ UNCHANGED <<level, dirty, dirtyA, dirtyB, dirtyAIsActive, lastValue>>
    BY <1>3 DEF UpdateLogic
  <2>2. lastValue = [lastValue EXCEPT ![b] = result]
    BY <1>2, <1>3
  <2>3. ProviderAdvances
    BY <1>2, <2>1, UnchangedAdvances DEF ProviderTypeOK
  <2> QED
    BY <2>1, <2>2, <2>3
<1>4. CASE lastValue[b] # result
  <2>1. /\ SetLevel(out, result)
        /\ ioQueue' = posts \o OnDirtySet(SetLevelNotifies(out, result))
        /\ lastValue' = [lastValue EXCEPT ![b] = result]
    BY <1>4 DEF UpdateLogic
  <2>2. ProviderAdvances
    BY <1>1, <1>2, <2>1, SetLevelAdvances
  <2>3. /\ ioQueue' \in Seq(Handler)
        /\ ToSet(posts) \subseteq ToSet(ioQueue')
    BY <2>1, Posting
  <2> QED
    BY <2>1, <2>2, <2>3
<1> QED
  BY <1>3, <1>4

-----------------------------------------------------------------------------
(* Type correctness. *)

(* Before the constructors run, every variable has its type. *)
LEMMA TypeInit == Init => TypeOK
<1> SUFFICES ASSUME Init PROVE TypeOK
  OBVIOUS
<1>1. Undefined \in Level
  BY DEF Level
<1>2. <<>> \in Seq(Signals) /\ <<>> \in Seq(Handler)
        /\ <<>> \in Seq([output : Outputs, value : {0, 1}])
  OBVIOUS
<1>3. created \subseteq Signals /\ dirtyAIsActive \in BOOLEAN
        /\ listening \in BOOLEAN
  BY DEF Init, ProviderInit
<1>4. level \in [Signals -> Level] /\ dirty \in [Signals -> BOOLEAN]
  BY <1>1 DEF Init, ProviderInit
<1>5. dirtyA \in Seq(Signals) /\ dirtyB \in Seq(Signals)
  BY <1>2 DEF Init, ProviderInit
<1>6. ProviderTypeOK
  BY <1>3, <1>4, <1>5 DEF ProviderTypeOK
<1>7. lastValue \in [Blocks -> Level] /\ pin \in [Outputs -> Level]
  BY <1>1 DEF Init
<1>8. todo \in Seq(ConstructionStep) /\ ioQueue \in Seq(Handler)
        /\ outQueue \in Seq([output : Outputs, value : {0, 1}])
  BY <1>2, ConstructionAssumption DEF Init
<1>9. /\ pc \in {"construct", "idle", "evaluate"}
      /\ position \in Nat \ {0}
      /\ receiver \in Nat \ {0}
      /\ timeout \in (IF pc = "evaluate" THEN 1 ELSE 0) .. EvalLimit
      /\ abandoned \in BOOLEAN
  <2>1. pc = "construct" /\ position = 1 /\ receiver = 1 /\ timeout = 0
          /\ abandoned = FALSE
    BY DEF Init
  <2>2. (IF pc = "evaluate" THEN 1 ELSE 0) = 0
    BY <2>1
  <2>3. timeout \in (IF pc = "evaluate" THEN 1 ELSE 0) .. EvalLimit
    BY <2>1, <2>2, BoundsAssumption
  <2>4. position \in Nat \ {0} /\ receiver \in Nat \ {0}
    BY <2>1
  <2>5. pc \in {"construct", "idle", "evaluate"} /\ abandoned \in BOOLEAN
    BY <2>1
  <2> QED
    BY <2>3, <2>4, <2>5
<1> QED
  BY <1>6, <1>7, <1>8, <1>9 DEF TypeOK

(* A fetch, or the end of an evaluation, keeps the types. *)
LEMMA EnterRoundType ==
  ASSUME TypeOK, NEW left \in 0 .. EvalLimit, NEW posts \in Seq(Handler),
         EnterRound(left, posts)
  PROVE  TypeOK'
<1>1. ProviderTypeOK'
  <2>1. GetDirtySignalsAndClearList /\ UNCHANGED <<created, level, listening>>
    BY DEF EnterRound
  <2> QED
    BY <2>1, GetDirtyEffect DEF TypeOK, ProviderTypeOK
<1>2. ioQueue' \in Seq(Handler)
  BY Posting DEF EnterRound
<1>3. /\ pc' \in {"construct", "idle", "evaluate"}
      /\ position' \in Nat \ {0}
      /\ receiver' \in Nat \ {0}
      /\ timeout' \in (IF pc' = "evaluate" THEN 1 ELSE 0) .. EvalLimit
      /\ abandoned' \in BOOLEAN
      /\ UNCHANGED <<todo, lastValue, outQueue, pin>>
  BY BoundsAssumption DEF EnterRound, outputVars, TypeOK
<1> QED
  BY <1>1, <1>2, <1>3 DEF TypeOK

(* Every step keeps the types. *)
LEMMA TypeStep == TypeOK /\ [Next]_vars => TypeOK'
<1> SUFFICES ASSUME TypeOK, [Next]_vars PROVE TypeOK'
  OBVIOUS
<1>0. ProviderTypeOK
  BY DEF TypeOK
<1>1. ASSUME NEW s \in Signals, ConstructFindOrAdd(s) PROVE TypeOK'
  <2>1. todo' \in Seq(ConstructionStep)
    BY <1>1 DEF ConstructFindOrAdd, Constructing, TypeOK
  <2>2. ProviderTypeOK' /\ ioQueue' \in Seq(Handler)
    <3>1. CASE s \in created
      BY <1>0, <1>1, <3>1
         DEF ConstructFindOrAdd, providerVars, ProviderTypeOK, TypeOK
    <3>2. CASE s \notin created
      <4>1. /\ Add(s) /\ UNCHANGED listening
            /\ ioQueue' = ioQueue \o OnDirtySet(Notifies(s))
        BY <1>1, <3>2 DEF ConstructFindOrAdd
      <4>2. ioQueue' \in Seq(Handler)
        BY <4>1, Posting DEF TypeOK
      <4> QED
        BY <1>0, <4>1, <4>2, AddAdvances DEF ProviderAdvances
    <3> QED
      BY <3>1, <3>2
  <2>3. UNCHANGED <<pc, position, receiver, timeout, lastValue, outQueue, pin,
                    abandoned>>
    BY <1>1 DEF ConstructFindOrAdd, Constructing, evalVars, outputVars
  <2> QED
    BY <2>1, <2>2, <2>3 DEF TypeOK
<1>2. ASSUME NEW s \in Signals, NEW v \in {0, 1}, ConstructSetLevel(s, v)
      PROVE  TypeOK'
  <2>1. todo' \in Seq(ConstructionStep)
    BY <1>2 DEF ConstructSetLevel, Constructing, TypeOK
  <2>2. ProviderTypeOK'
    BY <1>0, <1>2, SetLevelAdvances DEF ConstructSetLevel, ProviderAdvances
  <2>3. ioQueue' \in Seq(Handler)
    BY <1>2, Posting DEF ConstructSetLevel, TypeOK
  <2>4. UNCHANGED <<pc, position, receiver, timeout, lastValue, outQueue, pin,
                    abandoned>>
    BY <1>2 DEF ConstructSetLevel, Constructing, evalVars, outputVars
  <2> QED
    BY <2>1, <2>2, <2>3, <2>4 DEF TypeOK
<1>3. ASSUME ConstructListen PROVE TypeOK'
  <2>1. todo' \in Seq(ConstructionStep)
    BY <1>3 DEF ConstructListen, Constructing, TypeOK
  <2>2. ProviderTypeOK'
    BY <1>0, <1>3 DEF ConstructListen, ProviderTypeOK
  <2>3. UNCHANGED <<pc, ioQueue, position, receiver, timeout, lastValue,
                    outQueue, pin, abandoned>>
    BY <1>3 DEF ConstructListen, Constructing, evalVars, outputVars
  <2> QED
    BY <2>1, <2>2, <2>3 DEF TypeOK
<1>4. ASSUME NEW b \in Blocks, ConstructPost(b) PROVE TypeOK'
  <2>1. todo' \in Seq(ConstructionStep)
    BY <1>4 DEF ConstructPost, Constructing, TypeOK
  <2>2. ProviderTypeOK'
    BY <1>0, <1>4 DEF ConstructPost, providerVars, ProviderTypeOK
  <2>3. ioQueue' \in Seq(Handler)
    BY <1>4, HandlerType DEF ConstructPost, TypeOK
  <2>4. UNCHANGED <<pc, position, receiver, timeout, lastValue, outQueue, pin,
                    abandoned>>
    BY <1>4 DEF ConstructPost, Constructing, evalVars, outputVars
  <2> QED
    BY <2>1, <2>2, <2>3, <2>4 DEF TypeOK
<1>5. ASSUME Run PROVE TypeOK'
  <2>1. ProviderTypeOK'
    BY <1>0, <1>5 DEF Run, providerVars, ProviderTypeOK
  <2>2. ioQueue' \in Seq(Handler) /\ pc' = "idle"
    BY <1>5, HandlerType DEF Run, TypeOK
  <2>3. UNCHANGED <<todo, position, receiver, timeout, lastValue, outQueue,
                    pin, abandoned>>
    BY <1>5 DEF Run, evalVars, outputVars
  <2> QED
    BY <2>1, <2>2, <2>3 DEF TypeOK
<1>6. ASSUME NEW b \in Blocks, RunUpdate(b) PROVE TypeOK'
  <2>1. Tail(ioQueue) \in Seq(Handler)
    BY <1>6 DEF RunUpdate, Running, TypeOK
  <2>2. /\ ProviderTypeOK'
        /\ ioQueue' \in Seq(Handler)
        /\ lastValue' = [lastValue EXCEPT ![b] = Result(Block[b], level)]
    BY <1>6, <2>1, UpdateLogicEffect DEF RunUpdate, ProviderAdvances
  <2>3. lastValue' \in [Blocks -> Level]
    BY <2>2, ResultIsBit DEF TypeOK, Level
  <2>4. UNCHANGED <<pc, todo, position, receiver, timeout, outQueue, pin,
                    abandoned>>
    BY <1>6 DEF RunUpdate, evalVars, outputVars
  <2> QED
    BY <2>2, <2>3, <2>4 DEF TypeOK
<1>7. ASSUME NEW s \in Signals, NEW v \in {0, 1}, RunSetLevel(s, v)
      PROVE  TypeOK'
  <2>1. Tail(ioQueue) \in Seq(Handler)
    BY <1>7 DEF RunSetLevel, Running, TypeOK
  <2>2. ProviderTypeOK'
    BY <1>0, <1>7, SetLevelAdvances DEF RunSetLevel, ProviderAdvances
  <2>3. ioQueue' \in Seq(Handler)
    BY <1>7, <2>1, Posting DEF RunSetLevel
  <2>4. UNCHANGED <<pc, todo, position, receiver, timeout, lastValue, outQueue,
                    pin, abandoned>>
    BY <1>7 DEF RunSetLevel, evalVars, outputVars
  <2> QED
    BY <2>2, <2>3, <2>4 DEF TypeOK
<1>8. ASSUME StartEvaluate PROVE TypeOK'
  <2>1. Tail(ioQueue) \in Seq(Handler)
    BY <1>8 DEF StartEvaluate, Running, TypeOK
  <2>2. EvalLimit \in 0 .. EvalLimit
    BY BoundsAssumption
  <2> QED
    BY <1>8, <2>1, <2>2, EnterRoundType DEF StartEvaluate
<1>9. ASSUME NEW b \in Blocks, UpdateBlock(b) PROVE TypeOK'
  <2>1. /\ ProviderTypeOK'
        /\ ioQueue' \in Seq(Handler)
        /\ lastValue' = [lastValue EXCEPT ![b] = Result(Block[b], level)]
    <3>1. UpdateLogic(b, ioQueue) /\ ioQueue \in Seq(Handler)
      BY <1>9 DEF UpdateBlock, TypeOK
    <3>2. created' = created /\ listening' = listening
      BY <1>9 DEF UpdateBlock, AtReceiver
    <3> QED
      BY <3>1, <3>2, UpdateLogicEffect DEF ProviderAdvances
  <2>2. lastValue' \in [Blocks -> Level]
    BY <2>1, ResultIsBit DEF TypeOK, Level
  <2>3. receiver' \in Nat \ {0}
    BY <1>9 DEF UpdateBlock, AtReceiver, TypeOK
  <2>4. UNCHANGED <<pc, todo, position, timeout, outQueue, pin, abandoned>>
    BY <1>9 DEF UpdateBlock, AtReceiver
  <2> QED
    BY <2>1, <2>2, <2>3, <2>4 DEF TypeOK
<1>10. ASSUME NEW o \in Outputs, UpdateOutput(o) PROVE TypeOK'
  <2> DEFINE in == level[Output[o].in]
  <2>1. Output[o].in \in Signals
    BY NetlistAssumption
  <2>2. in \in Level
    BY <1>0, <2>1 DEF ProviderTypeOK
  <2>3. outQueue' = IF in = Undefined THEN outQueue
                    ELSE Append(outQueue, Apply(o, in))
    BY <1>10 DEF UpdateOutput
  <2>4. in # Undefined => Apply(o, in) \in [output : Outputs, value : {0, 1}]
    BY <2>2 DEF Apply, Level
  <2> HIDE DEF in
  <2>5. outQueue' \in Seq([output : Outputs, value : {0, 1}])
    <3>1. outQueue \in Seq([output : Outputs, value : {0, 1}])
      BY DEF TypeOK
    <3>2. CASE in = Undefined
      BY <2>3, <3>1, <3>2
    <3>3. CASE in # Undefined
      BY <2>3, <2>4, <3>1, <3>3, AppendProperties
    <3> QED
      BY <3>2, <3>3
  <2>6. receiver' \in Nat \ {0}
    BY <1>10 DEF UpdateOutput, AtReceiver, TypeOK
  <2>7. UNCHANGED <<providerVars, pc, todo, ioQueue, position, timeout,
                    lastValue, pin, abandoned>>
    BY <1>10 DEF UpdateOutput, AtReceiver, providerVars
  <2> QED
    BY <2>5, <2>6, <2>7 DEF TypeOK, ProviderTypeOK, providerVars
<1>11. ASSUME NextSignal PROVE TypeOK'
  <2>1. position' \in Nat \ {0} /\ receiver' \in Nat \ {0}
    BY <1>11 DEF NextSignal, TypeOK
  <2>2. UNCHANGED <<providerVars, pc, todo, ioQueue, timeout, lastValue,
                    outQueue, pin, abandoned>>
    BY <1>11 DEF NextSignal, outputVars
  <2> QED
    BY <2>1, <2>2 DEF TypeOK, ProviderTypeOK, providerVars
<1>12. ASSUME NextRound PROVE TypeOK'
  <2>1. timeout - 1 \in 0 .. EvalLimit
    BY <1>12, BoundsAssumption DEF NextRound, TypeOK
  <2> QED
    BY <1>12, <2>1, EnterRoundType DEF NextRound, TypeOK
<1>13. ASSUME NEW o \in Outputs, NEW v \in {0, 1}, RunApply(o, v)
       PROVE  TypeOK'
  <2>1. SetLevelTo(Output[o].enabled, v) \in Handler
    BY HandlerType, NetlistAssumption
  <2>2. ioQueue' \in Seq(Handler)
    BY <1>13, <2>1 DEF RunApply, TypeOK
  <2>3. outQueue' \in Seq([output : Outputs, value : {0, 1}])
    BY <1>13 DEF RunApply, TypeOK
  <2>4. pin' \in [Outputs -> Level]
    BY <1>13 DEF RunApply, TypeOK, Level
  <2>5. UNCHANGED <<providerVars, pc, todo, position, receiver, timeout,
                    lastValue, abandoned>>
    BY <1>13 DEF RunApply, evalVars
  <2> QED
    BY <2>2, <2>3, <2>4, <2>5 DEF TypeOK, ProviderTypeOK, providerVars
<1>14. ASSUME NEW s \in Inputs, NEW v \in {0, 1}, Drive(s, v) PROVE TypeOK'
  <2>1. ioQueue' \in Seq(Handler)
    BY <1>14, HandlerType, NetlistAssumption DEF Drive, TypeOK
  <2>2. UNCHANGED <<providerVars, pc, todo, position, receiver, timeout,
                    lastValue, outQueue, pin, abandoned>>
    BY <1>14 DEF Drive, evalVars, outputVars
  <2> QED
    BY <2>1, <2>2 DEF TypeOK, ProviderTypeOK, providerVars
<1>15. CASE UNCHANGED vars
  BY <1>15
     DEF vars, evalVars, outputVars, providerVars, TypeOK, ProviderTypeOK
<1> QED
  BY <1>1, <1>2, <1>3, <1>4, <1>5, <1>6, <1>7, <1>8, <1>9, <1>10, <1>11,
     <1>12, <1>13, <1>14, <1>15
     DEF Next, IoThread, Construct, Evaluate, OutputThread, Drivers

(* Every variable keeps its type; in particular an evaluation in progress
   has rounds left. *)
THEOREM TypeCorrect == Spec => []TypeOK
<1> QED
  BY TypeInit, TypeStep, PTL DEF Spec

-----------------------------------------------------------------------------
(* No lost update.  NoLostUpdate is inductive together with TypeOK: a step
   that makes a block out of date lists one of the block's inputs, and a
   step that takes an entry away from the dirty list or from the walk
   replaces it by the next stage on the way to the Update. *)

Covered(b) == UpToDate(b) \/ UpdatePending(b)

(* NoLostUpdate, said for each block. *)
LEMMA NoLostUpdateIsCover == NoLostUpdate <=> (~abandoned => \A b \in Blocks : Covered(b))
BY DEF NoLostUpdate, Covered

(* A block only reads signals of the netlist. *)
LEMMA InputsAreSignals ==
  ASSUME NEW b \in Blocks
  PROVE  InputsOf(Block[b]) \subseteq Signals
BY NetlistAssumption DEF InputsOf, Logic, LogicInput

(* A block's posted Update is no other handler or construction step. *)
LEMMA HandlersDiffer ==
  ASSUME NEW b, NEW s, NEW v
  PROVE  /\ LogicUpdate(b) # EvaluateState
         /\ LogicUpdate(b) # SetLevelTo(s, v)
         /\ LogicUpdate(b) # FindOrAdd(s)
         /\ LogicUpdate(b) # SetDirtyBitEvent
<1>1. /\ LogicUpdate(b).op = "update"
      /\ EvaluateState.op = "evaluate"
      /\ SetLevelTo(s, v).op = "set"
      /\ FindOrAdd(s).op = "find"
      /\ SetDirtyBitEvent.op = "listen"
  BY DEF LogicUpdate, EvaluateState, SetLevelTo, FindOrAdd, SetDirtyBitEvent
<1> QED
  BY <1>1

(* A block that has just computed its value from the old levels is covered
   whatever the new levels are. *)
LEMMA ComputedIsCovered ==
  ASSUME ProviderAdvances, NEW b \in Blocks,
         lastValue'[b] = Result(Block[b], level)
  PROVE  Covered(b)'
<1>1. CASE \E s \in InputsOf(Block[b]) : s \in ToSet(Active')
  BY <1>1 DEF Covered, UpdatePending, InActive
<1>2. CASE \A s \in InputsOf(Block[b]) : s \notin ToSet(Active')
  <2>1. \A s \in InputsOf(Block[b]) : level[s] = level'[s]
    BY <1>2, InputsAreSignals DEF ProviderAdvances
  <2>2. Result(Block[b], level) = Result(Block[b], level')
    BY <2>1, ResultIsLocal
  <2> QED
    BY <2>2 DEF Covered, UpToDate
<1> QED
  BY <1>1, <1>2

(* A step that only adds dirty signals keeps a block covered that it does
   not update and whose place in the queues and in the walk it keeps. *)
LEMMA StaysCovered ==
  ASSUME ProviderAdvances, NEW b \in Blocks, Covered(b),
         lastValue'[b] = lastValue[b],
         LogicUpdate(b) \in ToSet(todo) \cup ToSet(ioQueue)
           => LogicUpdate(b) \in ToSet(todo') \cup ToSet(ioQueue'),
         AheadInWalk(b) => AheadInWalk(b)'
  PROVE  Covered(b)'
<1>1. CASE UpToDate(b)
  BY <1>1, ComputedIsCovered DEF UpToDate
<1>2. CASE \E s \in InputsOf(Block[b]) : InActive(s)
  <2>1. \E s \in InputsOf(Block[b]) : s \in ToSet(Active')
    BY <1>2 DEF InActive, ProviderAdvances
  <2> QED
    BY <2>1 DEF Covered, UpdatePending, InActive
<1>3. CASE AheadInWalk(b)
  BY <1>3 DEF Covered, UpdatePending
<1>4. CASE LogicUpdate(b) \in ToSet(todo) \cup ToSet(ioQueue)
  BY <1>4 DEF Covered, UpdatePending
<1> QED
  BY <1>1, <1>2, <1>3, <1>4 DEF Covered, UpdatePending

(* Fetching the list turns "listed" into "ahead in the walk". *)
LEMMA FetchCovers ==
  ASSUME TypeOK, NEW left, NEW posts \in Seq(Handler), EnterRound(left, posts),
         ~abandoned', NEW b \in Blocks, Covered(b), ~AheadInWalk(b),
         LogicUpdate(b) \in ToSet(ioQueue) => LogicUpdate(b) \in ToSet(posts)
  PROVE  Covered(b)'
<1>1. /\ Fetched' = Active
      /\ level' = level /\ lastValue' = lastValue /\ todo' = todo
      /\ position' = 1 /\ receiver' = 1
      /\ pc' = IF Active # <<>> /\ left > 0 THEN "evaluate" ELSE "idle"
      /\ ToSet(posts) \subseteq ToSet(ioQueue')
  BY GetDirtyEffect, Posting DEF EnterRound, TypeOK
<1>2. CASE UpToDate(b)
  BY <1>1, <1>2 DEF Covered, UpToDate
<1>3. CASE LogicUpdate(b) \in ToSet(todo) \/ LogicUpdate(b) \in ToSet(ioQueue)
  BY <1>1, <1>3 DEF Covered, UpdatePending
<1>4. CASE \E s \in InputsOf(Block[b]) : InActive(s)
  <2>1. PICK s \in InputsOf(Block[b]) : s \in ToSet(Active)
    BY <1>4 DEF InActive
  <2>2. PICK i \in DOMAIN Active : Active[i] = s
    BY <2>1 DEF ToSet
  <2>3. s \in Signals /\ b \in ToSet(Receivers[s])
    BY <2>1, InputsAreSignals, ReceiversAssumption
  <2>4. PICK j \in DOMAIN Receivers[s] : Receivers[s][j] = b
    BY <2>3 DEF ToSet
  <2>5. Active \in Seq(Signals) /\ Receivers[s] \in Seq(Blocks \cup Outputs)
    BY <2>3, NetlistAssumption DEF TypeOK, ProviderTypeOK, Active
  <2>6. i \in Nat \ {0} /\ j \in Nat \ {0}
    BY <2>2, <2>4, <2>5
  <2>7. Active # <<>>
    BY <2>2
  <2>8. pc' = "evaluate"
    BY <1>1, <2>7 DEF EnterRound
  <2>9. i > 1 \/ (i = 1 /\ j >= 1)
    BY <2>6
  <2>10. AheadInWalk(b)'
    BY <1>1, <2>2, <2>4, <2>8, <2>9 DEF AheadInWalk
  <2> QED
    BY <2>10 DEF Covered, UpdatePending
<1> QED
  BY <1>2, <1>3, <1>4 DEF Covered, UpdatePending

(* Where the walk stands after the steps that advance it. *)
LEMMA PassingOther ==
  ASSUME TypeOK, ProviderAdvances, NEW r, NEW other, AtReceiver(other),
         r # other, AheadInWalk(r)
  PROVE  AheadInWalk(r)'
<1>1. /\ pc' = pc /\ position' = position /\ receiver' = receiver + 1
      /\ Receivers[Fetched[position]][receiver] = other
      /\ Fetched' = Fetched
  BY DEF AtReceiver, ProviderAdvances
<1>2. PICK i \in DOMAIN Fetched : \E j \in DOMAIN Receivers[Fetched[i]] :
        /\ Receivers[Fetched[i]][j] = r
        /\ i > position \/ (i = position /\ j >= receiver)
  BY DEF AheadInWalk
<1>3. PICK j \in DOMAIN Receivers[Fetched[i]] :
        /\ Receivers[Fetched[i]][j] = r
        /\ i > position \/ (i = position /\ j >= receiver)
  BY <1>2
<1>4. i = position => j # receiver
  BY <1>1, <1>3
<1>5. Fetched \in Seq(Signals)
  BY DEF TypeOK, ProviderTypeOK, Fetched
<1>6. Receivers[Fetched[i]] \in Seq(Blocks \cup Outputs)
  BY <1>2, <1>5, NetlistAssumption
<1>7. j \in Nat /\ receiver \in Nat
  BY <1>3, <1>6 DEF TypeOK
<1>8. i > position \/ (i = position /\ j >= receiver + 1)
  BY <1>3, <1>4, <1>7
<1> QED
  BY <1>1, <1>3, <1>8 DEF AheadInWalk

(* Moving on to the next signal when the receivers of this one are walked
   keeps every receiver that is ahead in the walk. *)
LEMMA PassingSignal ==
  ASSUME TypeOK, ProviderAdvances, WalkedReceivers, pc' = pc,
         position' = position + 1, receiver' = 1, NEW r, AheadInWalk(r)
  PROVE  AheadInWalk(r)'
<1>1. Fetched' = Fetched
  BY DEF ProviderAdvances
<1>2. PICK i \in DOMAIN Fetched : \E j \in DOMAIN Receivers[Fetched[i]] :
        /\ Receivers[Fetched[i]][j] = r
        /\ i > position \/ (i = position /\ j >= receiver)
  BY DEF AheadInWalk
<1>3. PICK j \in DOMAIN Receivers[Fetched[i]] :
        /\ Receivers[Fetched[i]][j] = r
        /\ i > position \/ (i = position /\ j >= receiver)
  BY <1>2
<1>4. Fetched \in Seq(Signals)
  BY DEF TypeOK, ProviderTypeOK, Fetched
<1>5. Receivers[Fetched[i]] \in Seq(Blocks \cup Outputs)
  BY <1>2, <1>4, NetlistAssumption
<1>6. /\ i \in Nat /\ position \in Nat /\ receiver \in Nat
      /\ j \in Nat \ {0} /\ j <= Len(Receivers[Fetched[i]])
      /\ Len(Receivers[Fetched[i]]) \in Nat
  BY <1>2, <1>3, <1>4, <1>5 DEF TypeOK
<1>7. i # position
  BY <1>3, <1>6 DEF WalkedReceivers
<1>8. i > position + 1 \/ (i = position + 1 /\ j >= 1)
  BY <1>3, <1>6, <1>7
<1> QED
  BY <1>1, <1>3, <1>8 DEF AheadInWalk

(* When all signals are walked, no receiver is ahead. *)
LEMMA WalkIsOver ==
  ASSUME TypeOK, WalkedSignals, NEW r
  PROVE  ~AheadInWalk(r)
<1>1. Fetched \in Seq(Signals)
  BY DEF TypeOK, ProviderTypeOK, Fetched
<1>2. \A i \in DOMAIN Fetched : i < position
  BY <1>1 DEF WalkedSignals, TypeOK
<1> QED
  BY <1>1, <1>2 DEF AheadInWalk, TypeOK

(* At the start every block's first Update is still to be posted. *)
LEMMA CoverInit == Init => NoLostUpdate
<1> SUFFICES ASSUME Init, NEW b \in Blocks PROVE UpdatePending(b)
  BY DEF NoLostUpdate
<1> QED
  BY ConstructionAssumption DEF Init, UpdatePending

(* Every step keeps each block covered, while no evaluation is given up. *)
LEMMA CoverStep == TypeOK /\ NoLostUpdate /\ [Next]_vars => NoLostUpdate'
<1> SUFFICES ASSUME TypeOK, NoLostUpdate, [Next]_vars, ~abandoned',
                    NEW b \in Blocks
             PROVE  Covered(b)'
  BY NoLostUpdateIsCover DEF NoLostUpdate, Covered
<1>0. /\ ProviderTypeOK
      /\ ioQueue \in Seq(Handler)
      /\ todo \in Seq(ConstructionStep)
  BY DEF TypeOK
<1>a. ~abandoned => Covered(b)
  BY NoLostUpdateIsCover
<1>1. ASSUME NEW s \in Signals, ConstructFindOrAdd(s) PROVE Covered(b)'
  <2>1. /\ Constructing(FindOrAdd(s))
        /\ UNCHANGED <<pc, position, receiver, lastValue, abandoned>>
    BY <1>1 DEF ConstructFindOrAdd, Constructing, evalVars
  <2>2. ProviderAdvances /\ ToSet(ioQueue) \subseteq ToSet(ioQueue')
    <3>1. CASE s \in created
      BY <1>0, <1>1, <3>1, UnchangedAdvances
         DEF ConstructFindOrAdd, providerVars, ProviderTypeOK
    <3>2. CASE s \notin created
      BY <1>0, <1>1, <3>2, AddAdvances, Posting DEF ConstructFindOrAdd
    <3> QED
      BY <3>1, <3>2
  <2>3. ToSet(todo) = {FindOrAdd(s)} \cup ToSet(todo')
    BY <1>0, <2>1, ToSetTail DEF Constructing
  <2>4. AheadInWalk(b) => AheadInWalk(b)'
    BY <2>1, <2>2 DEF AheadInWalk, ProviderAdvances
  <2> QED
    BY <1>a, <2>1, <2>2, <2>3, <2>4, HandlersDiffer, StaysCovered
<1>2. ASSUME NEW s \in Signals, NEW v \in {0, 1}, ConstructSetLevel(s, v)
      PROVE  Covered(b)'
  <2>1. /\ Constructing(SetLevelTo(s, v))
        /\ UNCHANGED <<pc, position, receiver, lastValue, abandoned>>
    BY <1>2 DEF ConstructSetLevel, Constructing, evalVars
  <2>2. ProviderAdvances /\ ToSet(ioQueue) \subseteq ToSet(ioQueue')
    BY <1>0, <1>2, SetLevelAdvances, Posting DEF ConstructSetLevel
  <2>3. ToSet(todo) = {SetLevelTo(s, v)} \cup ToSet(todo')
    BY <1>0, <2>1, ToSetTail DEF Constructing
  <2>4. AheadInWalk(b) => AheadInWalk(b)'
    BY <2>1, <2>2 DEF AheadInWalk, ProviderAdvances
  <2> QED
    BY <1>a, <2>1, <2>2, <2>3, <2>4, HandlersDiffer, StaysCovered
<1>3. ASSUME ConstructListen PROVE Covered(b)'
  <2>1. /\ Constructing(SetDirtyBitEvent)
        /\ UNCHANGED <<pc, ioQueue, position, receiver, lastValue, abandoned>>
    BY <1>3 DEF ConstructListen, Constructing, evalVars
  <2>2. ProviderAdvances
    BY <1>0, <1>3, UnchangedAdvances DEF ConstructListen
  <2>3. ToSet(todo) = {SetDirtyBitEvent} \cup ToSet(todo')
    BY <1>0, <2>1, ToSetTail DEF Constructing
  <2>4. AheadInWalk(b) => AheadInWalk(b)'
    BY <2>1, <2>2 DEF AheadInWalk, ProviderAdvances
  <2> QED
    BY <1>a, <2>1, <2>2, <2>3, <2>4, HandlersDiffer, StaysCovered
<1>4. ASSUME NEW c \in Blocks, ConstructPost(c) PROVE Covered(b)'
  <2>1. /\ Constructing(LogicUpdate(c))
        /\ ioQueue' = Append(ioQueue, LogicUpdate(c))
        /\ UNCHANGED <<pc, position, receiver, lastValue, abandoned>>
    BY <1>4 DEF ConstructPost, Constructing, evalVars
  <2>2. ProviderAdvances
    BY <1>0, <1>4, UnchangedAdvances
       DEF ConstructPost, providerVars, ProviderTypeOK
  <2>3. ToSet(todo) = {LogicUpdate(c)} \cup ToSet(todo')
    BY <1>0, <2>1, ToSetTail DEF Constructing
  <2>4. ToSet(ioQueue') = ToSet(ioQueue) \cup {LogicUpdate(c)}
    BY <1>0, <2>1, HandlerType, ToSetAppend
  <2>5. AheadInWalk(b) => AheadInWalk(b)'
    BY <2>1, <2>2 DEF AheadInWalk, ProviderAdvances
  <2> QED
    BY <1>a, <2>1, <2>2, <2>3, <2>4, <2>5, StaysCovered
<1>5. ASSUME Run PROVE Covered(b)'
  <2>1. /\ pc = "construct"
        /\ ioQueue' = Append(ioQueue, EvaluateState)
        /\ UNCHANGED <<todo, lastValue, abandoned>>
    BY <1>5 DEF Run
  <2>2. ProviderAdvances
    BY <1>0, <1>5, UnchangedAdvances DEF Run, providerVars, ProviderTypeOK
  <2>3. ToSet(ioQueue) \subseteq ToSet(ioQueue')
    BY <1>0, <2>1, HandlerType, ToSetAppend
  <2>4. ~AheadInWalk(b)
    BY <2>1 DEF AheadInWalk
  <2> QED
    BY <1>a, <2>1, <2>2, <2>3, <2>4, StaysCovered
<1>6. ASSUME NEW c \in Blocks, RunUpdate(c) PROVE Covered(b)'
  <2>1. /\ pc = "idle"
        /\ ToSet(ioQueue) = {LogicUpdate(c)} \cup ToSet(Tail(ioQueue))
        /\ Tail(ioQueue) \in Seq(Handler)
    BY <1>0, <1>6, ToSetTail DEF RunUpdate, Running
  <2>2. UNCHANGED <<created, listening, pc, todo, abandoned>>
    BY <1>6 DEF RunUpdate
  <2>3. /\ ProviderAdvances
        /\ ToSet(Tail(ioQueue)) \subseteq ToSet(ioQueue')
        /\ lastValue' = [lastValue EXCEPT ![c] = Result(Block[c], level)]
    BY <1>6, <2>1, <2>2, UpdateLogicEffect DEF RunUpdate
  <2>4. CASE b = c
    <3>1. lastValue'[b] = Result(Block[b], level)
      BY <2>3, <2>4 DEF TypeOK
    <3> QED
      BY <2>3, <3>1, ComputedIsCovered
  <2>5. CASE b # c
    <3>1. lastValue'[b] = lastValue[b] /\ LogicUpdate(b) # LogicUpdate(c)
      BY <2>3, <2>5 DEF TypeOK, LogicUpdate
    <3>2. ~AheadInWalk(b)
      BY <2>1 DEF AheadInWalk
    <3> QED
      BY <1>a, <2>1, <2>2, <2>3, <3>1, <3>2, StaysCovered
  <2> QED
    BY <2>4, <2>5
<1>7. ASSUME NEW s \in Signals, NEW v \in {0, 1}, RunSetLevel(s, v)
      PROVE  Covered(b)'
  <2>1. /\ pc = "idle"
        /\ ToSet(ioQueue) = {SetLevelTo(s, v)} \cup ToSet(Tail(ioQueue))
        /\ Tail(ioQueue) \in Seq(Handler)
    BY <1>0, <1>7, ToSetTail DEF RunSetLevel, Running
  <2>2. UNCHANGED <<todo, lastValue, abandoned>>
    BY <1>7 DEF RunSetLevel
  <2>3. ProviderAdvances
    BY <1>0, <1>7, SetLevelAdvances DEF RunSetLevel
  <2>4. ToSet(Tail(ioQueue)) \subseteq ToSet(ioQueue')
    <3> DEFINE n == SetLevelNotifies(s, v)
               q == Tail(ioQueue)
    <3>1. ioQueue' = q \o OnDirtySet(n) /\ q \in Seq(Handler)
      BY <1>7, <2>1 DEF RunSetLevel
    <3> HIDE DEF n, q
    <3>2. ToSet(q) \subseteq ToSet(ioQueue')
      BY <3>1, Posting
    <3> QED
      BY <3>2 DEF q
  <2>5. ~AheadInWalk(b)
    BY <2>1 DEF AheadInWalk
  <2> QED
    BY <1>a, <2>1, <2>2, <2>3, <2>4, <2>5, HandlersDiffer, StaysCovered
<1>8. ASSUME StartEvaluate PROVE Covered(b)'
  <2>1. /\ pc = "idle"
        /\ ToSet(ioQueue) = {EvaluateState} \cup ToSet(Tail(ioQueue))
        /\ Tail(ioQueue) \in Seq(Handler)
        /\ EnterRound(EvalLimit, Tail(ioQueue))
    BY <1>0, <1>8, ToSetTail DEF StartEvaluate, Running
  <2>2. ~AheadInWalk(b)
    BY <2>1 DEF AheadInWalk
  <2>3. ~abandoned
    BY <2>1 DEF EnterRound
  <2> QED
    BY <1>a, <2>1, <2>2, <2>3, HandlersDiffer, FetchCovers
<1>9. ASSUME NEW c \in Blocks, UpdateBlock(c) PROVE Covered(b)'
  <2>1. /\ AtReceiver(c)
        /\ UpdateLogic(c, ioQueue)
        /\ UNCHANGED <<created, listening, todo, abandoned>>
    BY <1>9 DEF UpdateBlock, AtReceiver
  <2>2. /\ ProviderAdvances
        /\ ToSet(ioQueue) \subseteq ToSet(ioQueue')
        /\ lastValue' = [lastValue EXCEPT ![c] = Result(Block[c], level)]
    BY <1>0, <2>1, UpdateLogicEffect
  <2>3. CASE b = c
    <3>1. lastValue'[b] = Result(Block[b], level)
      BY <2>2, <2>3 DEF TypeOK
    <3> QED
      BY <2>2, <3>1, ComputedIsCovered
  <2>4. CASE b # c
    <3>1. lastValue'[b] = lastValue[b]
      BY <2>2, <2>4 DEF TypeOK
    <3>2. AheadInWalk(b) => AheadInWalk(b)'
      BY <2>1, <2>2, <2>4, PassingOther
    <3> QED
      BY <1>a, <2>1, <2>2, <3>1, <3>2, StaysCovered
  <2> QED
    BY <2>3, <2>4
<1>10. ASSUME NEW o \in Outputs, UpdateOutput(o) PROVE Covered(b)'
  <2>1. /\ AtReceiver(o)
        /\ UNCHANGED <<providerVars, todo, ioQueue, lastValue, abandoned>>
    BY <1>10 DEF UpdateOutput, AtReceiver, providerVars
  <2>2. ProviderAdvances
    BY <1>0, <2>1, UnchangedAdvances DEF providerVars, ProviderTypeOK
  <2>3. b # o
    BY NetlistAssumption
  <2>4. AheadInWalk(b) => AheadInWalk(b)'
    BY <2>1, <2>2, <2>3, PassingOther
  <2> QED
    BY <1>a, <2>1, <2>2, <2>4, StaysCovered
<1>11. ASSUME NextSignal PROVE Covered(b)'
  <2>1. /\ pc = "evaluate" /\ WalkedReceivers
        /\ position' = position + 1 /\ receiver' = 1
        /\ UNCHANGED <<providerVars, pc, todo, ioQueue, lastValue, abandoned>>
    BY <1>11 DEF NextSignal
  <2>2. ProviderAdvances
    BY <1>0, <2>1, UnchangedAdvances DEF providerVars, ProviderTypeOK
  <2>3. AheadInWalk(b) => AheadInWalk(b)'
    BY <2>1, <2>2, PassingSignal
  <2> QED
    BY <1>a, <2>1, <2>2, <2>3, StaysCovered
<1>12. ASSUME NextRound PROVE Covered(b)'
  <2>1. WalkedSignals /\ EnterRound(timeout - 1, ioQueue)
    BY <1>12 DEF NextRound
  <2>2. ~AheadInWalk(b)
    BY <2>1, WalkIsOver
  <2>3. ~abandoned
    BY <2>1 DEF EnterRound
  <2> QED
    BY <1>0, <1>a, <2>1, <2>2, <2>3, FetchCovers
<1>13. ASSUME NEW o \in Outputs, NEW v \in {0, 1}, RunApply(o, v)
       PROVE  Covered(b)'
  <2>1. UNCHANGED <<providerVars, pc, todo, position, receiver, lastValue,
                    abandoned>>
    BY <1>13 DEF RunApply, evalVars
  <2>2. ProviderAdvances
    BY <1>0, <2>1, UnchangedAdvances DEF providerVars, ProviderTypeOK
  <2>3. SetLevelTo(Output[o].enabled, v) \in Handler
    BY HandlerType, NetlistAssumption
  <2>4. ToSet(ioQueue) \subseteq ToSet(ioQueue')
    BY <1>0, <1>13, <2>3, ToSetAppend DEF RunApply
  <2>5. AheadInWalk(b) => AheadInWalk(b)'
    BY <2>1, <2>2 DEF AheadInWalk, ProviderAdvances
  <2> QED
    BY <1>a, <2>1, <2>2, <2>4, <2>5, StaysCovered
<1>14. ASSUME NEW s \in Inputs, NEW v \in {0, 1}, Drive(s, v) PROVE Covered(b)'
  <2>1. UNCHANGED <<providerVars, pc, todo, position, receiver, lastValue,
                    abandoned>>
    BY <1>14 DEF Drive, evalVars
  <2>2. ProviderAdvances
    BY <1>0, <2>1, UnchangedAdvances DEF providerVars, ProviderTypeOK
  <2>3. SetLevelTo(s, v) \in Handler
    BY HandlerType, NetlistAssumption
  <2>4. ToSet(ioQueue) \subseteq ToSet(ioQueue')
    BY <1>0, <1>14, <2>3, ToSetAppend DEF Drive
  <2>5. AheadInWalk(b) => AheadInWalk(b)'
    BY <2>1, <2>2 DEF AheadInWalk, ProviderAdvances
  <2> QED
    BY <1>a, <2>1, <2>2, <2>4, <2>5, StaysCovered
<1>15. CASE UNCHANGED vars
  <2>1. UNCHANGED <<providerVars, pc, todo, ioQueue, position, receiver,
                    lastValue, abandoned>>
    BY <1>15 DEF vars, evalVars
  <2>2. ProviderAdvances
    BY <1>0, <2>1, UnchangedAdvances DEF providerVars, ProviderTypeOK
  <2>3. AheadInWalk(b) => AheadInWalk(b)'
    BY <2>1, <2>2 DEF AheadInWalk, ProviderAdvances
  <2> QED
    BY <1>a, <2>1, <2>2, <2>3, StaysCovered
<1> QED
  BY <1>1, <1>2, <1>3, <1>4, <1>5, <1>6, <1>7, <1>8, <1>9, <1>10, <1>11,
     <1>12, <1>13, <1>14, <1>15
     DEF Next, IoThread, Construct, Evaluate, OutputThread, Drivers

(* No change of a signal is lost on a Logic block, for every netlist, with
   or without loops, and every interleaving with the output thread and the
   drivers, unless EvaluateState ran out of rounds. *)
THEOREM UpdatesAreNotLost == Spec => []NoLostUpdate
<1> QED
  BY TypeInit, TypeStep, CoverInit, CoverStep, PTL DEF Spec

-----------------------------------------------------------------------------
(* The dirty bits. *)

(* What a step may do to the dirty bits and lists. *)
ProviderStep ==
  \/ \E s \in Signals, v \in {0, 1} : SetLevel(s, v)
  \/ \E s \in Signals : Add(s)
  \/ GetDirtySignalsAndClearList
  \/ UNCHANGED <<dirty, dirtyA, dirtyB, dirtyAIsActive>>

(* Logic::Update calls SetLevel once or not at all. *)
LEMMA UpdateLogicIsProviderStep ==
  ASSUME NEW b \in Blocks, NEW posts, UpdateLogic(b, posts)
  PROVE  ProviderStep
<1>1. Result(Block[b], level) \in {0, 1} /\ Block[b].out \in Signals
  BY ResultIsBit, NetlistAssumption DEF Logic
<1> QED
  BY <1>1 DEF UpdateLogic, ProviderStep

(* No step of the engine touches bits and lists but by one of these calls. *)
LEMMA StepsAreProviderSteps == TypeOK /\ [Next]_vars => ProviderStep
<1> SUFFICES ASSUME TypeOK, [Next]_vars PROVE ProviderStep
  OBVIOUS
<1>1. CASE Construct
  BY <1>1 DEF Construct, ConstructFindOrAdd, ConstructSetLevel,
     ConstructListen, ConstructPost, Run, ProviderStep, providerVars
<1>2. ASSUME NEW b \in Blocks, RunUpdate(b) PROVE ProviderStep
  BY <1>2, UpdateLogicIsProviderStep DEF RunUpdate
<1>3. ASSUME NEW s \in Signals, NEW v \in {0, 1}, RunSetLevel(s, v)
      PROVE  ProviderStep
  BY <1>3 DEF RunSetLevel, ProviderStep
<1>4. CASE StartEvaluate \/ NextRound
  BY <1>4 DEF StartEvaluate, NextRound, EnterRound, ProviderStep
<1>5. ASSUME NEW b \in Blocks, UpdateBlock(b) PROVE ProviderStep
  BY <1>5, UpdateLogicIsProviderStep DEF UpdateBlock
<1>6. CASE (\E o \in Outputs : UpdateOutput(o)) \/ NextSignal
  BY <1>6 DEF UpdateOutput, NextSignal, ProviderStep, providerVars
<1>7. CASE OutputThread \/ Drivers
  BY <1>7 DEF OutputThread, Drivers, RunApply, Drive, ProviderStep,
     providerVars
<1>8. CASE UNCHANGED vars
  BY <1>8 DEF vars, providerVars, ProviderStep
<1> QED
  BY <1>1, <1>2, <1>3, <1>4, <1>5, <1>6, <1>7, <1>8 DEF Next, IoThread,
     Evaluate

(* Each of the calls keeps bits and list together. *)
LEMMA DirtyBitStep ==
  TypeOK /\ DirtyBitIsListed /\ [Next]_vars => DirtyBitIsListed'
<1> SUFFICES ASSUME TypeOK, DirtyBitIsListed, ProviderStep
             PROVE  DirtyBitIsListed'
  BY StepsAreProviderSteps
<1>0. ProviderTypeOK /\ dirty \in [Signals -> BOOLEAN]
  BY DEF TypeOK, ProviderTypeOK
<1>1. ASSUME NEW s \in Signals, NEW v \in {0, 1}, SetLevel(s, v)
      PROVE  DirtyBitIsListed'
  <2>1. /\ ToSet(Active') = ToSet(Active) \cup
                              (IF level[s] = v THEN {} ELSE {s})
        /\ dirty' = IF level[s] = v THEN dirty ELSE [dirty EXCEPT ![s] = TRUE]
    BY <1>0, <1>1, SetLevelEffect
  <2> QED
    BY <1>0, <2>1 DEF DirtyBitIsListed, InActive
<1>2. ASSUME NEW s \in Signals, Add(s) PROVE DirtyBitIsListed'
  <2>1. /\ ToSet(Active') = ToSet(Active) \cup {s}
        /\ dirty' = [dirty EXCEPT ![s] = TRUE]
    BY <1>0, <1>2, AddEffect
  <2> QED
    BY <1>0, <2>1 DEF DirtyBitIsListed, InActive
<1>3. CASE GetDirtySignalsAndClearList
  <2>1. Active' = <<>>
    BY <1>0, <1>3, GetDirtyEffect
  <2>2. \A s \in Signals : ~InActive(s)'
    BY <2>1, ToSetSmall DEF InActive
  <2>3. \A s \in Signals : ~dirty'[s]
    BY <1>3 DEF GetDirtySignalsAndClearList, DirtyBitIsListed
  <2> QED
    BY <2>2, <2>3 DEF DirtyBitIsListed
<1>4. CASE UNCHANGED <<dirty, dirtyA, dirtyB, dirtyAIsActive>>
  BY <1>4 DEF DirtyBitIsListed, InActive, Active
<1> QED
  BY <1>1, <1>2, <1>3, <1>4 DEF ProviderStep

(* The bit of a signal tells whether it is listed, at all times: a signal
   that SetLevel or a constructor marks is in the list that is fetched next,
   and no mark is cleared for one that is not handed out. *)
THEOREM DirtyBitsAgree == Spec => []DirtyBitIsListed
<1>1. Init => DirtyBitIsListed
  BY ToSetSmall DEF Init, ProviderInit, DirtyBitIsListed, InActive, Active
<1> QED
  BY <1>1, TypeInit, TypeStep, DirtyBitStep, PTL DEF Spec

-----------------------------------------------------------------------------
(* Wakeup.  It rests on the listener: SetDirty calls it for the first signal
   that an empty list receives, once SetDirtyBitEvent has been called, which
   is one of the steps of construction. *)

Listens ==
  listening \/ (pc = "construct" /\ SetDirtyBitEvent \in ToSet(todo))

(* SetLevel calls the listener when it makes the list non-empty. *)
LEMMA SetLevelWakes ==
  ASSUME NEW s, NEW v, SetLevel(s, v), listening, Active' # <<>>
  PROVE  Active # <<>> \/ SetLevelNotifies(s, v)
<1> SUFFICES ASSUME Active = <<>>, ~SetLevelNotifies(s, v) PROVE FALSE
  OBVIOUS
<1>1. ~InActive(s)
  BY ToSetSmall DEF InActive
<1>2. level[s] = v
  BY <1>1 DEF SetLevelNotifies, Notifies
<1> QED
  BY <1>2 DEF SetLevel, Active

(* So does Logic::Update, whose post goes behind those that are there. *)
LEMMA UpdateLogicWakes ==
  ASSUME NEW b \in Blocks, NEW posts \in Seq(Handler),
         UpdateLogic(b, posts), listening, Active' # <<>>
  PROVE  Active # <<>> \/ EvaluateState \in ToSet(ioQueue')
<1> DEFINE result == Result(Block[b], level)
           out == Block[b].out
<1>1. CASE lastValue[b] = result
  BY <1>1 DEF UpdateLogic, Active
<1>2. CASE lastValue[b] # result
  <2>1. /\ SetLevel(out, result)
        /\ ioQueue' = posts \o OnDirtySet(SetLevelNotifies(out, result))
    BY <1>2 DEF UpdateLogic
  <2>2. Active # <<>> \/ SetLevelNotifies(out, result)
    BY <2>1, SetLevelWakes
  <2> QED
    BY <2>1, <2>2, Posting
<1> QED
  BY <1>1, <1>2

(* At the start the listener is still to be set, and the list is empty. *)
LEMMA WakeupInit == Init => Wakeup /\ Listens
BY ConstructionAssumption DEF Init, Wakeup, Listens

(* Construction does not end without the listener. *)
LEMMA ListensStep == TypeOK /\ Listens /\ [Next]_vars => Listens'
<1> SUFFICES ASSUME TypeOK, Listens, [Next]_vars PROVE Listens'
  OBVIOUS
<1>0. todo \in Seq(ConstructionStep)
  BY DEF TypeOK
<1>1. ASSUME NEW step, Constructing(step), step # SetDirtyBitEvent,
             listening' = listening
      PROVE  Listens'
  <2>1. ToSet(todo) = {step} \cup ToSet(todo') /\ pc' = pc
    BY <1>0, <1>1, ToSetTail DEF Constructing
  <2> QED
    BY <1>1, <2>1 DEF Listens
<1>2. ASSUME NEW s \in Signals, ConstructFindOrAdd(s) PROVE Listens'
  <2>1. FindOrAdd(s) # SetDirtyBitEvent
    BY DEF FindOrAdd, SetDirtyBitEvent
  <2> QED
    BY <1>1, <1>2, <2>1 DEF ConstructFindOrAdd, providerVars
<1>3. ASSUME NEW s \in Signals, NEW v \in {0, 1}, ConstructSetLevel(s, v)
      PROVE  Listens'
  <2>1. SetLevelTo(s, v) # SetDirtyBitEvent
    BY DEF SetLevelTo, SetDirtyBitEvent
  <2> QED
    BY <1>1, <1>3, <2>1 DEF ConstructSetLevel
<1>4. CASE ConstructListen
  BY <1>4 DEF ConstructListen, Listens
<1>5. ASSUME NEW b \in Blocks, ConstructPost(b) PROVE Listens'
  <2>1. LogicUpdate(b) # SetDirtyBitEvent
    BY DEF LogicUpdate, SetDirtyBitEvent
  <2> QED
    BY <1>1, <1>5, <2>1 DEF ConstructPost, providerVars
<1>6. CASE Run
  <2>1. SetDirtyBitEvent \notin ToSet(todo)
    BY <1>6, ToSetSmall DEF Run
  <2> QED
    BY <1>6, <2>1 DEF Run, Listens, providerVars
<1>7. ASSUME pc # "construct", listening' = listening PROVE Listens'
  BY <1>7 DEF Listens
<1>8. ASSUME NEW b \in Blocks, RunUpdate(b) \/ UpdateBlock(b) PROVE Listens'
  BY <1>7, <1>8 DEF RunUpdate, Running, UpdateBlock, AtReceiver
<1>9. ASSUME NEW s \in Signals, NEW v \in {0, 1}, RunSetLevel(s, v)
      PROVE  Listens'
  BY <1>7, <1>9 DEF RunSetLevel, Running
<1>10. CASE StartEvaluate \/ NextRound
  BY <1>7, <1>10 DEF StartEvaluate, NextRound, Running, EnterRound
<1>11. ASSUME NEW o \in Outputs, UpdateOutput(o) PROVE Listens'
  BY <1>7, <1>11 DEF UpdateOutput, AtReceiver
<1>12. CASE NextSignal
  BY <1>7, <1>12 DEF NextSignal, providerVars
<1>13. CASE OutputThread \/ Drivers \/ UNCHANGED vars
  BY <1>13 DEF OutputThread, Drivers, RunApply, Drive, vars, providerVars,
     Listens
<1> QED
  BY <1>2, <1>3, <1>4, <1>5, <1>6, <1>8, <1>9, <1>10, <1>11, <1>12, <1>13
     DEF Next, IoThread, Construct, Evaluate

(* Every step keeps an evaluation coming for a list that is not empty. *)
LEMMA WakeupStep == TypeOK /\ Listens /\ Wakeup /\ [Next]_vars => Wakeup'
<1> SUFFICES ASSUME TypeOK, Listens, Wakeup, [Next]_vars,
                    Active' # <<>>, pc' = "idle"
             PROVE  EvaluateState \in ToSet(ioQueue')
  BY TypeStep DEF Wakeup, TypeOK
<1>0. ioQueue \in Seq(Handler) /\ ProviderTypeOK
  BY DEF TypeOK
<1>a. ASSUME NEW handler, Running(handler), handler # EvaluateState
      PROVE  /\ Tail(ioQueue) \in Seq(Handler)
             /\ listening
             /\ Active # <<>> => EvaluateState \in ToSet(Tail(ioQueue))
  <2>1. ToSet(ioQueue) = {handler} \cup ToSet(Tail(ioQueue))
    BY <1>0, <1>a, ToSetTail DEF Running
  <2> QED
    BY <1>0, <1>a, <2>1 DEF Running, Wakeup, Listens
<1>1. CASE Construct
  <2>1. Run
    BY <1>1 DEF Construct, ConstructFindOrAdd, ConstructSetLevel,
       ConstructListen, ConstructPost, Constructing
  <2> QED
    BY <1>0, <2>1, HandlerType, ToSetAppend DEF Run
<1>2. ASSUME NEW b \in Blocks, RunUpdate(b)
      PROVE  EvaluateState \in ToSet(ioQueue')
  <2>1. /\ Tail(ioQueue) \in Seq(Handler)
        /\ listening
        /\ Active # <<>> => EvaluateState \in ToSet(Tail(ioQueue))
    BY <1>2, <1>a, HandlersDiffer DEF RunUpdate
  <2>2. ToSet(Tail(ioQueue)) \subseteq ToSet(ioQueue')
    BY <1>2, <2>1, UpdateLogicEffect DEF RunUpdate
  <2>3. Active # <<>> \/ EvaluateState \in ToSet(ioQueue')
    BY <1>2, <2>1, UpdateLogicWakes DEF RunUpdate
  <2> QED
    BY <2>1, <2>2, <2>3
<1>3. ASSUME NEW s \in Signals, NEW v \in {0, 1}, RunSetLevel(s, v)
      PROVE  EvaluateState \in ToSet(ioQueue')
  <2>1. SetLevelTo(s, v) # EvaluateState
    BY DEF SetLevelTo, EvaluateState
  <2>2. /\ Tail(ioQueue) \in Seq(Handler)
        /\ listening
        /\ Active # <<>> => EvaluateState \in ToSet(Tail(ioQueue))
    BY <1>3, <1>a, <2>1 DEF RunSetLevel
  <2>3. Active # <<>> \/ SetLevelNotifies(s, v)
    BY <1>3, <2>2, SetLevelWakes DEF RunSetLevel
  <2>4. ToSet(ioQueue') = ToSet(Tail(ioQueue)) \cup
          (IF SetLevelNotifies(s, v) THEN {EvaluateState} ELSE {})
    BY <1>3, <2>2, Posting DEF RunSetLevel
  <2> QED
    BY <2>2, <2>3, <2>4
<1>4. CASE StartEvaluate \/ NextRound
  BY <1>0, <1>4, GetDirtyEffect DEF StartEvaluate, NextRound, EnterRound
<1>5. ASSUME NEW r, AtReceiver(r) PROVE FALSE
  BY <1>5 DEF AtReceiver
<1>6. CASE NextSignal
  BY <1>6 DEF NextSignal
<1>7. CASE OutputThread \/ Drivers
  <2>1. Active' = Active /\ pc' = pc
    BY <1>7 DEF OutputThread, Drivers, RunApply, Drive, providerVars, Active
  <2>2. EvaluateState \in ToSet(ioQueue)
    BY <2>1 DEF Wakeup
  <2>3. PICK s \in Signals, v \in {0, 1} :
          ioQueue' = ioQueue \/ ioQueue' = Append(ioQueue, SetLevelTo(s, v))
    BY <1>7, NetlistAssumption DEF OutputThread, Drivers, RunApply, Drive
  <2>4. SetLevelTo(s, v) \in Handler
    BY HandlerType
  <2>5. EvaluateState \in ToSet(Append(ioQueue, SetLevelTo(s, v)))
    BY <1>0, <2>2, <2>4, ToSetAppend
  <2> QED
    BY <2>2, <2>3, <2>5
<1>8. CASE UNCHANGED vars
  BY <1>8 DEF vars, providerVars, Active, Wakeup
<1> QED
  BY <1>1, <1>2, <1>3, <1>4, <1>5, <1>6, <1>7, <1>8
     DEF Next, IoThread, Evaluate, UpdateBlock, UpdateOutput

(* No wakeup is lost: SetDirty returns early, without calling OnDirtySet,
   for a signal that is listed already, and OnDirtySet posts EvaluateState
   once for a whole list; still a list that is not empty is always about to
   be fetched. *)
THEOREM WakeupsAreNotLost == Spec => []Wakeup
<1>1. Init => TypeOK /\ Listens /\ Wakeup
  BY TypeInit, WakeupInit
<1>2. TypeOK /\ Listens /\ Wakeup /\ [Next]_vars
        => TypeOK' /\ Listens' /\ Wakeup'
  BY TypeStep, ListensStep, WakeupStep
<1> QED
  BY <1>1, <1>2, PTL DEF Spec

-----------------------------------------------------------------------------
(* Where a step leaves the receivers that the walk has still to come past. *)

(* Receiver r has its place in the dirty list. *)
Listed(r) == \E s \in Signals : InActive(s) /\ r \in ToSet(Receivers[s])

(* Outside an evaluation nothing is walked, and a step that leaves the walk
   alone leaves all receivers where they are. *)
LEMMA WalkStays ==
  ASSUME NEW r,
         \/ pc # "evaluate" /\ pc' # "evaluate"
         \/ UNCHANGED <<pc, position, receiver>> /\ Fetched' = Fetched
  PROVE  AheadInWalk(r)' <=> AheadInWalk(r)
BY DEF AheadInWalk

(* The converse of PassingOther and of PassingSignal: no step of the walk
   brings back what it has come past. *)
LEMMA WalkNeverReturns ==
  ASSUME TypeOK, pc' = pc, Fetched' = Fetched, NEW r, AheadInWalk(r)',
         \/ position' = position /\ receiver' = receiver + 1
         \/ position' = position + 1 /\ receiver' = 1
  PROVE  AheadInWalk(r)
<1>1. PICK i \in DOMAIN Fetched : \E j \in DOMAIN Receivers[Fetched[i]] :
        /\ Receivers[Fetched[i]][j] = r
        /\ i > position' \/ (i = position' /\ j >= receiver')
  BY DEF AheadInWalk
<1>2. PICK j \in DOMAIN Receivers[Fetched[i]] :
        /\ Receivers[Fetched[i]][j] = r
        /\ i > position' \/ (i = position' /\ j >= receiver')
  BY <1>1
<1>3. Fetched \in Seq(Signals)
  BY DEF TypeOK, ProviderTypeOK, Fetched
<1>4. Receivers[Fetched[i]] \in Seq(Blocks \cup Outputs)
  BY <1>1, <1>3, NetlistAssumption
<1>5. i \in Nat /\ j \in Nat /\ position \in Nat /\ receiver \in Nat
  BY <1>1, <1>2, <1>3, <1>4 DEF TypeOK
<1>6. i > position \/ (i = position /\ j >= receiver)
  BY <1>2, <1>5
<1>7. pc = "evaluate"
  BY DEF AheadInWalk
<1> QED
  BY <1>2, <1>6, <1>7 DEF AheadInWalk

(* A fetch turns exactly the listed receivers into those that are ahead. *)
LEMMA FetchTurns ==
  ASSUME TypeOK, NEW left, NEW posts, EnterRound(left, posts), ~abandoned',
         NEW r
  PROVE  /\ AheadInWalk(r)' <=> Listed(r)
         /\ ~Listed(r)'
<1>1. /\ Fetched' = Active /\ Active' = <<>>
      /\ position' = 1 /\ receiver' = 1
      /\ pc' = IF Active # <<>> THEN "evaluate" ELSE "idle"
  BY GetDirtyEffect DEF EnterRound, TypeOK
<1>2. Active \in Seq(Signals)
  BY DEF TypeOK, ProviderTypeOK, Active
<1>3. ASSUME AheadInWalk(r)' PROVE Listed(r)
  <2>1. PICK i \in DOMAIN Active : \E j \in DOMAIN Receivers[Active[i]] :
          Receivers[Active[i]][j] = r
    BY <1>1, <1>3 DEF AheadInWalk
  <2>2. Active[i] \in Signals /\ Active[i] \in ToSet(Active)
    BY <1>2, <2>1 DEF ToSet
  <2>3. r \in ToSet(Receivers[Active[i]])
    BY <2>1 DEF ToSet
  <2> QED
    BY <2>2, <2>3 DEF Listed, InActive
<1>4. ASSUME Listed(r) PROVE AheadInWalk(r)'
  <2>1. PICK s \in Signals : s \in ToSet(Active) /\ r \in ToSet(Receivers[s])
    BY <1>4 DEF Listed, InActive
  <2>2. PICK i \in DOMAIN Active : Active[i] = s
    BY <2>1 DEF ToSet
  <2>3. PICK j \in DOMAIN Receivers[s] : Receivers[s][j] = r
    BY <2>1 DEF ToSet
  <2>4. Receivers[s] \in Seq(Blocks \cup Outputs)
    BY <2>1, NetlistAssumption
  <2>5. i \in Nat \ {0} /\ j \in Nat \ {0}
    BY <1>2, <2>2, <2>3, <2>4
  <2>6. pc' = "evaluate"
    BY <1>1, <2>2
  <2>7. i > 1 \/ (i = 1 /\ j >= 1)
    BY <2>5
  <2> QED
    BY <1>1, <2>2, <2>3, <2>6, <2>7 DEF AheadInWalk
<1>5. ~Listed(r)'
  BY <1>1, ToSetSmall DEF Listed, InActive
<1> QED
  BY <1>3, <1>4, <1>5

(* All steps but the two that fetch the list advance the provider. *)
LEMMA StepsAdvance ==
  TypeOK /\ [Next]_vars => StartEvaluate \/ NextRound \/ ProviderAdvances
<1> SUFFICES ASSUME TypeOK, [Next]_vars, ~StartEvaluate, ~NextRound
             PROVE  ProviderAdvances
  OBVIOUS
<1>0. ProviderTypeOK /\ ioQueue \in Seq(Handler)
  BY DEF TypeOK
<1>1. ASSUME UNCHANGED providerVars PROVE ProviderAdvances
  BY <1>0, <1>1, UnchangedAdvances DEF providerVars, ProviderTypeOK
<1>2. ASSUME NEW s \in Signals, ConstructFindOrAdd(s) PROVE ProviderAdvances
  BY <1>0, <1>1, <1>2, AddAdvances DEF ConstructFindOrAdd
<1>3. ASSUME NEW s \in Signals, NEW v \in {0, 1},
             ConstructSetLevel(s, v) \/ RunSetLevel(s, v)
      PROVE  ProviderAdvances
  BY <1>0, <1>3, SetLevelAdvances DEF ConstructSetLevel, RunSetLevel
<1>4. CASE ConstructListen
  BY <1>0, <1>4, UnchangedAdvances DEF ConstructListen
<1>5. CASE (\E b \in Blocks : ConstructPost(b)) \/ Run
  BY <1>1, <1>5 DEF ConstructPost, Run
<1>6. ASSUME NEW b \in Blocks, RunUpdate(b) PROVE ProviderAdvances
  <2>1. Tail(ioQueue) \in Seq(Handler)
    BY <1>0, <1>6 DEF RunUpdate, Running
  <2> QED
    BY <1>6, <2>1, UpdateLogicEffect DEF RunUpdate
<1>7. ASSUME NEW b \in Blocks, UpdateBlock(b) PROVE ProviderAdvances
  BY <1>0, <1>7, UpdateLogicEffect DEF UpdateBlock, AtReceiver
<1>8. CASE (\E o \in Outputs : UpdateOutput(o)) \/ NextSignal
  BY <1>1, <1>8 DEF UpdateOutput, AtReceiver, NextSignal, providerVars
<1>9. CASE OutputThread \/ Drivers \/ UNCHANGED vars
  BY <1>1, <1>9 DEF OutputThread, Drivers, RunApply, Drive, vars
<1> QED
  BY <1>2, <1>3, <1>4, <1>5, <1>6, <1>7, <1>8, <1>9
     DEF Next, IoThread, Construct, Evaluate

(* What a step means for a receiver r: the list is fetched, r is called, or
   r stays where it is. *)
Fetches ==
  /\ UNCHANGED <<level, lastValue, outQueue, pin>>
  /\ \A r \in Blocks \cup Outputs :
        /\ ~AheadInWalk(r)
        /\ ~abandoned' => (AheadInWalk(r)' <=> Listed(r)) /\ ~Listed(r)'
  /\ ~abandoned' => ~abandoned

Calls(r) ==
  \/ r \in Blocks /\ UpdateBlock(r)
  \/ r \in Outputs /\ UpdateOutput(r)

Leaves(r) ==
  /\ ProviderAdvances
  /\ abandoned' = abandoned
  /\ AheadInWalk(r)' <=> AheadInWalk(r)

(* A step fetches the list, calls the receiver r, or leaves r where it is. *)
LEMMA EveryStep ==
  ASSUME TypeOK, [Next]_vars, NEW r \in Blocks \cup Outputs
  PROVE  Fetches \/ Calls(r) \/ Leaves(r)
<1>1. ASSUME NEW left, NEW posts, EnterRound(left, posts),
             \A q \in Blocks \cup Outputs : ~AheadInWalk(q)
      PROVE  Fetches
  <2>1. /\ UNCHANGED <<level, lastValue, outQueue, pin>>
        /\ ~abandoned' => ~abandoned
    BY <1>1 DEF EnterRound, outputVars
  <2> QED
    BY <1>1, <2>1, FetchTurns DEF Fetches
<1>2. CASE StartEvaluate
  <2>1. \A q \in Blocks \cup Outputs : ~AheadInWalk(q)
    BY <1>2 DEF StartEvaluate, Running, AheadInWalk
  <2> QED
    BY <1>1, <1>2, <2>1 DEF StartEvaluate
<1>3. CASE NextRound
  <2>1. \A q \in Blocks \cup Outputs : ~AheadInWalk(q)
    BY <1>3, WalkIsOver DEF NextRound
  <2> QED
    BY <1>1, <1>3, <2>1 DEF NextRound
<1>4. CASE ~StartEvaluate /\ ~NextRound
  <2>0. ProviderAdvances /\ Fetched' = Fetched
    BY <1>4, StepsAdvance DEF ProviderAdvances
  <2>1. ASSUME UNCHANGED <<pc, position, receiver, abandoned>> PROVE Leaves(r)
    BY <2>0, <2>1, WalkStays DEF Leaves
  <2>2. ASSUME pc # "evaluate", pc' # "evaluate", abandoned' = abandoned
        PROVE  Leaves(r)
    BY <2>0, <2>2, WalkStays DEF Leaves
  <2>3. ASSUME NEW c, AtReceiver(c), r # c PROVE Leaves(r)
    <3>1. AheadInWalk(r) => AheadInWalk(r)'
      BY <2>0, <2>3, PassingOther
    <3>2. AheadInWalk(r)' => AheadInWalk(r)
      BY <2>0, <2>3, WalkNeverReturns DEF AtReceiver
    <3> QED
      BY <2>0, <2>3, <3>1, <3>2 DEF AtReceiver, Leaves
  <2>4. CASE NextSignal
    <3>1. AheadInWalk(r) => AheadInWalk(r)'
      BY <2>0, <2>4, PassingSignal DEF NextSignal
    <3>2. AheadInWalk(r)' => AheadInWalk(r)
      BY <2>0, <2>4, WalkNeverReturns DEF NextSignal
    <3> QED
      BY <2>0, <2>4, <3>1, <3>2 DEF NextSignal, Leaves
  <2>5. CASE Construct
    <3>1. CASE Run
      BY <2>2, <3>1 DEF Run
    <3>2. CASE ~Run
      BY <2>1, <2>5, <3>2 DEF Construct, ConstructFindOrAdd, ConstructListen,
         ConstructSetLevel, ConstructPost, Constructing, evalVars
    <3> QED
      BY <3>1, <3>2
  <2>6. CASE \/ \E b \in Blocks : RunUpdate(b)
             \/ \E s \in Signals, v \in {0, 1} : RunSetLevel(s, v)
    BY <2>1, <2>6 DEF RunUpdate, RunSetLevel, evalVars
  <2>7. ASSUME NEW b \in Blocks, UpdateBlock(b) PROVE Calls(r) \/ Leaves(r)
    BY <2>3, <2>7 DEF UpdateBlock, Calls
  <2>8. ASSUME NEW o \in Outputs, UpdateOutput(o) PROVE Calls(r) \/ Leaves(r)
    BY <2>3, <2>8 DEF UpdateOutput, Calls
  <2>9. CASE OutputThread \/ Drivers \/ UNCHANGED vars
    BY <2>1, <2>9 DEF OutputThread, Drivers, RunApply, Drive, vars, evalVars
  <2> QED
    BY <1>4, <2>4, <2>5, <2>6, <2>7, <2>8, <2>9 DEF Next, IoThread, Evaluate
<1> QED
  BY <1>2, <1>3, <1>4

-----------------------------------------------------------------------------
(* The level posted last for an output. *)

ApplyCall == [output : Outputs, value : {0, 1}]

ApplyCallsOf(o) == {a \in ApplyCall : a.output = o}

(* Posted, for any queue and lines, and said with the last of a kind. *)
PostedWith(q, pins, o) ==
  LET mine == {i \in DOMAIN q : q[i].output = o}
  IN IF mine = {} THEN pins[o] ELSE q[Max(mine)].value

(* The level posted last is that of the last Apply of the output. *)
LEMMA PostedIsLast ==
  ASSUME NEW q \in Seq(ApplyCall), NEW pins, NEW o
  PROVE  PostedWith(q, pins, o)
            = LastIn(q, ApplyCallsOf(o), Apply(o, pins[o])).value
<1> DEFINE mine == {i \in DOMAIN q : q[i].output = o}
<1>1. \A i \in DOMAIN q : q[i] \in ApplyCall
  OBVIOUS
<1>2. mine = Hits(q, ApplyCallsOf(o))
  BY <1>1 DEF Hits, ApplyCallsOf
<1>3. Apply(o, pins[o]).value = pins[o]
  BY DEF Apply
<1>4. PostedWith(q, pins, o) = IF mine = {} THEN pins[o] ELSE q[Max(mine)].value
  BY DEF PostedWith
<1> HIDE DEF mine
<1> QED
  BY <1>2, <1>3, <1>4 DEF LastIn

(* An output's queue and line leave Posted as it is when they stay. *)
LEMMA PostedStays ==
  ASSUME UNCHANGED outputVars, NEW o
  PROVE  Posted(o)' = Posted(o)
BY DEF Posted, outputVars

(* GpioOutput::Update posts the level of the signal, if it is defined. *)
LEMMA UpdateOutputPosts ==
  ASSUME TypeOK, TypeOK', NEW o \in Outputs, UpdateOutput(o)
  PROVE  /\ Posted(o)' = IF level[Output[o].in] = Undefined THEN Posted(o)
                         ELSE level[Output[o].in]
         /\ \A p \in Outputs \ {o} : Posted(p)' = Posted(p)
<1> DEFINE in == level[Output[o].in]
<1>1. outQueue \in Seq(ApplyCall) /\ outQueue' \in Seq(ApplyCall) /\ in \in Level
  BY NetlistAssumption DEF TypeOK, ProviderTypeOK, ApplyCall
<1>2. /\ outQueue' = IF in = Undefined THEN outQueue
                     ELSE Append(outQueue, Apply(o, in))
      /\ pin' = pin
  BY DEF UpdateOutput, AtReceiver
<1>3. in # Undefined => Apply(o, in) \in ApplyCall
  BY <1>1 DEF Apply, ApplyCall, Level
<1>4. Apply(o, in).value = in /\ Apply(o, in).output = o
  BY DEF Apply
<1> HIDE DEF in
<1>5. ASSUME NEW p \in Outputs
      PROVE  Posted(p)' = IF p = o /\ in # Undefined THEN in ELSE Posted(p)
  <2>0. /\ Posted(p) = PostedWith(outQueue, pin, p)
        /\ Posted(p)' = PostedWith(outQueue', pin', p)
    BY DEF Posted, PostedWith
  <2>1. Posted(p) = LastIn(outQueue, ApplyCallsOf(p), Apply(p, pin[p])).value
    BY <1>1, <2>0, PostedIsLast
  <2>2. Posted(p)' = LastIn(outQueue', ApplyCallsOf(p), Apply(p, pin[p])).value
    BY <1>1, <1>2, <2>0, PostedIsLast
  <2>3. CASE in = Undefined
    BY <1>2, <2>1, <2>2, <2>3
  <2>4. CASE in # Undefined
    <3>1. LastIn(Append(outQueue, Apply(o, in)), ApplyCallsOf(p),
                 Apply(p, pin[p]))
            = IF Apply(o, in) \in ApplyCallsOf(p) THEN Apply(o, in)
              ELSE LastIn(outQueue, ApplyCallsOf(p), Apply(p, pin[p]))
      BY <1>1, <1>3, <2>4, LastInAppend
    <3>2. Apply(o, in) \in ApplyCallsOf(p) <=> p = o
      BY <1>3, <1>4, <2>4 DEF ApplyCallsOf
    <3> QED
      BY <1>2, <1>4, <2>1, <2>2, <2>4, <3>1, <3>2
  <2> QED
    BY <2>3, <2>4
<1> QED
  BY <1>5 DEF in

(* GpioOutput::Apply, which runs on the output thread, carries out what was
   posted: the level posted last stays the same. *)
LEMMA RunApplyKeepsPosted ==
  ASSUME TypeOK, NEW o \in Outputs, NEW v \in {0, 1}, RunApply(o, v),
         NEW p \in Outputs
  PROVE  Posted(p)' = Posted(p)
<1> DEFINE M == ApplyCallsOf(p)
<1>1. /\ outQueue \in Seq(ApplyCall) /\ outQueue # <<>>
      /\ Head(outQueue) = Apply(o, v)
      /\ outQueue' = Tail(outQueue) /\ Tail(outQueue) \in Seq(ApplyCall)
      /\ pin' = [pin EXCEPT ![o] = v] /\ pin \in [Outputs -> Level]
  BY DEF RunApply, TypeOK, ApplyCall
<1>2. Apply(o, v) \in M <=> p = o
  BY DEF Apply, ApplyCall, ApplyCallsOf
<1>3. (IF Head(outQueue) \in M THEN Head(outQueue) ELSE Apply(p, pin[p]))
         = Apply(p, pin'[p])
  <2>1. pin'[p] = IF p = o THEN v ELSE pin[p]
    BY <1>1
  <2> QED
    BY <1>1, <1>2, <2>1
<1>4. /\ Posted(p) = PostedWith(outQueue, pin, p)
      /\ Posted(p)' = PostedWith(outQueue', pin', p)
  BY DEF Posted, PostedWith
<1>5. Posted(p) = LastIn(outQueue, M, Apply(p, pin[p])).value
  BY <1>1, <1>4, PostedIsLast
<1>6. Posted(p)' = LastIn(Tail(outQueue), M, Apply(p, pin'[p])).value
  BY <1>1, <1>4, PostedIsLast
<1> HIDE DEF M
<1>7. LastIn(outQueue, M, Apply(p, pin[p]))
         = LastIn(Tail(outQueue), M,
                  IF Head(outQueue) \in M THEN Head(outQueue)
                  ELSE Apply(p, pin[p]))
  BY <1>1, LastInTail
<1> QED
  BY <1>3, <1>5, <1>6, <1>7

(* Only GpioOutput::Update of an output changes what is posted last for it. *)
LEMMA PostedStep ==
  ASSUME TypeOK, [Next]_vars, NEW o \in Outputs
  PROVE  UpdateOutput(o) \/ Posted(o)' = Posted(o)
<1>0. TypeOK'
  BY TypeStep
<1>1. ASSUME NEW p \in Outputs, UpdateOutput(p), p # o
      PROVE  Posted(o)' = Posted(o)
  BY <1>0, <1>1, UpdateOutputPosts
<1>2. CASE OutputThread
  BY <1>2, RunApplyKeepsPosted DEF OutputThread
<1>3. CASE \/ Construct \/ Drivers \/ UNCHANGED vars
           \/ \E b \in Blocks : RunUpdate(b)
           \/ \E s \in Signals, v \in {0, 1} : RunSetLevel(s, v)
  BY <1>3, PostedStays DEF Construct, ConstructFindOrAdd, ConstructSetLevel,
     ConstructListen, ConstructPost, Constructing, Run, Drivers, Drive, vars,
     RunUpdate, RunSetLevel
<1>4. CASE \/ StartEvaluate \/ NextRound \/ NextSignal
           \/ \E b \in Blocks : UpdateBlock(b)
  BY <1>4, PostedStays DEF StartEvaluate, NextRound, EnterRound, NextSignal,
     UpdateBlock, AtReceiver, outputVars
<1> QED
  BY <1>1, <1>2, <1>3, <1>4 DEF Next, IoThread, Evaluate

-----------------------------------------------------------------------------
(* NoLostOutput is inductive: it needs nothing but the types. *)

OutputCovered(o) ==
  \/ level[Output[o].in] = Undefined
  \/ Posted(o) = level[Output[o].in]
  \/ AheadInWalk(o)
  \/ InActive(Output[o].in)

(* At the start no signal is driven: there is nothing to lose. *)
LEMMA OutputCoverInit == Init => NoLostOutput
BY NetlistAssumption DEF Init, ProviderInit, NoLostOutput

(* Every step keeps the last level posted to an output that of its signal. *)
LEMMA OutputCoverStep ==
  TypeOK /\ NoLostOutput /\ [Next]_vars => NoLostOutput'
<1> SUFFICES ASSUME TypeOK, NoLostOutput, [Next]_vars, ~abandoned',
                    NEW o \in Outputs
             PROVE  OutputCovered(o)'
  BY DEF NoLostOutput, OutputCovered
<1> DEFINE in == Output[o].in
<1>0. in \in Signals /\ o \in ToSet(Receivers[in]) /\ o \notin Blocks
  BY NetlistAssumption, ReceiversAssumption
<1>1. ~abandoned => OutputCovered(o)
  BY DEF NoLostOutput, OutputCovered
<1>2. CASE Fetches
  <2>1. /\ OutputCovered(o) /\ ~AheadInWalk(o) /\ level' = level
        /\ Posted(o)' = Posted(o)
    BY <1>1, <1>2, PostedStays DEF Fetches, outputVars
  <2>2. InActive(in) => AheadInWalk(o)'
    BY <1>0, <1>2 DEF Fetches, Listed
  <2> QED
    BY <2>1, <2>2 DEF OutputCovered
<1>3. CASE UpdateOutput(o)
  <2>1. TypeOK' /\ level' = level
    BY <1>3, TypeStep DEF UpdateOutput
  <2>2. level[in] = Undefined \/ Posted(o)' = level[in]
    BY <1>3, <2>1, UpdateOutputPosts
  <2> QED
    BY <2>1, <2>2 DEF OutputCovered
<1>4. CASE Leaves(o) /\ Posted(o)' = Posted(o)
  <2>1. OutputCovered(o) /\ (AheadInWalk(o)' <=> AheadInWalk(o))
    BY <1>1, <1>4 DEF Leaves
  <2>2. /\ level'[in] = level[in] \/ InActive(in)'
        /\ InActive(in) => InActive(in)'
    BY <1>0, <1>4 DEF Leaves, ProviderAdvances, InActive
  <2> QED
    BY <1>4, <2>1, <2>2 DEF OutputCovered
<1>5. Fetches \/ UpdateOutput(o) \/ Leaves(o)
  BY <1>0, EveryStep DEF Calls
<1> QED
  BY <1>2, <1>3, <1>4, <1>5, PostedStep

(* No change of a signal is lost on an output, although what it posts is
   carried out later and on another thread: while no evaluation has been
   given up, the level posted last for an output is the level of its signal,
   or GpioOutput::Update will be called for it. *)
THEOREM OutputsAreNotLost == Spec => []NoLostOutput
<1> QED
  BY TypeInit, TypeStep, OutputCoverInit, OutputCoverStep, PTL DEF Spec

-----------------------------------------------------------------------------
(* Rest is a solution, of a netlist in which every signal has one driver.  A
   configuration with two of them is accepted by the code, but has no level
   that a signal ought to have. *)

OneDriver ==
  /\ \A b, c \in Blocks : Block[b].out = Block[c].out => b = c
  /\ \A o, p \in Outputs : Output[o].enabled = Output[p].enabled => o = p
  /\ \A b \in Blocks :
        /\ Block[b].out \notin Inputs
        /\ \A v \in {0, 1} :
              SetLevelTo(Block[b].out, v) \notin ToSet(Construction)
  /\ \A o \in Outputs :
        /\ Output[o].enabled \notin Inputs
        /\ \A b \in Blocks : Block[b].out # Output[o].enabled

(* The constructors are done when the first handler runs, and until then no
   line is touched. *)
Phases ==
  IF pc = "construct"
    THEN outQueue = <<>> /\ pin = [o \in Outputs |-> Undefined]
    ELSE todo = <<>>

(* Nobody but the block sets its signal, so lastValue is what it has. *)
OwnsOut(b) ==
  /\ lastValue[b] = Undefined \/ level[Block[b].out] = lastValue[b]
  /\ \A v \in {0, 1} :
        SetLevelTo(Block[b].out, v) \notin ToSet(ioQueue) \cup ToSet(todo)

(* The closures of an output that are on their way to its _Enabled signal
   leave it at the level of the line: Apply posts them in the order in which
   it writes. *)
Reports(o) == {SetLevelTo(Output[o].enabled, v) : v \in {0, 1}}

LastReport(q, o, v) == LastIn(q, Reports(o), SetLevelTo(Output[o].enabled, v))

Reported(o) ==
  pin[o] # Undefined =>
    LastReport(ioQueue, o, level[Output[o].enabled]).value = pin[o]

RestInv ==
  /\ Phases
  /\ \A b \in Blocks : OwnsOut(b)
  /\ \A o \in Outputs : Reported(o)

(* At the start no signal is driven and no line has been written. *)
LEMMA RestInit ==
  ASSUME OneDriver
  PROVE  Init => RestInv
BY ToSetSmall DEF OneDriver, Init, RestInv, Phases, OwnsOut, Reported

(* Run ends the construction, for good. *)
LEMMA PhasesStep == Phases /\ [Next]_vars => Phases'
<1> SUFFICES ASSUME Phases, [Next]_vars PROVE Phases'
  OBVIOUS
<1>1. CASE Construct
  BY <1>1 DEF Construct, ConstructFindOrAdd, ConstructSetLevel,
     ConstructListen, ConstructPost, Constructing, Run, outputVars, Phases
<1>2. CASE \/ \E b \in Blocks : RunUpdate(b)
           \/ \E s \in Signals, v \in {0, 1} : RunSetLevel(s, v)
  BY <1>2 DEF RunUpdate, RunSetLevel, Running, Phases
<1>3. CASE Evaluate
  BY <1>3 DEF Evaluate, StartEvaluate, NextRound, EnterRound, Running,
     NextSignal, UpdateBlock, UpdateOutput, AtReceiver, Phases
<1>4. CASE OutputThread \/ Drivers \/ UNCHANGED vars
  BY <1>4 DEF OutputThread, Drivers, RunApply, Drive, vars, outputVars, Phases
<1> QED
  BY <1>1, <1>2, <1>3, <1>4 DEF Next, IoThread

(* What a step posts to io: Apply and the drivers post for the signals that
   are theirs, and nobody posts for another. *)
Posts(h) ==
  \/ h = EvaluateState
  \/ \E b \in Blocks : h = LogicUpdate(b)
  \/ \E s \in Inputs \cup {Output[o].enabled : o \in Outputs}, v \in {0, 1} :
        h = SetLevelTo(s, v)

(* Logic::Update adds an evaluation to what is posted with it, if anything. *)
LEMMA UpdateLogicPosts ==
  ASSUME NEW b \in Blocks, NEW posts \in Seq(Handler), UpdateLogic(b, posts)
  PROVE  ToSet(ioQueue') \subseteq ToSet(posts) \cup {EvaluateState}
BY Posting DEF UpdateLogic

(* What io gets to run was still to be constructed, or is one of these posts. *)
LEMMA PostsStep ==
  ASSUME TypeOK, [Next]_vars
  PROVE  /\ ToSet(todo') \subseteq ToSet(todo)
         /\ \A h \in ToSet(ioQueue') : h \in ToSet(ioQueue) \/ Posts(h)
<1>0. ioQueue \in Seq(Handler) /\ todo \in Seq(ConstructionStep)
  BY DEF TypeOK
<1>1. ToSet(todo') \subseteq ToSet(todo)
  <2>1. CASE \E step : Constructing(step)
    BY <1>0, <2>1, ToSetTail DEF Constructing
  <2>2. CASE todo' = todo
    BY <2>2
  <2>3. (\E step : Constructing(step)) \/ todo' = todo
    BY DEF Next, IoThread, Construct, ConstructFindOrAdd, ConstructSetLevel,
       ConstructListen, ConstructPost, Run, RunUpdate, RunSetLevel, Evaluate,
       StartEvaluate, NextRound, EnterRound, UpdateBlock, UpdateOutput,
       AtReceiver, NextSignal, OutputThread, RunApply, Drivers, Drive, vars
  <2> QED
    BY <2>1, <2>2, <2>3
<1> SUFFICES \A h \in ToSet(ioQueue') : h \in ToSet(ioQueue) \/ Posts(h)
  BY <1>1
<1>2. ASSUME NEW q \in Seq(Handler), ToSet(q) \subseteq ToSet(ioQueue),
             NEW notified, ioQueue' = q \o OnDirtySet(notified)
      PROVE  \A h \in ToSet(ioQueue') : h \in ToSet(ioQueue) \/ Posts(h)
  BY <1>2, Posting DEF Posts
<1>3. ASSUME NEW e \in Handler, Posts(e), ioQueue' = Append(ioQueue, e)
      PROVE  \A h \in ToSet(ioQueue') : h \in ToSet(ioQueue) \/ Posts(h)
  BY <1>0, <1>3, ToSetAppend
<1>4. ASSUME NEW q \in Seq(Handler), ToSet(q) \subseteq ToSet(ioQueue),
             NEW b \in Blocks, UpdateLogic(b, q)
      PROVE  \A h \in ToSet(ioQueue') : h \in ToSet(ioQueue) \/ Posts(h)
  BY <1>4, UpdateLogicPosts DEF Posts
<1>5. ASSUME NEW handler, Running(handler)
      PROVE  /\ Tail(ioQueue) \in Seq(Handler)
             /\ ToSet(Tail(ioQueue)) \subseteq ToSet(ioQueue)
  BY <1>0, <1>5, ToSetTail DEF Running
<1>6. CASE ioQueue' = ioQueue
  BY <1>6
<1>7. CASE Construct
  <2>1. ASSUME NEW b \in Blocks, ConstructPost(b)
        PROVE  \A h \in ToSet(ioQueue') : h \in ToSet(ioQueue) \/ Posts(h)
    BY <1>3, <2>1, HandlerType DEF ConstructPost, Posts
  <2>2. CASE Run
    BY <1>3, <2>2, HandlerType DEF Run, Posts
  <2>3. ASSUME NEW s \in Signals, ConstructFindOrAdd(s)
        PROVE  \A h \in ToSet(ioQueue') : h \in ToSet(ioQueue) \/ Posts(h)
    BY <1>0, <1>2, <1>6, <2>3 DEF ConstructFindOrAdd
  <2>4. ASSUME NEW s \in Signals, NEW v \in {0, 1}, ConstructSetLevel(s, v)
        PROVE  \A h \in ToSet(ioQueue') : h \in ToSet(ioQueue) \/ Posts(h)
    BY <1>0, <1>2, <2>4 DEF ConstructSetLevel
  <2> QED
    BY <1>6, <1>7, <2>1, <2>2, <2>3, <2>4 DEF Construct, ConstructListen
<1>8. CASE \E b \in Blocks : RunUpdate(b) \/ UpdateBlock(b)
  BY <1>0, <1>4, <1>5, <1>8 DEF RunUpdate, UpdateBlock
<1>9. CASE \/ \E s \in Signals, v \in {0, 1} : RunSetLevel(s, v)
           \/ StartEvaluate
           \/ NextRound
  BY <1>0, <1>2, <1>5, <1>9 DEF RunSetLevel, StartEvaluate, NextRound,
     EnterRound
<1>10. CASE (\E o \in Outputs : UpdateOutput(o)) \/ NextSignal \/ UNCHANGED vars
  BY <1>6, <1>10 DEF UpdateOutput, NextSignal, vars
<1>11. ASSUME NEW s \in Inputs \cup {Output[o].enabled : o \in Outputs},
              NEW v \in {0, 1}, ioQueue' = Append(ioQueue, SetLevelTo(s, v))
       PROVE  \A h \in ToSet(ioQueue') : h \in ToSet(ioQueue) \/ Posts(h)
  <2>1. s \in Signals
    BY NetlistAssumption
  <2>2. SetLevelTo(s, v) \in Handler /\ Posts(SetLevelTo(s, v))
    BY <2>1, HandlerType DEF Posts
  <2> QED
    BY <1>3, <1>11, <2>2
<1>12. CASE OutputThread \/ Drivers
  BY <1>6, <1>11, <1>12 DEF OutputThread, RunApply, Drivers, Drive
<1> QED
  BY <1>7, <1>8, <1>9, <1>10, <1>12 DEF Next, IoThread, Evaluate

(* A step that changes the level of s is the Update of a block that drives
   it, or a SetLevel that was constructed or posted. *)
SetsLevel(s) ==
  \E v \in {0, 1} : \/ ConstructSetLevel(s, v)
                    \/ RunSetLevel(s, v)

UpdatesBlock(b) == RunUpdate(b) \/ UpdateBlock(b)

(* No other step changes a level. *)
LEMMA LevelStep ==
  ASSUME TypeOK, [Next]_vars, NEW s \in Signals
  PROVE  \/ level'[s] = level[s]
         \/ SetsLevel(s)
         \/ \E b \in Blocks : UpdatesBlock(b) /\ Block[b].out = s
<1>0. ProviderTypeOK /\ level \in [Signals -> Level]
  BY DEF TypeOK, ProviderTypeOK
<1>1. ASSUME NEW t \in Signals, NEW v \in {0, 1}, SetLevel(t, v), t # s
      PROVE  level'[s] = level[s]
  BY <1>0, <1>1, SetLevelEffect
<1>2. CASE Construct
  BY <1>1, <1>2 DEF Construct, ConstructFindOrAdd, ConstructSetLevel, Add,
     ConstructListen, ConstructPost, Run, providerVars, SetsLevel
<1>3. ASSUME NEW t \in Signals, NEW v \in {0, 1}, RunSetLevel(t, v)
      PROVE  SetsLevel(s) \/ level'[s] = level[s]
  BY <1>1, <1>3 DEF RunSetLevel, SetsLevel
<1>4. ASSUME NEW b \in Blocks, UpdatesBlock(b), Block[b].out # s
      PROVE  level'[s] = level[s]
  <2>1. Result(Block[b], level) \in {0, 1} /\ Block[b].out \in Signals
    BY ResultIsBit, NetlistAssumption DEF Logic
  <2> QED
    BY <1>1, <1>4, <2>1 DEF UpdatesBlock, RunUpdate, UpdateBlock, UpdateLogic
<1>5. CASE \/ StartEvaluate \/ NextRound \/ NextSignal
           \/ \E o \in Outputs : UpdateOutput(o)
  BY <1>5 DEF StartEvaluate, NextRound, EnterRound, NextSignal, UpdateOutput,
     providerVars
<1>6. CASE OutputThread \/ Drivers \/ UNCHANGED vars
  BY <1>6 DEF OutputThread, RunApply, Drivers, Drive, vars, providerVars
<1> QED
  BY <1>2, <1>3, <1>4, <1>5, <1>6 DEF Next, IoThread, Evaluate, UpdatesBlock

(* Only its Update changes the memory of a block, and then its signal has
   the same value. *)
LEMMA LastValueStep ==
  ASSUME TypeOK, [Next]_vars, NEW b \in Blocks
  PROVE  \/ lastValue'[b] = lastValue[b] /\ ~UpdatesBlock(b)
         \/ lastValue'[b] = lastValue[b] /\ level' = level
         \/ lastValue'[b] = level'[Block[b].out]
<1>0. /\ lastValue \in [Blocks -> Level] /\ level \in [Signals -> Level]
      /\ Block[b].out \in Signals
  BY NetlistAssumption DEF TypeOK, ProviderTypeOK, Logic
<1>1. CASE UpdatesBlock(b)
  BY <1>0, <1>1 DEF UpdatesBlock, RunUpdate, UpdateBlock, UpdateLogic, SetLevel
<1>2. ASSUME NEW c \in Blocks, UpdatesBlock(c), c # b
      PROVE  lastValue'[b] = lastValue[b]
  BY <1>0, <1>2 DEF UpdatesBlock, RunUpdate, UpdateBlock, UpdateLogic
<1>3. CASE \A c \in Blocks : ~UpdatesBlock(c)
  BY <1>3 DEF UpdatesBlock, Next, IoThread, Construct, ConstructFindOrAdd,
     ConstructSetLevel, ConstructListen, ConstructPost, Constructing, Run,
     RunSetLevel, Evaluate, StartEvaluate, NextRound, EnterRound, NextSignal,
     UpdateOutput, OutputThread, RunApply, Drivers, Drive, vars
<1> QED
  BY <1>1, <1>2, <1>3

(* A block keeps its output signal, as nobody else drives it. *)
LEMMA OwnsOutStep ==
  ASSUME OneDriver, TypeOK, [Next]_vars, NEW b \in Blocks, OwnsOut(b)
  PROVE  OwnsOut(b)'
<1> DEFINE out == Block[b].out
<1>0. /\ ioQueue \in Seq(Handler) /\ todo \in Seq(ConstructionStep)
      /\ out \in Signals
  BY NetlistAssumption DEF TypeOK, Logic
<1>1. ASSUME NEW v \in {0, 1}
      PROVE  SetLevelTo(out, v) \notin ToSet(ioQueue') \cup ToSet(todo')
  <2>1. ~Posts(SetLevelTo(out, v))
    <3>1. /\ SetLevelTo(out, v).op = "set" /\ SetLevelTo(out, v).signal = out
          /\ EvaluateState.op = "evaluate"
          /\ \A c \in Blocks : LogicUpdate(c).op = "update"
          /\ \A s \in Signals, w \in {0, 1} : SetLevelTo(s, w).signal = s
      BY DEF SetLevelTo, EvaluateState, LogicUpdate
    <3>2. \A s \in Inputs \cup {Output[o].enabled : o \in Outputs} :
             s # out /\ s \in Signals
      BY NetlistAssumption DEF OneDriver
    <3> QED
      BY <3>1, <3>2 DEF Posts
  <2> QED
    BY <2>1, PostsStep DEF OwnsOut
<1>2. ~SetsLevel(out)
  <2>1. ASSUME NEW v \in {0, 1}, ConstructSetLevel(out, v) PROVE FALSE
    BY <1>0, <2>1, ToSetTail DEF ConstructSetLevel, Constructing, OwnsOut
  <2>2. ASSUME NEW v \in {0, 1}, RunSetLevel(out, v) PROVE FALSE
    BY <1>0, <2>2, ToSetTail DEF RunSetLevel, Running, OwnsOut
  <2> QED
    BY <2>1, <2>2 DEF SetsLevel
<1>3. level'[out] = level[out] \/ UpdatesBlock(b)
  BY <1>0, <1>2, LevelStep DEF OneDriver
<1>4. lastValue'[b] = Undefined \/ level'[out] = lastValue'[b]
  BY <1>3, LastValueStep DEF OwnsOut
<1> QED
  BY <1>1, <1>4 DEF OwnsOut

(* The reports of an output among the handlers. *)
LEMMA ReportsAre ==
  ASSUME NEW o \in Outputs, NEW v \in {0, 1}
  PROVE  /\ SetLevelTo(Output[o].enabled, v) \in Handler
         /\ SetLevelTo(Output[o].enabled, v) \in Reports(o)
         /\ SetLevelTo(Output[o].enabled, v).value = v
         /\ EvaluateState \notin Reports(o)
         /\ \A b : LogicUpdate(b) \notin Reports(o)
         /\ \A s, w : s # Output[o].enabled => SetLevelTo(s, w) \notin Reports(o)
<1>1. /\ EvaluateState.op = "evaluate"
      /\ \A b : LogicUpdate(b).op = "update"
      /\ \A s, w : /\ SetLevelTo(s, w).op = "set"
                   /\ SetLevelTo(s, w).signal = s
                   /\ SetLevelTo(s, w).value = w
  BY DEF EvaluateState, LogicUpdate, SetLevelTo
<1>2. Output[o].enabled \in Signals
  BY NetlistAssumption
<1> QED
  BY <1>1, <1>2, HandlerType DEF Reports

(* What is posted for others does not come between. *)
LEMMA OthersKeepReport ==
  ASSUME NEW o \in Outputs, NEW q \in Seq(Handler), NEW v
  PROVE  /\ \A e \in Handler \ Reports(o) :
               LastReport(Append(q, e), o, v) = LastReport(q, o, v)
         /\ \A notified :
               LastReport(q \o OnDirtySet(notified), o, v) = LastReport(q, o, v)
<1>1. ASSUME NEW e \in Handler \ Reports(o)
      PROVE  LastReport(Append(q, e), o, v) = LastReport(q, o, v)
  BY <1>1, LastInAppend DEF LastReport
<1>2. EvaluateState \in Handler \ Reports(o)
  BY HandlerType, ReportsAre
<1>3. \A e : q \o <<>> = q /\ q \o <<e>> = Append(q, e)
  OBVIOUS
<1>4. ASSUME NEW notified
      PROVE  q \o OnDirtySet(notified) = q
               \/ q \o OnDirtySet(notified) = Append(q, EvaluateState)
  BY <1>3 DEF OnDirtySet
<1>5. ASSUME NEW notified
      PROVE  LastReport(q \o OnDirtySet(notified), o, v) = LastReport(q, o, v)
  <2>1. LastReport(Append(q, EvaluateState), o, v) = LastReport(q, o, v)
    BY <1>1, <1>2
  <2>2. CASE q \o OnDirtySet(notified) = q
    BY <2>2
  <2>3. CASE q \o OnDirtySet(notified) = Append(q, EvaluateState)
    BY <2>1, <2>3
  <2> QED
    BY <1>4, <2>2, <2>3
<1> QED
  BY <1>1, <1>5

(* Neither does a handler that is not a report, when it is taken. *)
LEMMA OthersRunKeepsReport ==
  ASSUME ioQueue \in Seq(Handler), NEW handler, Running(handler),
         NEW o \in Outputs, handler \notin Reports(o), NEW v
  PROVE  /\ Tail(ioQueue) \in Seq(Handler)
         /\ LastReport(Tail(ioQueue), o, v) = LastReport(ioQueue, o, v)
<1>1. ioQueue # <<>> /\ Head(ioQueue) = handler /\ Tail(ioQueue) \in Seq(Handler)
  BY DEF Running
<1> QED
  BY <1>1, LastInTail DEF LastReport

(* The _Enabled signal, or the last report on its way to it, stays that of the
   line. *)
LEMMA ReportedStep ==
  ASSUME OneDriver, TypeOK, Phases, [Next]_vars, NEW o \in Outputs, Reported(o)
  PROVE  Reported(o)'
<1> DEFINE en == Output[o].enabled
<1>0. /\ ioQueue \in Seq(Handler) /\ en \in Signals
      /\ level \in [Signals -> Level] /\ pin \in [Outputs -> Level]
      /\ ProviderTypeOK
  BY NetlistAssumption DEF TypeOK, ProviderTypeOK
<1>1. \A s : (\E b \in Blocks : s = Block[b].out) \/ s \in Inputs => s # en
  BY DEF OneDriver
<1>2. level'[en] = level[en] \/ SetsLevel(en)
  BY <1>0, <1>1, LevelStep
<1>3. ASSUME pin' = pin, level'[en] = level[en],
             LastReport(ioQueue', o, level[en]) = LastReport(ioQueue, o, level[en])
      PROVE  Reported(o)'
  BY <1>3 DEF Reported
<1>a. ASSUME NEW s \in Signals, NEW v \in {0, 1}, SetLevel(s, v), s # en
      PROVE  level'[en] = level[en]
  BY <1>0, <1>a, SetLevelEffect
<1>4. CASE Construct
  <2>1. pin'[o] = Undefined
    BY <1>4 DEF Construct, ConstructFindOrAdd, ConstructSetLevel,
       ConstructListen, ConstructPost, Constructing, Run, outputVars, Phases
  <2> QED
    BY <2>1 DEF Reported
<1>5. ASSUME NEW q \in Seq(Handler), pin' = pin, level'[en] = level[en],
             LastReport(q, o, level[en]) = LastReport(ioQueue, o, level[en]),
             \/ ioQueue' = q
             \/ \E notified : ioQueue' = q \o OnDirtySet(notified)
      PROVE  Reported(o)'
  <2>1. CASE ioQueue' = q
    BY <1>3, <1>5, <2>1
  <2>2. ASSUME NEW notified, ioQueue' = q \o OnDirtySet(notified)
        PROVE  Reported(o)'
    <3>1. LastReport(q \o OnDirtySet(notified), o, level[en])
            = LastReport(q, o, level[en])
      BY OthersKeepReport
    <3> QED
      BY <1>3, <1>5, <2>2, <3>1
  <2> QED
    BY <1>5, <2>1, <2>2
<1>6. ASSUME NEW b \in Blocks, RunUpdate(b) PROVE Reported(o)'
  <2>1. Running(LogicUpdate(b)) /\ pin' = pin
    BY <1>6 DEF RunUpdate, outputVars
  <2>2. level'[en] = level[en]
    <3>1. Result(Block[b], level) \in {0, 1} /\ Block[b].out \in Signals
      BY ResultIsBit, NetlistAssumption DEF Logic
    <3>2. Block[b].out # en
      BY <1>1
    <3> QED
      BY <1>a, <1>6, <3>1, <3>2 DEF RunUpdate, UpdateLogic
  <2>3. /\ Tail(ioQueue) \in Seq(Handler)
        /\ LastReport(Tail(ioQueue), o, level[en])
             = LastReport(ioQueue, o, level[en])
    BY <1>0, <2>1, ReportsAre, OthersRunKeepsReport
  <2>4. \/ ioQueue' = Tail(ioQueue)
        \/ \E notified : ioQueue' = Tail(ioQueue) \o OnDirtySet(notified)
    BY <1>6 DEF RunUpdate, UpdateLogic
  <2> QED
    BY <1>5, <2>1, <2>2, <2>3, <2>4
<1>7. ASSUME NEW s \in Signals, NEW v \in {0, 1}, RunSetLevel(s, v)
      PROVE  Reported(o)'
  <2>1. /\ Running(SetLevelTo(s, v)) /\ pin' = pin /\ SetLevel(s, v)
        /\ ioQueue' = Tail(ioQueue) \o OnDirtySet(SetLevelNotifies(s, v))
    BY <1>7 DEF RunSetLevel, outputVars
  <2>2. level'[en] = IF s = en THEN v ELSE level[en]
    BY <1>0, <2>1, SetLevelEffect
  <2>3. CASE s = en
    <3>1. /\ ioQueue # <<>> /\ Head(ioQueue) = SetLevelTo(en, v)
          /\ Tail(ioQueue) \in Seq(Handler)
      BY <1>0, <2>1, <2>3 DEF Running
    <3>2. LastReport(ioQueue, o, level[en]) = LastReport(Tail(ioQueue), o, v)
      BY <1>0, <3>1, ReportsAre, LastInTail DEF LastReport
    <3>3. LastReport(ioQueue', o, v) = LastReport(Tail(ioQueue), o, v)
      BY <2>1, <3>1, OthersKeepReport
    <3> QED
      BY <2>1, <2>2, <2>3, <3>2, <3>3 DEF Reported
  <2>4. CASE s # en
    <3>1. /\ Tail(ioQueue) \in Seq(Handler)
          /\ LastReport(Tail(ioQueue), o, level[en])
               = LastReport(ioQueue, o, level[en])
      BY <1>0, <2>1, <2>4, ReportsAre, OthersRunKeepsReport
    <3> QED
      BY <1>5, <2>1, <2>2, <2>4, <3>1
  <2> QED
    BY <2>3, <2>4
<1>8. CASE StartEvaluate
  <2>1. /\ Running(EvaluateState) /\ pin' = pin /\ level' = level
        /\ \E notified : ioQueue' = Tail(ioQueue) \o OnDirtySet(notified)
    BY <1>8 DEF StartEvaluate, EnterRound, outputVars
  <2>2. /\ Tail(ioQueue) \in Seq(Handler)
        /\ LastReport(Tail(ioQueue), o, level[en])
             = LastReport(ioQueue, o, level[en])
    BY <1>0, <2>1, ReportsAre, OthersRunKeepsReport
  <2> QED
    BY <1>5, <2>1, <2>2
<1>9. CASE NextRound \/ \E b \in Blocks : UpdateBlock(b)
  <2>1. /\ pin' = pin /\ pc = "evaluate"
        /\ \/ ioQueue' = ioQueue
           \/ \E notified : ioQueue' = ioQueue \o OnDirtySet(notified)
    BY <1>9 DEF NextRound, EnterRound, outputVars, UpdateBlock, AtReceiver,
       UpdateLogic
  <2>2. ~SetsLevel(en)
    BY <2>1 DEF SetsLevel, ConstructSetLevel, Constructing, RunSetLevel,
       Running
  <2> QED
    BY <1>0, <1>2, <1>5, <2>1, <2>2
<1>10. CASE (\E p \in Outputs : UpdateOutput(p)) \/ NextSignal \/ UNCHANGED vars
  BY <1>3, <1>10 DEF UpdateOutput, AtReceiver, NextSignal, vars, providerVars,
     outputVars
<1>11. ASSUME NEW p \in Outputs, NEW v \in {0, 1}, RunApply(p, v)
       PROVE  Reported(o)'
  <2>1. /\ pin' = [pin EXCEPT ![p] = v] /\ level' = level
        /\ ioQueue' = IF pin[p] = v THEN ioQueue
                      ELSE Append(ioQueue, SetLevelTo(Output[p].enabled, v))
    BY <1>11 DEF RunApply, providerVars
  <2>2. CASE p # o
    <3>1. Output[p].enabled # en
      BY <2>2 DEF OneDriver
    <3>2. SetLevelTo(Output[p].enabled, v) \in Handler \ Reports(o)
      BY <3>1, ReportsAre
    <3>3. pin'[o] = pin[o]
      BY <1>0, <2>1, <2>2
    <3>4. LastReport(ioQueue', o, level[en]) = LastReport(ioQueue, o, level[en])
      BY <1>0, <2>1, <3>2, OthersKeepReport
    <3> QED
      BY <2>1, <3>3, <3>4 DEF Reported
  <2>3. CASE p = o /\ pin[o] = v
    <3>1. pin'[o] = pin[o] /\ ioQueue' = ioQueue
      BY <1>0, <2>1, <2>3
    <3> QED
      BY <2>1, <3>1 DEF Reported
  <2>4. CASE p = o /\ pin[o] # v
    <3>1. ioQueue' = Append(ioQueue, SetLevelTo(en, v)) /\ pin'[o] = v
      BY <1>0, <2>1, <2>4
    <3>2. LastReport(ioQueue', o, level'[en]) = SetLevelTo(en, v)
      BY <1>0, <3>1, ReportsAre, LastInAppend DEF LastReport
    <3> QED
      BY <3>1, <3>2, ReportsAre DEF Reported
  <2> QED
    BY <2>2, <2>3, <2>4
<1>12. ASSUME NEW s \in Inputs, NEW v \in {0, 1}, Drive(s, v)
       PROVE  Reported(o)'
  <2>1. /\ pin' = pin /\ level' = level
        /\ ioQueue' = Append(ioQueue, SetLevelTo(s, v))
    BY <1>12 DEF Drive, providerVars, outputVars
  <2>2. SetLevelTo(s, v) \in Handler \ Reports(o)
    BY <1>1, HandlerType, NetlistAssumption, ReportsAre
  <2> QED
    BY <1>0, <1>3, <2>1, <2>2, OthersKeepReport
<1> QED
  BY <1>4, <1>6, <1>7, <1>8, <1>9, <1>10, <1>11, <1>12
     DEF Next, IoThread, Evaluate, OutputThread, Drivers

(* Every driver's queue is FIFO and every signal has one driver, so a machine
   with nothing left to do is a solution of its netlist, whatever the order
   of construction, the netlist's loops and the interleaving. *)
LEMMA RestFollows ==
  ASSUME TypeOK, RestInv, NoLostUpdate, NoLostOutput, Wakeup
  PROVE  RestIsSolution
<1> SUFFICES ASSUME AtRest, ~abandoned
             PROVE  /\ \A b \in Blocks :
                          level[Block[b].out] = Result(Block[b], level)
                    /\ \A o \in Outputs :
                          /\ level[Output[o].in] # Undefined
                               => pin[o] = level[Output[o].in]
                          /\ pin[o] # Undefined
                               => level[Output[o].enabled] = pin[o]
  BY DEF RestIsSolution
<1>1. pc = "idle" /\ ioQueue = <<>> /\ outQueue = <<>> /\ todo = <<>>
  BY DEF AtRest, RestInv, Phases
<1>2. Active = <<>>
  BY <1>1, ToSetSmall DEF Wakeup
<1>3. (\A s : ~InActive(s)) /\ (\A r : ~AheadInWalk(r))
  BY <1>1, <1>2, ToSetSmall DEF InActive, AheadInWalk
<1>4. ASSUME NEW b \in Blocks
      PROVE  level[Block[b].out] = Result(Block[b], level)
  <2>1. ~UpdatePending(b)
    BY <1>1, <1>3, ToSetSmall DEF UpdatePending
  <2>2. lastValue[b] = Result(Block[b], level)
    BY <2>1 DEF NoLostUpdate, UpToDate
  <2>3. lastValue[b] # Undefined
    BY <2>2, ResultIsBit DEF Undefined
  <2> QED
    BY <2>2, <2>3 DEF RestInv, OwnsOut
<1>5. ASSUME NEW o \in Outputs, level[Output[o].in] # Undefined
      PROVE  pin[o] = level[Output[o].in]
  <2>1. Posted(o) = level[Output[o].in]
    BY <1>3, <1>5 DEF NoLostOutput
  <2>2. {i \in DOMAIN outQueue : outQueue[i].output = o} = {}
    BY <1>1
  <2> QED
    BY <2>1, <2>2 DEF Posted
<1>6. ASSUME NEW o \in Outputs, pin[o] # Undefined
      PROVE  level[Output[o].enabled] = pin[o]
  <2>1. LastReport(ioQueue, o, level[Output[o].enabled])
          = SetLevelTo(Output[o].enabled, level[Output[o].enabled])
    BY <1>1, LastInEmpty DEF LastReport
  <2>2. LastReport(ioQueue, o, level[Output[o].enabled]).value = pin[o]
    BY <1>6 DEF RestInv, Reported
  <2> QED
    BY <2>1, <2>2 DEF SetLevelTo
<1> QED
  BY <1>4, <1>5, <1>6

(* A machine at rest is a solution of its netlist: every block that has run has
   its output signal at the value of its inputs, every line is at the level of
   its signal, and its _Enabled signal reports it, whatever happened before. *)
THEOREM RestIsASolution ==
  ASSUME OneDriver
  PROVE  Spec => []RestIsSolution
<1>1. Init => TypeOK /\ RestInv /\ NoLostUpdate /\ NoLostOutput
                /\ Listens /\ Wakeup
  BY TypeInit, RestInit, CoverInit, OutputCoverInit, WakeupInit
<1>2. TypeOK /\ RestInv /\ [Next]_vars => RestInv'
  <2> SUFFICES ASSUME TypeOK, RestInv, [Next]_vars PROVE RestInv'
    OBVIOUS
  <2>1. Phases'
    BY PhasesStep DEF RestInv
  <2>2. \A b \in Blocks : OwnsOut(b)'
    BY OwnsOutStep DEF RestInv
  <2>3. \A o \in Outputs : Reported(o)'
    BY ReportedStep DEF RestInv
  <2> QED
    BY <2>1, <2>2, <2>3 DEF RestInv
<1>3. TypeOK /\ RestInv /\ NoLostUpdate /\ NoLostOutput /\ Listens /\ Wakeup
          /\ [Next]_vars
        => TypeOK' /\ RestInv' /\ NoLostUpdate' /\ NoLostOutput' /\ Listens'
             /\ Wakeup'
  BY <1>2, TypeStep, CoverStep, OutputCoverStep, ListensStep, WakeupStep
<1>4. TypeOK /\ RestInv /\ NoLostUpdate /\ NoLostOutput /\ Wakeup
        => RestIsSolution
  BY RestFollows
<1> QED
  BY <1>1, <1>3, <1>4, PTL DEF Spec

-----------------------------------------------------------------------------
(* The engine implements the steps of Propagation. *)

Receivable == Blocks \cup Outputs

(* What listing the signals of S makes due. *)
HeardBy(S) == UNION {ToSet(Receivers[s]) : s \in S}

(* A single signal is heard by its receivers, none by nobody. *)
LEMMA HeardByOne ==
  ASSUME NEW s
  PROVE  HeardBy({}) = {} /\ HeardBy({s}) = ToSet(Receivers[s])
<1>1. {ToSet(Receivers[t]) : t \in {s}} = {ToSet(Receivers[s])}
  OBVIOUS
<1> QED
  BY <1>1 DEF HeardBy

(* Who receives a signal is a receiver of the promise. *)
LEMMA ListenersAreReceivable ==
  ASSUME NEW s \in Signals
  PROVE  ToSet(Receivers[s]) \subseteq Receivable
<1>1. Receivers[s] \in Seq(Blocks \cup Outputs)
  BY NetlistAssumption
<1> QED
  BY <1>1 DEF ToSet, Receivable

(* To list signals makes their receivers listed, and no other. *)
LEMMA ListedGrows ==
  ASSUME NEW S \in SUBSET Signals, ToSet(Active') = ToSet(Active) \cup S, NEW r
  PROVE  Listed(r)' <=> Listed(r) \/ r \in HeardBy(S)
BY DEF Listed, InActive, HeardBy

(* When signals are listed and the walk stays, their receivers become due. *)
LEMMA DueGrows ==
  ASSUME NEW S \in SUBSET Signals, ToSet(Active') = ToSet(Active) \cup S,
         \A r \in Receivable : AheadInWalk(r)' <=> AheadInWalk(r)
  PROVE  Due' = Due \cup HeardBy(S)
<1>1. HeardBy(S) \subseteq Receivable
  BY ListenersAreReceivable DEF HeardBy
<1>2. Due = {r \in Receivable : AheadInWalk(r) \/ Listed(r)}
  BY DEF Due, Receivable, Listed
<1>3. Due' = {r \in Receivable : AheadInWalk(r)' \/ Listed(r)'}
  BY DEF Due, Receivable, Listed
<1>4. \A r \in Receivable : Listed(r)' <=> Listed(r) \/ r \in HeardBy(S)
  BY ListedGrows
<1> QED
  BY <1>1, <1>2, <1>3, <1>4

(* When the walk calls c, nobody but c stops being due. *)
LEMMA DueOfCall ==
  ASSUME TypeOK, NEW c \in Receivable, AtReceiver(c), ProviderAdvances,
         NEW S \in SUBSET Signals, ToSet(Active') = ToSet(Active) \cup S
  PROVE  \E left \in {Due, Due \ {c}} : Due' = left \cup HeardBy(S)
<1>1. HeardBy(S) \subseteq Receivable
  BY ListenersAreReceivable DEF HeardBy
<1>2. Due = {r \in Receivable : AheadInWalk(r) \/ Listed(r)}
  BY DEF Due, Receivable, Listed
<1>3. Due' = {r \in Receivable : AheadInWalk(r)' \/ Listed(r)'}
  BY DEF Due, Receivable, Listed
<1>4. \A r \in Receivable : Listed(r)' <=> Listed(r) \/ r \in HeardBy(S)
  BY ListedGrows
<1>5. \A r \in Receivable \ {c} : AheadInWalk(r) => AheadInWalk(r)'
  BY PassingOther
<1>6. \A r \in Receivable : AheadInWalk(r)' => AheadInWalk(r)
  BY WalkNeverReturns DEF AtReceiver, ProviderAdvances
<1>7. Due' = (IF AheadInWalk(c)' \/ Listed(c) THEN Due ELSE Due \ {c})
                \cup HeardBy(S)
  <2>1. CASE AheadInWalk(c)' \/ Listed(c)
    BY <1>1, <1>2, <1>3, <1>4, <1>5, <1>6, <2>1
  <2>2. CASE ~ (AheadInWalk(c)' \/ Listed(c))
    BY <1>1, <1>2, <1>3, <1>4, <1>5, <1>6, <2>2
  <2> QED
    BY <2>1, <2>2
<1> QED
  BY <1>7

(* The walk of a step that is none of the evaluation. *)
LEMMA WalkKept ==
  ASSUME NEW r,
         \/ pc # "evaluate" /\ pc' # "evaluate"
         \/ UNCHANGED <<pc, evalVars>> /\ Fetched' = Fetched
  PROVE  AheadInWalk(r)' <=> AheadInWalk(r)
BY WalkStays DEF evalVars

(* Signal::SetLevel and SignalProvider::Add are the steps Set and Create. *)
LEMMA SetLevelIsSet ==
  ASSUME TypeOK, NEW s \in Signals, NEW v \in {0, 1}, SetLevel(s, v),
         \A r \in Receivable : AheadInWalk(r)' <=> AheadInWalk(r),
         UNCHANGED Shown
  PROVE  Promise!Set(s, v) \/ UNCHANGED <<level, Shown, Due>>
<1>0. ProviderTypeOK
  BY DEF TypeOK
<1>1. /\ level' = [level EXCEPT ![s] = v]
      /\ ToSet(Active') = ToSet(Active) \cup (IF level[s] = v THEN {} ELSE {s})
  BY <1>0, SetLevelEffect
<1>2. CASE level[s] = v
  <2>1. ToSet(Active') = ToSet(Active) \cup {} /\ HeardBy({}) = {}
    BY <1>1, <1>2, HeardByOne
  <2>2. Due' = Due
    BY <2>1, DueGrows
  <2> QED
    BY <1>2, <2>2 DEF SetLevel
<1>3. CASE level[s] # v
  <2>1. ToSet(Active') = ToSet(Active) \cup {s}
    BY <1>1, <1>3
  <2>2. Due' = Due \cup ToSet(Receivers[s])
    BY <2>1, DueGrows, HeardByOne
  <2> QED
    BY <1>1, <1>3, <2>2 DEF Promise!Set
<1> QED
  BY <1>2, <1>3

(* SignalProvider::Add is the step Create. *)
LEMMA AddIsCreate ==
  ASSUME TypeOK, NEW s \in Signals, Add(s),
         \A r \in Receivable : AheadInWalk(r)' <=> AheadInWalk(r),
         UNCHANGED Shown
  PROVE  Promise!Create(s)
<1>1. ToSet(Active') = ToSet(Active) \cup {s}
  BY AddEffect DEF TypeOK
<1>2. Due' = Due \cup ToSet(Receivers[s])
  BY <1>1, DueGrows, HeardByOne
<1> QED
  BY <1>2 DEF Promise!Create, Add

(* Logic::Update is the step Call, called by the walk or by its own post. *)
LEMMA UpdateLogicIsCall ==
  ASSUME TypeOK, NEW b \in Blocks, NEW posts \in Seq(Handler),
         UpdateLogic(b, posts), created' = created, listening' = listening,
         UNCHANGED outputVars,
         \A S \in SUBSET Signals :
            ToSet(Active') = ToSet(Active) \cup S =>
              \E left \in {Due, Due \ {b}} : Due' = left \cup HeardBy(S)
  PROVE  Promise!Call(b)
<1> DEFINE result == Result(Block[b], level)
           out == Block[b].out
           drives == [c \in Blocks |-> Block[c].out]
<1>0. /\ ProviderTypeOK /\ lastValue \in [Blocks -> Level]
      /\ result \in {0, 1} /\ out \in Signals
  BY ResultIsBit, NetlistAssumption DEF TypeOK, Logic
<1>1. lastValue' = [lastValue EXCEPT ![b] = result]
  BY UpdateLogicEffect
<1>2. /\ ValueOf(b, level) = result
      /\ Shown[b] = lastValue[b]
      /\ b \in DOMAIN drives /\ drives[b] = out
      /\ result # -1
  BY <1>0 DEF ValueOf, Shown
<1>3. Shown' = [Shown EXCEPT ![b] = result]
  <2>1. \A o \in Outputs : Posted(o)' = Posted(o)
    BY PostedStays
  <2>2. \A c \in Blocks : lastValue'[c] = IF c = b THEN result ELSE lastValue[c]
    BY <1>0, <1>1
  <2> HIDE DEF result
  <2> QED
    BY <2>1, <2>2 DEF Shown
<1>4. CASE lastValue[b] # result /\ level[out] # result
  <2>1. /\ level' = [level EXCEPT ![out] = result]
        /\ ToSet(Active') = ToSet(Active) \cup {out}
    BY <1>0, <1>4, SetLevelEffect DEF UpdateLogic
  <2>2. \E left \in {Due, Due \ {b}} : Due' = left \cup ToSet(Receivers[out])
    BY <1>0, <2>1, HeardByOne
  <2> HIDE DEF result, out, drives
  <2> QED
    BY <1>0, <1>2, <1>3, <1>4, <2>1, <2>2
       DEF Promise!Call, Promise!DrivesNew, drives
<1>5. CASE ~ (lastValue[b] # result /\ level[out] # result)
  <2>0. HeardBy({}) = {}
    BY HeardByOne
  <2>1. level' = level /\ Active' = Active
    BY <1>0, <1>5 DEF UpdateLogic, SetLevel, Active
  <2>2. ToSet(Active') = ToSet(Active) \cup {} /\ {} \in SUBSET Signals
    BY <2>1
  <2>3. Due' \in {Due, Due \ {b}}
    BY <2>0, <2>2
  <2> HIDE DEF result, out, drives
  <2> QED
    BY <1>2, <1>3, <1>5, <2>1, <2>3
       DEF Promise!Call, Promise!DrivesNew, drives
<1> QED
  BY <1>4, <1>5

(* So is GpioOutput::Update, which shows what it posts. *)
LEMMA UpdateOutputIsCall ==
  ASSUME TypeOK, TypeOK', NEW o \in Outputs, UpdateOutput(o)
  PROVE  Promise!Call(o)
<1> DEFINE in == level[Output[o].in]
           drives == [c \in Blocks |-> Block[c].out]
<1>0. o \notin Blocks /\ o \in Receivable /\ o \notin DOMAIN drives
  BY NetlistAssumption DEF Receivable
<1>1. ValueOf(o, level) = in
  BY <1>0 DEF ValueOf
<1>2. Shown' = [Shown EXCEPT ![o] = IF in = -1 THEN @ ELSE in]
  <2>1. \A p \in Outputs :
           Posted(p)' = IF p = o /\ in # -1 THEN in ELSE Posted(p)
    BY UpdateOutputPosts DEF Undefined
  <2>2. lastValue' = lastValue
    BY DEF UpdateOutput
  <2> HIDE DEF in
  <2> QED
    BY <1>0, <2>1, <2>2 DEF Shown
<1>3. level' = level /\ Due' \in {Due, Due \ {o}}
  <2>1. AtReceiver(o) /\ UNCHANGED providerVars
    BY DEF UpdateOutput, AtReceiver, providerVars
  <2>2. ProviderAdvances /\ Active' = Active
    BY <2>1, UnchangedAdvances DEF providerVars, TypeOK, ProviderTypeOK
  <2>3. ToSet(Active') = ToSet(Active) \cup {} /\ {} \in SUBSET Signals
    BY <2>2
  <2>4. \E left \in {Due, Due \ {o}} : Due' = left \cup HeardBy({})
    BY <1>0, <2>1, <2>2, <2>3, DueOfCall
  <2> QED
    BY <2>1, <2>4, HeardByOne DEF providerVars
<1> HIDE DEF in, drives
<1> QED
  BY <1>0, <1>1, <1>2, <1>3 DEF Promise!Call, Promise!DrivesNew, drives

(* What stays hidden from the promise. *)
LEMMA HiddenStep ==
  ASSUME UNCHANGED <<level, lastValue>>, Active' = Active,
         \A o \in Outputs : Posted(o)' = Posted(o),
         \A r \in Receivable : AheadInWalk(r)' <=> AheadInWalk(r)
  PROVE  UNCHANGED <<level, Shown, Due>>
<1>1. Shown' = Shown
  BY DEF Shown
<1>2. ToSet(Active') = ToSet(Active) \cup {} /\ {} \in SUBSET Signals
  OBVIOUS
<1>3. Due' = Due \cup HeardBy({})
  BY <1>2, DueGrows
<1> QED
  BY <1>1, <1>3, HeardByOne

(* A fetch is hidden: who was listed is ahead in the walk. *)
LEMMA FetchIsHidden ==
  ASSUME Fetches, ~abandoned'
  PROVE  UNCHANGED <<level, Shown, Due>>
<1>1. Shown' = Shown
  BY PostedStays DEF Fetches, Shown, outputVars
<1>2. /\ Due = {r \in Receivable : AheadInWalk(r) \/ Listed(r)}
      /\ Due' = {r \in Receivable : AheadInWalk(r)' \/ Listed(r)'}
  BY DEF Due, Receivable, Listed
<1>3. Due' = Due
  BY <1>2 DEF Fetches, Receivable
<1> QED
  BY <1>1, <1>3 DEF Fetches

(* At the start nobody is due. *)
LEMMA InitImplements == Init => Promise!Init
<1> SUFFICES ASSUME Init PROVE Promise!Init
  OBVIOUS
<1>1. level = [s \in Signals |-> -1]
  BY DEF Init, ProviderInit, Undefined
<1>2. Shown = [r \in Blocks \cup Outputs |-> -1]
  <2>1. \A o \in Outputs : Posted(o) = -1
    BY DEF Init, Posted, Undefined
  <2> QED
    BY <2>1 DEF Init, Shown, Undefined
<1>3. Due = {}
  BY ToSetSmall DEF Init, ProviderInit, Due, AheadInWalk, InActive, Active
<1> QED
  BY <1>1, <1>2, <1>3 DEF Promise!Init

(* Every step of the engine is one of the promise, or leaves what it speaks of. *)
LEMMA StepImplements ==
  TypeOK /\ ~abandoned' /\ [Next]_vars
    => [Promise!Next]_<<level, Shown, Due>>
<1> DEFINE Hidden == UNCHANGED <<level, Shown, Due>>
           Implements == [Promise!Next]_<<level, Shown, Due>>
<1> SUFFICES ASSUME TypeOK, ~abandoned', [Next]_vars PROVE Implements
  OBVIOUS
<1>0. TypeOK' /\ ProviderTypeOK /\ ioQueue \in Seq(Handler)
  BY TypeStep DEF TypeOK
<1>a. /\ \A s \in Signals : Promise!Create(s) => Implements
      /\ \A s \in Signals, v \in {0, 1} : Promise!Set(s, v) => Implements
      /\ \A r \in Blocks \cup Outputs : Promise!Call(r) => Implements
      /\ Hidden => Implements
  BY DEF Promise!Next
<1> HIDE DEF Implements
<1>1. ASSUME UNCHANGED <<lastValue, outputVars>> PROVE UNCHANGED Shown
  BY <1>1, PostedStays DEF Shown
<1>2. ASSUME NEW s \in Signals, ConstructFindOrAdd(s) PROVE Implements
  <2>1. UNCHANGED <<pc, evalVars, lastValue, outputVars>>
    BY <1>2 DEF ConstructFindOrAdd, Constructing
  <2>2. CASE s \in created
    <3>1. Hidden
      BY <1>2, <2>1, <2>2, HiddenStep, WalkKept, PostedStays
         DEF ConstructFindOrAdd, providerVars, Active, Fetched
    <3> QED
      BY <1>a, <3>1
  <2>3. CASE s \notin created
    <3>1. Add(s)
      BY <1>2, <2>3 DEF ConstructFindOrAdd
    <3>2. Fetched' = Fetched
      BY <1>0, <3>1, AddEffect
    <3>3. Promise!Create(s)
      BY <1>1, <2>1, <3>1, <3>2, WalkKept, AddIsCreate
    <3> QED
      BY <1>a, <3>3
  <2> QED
    BY <2>2, <2>3
<1>3. ASSUME NEW s \in Signals, NEW v \in {0, 1},
             ConstructSetLevel(s, v) \/ RunSetLevel(s, v)
      PROVE  Implements
  <2>1. SetLevel(s, v) /\ UNCHANGED <<pc, evalVars, lastValue, outputVars>>
    BY <1>3 DEF ConstructSetLevel, Constructing, RunSetLevel
  <2>2. Fetched' = Fetched
    BY <1>0, <2>1, SetLevelEffect
  <2> QED
    BY <1>1, <1>a, <2>1, <2>2, WalkKept, SetLevelIsSet
<1>4. CASE ConstructListen \/ (\E b \in Blocks : ConstructPost(b)) \/ Run
  <2>1. /\ UNCHANGED <<level, lastValue, outputVars>>
        /\ Active' = Active /\ Fetched' = Fetched
        /\ \/ UNCHANGED <<pc, evalVars>>
           \/ pc # "evaluate" /\ pc' # "evaluate"
    BY <1>4 DEF ConstructListen, ConstructPost, Constructing, Run,
       providerVars, Active, Fetched
  <2>2. Hidden
    BY <2>1, HiddenStep, WalkKept, PostedStays
  <2> QED
    BY <1>a, <2>2
<1>5. ASSUME NEW b \in Blocks, RunUpdate(b) PROVE Implements
  <2>1. /\ UpdateLogic(b, Tail(ioQueue)) /\ Tail(ioQueue) \in Seq(Handler)
        /\ UNCHANGED <<created, listening, pc, evalVars, outputVars>>
    BY <1>0, <1>5 DEF RunUpdate, Running
  <2>2. ProviderAdvances
    BY <2>1, UpdateLogicEffect
  <2>3. \A r : AheadInWalk(r)' <=> AheadInWalk(r)
    BY <2>1, <2>2, WalkKept DEF ProviderAdvances
  <2>4. ASSUME NEW S \in SUBSET Signals, ToSet(Active') = ToSet(Active) \cup S
        PROVE  \E left \in {Due, Due \ {b}} : Due' = left \cup HeardBy(S)
    BY <2>3, <2>4, DueGrows
  <2>5. Promise!Call(b)
    BY <2>1, <2>4, UpdateLogicIsCall
  <2> QED
    BY <1>a, <2>5
<1>6. ASSUME NEW b \in Blocks, UpdateBlock(b) PROVE Implements
  <2>1. /\ AtReceiver(b) /\ UpdateLogic(b, ioQueue)
        /\ UNCHANGED <<created, listening, outputVars>>
    BY <1>6 DEF UpdateBlock, AtReceiver, outputVars
  <2>2. ProviderAdvances
    BY <1>0, <2>1, UpdateLogicEffect
  <2>3. ASSUME NEW S \in SUBSET Signals, ToSet(Active') = ToSet(Active) \cup S
        PROVE  \E left \in {Due, Due \ {b}} : Due' = left \cup HeardBy(S)
    BY <2>1, <2>2, <2>3, DueOfCall DEF Receivable
  <2>4. Promise!Call(b)
    BY <1>0, <2>1, <2>3, UpdateLogicIsCall
  <2> QED
    BY <1>a, <2>4
<1>7. ASSUME NEW o \in Outputs, UpdateOutput(o) PROVE Implements
  BY <1>0, <1>7, <1>a, UpdateOutputIsCall
<1>8. CASE StartEvaluate \/ NextRound
  <2>1. ASSUME NEW left, NEW posts, EnterRound(left, posts),
               \A r \in Blocks \cup Outputs : ~AheadInWalk(r)
        PROVE  Hidden
    <3>1. Fetches
      BY <2>1, FetchTurns DEF Fetches, EnterRound, outputVars
    <3> QED
      BY <3>1, FetchIsHidden
  <2>2. \A r : ~AheadInWalk(r)
    BY <1>8, WalkIsOver DEF StartEvaluate, Running, NextRound, AheadInWalk
  <2>3. Hidden
    BY <1>8, <2>1, <2>2 DEF StartEvaluate, NextRound
  <2> QED
    BY <1>a, <2>3
<1>9. CASE NextSignal
  <2>1. /\ UNCHANGED <<providerVars, pc, lastValue, outputVars>>
        /\ WalkedReceivers /\ position' = position + 1 /\ receiver' = 1
    BY <1>9 DEF NextSignal
  <2>2. ProviderAdvances /\ Active' = Active
    BY <1>0, <2>1, UnchangedAdvances DEF providerVars, ProviderTypeOK
  <2>3. \A r : AheadInWalk(r)' <=> AheadInWalk(r)
    BY <2>1, <2>2, PassingSignal, WalkNeverReturns DEF ProviderAdvances
  <2>4. Hidden
    BY <2>1, <2>2, <2>3, HiddenStep, PostedStays DEF providerVars
  <2> QED
    BY <1>a, <2>4
<1>10. CASE OutputThread \/ Drivers \/ UNCHANGED vars
  <2>1. /\ UNCHANGED <<level, lastValue, pc, evalVars>>
        /\ Active' = Active /\ Fetched' = Fetched
    BY <1>10 DEF OutputThread, RunApply, Drivers, Drive, vars, providerVars,
       Active, Fetched
  <2>2. \A o \in Outputs : Posted(o)' = Posted(o)
    BY <1>10, RunApplyKeepsPosted, PostedStays
       DEF OutputThread, Drivers, Drive, vars
  <2>3. Hidden
    BY <2>1, <2>2, HiddenStep, WalkKept
  <2> QED
    BY <1>a, <2>3
<1> QED
  BY <1>2, <1>3, <1>4, <1>5, <1>6, <1>7, <1>8, <1>9, <1>10
     DEF Next, IoThread, Construct, Evaluate

(* The two lists, their swap, the rounds and the posts implement the promise
   step by step, for every netlist and every schedule, as long as no
   evaluation is given up: a receiver of a signal that is set stays due until
   it is called, and a call shows the value of the levels at that moment.
   That each due receiver is called in the end is the fairness part of
   Propagates, which the run checks. *)
THEOREM EngineImplementsPromise == Spec /\ []Converges => Promise!Spec
<1>1. TypeOK /\ Converges' /\ [Next]_vars => [Promise!Next]_(Promise!vars)
  BY StepImplements DEF Converges, Promise!vars
<1> QED
  BY <1>1, InitImplements, TypeInit, TypeStep, PTL DEF Spec, Promise!Spec
-----------------------------------------------------------------------------
(* Converges.  With layers, what a round lists is higher than what it walks,
   so the list is empty before the rounds are used up. *)

Climbs(layer) ==
  \A s \in Signals : \A b \in Blocks \cap ToSet(Receivers[s]) :
     layer[s] < layer[Block[b].out]

(* Round n of an evaluation, counted from 0, walks signals of layer n and
   above and lists signals above n; and no evaluation was given up. *)
RoundInv(layer) ==
  LET round == EvalLimit - timeout
  IN /\ ~abandoned
     /\ pc = "evaluate" =>
          /\ \A s \in ToSet(Fetched) : layer[s] >= round
          /\ \A s \in ToSet(Active) : layer[s] > round

(* Logic::Update lists the signal of its block or nothing. *)
LEMMA UpdateLogicLists ==
  ASSUME ProviderTypeOK, NEW b \in Blocks, NEW posts, UpdateLogic(b, posts)
  PROVE  /\ Fetched' = Fetched
         /\ ToSet(Active') \subseteq ToSet(Active) \cup {Block[b].out}
<1>1. Result(Block[b], level) \in {0, 1} /\ Block[b].out \in Signals
  BY ResultIsBit, NetlistAssumption DEF Logic
<1>2. CASE SetLevel(Block[b].out, Result(Block[b], level))
  BY <1>1, <1>2, SetLevelEffect
<1>3. CASE UNCHANGED <<dirtyA, dirtyB, dirtyAIsActive>>
  BY <1>3 DEF Active, Fetched
<1> QED
  BY <1>2, <1>3 DEF UpdateLogic

(* The walk stands at a signal of the list that was fetched, and what it
   calls is one of its receivers. *)
LEMMA WalkedSignalIsFetched ==
  ASSUME TypeOK, NEW r, AtReceiver(r)
  PROVE  \E s \in ToSet(Fetched) \cap Signals : r \in ToSet(Receivers[s])
<1> DEFINE s == Fetched[position]
<1>1. Fetched \in Seq(Signals) /\ position \in Nat \ {0} /\ receiver \in Nat \ {0}
  BY DEF TypeOK, ProviderTypeOK, Fetched
<1>2. position \in DOMAIN Fetched
  BY <1>1 DEF AtReceiver, WalkedSignals
<1>3. s \in Signals /\ s \in ToSet(Fetched)
  BY <1>1, <1>2 DEF ToSet
<1>4. Receivers[s] \in Seq(Blocks \cup Outputs)
  BY <1>3, NetlistAssumption
<1>5. receiver \in DOMAIN Receivers[s] /\ Receivers[s][receiver] = r
  BY <1>1, <1>4 DEF AtReceiver, WalkedReceivers
<1> QED
  BY <1>3, <1>5 DEF ToSet

(* A new round begins one layer higher, with nothing listed. *)
LEMMA EnterRoundClimbs ==
  ASSUME TypeOK, NEW layer \in [Signals -> 0 .. EvalLimit - 1], RoundInv(layer),
         NEW left \in 0 .. EvalLimit, NEW posts, EnterRound(left, posts),
         \A s \in ToSet(Active) : layer[s] >= EvalLimit - left
  PROVE  RoundInv(layer)'
<1>1. /\ Fetched' = Active /\ Active' = <<>>
      /\ timeout' = left
      /\ abandoned' = (abandoned \/ (Active # <<>> /\ left <= 0))
      /\ abandoned \in BOOLEAN
  BY GetDirtyEffect DEF EnterRound, TypeOK
<1>2. EvalLimit \in Nat
  BY BoundsAssumption
<1>3. Active \in Seq(Signals)
  BY DEF TypeOK, ProviderTypeOK, Active
<1>4. ASSUME Active # <<>> PROVE left > 0
  <2>1. Active[1] \in Signals /\ Active[1] \in ToSet(Active)
    BY <1>3, <1>4 DEF ToSet
  <2>2. layer[Active[1]] \in 0 .. EvalLimit - 1 /\ layer[Active[1]] >= EvalLimit - left
    BY <2>1
  <2> QED
    BY <1>2, <2>2
<1>5. ToSet(Active') = {}
  BY <1>1, ToSetSmall
<1> QED
  BY <1>1, <1>2, <1>4, <1>5 DEF RoundInv

(* Every step keeps to the layers. *)
LEMMA RoundStep ==
  ASSUME TypeOK, NEW layer \in [Signals -> 0 .. EvalLimit - 1], Climbs(layer),
         RoundInv(layer), [Next]_vars
  PROVE  RoundInv(layer)'
<1>1. /\ ProviderTypeOK
      /\ EvalLimit \in Nat \ {0} /\ timeout \in 0 .. EvalLimit
      /\ pc = "evaluate" => timeout \in 1 .. EvalLimit
      /\ Active \in Seq(Signals)
  BY BoundsAssumption DEF TypeOK, ProviderTypeOK, Active
<1>2. \A s \in ToSet(Active) : layer[s] \in 0 .. EvalLimit - 1
  BY <1>1 DEF ToSet
<1>3. ASSUME UNCHANGED <<pc, timeout, abandoned, dirtyA, dirtyB, dirtyAIsActive>>
      PROVE  RoundInv(layer)'
  BY <1>3 DEF RoundInv, Active, Fetched
<1>4. ASSUME pc' # "evaluate", abandoned' = abandoned PROVE RoundInv(layer)'
  BY <1>4 DEF RoundInv
<1>5. CASE StartEvaluate
  <2>1. \A s \in ToSet(Active) : layer[s] >= EvalLimit - EvalLimit
    BY <1>1, <1>2
  <2> QED
    BY <1>1, <1>5, <2>1, EnterRoundClimbs DEF StartEvaluate
<1>6. CASE NextRound
  <2>1. timeout - 1 \in 0 .. EvalLimit
    BY <1>1, <1>6 DEF NextRound
  <2>2. ASSUME NEW s \in ToSet(Active) PROVE layer[s] >= EvalLimit - (timeout - 1)
    <3>1. layer[s] > EvalLimit - timeout
      BY <1>6, <2>2 DEF RoundInv, NextRound
    <3> QED
      BY <1>1, <1>2, <2>2, <3>1
  <2> QED
    BY <1>6, <2>1, <2>2, EnterRoundClimbs DEF NextRound
<1>7. ASSUME NEW b \in Blocks, UpdateBlock(b) PROVE RoundInv(layer)'
  <2>1. /\ pc = "evaluate"
        /\ UNCHANGED <<pc, timeout, abandoned>>
        /\ AtReceiver(b)
    BY <1>7 DEF UpdateBlock, AtReceiver
  <2>2. PICK s \in ToSet(Fetched) \cap Signals : b \in ToSet(Receivers[s])
    BY <2>1, WalkedSignalIsFetched
  <2>3. layer[s] >= EvalLimit - timeout /\ layer[s] < layer[Block[b].out]
    BY <2>1, <2>2 DEF RoundInv, Climbs
  <2>4. Block[b].out \in Signals
    BY NetlistAssumption DEF Logic
  <2>5. layer[Block[b].out] > EvalLimit - timeout
    BY <1>1, <2>2, <2>3, <2>4
  <2>6. /\ Fetched' = Fetched
        /\ ToSet(Active') \subseteq ToSet(Active) \cup {Block[b].out}
    BY <1>1, <1>7, UpdateLogicLists DEF UpdateBlock
  <2> QED
    BY <2>1, <2>5, <2>6 DEF RoundInv
<1>8. CASE Construct
  BY <1>4, <1>8 DEF Construct, ConstructFindOrAdd, ConstructSetLevel,
     ConstructListen, ConstructPost, Run, Constructing
<1>9. CASE \/ \E b \in Blocks : RunUpdate(b)
           \/ \E s \in Signals, v \in {0, 1} : RunSetLevel(s, v)
  BY <1>4, <1>9 DEF RunUpdate, RunSetLevel, Running
<1>10. CASE (\E o \in Outputs : UpdateOutput(o)) \/ NextSignal
  BY <1>3, <1>10 DEF UpdateOutput, AtReceiver, NextSignal, providerVars
<1>11. CASE OutputThread \/ Drivers \/ UNCHANGED vars
  BY <1>3, <1>11 DEF OutputThread, Drivers, RunApply, Drive, vars,
     providerVars, evalVars
<1> QED
  BY <1>5, <1>6, <1>7, <1>8, <1>9, <1>10, <1>11 DEF Next, IoThread, Evaluate

(* In a netlist whose signals are in layers, no more than EvalLimit of them,
   no evaluation is given up at StateMachine.cpp:184, whatever drivers, lines
   and constructors list before it: round n only lists what is above layer n,
   and the list that is left when the rounds are used up is empty. *)
THEOREM LayeredNetlistsConverge ==
  ASSUME Layered
  PROVE  Spec => []Converges
<1>1. PICK layer \in [Signals -> 0 .. EvalLimit - 1] : Climbs(layer)
  BY DEF Layered, Climbs
<1> DEFINE Inv == TypeOK /\ RoundInv(layer)
<1>2. Init => RoundInv(layer)
  BY DEF Init, RoundInv
<1>3. Inv /\ [Next]_vars => Inv'
  BY <1>1, RoundStep, TypeStep
<1>4. Inv => Converges
  BY DEF RoundInv, Converges
<1> QED
  BY <1>2, <1>3, <1>4, TypeInit, PTL DEF Spec

(* So no netlist of that kind has a change that giving up would lose: what the
   comment at StateMachine.cpp:184 and doc/StateMachine.md:30 say of a failed
   evaluation is true of it, because there is none. *)
THEOREM LayeredNetlistsLoseNothing ==
  ASSUME Layered
  PROVE  Spec => []RetryLosesNothing
<1>1. Converges /\ NoLostUpdate => RetryLosesNothing
  BY DEF Converges, NoLostUpdate, RetryLosesNothing
<1> QED
  BY <1>1, LayeredNetlistsConverge, UpdatesAreNotLost, PTL

(* And the engine implements the promise on every schedule, without the
   exception of EngineImplementsPromise. *)
THEOREM LayeredNetlistsPropagate ==
  ASSUME Layered
  PROVE  Spec => Promise!Spec
BY LayeredNetlistsConverge, EngineImplementsPromise, PTL
==============================================================================

--------------------------- MODULE GpioInputProofs ---------------------------
(***************************************************************************)
(* What GpioInput keeps true for every configuration of the gate and for   *)
(* every interleaving of the two threads: its types; that a gated input    *)
(* comes to its idle level, and an open one to the level of its line; and  *)
(* that io never waits for an edge.                                        *)
(*                                                                         *)
(* The handlers are few, so their forms are part of the invariant.  While  *)
(* the input is gated and the line is not on its way to being opened, the  *)
(* last closure that sets the signal, of those that io has still to run,   *)
(* is one that sets an idle level, or there is none and the signal has it. *)
(* For an open input the same closure, or the last edge, brings the level  *)
(* of the line.                                                            *)
(***************************************************************************)
EXTENDS GpioInput, QueueLemmas

-----------------------------------------------------------------------------
(* The invariant. *)

IoHandler ==
  {<<ReadEvent>>} \cup {<<SetInitial(v)>> : v \in {0, 1}}
                  \cup {<<SetGated(v)>> : v \in IdleLevels}
OutputHandler == {<<Acquire>>, <<ReadInitial>>, <<Release>>}

(* What is left of a handler of io, or of the output thread, after a step. *)
IoRest == {<<>>, <<WaitAgain>>} \cup {<<OnEvent(v), WaitAgain>> : v \in {0, 1}}
OutputRest ==
  {<<>>, <<Open, PostInitial>>, <<PostInitial>>, <<Close, Gate>>, <<Gate>>}

IoRun == IoHandler \cup IoRest
OutputRun == OutputHandler \cup OutputRest

IoQueued == queue["io"] \in Seq(IoHandler)
OutputQueued == queue["output"] \in Seq(OutputHandler)
IoRuns == run["io"] \in IoRun
OutputRuns == run["output"] \in OutputRun

Handlers ==
  /\ queue \in [Threads -> Seq(IoHandler) \cup Seq(OutputHandler)]
  /\ run \in [Threads -> IoRun \cup OutputRun]
  /\ IoQueued /\ OutputQueued /\ IoRuns /\ OutputRuns

(* The variables that are not made of handlers. *)
Simple ==
  /\ on \in {Undefined, 0, 1}
  /\ out \in {Undefined, 0, 1}
  /\ enabled \in {0, 1}
  /\ gated \in BOOLEAN
  /\ line \in {"released", "low", "input", "closing"}
  /\ waits \in Nat
  /\ pin \in {0, 1}
  /\ edges \in Seq({0, 1})
  /\ {hurried, disturbed} \subseteq BOOLEAN

(* Gated, and Acquire has not requested the line yet. *)
Shut == gated /\ run["output"] # <<Open, PostInitial>>

Gatings == {<<SetGated(v)>> : v \in IdleLevels}
Setters == {<<SetInitial(v)>> : v \in {0, 1}} \cup Gatings
Edges == {<<OnEvent(v), WaitAgain>> : v \in {0, 1}}

(* The closure that sets the signal last, <<>> if none is under way. *)
Now == IF run["io"] \in Setters \cup Edges THEN run["io"] ELSE <<>>
LastSetter == LastIn(queue["io"], Setters, Now)

IsIdle == (GatedIdleHigh \/ GatedIdleLow => out \in IdleLevels) /\ enabled = 0
GoesIdle == LastSetter \in Gatings \/ (LastSetter = <<>> /\ IsIdle)

GateInv == Shut => ~Requested /\ GoesIdle

(* The output thread has the line in the state that it has come to. *)
LinePhase ==
  /\ line = IF run["output"] = <<Close, Gate>> THEN "closing"
            ELSE IF run["output"] = <<Gate>> THEN "released"
            ELSE IF gated /\ run["output"] # <<Open, PostInitial>> THEN GatedLine
            ELSE "input"
  /\ run["output"] = <<Open, PostInitial>> => gated
  /\ run["output"] \in {<<PostInitial>>, <<Close, Gate>>, <<Gate>>} => ~gated
  /\ waiting => line = "input"

(* The first level of the line is still to be read, or to be set. *)
Initials == {<<SetInitial(v)>> : v \in {0, 1}}
ToOpen ==
  \/ run["output"] \in {<<Open, PostInitial>>, <<PostInitial>>, <<ReadInitial>>}
  \/ <<ReadInitial>> \in ToSet(queue["output"])
Setting == run["io"] \in Initials \/ \E h \in Initials : h \in ToSet(queue["io"])

(* io is about to read an edge, or has just read one. *)
Reading == {<<ReadEvent>>, <<WaitAgain>>} \cup Edges
Reads == run["io"] \in Reading \/ <<ReadEvent>> \in ToSet(queue["io"])

(* What the signal will be when io has run what is under way. *)
LastLevel == IF LastSetter = <<>> THEN out ELSE LastSetter[1].value

(* An input that was opened undisturbed: somebody sees to its next edge, no
   edge comes while it is being opened, and the last edge, or without one the
   last closure, brings the level of the line. *)
OpenInv ==
  line = "input" /\ ~disturbed =>
    /\ waiting \/ (~gated /\ Reads)
    /\ edges # <<>> => ~ToOpen /\ ~Setting /\ Last(edges) = pin
    /\ ~ToOpen => /\ LastSetter \notin Gatings
                  /\ edges = <<>> => LastLevel = pin
                  /\ enabled = 1 \/ LastSetter \in Initials

(* An input whose gate last moved at rest.  While it is asked to open nothing
   else is under way; and one waits for an edge, or has one to read, or
   neither. *)
NothingElse == queue["io"] = <<>> /\ run["io"] = <<>> /\ ~waiting
AcquireAlone ==
  ~hurried =>
    /\ <<Acquire>> \in ToSet(queue["output"]) =>
         queue["output"] = <<<<Acquire>>>> /\ run["output"] = <<>> /\ NothingElse
    /\ run["output"] = <<Acquire>> => queue["output"] = <<>> /\ NothingElse

ToRead == run["io"] = <<ReadEvent>> \/ <<ReadEvent>> \in ToSet(queue["io"])
OneWait ==
  ~hurried =>
    /\ Once(queue["io"], <<ReadEvent>>)
    /\ waits <= 1
    /\ waiting => ~Reads
    /\ run["io"] \in Reading => <<ReadEvent>> \notin ToSet(queue["io"])
    /\ Requested /\ ToRead => edges # <<>>

Inv ==
  /\ Simple /\ Handlers /\ GateInv /\ LinePhase /\ OpenInv
  /\ AcquireAlone /\ OneWait

-----------------------------------------------------------------------------
(* The handlers. *)

(* The idle levels are levels. *)
LEMMA IdleLevelsAreLevels == IdleLevels \subseteq {0, 1} /\ IdleLevels # {}
BY ConstantsAssumption DEF IdleLevels

(* What the output thread runs, by its next instruction. *)
LEMMA OutputAt ==
  ASSUME OutputRuns
  PROVE  /\ At("output", "Acquire") => run["output"] = <<Acquire>>
         /\ At("output", "Open") => run["output"] = <<Open, PostInitial>>
         /\ At("output", "PostInitial") => run["output"] = <<PostInitial>>
         /\ At("output", "ReadInitial") => run["output"] = <<ReadInitial>>
         /\ At("output", "Release") => run["output"] = <<Release>>
         /\ At("output", "Close") => run["output"] = <<Close, Gate>>
         /\ At("output", "Gate") => run["output"] = <<Gate>>
BY ShortHandlers
   DEF OutputRuns, OutputRun, OutputHandler, OutputRest, At, Acquire, Open, PostInitial,
       ReadInitial, Release, Close, Gate

(* What io runs, by its next instruction. *)
LEMMA IoAt ==
  ASSUME IoRuns
  PROVE  /\ At("io", "ReadEvent") => run["io"] = <<ReadEvent>>
         /\ At("io", "WaitAgain") => run["io"] = <<WaitAgain>>
         /\ At("io", "SetInitial") =>
              \E v \in {0, 1} : run["io"] = <<SetInitial(v)>>
         /\ At("io", "SetGated") =>
              \E v \in IdleLevels : run["io"] = <<SetGated(v)>>
         /\ At("io", "OnEvent") =>
              \E v \in {0, 1} : run["io"] = <<OnEvent(v), WaitAgain>>
BY ShortHandlers
   DEF IoRuns, IoRun, IoHandler, IoRest, At, ReadEvent, WaitAgain, SetInitial, SetGated,
       OnEvent

-----------------------------------------------------------------------------
(* What the steps do to the handlers. *)

(* A thread continues with nothing, or what is left is one of its forms. *)
LEMMA IoContinues ==
  ASSUME Handlers, NEW more, Continue("io", more), UNCHANGED queue,
         more \o Tail(run["io"]) \in IoRun
  PROVE  /\ Handlers' /\ run'["io"] = more \o Tail(run["io"])
         /\ run'["output"] = run["output"]
BY DEF Handlers, Continue, Threads, IoQueued, OutputQueued, IoRuns, OutputRuns

(* So does the output thread. *)
LEMMA OutputContinues ==
  ASSUME Handlers, NEW more, Continue("output", more),
         more \o Tail(run["output"]) \in OutputRun
  PROVE  /\ run' \in [Threads -> IoRun \cup OutputRun] /\ OutputRuns' /\ IoRuns'
         /\ run'["output"] = more \o Tail(run["output"])
         /\ run'["io"] = run["io"]
BY DEF Handlers, Continue, Threads, IoQueued, OutputQueued, IoRuns, OutputRuns

(* Something is posted to a thread. *)
LEMMA IoPosted ==
  ASSUME Handlers, NEW h \in IoHandler, Post("io", h)
  PROVE  /\ queue' \in [Threads -> Seq(IoHandler) \cup Seq(OutputHandler)]
         /\ IoQueued' /\ OutputQueued'
         /\ queue'["io"] = Append(queue["io"], h)
         /\ queue'["output"] = queue["output"]
<1>1. Append(queue["io"], h) \in Seq(IoHandler)
  BY DEF Handlers, IoQueued
<1> QED
  BY <1>1 DEF Handlers, Post, Threads, IoQueued, OutputQueued

(* So is something to the output thread. *)
LEMMA OutputPosted ==
  ASSUME Handlers, NEW h \in OutputHandler, Post("output", h)
  PROVE  /\ queue' \in [Threads -> Seq(IoHandler) \cup Seq(OutputHandler)]
         /\ IoQueued' /\ OutputQueued'
         /\ queue'["output"] = Append(queue["output"], h)
         /\ queue'["io"] = queue["io"]
<1>1. Append(queue["output"], h) \in Seq(OutputHandler)
  BY DEF Handlers, OutputQueued
<1> QED
  BY <1>1 DEF Handlers, Post, Threads, IoQueued, OutputQueued

(* A thread takes its next handler. *)
LEMMA IoTakes ==
  ASSUME Handlers, TakeHandler("io")
  PROVE  /\ Handlers'
         /\ run["io"] = <<>> /\ queue["io"] # <<>>
         /\ run'["io"] = Head(queue["io"]) /\ queue'["io"] = Tail(queue["io"])
         /\ Head(queue["io"]) \in IoHandler
         /\ run'["output"] = run["output"] /\ queue'["output"] = queue["output"]
<1>1. Tail(queue["io"]) \in Seq(IoHandler) /\ Head(queue["io"]) \in IoHandler
  BY DEF Handlers, IoQueued, TakeHandler
<1> QED
  BY <1>1 DEF Handlers, TakeHandler, Threads, IoQueued, OutputQueued, IoRuns,
              OutputRuns, IoRun

(* So does the output thread. *)
LEMMA OutputTakes ==
  ASSUME Handlers, TakeHandler("output")
  PROVE  /\ Handlers'
         /\ run'["output"] \in OutputHandler
         /\ run["output"] = <<>>
         /\ run'["io"] = run["io"] /\ queue'["io"] = queue["io"]
<1>1. /\ Tail(queue["output"]) \in Seq(OutputHandler)
      /\ Head(queue["output"]) \in OutputHandler
  BY DEF Handlers, OutputQueued, TakeHandler
<1> QED
  BY <1>1 DEF Handlers, TakeHandler, Threads, IoQueued, OutputQueued, IoRuns,
              OutputRuns, OutputRun

-----------------------------------------------------------------------------
(* Types. *)

(* The handlers that are posted and the rests that are left. *)
LEMMA HandlersAreKnown ==
  /\ \A h \in {<<Acquire>>, <<Release>>, <<ReadInitial>>} : h \in OutputHandler
  /\ <<ReadEvent>> \in IoHandler
  /\ \A v \in {0, 1} : <<SetInitial(v)>> \in IoHandler
  /\ \A v \in IdleLevels : <<SetGated(v)>> \in IoHandler
  /\ \A r \in {<<>>, <<WaitAgain>>} : r \in IoRun
  /\ \A v \in {0, 1} : <<OnEvent(v), WaitAgain>> \in IoRun
  /\ \A r \in {<<>>, <<Open, PostInitial>>, <<PostInitial>>, <<Close, Gate>>,
                  <<Gate>>} : r \in OutputRun
BY DEF OutputHandler, IoHandler, IoRun, IoRest, OutputRun, OutputRest

(* The values of an instruction are levels. *)
LEMMA ValuesAreLevels ==
  ASSUME IoRuns,
         At("io", "SetInitial") \/ At("io", "SetGated") \/ At("io", "OnEvent")
  PROVE  Head(run["io"]).value \in {0, 1}
<1>1. PICK v \in {0, 1} : \/ run["io"] = <<SetInitial(v)>>
                          \/ run["io"] = <<SetGated(v)>>
                          \/ run["io"] = <<OnEvent(v), WaitAgain>>
  BY IoAt, IdleLevelsAreLevels
<1> QED
  BY <1>1, ShortHandlers DEF SetInitial, SetGated, OnEvent

(* One edge ends all the waits: as many handlers to read it are posted. *)
LEMMA ReadyPosts ==
  ASSUME Simple, Handlers, Ready
  PROVE  /\ ReadEvents \in Seq(IoHandler)
         /\ ToSet(ReadEvents) = {<<ReadEvent>>}
         /\ waits = 1 => ReadEvents = <<<<ReadEvent>>>>
         /\ queue' \in [Threads -> Seq(IoHandler) \cup Seq(OutputHandler)]
         /\ IoQueued' /\ OutputQueued'
         /\ queue'["io"] = queue["io"] \o ReadEvents
         /\ queue'["output"] = queue["output"]
         /\ ToSet(queue'["io"]) = ToSet(queue["io"]) \cup {<<ReadEvent>>}
<1>1. waits \in Nat /\ 1 \in 1 .. waits
  BY DEF Simple, Ready, waiting
<1>2. ReadEvents \in Seq(IoHandler) /\ DOMAIN ReadEvents = 1 .. waits
      /\ \A i \in 1 .. waits : ReadEvents[i] = <<ReadEvent>>
  BY <1>1, HandlersAreKnown DEF ReadEvents
<1>3. ToSet(ReadEvents) = {<<ReadEvent>>}
  BY <1>1, <1>2 DEF ToSet
<1>4. waits = 1 => ReadEvents = <<<<ReadEvent>>>>
  <2>1. SUFFICES ASSUME waits = 1 PROVE ReadEvents = <<<<ReadEvent>>>>
    OBVIOUS
  <2>2. ReadEvents = [i \in 1 .. 1 |-> <<ReadEvent>>]
    BY <2>1 DEF ReadEvents
  <2> DEFINE h == <<ReadEvent>>
  <2> HIDE DEF h
  <2>3. [i \in 1 .. 1 |-> h] = <<h>>
    OBVIOUS
  <2> QED
    BY <2>2, <2>3 DEF h
<1>5. queue["io"] \in Seq(IoHandler)
  BY DEF Handlers, IoQueued
<1>6. queue["io"] \o ReadEvents \in Seq(IoHandler)
  BY <1>2, <1>5
<1>7. /\ queue' \in [Threads -> Seq(IoHandler) \cup Seq(OutputHandler)]
      /\ IoQueued' /\ OutputQueued'
      /\ queue'["io"] = queue["io"] \o ReadEvents
      /\ queue'["output"] = queue["output"]
  BY <1>6 DEF Handlers, Ready, Threads, IoQueued, OutputQueued
<1>8. ToSet(queue'["io"]) = ToSet(queue["io"]) \cup {<<ReadEvent>>}
  BY <1>2, <1>3, <1>5, <1>7, ToSetConcat
<1> QED
  BY <1>2, <1>3, <1>4, <1>7, <1>8

(* Every step of the output thread keeps the types. *)
LEMMA OutputKeepsTypes ==
  ASSUME Simple, Handlers, OutputThread
  PROVE  Simple' /\ Handlers'
<1> USE DEF Handlers
<1>1. CASE Start("output")
  BY <1>1, OutputTakes DEF Start, Simple, signals, lineVars, histories
<1>2. CASE RunAcquire
  <2>1. run["output"] = <<Acquire>>
    BY <1>2, OutputAt DEF RunAcquire
  <2>2. UNCHANGED <<signals, pin, gated, histories, queue>>
    BY <1>2 DEF RunAcquire
  <2>3. Simple'
    <3>1. CASE gated
      BY <1>2, <2>2, <3>1 DEF RunAcquire, Simple, signals, histories
    <3>2. CASE ~gated
      BY <1>2, <2>2, <3>2 DEF RunAcquire, Simple, signals, lineVars, histories
    <3> QED
      BY <3>1, <3>2
  <2>4. PICK more \in {<<>>, <<Open, PostInitial>>} : Continue("output", more)
    BY <1>2 DEF RunAcquire
  <2>5. more \o Tail(run["output"]) \in OutputRun
    BY <2>1, <2>4, ShortHandlers, HandlersAreKnown
  <2> QED
    BY <2>2, <2>3, <2>4, <2>5, OutputContinues DEF IoQueued, OutputQueued
<1>3. CASE RunOpen
  <2>1. run["output"] = <<Open, PostInitial>> /\ Continue("output", <<>>)
    BY <1>3, OutputAt DEF RunOpen
  <2>2. Simple' /\ UNCHANGED queue
    BY <1>3 DEF RunOpen, Simple, signals, lineVars, histories
  <2>3. <<>> \o Tail(run["output"]) \in OutputRun
    BY <2>1, ShortHandlers, HandlersAreKnown
  <2> QED
    BY <2>1, <2>2, <2>3, OutputContinues DEF IoQueued, OutputQueued
<1>4. CASE RunPostInitial
  <2>1. run["output"] = <<PostInitial>> /\ Continue("output", <<>>)
    BY <1>4, OutputAt DEF RunPostInitial
  <2>2. Simple' /\ Post("output", <<ReadInitial>>)
    BY <1>4 DEF RunPostInitial, Simple, signals, lineVars, histories
  <2>3. <<>> \o Tail(run["output"]) \in OutputRun
    BY <2>1, ShortHandlers, HandlersAreKnown
  <2> QED
    BY <2>1, <2>2, <2>3, OutputContinues, OutputPosted, HandlersAreKnown
<1>5. CASE RunReadInitial
  <2>1. run["output"] = <<ReadInitial>> /\ Continue("output", <<>>)
    BY <1>5, OutputAt DEF RunReadInitial
  <2>2. Simple' /\ (UNCHANGED queue \/ Post("io", <<SetInitial(pin)>>))
    BY <1>5 DEF RunReadInitial, Simple, signals, lineVars, histories
  <2>3. <<>> \o Tail(run["output"]) \in OutputRun
    BY <2>1, ShortHandlers, HandlersAreKnown
  <2>4. <<SetInitial(pin)>> \in IoHandler
    BY HandlersAreKnown DEF Simple
  <2> QED
    BY <2>1, <2>2, <2>3, <2>4, OutputContinues, IoPosted DEF IoQueued, OutputQueued
<1>6. CASE RunRelease
  <2>1. run["output"] = <<Release>>
    BY <1>6, OutputAt DEF RunRelease
  <2>2. Simple' /\ UNCHANGED queue
    BY <1>6 DEF RunRelease, Simple, signals, lineVars, histories
  <2>3. PICK more \in {<<>>, <<Close, Gate>>} : Continue("output", more)
    BY <1>6 DEF RunRelease
  <2>4. more \o Tail(run["output"]) \in OutputRun
    BY <2>1, <2>3, ShortHandlers, HandlersAreKnown
  <2> QED
    BY <2>2, <2>3, <2>4, OutputContinues DEF IoQueued, OutputQueued
<1>7. CASE RunClose
  <2>1. run["output"] = <<Close, Gate>> /\ Continue("output", <<>>)
    BY <1>7, OutputAt DEF RunClose
  <2>2. Simple' /\ UNCHANGED queue
    BY <1>7 DEF RunClose, Simple, signals, lineVars, histories
  <2>3. <<>> \o Tail(run["output"]) \in OutputRun
    BY <2>1, ShortHandlers, HandlersAreKnown
  <2> QED
    BY <2>1, <2>2, <2>3, OutputContinues DEF IoQueued, OutputQueued
<1>8. CASE RunGate
  <2>1. run["output"] = <<Gate>> /\ Continue("output", <<>>)
    BY <1>8, OutputAt DEF RunGate
  <2>2. Simple'
    BY <1>8, ConstantsAssumption DEF RunGate, GatedLine, Simple, signals, lineVars, histories
  <2>3. <<>> \o Tail(run["output"]) \in OutputRun
    BY <2>1, ShortHandlers, HandlersAreKnown
  <2>4. PICK v \in IdleLevels : Post("io", <<SetGated(v)>>)
    BY <1>8 DEF RunGate
  <2>5. <<SetGated(v)>> \in IoHandler
    BY HandlersAreKnown
  <2> QED
    BY <2>1, <2>2, <2>3, <2>4, <2>5, OutputContinues, IoPosted
<1> QED
  BY <1>1, <1>2, <1>3, <1>4, <1>5, <1>6, <1>7, <1>8 DEF OutputThread

(* So does every step of io. *)
LEMMA IoKeepsTypes ==
  ASSUME Simple, Handlers, IoThread
  PROVE  Simple' /\ Handlers'
<1>1. IoRuns
  BY DEF Handlers
<1>2. CASE Start("io")
  BY <1>2, IoTakes DEF Start, Simple, signals, lineVars, histories
<1>3. CASE RunSetInitial \/ RunSetGated
  <2>1. UNCHANGED queue /\ Continue("io", <<>>)
    BY <1>3 DEF RunSetInitial, RunSetGated
  <2>2. Simple'
    BY <1>1, <1>3, ValuesAreLevels
       DEF RunSetInitial, RunSetGated, Simple, lineVars, histories
  <2>3. <<>> \o Tail(run["io"]) \in IoRun
    <3>1. PICK v \in {0, 1} : run["io"] \in {<<SetInitial(v)>>, <<SetGated(v)>>}
      BY <1>1, <1>3, IoAt, IdleLevelsAreLevels DEF RunSetInitial, RunSetGated
    <3>2. <<>> \o <<>> = <<>>
      BY ShortHandlers
    <3>3. Tail(run["io"]) = <<>>
      BY <3>1, ShortHandlers
    <3> QED
      BY <3>2, <3>3, HandlersAreKnown
  <2> QED
    BY <2>1, <2>2, <2>3, IoContinues
<1>4. CASE RunReadEvent
  <2>1. run["io"] = <<ReadEvent>> /\ UNCHANGED queue
    BY <1>1, <1>4, IoAt DEF RunReadEvent
  <2>2. Simple'
    BY <1>4 DEF RunReadEvent, Simple, signals, histories
  <2>3. PICK more \in {<<>>} \cup Edges : Continue("io", more)
    <3>1. CASE Requested
      <4>1. edges # <<>> /\ Continue("io", <<OnEvent(Head(edges)), WaitAgain>>)
        BY <1>4, <3>1 DEF RunReadEvent
      <4>2. Head(edges) \in {0, 1}
        BY <4>1 DEF Simple
      <4> QED
        BY <4>1, <4>2 DEF Edges
    <3>2. CASE ~Requested
      BY <1>4, <3>2 DEF RunReadEvent
    <3> QED
      BY <3>1, <3>2
  <2>4. more \o Tail(run["io"]) \in IoRun
    BY <2>1, <2>3, ShortHandlers, HandlersAreKnown DEF Edges
  <2> QED
    BY <2>1, <2>2, <2>3, <2>4, IoContinues
<1>5. CASE RunOnEvent
  <2>1. /\ UNCHANGED queue /\ Continue("io", <<>>)
        /\ \E v \in {0, 1} : run["io"] = <<OnEvent(v), WaitAgain>>
    BY <1>1, <1>5, IoAt DEF RunOnEvent
  <2>2. Simple'
    BY <1>1, <1>5, ValuesAreLevels DEF RunOnEvent, Simple, lineVars, histories
  <2>3. <<>> \o Tail(run["io"]) \in IoRun
    BY <2>1, ShortHandlers, HandlersAreKnown
  <2> QED
    BY <2>1, <2>2, <2>3, IoContinues
<1>6. CASE RunWaitAgain
  <2>1. /\ UNCHANGED queue /\ Continue("io", <<>>)
        /\ run["io"] = <<WaitAgain>>
    BY <1>1, <1>6, IoAt DEF RunWaitAgain
  <2>2. Simple'
    BY <1>6 DEF RunWaitAgain, WaitsAgain, Simple, signals, histories
  <2>3. <<>> \o Tail(run["io"]) \in IoRun
    BY <2>1, ShortHandlers, HandlersAreKnown
  <2> QED
    BY <2>1, <2>2, <2>3, IoContinues
<1> QED
  BY <1>2, <1>3, <1>4, <1>5, <1>6 DEF IoThread

(* And the kernel, the line and the gate. *)
LEMMA OthersKeepTypes ==
  ASSUME Simple, Handlers,
         Ready \/ PinMoves \/ \E v \in {Undefined, 0, 1} : Update(v)
  PROVE  Simple' /\ Handlers'
<1>1. CASE Ready
  <2>1. Simple' /\ UNCHANGED run
    BY <1>1 DEF Ready, Simple, signals, histories
  <2> QED
    BY <1>1, <2>1, ReadyPosts DEF Handlers, IoRuns, OutputRuns
<1>2. CASE PinMoves
  <2>1. UNCHANGED <<run, queue>>
    BY <1>2 DEF PinMoves
  <2>2. Handlers'
    BY <2>1 DEF Handlers, IoRuns, OutputRuns, IoQueued, OutputQueued
  <2>3. 1 - pin \in {0, 1} /\ pin' = 1 - pin
    BY <1>2 DEF PinMoves, Simple
  <2>4. edges' \in Seq({0, 1})
    BY <1>2, <2>3 DEF PinMoves, Simple
  <2>5. disturbed \/ Opening \in BOOLEAN
    BY DEF Opening, At, Simple
  <2>6. disturbed' \in BOOLEAN
    BY <1>2, <2>5, Zenon DEF PinMoves
  <2> QED
    BY <1>2, <2>2, <2>3, <2>4, <2>6 DEF PinMoves, Simple, signals
<1>3. CASE \E v \in {Undefined, 0, 1} : Update(v)
  <2>1. PICK v \in {Undefined, 0, 1} : Update(v)
    BY <1>3
  <2>2. hurried' \in BOOLEAN
    BY <2>1 DEF Update, AtRest, ThreadsIdle
  <2>3. Simple' /\ UNCHANGED run
    BY <2>1, <2>2 DEF Update, Simple, lineVars
  <2>4. \/ UNCHANGED queue
        \/ Post("output", <<Acquire>>) \/ Post("output", <<Release>>)
    BY <2>1 DEF Update
  <2> QED
    BY <2>3, <2>4, OutputPosted, HandlersAreKnown
       DEF Handlers, IoRuns, OutputRuns, IoQueued, OutputQueued
<1> QED
  BY <1>1, <1>2, <1>3

-----------------------------------------------------------------------------
(* The gate. *)

(* Nothing that the signal will end at has changed. *)
LEMMA IdleStays ==
  ASSUME GoesIdle, UNCHANGED <<out, enabled>>,
         queue'["io"] = queue["io"], run'["io"] = run["io"]
  PROVE  GoesIdle'
BY DEF GoesIdle, LastSetter, Now, IsIdle

(* The forms are distinct. *)
LEMMA SettersAreDistinct ==
  /\ \A v : <<SetInitial(v)>> \notin Gatings /\ <<SetInitial(v)>> \notin Edges
  /\ \A v : <<OnEvent(v), WaitAgain>> \notin Setters
  /\ \A h \in {<<>>, <<ReadEvent>>, <<WaitAgain>>} : h \notin Setters \cup Edges
  /\ \A e \in Edges : e # <<>>
<1>1. \A v, w : <<SetInitial(v)>> # <<SetGated(w)>>
  <2>1. \A v, w : SetInitial(v) # SetGated(w)
    BY DEF SetInitial, SetGated
  <2>2. \A v, w : <<SetInitial(v)>>[1] = SetInitial(v) /\ <<SetGated(w)>>[1] = SetGated(w)
    OBVIOUS
  <2> QED
    BY <2>1, <2>2
<1>2. \A v, w : Len(<<w>>) = 1 /\ Len(<<v, w>>) = 2 /\ <<v, w>> # <<>> /\ <<w>> # <<>>
  OBVIOUS
<1>3. \A w : WaitAgain # SetInitial(w) /\ WaitAgain # SetGated(w)
             /\ ReadEvent # SetInitial(w) /\ ReadEvent # SetGated(w)
  BY DEF SetInitial, SetGated, ReadEvent, WaitAgain
<1>4. \A v, w : <<v>>[1] = v
  OBVIOUS
<1> QED
  BY <1>1, <1>2, <1>3, <1>4 DEF Setters, Gatings, Edges

(* What is posted to read an edge does not set the signal. *)
LEMMA ReadySetsNothing ==
  ASSUME Simple, Handlers, Ready
  PROVE  LastSetter' = LastSetter
<1>1. /\ queue["io"] \in Seq(IoHandler) /\ ReadEvents \in Seq(IoHandler)
      /\ queue'["io"] = queue["io"] \o ReadEvents
      /\ UNCHANGED run
  BY ReadyPosts DEF Handlers, IoQueued, Ready
<1>2. \A e \in ToSet(ReadEvents) : e \notin Setters
  BY ReadyPosts, SettersAreDistinct
<1>3. LastIn(queue["io"] \o ReadEvents, Setters, Now) = LastIn(queue["io"], Setters, Now)
  BY <1>1, <1>2, LastInConcat
<1> QED
  BY <1>1, <1>3 DEF LastSetter, Now, Setters, Gatings, Edges

(* io has run the closure that sets the signal: the signal goes idle as it
   did before, or is idle if that was the last one, and of the right kind. *)
LEMMA SetterRuns ==
  ASSUME Handlers, GoesIdle,
         run["io"] \in Setters \cup Edges,
         queue'["io"] = queue["io"], run'["io"] \in {<<>>, <<WaitAgain>>},
         run["io"] \in Gatings => IsIdle'
  PROVE  GoesIdle'
<1>1. Now = run["io"] /\ Now' = <<>>
  BY SettersAreDistinct DEF Now
<1>2. Now # <<>>
  BY <1>1, SettersAreDistinct
<1>3. queue["io"] \in Seq(IoHandler)
  BY DEF Handlers, IoQueued
<1>4. CASE \A d : LastIn(queue["io"], Setters, d) = d
  <2>1. LastSetter = Now /\ LastIn(queue["io"], Setters, <<>>) = <<>>
    BY <1>4 DEF LastSetter
  <2>2. LastSetter' = <<>>
    BY <1>1, <2>1 DEF LastSetter
  <2>3. run["io"] \in Gatings
    BY <1>1, <1>2, <2>1 DEF GoesIdle
  <2> QED
    BY <2>2, <2>3 DEF GoesIdle
<1>5. CASE \E e \in Setters : \A d : LastIn(queue["io"], Setters, d) = e
  <2>1. PICK e \in Setters : \A d : LastIn(queue["io"], Setters, d) = e
    BY <1>5
  <2>2. LastSetter = e /\ LastSetter' = e
    BY <2>1 DEF LastSetter
  <2>3. e # <<>>
    BY SettersAreDistinct
  <2> QED
    BY <2>2, <2>3 DEF GoesIdle, Gatings
<1> QED
  BY <1>3, <1>4, <1>5, LastInDefault

(* A handler that io takes goes from the queue to Now. *)
LEMMA TakingStaysIdle ==
  ASSUME Handlers, GoesIdle, TakeHandler("io"), UNCHANGED <<out, enabled>>
  PROVE  GoesIdle'
<1> DEFINE q == queue["io"]
           h == Head(q)
<1>1. /\ run["io"] = <<>> /\ q # <<>> /\ h \in IoHandler
      /\ run'["io"] = h /\ queue'["io"] = Tail(q)
      /\ q \in Seq(IoHandler)
  BY IoTakes DEF Handlers, IoQueued
<1>2. Now = <<>>
  BY <1>1, SettersAreDistinct DEF Now
<1>3. Now' = IF h \in Setters THEN h ELSE <<>>
  <2>1. h \in Setters \/ h = <<ReadEvent>>
    BY <1>1 DEF IoHandler, Setters, Gatings
  <2> QED
    BY <1>1, <2>1, SettersAreDistinct DEF Now
<1>4. LastIn(q, Setters, <<>>) = LastIn(Tail(q), Setters, Now')
  BY <1>1, <1>3, LastInTail
<1>5. LastSetter' = LastSetter
  BY <1>1, <1>2, <1>4 DEF LastSetter, Setters, Gatings
<1> QED
  BY <1>5 DEF GoesIdle, IsIdle, Gatings

(* A step of io does not take a gated input away from its idle level. *)
LEMMA IoKeepsGate ==
  ASSUME Simple, Handlers, GateInv, IoThread
  PROVE  GateInv'
<1>1. IoRuns
  BY DEF Handlers
<1>2. /\ UNCHANGED <<gated, line>> /\ run'["output"] = run["output"]
  BY DEF IoThread, Start, TakeHandler, RunSetInitial, RunSetGated, RunReadEvent,
         RunOnEvent, RunWaitAgain, Continue, lineVars, Handlers, Threads
<1>3. SUFFICES ASSUME Shut PROVE GoesIdle'
  BY <1>2 DEF GateInv, Shut, Requested
<1>4. ~Requested /\ GoesIdle
  BY <1>3 DEF GateInv
<1>5. CASE Start("io")
  BY <1>4, <1>5, TakingStaysIdle DEF Start, signals
<1>6. CASE RunSetInitial
  <2>1. PICK v \in {0, 1} : run["io"] = <<SetInitial(v)>>
    BY <1>1, <1>6, IoAt DEF RunSetInitial
  <2>2. run["io"] \in Setters /\ run["io"] \notin Gatings
    BY <2>1, SettersAreDistinct DEF Setters
  <2>3. UNCHANGED queue /\ run'["io"] = <<>>
    BY <1>6, <2>1, ShortHandlers DEF RunSetInitial, Continue, Handlers, Threads
  <2> QED
    BY <1>4, <2>2, <2>3, SetterRuns
<1>7. CASE RunSetGated
  <2>1. PICK v \in IdleLevels : run["io"] = <<SetGated(v)>>
    BY <1>1, <1>7, IoAt DEF RunSetGated
  <2>2. run["io"] \in Setters
    BY <2>1 DEF Setters, Gatings
  <2>3. UNCHANGED queue /\ run'["io"] = <<>>
    BY <1>7, <2>1, ShortHandlers DEF RunSetGated, Continue, Handlers, Threads
  <2>4. IsIdle'
    BY <1>7, <2>1, ShortHandlers DEF RunSetGated, IsIdle, SetGated, IdleLevels
  <2> QED
    BY <1>4, <2>2, <2>3, <2>4, SetterRuns
<1>8. CASE RunReadEvent
  <2>1. run["io"] = <<ReadEvent>>
    BY <1>1, <1>8, IoAt DEF RunReadEvent
  <2>2. UNCHANGED queue /\ UNCHANGED <<out, enabled>> /\ Continue("io", <<>>)
    BY <1>4, <1>8 DEF RunReadEvent, signals
  <2>3. run'["io"] = <<>>
    BY <2>1, <2>2, ShortHandlers DEF Continue, Handlers, Threads
  <2>4. Now = <<>> /\ Now' = <<>>
    BY <2>1, <2>3, SettersAreDistinct DEF Now
  <2> QED
    BY <1>4, <2>2, <2>4 DEF GoesIdle, LastSetter, IsIdle
<1>9. CASE RunOnEvent
  <2>1. PICK v \in {0, 1} : run["io"] = <<OnEvent(v), WaitAgain>>
    BY <1>1, <1>9, IoAt DEF RunOnEvent
  <2>2. run["io"] \in Edges /\ run["io"] \notin Gatings
    BY <2>1, SettersAreDistinct DEF Edges, Setters
  <2>3. UNCHANGED queue /\ run'["io"] = <<WaitAgain>>
    BY <1>9, <2>1, ShortHandlers DEF RunOnEvent, Continue, Handlers, Threads
  <2> QED
    BY <1>4, <2>2, <2>3, SetterRuns
<1>10. CASE RunWaitAgain
  <2>1. run["io"] = <<WaitAgain>>
    BY <1>1, <1>10, IoAt DEF RunWaitAgain
  <2>2. UNCHANGED queue /\ UNCHANGED <<out, enabled>> /\ Continue("io", <<>>)
    BY <1>10 DEF RunWaitAgain, signals
  <2>3. run'["io"] = <<>>
    BY <2>1, <2>2, ShortHandlers DEF Continue, Handlers, Threads
  <2>4. Now = <<>> /\ Now' = <<>>
    BY <2>1, <2>3, SettersAreDistinct DEF Now
  <2> QED
    BY <1>4, <2>2, <2>4 DEF GoesIdle, LastSetter, IsIdle
<1> QED
  BY <1>5, <1>6, <1>7, <1>8, <1>9, <1>10 DEF IoThread

(* Neither does one of the output thread: what it posts last, when it gates
   the input, is an idle level. *)
LEMMA OutputKeepsGate ==
  ASSUME Simple, Handlers, GateInv, OutputThread
  PROVE  GateInv'
<1>1. OutputRuns
  BY DEF Handlers
<1>2. ASSUME UNCHANGED <<gated, signals>>, queue'["io"] = queue["io"],
             run'["io"] = run["io"], Requested' => Requested,
             gated => run["output"] # <<Open, PostInitial>>
      PROVE  GateInv'
  BY <1>2, IdleStays DEF GateInv, Shut, signals
<1>3. CASE Start("output")
  <2>1. UNCHANGED <<gated, signals, line>>
    BY <1>3 DEF Start, lineVars
  <2>2. /\ run["output"] = <<>> /\ run'["io"] = run["io"]
        /\ queue'["io"] = queue["io"]
    BY <1>3, OutputTakes DEF Start
  <2>3. <<>> # <<Open, PostInitial>>
    OBVIOUS
  <2> QED
    BY <1>2, <2>1, <2>2, <2>3 DEF Requested
<1>4. CASE RunAcquire
  <2>1. run["output"] = <<Acquire>>
    BY <1>1, <1>4, OutputAt DEF RunAcquire
  <2>2. CASE gated
    <3>1. Continue("output", <<Open, PostInitial>>)
      BY <1>4, <2>2 DEF RunAcquire
    <3>2. run'["output"] = <<Open, PostInitial>>
      BY <2>1, <3>1, ShortHandlers DEF Continue, Handlers, Threads
    <3> QED
      BY <3>2 DEF GateInv, Shut
  <2>3. CASE ~gated
    BY <1>4, <2>3 DEF RunAcquire, GateInv, Shut
  <2> QED
    BY <2>2, <2>3
<1>5. CASE RunOpen
  BY <1>5 DEF RunOpen, GateInv, Shut
<1>6. CASE RunPostInitial
  <2>1. run["output"] = <<PostInitial>>
    BY <1>1, <1>6, OutputAt DEF RunPostInitial
  <2>2. <<PostInitial>> # <<Open, PostInitial>>
    OBVIOUS
  <2> QED
    BY <1>2, <1>6, <2>1, <2>2
       DEF RunPostInitial, Post, Continue, Handlers, Threads, Requested, lineVars
<1>7. CASE RunReadInitial
  <2>1. run["output"] = <<ReadInitial>>
    BY <1>1, <1>7, OutputAt DEF RunReadInitial
  <2>2. <<ReadInitial>> # <<Open, PostInitial>>
    BY DEF ReadInitial
  <2>3. CASE gated
    BY <1>2, <1>7, <2>1, <2>2, <2>3
       DEF RunReadInitial, ReleasedBefore, Continue, Handlers, Threads, Requested, lineVars
  <2>4. CASE ~gated
    BY <1>7, <2>4 DEF RunReadInitial, GateInv, Shut
  <2> QED
    BY <2>3, <2>4
<1>8. CASE RunRelease
  <2>1. run["output"] = <<Release>>
    BY <1>1, <1>8, OutputAt DEF RunRelease
  <2>2. <<Release>> # <<Open, PostInitial>>
    BY DEF Release
  <2>3. CASE gated
    BY <1>2, <1>8, <2>1, <2>2, <2>3
       DEF RunRelease, Continue, Handlers, Threads, Requested, lineVars
  <2>4. CASE ~gated
    BY <1>8, <2>4 DEF RunRelease, GateInv, Shut
  <2> QED
    BY <2>3, <2>4
<1>9. CASE RunClose
  <2>1. run["output"] = <<Close, Gate>>
    BY <1>1, <1>9, OutputAt DEF RunClose
  <2>2. <<Close, Gate>> # <<Open, PostInitial>>
    BY DEF Close, Open
  <2> QED
    BY <1>2, <1>9, <2>1, <2>2
       DEF RunClose, Continue, Handlers, Threads, Requested
<1>10. CASE RunGate
  <2>1. PICK v \in IdleLevels : Post("io", <<SetGated(v)>>)
    BY <1>10 DEF RunGate
  <2>2. <<SetGated(v)>> \in IoHandler /\ <<SetGated(v)>> \in Gatings
    BY HandlersAreKnown DEF Gatings
  <2>3. queue'["io"] = Append(queue["io"], <<SetGated(v)>>)
    BY <2>1, <2>2, IoPosted
  <2>4. LastSetter' = <<SetGated(v)>>
    BY <2>2, <2>3, LastInAppend DEF LastSetter, Setters, Gatings, Handlers, IoQueued
  <2>5. GoesIdle'
    BY <2>2, <2>4 DEF GoesIdle, Gatings
  <2>6. ~Requested'
    BY <1>10 DEF RunGate, GatedLine, Requested
  <2> QED
    BY <2>5, <2>6 DEF GateInv
<1> QED
  BY <1>3, <1>4, <1>5, <1>6, <1>7, <1>8, <1>9, <1>10 DEF OutputThread

(* The edges that are still to be read are those of no request. *)
LEMMA OthersKeepGate ==
  ASSUME Simple, Handlers, GateInv,
         Ready \/ PinMoves \/ \E v \in {Undefined, 0, 1} : Update(v)
  PROVE  GateInv'
<1>1. UNCHANGED <<out, enabled, gated, line, run>>
  BY DEF Ready, PinMoves, Update, signals, lineVars
<1>2. SUFFICES ASSUME GoesIdle PROVE GoesIdle'
  BY <1>1 DEF GateInv, Shut, Requested
<1>3. CASE Ready
  <2>1. LastSetter' = LastSetter
    BY <1>3, ReadySetsNothing
  <2> QED
    BY <1>1, <1>2, <2>1 DEF GoesIdle, IsIdle, Gatings
<1>4. CASE PinMoves
  BY <1>1, <1>2, <1>4, IdleStays DEF PinMoves
<1>5. CASE \E v \in {Undefined, 0, 1} : Update(v)
  <2>1. queue'["io"] = queue["io"]
    BY <1>5 DEF Update, Post, Handlers, Threads
  <2> QED
    BY <1>1, <1>2, <2>1, IdleStays
<1> QED
  BY <1>3, <1>4, <1>5

-----------------------------------------------------------------------------
(* What each step does, by the form of the handler that it continues. *)

OutputGoes(from, to) ==
  run["output"] = from /\ run'["output"] = to /\ run'["io"] = run["io"]
IoGoes(from, to) ==
  run["io"] = from /\ run'["io"] = to /\ run'["output"] = run["output"]

OutputTakesNext ==
  /\ OutputGoes(<<>>, Head(queue["output"])) /\ queue["output"] # <<>>
  /\ queue'["output"] = Tail(queue["output"]) /\ queue'["io"] = queue["io"]
  /\ UNCHANGED <<gated, lineVars, disturbed>>
OutputSkips ==
  /\ \/ OutputGoes(<<Acquire>>, <<>>) /\ ~gated
     \/ OutputGoes(<<ReadInitial>>, <<>>) /\ gated
     \/ OutputGoes(<<Release>>, <<>>) /\ gated
  /\ UNCHANGED <<gated, lineVars, disturbed, queue>>
Acquires ==
  /\ OutputGoes(<<Acquire>>, <<Open, PostInitial>>) /\ gated
  /\ line' = "input" /\ edges' = <<>> /\ waits' = waits + 1
  /\ UNCHANGED <<gated, disturbed, queue>>
Ungates ==
  /\ OutputGoes(<<Open, PostInitial>>, <<PostInitial>>)
  /\ ~gated' /\ UNCHANGED <<lineVars, disturbed, queue>>
PostsInitial ==
  /\ OutputGoes(<<PostInitial>>, <<>>)
  /\ queue'["output"] = Append(queue["output"], <<ReadInitial>>)
  /\ queue'["io"] = queue["io"]
  /\ UNCHANGED <<gated, lineVars, disturbed>>
ReadsInitial ==
  /\ OutputGoes(<<ReadInitial>>, <<>>) /\ ~gated
  /\ queue'["io"] = Append(queue["io"], <<SetInitial(pin)>>)
  /\ queue'["output"] = queue["output"]
  /\ UNCHANGED <<gated, lineVars, disturbed>>
Releases ==
  /\ OutputGoes(<<Release>>, <<Close, Gate>>) /\ ~gated
  /\ line' = "closing" /\ waits' = 0
  /\ UNCHANGED <<gated, edges, disturbed, queue>>
Closes ==
  /\ OutputGoes(<<Close, Gate>>, <<Gate>>)
  /\ line' = "released" /\ edges' = <<>>
  /\ UNCHANGED <<gated, waits, disturbed, queue>>
Gates ==
  /\ OutputGoes(<<Gate>>, <<>>)
  /\ gated' /\ line' = GatedLine /\ ~disturbed'
  /\ \E v \in IdleLevels : queue'["io"] = Append(queue["io"], <<SetGated(v)>>)
  /\ queue'["output"] = queue["output"]
  /\ UNCHANGED <<waits, edges>>

(* The output thread. *)
LEMMA OutputSteps ==
  ASSUME Handlers, OutputThread
  PROVE  /\ UNCHANGED <<signals, pin, hurried>>
         /\ \/ OutputTakesNext \/ OutputSkips \/ Acquires \/ Ungates \/ PostsInitial
            \/ ReadsInitial \/ Releases \/ Closes \/ Gates
<1>1. UNCHANGED <<signals, pin, hurried>>
  BY DEF OutputThread, Start, RunAcquire, RunOpen, RunPostInitial, RunReadInitial,
         RunRelease, RunClose, RunGate, histories
<1>2. ASSUME NEW more, Continue("output", more)
      PROVE  OutputGoes(run["output"], more \o Tail(run["output"]))
  BY <1>2 DEF Continue, OutputGoes, Handlers, Threads
<1>3. OutputRuns
  BY DEF Handlers
<1>4. CASE Start("output")
  BY <1>4 DEF Start, TakeHandler, OutputTakesNext, OutputGoes, Handlers, Threads,
              histories
<1>5. CASE RunAcquire
  <2>1. run["output"] = <<Acquire>>
    BY <1>3, <1>5, OutputAt DEF RunAcquire
  <2>2. CASE gated
    <3>1. OutputGoes(<<Acquire>>, <<Open, PostInitial>>)
      BY <1>2, <1>5, <2>1, <2>2, ShortHandlers DEF RunAcquire
    <3> QED
      BY <1>5, <2>2, <3>1 DEF RunAcquire, Acquires, histories
  <2>3. CASE ~gated
    <3>1. OutputGoes(<<Acquire>>, <<>>)
      BY <1>2, <1>5, <2>1, <2>3, ShortHandlers DEF RunAcquire
    <3> QED
      BY <1>5, <2>3, <3>1 DEF RunAcquire, OutputSkips, histories
  <2> QED
    BY <2>2, <2>3
<1>6. CASE RunOpen
  <2>1. run["output"] = <<Open, PostInitial>>
    BY <1>3, <1>6, OutputAt DEF RunOpen
  <2>2. OutputGoes(<<Open, PostInitial>>, <<PostInitial>>)
    <3>1. <<>> \o Tail(<<Open, PostInitial>>) = <<PostInitial>>
      BY ShortHandlers
    <3> QED
      BY <1>2, <1>6, <2>1, <3>1 DEF RunOpen
  <2> QED
    BY <1>6, <2>2 DEF RunOpen, Ungates, histories
<1>7. CASE RunPostInitial
  <2>1. run["output"] = <<PostInitial>>
    BY <1>3, <1>7, OutputAt DEF RunPostInitial
  <2>2. OutputGoes(<<PostInitial>>, <<>>)
    BY <1>2, <1>7, <2>1, ShortHandlers DEF RunPostInitial
  <2>3. /\ queue'["output"] = Append(queue["output"], <<ReadInitial>>)
        /\ queue'["io"] = queue["io"]
    BY <1>7 DEF RunPostInitial, Post, Handlers, Threads
  <2> QED
    BY <1>7, <2>2, <2>3 DEF RunPostInitial, PostsInitial, histories
<1>8. CASE RunReadInitial
  <2>1. run["output"] = <<ReadInitial>>
    BY <1>3, <1>8, OutputAt DEF RunReadInitial
  <2>2. OutputGoes(<<ReadInitial>>, <<>>)
    BY <1>2, <1>8, <2>1, ShortHandlers DEF RunReadInitial
  <2>3. CASE gated
    BY <1>8, <2>2, <2>3 DEF RunReadInitial, ReleasedBefore, OutputSkips, histories
  <2>4. CASE ~gated
    <3>1. /\ queue'["io"] = Append(queue["io"], <<SetInitial(pin)>>)
          /\ queue'["output"] = queue["output"]
      BY <1>8, <2>4 DEF RunReadInitial, ReleasedBefore, Post, Handlers, Threads
    <3> QED
      BY <1>8, <2>2, <2>4, <3>1 DEF RunReadInitial, ReadsInitial, histories
  <2> QED
    BY <2>3, <2>4
<1>9. CASE RunRelease
  <2>1. run["output"] = <<Release>>
    BY <1>3, <1>9, OutputAt DEF RunRelease
  <2>2. CASE gated
    <3>1. OutputGoes(<<Release>>, <<>>)
      BY <1>2, <1>9, <2>1, <2>2, ShortHandlers DEF RunRelease
    <3> QED
      BY <1>9, <2>2, <3>1 DEF RunRelease, OutputSkips, histories
  <2>3. CASE ~gated
    <3>1. OutputGoes(<<Release>>, <<Close, Gate>>)
      BY <1>2, <1>9, <2>1, <2>3, ShortHandlers DEF RunRelease
    <3> QED
      BY <1>9, <2>3, <3>1 DEF RunRelease, Releases, histories
  <2> QED
    BY <2>2, <2>3
<1>10. CASE RunClose
  <2>1. run["output"] = <<Close, Gate>>
    BY <1>3, <1>10, OutputAt DEF RunClose
  <2>2. OutputGoes(<<Close, Gate>>, <<Gate>>)
    <3>1. <<>> \o Tail(<<Close, Gate>>) = <<Gate>>
      BY ShortHandlers
    <3> QED
      BY <1>2, <1>10, <2>1, <3>1 DEF RunClose
  <2> QED
    BY <1>10, <2>2 DEF RunClose, Closes, histories
<1>11. CASE RunGate
  <2>1. run["output"] = <<Gate>>
    BY <1>3, <1>11, OutputAt DEF RunGate
  <2>2. OutputGoes(<<Gate>>, <<>>)
    BY <1>2, <1>11, <2>1, ShortHandlers DEF RunGate
  <2>3. /\ \E v \in IdleLevels :
              queue'["io"] = Append(queue["io"], <<SetGated(v)>>)
        /\ queue'["output"] = queue["output"]
    BY <1>11 DEF RunGate, Post, Handlers, Threads
  <2> QED
    BY <1>11, <2>2, <2>3 DEF RunGate, Gates
<1> QED
  BY <1>1, <1>4, <1>5, <1>6, <1>7, <1>8, <1>9, <1>10, <1>11 DEF OutputThread

IoTakesNext ==
  /\ IoGoes(<<>>, Head(queue["io"])) /\ queue["io"] # <<>>
  /\ queue'["io"] = Tail(queue["io"]) /\ queue'["output"] = queue["output"]
  /\ UNCHANGED <<out, enabled, lineVars>>
Sets(h) ==
  /\ IoGoes(h, <<>>)
  /\ out' = h[1].value /\ enabled' = IF h \in Gatings THEN 0 ELSE 1
  /\ UNCHANGED <<lineVars, queue>>
IgnoresEvent ==
  /\ IoGoes(<<ReadEvent>>, <<>>) /\ ~Requested
  /\ UNCHANGED <<out, enabled, lineVars, queue>>
TakesEdge ==
  /\ IoGoes(<<ReadEvent>>, <<OnEvent(Head(edges)), WaitAgain>>)
  /\ Requested /\ edges # <<>> /\ edges' = Tail(edges)
  /\ UNCHANGED <<out, enabled, line, waits, queue>>
SetsEdge(v) ==
  /\ IoGoes(<<OnEvent(v), WaitAgain>>, <<WaitAgain>>)
  /\ out' = v
  /\ UNCHANGED <<enabled, lineVars, queue>>
Rewaits ==
  /\ IoGoes(<<WaitAgain>>, <<>>)
  /\ waits' = IF ~gated /\ line = "input" THEN waits + 1 ELSE waits
  /\ UNCHANGED <<out, enabled, line, edges, queue>>

(* io. *)
LEMMA IoSteps ==
  ASSUME Handlers, IoThread
  PROVE  /\ UNCHANGED <<gated, pin, histories>>
         /\ \/ IoTakesNext \/ IgnoresEvent \/ TakesEdge \/ Rewaits
            \/ \E h \in Setters : Sets(h)
            \/ \E v \in {0, 1} : SetsEdge(v)
<1>1. UNCHANGED <<gated, pin, histories>>
  BY DEF IoThread, Start, RunSetInitial, RunSetGated, RunReadEvent, RunOnEvent,
         RunWaitAgain
<1>2. ASSUME NEW more, Continue("io", more)
      PROVE  IoGoes(run["io"], more \o Tail(run["io"]))
  BY <1>2 DEF Continue, IoGoes, Handlers, Threads
<1>3. IoRuns
  BY DEF Handlers
<1>4. CASE Start("io")
  BY <1>4 DEF Start, TakeHandler, IoTakesNext, IoGoes, Handlers, Threads, signals
<1>5. CASE RunSetInitial
  <2>1. PICK v \in {0, 1} : run["io"] = <<SetInitial(v)>>
    BY <1>3, <1>5, IoAt DEF RunSetInitial
  <2>2. IoGoes(<<SetInitial(v)>>, <<>>)
    BY <1>2, <1>5, <2>1, ShortHandlers DEF RunSetInitial
  <2>3. <<SetInitial(v)>> \in Setters /\ <<SetInitial(v)>> \notin Gatings
    BY SettersAreDistinct DEF Setters
  <2>4. out' = <<SetInitial(v)>>[1].value
    BY <1>5, <2>1 DEF RunSetInitial
  <2> QED
    BY <1>5, <2>2, <2>3, <2>4 DEF RunSetInitial, Sets
<1>6. CASE RunSetGated
  <2>1. PICK v \in IdleLevels : run["io"] = <<SetGated(v)>>
    BY <1>3, <1>6, IoAt DEF RunSetGated
  <2>2. IoGoes(<<SetGated(v)>>, <<>>)
    BY <1>2, <1>6, <2>1, ShortHandlers DEF RunSetGated
  <2>3. <<SetGated(v)>> \in Setters /\ <<SetGated(v)>> \in Gatings
    BY DEF Setters, Gatings
  <2>4. out' = <<SetGated(v)>>[1].value
    BY <1>6, <2>1 DEF RunSetGated
  <2> QED
    BY <1>6, <2>2, <2>3, <2>4 DEF RunSetGated, Sets
<1>7. CASE RunReadEvent
  <2>1. run["io"] = <<ReadEvent>>
    BY <1>3, <1>7, IoAt DEF RunReadEvent
  <2>2. CASE ~Requested
    <3>1. IoGoes(<<ReadEvent>>, <<>>)
      BY <1>2, <1>7, <2>1, <2>2, ShortHandlers DEF RunReadEvent
    <3> QED
      BY <1>7, <2>2, <3>1 DEF RunReadEvent, IgnoresEvent, signals, lineVars
  <2>3. CASE Requested
    <3>1. IoGoes(<<ReadEvent>>, <<OnEvent(Head(edges)), WaitAgain>>)
      BY <1>2, <1>7, <2>1, <2>3, ShortHandlers DEF RunReadEvent
    <3> QED
      BY <1>7, <2>3, <3>1 DEF RunReadEvent, TakesEdge, signals
  <2> QED
    BY <2>2, <2>3
<1>8. CASE RunOnEvent
  <2>1. PICK v \in {0, 1} : run["io"] = <<OnEvent(v), WaitAgain>>
    BY <1>3, <1>8, IoAt DEF RunOnEvent
  <2>2. IoGoes(<<OnEvent(v), WaitAgain>>, <<WaitAgain>>)
    <3>1. <<>> \o Tail(<<OnEvent(v), WaitAgain>>) = <<WaitAgain>>
      BY ShortHandlers
    <3> QED
      BY <1>2, <1>8, <2>1, <3>1 DEF RunOnEvent
  <2>3. out' = v
    BY <1>8, <2>1, ShortHandlers DEF RunOnEvent, OnEvent
  <2> QED
    BY <1>8, <2>2, <2>3 DEF RunOnEvent, SetsEdge
<1>9. CASE RunWaitAgain
  <2>1. run["io"] = <<WaitAgain>>
    BY <1>3, <1>9, IoAt DEF RunWaitAgain
  <2>2. IoGoes(<<WaitAgain>>, <<>>)
    BY <1>2, <1>9, <2>1, ShortHandlers DEF RunWaitAgain
  <2> QED
    BY <1>9, <2>2 DEF RunWaitAgain, WaitsAgain, Rewaits, signals
<1> QED
  BY <1>1, <1>4, <1>5, <1>6, <1>7, <1>8, <1>9 DEF IoThread

-----------------------------------------------------------------------------
(* The open input. *)

(* The form that a handler has, by its first instruction. *)
Tag(h) == IF h = <<>> THEN "none" ELSE h[1].op

(* No two forms have the same. *)
LEMMA Tags ==
  /\ Tag(<<>>) = "none"
  /\ Tag(<<Acquire>>) = "Acquire" /\ Tag(<<ReadInitial>>) = "ReadInitial"
  /\ Tag(<<Release>>) = "Release" /\ Tag(<<Open, PostInitial>>) = "Open"
  /\ Tag(<<PostInitial>>) = "PostInitial" /\ Tag(<<Close, Gate>>) = "Close"
  /\ Tag(<<Gate>>) = "Gate" /\ Tag(<<ReadEvent>>) = "ReadEvent"
  /\ Tag(<<WaitAgain>>) = "WaitAgain"
  /\ \A v : Tag(<<SetInitial(v)>>) = "SetInitial" /\ Tag(<<SetGated(v)>>) = "SetGated"
  /\ \A v : Tag(<<OnEvent(v), WaitAgain>>) = "OnEvent"
<1>1. \A a, b : <<a>> # <<>> /\ <<a>>[1] = a /\ <<a, b>> # <<>> /\ <<a, b>>[1] = a
  OBVIOUS
<1> QED
  BY <1>1 DEF Tag, Acquire, ReadInitial, Release, Open, PostInitial, Close, Gate,
              ReadEvent, WaitAgain, SetInitial, SetGated, OnEvent

(* Which handlers are posted to the output thread. *)
LEMMA OutputHandlerTags ==
  ASSUME NEW h \in OutputHandler
  PROVE  Tag(h) \in {"Acquire", "ReadInitial", "Release"}
BY Tags DEF OutputHandler

(* The output thread keeps the line as far as it has come with it. *)
LEMMA OutputKeepsPhase ==
  ASSUME Simple, Handlers, LinePhase, OutputThread
  PROVE  LinePhase'
<1> USE Tags
<1>1. CASE OutputTakesNext
  <2>1. Tag(run'["output"]) \in {"Acquire", "ReadInitial", "Release"}
    BY <1>1, OutputHandlerTags
       DEF OutputTakesNext, OutputGoes, Handlers, OutputQueued
  <2> QED
    BY <1>1, <2>1 DEF OutputTakesNext, OutputGoes, LinePhase, lineVars, waiting
<1>2. CASE OutputSkips
  BY <1>2 DEF OutputSkips, OutputGoes, LinePhase, lineVars, waiting
<1>3. CASE Acquires
  BY <1>3 DEF Acquires, OutputGoes, LinePhase, waiting
<1>4. CASE Ungates
  BY <1>4 DEF Ungates, OutputGoes, LinePhase, lineVars, waiting
<1>5. CASE PostsInitial
  BY <1>5 DEF PostsInitial, OutputGoes, LinePhase, lineVars, waiting
<1>6. CASE ReadsInitial
  BY <1>6 DEF ReadsInitial, OutputGoes, LinePhase, lineVars, waiting
<1>7. CASE Releases
  BY <1>7 DEF Releases, OutputGoes, LinePhase, waiting
<1>8. CASE Closes
  BY <1>8 DEF Closes, OutputGoes, LinePhase, waiting
<1>9. CASE Gates
  BY <1>9 DEF Gates, OutputGoes, LinePhase, GatedLine, waiting
<1> QED
  BY <1>1, <1>2, <1>3, <1>4, <1>5, <1>6, <1>7, <1>8, <1>9, OutputSteps

(* So does everything else, which does not touch it. *)
LEMMA OthersKeepPhase ==
  ASSUME Simple, Handlers, LinePhase,
         IoThread \/ Ready \/ PinMoves \/ \E v \in {Undefined, 0, 1} : Update(v)
  PROVE  LinePhase'
<1>1. /\ UNCHANGED <<gated, line>> /\ run'["output"] = run["output"]
      /\ waiting' => waiting \/ line = "input"
  <2>1. CASE IoThread
    <3>1. UNCHANGED gated
      BY <2>1, IoSteps
    <3>2. CASE IoTakesNext \/ IgnoresEvent \/ TakesEdge
      BY <3>1, <3>2 DEF IoTakesNext, IgnoresEvent, TakesEdge, IoGoes, lineVars, waiting
    <3>5. CASE Rewaits
      BY <3>1, <3>5 DEF Rewaits, IoGoes, waiting
    <3>3. CASE \E h \in Setters : Sets(h)
      BY <3>1, <3>3 DEF Sets, IoGoes, lineVars, waiting
    <3>4. CASE \E v \in {0, 1} : SetsEdge(v)
      BY <3>1, <3>4 DEF SetsEdge, IoGoes, lineVars, waiting
    <3> QED
      BY <2>1, <3>2, <3>3, <3>4, <3>5, IoSteps
  <2>2. CASE Ready \/ PinMoves \/ \E v \in {Undefined, 0, 1} : Update(v)
    BY <2>2 DEF Ready, PinMoves, Update, lineVars, waiting
  <2> QED
    BY <2>1, <2>2
<1> QED
  BY <1>1 DEF LinePhase

(* The line moves while it is being opened: that disturbs it. *)
LEMMA OpeningIsNoticed ==
  ASSUME Handlers, ToOpen \/ Setting
  PROVE  Opening
<1>1. \A a, b : /\ <<a>> # <<>> /\ Head(<<a>>) = a
                /\ <<a, b>> # <<>> /\ Head(<<a, b>>) = a
  OBVIOUS
<1>2. CASE run["output"] \in {<<Open, PostInitial>>, <<PostInitial>>, <<ReadInitial>>}
  BY <1>1, <1>2 DEF Opening, At, Open, PostInitial, ReadInitial
<1>3. CASE <<ReadInitial>> \in ToSet(queue["output"])
  BY <1>3 DEF Opening, ToSet
<1>4. CASE run["io"] \in Initials
  BY <1>1, <1>4 DEF Opening, At, Initials, SetInitial
<1>5. CASE \E h \in Initials : h \in ToSet(queue["io"])
  BY <1>1, <1>5 DEF Opening, ToSet, Initials, SetInitial
<1> QED
  BY <1>2, <1>3, <1>4, <1>5 DEF ToOpen, Setting

(* The setters are the closures of the first level and those of the gate. *)
LEMMA SettersAre == Setters = Initials \cup Gatings
BY DEF Setters, Initials

(* A handler that io takes is still the same closure. *)
LEMMA TakingKeepsLast ==
  ASSUME Handlers, IoTakesNext
  PROVE  LastSetter' = LastSetter /\ (Setting' <=> Setting) /\ (Reads' <=> Reads)
<1> DEFINE q == queue["io"]
           h == Head(q)
<1>1. /\ run["io"] = <<>> /\ q # <<>> /\ h \in IoHandler
      /\ run'["io"] = h /\ queue'["io"] = Tail(q)
      /\ q \in Seq(IoHandler)
  BY DEF Handlers, IoQueued, IoTakesNext, IoGoes
<1>2. Now = <<>>
  BY <1>1, SettersAreDistinct DEF Now
<1>3. h \in Setters \/ h = <<ReadEvent>>
  BY <1>1 DEF IoHandler, Setters, Gatings
<1>4. Now' = IF h \in Setters THEN h ELSE <<>>
  BY <1>1, <1>3, SettersAreDistinct DEF Now, Setters, Gatings
<1>5. LastIn(q, Setters, <<>>) = LastIn(Tail(q), Setters, Now')
  BY <1>1, <1>4, LastInTail
<1>6. LastSetter' = LastSetter
  BY <1>1, <1>2, <1>5 DEF LastSetter, Setters, Gatings
<1>7. ToSet(q) = {h} \cup ToSet(Tail(q))
  BY <1>1, ToSetTail
<1>8. <<>> \notin Initials /\ <<>> \notin Reading
  BY Tags, SettersAreDistinct DEF Initials, Reading
<1>9. Setting' <=> Setting
  BY <1>1, <1>7, <1>8 DEF Setting, Initials
<1>10. h \in Reading <=> h = <<ReadEvent>>
  BY <1>3, Tags, SettersAre DEF Reading, Initials, Gatings, Edges
<1>11. Reads' <=> Reads
  BY <1>1, <1>7, <1>8, <1>10 DEF Reads, Reading, Edges
<1> QED
  BY <1>6, <1>9, <1>11

(* A closure that has been run is the last one no more, unless another was. *)
LEMMA DoneSetter ==
  ASSUME Handlers, run["io"] \in Setters \cup Edges,
         run'["io"] \in {<<>>, <<WaitAgain>>}, queue'["io"] = queue["io"]
  PROVE  \/ LastSetter' = LastSetter /\ LastSetter \in Setters
         \/ LastSetter = run["io"] /\ LastSetter' = <<>>
<1>1. Now = run["io"] /\ Now' = <<>>
  BY SettersAreDistinct DEF Now
<1>2. queue["io"] \in Seq(IoHandler)
  BY DEF Handlers, IoQueued
<1>3. CASE \A d : LastIn(queue["io"], Setters, d) = d
  BY <1>1, <1>3 DEF LastSetter, Setters, Gatings
<1>4. CASE \E e \in Setters : \A d : LastIn(queue["io"], Setters, d) = e
  BY <1>1, <1>4 DEF LastSetter, Setters, Gatings
<1> QED
  BY <1>2, <1>3, <1>4, LastInDefault

(* No setter comes after an edge that io reads while none is opening. *)
LEMMA EdgeIsLast ==
  ASSUME Simple, Handlers, ~Setting, LastSetter \notin Gatings, TakesEdge
  PROVE  LastSetter = <<>> /\ LastSetter' = run'["io"]
<1>1. Head(edges) \in {0, 1}
  BY DEF Simple, TakesEdge
<1>2. run["io"] = <<ReadEvent>> /\ run'["io"] \in Edges /\ queue'["io"] = queue["io"]
  BY <1>1 DEF TakesEdge, IoGoes, Edges
<1>3. Now = <<>> /\ Now' = run'["io"]
  BY <1>2, SettersAreDistinct DEF Now, Setters, Gatings, Edges
<1>4. queue["io"] \in Seq(IoHandler)
  BY DEF Handlers, IoQueued
<1>5. CASE \A d : LastIn(queue["io"], Setters, d) = d
  BY <1>2, <1>3, <1>5 DEF LastSetter, Setters, Gatings
<1>6. CASE \E e \in Setters : /\ e \in ToSet(queue["io"])
                              /\ \A d : LastIn(queue["io"], Setters, d) = e
  BY <1>6, SettersAre DEF LastSetter, Setting
<1> QED
  BY <1>4, <1>5, <1>6, LastInListed

(* The output thread opens and closes the line. *)
LEMMA OutputKeepsOpen ==
  ASSUME Simple, Handlers, LinePhase, OpenInv, OutputThread
  PROVE  OpenInv'
<1>1. UNCHANGED <<out, enabled, pin>>
  BY OutputSteps DEF signals
<1>2. run'["io"] = run["io"]
  BY OutputSteps
     DEF OutputTakesNext, OutputSkips, Acquires, Ungates, PostsInitial, ReadsInitial,
         Releases, Closes, Gates, OutputGoes
<1>3. SUFFICES ASSUME line' = "input", ~disturbed' PROVE OpenInv'
  BY DEF OpenInv
<1>4. ASSUME queue'["io"] = queue["io"]
      PROVE  /\ LastSetter' = LastSetter /\ LastLevel' = LastLevel
             /\ Setting' = Setting /\ Reads' = Reads
  BY <1>1, <1>2, <1>4
     DEF LastSetter, Now, LastLevel, Setting, Reads, Setters, Gatings, Edges, Initials,
         Reading
<1>5. CASE OutputTakesNext
  <2>1. /\ queue["output"] \in Seq(OutputHandler) /\ queue["output"] # <<>>
        /\ run'["output"] = Head(queue["output"]) /\ run["output"] = <<>>
        /\ queue'["output"] = Tail(queue["output"])
    BY <1>5 DEF OutputTakesNext, OutputGoes, Handlers, OutputQueued
  <2>2. Tag(run'["output"]) \in {"Acquire", "ReadInitial", "Release"}
    BY <2>1, OutputHandlerTags
  <2>3. ToSet(queue["output"]) = {run'["output"]} \cup ToSet(queue'["output"])
    BY <2>1, ToSetTail
  <2>4. ToOpen' <=> ToOpen
    BY <2>1, <2>2, <2>3, Tags DEF ToOpen
  <2> QED
    BY <1>1, <1>3, <1>4, <1>5, <2>4 DEF OutputTakesNext, OpenInv, lineVars, waiting
<1>6. CASE OutputSkips
  <2>1. run["output"] = <<Acquire>> /\ run'["output"] = <<>>
    BY <1>3, <1>6, Tags DEF OutputSkips, OutputGoes, LinePhase, GatedLine, lineVars
  <2>2. ToOpen' <=> ToOpen
    BY <1>6, <2>1, Tags DEF OutputSkips, ToOpen
  <2> QED
    BY <1>1, <1>3, <1>4, <1>6, <2>2 DEF OutputSkips, OpenInv, lineVars, waiting
<1>7. CASE Acquires
  BY <1>7 DEF Acquires, OutputGoes, OpenInv, ToOpen, waiting, Simple
<1>8. CASE Ungates
  <2>1. ToOpen /\ ToOpen' /\ gated
    BY <1>8 DEF Ungates, OutputGoes, ToOpen, LinePhase
  <2> QED
    BY <1>1, <1>3, <1>8, <2>1 DEF Ungates, OpenInv, lineVars, waiting
<1>9. CASE PostsInitial
  <2>1. ToOpen
    BY <1>9 DEF PostsInitial, OutputGoes, ToOpen
  <2>2. <<ReadInitial>> \in ToSet(queue'["output"])
    BY <1>9, ToSetAppend, HandlersAreKnown DEF PostsInitial, Handlers, OutputQueued
  <2> QED
    BY <1>1, <1>3, <1>4, <1>9, <2>1, <2>2
       DEF PostsInitial, OpenInv, lineVars, ToOpen, waiting
<1>10. CASE ReadsInitial
  <2>1. ToOpen
    BY <1>10 DEF ReadsInitial, OutputGoes, ToOpen
  <2>2. edges = <<>> /\ (waiting' <=> waiting) /\ edges' = edges /\ ~gated /\ ~gated'
    BY <1>3, <1>10, <2>1 DEF ReadsInitial, OpenInv, lineVars, waiting
  <2>3. pin \in {0, 1} /\ <<SetInitial(pin)>> \in Initials
    BY DEF Simple, Initials
  <2>4. /\ queue["io"] \in Seq(IoHandler) /\ <<SetInitial(pin)>> \in IoHandler
        /\ queue'["io"] = Append(queue["io"], <<SetInitial(pin)>>)
    BY <1>10, <2>3, HandlersAreKnown DEF ReadsInitial, Handlers, IoQueued
  <2>5. LastSetter' = <<SetInitial(pin)>>
    BY <2>3, <2>4, LastInAppend, SettersAre DEF LastSetter, Setters, Gatings
  <2>6. LastLevel' = pin
    <3>1. <<SetInitial(pin)>> # <<>> /\ <<SetInitial(pin)>>[1].value = pin
      BY DEF SetInitial
    <3> QED
      BY <2>5, <3>1 DEF LastLevel
  <2>7. Reads => Reads'
    BY <1>2, <2>4, ToSetAppend DEF Reads, Reading, Edges
  <2>8. waiting \/ Reads
    BY <1>3, <1>10 DEF ReadsInitial, OpenInv, lineVars
  <2>9. LastSetter' \notin Gatings /\ LastSetter' \in Initials
    BY <2>3, <2>5, SettersAreDistinct
  <2> QED
    BY <1>1, <2>2, <2>6, <2>7, <2>8, <2>9 DEF OpenInv, Gatings, Initials
<1>11. CASE Releases \/ Closes \/ Gates
  BY <1>3, <1>11 DEF Releases, Closes, Gates, GatedLine
<1> QED
  BY <1>5, <1>6, <1>7, <1>8, <1>9, <1>10, <1>11, OutputSteps

(* io sets the signal and reads the edges. *)
LEMMA IoKeepsOpen ==
  ASSUME Simple, Handlers, LinePhase, OpenInv, IoThread
  PROVE  OpenInv'
<1>1. UNCHANGED <<gated, pin, disturbed>>
  BY IoSteps DEF histories
<1>2. /\ run'["output"] = run["output"] /\ queue'["output"] = queue["output"]
      /\ line' = line
  <2>1. CASE IoTakesNext \/ IgnoresEvent \/ TakesEdge \/ Rewaits
    BY <2>1 DEF IoTakesNext, IgnoresEvent, TakesEdge, Rewaits, IoGoes, lineVars
  <2>2. CASE \E h \in Setters : Sets(h)
    BY <2>2 DEF Sets, IoGoes, lineVars
  <2>3. CASE \E v \in {0, 1} : SetsEdge(v)
    BY <2>3 DEF SetsEdge, IoGoes, lineVars
  <2> QED
    BY <2>1, <2>2, <2>3, IoSteps
<1>3. ToOpen' <=> ToOpen
  BY <1>2 DEF ToOpen
<1>4. SUFFICES ASSUME line = "input", ~disturbed PROVE OpenInv'
  BY <1>1, <1>2 DEF OpenInv
<1>5. /\ waiting \/ (~gated /\ Reads)
      /\ edges # <<>> => ~ToOpen /\ ~Setting /\ Last(edges) = pin
      /\ ~ToOpen => /\ LastSetter \notin Gatings
                    /\ edges = <<>> => LastLevel = pin
                    /\ enabled = 1 \/ LastSetter \in Initials
  BY <1>4 DEF OpenInv
<1>6. ASSUME /\ waiting' \/ (~gated /\ Reads')
             /\ edges' # <<>> => ~ToOpen /\ ~Setting' /\ Last(edges') = pin
             /\ ~ToOpen => /\ LastSetter' \notin Gatings
                           /\ edges' = <<>> => LastLevel' = pin
                           /\ enabled' = 1 \/ LastSetter' \in Initials
      PROVE  OpenInv'
  BY <1>1, <1>3, <1>6 DEF OpenInv, Gatings, Initials
<1>7. CASE IoTakesNext
  <2>1. /\ LastSetter' = LastSetter /\ (Setting' <=> Setting)
        /\ (Reads' <=> Reads)
    BY <1>7, TakingKeepsLast
  <2>2. UNCHANGED <<out, enabled, waits, edges>> /\ (waiting' <=> waiting)
    BY <1>7 DEF IoTakesNext, lineVars, waiting
  <2>3. LastLevel' = LastLevel
    BY <2>1, <2>2 DEF LastLevel
  <2> QED
    BY <1>5, <1>6, <2>1, <2>2, <2>3
<1>8. ASSUME NEW h \in Setters, Sets(h) PROVE OpenInv'
  <2>1. /\ run["io"] = h /\ run'["io"] = <<>> /\ queue'["io"] = queue["io"]
        /\ out' = h[1].value /\ enabled' = IF h \in Gatings THEN 0 ELSE 1
        /\ UNCHANGED edges /\ (waiting' <=> waiting)
    BY <1>8 DEF Sets, IoGoes, lineVars, waiting
  <2>2. \/ LastSetter' = LastSetter /\ LastSetter \in Setters
        \/ LastSetter = h /\ LastSetter' = <<>>
    BY <2>1, DoneSetter
  <2>3. h # <<>> /\ <<>> \notin Setters
    BY SettersAreDistinct
  <2>4. Reads' = Reads /\ (Setting' => Setting)
    <3>1. h \notin Reading /\ <<>> \notin Reading /\ <<>> \notin Initials
      BY <2>3, Tags, SettersAre DEF Reading, Edges, Initials, Gatings
    <3> QED
      BY <2>1, <3>1 DEF Reads, Setting, Initials, Reading, Edges
  <2>5. LastLevel = h[1].value \/ LastSetter # h
    BY <2>3 DEF LastLevel
  <2>6. CASE LastSetter' = LastSetter /\ LastSetter \in Setters
    <3>1. LastLevel' = LastLevel
      BY <2>3, <2>6 DEF LastLevel
    <3> QED
      BY <1>5, <1>6, <2>1, <2>4, <2>6, <3>1, SettersAre
  <2>7. CASE LastSetter = h /\ LastSetter' = <<>>
    <3>1. LastLevel' = LastLevel
      BY <2>1, <2>5, <2>7 DEF LastLevel
    <3>2. <<>> \notin Gatings
      BY <2>3, SettersAre
    <3> QED
      BY <1>5, <1>6, <2>1, <2>4, <2>7, <3>1, <3>2
  <2> QED
    BY <2>2, <2>6, <2>7
<1>9. CASE IgnoresEvent
  BY <1>4, <1>9 DEF IgnoresEvent, Requested
<1>10. CASE TakesEdge
  <2>1. /\ run["io"] = <<ReadEvent>> /\ queue'["io"] = queue["io"]
        /\ run'["io"] = <<OnEvent(Head(edges)), WaitAgain>>
        /\ edges # <<>> /\ edges' = Tail(edges)
        /\ UNCHANGED <<out, enabled>> /\ (waiting' <=> waiting)
    BY <1>10 DEF TakesEdge, IoGoes, waiting
  <2>2. edges \in Seq({0, 1}) /\ Head(edges) \in {0, 1}
    BY <2>1 DEF Simple
  <2>3. run'["io"] \in Edges
    BY <2>1, <2>2 DEF Edges
  <2>4. ~ToOpen /\ ~Setting /\ Last(edges) = pin /\ LastSetter \notin Gatings
    BY <1>5, <2>1
  <2>5. LastSetter = <<>> /\ LastSetter' = run'["io"]
    BY <1>10, <2>4, EdgeIsLast
  <2>6. /\ Tail(edges) # <<>> => Last(Tail(edges)) = Last(edges)
        /\ Tail(edges) = <<>> => Head(edges) = Last(edges)
    BY <2>1, <2>2, LastOfTail
  <2>7. LastLevel' = Head(edges)
    <3>1. /\ <<OnEvent(Head(edges)), WaitAgain>> # <<>>
          /\ <<OnEvent(Head(edges)), WaitAgain>>[1].value = Head(edges)
      BY DEF OnEvent
    <3> QED
      BY <2>1, <2>5, <3>1 DEF LastLevel
  <2>8. Reads'
    BY <2>3 DEF Reads, Reading, Edges
  <2>9. run'["io"] \notin Initials /\ run'["io"] \notin Gatings /\ <<>> \notin Initials
    BY <2>1, Tags, SettersAreDistinct, SettersAre DEF Initials
  <2>10. ~Setting'
    BY <2>1, <2>4, <2>9 DEF Setting, Initials
  <2> QED
    BY <1>5, <1>6, <2>1, <2>4, <2>5, <2>6, <2>7, <2>8, <2>9, <2>10
<1>11. ASSUME NEW v \in {0, 1}, SetsEdge(v) PROVE OpenInv'
  <2> DEFINE h == <<OnEvent(v), WaitAgain>>
  <2>1. /\ run["io"] = h /\ run'["io"] = <<WaitAgain>> /\ queue'["io"] = queue["io"]
        /\ out' = v /\ UNCHANGED <<enabled, edges>> /\ (waiting' <=> waiting)
    BY <1>11 DEF SetsEdge, IoGoes, lineVars, waiting
  <2>2. h \in Edges /\ h # <<>> /\ h[1].value = v
    BY DEF Edges, OnEvent
  <2>3. h \notin Initials /\ h \notin Gatings /\ <<WaitAgain>> \notin Initials
        /\ <<>> \notin Initials /\ <<>> \notin Gatings /\ <<>> \notin Setters
    BY Tags, SettersAre DEF Initials, Gatings
  <2>4. Reads' /\ Reads /\ (Setting' => Setting)
    BY <2>1, <2>2, <2>3 DEF Reads, Setting, Initials, Reading, Edges
  <2> HIDE DEF h
  <2>5. \/ LastSetter' = LastSetter /\ LastSetter \in Setters
        \/ LastSetter = h /\ LastSetter' = <<>>
    BY <2>1, <2>2, DoneSetter
  <2>6. LastLevel' = LastLevel
    BY <2>1, <2>2, <2>3, <2>5 DEF LastLevel
  <2>7. LastSetter' \notin Gatings <=> LastSetter \notin Gatings
    BY <2>3, <2>5
  <2>8. LastSetter' \in Initials <=> LastSetter \in Initials
    BY <2>3, <2>5
  <2> QED
    BY <1>5, <1>6, <2>1, <2>4, <2>6, <2>7, <2>8
<1>12. CASE Rewaits
  <2>1. /\ run["io"] = <<WaitAgain>> /\ run'["io"] = <<>> /\ queue'["io"] = queue["io"]
        /\ UNCHANGED <<out, enabled, edges>>
    BY <1>12 DEF Rewaits, IoGoes
  <2>2. waiting'
    <3>1. waiting \/ ~gated
      BY <1>5
    <3> QED
      BY <1>4, <1>12, <3>1 DEF Rewaits, waiting, Simple
  <2>3. /\ <<WaitAgain>> \notin Setters \cup Edges /\ <<>> \notin Setters \cup Edges
        /\ <<>> \notin Initials
    BY SettersAreDistinct, SettersAre
  <2>4. LastSetter' = LastSetter /\ LastLevel' = LastLevel /\ (Setting' => Setting)
    BY <2>1, <2>3
       DEF LastSetter, Now, LastLevel, Setting, Setters, Gatings, Edges, Initials
  <2> QED
    BY <1>5, <1>6, <2>1, <2>2, <2>4
<1> QED
  BY <1>7, <1>8, <1>9, <1>10, <1>11, <1>12, IoSteps

(* The kernel reports an edge, the line moves, and the gate is asked to. *)
LEMMA OthersKeepOpen ==
  ASSUME Simple, Handlers, LinePhase, OpenInv,
         Ready \/ PinMoves \/ \E v \in {Undefined, 0, 1} : Update(v)
  PROVE  OpenInv'
<1>1. UNCHANGED <<out, enabled, gated, line, run>>
  BY DEF Ready, PinMoves, Update, signals, lineVars
<1>2. CASE Ready
  <2>1. /\ waiting /\ edges # <<>> /\ UNCHANGED <<edges, pin, disturbed>>
    BY <1>2 DEF Ready, histories
  <2>2. /\ <<ReadEvent>> \in IoHandler /\ <<ReadEvent>> \notin Setters
        /\ <<ReadEvent>> \notin Initials
    BY HandlersAreKnown, SettersAreDistinct, SettersAre
  <2>3. queue'["output"] = queue["output"]
    BY <1>2, ReadyPosts
  <2>4. LastSetter' = LastSetter
    BY <1>2, ReadySetsNothing
  <2>5. ToSet(queue'["io"]) = ToSet(queue["io"]) \cup {<<ReadEvent>>}
    BY <1>2, ReadyPosts
  <2>6. Reads' /\ (Setting' <=> Setting) /\ (ToOpen' <=> ToOpen)
    BY <1>1, <2>2, <2>3, <2>5 DEF Reads, Setting, Initials, ToOpen
  <2>7. LastLevel' = LastLevel
    BY <1>1, <2>4 DEF LastLevel
  <2>8. ASSUME line = "input", ~disturbed PROVE ~gated
    <3>1. ~ToOpen
      BY <2>1, <2>8 DEF OpenInv
    <3> QED
      BY <2>8, <3>1 DEF LinePhase, ToOpen, GatedLine
  <2> QED
    BY <1>1, <2>1, <2>4, <2>6, <2>7, <2>8 DEF OpenInv, Gatings, Initials
<1>3. CASE PinMoves
  <2>1. /\ edges' = IF Requested THEN Append(edges, pin') ELSE edges
        /\ disturbed' = (disturbed \/ Opening) /\ UNCHANGED queue
        /\ (waiting' <=> waiting)
    BY <1>3 DEF PinMoves, waiting
  <2>2. SUFFICES ASSUME line = "input", ~disturbed' PROVE OpenInv'
    BY <1>1 DEF OpenInv
  <2>3. ~disturbed /\ ~ToOpen /\ ~Setting
    BY <2>1, <2>2, OpeningIsNoticed, Zenon
  <2>4. pin' \in {0, 1} /\ edges \in Seq({0, 1})
    BY <1>3 DEF PinMoves, Simple
  <2>5. edges' = Append(edges, pin')
    BY <2>1, <2>2 DEF Requested
  <2>6. edges' # <<>> /\ Last(edges') = pin'
    BY <2>4, <2>5 DEF Last
  <2>7. /\ LastSetter' = LastSetter /\ (Reads' <=> Reads) /\ (ToOpen' <=> ToOpen)
        /\ (Setting' <=> Setting)
    BY <1>1, <2>1 DEF LastSetter, Now, Reads, ToOpen, Setting, Setters, Gatings,
                      Edges, Initials, Reading
  <2> QED
    BY <1>1, <2>1, <2>2, <2>3, <2>6, <2>7 DEF OpenInv, Gatings, Initials
<1>4. CASE \E v \in {Undefined, 0, 1} : Update(v)
  <2>1. UNCHANGED <<edges, pin, disturbed>> /\ queue'["io"] = queue["io"]
        /\ (waiting' <=> waiting)
    BY <1>4 DEF Update, Post, Handlers, Threads, lineVars, waiting
  <2>2. \/ queue'["output"] = queue["output"]
        \/ \E h \in {<<Acquire>>, <<Release>>} :
              queue'["output"] = Append(queue["output"], h)
    BY <1>4 DEF Update, Post, Handlers, Threads
  <2>3. <<ReadInitial>> \notin {<<Acquire>>, <<Release>>}
    BY Tags
  <2>4. \/ ToSet(queue'["output"]) = ToSet(queue["output"])
        \/ \E h \in {<<Acquire>>, <<Release>>} :
              ToSet(queue'["output"]) = ToSet(queue["output"]) \cup {h}
    <3>1. queue["output"] \in Seq(OutputHandler)
      BY DEF Handlers, OutputQueued
    <3>2. ASSUME NEW h \in {<<Acquire>>, <<Release>>}
          PROVE  ToSet(Append(queue["output"], h)) = ToSet(queue["output"]) \cup {h}
      BY <3>1, ToSetAppend, HandlersAreKnown
    <3> QED
      BY <2>2, <3>2
  <2>5. ToOpen' <=> ToOpen
    BY <1>1, <2>3, <2>4 DEF ToOpen
  <2>6. LastSetter' = LastSetter /\ (Reads' <=> Reads) /\ (Setting' <=> Setting)
        /\ LastLevel' = LastLevel
    BY <1>1, <2>1
       DEF LastSetter, Now, LastLevel, Reads, Setting, Setters, Gatings, Edges,
           Initials, Reading
  <2> QED
    BY <1>1, <2>1, <2>5, <2>6 DEF OpenInv, Gatings, Initials
<1> QED
  BY <1>2, <1>3, <1>4

-----------------------------------------------------------------------------
(* The edges of an input whose gate does not hurry. *)

(* Only Update asks the line to be opened. *)
LEMMA OutputKeepsAcquire ==
  ASSUME Handlers, AcquireAlone, OutputThread
  PROVE  AcquireAlone'
<1> USE Tags
<1> DEFINE q == queue["output"]
<1>1. UNCHANGED hurried
  BY OutputSteps
<1>2. SUFFICES ASSUME ~hurried PROVE AcquireAlone'
  BY <1>1 DEF AcquireAlone
<1>3. /\ <<Acquire>> \in ToSet(q) => q = <<<<Acquire>>>> /\ run["output"] = <<>>
                                      /\ NothingElse
      /\ run["output"] = <<Acquire>> => q = <<>> /\ NothingElse
  BY <1>2 DEF AcquireAlone
<1>4. q \in Seq(OutputHandler)
  BY DEF Handlers, OutputQueued
<1>5. CASE OutputTakesNext
  <2>1. /\ q # <<>> /\ run["output"] = <<>> /\ run'["output"] = Head(q)
        /\ queue'["output"] = Tail(q) /\ queue'["io"] = queue["io"]
        /\ run'["io"] = run["io"] /\ (waiting' <=> waiting)
    BY <1>5 DEF OutputTakesNext, OutputGoes, lineVars, waiting
  <2>2. ToSet(q) = {Head(q)} \cup ToSet(Tail(q))
    BY <1>4, <2>1, ToSetTail
  <2>3. CASE <<Acquire>> \in ToSet(q)
    <3>1. q = <<<<Acquire>>>> /\ NothingElse
      BY <1>3, <2>3
    <3>2. Tail(q) = <<>>
      BY <3>1
    <3>3. NothingElse'
      BY <2>1, <3>1 DEF NothingElse
    <3> QED
      BY <2>1, <3>2, <3>3, ToSetSmall DEF AcquireAlone
  <2>4. CASE <<Acquire>> \notin ToSet(q)
    BY <2>1, <2>2, <2>4 DEF AcquireAlone
  <2> QED
    BY <2>3, <2>4
<1>6. ASSUME run["output"] # <<>>, run'["output"] # <<Acquire>>,
             \/ queue'["output"] = q
             \/ queue'["output"] = Append(q, <<ReadInitial>>)
      PROVE  AcquireAlone'
  <2>1. <<Acquire>> \notin ToSet(q)
    BY <1>3, <1>6
  <2>2. ToSet(Append(q, <<ReadInitial>>)) = ToSet(q) \cup {<<ReadInitial>>}
    BY <1>4, ToSetAppend, HandlersAreKnown
  <2>3. <<Acquire>> \notin ToSet(queue'["output"])
    BY <1>6, <2>1, <2>2
  <2> QED
    BY <1>6, <2>3 DEF AcquireAlone
<1>7. CASE OutputSkips \/ Acquires \/ Ungates
  BY <1>6, <1>7 DEF OutputSkips, Acquires, Ungates, OutputGoes
<1>8. CASE PostsInitial \/ ReadsInitial
  BY <1>6, <1>8 DEF PostsInitial, ReadsInitial, OutputGoes
<1>9. CASE Releases \/ Closes \/ Gates
  BY <1>6, <1>9 DEF Releases, Closes, Gates, OutputGoes
<1> QED
  BY <1>5, <1>7, <1>8, <1>9, OutputSteps

(* Where nothing is to be run there is no edge to be read. *)
LEMMA IdleReadsNothing ==
  /\ Once(<<>>, <<ReadEvent>>) /\ <<ReadEvent>> \notin ToSet(<<>>)
  /\ <<>> \notin Reading /\ <<>> # <<ReadEvent>>
<1>1. DOMAIN <<>> = {}
  OBVIOUS
<1>2. Once(<<>>, <<ReadEvent>>)
  BY <1>1 DEF Once
<1>3. <<>> \notin Reading /\ <<>> # <<ReadEvent>>
  BY Tags DEF Reading, Edges
<1> QED
  BY <1>2, <1>3, ToSetSmall

(* Nothing else moves before the line is opened. *)
LEMMA OthersKeepAcquire ==
  ASSUME Handlers, LinePhase, AcquireAlone,
         IoThread \/ Ready \/ PinMoves \/ \E v \in {Undefined, 0, 1} : Update(v)
  PROVE  AcquireAlone'
<1>1. CASE IoThread
  <2>1. UNCHANGED hurried
    BY <1>1, IoSteps DEF histories
  <2>2. /\ run["io"] # <<>> \/ queue["io"] # <<>>
        /\ run'["output"] = run["output"] /\ queue'["output"] = queue["output"]
    <3>1. CASE IoTakesNext \/ IgnoresEvent \/ TakesEdge \/ Rewaits
      BY <3>1, Tags DEF IoTakesNext, IgnoresEvent, TakesEdge, Rewaits, IoGoes
    <3>2. CASE \E h \in Setters : Sets(h)
      BY <3>2, SettersAreDistinct DEF Sets, IoGoes
    <3>3. CASE \E v \in {0, 1} : SetsEdge(v)
      BY <3>3, Tags DEF SetsEdge, IoGoes
    <3> QED
      BY <1>1, <3>1, <3>2, <3>3, IoSteps
  <2>3. ~NothingElse
    BY <2>2 DEF NothingElse
  <2> QED
    BY <2>1, <2>2, <2>3 DEF AcquireAlone
<1>2. CASE Ready
  <2>1. /\ UNCHANGED <<hurried, run>> /\ ~NothingElse
        /\ queue'["output"] = queue["output"]
    BY <1>2 DEF Ready, histories, NothingElse, Handlers, Threads
  <2> QED
    BY <2>1 DEF AcquireAlone
<1>3. CASE PinMoves
  BY <1>3 DEF PinMoves, AcquireAlone, NothingElse, waiting
<1>4. CASE \E v \in {Undefined, 0, 1} : Update(v)
  <2>1. SUFFICES ASSUME ~hurried' PROVE AcquireAlone'
    BY DEF AcquireAlone
  <2>2. AtRest /\ UNCHANGED run /\ (waiting' <=> waiting)
    BY <1>4, <2>1 DEF Update, lineVars, waiting
  <2>3. /\ queue["io"] = <<>> /\ queue["output"] = <<>>
        /\ run["io"] = <<>> /\ run["output"] = <<>>
    BY <2>2 DEF AtRest, ThreadsIdle, Threads
  <2>4. queue'["io"] = <<>>
    BY <1>4, <2>3 DEF Update, Post, Handlers, Threads
  <2>5. \/ queue'["output"] = <<>>
        \/ queue'["output"] = Append(<<>>, <<Release>>)
        \/ gated /\ queue'["output"] = Append(<<>>, <<Acquire>>)
    BY <1>4, <2>3 DEF Update, Post, Handlers, Threads
  <2>6. \A h : Append(<<>>, h) = <<h>>
    OBVIOUS
  <2>7. gated => ~waiting
    BY <2>3, Tags DEF LinePhase, GatedLine
  <2>8. CASE gated /\ queue'["output"] = <<<<Acquire>>>>
    BY <2>2, <2>3, <2>4, <2>7, <2>8, Tags DEF AcquireAlone, NothingElse
  <2>9. CASE queue'["output"] \in {<<>>, <<<<Release>>>>}
    <3>1. ToSet(<<>>) = {} /\ ToSet(<<<<Release>>>>) = {<<Release>>}
      BY ToSetSmall
    <3>2. <<Acquire>> # <<Release>>
      BY Tags
    <3>3. <<Acquire>> \notin ToSet(<<>>) /\ <<Acquire>> \notin ToSet(<<<<Release>>>>)
      BY <3>1, <3>2
    <3> QED
      BY <2>2, <2>3, <2>9, <3>3, Tags DEF AcquireAlone
  <2> QED
    BY <2>5, <2>6, <2>8, <2>9
<1> QED
  BY <1>1, <1>2, <1>3, <1>4

(* What the output thread posts is no edge, and a line that it closes has
   none. *)
LEMMA OutputKeepsWait ==
  ASSUME Simple, Handlers, LinePhase, AcquireAlone, OneWait, OutputThread
  PROVE  OneWait'
<1>1. UNCHANGED hurried
  BY OutputSteps
<1>2. SUFFICES ASSUME ~hurried PROVE OneWait'
  BY <1>1 DEF OneWait
<1>3. /\ Once(queue["io"], <<ReadEvent>>)
      /\ waits <= 1 /\ (waiting => ~Reads)
      /\ run["io"] \in Reading => <<ReadEvent>> \notin ToSet(queue["io"])
      /\ Requested /\ ToRead => edges # <<>>
  BY <1>2 DEF OneWait
<1>4. run'["io"] = run["io"]
  BY OutputSteps
     DEF OutputTakesNext, OutputSkips, Acquires, Ungates, PostsInitial, ReadsInitial,
         Releases, Closes, Gates, OutputGoes
<1>5. ASSUME queue'["io"] = queue["io"], waits' \in {0, waits},
             Requested' /\ ToRead => edges' # <<>>
      PROVE  OneWait'
  <2>1. waits' <= 1 /\ (waiting' => waiting)
    BY <1>3, <1>5 DEF waiting, Simple
  <2> QED
    BY <1>3, <1>4, <1>5, <2>1 DEF OneWait, Reads, ToRead, Reading, Edges
<1>6. ASSUME NEW h \in IoHandler, h # <<ReadEvent>>,
             queue'["io"] = Append(queue["io"], h), waits' = waits,
             Requested' /\ ToRead => edges' # <<>>
      PROVE  OneWait'
  <2>1. queue["io"] \in Seq(IoHandler)
    BY DEF Handlers, IoQueued
  <2>2. Once(queue'["io"], <<ReadEvent>>)
    BY <1>3, <1>6, <2>1, OnceAppend
  <2>3. ToSet(queue'["io"]) = ToSet(queue["io"]) \cup {h}
    BY <1>6, <2>1, ToSetAppend
  <2>4. (Reads' <=> Reads) /\ (ToRead' <=> ToRead)
    BY <1>4, <1>6, <2>3 DEF Reads, ToRead, Reading, Edges
  <2>5. waiting' <=> waiting
    BY <1>6 DEF waiting
  <2> QED
    BY <1>3, <1>4, <1>6, <2>2, <2>3, <2>4, <2>5 DEF OneWait, Reading, Edges
<1>7. CASE OutputTakesNext
  BY <1>3, <1>5, <1>7 DEF OutputTakesNext, lineVars, Requested
<1>8. CASE OutputSkips \/ Ungates
  BY <1>3, <1>5, <1>8 DEF OutputSkips, Ungates, lineVars, Requested
<1>9. CASE PostsInitial
  BY <1>3, <1>5, <1>9 DEF PostsInitial, lineVars, Requested
<1>10. CASE Acquires
  <2>1. queue["io"] = <<>> /\ run["io"] = <<>> /\ queue'["io"] = <<>>
    BY <1>2, <1>10 DEF Acquires, OutputGoes, AcquireAlone, NothingElse
  <2>2. waits' = 1
    BY <1>2, <1>10 DEF Acquires, OutputGoes, AcquireAlone, NothingElse, waiting, Simple
  <2> QED
    BY <1>4, <2>1, <2>2, IdleReadsNothing DEF OneWait, Reads, ToRead, Reading, Edges
<1>11. CASE ReadsInitial
  <2>1. /\ queue'["io"] = Append(queue["io"], <<SetInitial(pin)>>)
        /\ <<SetInitial(pin)>> \in IoHandler /\ <<SetInitial(pin)>> # <<ReadEvent>>
    BY <1>11, HandlersAreKnown, Tags DEF ReadsInitial, Simple
  <2> QED
    BY <1>3, <1>6, <1>11, <2>1 DEF ReadsInitial, lineVars, Requested
<1>12. CASE Releases
  <2>1. Requested
    BY <1>12, Tags DEF Releases, OutputGoes, LinePhase, Requested
  <2> QED
    BY <1>3, <1>5, <1>12, <2>1 DEF Releases
<1>13. CASE Closes
  BY <1>5, <1>13 DEF Closes, Requested
<1>14. CASE Gates
  <2>1. PICK v \in IdleLevels : queue'["io"] = Append(queue["io"], <<SetGated(v)>>)
    BY <1>14 DEF Gates
  <2>2. <<SetGated(v)>> \in IoHandler /\ <<SetGated(v)>> # <<ReadEvent>>
    BY HandlersAreKnown, Tags
  <2>3. ~Requested'
    BY <1>14 DEF Gates, GatedLine, Requested
  <2> QED
    BY <1>6, <1>14, <2>1, <2>2, <2>3 DEF Gates
<1> QED
  BY <1>7, <1>8, <1>9, <1>10, <1>11, <1>12, <1>13, <1>14, OutputSteps

(* io reads each edge that it was called for, and only then waits again. *)
LEMMA IoKeepsWait ==
  ASSUME Simple, Handlers, OneWait, IoThread
  PROVE  OneWait'
<1>1. UNCHANGED hurried
  BY IoSteps DEF histories
<1>2. SUFFICES ASSUME ~hurried PROVE OneWait'
  BY <1>1 DEF OneWait
<1>3. /\ Once(queue["io"], <<ReadEvent>>)
      /\ waits <= 1 /\ (waiting => ~Reads)
      /\ run["io"] \in Reading => <<ReadEvent>> \notin ToSet(queue["io"])
      /\ Requested /\ ToRead => edges # <<>>
  BY <1>2 DEF OneWait
<1>4. CASE IoTakesNext
  <2> DEFINE q == queue["io"]
  <2>1. /\ q \in Seq(IoHandler) /\ q # <<>>
        /\ run'["io"] = Head(q) /\ queue'["io"] = Tail(q)
        /\ UNCHANGED <<line, waits, edges>> /\ (waiting' <=> waiting)
    BY <1>4 DEF IoTakesNext, IoGoes, Handlers, IoQueued, lineVars, waiting
  <2>2. Reads' <=> Reads
    BY <1>4, TakingKeepsLast
  <2>3. /\ Once(Tail(q), <<ReadEvent>>)
        /\ Head(q) = <<ReadEvent>> => <<ReadEvent>> \notin ToSet(Tail(q))
    BY <1>3, <2>1, OnceTail
  <2>4. ToSet(q) = {Head(q)} \cup ToSet(Tail(q))
    BY <2>1, ToSetTail
  <2>5. Head(q) \in Reading => Head(q) = <<ReadEvent>>
    <3>1. Head(q) \in IoHandler
      BY <2>1
    <3> QED
      BY <3>1, Tags DEF IoHandler, Reading, Edges
  <2>6. ToRead' => ToRead
    BY <2>1, <2>4 DEF ToRead
  <2>7. run'["io"] \in Reading => <<ReadEvent>> \notin ToSet(queue'["io"])
    BY <2>1, <2>3, <2>5
  <2> QED
    BY <1>3, <2>1, <2>2, <2>3, <2>6, <2>7 DEF OneWait, Requested, Reading, Edges
<1>5. <<>> \notin Reading /\ <<WaitAgain>> # <<ReadEvent>>
      /\ \A h \in Edges : h # <<ReadEvent>> /\ h # <<>>
  BY Tags DEF Reading, Edges
<1>6. run["io"] \in Reading => waits = 0
  BY <1>3 DEF Reads, waiting, Simple
<1>7. ASSUME run["io"] \in Reading, queue'["io"] = queue["io"],
             run'["io"] \in {<<>>, <<WaitAgain>>} \cup Edges,
             waits' = 0 \/ (waits' = 1 /\ run'["io"] = <<>>)
      PROVE  OneWait'
  <2>1. <<ReadEvent>> \notin ToSet(queue'["io"])
    BY <1>3, <1>7
  <2>2. ~ToRead'
    BY <1>5, <1>7, <2>1, Tags DEF ToRead
  <2>3. waits' <= 1 /\ (waiting' => ~Reads')
    <3>1. waits' <= 1 /\ (waiting' => run'["io"] = <<>>)
      BY <1>7 DEF waiting
    <3>2. run'["io"] = <<>> => ~Reads'
      BY <1>5, <2>1 DEF Reads, Reading, Edges
    <3> QED
      BY <3>1, <3>2
  <2> QED
    BY <1>3, <1>7, <2>1, <2>2, <2>3 DEF OneWait
<1>8. CASE IgnoresEvent
  <2>1. /\ run["io"] \in Reading /\ run'["io"] = <<>> /\ queue'["io"] = queue["io"]
        /\ waits' = waits
    BY <1>8 DEF IgnoresEvent, IoGoes, Reading, lineVars
  <2> QED
    BY <1>6, <1>7, <2>1
<1>9. CASE TakesEdge
  <2>1. /\ run["io"] \in Reading /\ run'["io"] \in Edges
        /\ queue'["io"] = queue["io"] /\ waits' = waits
    BY <1>9 DEF TakesEdge, IoGoes, Reading, Edges, Simple
  <2> QED
    BY <1>6, <1>7, <2>1
<1>10. ASSUME NEW v \in {0, 1}, SetsEdge(v) PROVE OneWait'
  <2>1. /\ run["io"] \in Reading /\ run'["io"] = <<WaitAgain>>
        /\ queue'["io"] = queue["io"] /\ waits' = waits
    BY <1>10 DEF SetsEdge, IoGoes, Reading, Edges, lineVars
  <2> QED
    BY <1>6, <1>7, <2>1
<1>11. CASE Rewaits
  <2>1. /\ run["io"] \in Reading /\ run'["io"] = <<>> /\ queue'["io"] = queue["io"]
        /\ waits' \in {waits, waits + 1}
    BY <1>11 DEF Rewaits, IoGoes, Reading
  <2>2. waits' \in {0, 1}
    BY <1>6, <2>1
  <2> QED
    BY <1>7, <2>1, <2>2
<1>12. ASSUME NEW h \in Setters, Sets(h) PROVE OneWait'
  <2>1. /\ run'["io"] = <<>> /\ queue'["io"] = queue["io"]
        /\ UNCHANGED <<waits, edges, line>> /\ (waiting' <=> waiting)
    BY <1>12 DEF Sets, IoGoes, lineVars, waiting
  <2>2. (Reads' => Reads) /\ (ToRead' => ToRead) /\ run'["io"] \notin Reading
    BY <1>5, <2>1, Tags DEF Reads, ToRead, Reading, Edges
  <2> QED
    BY <1>3, <2>1, <2>2 DEF OneWait, Requested, Reading, Edges
<1> QED
  BY <1>4, <1>8, <1>9, <1>10, <1>11, <1>12, IoSteps

(* The kernel calls io for an edge once, and only Update ends the hurry: at
   rest no edge is left to be read. *)
LEMMA OthersKeepWait ==
  ASSUME Simple, Handlers, OneWait,
         Ready \/ PinMoves \/ \E v \in {Undefined, 0, 1} : Update(v)
  PROVE  OneWait'
<1>1. UNCHANGED <<line, run>>
  BY DEF Ready, PinMoves, Update, lineVars
<1>2. CASE Ready
  <2>1. waiting /\ edges # <<>> /\ waits' = 0 /\ UNCHANGED <<edges, hurried>>
    BY <1>2 DEF Ready, histories
  <2>2. SUFFICES ASSUME ~hurried PROVE OneWait'
    BY <2>1 DEF OneWait
  <2>3. Once(queue["io"], <<ReadEvent>>) /\ ~Reads /\ waits = 1
    BY <2>1, <2>2 DEF OneWait, waiting, Simple
  <2>4. /\ queue["io"] \in Seq(IoHandler) /\ <<ReadEvent>> \in IoHandler
        /\ queue'["io"] = Append(queue["io"], <<ReadEvent>>)
    <3>1. queue["io"] \in Seq(IoHandler) /\ <<ReadEvent>> \in IoHandler
      BY HandlersAreKnown DEF Handlers, IoQueued
    <3>2. queue'["io"] = queue["io"] \o <<<<ReadEvent>>>>
      BY <1>2, <2>3, ReadyPosts
    <3> DEFINE h == <<ReadEvent>>
    <3> HIDE DEF h
    <3>3. \A q \in Seq(IoHandler) : h \in IoHandler => q \o <<h>> = Append(q, h)
      OBVIOUS
    <3> QED
      BY <3>1, <3>2, <3>3 DEF h
  <2>5. Once(queue'["io"], <<ReadEvent>>)
    BY <2>3, <2>4, OnceAppend DEF Reads
  <2>6. run'["io"] \notin Reading
    BY <1>1, <2>3 DEF Reads
  <2> QED
    BY <2>1, <2>5, <2>6 DEF OneWait, Reading, Edges, waiting
<1>3. CASE PinMoves
  <2>1. UNCHANGED <<waits, queue, hurried>> /\ (waiting' <=> waiting)
    BY <1>3 DEF PinMoves, waiting
  <2>2. edges # <<>> => edges' # <<>>
    BY <1>3 DEF PinMoves, Simple
  <2> QED
    BY <1>1, <2>1, <2>2 DEF OneWait, Reads, ToRead, Reading, Edges, Requested
<1>4. CASE \E v \in {Undefined, 0, 1} : Update(v)
  <2>1. SUFFICES ASSUME ~hurried' PROVE OneWait'
    BY DEF OneWait
  <2>2. AtRest /\ waits' <= 1
    BY <1>4, <2>1 DEF Update, lineVars
  <2>3. queue["io"] = <<>> /\ run["io"] = <<>>
    BY <2>2 DEF AtRest, ThreadsIdle, Threads
  <2>4. queue'["io"] = <<>> /\ run'["io"] = <<>>
    BY <1>1, <1>4, <2>3 DEF Update, Post, Handlers, Threads
  <2> QED
    BY <2>2, <2>4, IdleReadsNothing DEF OneWait, Reads, ToRead, Reading, Edges
<1> QED
  BY <1>2, <1>3, <1>4

-----------------------------------------------------------------------------
(* The theorems. *)

(* The invariant holds when the constructor has run. *)
LEMMA InitInv == Init => Inv
<1> SUFFICES ASSUME Init PROVE Inv
  OBVIOUS
<1>1. queue["io"] = <<>> /\ queue["output"] = <<>> /\ run["io"] = <<>>
      /\ run["output"] = <<>>
  BY DEF Init, Threads
<1>2. Simple
  <2>1. out \in {Undefined, 0, 1}
    BY IdleLevelsAreLevels DEF Init
  <2>2. edges \in Seq({0, 1})
    BY DEF Init
  <2>3. line \in {"released", "low", "input", "closing"}
    BY DEF Init, GatedLine
  <2> QED
    BY <2>1, <2>2, <2>3 DEF Init, Simple
<1>3. Handlers
  <2>1. \A S : <<>> \in Seq(S)
    OBVIOUS
  <2>2. <<>> \in IoRun /\ <<>> \in OutputRun
    BY HandlersAreKnown
  <2> QED
    BY <1>1, <2>1, <2>2
       DEF Init, Handlers, IoQueued, OutputQueued, IoRuns, OutputRuns
<1>4. GateInv
  <2>1. LastSetter = <<>>
    BY <1>1, LastInEmpty, SettersAreDistinct DEF LastSetter, Now
  <2>2. IsIdle
    BY DEF Init, IsIdle
  <2>3. ~Requested
    BY DEF Init, GatedLine, Requested
  <2> QED
    BY <2>1, <2>2, <2>3 DEF GateInv, GoesIdle
<1>5. LinePhase /\ OpenInv
  <2>1. ~waiting
    BY DEF Init, waiting
  <2> QED
    BY <1>1, <2>1, Tags DEF Init, LinePhase, OpenInv, GatedLine
<1>6. AcquireAlone /\ OneWait
  <2>1. <<Acquire>> \notin ToSet(<<>>) /\ <<Acquire>> # <<>>
    BY ToSetSmall, Tags
  <2> QED
    BY <1>1, <2>1, IdleReadsNothing
       DEF Init, AcquireAlone, OneWait, Reads, ToRead, waiting
<1> QED
  BY <1>2, <1>3, <1>4, <1>5, <1>6 DEF Inv

(* Every step keeps the invariant. *)
LEMMA NextKeepsInv == Inv /\ [Next]_vars => Inv'
<1> SUFFICES ASSUME Inv, [Next]_vars PROVE Inv'
  OBVIOUS
<1> USE DEF Inv
<1>1. CASE IoThread
  BY <1>1, IoKeepsTypes, IoKeepsGate, OthersKeepPhase, IoKeepsOpen,
     OthersKeepAcquire, IoKeepsWait
<1>2. CASE OutputThread
  BY <1>2, OutputKeepsTypes, OutputKeepsGate, OutputKeepsPhase, OutputKeepsOpen,
     OutputKeepsAcquire, OutputKeepsWait
<1>3. CASE Ready \/ PinMoves \/ \E v \in {Undefined, 0, 1} : Update(v)
  BY <1>3, OthersKeepTypes, OthersKeepGate, OthersKeepPhase, OthersKeepOpen,
     OthersKeepAcquire, OthersKeepWait
<1>4. CASE UNCHANGED vars
  <2>1. UNCHANGED <<on, out, enabled, gated, line, waits, edges, pin, hurried,
                    disturbed, queue, run>>
    BY <1>4 DEF vars, signals, lineVars, histories
  <2>2. Simple' /\ Handlers'
    BY <2>1 DEF Simple, Handlers, IoQueued, OutputQueued, IoRuns, OutputRuns
  <2>3. GateInv'
    BY <2>1, IdleStays DEF GateInv, Shut, Requested
  <2>4. LinePhase' /\ OpenInv'
    BY <2>1 DEF LinePhase, OpenInv, ToOpen, Setting, Reads, LastLevel, LastSetter, Now,
                Initials, Setters, Gatings, Edges, Reading, waiting
  <2>5. AcquireAlone' /\ OneWait'
    BY <2>1 DEF AcquireAlone, NothingElse, OneWait, Reads, ToRead, Reading, Edges,
                Requested, waiting
  <2> QED
    BY <2>2, <2>3, <2>4, <2>5
<1> QED
  BY <1>1, <1>2, <1>3, <1>4 DEF Next

(* The invariant holds in every state that can be reached. *)
THEOREM InvHolds == Spec => []Inv
BY InitInv, NextKeepsInv, PTL DEF Spec

(* The forms of the handlers are sequences of instructions. *)
LEMMA FormsAreInstructions ==
  /\ IoHandler \subseteq Seq(Instruction) /\ OutputHandler \subseteq Seq(Instruction)
  /\ IoRun \subseteq Seq(Instruction) /\ OutputRun \subseteq Seq(Instruction)
<1>1. /\ {Acquire, Open, PostInitial, ReadInitial, Release, Close, Gate, ReadEvent,
           WaitAgain} \subseteq Instruction
      /\ \A v \in {0, 1} : {SetInitial(v), SetGated(v), OnEvent(v)} \subseteq Instruction
  BY DEF Instruction
<1>2. /\ \A a \in Instruction : <<a>> \in Seq(Instruction)
      /\ \A a, b \in Instruction : <<a, b>> \in Seq(Instruction)
      /\ <<>> \in Seq(Instruction)
  OBVIOUS
<1>3. IoHandler \subseteq Seq(Instruction)
  BY <1>1, <1>2, IdleLevelsAreLevels DEF IoHandler
<1>4. OutputHandler \subseteq Seq(Instruction)
  BY <1>1, <1>2 DEF OutputHandler
<1>5. IoRest \subseteq Seq(Instruction)
  BY <1>1, <1>2 DEF IoRest
<1>6. OutputRest \subseteq Seq(Instruction)
  BY <1>1, <1>2 DEF OutputRest
<1> QED
  BY <1>3, <1>4, <1>5, <1>6 DEF IoRun, OutputRun

(* The types of GpioInput hold for every configuration of the gate and every
   interleaving of the two threads: no step reads an edge that there is none
   of, or comes to a handler of the other thread. *)
THEOREM TypeCorrect == Spec => []TypeOK
<1>1. Inv => TypeOK
  <2> SUFFICES ASSUME Inv PROVE TypeOK
    OBVIOUS
  <2>1. \A q : q \in Seq(IoHandler) \/ q \in Seq(OutputHandler)
               => q \in Seq(Seq(Instruction))
    BY FormsAreInstructions
  <2>2. queue \in [Threads -> Seq(Seq(Instruction))]
    BY <2>1 DEF Inv, Handlers
  <2>3. run \in [Threads -> Seq(Instruction)]
    BY FormsAreInstructions DEF Inv, Handlers
  <2> QED
    BY <2>2, <2>3 DEF Inv, Simple, TypeOK, ThreadsTypeOK
<1> QED
  BY <1>1, InvHolds, PTL

(* A gated input reads as its idle level: Inv, when nothing is under way. *)
THEOREM GatedInputIsIdle == Spec => []GatedReadsIdle
<1>1. Inv => GatedReadsIdle
  <2> SUFFICES ASSUME Inv, AtRest, gated, GatedIdleHigh \/ GatedIdleLow
               PROVE  out \in IdleLevels /\ enabled = 0
    BY DEF GatedReadsIdle
  <2>1. queue["io"] = <<>> /\ run["io"] = <<>> /\ run["output"] = <<>>
    BY DEF AtRest, ThreadsIdle, Threads
  <2>2. <<>> # <<Open, PostInitial>>
    OBVIOUS
  <2>3. GoesIdle
    BY <2>1, <2>2 DEF Inv, GateInv, Shut
  <2>4. LastSetter = <<>>
    BY <2>1, LastInEmpty, SettersAreDistinct DEF LastSetter, Now
  <2> QED
    BY <2>3, <2>4, SettersAreDistinct DEF GoesIdle, IsIdle, Setters
<1> QED
  BY <1>1, InvHolds, PTL

(* An open input reads as its line: at rest no closure and no edge is under
   way, so OpenInv is about the signal itself. *)
THEOREM OpenInputIsLine == Spec => []OpenReadsLine
<1>1. Inv => OpenReadsLine
  <2> SUFFICES ASSUME Inv, AtRest, ~gated, ~disturbed
               PROVE  out = pin /\ enabled = 1
    BY DEF OpenReadsLine
  <2>1. /\ queue["io"] = <<>> /\ queue["output"] = <<>>
        /\ run["io"] = <<>> /\ run["output"] = <<>>
    BY DEF AtRest, ThreadsIdle, Threads
  <2>2. line = "input"
    BY <2>1, Tags DEF Inv, LinePhase
  <2>3. LastSetter = <<>> /\ <<>> \notin Initials
    BY <2>1, LastInEmpty, SettersAreDistinct, SettersAre DEF LastSetter, Now
  <2>4. ~Reads /\ ~ToOpen
    BY <2>1, ToSetSmall, Tags DEF Reads, Reading, Edges, ToOpen
  <2>5. edges = <<>>
    BY <2>2, <2>4 DEF Inv, OpenInv, AtRest
  <2> QED
    BY <2>2, <2>3, <2>4, <2>5 DEF Inv, OpenInv, LastLevel
<1> QED
  BY <1>1, InvHolds, PTL

(* io never blocks in event_read, as long as the gate waits for its last
   change: whoever is called to read an edge finds one. *)
THEOREM ReadsNeverBlock == Spec => []NeverBlocks
<1>1. Inv => NeverBlocks
  BY IoAt DEF Inv, NeverBlocks, OneWait, ToRead, Handlers
<1> QED
  BY <1>1, InvHolds, PTL
==============================================================================

----------------------------- MODULE LogicTiming -----------------------------
(***************************************************************************)
(* One Logic block in time: the filters of its inputs (input_stable_usec)  *)
(* and the delay of its output (delay_usec).  All of it runs on io.        *)
(*                                                                         *)
(* Time passes in ticks, and nothing else takes any.  Timers are late at   *)
(* will, never early.  A point in time is kept as the ticks since then or  *)
(* until then, as far as the code compares them.                           *)
(***************************************************************************)
EXTENDS LogicGate, Sequences

CONSTANTS
  Block,     \* the block
  Stable,    \* inputStableUsec of its input for each signal
  Delay,     \* delayOutputUsec
  RingSize   \* the capacity of outQueue: 100 in the code

Inputs == Block.and \cup Block.or
Read == InputsOf(Block)

ASSUME ConstantsAssumption ==
  /\ Block \in Logic
  /\ \A i, j \in Inputs : i.signal = j.signal => i = j
  /\ Stable \in [Read -> Nat]
  /\ Delay \in Nat
  /\ RingSize \in Nat \ {0, 1}

Off == -1

Inverts(s) == \E i \in Inputs : i.signal = s /\ i.invert

VARIABLES
  level,       \* Signal::active of the inputs' signals
  age,         \* ticks since lastLevelChangeTime, as far as Stable
  seen,        \* LogicInput::level
  filter,      \* ticks left of LogicInput::timer, or Off
  lastValue,   \* Undefined until lastValueValid
  outQueue,    \* its events [level, left]
  timer,       \* ticks left of Logic::timer, or Off
  out,         \* level of the block's signal
  calls,       \* external: calls io has to make, "Update" and "TimerHandler"
  overflowed   \* history: an event was overwritten before it was due

inputs == <<level, age>>
vars == <<inputs, seen, filter, lastValue, outQueue, timer, out, calls, overflowed>>

TypeOK ==
  /\ level \in [Read -> Level]
  /\ \A s \in Read : age[s] \in 0 .. Stable[s]
  /\ seen \in [Read -> {0, 1}]
  /\ \A s \in Read : filter[s] \in {Off} \cup 0 .. Stable[s]
  /\ lastValue \in Level
  /\ outQueue \in Seq([level : {0, 1}, left : 0 .. Delay])
  /\ Len(outQueue) <= RingSize
  /\ timer \in {Off} \cup 0 .. Delay
  /\ out \in Level
  /\ calls \subseteq {"Update", "TimerHandler"}
  /\ overflowed \in BOOLEAN

Init ==
  /\ level = [s \in Read |-> Undefined]
  /\ age = [s \in Read |-> 0]
  /\ seen = [s \in Read |-> 0]
  /\ filter = [s \in Read |-> Off]
  /\ lastValue = Undefined
  /\ outQueue = <<>>
  /\ timer = Off
  /\ out = Undefined
  /\ calls = {"Update"}
  /\ overflowed = FALSE

-----------------------------------------------------------------------------
(* LogicInput::GetLevel: the value it returns and the timer it starts. *)

Asked(s) == IF Inverts(s) THEN 1 - level[s] ELSE level[s]

Settled(s) == age[s] = Stable[s]

GetLevelUnchecked(s) == IF Settled(s) THEN Asked(s) ELSE seen[s]   \* mutant
GetLevel(s) ==
  IF level[s] = Undefined THEN 0 ELSE IF Settled(s) THEN Asked(s) ELSE seen[s]

RestartsWhole(s) == Stable[s]   \* mutant
Restarts(s) == Stable[s] - age[s]

FilterAfter(s) ==
  IF level[s] # Undefined /\ ~Settled(s) THEN Restarts(s) ELSE filter[s]

(* The gates of the block take what its inputs return for the levels of
   signals that are not inverted. *)
ResultOf(values) ==
  Result(Block, [s \in Read |-> IF Inverts(s) THEN 1 - values[s] ELSE values[s]])

-----------------------------------------------------------------------------
(* Logic::Update and Logic::TimerHandler. *)

PushReplacing(e) ==   \* mutant: a pending event is replaced
  /\ outQueue' = Append(SubSeq(outQueue, 1, Len(outQueue) - 1), e)
  /\ UNCHANGED overflowed

(* circular_buffer::push_back. *)
Push(e) ==
  /\ outQueue' = Append(IF Len(outQueue) = RingSize THEN Tail(outQueue)
                        ELSE outQueue, e)
  /\ overflowed' = (overflowed \/ Len(outQueue) = RingSize)

StartsTimer == outQueue = <<>>

Emit(v) ==
  IF Delay = 0
    THEN /\ out' = v
         /\ UNCHANGED <<outQueue, timer, overflowed>>
    ELSE /\ Push([level |-> v, left |-> Delay])
         /\ timer' = IF StartsTimer THEN outQueue'[1].left ELSE timer
         /\ UNCHANGED out

Update ==
  /\ "Update" \in calls
  /\ calls' = calls \ {"Update"}
  /\ seen' = [s \in Read |-> GetLevel(s)]
  /\ filter' = [s \in Read |-> FilterAfter(s)]
  /\ lastValue' = ResultOf(seen')
  /\ IF lastValue' # lastValue THEN Emit(lastValue')
     ELSE UNCHANGED <<outQueue, timer, out, overflowed>>
  /\ UNCHANGED inputs

(* The next event is due as long after this one as it was raised. *)
WaitsAtOnce(rest) ==   \* mutant: expires_after is not called
  IF rest = <<>> THEN Off ELSE 0
WaitsOnNever(rest) == Off   \* mutant
WaitsOn(rest) == IF rest = <<>> THEN Off ELSE rest[1].left

TimerHandler ==
  /\ "TimerHandler" \in calls
  /\ calls' = calls \ {"TimerHandler"}
  /\ out' = Head(outQueue).level
  /\ outQueue' = Tail(outQueue)
  /\ timer' = WaitsOn(Tail(outQueue))
  /\ UNCHANGED <<inputs, seen, filter, lastValue, overflowed>>

-----------------------------------------------------------------------------
(* What calls them.  A change of a signal is propagated to the block. *)

Drive(s, v) ==
  /\ level[s] # v
  /\ level' = [level EXCEPT ![s] = v]
  /\ age' = [age EXCEPT ![s] = 0]
  /\ calls' = calls \cup {"Update"}
  /\ UNCHANGED <<seen, filter, lastValue, outQueue, timer, out, overflowed>>

FilterExpires(s) ==
  /\ filter[s] = 0
  /\ filter' = [filter EXCEPT ![s] = Off]
  /\ calls' = calls \cup {"Update"}
  /\ UNCHANGED <<inputs, seen, lastValue, outQueue, timer, out, overflowed>>

TimerExpires ==
  /\ timer = 0
  /\ timer' = Off
  /\ calls' = calls \cup {"TimerHandler"}
  /\ UNCHANGED <<inputs, seen, filter, lastValue, outQueue, out, overflowed>>

Less(n) == IF n > 0 THEN n - 1 ELSE n

Tick ==
  /\ age' = [s \in Read |-> IF Settled(s) THEN age[s] ELSE age[s] + 1]
  /\ filter' = [s \in Read |-> Less(filter[s])]
  /\ timer' = Less(timer)
  /\ outQueue' = [i \in DOMAIN outQueue |->
                    [level |-> outQueue[i].level, left |-> Less(outQueue[i].left)]]
  /\ UNCHANGED <<level, seen, lastValue, out, calls, overflowed>>

Drives == \E s \in Read, v \in {0, 1} : Drive(s, v)
Expires == TimerExpires \/ \E s \in Read : FilterExpires(s)

Next == Update \/ TimerHandler \/ Drives \/ Expires \/ Tick

Spec == Init /\ [][Next]_vars

Fairness ==
  /\ WF_vars(Update) /\ WF_vars(TimerHandler) /\ WF_vars(TimerExpires)
  /\ \A s \in Read : WF_vars(FilterExpires(s))
  /\ WF_vars(Tick)

FairSpec == Spec /\ Fairness

-----------------------------------------------------------------------------
(* Properties. *)

(* An input that has not changed for Stable is read as its level as soon as
   nothing is left to call (doc/config.md:229): no sequence of changes and
   restarts of the filter's timer makes the block overlook or delay it. *)
StableInputIsRead ==
  "Update" \notin calls /\ (\A s \in Read : filter[s] # 0) =>
    \A s \in Read :
      level[s] # Undefined /\ Settled(s) => seen[s] = Asked(s)

(* The delay loses no pulse, however short (tests/Logic_test.cpp:445), while
   the ring is large enough: what is on its way to the output takes turns,
   from the output's level to the block's last value. *)
Way == <<out>> \o [i \in DOMAIN outQueue |-> outQueue[i].level]

NothingLost ==
  ~overflowed =>
    /\ \A i \in 1 .. Len(outQueue) : Way[i] # Way[i + 1]
    /\ Way[Len(Way)] = lastValue

(* The output changes no earlier than Delay after the block's value has
   ("Fixed delay of output driver", doc/config.md:183). *)
NeverEarly ==
  [][out' # out /\ Delay > 0 /\ ~overflowed => Head(outQueue).left = 0]_vars

(* When the inputs stay as they are, the output ends at what the gates make
   of their levels, even if the ring has overflowed. *)
Final == Result(Block, level)
OutputFollows == <>[][~Drives]_vars => <>[](out = Final)
==============================================================================

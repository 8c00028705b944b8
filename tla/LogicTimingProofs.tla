-------------------------- MODULE LogicTimingProofs --------------------------
(***************************************************************************)
(* What LogicTiming keeps true for every block, all filters of its inputs, *)
(* every delay and every capacity of the ring.                             *)
(*                                                                         *)
(* A filter that is awaited expires when its input has become stable; the  *)
(* timer of the output is awaited, or its handler is to be called, exactly *)
(* while an event is in the ring, and it is due with the first of them.    *)
(***************************************************************************)
EXTENDS LogicTiming, SequenceTheorems, TLAPS

-----------------------------------------------------------------------------
(* The invariant. *)

Delayed == [level : {0, 1}, left : 0 .. Delay]

InputTypes ==
  /\ level \in [Read -> Level]
  /\ age \in [Read -> Int] /\ \A s \in Read : age[s] \in 0 .. Stable[s]
  /\ seen \in [Read -> {0, 1}]
  /\ filter \in [Read -> Int] /\ \A s \in Read : filter[s] \in {Off} \cup 0 .. Stable[s]

OutputTypes ==
  /\ lastValue \in Level
  /\ outQueue \in Seq(Delayed)
  /\ Len(outQueue) <= RingSize
  /\ timer \in {Off} \cup 0 .. Delay
  /\ out \in Level
  /\ calls \subseteq {"Update", "TimerHandler"}
  /\ overflowed \in BOOLEAN

(* What the filter of s is about, when Update is not to be called. *)
FilterInv(s) ==
  level[s] # Undefined =>
    IF Settled(s) THEN seen[s] = Asked(s) \/ filter[s] = 0
    ELSE filter[s] = Stable[s] - age[s]
FiltersInv == "Update" \notin calls => \A s \in Read : FilterInv(s)

(* What the timer of the output waits for. *)
TimerInv ==
  /\ outQueue # <<>> <=> timer # Off \/ "TimerHandler" \in calls
  /\ timer = Off \/ "TimerHandler" \notin calls
  /\ Delay = 0 => outQueue = <<>>
DueInv ==
  ~overflowed =>
    /\ timer # Off => outQueue[1].left = timer
    /\ "TimerHandler" \in calls => outQueue[1].left = 0

(* NothingLost, without Way. *)
Events == Len(outQueue)
TurnsInv ==
  ~overflowed =>
    /\ Events = 0 => out = lastValue
    /\ Events > 0 => /\ out # outQueue[1].level
                     /\ outQueue[Events].level = lastValue
    /\ \A i \in 1 .. Events - 1 : outQueue[i].level # outQueue[i + 1].level

Inv == InputTypes /\ OutputTypes /\ FiltersInv /\ TimerInv /\ DueInv /\ TurnsInv

-----------------------------------------------------------------------------
(* Inputs. *)

(* What Update makes of the inputs is one of two values, whatever they are. *)
LEMMA ResultIsLevel == \A values : ResultOf(values) \in {0, 1}
BY DEF ResultOf, Result, ToLevel

(* The level of an input, inverted or not, is 0 or 1 once it is driven. *)
LEMMA AskedIsLevel ==
  ASSUME InputTypes, NEW s \in Read, level[s] # Undefined
  PROVE  Asked(s) \in {0, 1}
BY DEF InputTypes, Level, Undefined, Asked

(* Update reads the inputs and keeps their types. *)
LEMMA UpdateInputs ==
  ASSUME InputTypes, OutputTypes, Update
  PROVE  InputTypes' /\ FiltersInv'
<1>1. /\ UNCHANGED <<level, age>>
      /\ seen' = [s \in Read |-> GetLevel(s)]
      /\ filter' = [s \in Read |-> FilterAfter(s)]
  BY DEF Update, inputs
<1>2. ASSUME NEW s \in Read
      PROVE  /\ GetLevel(s) \in {0, 1}
             /\ FilterAfter(s) \in {Off} \cup 0 .. Stable[s]
             /\ FilterInv(s)'
  <2>1. age[s] \in 0 .. Stable[s] /\ Stable[s] \in Nat /\ seen[s] \in {0, 1}
        /\ filter[s] \in {Off} \cup 0 .. Stable[s]
    BY ConstantsAssumption DEF InputTypes
  <2>2. GetLevel(s) \in {0, 1}
    BY <2>1, AskedIsLevel DEF GetLevel
  <2>3. FilterAfter(s) \in {Off} \cup 0 .. Stable[s]
    BY <2>1 DEF FilterAfter, Restarts, Settled
  <2>4. seen'[s] = GetLevel(s) /\ filter'[s] = FilterAfter(s)
    BY <1>1
  <2>5. FilterInv(s)'
    BY <1>1, <2>1, <2>4
       DEF FilterInv, GetLevel, FilterAfter, Restarts, Settled, Asked
  <2> QED
    BY <2>2, <2>3, <2>5
<1>3. \A s \in Read : FilterAfter(s) \in Int
  BY <1>2, ConstantsAssumption DEF Off
<1> QED
  BY <1>1, <1>2, <1>3 DEF InputTypes, FiltersInv

(* A change of a signal calls for an Update. *)
LEMMA DrivesInputs ==
  ASSUME InputTypes, OutputTypes, Drives
  PROVE  InputTypes' /\ FiltersInv' /\ calls' = calls \cup {"Update"}
<1>1. PICK s \in Read, v \in {0, 1} : Drive(s, v)
  BY DEF Drives
<1>2. 0 \in 0 .. Stable[s]
  BY ConstantsAssumption
<1> QED
  BY <1>1, <1>2 DEF Drive, InputTypes, FiltersInv, Level

(* So does a filter that has expired. *)
LEMMA FilterExpiresInputs ==
  ASSUME InputTypes, OutputTypes, NEW s \in Read, FilterExpires(s)
  PROVE  InputTypes' /\ FiltersInv' /\ calls' = calls \cup {"Update"}
BY DEF FilterExpires, InputTypes, FiltersInv, inputs, Off

(* Time passes: an input that becomes stable has its filter expire now. *)
LEMMA TickInputs ==
  ASSUME InputTypes, OutputTypes, FiltersInv, Tick
  PROVE  InputTypes' /\ FiltersInv'
<1>1. /\ UNCHANGED <<level, seen, calls>>
      /\ age' = [s \in Read |-> IF Settled(s) THEN age[s] ELSE age[s] + 1]
      /\ filter' = [s \in Read |-> Less(filter[s])]
  BY DEF Tick
<1>2. ASSUME NEW s \in Read
      PROVE  /\ age'[s] \in 0 .. Stable[s] /\ age'[s] \in Int
             /\ filter'[s] \in {Off} \cup 0 .. Stable[s] /\ filter'[s] \in Int
             /\ FilterInv(s) => FilterInv(s)'
  <2>1. age[s] \in 0 .. Stable[s] /\ Stable[s] \in Nat
        /\ filter[s] \in {Off} \cup 0 .. Stable[s]
    BY ConstantsAssumption DEF InputTypes
  <2>2. /\ age'[s] = IF age[s] = Stable[s] THEN age[s] ELSE age[s] + 1
        /\ filter'[s] = IF filter[s] > 0 THEN filter[s] - 1 ELSE filter[s]
    BY <1>1 DEF Settled, Less
  <2>3. Asked(s)' = Asked(s)
    BY <1>1 DEF Asked
  <2> QED
    BY <1>1, <2>1, <2>2, <2>3 DEF FilterInv, Settled, Off
<1> QED
  BY <1>1, <1>2 DEF InputTypes, FiltersInv

-----------------------------------------------------------------------------
(* The output. *)

OutputInv == OutputTypes /\ TimerInv /\ DueInv /\ TurnsInv

(* A value that is delayed goes behind those that are on their way. *)
LEMMA PushKeepsOutput ==
  ASSUME OutputInv, NEW v \in {0, 1}, v # lastValue, lastValue' = v, Delay > 0,
         "TimerHandler" \in calls' <=> "TimerHandler" \in calls,
         calls' \subseteq {"Update", "TimerHandler"},
         Push([level |-> v, left |-> Delay]),
         timer' = (IF StartsTimer THEN outQueue'[1].left ELSE timer),
         UNCHANGED out
  PROVE  OutputInv'
<1> DEFINE e == [level |-> v, left |-> Delay]
<1>1. /\ e \in Delayed /\ e.level = v /\ e.left = Delay
      /\ outQueue \in Seq(Delayed) /\ Events \in Nat /\ Events <= RingSize
      /\ RingSize \in Nat /\ RingSize > 1
      /\ overflowed \in BOOLEAN
  BY ConstantsAssumption DEF Delayed, OutputInv, OutputTypes, Events
<1>2. CASE Events = RingSize
  <2>1. outQueue' = Append(Tail(outQueue), e) /\ overflowed' = TRUE
    BY <1>2 DEF Push, Events
  <2>2. /\ Tail(outQueue) \in Seq(Delayed) /\ Len(Tail(outQueue)) = Events - 1
    BY <1>1, <1>2 DEF Events
  <2>3. outQueue' \in Seq(Delayed) /\ Len(outQueue') = Events /\ outQueue' # <<>>
    BY <1>1, <1>2, <2>1, <2>2
  <2>4. ~StartsTimer /\ outQueue # <<>>
    BY <1>1, <1>2 DEF StartsTimer, Events
  <2>5. OutputTypes' /\ TimerInv'
    BY <1>1, <2>1, <2>3, <2>4 DEF OutputInv, OutputTypes, TimerInv, Level, Events
  <2> QED
    BY <2>1, <2>5 DEF OutputInv, DueInv, TurnsInv
<1>3. CASE Events # RingSize
  <2>1. outQueue' = Append(outQueue, e) /\ overflowed' = overflowed
    BY <1>1, <1>3 DEF Push, Events
  <2>2. /\ outQueue' \in Seq(Delayed) /\ Len(outQueue') = Events + 1
        /\ outQueue'[Events + 1] = e /\ outQueue' # <<>>
        /\ \A i \in 1 .. Events : outQueue'[i] = outQueue[i]
    BY <1>1, <2>1 DEF Events
  <2>3. Events = 0 <=> StartsTimer
    BY <1>1 DEF StartsTimer, Events
  <2> HIDE DEF e
  <2>4. timer' = (IF Events = 0 THEN Delay ELSE timer)
    BY <1>1, <2>2, <2>3
  <2>5. OutputTypes'
    BY <1>1, <1>3, <2>1, <2>2, <2>4, ConstantsAssumption
       DEF OutputInv, OutputTypes, Level, Events
  <2>6. TimerInv'
    BY <1>1, <2>2, <2>3, <2>4, ConstantsAssumption
       DEF OutputInv, TimerInv, Off, StartsTimer
  <2>7. DueInv'
    <3>1. CASE Events = 0
      BY <1>1, <2>1, <2>2, <2>3, <2>4, <3>1
         DEF OutputInv, DueInv, TimerInv, StartsTimer
    <3>2. CASE Events > 0
      <4>1. outQueue'[1] = outQueue[1]
        BY <1>1, <2>2, <3>2
      <4> QED
        BY <2>1, <2>4, <3>2, <4>1 DEF OutputInv, DueInv
    <3> QED
      BY <1>1, <3>1, <3>2
  <2>8. TurnsInv'
    <3>1. SUFFICES ASSUME ~overflowed
                   PROVE  /\ out # outQueue'[1].level
                          /\ outQueue'[Events + 1].level = v
                          /\ \A i \in 1 .. Events :
                                outQueue'[i].level # outQueue'[i + 1].level
      BY <1>1, <2>1, <2>2 DEF TurnsInv, Events
    <3>2. /\ Events = 0 => out = lastValue
          /\ Events > 0 => /\ out # outQueue[1].level
                           /\ outQueue[Events].level = lastValue
          /\ \A i \in 1 .. Events - 1 : outQueue[i].level # outQueue[i + 1].level
      BY <3>1 DEF OutputInv, TurnsInv
    <3>3. out # outQueue'[1].level
      BY <1>1, <2>2, <3>2
    <3>4. ASSUME NEW i \in 1 .. Events
          PROVE  outQueue'[i].level # outQueue'[i + 1].level
      <4>1. CASE i = Events
        BY <1>1, <2>2, <3>2, <4>1
      <4>2. CASE i # Events
        <5>1. i \in 1 .. Events - 1 /\ i + 1 \in 1 .. Events
          BY <1>1, <4>2
        <5> QED
          BY <2>2, <3>2, <5>1
      <4> QED
        BY <4>1, <4>2
    <3> QED
      BY <1>1, <2>2, <3>3, <3>4
  <2> QED
    BY <2>5, <2>6, <2>7, <2>8 DEF OutputInv
<1> QED
  BY <1>2, <1>3

(* Update, as far as the output goes. *)
LEMMA UpdateOutput ==
  ASSUME InputTypes, OutputInv, Update
  PROVE  OutputInv'
<1>1. /\ calls' = calls \ {"Update"} /\ calls \subseteq {"Update", "TimerHandler"}
      /\ lastValue' \in {0, 1}
  BY ResultIsLevel DEF Update, OutputInv, OutputTypes
<1>2. CASE lastValue' = lastValue
  <2>1. UNCHANGED <<outQueue, timer, out, overflowed>>
    BY <1>2 DEF Update
  <2> QED
    BY <1>1, <1>2, <2>1
       DEF OutputInv, OutputTypes, TimerInv, DueInv, TurnsInv, Events
<1>3. CASE lastValue' # lastValue
  <2>1. Emit(lastValue')
    BY <1>3 DEF Update
  <2>2. CASE Delay = 0
    <3>1. out' = lastValue' /\ UNCHANGED <<outQueue, timer, overflowed>>
      BY <2>1, <2>2 DEF Emit
    <3>2. outQueue = <<>> /\ Len(<<>>) = 0
      BY <2>2 DEF OutputInv, TimerInv
    <3> QED
      BY <1>1, <3>1, <3>2
         DEF OutputInv, OutputTypes, TimerInv, DueInv, TurnsInv, Events, Level
  <2>3. CASE Delay # 0
    <3>1. Delay > 0
      BY <2>3, ConstantsAssumption
    <3>2. /\ Push([level |-> lastValue', left |-> Delay])
          /\ timer' = (IF StartsTimer THEN outQueue'[1].left ELSE timer)
          /\ UNCHANGED out
      BY <2>1, <2>3 DEF Emit
    <3>3. "TimerHandler" \in calls' <=> "TimerHandler" \in calls
      BY <1>1
    <3> QED
      BY <1>1, <1>3, <3>1, <3>2, <3>3, PushKeepsOutput
  <2> QED
    BY <2>2, <2>3
<1> QED
  BY <1>2, <1>3

(* The first event is handled: the next one becomes the first. *)
LEMMA TimerHandlerOutput ==
  ASSUME OutputInv, TimerHandler
  PROVE  OutputInv'
<1> DEFINE q == Tail(outQueue)
<1>1. /\ calls' = calls \ {"TimerHandler"} /\ out' = Head(outQueue).level
      /\ outQueue' = q /\ timer' = (IF q = <<>> THEN Off ELSE q[1].left)
      /\ UNCHANGED <<lastValue, overflowed>>
      /\ "TimerHandler" \in calls
  BY DEF TimerHandler, WaitsOn
<1>2. /\ outQueue \in Seq(Delayed) /\ outQueue # <<>> /\ Events \in Nat \ {0}
      /\ timer = Off /\ Events <= RingSize /\ RingSize \in Nat
      /\ overflowed \in BOOLEAN
  BY <1>1, ConstantsAssumption DEF OutputInv, TimerInv, OutputTypes, Events
<1>3. /\ q \in Seq(Delayed) /\ Len(q) = Events - 1 /\ Head(outQueue) = outQueue[1]
      /\ \A i \in 1 .. Events - 1 : q[i] = outQueue[i + 1]
      /\ outQueue[1] \in Delayed
  BY <1>2 DEF Events
<1>4. q = <<>> <=> Events = 1
  BY <1>2, <1>3
<1> HIDE DEF q
<1>5. Events # 1 => q[1] \in Delayed /\ q[1] = outQueue[2]
  BY <1>2, <1>3, <1>4
<1>6. \A e \in Delayed : e.level \in {0, 1} /\ e.left \in 0 .. Delay /\ e.left # Off
  BY ConstantsAssumption DEF Delayed, Off
<1>7. OutputTypes'
  BY <1>1, <1>2, <1>3, <1>4, <1>5, <1>6 DEF OutputInv, OutputTypes, Level, Events
<1>8. TimerInv' /\ DueInv'
  BY <1>1, <1>2, <1>3, <1>4, <1>5, <1>6 DEF OutputInv, TimerInv, DueInv
<1>9. TurnsInv'
  <2>1. SUFFICES ASSUME ~overflowed
                 PROVE  /\ Events - 1 = 0 => out' = lastValue
                        /\ Events - 1 > 0 => /\ out' # q[1].level
                                            /\ q[Events - 1].level = lastValue
                        /\ \A i \in 1 .. Events - 2 : q[i].level # q[i + 1].level
    BY <1>1, <1>2, <1>3 DEF TurnsInv, Events
  <2>2. /\ outQueue[Events].level = lastValue
        /\ \A i \in 1 .. Events - 1 : outQueue[i].level # outQueue[i + 1].level
    BY <1>2, <2>1 DEF OutputInv, TurnsInv
  <2>3. Events - 1 = 0 => out' = lastValue
    BY <1>1, <1>2, <1>3, <2>2
  <2>4. Events - 1 > 0 => out' # q[1].level /\ q[Events - 1].level = lastValue
    BY <1>1, <1>2, <1>3, <2>2
  <2>5. ASSUME NEW i \in 1 .. Events - 2 PROVE q[i].level # q[i + 1].level
    <3>1. i \in 1 .. Events - 1 /\ i + 1 \in 1 .. Events - 1
      BY <1>2
    <3> QED
      BY <1>3, <2>2, <3>1
  <2> QED
    BY <2>3, <2>4, <2>5
<1> QED
  BY <1>7, <1>8, <1>9 DEF OutputInv

(* The first event is due. *)
LEMMA TimerExpiresOutput ==
  ASSUME OutputInv, TimerExpires
  PROVE  OutputInv'
<1>1. /\ timer = 0 /\ timer' = Off /\ calls' = calls \cup {"TimerHandler"}
      /\ UNCHANGED <<lastValue, outQueue, out, overflowed>>
  BY DEF TimerExpires
<1> QED
  BY <1>1 DEF OutputInv, OutputTypes, TimerInv, DueInv, TurnsInv, Off, Events

(* Time passes for all events alike. *)
LEMMA TickOutput ==
  ASSUME OutputInv, Tick
  PROVE  OutputInv'
<1>1. /\ UNCHANGED <<lastValue, out, calls, overflowed>>
      /\ timer' = Less(timer)
      /\ outQueue' = [i \in DOMAIN outQueue |->
                        [level |-> outQueue[i].level, left |-> Less(outQueue[i].left)]]
  BY DEF Tick
<1>2. /\ outQueue \in Seq(Delayed) /\ DOMAIN outQueue = 1 .. Events /\ Events \in Nat
      /\ timer \in {Off} \cup 0 .. Delay /\ Delay \in Nat
  BY ConstantsAssumption DEF OutputInv, OutputTypes, Events
<1>3. ASSUME NEW i \in 1 .. Events
      PROVE  /\ outQueue'[i] \in Delayed
             /\ outQueue'[i].level = outQueue[i].level
             /\ outQueue'[i].left = Less(outQueue[i].left)
  <2>1. outQueue[i] \in Delayed
    BY <1>2 DEF Events
  <2>2. outQueue[i].level \in {0, 1} /\ outQueue[i].left \in 0 .. Delay
    BY <2>1 DEF Delayed
  <2>3. Less(outQueue[i].left) \in 0 .. Delay
    BY <1>2, <2>2 DEF Less
  <2> QED
    BY <1>1, <1>2, <2>2, <2>3 DEF Delayed
<1>4. outQueue' \in Seq(Delayed) /\ Len(outQueue') = Events
  BY <1>1, <1>2, <1>3
<1>5. outQueue' = <<>> <=> outQueue = <<>>
  BY <1>2, <1>4 DEF Events
<1>6. timer' \in {Off} \cup 0 .. Delay /\ (timer' = Off <=> timer = Off)
  BY <1>1, <1>2 DEF Less, Off
<1>7. OutputTypes' /\ TimerInv'
  BY <1>1, <1>4, <1>5, <1>6 DEF OutputInv, OutputTypes, TimerInv, Events
<1>8. DueInv'
  <2>1. SUFFICES ASSUME ~overflowed, timer # Off \/ "TimerHandler" \in calls
                 PROVE  DueInv'
    BY <1>1, <1>6 DEF DueInv
  <2>2. 1 \in 1 .. Events
    BY <1>2, <2>1 DEF OutputInv, TimerInv, Events
  <2>3. outQueue'[1].left = Less(outQueue[1].left) /\ Less(0) = 0
    BY <1>3, <2>2 DEF Less
  <2> QED
    BY <1>1, <1>6, <2>1, <2>3 DEF OutputInv, DueInv
<1>9. TurnsInv'
  <2>1. SUFFICES ASSUME ~overflowed PROVE TurnsInv'
    BY <1>1 DEF TurnsInv
  <2>2. \A i \in 1 .. Events - 1 : i \in 1 .. Events /\ i + 1 \in 1 .. Events
    BY <1>2
  <2>3. Events > 0 => 1 \in 1 .. Events /\ Events \in 1 .. Events
    BY <1>2
  <2>4. Events' = Events
    BY <1>4 DEF Events
  <2> QED
    BY <1>1, <1>3, <2>1, <2>2, <2>3, <2>4 DEF OutputInv, TurnsInv
<1> QED
  BY <1>7, <1>8, <1>9 DEF OutputInv

(* What the inputs do only calls for Update. *)
LEMMA OutputStays ==
  ASSUME OutputInv, UNCHANGED <<lastValue, outQueue, timer, out, overflowed>>,
         calls' \in {calls, calls \cup {"Update"}}
  PROVE  OutputInv'
BY DEF OutputInv, OutputTypes, TimerInv, DueInv, TurnsInv, Events

-----------------------------------------------------------------------------
(* The theorems. *)

(* The invariant holds before the first Update. *)
LEMMA InitInv == Init => Inv
<1> SUFFICES ASSUME Init PROVE Inv
  OBVIOUS
<1>1. InputTypes
  BY ConstantsAssumption DEF Init, InputTypes, Level, Off, Undefined
<1>2. OutputTypes
  <2>1. outQueue \in Seq(Delayed) /\ Len(outQueue) = 0
    BY DEF Init
  <2>2. Len(outQueue) <= RingSize
    BY <2>1, ConstantsAssumption
  <2>3. calls \subseteq {"Update", "TimerHandler"}
    BY DEF Init
  <2> QED
    BY <2>1, <2>2, <2>3 DEF Init, OutputTypes, Level
<1>3. FiltersInv /\ TimerInv /\ DueInv
  BY DEF Init, FiltersInv, TimerInv, DueInv
<1>4. TurnsInv
  BY DEF Init, TurnsInv, Events
<1> QED
  BY <1>1, <1>2, <1>3, <1>4 DEF Inv

(* Every step keeps the invariant. *)
LEMMA NextKeepsInv == Inv /\ [Next]_vars => Inv'
<1> SUFFICES ASSUME Inv, [Next]_vars PROVE Inv'
  OBVIOUS
<1>1. InputTypes /\ FiltersInv /\ OutputInv /\ OutputTypes
  BY DEF Inv, OutputInv
<1>2. SUFFICES InputTypes' /\ FiltersInv' /\ OutputInv'
  BY DEF Inv, OutputInv
<1>3. CASE Update
  BY <1>1, <1>3, UpdateInputs, UpdateOutput
<1>4. CASE TimerHandler
  <2>1. InputTypes' /\ FiltersInv'
    BY <1>1, <1>4
       DEF TimerHandler, InputTypes, FiltersInv, FilterInv, inputs, Settled, Asked
  <2> QED
    BY <1>1, <1>4, <2>1, TimerHandlerOutput
<1>5. CASE Drives
  BY <1>1, <1>5, DrivesInputs, OutputStays DEF Drives, Drive
<1>6. CASE TimerExpires
  <2>1. InputTypes' /\ FiltersInv'
    BY <1>1, <1>6
       DEF TimerExpires, InputTypes, FiltersInv, FilterInv, inputs, Settled, Asked
  <2> QED
    BY <1>1, <1>6, <2>1, TimerExpiresOutput
<1>7. CASE \E s \in Read : FilterExpires(s)
  BY <1>1, <1>7, FilterExpiresInputs, OutputStays DEF FilterExpires
<1>8. CASE Tick
  BY <1>1, <1>8, TickInputs, TickOutput
<1>9. CASE UNCHANGED vars
  <2>1. InputTypes' /\ FiltersInv'
    BY <1>1, <1>9
       DEF vars, InputTypes, FiltersInv, FilterInv, inputs, Settled, Asked
  <2> QED
    BY <1>1, <1>9, <2>1, OutputStays DEF vars
<1> QED
  BY <1>3, <1>4, <1>5, <1>6, <1>7, <1>8, <1>9 DEF Next, Expires

(* The invariant holds in every state that can be reached. *)
THEOREM InvHolds == Spec => []Inv
BY InitInv, NextKeepsInv, PTL DEF Spec

(* The types of LogicTiming hold for every block: the output's timer is never
   handled without an event in the ring. *)
THEOREM TypeCorrect == Spec => []TypeOK
<1>1. Inv => TypeOK
  BY DEF Inv, InputTypes, OutputTypes, TypeOK, Delayed
<1> QED
  BY <1>1, InvHolds, PTL

(* A stable input is read as its level, for all filters: FiltersInv, when the
   filter of the input has not just expired. *)
THEOREM InputsAreRead == Spec => []StableInputIsRead
<1>1. Inv => StableInputIsRead
  BY DEF Inv, FiltersInv, FilterInv, StableInputIsRead
<1> QED
  BY <1>1, InvHolds, PTL

(* The delay loses no pulse, for every delay and capacity of the ring:
   TurnsInv is NothingLost, event by event. *)
THEOREM PulsesAreNotLost == Spec => []NothingLost
<1>1. Inv => NothingLost
  <2> SUFFICES ASSUME Inv, ~overflowed
               PROVE  /\ \A i \in 1 .. Len(outQueue) : Way[i] # Way[i + 1]
                      /\ Way[Len(Way)] = lastValue
    BY DEF NothingLost
  <2> DEFINE levels == [i \in DOMAIN outQueue |-> outQueue[i].level]
  <2>1. outQueue \in Seq(Delayed) /\ DOMAIN outQueue = 1 .. Events /\ Events \in Nat
        /\ out \in Level
    BY DEF Inv, OutputTypes, Events
  <2>2. levels \in Seq(Level) /\ Len(levels) = Events
        /\ \A i \in 1 .. Events : levels[i] = outQueue[i].level
    <3>1. \A e \in Delayed : e.level \in Level
      BY DEF Delayed, Level
    <3> QED
      BY <2>1, <3>1
  <2>3. Way = <<out>> \o levels
    BY DEF Way
  <2> HIDE DEF levels
  <2>4. /\ Len(Way) = Events + 1 /\ Way[1] = out
        /\ \A i \in 1 .. Events : Way[i + 1] = outQueue[i].level
    BY <2>1, <2>2, <2>3
  <2>5. /\ Events = 0 => out = lastValue
        /\ Events > 0 => /\ out # outQueue[1].level
                         /\ outQueue[Events].level = lastValue
        /\ \A i \in 1 .. Events - 1 : outQueue[i].level # outQueue[i + 1].level
    BY DEF Inv, TurnsInv
  <2>6. ASSUME NEW i \in 1 .. Events PROVE Way[i] # Way[i + 1]
    <3>1. CASE i = 1
      BY <2>1, <2>4, <2>5, <3>1
    <3>2. CASE i # 1
      <4>1. i - 1 \in 1 .. Events - 1 /\ i - 1 \in 1 .. Events /\ (i - 1) + 1 = i
        BY <2>1, <3>2
      <4> QED
        BY <2>4, <2>5, <4>1
    <3> QED
      BY <3>1, <3>2
  <2>7. Way[Events + 1] = lastValue
    BY <2>1, <2>4, <2>5
  <2> QED
    BY <2>4, <2>6, <2>7 DEF Events
<1> QED
  BY <1>1, InvHolds, PTL

(* The output changes no earlier than Delay after the block's value: only
   TimerHandler sets it then, and the first event is due when it is called. *)
THEOREM OutputIsNotEarly == Spec => NeverEarly
<1>1. ASSUME Inv, [Next]_vars, out' # out, Delay > 0, ~overflowed
      PROVE  Head(outQueue).left = 0
  <2>1. CASE TimerHandler
    <3>1. "TimerHandler" \in calls
      BY <2>1 DEF TimerHandler
    <3>2. outQueue \in Seq(Delayed) /\ outQueue # <<>>
      BY <1>1, <3>1 DEF Inv, OutputTypes, TimerInv
    <3>3. Head(outQueue) = outQueue[1]
      BY <3>2
    <3> QED
      BY <1>1, <3>1, <3>3 DEF Inv, DueInv
  <2>2. CASE ~TimerHandler
    BY <1>1, <2>2
       DEF Next, Update, Emit, Drives, Drive, Expires, TimerExpires, FilterExpires,
           Tick, vars
  <2> QED
    BY <2>1, <2>2
<1>2. Inv /\ [Next]_vars
        => [out' # out /\ Delay > 0 /\ ~overflowed => Head(outQueue).left = 0]_vars
  BY <1>1
<1> QED
  BY <1>2, InvHolds, PTL DEF Spec, NeverEarly
==============================================================================

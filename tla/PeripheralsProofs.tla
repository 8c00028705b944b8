-------------------------- MODULE PeripheralsProofs --------------------------
(***************************************************************************)
(* Proofs about Peripherals, for any number of children of the item, of    *)
(* changes under way and of starts of the inventory service: the types,    *)
(* that the presence signal is never stale at rest, and that neither the   *)
(* lamp nor the event log misses its last change.                          *)
(*                                                                         *)
(* Each of the three says what is still under way between a source and its *)
(* sink: the last message that io has to take (NewsIsCurrent), the call of *)
(* Apply and the call on D-Bus (LampInv), the last value that the log has  *)
(* to take (LogInv).  At rest nothing is, and the properties remain.       *)
(***************************************************************************)
EXTENDS Peripherals, QueueLemmas

-----------------------------------------------------------------------------
(* The invariant. *)

(* The match comes before the Get. *)
InOrder ==
  /\ ctor \in {<<"watch", "ask">>, <<"ask">>, <<>>}
  /\ ctor # <<"watch", "ask">> => watches

(* The last message about an object that io has to take is about a child, or
   brings what the service says; without one, io has taken it. *)
News == Message \ {Failed}
LastNews == LastIn(inbox, News, <<>>)

NewsIsCurrent ==
  ~Unanswered /\ ~Down /\ ~renewed =>
    /\ LastNews = <<>> /\ ~misled => present = inventory
    /\ LastNews # <<>> /\ LastNews.object = "item" => LastNews.present = inventory

PresenceInv == PresenceTypeOK /\ InOrder /\ NewsIsCurrent

LedCall == [output |-> "led"]
LogCall(v) == [output |-> "log", value |-> v]
LogCalls == {LogCall(v) : v \in {0, 1}}
Calls == {LedCall} \cup LogCalls

OwnTypes ==
  /\ enable \in {Undefined, 0, 1}
  /\ dirty \subseteq {"present", "enable"}
  /\ outQueue \in Seq(Calls)

(* A new level is on its way to Apply, and a level that Apply has taken is the
   last one on its way to the lamp. *)
LevelIsShown ==
  "present" \notin dirty /\ present # Undefined => newLevel = Shows(present)
LevelIsApplied == newLevel # ledLevel => applying \/ LedCall \in ToSet(outQueue)
LevelIsSent ==
  IF ledCalls = <<>> THEN ~refused => lamp = ledLevel ELSE Last(ledCalls) = ledLevel

LampInv == LedTypeOK /\ LevelIsShown /\ LevelIsApplied /\ LevelIsSent

(* The last value on its way to the log, or the one it has taken. *)
LastLog == LastIn(outQueue, LogCalls, LogCall(logLevel))
Entries(v) == IF Real(v) = 1 THEN {"asserted"} ELSE {"none", "de-asserted"}

ValueIsLogged ==
  dirty = {} /\ enable = 1 /\ present # Undefined => LastLog = LogCall(present)
EntryFits ==
  IF logLevel = Unknown THEN entry = "none" ELSE entry \in Entries(logLevel)

LogInv == LogTypeOK /\ ValueIsLogged /\ EntryFits

Inv == PresenceInv /\ OwnTypes /\ LampInv /\ LogInv

-----------------------------------------------------------------------------
(* Messages. *)

(* Replies and signals are messages, and news; an error is none. *)
LEMMA Messages ==
  /\ Failed \in Message
  /\ \A v \in {0, 1} : Reply(v) \in News
  /\ \A o \in Objects, v \in {0, 1} : Changed(o, v) \in News
  /\ News \subseteq Message /\ <<>> \notin News /\ Failed \notin News
<1>1. /\ Failed \in Message
      /\ \A v \in {0, 1} : Reply(v) \in Message
      /\ \A o \in Objects, v \in {0, 1} : Changed(o, v) \in Message
  BY DEF Message
<1>2. Failed.type = "error" /\ \A v : Reply(v).type = "reply"
  BY DEF Failed, Reply
<1>3. \A o, v : Changed(o, v).type = "changed"
  BY DEF Changed
<1>4. <<>> \notin News
  <2>1. \A m \in News : m # <<>>
    BY DEF News, Message, Reply, Changed
  <2> QED
    BY <2>1
<1> QED
  BY <1>1, <1>2, <1>3, <1>4 DEF News

(* News are about an object of the item and bring a level. *)
LEMMA NewsFields ==
  ASSUME NEW m \in News
  PROVE  m.object \in Objects /\ m.present \in {0, 1}
<1>1. \/ \E v \in {0, 1} : m = Reply(v)
      \/ \E o \in Objects, v \in {0, 1} : m = Changed(o, v)
  BY DEF News, Message
<1>2. \A v : Reply(v).object = "item" /\ Reply(v).present = v
  BY DEF Reply
<1>3. \A o, v : Changed(o, v).object = o /\ Changed(o, v).present = v
  BY DEF Changed
<1>4. "item" \in Objects
  BY DEF Objects
<1> QED
  BY <1>1, <1>2, <1>3, <1>4

(* What a message that is appended says. *)
LEMMA NewsAppended ==
  ASSUME PresenceTypeOK, NEW m \in Message, inbox' = Append(inbox, m)
  PROVE  /\ inbox' \in Seq(Message)
         /\ m \in News => LastNews' = m
         /\ m \notin News => LastNews' = LastNews
         /\ ToSet(inbox') = ToSet(inbox) \cup {m}
<1>1. inbox \in Seq(Message)
  BY DEF PresenceTypeOK
<1>2. inbox' \in Seq(Message)
  BY <1>1
<1>3. LastIn(Append(inbox, m), News, <<>>) = IF m \in News THEN m ELSE LastNews
  BY <1>1, LastInAppend DEF LastNews
<1>4. LastNews' = LastIn(inbox', News, <<>>)
  BY DEF LastNews
<1> QED
  BY <1>1, <1>2, <1>3, <1>4, ToSetAppend

-----------------------------------------------------------------------------
(* ItemPresent and its bus. *)

(* The constructor of ItemPresent keeps the invariant. *)
LEMMA ConstructStep ==
  ASSUME PresenceInv, Construct
  PROVE  PresenceInv'
<1> USE DEF PresenceInv
<1>1. CASE ctor = <<"watch", "ask">>
  <2>1. Head(ctor) = "watch" /\ Tail(ctor) = <<"ask">>
    BY <1>1, ShortHandlers
  <2>2. ctor' = <<"ask">> /\ watches'
    BY <2>1 DEF Construct
  <2>3. <<"ask">> # <<>> /\ <<"ask">> # <<"watch", "ask">>
    OBVIOUS
  <2>4. Unanswered'
    BY <2>2, <2>3 DEF Unanswered
  <2>5. <<"ask">> \in Seq({"watch", "ask"})
    OBVIOUS
  <2>6. PresenceTypeOK'
    BY <2>2, <2>5 DEF Construct, PresenceTypeOK
  <2> QED
    BY <2>2, <2>3, <2>4, <2>6 DEF InOrder, NewsIsCurrent
<1>2. CASE ctor = <<"ask">>
  <2>1. Head(ctor) = "ask" /\ Tail(ctor) = <<>>
    BY <1>2, ShortHandlers
  <2>2. ctor' = <<>> /\ asks' /\ (watches => watches')
    BY <2>1 DEF Construct
  <2>3. watches'
    <3>1. <<"ask">> # <<"watch", "ask">>
      OBVIOUS
    <3> QED
      BY <1>2, <2>2, <3>1 DEF InOrder
  <2>4. Unanswered'
    BY <2>2 DEF Unanswered
  <2>5. PresenceTypeOK'
    BY <2>1, <2>2 DEF Construct, PresenceTypeOK
  <2> QED
    BY <2>2, <2>3, <2>4, <2>5 DEF InOrder, NewsIsCurrent
<1> QED
  BY <1>1, <1>2 DEF InOrder, Construct

(* So does a message that io takes: the news it brings are set. *)
LEMMA HandleMessageStep ==
  ASSUME PresenceInv, HandleMessage
  PROVE  /\ PresenceInv'
         /\ present' \in {0, 1} \/ present' = present
<1> USE DEF PresenceInv
<1> DEFINE msg == Head(inbox)
           rest == Tail(inbox)
<1>1. /\ ctor = <<>> /\ inbox # <<>> /\ inbox' = rest
      /\ UNCHANGED <<ctor, watches, inventory, starts, renewed>>
  BY DEF HandleMessage
<1>2. inbox \in Seq(Message)
  BY DEF PresenceTypeOK
<1>3. msg \in Message /\ rest \in Seq(Message)
  BY <1>1, <1>2
<1>4. ToSet(inbox) = {msg} \cup ToSet(rest)
  BY <1>1, <1>2, ToSetTail
<1>5. LastNews = LastIn(rest, News, IF msg \in News THEN msg ELSE <<>>)
  BY <1>1, <1>2, LastInTail DEF LastNews
<1>6. LastNews' = LastIn(rest, News, <<>>)
  BY <1>1 DEF LastNews
<1>7. \/ \A d : LastIn(rest, News, d) = d
      \/ \E e \in News : \A d : LastIn(rest, News, d) = e
  BY <1>3, LastInDefault
<1>8. InOrder'
  BY <1>1 DEF InOrder
<1>9. CASE msg = Failed
  <2>1. asks' /\ UNCHANGED <<present, misled>>
    BY <1>9 DEF HandleMessage, AsksAgain
  <2>2. Unanswered'
    BY <2>1 DEF Unanswered
  <2>3. PresenceTypeOK'
    BY <1>1, <1>3, <2>1 DEF PresenceTypeOK
  <2> QED
    BY <1>8, <2>1, <2>2, <2>3 DEF NewsIsCurrent
<1>10. CASE msg # Failed
  <2>1. /\ present' = msg.present /\ misled' = (msg.object # "item")
        /\ UNCHANGED asks
    BY <1>10 DEF HandleMessage
  <2>2. msg \in News
    BY <1>3, <1>10 DEF News
  <2>3. msg.object \in Objects /\ msg.present \in {0, 1} /\ msg # <<>>
    BY <2>2, NewsFields, Messages
  <2> HIDE DEF msg, rest
  <2>4. PresenceTypeOK'
    BY <1>1, <1>3, <2>1, <2>3 DEF PresenceTypeOK
  <2>6. ~Unanswered' => ~Unanswered
    BY <1>1, <1>4, <1>10, <2>1 DEF Unanswered
  <2>7. NewsIsCurrent'
    <3>1. SUFFICES ASSUME ~Unanswered', ~Down', ~renewed'
                   PROVE  /\ LastNews' = <<>> /\ ~misled' => present' = inventory'
                          /\ LastNews' # <<>> /\ LastNews'.object = "item" =>
                               LastNews'.present = inventory'
      BY DEF NewsIsCurrent
    <3>2. ~Unanswered /\ ~Down /\ ~renewed
      BY <1>1, <2>6, <3>1 DEF Down
    <3>3. CASE \A d : LastIn(rest, News, d) = d
      BY <1>1, <1>5, <1>6, <2>1, <2>2, <2>3, <3>2, <3>3 DEF NewsIsCurrent
    <3>4. CASE \E e \in News : \A d : LastIn(rest, News, d) = e
      <4>1. LastNews' = LastNews /\ LastNews # <<>>
        BY <1>5, <1>6, <3>4, Messages
      <4> QED
        BY <1>1, <3>2, <4>1 DEF NewsIsCurrent
    <3> QED
      BY <1>7, <3>3, <3>4
  <2> QED
    BY <1>8, <2>1, <2>3, <2>4, <2>7
<1> QED
  BY <1>9, <1>10

(* So does the answer of the service to a Get. *)
LEMMA AnswerStep ==
  ASSUME PresenceInv, Answer
  PROVE  PresenceInv'
<1> USE DEF PresenceInv
<1> DEFINE m == IF Down THEN Failed ELSE Reply(inventory)
<1>1. /\ ~asks' /\ inbox' = Append(inbox, m)
      /\ UNCHANGED <<ctor, watches, present, inventory, starts, renewed, misled>>
  BY DEF Answer
<1>2. inventory \in {Undefined, 0, 1}
  BY DEF PresenceTypeOK
<1>3. m \in Message /\ (~Down => m \in News)
  BY <1>2, Messages DEF Down
<1>4. ~Down => m.present = inventory
  BY DEF Reply
<1> HIDE DEF m
<1>5. inbox' \in Seq(Message) /\ (m \in News => LastNews' = m)
  BY <1>1, <1>3, NewsAppended
<1>6. PresenceTypeOK'
  BY <1>1, <1>5 DEF Answer, PresenceTypeOK
<1>7. InOrder'
  BY <1>1 DEF InOrder
<1>8. NewsIsCurrent'
  BY <1>1, <1>3, <1>4, <1>5, Messages DEF NewsIsCurrent, Down
<1> QED
  BY <1>6, <1>7, <1>8

(* So does what happens to the service. *)
LEMMA InventoryStep ==
  ASSUME PresenceInv, Inventory
  PROVE  PresenceInv'
<1> USE DEF PresenceInv
<1>1. ASSUME NEW o \in Objects, NEW v \in {0, 1}, ChangePresent(o, v)
      PROVE  PresenceInv'
  <2>1. /\ inventory' = IF o = "item" THEN v ELSE inventory
        /\ inbox' = IF watches THEN Append(inbox, Changed(o, v)) ELSE inbox
        /\ ~Down
        /\ UNCHANGED <<device, starts, renewed, misled>>
    BY <1>1 DEF ChangePresent
  <2>2. /\ Changed(o, v) \in News /\ Changed(o, v) \in Message
        /\ Changed(o, v) # <<>> /\ Changed(o, v) # Failed
    BY Messages
  <2>3. Changed(o, v).object = o /\ Changed(o, v).present = v
    BY DEF Changed
  <2>4. InOrder'
    BY <2>1 DEF InOrder, device
  <2>5. CASE watches
    <3>1. /\ inbox' \in Seq(Message) /\ LastNews' = Changed(o, v)
          /\ ToSet(inbox') = ToSet(inbox) \cup {Changed(o, v)}
      BY <2>1, <2>2, <2>5, NewsAppended
    <3>2. PresenceTypeOK'
      BY <2>1, <3>1 DEF PresenceTypeOK, device
    <3>3. NewsIsCurrent'
      BY <2>1, <2>2, <2>3, <3>1 DEF NewsIsCurrent
    <3> QED
      BY <2>4, <3>2, <3>3
  <2>6. CASE ~watches
    <3>1. ctor # <<>>
      BY <2>6 DEF InOrder
    <3>2. Unanswered'
      BY <2>1, <3>1 DEF Unanswered, device
    <3>3. PresenceTypeOK'
      BY <2>1, <2>6 DEF PresenceTypeOK, device
    <3> QED
      BY <2>4, <3>2, <3>3 DEF NewsIsCurrent
  <2> QED
    BY <2>5, <2>6
<1>2. CASE StartInventory
  <2>1. /\ Down /\ inventory' \in {0, 1} /\ starts > 0 /\ starts' = starts - 1
        /\ renewed' = (renewed \/ ~Unanswered)
        /\ UNCHANGED <<device, inbox, misled>>
    BY <1>2 DEF StartInventory
  <2>2. starts' \in 0 .. MaxStarts
    <3>1. starts \in 0 .. MaxStarts /\ MaxStarts \in Nat
      BY PresenceAssumption DEF PresenceTypeOK
    <3> QED
      BY <2>1, <3>1
  <2>3. PresenceTypeOK'
    BY <2>1, <2>2 DEF PresenceTypeOK, device
  <2>4. renewed' \/ Unanswered'
    BY <2>1 DEF Unanswered, device
  <2> QED
    BY <2>1, <2>3, <2>4 DEF InOrder, NewsIsCurrent, device
<1>3. CASE StopInventory
  <2>1. /\ inventory' = Undefined
        /\ UNCHANGED <<device, inbox, starts, renewed, misled>>
    BY <1>3 DEF StopInventory
  <2>2. PresenceTypeOK'
    BY <2>1 DEF PresenceTypeOK, device
  <2> QED
    BY <2>1, <2>2 DEF InOrder, NewsIsCurrent, Down, device
<1> QED
  BY <1>1, <1>2, <1>3 DEF Inventory

-----------------------------------------------------------------------------
(* The outputs. *)

(* Levels are shown as levels, and the calls of the outputs are distinct. *)
LEMMA Levels ==
  /\ \A v \in {0, 1} : Shows(v) \in {0, 1} /\ Real(v) \in {0, 1}
  /\ \A v \in {0, 1} : LogCall(v) \in LogCalls
  /\ LogCalls \subseteq Calls /\ LedCall \in Calls /\ LedCall \notin LogCalls
<1>1. LedActiveLow = 0 \/ LedActiveLow = 1
  BY LedAssumption
<1>2. LogActiveLow = 0 \/ LogActiveLow = 1
  BY LogAssumption
<1>3. \A v \in {0, 1} : Shows(v) \in {0, 1}
  BY <1>1 DEF Shows
<1>4. \A v \in {0, 1} : Real(v) \in {0, 1}
  BY <1>2 DEF Real
<1>5. LedCall.output = "led" /\ \A v : LogCall(v).output = "log"
  BY DEF LedCall, LogCall
<1>6. LedCall \notin LogCalls
  BY <1>5 DEF LogCalls
<1> QED
  BY <1>3, <1>4, <1>6 DEF Calls, LogCalls

(* A call of Apply is that of the LED or that of the log, with its value. *)
LEMMA KindsOfCalls ==
  ASSUME NEW c \in Calls
  PROVE  /\ c.output = "led" => c = LedCall
         /\ c.output = "log" => c.value \in {0, 1} /\ c = LogCall(c.value)
<1>1. LedCall.output = "led"
  BY DEF LedCall
<1>2. \A v : LogCall(v).output = "log" /\ LogCall(v).value = v
  BY DEF LogCall
<1>3. c = LedCall \/ \E v \in {0, 1} : c = LogCall(v)
  BY DEF Calls, LogCalls
<1> QED
  BY <1>1, <1>2, <1>3

(* Only what happens to the signals can make the outputs stale. *)
LEMMA OutputsStay ==
  ASSUME Inv, UNCHANGED <<ledVars, logVars, outQueue>>, enable' \in {Undefined, 0, 1},
         dirty' \subseteq {"present", "enable"}, dirty \subseteq dirty',
         present' # present => "present" \in dirty',
         enable' # enable => "enable" \in dirty'
  PROVE  OwnTypes' /\ LampInv' /\ LogInv'
<1> USE DEF Inv
<1>1. OwnTypes'
  BY DEF OwnTypes
<1>2. LampInv'
  <2>1. LedTypeOK'
    BY DEF LampInv, LedTypeOK, ledVars
  <2>2. LevelIsShown'
    BY DEF LampInv, LevelIsShown, Shows, ledVars
  <2>3. LevelIsApplied' /\ LevelIsSent'
    BY DEF LampInv, LevelIsApplied, LevelIsSent, ledVars
  <2> QED
    BY <2>1, <2>2, <2>3 DEF LampInv
<1>3. LogInv'
  <2>1. LogTypeOK' /\ EntryFits'
    BY DEF LogInv, LogTypeOK, EntryFits, Entries, Real, logVars
  <2>2. LastLog' = LastLog
    BY DEF LastLog, LogCall, logVars
  <2>3. ValueIsLogged'
    BY <2>2 DEF LogInv, ValueIsLogged, LogCall
  <2> QED
    BY <2>1, <2>3 DEF LogInv
<1> QED
  BY <1>1, <1>2, <1>3

(* Update of both outputs for the signals that are dirty. *)
LEMMA EvaluateStep ==
  ASSUME Inv, EvaluateState
  PROVE  Inv'
<1> USE DEF Inv
<1> DEFINE led == IF WakesLed THEN LedPosts(present) ELSE <<>>
           log == IF WakesLog THEN Posts(present, enable) ELSE <<>>
           mid == outQueue \o led
<1>1. /\ ctor = <<>> /\ dirty # {} /\ dirty' = {}
      /\ newLevel' = IF WakesLed THEN LedUpdated(present) ELSE newLevel
      /\ outQueue' = mid \o log
      /\ UNCHANGED <<presenceVars, ledLevel, applying, ledCalls, lamp, refused,
                     logVars, enable>>
  BY DEF EvaluateState
<1>2. present \in {Undefined, 0, 1} /\ outQueue \in Seq(Calls)
  BY DEF PresenceInv, PresenceTypeOK, OwnTypes
<1>3. PresenceInv'
  BY <1>1 DEF PresenceInv, PresenceTypeOK, InOrder, NewsIsCurrent, LastNews, Unanswered,
              Down, presenceVars, device
<1>4. led = <<>> \/ led = <<LedCall>>
  BY DEF LedPosts, LedCall
<1>5. WakesLog /\ present \in {0, 1} /\ enable = 1 => log = <<LogCall(present)>>
  BY DEF Posts, LogCall
<1>6. log = <<>> \/ \E v \in {0, 1} : log = <<LogCall(v)>>
  BY <1>2 DEF Posts, LogCall, Undefined
<1>7. <<>> \in Seq(Calls) /\ \A c \in Calls : <<c>> \in Seq(Calls)
  OBVIOUS
<1>8. WakesLed /\ present \in {0, 1} => led = <<LedCall>>
  BY DEF LedPosts, LedCall
<1> HIDE DEF led, log
<1>9. led \in Seq(Calls) /\ log \in Seq(Calls)
  BY <1>4, <1>6, <1>7, Levels
<1>10. mid \in Seq(Calls) /\ ToSet(mid) = ToSet(outQueue) \cup ToSet(led)
  BY <1>2, <1>9, ToSetConcat
<1> HIDE DEF mid
<1>11. outQueue' \in Seq(Calls) /\ ToSet(outQueue') = ToSet(mid) \cup ToSet(log)
  BY <1>1, <1>9, <1>10, ToSetConcat
<1>12. OwnTypes'
  BY <1>1, <1>11 DEF OwnTypes
<1>13. LampInv'
  <2>1. newLevel' = IF "present" \in dirty /\ present \in {0, 1} THEN Shows(present)
                    ELSE newLevel
    BY <1>1, <1>2 DEF WakesLed, LedUpdated, Undefined
  <2>2. LedTypeOK'
    BY <1>1, <1>2, <2>1, Levels DEF LampInv, LedTypeOK
  <2>3. LevelIsShown'
    <3>1. present \in {0, 1} /\ "present" \notin dirty => newLevel = Shows(present)
      BY DEF LampInv, LevelIsShown, Undefined
    <3>2. present' = present
      BY <1>1 DEF presenceVars, device
    <3>3. present \in {0, 1} => newLevel' = Shows(present)
      BY <2>1, <3>1
    <3> QED
      BY <1>2, <3>2, <3>3 DEF LevelIsShown, Shows
  <2>4. LevelIsApplied'
    <3>1. CASE "present" \in dirty /\ present \in {0, 1}
      <4>1. LedCall \in ToSet(led)
        BY <1>8, <3>1, ToSetSmall DEF WakesLed
      <4> QED
        BY <1>10, <1>11, <4>1 DEF LevelIsApplied
    <3>2. CASE ~("present" \in dirty /\ present \in {0, 1})
      BY <1>1, <1>10, <1>11, <2>1, <3>2 DEF LampInv, LevelIsApplied
    <3> QED
      BY <3>1, <3>2
  <2>5. LevelIsSent'
    BY <1>1 DEF LampInv, LevelIsSent
  <2> QED
    BY <2>2, <2>3, <2>4, <2>5 DEF LampInv
<1>14. LogInv'
  <2>1. LogTypeOK' /\ EntryFits'
    BY <1>1 DEF LogInv, LogTypeOK, EntryFits, Entries, Real, logVars
  <2>2. present' = present /\ enable' = enable
    BY <1>1 DEF presenceVars, device
  <2>3. ASSUME enable = 1, present # Undefined PROVE LastLog' = LogCall(present)
    <3>1. present \in {0, 1}
      BY <1>2, <2>3
    <3>2. log = <<LogCall(present)>>
      BY <1>1, <1>5, <2>3, <3>1 DEF WakesLog
    <3>3. LogCall(present) \in LogCalls /\ LogCall(present) \in Calls
      BY <3>1, Levels
    <3>4. outQueue' = Append(mid, LogCall(present))
      <4>1. outQueue' = mid \o <<LogCall(present)>>
        BY <1>1, <3>2
      <4> HIDE DEF LogCall
      <4>2. mid \o <<LogCall(present)>> = Append(mid, LogCall(present))
        BY <1>10, <3>3
      <4> QED
        BY <4>1, <4>2
    <3>5. \A d : LastIn(Append(mid, LogCall(present)), LogCalls, d) = LogCall(present)
      BY <1>10, <3>3, LastInAppend
    <3> QED
      BY <3>4, <3>5 DEF LastLog
  <2>4. ValueIsLogged'
    BY <2>2, <2>3 DEF ValueIsLogged, LogCall
  <2> QED
    BY <2>1, <2>4 DEF LogInv
<1> QED
  BY <1>3, <1>12, <1>13, <1>14

(* Nothing happens to the presence signal. *)
LEMMA PresenceStays ==
  ASSUME PresenceInv, UNCHANGED presenceVars
  PROVE  PresenceInv'
BY DEF PresenceInv, PresenceTypeOK, InOrder, NewsIsCurrent, LastNews, Unanswered, Down,
       presenceVars, device

(* The first half of LED::Apply keeps the invariant. *)
LEMMA LedApplyStep ==
  ASSUME Inv, RunLedApply
  PROVE  Inv'
<1> USE DEF Inv
<1>1. /\ ~applying /\ outQueue # <<>> /\ Head(outQueue).output = "led"
      /\ applying' = Differs /\ outQueue' = Tail(outQueue)
      /\ UNCHANGED <<newLevel, ledLevel, ledCalls, lamp, refused>>
      /\ UNCHANGED <<presenceVars, logVars, enable, dirty>>
  BY DEF RunLedApply, LedCompare
<1>2. outQueue \in Seq(Calls)
  BY DEF OwnTypes
<1>3. Head(outQueue) \in Calls /\ Tail(outQueue) \in Seq(Calls)
  BY <1>1, <1>2
<1>4. Head(outQueue) = LedCall
  BY <1>1, <1>3, KindsOfCalls
<1>5. PresenceInv'
  BY <1>1, PresenceStays
<1>6. OwnTypes'
  BY <1>1, <1>3 DEF OwnTypes
<1>7. LampInv'
  <2>1. LedTypeOK'
    BY <1>1 DEF LampInv, LedTypeOK, Differs
  <2>2. LevelIsShown'
    BY <1>1 DEF LampInv, LevelIsShown, Shows, presenceVars, device
  <2>3. LevelIsApplied' /\ LevelIsSent'
    BY <1>1 DEF LampInv, LevelIsApplied, LevelIsSent, Differs
  <2> QED
    BY <2>1, <2>2, <2>3 DEF LampInv
<1>8. LogInv'
  <2>1. LogTypeOK' /\ EntryFits'
    BY <1>1 DEF LogInv, LogTypeOK, EntryFits, Entries, Real, logVars
  <2>2. \A d : LastIn(outQueue, LogCalls, d)
                 = LastIn(Tail(outQueue), LogCalls,
                          IF Head(outQueue) \in LogCalls THEN Head(outQueue) ELSE d)
    BY <1>1, <1>2, LastInTail
  <2>3. LastLog' = LastLog
    <3>1. LogCall(logLevel)' = LogCall(logLevel)
      BY <1>1 DEF LogCall, logVars
    <3> QED
      BY <1>1, <1>4, <2>2, <3>1, Levels DEF LastLog
  <2>4. ValueIsLogged'
    BY <1>1, <2>3 DEF LogInv, ValueIsLogged, LogCall, presenceVars, device
  <2> QED
    BY <2>1, <2>4 DEF LogInv
<1> QED
  BY <1>5, <1>6, <1>7, <1>8

(* LogOutput::Apply keeps the invariant. *)
LEMMA LogApplyStep ==
  ASSUME Inv, RunLogApply
  PROVE  Inv'
<1> USE DEF Inv
<1> DEFINE v == Head(outQueue).value
<1>1. /\ outQueue # <<>> /\ Head(outQueue).output = "log"
      /\ logLevel' = v /\ entry' = IF Silent(v) THEN entry ELSE Entry(v)
      /\ outQueue' = Tail(outQueue)
      /\ UNCHANGED <<presenceVars, ledVars, enable, dirty>>
  BY DEF RunLogApply, ApplyLog
<1>2. outQueue \in Seq(Calls)
  BY DEF OwnTypes
<1>3. Head(outQueue) \in Calls /\ Tail(outQueue) \in Seq(Calls)
  BY <1>1, <1>2
<1>4. Head(outQueue) = LogCall(v) /\ v \in {0, 1}
  BY <1>1, <1>3, KindsOfCalls
<1> HIDE DEF v
<1>5. PresenceInv'
  BY <1>1, PresenceStays
<1>6. OwnTypes'
  BY <1>1, <1>3 DEF OwnTypes
<1>7. LampInv'
  <2>1. LedTypeOK'
    BY <1>1 DEF LampInv, LedTypeOK, ledVars
  <2>2. LevelIsShown'
    BY <1>1 DEF LampInv, LevelIsShown, Shows, presenceVars, device, ledVars
  <2>3. ToSet(outQueue) = {LogCall(v)} \cup ToSet(outQueue')
    BY <1>1, <1>2, <1>4, ToSetTail
  <2>4. LedCall # LogCall(v)
    BY <1>4, Levels
  <2>5. LevelIsApplied' /\ LevelIsSent'
    BY <1>1, <2>3, <2>4 DEF LampInv, LevelIsApplied, LevelIsSent, ledVars
  <2> QED
    BY <2>1, <2>2, <2>5 DEF LampInv
<1>8. LogInv'
  <2>1. Real(v) \in {0, 1} /\ logLevel \in {Unknown, 0, 1}
    BY <1>4, Levels DEF LogInv, LogTypeOK
  <2>2. logLevel' \in {0, 1} /\ logLevel' # Unknown
    BY <1>1, <1>4 DEF Unknown
  <2>3. entry' \in Entries(v)
    <3>1. CASE logLevel = v
      <4>1. entry \in Entries(v) /\ entry' = entry
        BY <1>1, <1>4, <3>1 DEF LogInv, EntryFits, Silent, Unknown
      <4> QED
        BY <4>1
    <3>2. CASE logLevel # v /\ logLevel = Unknown /\ Real(v) = 0
      <4>1. entry = "none" /\ entry' = entry
        BY <1>1, <3>2 DEF LogInv, EntryFits, Silent
      <4> QED
        BY <3>2, <4>1 DEF Entries
    <3>3. CASE logLevel # v /\ ~(logLevel = Unknown /\ Real(v) = 0)
      BY <1>1, <3>3 DEF Silent, Entry, Entries
    <3> QED
      BY <3>1, <3>2, <3>3
  <2>4. EntryFits'
    <3>1. entry' \in Entries(logLevel')
      BY <1>1, <2>3
    <3> QED
      BY <2>2, <3>1 DEF EntryFits, Entries, Real
  <2>5. LogTypeOK'
    BY <2>2, <2>3 DEF LogTypeOK, Entries
  <2>6. \A d : LastIn(outQueue, LogCalls, d)
                 = LastIn(Tail(outQueue), LogCalls,
                          IF Head(outQueue) \in LogCalls THEN Head(outQueue) ELSE d)
    BY <1>1, <1>2, LastInTail
  <2>7. LastLog' = LastLog
    <3>1. LogCall(logLevel)' = LogCall(v) /\ LogCall(v) \in LogCalls
      BY <1>1, <1>4, Levels DEF LogCall
    <3> QED
      BY <1>1, <1>4, <2>6, <3>1 DEF LastLog
  <2>8. ValueIsLogged'
    BY <1>1, <2>7 DEF LogInv, ValueIsLogged, LogCall, presenceVars, device
  <2> QED
    BY <2>4, <2>5, <2>8 DEF LogInv
<1> QED
  BY <1>5, <1>6, <1>7, <1>8

(* The level is sent, and the service carries it out or refuses. *)
LEMMA LampSteps ==
  ASSUME Inv, RunLedSend \/ AnswerLed
  PROVE  Inv'
<1> USE DEF Inv
<1>1. UNCHANGED <<presenceVars, logVars, enable, dirty, outQueue, newLevel>>
  BY DEF RunLedSend, LedSend, AnswerLed, LedAnswer
<1>2. PresenceInv'
  BY <1>1, PresenceStays
<1>3. OwnTypes'
  BY <1>1 DEF OwnTypes
<1>4. LogInv'
  <2>1. LogTypeOK' /\ EntryFits'
    BY <1>1 DEF LogInv, LogTypeOK, EntryFits, Entries, Real, logVars
  <2>2. LastLog' = LastLog
    BY <1>1 DEF LastLog, LogCall, logVars
  <2>3. ValueIsLogged'
    BY <1>1, <2>2 DEF LogInv, ValueIsLogged, LogCall, presenceVars, device
  <2> QED
    BY <2>1, <2>3 DEF LogInv
<1>5. LevelIsShown'
  BY <1>1 DEF LampInv, LevelIsShown, Shows, presenceVars, device
<1>6. ledCalls \in Seq({0, 1}) /\ newLevel \in {0, 1} /\ lamp \in {0, 1}
  BY DEF LampInv, LedTypeOK
<1>7. CASE RunLedSend
  <2>1. /\ applying' = FALSE /\ ledLevel' = newLevel
        /\ ledCalls' = Append(ledCalls, newLevel)
        /\ UNCHANGED <<lamp, refused>>
    BY <1>7 DEF RunLedSend, LedSend
  <2>2. /\ ledCalls' \in Seq({0, 1}) /\ ledCalls' # <<>>
        /\ ledCalls'[Len(ledCalls')] = newLevel
    BY <1>6, <2>1
  <2>3. LedTypeOK'
    BY <1>1, <2>1, <2>2 DEF LampInv, LedTypeOK
  <2>4. LevelIsApplied'
    BY <1>1, <2>1 DEF LevelIsApplied
  <2>5. LevelIsSent'
    BY <2>1, <2>2 DEF LevelIsSent, Last
  <2> QED
    BY <1>2, <1>3, <1>4, <1>5, <2>3, <2>4, <2>5 DEF LampInv
<1>8. CASE AnswerLed
  <2>1. /\ ledCalls # <<>> /\ ledCalls' = Tail(ledCalls)
        /\ \/ lamp' = Head(ledCalls) /\ refused' = FALSE
           \/ lamp' = lamp /\ refused' = TRUE
        /\ UNCHANGED <<ledLevel, applying>>
    BY <1>8 DEF AnswerLed, LedAnswer
  <2>2. ledCalls' \in Seq({0, 1}) /\ Head(ledCalls) \in {0, 1}
    BY <1>6, <2>1
  <2>3. /\ ledCalls' # <<>> => Last(ledCalls') = ledLevel
        /\ ledCalls' = <<>> => Head(ledCalls) = ledLevel
    <3>1. Last(ledCalls) = ledLevel
      BY <2>1 DEF LampInv, LevelIsSent
    <3> QED
      BY <1>6, <2>1, <3>1, LastOfTail
  <2>4. LedTypeOK'
    BY <1>1, <1>6, <2>1, <2>2 DEF LampInv, LedTypeOK
  <2>5. LevelIsApplied'
    BY <1>1, <2>1 DEF LampInv, LevelIsApplied
  <2>6. LevelIsSent'
    BY <2>1, <2>3 DEF LevelIsSent
  <2> QED
    BY <1>2, <1>3, <1>4, <1>5, <2>4, <2>5, <2>6 DEF LampInv
<1> QED
  BY <1>7, <1>8

-----------------------------------------------------------------------------
(* Every step keeps the invariant. *)
LEMMA NextKeepsInv == Inv /\ [Next]_vars => Inv'
<1> SUFFICES ASSUME Inv, [Next]_vars PROVE Inv'
  OBVIOUS
<1>1. PresenceInv /\ dirty \subseteq {"present", "enable"}
      /\ enable \in {Undefined, 0, 1}
  BY DEF Inv, OwnTypes
<1>2. ASSUME PresenceInv', UNCHANGED present, UNCHANGED <<ledVars, logVars, outQueue>>,
             UNCHANGED <<enable, dirty>>
      PROVE  Inv'
  BY <1>1, <1>2, OutputsStay DEF Inv
<1>3. CASE ConstructInput
  <2>1. UNCHANGED present
    BY <1>3 DEF ConstructInput, Construct
  <2> QED
    BY <1>1, <1>2, <1>3, <2>1, ConstructStep DEF ConstructInput
<1>4. CASE RunMessage
  <2>1. /\ PresenceInv' /\ dirty' \subseteq {"present", "enable"}
        /\ dirty \subseteq dirty' /\ (present' # present => "present" \in dirty')
        /\ UNCHANGED <<ledVars, logVars, enable, outQueue>>
    BY <1>1, <1>4, HandleMessageStep DEF RunMessage
  <2> QED
    BY <1>1, <2>1, OutputsStay DEF Inv
<1>5. CASE AnswerGet
  <2>1. UNCHANGED present
    BY <1>5 DEF AnswerGet, Answer
  <2> QED
    BY <1>1, <1>2, <1>5, <2>1, AnswerStep DEF AnswerGet
<1>6. CASE InventoryActs
  <2>1. UNCHANGED present
    BY <1>6 DEF InventoryActs, Inventory, ChangePresent, StartInventory, StopInventory,
                device
  <2> QED
    BY <1>1, <1>2, <1>6, <2>1, InventoryStep DEF InventoryActs
<1>7. ASSUME NEW v \in {0, 1}, Drive(v) PROVE Inv'
  <2>1. /\ enable' = v /\ dirty' = dirty \cup {"enable"}
        /\ UNCHANGED <<presenceVars, ledVars, logVars, outQueue>>
    BY <1>7 DEF Drive
  <2>2. PresenceInv' /\ UNCHANGED present
    BY <1>1, <2>1, PresenceStays DEF presenceVars, device
  <2> QED
    BY <1>1, <2>1, <2>2, OutputsStay DEF Inv
<1>8. CASE UNCHANGED vars
  <2>1. PresenceInv' /\ UNCHANGED present
    BY <1>1, <1>8, PresenceStays DEF vars, presenceVars, device
  <2> QED
    BY <1>2, <1>8, <2>1 DEF vars
<1> QED
  BY <1>3, <1>4, <1>5, <1>6, <1>7, <1>8, EvaluateStep, LedApplyStep, LogApplyStep, LampSteps
     DEF Next, IoThread, OutputThread, Outside

(* The invariant holds before the constructors have run. *)
LEMMA InitInv == Init => Inv
<1> SUFFICES ASSUME Init PROVE Inv
  OBVIOUS
<1>1. PresenceInv
  <2>1. ctor = <<"watch", "ask">> /\ ctor \in Seq({"watch", "ask"}) /\ ctor # <<>>
    BY DEF Init, PresenceInit, Constructor
  <2>2. MaxStarts \in 0 .. MaxStarts
    BY PresenceAssumption
  <2>3. PresenceTypeOK
    <3>1. <<>> \in Seq(Message)
      OBVIOUS
    <3>2. inbox = <<>> /\ starts = MaxStarts /\ present = Undefined
          /\ inventory = Undefined /\ ~watches /\ ~asks /\ ~renewed /\ ~misled
      BY DEF Init, PresenceInit
    <3>3. {watches, asks, renewed, misled} \subseteq BOOLEAN
      BY DEF Init, PresenceInit
    <3> QED
      BY <2>1, <2>2, <3>1, <3>2, <3>3 DEF PresenceTypeOK
  <2>4. Unanswered
    BY <2>1 DEF Unanswered
  <2> QED
    BY <2>1, <2>3, <2>4 DEF PresenceInv, InOrder, NewsIsCurrent
<1>2. OwnTypes
  BY DEF Init, OwnTypes
<1>3. LampInv
  <2>1. ledCalls = <<0>> /\ ledLevel = 0 /\ newLevel = 0 /\ "present" \in dirty
    BY DEF Init, LedInit
  <2>2. <<0>> \in Seq({0, 1}) /\ <<0>> # <<>> /\ <<0>>[Len(<<0>>)] = 0
    OBVIOUS
  <2>3. LedTypeOK
    BY <2>1, <2>2 DEF Init, LedInit, LedTypeOK
  <2> QED
    BY <2>1, <2>2, <2>3 DEF LampInv, LevelIsShown, LevelIsApplied, LevelIsSent, Last
<1>4. LogInv
  BY DEF Init, LogInit, LogInv, LogTypeOK, ValueIsLogged, EntryFits
<1> QED
  BY <1>1, <1>2, <1>3, <1>4 DEF Inv

(* The invariant holds in every state that can be reached. *)
THEOREM InvHolds == Spec => []Inv
BY InitInv, NextKeepsInv, PTL DEF Spec

(* The types of Presence, LED, LogOutput and their composition. *)
THEOREM TypeCorrect == Spec => []TypeOK
<1>1. Inv => TypeOK
  <2>1. Calls = {[output |-> "led"]}
                  \cup {[output |-> "log", value |-> v] : v \in {0, 1}}
    BY DEF Calls, LedCall, LogCalls, LogCall
  <2> QED
    BY <2>1 DEF Inv, PresenceInv, OwnTypes, LampInv, LogInv, TypeOK
<1> QED
  BY <1>1, InvHolds, PTL

(* The presence signal is what the service says whenever no message is under
   way, however starts and stops of the service, its changes, the Get and its
   repetitions interleave. *)
THEOREM PresenceIsNotStale == Spec => []PresenceIsCurrent
<1>1. Inv => PresenceIsCurrent
  <2> SUFFICES ASSUME Inv, ctor = <<>>, ~asks, inbox = <<>>, ~Down, ~renewed, ~misled
               PROVE  present = inventory
    BY DEF PresenceIsCurrent, Quiet
  <2>1. ToSet(inbox) = {} /\ LastNews = <<>>
    BY ToSetSmall, LastInEmpty DEF LastNews
  <2>2. ~Unanswered
    BY <2>1 DEF Unanswered
  <2> QED
    BY <2>1, <2>2 DEF Inv, PresenceInv, NewsIsCurrent
<1> QED
  BY <1>1, InvHolds, PTL

(* The lamp does not miss the last change of the signal, although io writes
   newLevel between the two halves of Apply. *)
THEOREM LampFollows == Spec => []LampShowsSignal
<1>1. Inv => LampShowsSignal
  <2> SUFFICES ASSUME Inv, OutputsIdle, ledCalls = <<>>, ~refused, present # Undefined
               PROVE  lamp = Shows(present)
    BY DEF LampShowsSignal
  <2>1. ToSet(outQueue) = {} /\ dirty = {} /\ ~applying
    BY ToSetSmall DEF OutputsIdle
  <2> QED
    BY <2>1 DEF Inv, LampInv, LevelIsShown, LevelIsApplied, LevelIsSent
<1> QED
  BY <1>1, InvHolds, PTL

(* The event log does not miss the last change of the signal, nor an assertion
   from before the output was enabled. *)
THEOREM LogFollows == Spec => []MonitorIsCurrent
<1>1. Inv => MonitorIsCurrent
  <2> SUFFICES ASSUME Inv, OutputsIdle, enable = 1, present # Undefined
               PROVE  entry \in Entries(present)
    BY DEF MonitorIsCurrent, Entries
  <2>1. LastLog = LogCall(logLevel) /\ dirty = {}
    BY LastInEmpty DEF OutputsIdle, LastLog
  <2>2. LogCall(logLevel) = LogCall(present)
    BY <2>1 DEF Inv, LogInv, ValueIsLogged
  <2>3. \A v : LogCall(v).value = v
    BY DEF LogCall
  <2>4. logLevel = present
    BY <2>2, <2>3
  <2>5. logLevel # Unknown
    BY <2>4 DEF Unknown, Undefined
  <2> QED
    BY <2>4, <2>5 DEF Inv, LogInv, EntryFits
<1> QED
  BY <1>1, InvHolds, PTL
=============================================================================

---------------------- MODULE VoltageRegulatorInvariants ----------------------
(***************************************************************************)
(* The inductive invariants of VoltageRegulator and the predicates they are*)
(* made of; VoltageRegulatorProofs shows that every step keeps them.       *)
(*                                                                         *)
(* `Inv' is about the status, the lock and the signals, `Forms' about what *)
(* the two threads have to do.  `Guarded' and `Course' hold as long as the *)
(* driver reports its changes, no two handlers have overlapped and no      *)
(* second attempt was refused, the latter also only when _On waits for a   *)
(* change to be over.  `ObeyInv' is about the state that _On asks for.     *)
(* The frames at the end say what the kinds of steps do to a change.       *)
(***************************************************************************)
EXTENDS VoltageRegulator, QueueLemmas

-----------------------------------------------------------------------------
(* The invariant. *)

(* What a status file says, and what statusShadow may be. *)
Decoded == {"off", "on", "error", "undefined", "invalid"}
Shown == {"off", "on", "error", "invalid"}

Plain ==
  {Apply, SetPending, ReadStatus, ConfirmStatus, CheckStatus}
    \cup {SetState(s) : s \in RegulatorState}
    \cup {SetStateAgain(s) : s \in RegulatorState}
    \cup {ReadState(s) : s \in RegulatorState}
    \cup {ReadStateAgain(s) : s \in RegulatorState}
    \cup {StartTimer(s) : s \in RegulatorState}
    \cup {ApplyStatus(s) : s \in Decoded} \cup {CompareStatus(s) : s \in Decoded}
    \cup {HandleEvent(e) : e \in Event}
    \cup {SetEnabled(v) : v \in {0, 1}} \cup {CheckLater(v) : v \in {0, 1}}

Special ==
  {Commit(s, d) : s \in Shown, d \in BOOLEAN}
    \cup {Report(s) : s \in Shown} \cup {SetSignals(s) : s \in Shown}

Step == Plain \cup Special

Shows == {<<SetSignals(s)>> : s \in Shown}
Handler == Seq(Plain) \cup Shows

(* What is left of a handler. *)
Rest(r) == r \in Seq(Step) /\ (r # <<>> => Tail(r) \in Seq(Plain))

Handlers ==
  /\ queue \in [Threads -> Seq(Handler)]
  /\ run \in [Threads -> Seq(Step)]
  /\ \A t \in Threads : Rest(run[t])

(* The variables that are not made of handlers. *)
Simple ==
  /\ newLevel \in {Undefined, 0, 1}
  /\ stateShadow \in ReadableState
  /\ statusShadow \in Shown
  /\ pendingLevelChange \in BOOLEAN
  /\ pendingNewLevel \in RegulatorState
  /\ retries \in 0..Retries
  /\ armed \in BOOLEAN
  /\ signal \in [{"enabled", "powergood", "fault"} -> {Undefined, 0, 1}]
  /\ alarm \in BOOLEAN
  /\ hw \in [state : RegulatorState, status : {"off", "on", "error"},
             broken : BOOLEAN, reports : BOOLEAN]
  /\ netlink \in Seq(Event)
  /\ faults \in 0..Faults
  /\ overlapped \in BOOLEAN
  /\ refused \in BOOLEAN

Types == Simple /\ Handlers

(* The lock excludes, and who reports tells the status that he has set. *)
Excludes == ~ (HoldsLock("io") /\ HoldsLock("output"))
Reporting == At("io", "Report") \/ At("output", "Report")
Tells == \A t \in Threads : At(t, "Report") => Head(run[t]).status = statusShadow

(* What io has to do with the signals, the last thing first. *)
Now == IF At("io", "SetSignals") THEN <<Head(run["io"])>> ELSE <<>>
LastShown == LastIn(queue["io"], Shows, Now)
Fits ==
  statusShadow # "invalid" =>
    /\ signal["powergood"] = (IF statusShadow = "on" THEN 1 ELSE 0)
    /\ signal["fault"] = (IF statusShadow = "error" THEN 1 ELSE 0)
Follows ==
  ~Reporting => \/ LastShown = <<SetSignals(statusShadow)>>
                \/ LastShown = <<>> /\ Fits

StatusInv == Excludes /\ Tells /\ Follows

Inv == Types /\ StatusInv

-----------------------------------------------------------------------------
(* The forms of handlers. *)

Out == run["output"]
Io == run["io"]
Timer == <<ReadStatus, ConfirmStatus>>

(* What is posted to the threads. *)
OutHandlers == {<<Apply>>, Timer}
IoHandlers ==
  Shows \cup {<<SetEnabled(v)>> : v \in {0, 1}}
    \cup {<<CheckStatus, SetEnabled(v)>> : v \in {0, 1}}
    \cup {<<CheckLater(0)>>, <<CheckStatus>>, <<ReadStatus>>}

(* The events that the kernel sends. *)
Sent == {Changed(s) : s \in RegulatorState} \cup {Failure, FailureDisable}

(* The instructions of ApplyStatus. *)
StatusOps == {"ApplyStatus", "Commit", "Report"}

(* Writing the state file and reading it back. *)
WriteOps == {"SetState", "ReadState", "SetStateAgain", "ReadStateAgain"}

(* What is left of a handler: the next instruction and what follows it. *)
OutForm(r) ==
  r # <<>> =>
    \/ Head(r).op \in {"Apply", "StartTimer", "ConfirmStatus"} /\ Tail(r) = <<>>
    \/ Head(r).op = "HandleEvent" /\ Head(r).event \in Sent /\ Tail(r) = <<>>
    \/ Head(r).op \in WriteOps
       /\ Tail(r) = <<SetPending, StartTimer(Head(r).state)>>
    \/ Head(r).op = "SetPending"
       /\ \E s \in RegulatorState : Tail(r) = <<StartTimer(s)>>
    \/ Head(r).op \in {"ReadStatus"} \cup StatusOps /\ Tail(r) = <<ConfirmStatus>>
    \/ /\ Head(r).op \in StatusOps /\ Head(r).status = "error"
       /\ Tail(r) = <<>> \/ \E e \in Sent : Tail(r) = <<HandleEvent(e)>>

IoForm(r) ==
  r # <<>> =>
    /\ Head(r).op \in StatusOps \cup {"ReadStatus", "CheckStatus", "CompareStatus",
                                      "CheckLater", "SetEnabled", "SetSignals"}
    /\ Head(r).op = "CheckLater" => Head(r).value = 0
    /\ Tail(r) = <<>> \/ \E v \in {0, 1} : Tail(r) = <<SetEnabled(v)>>

Forms ==
  /\ queue["output"] \in Seq(OutHandlers) /\ queue["io"] \in Seq(IoHandlers)
  /\ netlink \in Seq(Sent)
  /\ OutForm(Out) /\ IoForm(Io)

(* What a thread comes to. *)
Stands(r, op) == r # <<>> /\ Head(r).op = op

(* In between stateShadow may be behind, or unknown. *)
Between(r) == \E op \in WriteOps \ {"SetState"} : Stands(r, op)

With(r, op, x) == Stands(r, op) /\ Head(r).status = x
Held(r, x) ==
  With(r, "ApplyStatus", x) \/ With(r, "Commit", x) \/ With(r, "CompareStatus", x)

(* The output thread changes the state to s, or is to confirm a change. *)
Changing(r, s) ==
  r # <<>> /\ (\/ Head(r).op = "StartTimer" /\ Head(r).state = s
               \/ Tail(r) = <<StartTimer(s)>>
               \/ Tail(r) = <<SetPending, StartTimer(s)>>)
Confirming(r) ==
  r # <<>> /\ (Head(r).op = "ConfirmStatus" \/ Tail(r) = <<ConfirmStatus>>)

-----------------------------------------------------------------------------
(* What holds as long as no handlers have overlapped. *)

Holds(x) == Held(Io, x) \/ Held(Out, x)
Reports(x) == With(Io, "Report", x) \/ With(Out, "Report", x)
Commits(x) == With(Io, "Commit", x) \/ With(Out, "Commit", x)

Changes == Changing(Out, "enabled") \/ Changing(Out, "disabled")
ApplyNext == Stands(Out, "Apply") \/ <<Apply>> \in ToSet(queue["output"])
TimerQueued == Timer \in ToSet(queue["output"])

Alone == hw.reports /\ ~overlapped /\ ~refused

Plainly ==
  /\ Out = <<>> \/ Io = <<>>
  /\ Between(Out) \/ stateShadow = hw.state
  /\ hw.broken => hw.status = "error"
  /\ ~Holds("undefined")

Decided(r) ==
  Stands(r, "Commit") =>
    /\ Head(r).done = Done(Head(r).status)
    /\ Head(r).status = "error" => ~pendingLevelChange /\ hw.state = "enabled"
Decides == Decided(Io) /\ Decided(Out)

(* An error that will be taken for one. *)
ErrorNext ==
  /\ With(Out, "ApplyStatus", "error") \/ With(Out, "Commit", "error")
  /\ ~pendingLevelChange

(* A status from before a fault is not the last word. *)
FailureComing == \E i \in DOMAIN netlink : netlink[i].failure
Stale ==
  /\ hw.broken /\ hw.state = "enabled"
  /\ \E x \in {"on", "off"} : Holds(x) \/ Reports(x)
  => FailureComing

Noisy == {<<SetSignals(x)>> : x \in {"on", "off", "error"}}
Loud(r) == IF Stands(r, "SetSignals") /\ Head(r).status # "invalid"
           THEN <<Head(r)>> ELSE <<>>
LastNoise == LastIn(queue["io"], Noisy, Loud(Io))

FaultComing ==
  \/ Commits("error") \/ Reports("error")
  \/ LastNoise = <<SetSignals("error")>>
  \/ LastNoise = <<>> /\ signal["fault"] = 1

-----------------------------------------------------------------------------
(* What becomes of a fault when _On does not wait for a change to be over. *)

(* The status of the other state. *)
Wrong == IF hw.state = "enabled" THEN "off" ELSE "on"

(* A regulator that is about to be confirmed in the wrong status was seen in it,
   unless the status could not be read. *)
WrongIsSeen ==
  Confirming(Out) /\ ~Stands(Out, "ReadStatus") /\ hw.status = Wrong =>
    \E x \in {"invalid", Wrong} :
      Held(Out, x) \/ (statusShadow = x /\ \A y : ~Held(Out, y))

(* A change that was confirmed, but has not seen the status change: nobody
   clears pendingLevelChange. *)
Unnoticed ==
  /\ pendingNewLevel = hw.state /\ statusShadow \in {Goal(hw.state), "invalid"}
  /\ hw.status # Wrong /\ ~Holds(Wrong)

(* Any other that is pending is looked at again. *)
Watched ==
  pendingLevelChange =>
    armed \/ TimerQueued \/ Confirming(Out) \/ Changes \/ Unnoticed

PendsInTime == Stands(Out, "StartTimer") => pendingLevelChange

(* A fault is reported, or is going to be, or is taken for part of a change. *)
FaultKept ==
  hw.broken /\ hw.state = "enabled" =>
    FailureComing \/ pendingLevelChange \/ Changes \/ ErrorNext \/ FaultComing

Guarded ==
  /\ Plainly /\ Decides /\ Stale
  /\ PendsInTime /\ FaultKept /\ WrongIsSeen /\ Watched

GuardInv == Inv /\ Forms /\ (Alone => Guarded)

-----------------------------------------------------------------------------
(* The course of a change, when _On waits for a change to be over. *)

(* A change that is pending is looked at again. *)
Timed == pendingLevelChange => armed \/ TimerQueued \/ Confirming(Out) \/ Changes

AtTimer == Changing(Out, "disabled") => newLevel # 1

(* A change that is pending does not have the status it ends in. *)
Unmet ==
  /\ \A s \in RegulatorState : Changing(Out, s) => statusShadow # Goal(s)
  /\ pendingLevelChange /\ ~Changes /\ pendingNewLevel = hw.state
       => statusShadow # Goal(pendingNewLevel)

(* The regulator is being turned on. *)
Rising ==
  \/ Changing(Out, "enabled")
  \/ pendingLevelChange /\ pendingNewLevel = "enabled" /\ ~Changing(Out, "disabled")

ErrorShows ==
  \/ <<SetSignals("error")>> \in ToSet(queue["io"])
  \/ With(Io, "SetSignals", "error") \/ Reports("error")

(* Nothing else happens to it meanwhile, and no error is shown. *)
RisingQuiet == Rising => ~ApplyNext /\ ~alarm /\ ~ErrorShows

(* There is one timer, and the last retry finds the regulator settled. *)
RisingTimer == Rising =>
  /\ queue["output"] \in {<<>>, <<Timer>>}
  /\ Changing(Out, "enabled") => ~armed /\ queue["output"] = <<>>
  /\ queue["output"] # <<>> \/ Confirming(Out) => ~armed
  /\ queue["output"] # <<>> => ~Confirming(Out)
  /\ /\ queue["output"] # <<>> \/ Confirming(Out)
     /\ retries = 0 /\ hw.state = "enabled"
     => Settled

RisingOff == Rising /\ hw.state = "disabled" => hw.status = "off"

Up == hw.state = "enabled" /\ ~Settled => Rising

Off ==
  /\ hw.state = "enabled" /\ statusShadow = "off" => Rising \/ ErrorNext
  /\ hw.state = "enabled" /\ Holds("off") => Rising
  /\ hw.state = "enabled" /\ Holds("on") => Settled

Down ==
  hw.state = "disabled" /\ (statusShadow = "off" \/ Holds("off")) => hw.status = "off"

(* A regulator that is off is looked at until its status says so. *)
Falling ==
  /\ hw.state = "disabled"
  /\ statusShadow \in {"on", "error"} \/ hw.status = "on" \/ Holds("on")
  =>
  \/ Changes
  \/ armed
  \/ (TimerQueued \/ Stands(Out, "ReadStatus")) /\ (retries > 0 \/ Settled)
  \/ Confirming(Out) /\ retries > 0
  \/ Settled /\ (Held(Out, "off") \/ Held(Out, "invalid"))

(* A regulator is turned on from rest. *)
Fresh ==
  newLevel = 1 /\ hw.state = "disabled" /\ ApplyNext =>
    /\ Io = <<>> /\ queue["io"] = <<>> /\ netlink = <<>>
    /\ ~armed /\ ~pendingLevelChange /\ ~alarm
    /\ hw.status = "off" /\ statusShadow \in {"off", "invalid"}
    /\ \/ queue["output"] = <<<<Apply>>>> /\ Out = <<>>
       \/ queue["output"] = <<>> /\ Out # <<>>

(* _Enabled: who sets it to v. *)
Zeros == {<<SetEnabled(0)>>, <<CheckStatus, SetEnabled(0)>>, <<CheckLater(0)>>,
          <<SetSignals("off")>>}
Ones == {<<SetEnabled(1)>>, <<CheckStatus, SetEnabled(1)>>, <<CheckLater(1)>>,
         <<SetSignals("on")>>}
Writes(r, v) ==
  /\ r # <<>>
  /\ \/ Tail(r) = <<SetEnabled(v)>>
     \/ /\ Tail(r) = <<>>
        /\ \/ Head(r).op \in {"SetEnabled", "CheckLater"} /\ Head(r).value = v
           \/ With(r, "SetSignals", IF v = 1 THEN "on" ELSE "off")
Told(r, c) ==
  \/ Stands(r, "HandleEvent") /\ Head(r).event.change = c
  \/ \E e \in Sent : r # <<>> /\ e.change = c /\ Tail(r) = <<HandleEvent(e)>>
Handles(c) == Told(Out, c)
Tells0 == Handles("disable") \/ \E i \in DOMAIN netlink : netlink[i].change = "disable"

(* There is something to handle. *)
Heard == ~Handles("none")

(* A regulator that is on is not said to be off. *)
Disables == {<<SetEnabled(0)>>, <<CheckStatus, SetEnabled(0)>>, <<CheckLater(0)>>}
DisablesNow(r) ==
  /\ r # <<>>
  /\ \/ Tail(r) = <<SetEnabled(0)>>
     \/ Head(r).op \in {"SetEnabled", "CheckLater"} /\ Head(r).value = 0
StaysEnabled ==
  ~hw.broken /\ (hw.state = "enabled" \/ Changing(Out, "enabled")) =>
    /\ ToSet(queue["io"]) \cap Disables = {} /\ ~DisablesNow(Io)
    /\ ~Tells0

ShowsEnabled ==
  hw.state = "enabled" /\ ~hw.broken /\ statusShadow = "on" /\ ~Reporting =>
    LastShown = <<SetSignals("on")>> \/ signal["enabled"] = 1

NetOrder ==
  hw.state = "disabled" =>
    /\ \A i \in DOMAIN netlink : netlink[i].change = "enable" =>
         \E j \in DOMAIN netlink : j > i /\ netlink[j].change = "disable"
    /\ Handles("enable") => \E j \in DOMAIN netlink : netlink[j].change = "disable"

LastSet == LastIn(queue["io"], Zeros \cup Ones, <<>>)
ShowsDisabled ==
  hw.state = "disabled" /\ statusShadow = "off" /\ ~Reporting =>
    \/ Tells0
    \/ LastSet \in Zeros
    \/ LastSet = <<>> /\ (Writes(Io, 0) \/ (~Writes(Io, 1) /\ signal["enabled"] = 0))

Change ==
  /\ Timed /\ AtTimer /\ Unmet /\ RisingQuiet /\ RisingTimer /\ RisingOff
  /\ Up /\ Off /\ Down /\ Falling /\ Fresh
EnabledInv == Heard /\ StaysEnabled /\ ShowsEnabled /\ NetOrder /\ ShowsDisabled

Course == Alone => Change /\ EnabledInv

-----------------------------------------------------------------------------
(* What becomes of an error, unless faults are allowed. *)

(* What _On asks for. *)
Asked == IF newLevel = 1 THEN "enabled" ELSE "disabled"

NoErrorRising == Rising => statusShadow # "error"

Answering ==
  \/ ErrorShows \/ alarm
  \/ ApplyNext /\ newLevel # 1
  \/ Changing(Out, "disabled")
  \/ armed \/ TimerQueued \/ Stands(Out, "ReadStatus")
  \/ Held(Out, "on") \/ Held(Out, "invalid")

Answered ==
  ~AllowFaulting /\ hw.state = "enabled" /\ ~hw.broken /\ statusShadow = "error" =>
    Answering

AnswerInv == Alone => NoErrorRising /\ Answered

-----------------------------------------------------------------------------
(* What the regulator obeys, whoever asks and whenever. *)

(* One access to sysfs has failed, or two. *)
OneFailed == faults + 1 <= Faults
TwoFailed == faults + 2 <= Faults

(* What was read back is what is there, except while a change is written. *)
ShadowFits ==
  Between(Out) \/ stateShadow = hw.state \/ (stateShadow = "unknown" /\ refused)

(* What was asked is done, or has been refused twice. *)
Obeyed ==
  ~ApplyNext /\ ~Changes =>
    hw.state = Asked \/ (pendingNewLevel = Asked /\ refused)

(* A change that is under way is to the state that was asked for, unless Apply
   is called once more behind it. *)
Towards ==
  \A s \in RegulatorState : Changing(Out, s) =>
    /\ ApplyNext \/ s = Asked
    /\ Stands(Out, "ReadState") => hw.state = s \/ OneFailed
    /\ Stands(Out, "SetStateAgain") \/ Stands(Out, "ReadStateAgain") => OneFailed
    /\ Stands(Out, "ReadStateAgain") => hw.state = s \/ TwoFailed
    /\ Stands(Out, "SetPending") \/ Stands(Out, "StartTimer") =>
         hw.state = s \/ refused

ObeyInv ==
  /\ Inv /\ Forms /\ ShadowFits /\ Towards
  /\ newLevel # Undefined => Obeyed
  /\ refused => TwoFailed

-----------------------------------------------------------------------------
(* What the steps do to a change: the frames that the proofs sort them into. *)

(* What is written, and what is read back. *)
Writing == RunSetState \/ RunSetStateAgain
ReadingBack == RunReadState \/ RunReadStateAgain

(* What the io thread does to a change, while no handler runs on the other. *)
IoFrame ==
  /\ Out = <<>> /\ Out' = <<>>
  /\ Io # <<>> \/ queue["io"] # <<>>
  /\ UNCHANGED <<newLevel, stateShadow, pendingNewLevel, retries, armed, hw, netlink>>
  /\ UNCHANGED queue["output"]
  /\ \/ UNCHANGED <<statusShadow, pendingLevelChange>>
     \/ /\ Stands(Io, "Commit") /\ statusShadow' = Head(Io).status
        /\ pendingLevelChange' = (pendingLevelChange /\ ~Head(Io).done)
        /\ \A x : ~Held(Io, x)'
  /\ \A x : Held(Io, x)' => Held(Io, x) \/ x = hw.status \/ x = "invalid"
  /\ Decided(Io)'
  /\ ErrorShows' => ErrorShows \/ With(Io, "Commit", "error")
  /\ alarm' => alarm \/ With(Io, "SetSignals", "error")

(* What it does to a fault that is or will be reported, and to _Enabled. *)
IoFault ==
  /\ \A x \in {"on", "off"} : Reports(x)' => Reports(x) \/ Commits(x)
  /\ FaultComing => FaultComing' \/ Reports("on") \/ Reports("off")

IoKeep ==
  /\ ToSet(queue["io"]) \cap Disables = {} /\ ~DisablesNow(Io)
       => ToSet(queue'["io"]) \cap Disables = {} /\ ~DisablesNow(Io)'
  /\ ~DisablesNow(Io) /\ ~Reporting' /\ statusShadow' = "on" /\ ShowsEnabled
     /\ hw.state = "enabled" /\ ~hw.broken
       => LastShown' = <<SetSignals("on")>> \/ signal'["enabled"] = 1
  /\ ~Reporting' /\ statusShadow' = "off" /\ ShowsDisabled /\ hw.state = "disabled" =>
       \/ Tells0
       \/ LastSet' \in Zeros
       \/ LastSet' = <<>> /\ (Writes(Io, 0)' \/ (~Writes(Io, 1)' /\ signal'["enabled"] = 0))

(* The instructions that handle a status. *)
Handling == StatusOps \cup {"ReadStatus", "CheckStatus", "CompareStatus"}

(* What the output thread does to a change when it handles a status, while no
   handler runs on io. *)
Reading(x) ==
  /\ Stands(Out, "ReadStatus") /\ (x = hw.status \/ x = "invalid")
  /\ \A y : Held(Out', y) <=> y = x
  /\ UNCHANGED <<statusShadow, pendingLevelChange>>
Skipping(x) ==
  /\ With(Out, "ApplyStatus", x) /\ \A y : ~Held(Out', y)
  /\ x = statusShadow \/ (x = "error" /\ (pendingLevelChange \/ hw.state = "disabled"))
  /\ UNCHANGED <<statusShadow, pendingLevelChange>>
Taking(x) ==
  /\ With(Out, "ApplyStatus", x) /\ With(Out', "Commit", x)
  /\ x # statusShadow /\ \A y : Held(Out', y) <=> y = x
  /\ UNCHANGED <<statusShadow, pendingLevelChange>>
Committing(x) ==
  /\ With(Out, "Commit", x) /\ \A y : ~Held(Out', y)
  /\ statusShadow' = x
  /\ pendingLevelChange' = (pendingLevelChange /\ ~Head(Out).done)
Reported(x) ==
  /\ With(Out, "Report", x) /\ \A y : ~Held(Out', y)
  /\ UNCHANGED <<statusShadow, pendingLevelChange>>

OutFrame ==
  /\ Io = <<>> /\ Io' = <<>> /\ Out # <<>>
  /\ UNCHANGED <<newLevel, stateShadow, pendingNewLevel, retries, armed, alarm, hw, netlink>>
  /\ UNCHANGED queue["output"]
  /\ \A s \in RegulatorState : ~Changing(Out, s) /\ ~Changing(Out', s)
  /\ Confirming(Out') <=> Confirming(Out)
  /\ Stands(Out, "ReadStatus") => Confirming(Out)
  /\ \A op \in {"Apply", "StartTimer"} \cup WriteOps : ~Stands(Out, op) /\ ~Stands(Out', op)
  /\ ~Stands(Out', "ReadStatus")
  /\ Decided(Out)'
  /\ ErrorShows' => ErrorShows \/ With(Out, "Commit", "error")
  /\ \E x : Reading(x) \/ Skipping(x) \/ Taking(x) \/ Committing(x) \/ Reported(x)

(* What it does to a fault that is or will be reported, and to _Enabled. *)
OutKeep ==
  /\ \A c : Told(Out', c) <=> Told(Out, c)
  /\ \A y : With(Out', "Report", y) => With(Out, "Commit", y)
  /\ FaultComing => FaultComing' \/ Reports("on") \/ Reports("off")
  /\ With(Out, "Commit", "error") => FaultComing'
  /\ statusShadow = "error" /\ With(Out, "ApplyStatus", "error") => FaultComing'
  /\ ToSet(queue["io"]) \cap Disables = {} => ToSet(queue'["io"]) \cap Disables = {}
  /\ ~Reporting' /\ statusShadow' = "on" /\ ShowsEnabled
     /\ hw.state = "enabled" /\ ~hw.broken
       => LastShown' = <<SetSignals("on")>> \/ signal'["enabled"] = 1
  /\ ~Reporting' /\ statusShadow' = "off" /\ ShowsDisabled /\ hw.state = "disabled" =>
       \/ Tells0
       \/ LastSet' \in Zeros
       \/ LastSet' = <<>> /\ signal'["enabled"] = 0

(* What the output thread does apart from handling a status or an event. *)
Doing == {"Apply", "SetPending", "StartTimer", "ReadStatus", "ConfirmStatus"}
           \cup WriteOps

(* The output thread and io hold no status, before the step and after it, and the
   one has no event to tell of. *)
Silent ==
  /\ Io = <<>> /\ Io' = <<>>
  /\ \A x : ~Holds(x) /\ ~Holds(x)'
  /\ \A x : ~Held(Out, x) /\ ~Held(Out', x)
  /\ \A op \in StatusOps : \A x : ~With(Out', op, x) /\ ~With(Out, op, x)
  /\ \A op \in StatusOps : ~Stands(Out', op) /\ ~Stands(Out, op)
  /\ \A c : ~Told(Out', c) /\ ~Told(Out, c)
  /\ ~ErrorNext /\ ~ErrorNext'
  /\ Decides'
  /\ ErrorShows <=> <<SetSignals("error")>> \in ToSet(queue["io"])
  /\ ErrorShows' <=> <<SetSignals("error")>> \in ToSet(queue'["io"])
  /\ ~Reporting /\ ~Reporting'
  /\ \A x : ~Reports(x) /\ ~Reports(x)'
  /\ \A x : ~Commits(x) /\ ~Commits(x)'

(* The next instruction of a handler is op, of a change to s. *)
Coming(r, op, s) ==
  /\ r # <<>> /\ Head(r).op = op
  /\ \A o : Stands(r, o) <=> o = op
  /\ \A u \in RegulatorState : Changing(r, u) <=> u = s
  /\ ~Confirming(r)

(* The steps of the output thread that change no more than the handlers, the
   queues and the events on their way. *)
Still ==
  /\ UNCHANGED newLevel /\ UNCHANGED stateShadow /\ UNCHANGED statusShadow
  /\ UNCHANGED pendingLevelChange /\ UNCHANGED pendingNewLevel
  /\ UNCHANGED retries /\ UNCHANGED armed /\ UNCHANGED signal /\ UNCHANGED alarm
  /\ UNCHANGED hw

(* The output thread has received the event e. *)
Received(e) ==
  /\ e \in Sent /\ Still /\ UNCHANGED queue
  /\ Out = <<>> /\ Out' # <<>> /\ Io = <<>> /\ Io' = <<>>
  /\ \A i \in DOMAIN netlink' : i + 1 \in DOMAIN netlink /\ netlink'[i] = netlink[i + 1]
  /\ \A i \in DOMAIN netlink :
       i = 1 \/ (i - 1 \in DOMAIN netlink' /\ netlink'[i - 1] = netlink[i])
  /\ 1 \in DOMAIN netlink /\ netlink[1] = e
  /\ DOMAIN netlink \subseteq Nat /\ DOMAIN netlink' \subseteq Nat
  /\ \A c : Told(Out', c) <=> e.change = c /\ c # "none"
  /\ \A c : ~Told(Out, c)
  /\ \A s \in RegulatorState : ~Changing(Out', s)
  /\ ~Confirming(Out) /\ ~Confirming(Out') /\ \A s : ~Changing(Out, s)
  /\ \A op : ~Stands(Out, op)
  /\ \A op : Stands(Out', op) => op \in {"ApplyStatus", "HandleEvent"}
  /\ \A op : \A x : ~With(Out, op, x)
  /\ \A x : With(Out', "ApplyStatus", x) <=> e.failure /\ x = "error"
  /\ \A x : ~With(Out', "Report", x) /\ ~With(Out', "Commit", x)
  /\ \A x : ~Held(Out, x) /\ (Held(Out', x) => x = "error")
  /\ LastNoise' = LastNoise /\ (TimerQueued' <=> TimerQueued)

(* The output thread has taken a handler. *)
HandlerTaken ==
  /\ Still /\ UNCHANGED netlink
  /\ Io = <<>> /\ Io' = <<>> /\ queue'["io"] = queue["io"]
  /\ Out = <<>> /\ queue["output"] # <<>> /\ queue'["output"] = Tail(queue["output"])
  /\ Out' # <<>> /\ <<Apply>> # Timer
  /\ ToSet(queue["output"]) = {Out'} \cup ToSet(queue'["output"])
  /\ Head(Out').op \in Doing
  /\ Out' = <<Apply>> \/ Out' = Timer
  /\ Stands(Out', "Apply") <=> Out' = <<Apply>>
  /\ Stands(Out', "ReadStatus") <=> Out' = Timer
  /\ ~Stands(Out', "StartTimer")
  /\ Confirming(Out') <=> Out' = Timer
  /\ \A op : ~Stands(Out, op)
  /\ ~Confirming(Out) /\ \A s : ~Changing(Out, s)
  /\ \A s \in RegulatorState : ~Changing(Out', s)
  /\ ~Changes /\ ~Changes'

(* The output thread has handled the event e: h is posted to io. *)
Handled(e, h) ==
  /\ Still /\ UNCHANGED netlink
  /\ Out # <<>> /\ Out' = <<>> /\ Io = <<>> /\ Io' = <<>>
  /\ \A s \in RegulatorState : ~Changing(Out, s)
  /\ \A s : ~Changing(Out', s)
  /\ ~Confirming(Out) /\ ~Confirming(Out')
  /\ \A c : Told(Out, c) <=> e.change = c
  /\ \A op : ~Stands(Io, op) /\ ~Stands(Io', op) /\ ~Stands(Out', op)
  /\ \A op : Stands(Out, op) => op = "HandleEvent"
  /\ \A x : ~Held(Out, x) /\ ~Held(Out', x)
  /\ \A op, x : ~With(Out', op, x)
  /\ e \in Sent /\ h \notin Shows /\ h \notin Noisy
  /\ IF e.change = "enable" THEN h \notin Disables ELSE h \in Zeros
  /\ queue'["output"] = queue["output"]
  /\ ToSet(queue'["io"]) = ToSet(queue["io"]) \cup {h}
  /\ \A M, d : LastIn(queue'["io"], M, d) = IF h \in M THEN h ELSE LastIn(queue["io"], M, d)
  /\ LastNoise' = LastNoise

(* What happens outside: the timer, the user and the regulator itself. *)
OutsideFrame ==
  /\ UNCHANGED <<run, stateShadow, statusShadow, pendingLevelChange,
                 pendingNewLevel, signal>>
  /\ queue'["io"] = queue["io"]
  /\ TimerQueued => TimerQueued'
  /\ armed => armed' \/ TimerQueued'
  /\ hw'.state = hw.state
  /\ hw'.status \in {hw.status, Goal(hw.state), "error"}
  /\ hw'.broken => hw'.status = "error" /\ (hw.broken \/ FailureComing')
  /\ FailureComing => FailureComing'

(* What the output thread does without a status. *)
BesideFrame ==
  /\ Io = <<>> /\ Io' = <<>>
  /\ \A x : ~Held(Out, x) /\ (Held(Out', x) => x = "error")
  /\ \A op \in {"Commit", "Report"} : ~Stands(Out, op) /\ ~Stands(Out', op)
  /\ UNCHANGED signal /\ LastNoise' = LastNoise
  /\ Between(Out') \/ stateShadow' = hw'.state
  /\ hw'.broken = hw.broken /\ hw'.status = hw.status
  /\ FailureComing => FailureComing' \/ ErrorNext' \/ pendingLevelChange'
  /\ pendingLevelChange => pendingLevelChange' \/ ErrorNext'
  /\ Changes => Changes' \/ pendingLevelChange'
  /\ hw'.state = hw.state \/ Changes'
  /\ PendsInTime' /\ WrongIsSeen' /\ Watched'

(* A step of the output thread that is not part of a change. *)
QuietFrame ==
  /\ Io = <<>> /\ Io' = <<>>
  /\ UNCHANGED <<newLevel, stateShadow, statusShadow, pendingLevelChange,
                 pendingNewLevel, retries, armed, alarm, hw>>
  /\ \A s \in RegulatorState : ~Changing(Out, s) /\ ~Changing(Out', s)
  /\ ~Confirming(Out) /\ ~Confirming(Out')
  /\ \A op \in {"StartTimer", "ReadStatus"} : ~Stands(Out, op) /\ ~Stands(Out', op)
  /\ \A x : ~Held(Out, x) /\ (Held(Out', x) => x = "error")
  /\ \A x : ~With(Out', "Report", x) /\ ~With(Out', "Commit", x)
  /\ ~Stands(Out', "Commit")
  /\ TimerQueued' <=> TimerQueued
  /\ ApplyNext' => ApplyNext
  /\ ~ApplyNext => UNCHANGED queue["output"]
  /\ ErrorShows' => ErrorShows
  /\ Fresh'

(* A step that leaves the signals, the events and the regulator as they are. *)
RestFrame ==
  /\ Io' = Io /\ queue'["io"] = queue["io"]
  /\ UNCHANGED <<hw, netlink, statusShadow, signal>>
  /\ Stands(Out', "Report") <=> Stands(Out, "Report")
  /\ \A c : Told(Out', c) <=> Told(Out, c)
  /\ Changing(Out', "enabled") =>
       \/ Changing(Out, "enabled") \/ hw.state = "enabled"
       \/ queue["io"] = <<>> /\ Io = <<>> /\ ~Tells0

(* The regulator is left alone with its status. *)
HwFrame ==
  /\ UNCHANGED <<newLevel, shadows, signal, queue, run, alarm>>
  /\ hw'.state = hw.state /\ hw'.reports = hw.reports

(* It settles, or its status is that of an error. *)
HwStatus ==
  \/ Settled'
  \/ (Settled' <=> Settled) /\ hw'.status = "error" /\ hw.status # "error"

(* What is done for a change after the state has been written. *)
Changers == (WriteOps \ {"SetState"}) \cup {"SetPending", "StartTimer"}

(* The step neither begins a change, nor does a part of one, nor ends one. *)
Elsewhere ==
  /\ UNCHANGED stateShadow /\ hw'.state = hw.state /\ UNCHANGED pendingNewLevel
  /\ UNCHANGED refused /\ faults' <= faults
  /\ ApplyNext' \/ (~ApplyNext /\ UNCHANGED newLevel)
  /\ \A s \in RegulatorState : Changing(Out', s) <=> Changing(Out, s)
  /\ \A op \in Changers : Stands(Out', op) <=> Stands(Out, op)

(* What the output thread does about a status or an event. *)
Aside == {"ApplyStatus", "Commit", "Report", "ReadStatus", "ConfirmStatus", "HandleEvent"}

==============================================================================

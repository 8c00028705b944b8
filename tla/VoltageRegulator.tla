-------------------------- MODULE VoltageRegulator --------------------------
(***************************************************************************)
(* VoltageRegulator: one regulator, driven through sysfs and observed      *)
(* through its status file, netlink events and a timer.                    *)
(*                                                                         *)
(* Both threads run handlers of the regulator.  Only ApplyStatus takes the *)
(* lock, the fields are otherwise read and written without.                *)
(*                                                                         *)
(* External: the regulator `hw' (the consumer's state, the status, whether *)
(* it is broken, and whether its driver has a status at all) and `netlink',*)
(* the events the kernel has sent and the output thread not yet received.  *)
(***************************************************************************)
EXTENDS Integers, TwoThreads

CONSTANTS
  Retries,       \* how often a change is checked again: 10 in the code
  AllowFaulting, \* allow_faulting of the configuration
  Patient,       \* does _On only change when the last change is over?
  Faults,        \* bound: how many accesses to sysfs may fail
  MaxQueue,      \* bound: _On changes while fewer handlers are queued
  MaxEvents      \* bound: the outside acts while fewer events are in netlink

ASSUME ConstantsAssumption ==
  /\ Retries \in Nat \ {0}
  /\ {AllowFaulting, Patient} \subseteq BOOLEAN
  /\ Faults \in Nat
  /\ {MaxQueue, MaxEvents} \subseteq Nat \ {0}

Undefined == -1

(* What can be asked for, and what can be read back: a consumer's state that
   cannot be read is decoded as UNKNOWN. *)
RegulatorState == {"enabled", "disabled"}
ReadableState == RegulatorState \cup {"unknown"}
RegulatorStatus == {"off", "on", "error", "undefined", "nochange", "invalid"}

(* The status that a requested state ends in. *)
Goal(state) == IF state = "enabled" THEN "on" ELSE "off"

(* The netlink event with failure bits, with one of the bits of EN_DIS. *)
Event == [failure : BOOLEAN, change : {"enable", "disable", "none"}]
Changed(state) ==
  [failure |-> FALSE,
   change |-> IF state = "enabled" THEN "enable" ELSE "disable"]
Failure == [failure |-> TRUE, change |-> "none"]
FailureDisable == [failure |-> TRUE, change |-> "disable"]

(* The instructions.  A handler of a queue is a sequence of them. *)
Apply == [op |-> "Apply"]
SetState(s) == [op |-> "SetState", state |-> s]
SetStateAgain(s) == [op |-> "SetStateAgain", state |-> s]
ReadState(s) == [op |-> "ReadState", state |-> s]
ReadStateAgain(s) == [op |-> "ReadStateAgain", state |-> s]
SetPending == [op |-> "SetPending"]
StartTimer(s) == [op |-> "StartTimer", state |-> s]
ReadStatus == [op |-> "ReadStatus"]
ApplyStatus(status) == [op |-> "ApplyStatus", status |-> status]
Commit(status, done) == [op |-> "Commit", status |-> status, done |-> done]
Report(status) == [op |-> "Report", status |-> status]
ConfirmStatus == [op |-> "ConfirmStatus"]
CheckStatus == [op |-> "CheckStatus"]
CompareStatus(status) == [op |-> "CompareStatus", status |-> status]
HandleEvent(e) == [op |-> "HandleEvent", event |-> e]
CheckLater(v) == [op |-> "CheckLater", value |-> v]
SetEnabled(v) == [op |-> "SetEnabled", value |-> v]
SetSignals(status) == [op |-> "SetSignals", status |-> status]

Instruction ==
  {Apply, SetPending, ReadStatus, ConfirmStatus, CheckStatus}
    \cup {SetState(s) : s \in RegulatorState}
    \cup {SetStateAgain(s) : s \in RegulatorState}
    \cup {ReadState(s) : s \in RegulatorState}
    \cup {ReadStateAgain(s) : s \in RegulatorState}
    \cup {StartTimer(s) : s \in RegulatorState}
    \cup {ApplyStatus(s) : s \in RegulatorStatus}
    \cup {CompareStatus(s) : s \in RegulatorStatus}
    \cup {Report(s) : s \in RegulatorStatus}
    \cup {SetSignals(s) : s \in RegulatorStatus}
    \cup {Commit(s, d) : s \in RegulatorStatus, d \in BOOLEAN}
    \cup {HandleEvent(e) : e \in Event}
    \cup {SetEnabled(v) : v \in {0, 1}} \cup {CheckLater(v) : v \in {0, 1}}

VARIABLES
  newLevel,            \* the last level of _On that Update has seen
  stateShadow,
  statusShadow,
  pendingLevelChange,
  pendingNewLevel,
  retries,
  armed,               \* a wait on timerStateCheck is outstanding
  signal,              \* levels of _Enabled, _PowerGood and _Fault
  alarm,               \* errorCallback has asked for the chassis to go off
  hw,                  \* external: the regulator
  netlink,             \* external: events on their way
  faults,              \* bound: failing accesses left
  overlapped,          \* history: handlers of the two threads have overlapped
  refused              \* history: a second attempt has not been read back

shadows == <<stateShadow, statusShadow, pendingLevelChange, pendingNewLevel,
             retries, armed>>
outside == <<alarm, hw, netlink, faults, overlapped, refused>>
vars == <<newLevel, shadows, signal, queue, run, outside>>

TypeOK ==
  /\ newLevel \in {Undefined, 0, 1}
  /\ stateShadow \in ReadableState
  /\ statusShadow \in RegulatorStatus \ {"undefined"}
  /\ pendingLevelChange \in BOOLEAN
  /\ pendingNewLevel \in RegulatorState
  /\ retries \in 0..Retries
  /\ armed \in BOOLEAN
  /\ signal \in [{"enabled", "powergood", "fault"} -> {Undefined, 0, 1}]
  /\ ThreadsTypeOK(Instruction)
  /\ alarm \in BOOLEAN
  /\ hw \in [state : RegulatorState, status : {"off", "on", "error"},
             broken : BOOLEAN, reports : BOOLEAN]
  /\ netlink \in Seq(Event)
  /\ faults \in 0..Faults
  /\ overlapped \in BOOLEAN
  /\ refused \in BOOLEAN

(* Some drivers only report "undefined". *)
DecodeStatus == IF hw.reports THEN hw.status ELSE "undefined"

(* Reading the status file, which may fail for a driver that has a status. *)
Reads(status) ==
  \/ status = DecodeStatus /\ UNCHANGED faults
  \/ status = "invalid" /\ hw.reports /\ faults > 0 /\ faults' = faults - 1

(* The regulator has nothing more to do for the state it was told. *)
Settled == hw.status = Goal(hw.state) \/ (hw.broken /\ hw.state = "enabled")

AtRest == ThreadsIdle /\ ~armed /\ ~alarm /\ netlink = <<>>

-----------------------------------------------------------------------------
(* The constructor runs before the threads have anything to do.  It sets    *)
(* pendingLevelChange to silence ApplyStatus, which clears it again if the  *)
(* status is that of a state.  What it reads from sysfs is taken to succeed.*)
Init ==
  /\ hw \in {[state |-> s, status |-> Goal(s), broken |-> FALSE,
              reports |-> r] : s \in RegulatorState, r \in BOOLEAN}
  /\ newLevel = Undefined
  /\ stateShadow = hw.state
  /\ statusShadow = Goal(hw.state)
  /\ pendingNewLevel =
       IF DecodeStatus = "on" THEN "enabled" ELSE "disabled"
  /\ pendingLevelChange = (Goal(pendingNewLevel) # statusShadow)
  /\ retries = 0
  /\ armed = FALSE
  /\ signal = [s \in {"enabled", "powergood", "fault"} |-> Undefined]
  /\ queue = [t \in Threads |->
                IF t = "io" THEN <<<<SetSignals(statusShadow)>>>> ELSE <<>>]
  /\ run = [t \in Threads |-> <<>>]
  /\ alarm = FALSE
  /\ netlink = <<>>
  /\ faults = Faults
  /\ overlapped = FALSE
  /\ refused = FALSE

-----------------------------------------------------------------------------
(* What the threads do between two handlers. *)

Start(t) ==
  /\ TakeHandler(t)
  /\ overlapped' = (overlapped \/ run[Other(t)] # <<>>)
  /\ UNCHANGED <<newLevel, shadows, signal, alarm, hw, netlink, faults, refused>>

(* WaitForEvent: the output thread reads an event, when no handler runs on
   it.  EN_DIS does not tell the status yet, so the rest is left to io.  The
   loop of WaitForEvent reads all events there are; with one at a time,
   handlers may also run in between. *)
StartEvent ==
  /\ run["output"] = <<>> /\ netlink # <<>>
  /\ LET e == Head(netlink)
     IN run' = [run EXCEPT !["output"] =
                  (IF e.failure THEN <<ApplyStatus("error")>> ELSE <<>>)
                    \o (IF e.change # "none" THEN <<HandleEvent(e)>> ELSE <<>>)]
  /\ netlink' = Tail(netlink)
  /\ overlapped' = (overlapped \/ run["io"] # <<>>)
  /\ UNCHANGED <<newLevel, shadows, signal, queue, alarm, hw, faults, refused>>

-----------------------------------------------------------------------------
(* Apply. *)

RunApply ==
  /\ At("output", "Apply")
  /\ LET s == IF newLevel = 1 THEN "enabled" ELSE "disabled"
     IN IF s = stateShadow
        THEN /\ Continue("output", <<>>)
             /\ UNCHANGED armed
        ELSE /\ armed' = FALSE
             /\ Continue("output", <<SetState(s), SetPending, StartTimer(s)>>)
  /\ UNCHANGED <<newLevel, stateShadow, statusShadow, pendingLevelChange,
                 pendingNewLevel, retries, signal, queue, outside>>

(* SetState writes the state file.  Only this thread does. *)
WriteState(s) ==
  \/ /\ hw' = [hw EXCEPT !.state = s]
     /\ netlink' = IF s = hw.state THEN netlink ELSE Append(netlink, Changed(s))
     /\ UNCHANGED faults
  \/ /\ faults > 0
     /\ faults' = faults - 1
     /\ UNCHANGED <<hw, netlink>>

RunSetState ==
  /\ At("output", "SetState")
  /\ LET s == Head(run["output"]).state
     IN WriteState(s) /\ Continue("output", <<ReadState(s)>>)
  /\ UNCHANGED <<newLevel, shadows, signal, queue, alarm, overlapped, refused>>

RunSetStateAgain ==
  /\ At("output", "SetStateAgain")
  /\ LET s == Head(run["output"]).state
     IN WriteState(s) /\ Continue("output", <<ReadStateAgain(s)>>)
  /\ UNCHANGED <<newLevel, shadows, signal, queue, alarm, overlapped, refused>>

(* DecodeState reads the state back, in a step of its own: until then io sees
   the state from before the write. *)
DecodeState ==
  \/ stateShadow' = hw.state /\ UNCHANGED faults
  \/ stateShadow' = "unknown" /\ faults > 0 /\ faults' = faults - 1

(* Setting the state might fail: what was read back tells. *)
TriesAgain(s) == stateShadow' # s

RunReadState ==
  /\ At("output", "ReadState")
  /\ DecodeState
  /\ LET s == Head(run["output"]).state
     IN Continue("output", IF TriesAgain(s) THEN <<SetStateAgain(s)>> ELSE <<>>)
  /\ UNCHANGED <<newLevel, statusShadow, pendingLevelChange, pendingNewLevel,
                 retries, armed, signal, queue, alarm, hw, netlink, overlapped,
                 refused>>

(* The second time nobody looks at it. *)
RunReadStateAgain ==
  /\ At("output", "ReadStateAgain")
  /\ DecodeState
  /\ refused' = (refused \/ stateShadow' # Head(run["output"]).state)
  /\ Continue("output", <<>>)
  /\ UNCHANGED <<newLevel, statusShadow, pendingLevelChange, pendingNewLevel,
                 retries, armed, signal, queue, alarm, hw, netlink, overlapped>>

RunSetPending ==
  /\ At("output", "SetPending")
  /\ pendingLevelChange' = TRUE
  /\ Continue("output", <<>>)
  /\ UNCHANGED <<newLevel, stateShadow, statusShadow, pendingNewLevel, retries,
                 armed, signal, queue, outside>>

RunStartTimer ==
  /\ At("output", "StartTimer")
  /\ pendingNewLevel' = Head(run["output"]).state
  /\ retries' = Retries
  /\ armed' = TRUE
  /\ Post("io", <<SetEnabled(IF stateShadow = "enabled" THEN 1 ELSE 0)>>)
  /\ Continue("output", <<>>)
  /\ UNCHANGED <<newLevel, stateShadow, statusShadow, pendingLevelChange, signal,
                 outside>>

-----------------------------------------------------------------------------
(* ApplyStatus, on either thread.  The lock is held from the first step to *)
(* the last; Apply and ConfirmStatusAfterTimeout do not take it.           *)

HoldsNoLock(t) == FALSE   \* mutant
HoldsLock(t) == At(t, "Commit") \/ At(t, "Report")

Effective(status) == IF status = "undefined" THEN Goal(stateShadow) ELSE status

(* An error is part of a change that is under way, or to be expected of a
   regulator that is off. *)
Ignored(status) ==
  \/ status = statusShadow
  \/ status = "error" /\ (pendingLevelChange \/ stateShadow = "disabled")

(* The status ends the change that is pending. *)
DoneOff(status) == pendingLevelChange /\ status = "off"   \* mutant
Done(status) == pendingLevelChange /\ status = Goal(pendingNewLevel)

RunApplyStatus(t) ==
  /\ At(t, "ApplyStatus")
  /\ ~HoldsLock(Other(t))
  /\ LET status == Effective(Head(run[t]).status)
     IN Continue(t, IF Ignored(status) THEN <<>>
                    ELSE <<Commit(status, Done(status))>>)
  /\ UNCHANGED <<newLevel, shadows, signal, queue, outside>>

RunCommit(t) ==
  /\ At(t, "Commit")
  /\ LET i == Head(run[t])
     IN /\ pendingLevelChange' = (pendingLevelChange /\ ~i.done)
        /\ statusShadow' = i.status
        /\ Continue(t, <<Report(i.status)>>)
  /\ UNCHANGED <<newLevel, stateShadow, pendingNewLevel, retries, armed, signal,
                 queue, outside>>

RunReport(t) ==
  /\ At(t, "Report")
  /\ Post("io", <<SetSignals(Head(run[t]).status)>>)
  /\ Continue(t, <<>>)
  /\ UNCHANGED <<newLevel, shadows, signal, outside>>

RunReadStatus(t) ==
  /\ At(t, "ReadStatus")
  /\ \E status \in RegulatorStatus :
       Reads(status) /\ Continue(t, <<ApplyStatus(status)>>)
  /\ UNCHANGED <<newLevel, shadows, signal, queue, alarm, hw, netlink, overlapped,
                 refused>>

-----------------------------------------------------------------------------
(* ConfirmStatusAfterTimeout, when its ApplyStatus is done. *)

(* It is only the opposite state that counts as a failure. *)
StateConfirmed == stateShadow \in {pendingNewLevel, "unknown"}

StateChanged == StateConfirmed   \* mutant of Confirmed
Confirmed == StateConfirmed /\ statusShadow = Goal(pendingNewLevel)

MayRetryOnceMore == retries >= 0   \* mutant
MayRetry == retries > 0

RetriesNotCounted == retries       \* mutant
RetriesLeft == retries - 1

RunConfirmStatus ==
  /\ At("output", "ConfirmStatus")
  /\ \/ /\ Confirmed
        /\ Continue("output", <<>>)
        /\ UNCHANGED <<pendingLevelChange, armed, retries>>
     \/ /\ ~Confirmed /\ MayRetry
        /\ armed' = TRUE
        /\ retries' = RetriesLeft
        /\ Continue("output", <<>>)
        /\ UNCHANGED pendingLevelChange
     \/ /\ ~Confirmed /\ ~MayRetry
        /\ pendingLevelChange' = FALSE
        /\ Continue("output", <<ApplyStatus("error")>>)
        /\ UNCHANGED <<armed, retries>>
  /\ UNCHANGED <<newLevel, stateShadow, statusShadow, pendingNewLevel, signal,
                 queue, outside>>

-----------------------------------------------------------------------------
(* The netlink callback and CheckStatus. *)

(* A failure gives the error handler some time first: its check is posted
   once more (CheckLater). *)
RunHandleEvent ==
  /\ At("output", "HandleEvent")
  /\ LET e == Head(run["output"]).event
         v == IF e.change = "enable" THEN 1 ELSE 0
     IN Post("io", IF e.failure THEN <<CheckLater(v)>>
                   ELSE <<CheckStatus, SetEnabled(v)>>)
  /\ Continue("output", <<>>)
  /\ UNCHANGED <<newLevel, shadows, signal, outside>>

RunCheckLater ==
  /\ At("io", "CheckLater")
  /\ queue' = [queue EXCEPT !["io"] =
                 @ \o <<<<CheckStatus>>, <<SetEnabled(Head(run["io"]).value)>>>>]
  /\ Continue("io", <<>>)
  /\ UNCHANGED <<newLevel, shadows, signal, outside>>

RunCheckStatus ==
  /\ At("io", "CheckStatus")
  /\ \E status \in RegulatorStatus :
       Reads(status) /\ Continue("io", <<CompareStatus(status)>>)
  /\ UNCHANGED <<newLevel, shadows, signal, queue, alarm, hw, netlink, overlapped,
                 refused>>

(* The status has not changed yet: it is read once more, later. *)
RunCompareStatus ==
  /\ At("io", "CompareStatus")
  /\ LET status == Head(run["io"]).status
     IN IF statusShadow = status
        THEN /\ Post("io", <<ReadStatus>>)
             /\ Continue("io", <<>>)
        ELSE /\ Continue("io", <<ApplyStatus(status)>>)
             /\ UNCHANGED queue
  /\ UNCHANGED <<newLevel, shadows, signal, outside>>

-----------------------------------------------------------------------------
(* The closures that set signals. *)

RunSetEnabled ==
  /\ At("io", "SetEnabled")
  /\ signal' = [signal EXCEPT !["enabled"] = Head(run["io"]).value]
  /\ Continue("io", <<>>)
  /\ UNCHANGED <<newLevel, shadows, queue, outside>>

CallsBackIfAllowed(status) == status = "error" /\ AllowFaulting   \* mutant
CallsBack(status) == status = "error" /\ ~AllowFaulting

RunSetSignals ==
  /\ At("io", "SetSignals")
  /\ LET status == Head(run["io"]).status
     IN /\ signal' = CASE status = "off" ->
                            [s \in DOMAIN signal |-> 0]
                       [] status = "error" ->
                            [signal EXCEPT !["powergood"] = 0, !["fault"] = 1]
                       [] status = "on" ->
                            [s \in DOMAIN signal |-> IF s = "fault" THEN 0 ELSE 1]
                       [] OTHER -> signal
        /\ alarm' = (alarm \/ CallsBack(status))
  /\ Continue("io", <<>>)
  /\ UNCHANGED <<newLevel, shadows, queue, hw, netlink, faults, overlapped,
                 refused>>

-----------------------------------------------------------------------------
(* Update: EvaluateState finds _On changed, or walks it for the first time. *)
Update(v) ==
  /\ run["io"] = <<>>
  /\ newLevel' = v
  /\ alarm' = FALSE
  /\ Post("output", <<Apply>>)
  /\ UNCHANGED <<shadows, signal, run, hw, netlink, faults, overlapped, refused>>

Request(v) ==
  /\ \A t \in Threads : Len(queue[t]) < MaxQueue
  /\ Len(netlink) < MaxEvents
  /\ ~alarm
  /\ Patient => AtRest /\ Settled
  /\ Update(v)

(* The callback asks for the chassis to go off, before anything else: the
   netlist switches _On off.  Where _On is off already nothing gets dirty, and
   nobody is updated. *)
OffAlready ==
  /\ run["io"] = <<>>
  /\ newLevel = 0
  /\ alarm' = FALSE
  /\ UNCHANGED <<newLevel, shadows, signal, queue, run, hw, netlink, faults,
                 overlapped, refused>>

AlarmUpdates == newLevel # 0 /\ Update(0)

Alarm == alarm /\ (AlarmUpdates \/ OffAlready)

(* The timer expires; cancelling it does not take back the handler.  The
   configured timeout is longer than the regulator takes. *)
Expire ==
  /\ armed
  /\ retries = 0 => Settled
  /\ armed' = FALSE
  /\ Post("output", <<ReadStatus, ConfirmStatus>>)
  /\ UNCHANGED <<newLevel, stateShadow, statusShadow, pendingLevelChange,
                 pendingNewLevel, retries, signal, run, outside>>

-----------------------------------------------------------------------------
(* The regulator. *)

HwSettles ==
  /\ ~Settled
  /\ hw' = [hw EXCEPT !.status = Goal(hw.state), !.broken = FALSE]
  /\ UNCHANGED <<newLevel, shadows, signal, queue, run, alarm, netlink, faults,
                 overlapped, refused>>

(* Out of regulation for a short moment while it turns on or off. *)
HwSwings ==
  /\ ~Settled /\ hw.status # "error"
  /\ Len(netlink) < MaxEvents
  /\ hw' = [hw EXCEPT !.status = "error"]
  /\ netlink' = Append(netlink, Failure)
  /\ UNCHANGED <<newLevel, shadows, signal, queue, run, alarm, faults,
                 overlapped, refused>>

HwBreaks ==
  /\ hw.state = "enabled" /\ ~hw.broken
  /\ Len(netlink) < MaxEvents
  /\ hw' = [hw EXCEPT !.status = "error", !.broken = TRUE]
  /\ \E e \in {Failure, FailureDisable} : netlink' = Append(netlink, e)
  /\ UNCHANGED <<newLevel, shadows, signal, queue, run, alarm, faults,
                 overlapped, refused>>

-----------------------------------------------------------------------------
IoThread ==
  \/ Start("io") \/ RunApplyStatus("io") \/ RunCommit("io")
  \/ RunReport("io")
  \/ RunReadStatus("io") \/ RunCheckLater \/ RunCheckStatus
  \/ RunCompareStatus \/ RunSetEnabled \/ RunSetSignals

OutputThread ==
  \/ Start("output") \/ StartEvent \/ RunApplyStatus("output")
  \/ RunCommit("output") \/ RunReport("output") \/ RunReadStatus("output")
  \/ RunApply
  \/ RunSetState \/ RunReadState \/ RunSetStateAgain \/ RunReadStateAgain
  \/ RunSetPending \/ RunStartTimer
  \/ RunConfirmStatus \/ RunHandleEvent

Requests == \E v \in {0, 1} : Request(v)

Next ==
  \/ IoThread \/ OutputThread \/ Expire \/ Requests \/ Alarm
  \/ HwSettles \/ HwSwings \/ HwBreaks

Spec == Init /\ [][Next]_vars

Fairness ==
  /\ WF_vars(IoThread) /\ WF_vars(OutputThread) /\ WF_vars(Expire)
  /\ WF_vars(Alarm) /\ WF_vars(HwSettles)

FairSpec == Spec /\ Fairness

-----------------------------------------------------------------------------
(* Properties. *)

(* The signals follow the status: when io has run what was posted to it,
   _PowerGood and _Fault are those of statusShadow, whichever thread set it
   last.  It is what ApplyStatus takes the lock for.  A status that could not
   be read leaves them as they are. *)
SignalsFollowStatus ==
  /\ queue["io"] = <<>> /\ run["io"] = <<>> /\ ~HoldsLock("output")
  /\ statusShadow # "invalid"
  =>
    /\ signal["powergood"] = (IF statusShadow = "on" THEN 1 ELSE 0)
    /\ signal["fault"] = (IF statusShadow = "error" THEN 1 ELSE 0)

Steady == AtRest /\ Settled /\ hw.reports

(* At rest the signals show the regulator (doc/IO.md:40-49), as long as no
   handlers of the two threads have overlapped, no second attempt at a change
   was refused (Apply takes that for done when it compares the next time, and an
   alarm finds _On off already), and the status could be read at last: nothing
   corrects an INVALID that the last retry has met.  An error has the regulator
   switched off until its status is read again; only where faults are allowed
   may the error of a change stay that was given up, or that was over before its
   event was read. *)
SignalsShowRegulator ==
  /\ Steady /\ ~overlapped /\ ~refused
  /\ hw.status # "error" /\ statusShadow # "invalid"
  /\ AllowFaulting => statusShadow # "error"
  =>
    /\ signal["enabled"] = (IF hw.state = "enabled" THEN 1 ELSE 0)
    /\ signal["powergood"] = (IF hw.status = "on" THEN 1 ELSE 0)
    /\ signal["fault"] = 0

(* No fault is taken for part of a change that is over: pendingLevelChange
   is a change that "has been requested, but has not been processes yet"
   (VoltageRegulator.hpp:87). *)
FaultReported ==
  Steady /\ ~overlapped /\ ~refused /\ hw.broken => signal["fault"] = 1

(* A regulator that breaks is switched off in the end, by the callback of
   the state machine, unless it has refused to be. *)
FaultSwitchesOff ==
  hw.broken /\ hw.reports /\ ~overlapped /\ ~refused
    ~> (hw.state = "disabled" \/ overlapped \/ refused)

(* When _On stays as it is, checks, retries and events come to an end, and
   the regulator is in the state that was asked for last, although newLevel is
   overwritten while Apply is queued and an access to sysfs may fail: unless
   both attempts at a change were refused, which nothing repeats. *)
Obeys ==
  /\ newLevel = 1 => hw.state = "enabled"
  /\ hw.reports => hw.state = pendingNewLevel

ComesToRest ==
  <>[][~Requests]_vars => <>[](AtRest /\ Settled /\ (refused \/ Obeys))
==============================================================================

----------------------------- MODULE ACPIStates -----------------------------
(***************************************************************************)
(* ACPIStates: the requests of the user (host and chassis transitions on   *)
(* D-Bus) become the signals STATE_REQ_HOST_ON and STATE_REQ_CHASSIS_ON,   *)
(* and the signals ACPI_STATE_IS_* become the state published on D-Bus.    *)
(*                                                                         *)
(* Everything here runs on the io thread: the requests, the two timers,    *)
(* the posted halves of a transition, the drivers and EvaluateState are    *)
(* handlers of one FIFO queue.  EvaluateState is one step: no handler runs *)
(* inside it, and by Propagation.tla it calls Update when a signal that    *)
(* ACPIStates listens to has changed.  A dirty list is the set of its      *)
(* signals (DirtyBitIsListed in StateMachine.tla).                         *)
(*                                                                         *)
(* The netlist and the mainboard are external: they see the two request    *)
(* signals when these are evaluated, and drive ACPI_STATE_IS_*.            *)
(***************************************************************************)
EXTENDS Integers, Sequences, FiniteSets, SequencesExt

CONSTANTS
  AutoG3,     \* acpi_g3_on_host_shutdown
  Obedient,   \* does the mainboard only do what the request signals ask for?
  Patient,    \* does the user wait until a request has been carried out?
  MaxQueue,   \* bound: the outside acts while fewer handlers are queued
  MaxErrors   \* bound: how many errors regulators report

ASSUME ConstantsAssumption ==
  /\ {AutoG3, Obedient, Patient} \subseteq BOOLEAN
  /\ MaxQueue \in Nat \ {0}
  /\ MaxErrors \in Nat

Undefined == -1

ACPILevel == {"G3", "S5", "S3", "S0"}
Invalid == "INVALID"

(* ACPI_STATE_IS_<l> is named l, STATE_REQ_HOST_ON "host",
   STATE_REQ_CHASSIS_ON "chassis" and STATE_POST_DONE "post". *)
Signals == ACPILevel \cup {"host", "chassis", "post"}
Observed == ACPILevel \cup {"post"}

Requests == {"host off", "host on", "off", "on", "power_cycle"}

EvaluateState == [op |-> "evaluate"]
SetLevelTo(s, v) == [op |-> "set", signal |-> s, value |-> v]
Requested(r) == [op |-> "request", request |-> r]
PostRequest(s, v) == [op |-> "post", signal |-> s, value |-> v]
Request(s, v) == [op |-> "half", signal |-> s, value |-> v]
PowerCycleTimer == [op |-> "cycle timer"]
IdleTimer == [op |-> "idle timer"]

Handler ==
  {EvaluateState, PowerCycleTimer, IdleTimer}
    \cup {Requested(r) : r \in Requests}
    \cup {SetLevelTo(s, v) : s \in Observed, v \in {0, 1}}
    \cup {h : h \in {PostRequest("host", 1), PostRequest("chassis", 0),
                     Request("host", 1), Request("chassis", 0)}}

VARIABLES
  level,        \* Signal::active of each signal
  dirty,        \* the signals of the active dirty list
  ioQueue,      \* handlers posted to io
  lastLevel,
  powerCycle,   \* a wait on powerCycleTimer is outstanding
  idle,         \* a wait on idleTimer is outstanding
  dbus,         \* the published properties
  cycleFailed,  \* history: the last power cycle did not reach G3 in time
  asked,        \* history: the request that arrived last, "" before
  errors,       \* bound: errors of regulators left
  after,        \* history: what the last error came into, "none" if it is answered
  driven,       \* external: the request signals as last evaluated
  acpi          \* external: the state of the mainboard

history == <<asked, errors, after>>
vars == <<level, dirty, ioQueue, lastLevel, powerCycle, idle, dbus,
          cycleFailed, history, driven, acpi>>

HostState == {"off", "transitionToOff", "standby", "running",
              "transitionToRunning"}
Published == [host : HostState, chassis : BOOLEAN, os : {"inactive", "standby"},
              boot : {"Unspecified", "PrimaryProcInit", "SystemInitComplete"}]

TypeOK ==
  /\ level \in [Signals -> {Undefined, 0, 1}]
  /\ dirty \subseteq Signals
  /\ ioQueue \in Seq(Handler)
  /\ lastLevel \in ACPILevel \cup {Invalid}
  /\ powerCycle \in BOOLEAN
  /\ idle \in BOOLEAN
  /\ dbus \in Published
  /\ cycleFailed \in BOOLEAN
  /\ asked \in Requests \cup {""}
  /\ errors \in 0..MaxErrors
  /\ after \in {"none", "rest", "handlers", "cycle"}
  /\ driven \in [{"host", "chassis"} -> {Undefined, 0, 1}]
  /\ acpi \in ACPILevel

(* The drivers of ACPI_STATE_IS_* post what they find, then Run is called. *)
Init ==
  /\ level = [s \in Signals |-> Undefined]
  /\ dirty = Signals
  /\ acpi \in ACPILevel
  /\ ioQueue =
       Append([i \in 1..4 |->
                 LET l == <<"G3", "S5", "S3", "S0">>[i]
                 IN SetLevelTo(l, IF l = acpi THEN 1 ELSE 0)],
              EvaluateState)
  /\ lastLevel = "G3"
  /\ powerCycle = FALSE
  /\ idle = FALSE
  /\ dbus = [host |-> "off", chassis |-> FALSE, os |-> "inactive",
             boot |-> "Unspecified"]
  /\ cycleFailed = FALSE
  /\ asked = ""
  /\ errors = MaxErrors
  /\ after = "none"
  /\ driven = [s \in {"host", "chassis"} |-> Undefined]

-----------------------------------------------------------------------------
(* A signal that is not 0 tests as true, one that nothing drives included. *)
Truthy(lv, s) == lv[s] # 0

GetCurrent(lv) ==
  LET on == {l \in ACPILevel : lv[l] = 1}
  IN CASE \E l \in ACPILevel : lv[l] = Undefined -> "G3"
       [] OTHER -> IF Cardinality(on) = 1 THEN CHOOSE l \in on : TRUE
                   ELSE Invalid

(* What Update publishes for the state l. *)
Report(lv, l) ==
  CASE l = "S0" ->
         [host |-> IF Truthy(lv, "host") THEN "running" ELSE "transitionToOff",
          chassis |-> TRUE,
          os |-> IF Truthy(lv, "post") THEN "standby" ELSE "inactive",
          boot |-> IF Truthy(lv, "post") THEN "SystemInitComplete"
                   ELSE "PrimaryProcInit"]
    [] l \in {"S3", "S5"} ->
         [host |-> IF Truthy(lv, "host") THEN "transitionToRunning"
                   ELSE IF l = "S3" THEN "standby" ELSE "off",
          chassis |-> TRUE, os |-> "inactive", boot |-> "Unspecified"]
    [] l = "G3" ->
         [host |-> "off", chassis |-> FALSE, os |-> "inactive",
          boot |-> "Unspecified"]

(* ACPIStates::Update with the levels lv, but for powerCycleTimer. *)
Update(lv) ==
  LET now == GetCurrent(lv)
  IN /\ lastLevel' = now
     /\ dbus' = IF now = Invalid THEN dbus ELSE Report(lv, now)
     /\ idle' = \/ idle /\ now \notin {"S0", "S3", "G3"}
                \/ AutoG3 /\ now = "S5" /\ lastLevel \notin {"G3", "S5"}

(* Update cancels powerCycleTimer in G3, which posts its handler. *)
CancelsCycle(lv) == powerCycle /\ GetCurrent(lv) = "G3"
IfCancelled(lv) == IF CancelsCycle(lv) THEN <<PowerCycleTimer>> ELSE <<>>

(* Signal::SetLevel for the signals of DOMAIN new: each one that changes
   and is not listed yet posts an evaluation. *)
With(new) == [s \in Signals |-> IF s \in DOMAIN new THEN new[s] ELSE level[s]]

Changed(new) == {s \in DOMAIN new : level[s] # new[s]}

Evaluations(new) == [i \in 1..Cardinality(Changed(new) \ dirty) |-> EvaluateState]

SetLevels(new) ==
  /\ level' = With(new)
  /\ dirty' = dirty \cup Changed(new)

Only(s, v) == [x \in {s} |-> v]

-----------------------------------------------------------------------------
(* Handlers of io. *)

Running(handler) == ioQueue # <<>> /\ Head(ioQueue) = handler

(* RequestHost and RequestChassis, one after the other if new has both: set
   the signal and Update.  The handler then posts `posts'. *)
SetAndUpdate(new, posts) ==
  /\ SetLevels(new)
  /\ Update(With(new))
  /\ ioQueue' = Tail(ioQueue) \o Evaluations(new) \o IfCancelled(With(new))
                  \o posts
  /\ UNCHANGED <<history, driven, acpi>>

RequestedHostOff ==
  /\ Running(Requested("host off"))
  /\ SetAndUpdate(Only("host", 0), <<>>)
  /\ powerCycle' = (powerCycle /\ ~CancelsCycle(level))
  /\ UNCHANGED cycleFailed

(* Mutant: the chassis is left to the user. *)
RequestedHostOnOnly ==
  /\ Running(Requested("host on"))
  /\ SetAndUpdate([s \in {} |-> 0], <<PostRequest("host", 1)>>)
  /\ powerCycle' = (powerCycle /\ ~CancelsCycle(level))
  /\ UNCHANGED cycleFailed

(* The host follows after two posts. *)
RequestedHostOn ==
  /\ Running(Requested("host on"))
  /\ SetAndUpdate(Only("chassis", 1), <<PostRequest("host", 1)>>)
  /\ powerCycle' = (powerCycle /\ ~CancelsCycle(level))
  /\ UNCHANGED cycleFailed

(* Mutants: both signals go off at once; only the host goes off. *)
RequestedOffAtOnce ==
  /\ Running(Requested("off"))
  /\ SetAndUpdate([s \in {"host", "chassis"} |-> 0], <<>>)
  /\ powerCycle' = (powerCycle /\ ~CancelsCycle(level))
  /\ UNCHANGED cycleFailed

RequestedOffHost ==
  /\ Running(Requested("off"))
  /\ SetAndUpdate(Only("host", 0), <<>>)
  /\ powerCycle' = (powerCycle /\ ~CancelsCycle(level))
  /\ UNCHANGED cycleFailed

RequestedOff ==
  /\ Running(Requested("off"))
  /\ SetAndUpdate(Only("host", 0), <<PostRequest("chassis", 0)>>)
  /\ powerCycle' = (powerCycle /\ ~CancelsCycle(level))
  /\ UNCHANGED cycleFailed

RequestedOn ==
  /\ \/ Running(Requested("on"))
     \/ Running(Requested("power_cycle")) /\ GetCurrent(level) = "G3"
  /\ SetAndUpdate(Only("chassis", 1), <<>>)
  /\ powerCycle' = (powerCycle /\ ~CancelsCycle(level))
  /\ UNCHANGED cycleFailed

(* Mutant: the chassis is set instead of cleared. *)
RequestedPowerCycleOn ==
  /\ Running(Requested("power_cycle"))
  /\ GetCurrent(level) # "G3"
  /\ SetAndUpdate(Only("host", 0),
                  <<PostRequest("chassis", 1)>>
                    \o IF powerCycle THEN <<PowerCycleTimer>> ELSE <<>>)
  /\ powerCycle' = TRUE
  /\ cycleFailed' = FALSE

(* Setting the timer again aborts the wait that is outstanding. *)
RequestedPowerCycle ==
  /\ Running(Requested("power_cycle"))
  /\ GetCurrent(level) # "G3"
  /\ SetAndUpdate(Only("host", 0),
                  <<PostRequest("chassis", 0)>>
                    \o IF powerCycle THEN <<PowerCycleTimer>> ELSE <<>>)
  /\ powerCycle' = TRUE
  /\ cycleFailed' = FALSE

RunPostRequest(s, v) ==
  /\ Running(PostRequest(s, v))
  /\ ioQueue' = Append(Tail(ioQueue), Request(s, v))
  /\ UNCHANGED <<level, dirty, lastLevel, powerCycle, idle, dbus, cycleFailed,
                 history, driven, acpi>>

(* Mutant: the second half does not call Update. *)
RunRequestSilently(s, v) ==
  /\ Running(Request(s, v))
  /\ SetLevels(Only(s, v))
  /\ ioQueue' = Tail(ioQueue) \o Evaluations(Only(s, v))
  /\ UNCHANGED <<lastLevel, powerCycle, idle, dbus, cycleFailed, history, driven,
                 acpi>>

RunRequest(s, v) ==
  /\ Running(Request(s, v))
  /\ SetAndUpdate(Only(s, v), <<>>)
  /\ powerCycle' = (powerCycle /\ ~CancelsCycle(level))
  /\ UNCHANGED cycleFailed

(* Mutant: only the chassis comes back. *)
RunPowerCycleTimerChassis ==
  /\ Running(PowerCycleTimer)
  /\ IF GetCurrent(level) = "G3"
       THEN /\ SetAndUpdate(Only("chassis", 1), <<>>)
            /\ powerCycle' = (powerCycle /\ ~CancelsCycle(level))
            /\ UNCHANGED cycleFailed
       ELSE /\ ioQueue' = Tail(ioQueue)
            /\ cycleFailed' = TRUE
            /\ UNCHANGED <<level, dirty, lastLevel, powerCycle, idle, dbus,
                           history, driven, acpi>>

(* The handler of powerCycleTimer does the same for an expired wait as for
   an aborted one. *)
RunPowerCycleTimer ==
  /\ Running(PowerCycleTimer)
  /\ IF GetCurrent(level) = "G3"
       THEN /\ SetAndUpdate([s \in {"host", "chassis"} |-> 1], <<>>)
            /\ powerCycle' = (powerCycle /\ ~CancelsCycle(level))
            /\ UNCHANGED cycleFailed
       ELSE /\ ioQueue' = Tail(ioQueue)
            /\ cycleFailed' = TRUE
            /\ UNCHANGED <<level, dirty, lastLevel, powerCycle, idle, dbus,
                           history, driven, acpi>>

(* The handler of idleTimer: RequestedPowerTransition(off), by way of the
   property's setter, if the wait expired and the host is still off. *)
RunIdleTimer ==
  /\ Running(IdleTimer)
  /\ IF GetCurrent(level) = "S5"
       THEN /\ SetAndUpdate(Only("host", 0), <<PostRequest("chassis", 0)>>)
            /\ UNCHANGED <<powerCycle, cycleFailed>>
       ELSE /\ ioQueue' = Tail(ioQueue)
            /\ UNCHANGED <<level, dirty, lastLevel, powerCycle, idle, dbus,
                           cycleFailed, history, driven, acpi>>

(* A driver's closure. *)
RunSetLevel(s, v) ==
  /\ Running(SetLevelTo(s, v))
  /\ SetLevels(Only(s, v))
  /\ ioQueue' = Tail(ioQueue) \o Evaluations(Only(s, v))
  /\ UNCHANGED <<lastLevel, powerCycle, idle, dbus, cycleFailed, history, driven,
                 acpi>>

RunEvaluateState ==
  /\ Running(EvaluateState)
  /\ dirty' = {}
  /\ driven' = [s \in DOMAIN driven |-> level[s]]
  /\ UNCHANGED <<level, cycleFailed, history, acpi>>
  /\ IF dirty \cap Observed # {}
       THEN /\ Update(level)
            /\ ioQueue' = Tail(ioQueue) \o IfCancelled(level)
            /\ powerCycle' = (powerCycle /\ ~CancelsCycle(level))
       ELSE /\ ioQueue' = Tail(ioQueue)
            /\ UNCHANGED <<lastLevel, powerCycle, idle, dbus>>

IoThread ==
  \/ RequestedHostOff
  \/ RequestedHostOn
  \/ RequestedOff
  \/ RequestedOn
  \/ RequestedPowerCycle
  \/ \E s \in {"host", "chassis"}, v \in {0, 1} :
        RunPostRequest(s, v) \/ RunRequest(s, v)
  \/ RunPowerCycleTimer
  \/ RunIdleTimer
  \/ \E s \in Observed, v \in {0, 1} : RunSetLevel(s, v)
  \/ RunEvaluateState

-----------------------------------------------------------------------------
(* Timers, the user and the mainboard: each queues a handler. *)

PowerCycleExpires ==
  /\ powerCycle
  /\ powerCycle' = FALSE
  /\ ioQueue' = Append(ioQueue, PowerCycleTimer)
  /\ UNCHANGED <<level, dirty, lastLevel, idle, dbus, cycleFailed, history,
                 driven, acpi>>

IdleExpires ==
  /\ idle
  /\ idle' = FALSE
  /\ ioQueue' = Append(ioQueue, IdleTimer)
  /\ UNCHANGED <<level, dirty, lastLevel, powerCycle, dbus, cycleFailed,
                 history, driven, acpi>>

AtRest == ioQueue = <<>>

(* The state the request signals, as the netlist sees them, ask for. *)
Target ==
  CASE driven["chassis"] # 1 -> "G3"
    [] driven["chassis"] = 1 /\ driven["host"] = 1 -> "S0"
    [] OTHER -> "S5"

(* An obedient mainboard stays in S3 when the host is not asked for, passes
   S5 on its way up and down, and then stops. *)
Settled == acpi = Target \/ (Target = "S5" /\ acpi = "S3")

Adjacent(l) ==
  CASE l = "G3" -> {"S5"}
    [] l = "S5" -> {"G3", "S3", "S0"}
    [] l = "S3" -> {"S5", "S0"}
    [] l = "S0" -> {"S3", "S5"}

Towards(target) ==
  IF target \in Adjacent(acpi)
    THEN {target} \cup (Adjacent(acpi) \cap (IF target = "G3" THEN {} ELSE {"S3"}))
    ELSE {"S5"}

MayMoveTo(l) ==
  IF Obedient THEN AtRest /\ ~Settled /\ l \in Towards(Target) ELSE l # acpi

(* The two ACPI signals change one after the other, in either order. *)
Move(l) ==
  /\ Len(ioQueue) < MaxQueue
  /\ MayMoveTo(l)
  /\ acpi' = l
  /\ \E first \in {<<l, 1>>, <<acpi, 0>>} :
       LET second == IF first[2] = 1 THEN <<acpi, 0>> ELSE <<l, 1>>
       IN ioQueue' = ioQueue \o <<SetLevelTo(first[1], first[2]),
                                  SetLevelTo(second[1], second[2])>>
  /\ UNCHANGED <<level, dirty, lastLevel, powerCycle, idle, dbus, cycleFailed,
                 history, driven>>

PostCode(v) ==
  /\ Len(ioQueue) < MaxQueue
  /\ level["post"] # v
  /\ Obedient => AtRest /\ Settled
  /\ ioQueue' = Append(ioQueue, SetLevelTo("post", v))
  /\ UNCHANGED <<level, dirty, lastLevel, powerCycle, idle, dbus, cycleFailed,
                 history, driven, acpi>>

Arrive(r) ==
  /\ Len(ioQueue) < MaxQueue
  /\ Patient => AtRest /\ Settled /\ ~powerCycle
  /\ ioQueue' = Append(ioQueue, Requested(r))
  /\ asked' = r
  /\ after' = "none"
  /\ UNCHANGED errors
  /\ UNCHANGED <<level, dirty, lastLevel, powerCycle, idle, dbus, cycleFailed,
                 driven, acpi>>

(* A power cycle is asked for or waits for its timer. *)
Cycling ==
  powerCycle \/ {Requested("power_cycle"), PowerCycleTimer} \cap ToSet(ioQueue) # {}

(* CatchVoltageRegulatorError: the closure in which a regulator reports an
   error asks for the chassis to go off, whatever is under way. *)
RegulatorFails ==
  /\ errors > 0
  /\ errors' = errors - 1
  /\ ioQueue' = Append(ioQueue, Requested("off"))
  /\ asked' = "off"
  /\ after' = IF Cycling THEN "cycle" ELSE IF AtRest THEN "rest" ELSE "handlers"
  /\ UNCHANGED <<level, dirty, lastLevel, powerCycle, idle, dbus, cycleFailed,
                 driven, acpi>>

Timers == PowerCycleExpires \/ IdleExpires
Mainboard == \E l \in ACPILevel : Move(l)
Outside == (\E v \in {0, 1} : PostCode(v)) \/ \E r \in Requests : Arrive(r)

Next == IoThread \/ Timers \/ Mainboard \/ Outside \/ RegulatorFails

Spec == Init /\ [][Next]_vars

Fairness == WF_vars(IoThread) /\ WF_vars(Timers) /\ WF_vars(Mainboard)

FairSpec == Spec /\ Fairness

-----------------------------------------------------------------------------
(* Properties. *)

(* What is published follows the signals on every path: when nothing is
   queued, the D-Bus properties are those of the current ACPI state and of
   the request and POST signals (doc/specialSignals.md:23). *)
ReportIsCurrent ==
  AtRest /\ GetCurrent(level) # Invalid =>
    dbus = Report(level, GetCurrent(level))

(* An error that comes between the handlers of a request or into a power
   cycle is a request that overtakes another, as in acpi_hurry. *)
InTurn == after \in {"none", "rest"}

(* "Give statemachine some time to drive GPIOs": the chassis only goes off
   when the netlist has seen the host go off, and the host only comes on, but
   for a power cycle, when it has seen the chassis come on. *)
Sequenced ==
  [][InTurn =>
       /\ level["chassis"] = 1 /\ level'["chassis"] = 0 => driven["host"] # 1
       /\ level["host"] # 1 /\ level'["host"] = 1 /\ Head(ioQueue) # PowerCycleTimer
            => driven["chassis"] = 1]_vars

Steady == AtRest /\ Settled /\ ~powerCycle

(* The table at the head of ACPIStates.cpp. *)
Row(l, host, chassisOn, reqChassis, reqHost) ==
  [l |-> l, host |-> host, chassisOn |-> chassisOn,
   reqChassis |-> reqChassis, reqHost |-> reqHost]

Table == {Row("G3", "off", FALSE, FALSE, FALSE),
          Row("S5", "off", TRUE, TRUE, FALSE),
          Row("S3", "standby", TRUE, TRUE, FALSE),
          Row("S0", "running", TRUE, TRUE, TRUE)}

InTable == Row(GetCurrent(level), dbus.host, dbus.chassis,
               level["chassis"] = 1, level["host"] = 1) \in Table

(* A steady state is a row of the table, from the first transition of the
   host on: before it, level["host"] is -1, which Report takes for a host that
   is requested on. *)
TableHolds == Steady /\ InTurn /\ level["host"] # Undefined => InTable

(* A steady state is what the last request, or error, asked for: no late half
   of a transition, timer or update undoes it. *)
CarriedOut ==
  Steady /\ InTurn =>
    CASE asked = "off" -> level["chassis"] = 0 /\ level["host"] = 0
      [] asked = "on" -> level["chassis"] = 1
      [] asked = "host off" -> level["host"] = 0
      [] asked = "host on" -> level["chassis"] = 1 /\ level["host"] = 1
      [] asked = "power_cycle" -> cycleFailed \/ level["chassis"] = 1
      [] OTHER -> TRUE

(* A power cycle brings the host back, through G3, unless G3 is not reached
   before the timer expires or a regulator fails. *)
PowerCycleReturns ==
  powerCycle ~> \/ cycleFailed \/ after # "none"
                \/ AtRest /\ acpi = "S0" /\ dbus.host = "running"

(* "Turn off everything" (StateMachine.cpp:130): when a regulator fails, the
   chassis goes off and D-Bus says so, even if the second half of a request
   that was under way still sets the host; but the timer of a power cycle
   turns it on again. *)
PoweredDown ==
  AtRest /\ acpi = "G3" /\ level["chassis"] = 0 /\ ~dbus.chassis

ErrorPowersDown ==
  after # "none" ~> (after \in {"none", "cycle"} \/ PoweredDown)
==============================================================================

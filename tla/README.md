# pwrseqd in TLA+

pwrseqd is the power sequencer of a board management controller.  A YAML
configuration describes signals, logic blocks that compute signals from
signals, and drivers that connect signals to GPIO lines, voltage regulators,
LEDs and D-Bus.  This directory models the program from its source
(`src/src`), checks the models with TLC and proves theorems about them with
TLAPS.

## 1. Inventory

### Threads

`main` (Main.cpp) runs two `io_service` queues, one thread each:

* **io**, the thread of `StateMachine::Run`: the evaluation of signals, D-Bus
  requests, GPIO events, the timers of logic blocks and of ACPIStates, and all
  closures that set a signal;
* **IoOutput**, the output thread: writes to GPIO lines, regulators and LEDs,
  the timers of regulators and the netlink socket.

The threads talk by posting closures to each other's queue.  Every call of
`Signal::SetLevel` after construction is made on io, which is why the dirty
lists need no lock.  Some fields are written on one thread and read on the
other without one: `GpioInput::gated`, `VoltageRegulator::newLevel`,
`stateShadow`, `pendingLevelChange`, `pendingNewLevel`, `LED::newLevel`.

### Components

| component | state | operations | what makes it correct |
|---|---|---|---|
| Signal, SignalProvider | level (-1, 0, 1) and dirty bit of each signal; two dirty lists and which is active | `SetLevel`, `SetDirty`, `Add`, `GetDirtySignalsAndClearList` | a changed signal is listed exactly once per fetch, its bit and its listing agree, a listener is called whenever an evaluation is needed |
| StateMachine (evaluation) | the list being walked, the rounds left | `EvaluateState`, `OnDirtySet`, `Run` | no change is lost on a receiver, evaluations end, rest is a solution of the netlist |
| Logic, LogicInput | last value, queue of delayed levels, filter timers | `Update`, `TimerHandler`, `GetLevel` | the output is the function of the inputs, delayed and filtered as configured |
| GpioOutput | level of the line | `Update`, `Apply` | the line ends at the level of its signal, `_Enabled` reports the line |
| LED | level wanted, level sent | `Update`, `Apply`, the call on D-Bus | the lamp ends at the level of its signal |
| LogOutput, NullOutput | last level logged | `Update`, `Apply` | while it is enabled, the event log ends at the level of its signal |
| ItemPresent (input) | level of its signal | constructor, callback of `Dbus` | the signal is the item's Present property |
| GpioInput | gated, the request of the line | `Update`, `Acquire`, `Release`, `OnEvent` | a gated input reads as its idle level, an open one as its line |
| VoltageRegulator, VoltageRegulatorSysfs | state and status shadows, pending change, retries | `Update`, `Apply`, `ApplyStatus`, `ConfirmStatusAfterTimeout`, `CheckStatus`, netlink callback | a change is confirmed or reported as an error; an unexpected error switches off |
| ACPIStates | request signals, power cycle and idle timers, last ACPI state | `RequestedHostTransition`, `RequestedPowerTransition`, `Update`, timer handlers | requests are carried out in sequence, the published state is the current one |
| Dbus | published properties, registered handlers, matches | setters, `RegisterItemPresentCallback`, `GetItemPresentCallback` (retries), `SetLEDState` | publishes what it is given, misses no change of a property, asks until it is answered |
| Netlink | registered regulators | `Register`, `WaitForEvent` | an event reaches its regulator |
| Config | the sections merged so far | the decoders, `LoadConfig` | what a directory means does not depend on the order of its files |
| Main, Logging | the objects constructed, the two threads | `main`, `StateMachine::StateMachine`, `Validate` | every signal is driven and heard, every receiver is alive |

Interaction: a driver sets a signal; `Signal::SetLevel` lists it as dirty;
`SignalProvider` calls `StateMachine::OnDirtySet`, which posts `EvaluateState`
to io; that walks the dirty signals and calls `Update` of each receiver; logic
blocks set further signals, which the next round walks; outputs and regulators
post `Apply` to IoOutput; what it does to the hardware comes back as closures
on io that set `_Enabled`, `_PowerGood` and `_Fault` signals.  ACPIStates is
a driver of the request signals and a receiver of the `ACPI_STATE_IS_*`
signals; an error of a regulator becomes an off request to it.

Hard behaviours: the order of closures on two queues; receivers that change
the list being walked; feedback through lines; transitions that are split over
several posts; timers that race what they wait for; fields shared without a
lock; a service that is down, restarts or answers late; constructors that throw
halfway; the level -1, which `GetLevel` callers test as a boolean.  The list, at
its lines, is `hazards` in PROJECT.json.

## 2. Modules

| module | models |
|---|---|
| `LogicGate` | Logic.cpp, LogicInput.cpp: the value a block computes from its inputs |
| `SignalProvider` | Signal.cpp, SignalProvider.cpp: levels, dirty bits, the two lists; operators over its own VARIABLES that the engine composes into steps |
| `LogicTiming`, `MCLogicTiming` | one block in time: input filters, output delay, their timers |
| `LogicTimingProofs` | theorems about `LogicTiming` |
| `StateMachine` | the evaluation engine with logic blocks, GPIO outputs and input drivers on two threads |
| `Propagation` | the abstract specification the engine implements |
| `MCStateMachine`, `MCStateMachineLoop` | netlists for TLC |
| `StateMachineProofs` | theorems about `StateMachine` and its refinement of `Propagation` |
| `QueueLemmas` | facts about queues that the proofs share |
| `TwoThreads` | main's two io_service queues: handlers as sequences of instructions that two threads interleave |
| `VoltageRegulator`, `MCVoltageRegulator` | one regulator with its sysfs files, retry timer and netlink events |
| `VoltageRegulatorInvariants` | its inductive invariants |
| `VoltageRegulatorProofs` | theorems about `VoltageRegulator` |
| `GpioInput`, `MCGpioInput` | one gated input and its line |
| `GpioInputProofs` | theorems about `GpioInput` |
| `ACPIStates` | requests, their posted halves, timers, published state |
| `MCACPIStates` | instance of it |
| `ACPIStatesProofs` | theorems about `ACPIStates` |
| `Presence` | the item presence input and its part of Dbus, with the inventory service |
| `LED`, `LogOutput` | the two outputs; operators over their own VARIABLES |
| `Peripherals`, `MCPeripherals` | the composition of the last three on both threads |
| `PeripheralsProofs` | theorems about `Peripherals` and the three |
| `Startup`, `MCStartup` | from the files of a configuration to the wired machine |
| `StartupProofs` | theorems about `Startup` |

### StateMachine

State: `created`, `level`, `dirty`, `dirtyA`, `dirtyB`, `dirtyAIsActive`,
`listening` are the fields of SignalProvider and its signals; `ioQueue` and
`outQueue` the two io_service queues; `position`, `receiver`, `timeout` the
local variables of `EvaluateState`; `lastValue` and `pin` the fields of blocks
and outputs; `todo` what the constructors have still to do.  `abandoned` is a
history variable: an evaluation ended with a non-empty list.

Steps: the constructors, in the order of Main.cpp and StateMachine.cpp:13, run
one call at a time (`ConstructFindOrAdd`, `ConstructSetLevel`,
`ConstructListen`, `ConstructPost`, `Run`).  A handler of io is one step
(`RunUpdate`, `RunSetLevel`), but for `EvaluateState`, which is a loop over
signals and receivers: `StartEvaluate` fetches, `UpdateBlock` and
`UpdateOutput` are one receiver's `Update`, `NextSignal` and `NextRound` move
on.  No handler of io runs in between, the output thread (`RunApply`) and
drivers (`Drive`) do.  A netlist is a CONSTANT: `Block`, `Output`,
`Receivers`, `Construction`.  `EvalLimit` is the 10000 of StateMachine.cpp:160.

Left out: the read-back of a line in `GpioOutput::Apply` (it only logs), the
trace file, output delays and input filters (`LogicTiming` has them),
exceptions in constructors (the program ends).

### Propagation

The promise of the engine: every change of a signal makes the `Update` of each
of its receivers due, a due one is called in the end, and none stops being due
otherwise.  `shown` is what each receiver's last `Update` made of the levels.
`StateMachine!Propagates` is the refinement: `due` is `Due`, the receivers that
the lists and the walk still lead to.  It is stated for behaviours in which no
evaluation is given up (`abandoned`): when one is, changes are lost, which is
the finding of the run `loop`.  The abstraction is what ACPIStates relies on.

### ACPIStates

One step per handler of io.  A request sets one signal, calls `Update` and
posts the second half, which is posted once more before it runs
(`RunPostRequest`, `RunRequest`).  `EvaluateState` is a single step: by
`Propagates` it calls `Update` if a signal ACPIStates listens to has changed.
The dirty list is a set, which `DirtyBitIsListed` justifies.  `powerCycle` and
`idle` are outstanding waits of the two timers; cancelling the first posts its
handler, as asio does.  The mainboard is external: it sees the request signals
when they are evaluated (`driven`) and moves `acpi` by posting the change of
two signals, in either order.  With `Obedient` it only does what is asked,
one step when nothing is queued; otherwise anything at any time.  With
`Patient` the user waits for a steady state.  `cycleFailed` and `asked` are
history.

Setting the D-Bus property of a transition from inside (the idle timer,
`StateMachine::CatchVoltageRegulatorError`) calls the registered handler
synchronously in sdbusplus.  The error of a regulator is therefore one more
`off` request, from the closure in which it is reported: `RegulatorFails`, which
waits for nobody.  `after` is the history of what the last one came into: rest,
the handlers of a request, or a power cycle.

### TwoThreads, VoltageRegulator, GpioInput

The engine and ACPIStates take a handler as one step, since only io touches
their state.  Regulators and gated inputs share fields between both threads
without a lock, so there a handler is a sequence of instructions: one for each
access that the other thread can tell apart.  `queue[t]` holds the posted
handlers of a thread and `run[t]` what is left of the one it runs; an
instruction that calls a function puts the function's instructions in its
place (`Continue`).

`VoltageRegulator`: `newLevel`, `stateShadow`, `statusShadow`,
`pendingLevelChange`, `pendingNewLevel` and `retries` are the fields of the
class, `armed` an outstanding wait on `timerStateCheck`, `signal` the three
signals it drives, `alarm` the call of `errorCallback` that the netlist has not
yet answered.  The answer takes `_On` away (`AlarmUpdates`), but where `_On` is
low already no signal gets dirty and nobody is updated (`OffAlready`,
Logic.cpp:89).  Instructions are the parts of `Apply` (`RunApply`, `RunSetState`,
`RunReadState`, `RunSetStateAgain`, `RunReadStateAgain`, `RunSetPending`,
`RunStartTimer`: each write of the state file and each read-back is a step, since
io reads `stateShadow` in between), `ApplyStatus` (`RunApplyStatus`, `RunCommit`,
`RunReport`, between which the lock is held), `ConfirmStatusAfterTimeout`
(`RunReadStatus`, `RunConfirmStatus`), `CheckStatus` (`RunCheckStatus`,
`RunCompareStatus`), the netlink callback and the closures that set signals.
External are the hardware `hw` and the kernel's `netlink` events: it reaches the
state it was told when it likes, may be out of regulation while it does, may
break while it is on, and may have a driver that reports no status.  An access to
sysfs may fail, at most `Faults` times: a write of the state file (`WriteState`),
a read of it (`DecodeState`), which then is "unknown", or a read of the status
(`Reads`), which then decodes as "invalid", the INVALID that `ApplyStatus`
remembers without setting a signal.
`Patient` has `_On` wait for the last change to be over.  Two variables are
history: `overlapped`, that handlers of both threads were under way at once, and
`refused`, that the second attempt at a change was not read back as it was asked,
which the code does not look at (VoltageRegulator.cpp:38).

`GpioInput`: `on`, `out` and `enabled` are the levels of the three signals,
`gated` the field, `line` the request of the line, `waits` the number of
outstanding `async_wait`s.  `pin` and `edges` are the chip and the kernel's queue
of events.  `Acquire` is three instructions (it starts to wait, then sets
`gated`, then posts the reading of the first level), `Release` likewise.  After a
quick release and request a handler of the old wait may wait again beside the
new one; one edge then ends both (`ReadEvents`), the first handler reads it and
the second blocks in `event_read`.  A read that blocks already when the line is
released is taken to fail then, as one that comes later does.  `hurried` is the
history that the gate moved before its last change was over or while two waits
were outstanding, `disturbed` that the line moved while it was being opened.

### LogicTiming

`level` and `age` are a signal and the time since its last change, `seen` and
`filter` the remembered level and timer of each LogicInput, `outQueue` the ring
of delayed levels, each with the ticks `left` until it is due, and `timer` the
wait for its first.  `Update` and `TimerHandler` are one step each: both run on
io.  The engine's part, that a change of a signal leads to `Update`, is the set
`calls`, as `Propagates` allows.  Timers may be late, since io may be busy, and
are not early; the filter's `deadline_timer` follows the wall clock, whose jumps
are left out.

### Presence, LED, LogOutput, Peripherals

`Presence`: `ctor` is what the constructor of ItemPresent has still to do, the
match and the first Get; `asks` a Get on its way to the service, `inbox` the
replies and signals that the bus has for io, in its order.  The match has a
path_namespace and the handler does not look at the path, so `Children` of the
item send to it, too.  An error leads to the next Get at once.  External are the
inventory service (`inventory`, -1 while it is down), which starts and stops at
any time, and the bus.  A service that starts announces its objects with
InterfacesAdded, which nothing listens to, so that a restart sends nothing.
`renewed` and `misled` are history: a restart after the answer, and a last
message about a child.

`LED`: `newLevel` and `level` (`ledLevel`) are the fields; `Apply` is two steps,
between which io may write `newLevel` (`applying`); `ledCalls` are the calls
under way, which the service carries out or refuses.  `LogOutput`: `Update` on
io decides what to post (`Posts`), `Apply` whether it writes (`Silent`); `entry`
is the last entry of the log.

`Peripherals` puts them on the two threads: the signal of the item is the one
that the lamp and the log show, `enable` the `_On` signal of the log.  An
evaluation is one step that calls the receivers of the dirty signals, as
`Propagates` allows.

### Startup

The main thread, from `LoadConfig` to `Validate`.  `unread` are the files the
directory iterator has still to come to, in any order; `cfg` the merged
sections; `todo` the objects that are still to be constructed, in the order of
main and of the constructor of StateMachine.  `Wire` is what every constructor
does: it adds signals, becomes a receiver of some and the driver of others.
`listens` and `drives` are those relations, `callbacks` the regulators that
have registered for events, and `dead` the objects whose constructor has thrown
after it had become a receiver (`LeftBehind`).  The decoders are what they
accept (`AcceptsInput` and its like); of a name only the suffix matters.
`Available` are the regulators that exist, and the GPIO lines that exist and that
no other program has requested; `Netlink` says if the kernel has the multicast
group of regulator events.

A line has one holder at a time, and `held` are those that this program holds: of
an output, of an input without a gate, and of one that drives its line low while
it is gated (`Holds`).  Any other input with a gate only tests if it can request
its line, and releases it (`Tests`: TestAcquire).  A constructor that does not get
its line throws (`FailDriver`), which ends the program, so that what it had wired
before does not matter.

### What is left out

`Poll` of both classes, which nothing calls; the statuses fast, normal, idle
and standby; a state or status that cannot be read in the constructor; a
regulator that is in error when the program starts; inputs without a gate, once
they are constructed; a line that cannot be requested when a gate opens or closes,
which ends the program (at start-up `Startup` has it); the values of configuration
entries that only a driver reads; decoding of netlink messages; the options of the
command line and the texts that are logged; `NullInput::SetLevel`, which only
tests call.

### Not modelled

What is left is decoding (sysfs texts, netlink attributes, YAML scalars),
formatting of log and trace lines, getters of `Config.hpp` and `Dbus.hpp`, and
parsing of the command line: none of it keeps a state that another part relies
on.

## 3. Runs

| run | cfg | states | question |
|---|---|---|---|
| engine | MCStateMachine | 88 334 | is any change lost, do evaluations end, is rest a solution of the netlist, does the engine implement Propagation |
| loop | MCStateMachineLoop | violation | is the failed evaluation really tried again |
| acpi | MCACPIStates | 599 888 | is the published state current under any order of requests, timers and signals |
| acpi_orderly | MCACPIOrderly | 7 905 | with a patient user and a regulator that fails at any time: table, sequence, power cycle, what was asked for, power down |
| acpi_hurry | MCACPIHurry | violation | does the table hold when requests overlap |
| regulator | MCVoltageRegulator | 707 153 | do the signals show the regulator, is a fault reported and answered, does every change end |
| regulator_toggle | MCVoltageRegulatorToggle | violation | is a fault reported when `_On` moves at any time |
| logic | MCLogicTiming | 16 562 | is a stable input read in time, does the delay lose or hurry anything |
| gpio | MCGpioInput | 124 854 | does a gated input follow its gate and its line |
| peripherals | MCPeripherals | 639 073 | do a presence signal, a lamp and the event log keep up with what they show |
| startup | MCStartup | 188 243 | does the order of files or of construction decide if the program runs or what it is wired to |
| startup_missing | MCStartupMissing | violation | is every receiver alive when a dummy replaces a regulator |

Bounds.  The netlist of the engine has both orders of the gates: the line of
`rail1` is the inverted first gate of the request, twice inverted by an active
low output; `rail2`, active low, needs that line and its `_Enabled` signal or
an immutable `force`.  The signal of the line is walked once before anything
has driven it, and no block depends on itself.
`EvalLimit = 3` is tight: with 2 an evaluation of this netlist is given up.
`MaxPending = 2` lets a driver report and a line answer while an evaluation
and another closure are under way, the shortest overlaps that order can
matter for.  `MaxQueue` bounds what the outside adds to io, not what handlers
post; 2 and 3 let two requests, or a request and a change of the mainboard,
overlap with the halves of a transition.

The ring of the delayed output holds 3 events instead of 100 and time is a few
ticks, so that it overflows within the run.

The regulator retries once instead of 10 times: the first expiry, one that
retries and the last one are all there is.  One access to sysfs may fail: a
change is refused only when two do, and the properties say nothing of a regulator
that has refused one (section 4).  With `Faults = 2` the run passes, too, on
2 087 539 states, and reaches such regulators.  One handler and one event may be
waiting when the outside adds another, so that two handlers and the timer
overlap.  Three handlers of the input let its gate open, close
and open again while an edge waits to be handled.  `allow_faulting` is off and
the input is active low, idles low and is driven low: other values change
levels, not the order of steps.

The inventory service is started twice, so that it comes late, and comes back
after it had answered; one change of a property is under way at a time, which
may overtake or follow the answer of the Get.  `MaxQueue = 1` lets a second
level arrive while the output thread is between the two steps of `Apply` or a
call is on the bus.  A lamp is active low and the log active high.

The fourteen files of `MCStartup` are a working board (`base` and `core`), and
files that add one concern each: a regulator that may be missing, one that must
not, one that is a dummy, a log output and the signal that enables it, a gated
input with and without its idle level, inputs of all three kinds on one line (one
that tests it, one that holds it, and one that drives it low while it is gated),
an input whose line does not exist, and a file that is no YAML.  The 404
directories are `base` and `core` with up to three others, and all directories of
up to two files.  Three others are enough for the interactions between files,
which are pairwise: a reader and a driver of a signal, a log output and its
enable, two regulators, two users of a line.  A terminated program
stops, so deadlock is not checked there.

Fairness.  Both threads block in `io_service::run` and execute what is queued:
weak fairness of each.  Timers expire, an obedient mainboard eventually
moves and a regulator reaches the state it was told unless it breaks.  The last
retry of a regulator is later than that (`retries = 0 => Settled` in `Expire`):
the configured timeout is there to be longer than the regulator takes.  A wait
of the kernel for an edge that has come ends (`Ready`).  The bus answers every
call, with an error if the service is down: `ReachesLamp` needs that the
services stay up in the end, which is its premise and not fairness.  Drivers and users owe nothing; `Settles`, `ComesToRest` and
`OutputFollows` only speak of behaviours in which they stop, as does `ReachesLamp`.

## 4. Disagreements found

Each of these has a run that shows it:

* **loop**: the list fetched last is lost when the rounds are used up
  (StateMachine.cpp:184 against its own message and doc/StateMachine.md:30).
  A netlist without feedback and not too deep never gets there
  (`LayeredNetlistsLoseNothing`).
* **acpi_hurry**: host on, then off before its second half has run, rests with
  the host requested and the chassis off (ACPIStates.cpp:204 against the table
  at its head).
* **regulator_toggle**: `pendingLevelChange` stays set when the regulator goes
  off and on again unseen, and hides the next fault (VoltageRegulator.cpp:143
  against VoltageRegulator.hpp:87).  Besides a change that was refused twice, that
  flag is the only way in which a fault is lost (`FaultIsTakenForAChange`).
* **startup_missing**: a constructor that throws after it became a receiver
  leaves a dangling receiver beside the dummy (VoltageRegulator.cpp:292 against
  Config.hpp:156).  It takes a missing Netlink socket beside directories that are
  there (`DeadListenersAreGhosts`).

Others were met while modelling, and are what the premises of the properties
exclude:

* Lines change in the middle of an evaluation (GpioOutput.cpp:55 against
  doc/StateMachine.md:13): no property says that they do not.
* A status that was read on io is applied after the output thread has confirmed
  a change, and the signals of a regulator that is off stay set
  (VoltageRegulator.cpp:251 against doc/IO.md:51): `~overlapped` of
  `SignalsShowRegulator`.
* When both attempts to write the state file fail, the regulator stays as it is.
  If it was to be turned on, the error that the timer raises is ignored for a
  regulator that is off (VoltageRegulator.cpp:169 against VoltageRegulator.hpp:66).
  If it was to be turned off, it stays on with its error shown: the callback asks
  for off once more, but `_On` is low already, so that nothing gets dirty and
  `Apply` is not called again (StateMachine.cpp:131, Logic.cpp:89).  It is
  `~refused` of `SignalsShowRegulator`, `FaultReported` and `FaultSwitchesOff`,
  and `refused` of `ComesToRest`.
* A regulator that fails during a power cycle is turned on again by the timer of
  the power cycle, and one that fails between the halves of a host on leaves
  the host requested (ACPIStates.cpp:256 and 204 against StateMachine.cpp:130):
  `InTurn`, and "cycle" in `ErrorPowersDown`.
* When the last retry cannot read the status, the signals keep what they showed
  before the change (VoltageRegulatorSysfs.cpp:108, whose comment has the
  platform shut down): `statusShadow # "invalid"` of `SignalsShowRegulator`.
* With faults allowed, an error of a regulator on its way up stays on `_Fault`
  when its event is read after the change is over, or when the change was given
  up: nothing reads the status again (VoltageRegulator.cpp:175 against
  doc/IO.md:48).  It is the premise on `AllowFaulting` of `SignalsShowRegulator`;
  the attempt at a proof without it led there, and TLC has the trace.
* `Update` of an input decides from a `gated` that is about to change
  (GpioInput.cpp:165 against doc/config.md:115): `hurried` of
  `GateTakesEffect` and `NeverBlocks`.  A handler of a wait that a quick release
  and request have overtaken blocks io in `event_read`, or it reads an edge and
  waits again beside the new wait: then the next edge ends both waits, and the
  second of their handlers blocks.
* An edge that is handled between `WaitForGPIOEvent` and `gated = false` leaves
  the open input deaf: `~disturbed` of `OpenReadsLine`.
* The Present property of an object below the item is taken for the item's
  (Dbus.cpp:67), and a service that restarts is not asked again: `~misled` and
  `~renewed` of `PresenceIsCurrent`.
* An LED call that is refused is not repeated (Dbus.cpp:119): `~refused` of
  `LampShowsSignal`.
* Of two entries for one regulator the first that is constructed is registered
  and the second throws, so that the order of files decides if it may be
  missing (Netlink.cpp:57), and the same entry twice ends the program although
  nothing that it names is missing: `RegulatorsListedOnce` in `Unambiguous` of
  `OutcomeIsOrderFree`.
* Of two inputs for one line, one that tests it and one that holds it, the program
  starts if the first comes first and ends if it comes second (GpioInput.cpp:35):
  `TestedOrHeld` in `Unambiguous`.

`TableHolds` speaks of states after the first host transition: before it an
undriven STATE_REQ_HOST_ON is -1, tests as true (ACPIStates.cpp:171) and has a
host that is off published as TransitioningToRunning.

## 5. Proofs

Every theorem holds for all values of the constants that satisfy the ASSUMEs of
the module it is about: every netlist and order of construction, every block,
every configuration of a gate, any number of retries, children and calls, and
without the bounds of section 3, which are constants like the others.  Each
module of proofs states an inductive invariant, shows that `Init` implies it
and that every step keeps it, one lemma per group of actions, and draws the
properties from it.  TLC has checked each invariant on the instance of its
module before it was proved: the one of a run, or, where the theorem speaks of
more than the run does, that instance with the constants changed (`Patient`
false for `ObeyInv` and `GuardInv`).

`QueueLemmas` has what the proofs need of queues, whatever they hold: the
elements after an append or a removal, and `LastIn(q, S, d)`, the last element
of `q` that is in `S`, or `d` if there is none.  Most of the invariants below
say of a queue which closure of a kind comes last in it, since that one decides
how the queue ends: an append of the kind replaces it, an append of another
kind leaves it, and taking the head leaves it, unless the head was the last one
and becomes the default (`LastInAppend`, `LastInTail`).

### The engine: `StateMachineProofs`

The ASSUMEs of `StateMachine` say that the netlist is well formed, that blocks
and outputs are receivers of what they read, and that every block posts its
first Update.

* `TypeCorrect`: `Spec => []TypeOK`.  `TypeOK` is inductive; the work is in
  the lists (an append of signals is a list of signals).
* `UpdatesAreNotLost`: `Spec => []NoLostUpdate`.  The invariant is proved as
  `Covered(b)` for each block: its output fits its inputs, or an Update is
  posted, ahead in the walk, or an input is in the active list.  It is
  inductive together with `TypeOK`.  A step either leaves block and inputs
  alone and keeps the reason (`StaysCovered`), changes a signal, which lists
  it (`SetLevelAdvances`), computes the block (`ComputedIsCovered`), walks past
  another receiver (`PassingOther`, `PassingSignal`), or swaps the lists,
  which turns "listed" into "ahead in the walk" (`FetchCovers`).
* `DirtyBitsAgree`, `WakeupsAreNotLost`: bits and lists are only touched
  through `SetLevel`, `Add` and the fetch (`StepsAreProviderSteps`), and each
  of them keeps the two representations together.  `Wakeup` needs that
  construction does not end before the listener is set (`Listens`), since
  until then `SetLevel` lists a signal without calling anybody.
* `OutputsAreNotLost`: the closure posted last for a line decides its level,
  the others come too late to matter (`PostedIsLast`).  Only
  `GpioOutput::Update` changes what is posted last (`RunApplyKeepsPosted`: to
  carry out the only closure for a line moves its value from the queue to the
  line).
* `RestIsASolution` assumes `OneDriver`: two drivers of one signal are accepted
  by the code, but then no level is the right one.  It needs two invariants
  more: a block's last value is the level of its signal (`OwnsOut`), and the
  last report on its way to an `_Enabled` signal is the level of its line
  (`Reported`, which holds only because io takes closures in the order in which
  they were posted).
* `EngineImplementsPromise`: `Spec /\ []Converges => Promise!Spec`, the safety
  part of `Propagates`.  `InitImplements` maps the initial states;
  `StepImplements` maps every step to one of `Propagation` or to a stutter.
  Walking from receiver to receiver, taking a new list and posting are hidden
  (`Hidden`); a call of `Update` is `Call`, and what it lists becomes due.  The
  premise `[]Converges` is that no evaluation is given up: one that is forgets
  its list, which the run `loop` shows.
* `LayeredNetlistsConverge`: `Layered => (Spec => []Converges)`.  `Layered` says of
  the netlist, not of the code, that its signals have layers, no more of them than
  an evaluation has rounds (`EvalLimit`), and that each block drives a signal of a
  higher layer than those it hears; a block that depends on itself has no such
  layers.  `RoundInv` is the invariant: in round n of an evaluation the list being
  walked has only signals of layer n or higher, and the list that is being filled
  only higher ones.  A block's Update is the only thing in an evaluation that
  fills it: lines and drivers answer by closures that io runs afterwards, which is
  why a netlist may feed a line back (that of `MCStateMachine` does, and
  evaluates `Layered`).  In the last round the list that is filled is empty.
  `LayeredNetlistsLoseNothing` (`RetryLosesNothing`) and `LayeredNetlistsPropagate`
  (`Spec => Promise!Spec`) follow.  The 10000 rounds of the code are an
  `EvalLimit` that no board comes near, so that the bound is about feedback alone.

### LogicTiming: `LogicTimingProofs`

`Inv` has the types, what each filter waits for (`FilterInv`: unless `Update`
is due, the filter of an input that has changed expires exactly when it becomes
stable, and one that is stable has been read), what the timer waits for
(`TimerInv`, `DueInv`: it is set, or its handler is due, exactly while an event
is in the ring, and for the first one) and that the levels in the ring take
turns (`TurnsInv`).  From it follow `TypeCorrect`, `InputsAreRead`,
`PulsesAreNotLost` and, as an action property, `OutputIsNotEarly`.  `TimerInv` is
why the handler never takes an event from an empty ring.  A full ring drops its
first event (`overflowed`), which is the premise of the last two.

### GpioInput: `GpioInputProofs`

The handlers have few forms, and `Inv` names them: what a thread runs is one of
them or what is left of one.  `GateInv` says that a gated input whose line is
not being opened goes idle: the last closure on its way to the signal sets an
idle level, or there is none and the signal has it.  It is not true while
`Acquire` has requested the line and `gated` is still set, hence `Shut`.  An edge
that was read before the gate closed is the case that a test would hardly reach:
its closure runs before the one of `Release`, which therefore comes last.
`LinePhase` says that the line is where the output thread has come to, and
`OpenInv` is the other half: for an input that was opened undisturbed somebody
sees to the next edge (the wait is set, or its handler is on its way), no edge
comes before the first level is read and set, and the last edge, or without one
the last closure, brings the level of the line.  While the gate moves only at
rest, nothing else is under way when it is asked to open (`AcquireAlone`), and
there is at most one wait and one call of `ReadEvent`, which has an edge to read
(`OneWait`).
The theorems are `TypeCorrect`, `GatedInputIsIdle`, `OpenInputIsLine` and
`ReadsNeverBlock`.

### VoltageRegulator: `VoltageRegulatorInvariants`, `VoltageRegulatorProofs`

The first module defines the invariants, the second proves them.

`Inv` is the types of the handlers and `StatusInv`: no two threads are between
the commit of a status and the post of its report (`Excludes`), who is there
reports the status that he has set (`Tells`), and while nobody is, the last
report on its way to io is that of `statusShadow`, or the signals have it
(`Follows`).  `Excludes` comes from the guard of the lock; without it the two
threads could post their reports in the other order than that in which they set
`statusShadow`, and `Follows` would not hold.  All other instructions are `Plain`:
they neither hold the lock nor set a signal that shows the status, and
`PlainStep` treats them all alike.  Theorems: `LockExcludes`, `SignalsFollow`,
`TypeCorrect`.

The second half of the module is about the state in which a change ends, and
assumes `Patient`: whoever drives `_On` waits until the last change is over, as
the run `regulator` does; `regulator_toggle` shows `FaultReported` violated
without it.  Retries, faults of sysfs, the configured handling of errors, the
queue bounds and the events on their way are arbitrary.  Neither property is
inductive, nor does any small strengthening make it so, since a handler that
comes late decides from fields that others have set since.  `Course` therefore
says what is under way at every step of a change, as long as no handlers of the
two threads have overlapped, no second attempt at a change was refused and the
driver reports its status (`Alone`, the premises of the two properties):

* `GuardInv`, the part of it that needs no `Patient` (below): `Inv`, then `Forms`,
  which handlers are posted to which thread and what is left of one after each
  instruction, then `Guarded`.  At most one thread runs a handler, and `stateShadow`
  is the state but for the instructions in which it is written (`Plainly`).  A fault has an event on its way, or a change is pending
  whose retries will find it, or its report is on its way to `_Fault`, which nothing
  else overtakes (`FaultKept`, `Stale`).
* `Change`: the course itself.  A change that is pending is looked at again
  (`Timed`) and does not have the status that would end it (`Unmet`); a
  regulator that is being turned on (`Rising`) is left alone meanwhile, has one
  timer, and is settled when the last retry reads it (`RisingQuiet`,
  `RisingTimer`, `RisingOff`); one that is on and not yet settled is `Rising`
  (`Up`); who shows or holds the status "off" of a regulator that is on still has
  the change before him (`Off`), and the other way round somebody will look at a
  regulator that is off until its status says so (`Down`, `Falling`).  `Fresh`
  is the state in which a change may begin.
* `EnabledInv`: who sets `_Enabled` last.  It is set by `StartTimer`, by the
  handlers of events and by reports, through io; the events of an enable that
  was taken back are followed by those of the disable (`NetOrder`).

`CourseHolds` is its theorem, with one lemma per kind of step; the steps in which
io handles a status, in which the output thread does, and in which the output
thread handles none are each treated alike (`IoFrame`, `OutFrame`, `QuietFrame`
and `RestFrame` say what such a step may do).  `SignalsShow` follows at rest, and
so does `FaultIsReported`: no change is pending there (`AtRestNothing`), and
`FaultIsTakenForAChange` leaves no other way to miss a fault.  `SignalsShow` needs one thing more, `AnswerInv`:
where faults are not allowed, an error that is shown is answered.  The closure
that shows it calls back the netlist, `_On` goes low, `Apply` writes the state
file, and the timer reads the status of a regulator that was on its way up.
`AnswerHolds` says that one of these is under way as long as the error stays and
the regulator is on and works.  Where `_On` is low already, the callback does
nothing, and it is `ObeyInv` (below) that tells why the regulator is off, or being
switched off, all the same.  That is where `~refused` is needed: a regulator that
has refused twice to be switched off stays on with its error (section 4).  Reads
that fail, and writes whose repetition succeeds, may be any number.  Without
`Patient` it is not so: the alarm
switches the regulator off and a request to turn it on overtakes the Apply of it,
so that the state never changes, no status is read again and the error stays
on the signals of a regulator that works (VoltageRegulator.cpp:26).

The last two parts of the module do without `Patient`: `_On` may change at any
time.

* `ObeyInv` is about the state that was asked for.  Only Apply's instructions
  write `hw.state`, `stateShadow` and `pendingNewLevel`, and a change that is
  under way is to the state asked for last, unless another Apply is queued behind
  it (`Towards`).  `ShadowIsState`: outside of SetState, between the write of the
  state file and its read-back, `stateShadow` is the state of the consumer, which
  is what Apply compares with; it is "unknown" at most after a second attempt that
  was refused, and that takes two failing accesses (`TwoFailed`).
  `RegulatorObeys`: once `_On` has been seen, whenever no Apply and no change is
  due the regulator is in the state asked for last, or a second attempt was refused
  and `pendingNewLevel` still says what was asked.  Threads may overlap, and the
  driver need not report a status.
* `GuardInv` is about a fault, as long as the threads have not overlapped.  Most of
  `Change` is false without `Patient`: there may be two timers, and a status from
  before the last change may end it.  What is left is that a status from before
  the fault is not the last word (`Stale`, as before), that a fault has its event,
  its report, a change or the flag before it (`FaultKept`), and that a change that
  is pending is looked at again (`Watched`), with one exception: ConfirmStatus has
  found `statusShadow` as it should be, but nothing has cleared
  `pendingLevelChange`, for ApplyStatus was given the status it knew already and
  returned (`Unnoticed`).  `WrongIsSeen` is why there is no other: who is about to
  confirm the wrong status holds it or has set it.  `FaultIsTakenForAChange` says
  of a state at rest that `FaultReported` is only false there.  This is the state
  of the finding `regulator_toggle`, and the theorem is its converse; the repair
  that it suggests is to clear the flag in ConfirmStatusAfterTimeout.

### ACPIStates: `ACPIStatesProofs`

`Inv` is the types and two halves: as long as a signal is dirty an evaluation
is queued (`Listed`), and what is published is what the signals say unless a
signal that ACPIStates listens to is dirty (`Fresh`).  Both are needed: an
evaluation that finds only request signals dirty publishes nothing, which is
right only because the requests have published already.  `NothingIsStale` holds
for any user and mainboard (`Patient` and `Obedient` are constants).

`RequestsAreSequenced`, `RequestsAreCarriedOut` and `TableIsKept` are about a
user who waits, an obedient mainboard and no `acpi_g3_on_host_shutdown`
(`Patience`), the constants of the run `acpi_orderly`; TLC finds a counterexample
for each of them when any of the three is dropped (`acpi_hurry` is one).  The
queue bound and the number of errors are arbitrary.  `PatientInv` has three parts
besides `Inv`:

* `InStep`: while a request is in turn, io has one of four things to do.  It
  has been asked at rest (`Asked`); its second half is on its way, as a post and
  then as a handler, behind the evaluation of the first, with the timer of a
  power cycle anywhere in between (`HostOnItsWay`, `ChassisOnItsWay`: the seven
  `Forms` of the queue); or only levels, evaluations and the timer are left and
  the signals have the `Outcome` of the request.  An error that comes into
  another request ends the turn, and with it what the properties promise.
* `Evaluated`: a request signal that the netlist has not seen is dirty.  The
  second half runs when nothing is dirty, so the netlist has seen the first:
  this is why the code's posts are enough for the sequence.
* `Follows`: for each ACPI signal the last level on its way is that of the
  mainboard.  At rest, exactly one is 1, and `GetCurrent` is the mainboard's
  state.

No handler of the idle timer runs, since nothing sets it; otherwise there is one
lemma per group of handlers (`RequestsKeepStep`, `PostKeepsStep`,
`HalfKeepsStep`, `TimerKeepsStep`, `EvaluateKeepsStep`, `SetLevelKeepsStep`) for
`InStep`, one for the rest (`IoKeepsLevels`), and `OutsideKeeps` for the user, the
mainboard, the timers and the errors.

### Peripherals: `PeripheralsProofs`

Three invariants say what is under way between a source and its sink.
`NewsIsCurrent`: the last message that io has to take brings what the service
says, whether it is the answer of a Get or a change; it needs `InOrder`, the
match before the Get, without which a change between the two would be missed.
`LampInv`: the level of the signal is on its way to `newLevel`, to `Apply`, and as
the last call to the lamp.  `LogInv`: the last value posted to the log is that of
the signal while the log is enabled.  The theorems are `PresenceIsNotStale`,
`LampFollows`, `LogFollows` and `TypeCorrect`.

### Startup: `StartupProofs`

No fold over files or objects is needed: `Inv` says at every step what has been
gathered so far.  While files are read, each merged section lists what the files
read so far list, as often as they do (`Gathered`).  During construction, every listed object is
still to do or `Built`: it was possible, and what its entry reads and writes is
among the signals that are heard and driven (`ReadsOf`, `WritesOf`), which
conversely are no more than the files say.  So when nothing is left to do, what
is heard and driven are the sums `Reads` and `Writes` over the files, whatever
the order was, and `Valid` is `Sane` (`ValidIsSane`).  The one constructor that
looks at what there is already is that of a `LogOutput`; outputs and regulators
come last (`LateLast`), and they drive no `_On` signal (`LateDrivesNoEnable`), so
that it finds its own if anybody drives it (`Enabled`).  The theorems of this are
`TypeCorrect`, `OrderDecidesNothing` and `LogOutputsAreEnabled`.

`AccountInv` keeps account of the regulators whose constructor has thrown after
they had become receivers, and of those that Netlink calls.  `EventsAreServed`:
in a machine that runs they are the ones that are there, whether or not a name is
listed twice.  `DeadListenersAreGhosts`: where none is, the dead receivers are the
regulators whose directories are there while the Netlink socket is not (`Ghosts`),
and no others, so that `WithSocketOnlyTheLivingListen`: a socket is enough.  This
is the premise of the finding `startup_missing`, in both directions.

`OrderDecidesNothing` is about files that are `Unambiguous`.  A regulator is listed
once: the attempt to prove it with a weaker premise, that entries of one name
agree, failed at the second of two equal entries, which finds its name registered
already and throws; TLC has the directory.  And no line is listed as two inputs of
which one is tested and the other held (`TestedOrHeld`), since a test passes only
until somebody holds the line.  Lines that are held twice are not ambiguous: that
fails in every order, and is part of `Sane` (`LinesHeldOnce`).  For that `Inv` has
`Requesting`: as long as nothing has failed, two objects are on their way to one
line, or one to a line that is held, exactly if the files list a line twice
(`Clash`), which is why `Gathered` counts entries; and one that only tests its line
finds it free, if the files are `TestedOrHeld`.

### Only model-checked

* Liveness: `Settles`, the fairness in `Propagates`, `PowerCycleReturns`,
  `ComesToRest`, `FaultSwitchesOff`, `GateTakesEffect`, `OutputFollows`,
  `ErrorPowersDown`, `ReachesLamp`.  TLAPS has no rules for ENABLED.
* `Converges` of a netlist that is not `Layered`, such as one with a latch: it may
  well hold, but it depends on the levels.
* Regulators whose handlers have overlapped, and the signals, other than `_Fault`,
  of one whose `_On` changes while a change is under way: there TLC has
  counterexamples (section 4).

## 6. Plan

1. Proofs: the signals of a regulator whose `_On` does not wait, once
   `pendingLevelChange` is cleared.
2. Inputs without a gate; the statuses fast, normal, idle and standby.

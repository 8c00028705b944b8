------------------------------- MODULE Startup -------------------------------
(***************************************************************************)
(* From the files of a configuration to a wired machine: LoadConfig reads  *)
(* and merges the files of a directory, in an order that nothing fixes;    *)
(* main constructs SignalProvider, ACPIStates and StateMachine, which      *)
(* constructs the drivers section by section; Validate decides whether the *)
(* program runs.  All of it is on the main thread.                         *)
(*                                                                         *)
(* A signal is its name, split where the code appends a suffix: <<"core",  *)
(* "On">> is core_On.  A driver or receiver is <<its class, its name>>.    *)
(* The options of an entry are the keys that it sets to true.              *)
(***************************************************************************)
EXTENDS Sequences, FiniteSets, SequencesExt

CONSTANTS
  Files,       \* names of files
  Content,     \* what is in them: a sequence of entries for each section
  Directories, \* the directories (sets of files) that are considered
  Available,   \* the regulators that exist, and the GPIO lines that exist and that
               \* no other program has requested
  AcpiReads, AcpiDrives,   \* the signals of ACPIStates
  Pullups,     \* built WITH_GPIOD_PULLUPS
  Netlink      \* the kernel has the multicast group of regulator events

Sections == {"immutables", "power_sequencer", "inputs", "outputs", "regulators",
             "floating_signals"}

ASSUME StartupAssumption ==
  /\ \A f \in Files :
        /\ Sections \cup {"yaml"} \subseteq DOMAIN Content[f]
        /\ \A s \in Sections : Content[f][s] \in Seq(ToSet(Content[f][s]))
  /\ Directories \subseteq SUBSET Files
  /\ {Pullups, Netlink} \subseteq BOOLEAN

NoName == <<"", "">>

VARIABLES
  phase,      \* "load", "construct", "run" or "failed"
  directory,  \* the files of the directory
  unread,     \* those that the iterator has still to come to
  cfg,        \* the sections merged so far
  todo,       \* objects to construct: a class with an entry of its section
  signals,    \* SignalProvider::signals
  immutables,
  listens,    \* <<s, r>> : r is one of the receivers of signal s
  drives,     \* <<s, d>> : d is one of signalDrivers, s one of its Signals()
  callbacks,  \* the regulators registered for netlink events
  held,       \* the GPIO lines that a driver has requested and not released
  dead        \* objects whose constructor has thrown

wiring == <<signals, immutables, listens, drives, callbacks, held, dead>>
vars == <<phase, directory, unread, cfg, todo, wiring>>

-----------------------------------------------------------------------------
(* The decoders of Config.cpp: the entries they accept.  Keys that are not  *)
(* known are refused in the inputs and the output of a logic block only.    *)

Biases == {"pullup", "pulldown", "disablebias"}

BiasAccepted(options) ==
  IF Pullups
    THEN /\ ~ {"pullup", "pulldown"} \subseteq options
         /\ "disablebias" \in options => options \cap Biases = {"disablebias"}
    ELSE options \cap Biases = {}

AcceptsOutput(e) ==
  /\ e.type \in {"gpio", "led", "logging", "null"}
  /\ e.name # "" /\ e.signal # NoName
  /\ ~ {"open_drain", "open_source"} \subseteq e.options
  /\ BiasAccepted(e.options)

IdleLevels(e) == e.options \cap {"gated_idle_high", "gated_idle_low"}

GateAccepted(e) ==
  /\ IdleLevels(e) # {"gated_idle_high", "gated_idle_low"}
  /\ "gate_input" \in e.options => IdleLevels(e) # {}

AcceptsInput(e) ==
  /\ e.type \in {"gpio", "dbus_presence", "null"}
  /\ e.name # "" /\ e.signal # NoName
  /\ BiasAccepted(e.options)
  /\ GateAccepted(e)

AcceptsLogic(e) ==
  /\ e.out # NoName
  /\ e.reads # {} /\ NoName \notin e.reads
  /\ "unknown" \notin e.options

AcceptsImmutable(e) == e.signal # NoName /\ "value" \in e.options

AcceptsRegulator(e) == e.name # ""

(* The document of a file is decoded as a whole. *)
AcceptsFile(c) ==
  /\ \A e \in ToSet(c.power_sequencer) : AcceptsLogic(e)
  /\ \A e \in ToSet(c.inputs) : AcceptsInput(e)
  /\ \A e \in ToSet(c.outputs) : AcceptsOutput(e)
  /\ \A e \in ToSet(c.regulators) : AcceptsRegulator(e)
  /\ \A e \in ToSet(c.immutables) : AcceptsImmutable(e)

-----------------------------------------------------------------------------
TypeOK ==
  LET Object == {"ACPIStates", "Logic", "Input", "Output", "LogOutput",
                 "VoltageRegulator", "NullVoltageRegulator"}
      Wires == {w \in listens \cup drives : w[1] \in signals /\ w[2][1] \in Object}
  IN /\ phase \in {"load", "construct", "run", "failed"}
     /\ directory \in Directories /\ unread \subseteq directory
     /\ DOMAIN cfg = Sections
     /\ todo # <<>> => phase \in {"construct", "failed"}
     /\ immutables \subseteq signals
     /\ listens \cup drives = Wires
     /\ callbacks \subseteq Available /\ held \subseteq Available

Init ==
  /\ phase = "load"
  /\ directory \in Directories
  /\ unread = directory
  /\ cfg = [s \in Sections |-> <<>>]
  /\ todo = <<>>
  /\ signals = {} /\ immutables = {}
  /\ listens = {} /\ drives = {}
  /\ callbacks = {} /\ held = {} /\ dead = {}

-----------------------------------------------------------------------------
(* LoadConfig. *)

IsConfig(f) == Content[f].yaml

LoadFile(f) ==
  /\ phase = "load" /\ f \in unread
  /\ unread' = unread \ {f}
  /\ \/ /\ ~IsConfig(f)
        /\ UNCHANGED <<cfg, phase>>
     \/ /\ IsConfig(f) /\ AcceptsFile(Content[f])
        /\ cfg' = [s \in Sections |-> cfg[s] \o Content[f][s]]
        /\ UNCHANGED phase
     \/ /\ IsConfig(f) /\ ~AcceptsFile(Content[f])
        /\ phase' = "failed"
        /\ UNCHANGED cfg
  /\ UNCHANGED <<directory, todo, wiring>>

ToDo(class, section) ==
  [i \in DOMAIN cfg[section] |-> [class |-> class, entry |-> cfg[section][i]]]

(* The order of main and of the constructor of StateMachine. *)
OutputsFirst ==   \* mutant of Order
  ToDo("Immutable", "immutables") \o <<[class |-> "ACPIStates"]>>
    \o ToDo("Output", "outputs") \o ToDo("Logic", "power_sequencer")
    \o ToDo("Input", "inputs") \o ToDo("Regulator", "regulators")
Order ==
  ToDo("Immutable", "immutables") \o <<[class |-> "ACPIStates"]>>
    \o ToDo("Logic", "power_sequencer") \o ToDo("Input", "inputs")
    \o ToDo("Output", "outputs") \o ToDo("Regulator", "regulators")

EndLoad ==
  /\ phase = "load" /\ unread = {}
  /\ phase' = IF \E f \in directory : IsConfig(f) THEN "construct" ELSE "failed"
  /\ todo' = IF phase' = "construct" THEN Order ELSE <<>>
  /\ UNCHANGED <<directory, unread, cfg, wiring>>

-----------------------------------------------------------------------------
(* The constructors. *)

Next_(class) == phase = "construct" /\ todo # <<>> /\ Head(todo).class = class

Entry == Head(todo).entry

(* The object `me' is constructed: FindOrAdd of its signals, AddReceiver to
   those it reads, AddDriver, by which it drives the others. *)
WireFound(me, reads, writes) ==   \* mutant of Wire
  /\ signals' = signals \cup reads
  /\ listens' = listens \cup {<<s, me>> : s \in reads}
  /\ drives' = drives \cup {<<s, me>> : s \in writes}
Wire(me, reads, writes) ==
  /\ signals' = signals \cup reads \cup writes
  /\ listens' = listens \cup {<<s, me>> : s \in reads}
  /\ drives' = drives \cup {<<s, me>> : s \in writes}

Done == todo' = Tail(todo) /\ UNCHANGED <<phase, directory, unread, cfg>>

Throw ==
  /\ phase' = "failed"
  /\ UNCHANGED <<directory, unread, cfg, todo>>

ConstructImmutable ==
  /\ Next_("Immutable")
  /\ signals' = signals \cup {Entry.signal}
  /\ immutables' = immutables \cup {Entry.signal}
  /\ Done
  /\ UNCHANGED <<listens, drives, callbacks, held, dead>>

ConstructACPIStates ==
  /\ Next_("ACPIStates")
  /\ Wire(<<"ACPIStates", "">>, AcpiReads, AcpiDrives)
  /\ Done
  /\ UNCHANGED <<immutables, callbacks, held, dead>>

ConstructLogic ==
  /\ Next_("Logic")
  /\ Wire(<<"Logic", Entry.out>>, Entry.reads, {Entry.out})
  /\ Done
  /\ UNCHANGED <<immutables, callbacks, held, dead>>

(* A GPIO throws whose line does not exist, or which cannot request it: a line
   has one holder at a time. *)
Missing(e) == e.type = "gpio" /\ e.name \notin Available
Busy(e) == e.type = "gpio" /\ e.name \in held

Gated(e) == e.type = "gpio" /\ "gate_input" \in e.options

(* TestAcquire: an input with a gate releases its line at once, unless it has to
   drive it low. *)
Tests(e) == Gated(e) /\ "gated_output_od_low" \notin e.options
Holds(e) == e.type = "gpio" /\ ~Tests(e)

ConstructInput ==
  /\ Next_("Input") /\ ~Missing(Entry) /\ ~Busy(Entry)
  /\ LET gate == IF Gated(Entry) THEN {"On"} ELSE {}
         own == IF Gated(Entry) THEN {"Enabled"} ELSE {}
     IN Wire(<<"Input", Entry.name>>, {<<Entry.name, x>> : x \in gate},
             {Entry.signal} \cup {<<Entry.name, x>> : x \in own})
  /\ held' = IF Holds(Entry) THEN held \cup {Entry.name} ELSE held
  /\ Done
  /\ UNCHANGED <<immutables, callbacks, dead>>

OutputSignals(e) == IF e.type = "gpio" THEN {<<e.name, "Enabled">>} ELSE {}

ConstructOutput ==
  /\ Next_("Output") /\ Entry.type # "logging" /\ ~Missing(Entry) /\ ~Busy(Entry)
  /\ Wire(<<"Output", Entry.name>>, {Entry.signal}, OutputSignals(Entry))
  /\ held' = IF Entry.type = "gpio" THEN held \cup {Entry.name} ELSE held
  /\ Done
  /\ UNCHANGED <<immutables, callbacks, dead>>

(* A LogOutput does not add its _On signal, it uses the one it finds. *)
ConstructLogOutput ==
  /\ Next_("Output") /\ Entry.type = "logging"
  /\ Wire(<<"LogOutput", Entry.name>>,
          {Entry.signal} \cup ({<<Entry.name, "On">>} \cap signals), {})
  /\ Done
  /\ UNCHANGED <<immutables, callbacks, held, dead>>

(* What its constructor has wired ends with the program. *)
FailDriver ==
  /\ Next_("Input") \/ Next_("Output")
  /\ Missing(Entry) \/ Busy(Entry)
  /\ Throw
  /\ UNCHANGED wiring

RegulatorSignals(name) ==
  {<<name, x>> : x \in {"Enabled", "Fault", "PowerGood", "IsDummy"}}

WireRegulator(class, name) ==
  Wire(<<class, name>>, {<<name, "On">>}, RegulatorSignals(name))

(* The directories of the regulator and of its consumer are found. *)
InSysfs(name) == name \in Available

(* The socket is opened by the first regulator that gets this far, and once
   more by the next one when that has failed. *)
GetNetlinkRegulatorEvents == Netlink

(* It comes last in the constructor to register for events. *)
Registers(name) == GetNetlinkRegulatorEvents /\ name \notin callbacks

ConstructRegulator ==
  /\ Next_("Regulator") /\ "dummy" \notin Entry.options
  /\ InSysfs(Entry.name) /\ Registers(Entry.name)
  /\ WireRegulator("VoltageRegulator", Entry.name)
  /\ callbacks' = callbacks \cup {Entry.name}
  /\ Done
  /\ UNCHANGED <<immutables, held, dead>>

ConstructDummy ==
  /\ Next_("Regulator") /\ "dummy" \in Entry.options
  /\ WireRegulator("NullVoltageRegulator", Entry.name)
  /\ Done
  /\ UNCHANGED <<immutables, callbacks, held, dead>>

(* What a constructor that throws has done before: nothing when there is no
   such regulator, all but to register when there is. *)
LeftBehind(name) ==
  IF InSysfs(name)
    THEN {<<<<name, "On">>, <<"VoltageRegulator", name>>>>} ELSE {}

MayBeMissing(e) == "allow_missing" \in e.options

ReplaceRegulator ==
  /\ Next_("Regulator") /\ "dummy" \notin Entry.options
  /\ ~(InSysfs(Entry.name) /\ Registers(Entry.name))
  /\ MayBeMissing(Entry)
  /\ LET name == Entry.name
         me == <<"NullVoltageRegulator", name>>
     IN /\ signals' = signals \cup RegulatorSignals(name) \cup {<<name, "On">>}
        /\ listens' = listens \cup LeftBehind(name) \cup {<<<<name, "On">>, me>>}
        /\ drives' = drives \cup {<<s, me>> : s \in RegulatorSignals(name)}
        /\ dead' = dead \cup {w[2] : w \in LeftBehind(name)}
  /\ Done
  /\ UNCHANGED <<immutables, callbacks, held>>

FailRegulator ==
  /\ Next_("Regulator") /\ "dummy" \notin Entry.options
  /\ ~(InSysfs(Entry.name) /\ Registers(Entry.name))
  /\ ~MayBeMissing(Entry)
  /\ Throw
  /\ UNCHANGED wiring

Construct ==
  \/ ConstructImmutable \/ ConstructACPIStates \/ ConstructLogic
  \/ ConstructInput \/ ConstructOutput \/ ConstructLogOutput \/ FailDriver
  \/ ConstructRegulator \/ ConstructDummy \/ ReplaceRegulator \/ FailRegulator

-----------------------------------------------------------------------------
(* Validate: every signal is heard or floating, and driven. *)

Heard(s) == \E w \in listens : w[1] = s
Driven(s) == s \in immutables \/ \E w \in drives : w[1] = s

Floating == ToSet(cfg.floating_signals)

ValidUnlessUndriven == \A s \in signals : Heard(s) \/ s \in Floating   \* mutant
Valid == \A s \in signals : (Heard(s) \/ s \in Floating) /\ Driven(s)

Validate ==
  /\ phase = "construct" /\ todo = <<>>
  /\ phase' = IF Valid THEN "run" ELSE "failed"
  /\ UNCHANGED <<directory, unread, cfg, todo, wiring>>

Next == (\E f \in Files : LoadFile(f)) \/ EndLoad \/ Construct \/ Validate

Spec == Init /\ [][Next]_vars

-----------------------------------------------------------------------------
(* Properties. *)

(* What a directory says, whatever the order of its files. *)
Configs == {f \in directory : IsConfig(f)}
All(section) == UNION {ToSet(Content[f][section]) : f \in Configs}

Lives(r) ==
  /\ "dummy" \notin r.options
  /\ InSysfs(r.name) /\ GetNetlinkRegulatorEvents

Reads ==
  AcpiReads \cup (UNION {e.reads : e \in All("power_sequencer")})
    \cup {e.signal : e \in All("outputs")}
    \cup {<<e.name, "On">> : e \in {i \in All("inputs") : Gated(i)}}
    \cup {<<r.name, "On">> : r \in All("regulators")}

Writes ==
  AcpiDrives \cup {e.signal : e \in All("immutables") \cup All("inputs")}
    \cup {e.out : e \in All("power_sequencer")}
    \cup {<<e.name, "Enabled">> :
            e \in {i \in All("inputs") : Gated(i)}
                    \cup {o \in All("outputs") : o.type = "gpio"}}
    \cup (UNION {RegulatorSignals(r.name) : r \in All("regulators")})

Gates == {<<e.name, "On">> : e \in {o \in All("outputs") : o.type = "logging"}}

(* Entries of a section share no name. *)
NamedOnce(section, entries) ==
  \A f, g \in Configs :
    \A i \in DOMAIN Content[f][section], j \in DOMAIN Content[g][section] :
      LET e == Content[f][section][i]
          d == Content[g][section][j]
      IN e \in entries /\ d \in entries /\ e.name = d.name => f = g /\ i = j

Holding == {e \in All("inputs") : Holds(e)}
Driving == {e \in All("outputs") : e.type = "gpio"}

LinesHeldOnce ==
  /\ NamedOnce("inputs", Holding) /\ NamedOnce("outputs", Driving)
  /\ \A e \in Holding, d \in Driving : e.name # d.name

Wired ==
  /\ Configs # {}
  /\ \A f \in Configs : AcceptsFile(Content[f])
  /\ \A e \in All("inputs") \cup All("outputs") : ~Missing(e)
  /\ \A r \in All("regulators") :
        "dummy" \in r.options \/ Lives(r) \/ MayBeMissing(r)
  /\ Reads \subseteq Writes
  /\ Writes \ (Reads \cup Gates) \subseteq All("floating_signals")

Sane == Wired /\ LinesHeldOnce

(* A line can be tested until it is held: with inputs of both kinds on it the
   order of the entries decides.  (Outputs come after all inputs.) *)
TestedOrHeld ==
  \A e, d \in All("inputs") : Tests(e) /\ Holds(d) => e.name # d.name

RegulatorsListedOnce == NamedOnce("regulators", All("regulators"))

Unambiguous == RegulatorsListedOnce /\ TestedOrHeld

(* Whether the program runs is a matter of what the files say, never of the
   order in which the iterator finds them or of the order of construction:
   "You can use multiple config files located in the same folder"
   (doc/config.md:7).  Sane files may still fail that list a regulator twice, or
   a line both as an input that is tested and as one that is held. *)
OutcomeIsOrderFree ==
  /\ phase = "run" => Sane
  /\ phase = "failed" => ~(Sane /\ Unambiguous)

(* A LogOutput that finds its _On signal depends on the order of
   construction; in a machine that runs, none has missed it. *)
EnablesAreFound ==
  phase = "run" =>
    \A e \in ToSet(cfg.outputs) :
      e.type = "logging" /\ <<e.name, "On">> \in signals =>
        <<<<e.name, "On">>, <<"LogOutput", e.name>>>> \in listens

(* "A dummy regulator will be spawned instead" (Config.hpp:156): whoever
   listens to a signal of the machine that runs has been constructed. *)
OnlyTheLivingListen ==
  phase = "run" => \A w \in listens : w[2] \notin dead
==============================================================================

----------------------------- MODULE MCStartup -----------------------------
(* Fourteen files that together wire a small board; those of a directory are
   a few of them. *)
EXTENDS Startup

Empty ==
  [immutables |-> <<>>, power_sequencer |-> <<>>, inputs |-> <<>>,
   outputs |-> <<>>, regulators |-> <<>>, floating_signals |-> <<>>,
   yaml |-> TRUE]

S(name) == <<name, "">>
Fixed(s) == [signal |-> s, options |-> {"value"}]
Unit(reads, out) == [reads |-> reads, out |-> out, options |-> {}]
Device(type, name, signal, options) ==
  [type |-> type, name |-> name, signal |-> signal, options |-> options]
Supply(name, options) == [name |-> name, options |-> options]

MCAcpiReads == {S("is_s0"), S("post_done")}
MCAcpiDrives == {S("req_host")}

(* The signals of a regulator of which nobody takes notice. *)
Ignored(name) ==
  << <<name, "Enabled">>, <<name, "Fault">>, <<name, "PowerGood">>,
     <<name, "IsDummy">> >>

MCContent ==
  [base |-> [Empty EXCEPT
     !.immutables = <<Fixed(S("post_done"))>>,
     !.power_sequencer = <<Unit({<<"core", "PowerGood">>}, S("is_s0"))>>,
     !.outputs = <<Device("null", "sink", S("req_host"), {})>>],
   core |-> [Empty EXCEPT
     !.power_sequencer = <<Unit({S("req_host")}, <<"core", "On">>)>>,
     !.regulators = <<Supply("core", {"allow_missing"})>>,
     !.floating_signals = Ignored("core")],
   aux |-> [Empty EXCEPT
     !.immutables = <<Fixed(<<"aux", "On">>)>>,
     !.regulators = <<Supply("aux", {"allow_missing"})>>,
     !.floating_signals = Ignored("aux")],
   late |-> [Empty EXCEPT
     !.immutables = <<Fixed(<<"late", "On">>)>>,
     !.regulators = <<Supply("late", {"allow_missing"}), Supply("spare", {"dummy"})>>,
     !.inputs = <<Device("null", "zero", <<"spare", "On">>, {})>>,
     !.floating_signals = Ignored("late") \o Ignored("spare")],
   needed |-> [Empty EXCEPT
     !.immutables = <<Fixed(<<"rail", "On">>)>>,
     !.regulators = <<Supply("rail", {})>>,
     !.floating_signals = Ignored("rail")],
   log |-> [Empty EXCEPT
     !.outputs = <<Device("logging", "watch", <<"core", "Fault">>, {})>>],
   enable |-> [Empty EXCEPT
     !.power_sequencer = <<Unit({S("req_host")}, <<"watch", "On">>)>>,
     !.floating_signals = << <<"watch", "On">> >>],
   gate |-> [Empty EXCEPT
     !.immutables = <<Fixed(<<"in", "On">>)>>,
     !.inputs = <<Device("gpio", "in", S("button"), {"gate_input", "gated_idle_high"})>>,
     !.outputs = <<Device("led", "lamp", S("button"), {}),
                   Device("gpio", "pin", S("button"), {"open_drain", "pullup"})>>,
     !.floating_signals = << <<"in", "Enabled">>, <<"pin", "Enabled">> >>],
   open |-> [Empty EXCEPT
     !.immutables = <<Fixed(<<"in", "On">>)>>,
     !.inputs = <<Device("gpio", "in", S("button"), {"gate_input"})>>,
     !.outputs = <<Device("led", "lamp", S("button"), {})>>,
     !.floating_signals = << <<"in", "Enabled">> >>],
   tap |-> [Empty EXCEPT
     !.immutables = <<Fixed(<<"pin", "On">>)>>,
     !.inputs = <<Device("gpio", "pin", S("tapped"), {"gate_input", "gated_idle_low"})>>,
     !.floating_signals = <<S("tapped"), <<"pin", "Enabled">> >>],
   direct |-> [Empty EXCEPT
     !.inputs = <<Device("gpio", "pin", S("level"), {})>>,
     !.floating_signals = <<S("level")>>],
   pull |-> [Empty EXCEPT
     !.immutables = <<Fixed(<<"pin", "On">>)>>,
     !.inputs = <<Device("gpio", "pin", S("pulled"),
                   {"gate_input", "gated_idle_low", "gated_output_od_low"})>>,
     !.floating_signals = <<S("pulled"), <<"pin", "Enabled">> >>],
   absent |-> [Empty EXCEPT
     !.inputs = <<Device("gpio", "nowhere", S("lost"), {})>>,
     !.floating_signals = <<S("lost")>>],
   notes |-> [Empty EXCEPT !.yaml = FALSE]]

MCFiles == DOMAIN MCContent

(* The two files without which nothing runs and at most three others, and
   small directories. *)
MCDirectories ==
  {d \in SUBSET MCFiles :
     \/ {"base", "core"} \subseteq d /\ Cardinality(d) <= 5
     \/ Cardinality(d) <= 2}
==============================================================================

--------------------------- MODULE SignalProvider ---------------------------
(***************************************************************************)
(* Signal and SignalProvider: the levels of all signals and the double     *)
(* buffered list of the dirty ones.                                        *)
(*                                                                         *)
(* The lists dirtyA and dirtyB swap roles: SetDirty appends to the active  *)
(* one, GetDirtySignalsAndClearList hands the active one to the caller and *)
(* makes the other one, emptied, active.  Every call that changes this     *)
(* state after the constructors is made by the thread that runs `io'.      *)
(***************************************************************************)
EXTENDS LogicGate, Sequences, SequencesExt

VARIABLES
  created,         \* the signals of the map SignalProvider::signals
  level,           \* Signal::active
  dirty,           \* Signal::dirty
  dirtyA, dirtyB,  \* the two lists
  dirtyAIsActive,  \* which one SetDirty appends to
  listening        \* SetDirtyBitEvent has been called

providerVars == <<created, level, dirty, dirtyA, dirtyB, dirtyAIsActive,
                  listening>>

ProviderTypeOK ==
  /\ created \subseteq Signals
  /\ level \in [Signals -> Level]
  /\ dirty \in [Signals -> BOOLEAN]
  /\ dirtyA \in Seq(Signals)
  /\ dirtyB \in Seq(Signals)
  /\ dirtyAIsActive \in BOOLEAN
  /\ listening \in BOOLEAN

(* The list SetDirty appends to, and the one that was handed out last. *)
Active == IF dirtyAIsActive THEN dirtyA ELSE dirtyB
Fetched == IF dirtyAIsActive THEN dirtyB ELSE dirtyA

ProviderInit ==
  /\ created = {}
  /\ level = [s \in Signals |-> Undefined]
  /\ dirty = [s \in Signals |-> FALSE]
  /\ dirtyA = <<>>
  /\ dirtyB = <<>>
  /\ dirtyAIsActive = FALSE
  /\ listening = FALSE

AppendActive(seq) ==
  /\ dirtyA' = IF dirtyAIsActive THEN dirtyA \o seq ELSE dirtyA
  /\ dirtyB' = IF dirtyAIsActive THEN dirtyB ELSE dirtyB \o seq
  /\ UNCHANGED dirtyAIsActive

(* SetDirty returns early for a signal that the active list already holds. *)
InActive(s) == s \in ToSet(Active)

SetDirty(s) == AppendActive(IF InActive(s) THEN <<>> ELSE <<s>>)

(* Mutant: SetDirty tests the dirty bit, as its FIXME suggests, which
   SetLevel and the constructor of Signal have already set. *)
NotifiesByDirtyBit(s) == listening /\ ~[dirty EXCEPT ![s] = TRUE][s]

(* Does SetDirty(s) call the listener, StateMachine::OnDirtySet? *)
Notifies(s) == listening /\ ~InActive(s)

(* Signal::SetLevel.  Nothing happens when the level does not change. *)
SetLevel(s, v) ==
  IF level[s] = v
    THEN UNCHANGED <<level, dirty, dirtyA, dirtyB, dirtyAIsActive>>
    ELSE /\ level' = [level EXCEPT ![s] = v]
         /\ dirty' = [dirty EXCEPT ![s] = TRUE]
         /\ SetDirty(s)

SetLevelNotifies(s, v) == level[s] # v /\ Notifies(s)

(* SignalProvider::Add.  The constructor of Signal already calls SetDirty;
   Add then pushes the signal a second time, without the check. *)
Add(s) ==
  /\ created' = created \cup {s}
  /\ dirty' = [dirty EXCEPT ![s] = TRUE]
  /\ AppendActive(IF InActive(s) THEN <<s>> ELSE <<s, s>>)
  /\ UNCHANGED level

(* Mutants: the dirty bits are not cleared; the list handed out is cleared
   instead of the other one; the other one is not cleared. *)
GetDirtyKeepsBits ==
  /\ dirty' = dirty
  /\ dirtyAIsActive' = ~dirtyAIsActive
  /\ dirtyA' = IF dirtyAIsActive THEN dirtyA ELSE <<>>
  /\ dirtyB' = IF dirtyAIsActive THEN <<>> ELSE dirtyB

GetDirtyClearsFetched ==
  /\ dirty' = [s \in Signals |-> dirty[s] /\ ~InActive(s)]
  /\ dirtyAIsActive' = ~dirtyAIsActive
  /\ dirtyA' = IF dirtyAIsActive THEN <<>> ELSE dirtyA
  /\ dirtyB' = IF dirtyAIsActive THEN dirtyB ELSE <<>>

GetDirtyKeepsList ==
  /\ dirty' = [s \in Signals |-> dirty[s] /\ ~InActive(s)]
  /\ dirtyAIsActive' = ~dirtyAIsActive
  /\ UNCHANGED <<dirtyA, dirtyB>>

(* ClearDirty, then the swap. *)
GetDirtySignalsAndClearList ==
  /\ dirty' = [s \in Signals |-> dirty[s] /\ ~InActive(s)]
  /\ dirtyAIsActive' = ~dirtyAIsActive
  /\ dirtyA' = IF dirtyAIsActive THEN dirtyA ELSE <<>>
  /\ dirtyB' = IF dirtyAIsActive THEN <<>> ELSE dirtyB
==============================================================================

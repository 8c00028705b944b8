----------------------------- MODULE Propagation -----------------------------
(***************************************************************************)
(* What the evaluation engine promises its drivers and receivers, whatever *)
(* lists, buffers and rounds it uses.  Setting a signal makes each of its  *)
(* receivers due; a due receiver is called after that, and no receiver     *)
(* stops being due in another way.  A receiver that is called shows the    *)
(* value of the levels at that moment, and drives its own signal with it.  *)
(* A receiver may be called more often than is due.                        *)
(***************************************************************************)
EXTENDS Integers

CONSTANTS
  Signals,
  Listeners,    \* the receivers of all signals
  ListenersOf,  \* those of each signal, a function to SUBSET Listeners
  Drives,       \* the signal driven by a receiver, if it drives one
  Value(_, _)   \* what a receiver makes of the levels; -1 for nothing

VARIABLES
  level,
  shown,    \* the value each receiver made when it was called last
  due       \* the receivers that will be called

vars == <<level, shown, due>>

Init ==
  /\ level = [s \in Signals |-> -1]
  /\ shown = [r \in Listeners |-> -1]
  /\ due = {}

(* A signal is created: its receivers read it once. *)
Create(s) ==
  /\ due' = due \cup ListenersOf[s]
  /\ UNCHANGED <<level, shown>>

(* A driver sets a signal. *)
Set(s, v) ==
  /\ level[s] # v
  /\ level' = [level EXCEPT ![s] = v]
  /\ due' = due \cup ListenersOf[s]
  /\ UNCHANGED shown

(* A receiver is called.  It may stay due: the engine may call it again. *)
DrivesNew(r, v) ==
  r \in DOMAIN Drives /\ v # shown[r] /\ v # level[Drives[r]]

Call(r) ==
  LET v == Value(r, level)
  IN /\ shown' = [shown EXCEPT ![r] = IF v = -1 THEN @ ELSE v]
     /\ IF DrivesNew(r, v)
          THEN /\ level' = [level EXCEPT ![Drives[r]] = v]
               /\ \E left \in {due, due \ {r}} :
                     due' = left \cup ListenersOf[Drives[r]]
          ELSE /\ level' = level
               /\ due' \in {due, due \ {r}}

Next ==
  \/ \E s \in Signals : Create(s)
  \/ \E s \in Signals, v \in {0, 1} : Set(s, v)
  \/ \E r \in Listeners : Call(r)

Spec == Init /\ [][Next]_vars

FairSpec == Spec /\ \A r \in Listeners : WF_vars(r \in due /\ Call(r))
==============================================================================

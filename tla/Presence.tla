------------------------------- MODULE Presence -------------------------------
(***************************************************************************)
(* ItemPresent: a signal that shows the Present property of an item of the *)
(* inventory, which Dbus watches (PropertiesChanged) and asks for (Get).   *)
(* Replies and signals are handled on io, in the order in which the bus    *)
(* has passed them on.                                                     *)
(*                                                                         *)
(* External: the inventory service, which may be down, and the bus, which  *)
(* answers a call to a service that is down with an error.                 *)
(***************************************************************************)
EXTENDS Integers, Sequences, FiniteSets, SequencesExt

CONSTANTS
  Children,   \* objects below the item that have a Present property, too
  MaxChanges, \* bound: properties change while fewer changes are under way
  MaxStarts   \* bound: how often the inventory service is started

ASSUME PresenceAssumption ==
  /\ "item" \notin Children
  /\ {MaxChanges, MaxStarts} \subseteq Nat \ {0}

Objects == {"item"} \cup Children

Undefined == -1

Reply(v) == [type |-> "reply", object |-> "item", present |-> v]
Changed(o, v) == [type |-> "changed", object |-> o, present |-> v]
Failed == [type |-> "error"]

Message ==
  {Failed} \cup {Reply(v) : v \in {0, 1}}
           \cup {Changed(o, v) : o \in Objects, v \in {0, 1}}

VARIABLES
  ctor,       \* calls of the constructor that are still to come
  watches,    \* the match for PropertiesChanged is registered
  asks,       \* a Get is on its way to the service
  inbox,      \* what the bus has for io
  present,    \* level of the item's signal
  inventory,  \* external: Present of the item, Undefined while the service is down
  starts,     \* bound: starts of the service left
  renewed,    \* history: the service was restarted after it had answered
  misled      \* history: the last message taken was about a child

device == <<ctor, watches, asks, present>>
presenceVars == <<device, inbox, inventory, starts, renewed, misled>>

Down == inventory = Undefined

PresenceTypeOK ==
  /\ ctor \in Seq({"watch", "ask"})
  /\ {watches, asks, renewed, misled} \subseteq BOOLEAN
  /\ inbox \in Seq(Message)
  /\ present \in {Undefined, 0, 1}
  /\ inventory \in {Undefined, 0, 1}
  /\ starts \in 0 .. MaxStarts

AsksFirst == <<"ask", "watch">>      \* mutant
Constructor == <<"watch", "ask">>

PresenceInit ==
  /\ ctor = Constructor
  /\ watches = FALSE /\ asks = FALSE
  /\ inbox = <<>>
  /\ present = Undefined
  /\ inventory = Undefined
  /\ starts = MaxStarts
  /\ renewed = FALSE /\ misled = FALSE

-----------------------------------------------------------------------------
(* ItemPresent and the callbacks of Dbus. *)

Construct ==
  /\ ctor # <<>>
  /\ ctor' = Tail(ctor)
  /\ watches' = (watches \/ Head(ctor) = "watch")
  /\ asks' = (asks \/ Head(ctor) = "ask")
  /\ UNCHANGED <<inbox, present, inventory, starts, renewed, misled>>

(* A call that failed is repeated at once, as long as it takes. *)
NeverAgain(msg) == FALSE             \* mutant
AsksAgain(msg) == msg = Failed

(* io starts with StateMachine::Run, after the constructors. *)
HandleMessage ==
  /\ ctor = <<>> /\ inbox # <<>>
  /\ LET msg == Head(inbox)
     IN IF msg = Failed
          THEN /\ asks' = AsksAgain(msg)
               /\ UNCHANGED <<present, misled>>
          ELSE /\ present' = msg.present
               /\ misled' = (msg.object # "item")
               /\ UNCHANGED asks
  /\ inbox' = Tail(inbox)
  /\ UNCHANGED <<ctor, watches, inventory, starts, renewed>>

-----------------------------------------------------------------------------
(* The bus and the inventory. *)

Answer ==
  /\ asks
  /\ asks' = FALSE
  /\ inbox' = Append(inbox, IF Down THEN Failed ELSE Reply(inventory))
  /\ UNCHANGED <<ctor, watches, present, inventory, starts, renewed, misled>>

(* The match has the item's path as its path_namespace, which takes in the
   objects below it. *)
ChangePresent(o, v) ==
  /\ ~Down
  /\ Cardinality({i \in DOMAIN inbox : inbox[i].type = "changed"}) < MaxChanges
  /\ o = "item" => inventory # v
  /\ inventory' = IF o = "item" THEN v ELSE inventory
  /\ inbox' = IF watches THEN Append(inbox, Changed(o, v)) ELSE inbox
  /\ UNCHANGED <<device, starts, renewed, misled>>

(* The Get has not succeeded yet. *)
Unanswered == ctor # <<>> \/ asks \/ Failed \in ToSet(inbox)

(* A service that starts announces its objects, which is not a change of a
   property. *)
StartInventory ==
  /\ Down /\ starts > 0
  /\ inventory' \in {0, 1}
  /\ starts' = starts - 1
  /\ renewed' = (renewed \/ ~Unanswered)
  /\ UNCHANGED <<device, inbox, misled>>

StopInventory ==
  /\ ~Down
  /\ inventory' = Undefined
  /\ UNCHANGED <<device, inbox, starts, renewed, misled>>

Inventory ==
  \/ \E o \in Objects, v \in {0, 1} : ChangePresent(o, v)
  \/ StartInventory \/ StopInventory
==============================================================================

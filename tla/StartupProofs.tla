---------------------------- MODULE StartupProofs ----------------------------
(***************************************************************************)
(* Proofs about Startup, for every directory of files: the order in which  *)
(* the files are found and in which the objects are constructed decides    *)
(* nothing.                                                                *)
(*                                                                         *)
(* The merged sections hold what the files that have been read list.  Each *)
(* constructor adds to the signals that are heard and to those that are    *)
(* driven what its entry says, so that in the end these are sums over what *)
(* is listed.  Only a LogOutput looks at what there is already; but what   *)
(* could drive its signal is all constructed before the outputs.           *)
(*                                                                         *)
(* And regulators look whether they are there, and once more whether they  *)
(* are registered: the last part says who has events in the end, and which *)
(* constructors that threw have left a listener behind.                    *)
(***************************************************************************)
EXTENDS Startup, QueueLemmas

-----------------------------------------------------------------------------
(* Two places of a list.  That entries share no name is said of two of them, *)
(* and an entry may be listed twice.                                         *)

Two(q, e, d) == \E i, j \in DOMAIN q : i # j /\ q[i] = e /\ q[j] = d

(* Two places of one list behind another. *)
LEMMA TwoConcat ==
  ASSUME NEW S, NEW p \in Seq(S), NEW q \in Seq(S), NEW e, NEW d
  PROVE  Two(p \o q, e, d) <=>
           \/ Two(p, e, d) \/ Two(q, e, d)
           \/ e \in ToSet(p) /\ d \in ToSet(q)
           \/ e \in ToSet(q) /\ d \in ToSet(p)
<1> DEFINE r == p \o q
           n == Len(p)
           m == Len(q)
<1>1. /\ n \in Nat /\ m \in Nat /\ DOMAIN p = 1 .. n /\ DOMAIN q = 1 .. m
      /\ DOMAIN r = 1 .. n + m
      /\ \A i \in 1 .. n : r[i] = p[i]
      /\ \A i \in 1 .. m : r[n + i] = q[i]
  OBVIOUS
<1> HIDE DEF r, n, m
<1>2. \A i \in 1 .. n : i \in 1 .. n + m
  BY <1>1
<1>3. \A i \in 1 .. m : n + i \in 1 .. n + m /\ n + i \notin 1 .. n
  BY <1>1
<1>4. \A i \in 1 .. n + m : i \in 1 .. n \/ (i - n \in 1 .. m /\ n + (i - n) = i)
  BY <1>1
<1>5. \A i, j \in 1 .. m : i # j => n + i # n + j
  BY <1>1
<1>6. ASSUME Two(p, e, d) PROVE Two(r, e, d)
  BY <1>1, <1>2, <1>6 DEF Two
<1>7. ASSUME Two(q, e, d) PROVE Two(r, e, d)
  <2>1. PICK i \in 1 .. m, j \in 1 .. m : i # j /\ q[i] = e /\ q[j] = d
    BY <1>1, <1>7 DEF Two
  <2>2. /\ n + i \in DOMAIN r /\ n + j \in DOMAIN r /\ n + i # n + j
        /\ r[n + i] = e /\ r[n + j] = d
    BY <1>1, <1>3, <1>5, <2>1
  <2> QED
    BY <2>2 DEF Two
<1>8. ASSUME NEW i \in 1 .. n, NEW j \in 1 .. m
      PROVE  Two(r, p[i], q[j]) /\ Two(r, q[j], p[i])
  <2>1. /\ i \in DOMAIN r /\ n + j \in DOMAIN r /\ i # n + j
        /\ r[i] = p[i] /\ r[n + j] = q[j]
    BY <1>1, <1>2, <1>3
  <2> QED
    BY <2>1 DEF Two
<1>9. ASSUME Two(r, e, d)
      PROVE  \/ Two(p, e, d) \/ Two(q, e, d)
             \/ e \in ToSet(p) /\ d \in ToSet(q)
             \/ e \in ToSet(q) /\ d \in ToSet(p)
  <2>1. PICK i \in 1 .. n + m, j \in 1 .. n + m : i # j /\ r[i] = e /\ r[j] = d
    BY <1>1, <1>9 DEF Two
  <2>2. ASSUME NEW k \in 1 .. n + m
        PROVE  (k \in 1 .. n /\ r[k] = p[k])
                 \/ (k - n \in 1 .. m /\ r[k] = q[k - n])
    BY <1>1, <1>4
  <2>3. CASE i \in 1 .. n /\ r[i] = p[i] /\ j \in 1 .. n /\ r[j] = p[j]
    BY <1>1, <2>1, <2>3 DEF Two
  <2>4. CASE i - n \in 1 .. m /\ r[i] = q[i - n] /\ j - n \in 1 .. m /\ r[j] = q[j - n]
    <3>1. i - n # j - n
      BY <1>1, <2>1
    <3> QED
      BY <1>1, <2>1, <2>4, <3>1 DEF Two
  <2>5. CASE i \in 1 .. n /\ r[i] = p[i] /\ j - n \in 1 .. m /\ r[j] = q[j - n]
    BY <1>1, <2>1, <2>5 DEF ToSet
  <2>6. CASE i - n \in 1 .. m /\ r[i] = q[i - n] /\ j \in 1 .. n /\ r[j] = p[j]
    BY <1>1, <2>1, <2>6 DEF ToSet
  <2> QED
    BY <2>2, <2>3, <2>4, <2>5, <2>6
<1>10. ToSet(p) = {p[i] : i \in 1 .. n} /\ ToSet(q) = {q[i] : i \in 1 .. m}
  BY <1>1 DEF ToSet
<1> QED
  BY <1>6, <1>7, <1>8, <1>9, <1>10 DEF r

(* The first element and the others. *)
LEMMA TwoTail ==
  ASSUME NEW S, NEW q \in Seq(S), q # <<>>, NEW e, NEW d
  PROVE  Two(q, e, d) <=>
           \/ Two(Tail(q), e, d)
           \/ e = Head(q) /\ d \in ToSet(Tail(q))
           \/ d = Head(q) /\ e \in ToSet(Tail(q))
<1> DEFINE p == <<Head(q)>>
           r == Tail(q)
<1>1. p \in Seq(S) /\ r \in Seq(S) /\ q = p \o r
  OBVIOUS
<1>2. ToSet(p) = {Head(q)}
  BY ToSetSmall
<1>3. ~Two(p, e, d)
  <2>1. DOMAIN p = {1}
    OBVIOUS
  <2> HIDE DEF p
  <2> QED
    BY <2>1 DEF Two
<1> HIDE DEF p, r
<1>4. Two(p \o r, e, d) <=>
        \/ Two(p, e, d) \/ Two(r, e, d)
        \/ e \in ToSet(p) /\ d \in ToSet(r)
        \/ e \in ToSet(r) /\ d \in ToSet(p)
  BY <1>1, TwoConcat
<1>5. Two(q, e, d) <=> Two(p \o r, e, d)
  BY <1>1
<1> QED
  BY <1>2, <1>3, <1>4, <1>5 DEF r

-----------------------------------------------------------------------------
(* The objects to construct. *)

Item(class, e) == [class |-> class, entry |-> e]
TheACPIStates == [class |-> "ACPIStates"]

ItemsOf(class, section) == {Item(class, e) : e \in ToSet(cfg[section])}

EarlyItems ==
  ItemsOf("Immutable", "immutables") \cup {TheACPIStates}
    \cup ItemsOf("Logic", "power_sequencer") \cup ItemsOf("Input", "inputs")
LateItems == ItemsOf("Output", "outputs") \cup ItemsOf("Regulator", "regulators")
Listed == EarlyItems \cup LateItems

(* What an object hears and drives, and whether it can be constructed. *)
OnOf(e) == <<e.name, "On">>

ReadsOf(h) ==
  IF h.class = "ACPIStates" THEN AcpiReads
  ELSE IF h.class = "Logic" THEN h.entry.reads
  ELSE IF h.class = "Output" THEN {h.entry.signal}
  ELSE IF h.class = "Regulator" \/ (h.class = "Input" /\ Gated(h.entry))
    THEN {OnOf(h.entry)}
  ELSE {}

WritesOf(h) ==
  IF h.class = "ACPIStates" THEN AcpiDrives
  ELSE IF h.class = "Immutable" THEN {h.entry.signal}
  ELSE IF h.class = "Logic" THEN {h.entry.out}
  ELSE IF h.class = "Input"
    THEN {h.entry.signal}
           \cup IF Gated(h.entry) THEN {<<h.entry.name, "Enabled">>} ELSE {}
  ELSE IF h.class = "Output" THEN OutputSignals(h.entry)
  ELSE IF h.class = "Regulator" THEN RegulatorSignals(h.entry.name)
  ELSE {}

Logs(h) == h.class = "Output" /\ h.entry.type = "logging"
GatesOf(h) == IF Logs(h) THEN {OnOf(h.entry)} ELSE {}

(* The lines it requests, and those that it keeps. *)
Requests(h) == h.class \in {"Input", "Output"} /\ h.entry.type = "gpio"
Keeps(h) == Requests(h) /\ (h.class = "Input" => Holds(h.entry))

Possible(h) ==
  /\ h.class \in {"Input", "Output"} => ~Missing(h.entry)
  /\ h.class = "Regulator" =>
       "dummy" \in h.entry.options \/ Lives(h.entry) \/ MayBeMissing(h.entry)

-----------------------------------------------------------------------------
(* The invariant. *)

HeardSet == {w[1] : w \in listens}
DrivenSet == immutables \cup {w[1] : w \in drives}

Read == Configs \ unread
Merged(section) == UNION {ToSet(Content[f][section]) : f \in Read}
Entries(section) == UNION {ToSet(Content[f][section]) : f \in Files}

(* Two places of the files that have been read. *)
TwoRead(section, e, d) ==
  \E f, g \in Read :
    \E i \in DOMAIN Content[f][section], j \in DOMAIN Content[g][section] :
      /\ f # g \/ i # j
      /\ Content[f][section][i] = e /\ Content[g][section][j] = d

(* What has been read is merged, as often as it is listed, and nothing is
   constructed. *)
Gathered ==
  /\ \A s \in Sections : cfg[s] \in Seq(Entries(s)) /\ ToSet(cfg[s]) = Merged(s)
  /\ \A f \in Read : AcceptsFile(Content[f])
  /\ \A s \in Sections : \A e, d : Two(cfg[s], e, d) <=> TwoRead(s, e, d)

Loading ==
  /\ Gathered /\ todo = <<>>
  /\ signals = {} /\ immutables = {} /\ listens = {} /\ drives = {} /\ callbacks = {}
  /\ held = {}

(* Outputs and regulators come last, and each regulator once. *)
Distinct(q) == \A i, j \in DOMAIN q : q[i].name = q[j].name => i = j

LateLast(q) ==
  \A i, j \in DOMAIN q : i < j /\ q[i] \in LateItems => q[j] \in LateItems

RegulatorsDiffer(q) ==
  \A i, j \in DOMAIN q :
    q[i].class = "Regulator" /\ q[j].class = "Regulator"
      /\ q[i].entry.name = q[j].entry.name => i = j

Unregistered ==
  \A h \in ToSet(todo) : h.class = "Regulator" => h.entry.name \notin callbacks

Built(h) ==
  Possible(h) /\ ReadsOf(h) \subseteq HeardSet /\ WritesOf(h) \subseteq DrivenSet

(* A LogOutput that has been constructed hears its signal if it is driven. *)
Enabled(h) ==
  /\ ToSet(todo) \subseteq LateItems
  /\ OnOf(h.entry) \in DrivenSet =>
       <<OnOf(h.entry), <<"LogOutput", h.entry.name>>>> \in listens

Building ==
  /\ Gathered /\ unread = {} /\ Configs # {}
  /\ todo \in Seq(Listed) /\ LateLast(todo)
  /\ RegulatorsListedOnce => RegulatorsDiffer(todo) /\ Unregistered
  /\ \A h \in Listed : h \in ToSet(todo) \/ Built(h)
  /\ \A h \in Listed : Logs(h) => h \in ToSet(todo) \/ Enabled(h)
  /\ HeardSet \subseteq Reads \cup (Gates \cap Writes) /\ DrivenSet \subseteq Writes
  /\ signals = HeardSet \cup DrivenSet

(* Two objects are on their way to the same line. *)
Clash ==
  \/ \E g, h \in Listed :
        Keeps(g) /\ Keeps(h) /\ g.entry.name = h.entry.name /\ Two(todo, g, h)
  \/ \E h \in ToSet(todo) : Keeps(h) /\ h.entry.name \in held

Requesting ==
  /\ Clash <=> ~LinesHeldOnce
  /\ TestedOrHeld =>
       \A h \in ToSet(todo) : Requests(h) /\ ~Keeps(h) => h.entry.name \notin held

Inv ==
  /\ TypeOK
  /\ phase = "load" => Loading
  /\ phase \in {"construct", "run"} => Building /\ Requesting
  /\ phase = "run" => todo = <<>> /\ Valid
  /\ phase = "failed" => (Unambiguous => ~Sane)

-----------------------------------------------------------------------------
(* The list of objects to construct. *)

(* The sections by name. *)
LEMMA SectionsAre ==
  {"immutables", "power_sequencer", "inputs", "outputs", "regulators",
   "floating_signals"} = Sections
BY DEF Sections

(* The objects of a section, in the order of its entries. *)
LEMMA ToDoIs ==
  ASSUME NEW section, NEW S, cfg[section] \in Seq(S), NEW class
  PROVE  /\ ToDo(class, section) \in Seq(ItemsOf(class, section))
         /\ ToSet(ToDo(class, section)) = ItemsOf(class, section)
         /\ DOMAIN ToDo(class, section) = DOMAIN cfg[section]
         /\ \A i \in DOMAIN cfg[section] :
               ToDo(class, section)[i] = Item(class, cfg[section][i])
<1> DEFINE q == ToDo(class, section)
<1>1. DOMAIN cfg[section] = 1 .. Len(cfg[section]) /\ Len(cfg[section]) \in Nat
  OBVIOUS
<1>2. /\ DOMAIN q = DOMAIN cfg[section]
      /\ \A i \in DOMAIN q : q[i] = Item(class, cfg[section][i])
      /\ q = [i \in 1 .. Len(cfg[section]) |-> q[i]]
  BY <1>1 DEF ToDo, Item
<1> HIDE DEF q
<1>3. \A i \in DOMAIN q : q[i] \in ItemsOf(class, section)
  BY <1>2 DEF ItemsOf, ToSet
<1>4. q \in Seq(ItemsOf(class, section))
  <2> DEFINE n == Len(cfg[section])
             T == ItemsOf(class, section)
  <2>1. n \in Nat /\ q = [i \in 1 .. n |-> q[i]] /\ \A i \in 1 .. n : q[i] \in T
    BY <1>1, <1>2, <1>3
  <2> HIDE DEF n, T
  <2>2. [i \in 1 .. n |-> q[i]] \in Seq(T)
    BY <2>1
  <2> QED
    BY <2>1, <2>2 DEF T
<1>5. ToSet(q) = ItemsOf(class, section)
  <2>1. ToSet(q) = {Item(class, cfg[section][i]) : i \in DOMAIN cfg[section]}
    BY <1>2 DEF ToSet
  <2> QED
    BY <2>1 DEF ItemsOf, ToSet
<1> QED
  BY <1>2, <1>4, <1>5 DEF q

(* The positions of two lists, one behind the other. *)
LEMMA Positions ==
  ASSUME NEW S, NEW p \in Seq(S), NEW q \in Seq(S), NEW i \in DOMAIN (p \o q)
  PROVE  \/ i \in DOMAIN p /\ (p \o q)[i] = p[i] /\ i <= Len(p)
         \/ /\ i - Len(p) \in DOMAIN q /\ (p \o q)[i] = q[i - Len(p)]
            /\ i > Len(p) /\ i \in Nat
  OBVIOUS

(* Two objects of a section are two of its entries. *)
LEMMA ToDoTwo ==
  ASSUME NEW section, NEW S, cfg[section] \in Seq(S), NEW class, NEW g, NEW h
  PROVE  Two(ToDo(class, section), g, h) <=>
           \E e, d : g = Item(class, e) /\ h = Item(class, d) /\ Two(cfg[section], e, d)
<1> DEFINE p == cfg[section]
           q == ToDo(class, section)
<1>1. DOMAIN q = DOMAIN p /\ \A i \in DOMAIN p : q[i] = Item(class, p[i])
  BY ToDoIs
<1>2. \A e, d : Item(class, e) = Item(class, d) => e = d
  <2>1. \A e : Item(class, e).entry = e
    BY DEF Item
  <2> QED
    BY <2>1
<1> HIDE DEF p, q
<1>3. ASSUME Two(q, g, h)
      PROVE  \E e, d : g = Item(class, e) /\ h = Item(class, d) /\ Two(p, e, d)
  <2>1. PICK i \in DOMAIN q, j \in DOMAIN q : i # j /\ q[i] = g /\ q[j] = h
    BY <1>3 DEF Two
  <2>2. /\ g = Item(class, p[i]) /\ h = Item(class, p[j])
        /\ Two(p, p[i], p[j])
    BY <1>1, <2>1 DEF Two
  <2> QED
    BY <2>2
<1>4. ASSUME NEW e, NEW d, g = Item(class, e), h = Item(class, d), Two(p, e, d)
      PROVE  Two(q, g, h)
  BY <1>1, <1>4 DEF Two
<1> QED
  BY <1>3, <1>4 DEF p, q

(* Late objects behind a list that is in order. *)
LEMMA LateConcat ==
  ASSUME NEW S, NEW p \in Seq(S), NEW q \in Seq(S),
         LateLast(p), ToSet(q) \subseteq LateItems
  PROVE  LateLast(p \o q)
<1> SUFFICES ASSUME NEW i \in DOMAIN (p \o q), NEW j \in DOMAIN (p \o q),
                    i < j, (p \o q)[i] \in LateItems
             PROVE  (p \o q)[j] \in LateItems
  BY DEF LateLast
<1>1. \A k \in DOMAIN q : q[k] \in LateItems
  BY DEF ToSet
<1>2. Len(p) \in Nat /\ DOMAIN (p \o q) \subseteq Nat
  OBVIOUS
<1>3. CASE j \in DOMAIN p /\ (p \o q)[j] = p[j] /\ j <= Len(p)
  <2>1. i \in DOMAIN p /\ (p \o q)[i] = p[i]
    <3>1. ~(i > Len(p))
      BY <1>2, <1>3
    <3> QED
      BY <3>1, Positions
  <2> QED
    BY <1>3, <2>1 DEF LateLast
<1>4. CASE j - Len(p) \in DOMAIN q /\ (p \o q)[j] = q[j - Len(p)]
  BY <1>1, <1>4
<1> QED
  BY <1>3, <1>4, Positions

(* The regulators behind a list that has none. *)
LEMMA RegulatorsConcat ==
  ASSUME NEW S, NEW p \in Seq(S), NEW q \in Seq(S),
         \A h \in ToSet(p) : h.class # "Regulator", RegulatorsDiffer(q)
  PROVE  RegulatorsDiffer(p \o q)
<1> DEFINE r == p \o q
<1> SUFFICES ASSUME NEW i \in DOMAIN r, NEW j \in DOMAIN r,
                    r[i].class = "Regulator", r[j].class = "Regulator",
                    r[i].entry.name = r[j].entry.name
             PROVE  i = j
  BY DEF RegulatorsDiffer
<1>1. \A k \in DOMAIN p : p[k].class # "Regulator"
  BY DEF ToSet
<1>2. ASSUME NEW k \in DOMAIN r, r[k].class = "Regulator"
      PROVE  k - Len(p) \in DOMAIN q /\ r[k] = q[k - Len(p)] /\ k \in Nat
  <2>1. \/ k \in DOMAIN p /\ r[k] = p[k]
        \/ k - Len(p) \in DOMAIN q /\ r[k] = q[k - Len(p)] /\ k \in Nat
    BY Positions
  <2> HIDE DEF r
  <2> QED
    BY <1>1, <1>2, <2>1
<1>3. Len(p) \in Nat
  OBVIOUS
<1> HIDE DEF r
<1>4. i - Len(p) = j - Len(p)
  BY <1>2 DEF RegulatorsDiffer
<1> QED
  BY <1>2, <1>3, <1>4

(* The kinds of objects. *)
LEMMA Kinds ==
  /\ \A h \in EarlyItems :
        h.class \in {"Immutable", "ACPIStates", "Logic", "Input"}
  /\ \A h \in LateItems : h.class \in {"Output", "Regulator"}
  /\ \A h \in EarlyItems : h \notin LateItems
<1>1. \A c, e : Item(c, e).class = c
  BY DEF Item
<1>2. TheACPIStates.class = "ACPIStates"
  BY DEF TheACPIStates
<1>3. \A c, s : \A h \in ItemsOf(c, s) : h.class = c
  BY <1>1 DEF ItemsOf
<1>4. /\ \A h \in EarlyItems :
            h.class \in {"Immutable", "ACPIStates", "Logic", "Input"}
      /\ \A h \in LateItems : h.class \in {"Output", "Regulator"}
  BY <1>2, <1>3 DEF EarlyItems, LateItems
<1> QED
  BY <1>4

(* The order of construction: everything that is listed, outputs and regulators
   last, each regulator once if it is listed once. *)
LEMMA OrderIs ==
  ASSUME \A s \in Sections : cfg[s] \in Seq(Entries(s))
  PROVE  /\ Order \in Seq(Listed) /\ ToSet(Order) = Listed /\ LateLast(Order)
         /\ Distinct(cfg.regulators) => RegulatorsDiffer(Order)
<1> DEFINE im == ToDo("Immutable", "immutables")
           lo == ToDo("Logic", "power_sequencer")
           in == ToDo("Input", "inputs")
           ou == ToDo("Output", "outputs")
           re == ToDo("Regulator", "regulators")
           ac == <<TheACPIStates>>
<1>1. /\ im \in Seq(Listed) /\ ToSet(im) = ItemsOf("Immutable", "immutables")
      /\ lo \in Seq(Listed) /\ ToSet(lo) = ItemsOf("Logic", "power_sequencer")
      /\ in \in Seq(Listed) /\ ToSet(in) = ItemsOf("Input", "inputs")
      /\ ou \in Seq(Listed) /\ ToSet(ou) = ItemsOf("Output", "outputs")
      /\ re \in Seq(Listed) /\ ToSet(re) = ItemsOf("Regulator", "regulators")
  <2>1. ASSUME NEW c, NEW s \in Sections, ItemsOf(c, s) \subseteq Listed
        PROVE  ToDo(c, s) \in Seq(Listed) /\ ToSet(ToDo(c, s)) = ItemsOf(c, s)
    <3>1. ToDo(c, s) \in Seq(ItemsOf(c, s)) /\ ToSet(ToDo(c, s)) = ItemsOf(c, s)
      BY ToDoIs
    <3>2. ToDo(c, s) \in Seq(Listed)
      BY <2>1, <3>1, SeqMonotonic
    <3> QED
      BY <3>1, <3>2
  <2>2. {"immutables", "power_sequencer", "inputs", "outputs", "regulators"}
          \subseteq Sections
    BY DEF Sections
  <2>3. /\ ItemsOf("Immutable", "immutables") \subseteq Listed
        /\ ItemsOf("Logic", "power_sequencer") \subseteq Listed
        /\ ItemsOf("Input", "inputs") \subseteq Listed
        /\ ItemsOf("Output", "outputs") \subseteq Listed
        /\ ItemsOf("Regulator", "regulators") \subseteq Listed
    BY DEF Listed, EarlyItems, LateItems
  <2> QED
    BY <2>1, <2>2, <2>3
<1>2. ac \in Seq(Listed) /\ ToSet(ac) = {TheACPIStates}
  <2>1. TheACPIStates \in Listed
    BY DEF Listed, EarlyItems
  <2>2. <<TheACPIStates>> \in Seq(Listed)
    BY <2>1
  <2> QED
    BY <2>2, ToSetSmall
<1>3. \A i, j \in DOMAIN re :
        Distinct(cfg.regulators) /\ re[i].entry.name = re[j].entry.name => i = j
  <2>1. "regulators" \in Sections
    BY DEF Sections
  <2>2. DOMAIN re = DOMAIN cfg.regulators
        /\ \A i \in DOMAIN re : re[i] = Item("Regulator", cfg.regulators[i])
    BY <2>1, ToDoIs
  <2>3. \A e : Item("Regulator", e).entry = e
    BY DEF Item
  <2> HIDE DEF re
  <2> QED
    BY <2>2, <2>3 DEF Distinct
<1>4. Order = (((((im \o ac) \o lo) \o in) \o ou) \o re)
  BY DEF Order, TheACPIStates
<1> HIDE DEF im, lo, in, ou, re, ac
<1> DEFINE a == im \o ac
           b == a \o lo
           c == b \o in
           d == c \o ou
<1>5. a \in Seq(Listed) /\ ToSet(a) = ToSet(im) \cup {TheACPIStates}
  BY <1>1, <1>2, ToSetConcat
<1> HIDE DEF a
<1>6. b \in Seq(Listed) /\ ToSet(b) = ToSet(a) \cup ToSet(lo)
  BY <1>1, <1>5, ToSetConcat
<1> HIDE DEF b
<1>7. c \in Seq(Listed) /\ ToSet(c) = ToSet(b) \cup ToSet(in)
  BY <1>1, <1>6, ToSetConcat
<1> HIDE DEF c
<1>8. d \in Seq(Listed) /\ ToSet(d) = ToSet(c) \cup ToSet(ou)
  BY <1>1, <1>7, ToSetConcat
<1> HIDE DEF d
<1>9. Order = d \o re /\ Order \in Seq(Listed) /\ ToSet(Order) = ToSet(d) \cup ToSet(re)
  <2>1. Order = d \o re
    BY <1>4 DEF a, b, c, d
  <2>2. d \o re \in Seq(Listed) /\ ToSet(d \o re) = ToSet(d) \cup ToSet(re)
    BY <1>1, <1>8, ToSetConcat
  <2> QED
    BY <2>1, <2>2
<1>10. ToSet(c) = EarlyItems
  BY <1>1, <1>5, <1>6, <1>7 DEF EarlyItems
<1>11. ToSet(Order) = Listed
  BY <1>1, <1>8, <1>9, <1>10 DEF Listed, LateItems
<1>12. LateLast(Order)
  <2>1. LateLast(c)
    BY <1>10, Kinds DEF LateLast, ToSet
  <2>2. LateLast(d)
    BY <1>1, <1>7, <2>1, LateConcat DEF LateItems, d
  <2> QED
    BY <1>1, <1>8, <1>9, <2>2, LateConcat DEF LateItems
<1>13. Distinct(cfg.regulators) => RegulatorsDiffer(Order)
  <2> SUFFICES ASSUME Distinct(cfg.regulators) PROVE RegulatorsDiffer(Order)
    OBVIOUS
  <2>1. RegulatorsDiffer(re)
    BY <1>3 DEF RegulatorsDiffer
  <2>2. \A h \in ToSet(ou) : h.class # "Regulator"
    BY <1>1 DEF ItemsOf, Item
  <2>3. \A h \in ToSet(d) : h.class # "Regulator"
    BY <1>8, <1>10, <2>2, Kinds
  <2> QED
    BY <1>1, <1>8, <1>9, <2>1, <2>3, RegulatorsConcat
<1> QED
  BY <1>9, <1>11, <1>12, <1>13

(* Two inputs or outputs that are to be constructed. *)
LEMMA OrderTwo ==
  ASSUME \A s \in Sections : cfg[s] \in Seq(Entries(s)),
         NEW g, NEW h, {g.class, h.class} \subseteq {"Input", "Output"}
  PROVE  Two(Order, g, h) <=>
           \/ Two(ToDo("Input", "inputs"), g, h)
           \/ Two(ToDo("Output", "outputs"), g, h)
           \/ g \in ItemsOf("Input", "inputs") /\ h \in ItemsOf("Output", "outputs")
           \/ g \in ItemsOf("Output", "outputs") /\ h \in ItemsOf("Input", "inputs")
<1> DEFINE im == ToDo("Immutable", "immutables")
           lo == ToDo("Logic", "power_sequencer")
           in == ToDo("Input", "inputs")
           ou == ToDo("Output", "outputs")
           re == ToDo("Regulator", "regulators")
           ac == <<TheACPIStates>>
           S == Listed
<1>1. ASSUME NEW c, NEW s \in Sections, ItemsOf(c, s) \subseteq S
      PROVE  /\ ToDo(c, s) \in Seq(S) /\ ToSet(ToDo(c, s)) = ItemsOf(c, s)
             /\ \A k \in ToSet(ToDo(c, s)) : k.class = c
  <2>1. ToDo(c, s) \in Seq(ItemsOf(c, s)) /\ ToSet(ToDo(c, s)) = ItemsOf(c, s)
    BY ToDoIs
  <2>2. ToDo(c, s) \in Seq(S)
    BY <1>1, <2>1, SeqMonotonic
  <2>3. \A k \in ItemsOf(c, s) : k.class = c
    BY DEF ItemsOf, Item
  <2> QED
    BY <2>1, <2>2, <2>3
<1>2. /\ ItemsOf("Immutable", "immutables") \subseteq S
      /\ ItemsOf("Logic", "power_sequencer") \subseteq S
      /\ ItemsOf("Input", "inputs") \subseteq S
      /\ ItemsOf("Output", "outputs") \subseteq S
      /\ ItemsOf("Regulator", "regulators") \subseteq S
  BY DEF Listed, EarlyItems, LateItems
<1>3. /\ im \in Seq(S) /\ \A k \in ToSet(im) : k.class = "Immutable"
      /\ lo \in Seq(S) /\ \A k \in ToSet(lo) : k.class = "Logic"
      /\ in \in Seq(S) /\ \A k \in ToSet(in) : k.class = "Input"
      /\ ou \in Seq(S) /\ \A k \in ToSet(ou) : k.class = "Output"
      /\ re \in Seq(S) /\ \A k \in ToSet(re) : k.class = "Regulator"
      /\ ToSet(in) = ItemsOf("Input", "inputs")
      /\ ToSet(ou) = ItemsOf("Output", "outputs")
  BY <1>1, <1>2, SectionsAre
<1>4. ac \in Seq(S) /\ \A k \in ToSet(ac) : k.class = "ACPIStates"
  <2>1. TheACPIStates \in S /\ TheACPIStates.class = "ACPIStates"
    BY DEF Listed, EarlyItems, TheACPIStates
  <2>2. <<TheACPIStates>> \in Seq(S)
    BY <2>1
  <2>3. ToSet(ac) = {TheACPIStates}
    BY ToSetSmall
  <2> QED
    BY <2>1, <2>2, <2>3
<1>5. Order = (((((im \o ac) \o lo) \o in) \o ou) \o re)
  BY DEF Order, TheACPIStates
<1>6. \A q : Two(q, g, h) => g \in ToSet(q) /\ h \in ToSet(q)
  BY DEF Two, ToSet
<1> HIDE DEF im, lo, in, ou, re, ac, S
<1> DEFINE a == im \o ac
           b == a \o lo
           c == b \o in
           d == c \o ou
<1>7. a \in Seq(S) /\ ToSet(a) = ToSet(im) \cup ToSet(ac)
  BY <1>3, <1>4, ToSetConcat
<1> HIDE DEF a
<1>8. b \in Seq(S) /\ ToSet(b) = ToSet(a) \cup ToSet(lo)
  BY <1>3, <1>7, ToSetConcat
<1> HIDE DEF b
<1>9. g \notin ToSet(b) /\ h \notin ToSet(b)
  BY <1>3, <1>4, <1>7, <1>8
<1>10. c \in Seq(S) /\ ToSet(c) = ToSet(b) \cup ToSet(in)
       /\ (Two(c, g, h) <=> Two(in, g, h))
  BY <1>3, <1>6, <1>8, <1>9, ToSetConcat, TwoConcat
<1> HIDE DEF c
<1>11. d \in Seq(S)
       /\ (Two(d, g, h) <=>
             \/ Two(in, g, h) \/ Two(ou, g, h)
             \/ g \in ToSet(in) /\ h \in ToSet(ou)
             \/ g \in ToSet(ou) /\ h \in ToSet(in))
  BY <1>3, <1>9, <1>10, TwoConcat
<1> HIDE DEF d
<1>12. g \notin ToSet(re) /\ h \notin ToSet(re)
  BY <1>3
<1>13. Two(d \o re, g, h) <=> Two(d, g, h)
  BY <1>3, <1>6, <1>11, <1>12, TwoConcat
<1>14. Order = d \o re
  BY <1>5 DEF a, b, c, d
<1> QED
  BY <1>3, <1>11, <1>13, <1>14 DEF in, ou

-----------------------------------------------------------------------------
(* The constructors. *)

(* What a constructor adds that hears `reads' and drives `writes'. *)
Adds(reads, writes) ==
  /\ HeardSet' = HeardSet \cup reads
  /\ DrivenSet' = DrivenSet \cup writes
  /\ signals' = signals \cup reads \cup writes

(* Wire adds what its object reads and writes. *)
LEMMA WireAdds ==
  ASSUME NEW me, NEW reads, NEW writes, Wire(me, reads, writes), immutables' = immutables
  PROVE  /\ Adds(reads, writes) /\ listens \subseteq listens'
         /\ \A s \in reads : <<s, me>> \in listens'
<1>1. /\ signals' = signals \cup reads \cup writes
      /\ listens' = listens \cup {<<s, me>> : s \in reads}
      /\ drives' = drives \cup {<<s, me>> : s \in writes}
  BY DEF Wire
<1>2. \A s : <<s, me>>[1] = s
  OBVIOUS
<1>3. HeardSet' = HeardSet \cup reads
  <2>1. {w[1] : w \in listens'} = {w[1] : w \in listens} \cup reads
    BY <1>1, <1>2
  <2> QED
    BY <2>1 DEF HeardSet
<1>4. DrivenSet' = DrivenSet \cup writes
  <2>1. {w[1] : w \in drives'} = {w[1] : w \in drives} \cup writes
    BY <1>1, <1>2
  <2> QED
    BY <2>1 DEF DrivenSet
<1> QED
  BY <1>1, <1>3, <1>4 DEF Adds

(* An object is constructed. *)
Succeeds(h) ==
  /\ todo' = Tail(todo) /\ UNCHANGED <<phase, directory, unread, cfg>>
  /\ Possible(h)
  /\ Adds(ReadsOf(h) \cup (GatesOf(h) \cap signals), WritesOf(h))
  /\ listens \subseteq listens'
  /\ Logs(h) /\ OnOf(h.entry) \in signals =>
       <<OnOf(h.entry), <<"LogOutput", h.entry.name>>>> \in listens'
  /\ callbacks' \subseteq callbacks
                   \cup IF h.class = "Regulator" THEN {h.entry.name} ELSE {}

(* And it has requested its line. *)
Claims(h) ==
  /\ Requests(h) => h.entry.name \notin held
  /\ held' = held \cup IF Keeps(h) THEN {h.entry.name} ELSE {}

(* Or it cannot be, or it is a regulator that is there already, or its line is
   held. *)
Fails(h) ==
  /\ phase' = "failed" /\ UNCHANGED <<directory, unread, cfg, todo, wiring>>
  /\ Possible(h) => \/ h.class = "Regulator" /\ h.entry.name \in callbacks
                    \/ Requests(h) /\ h.entry.name \in held

(* A constant drives its signal and hears none. *)
LEMMA ImmutableSucceeds ==
  ASSUME ConstructImmutable
  PROVE  Succeeds(Head(todo))
<1> DEFINE h == Head(todo)
<1>1. /\ h.class = "Immutable" /\ Entry = h.entry
      /\ signals' = signals \cup {h.entry.signal}
      /\ immutables' = immutables \cup {h.entry.signal}
      /\ UNCHANGED <<listens, drives, callbacks>> /\ Done
  BY DEF ConstructImmutable, Next_, Entry
<1> HIDE DEF h
<1>2. /\ ReadsOf(h) = {} /\ GatesOf(h) = {} /\ WritesOf(h) = {h.entry.signal}
      /\ Possible(h) /\ ~Logs(h)
  BY <1>1 DEF ReadsOf, GatesOf, WritesOf, Possible, Logs
<1>3. HeardSet' = HeardSet /\ DrivenSet' = DrivenSet \cup {h.entry.signal}
  BY <1>1 DEF HeardSet, DrivenSet
<1>4. Adds({}, {h.entry.signal})
  BY <1>1, <1>3 DEF Adds
<1>5. {} \cup ({} \cap signals) = {}
  OBVIOUS
<1> QED
  BY <1>1, <1>2, <1>4, <1>5 DEF Succeeds, Done, h

(* The others wire their signals. *)
LEMMA WiredSucceeds ==
  ASSUME NEW h, h = Head(todo), Possible(h), Done, NEW me,
         Wire(me, ReadsOf(h) \cup (GatesOf(h) \cap signals), WritesOf(h)),
         Logs(h) => me = <<"LogOutput", h.entry.name>>,
         immutables' = immutables,
         callbacks' \subseteq callbacks
                      \cup IF h.class = "Regulator" THEN {h.entry.name} ELSE {}
  PROVE  Succeeds(h)
<1> DEFINE reads == ReadsOf(h) \cup (GatesOf(h) \cap signals)
<1>1. Logs(h) /\ OnOf(h.entry) \in signals => OnOf(h.entry) \in reads
  BY DEF GatesOf
<1> HIDE DEF reads
<1>2. /\ Adds(reads, WritesOf(h)) /\ listens \subseteq listens'
      /\ \A s \in reads : <<s, me>> \in listens'
  BY WireAdds DEF reads
<1>3. Logs(h) /\ OnOf(h.entry) \in signals =>
        <<OnOf(h.entry), <<"LogOutput", h.entry.name>>>> \in listens'
  BY <1>1, <1>2
<1> QED
  BY <1>2, <1>3 DEF Succeeds, Done, reads

(* The objects that have found what they need. *)
LEMMA ObjectSucceeds ==
  ASSUME ConstructACPIStates \/ ConstructLogic \/ ConstructInput \/ ConstructOutput
           \/ ConstructLogOutput
  PROVE  Succeeds(Head(todo))
<1> DEFINE h == Head(todo)
<1>1. Entry = h.entry /\ Entry.name = h.entry.name
  BY DEF Entry
<1>2. CASE ConstructACPIStates
  <2>1. /\ h.class = "ACPIStates" /\ Wire(<<"ACPIStates", "">>, AcpiReads, AcpiDrives)
        /\ Done /\ UNCHANGED <<immutables, callbacks>>
    BY <1>2 DEF ConstructACPIStates, Next_
  <2> HIDE DEF h
  <2>2. /\ ReadsOf(h) \cup (GatesOf(h) \cap signals) = AcpiReads
        /\ WritesOf(h) = AcpiDrives /\ Possible(h) /\ ~Logs(h)
    BY <2>1 DEF ReadsOf, GatesOf, WritesOf, Possible, Logs
  <2> QED
    BY <2>1, <2>2, WiredSucceeds DEF h
<1>3. CASE ConstructLogic
  <2>1. /\ h.class = "Logic"
        /\ Wire(<<"Logic", h.entry.out>>, h.entry.reads, {h.entry.out})
        /\ Done /\ UNCHANGED <<immutables, callbacks>>
    BY <1>1, <1>3 DEF ConstructLogic, Next_
  <2> HIDE DEF h
  <2>2. /\ ReadsOf(h) \cup (GatesOf(h) \cap signals) = h.entry.reads
        /\ WritesOf(h) = {h.entry.out} /\ Possible(h) /\ ~Logs(h)
    BY <2>1 DEF ReadsOf, GatesOf, WritesOf, Possible, Logs
  <2> QED
    BY <2>1, <2>2, WiredSucceeds DEF h
<1>4. CASE ConstructInput
  <2> DEFINE e == h.entry
             gate == IF Gated(e) THEN {"On"} ELSE {}
             own == IF Gated(e) THEN {"Enabled"} ELSE {}
  <2>1. /\ h.class = "Input" /\ ~Missing(e)
        /\ Wire(<<"Input", e.name>>, {<<e.name, x>> : x \in gate},
                {e.signal} \cup {<<e.name, x>> : x \in own})
        /\ Done /\ UNCHANGED <<immutables, callbacks>>
    BY <1>1, <1>4 DEF ConstructInput, Next_
  <2>2. /\ {<<e.name, x>> : x \in gate} = IF Gated(e) THEN {<<e.name, "On">>} ELSE {}
        /\ {<<e.name, x>> : x \in own}
             = IF Gated(e) THEN {<<e.name, "Enabled">>} ELSE {}
    OBVIOUS
  <2> HIDE DEF h, gate, own
  <2>3. /\ ReadsOf(h) \cup (GatesOf(h) \cap signals) = {<<e.name, x>> : x \in gate}
        /\ WritesOf(h) = {e.signal} \cup {<<e.name, x>> : x \in own}
        /\ Possible(h) /\ ~Logs(h)
    BY <2>1, <2>2 DEF ReadsOf, GatesOf, WritesOf, Possible, Logs, OnOf
  <2> QED
    BY <2>1, <2>3, WiredSucceeds DEF h
<1>5. CASE ConstructOutput
  <2>1. /\ h.class = "Output" /\ h.entry.type # "logging" /\ ~Missing(h.entry)
        /\ Wire(<<"Output", h.entry.name>>, {h.entry.signal}, OutputSignals(h.entry))
        /\ Done /\ UNCHANGED <<immutables, callbacks>>
    BY <1>1, <1>5 DEF ConstructOutput, Next_
  <2> HIDE DEF h
  <2>2. /\ ReadsOf(h) \cup (GatesOf(h) \cap signals) = {h.entry.signal}
        /\ WritesOf(h) = OutputSignals(h.entry) /\ Possible(h) /\ ~Logs(h)
    BY <2>1 DEF ReadsOf, GatesOf, WritesOf, Possible, Logs
  <2> QED
    BY <2>1, <2>2, WiredSucceeds DEF h
<1>6. CASE ConstructLogOutput
  <2>1. /\ h.class = "Output" /\ h.entry.type = "logging"
        /\ Wire(<<"LogOutput", h.entry.name>>,
                {h.entry.signal} \cup ({<<h.entry.name, "On">>} \cap signals), {})
        /\ Done /\ UNCHANGED <<immutables, callbacks>>
    BY <1>1, <1>6 DEF ConstructLogOutput, Next_
  <2> HIDE DEF h
  <2>2. /\ ReadsOf(h) = {h.entry.signal} /\ GatesOf(h) = {<<h.entry.name, "On">>}
        /\ WritesOf(h) = {} /\ Possible(h)
    BY <2>1 DEF ReadsOf, GatesOf, WritesOf, Possible, Logs, OnOf, OutputSignals, Missing
  <2> QED
    BY <2>1, <2>2, WiredSucceeds DEF h
<1> QED
  BY <1>2, <1>3, <1>4, <1>5, <1>6

(* A regulator is constructed, or a dummy in its place, whether the constructor
   that has thrown has left its receiver behind or not. *)
LEMMA RegulatorSucceeds ==
  ASSUME ConstructRegulator \/ ConstructDummy \/ ReplaceRegulator
  PROVE  Succeeds(Head(todo))
<1> DEFINE h == Head(todo)
           n == h.entry.name
<1>1. Entry = h.entry /\ Entry.name = n /\ h.class = "Regulator" /\ Done
  BY DEF Entry, ConstructRegulator, ConstructDummy, ReplaceRegulator, Next_
<1>2. /\ RegulatorSignals(n) = WritesOf(h)
      /\ {<<n, "On">>} = ReadsOf(h) \cup (GatesOf(h) \cap signals)
      /\ ~Logs(h)
  <2> HIDE DEF h
  <2>1. h.class = "Regulator"
    BY <1>1
  <2> QED
    BY <2>1 DEF WritesOf, ReadsOf, GatesOf, Logs, OnOf
<1>3. CASE ConstructRegulator
  <2>1. /\ Possible(h) /\ Wire(<<"VoltageRegulator", n>>, {<<n, "On">>}, RegulatorSignals(n))
        /\ immutables' = immutables /\ callbacks' = callbacks \cup {n}
    BY <1>1, <1>3
       DEF ConstructRegulator, WireRegulator, Possible, Lives, Registers
  <2> HIDE DEF h
  <2> QED
    BY <1>1, <1>2, <2>1, WiredSucceeds DEF h
<1>4. CASE ConstructDummy
  <2>1. /\ Possible(h)
        /\ Wire(<<"NullVoltageRegulator", n>>, {<<n, "On">>}, RegulatorSignals(n))
        /\ UNCHANGED <<immutables, callbacks>>
    BY <1>1, <1>4 DEF ConstructDummy, WireRegulator, Possible
  <2> HIDE DEF h
  <2> QED
    BY <1>1, <1>2, <2>1, WiredSucceeds DEF h
<1>5. CASE ReplaceRegulator
  <2> DEFINE me == <<"NullVoltageRegulator", n>>
             on == <<n, "On">>
  <2>1. /\ Possible(h) /\ UNCHANGED <<immutables, callbacks>>
        /\ signals' = signals \cup RegulatorSignals(n) \cup {on}
        /\ listens' = listens \cup LeftBehind(n) \cup {<<on, me>>}
        /\ drives' = drives \cup {<<s, me>> : s \in RegulatorSignals(n)}
    BY <1>1, <1>5 DEF ReplaceRegulator, Possible
  <2>2. \A w \in LeftBehind(n) \cup {<<on, me>>} : w[1] = on
    BY DEF LeftBehind
  <2> HIDE DEF h, me, on
  <2>3. HeardSet' = HeardSet \cup {on}
    <3>1. <<on, me>>[1] = on
      OBVIOUS
    <3>2. {w[1] : w \in listens'} = {w[1] : w \in listens} \cup {on}
      BY <2>1, <2>2, <3>1
    <3> QED
      BY <3>2 DEF HeardSet
  <2>4. DrivenSet' = DrivenSet \cup RegulatorSignals(n)
    <3>1. \A s : <<s, me>>[1] = s
      OBVIOUS
    <3>2. {w[1] : w \in {<<s, me>> : s \in RegulatorSignals(n)}} = RegulatorSignals(n)
      BY <3>1
    <3>3. {w[1] : w \in drives'} = {w[1] : w \in drives} \cup RegulatorSignals(n)
      BY <2>1, <3>2
    <3> QED
      BY <2>1, <3>3 DEF DrivenSet
  <2>5. Adds({on}, RegulatorSignals(n))
    BY <2>1, <2>3, <2>4 DEF Adds
  <2>6. listens \subseteq listens'
    BY <2>1
  <2> QED
    BY <1>1, <1>2, <2>1, <2>5, <2>6 DEF Succeeds, Done, h, on
<1> QED
  BY <1>3, <1>4, <1>5

(* Whoever succeeds holds its line from now on, unless it has only tested it. *)
LEMMA LinesAreClaimed ==
  ASSUME Construct
  PROVE  Claims(Head(todo)) \/ Fails(Head(todo))
<1> DEFINE h == Head(todo)
<1>1. Entry = h.entry
  BY DEF Entry
<1>2. CASE ConstructInput
  <2>1. /\ h.class = "Input" /\ ~Busy(h.entry)
        /\ held' = IF Holds(h.entry) THEN held \cup {h.entry.name} ELSE held
    BY <1>1, <1>2 DEF ConstructInput, Next_
  <2> HIDE DEF h
  <2>2. Keeps(h) <=> Holds(h.entry)
    BY <2>1 DEF Keeps, Requests, Holds
  <2> QED
    BY <2>1, <2>2 DEF Claims, Requests, Busy, h
<1>3. CASE ConstructOutput
  <2>1. /\ h.class = "Output" /\ ~Busy(h.entry)
        /\ held' = IF h.entry.type = "gpio" THEN held \cup {h.entry.name} ELSE held
    BY <1>1, <1>3 DEF ConstructOutput, Next_
  <2> HIDE DEF h
  <2>2. (Keeps(h) <=> h.entry.type = "gpio") /\ (Requests(h) <=> h.entry.type = "gpio")
    BY <2>1 DEF Keeps, Requests
  <2> QED
    BY <2>1, <2>2 DEF Claims, Busy, h
<1>4. CASE FailDriver
  BY <1>4 DEF FailDriver, Next_, Entry, Throw, Fails, Possible, Requests, Busy
<1>5. CASE FailRegulator
  BY <1>5 DEF FailRegulator, Next_, Entry, Throw, Fails, Possible, Lives, Registers
<1>6. ASSUME ~Requests(h), held' = held PROVE Claims(h)
  BY <1>6 DEF Claims, Keeps
<1>7. CASE ConstructImmutable \/ ConstructACPIStates \/ ConstructLogic
  <2>1. h.class \in {"Immutable", "ACPIStates", "Logic"} /\ held' = held
    BY <1>7 DEF ConstructImmutable, ConstructACPIStates, ConstructLogic, Next_
  <2>2. ~Requests(h)
    BY <2>1 DEF Requests
  <2> QED
    BY <1>6, <2>1, <2>2
<1>8. CASE ConstructLogOutput
  <2>1. h.entry.type = "logging" /\ held' = held
    BY <1>1, <1>8 DEF ConstructLogOutput
  <2>2. ~Requests(h)
    BY <2>1 DEF Requests
  <2> QED
    BY <1>6, <2>1, <2>2
<1>9. CASE ConstructRegulator \/ ConstructDummy \/ ReplaceRegulator
  <2>1. h.class = "Regulator" /\ held' = held
    BY <1>9 DEF ConstructRegulator, ConstructDummy, ReplaceRegulator, Next_
  <2>2. ~Requests(h)
    BY <2>1 DEF Requests
  <2> QED
    BY <1>6, <2>1, <2>2
<1> QED
  BY <1>2, <1>3, <1>4, <1>5, <1>7, <1>8, <1>9 DEF Construct

(* Every constructor succeeds or fails, and fails for a reason. *)
LEMMA Constructs ==
  ASSUME Construct
  PROVE  /\ phase = "construct" /\ todo # <<>>
         /\ Succeeds(Head(todo)) \/ Fails(Head(todo))
         /\ Claims(Head(todo)) \/ Fails(Head(todo))
<1>1. phase = "construct" /\ todo # <<>>
  BY DEF Construct, Next_, ConstructImmutable, ConstructACPIStates, ConstructLogic,
         ConstructInput, ConstructOutput, ConstructLogOutput, FailDriver,
         ConstructRegulator, ConstructDummy, ReplaceRegulator, FailRegulator
<1>2. CASE FailDriver
  BY <1>2 DEF FailDriver, Next_, Entry, Throw, Fails, Possible, Requests, Busy
<1>3. CASE FailRegulator
  BY <1>3 DEF FailRegulator, Next_, Entry, Throw, Fails, Possible, Lives, Registers
<1> QED
  BY <1>1, <1>2, <1>3, ImmutableSucceeds, ObjectSucceeds, RegulatorSucceeds,
     LinesAreClaimed DEF Construct

-----------------------------------------------------------------------------
(* The types. *)

Classes == {"ACPIStates", "Logic", "Input", "Output", "LogOutput",
            "VoltageRegulator", "NullVoltageRegulator"}

WiresTyped == \A w \in listens \cup drives : w[1] \in signals /\ w[2][1] \in Classes

(* The types, part by part. *)
LEMMA TypeSplits ==
  TypeOK <=>
    /\ phase \in {"load", "construct", "run", "failed"}
    /\ directory \in Directories /\ unread \subseteq directory
    /\ DOMAIN cfg = Sections
    /\ todo # <<>> => phase \in {"construct", "failed"}
    /\ immutables \subseteq signals
    /\ WiresTyped
    /\ callbacks \subseteq Available /\ held \subseteq Available
BY DEF TypeOK, WiresTyped, Classes

(* Wire only adds wires of known objects to signals that are there. *)
LEMMA WireKeepsTypes ==
  ASSUME WiresTyped, immutables \subseteq signals, immutables' = immutables,
         NEW me, NEW reads, NEW writes, Wire(me, reads, writes), me[1] \in Classes
  PROVE  WiresTyped' /\ immutables' \subseteq signals'
<1>1. /\ signals' = signals \cup reads \cup writes
      /\ listens' = listens \cup {<<s, me>> : s \in reads}
      /\ drives' = drives \cup {<<s, me>> : s \in writes}
  BY DEF Wire
<1>2. \A s : <<s, me>>[1] = s /\ <<s, me>>[2] = me
  OBVIOUS
<1>3. \A w \in listens' \cup drives' : w[1] \in signals' /\ w[2][1] \in Classes
  BY <1>1, <1>2 DEF WiresTyped
<1> QED
  BY <1>1, <1>3 DEF WiresTyped

(* Whatever is constructed or has thrown leaves wires of known objects. *)
LEMMA ConstructKeepsTypes ==
  ASSUME TypeOK, Construct
  PROVE  WiresTyped' /\ immutables' \subseteq signals' /\ callbacks' \subseteq Available
<1>1. WiresTyped /\ immutables \subseteq signals /\ callbacks \subseteq Available
  BY TypeSplits
<1>2. ASSUME NEW me, NEW reads, NEW writes, Wire(me, reads, writes),
             me[1] \in Classes, immutables' = immutables,
             callbacks' \subseteq Available
      PROVE  WiresTyped' /\ immutables' \subseteq signals' /\ callbacks' \subseteq Available
  BY <1>1, <1>2, WireKeepsTypes
<1>3. \A c, n : <<c, n>>[1] = c
  OBVIOUS
<1>4. CASE ConstructImmutable
  BY <1>1, <1>4 DEF ConstructImmutable, WiresTyped
<1>5. CASE ConstructACPIStates
  <2>1. Wire(<<"ACPIStates", "">>, AcpiReads, AcpiDrives)
        /\ UNCHANGED <<immutables, callbacks>>
    BY <1>5 DEF ConstructACPIStates
  <2> QED
    BY <1>1, <1>2, <1>3, <2>1 DEF Classes
<1>6. CASE ConstructLogic
  <2>1. Wire(<<"Logic", Entry.out>>, Entry.reads, {Entry.out})
        /\ UNCHANGED <<immutables, callbacks>>
    BY <1>6 DEF ConstructLogic
  <2> QED
    BY <1>1, <1>2, <1>3, <2>1 DEF Classes
<1>7. CASE ConstructInput
  <2>1. PICK reads, writes : Wire(<<"Input", Entry.name>>, reads, writes)
                             /\ UNCHANGED <<immutables, callbacks>>
    BY <1>7 DEF ConstructInput
  <2> QED
    BY <1>1, <1>2, <1>3, <2>1 DEF Classes
<1>8. CASE ConstructOutput
  <2>1. Wire(<<"Output", Entry.name>>, {Entry.signal}, OutputSignals(Entry))
        /\ UNCHANGED <<immutables, callbacks>>
    BY <1>8 DEF ConstructOutput
  <2> QED
    BY <1>1, <1>2, <1>3, <2>1 DEF Classes
<1>9. CASE ConstructLogOutput
  <2>1. PICK reads : Wire(<<"LogOutput", Entry.name>>, reads, {})
                     /\ UNCHANGED <<immutables, callbacks>>
    BY <1>9 DEF ConstructLogOutput
  <2> QED
    BY <1>1, <1>2, <1>3, <2>1 DEF Classes
<1>10. CASE ConstructRegulator
  <2>1. /\ Wire(<<"VoltageRegulator", Entry.name>>, {<<Entry.name, "On">>},
                RegulatorSignals(Entry.name))
        /\ immutables' = immutables /\ callbacks' = callbacks \cup {Entry.name}
        /\ Entry.name \in Available
    BY <1>10 DEF ConstructRegulator, WireRegulator, InSysfs
  <2>2. callbacks' \subseteq Available
    BY <1>1, <2>1
  <2> QED
    BY <1>2, <1>3, <2>1, <2>2 DEF Classes
<1>11. CASE ConstructDummy
  <2>1. /\ Wire(<<"NullVoltageRegulator", Entry.name>>, {<<Entry.name, "On">>},
                RegulatorSignals(Entry.name))
        /\ UNCHANGED <<immutables, callbacks>>
    BY <1>11 DEF ConstructDummy, WireRegulator
  <2> QED
    BY <1>1, <1>2, <1>3, <2>1 DEF Classes
<1>12. CASE ReplaceRegulator
  <2> DEFINE n == Entry.name
             me == <<"NullVoltageRegulator", n>>
             on == <<n, "On">>
  <2>1. /\ UNCHANGED <<immutables, callbacks>>
        /\ signals' = signals \cup RegulatorSignals(n) \cup {on}
        /\ listens' = listens \cup LeftBehind(n) \cup {<<on, me>>}
        /\ drives' = drives \cup {<<s, me>> : s \in RegulatorSignals(n)}
    BY <1>12 DEF ReplaceRegulator
  <2>2. \A w \in LeftBehind(n) \cup {<<on, me>>} : w[1] = on /\ w[2][1] \in Classes
    BY DEF LeftBehind, Classes
  <2>3. \A s : <<s, me>>[1] = s /\ <<s, me>>[2][1] \in Classes
    BY DEF Classes
  <2> HIDE DEF me, on, n
  <2>4. \A w \in listens' \cup drives' : w[1] \in signals' /\ w[2][1] \in Classes
    BY <1>1, <2>1, <2>2, <2>3 DEF WiresTyped
  <2> QED
    BY <1>1, <2>1, <2>4 DEF WiresTyped
<1>13. CASE FailDriver \/ FailRegulator
  BY <1>1, <1>13 DEF FailDriver, FailRegulator, wiring, WiresTyped
<1> QED
  BY <1>4, <1>5, <1>6, <1>7, <1>8, <1>9, <1>10, <1>11, <1>12, <1>13 DEF Construct

-----------------------------------------------------------------------------
(* What is listed and what the files say. *)

(* The sections have been merged when nothing is unread. *)
LEMMA AllIsMerged ==
  ASSUME Gathered, unread = {}
  PROVE  \A s \in Sections : ToSet(cfg[s]) = All(s)
<1>1. Read = Configs
  BY DEF Read
<1> QED
  BY <1>1 DEF Gathered, Merged, All

(* Names are shared in the files as they are in the section that has been merged
   from them. *)
LEMMA NamedOnceIs ==
  ASSUME Gathered, unread = {}, NEW s \in Sections, NEW E
  PROVE  NamedOnce(s, E) <=>
           \A e, d : Two(cfg[s], e, d) /\ e \in E /\ d \in E => e.name # d.name
<1>1. Read = Configs
  BY DEF Read
<1>2. \A e, d : Two(cfg[s], e, d) <=> TwoRead(s, e, d)
  BY DEF Gathered
<1>3. ASSUME NamedOnce(s, E), NEW e, NEW d, Two(cfg[s], e, d), e \in E, d \in E
      PROVE  e.name # d.name
  <2>1. PICK f \in Configs, g \in Configs :
          \E i \in DOMAIN Content[f][s], j \in DOMAIN Content[g][s] :
             (f # g \/ i # j) /\ Content[f][s][i] = e /\ Content[g][s][j] = d
    BY <1>1, <1>2, <1>3 DEF TwoRead
  <2> QED
    BY <1>3, <2>1 DEF NamedOnce
<1>4. ASSUME \A e, d : Two(cfg[s], e, d) /\ e \in E /\ d \in E => e.name # d.name
      PROVE  NamedOnce(s, E)
  <2> SUFFICES ASSUME NEW f \in Configs, NEW g \in Configs,
                      NEW i \in DOMAIN Content[f][s], NEW j \in DOMAIN Content[g][s],
                      Content[f][s][i] \in E, Content[g][s][j] \in E,
                      Content[f][s][i].name = Content[g][s][j].name,
                      f # g \/ i # j
               PROVE  FALSE
    BY DEF NamedOnce
  <2>1. TwoRead(s, Content[f][s][i], Content[g][s][j])
    BY <1>1 DEF TwoRead
  <2>2. Two(cfg[s], Content[f][s][i], Content[g][s][j])
    BY <1>2, <2>1
  <2> QED
    BY <1>4, <2>2
<1> QED
  BY <1>3, <1>4

(* Regulators that are listed once have names of their own in the section. *)
LEMMA RegulatorsAreDistinct ==
  ASSUME Gathered, unread = {}, RegulatorsListedOnce
  PROVE  Distinct(cfg.regulators)
<1>1. "regulators" \in Sections /\ ToSet(cfg.regulators) = All("regulators")
  BY SectionsAre, AllIsMerged
<1>2. \A e, d : (Two(cfg.regulators, e, d)
                   /\ e \in All("regulators") /\ d \in All("regulators"))
                 => e.name # d.name
  <2>1. NamedOnce("regulators", All("regulators"))
    BY DEF RegulatorsListedOnce
  <2> QED
    BY <1>1, <2>1, NamedOnceIs
<1> SUFFICES ASSUME NEW i \in DOMAIN cfg.regulators, NEW j \in DOMAIN cfg.regulators,
                    cfg.regulators[i].name = cfg.regulators[j].name, i # j
             PROVE  FALSE
  BY DEF Distinct
<1>3. Two(cfg.regulators, cfg.regulators[i], cfg.regulators[j])
  BY DEF Two
<1>4. cfg.regulators[i] \in All("regulators") /\ cfg.regulators[j] \in All("regulators")
  BY <1>1 DEF ToSet
<1> QED
  BY <1>2, <1>3, <1>4

(* An object that is listed hears and drives what the files say, and can be
   constructed if they allow it. *)
LEMMA ListedIsSaid ==
  ASSUME Gathered, unread = {}, NEW h \in Listed
  PROVE  /\ ReadsOf(h) \subseteq Reads /\ GatesOf(h) \subseteq Gates
         /\ WritesOf(h) \subseteq Writes
         /\ Wired => Possible(h)
<1>1. ASSUME NEW c, NEW s \in Sections, h \in ItemsOf(c, s)
      PROVE  h.class = c /\ h.entry \in All(s)
  <2>1. PICK e \in ToSet(cfg[s]) : h = Item(c, e)
    BY <1>1 DEF ItemsOf
  <2>2. h.class = c /\ h.entry = e
    BY <2>1 DEF Item
  <2> QED
    BY <2>2, AllIsMerged
<1>2. CASE h \in ItemsOf("Immutable", "immutables")
  <2>1. h.class = "Immutable" /\ h.entry \in All("immutables")
    BY <1>1, <1>2, SectionsAre
  <2> QED
    BY <2>1 DEF ReadsOf, GatesOf, WritesOf, Possible, Logs, Writes
<1>3. CASE h = TheACPIStates
  <2>1. h.class = "ACPIStates"
    BY <1>3 DEF TheACPIStates
  <2> QED
    BY <2>1 DEF ReadsOf, GatesOf, WritesOf, Possible, Logs, Reads, Writes
<1>4. CASE h \in ItemsOf("Logic", "power_sequencer")
  <2>1. h.class = "Logic" /\ h.entry \in All("power_sequencer")
    BY <1>1, <1>4, SectionsAre
  <2> QED
    BY <2>1 DEF ReadsOf, GatesOf, WritesOf, Possible, Logs, Reads, Writes
<1>5. CASE h \in ItemsOf("Input", "inputs")
  <2>1. h.class = "Input" /\ h.entry \in All("inputs")
    BY <1>1, <1>5, SectionsAre
  <2>2. ReadsOf(h) = IF Gated(h.entry) THEN {<<h.entry.name, "On">>} ELSE {}
    BY <2>1 DEF ReadsOf, OnOf
  <2>3. WritesOf(h) = {h.entry.signal}
          \cup IF Gated(h.entry) THEN {<<h.entry.name, "Enabled">>} ELSE {}
    BY <2>1 DEF WritesOf
  <2>4. ReadsOf(h) \subseteq Reads
    BY <2>1, <2>2 DEF Reads
  <2>5. WritesOf(h) \subseteq Writes
    BY <2>1, <2>3 DEF Writes
  <2> QED
    BY <2>1, <2>4, <2>5 DEF GatesOf, Possible, Logs, Wired
<1>6. CASE h \in ItemsOf("Output", "outputs")
  <2>1. h.class = "Output" /\ h.entry \in All("outputs")
    BY <1>1, <1>6, SectionsAre
  <2>2. /\ ReadsOf(h) = {h.entry.signal}
        /\ WritesOf(h)
             = IF h.entry.type = "gpio" THEN {<<h.entry.name, "Enabled">>} ELSE {}
        /\ GatesOf(h)
             = IF h.entry.type = "logging" THEN {<<h.entry.name, "On">>} ELSE {}
    BY <2>1 DEF ReadsOf, WritesOf, GatesOf, OutputSignals, Logs, OnOf
  <2>3. ReadsOf(h) \subseteq Reads
    BY <2>1, <2>2 DEF Reads
  <2>4. WritesOf(h) \subseteq Writes
    BY <2>1, <2>2 DEF Writes
  <2>5. GatesOf(h) \subseteq Gates
    BY <2>1, <2>2 DEF Gates
  <2> QED
    BY <2>1, <2>3, <2>4, <2>5 DEF Possible, Wired
<1>7. CASE h \in ItemsOf("Regulator", "regulators")
  <2>1. h.class = "Regulator" /\ h.entry \in All("regulators")
    BY <1>1, <1>7, SectionsAre
  <2>2. ReadsOf(h) = {<<h.entry.name, "On">>} /\ WritesOf(h) = RegulatorSignals(h.entry.name)
    BY <2>1 DEF ReadsOf, WritesOf, OnOf
  <2>3. ReadsOf(h) \subseteq Reads
    BY <2>1, <2>2 DEF Reads
  <2>4. WritesOf(h) \subseteq Writes
    BY <2>1, <2>2 DEF Writes
  <2> QED
    BY <2>1, <2>3, <2>4 DEF GatesOf, Possible, Logs, Wired
<1> QED
  BY <1>2, <1>3, <1>4, <1>5, <1>6, <1>7 DEF Listed, EarlyItems, LateItems

(* The inputs that are listed. *)
LEMMA InputsAreSaid ==
  ASSUME Gathered, unread = {}
  PROVE  \A h \in Listed : h.class = "Input" => h.entry \in All("inputs")
<1>1. \A c, e : Item(c, e).class = c /\ Item(c, e).entry = e
  BY DEF Item
<1>2. \A c, s : \A h \in ItemsOf(c, s) : h.class = c
  BY <1>1 DEF ItemsOf
<1>3. TheACPIStates.class = "ACPIStates"
  BY DEF TheACPIStates
<1>4. \A h \in Listed : h.class = "Input" => h \in ItemsOf("Input", "inputs")
  BY <1>2, <1>3 DEF Listed, EarlyItems, LateItems
<1>5. \A h \in ItemsOf("Input", "inputs") : h.entry \in ToSet(cfg["inputs"])
  BY <1>1 DEF ItemsOf
<1>6. ToSet(cfg["inputs"]) = All("inputs")
  BY AllIsMerged, SectionsAre
<1> QED
  BY <1>4, <1>5, <1>6

(* And all that they say is listed. *)
LEMMA SaidIsListed ==
  ASSUME Gathered, unread = {}
  PROVE  /\ TheACPIStates \in Listed
         /\ \A e \in All("immutables") : Item("Immutable", e) \in Listed
         /\ \A e \in All("power_sequencer") : Item("Logic", e) \in Listed
         /\ \A e \in All("inputs") : Item("Input", e) \in Listed
         /\ \A e \in All("outputs") : Item("Output", e) \in Listed
         /\ \A e \in All("regulators") : Item("Regulator", e) \in Listed
<1>1. \A s \in Sections : ToSet(cfg[s]) = All(s)
  BY AllIsMerged
<1> QED
  BY <1>1, SectionsAre DEF ItemsOf, Listed, EarlyItems, LateItems

(* What has been constructed when all is. *)
LEMMA AllIsBuilt ==
  ASSUME Gathered, unread = {}, \A h \in Listed : Built(h)
  PROVE  /\ Reads \subseteq HeardSet /\ Writes \subseteq DrivenSet
         /\ \A e \in All("inputs") \cup All("outputs") : ~Missing(e)
         /\ \A r \in All("regulators") :
              "dummy" \in r.options \/ Lives(r) \/ MayBeMissing(r)
<1>1. \A c, e : Item(c, e).class = c /\ Item(c, e).entry = e
  BY DEF Item
<1>2. AcpiReads \subseteq HeardSet /\ AcpiDrives \subseteq DrivenSet
  <2>1. TheACPIStates \in Listed /\ TheACPIStates.class = "ACPIStates"
    BY SaidIsListed DEF TheACPIStates
  <2>2. ReadsOf(TheACPIStates) = AcpiReads /\ WritesOf(TheACPIStates) = AcpiDrives
    BY <2>1 DEF ReadsOf, WritesOf
  <2> QED
    BY <2>1, <2>2 DEF Built
<1>3. ASSUME NEW e \in All("immutables") PROVE e.signal \in DrivenSet
  <2> DEFINE h == Item("Immutable", e)
  <2>1. h \in Listed /\ h.class = "Immutable" /\ h.entry = e
    BY <1>1, SaidIsListed
  <2> HIDE DEF h
  <2>2. WritesOf(h) = {e.signal}
    BY <2>1 DEF WritesOf
  <2> QED
    BY <2>1, <2>2 DEF Built
<1>4. ASSUME NEW e \in All("power_sequencer")
      PROVE  e.reads \subseteq HeardSet /\ e.out \in DrivenSet
  <2> DEFINE h == Item("Logic", e)
  <2>1. h \in Listed /\ h.class = "Logic" /\ h.entry = e
    BY <1>1, SaidIsListed
  <2> HIDE DEF h
  <2>2. ReadsOf(h) = e.reads /\ WritesOf(h) = {e.out}
    BY <2>1 DEF ReadsOf, WritesOf
  <2> QED
    BY <2>1, <2>2 DEF Built
<1>5. ASSUME NEW e \in All("inputs")
      PROVE  /\ ~Missing(e) /\ e.signal \in DrivenSet
             /\ Gated(e) => <<e.name, "On">> \in HeardSet
                            /\ <<e.name, "Enabled">> \in DrivenSet
  <2> DEFINE h == Item("Input", e)
  <2>1. h \in Listed /\ h.class = "Input" /\ h.entry = e
    BY <1>1, SaidIsListed
  <2> HIDE DEF h
  <2>2. ReadsOf(h) = IF Gated(e) THEN {<<e.name, "On">>} ELSE {}
    BY <2>1 DEF ReadsOf, OnOf
  <2>3. WritesOf(h)
          = {e.signal} \cup IF Gated(e) THEN {<<e.name, "Enabled">>} ELSE {}
    BY <2>1 DEF WritesOf
  <2>4. ~Missing(e)
    BY <2>1 DEF Built, Possible
  <2> QED
    BY <2>1, <2>2, <2>3, <2>4 DEF Built
<1>6. ASSUME NEW e \in All("outputs")
      PROVE  /\ ~Missing(e) /\ e.signal \in HeardSet
             /\ e.type = "gpio" => <<e.name, "Enabled">> \in DrivenSet
  <2> DEFINE h == Item("Output", e)
  <2>1. h \in Listed /\ h.class = "Output" /\ h.entry = e
    BY <1>1, SaidIsListed
  <2> HIDE DEF h
  <2>2. /\ ReadsOf(h) = {e.signal}
        /\ WritesOf(h)
             = IF e.type = "gpio" THEN {<<e.name, "Enabled">>} ELSE {}
    BY <2>1 DEF ReadsOf, WritesOf, OutputSignals
  <2>3. ~Missing(e)
    BY <2>1 DEF Built, Possible
  <2> QED
    BY <2>1, <2>2, <2>3 DEF Built
<1>7. ASSUME NEW r \in All("regulators")
      PROVE  /\ <<r.name, "On">> \in HeardSet
             /\ RegulatorSignals(r.name) \subseteq DrivenSet
             /\ "dummy" \in r.options \/ Lives(r) \/ MayBeMissing(r)
  <2> DEFINE h == Item("Regulator", r)
  <2>1. h \in Listed /\ h.class = "Regulator" /\ h.entry = r
    BY <1>1, SaidIsListed
  <2> HIDE DEF h
  <2>2. /\ ReadsOf(h) = {<<r.name, "On">>}
        /\ WritesOf(h) = RegulatorSignals(r.name)
    BY <2>1 DEF ReadsOf, WritesOf, OnOf
  <2>3. "dummy" \in r.options \/ Lives(r) \/ MayBeMissing(r)
    BY <2>1 DEF Built, Possible
  <2> QED
    BY <2>1, <2>2, <2>3 DEF Built
<1>8. Reads \subseteq HeardSet
  <2>1. (UNION {e.reads : e \in All("power_sequencer")}) \subseteq HeardSet
    BY <1>4
  <2>2. {e.signal : e \in All("outputs")} \subseteq HeardSet
    BY <1>6
  <2>3. {<<e.name, "On">> : e \in {i \in All("inputs") : Gated(i)}} \subseteq HeardSet
    BY <1>5
  <2>4. {<<r.name, "On">> : r \in All("regulators")} \subseteq HeardSet
    BY <1>7
  <2> QED
    BY <1>2, <2>1, <2>2, <2>3, <2>4 DEF Reads
<1>9. Writes \subseteq DrivenSet
  <2>1. {e.signal : e \in All("immutables") \cup All("inputs")} \subseteq DrivenSet
    BY <1>3, <1>5
  <2>2. {e.out : e \in All("power_sequencer")} \subseteq DrivenSet
    BY <1>4
  <2>3. {<<e.name, "Enabled">> :
            e \in {i \in All("inputs") : Gated(i)}
                    \cup {o \in All("outputs") : o.type = "gpio"}} \subseteq DrivenSet
    BY <1>5, <1>6
  <2>4. (UNION {RegulatorSignals(r.name) : r \in All("regulators")}) \subseteq DrivenSet
    BY <1>7
  <2> QED
    BY <1>2, <2>1, <2>2, <2>3, <2>4 DEF Writes
<1> QED
  BY <1>5, <1>6, <1>7, <1>8, <1>9

(* A machine of which all is constructed is valid if and only if its files wire
   it. *)
LEMMA ValidIsWired ==
  ASSUME Building, todo = <<>>
  PROVE  Valid <=> Wired
<1>1. /\ Gathered /\ unread = {} /\ Configs # {}
      /\ HeardSet \subseteq Reads \cup (Gates \cap Writes) /\ DrivenSet \subseteq Writes
      /\ signals = HeardSet \cup DrivenSet
      /\ \A h \in Listed : Built(h) /\ (Logs(h) => Enabled(h))
  <2>1. ToSet(todo) = {}
    BY ToSetSmall
  <2> QED
    BY <2>1 DEF Building
<1>2. /\ Reads \subseteq HeardSet /\ Writes \subseteq DrivenSet
      /\ \A e \in All("inputs") \cup All("outputs") : ~Missing(e)
      /\ \A r \in All("regulators") :
           "dummy" \in r.options \/ Lives(r) \/ MayBeMissing(r)
  BY <1>1, AllIsBuilt
<1>3. \A f \in Configs : AcceptsFile(Content[f])
  BY <1>1 DEF Gathered, Read
<1>4. Floating = All("floating_signals")
  BY <1>1, AllIsMerged, SectionsAre DEF Floating
<1>5. \A s : (Heard(s) <=> s \in HeardSet) /\ (Driven(s) <=> s \in DrivenSet)
  BY DEF Heard, Driven, HeardSet, DrivenSet
<1>6. \A s \in Gates : s \in DrivenSet => s \in HeardSet
  <2> SUFFICES ASSUME NEW e \in All("outputs"), e.type = "logging",
                      <<e.name, "On">> \in DrivenSet
               PROVE  <<e.name, "On">> \in HeardSet
    BY DEF Gates
  <2> DEFINE h == Item("Output", e)
             on == <<e.name, "On">>
  <2>1. h \in Listed /\ h.class = "Output" /\ h.entry = e
    BY <1>1, SaidIsListed DEF Item
  <2> HIDE DEF h
  <2>2. <<on, <<"LogOutput", e.name>>>> \in listens
    BY <1>1, <2>1 DEF Logs, Enabled, OnOf
  <2>3. <<on, <<"LogOutput", e.name>>>>[1] = on
    OBVIOUS
  <2> QED
    BY <2>2, <2>3 DEF HeardSet
<1>7. ASSUME Valid PROVE Wired
  <2>1. \A s \in signals : (s \in HeardSet \/ s \in Floating) /\ s \in DrivenSet
    BY <1>5, <1>7 DEF Valid
  <2>2. Reads \subseteq Writes
    BY <1>1, <1>2, <2>1
  <2>3. Writes \ (Reads \cup Gates) \subseteq All("floating_signals")
    BY <1>1, <1>2, <1>4, <2>1
  <2> QED
    BY <1>1, <1>2, <1>3, <2>2, <2>3 DEF Wired
<1>8. ASSUME Wired PROVE Valid
  <2>1. Reads \subseteq Writes /\ Writes \ (Reads \cup Gates) \subseteq Floating
    BY <1>4, <1>8 DEF Wired
  <2>2. ASSUME NEW s \in signals
        PROVE  (s \in HeardSet \/ s \in Floating) /\ s \in DrivenSet
    <3>1. s \in Writes
      BY <1>1, <2>1, <2>2
    <3>2. s \in DrivenSet
      BY <1>2, <3>1
    <3> QED
      BY <1>2, <1>6, <2>1, <3>1, <3>2
  <2> QED
    BY <1>5, <2>2 DEF Valid
<1> QED
  BY <1>7, <1>8

-----------------------------------------------------------------------------
(* What a step leaves alone. *)

(* What the files say only depends on the directory. *)
LEMMA SayingStays ==
  ASSUME directory' = directory
  PROVE  /\ Configs' = Configs /\ Reads' = Reads /\ Writes' = Writes /\ Gates' = Gates
         /\ Sane' <=> Sane
         /\ RegulatorsListedOnce' <=> RegulatorsListedOnce
         /\ LinesHeldOnce' <=> LinesHeldOnce
         /\ TestedOrHeld' <=> TestedOrHeld
         /\ Unambiguous' <=> Unambiguous
<1>1. Configs' = Configs
  BY DEF Configs
<1>2. \A s : All(s)' = All(s)
  BY <1>1 DEF All
<1>3. Reads' = Reads /\ Writes' = Writes /\ Gates' = Gates
  BY <1>2 DEF Reads, Writes, Gates
<1>4. Wired' <=> Wired
  BY <1>1, <1>2, <1>3 DEF Wired
<1>5. \A s, E : NamedOnce(s, E)' <=> NamedOnce(s, E)
  BY <1>1 DEF NamedOnce
<1>6. RegulatorsListedOnce' <=> RegulatorsListedOnce
  BY <1>2, <1>5 DEF RegulatorsListedOnce
<1>7. LinesHeldOnce' <=> LinesHeldOnce
  <2>1. Holding' = Holding /\ Driving' = Driving
    BY <1>2 DEF Holding, Driving
  <2> QED
    BY <1>5, <2>1 DEF LinesHeldOnce
<1>8. TestedOrHeld' <=> TestedOrHeld
  BY <1>2 DEF TestedOrHeld
<1> QED
  BY <1>1, <1>3, <1>4, <1>6, <1>7, <1>8 DEF Sane, Unambiguous

(* What is listed only depends on what has been merged. *)
LEMMA ListsStay ==
  ASSUME cfg' = cfg
  PROVE  Listed' = Listed /\ LateItems' = LateItems
<1>1. \A c, s : ItemsOf(c, s)' = ItemsOf(c, s)
  BY DEF ItemsOf
<1> QED
  BY <1>1 DEF Listed, EarlyItems, LateItems

(* A step that reads no file. *)
LEMMA GatheredStays ==
  ASSUME Gathered, directory' = directory, cfg' = cfg, Read' = Read
  PROVE  Gathered'
<1>1. \A s : Merged(s)' = Merged(s)
  BY DEF Merged
<1>2. \A s, e, d : TwoRead(s, e, d)' <=> TwoRead(s, e, d)
  BY DEF TwoRead
<1>3. \A s, e, d : Two(cfg'[s], e, d) <=> Two(cfg[s], e, d)
  OBVIOUS
<1> QED
  BY <1>1, <1>2, <1>3 DEF Gathered

(* A step that constructs nothing. *)
LEMMA BuildingStays ==
  ASSUME Building, UNCHANGED <<directory, unread, cfg, todo, wiring>>
  PROVE  Building'
<1>1. UNCHANGED <<directory, unread, cfg, todo, signals, immutables, listens, drives,
                  callbacks>>
  BY DEF wiring
<1>2. /\ Configs' = Configs /\ Reads' = Reads /\ Writes' = Writes /\ Gates' = Gates
      /\ RegulatorsListedOnce' <=> RegulatorsListedOnce
  BY <1>1, SayingStays
<1>3. Listed' = Listed /\ LateItems' = LateItems
  BY <1>1, ListsStay
<1>4. Gathered'
  <2>1. Read' = Read
    BY <1>1, <1>2 DEF Read
  <2> QED
    BY <1>1, <2>1, GatheredStays DEF Building
<1>5. HeardSet' = HeardSet /\ DrivenSet' = DrivenSet
  BY <1>1 DEF HeardSet, DrivenSet
<1>6. (LateLast(todo)' <=> LateLast(todo)) /\ (RegulatorsDiffer(todo)' <=> RegulatorsDiffer(todo))
      /\ (Unregistered' <=> Unregistered)
  BY <1>1, <1>3 DEF LateLast, RegulatorsDiffer, Unregistered
<1>7. \A h : (Built(h)' <=> Built(h)) /\ (Enabled(h)' <=> Enabled(h))
  BY <1>1, <1>3, <1>5 DEF Built, Enabled
<1> QED
  BY <1>1, <1>2, <1>3, <1>4, <1>5, <1>6, <1>7 DEF Building

-----------------------------------------------------------------------------
(* Loading keeps the invariant. *)

(* The types after a step. *)
LEMMA TypesThen ==
  TypeOK' <=>
    /\ phase' \in {"load", "construct", "run", "failed"}
    /\ directory' \in Directories /\ unread' \subseteq directory'
    /\ DOMAIN cfg' = Sections
    /\ todo' # <<>> => phase' \in {"construct", "failed"}
    /\ immutables' \subseteq signals'
    /\ WiresTyped'
    /\ callbacks' \subseteq Available /\ held' \subseteq Available
BY DEF TypeOK, WiresTyped, Classes

(* A file that is accepted is merged. *)
LEMMA MergeKeepsGathered ==
  ASSUME TypeOK, Gathered, NEW f \in Files, f \in unread, f \in Configs,
         AcceptsFile(Content[f]), directory' = directory, unread' = unread \ {f},
         cfg' = [s \in Sections |-> cfg[s] \o Content[f][s]]
  PROVE  Gathered'
<1>1. Configs' = Configs
  BY SayingStays
<1>2. Read' = Read \cup {f} /\ f \notin Read
  BY <1>1 DEF Read
<1>3. \A s : Merged(s)' = Merged(s) \cup ToSet(Content[f][s])
  BY <1>2 DEF Merged
<1>4. \A s \in Sections :
        /\ cfg[s] \in Seq(Entries(s)) /\ ToSet(cfg[s]) = Merged(s)
        /\ Content[f][s] \in Seq(Entries(s))
        /\ cfg'[s] = cfg[s] \o Content[f][s]
  <2> SUFFICES ASSUME NEW s \in Sections
               PROVE  /\ cfg[s] \in Seq(Entries(s)) /\ ToSet(cfg[s]) = Merged(s)
                      /\ Content[f][s] \in Seq(Entries(s))
                      /\ cfg'[s] = cfg[s] \o Content[f][s]
    OBVIOUS
  <2>1. Content[f][s] \in Seq(ToSet(Content[f][s]))
    BY StartupAssumption
  <2>2. ToSet(Content[f][s]) \subseteq Entries(s)
    BY DEF Entries
  <2>3. Content[f][s] \in Seq(Entries(s))
    BY <2>1, <2>2, SeqMonotonic
  <2> QED
    BY <2>3 DEF Gathered
<1>5. ASSUME NEW s \in Sections
      PROVE  cfg'[s] \in Seq(Entries(s)) /\ ToSet(cfg'[s]) = Merged(s)'
  <2> DEFINE S == Entries(s)
             p == cfg[s]
             q == Content[f][s]
  <2>1. p \in Seq(S) /\ ToSet(p) = Merged(s) /\ q \in Seq(S)
        /\ cfg'[s] = p \o q /\ Merged(s)' = Merged(s) \cup ToSet(q)
    BY <1>3, <1>4
  <2> HIDE DEF S, p, q
  <2>2. p \o q \in Seq(S) /\ ToSet(p \o q) = ToSet(p) \cup ToSet(q)
    BY <2>1, ToSetConcat
  <2> QED
    BY <2>1, <2>2 DEF S
<1>6. ASSUME NEW s \in Sections, NEW e, NEW d
      PROVE  Two(cfg'[s], e, d) <=> TwoRead(s, e, d)'
  <2> DEFINE S == Entries(s)
             p == cfg[s]
             q == Content[f][s]
  <2>1. p \in Seq(S) /\ ToSet(p) = Merged(s) /\ q \in Seq(S) /\ cfg'[s] = p \o q
    BY <1>4
  <2>2. Two(p, e, d) <=> TwoRead(s, e, d)
    BY DEF Gathered
  <2>3. ToSet(q) = {q[i] : i \in DOMAIN q}
    BY DEF ToSet
  <2>4. \A c : c \in Merged(s) <=> \E g \in Read : \E i \in DOMAIN Content[g][s] :
                                                      Content[g][s][i] = c
    <3>1. ASSUME NEW g
          PROVE  \A c : c \in ToSet(Content[g][s]) <=>
                          \E i \in DOMAIN Content[g][s] : Content[g][s][i] = c
      BY DEF ToSet
    <3>2. \A c : c \in Merged(s) <=> \E g \in Read : c \in ToSet(Content[g][s])
      BY DEF Merged
    <3> QED
      BY <3>1, <3>2
  <2>5. TwoRead(s, e, d)' <=>
          \/ TwoRead(s, e, d) \/ Two(q, e, d)
          \/ e \in Merged(s) /\ d \in ToSet(q)
          \/ e \in ToSet(q) /\ d \in Merged(s)
    <3>1. ASSUME TwoRead(s, e, d)'
          PROVE  \/ TwoRead(s, e, d) \/ Two(q, e, d)
                 \/ e \in Merged(s) /\ d \in ToSet(q)
                 \/ e \in ToSet(q) /\ d \in Merged(s)
      <4>1. PICK g \in Read', h \in Read' :
              \E i \in DOMAIN Content[g][s], j \in DOMAIN Content[h][s] :
                (g # h \/ i # j) /\ Content[g][s][i] = e /\ Content[h][s][j] = d
        BY <3>1 DEF TwoRead
      <4>2. PICK i \in DOMAIN Content[g][s], j \in DOMAIN Content[h][s] :
              (g # h \/ i # j) /\ Content[g][s][i] = e /\ Content[h][s][j] = d
        BY <4>1
      <4>3. CASE g \in Read /\ h \in Read
        BY <4>2, <4>3 DEF TwoRead
      <4>4. CASE g = f /\ h = f
        BY <4>2, <4>4 DEF Two
      <4>5. CASE g \in Read /\ h = f
        BY <2>3, <2>4, <4>2, <4>5
      <4>6. CASE g = f /\ h \in Read
        BY <2>3, <2>4, <4>2, <4>6
      <4> QED
        BY <1>2, <4>3, <4>4, <4>5, <4>6
    <3>2. ASSUME TwoRead(s, e, d) PROVE TwoRead(s, e, d)'
      BY <1>2, <3>2 DEF TwoRead
    <3>3. ASSUME Two(q, e, d) PROVE TwoRead(s, e, d)'
      BY <1>2, <3>3 DEF TwoRead, Two
    <3>4. ASSUME e \in Merged(s), d \in ToSet(q) PROVE TwoRead(s, e, d)'
      <4>1. PICK g \in Read : \E i \in DOMAIN Content[g][s] : Content[g][s][i] = e
        BY <2>4, <3>4
      <4>2. PICK j \in DOMAIN q : q[j] = d
        BY <2>3, <3>4
      <4> QED
        BY <1>2, <4>1, <4>2 DEF TwoRead
    <3>5. ASSUME e \in ToSet(q), d \in Merged(s) PROVE TwoRead(s, e, d)'
      <4>1. PICK g \in Read : \E i \in DOMAIN Content[g][s] : Content[g][s][i] = d
        BY <2>4, <3>5
      <4>2. PICK j \in DOMAIN q : q[j] = e
        BY <2>3, <3>5
      <4> QED
        BY <1>2, <4>1, <4>2 DEF TwoRead
    <3> QED
      BY <3>1, <3>2, <3>3, <3>4, <3>5
  <2> HIDE DEF S, p, q
  <2>6. Two(p \o q, e, d) <=>
          \/ Two(p, e, d) \/ Two(q, e, d)
          \/ e \in ToSet(p) /\ d \in ToSet(q)
          \/ e \in ToSet(q) /\ d \in ToSet(p)
    BY <2>1, TwoConcat
  <2> QED
    BY <2>1, <2>2, <2>5, <2>6
<1>7. \A g \in Read' : AcceptsFile(Content[g])
  BY <1>2 DEF Gathered
<1> QED
  BY <1>5, <1>6, <1>7 DEF Gathered

(* A file that is refused is not sane, one that is not yaml does not count. *)
LEMMA LoadFileKeepsInv ==
  ASSUME Inv, NEW f \in Files, LoadFile(f)
  PROVE  Inv'
<1>1. /\ phase = "load" /\ f \in unread /\ unread' = unread \ {f}
      /\ UNCHANGED <<directory, todo, signals, immutables, listens, drives, callbacks,
                     held>>
  BY DEF LoadFile, wiring
<1>2. /\ TypeOK /\ Gathered /\ todo = <<>>
      /\ signals = {} /\ immutables = {} /\ listens = {} /\ drives = {}
      /\ callbacks = {} /\ held = {}
  BY <1>1 DEF Inv, Loading
<1>3. /\ Configs' = Configs /\ (Sane' <=> Sane) /\ f \in directory
      /\ unread' \subseteq directory' /\ directory' \in Directories
      /\ DOMAIN cfg = Sections /\ callbacks' \subseteq Available /\ held' \subseteq Available
      /\ immutables' \subseteq signals' /\ WiresTyped'
  <2>1. WiresTyped' <=> WiresTyped
    BY <1>1 DEF WiresTyped
  <2> QED
    BY <1>1, <1>2, <2>1, TypeSplits, SayingStays
<1>4. CASE ~IsConfig(f) /\ UNCHANGED <<cfg, phase>>
  <2>1. f \notin Configs
    BY <1>4 DEF Configs
  <2>2. Read' = Read
    BY <1>1, <1>3, <2>1 DEF Read
  <2>3. Gathered'
    BY <1>1, <1>2, <1>4, <2>2, GatheredStays
  <2>4. TypeOK'
    BY <1>1, <1>2, <1>3, <1>4, TypesThen
  <2> QED
    BY <1>1, <1>2, <1>4, <2>3, <2>4 DEF Inv, Loading
<1>5. CASE /\ IsConfig(f) /\ AcceptsFile(Content[f]) /\ UNCHANGED phase
           /\ cfg' = [s \in Sections |-> cfg[s] \o Content[f][s]]
  <2>1. f \in Configs
    BY <1>3, <1>5 DEF Configs
  <2>2. Gathered'
    BY <1>1, <1>2, <1>5, <2>1, MergeKeepsGathered
  <2>3. DOMAIN cfg' = Sections
    BY <1>5
  <2>4. TypeOK'
    BY <1>1, <1>2, <1>3, <1>5, <2>3, TypesThen
  <2> QED
    BY <1>1, <1>2, <1>5, <2>2, <2>4 DEF Inv, Loading
<1>6. CASE IsConfig(f) /\ ~AcceptsFile(Content[f]) /\ phase' = "failed" /\ UNCHANGED cfg
  <2>1. f \in Configs
    BY <1>3, <1>6 DEF Configs
  <2>2. ~Sane
    BY <1>6, <2>1 DEF Sane, Wired
  <2>3. TypeOK'
    BY <1>1, <1>2, <1>3, <1>6, TypesThen
  <2> QED
    BY <1>3, <1>6, <2>2, <2>3 DEF Inv
<1> QED
  BY <1>4, <1>5, <1>6 DEF LoadFile

(* Before anything is constructed, two objects are on their way to the same line
   if the files list two that hold it. *)
LEMMA OrderClashes ==
  ASSUME Gathered, unread = {}
  PROVE  (\E g, h \in Listed :
            Keeps(g) /\ Keeps(h) /\ g.entry.name = h.entry.name /\ Two(Order, g, h))
           <=> ~LinesHeldOnce
<1> DEFINE in == ToDo("Input", "inputs")
           ou == ToDo("Output", "outputs")
           Goal == \E g, h \in Listed :
              Keeps(g) /\ Keeps(h) /\ g.entry.name = h.entry.name /\ Two(Order, g, h)
<1>1. /\ \A s \in Sections : cfg[s] \in Seq(Entries(s)) /\ ToSet(cfg[s]) = All(s)
      /\ {"inputs", "outputs"} \subseteq Sections
  BY AllIsMerged, SectionsAre DEF Gathered
<1>2. \A c, e : Item(c, e).class = c /\ Item(c, e).entry = e
  BY DEF Item
<1>3. /\ \A e : Keeps(Item("Input", e)) <=> Holds(e)
      /\ \A e : Keeps(Item("Output", e)) <=> e.type = "gpio"
  BY <1>2 DEF Keeps, Requests, Holds
<1>4. /\ \A e \in All("inputs") : Item("Input", e) \in Listed
      /\ \A e \in All("outputs") : Item("Output", e) \in Listed
      /\ ItemsOf("Input", "inputs") = {Item("Input", e) : e \in All("inputs")}
      /\ ItemsOf("Output", "outputs") = {Item("Output", e) : e \in All("outputs")}
  BY <1>1, SaidIsListed DEF ItemsOf
<1>5. \A g, h :
        /\ Two(in, g, h) <=>
              \E e, d : /\ g = Item("Input", e) /\ h = Item("Input", d)
                        /\ Two(cfg.inputs, e, d)
        /\ Two(ou, g, h) <=>
              \E e, d : /\ g = Item("Output", e) /\ h = Item("Output", d)
                        /\ Two(cfg.outputs, e, d)
  BY <1>1, ToDoTwo
<1>6. \A g, h :
        {g.class, h.class} \subseteq {"Input", "Output"} =>
          (Two(Order, g, h) <=>
             \/ Two(in, g, h) \/ Two(ou, g, h)
             \/ g \in ItemsOf("Input", "inputs") /\ h \in ItemsOf("Output", "outputs")
             \/ g \in ItemsOf("Output", "outputs") /\ h \in ItemsOf("Input", "inputs"))
  BY <1>1, OrderTwo
<1> HIDE DEF in, ou
<1>7. /\ \A e, d : Two(cfg.inputs, e, d) => e \in All("inputs") /\ d \in All("inputs")
      /\ \A e, d : Two(cfg.outputs, e, d) => e \in All("outputs") /\ d \in All("outputs")
  <2>1. \A q, e, d : Two(q, e, d) => e \in ToSet(q) /\ d \in ToSet(q)
    BY DEF Two, ToSet
  <2> QED
    BY <1>1, <2>1
<1>8. /\ NamedOnce("inputs", Holding) <=>
           \A e, d : (Two(cfg.inputs, e, d) /\ e \in Holding /\ d \in Holding)
                       => e.name # d.name
      /\ NamedOnce("outputs", Driving) <=>
           \A e, d : (Two(cfg.outputs, e, d) /\ e \in Driving /\ d \in Driving)
                       => e.name # d.name
  BY <1>1, NamedOnceIs
<1>9. /\ \A e : e \in Holding <=> e \in All("inputs") /\ Keeps(Item("Input", e))
      /\ \A e : e \in Driving <=> e \in All("outputs") /\ Keeps(Item("Output", e))
  BY <1>3 DEF Holding, Driving
<1> HIDE DEF Goal
<1>10. ASSUME ~NamedOnce("inputs", Holding) PROVE Goal
  <2>1. PICK e, d : /\ Two(cfg.inputs, e, d)
                    /\ e \in Holding /\ d \in Holding /\ e.name = d.name
    BY <1>8, <1>10
  <2> DEFINE g == Item("Input", e)
             h == Item("Input", d)
  <2>2. /\ g.class = "Input" /\ h.class = "Input"
        /\ g.entry = e /\ h.entry = d /\ Two(in, g, h)
    BY <1>2, <1>5, <2>1
  <2>3. g \in Listed /\ h \in Listed /\ Keeps(g) /\ Keeps(h)
    BY <1>4, <1>9, <2>1
  <2> HIDE DEF g, h
  <2>4. Two(Order, g, h)
    BY <1>6, <2>2
  <2> QED
    BY <2>1, <2>2, <2>3, <2>4 DEF Goal
<1>11. ASSUME ~NamedOnce("outputs", Driving) PROVE Goal
  <2>1. PICK e, d : /\ Two(cfg.outputs, e, d)
                    /\ e \in Driving /\ d \in Driving /\ e.name = d.name
    BY <1>8, <1>11
  <2> DEFINE g == Item("Output", e)
             h == Item("Output", d)
  <2>2. /\ g.class = "Output" /\ h.class = "Output"
        /\ g.entry = e /\ h.entry = d /\ Two(ou, g, h)
    BY <1>2, <1>5, <2>1
  <2>3. g \in Listed /\ h \in Listed /\ Keeps(g) /\ Keeps(h)
    BY <1>4, <1>9, <2>1
  <2> HIDE DEF g, h
  <2>4. Two(Order, g, h)
    BY <1>6, <2>2
  <2> QED
    BY <2>1, <2>2, <2>3, <2>4 DEF Goal
<1>12. ASSUME NEW e \in Holding, NEW d \in Driving, e.name = d.name PROVE Goal
  <2> DEFINE g == Item("Input", e)
             h == Item("Output", d)
  <2>1. /\ g.class = "Input" /\ h.class = "Output" /\ g.entry = e /\ h.entry = d
        /\ g \in ItemsOf("Input", "inputs") /\ h \in ItemsOf("Output", "outputs")
    BY <1>2, <1>4, <1>9
  <2>2. g \in Listed /\ h \in Listed /\ Keeps(g) /\ Keeps(h)
    BY <1>4, <1>9
  <2> HIDE DEF g, h
  <2>3. Two(Order, g, h)
    BY <1>6, <2>1
  <2> QED
    BY <1>12, <2>1, <2>2, <2>3 DEF Goal
<1>13. ASSUME NEW g \in Listed, NEW h \in Listed, Keeps(g), Keeps(h),
              g.entry.name = h.entry.name, Two(Order, g, h)
       PROVE  ~LinesHeldOnce
  <2>1. {g.class, h.class} \subseteq {"Input", "Output"}
    BY <1>13 DEF Keeps, Requests
  <2>2. CASE Two(in, g, h)
    <3>1. PICK e, d : g = Item("Input", e) /\ h = Item("Input", d) /\ Two(cfg.inputs, e, d)
      BY <1>5, <2>2
    <3>2. e \in Holding /\ d \in Holding /\ e.name = d.name
      BY <1>2, <1>7, <1>9, <1>13, <3>1
    <3> QED
      BY <1>8, <3>1, <3>2 DEF LinesHeldOnce
  <2>3. CASE Two(ou, g, h)
    <3>1. PICK e, d : /\ g = Item("Output", e) /\ h = Item("Output", d)
                      /\ Two(cfg.outputs, e, d)
      BY <1>5, <2>3
    <3>2. e \in Driving /\ d \in Driving /\ e.name = d.name
      BY <1>2, <1>7, <1>9, <1>13, <3>1
    <3> QED
      BY <1>8, <3>1, <3>2 DEF LinesHeldOnce
  <2>4. \A a \in ItemsOf("Input", "inputs"), b \in ItemsOf("Output", "outputs") :
          Keeps(a) /\ Keeps(b) => a.entry \in Holding /\ b.entry \in Driving
    BY <1>2, <1>4, <1>9
  <2> QED
    BY <1>6, <1>13, <2>1, <2>2, <2>3, <2>4 DEF LinesHeldOnce
<1> QED
  BY <1>10, <1>11, <1>12, <1>13 DEF LinesHeldOnce, Goal

(* The list of objects is made when all files are read. *)
LEMMA EndLoadKeepsInv ==
  ASSUME Inv, EndLoad
  PROVE  Inv'
<1>1. /\ phase = "load" /\ unread = {}
      /\ UNCHANGED <<directory, unread, cfg, signals, immutables, listens, drives,
                     callbacks, held>>
  BY DEF EndLoad, wiring
<1>2. /\ TypeOK /\ Gathered /\ todo = <<>>
      /\ signals = {} /\ immutables = {} /\ listens = {} /\ drives = {}
      /\ callbacks = {} /\ held = {}
  BY <1>1 DEF Inv, Loading
<1>3. /\ Configs' = Configs /\ (Sane' <=> Sane)
      /\ unread' \subseteq directory' /\ directory' \in Directories
      /\ DOMAIN cfg' = Sections /\ callbacks' \subseteq Available /\ held' \subseteq Available
      /\ immutables' \subseteq signals' /\ WiresTyped'
  <2>1. WiresTyped' <=> WiresTyped
    BY <1>1 DEF WiresTyped
  <2> QED
    BY <1>1, <1>2, <2>1, TypeSplits, SayingStays
<1>4. CASE Configs # {}
  <2>1. phase' = "construct" /\ todo' = Order
    BY <1>4 DEF EndLoad, Configs
  <2>2. TypeOK'
    BY <1>3, <2>1, TypesThen
  <2>3. Gathered'
    <3>1. Read' = Read
      BY <1>1, <1>3 DEF Read
    <3> QED
      BY <1>1, <1>2, <3>1, GatheredStays
  <2>4. /\ Order \in Seq(Listed) /\ ToSet(Order) = Listed /\ LateLast(Order)
        /\ RegulatorsListedOnce => RegulatorsDiffer(Order)
    BY <1>1, <1>2, OrderIs, RegulatorsAreDistinct DEF Gathered
  <2>5. Listed' = Listed /\ LateItems' = LateItems /\ (RegulatorsListedOnce' <=> RegulatorsListedOnce)
    BY <1>1, ListsStay, SayingStays
  <2>6. LateLast(todo)'
    BY <2>1, <2>4, <2>5 DEF LateLast
  <2>7. RegulatorsListedOnce' => RegulatorsDiffer(todo)' /\ Unregistered'
    <3>1. Unregistered'
      BY <1>1, <1>2 DEF Unregistered
    <3> QED
      BY <1>2, <2>1, <2>4, <2>5, <3>1 DEF Gathered, RegulatorsDiffer
  <2>8. HeardSet' = {} /\ DrivenSet' = {} /\ signals' = {}
    BY <1>1, <1>2 DEF HeardSet, DrivenSet
  <2>9. Building'
    BY <1>1, <1>3, <1>4, <2>1, <2>3, <2>4, <2>5, <2>6, <2>7, <2>8 DEF Building
  <2>10. Requesting'
    <3>1. (Clash' <=> ~LinesHeldOnce) /\ (LinesHeldOnce' <=> LinesHeldOnce)
      BY <1>1, <1>2, <2>1, <2>5, OrderClashes, SayingStays DEF Clash
    <3>2. held' = {}
      BY <1>1, <1>2
    <3> QED
      BY <3>1, <3>2 DEF Requesting
  <2> QED
    BY <2>1, <2>2, <2>9, <2>10 DEF Inv
<1>5. CASE Configs = {}
  <2>1. phase' = "failed" /\ todo' = <<>>
    BY <1>5 DEF EndLoad, Configs
  <2>2. TypeOK'
    BY <1>3, <2>1, TypesThen
  <2>3. ~Sane
    BY <1>5 DEF Sane, Wired
  <2> QED
    BY <1>3, <2>1, <2>2, <2>3 DEF Inv
<1> QED
  BY <1>4, <1>5

-----------------------------------------------------------------------------
(* Construction keeps the invariant. *)

(* Nothing that comes late drives the enable of an output. *)
LEMMA LateDrivesNoEnable ==
  ASSUME NEW h \in LateItems, NEW e
  PROVE  OnOf(e) \notin WritesOf(h)
<1>1. h.class \in {"Output", "Regulator"}
  BY Kinds
<1>2. \A w \in WritesOf(h) :
        w[2] \in {"Enabled", "Fault", "PowerGood", "IsDummy"}
  BY <1>1 DEF WritesOf, OutputSignals, RegulatorSignals
<1>3. OnOf(e)[2] = "On"
  BY DEF OnOf
<1> QED
  BY <1>2, <1>3

(* The objects behind the first one. *)
LEMMA TailOrder ==
  ASSUME NEW q \in Seq(Listed), q # <<>>, LateLast(q)
  PROVE  /\ Tail(q) \in Seq(Listed) /\ LateLast(Tail(q))
         /\ Head(q) \in Listed /\ ToSet(q) = {Head(q)} \cup ToSet(Tail(q))
         /\ Head(q) \in LateItems => ToSet(Tail(q)) \subseteq LateItems
         /\ RegulatorsDiffer(q) =>
              /\ RegulatorsDiffer(Tail(q))
              /\ Head(q).class = "Regulator" =>
                   \A h \in ToSet(Tail(q)) :
                     h.class = "Regulator" => h.entry.name # Head(q).entry.name
<1> DEFINE n == Len(q)
           r == Tail(q)
<1>1. /\ Head(q) = q[1] /\ n \in Nat /\ 1 \in DOMAIN q /\ DOMAIN q = 1 .. n
      /\ DOMAIN r = 1 .. n - 1 /\ \A i \in 1 .. n - 1 : r[i] = q[i + 1]
      /\ q[1] \in Listed
  OBVIOUS
<1>2. Tail(q) \in Seq(Listed) /\ ToSet(q) = {Head(q)} \cup ToSet(Tail(q))
  BY ToSetTail
<1> HIDE DEF n, r
<1>3. \A i \in DOMAIN r : i \in Nat /\ i + 1 \in DOMAIN q /\ r[i] = q[i + 1] /\ 1 < i + 1
  BY <1>1
<1>4. LateLast(r)
  <2> SUFFICES ASSUME NEW i \in DOMAIN r, NEW j \in DOMAIN r, i < j, r[i] \in LateItems
               PROVE  r[j] \in LateItems
    BY DEF LateLast
  <2>1. i + 1 < j + 1
    BY <1>3
  <2> QED
    BY <1>3, <2>1 DEF LateLast
<1>5. ASSUME q[1] \in LateItems PROVE ToSet(r) \subseteq LateItems
  BY <1>1, <1>3, <1>5 DEF LateLast, ToSet
<1>6. ASSUME RegulatorsDiffer(q)
      PROVE  RegulatorsDiffer(r)
  <2> SUFFICES ASSUME NEW i \in DOMAIN r, NEW j \in DOMAIN r,
                      r[i].class = "Regulator", r[j].class = "Regulator",
                      r[i].entry.name = r[j].entry.name
               PROVE  i = j
    BY DEF RegulatorsDiffer
  <2>1. i + 1 = j + 1
    BY <1>3, <1>6 DEF RegulatorsDiffer
  <2> QED
    BY <1>3, <2>1
<1>7. ASSUME RegulatorsDiffer(q), q[1].class = "Regulator", NEW i \in DOMAIN r,
             r[i].class = "Regulator"
      PROVE  r[i].entry.name # q[1].entry.name
  <2>1. 1 # i + 1
    BY <1>3
  <2> QED
    BY <1>1, <1>3, <1>7, <2>1 DEF RegulatorsDiffer
<1> QED
  BY <1>1, <1>2, <1>4, <1>5, <1>6, <1>7 DEF ToSet, r

(* An object that has been constructed hears and drives what its entry says. *)
LEMMA SucceedsKeepsBuilding ==
  ASSUME Building, todo # <<>>, Succeeds(Head(todo))
  PROVE  Building'
<1> DEFINE h == Head(todo)
           reads == ReadsOf(h) \cup (GatesOf(h) \cap signals)
<1>1. /\ Gathered /\ unread = {} /\ Configs # {}
      /\ todo \in Seq(Listed) /\ LateLast(todo)
      /\ RegulatorsListedOnce => RegulatorsDiffer(todo) /\ Unregistered
      /\ \A g \in Listed : g \in ToSet(todo) \/ Built(g)
      /\ \A g \in Listed : Logs(g) => g \in ToSet(todo) \/ Enabled(g)
      /\ HeardSet \subseteq Reads \cup (Gates \cap Writes) /\ DrivenSet \subseteq Writes
      /\ signals = HeardSet \cup DrivenSet
  BY DEF Building
<1>2. /\ todo' = Tail(todo) /\ UNCHANGED <<directory, unread, cfg>>
      /\ Possible(h)
      /\ HeardSet' = HeardSet \cup reads
      /\ DrivenSet' = DrivenSet \cup WritesOf(h)
      /\ signals' = signals \cup reads \cup WritesOf(h)
      /\ listens \subseteq listens'
      /\ Logs(h) /\ OnOf(h.entry) \in signals =>
           <<OnOf(h.entry), <<"LogOutput", h.entry.name>>>> \in listens'
      /\ callbacks' \subseteq callbacks
                       \cup IF h.class = "Regulator" THEN {h.entry.name} ELSE {}
  BY DEF Succeeds, Adds
<1>3. /\ todo' \in Seq(Listed) /\ LateLast(Tail(todo))
      /\ h \in Listed /\ ToSet(todo) = {h} \cup ToSet(todo')
      /\ h \in LateItems => ToSet(todo') \subseteq LateItems
      /\ RegulatorsDiffer(todo) =>
           /\ RegulatorsDiffer(Tail(todo))
           /\ h.class = "Regulator" =>
                \A g \in ToSet(todo') :
                  g.class = "Regulator" => g.entry.name # h.entry.name
  BY <1>1, <1>2, TailOrder
<1>4. /\ Configs' = Configs /\ Reads' = Reads /\ Writes' = Writes /\ Gates' = Gates
      /\ RegulatorsListedOnce' <=> RegulatorsListedOnce
      /\ Listed' = Listed /\ LateItems' = LateItems
  BY <1>2, SayingStays, ListsStay
<1> HIDE DEF h
<1>5. /\ ReadsOf(h) \subseteq Reads /\ GatesOf(h) \subseteq Gates
      /\ WritesOf(h) \subseteq Writes
  BY <1>1, <1>3, ListedIsSaid
<1>6. Gathered'
  <2>1. Read' = Read
    BY <1>2, <1>4 DEF Read
  <2> QED
    BY <1>1, <1>2, <2>1, GatheredStays
<1>7. LateLast(todo)'
  BY <1>2, <1>3, <1>4 DEF LateLast
<1>8. ASSUME RegulatorsListedOnce PROVE RegulatorsDiffer(todo)' /\ Unregistered'
  <2>1. RegulatorsDiffer(todo)'
    BY <1>1, <1>2, <1>3, <1>8 DEF RegulatorsDiffer
  <2>2. ASSUME NEW g \in ToSet(todo'), g.class = "Regulator"
        PROVE  g.entry.name \notin callbacks'
    <3>1. g.entry.name \notin callbacks
      BY <1>1, <1>3, <1>8, <2>2 DEF Unregistered
    <3>2. h.class = "Regulator" => g.entry.name # h.entry.name
      BY <1>1, <1>3, <1>8, <2>2
    <3> QED
      BY <1>2, <3>1, <3>2
  <2>3. Unregistered'
    BY <2>2 DEF Unregistered
  <2> QED
    BY <2>1, <2>3
<1>9. ASSUME NEW g \in Listed, g \notin ToSet(todo') PROVE Built(g)'
  <2>1. CASE g = h
    <3>1. Possible(h) /\ ReadsOf(h) \subseteq HeardSet' /\ WritesOf(h) \subseteq DrivenSet'
      BY <1>2
    <3> QED
      BY <2>1, <3>1 DEF Built
  <2>2. CASE g # h
    <3>1. Built(g)
      BY <1>1, <1>3, <1>9, <2>2
    <3> QED
      BY <1>2, <3>1 DEF Built
  <2> QED
    BY <2>1, <2>2
<1>10. ASSUME NEW g \in Listed, Logs(g), g \notin ToSet(todo') PROVE Enabled(g)'
  <2>1. h \in LateItems
    <3>1. CASE g = h
      <4>1. h.class = "Output"
        BY <1>10, <3>1 DEF Logs
      <4>2. h \notin EarlyItems
        BY <4>1, Kinds
      <4> QED
        BY <1>3, <4>2 DEF Listed
    <3>2. CASE g # h
      <4>1. Enabled(g)
        BY <1>1, <1>3, <1>10, <3>2
      <4> QED
        BY <1>3, <4>1 DEF Enabled
    <3> QED
      BY <3>1, <3>2
  <2>2. ToSet(todo') \subseteq LateItems'
    BY <1>3, <1>4, <2>1
  <2>3. OnOf(g.entry) \in DrivenSet' => OnOf(g.entry) \in DrivenSet
    BY <1>2, <2>1, LateDrivesNoEnable
  <2>4. ASSUME OnOf(g.entry) \in DrivenSet
        PROVE  <<OnOf(g.entry), <<"LogOutput", g.entry.name>>>> \in listens'
    <3>1. CASE g = h
      BY <1>1, <1>2, <1>10, <2>4, <3>1
    <3>2. CASE g # h
      <4>1. Enabled(g)
        BY <1>1, <1>3, <1>10, <3>2
      <4> QED
        BY <1>2, <2>4, <4>1 DEF Enabled
    <3> QED
      BY <3>1, <3>2
  <2> QED
    BY <2>2, <2>3, <2>4 DEF Enabled
<1>11. HeardSet' \subseteq Reads \cup (Gates \cap Writes) /\ DrivenSet' \subseteq Writes
  BY <1>1, <1>2, <1>5
<1>12. signals' = HeardSet' \cup DrivenSet'
  BY <1>1, <1>2
<1> QED
  BY <1>1, <1>2, <1>3, <1>4, <1>6, <1>7, <1>8, <1>9, <1>10, <1>11, <1>12 DEF Building

(* An object that has requested its line is no longer on its way to it, but holds
   it: whether two clash does not change. *)
LEMMA ClaimsKeepsRequesting ==
  ASSUME Building, Requesting, todo # <<>>, Succeeds(Head(todo)), Claims(Head(todo))
  PROVE  Requesting'
<1> DEFINE h == Head(todo)
           more == Tail(todo)
           same(g) == Keeps(g) /\ g.entry.name = h.entry.name
           two == \E a, b \in Listed :
                    Keeps(a) /\ Keeps(b) /\ a.entry.name = b.entry.name /\ Two(more, a, b)
           busy == \E g \in ToSet(more) : Keeps(g) /\ g.entry.name \in held
           next == Keeps(h) /\ \E g \in ToSet(more) : same(g)
<1>1. /\ todo' = more /\ UNCHANGED <<directory, unread, cfg>>
      /\ held' = held \cup IF Keeps(h) THEN {h.entry.name} ELSE {}
      /\ Requests(h) => h.entry.name \notin held
  BY DEF Succeeds, Claims
<1>2. /\ todo \in Seq(Listed) /\ LateLast(todo) /\ Gathered /\ unread = {}
  BY DEF Building
<1>3. /\ more \in Seq(Listed) /\ h \in Listed /\ ToSet(todo) = {h} \cup ToSet(more)
      /\ h \in LateItems => ToSet(more) \subseteq LateItems
  BY <1>2, TailOrder
<1>4. ToSet(more) \subseteq Listed
  BY <1>3 DEF ToSet
<1>5. \A a, b : Two(todo, a, b) <=>
                  \/ Two(more, a, b)
                  \/ a = h /\ b \in ToSet(more)
                  \/ b = h /\ a \in ToSet(more)
  BY <1>2, TwoTail
<1>6. Keeps(h) => Requests(h)
  BY DEF Keeps
<1> HIDE DEF h, more
<1>7. Clash <=> two \/ busy \/ next
  <2>1. (\E a, b \in Listed :
           Keeps(a) /\ Keeps(b) /\ a.entry.name = b.entry.name /\ Two(todo, a, b))
          <=> two \/ next
    <3>1. ASSUME NEW a \in Listed, NEW b \in Listed, Keeps(a), Keeps(b),
                 a.entry.name = b.entry.name, Two(todo, a, b)
          PROVE  two \/ next
      BY <1>5, <3>1
    <3>2. ASSUME two
          PROVE  \E a, b \in Listed :
                    Keeps(a) /\ Keeps(b) /\ a.entry.name = b.entry.name /\ Two(todo, a, b)
      BY <1>5, <3>2
    <3>3. ASSUME next
          PROVE  \E a, b \in Listed :
                    Keeps(a) /\ Keeps(b) /\ a.entry.name = b.entry.name /\ Two(todo, a, b)
      <4>1. PICK g \in ToSet(more) : same(g)
        BY <3>3
      <4>2. Two(todo, h, g) /\ g \in Listed
        BY <1>4, <1>5
      <4> QED
        BY <1>3, <3>3, <4>1, <4>2
    <3> QED
      BY <3>1, <3>2, <3>3
  <2>2. (\E g \in ToSet(todo) : Keeps(g) /\ g.entry.name \in held) <=> busy
    BY <1>1, <1>3, <1>6
  <2> QED
    BY <2>1, <2>2 DEF Clash
<1>8. Listed' = Listed /\ (LinesHeldOnce' <=> LinesHeldOnce)
      /\ (TestedOrHeld' <=> TestedOrHeld)
  BY <1>1, ListsStay, SayingStays
<1>9. Clash' <=> two \/ busy \/ next
  <2>1. (\E g \in ToSet(more) : Keeps(g) /\ g.entry.name \in held') <=> busy \/ next
    BY <1>1
  <2>2. Clash' <=>
          \/ two
          \/ \E g \in ToSet(more) : Keeps(g) /\ g.entry.name \in held'
    BY <1>1, <1>8 DEF Clash
  <2> QED
    BY <2>1, <2>2
<1>10. ASSUME TestedOrHeld, NEW g \in ToSet(more), Requests(g), ~Keeps(g)
       PROVE  g.entry.name \notin held'
  <2>1. g.entry.name \notin held
    BY <1>3, <1>10 DEF Requesting
  <2>2. g.class = "Input" /\ Tests(g.entry)
    BY <1>10 DEF Requests, Keeps, Holds
  <2>3. ASSUME Keeps(h) PROVE g.entry.name # h.entry.name
    <3>1. h \notin LateItems
      BY <1>3, <2>2, Kinds
    <3>2. h.class = "Input" /\ Holds(h.entry)
      BY <1>3, <2>3, <3>1, Kinds DEF Keeps, Requests, Listed
    <3>3. \A k \in Listed : k.class = "Input" => k.entry \in All("inputs")
      BY <1>2, InputsAreSaid
    <3> QED
      BY <1>3, <1>4, <1>10, <2>2, <3>2, <3>3 DEF TestedOrHeld
  <2> QED
    BY <1>1, <2>1, <2>3
<1> QED
  BY <1>1, <1>7, <1>8, <1>9, <1>10 DEF Requesting

(* A constructor only throws when the files are not sane. *)
LEMMA ConstructKeepsInv ==
  ASSUME Inv, Construct
  PROVE  Inv'
<1> DEFINE h == Head(todo)
<1>1. phase = "construct" /\ todo # <<>>
      /\ ((Succeeds(h) /\ Claims(h)) \/ Fails(h))
  BY Constructs
<1>2. TypeOK /\ Building /\ Requesting
  BY <1>1 DEF Inv
<1>3. WiresTyped' /\ immutables' \subseteq signals' /\ callbacks' \subseteq Available
  BY <1>2, ConstructKeepsTypes
<1>4. /\ directory \in Directories /\ unread \subseteq directory
      /\ DOMAIN cfg = Sections /\ held \subseteq Available
  BY <1>2, TypeSplits
<1>5. CASE Succeeds(h) /\ Claims(h)
  <2>1. UNCHANGED <<phase, directory, unread, cfg>>
    BY <1>5 DEF Succeeds
  <2>2. Building'
    BY <1>1, <1>2, <1>5, SucceedsKeepsBuilding
  <2>3. held' \subseteq Available
    <3>1. Possible(h) /\ held' = held \cup IF Keeps(h) THEN {h.entry.name} ELSE {}
      BY <1>5 DEF Succeeds, Claims
    <3> HIDE DEF h
    <3>2. Keeps(h) => h.entry.name \in Available
      BY <3>1 DEF Keeps, Requests, Possible, Missing
    <3> QED
      BY <1>4, <3>1, <3>2
  <2>4. TypeOK'
    BY <1>1, <1>3, <1>4, <2>1, <2>3, TypesThen
  <2>5. Requesting'
    BY <1>1, <1>2, <1>5, ClaimsKeepsRequesting
  <2> QED
    BY <1>1, <2>1, <2>2, <2>4, <2>5 DEF Inv
<1>6. CASE Fails(h)
  <2>1. phase' = "failed" /\ UNCHANGED <<directory, unread, cfg, held>>
        /\ (Possible(h) => \/ h.class = "Regulator" /\ h.entry.name \in callbacks
                           \/ Requests(h) /\ h.entry.name \in held)
    BY <1>6 DEF Fails, wiring
  <2>2. ASSUME Unambiguous PROVE ~Sane
    <3>1. h \in ToSet(todo) /\ h \in Listed
      BY <1>1, <1>2, TailOrder DEF Building
    <3>2. h.class = "Regulator" => h.entry.name \notin callbacks
      BY <1>2, <2>2, <3>1 DEF Building, Unregistered, Unambiguous
    <3> HIDE DEF h
    <3>3. CASE ~Possible(h)
      BY <1>2, <3>1, <3>3, ListedIsSaid DEF Building, Sane
    <3>4. CASE Keeps(h) /\ h.entry.name \in held
      BY <1>2, <3>1, <3>4 DEF Requesting, Clash, Sane
    <3>5. Requests(h) /\ ~Keeps(h) => h.entry.name \notin held
      BY <1>2, <2>2, <3>1 DEF Requesting, Unambiguous
    <3> QED
      BY <2>1, <3>2, <3>3, <3>4, <3>5
  <2>3. TypeOK'
    BY <1>3, <1>4, <2>1, TypesThen
  <2>4. (Sane' <=> Sane) /\ (Unambiguous' <=> Unambiguous)
    BY <2>1, SayingStays
  <2> QED
    BY <2>1, <2>2, <2>3, <2>4 DEF Inv
<1> QED
  BY <1>1, <1>5, <1>6

(* Nothing is on its way to a line when nothing is left to construct. *)
LEMMA DoneIsSane ==
  ASSUME Building, Requesting, todo = <<>>
  PROVE  Valid <=> Sane
<1>1. ToSet(todo) = {}
  BY ToSetSmall
<1>2. \A g, h : ~Two(todo, g, h)
  BY <1>1 DEF Two, ToSet
<1>3. LinesHeldOnce
  BY <1>1, <1>2 DEF Requesting, Clash
<1> QED
  BY <1>3, ValidIsWired DEF Sane

(* A step that neither constructs nor reads. *)
LEMMA RequestingStays ==
  ASSUME Requesting, UNCHANGED <<directory, cfg, todo, held>>
  PROVE  Requesting'
<1>1. Listed' = Listed /\ (LinesHeldOnce' <=> LinesHeldOnce)
      /\ (TestedOrHeld' <=> TestedOrHeld)
  BY ListsStay, SayingStays
<1>2. Clash' <=> Clash
  BY <1>1 DEF Clash
<1> QED
  BY <1>1, <1>2 DEF Requesting

(* Validate decides whether they are. *)
LEMMA ValidateKeepsInv ==
  ASSUME Inv, Validate
  PROVE  Inv'
<1>1. /\ phase = "construct" /\ todo = <<>>
      /\ UNCHANGED <<directory, unread, cfg, todo, wiring>>
      /\ phase' = IF Valid THEN "run" ELSE "failed"
  BY DEF Validate
<1>2. TypeOK /\ Building /\ Requesting
  BY <1>1 DEF Inv
<1>3. UNCHANGED <<signals, immutables, listens, drives, callbacks, held>>
  BY <1>1 DEF wiring
<1>4. TypeOK'
  <2>1. WiresTyped' <=> WiresTyped
    BY <1>3 DEF WiresTyped
  <2> QED
    BY <1>1, <1>2, <1>3, <2>1, TypeSplits, TypesThen
<1>5. Building'
  BY <1>1, <1>2, BuildingStays
<1>6. Requesting'
  BY <1>1, <1>2, <1>3, RequestingStays
<1>7. Valid' <=> Valid
  BY <1>1, <1>3 DEF Valid, Heard, Driven, Floating
<1>8. (Valid <=> Sane) /\ (Sane' <=> Sane)
  BY <1>1, <1>2, DoneIsSane, SayingStays
<1> QED
  BY <1>1, <1>4, <1>5, <1>6, <1>7, <1>8 DEF Inv

-----------------------------------------------------------------------------
(* The theorems. *)

(* Nothing is read, nothing is there. *)
LEMMA InitInv ==
  ASSUME Init
  PROVE  Inv
<1>1. /\ phase = "load" /\ directory \in Directories /\ unread = directory
      /\ cfg = [s \in Sections |-> <<>>] /\ todo = <<>>
      /\ signals = {} /\ immutables = {} /\ listens = {} /\ drives = {}
      /\ callbacks = {} /\ held = {}
  BY DEF Init
<1>2. TypeOK
  <2>1. WiresTyped /\ DOMAIN cfg = Sections
    BY <1>1 DEF WiresTyped
  <2> QED
    BY <1>1, <2>1, TypeSplits
<1>3. Read = {}
  BY <1>1 DEF Read, Configs
<1>4. \A s \in Sections : cfg[s] \in Seq(Entries(s)) /\ ToSet(cfg[s]) = Merged(s)
  <2>1. \A s : Merged(s) = {}
    BY <1>3 DEF Merged
  <2>2. \A s : <<>> \in Seq(Entries(s))
    OBVIOUS
  <2>3. \A s \in Sections : cfg[s] = <<>>
    BY <1>1
  <2> QED
    BY <2>1, <2>2, <2>3, ToSetSmall
<1>5. \A s \in Sections : \A e, d : Two(cfg[s], e, d) <=> TwoRead(s, e, d)
  <2>1. \A s \in Sections : cfg[s] = <<>> /\ DOMAIN cfg[s] = {}
    BY <1>1
  <2> QED
    BY <1>3, <2>1 DEF Two, TwoRead
<1>6. Gathered
  BY <1>3, <1>4, <1>5 DEF Gathered
<1> QED
  BY <1>1, <1>2, <1>6 DEF Inv, Loading

(* Nothing changes. *)
LEMMA StutterKeepsInv ==
  ASSUME Inv, UNCHANGED vars
  PROVE  Inv'
<1>1. UNCHANGED <<phase, directory, unread, cfg, todo, wiring, signals, immutables,
                  listens, drives, callbacks, held>>
  BY DEF vars, wiring
<1>2. TypeOK'
  <2>1. WiresTyped' <=> WiresTyped
    BY <1>1 DEF WiresTyped
  <2> QED
    BY <1>1, <2>1, TypeSplits, TypesThen DEF Inv
<1>3. /\ Configs' = Configs /\ (Sane' <=> Sane) /\ (Unambiguous' <=> Unambiguous)
  BY <1>1, SayingStays
<1>4. Loading => Loading'
  <2>1. Read' = Read
    BY <1>1, <1>3 DEF Read
  <2> QED
    BY <1>1, <2>1, GatheredStays DEF Loading
<1>5. Building /\ Requesting => Building' /\ Requesting'
  BY <1>1, BuildingStays, RequestingStays
<1>6. Valid' <=> Valid
  BY <1>1 DEF Valid, Heard, Driven, Floating
<1> QED
  BY <1>1, <1>2, <1>3, <1>4, <1>5, <1>6 DEF Inv

(* The invariant holds from the first file to the machine that runs. *)
LEMMA InvHolds == Spec => []Inv
<1>1. Init => Inv
  BY InitInv
<1>2. Inv /\ [Next]_vars => Inv'
  <2> SUFFICES ASSUME Inv, [Next]_vars PROVE Inv'
    OBVIOUS
  <2>1. CASE \E f \in Files : LoadFile(f)
    BY <2>1, LoadFileKeepsInv
  <2> QED
    BY <2>1, EndLoadKeepsInv, ConstructKeepsInv, ValidateKeepsInv, StutterKeepsInv
       DEF Next
<1> QED
  BY <1>1, <1>2, PTL DEF Spec

(* The state of start-up has its types: whoever hears or drives a signal is an
   object of a known class, and the signal is in SignalProvider. *)
THEOREM TypeCorrect == Spec => []TypeOK
<1>1. Inv => TypeOK
  BY DEF Inv
<1> QED
  BY <1>1, InvHolds, PTL

(* Whether the program runs is a matter of what the files of the directory say,
   in whatever order they are found and in the order in which main constructs the
   objects: the program runs only with files that are sane, and with sane files
   it never fails, if they list each regulator once and no line as two inputs of
   which one is tested and the other held. *)
THEOREM OrderDecidesNothing == Spec => []OutcomeIsOrderFree
<1>1. Inv => OutcomeIsOrderFree
  <2> SUFFICES ASSUME Inv PROVE OutcomeIsOrderFree
    OBVIOUS
  <2>1. ASSUME phase = "run" PROVE Sane
    BY <2>1, DoneIsSane DEF Inv
  <2> QED
    BY <2>1 DEF Inv, OutcomeIsOrderFree
<1> QED
  BY <1>1, InvHolds, PTL

(* A LogOutput that only listens to its enable when it finds it misses none: in
   a machine that runs, whatever drives it has been constructed before. *)
THEOREM LogOutputsAreEnabled == Spec => []EnablesAreFound
<1>1. Inv => EnablesAreFound
  <2> SUFFICES ASSUME Inv, phase = "run", NEW e \in ToSet(cfg.outputs),
                      e.type = "logging", <<e.name, "On">> \in signals
               PROVE  <<<<e.name, "On">>, <<"LogOutput", e.name>>>> \in listens
    BY DEF EnablesAreFound
  <2> DEFINE h == Item("Output", e)
  <2>1. Building /\ todo = <<>> /\ Valid
    BY DEF Inv
  <2>2. h \in Listed /\ h.class = "Output" /\ h.entry = e
    BY DEF Item, Listed, LateItems, ItemsOf
  <2> HIDE DEF h
  <2>3. Enabled(h)
    <3>1. ToSet(todo) = {}
      BY <2>1, ToSetSmall
    <3> QED
      BY <2>1, <2>2, <3>1 DEF Building, Logs
  <2>4. <<e.name, "On">> \in DrivenSet
    BY <2>1 DEF Valid, Driven, DrivenSet
  <2> QED
    BY <2>2, <2>3, <2>4 DEF Enabled, OnOf
<1> QED
  BY <1>1, InvHolds, PTL

-----------------------------------------------------------------------------
(* Which regulators have events, and which leave a dead listener behind. *)

(* The directories are there, but the socket is not. *)
Haunts(r) ==
  "dummy" \notin r.options /\ InSysfs(r.name) /\ ~GetNetlinkRegulatorEvents

Ghost(r) == <<"VoltageRegulator", r.name>>

Ghosts == {Ghost(r) : r \in {q \in All("regulators") : Haunts(q)}}
Served == {r.name : r \in {q \in All("regulators") : Lives(q)}}

RegulatorItems == ItemsOf("Regulator", "regulators")

(* What the regulators that have been constructed, or replaced, have left. *)
Accounted ==
  /\ \A n \in callbacks : \E h \in RegulatorItems : Lives(h.entry) /\ n = h.entry.name
  /\ \A h \in RegulatorItems :
        Lives(h.entry) => h \in ToSet(todo) \/ h.entry.name \in callbacks
  /\ RegulatorsListedOnce =>
       \A d \in dead : \E h \in RegulatorItems : Haunts(h.entry) /\ d = Ghost(h.entry)
  /\ \A h \in RegulatorItems :
        Haunts(h.entry) => h \in ToSet(todo) \/ Ghost(h.entry) \in dead
  /\ \A d \in dead : \E w \in listens : w[2] = d

AccountInv ==
  /\ phase = "load" => dead = {}
  /\ phase \in {"construct", "run"} => Accounted

(* A step that constructs no regulator changes nothing of that. *)
LEMMA AccountStays ==
  ASSUME Accounted, NEW h, ToSet(todo) \subseteq {h} \cup ToSet(todo'),
         h \notin RegulatorItems, listens \subseteq listens',
         UNCHANGED <<directory, cfg, callbacks, dead>>
  PROVE  Accounted'
<1>1. RegulatorItems' = RegulatorItems /\ (RegulatorsListedOnce' <=> RegulatorsListedOnce)
  BY SayingStays DEF RegulatorItems, ItemsOf
<1>2. \A d \in dead : \E w \in listens' : w[2] = d
  BY DEF Accounted
<1>3. \A g \in RegulatorItems : g \in ToSet(todo) => g \in ToSet(todo')
  OBVIOUS
<1>4. /\ \A n \in callbacks' :
            \E g \in RegulatorItems' : Lives(g.entry) /\ n = g.entry.name
      /\ \A g \in RegulatorItems' :
            Lives(g.entry) => g \in ToSet(todo') \/ g.entry.name \in callbacks'
  BY <1>1, <1>3 DEF Accounted
<1>5. /\ RegulatorsListedOnce' =>
           \A d \in dead' : \E g \in RegulatorItems' : Haunts(g.entry) /\ d = Ghost(g.entry)
      /\ \A g \in RegulatorItems' :
            Haunts(g.entry) => g \in ToSet(todo') \/ Ghost(g.entry) \in dead'
  BY <1>1, <1>3 DEF Accounted
<1> QED
  BY <1>2, <1>4, <1>5 DEF Accounted

(* A regulator is constructed or replaced. *)
LEMMA RegulatorAccounted ==
  ASSUME Accounted, Building,
         ConstructRegulator \/ ConstructDummy \/ ReplaceRegulator
  PROVE  Accounted'
<1> DEFINE h == Head(todo)
           n == h.entry.name
           R == RegulatorItems
<1>1. /\ Entry = h.entry /\ Entry.name = n /\ h.class = "Regulator"
      /\ todo # <<>> /\ todo' = Tail(todo) /\ UNCHANGED <<directory, unread, cfg>>
  BY DEF Entry, ConstructRegulator, ConstructDummy, ReplaceRegulator, Next_, Done
<1>2. /\ h \in Listed /\ ToSet(todo) = {h} \cup ToSet(todo') /\ h \in ToSet(todo)
  BY <1>1, TailOrder DEF Building
<1>3. R' = R /\ (RegulatorsListedOnce' <=> RegulatorsListedOnce)
  BY <1>1, SayingStays DEF RegulatorItems, ItemsOf
<1> HIDE DEF h
<1>4. h \in R
  <2>1. \A c, s : \A g \in ItemsOf(c, s) : g.class = c
    BY DEF ItemsOf, Item
  <2>2. TheACPIStates.class = "ACPIStates"
    BY DEF TheACPIStates
  <2> QED
    BY <1>1, <1>2, <2>1, <2>2 DEF Listed, EarlyItems, LateItems, RegulatorItems
<1> HIDE DEF R
<1>5. /\ \A m \in callbacks : \E g \in R : Lives(g.entry) /\ m = g.entry.name
      /\ \A g \in R : Lives(g.entry) => g \in ToSet(todo) \/ g.entry.name \in callbacks
      /\ RegulatorsListedOnce =>
           \A d \in dead : \E g \in R : Haunts(g.entry) /\ d = Ghost(g.entry)
      /\ \A g \in R : Haunts(g.entry) => g \in ToSet(todo) \/ Ghost(g.entry) \in dead
      /\ \A d \in dead : \E w \in listens : w[2] = d
  BY DEF Accounted, R
<1>6. CASE ConstructRegulator
  <2>1. /\ Lives(h.entry) /\ ~Haunts(h.entry) /\ callbacks' = callbacks \cup {n}
        /\ dead' = dead /\ listens \subseteq listens'
    BY <1>1, <1>6 DEF ConstructRegulator, Registers, WireRegulator, Wire, Lives, Haunts
  <2>2. \A m \in callbacks' : \E g \in R : Lives(g.entry) /\ m = g.entry.name
    BY <1>4, <1>5, <2>1
  <2>3. \A g \in R : Lives(g.entry) => g \in ToSet(todo') \/ g.entry.name \in callbacks'
    BY <1>2, <1>5, <2>1
  <2>4. \A g \in R : Haunts(g.entry) => g \in ToSet(todo') \/ Ghost(g.entry) \in dead'
    BY <1>2, <1>5, <2>1
  <2>5. \A d \in dead' : \E w \in listens' : w[2] = d
    BY <1>5, <2>1
  <2> QED
    BY <1>3, <1>5, <2>1, <2>2, <2>3, <2>4, <2>5 DEF Accounted, R
<1>7. CASE ConstructDummy
  <2>1. /\ ~Lives(h.entry) /\ ~Haunts(h.entry) /\ UNCHANGED <<callbacks, dead>>
        /\ listens \subseteq listens'
    BY <1>1, <1>7 DEF ConstructDummy, WireRegulator, Wire, Lives, Haunts
  <2>2. \A g \in R : Lives(g.entry) => g \in ToSet(todo') \/ g.entry.name \in callbacks'
    BY <1>2, <1>5, <2>1
  <2>3. \A g \in R : Haunts(g.entry) => g \in ToSet(todo') \/ Ghost(g.entry) \in dead'
    BY <1>2, <1>5, <2>1
  <2>4. \A d \in dead' : \E w \in listens' : w[2] = d
    BY <1>5, <2>1
  <2> QED
    BY <1>3, <1>5, <2>1, <2>2, <2>3, <2>4 DEF Accounted, R
<1>8. CASE ReplaceRegulator
  <2>1. /\ "dummy" \notin h.entry.options /\ ~(InSysfs(n) /\ Registers(n))
        /\ callbacks' = callbacks
        /\ dead' = dead \cup {w[2] : w \in LeftBehind(n)}
        /\ listens \cup LeftBehind(n) \subseteq listens'
    BY <1>1, <1>8 DEF ReplaceRegulator
  <2>2. {w[2] : w \in LeftBehind(n)} = IF InSysfs(n) THEN {Ghost(h.entry)} ELSE {}
    <3>1. CASE InSysfs(n)
      <4>1. LeftBehind(n) = {<<<<n, "On">>, <<"VoltageRegulator", n>>>>}
        BY <3>1 DEF LeftBehind
      <4> QED
        BY <3>1, <4>1 DEF Ghost
    <3>2. CASE ~InSysfs(n)
      BY <3>2 DEF LeftBehind
    <3> QED
      BY <3>1, <3>2
  <2>3. Lives(h.entry) => n \in callbacks
    BY <2>1 DEF Lives, Registers
  <2>4. RegulatorsListedOnce => n \notin callbacks
    BY <1>1, <1>2 DEF Building, Unregistered
  <2>5. RegulatorsListedOnce /\ InSysfs(n) => Haunts(h.entry)
    BY <2>1, <2>4 DEF Haunts, Registers
  <2>6. Haunts(h.entry) => Ghost(h.entry) \in dead'
    BY <2>1, <2>2 DEF Haunts
  <2>7. \A g \in R : Lives(g.entry) => g \in ToSet(todo') \/ g.entry.name \in callbacks'
    BY <1>2, <1>5, <2>1, <2>3
  <2>8. \A g \in R : Haunts(g.entry) => g \in ToSet(todo') \/ Ghost(g.entry) \in dead'
    BY <1>2, <1>5, <2>1, <2>6
  <2>9. RegulatorsListedOnce => \A d \in dead' : \E g \in R : Haunts(g.entry) /\ d = Ghost(g.entry)
    BY <1>4, <1>5, <2>1, <2>2, <2>5
  <2>10. \A d \in dead' : \E w \in listens' : w[2] = d
    <3>1. \A d \in {w[2] : w \in LeftBehind(n)} : \E w \in LeftBehind(n) : w[2] = d
      OBVIOUS
    <3> QED
      BY <1>5, <2>1, <3>1
  <2> QED
    BY <1>3, <1>5, <2>1, <2>7, <2>8, <2>9, <2>10 DEF Accounted, R
<1> QED
  BY <1>6, <1>7, <1>8

(* Everything else that is constructed has no part in it. *)
LEMMA ConstructAccounted ==
  ASSUME Accounted, Building, Construct
  PROVE  AccountInv'
<1>1. CASE ConstructRegulator \/ ConstructDummy \/ ReplaceRegulator
  BY <1>1, RegulatorAccounted
     DEF AccountInv, ConstructRegulator, ConstructDummy, ReplaceRegulator, Next_, Done
<1>2. CASE FailDriver \/ FailRegulator
  BY <1>2 DEF FailDriver, FailRegulator, Throw, AccountInv
<1>3. CASE \/ ConstructImmutable \/ ConstructACPIStates \/ ConstructLogic
           \/ ConstructInput \/ ConstructOutput \/ ConstructLogOutput
  <2>1. /\ phase = "construct" /\ todo # <<>> /\ Head(todo).class # "Regulator"
        /\ Done /\ UNCHANGED <<callbacks, dead>>
    BY <1>3 DEF ConstructImmutable, ConstructACPIStates, ConstructLogic,
                ConstructInput, ConstructOutput, ConstructLogOutput, Next_
  <2>2. listens \subseteq listens'
    BY <1>3 DEF ConstructImmutable, ConstructACPIStates, ConstructLogic,
                ConstructInput, ConstructOutput, ConstructLogOutput, Wire
  <2>3. ToSet(todo) = {Head(todo)} \cup ToSet(todo')
    BY <2>1, TailOrder DEF Building, Done
  <2>4. Head(todo) \notin RegulatorItems
    BY <2>1 DEF RegulatorItems, ItemsOf, Item
  <2> QED
    BY <2>1, <2>2, <2>3, <2>4, AccountStays DEF AccountInv, Done
<1> QED
  BY <1>1, <1>2, <1>3 DEF Construct

(* The account is kept from the first file to the machine that runs. *)
LEMMA AccountHolds == Spec => [](Inv /\ AccountInv)
<1>1. Init => AccountInv
  BY DEF Init, AccountInv
<1>2. Inv /\ AccountInv /\ [Next]_vars => AccountInv'
  <2> SUFFICES ASSUME Inv, AccountInv, [Next]_vars PROVE AccountInv'
    OBVIOUS
  <2>1. CASE \E f \in Files : LoadFile(f)
    BY <2>1 DEF LoadFile, wiring, AccountInv
  <2>2. CASE EndLoad
    <3>1. CASE phase' = "construct"
      <4>1. /\ Loading /\ dead' = {} /\ callbacks' = {} /\ listens' = {}
            /\ todo' = Order /\ cfg' = cfg /\ directory' = directory
        BY <2>2, <3>1 DEF EndLoad, wiring, Inv, AccountInv, Loading
      <4>2. ToSet(Order) = Listed
        BY <4>1, OrderIs DEF Loading, Gathered
      <4>3. RegulatorItems' = RegulatorItems /\ RegulatorItems \subseteq Listed
        BY <4>1 DEF RegulatorItems, ItemsOf, Listed, LateItems
      <4>4. Accounted'
        BY <4>1, <4>2, <4>3 DEF Accounted
      <4> QED
        BY <3>1, <4>4 DEF AccountInv
    <3>2. CASE phase' = "failed"
      BY <3>2 DEF AccountInv
    <3> QED
      BY <2>2, <3>1, <3>2 DEF EndLoad
  <2>3. CASE Construct
    BY <2>3, Constructs, ConstructAccounted DEF Inv, AccountInv
  <2>4. ASSUME Accounted, UNCHANGED <<directory, cfg, todo, listens, callbacks, dead>>
        PROVE  Accounted'
    <3>1. TheACPIStates \notin RegulatorItems
      BY DEF TheACPIStates, RegulatorItems, ItemsOf, Item
    <3> QED
      BY <2>4, <3>1, AccountStays
  <2>5. CASE Validate
    BY <2>4, <2>5 DEF Validate, wiring, AccountInv
  <2>6. CASE UNCHANGED vars
    BY <2>4, <2>6 DEF vars, wiring, AccountInv
  <2> QED
    BY <2>1, <2>2, <2>3, <2>5, <2>6 DEF Next
<1> QED
  BY <1>1, <1>2, InvHolds, PTL DEF Spec

(* What the account says of a machine that runs. *)
LEMMA AccountSettled ==
  ASSUME Inv, AccountInv, phase = "run"
  PROVE  /\ callbacks = Served
         /\ RegulatorsListedOnce => dead = Ghosts
         /\ \A d \in dead : \E w \in listens : w[2] = d
<1>1. Accounted /\ Gathered /\ unread = {} /\ ToSet(todo) = {}
  BY ToSetSmall DEF Inv, AccountInv, Building
<1>2. ToSet(cfg.regulators) = All("regulators")
  BY <1>1, AllIsMerged, SectionsAre
<1>3. /\ \A h \in RegulatorItems : h.entry \in All("regulators")
      /\ \A r \in All("regulators") : \E h \in RegulatorItems : h.entry = r
  <2>1. \A e : Item("Regulator", e).entry = e
    BY DEF Item
  <2>2. /\ \A h \in RegulatorItems :
              \E e \in ToSet(cfg["regulators"]) : h = Item("Regulator", e)
        /\ \A e \in ToSet(cfg["regulators"]) : Item("Regulator", e) \in RegulatorItems
    BY DEF RegulatorItems, ItemsOf
  <2>3. ToSet(cfg["regulators"]) = All("regulators")
    BY <1>2
  <2> QED
    BY <2>1, <2>2, <2>3
<1>4. callbacks = Served
  <2>1. \A n \in callbacks : n \in Served
    BY <1>1, <1>3 DEF Accounted, Served
  <2>2. \A r \in All("regulators") : Lives(r) => r.name \in callbacks
    BY <1>1, <1>3 DEF Accounted
  <2> QED
    BY <2>1, <2>2 DEF Served
<1>5. ASSUME RegulatorsListedOnce PROVE dead = Ghosts
  <2>1. \A d \in dead : d \in Ghosts
    BY <1>1, <1>3, <1>5 DEF Accounted, Ghosts
  <2>2. \A r \in All("regulators") : Haunts(r) => Ghost(r) \in dead
    BY <1>1, <1>3 DEF Accounted
  <2> QED
    BY <2>1, <2>2 DEF Ghosts
<1> QED
  BY <1>1, <1>4, <1>5 DEF Accounted

(* In a machine that runs, Netlink calls exactly the regulators that are there,
   whether or not a regulator is listed twice: none that is there is without
   events, and none that was replaced gets any. *)
THEOREM EventsAreServed == Spec => [](phase = "run" => callbacks = Served)
BY AccountHolds, AccountSettled, PTL

(* The listener that a constructor leaves behind when it throws, at
   VoltageRegulator.cpp:301, is all that a missing Netlink socket costs: with
   files that list each regulator once, a machine that runs has a dead listener
   for each regulator whose directories are there while the socket is not, and
   no other. *)
THEOREM DeadListenersAreGhosts ==
  Spec => [](RegulatorsListedOnce /\ phase = "run" => (OnlyTheLivingListen <=> Ghosts = {}))
<1>1. Inv /\ AccountInv =>
        (RegulatorsListedOnce /\ phase = "run" => (OnlyTheLivingListen <=> Ghosts = {}))
  <2> SUFFICES ASSUME Inv, AccountInv, RegulatorsListedOnce, phase = "run"
               PROVE  OnlyTheLivingListen <=> Ghosts = {}
    OBVIOUS
  <2>1. dead = Ghosts /\ \A d \in dead : \E w \in listens : w[2] = d
    BY AccountSettled
  <2> QED
    BY <2>1 DEF OnlyTheLivingListen
<1> QED
  BY <1>1, AccountHolds, PTL

(* So with a socket only objects that have been constructed listen. *)
THEOREM WithSocketOnlyTheLivingListen ==
  ASSUME Netlink
  PROVE  Spec => [](RegulatorsListedOnce => OnlyTheLivingListen)
<1>1. Ghosts = {}
  BY DEF Ghosts, Haunts, GetNetlinkRegulatorEvents
<1>2. ~(phase = "run") => OnlyTheLivingListen
  BY DEF OnlyTheLivingListen
<1> QED
  BY <1>1, <1>2, DeadListenersAreGhosts, PTL
=============================================================================

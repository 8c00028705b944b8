-------------------------- MODULE ACPIStatesProofs --------------------------
(***************************************************************************)
(* Proofs about ACPIStates, for a user and a mainboard that do what they   *)
(* like, whenever they like: the types, and that D-Bus publishes what the  *)
(* signals say whenever nothing is queued.                                 *)
(*                                                                         *)
(* The state that is published may be stale only as long as a signal that  *)
(* ACPIStates listens to is dirty; and as long as any signal is dirty, an  *)
(* evaluation is queued.  Both halves are needed: an evaluation that finds *)
(* only request signals dirty publishes nothing, which is right only       *)
(* because the requests have published already.                            *)
(*                                                                         *)
(* The second part is about a patient user and an obedient mainboard: that *)
(* the halves of a request are in sequence, that the request is carried    *)
(* out, and that a steady state is a row of the table.  What io has to do  *)
(* then takes a few shapes only, which PatientInv names.                   *)
(***************************************************************************)
EXTENDS ACPIStates, QueueLemmas, FiniteSetTheorems

-----------------------------------------------------------------------------
(* The invariant. *)

Listed == dirty # {} => EvaluateState \in ToSet(ioQueue)

Stale == dirty \cap Observed # {}
Fresh ==
  ~Stale /\ GetCurrent(level) # Invalid => dbus = Report(level, GetCurrent(level))

Inv == TypeOK /\ Listed /\ Fresh

Levels == [Signals -> {Undefined, 0, 1}]

-----------------------------------------------------------------------------
(* The operators. *)

(* The current state is a level or Invalid. *)
LEMMA CurrentType ==
  ASSUME NEW lv
  PROVE  GetCurrent(lv) \in ACPILevel \cup {Invalid}
<1> DEFINE on == {l \in ACPILevel : lv[l] = 1}
<1>1. ASSUME Cardinality(on) = 1
      PROVE  (CHOOSE l \in on : TRUE) \in ACPILevel
  <2>1. on # {}
    BY <1>1, FS_EmptySet
  <2> QED
    BY <2>1
<1>2. GetCurrent(lv)
        = IF \E l \in ACPILevel : lv[l] = Undefined THEN "G3"
          ELSE IF Cardinality(on) = 1 THEN CHOOSE l \in on : TRUE ELSE Invalid
  BY DEF GetCurrent
<1> HIDE DEF on
<1>3. "G3" \in ACPILevel
  BY DEF ACPILevel
<1> QED
  BY <1>1, <1>2, <1>3

(* Every level has something to publish. *)
LEMMA ReportType ==
  ASSUME NEW lv, NEW l \in ACPILevel
  PROVE  Report(lv, l) \in Published
<1>1. CASE l = "S0"
  BY <1>1 DEF Report, Published, HostState
<1>2. CASE l \in {"S3", "S5"}
  BY <1>2 DEF Report, Published, HostState
<1>3. CASE l = "G3"
  BY <1>3 DEF Report, Published, HostState
<1> QED
  BY <1>1, <1>2, <1>3 DEF ACPILevel

(* Update publishes what the levels say. *)
LEMMA UpdatePublishes ==
  ASSUME TypeOK, NEW lv, Update(lv)
  PROVE  /\ lastLevel' \in ACPILevel \cup {Invalid}
         /\ dbus' \in Published
         /\ idle' \in BOOLEAN
         /\ GetCurrent(lv) # Invalid => dbus' = Report(lv, GetCurrent(lv))
<1>1. GetCurrent(lv) \in ACPILevel \cup {Invalid}
  BY CurrentType
<1>2. /\ lastLevel' = GetCurrent(lv)
      /\ dbus' = IF GetCurrent(lv) = Invalid THEN dbus
                 ELSE Report(lv, GetCurrent(lv))
      /\ idle' \in BOOLEAN
  BY DEF Update
<1>3. GetCurrent(lv) # Invalid => Report(lv, GetCurrent(lv)) \in Published
  BY <1>1, ReportType
<1> QED
  BY <1>1, <1>2, <1>3 DEF TypeOK

(* There are finitely many signals. *)
LEMMA SignalsAreFinite == IsFiniteSet(Signals)
<1>1. IsFiniteSet({} \cup {"G3"} \cup {"S5"} \cup {"S3"} \cup {"S0"})
  BY FS_EmptySet, FS_AddElement
<1>2. ASSUME NEW S, IsFiniteSet(S)
      PROVE  IsFiniteSet(S \cup {"host"} \cup {"chassis"} \cup {"post"})
  BY <1>2, FS_AddElement
<1>3. Signals = ({} \cup {"G3"} \cup {"S5"} \cup {"S3"} \cup {"S0"})
                  \cup {"host"} \cup {"chassis"} \cup {"post"}
  BY DEF Signals, ACPILevel
<1> QED
  BY <1>1, <1>2, <1>3, Zenon

(* The evaluations that SetLevel posts: one at least if a signal becomes
   dirty. *)
LEMMA EvaluationsType ==
  ASSUME NEW new, DOMAIN new \subseteq Signals
  PROVE  /\ Evaluations(new) \in Seq(Handler)
         /\ Changed(new) \ dirty # {} => EvaluateState \in ToSet(Evaluations(new))
<1> DEFINE S == Changed(new) \ dirty
           n == Cardinality(S)
<1>1. IsFiniteSet(S)
  BY SignalsAreFinite, FS_Subset DEF Changed
<1>2. n \in Nat /\ (S # {} => n # 0)
  BY <1>1, FS_CardinalityType, FS_EmptySet
<1>3. Evaluations(new) = [i \in 1 .. n |-> EvaluateState]
  BY DEF Evaluations
<1> HIDE DEF n
<1>4. EvaluateState \in Handler
  BY DEF Handler
<1>5. Evaluations(new) \in Seq(Handler)
  BY <1>2, <1>3, <1>4
<1>6. ASSUME S # {} PROVE EvaluateState \in ToSet(Evaluations(new))
  <2>1. 1 \in DOMAIN Evaluations(new) /\ Evaluations(new)[1] = EvaluateState
    BY <1>2, <1>3, <1>6
  <2> QED
    BY <2>1 DEF ToSet
<1> QED
  BY <1>5, <1>6

(* What is posted is a handler. *)
LEMMA KnownHandlers ==
  /\ EvaluateState \in Handler /\ PowerCycleTimer \in Handler
  /\ IdleTimer \in Handler
  /\ \A r \in Requests : Requested(r) \in Handler
  /\ \A s \in Observed, v \in {0, 1} : SetLevelTo(s, v) \in Handler
  /\ {PostRequest("host", 1), PostRequest("chassis", 0)} \subseteq Handler
  /\ {Request("host", 1), Request("chassis", 0)} \subseteq Handler
BY DEF Handler

(* A handler is of one of these kinds. *)
LEMMA KindsOfHandlers ==
  \A h \in Handler :
    \/ h \in {EvaluateState, PowerCycleTimer, IdleTimer}
    \/ \E r \in Requests : h = Requested(r)
    \/ \E s \in Observed, v \in {0, 1} : h = SetLevelTo(s, v)
    \/ h \in {PostRequest("host", 1), PostRequest("chassis", 0),
              Request("host", 1), Request("chassis", 0)}
BY DEF Handler

(* Only a request to switch the host on, or the chassis off, is posted. *)
LEMMA PostedRequests ==
  ASSUME NEW s, NEW v, PostRequest(s, v) \in Handler \/ Request(s, v) \in Handler
  PROVE  (s = "host" /\ v = 1) \/ (s = "chassis" /\ v = 0)
<1> USE DEF PostRequest, Request
<1>1. \A h \in Handler :
        h.op \in {"post", "half"} =>
          h \in {PostRequest("host", 1), PostRequest("chassis", 0),
                 Request("host", 1), Request("chassis", 0)}
  <2>1. \A h \in {EvaluateState, PowerCycleTimer, IdleTimer} :
          h.op \notin {"post", "half"}
    <3>1. /\ EvaluateState.op = "evaluate" /\ PowerCycleTimer.op = "cycle timer"
          /\ IdleTimer.op = "idle timer"
      BY DEF EvaluateState, PowerCycleTimer, IdleTimer
    <3> QED
      BY <3>1
  <2>2. \A r : Requested(r).op \notin {"post", "half"}
    BY DEF Requested
  <2>3. \A x, y : SetLevelTo(x, y).op \notin {"post", "half"}
    BY DEF SetLevelTo
  <2> QED
    BY <2>1, <2>2, <2>3, KindsOfHandlers
<1>2. CASE PostRequest(s, v) \in Handler
  <2>1. PostRequest(s, v).op = "post"
    OBVIOUS
  <2>2. PostRequest(s, v) \in {PostRequest("host", 1), PostRequest("chassis", 0),
                               Request("host", 1), Request("chassis", 0)}
    BY <1>1, <1>2, <2>1
  <2>3. PostRequest(s, v).signal = s /\ PostRequest(s, v).value = v
    OBVIOUS
  <2> QED
    BY <2>2, <2>3
<1>3. CASE Request(s, v) \in Handler
  <2>1. Request(s, v).op = "half"
    OBVIOUS
  <2>2. Request(s, v) \in {PostRequest("host", 1), PostRequest("chassis", 0),
                           Request("host", 1), Request("chassis", 0)}
    BY <1>1, <1>3, <2>1
  <2>3. Request(s, v).signal = s /\ Request(s, v).value = v
    OBVIOUS
  <2> QED
    BY <2>2, <2>3
<1> QED
  BY <1>2, <1>3

(* What the cancelled timer of the power cycle posts is a list of handlers. *)
LEMMA CancelledType ==
  ASSUME NEW lv
  PROVE  IfCancelled(lv) \in Seq(Handler)
BY KnownHandlers DEF IfCancelled

(* Setting signals that are not Undefined afterwards. *)
LEMMA LevelsStay ==
  ASSUME TypeOK, NEW new, DOMAIN new \subseteq Signals,
         \A s \in DOMAIN new : new[s] \in {0, 1}, SetLevels(new)
  PROVE  level' \in Levels /\ dirty' \subseteq Signals
BY DEF TypeOK, Levels, SetLevels, With, Changed

-----------------------------------------------------------------------------
(* The steps. *)

(* A handler other than EvaluateState runs and appends to the queue. *)
LEMMA ListedStays ==
  ASSUME TypeOK, Listed, NEW p \in Seq(Handler), NEW q \in Seq(Handler),
         \/ q = ioQueue
         \/ ioQueue # <<>> /\ q = Tail(ioQueue) /\ Head(ioQueue) # EvaluateState,
         ioQueue' = q \o p,
         dirty' # {} => dirty # {} \/ EvaluateState \in ToSet(p)
  PROVE  ioQueue' \in Seq(Handler) /\ Listed'
<1>1. ioQueue' \in Seq(Handler)
  OBVIOUS
<1>2. ToSet(ioQueue') = ToSet(q) \cup ToSet(p)
  BY ToSetConcat
<1>3. EvaluateState \in ToSet(ioQueue) => EvaluateState \in ToSet(q)
  BY ToSetTail DEF TypeOK
<1> QED
  BY <1>1, <1>2, <1>3 DEF Listed

(* What SetAndUpdate is given. *)
Setting(new) ==
  DOMAIN new \subseteq {"host", "chassis"} /\ \A s \in DOMAIN new : new[s] \in {0, 1}

(* A handler that sets signals and calls Update keeps the invariant. *)
LEMMA SetAndUpdateStep ==
  ASSUME Inv, NEW new, Setting(new), NEW posts \in Seq(Handler),
         ioQueue # <<>>, Head(ioQueue) # EvaluateState, SetAndUpdate(new, posts),
         powerCycle' \in BOOLEAN, cycleFailed' \in BOOLEAN
  PROVE  Inv'
<1> USE DEF Inv
<1>1. /\ SetLevels(new) /\ Update(With(new))
      /\ ioQueue' = Tail(ioQueue) \o Evaluations(new) \o IfCancelled(With(new))
                      \o posts
      /\ UNCHANGED <<history, driven, acpi>>
  BY DEF SetAndUpdate
<1>2. DOMAIN new \subseteq Signals
  BY DEF Setting, Signals
<1>3. level' \in Levels /\ dirty' \subseteq Signals
  BY <1>1, <1>2, LevelsStay DEF Setting
<1>4. level' = With(new) /\ dirty' = dirty \cup Changed(new)
  BY <1>1 DEF SetLevels
<1>5. /\ lastLevel' \in ACPILevel \cup {Invalid}
      /\ dbus' \in Published /\ idle' \in BOOLEAN
      /\ GetCurrent(level') # Invalid => dbus' = Report(level', GetCurrent(level'))
  BY <1>1, <1>4, UpdatePublishes
<1>6. ioQueue' \in Seq(Handler) /\ Listed'
  <2> DEFINE q == Tail(ioQueue)
             a == Evaluations(new)
             b == IfCancelled(With(new))
             ab == a \o b
             p == ab \o posts
             qa == q \o a
             qab == q \o ab
  <2>1. q \in Seq(Handler)
    <3>1. ioQueue \in Seq(Handler)
      BY DEF TypeOK
    <3> QED
      BY <3>1
  <2>2. /\ a \in Seq(Handler)
        /\ Changed(new) \ dirty # {} => EvaluateState \in ToSet(a)
    BY <1>2, EvaluationsType
  <2>3. b \in Seq(Handler)
    BY CancelledType
  <2>4. ioQueue' = (qa \o b) \o posts
    BY <1>1
  <2> HIDE DEF a, b, q
  <2>5. /\ ioQueue' = q \o p /\ p \in Seq(Handler)
        /\ ToSet(p) = ToSet(a) \cup ToSet(b) \cup ToSet(posts)
    <3>1. qa \o b = qab
      BY <2>1, <2>2, <2>3, ConcatAssociative
    <3>2. ab \in Seq(Handler) /\ ToSet(ab) = ToSet(a) \cup ToSet(b)
      BY <2>2, <2>3, ToSetConcat
    <3> HIDE DEF ab
    <3>3. qab \o posts = q \o p
      BY <2>1, <3>2, ConcatAssociative
    <3>4. p \in Seq(Handler) /\ ToSet(p) = ToSet(ab) \cup ToSet(posts)
      BY <3>2, ToSetConcat
    <3> HIDE DEF p, qa, qab
    <3>5. ioQueue' = qab \o posts
      BY <2>4, <3>1
    <3> QED
      BY <3>2, <3>3, <3>4, <3>5
  <2>6. dirty' # {} => dirty # {} \/ EvaluateState \in ToSet(p)
    BY <1>4, <2>2, <2>5
  <2> HIDE DEF p
  <2> QED
    BY <2>1, <2>5, <2>6, ListedStays DEF q
<1>7. Fresh'
  BY <1>5 DEF Fresh
<1>8. TypeOK'
  BY <1>1, <1>3, <1>5, <1>6 DEF TypeOK, Levels, history
<1> QED
  BY <1>6, <1>7, <1>8

(* A handler that only posts others, or none. *)
LEMMA PostsOnly ==
  ASSUME Inv, NEW p \in Seq(Handler), NEW q \in Seq(Handler),
         \/ q = ioQueue
         \/ ioQueue # <<>> /\ q = Tail(ioQueue) /\ Head(ioQueue) # EvaluateState,
         ioQueue' = q \o p,
         UNCHANGED <<level, dirty, lastLevel, dbus, driven>>,
         powerCycle' \in BOOLEAN, idle' \in BOOLEAN, cycleFailed' \in BOOLEAN,
         asked' \in Requests \cup {""}, errors' \in 0 .. MaxErrors,
         after' \in {"none", "rest", "handlers", "cycle"}, acpi' \in ACPILevel
  PROVE  Inv'
<1> USE DEF Inv
<1>1. ioQueue' \in Seq(Handler) /\ Listed'
  BY ListedStays
<1>2. TypeOK'
  BY <1>1 DEF TypeOK
<1>3. Fresh'
  BY DEF Fresh, Stale
<1> QED
  BY <1>1, <1>2, <1>3

(* The requests. *)
LEMMA RequestSteps ==
  ASSUME Inv,
         \/ RequestedHostOff \/ RequestedHostOn \/ RequestedOff \/ RequestedOn
         \/ RequestedPowerCycle
  PROVE  Inv'
<1> USE DEF Inv
<1>1. \A s \in {"host", "chassis"}, v \in {0, 1} : Setting(Only(s, v))
  BY DEF Setting, Only
<1>2. \A r : Requested(r) # EvaluateState
  BY DEF Requested, EvaluateState
<1>3. <<>> \in Seq(Handler) /\ \A h \in Handler : <<h>> \in Seq(Handler)
  OBVIOUS
<1>4. powerCycle \in BOOLEAN /\ cycleFailed \in BOOLEAN
  BY DEF TypeOK
<1>5. CASE RequestedHostOff
  <2>1. /\ ioQueue # <<>> /\ Head(ioQueue) # EvaluateState
        /\ SetAndUpdate(Only("host", 0), <<>>)
        /\ powerCycle' \in BOOLEAN /\ cycleFailed' \in BOOLEAN
    BY <1>2, <1>4, <1>5 DEF RequestedHostOff, Running
  <2> QED
    BY <1>1, <1>3, <2>1, SetAndUpdateStep
<1>6. CASE RequestedHostOn
  <2>1. /\ ioQueue # <<>> /\ Head(ioQueue) # EvaluateState
        /\ SetAndUpdate(Only("chassis", 1), <<PostRequest("host", 1)>>)
        /\ powerCycle' \in BOOLEAN /\ cycleFailed' \in BOOLEAN
    BY <1>2, <1>4, <1>6 DEF RequestedHostOn, Running
  <2>2. <<PostRequest("host", 1)>> \in Seq(Handler)
    BY <1>3, KnownHandlers
  <2> QED
    BY <1>1, <2>1, <2>2, SetAndUpdateStep
<1>7. CASE RequestedOff
  <2>1. /\ ioQueue # <<>> /\ Head(ioQueue) # EvaluateState
        /\ SetAndUpdate(Only("host", 0), <<PostRequest("chassis", 0)>>)
        /\ powerCycle' \in BOOLEAN /\ cycleFailed' \in BOOLEAN
    BY <1>2, <1>4, <1>7 DEF RequestedOff, Running
  <2>2. <<PostRequest("chassis", 0)>> \in Seq(Handler)
    BY <1>3, KnownHandlers
  <2> QED
    BY <1>1, <2>1, <2>2, SetAndUpdateStep
<1>8. CASE RequestedOn
  <2>1. /\ ioQueue # <<>> /\ Head(ioQueue) # EvaluateState
        /\ SetAndUpdate(Only("chassis", 1), <<>>)
        /\ powerCycle' \in BOOLEAN /\ cycleFailed' \in BOOLEAN
    BY <1>2, <1>4, <1>8 DEF RequestedOn, Running
  <2> QED
    BY <1>1, <1>3, <2>1, SetAndUpdateStep
<1>9. CASE RequestedPowerCycle
  <2> DEFINE posts == <<PostRequest("chassis", 0)>>
                        \o IF powerCycle THEN <<PowerCycleTimer>> ELSE <<>>
  <2>1. /\ ioQueue # <<>> /\ Head(ioQueue) # EvaluateState
        /\ SetAndUpdate(Only("host", 0), posts)
        /\ powerCycle' \in BOOLEAN /\ cycleFailed' \in BOOLEAN
    BY <1>2, <1>4, <1>9 DEF RequestedPowerCycle, Running
  <2>2. posts \in Seq(Handler)
    <3>1. /\ <<PostRequest("chassis", 0)>> \in Seq(Handler)
          /\ <<PowerCycleTimer>> \in Seq(Handler)
      BY <1>3, KnownHandlers
    <3> QED
      BY <1>3, <3>1
  <2> HIDE DEF posts
  <2> QED
    BY <1>1, <2>1, <2>2, SetAndUpdateStep
<1> QED
  BY <1>5, <1>6, <1>7, <1>8, <1>9

(* The second half of a request, and the timers. *)
LEMMA HalfSteps ==
  ASSUME Inv, NEW s, NEW v, RunPostRequest(s, v) \/ RunRequest(s, v)
  PROVE  Inv'
<1> USE DEF Inv
<1>1. ioQueue \in Seq(Handler) /\ powerCycle \in BOOLEAN /\ cycleFailed \in BOOLEAN
  BY DEF TypeOK
<1>2. ioQueue # <<>> => Head(ioQueue) \in Handler /\ Tail(ioQueue) \in Seq(Handler)
  BY <1>1
<1>3. <<>> \in Seq(Handler) /\ \A h \in Handler : <<h>> \in Seq(Handler)
  OBVIOUS
<1>4. PostRequest(s, v) # EvaluateState /\ Request(s, v) # EvaluateState
  <2>1. PostRequest(s, v).op = "post" /\ Request(s, v).op = "half"
    BY DEF PostRequest, Request
  <2>2. EvaluateState.op = "evaluate"
    BY DEF EvaluateState
  <2> QED
    BY <2>1, <2>2
<1>5. CASE RunPostRequest(s, v)
  <2>1. ioQueue # <<>> /\ Head(ioQueue) = PostRequest(s, v)
    BY <1>5 DEF RunPostRequest, Running
  <2>2. Request(s, v) \in Handler
    BY <1>2, <2>1, PostedRequests, KnownHandlers
  <2>3. ioQueue' = Append(Tail(ioQueue), Request(s, v))
    BY <1>5 DEF RunPostRequest
  <2>4. ioQueue' = Tail(ioQueue) \o <<Request(s, v)>>
    BY <1>2, <2>1, <2>2, <2>3
  <2>5. UNCHANGED <<level, dirty, lastLevel, powerCycle, idle, dbus, cycleFailed,
                    history, driven, acpi>>
    BY <1>5 DEF RunPostRequest
  <2> QED
    BY <1>2, <1>3, <1>4, <2>1, <2>2, <2>4, <2>5, PostsOnly DEF TypeOK, history
<1>6. CASE RunRequest(s, v)
  <2>1. ioQueue # <<>> /\ Head(ioQueue) = Request(s, v)
    BY <1>6 DEF RunRequest, Running
  <2>2. Setting(Only(s, v))
    BY <1>2, <2>1, PostedRequests DEF Setting, Only
  <2>3. /\ SetAndUpdate(Only(s, v), <<>>)
        /\ powerCycle' \in BOOLEAN /\ cycleFailed' \in BOOLEAN
    BY <1>1, <1>6 DEF RunRequest
  <2> QED
    BY <1>3, <1>4, <2>1, <2>2, <2>3, SetAndUpdateStep
<1> QED
  BY <1>5, <1>6

(* The handlers of both timers keep the invariant. *)
LEMMA TimerHandlers ==
  ASSUME Inv, RunPowerCycleTimer \/ RunIdleTimer
  PROVE  Inv'
<1> USE DEF Inv
<1>1. ioQueue \in Seq(Handler) /\ powerCycle \in BOOLEAN /\ cycleFailed \in BOOLEAN
  BY DEF TypeOK
<1>2. <<>> \in Seq(Handler) /\ \A h \in Handler : <<h>> \in Seq(Handler)
  OBVIOUS
<1>3. PowerCycleTimer # EvaluateState /\ IdleTimer # EvaluateState
  BY DEF PowerCycleTimer, IdleTimer, EvaluateState
<1>4. ioQueue # <<>> => Tail(ioQueue) \in Seq(Handler)
  BY <1>1
<1>5. ASSUME ioQueue # <<>>, Head(ioQueue) # EvaluateState, ioQueue' = Tail(ioQueue),
             UNCHANGED <<level, dirty, lastLevel, powerCycle, idle, dbus, history,
                         driven, acpi>>,
             cycleFailed' \in BOOLEAN
      PROVE  Inv'
  <2>1. ioQueue' = Tail(ioQueue) \o <<>>
    BY <1>4, <1>5
  <2> QED
    BY <1>2, <1>4, <1>5, <2>1, PostsOnly DEF TypeOK, history
<1>6. CASE RunPowerCycleTimer
  <2>1. ioQueue # <<>> /\ Head(ioQueue) # EvaluateState
    BY <1>3, <1>6 DEF RunPowerCycleTimer, Running
  <2>2. CASE GetCurrent(level) = "G3"
    <3> DEFINE new == [s \in {"host", "chassis"} |-> 1]
    <3>1. /\ SetAndUpdate(new, <<>>)
          /\ powerCycle' \in BOOLEAN /\ cycleFailed' \in BOOLEAN
      BY <1>1, <1>6, <2>2 DEF RunPowerCycleTimer
    <3>2. Setting(new)
      BY DEF Setting
    <3> HIDE DEF new
    <3> QED
      BY <1>2, <2>1, <3>1, <3>2, SetAndUpdateStep
  <2>3. CASE GetCurrent(level) # "G3"
    BY <1>5, <1>6, <2>1, <2>3 DEF RunPowerCycleTimer
  <2> QED
    BY <2>2, <2>3
<1>7. CASE RunIdleTimer
  <2>1. ioQueue # <<>> /\ Head(ioQueue) # EvaluateState
    BY <1>3, <1>7 DEF RunIdleTimer, Running
  <2>2. CASE GetCurrent(level) = "S5"
    <3>1. /\ SetAndUpdate(Only("host", 0), <<PostRequest("chassis", 0)>>)
          /\ powerCycle' \in BOOLEAN /\ cycleFailed' \in BOOLEAN
      BY <1>1, <1>7, <2>2 DEF RunIdleTimer
    <3>2. Setting(Only("host", 0))
      BY DEF Setting, Only
    <3>3. <<PostRequest("chassis", 0)>> \in Seq(Handler)
      BY <1>2, KnownHandlers
    <3> QED
      BY <2>1, <3>1, <3>2, <3>3, SetAndUpdateStep
  <2>3. CASE GetCurrent(level) # "S5"
    BY <1>1, <1>5, <1>7, <2>1, <2>3 DEF RunIdleTimer
  <2> QED
    BY <2>2, <2>3
<1> QED
  BY <1>6, <1>7

(* A driver sets a signal that ACPIStates listens to. *)
LEMMA SetLevelStep ==
  ASSUME Inv, NEW s \in Observed, NEW v \in {0, 1}, RunSetLevel(s, v)
  PROVE  Inv'
<1> USE DEF Inv
<1> DEFINE new == Only(s, v)
<1>1. /\ ioQueue # <<>> /\ Head(ioQueue) = SetLevelTo(s, v) /\ SetLevels(new)
      /\ ioQueue' = Tail(ioQueue) \o Evaluations(new)
      /\ UNCHANGED <<lastLevel, powerCycle, idle, dbus, cycleFailed, history, driven,
                     acpi>>
  BY DEF RunSetLevel, Running
<1>2. DOMAIN new \subseteq Observed /\ \A x \in DOMAIN new : new[x] \in {0, 1}
  BY DEF Only
<1>3. SetLevelTo(s, v) # EvaluateState
  <2>1. SetLevelTo(s, v).op = "set" /\ EvaluateState.op = "evaluate"
    BY DEF SetLevelTo, EvaluateState
  <2> QED
    BY <2>1
<1> HIDE DEF new
<1>4. DOMAIN new \subseteq Signals
  BY <1>2 DEF Observed, Signals
<1>5. level' \in Levels /\ dirty' \subseteq Signals
  BY <1>1, <1>2, <1>4, LevelsStay
<1>6. level' = With(new) /\ dirty' = dirty \cup Changed(new)
  BY <1>1 DEF SetLevels
<1>7. ioQueue' \in Seq(Handler) /\ Listed'
  <2>1. ioQueue \in Seq(Handler)
    BY DEF TypeOK
  <2>2. Tail(ioQueue) \in Seq(Handler)
    BY <1>1, <2>1
  <2>3. /\ Evaluations(new) \in Seq(Handler)
        /\ Changed(new) \ dirty # {} => EvaluateState \in ToSet(Evaluations(new))
    BY <1>4, EvaluationsType
  <2>4. dirty' # {} => dirty # {} \/ EvaluateState \in ToSet(Evaluations(new))
    BY <1>6, <2>3
  <2> QED
    BY <1>1, <1>3, <2>2, <2>3, <2>4, ListedStays
<1>8. Fresh'
  <2>1. CASE Changed(new) = {}
    <3>1. level' = level
      BY <1>4, <1>6, <2>1 DEF With, Changed, TypeOK
    <3> QED
      BY <1>1, <1>6, <2>1, <3>1 DEF Fresh, Stale
  <2>2. CASE Changed(new) # {}
    <3>1. Changed(new) \subseteq Observed
      BY <1>2 DEF Changed
    <3> QED
      BY <1>6, <2>2, <3>1 DEF Fresh, Stale
  <2> QED
    BY <2>1, <2>2
<1>9. TypeOK'
  BY <1>1, <1>5, <1>7 DEF TypeOK, Levels, history
<1> QED
  BY <1>7, <1>8, <1>9

(* The evaluation publishes if it finds a signal that is listened to. *)
LEMMA EvaluateStep ==
  ASSUME Inv, RunEvaluateState
  PROVE  Inv'
<1> USE DEF Inv
<1>1. /\ ioQueue # <<>> /\ dirty' = {}
      /\ driven' = [s \in DOMAIN driven |-> level[s]]
      /\ UNCHANGED <<level, cycleFailed, history, acpi>>
  BY DEF RunEvaluateState, Running
<1>2. ioQueue \in Seq(Handler)
  BY DEF TypeOK
<1>3. Tail(ioQueue) \in Seq(Handler)
  BY <1>1, <1>2
<1>4. driven' \in [{"host", "chassis"} -> {Undefined, 0, 1}]
  BY <1>1 DEF TypeOK, Signals
<1>5. Listed'
  BY <1>1 DEF Listed
<1>6. CASE dirty \cap Observed # {}
  <2>1. /\ Update(level) /\ ioQueue' = Tail(ioQueue) \o IfCancelled(level)
        /\ powerCycle' = (powerCycle /\ ~CancelsCycle(level))
    BY <1>6 DEF RunEvaluateState
  <2>2. /\ lastLevel' \in ACPILevel \cup {Invalid}
        /\ dbus' \in Published /\ idle' \in BOOLEAN
        /\ GetCurrent(level) # Invalid => dbus' = Report(level, GetCurrent(level))
    BY <2>1, UpdatePublishes
  <2>3. ioQueue' \in Seq(Handler)
    BY <1>3, <2>1, CancelledType
  <2>4. Fresh'
    BY <1>1, <2>2 DEF Fresh
  <2>5. TypeOK'
    BY <1>1, <1>4, <2>1, <2>2, <2>3 DEF TypeOK, history
  <2> QED
    BY <1>5, <2>4, <2>5
<1>7. CASE dirty \cap Observed = {}
  <2>1. /\ ioQueue' = Tail(ioQueue)
        /\ UNCHANGED <<lastLevel, powerCycle, idle, dbus>>
    BY <1>7 DEF RunEvaluateState
  <2>2. Fresh'
    BY <1>1, <1>7, <2>1 DEF Fresh, Stale
  <2>3. TypeOK'
    BY <1>1, <1>3, <1>4, <2>1 DEF TypeOK, history
  <2> QED
    BY <1>5, <2>2, <2>3
<1> QED
  BY <1>6, <1>7

(* Whatever comes from outside is queued. *)
LEMMA OutsideSteps ==
  ASSUME Inv, Timers \/ Mainboard \/ Outside \/ RegulatorFails
  PROVE  Inv'
<1> USE DEF Inv
<1>1. ioQueue \in Seq(Handler)
  BY DEF TypeOK
<1>2. ASSUME NEW h \in Handler, ioQueue' = Append(ioQueue, h),
             UNCHANGED <<level, dirty, lastLevel, dbus, driven>>,
             powerCycle' \in BOOLEAN, idle' \in BOOLEAN, cycleFailed' \in BOOLEAN,
             asked' \in Requests \cup {""}, errors' \in 0 .. MaxErrors,
             after' \in {"none", "rest", "handlers", "cycle"}, acpi' \in ACPILevel
      PROVE  Inv'
  <2>1. <<h>> \in Seq(Handler) /\ ioQueue' = ioQueue \o <<h>>
    <3>1. <<h>> \in Seq(Handler)
      OBVIOUS
    <3>2. Append(ioQueue, h) = ioQueue \o <<h>>
      BY <1>1
    <3> QED
      BY <1>2, <3>1, <3>2
  <2> QED
    BY <1>1, <1>2, <2>1, PostsOnly
<1>3. CASE PowerCycleExpires
  BY <1>2, <1>3, KnownHandlers DEF PowerCycleExpires, TypeOK, history
<1>4. CASE IdleExpires
  BY <1>2, <1>4, KnownHandlers DEF IdleExpires, TypeOK, history
<1>5. ASSUME NEW v \in {0, 1}, PostCode(v) PROVE Inv'
  <2>1. SetLevelTo("post", v) \in Handler
    BY KnownHandlers DEF Observed
  <2> QED
    BY <1>2, <1>5, <2>1 DEF PostCode, TypeOK, history
<1>6. ASSUME NEW r \in Requests, Arrive(r) PROVE Inv'
  BY <1>2, <1>6, KnownHandlers DEF Arrive, TypeOK
<1>7. CASE RegulatorFails
  <2>1. "off" \in Requests
    BY DEF Requests
  <2>2. errors' \in 0 .. MaxErrors
    <3>1. errors > 0 /\ errors' = errors - 1
      BY <1>7 DEF RegulatorFails
    <3>2. errors \in 0 .. MaxErrors /\ MaxErrors \in Nat
      BY ConstantsAssumption DEF TypeOK
    <3> QED
      BY <3>1, <3>2
  <2> QED
    BY <1>2, <1>7, <2>1, <2>2, KnownHandlers DEF RegulatorFails, TypeOK
<1>8. ASSUME NEW l \in ACPILevel, Move(l) PROVE Inv'
  <2>1. PICK first \in {<<l, 1>>, <<acpi, 0>>} :
          LET second == IF first[2] = 1 THEN <<acpi, 0>> ELSE <<l, 1>>
          IN ioQueue' = ioQueue \o <<SetLevelTo(first[1], first[2]),
                                     SetLevelTo(second[1], second[2])>>
    BY <1>8 DEF Move
  <2> DEFINE second == IF first[2] = 1 THEN <<acpi, 0>> ELSE <<l, 1>>
             a == SetLevelTo(first[1], first[2])
             b == SetLevelTo(second[1], second[2])
  <2>2. l \in Observed /\ acpi \in Observed
    BY DEF TypeOK, Observed
  <2>3. a \in Handler /\ b \in Handler
    BY <2>2, KnownHandlers
  <2>4. ioQueue' = ioQueue \o <<a, b>>
    BY <2>1
  <2> HIDE DEF a, b
  <2>5. <<a, b>> \in Seq(Handler)
    BY <2>3
  <2>6. /\ UNCHANGED <<level, dirty, lastLevel, powerCycle, idle, dbus, cycleFailed,
                       history, driven>>
        /\ acpi' \in ACPILevel
    BY <1>8 DEF Move
  <2> QED
    BY <1>1, <2>4, <2>5, <2>6, PostsOnly DEF TypeOK, history
<1> QED
  BY <1>3, <1>4, <1>5, <1>6, <1>7, <1>8 DEF Timers, Mainboard, Outside

(* Every step keeps the invariant. *)
LEMMA NextKeepsInv == Inv /\ [Next]_vars => Inv'
<1> SUFFICES ASSUME Inv, [Next]_vars PROVE Inv'
  OBVIOUS
<1>1. CASE IoThread
  BY <1>1, RequestSteps, HalfSteps, TimerHandlers, SetLevelStep, EvaluateStep
     DEF IoThread
<1>2. CASE Timers \/ Mainboard \/ Outside \/ RegulatorFails
  BY <1>2, OutsideSteps
<1>3. CASE UNCHANGED vars
  <2>1. TypeOK'
    BY <1>3 DEF Inv, TypeOK, vars, history
  <2>2. Listed' /\ Fresh'
    BY <1>3 DEF Inv, Listed, Fresh, Stale, vars
  <2> QED
    BY <2>1, <2>2 DEF Inv
<1> QED
  BY <1>1, <1>2, <1>3 DEF Next

(* The drivers have posted what they found, and an evaluation is queued. *)
LEMMA InitInv == Init => Inv
<1> SUFFICES ASSUME Init PROVE Inv
  OBVIOUS
<1> DEFINE found == [i \in 1..4 |->
                       LET l == <<"G3", "S5", "S3", "S0">>[i]
                       IN SetLevelTo(l, IF l = acpi THEN 1 ELSE 0)]
<1>1. found \in Seq(Handler)
  <2>1. ASSUME NEW i \in 1 .. 4 PROVE <<"G3", "S5", "S3", "S0">>[i] \in Observed
    <3>1. i = 1 \/ i = 2 \/ i = 3 \/ i = 4
      OBVIOUS
    <3> QED
      BY <3>1 DEF Observed, ACPILevel
  <2>2. \A i \in 1 .. 4 : found[i] \in Handler
    BY <2>1, KnownHandlers
  <2>3. found = [i \in 1 .. 4 |-> found[i]]
    OBVIOUS
  <2> HIDE DEF found
  <2> QED
    BY <2>2, <2>3
<1>2. ioQueue = Append(found, EvaluateState)
  BY DEF Init
<1> HIDE DEF found
<1>3. ioQueue \in Seq(Handler) /\ EvaluateState \in ToSet(ioQueue)
  BY <1>1, <1>2, KnownHandlers, ToSetAppend
<1>4. TypeOK
  <2>1. MaxErrors \in Nat /\ MaxErrors \in 0 .. MaxErrors
    BY ConstantsAssumption
  <2>2. dbus \in Published
    BY DEF Init, Published, HostState
  <2>3. "G3" \in ACPILevel
    BY DEF ACPILevel
  <2>4. /\ level \in [Signals -> {Undefined, 0, 1}] /\ dirty \subseteq Signals
        /\ driven \in [{"host", "chassis"} -> {Undefined, 0, 1}]
    BY DEF Init
  <2>5. errors \in 0 .. MaxErrors
    BY <2>1 DEF Init
  <2> QED
    BY <1>3, <2>2, <2>3, <2>4, <2>5 DEF Init, TypeOK
<1>5. Stale
  BY DEF Init, Stale, Observed, Signals
<1> QED
  BY <1>3, <1>4, <1>5 DEF Inv, Listed, Fresh

(* The invariant holds in every state that can be reached. *)
THEOREM InvHolds == Spec => []Inv
BY InitInv, NextKeepsInv, PTL DEF Spec

(* The types of ACPIStates: whatever is queued is a handler that is known, and
   D-Bus only ever shows states that the interfaces know. *)
THEOREM TypeCorrect == Spec => []TypeOK
<1>1. Inv => TypeOK
  BY DEF Inv
<1> QED
  BY <1>1, InvHolds, PTL

(* D-Bus is not stale at rest, however the requests, timers, changes of the
   mainboard and failures of regulators interleave. *)
THEOREM NothingIsStale == Spec => []ReportIsCurrent
<1>1. Inv => ReportIsCurrent
  <2> SUFFICES ASSUME Inv, ioQueue = <<>>, GetCurrent(level) # Invalid
               PROVE  dbus = Report(level, GetCurrent(level))
    BY DEF ReportIsCurrent, AtRest
  <2>1. ToSet(ioQueue) = {}
    BY ToSetSmall
  <2>2. dirty = {}
    BY <2>1 DEF Inv, Listed
  <2> QED
    BY <2>2 DEF Inv, Fresh, Stale
<1> QED
  BY <1>1, InvHolds, PTL

-----------------------------------------------------------------------------
(* A patient user.  At any time a handler of a request is all that io has to
   do for it: nothing that moves the state of the mainboard is queued. *)

Patience == Patient /\ Obedient /\ ~AutoG3

(* driven is what the last evaluation found. *)
Evaluated == \A s \in DOMAIN driven : driven[s] # level[s] => s \in dirty

(* A request has arrived at rest. *)
Asked ==
  /\ asked \in Requests /\ ioQueue = <<Requested(asked)>>
  /\ dirty = {} /\ ~powerCycle

(* The second half of a request is on its way, post p and then half h, behind
   the evaluation of the first.  The timer of a power cycle may expire. *)
Forms(p, h) ==
  {<<EvaluateState, p>>, <<p>>, <<h>>, <<EvaluateState, p, PowerCycleTimer>>,
   <<p, PowerCycleTimer>>, <<PowerCycleTimer, h>>, <<h, PowerCycleTimer>>}

Expired == PowerCycleTimer \in ToSet(ioQueue)
Waits == powerCycle \/ Expired

OnItsWay(s, v) ==
  /\ ioQueue \in Forms(PostRequest(s, v), Request(s, v))
  /\ dirty # {} => Head(ioQueue) = EvaluateState
  /\ dirty \subseteq {"host", "chassis"}
  /\ ~(powerCycle /\ Expired)

HostOnItsWay ==
  /\ OnItsWay("host", 1) /\ ~Waits
  /\ asked = "host on" /\ level["chassis"] = 1

ChassisOnItsWay ==
  /\ OnItsWay("chassis", 0)
  /\ asked \in {"off", "power_cycle"} /\ level["host"] = 0
  /\ Waits => asked = "power_cycle" /\ GetCurrent(level) # "G3"
  /\ asked = "power_cycle" => cycleFailed \/ Waits

(* What has been asked for is done, but for the timer of a power cycle. *)
Quiet ==
  {EvaluateState, PowerCycleTimer} \cup {SetLevelTo(s, v) : s \in Observed, v \in {0, 1}}

Outcome ==
  /\ asked \in {"on", "host on"} => level["chassis"] = 1
  /\ asked \in {"off", "host off"} => level["host"] = 0
  /\ asked = "off" => level["chassis"] = 0
  /\ asked = "host on" => level["host"] = 1
  /\ asked = "power_cycle" => cycleFailed \/ Waits \/ level["chassis"] = 1
  /\ Waits => asked = "power_cycle"
  /\ level["host"] = 1 => level["chassis"] = 1

Done == ToSet(ioQueue) \subseteq Quiet /\ Outcome

InStep == InTurn => Asked \/ HostOnItsWay \/ ChassisOnItsWay \/ Done

(* The levels of the mainboard, when io has run what is queued. *)
SetsOf(l) == {SetLevelTo(l, v) : v \in {0, 1}}
Follows ==
  \A l \in ACPILevel :
    LastIn(ioQueue, SetsOf(l), SetLevelTo(l, level[l]))
      = SetLevelTo(l, IF l = acpi THEN 1 ELSE 0)

(* The invariant of a patient user. *)
PatientInv == Patience /\ Inv /\ ~idle /\ Evaluated /\ InStep /\ Follows

(* The kinds of handlers are told apart by what they do. *)
Op(h) == h.op
SignalOf(h) == h.signal
ValueOf(h) == h.value
RequestOf(h) == h.request

LEMMA Ops ==
  /\ Op(EvaluateState) = "evaluate" /\ Op(PowerCycleTimer) = "cycle timer"
  /\ Op(IdleTimer) = "idle timer"
  /\ \A r : Op(Requested(r)) = "request" /\ RequestOf(Requested(r)) = r
  /\ \A s, v : /\ Op(SetLevelTo(s, v)) = "set" /\ SignalOf(SetLevelTo(s, v)) = s
               /\ ValueOf(SetLevelTo(s, v)) = v
  /\ \A s, v : /\ Op(PostRequest(s, v)) = "post" /\ SignalOf(PostRequest(s, v)) = s
               /\ ValueOf(PostRequest(s, v)) = v
  /\ \A s, v : /\ Op(Request(s, v)) = "half" /\ SignalOf(Request(s, v)) = s
               /\ ValueOf(Request(s, v)) = v
BY DEF EvaluateState, PowerCycleTimer, IdleTimer, Requested, SetLevelTo,
       PostRequest, Request, Op, SignalOf, ValueOf, RequestOf

(* A quiet handler is no request. *)
LEMMA QuietOps ==
  ASSUME NEW h \in Quiet
  PROVE  Op(h) \in {"evaluate", "cycle timer", "set"} /\ h \in Handler
<1>1. CASE h \in {EvaluateState, PowerCycleTimer}
  BY <1>1, Ops, KnownHandlers
<1>2. ASSUME NEW s \in Observed, NEW v \in {0, 1}, h = SetLevelTo(s, v)
      PROVE  Op(h) = "set" /\ h \in Handler
  BY <1>2, Ops, KnownHandlers
<1>3. \/ h \in {EvaluateState, PowerCycleTimer}
      \/ \E s \in Observed, v \in {0, 1} : h = SetLevelTo(s, v)
  BY DEF Quiet
<1> QED
  BY <1>1, <1>2, <1>3

(* The state of the mainboard is that of its own signals. *)
LEMMA CurrentSame ==
  ASSUME NEW lv, NEW lw, \A l \in ACPILevel : lv[l] = lw[l]
  PROVE  GetCurrent(lv) = GetCurrent(lw)
<1> DEFINE On(x) == {l \in ACPILevel : x[l] = 1}
           Unknown(x) == \E l \in ACPILevel : x[l] = Undefined
           State(x, on) == IF Unknown(x) THEN "G3"
                           ELSE IF Cardinality(on) = 1 THEN CHOOSE l \in on : TRUE
                           ELSE Invalid
<1>1. On(lv) = On(lw) /\ (Unknown(lv) <=> Unknown(lw))
  OBVIOUS
<1>2. /\ GetCurrent(lv) = State(lv, On(lv))
      /\ GetCurrent(lw) = State(lw, On(lw))
  BY DEF GetCurrent
<1>3. \A on : State(lv, on) = State(lw, on)
  BY <1>1
<1> HIDE DEF On, State
<1> QED
  BY <1>1, <1>2, <1>3

(* The evaluations that setting one signal posts: one, if it becomes dirty. *)
LEMMA OneEvaluation ==
  ASSUME NEW s, NEW v
  PROVE  Evaluations(Only(s, v))
           = IF level[s] # v /\ s \notin dirty THEN <<EvaluateState>> ELSE <<>>
<1> DEFINE S == Changed(Only(s, v)) \ dirty
<1>1. S = IF level[s] # v /\ s \notin dirty THEN {s} ELSE {}
  BY DEF Changed, Only
<1>2. Cardinality({}) = 0 /\ Cardinality({s}) = 1
  BY FS_EmptySet, FS_Singleton
<1>3. Evaluations(Only(s, v)) = [i \in 1 .. Cardinality(S) |-> EvaluateState]
  BY DEF Evaluations
<1> HIDE DEF S
<1>4. CASE level[s] # v /\ s \notin dirty
  <2>1. Evaluations(Only(s, v)) = [i \in 1 .. 1 |-> EvaluateState]
    BY <1>1, <1>2, <1>3, <1>4
  <2>2. [i \in 1 .. 1 |-> EvaluateState] = <<EvaluateState>>
    OBVIOUS
  <2> QED
    BY <1>4, <2>1, <2>2
<1>5. CASE ~(level[s] # v /\ s \notin dirty)
  <2>1. Evaluations(Only(s, v)) = [i \in 1 .. 0 |-> EvaluateState]
    BY <1>1, <1>2, <1>3, <1>5
  <2>2. [i \in 1 .. 0 |-> EvaluateState] = <<>>
    OBVIOUS
  <2> QED
    BY <1>5, <2>1, <2>2
<1> QED
  BY <1>4, <1>5

(* All that is posted for a change of levels are evaluations. *)
LEMMA OnlyEvaluations ==
  ASSUME NEW new
  PROVE  ToSet(Evaluations(new)) \subseteq {EvaluateState}
BY DEF Evaluations, ToSet

(* Whoever sets signals makes them dirty. *)
LEMMA EvaluatedStays ==
  ASSUME TypeOK, Evaluated, NEW new, DOMAIN new \subseteq Signals, SetLevels(new),
         driven' = driven
  PROVE  Evaluated'
BY DEF TypeOK, Evaluated, SetLevels, With, Changed, Signals

(* Handlers that are put behind the others, and set no level of the mainboard,
   do not change what its levels will be. *)
LEMMA FollowsStays ==
  ASSUME TypeOK, Follows, NEW p \in Seq(Handler), NEW q \in Seq(Handler),
         \A h \in ToSet(p) : Op(h) # "set",
         \/ q = ioQueue
         \/ ioQueue # <<>> /\ q = Tail(ioQueue) /\ Op(Head(ioQueue)) # "set",
         ioQueue' = q \o p, \A l \in ACPILevel : level'[l] = level[l], acpi' = acpi
  PROVE  Follows'
<1> SUFFICES ASSUME NEW l \in ACPILevel
             PROVE  LastIn(q \o p, SetsOf(l), SetLevelTo(l, level[l]))
                      = SetLevelTo(l, IF l = acpi THEN 1 ELSE 0)
  BY DEF Follows
<1> DEFINE d == SetLevelTo(l, level[l])
           M == SetsOf(l)
<1>1. \A h \in M : Op(h) = "set"
  BY Ops DEF SetsOf
<1>2. LastIn(ioQueue, M, d) = SetLevelTo(l, IF l = acpi THEN 1 ELSE 0)
  BY DEF Follows
<1> HIDE DEF d, M
<1>3. LastIn(q \o p, M, d) = LastIn(q, M, d)
  BY <1>1, LastInConcat
<1>4. LastIn(q, M, d) = LastIn(ioQueue, M, d)
  <2>1. CASE q = ioQueue
    BY <2>1
  <2>2. CASE ioQueue # <<>> /\ q = Tail(ioQueue) /\ Op(Head(ioQueue)) # "set"
    <3>1. ioQueue \in Seq(Handler) /\ Head(ioQueue) \notin M
      BY <1>1, <2>2 DEF TypeOK
    <3> QED
      BY <2>2, <3>1, LastInTail
  <2> QED
    BY <2>1, <2>2
<1> QED
  BY <1>2, <1>3, <1>4 DEF d, M

(* What runs next tells how far a request has come. *)
LEMMA Heads ==
  ASSUME TypeOK, InStep, InTurn, NEW h, Running(h)
  PROVE  /\ Op(h) = "request" => Asked
         /\ Op(h) \in {"post", "half"} => HostOnItsWay \/ ChassisOnItsWay
         /\ Op(h) = "set" => Done
         /\ Op(h) \in {"evaluate", "cycle timer"} =>
              Done \/ HostOnItsWay \/ ChassisOnItsWay
         /\ Op(h) # "idle timer"
<1>1. ioQueue # <<>> /\ h = Head(ioQueue) /\ ioQueue \in Seq(Handler)
  BY DEF Running, TypeOK
<1>2. ASSUME Done PROVE Op(h) \in {"evaluate", "cycle timer", "set"}
  <2>1. h \in ToSet(ioQueue)
    BY <1>1, ToSetTail
  <2> QED
    BY <1>2, <2>1, QuietOps DEF Done
<1>3. ASSUME Asked PROVE Op(h) = "request"
  <2>1. h = Requested(asked)
    BY <1>1, <1>3 DEF Asked
  <2> QED
    BY <2>1, Ops
<1>4. ASSUME NEW s, NEW v, OnItsWay(s, v)
      PROVE  Op(h) \in {"evaluate", "cycle timer", "post", "half"}
  <2>1. h \in {EvaluateState, PowerCycleTimer, PostRequest(s, v), Request(s, v)}
    BY <1>1, <1>4 DEF OnItsWay, Forms
  <2> QED
    BY <2>1, Ops
<1> QED
  BY <1>2, <1>3, <1>4 DEF InStep, HostOnItsWay, ChassisOnItsWay

(* A handler that sets a request signal and calls Update. *)
LEMMA SetStep ==
  ASSUME PatientInv, NEW new, Setting(new), NEW posts \in Seq(Handler),
         \A h \in ToSet(posts) : Op(h) # "set",
         ioQueue # <<>>, Op(Head(ioQueue)) # "set", SetAndUpdate(new, posts)
  PROVE  /\ level' = With(new) /\ dirty' = dirty \cup Changed(new)
         /\ ioQueue' = Tail(ioQueue) \o Evaluations(new) \o IfCancelled(level) \o posts
         /\ ToSet(ioQueue') = ToSet(Tail(ioQueue)) \cup ToSet(Evaluations(new))
                                \cup ToSet(IfCancelled(level)) \cup ToSet(posts)
         /\ UNCHANGED <<history, driven, acpi>>
         /\ ~idle' /\ Evaluated' /\ Follows'
         /\ GetCurrent(level') = GetCurrent(level)
<1> USE DEF PatientInv, Inv
<1>1. /\ SetLevels(new) /\ Update(With(new))
      /\ ioQueue' = Tail(ioQueue) \o Evaluations(new) \o IfCancelled(With(new))
                      \o posts
      /\ UNCHANGED <<history, driven, acpi>>
  BY DEF SetAndUpdate
<1>2. level' = With(new) /\ dirty' = dirty \cup Changed(new)
  BY <1>1 DEF SetLevels
<1>3. DOMAIN new \subseteq Signals /\ \A l \in ACPILevel : With(new)[l] = level[l]
  BY DEF Setting, Signals, ACPILevel, With
<1>4. GetCurrent(With(new)) = GetCurrent(level)
  BY <1>3, CurrentSame
<1>5. ~idle'
  BY <1>1 DEF Update, Patience
<1>6. Evaluated'
  BY <1>1, <1>3, EvaluatedStays
<1>7. IfCancelled(With(new)) = IfCancelled(level)
  BY <1>4 DEF IfCancelled, CancelsCycle
<1> DEFINE q == Tail(ioQueue)
           a == Evaluations(new)
           b == IfCancelled(level)
           ab == a \o b
           p == ab \o posts
           qa == q \o a
           qab == q \o ab
<1>8. q \in Seq(Handler)
  <2>1. ioQueue \in Seq(Handler)
    BY DEF TypeOK
  <2> QED
    BY <2>1
<1>9. a \in Seq(Handler) /\ \A h \in ToSet(a) : Op(h) # "set"
  BY <1>3, EvaluationsType, OnlyEvaluations, Ops
<1>10. b \in Seq(Handler) /\ \A h \in ToSet(b) : Op(h) # "set"
  <2>1. b = <<>> \/ b = <<PowerCycleTimer>>
    BY DEF IfCancelled
  <2>2. ToSet(b) \subseteq {PowerCycleTimer}
    BY <2>1, ToSetSmall
  <2> QED
    BY <2>2, CancelledType, Ops
<1>11. ioQueue' = (qa \o b) \o posts
  BY <1>1, <1>7
<1> HIDE DEF a, b, q
<1>12. /\ ioQueue' = q \o p /\ p \in Seq(Handler)
       /\ ToSet(p) = ToSet(a) \cup ToSet(b) \cup ToSet(posts)
  <2>1. qa \o b = qab
    BY <1>8, <1>9, <1>10, ConcatAssociative
  <2>2. ab \in Seq(Handler) /\ ToSet(ab) = ToSet(a) \cup ToSet(b)
    BY <1>9, <1>10, ToSetConcat
  <2> HIDE DEF ab
  <2>3. qab \o posts = q \o p
    BY <1>8, <2>2, ConcatAssociative
  <2>4. p \in Seq(Handler) /\ ToSet(p) = ToSet(ab) \cup ToSet(posts)
    BY <2>2, ToSetConcat
  <2> HIDE DEF p, qa, qab
  <2>5. ioQueue' = qab \o posts
    BY <1>11, <2>1
  <2> QED
    BY <2>2, <2>3, <2>4, <2>5
<1> HIDE DEF p
<1>13. ToSet(ioQueue') = ToSet(q) \cup ToSet(a) \cup ToSet(b) \cup ToSet(posts)
  BY <1>8, <1>12, ToSetConcat
<1>14. Follows'
  <2>1. \A h \in ToSet(p) : Op(h) # "set"
    BY <1>9, <1>10, <1>12
  <2>2. ioQueue # <<>> /\ q = Tail(ioQueue) /\ Op(Head(ioQueue)) # "set"
    BY DEF q
  <2>3. \A l \in ACPILevel : level'[l] = level[l]
    BY <1>2, <1>3
  <2>4. acpi' = acpi
    BY <1>1
  <2> QED
    BY <1>8, <1>12, <2>1, <2>2, <2>3, <2>4, FollowsStays
<1> QED
  BY <1>1, <1>2, <1>4, <1>5, <1>6, <1>7, <1>13, <1>14 DEF q, a, b

(* What the handler of a request that came at rest leaves in the queue. *)
LEMMA AskedQueue ==
  ASSUME Asked, NEW s, NEW v, NEW posts \in Seq(Handler),
         ioQueue' = Tail(ioQueue) \o Evaluations(Only(s, v)) \o IfCancelled(level)
                      \o posts
  PROVE  ioQueue' = IF level[s] # v THEN <<EvaluateState>> \o posts ELSE posts
<1>1. Tail(ioQueue) = <<>>
  <2>1. ioQueue = <<Requested(asked)>>
    BY DEF Asked
  <2> QED
    BY <2>1, ShortHandlers
<1>2. IfCancelled(level) = <<>>
  BY DEF Asked, IfCancelled, CancelsCycle
<1>3. Evaluations(Only(s, v)) = IF level[s] # v THEN <<EvaluateState>> ELSE <<>>
  BY OneEvaluation DEF Asked
<1>4. ioQueue' = <<>> \o Evaluations(Only(s, v)) \o <<>> \o posts
  BY <1>1, <1>2
<1>5. CASE level[s] # v
  <2>1. ioQueue' = <<>> \o <<EvaluateState>> \o <<>> \o posts
    BY <1>3, <1>4, <1>5
  <2>2. <<>> \o <<EvaluateState>> \o <<>> = <<EvaluateState>>
    OBVIOUS
  <2> QED
    BY <1>5, <2>1, <2>2
<1>6. CASE level[s] = v
  <2>1. ioQueue' = <<>> \o <<>> \o <<>> \o posts
    BY <1>3, <1>4, <1>6
  <2>2. <<>> \o <<>> \o <<>> = <<>> /\ <<>> \o posts = posts
    OBVIOUS
  <2> QED
    BY <1>6, <2>1, <2>2
<1> QED
  BY <1>5, <1>6

(* Setting one signal. *)
LEMMA SetsOne ==
  ASSUME TypeOK, NEW s \in {"host", "chassis"}, NEW v \in {0, 1}
  PROVE  /\ Setting(Only(s, v))
         /\ With(Only(s, v)) = [level EXCEPT ![s] = v]
         /\ Changed(Only(s, v)) = IF level[s] # v THEN {s} ELSE {}
BY DEF TypeOK, Setting, Only, With, Changed, Signals

(* A request that is done at once leaves at most its evaluation. *)
LEMMA AskedDone ==
  ASSUME PatientInv, Asked, NEW s \in {"host", "chassis"}, NEW v \in {0, 1},
         SetAndUpdate(Only(s, v), <<>>),
         powerCycle' = (powerCycle /\ ~CancelsCycle(level))
  PROVE  /\ ToSet(ioQueue') \subseteq Quiet /\ ~Waits'
         /\ level' = [level EXCEPT ![s] = v]
         /\ UNCHANGED history
<1>1. ioQueue = <<Requested(asked)>>
  BY DEF Asked
<1>2. ioQueue # <<>> /\ Op(Head(ioQueue)) # "set"
  <2>1. ioQueue # <<>> /\ Head(ioQueue) = Requested(asked)
    BY <1>1
  <2> QED
    BY <2>1, Ops
<1>3. <<>> \in Seq(Handler) /\ \A h \in ToSet(<<>>) : Op(h) # "set"
  <2>1. <<>> \in Seq(Handler)
    OBVIOUS
  <2>2. \A h \in ToSet(<<>>) : Op(h) # "set"
    BY ToSetSmall
  <2> QED
    BY <2>1, <2>2
<1>4. Setting(Only(s, v)) /\ With(Only(s, v)) = [level EXCEPT ![s] = v]
  BY SetsOne DEF PatientInv, Inv
<1>5. /\ level' = With(Only(s, v)) /\ UNCHANGED history
      /\ ioQueue' = Tail(ioQueue) \o Evaluations(Only(s, v)) \o IfCancelled(level)
                      \o <<>>
  BY <1>2, <1>3, <1>4, SetStep
<1>6. ioQueue' = <<>> \/ ioQueue' = <<EvaluateState>>
  <2>1. ioQueue' = IF level[s] # v THEN <<EvaluateState>> \o <<>> ELSE <<>>
    BY <1>3, <1>5, AskedQueue
  <2> QED
    BY <2>1, ShortHandlers
<1>7. ToSet(ioQueue') \subseteq {EvaluateState}
  BY <1>6, ToSetSmall
<1>8. EvaluateState # PowerCycleTimer /\ EvaluateState \in Quiet
  <2>1. EvaluateState # PowerCycleTimer
    BY Ops
  <2>2. EvaluateState \in Quiet
    BY DEF Quiet
  <2> QED
    BY <2>1, <2>2
<1>9. ~powerCycle'
  BY DEF Asked
<1> QED
  BY <1>4, <1>5, <1>7, <1>8, <1>9 DEF Waits, Expired

(* A request of two halves leaves the post of the second behind the evaluation
   of the first. *)
LEMMA AskedPosts ==
  ASSUME PatientInv, Asked, NEW s \in {"host", "chassis"}, NEW v \in {0, 1},
         NEW t, NEW w, PostRequest(t, w) \in Handler,
         SetAndUpdate(Only(s, v), <<PostRequest(t, w)>>)
  PROVE  /\ OnItsWay(t, w)' /\ ~Expired'
         /\ level' = [level EXCEPT ![s] = v]
         /\ GetCurrent(level') = GetCurrent(level)
         /\ UNCHANGED history
<1> DEFINE p == PostRequest(t, w)
<1>1. ioQueue = <<Requested(asked)>> /\ dirty = {}
  BY DEF Asked
<1>2. ioQueue # <<>> /\ Op(Head(ioQueue)) # "set"
  <2>1. ioQueue # <<>> /\ Head(ioQueue) = Requested(asked)
    BY <1>1
  <2> QED
    BY <2>1, Ops
<1>3. /\ <<p>> \in Seq(Handler) /\ p # PowerCycleTimer
      /\ \A h \in ToSet(<<p>>) : Op(h) # "set"
  <2>1. <<p>> \in Seq(Handler)
    OBVIOUS
  <2>2. p # PowerCycleTimer /\ Op(p) # "set"
    BY Ops
  <2>3. ToSet(<<p>>) = {p}
    BY ToSetSmall
  <2> QED
    BY <2>1, <2>2, <2>3
<1>4. /\ Setting(Only(s, v)) /\ With(Only(s, v)) = [level EXCEPT ![s] = v]
      /\ Changed(Only(s, v)) = IF level[s] # v THEN {s} ELSE {}
  BY SetsOne DEF PatientInv, Inv
<1> HIDE DEF p
<1>5. /\ level' = With(Only(s, v)) /\ dirty' = dirty \cup Changed(Only(s, v))
      /\ UNCHANGED history
      /\ GetCurrent(level') = GetCurrent(level)
      /\ ioQueue' = Tail(ioQueue) \o Evaluations(Only(s, v)) \o IfCancelled(level)
                      \o <<p>>
  BY <1>2, <1>3, <1>4, SetStep DEF p
<1>6. ioQueue' = IF level[s] # v THEN <<EvaluateState, p>> ELSE <<p>>
  <2>1. ioQueue' = IF level[s] # v THEN <<EvaluateState>> \o <<p>> ELSE <<p>>
    BY <1>3, <1>5, AskedQueue
  <2>2. <<EvaluateState>> \o <<p>> = <<EvaluateState, p>>
    BY ConcatSingles
  <2> QED
    BY <2>1, <2>2
<1>7. dirty' = IF level[s] # v THEN {s} ELSE {}
  BY <1>1, <1>4, <1>5
<1>8. ~Expired'
  <2>1. PowerCycleTimer \notin ToSet(<<EvaluateState, p>>)
    <3>1. ToSet(<<EvaluateState, p>>) = {EvaluateState, p}
      BY DEF ToSet
    <3> QED
      BY <1>3, <3>1, Ops
  <2>2. PowerCycleTimer \notin ToSet(<<p>>)
    BY <1>3, ToSetSmall
  <2> QED
    BY <1>6, <2>1, <2>2 DEF Expired
<1>9. OnItsWay(t, w)'
  <2>1. Head(<<EvaluateState, p>>) = EvaluateState
    OBVIOUS
  <2> QED
    BY <1>6, <1>7, <1>8, <2>1 DEF OnItsWay, Forms, p
<1> QED
  BY <1>4, <1>5, <1>8, <1>9

(* A request runs at rest: it is done, or its second half is on its way. *)
LEMMA RequestsKeepStep ==
  ASSUME PatientInv, InTurn,
         \/ RequestedHostOff \/ RequestedHostOn \/ RequestedOff \/ RequestedOn
         \/ RequestedPowerCycle
  PROVE  InStep'
<1> USE DEF PatientInv, Inv
<1>1. ASSUME NEW r, Running(Requested(r)) PROVE Asked /\ asked = r
  <2>1. Asked
    BY <1>1, Heads, Ops
  <2>2. Requested(r) = Requested(asked)
    BY <1>1, <2>1 DEF Asked, Running
  <2>3. RequestOf(Requested(r)) = r /\ RequestOf(Requested(asked)) = asked
    BY Ops
  <2> QED
    BY <2>1, <2>2, <2>3
<1>2. level \in [Signals -> {Undefined, 0, 1}] /\ {"host", "chassis"} \subseteq Signals
  BY DEF TypeOK, Signals
<1>3. CASE RequestedHostOff
  <2>1. Asked /\ asked = "host off"
    BY <1>1, <1>3 DEF RequestedHostOff
  <2>2. /\ ToSet(ioQueue') \subseteq Quiet /\ ~Waits'
        /\ level' = [level EXCEPT !["host"] = 0]
        /\ UNCHANGED history
    BY <1>3, <2>1, AskedDone DEF RequestedHostOff
  <2>3. asked' = "host off"
    BY <2>1, <2>2 DEF history
  <2>4. level'["host"] = 0 /\ 0 # 1
    BY <1>2, <2>2
  <2>5. Outcome'
    BY <2>2, <2>3, <2>4 DEF Outcome
  <2> QED
    BY <2>2, <2>5 DEF InStep, Done
<1>4. CASE RequestedHostOn
  <2>1. Asked /\ asked = "host on"
    BY <1>1, <1>4 DEF RequestedHostOn
  <2>2. /\ OnItsWay("host", 1)' /\ ~Expired'
        /\ level' = [level EXCEPT !["chassis"] = 1]
        /\ UNCHANGED history
    BY <1>4, <2>1, AskedPosts, KnownHandlers DEF RequestedHostOn
  <2>3. ~powerCycle'
    BY <1>4, <2>1 DEF RequestedHostOn, Asked
  <2>4. HostOnItsWay'
    BY <1>2, <2>1, <2>2, <2>3 DEF HostOnItsWay, Waits, history
  <2> QED
    BY <2>2, <2>4 DEF InStep
<1>5. CASE RequestedOff
  <2>1. Asked /\ asked = "off"
    BY <1>1, <1>5 DEF RequestedOff
  <2>2. /\ OnItsWay("chassis", 0)' /\ ~Expired'
        /\ level' = [level EXCEPT !["host"] = 0]
        /\ UNCHANGED history
    BY <1>5, <2>1, AskedPosts, KnownHandlers DEF RequestedOff
  <2>3. ~powerCycle'
    BY <1>5, <2>1 DEF RequestedOff, Asked
  <2>4. ChassisOnItsWay'
    BY <1>2, <2>1, <2>2, <2>3 DEF ChassisOnItsWay, Waits, history
  <2> QED
    BY <2>2, <2>4 DEF InStep
<1>6. CASE RequestedOn
  <2>1. Asked /\ asked \in {"on", "power_cycle"}
    BY <1>1, <1>6 DEF RequestedOn
  <2>2. /\ ToSet(ioQueue') \subseteq Quiet /\ ~Waits'
        /\ level' = [level EXCEPT !["chassis"] = 1]
        /\ UNCHANGED history
    BY <1>6, <2>1, AskedDone DEF RequestedOn
  <2>3. asked' \in {"on", "power_cycle"} /\ level'["chassis"] = 1
    BY <1>2, <2>1, <2>2 DEF history
  <2>4. Outcome'
    BY <2>2, <2>3 DEF Outcome
  <2> QED
    BY <2>2, <2>4 DEF InStep, Done
<1>7. CASE RequestedPowerCycle
  <2>1. Asked /\ asked = "power_cycle" /\ GetCurrent(level) # "G3"
    BY <1>1, <1>7 DEF RequestedPowerCycle
  <2>2. SetAndUpdate(Only("host", 0), <<PostRequest("chassis", 0)>>)
    <3>1. SetAndUpdate(Only("host", 0), <<PostRequest("chassis", 0)>> \o <<>>)
      BY <1>7, <2>1 DEF RequestedPowerCycle, Asked
    <3> QED
      BY <3>1, ShortHandlers
  <2>3. /\ OnItsWay("chassis", 0)' /\ ~Expired'
        /\ level' = [level EXCEPT !["host"] = 0]
        /\ GetCurrent(level') = GetCurrent(level)
        /\ UNCHANGED history
    BY <2>1, <2>2, AskedPosts, KnownHandlers
  <2>4. powerCycle'
    BY <1>7 DEF RequestedPowerCycle
  <2>5. ChassisOnItsWay'
    BY <1>2, <2>1, <2>3, <2>4 DEF ChassisOnItsWay, Waits, history
  <2> QED
    BY <2>3, <2>5 DEF InStep
<1> QED
  BY <1>3, <1>4, <1>5, <1>6, <1>7

(* The queue while a second half is on its way, by what runs next. *)
Splits(h, rest) ==
  /\ ioQueue # <<>> /\ Head(ioQueue) = h /\ Tail(ioQueue) = rest
  /\ ToSet(ioQueue) = {h} \cup ToSet(rest)

LEMMA SplitsAre ==
  ASSUME NEW a, NEW b, NEW c
  PROVE  /\ ioQueue = <<a>> => Splits(a, <<>>)
         /\ ioQueue = <<a, b>> => Splits(a, <<b>>)
         /\ ioQueue = <<a, b, c>> => Splits(a, <<b, c>>)
<1>1. /\ ToSet(<<>>) = {} /\ ToSet(<<a>>) = {a} /\ ToSet(<<b>>) = {b}
      /\ ToSet(<<a, b>>) = {a, b} /\ ToSet(<<b, c>>) = {b, c}
      /\ ToSet(<<a, b, c>>) = {a, b, c}
  <2>1. ToSet(<<>>) = {} /\ ToSet(<<a>>) = {a} /\ ToSet(<<b>>) = {b}
    BY ToSetSmall
  <2>2. ToSet(<<a, b>>) = {a, b} /\ ToSet(<<b, c>>) = {b, c}
    BY ToSetPair
  <2>3. ToSet(<<a, b, c>>) = {a, b, c}
    BY ToSetTriple
  <2> QED
    BY <2>1, <2>2, <2>3
<1>2. <<a>> # <<>> /\ Head(<<a>>) = a /\ Tail(<<a>>) = <<>>
  OBVIOUS
<1>3. <<a, b>> # <<>> /\ Head(<<a, b>>) = a /\ Tail(<<a, b>>) = <<b>>
  OBVIOUS
<1>4. <<a, b, c>> # <<>> /\ Head(<<a, b, c>>) = a /\ Tail(<<a, b, c>>) = <<b, c>>
  BY ShortHandlers
<1>5. {a} = {a} \cup {} /\ {a, b} = {a} \cup {b} /\ {a, b, c} = {a} \cup {b, c}
  OBVIOUS
<1> QED
  BY <1>1, <1>2, <1>3, <1>4, <1>5 DEF Splits

(* The forms, by what runs next. *)
LEMMA FormsSplit ==
  ASSUME NEW p, NEW h, ioQueue \in Forms(p, h)
  PROVE  \/ Splits(EvaluateState, <<p>>) \/ Splits(EvaluateState, <<p, PowerCycleTimer>>)
         \/ Splits(p, <<>>) \/ Splits(p, <<PowerCycleTimer>>)
         \/ Splits(h, <<>>) \/ Splits(h, <<PowerCycleTimer>>)
         \/ Splits(PowerCycleTimer, <<h>>)
<1>1. CASE ioQueue \in {<<p>>, <<h>>}
  BY <1>1, SplitsAre
<1>2. CASE ioQueue \in {<<EvaluateState, p>>, <<p, PowerCycleTimer>>,
                        <<PowerCycleTimer, h>>, <<h, PowerCycleTimer>>}
  BY <1>2, SplitsAre
<1>3. CASE ioQueue = <<EvaluateState, p, PowerCycleTimer>>
  BY <1>3, SplitsAre
<1> QED
  BY <1>1, <1>2, <1>3 DEF Forms

(* The timer of a power cycle stays set, or its handler queued, until that
   handler runs. *)
LEMMA WaitsStay ==
  ASSUME TypeOK, ioQueue # <<>>, Head(ioQueue) # PowerCycleTimer,
         NEW P, PowerCycleTimer \notin P,
         ToSet(ioQueue') = ToSet(Tail(ioQueue)) \cup ToSet(IfCancelled(level)) \cup P,
         powerCycle' = (powerCycle /\ ~CancelsCycle(level))
  PROVE  Waits' <=> Waits
<1>1. Expired <=> PowerCycleTimer \in ToSet(Tail(ioQueue))
  BY ToSetTail DEF TypeOK, Expired
<1>2. PowerCycleTimer \in ToSet(IfCancelled(level)) <=> CancelsCycle(level)
  BY ToSetSmall DEF IfCancelled
<1>3. CancelsCycle(level) => powerCycle
  BY DEF CancelsCycle
<1>4. Expired' <=> Expired \/ CancelsCycle(level)
  BY <1>1, <1>2 DEF Expired
<1> QED
  BY <1>3, <1>4 DEF Waits

(* The second half of a request is posted behind what is queued. *)
LEMMA PostKeepsStep ==
  ASSUME PatientInv, InTurn, NEW s, NEW v, RunPostRequest(s, v)
  PROVE  InStep'
<1> USE DEF PatientInv, Inv
<1>1. /\ Running(PostRequest(s, v))
      /\ ioQueue' = Append(Tail(ioQueue), Request(s, v))
      /\ UNCHANGED <<level, dirty, powerCycle, cycleFailed, history>>
  BY DEF RunPostRequest
<1>2. ASSUME NEW x, NEW w, OnItsWay(x, w)
      PROVE  OnItsWay(x, w)' /\ (Expired' <=> Expired)
  <2> DEFINE p == PostRequest(x, w)
             h == Request(x, w)
             c == PowerCycleTimer
  <2>1. Op(Head(ioQueue)) = "post" /\ Head(ioQueue) = PostRequest(s, v)
    BY <1>1, Ops DEF Running
  <2>2. Splits(p, <<>>) \/ Splits(p, <<c>>)
    <3>1. Head(ioQueue) \notin {EvaluateState, h, c}
      BY <2>1, Ops
    <3>2. ioQueue \in Forms(p, h)
      BY <1>2 DEF OnItsWay
    <3> QED
      BY <3>1, <3>2, FormsSplit DEF Splits
  <2>3. s = x /\ v = w
    <3>1. PostRequest(s, v) = PostRequest(x, w)
      BY <2>1, <2>2 DEF Splits
    <3>2. /\ SignalOf(PostRequest(s, v)) = s /\ SignalOf(PostRequest(x, w)) = x
          /\ ValueOf(PostRequest(s, v)) = v /\ ValueOf(PostRequest(x, w)) = w
      BY Ops
    <3> QED
      BY <3>1, <3>2
  <2>4. dirty = {}
    BY <1>2, <2>1, Ops DEF OnItsWay
  <2>5. ioQueue' = Append(Tail(ioQueue), h)
    BY <1>1, <2>3
  <2>6. p # c /\ h # c
    BY Ops
  <2> HIDE DEF p, h, c
  <2>7. CASE Splits(p, <<>>)
    <3>1. Append(<<>>, h) = <<h>>
      OBVIOUS
    <3>2. ioQueue' = <<h>>
      BY <2>5, <2>7, <3>1 DEF Splits
    <3>3. ToSet(ioQueue') = {h} /\ ToSet(ioQueue) = {p}
      BY <2>7, <3>2, ToSetSmall DEF Splits
    <3>4. ~Expired' /\ ~Expired
      BY <2>6, <3>3 DEF Expired, c
    <3>5. ioQueue' \in Forms(p, h)
      BY <3>2 DEF Forms
    <3> QED
      BY <1>1, <2>4, <3>4, <3>5 DEF OnItsWay, p, h
  <2>8. CASE Splits(p, <<c>>)
    <3>1. Append(<<c>>, h) = <<c, h>> /\ ToSet(<<c, h>>) = {c, h}
      BY AppendSingle, ToSetPair
    <3>2. ioQueue' = <<c, h>>
      BY <2>5, <2>8, <3>1 DEF Splits
    <3>3. c \in ToSet(ioQueue') /\ c \in ToSet(ioQueue)
      BY <2>8, <3>1, <3>2, ToSetSmall DEF Splits
    <3>4. Expired' /\ Expired
      BY <3>3 DEF Expired, c
    <3>5. ioQueue' \in Forms(p, h)
      BY <3>2 DEF Forms, c
    <3> QED
      BY <1>1, <1>2, <2>4, <3>4, <3>5 DEF OnItsWay, p, h
  <2> QED
    BY <2>2, <2>7, <2>8
<1>3. HostOnItsWay \/ ChassisOnItsWay
  BY <1>1, Heads, Ops
<1>4. asked' = asked
  BY <1>1 DEF history
<1>5. CASE HostOnItsWay
  <2>1. OnItsWay("host", 1)' /\ (Expired' <=> Expired)
    BY <1>2, <1>5 DEF HostOnItsWay
  <2>2. HostOnItsWay'
    BY <1>1, <1>4, <1>5, <2>1 DEF HostOnItsWay, Waits
  <2> QED
    BY <2>2 DEF InStep
<1>6. CASE ChassisOnItsWay
  <2>1. OnItsWay("chassis", 0)' /\ (Expired' <=> Expired)
    BY <1>2, <1>6 DEF ChassisOnItsWay
  <2>2. ChassisOnItsWay'
    BY <1>1, <1>4, <1>6, <2>1 DEF ChassisOnItsWay, Waits
  <2> QED
    BY <2>2 DEF InStep
<1> QED
  BY <1>3, <1>5, <1>6

(* What the outcome depends on. *)
LEMMA OutcomeStays ==
  ASSUME Outcome, asked' = asked, cycleFailed => cycleFailed',
         Waits' => Waits, Waits => Waits' \/ cycleFailed',
         level'["host"] = level["host"], level'["chassis"] = level["chassis"]
  PROVE  Outcome'
BY DEF Outcome

(* The second half sets its signal: the request is done. *)
LEMMA HalfKeepsStep ==
  ASSUME PatientInv, InTurn, NEW s, NEW v, RunRequest(s, v)
  PROVE  /\ InStep'
         /\ dirty = {}
         /\ \/ s = "host" /\ v = 1 /\ HostOnItsWay
            \/ s = "chassis" /\ v = 0 /\ ChassisOnItsWay
         /\ level' = [level EXCEPT ![s] = v]
<1> USE DEF PatientInv, Inv
<1>1. /\ Running(Request(s, v)) /\ SetAndUpdate(Only(s, v), <<>>)
      /\ powerCycle' = (powerCycle /\ ~CancelsCycle(level))
      /\ cycleFailed' = cycleFailed
  BY DEF RunRequest
<1>2. /\ ioQueue # <<>> /\ Head(ioQueue) = Request(s, v)
      /\ Op(Head(ioQueue)) = "half"
  BY <1>1, Ops DEF Running
<1>3. HostOnItsWay \/ ChassisOnItsWay
  BY <1>1, Heads, Ops
<1>4. ASSUME NEW x, NEW w, OnItsWay(x, w)
      PROVE  /\ s = x /\ v = w /\ dirty = {}
             /\ ToSet(Tail(ioQueue)) \subseteq {PowerCycleTimer}
  <2> DEFINE p == PostRequest(x, w)
             h == Request(x, w)
             c == PowerCycleTimer
  <2>1. Splits(h, <<>>) \/ Splits(h, <<c>>)
    <3>1. Head(ioQueue) \notin {EvaluateState, p, c}
      BY <1>2, Ops
    <3>2. ioQueue \in Forms(p, h)
      BY <1>4 DEF OnItsWay
    <3> QED
      BY <3>1, <3>2, FormsSplit DEF Splits
  <2>2. s = x /\ v = w
    <3>1. Request(s, v) = Request(x, w)
      BY <1>2, <2>1 DEF Splits
    <3>2. /\ SignalOf(Request(s, v)) = s /\ SignalOf(Request(x, w)) = x
          /\ ValueOf(Request(s, v)) = v /\ ValueOf(Request(x, w)) = w
      BY Ops
    <3> QED
      BY <3>1, <3>2
  <2>3. dirty = {}
    BY <1>2, <1>4, Ops DEF OnItsWay
  <2>4. ToSet(Tail(ioQueue)) \subseteq {c}
    BY <2>1, ToSetSmall DEF Splits
  <2> QED
    BY <2>2, <2>3, <2>4
<1>5. /\ \/ s = "host" /\ v = 1 /\ HostOnItsWay
         \/ s = "chassis" /\ v = 0 /\ ChassisOnItsWay
      /\ dirty = {} /\ ToSet(Tail(ioQueue)) \subseteq {PowerCycleTimer}
  BY <1>3, <1>4 DEF HostOnItsWay, ChassisOnItsWay
<1>6. s \in {"host", "chassis"} /\ v \in {0, 1}
  BY <1>5
<1>7. Setting(Only(s, v)) /\ With(Only(s, v)) = [level EXCEPT ![s] = v]
  BY <1>6, SetsOne
<1>8. <<>> \in Seq(Handler) /\ ToSet(<<>>) = {}
  <2>1. <<>> \in Seq(Handler)
    OBVIOUS
  <2> QED
    BY <2>1, ToSetSmall
<1>9. /\ level' = [level EXCEPT ![s] = v]
      /\ ToSet(ioQueue') = ToSet(Tail(ioQueue)) \cup ToSet(Evaluations(Only(s, v)))
                             \cup ToSet(IfCancelled(level)) \cup ToSet(<<>>)
      /\ UNCHANGED history
  <2>1. Op(Head(ioQueue)) # "set" /\ \A h \in ToSet(<<>>) : Op(h) # "set"
    BY <1>2, <1>8
  <2> QED
    BY <1>1, <1>2, <1>7, <1>8, <2>1, SetStep
<1>10. ToSet(Evaluations(Only(s, v))) \subseteq {EvaluateState}
  BY OnlyEvaluations
<1>11. ToSet(IfCancelled(level)) \subseteq {PowerCycleTimer}
  BY ToSetSmall DEF IfCancelled
<1>12. ToSet(ioQueue') \subseteq Quiet
  BY <1>5, <1>8, <1>9, <1>10, <1>11 DEF Quiet
<1>13. Waits' <=> Waits
  <2>1. /\ PowerCycleTimer \notin ToSet(Evaluations(Only(s, v)))
        /\ Head(ioQueue) # PowerCycleTimer
    BY <1>2, <1>10, Ops
  <2>2. ToSet(ioQueue') = ToSet(Tail(ioQueue)) \cup ToSet(IfCancelled(level))
                             \cup ToSet(Evaluations(Only(s, v)))
    BY <1>8, <1>9
  <2> QED
    BY <1>1, <1>2, <2>1, <2>2, WaitsStay
<1>14. asked' = asked
  BY <1>9 DEF history
<1>15. level \in [Signals -> {Undefined, 0, 1}] /\ {"host", "chassis"} \subseteq Signals
  BY DEF TypeOK, Signals
<1>16. Outcome'
  <2>1. CASE s = "host" /\ v = 1 /\ HostOnItsWay
    <3>1. level'["host"] = 1 /\ level'["chassis"] = 1
      BY <1>9, <1>15, <2>1 DEF HostOnItsWay
    <3>2. asked' = "host on" /\ ~Waits'
      BY <1>13, <1>14, <2>1 DEF HostOnItsWay
    <3> QED
      BY <3>1, <3>2 DEF Outcome
  <2>2. CASE s = "chassis" /\ v = 0 /\ ChassisOnItsWay
    <3>1. level'["host"] = 0 /\ level'["chassis"] = 0 /\ 0 # 1
      BY <1>9, <1>15, <2>2 DEF ChassisOnItsWay
    <3>2. /\ asked' \in {"off", "power_cycle"} /\ (Waits' => asked' = "power_cycle")
          /\ asked' = "power_cycle" => cycleFailed' \/ Waits'
      BY <1>1, <1>13, <1>14, <2>2 DEF ChassisOnItsWay
    <3> QED
      BY <3>1, <3>2 DEF Outcome
  <2> QED
    BY <1>5, <2>1, <2>2
<1> QED
  BY <1>5, <1>9, <1>12, <1>16 DEF InStep, Done

(* The handler of the timer of a power cycle: both signals are set, or the
   cycle has failed. *)
LEMMA TimerKeepsStep ==
  ASSUME PatientInv, InTurn, RunPowerCycleTimer
  PROVE  InStep'
<1> USE DEF PatientInv, Inv
<1>1. Running(PowerCycleTimer)
  BY DEF RunPowerCycleTimer
<1>2. ioQueue # <<>> /\ Head(ioQueue) = PowerCycleTimer /\ ioQueue \in Seq(Handler)
  BY <1>1 DEF Running, TypeOK
<1>3. Expired
  BY <1>2, ToSetTail DEF Expired
<1>4. CASE Done
  <2>1. asked = "power_cycle"
    BY <1>3, <1>4 DEF Done, Outcome, Waits
  <2>2. ToSet(ioQueue) = {PowerCycleTimer} \cup ToSet(Tail(ioQueue))
    BY <1>2, ToSetTail
  <2>3. CASE GetCurrent(level) = "G3"
    <3> DEFINE new == [s \in {"host", "chassis"} |-> 1]
    <3>1. SetAndUpdate(new, <<>>)
      BY <2>3 DEF RunPowerCycleTimer
    <3>2. Setting(new) /\ With(new)["host"] = 1 /\ With(new)["chassis"] = 1
      BY DEF Setting, With, Signals
    <3> HIDE DEF new
    <3>3. <<>> \in Seq(Handler) /\ ToSet(<<>>) = {}
      <4>1. <<>> \in Seq(Handler)
        OBVIOUS
      <4> QED
        BY <4>1, ToSetSmall
    <3>4. /\ level' = With(new)
          /\ ToSet(ioQueue') = ToSet(Tail(ioQueue)) \cup ToSet(Evaluations(new))
                                 \cup ToSet(IfCancelled(level)) \cup ToSet(<<>>)
          /\ UNCHANGED history
      <4>1. Op(Head(ioQueue)) # "set" /\ \A h \in ToSet(<<>>) : Op(h) # "set"
        BY <1>2, <3>3, Ops
      <4> QED
        BY <1>2, <3>1, <3>2, <3>3, <4>1, SetStep
    <3>5. ToSet(IfCancelled(level)) \subseteq {PowerCycleTimer}
      BY ToSetSmall DEF IfCancelled
    <3>6. ToSet(ioQueue') \subseteq Quiet
      BY <1>4, <2>2, <3>3, <3>4, <3>5, OnlyEvaluations DEF Quiet, Done
    <3>7. /\ asked' = "power_cycle" /\ level'["host"] = 1 /\ level'["chassis"] = 1
      BY <2>1, <3>2, <3>4 DEF history
    <3>8. Outcome'
      BY <3>7 DEF Outcome
    <3> QED
      BY <3>6, <3>8 DEF InStep, Done
  <2>4. CASE GetCurrent(level) # "G3"
    <3>1. /\ ioQueue' = Tail(ioQueue) /\ cycleFailed'
          /\ UNCHANGED <<level, powerCycle, history>>
      BY <2>4 DEF RunPowerCycleTimer
    <3>2. ToSet(ioQueue') \subseteq Quiet
      BY <1>4, <2>2, <3>1 DEF Done
    <3>3. asked' = "power_cycle" /\ asked' = asked
      BY <2>1, <3>1 DEF history
    <3>4. Outcome'
      BY <1>4, <3>1, <3>3 DEF Done, Outcome
    <3> QED
      BY <3>2, <3>4 DEF InStep, Done
  <2> QED
    BY <2>3, <2>4
<1>5. CASE ChassisOnItsWay
  <2> DEFINE p == PostRequest("chassis", 0)
             h == Request("chassis", 0)
  <2>1. GetCurrent(level) # "G3" /\ asked = "power_cycle" /\ ~powerCycle
    BY <1>3, <1>5 DEF ChassisOnItsWay, OnItsWay, Waits
  <2>2. /\ ioQueue' = Tail(ioQueue) /\ cycleFailed'
        /\ UNCHANGED <<level, dirty, powerCycle, history>>
    BY <2>1 DEF RunPowerCycleTimer
  <2>3. Splits(PowerCycleTimer, <<h>>)
    <3>1. Head(ioQueue) \notin {EvaluateState, p, h}
      BY <1>2, Ops
    <3>2. ioQueue \in Forms(p, h)
      BY <1>5 DEF ChassisOnItsWay, OnItsWay
    <3> QED
      BY <3>1, <3>2, FormsSplit DEF Splits
  <2>4. ioQueue' = <<h>>
    BY <2>2, <2>3 DEF Splits
  <2>5. ~Expired'
    <3>1. ToSet(ioQueue') = {h} /\ h # PowerCycleTimer
      BY <2>4, ToSetSmall, Ops
    <3> QED
      BY <3>1 DEF Expired
  <2>6. dirty = {}
    BY <1>2, <1>5, Ops DEF ChassisOnItsWay, OnItsWay
  <2>7. OnItsWay("chassis", 0)'
    BY <2>1, <2>2, <2>4, <2>5, <2>6 DEF OnItsWay, Forms
  <2>8. ~Waits' /\ asked' = asked
    BY <2>1, <2>2, <2>5 DEF Waits, history
  <2>9. ChassisOnItsWay'
    BY <1>5, <2>2, <2>7, <2>8 DEF ChassisOnItsWay
  <2> QED
    BY <2>9 DEF InStep
<1>6. CASE HostOnItsWay
  BY <1>3, <1>6 DEF HostOnItsWay, Waits
<1> QED
  BY <1>1, <1>4, <1>5, <1>6, Heads, Ops

(* The evaluation of the first half lets the second half through. *)
LEMMA EvaluateKeepsStep ==
  ASSUME PatientInv, InTurn, RunEvaluateState
  PROVE  InStep'
<1> USE DEF PatientInv, Inv
<1>1. /\ Running(EvaluateState) /\ dirty' = {}
      /\ UNCHANGED <<level, cycleFailed, history>>
  BY DEF RunEvaluateState
<1>2. ioQueue # <<>> /\ Head(ioQueue) = EvaluateState /\ ioQueue \in Seq(Handler)
  BY <1>1 DEF Running, TypeOK
<1>3. asked' = asked
  BY <1>1 DEF history
<1>4. EvaluateState # PowerCycleTimer
  BY Ops
<1>5. CASE Done
  <2>1. ToSet(ioQueue) = {EvaluateState} \cup ToSet(Tail(ioQueue))
    BY <1>2, ToSetTail
  <2>2. CASE dirty \cap Observed # {}
    <3>1. /\ ioQueue' = Tail(ioQueue) \o IfCancelled(level)
          /\ powerCycle' = (powerCycle /\ ~CancelsCycle(level))
      BY <2>2 DEF RunEvaluateState
    <3>2. Tail(ioQueue) \in Seq(Handler) /\ IfCancelled(level) \in Seq(Handler)
      BY <1>2, CancelledType
    <3>3. ToSet(ioQueue') = ToSet(Tail(ioQueue)) \cup ToSet(IfCancelled(level)) \cup {}
      <4>1. ToSet(ioQueue') = ToSet(Tail(ioQueue)) \cup ToSet(IfCancelled(level))
        BY <3>1, <3>2, ToSetConcat
      <4> QED
        BY <4>1
    <3>4. ToSet(IfCancelled(level)) \subseteq {PowerCycleTimer}
      BY ToSetSmall DEF IfCancelled
    <3>5. ToSet(ioQueue') \subseteq Quiet
      BY <1>5, <2>1, <3>3, <3>4 DEF Quiet, Done
    <3>6. Waits' <=> Waits
      BY <1>2, <1>4, <3>1, <3>3, WaitsStay
    <3>7. Outcome'
      BY <1>1, <1>3, <1>5, <3>6, OutcomeStays DEF Done
    <3> QED
      BY <3>5, <3>7 DEF InStep, Done
  <2>3. CASE dirty \cap Observed = {}
    <3>1. ioQueue' = Tail(ioQueue) /\ powerCycle' = powerCycle
      BY <2>3 DEF RunEvaluateState
    <3>2. Waits' <=> Waits
      BY <1>4, <2>1, <3>1 DEF Waits, Expired
    <3>3. Outcome'
      BY <1>1, <1>3, <1>5, <3>2, OutcomeStays DEF Done
    <3>4. ToSet(ioQueue') \subseteq Quiet
      BY <1>5, <2>1, <3>1 DEF Done
    <3> QED
      BY <3>3, <3>4 DEF InStep, Done
  <2> QED
    BY <2>2, <2>3
<1>6. ASSUME NEW x, NEW w, OnItsWay(x, w)
      PROVE  /\ OnItsWay(x, w)' /\ (Expired' <=> Expired)
             /\ powerCycle' = powerCycle
  <2> DEFINE p == PostRequest(x, w)
             h == Request(x, w)
             c == PowerCycleTimer
  <2>1. dirty \cap Observed = {}
    BY <1>6 DEF OnItsWay, Observed, ACPILevel
  <2>2. ioQueue' = Tail(ioQueue) /\ powerCycle' = powerCycle
    BY <2>1 DEF RunEvaluateState
  <2>3. Splits(EvaluateState, <<p>>) \/ Splits(EvaluateState, <<p, c>>)
    <3>1. Head(ioQueue) \notin {p, h, c}
      BY <1>2, Ops
    <3>2. ioQueue \in Forms(p, h)
      BY <1>6 DEF OnItsWay
    <3> QED
      BY <3>1, <3>2, FormsSplit DEF Splits
  <2>4. ioQueue' \in Forms(p, h)
    <3>1. ioQueue' = <<p>> \/ ioQueue' = <<p, c>>
      BY <2>2, <2>3 DEF Splits
    <3> QED
      BY <3>1 DEF Forms
  <2>5. Expired' <=> Expired
    <3>1. ToSet(ioQueue) = {EvaluateState} \cup ToSet(ioQueue')
      BY <2>2, <2>3 DEF Splits
    <3> QED
      BY <1>4, <3>1 DEF Expired
  <2> QED
    BY <1>1, <1>6, <2>2, <2>4, <2>5 DEF OnItsWay
<1>7. CASE HostOnItsWay
  <2>1. OnItsWay("host", 1)' /\ (Expired' <=> Expired) /\ powerCycle' = powerCycle
    BY <1>6, <1>7 DEF HostOnItsWay
  <2>2. HostOnItsWay'
    BY <1>1, <1>3, <1>7, <2>1 DEF HostOnItsWay, Waits
  <2> QED
    BY <2>2 DEF InStep
<1>8. CASE ChassisOnItsWay
  <2>1. OnItsWay("chassis", 0)' /\ (Expired' <=> Expired) /\ powerCycle' = powerCycle
    BY <1>6, <1>8 DEF ChassisOnItsWay
  <2>2. ChassisOnItsWay'
    BY <1>1, <1>3, <1>8, <2>1 DEF ChassisOnItsWay, Waits
  <2> QED
    BY <2>2 DEF InStep
<1> QED
  BY <1>1, <1>5, <1>7, <1>8, Heads, Ops

(* A driver's closure runs between requests. *)
LEMMA SetLevelKeepsStep ==
  ASSUME PatientInv, InTurn, NEW s \in Observed, NEW v \in {0, 1}, RunSetLevel(s, v)
  PROVE  InStep'
<1> USE DEF PatientInv, Inv
<1>1. /\ Running(SetLevelTo(s, v)) /\ SetLevels(Only(s, v))
      /\ ioQueue' = Tail(ioQueue) \o Evaluations(Only(s, v))
      /\ UNCHANGED <<powerCycle, cycleFailed, history>>
  BY DEF RunSetLevel
<1>2. /\ ioQueue # <<>> /\ Head(ioQueue) = SetLevelTo(s, v)
      /\ ioQueue \in Seq(Handler)
  BY <1>1 DEF Running, TypeOK
<1>3. Done
  BY <1>1, Heads, Ops
<1>4. ToSet(ioQueue) = {SetLevelTo(s, v)} \cup ToSet(Tail(ioQueue))
  BY <1>2, ToSetTail
<1>5. /\ ToSet(ioQueue') = ToSet(Tail(ioQueue)) \cup ToSet(Evaluations(Only(s, v)))
      /\ ToSet(Evaluations(Only(s, v))) \subseteq {EvaluateState}
  <2>1. Tail(ioQueue) \in Seq(Handler)
    BY <1>2
  <2>2. DOMAIN Only(s, v) \subseteq Signals
    BY DEF Only, Observed, Signals
  <2> DEFINE E == Evaluations(Only(s, v))
             q == Tail(ioQueue)
  <2>3. E \in Seq(Handler)
    BY <2>2, EvaluationsType
  <2>4. ToSet(E) \subseteq {EvaluateState}
    BY OnlyEvaluations
  <2>5. ioQueue' = q \o E /\ q \in Seq(Handler)
    BY <1>1, <2>1
  <2> HIDE DEF E, q
  <2>6. ToSet(ioQueue') = ToSet(q) \cup ToSet(E)
    BY <2>3, <2>5, ToSetConcat
  <2> QED
    BY <2>4, <2>6 DEF E, q
<1>6. SetLevelTo(s, v) # PowerCycleTimer /\ EvaluateState # PowerCycleTimer
  BY Ops
<1>7. Waits' <=> Waits
  BY <1>1, <1>4, <1>5, <1>6 DEF Waits, Expired
<1>8. level'["host"] = level["host"] /\ level'["chassis"] = level["chassis"]
  BY <1>1 DEF SetLevels, With, Only, Signals, Observed, ACPILevel
<1>9. Outcome'
  BY <1>1, <1>3, <1>7, <1>8, OutcomeStays DEF Done, history
<1>10. ToSet(ioQueue') \subseteq Quiet
  BY <1>3, <1>4, <1>5 DEF Done, Quiet
<1> QED
  BY <1>9, <1>10 DEF InStep, Done

(* Each step of io is in step with the request, if it is the last one's turn. *)
LEMMA IoKeepsStep ==
  ASSUME PatientInv, IoThread, history' = history
  PROVE  InStep'
<1>1. CASE ~InTurn
  BY <1>1 DEF InStep, InTurn, history
<1>2. CASE InTurn
  <2>1. ASSUME RunIdleTimer PROVE FALSE
    BY <1>2, <2>1, Heads, Ops DEF RunIdleTimer, PatientInv, Inv
  <2> QED
    BY <1>2, <2>1, RequestsKeepStep, PostKeepsStep, HalfKeepsStep, TimerKeepsStep,
       SetLevelKeepsStep, EvaluateKeepsStep DEF IoThread
<1> QED
  BY <1>1, <1>2

(* Every handler of io keeps the rest of the invariant, in turn or not. *)
LEMMA IoKeepsLevels ==
  ASSUME PatientInv, IoThread
  PROVE  history' = history /\ ~idle' /\ Evaluated' /\ Follows'
<1> USE DEF PatientInv, Inv
<1>1. ASSUME NEW new, Setting(new), NEW posts \in Seq(Handler),
             \A h \in ToSet(posts) : Op(h) # "set",
             NEW h, Running(h), Op(h) # "set", SetAndUpdate(new, posts)
      PROVE  history' = history /\ ~idle' /\ Evaluated' /\ Follows'
  <2>1. ioQueue # <<>> /\ Op(Head(ioQueue)) # "set"
    BY <1>1 DEF Running
  <2> QED
    BY <1>1, <2>1, SetStep
<1>2. ASSUME NEW h, Running(h), Op(h) # "set", NEW p \in Seq(Handler),
             \A g \in ToSet(p) : Op(g) # "set", ioQueue' = Tail(ioQueue) \o p,
             UNCHANGED <<level, acpi>>
      PROVE  Follows'
  <2>1. /\ ioQueue # <<>> /\ Op(Head(ioQueue)) # "set"
        /\ ioQueue \in Seq(Handler)
    BY <1>2 DEF Running, TypeOK
  <2>2. Tail(ioQueue) \in Seq(Handler)
    BY <2>1
  <2> QED
    BY <1>2, <2>1, <2>2, FollowsStays
<1>3. ASSUME NEW h, Running(h), Op(h) # "set", ioQueue' = Tail(ioQueue),
             UNCHANGED <<level, idle, acpi, history>>
      PROVE  history' = history /\ ~idle' /\ Follows'
  <2>1. <<>> \in Seq(Handler) /\ \A g \in ToSet(<<>>) : Op(g) # "set"
    <3>1. <<>> \in Seq(Handler)
      OBVIOUS
    <3>2. ToSet(<<>>) = {}
      BY ToSetSmall
    <3> QED
      BY <3>1, <3>2
  <2>2. ioQueue' = Tail(ioQueue) \o <<>>
    <3>1. ioQueue # <<>> /\ ioQueue \in Seq(Handler)
      BY <1>3 DEF TypeOK, Running
    <3>2. Tail(ioQueue) \in Seq(Handler)
      BY <3>1
    <3>3. \A q \in Seq(Handler) : q = q \o <<>>
      OBVIOUS
    <3> QED
      BY <1>3, <3>2, <3>3
  <2>3. Follows'
    BY <1>2, <1>3, <2>1, <2>2
  <2> QED
    BY <1>3, <2>3
<1>4. /\ \A s \in {"host", "chassis"}, v \in {0, 1} : Setting(Only(s, v))
      /\ Setting([s \in {"host", "chassis"} |-> 1])
  BY DEF Setting, Only
<1>5. <<>> \in Seq(Handler) /\ \A g \in ToSet(<<>>) : Op(g) # "set"
  <2>1. <<>> \in Seq(Handler)
    OBVIOUS
  <2>2. ToSet(<<>>) = {}
    BY ToSetSmall
  <2> QED
    BY <2>1, <2>2
<1>6. ASSUME NEW h \in Handler, Op(h) # "set"
      PROVE  <<h>> \in Seq(Handler) /\ \A g \in ToSet(<<h>>) : Op(g) # "set"
  <2>1. <<h>> \in Seq(Handler)
    OBVIOUS
  <2>2. ToSet(<<h>>) = {h}
    BY ToSetSmall
  <2> QED
    BY <1>6, <2>1, <2>2
<1>7. \A s, v : PostRequest(s, v) \in Handler =>
        /\ <<PostRequest(s, v)>> \in Seq(Handler)
        /\ \A g \in ToSet(<<PostRequest(s, v)>>) : Op(g) # "set"
  BY <1>6, Ops
<1>8. PostRequest("host", 1) \in Handler /\ PostRequest("chassis", 0) \in Handler
  BY KnownHandlers
<1>9. CASE RequestedHostOff
  <2>1. Running(Requested("host off")) /\ SetAndUpdate(Only("host", 0), <<>>)
    BY <1>9 DEF RequestedHostOff
  <2> QED
    BY <1>1, <1>4, <1>5, <2>1, Ops
<1>10. CASE RequestedHostOn
  <2>1. /\ Running(Requested("host on"))
        /\ SetAndUpdate(Only("chassis", 1), <<PostRequest("host", 1)>>)
    BY <1>10 DEF RequestedHostOn
  <2> QED
    BY <1>1, <1>4, <1>7, <1>8, <2>1, Ops
<1>11. CASE RequestedOff
  <2>1. /\ Running(Requested("off"))
        /\ SetAndUpdate(Only("host", 0), <<PostRequest("chassis", 0)>>)
    BY <1>11 DEF RequestedOff
  <2> QED
    BY <1>1, <1>4, <1>7, <1>8, <2>1, Ops
<1>12. CASE RequestedOn
  <2>1. /\ Running(Requested("on")) \/ Running(Requested("power_cycle"))
        /\ SetAndUpdate(Only("chassis", 1), <<>>)
    BY <1>12 DEF RequestedOn
  <2> QED
    BY <1>1, <1>4, <1>5, <2>1, Ops
<1>13. CASE RequestedPowerCycle
  <2> DEFINE a == <<PostRequest("chassis", 0)>>
             b == IF powerCycle THEN <<PowerCycleTimer>> ELSE <<>>
  <2>1. Running(Requested("power_cycle")) /\ SetAndUpdate(Only("host", 0), a \o b)
    BY <1>13 DEF RequestedPowerCycle
  <2>2. a \in Seq(Handler) /\ \A g \in ToSet(a) : Op(g) # "set"
    BY <1>7, <1>8
  <2>3. b \in Seq(Handler) /\ \A g \in ToSet(b) : Op(g) # "set"
    BY <1>5, <1>6, KnownHandlers, Ops
  <2> HIDE DEF a, b
  <2>4. a \o b \in Seq(Handler) /\ ToSet(a \o b) = ToSet(a) \cup ToSet(b)
    BY <2>2, <2>3, ToSetConcat
  <2>5. \A g \in ToSet(a \o b) : Op(g) # "set"
    BY <2>2, <2>3, <2>4
  <2> QED
    BY <1>1, <1>4, <2>1, <2>4, <2>5, Ops
<1>14. ASSUME NEW s \in {"host", "chassis"}, NEW v \in {0, 1}, RunPostRequest(s, v)
       PROVE  history' = history /\ ~idle' /\ Evaluated' /\ Follows'
  <2>1. /\ Running(PostRequest(s, v))
        /\ ioQueue' = Append(Tail(ioQueue), Request(s, v))
        /\ UNCHANGED <<level, dirty, idle, driven, acpi, history>>
    BY <1>14 DEF RunPostRequest
  <2>2. /\ ioQueue # <<>> /\ Head(ioQueue) = PostRequest(s, v)
        /\ ioQueue \in Seq(Handler)
    BY <2>1 DEF Running, TypeOK
  <2>3. Tail(ioQueue) \in Seq(Handler) /\ PostRequest(s, v) \in Handler
    BY <2>2
  <2>4. Request(s, v) \in Handler
    BY <2>3, PostedRequests, KnownHandlers
  <2>5. ioQueue' = Tail(ioQueue) \o <<Request(s, v)>>
    BY <2>1, <2>3, <2>4
  <2>6. /\ <<Request(s, v)>> \in Seq(Handler)
        /\ \A g \in ToSet(<<Request(s, v)>>) : Op(g) # "set"
    BY <1>6, <2>4, Ops
  <2>7. Follows'
    BY <1>2, <2>1, <2>5, <2>6, Ops
  <2>8. Evaluated'
    BY <2>1 DEF Evaluated
  <2> QED
    BY <2>1, <2>7, <2>8
<1>15. ASSUME NEW s \in {"host", "chassis"}, NEW v \in {0, 1}, RunRequest(s, v)
       PROVE  history' = history /\ ~idle' /\ Evaluated' /\ Follows'
  <2>1. Running(Request(s, v)) /\ SetAndUpdate(Only(s, v), <<>>)
    BY <1>15 DEF RunRequest
  <2> QED
    BY <1>1, <1>4, <1>5, <2>1, Ops
<1>16. CASE RunPowerCycleTimer
  <2>1. Running(PowerCycleTimer) /\ Op(PowerCycleTimer) # "set"
    BY <1>16, Ops DEF RunPowerCycleTimer
  <2>2. CASE GetCurrent(level) = "G3"
    <3>1. SetAndUpdate([s \in {"host", "chassis"} |-> 1], <<>>)
      BY <1>16, <2>2 DEF RunPowerCycleTimer
    <3> QED
      BY <1>1, <1>4, <1>5, <2>1, <3>1
  <2>3. CASE GetCurrent(level) # "G3"
    <3>1. /\ ioQueue' = Tail(ioQueue)
          /\ UNCHANGED <<level, dirty, idle, driven, acpi, history>>
      BY <1>16, <2>3 DEF RunPowerCycleTimer
    <3>2. Evaluated'
      BY <3>1 DEF Evaluated
    <3> QED
      BY <1>3, <2>1, <3>1, <3>2
  <2> QED
    BY <2>2, <2>3
<1>17. CASE RunIdleTimer
  <2>1. Running(IdleTimer) /\ Op(IdleTimer) # "set"
    BY <1>17, Ops DEF RunIdleTimer
  <2>2. CASE GetCurrent(level) = "S5"
    <3>1. SetAndUpdate(Only("host", 0), <<PostRequest("chassis", 0)>>)
      BY <1>17, <2>2 DEF RunIdleTimer
    <3> QED
      BY <1>1, <1>4, <1>7, <1>8, <2>1, <3>1
  <2>3. CASE GetCurrent(level) # "S5"
    <3>1. /\ ioQueue' = Tail(ioQueue)
          /\ UNCHANGED <<level, dirty, idle, driven, acpi, history>>
      BY <1>17, <2>3 DEF RunIdleTimer
    <3>2. Evaluated'
      BY <3>1 DEF Evaluated
    <3> QED
      BY <1>3, <2>1, <3>1, <3>2
  <2> QED
    BY <2>2, <2>3
<1>18. ASSUME NEW s \in Observed, NEW v \in {0, 1}, RunSetLevel(s, v)
       PROVE  history' = history /\ ~idle' /\ Evaluated' /\ Follows'
  <2>1. /\ Running(SetLevelTo(s, v)) /\ SetLevels(Only(s, v))
        /\ ioQueue' = Tail(ioQueue) \o Evaluations(Only(s, v))
        /\ UNCHANGED <<idle, driven, acpi, history>>
    BY <1>18 DEF RunSetLevel
  <2>2. DOMAIN Only(s, v) \subseteq Signals
    BY DEF Only, Observed, Signals
  <2>3. Evaluated'
    BY <2>1, <2>2, EvaluatedStays
  <2>4. /\ ioQueue # <<>> /\ ioQueue \in Seq(Handler)
        /\ Head(ioQueue) = SetLevelTo(s, v)
    BY <2>1 DEF Running, TypeOK
  <2>5. Follows'
    <3> SUFFICES ASSUME NEW l \in ACPILevel
                 PROVE  LastIn(ioQueue', SetsOf(l), SetLevelTo(l, level'[l]))
                          = SetLevelTo(l, IF l = acpi THEN 1 ELSE 0)
      BY <2>1 DEF Follows
    <3> DEFINE M == SetsOf(l)
               t == Tail(ioQueue)
               e == Evaluations(Only(s, v))
               d == SetLevelTo(l, level'[l])
    <3>1. t \in Seq(Handler) /\ e \in Seq(Handler)
      BY <2>2, <2>4, EvaluationsType
    <3>2. \A h \in ToSet(e) : h \notin M
      BY OnlyEvaluations, Ops DEF SetsOf
    <3>3. LastIn(ioQueue, M, SetLevelTo(l, level[l]))
            = SetLevelTo(l, IF l = acpi THEN 1 ELSE 0)
      BY DEF Follows
    <3>4. d = IF Head(ioQueue) \in M THEN Head(ioQueue) ELSE SetLevelTo(l, level[l])
      <4>1. level'[l] = IF l = s THEN v ELSE level[l]
        BY <2>1 DEF SetLevels, With, Only, Signals
      <4>2. SetLevelTo(s, v) \in M <=> s = l
        <5>1. s = l => SetLevelTo(s, v) \in M
          BY DEF SetsOf
        <5>2. ASSUME NEW w \in {0, 1}, SetLevelTo(s, v) = SetLevelTo(l, w)
              PROVE  s = l
          <6>1. SignalOf(SetLevelTo(s, v)) = s /\ SignalOf(SetLevelTo(l, w)) = l
            BY Ops
          <6> QED
            BY <5>2, <6>1
        <5> QED
          BY <5>1, <5>2 DEF SetsOf
      <4> QED
        BY <2>4, <4>1, <4>2
    <3> HIDE DEF M, t, e, d
    <3>5. LastIn(t \o e, M, d) = LastIn(t, M, d)
      BY <3>1, <3>2, LastInConcat
    <3>6. LastIn(t, M, d) = LastIn(ioQueue, M, SetLevelTo(l, level[l]))
      BY <2>4, <3>4, LastInTail DEF t
    <3>7. ioQueue' = t \o e
      BY <2>1 DEF t, e
    <3> QED
      BY <3>3, <3>5, <3>6, <3>7 DEF M, d
  <2> QED
    BY <2>1, <2>3, <2>5
<1>19. CASE RunEvaluateState
  <2>1. /\ Running(EvaluateState) /\ driven' = [s \in DOMAIN driven |-> level[s]]
        /\ UNCHANGED <<level, history, acpi>>
    BY <1>19 DEF RunEvaluateState
  <2>2. Evaluated'
    BY <2>1 DEF Evaluated
  <2>3. CASE dirty \cap Observed # {}
    <3>1. Update(level) /\ ioQueue' = Tail(ioQueue) \o IfCancelled(level)
      BY <1>19, <2>3 DEF RunEvaluateState
    <3>2. ~idle'
      BY <3>1 DEF Update, Patience
    <3>3. /\ IfCancelled(level) \in Seq(Handler)
          /\ \A g \in ToSet(IfCancelled(level)) : Op(g) # "set"
      BY <1>5, <1>6, KnownHandlers, Ops DEF IfCancelled
    <3>4. Follows'
      BY <1>2, <2>1, <3>1, <3>3, Ops
    <3> QED
      BY <2>1, <2>2, <3>2, <3>4
  <2>4. CASE dirty \cap Observed = {}
    <3>1. ioQueue' = Tail(ioQueue) /\ idle' = idle
      BY <1>19, <2>4 DEF RunEvaluateState
    <3> QED
      BY <1>3, <2>1, <2>2, <3>1, Ops
  <2> QED
    BY <2>3, <2>4
<1> QED
  BY <1>9, <1>10, <1>11, <1>12, <1>13, <1>14, <1>15, <1>16, <1>17, <1>18, <1>19
     DEF IoThread

-----------------------------------------------------------------------------
(* What comes from outside. *)

(* The mainboard moves to another state. *)
LEMMA MovesElsewhere ==
  ASSUME TypeOK, Patience, NEW l \in ACPILevel, Move(l)
  PROVE  l # acpi /\ ioQueue = <<>>
<1>1. /\ AtRest /\ ~Settled /\ l \in Towards(Target)
  BY DEF Move, MayMoveTo, Patience
<1>2. acpi \in {"G3", "S5", "S3", "S0"}
  BY DEF TypeOK, ACPILevel
<1>3. /\ Adjacent("G3") = {"S5"} /\ Adjacent("S5") = {"G3", "S3", "S0"}
      /\ Adjacent("S3") = {"S5", "S0"} /\ Adjacent("S0") = {"S3", "S5"}
  BY DEF Adjacent
<1>4. acpi \notin Adjacent(acpi)
  BY <1>2, <1>3
<1>5. Target \in {"G3", "S0", "S5"}
  BY DEF Target
<1>6. Target # acpi
  BY <1>1 DEF Settled
<1>7. acpi = "S5" => Target \in Adjacent(acpi)
  BY <1>3, <1>5, <1>6
<1> QED
  BY <1>1, <1>4, <1>6, <1>7 DEF Towards, AtRest

(* Nothing but a quiet handler comes between requests. *)
LEMMA AtRestIsDone ==
  ASSUME InStep, InTurn, ioQueue = <<>>
  PROVE  Done
<1>1. ~Asked
  <2>1. <<Requested(asked)>> # <<>>
    OBVIOUS
  <2> QED
    BY <2>1 DEF Asked
<1>2. ASSUME NEW s, NEW v PROVE ~OnItsWay(s, v)
  BY FormsSplit DEF OnItsWay, Splits
<1> QED
  BY <1>1, <1>2 DEF InStep, HostOnItsWay, ChassisOnItsWay

(* Quiet handlers that come at rest do not change the outcome. *)
LEMMA QuietComes ==
  ASSUME PatientInv, ioQueue = <<>>, ToSet(ioQueue') \subseteq Quiet \ {PowerCycleTimer},
         UNCHANGED <<level, powerCycle, cycleFailed, history>>
  PROVE  InStep'
<1>1. CASE InTurn
  <2>1. Done
    BY <1>1, AtRestIsDone DEF PatientInv
  <2>2. ~Expired /\ ~Expired'
    BY ToSetSmall DEF Expired
  <2>3. Waits' <=> Waits
    BY <2>2 DEF Waits
  <2>4. Outcome'
    BY <2>1, <2>3, OutcomeStays DEF Done, history
  <2> QED
    BY <2>4 DEF InStep, Done
<1>2. CASE ~InTurn
  BY <1>2 DEF InStep, InTurn, history
<1> QED
  BY <1>1, <1>2

(* A handler that sets no level comes. *)
LEMMA FollowsAppend ==
  ASSUME PatientInv, NEW h \in Handler, Op(h) # "set", ioQueue' = Append(ioQueue, h),
         UNCHANGED <<level, dirty, idle, driven, acpi>>
  PROVE  ~idle' /\ Evaluated' /\ Follows'
<1>1. ioQueue \in Seq(Handler)
  BY DEF PatientInv, Inv, TypeOK
<1>2. <<h>> \in Seq(Handler)
  OBVIOUS
<1>3. Append(ioQueue, h) = ioQueue \o <<h>>
  BY <1>1
<1>4. \A g \in ToSet(<<h>>) : Op(g) # "set"
  <2>1. ToSet(<<h>>) = {h}
    BY ToSetSmall
  <2> QED
    BY <2>1
<1>5. Follows'
  BY <1>1, <1>2, <1>3, <1>4, FollowsStays DEF PatientInv, Inv
<1>6. Evaluated'
  BY DEF PatientInv, Evaluated
<1> QED
  BY <1>5, <1>6 DEF PatientInv

(* A request, or an error, that is in turn comes at rest. *)
LEMMA RequestComes ==
  ASSUME PatientInv, NEW r \in Requests, ioQueue' = Append(ioQueue, Requested(r)),
         asked' = r, UNCHANGED <<level, dirty, idle, powerCycle, driven, acpi>>,
         InTurn' => ioQueue = <<>> /\ ~powerCycle
  PROVE  InStep' /\ ~idle' /\ Evaluated' /\ Follows'
<1>1. ~idle' /\ Evaluated' /\ Follows'
  BY FollowsAppend, KnownHandlers, Ops
<1>2. ASSUME InTurn' PROVE Asked'
  <2>1. Append(<<>>, Requested(r)) = <<Requested(r)>>
    OBVIOUS
  <2>2. ioQueue' = <<Requested(asked')>>
    BY <1>2, <2>1
  <2>3. dirty = {}
    <3>1. EvaluateState \notin ToSet(ioQueue)
      BY <1>2, ToSetSmall
    <3> QED
      BY <3>1 DEF PatientInv, Inv, Listed
  <2> QED
    BY <1>2, <2>2, <2>3 DEF Asked
<1> QED
  BY <1>1, <1>2 DEF InStep

(* The timer of a power cycle expires: its handler is queued, in place of it. *)
LEMMA CycleExpires ==
  ASSUME PatientInv, PowerCycleExpires
  PROVE  InStep' /\ ~idle' /\ Evaluated' /\ Follows'
<1> USE DEF PatientInv, Inv
<1>1. /\ powerCycle /\ ~powerCycle' /\ ioQueue' = Append(ioQueue, PowerCycleTimer)
      /\ UNCHANGED <<level, dirty, idle, cycleFailed, history, driven, acpi>>
  BY DEF PowerCycleExpires
<1>2. ~idle' /\ Evaluated' /\ Follows'
  BY <1>1, FollowsAppend, KnownHandlers, Ops
<1>3. ToSet(ioQueue') = ToSet(ioQueue) \cup {PowerCycleTimer}
  <2>1. ioQueue \in Seq(Handler) /\ PowerCycleTimer \in Handler
    BY KnownHandlers DEF TypeOK
  <2>2. ToSet(Append(ioQueue, PowerCycleTimer)) = ToSet(ioQueue) \cup {PowerCycleTimer}
    BY <2>1, ToSetAppend
  <2> QED
    BY <1>1, <2>2
<1>4. Waits /\ Waits' /\ asked' = asked
  BY <1>1, <1>3 DEF Waits, Expired, history
<1>5. InStep'
  <2>1. CASE ~InTurn
    BY <1>1, <2>1 DEF InStep, InTurn, history
  <2>2. CASE Asked \/ HostOnItsWay
    BY <1>1, <1>4, <2>2 DEF Asked, HostOnItsWay
  <2>3. CASE ChassisOnItsWay
    <3> DEFINE p == PostRequest("chassis", 0)
               h == Request("chassis", 0)
               c == PowerCycleTimer
               e == EvaluateState
    <3>1. ioQueue \in Forms(p, h) /\ ~Expired
      BY <1>1, <2>3 DEF ChassisOnItsWay, OnItsWay
    <3>2. /\ ToSet(<<e, p, c>>) = {e, p, c} /\ ToSet(<<p, c>>) = {p, c}
          /\ ToSet(<<c, h>>) = {c, h} /\ ToSet(<<h, c>>) = {h, c}
      BY ToSetPair, ToSetTriple
    <3> HIDE DEF p, h, e, c
    <3>3. ioQueue \in {<<e, p>>, <<p>>, <<h>>}
      <4>1. c \notin ToSet(ioQueue)
        BY <3>1 DEF Expired, c
      <4> QED
        BY <3>1, <3>2, <4>1 DEF Forms, e, c
    <3>4. /\ Append(<<e, p>>, c) = <<e, p, c>> /\ Append(<<p>>, c) = <<p, c>>
          /\ Append(<<h>>, c) = <<h, c>>
      BY AppendPair, AppendSingle
    <3>5. ioQueue' \in {<<e, p, c>>, <<p, c>>, <<h, c>>}
      BY <1>1, <3>3, <3>4 DEF c
    <3>6. ioQueue' \in Forms(p, h)
      BY <3>5 DEF Forms, e, c
    <3>7. dirty # {} => ioQueue = <<e, p>>
      <4>1. Op(p) = "post" /\ Op(h) = "half" /\ Op(e) = "evaluate"
        BY Ops DEF p, h, e
      <4>2. Head(<<p>>) = p /\ Head(<<h>>) = h
        OBVIOUS
      <4>3. dirty # {} => Head(ioQueue) = e
        BY <2>3 DEF ChassisOnItsWay, OnItsWay, e
      <4> QED
        BY <3>3, <4>1, <4>2, <4>3
    <3>8. dirty # {} => Head(ioQueue') = e
      <4>1. Head(<<e, p, c>>) = e
        OBVIOUS
      <4> QED
        BY <1>1, <3>4, <3>7, <4>1 DEF c
    <3>9. OnItsWay("chassis", 0)'
      BY <1>1, <2>3, <3>6, <3>8 DEF ChassisOnItsWay, OnItsWay, p, h, e
    <3>10. ChassisOnItsWay'
      BY <1>1, <1>4, <2>3, <3>9 DEF ChassisOnItsWay
    <3> QED
      BY <3>10 DEF InStep
  <2>4. CASE Done
    <3>1. ToSet(ioQueue') \subseteq Quiet
      BY <1>3, <2>4 DEF Done, Quiet
    <3>2. Outcome'
      BY <1>1, <1>4, <2>4, OutcomeStays DEF Done
    <3> QED
      BY <3>1, <3>2 DEF InStep, Done
  <2> QED
    BY <2>1, <2>2, <2>3, <2>4 DEF InStep
<1> QED
  BY <1>2, <1>5

(* A move of the mainboard sets the level that it leaves and the one that it
   comes to, in either order, between requests. *)
LEMMA MoveKeeps ==
  ASSUME PatientInv, NEW l \in ACPILevel, Move(l)
  PROVE  InStep' /\ ~idle' /\ Evaluated' /\ Follows'
<1> USE DEF PatientInv, Inv
<1>1. l # acpi /\ ioQueue = <<>>
  BY MovesElsewhere
<1>2. /\ acpi' = l
      /\ UNCHANGED <<level, dirty, powerCycle, idle, cycleFailed, history, driven>>
  BY DEF Move
<1> DEFINE a == SetLevelTo(l, 1)
           b == SetLevelTo(acpi, 0)
<1>3. ioQueue' = ioQueue \o <<a, b>> \/ ioQueue' = ioQueue \o <<b, a>>
  <2>1. PICK first \in {<<l, 1>>, <<acpi, 0>>} :
          LET second == IF first[2] = 1 THEN <<acpi, 0>> ELSE <<l, 1>>
          IN ioQueue' = ioQueue \o <<SetLevelTo(first[1], first[2]),
                                     SetLevelTo(second[1], second[2])>>
    BY DEF Move
  <2>2. CASE first = <<l, 1>>
    BY <2>1, <2>2
  <2>3. CASE first = <<acpi, 0>>
    BY <2>1, <2>3
  <2> QED
    BY <2>2, <2>3
<1>4. l \in Observed /\ acpi \in Observed /\ acpi \in ACPILevel
  BY DEF TypeOK, Observed
<1>5. /\ a \in Handler /\ b \in Handler /\ a \in Quiet /\ b \in Quiet
      /\ a # PowerCycleTimer /\ b # PowerCycleTimer
  <2>1. a \in Handler /\ b \in Handler
    BY <1>4, KnownHandlers
  <2>2. a \in Quiet /\ b \in Quiet
    BY <1>4 DEF Quiet
  <2>3. a # PowerCycleTimer /\ b # PowerCycleTimer
    BY Ops
  <2> QED
    BY <2>1, <2>2, <2>3
<1>6. InStep'
  <2>1. \A q : <<>> \o <<a, b>> = <<a, b>> /\ <<>> \o <<b, a>> = <<b, a>>
    BY ShortHandlers
  <2>2. ToSet(ioQueue') = {a, b}
    <3>1. ToSet(<<a, b>>) = {a, b} /\ ToSet(<<b, a>>) = {a, b}
      BY ToSetPair
    <3> HIDE DEF a, b
    <3> QED
      BY <1>1, <1>3, <2>1, <3>1
  <2> HIDE DEF a, b
  <2> QED
    BY <1>1, <1>2, <1>5, <2>2, QuietComes
<1>7. Evaluated' /\ ~idle'
  BY <1>2 DEF Evaluated
<1>8. Follows'
  <2> SUFFICES ASSUME NEW k \in ACPILevel
               PROVE  LastIn(ioQueue', SetsOf(k), SetLevelTo(k, level[k]))
                        = SetLevelTo(k, IF k = l THEN 1 ELSE 0)
    BY <1>2 DEF Follows
  <2> DEFINE M == SetsOf(k)
             d == SetLevelTo(k, level[k])
  <2>1. LastIn(ioQueue, M, d) = SetLevelTo(k, IF k = acpi THEN 1 ELSE 0)
    BY DEF Follows
  <2>2. (a \in M <=> k = l) /\ (b \in M <=> k = acpi)
    <3>1. SignalOf(a) = l /\ SignalOf(b) = acpi /\ \A m \in M : SignalOf(m) = k
      BY Ops DEF SetsOf
    <3>2. (k = l => a \in M) /\ (k = acpi => b \in M)
      BY DEF SetsOf
    <3> QED
      BY <3>1, <3>2
  <2>3. k = l => a = SetLevelTo(k, 1)
    OBVIOUS
  <2>4. k = acpi => b = SetLevelTo(k, 0)
    OBVIOUS
  <2> HIDE DEF a, b, M, d
  <2>5. ioQueue \in Seq(Handler)
    BY DEF TypeOK
  <2>6. ASSUME NEW x \in Handler, NEW y \in Handler
        PROVE  LastIn(ioQueue \o <<x, y>>, M, d)
                 = IF y \in M THEN y ELSE IF x \in M THEN x ELSE LastIn(ioQueue, M, d)
    <3>1. ioQueue \o <<x, y>> = Append(Append(ioQueue, x), y)
      BY <2>5, AppendTwo
    <3> DEFINE q == Append(ioQueue, x)
    <3>2. q \in Seq(Handler)
      BY <2>5
    <3>3. LastIn(q, M, d) = IF x \in M THEN x ELSE LastIn(ioQueue, M, d)
      BY <2>5, LastInAppend
    <3>4. ioQueue \o <<x, y>> = Append(q, y)
      BY <3>1
    <3> HIDE DEF q
    <3>5. LastIn(Append(q, y), M, d) = IF y \in M THEN y ELSE LastIn(q, M, d)
      BY <3>2, LastInAppend
    <3> QED
      BY <3>3, <3>4, <3>5
  <2>7. LastIn(ioQueue', M, d)
          = IF a \in M THEN a ELSE IF b \in M THEN b ELSE LastIn(ioQueue, M, d)
    <3>1. ~(a \in M /\ b \in M)
      BY <1>1, <2>2
    <3>2. LastIn(ioQueue \o <<a, b>>, M, d)
            = IF b \in M THEN b ELSE IF a \in M THEN a ELSE LastIn(ioQueue, M, d)
      BY <1>5, <2>6
    <3>3. LastIn(ioQueue \o <<b, a>>, M, d)
            = IF a \in M THEN a ELSE IF b \in M THEN b ELSE LastIn(ioQueue, M, d)
      BY <1>5, <2>6
    <3>4. CASE ioQueue' = ioQueue \o <<a, b>>
      BY <3>1, <3>2, <3>4
    <3>5. CASE ioQueue' = ioQueue \o <<b, a>>
      BY <3>3, <3>5
    <3> QED
      BY <1>3, <3>4, <3>5
  <2>8. LastIn(ioQueue', M, d) = SetLevelTo(k, IF k = l THEN 1 ELSE 0)
    BY <1>1, <2>1, <2>2, <2>3, <2>4, <2>7
  <2> QED
    BY <2>8 DEF M, d
<1> QED
  BY <1>6, <1>7, <1>8

(* What comes from outside keeps the invariant. *)
LEMMA OutsideKeeps ==
  ASSUME PatientInv, Timers \/ Mainboard \/ Outside \/ RegulatorFails
  PROVE  InStep' /\ ~idle' /\ Evaluated' /\ Follows'
<1> USE DEF PatientInv, Inv
<1>1. CASE PowerCycleExpires
  BY <1>1, CycleExpires
<1>2. CASE IdleExpires
  BY <1>2 DEF IdleExpires
<1>3. ASSUME NEW l \in ACPILevel, Move(l)
      PROVE  InStep' /\ ~idle' /\ Evaluated' /\ Follows'
  BY <1>3, MoveKeeps
<1>4. ASSUME NEW v \in {0, 1}, PostCode(v)
      PROVE  InStep' /\ ~idle' /\ Evaluated' /\ Follows'
  <2> DEFINE h == SetLevelTo("post", v)
  <2>1. /\ ioQueue = <<>> /\ ioQueue' = Append(ioQueue, h)
        /\ UNCHANGED <<level, dirty, powerCycle, idle, cycleFailed, history, driven,
                       acpi>>
    BY <1>4 DEF PostCode, AtRest, Patience
  <2>2. h \in Handler /\ h \in Quiet /\ h # PowerCycleTimer
    <3>1. "post" \in Observed
      BY DEF Observed
    <3>2. h \in Handler /\ h # PowerCycleTimer
      BY <3>1, KnownHandlers, Ops
    <3>3. h \in Quiet
      BY <3>1 DEF Quiet
    <3> QED
      BY <3>2, <3>3
  <2>3. \A l \in ACPILevel : h \notin SetsOf(l)
    <3>1. SignalOf(h) = "post" /\ \A l : \A m \in SetsOf(l) : SignalOf(m) = l
      BY Ops DEF SetsOf
    <3>2. "post" \notin ACPILevel
      BY DEF ACPILevel
    <3> QED
      BY <3>1, <3>2
  <2> HIDE DEF h
  <2>4. ToSet(ioQueue') = {h}
    <3>1. Append(<<>>, h) = <<h>>
      OBVIOUS
    <3> QED
      BY <2>1, <3>1, ToSetSmall
  <2>5. InStep'
    BY <2>1, <2>2, <2>4, QuietComes
  <2>6. Evaluated' /\ ~idle'
    BY <2>1 DEF Evaluated
  <2>7. Follows'
    <3>1. ASSUME NEW l \in ACPILevel, NEW d
          PROVE  LastIn(ioQueue', SetsOf(l), d) = LastIn(ioQueue, SetsOf(l), d)
      <4>1. ioQueue \in Seq(Handler)
        BY DEF TypeOK
      <4>2. LastIn(Append(ioQueue, h), SetsOf(l), d)
              = IF h \in SetsOf(l) THEN h ELSE LastIn(ioQueue, SetsOf(l), d)
        BY <2>2, <4>1, LastInAppend
      <4> QED
        BY <2>1, <2>3, <4>2
    <3> QED
      BY <2>1, <3>1 DEF Follows
  <2> QED
    BY <2>5, <2>6, <2>7
<1>5. ASSUME NEW r \in Requests, Arrive(r)
      PROVE  InStep' /\ ~idle' /\ Evaluated' /\ Follows'
  <2>1. /\ ioQueue = <<>> /\ ~powerCycle /\ ioQueue' = Append(ioQueue, Requested(r))
        /\ asked' = r
        /\ UNCHANGED <<level, dirty, idle, powerCycle, driven, acpi>>
    BY <1>5 DEF Arrive, AtRest, Patience
  <2> QED
    BY <2>1, RequestComes
<1>6. CASE RegulatorFails
  <2>1. /\ ioQueue' = Append(ioQueue, Requested("off")) /\ asked' = "off"
        /\ after' = IF Cycling THEN "cycle" ELSE IF AtRest THEN "rest" ELSE "handlers"
        /\ UNCHANGED <<level, dirty, idle, powerCycle, driven, acpi>>
    BY <1>6 DEF RegulatorFails
  <2>2. InTurn' => ioQueue = <<>> /\ ~powerCycle
    BY <2>1 DEF InTurn, AtRest, Cycling
  <2>3. "off" \in Requests
    BY DEF Requests
  <2> QED
    BY <2>1, <2>2, <2>3, RequestComes
<1> QED
  BY <1>1, <1>2, <1>3, <1>4, <1>5, <1>6 DEF Timers, Mainboard, Outside

(* The drivers have posted what they found: each level of the mainboard once. *)
LEMMA InitPatient ==
  ASSUME Patience, Init
  PROVE  PatientInv
<1> DEFINE names == <<"G3", "S5", "S3", "S0">>
           found == [i \in 1..4 |->
                       LET l == names[i]
                       IN SetLevelTo(l, IF l = acpi THEN 1 ELSE 0)]
<1>1. /\ ioQueue = Append(found, EvaluateState) /\ Inv
      /\ ~idle /\ ~powerCycle /\ asked = "" /\ level = [s \in Signals |-> Undefined]
      /\ driven = [s \in {"host", "chassis"} |-> Undefined]
  BY InitInv DEF Init
<1>2. \A l \in ACPILevel : \E i \in 1 .. 4 : names[i] = l
  <2>1. names[1] = "G3" /\ names[2] = "S5" /\ names[3] = "S3" /\ names[4] = "S0"
    OBVIOUS
  <2> HIDE DEF names
  <2> QED
    BY <2>1 DEF ACPILevel
<1>3. /\ \A i \in 1 .. 4 : names[i] \in Observed
      /\ \A i, j \in 1 .. 4 : names[i] = names[j] => i = j
  <2>1. names[1] = "G3" /\ names[2] = "S5" /\ names[3] = "S3" /\ names[4] = "S0"
    OBVIOUS
  <2>2. \A i \in 1 .. 4 : i = 1 \/ i = 2 \/ i = 3 \/ i = 4
    OBVIOUS
  <2> HIDE DEF names
  <2> QED
    BY <2>1, <2>2 DEF Observed, ACPILevel
<1> HIDE DEF names
<1>4. \A i \in 1 .. 4 :
        found[i] = SetLevelTo(names[i], IF names[i] = acpi THEN 1 ELSE 0)
  OBVIOUS
<1>5. \A i \in 1 .. 4 : found[i] \in Handler /\ found[i] \in Quiet
                         /\ found[i] # PowerCycleTimer
  <2>1. SUFFICES ASSUME NEW i \in 1 .. 4
                 PROVE  found[i] \in Handler /\ found[i] \in Quiet
                          /\ found[i] # PowerCycleTimer
    OBVIOUS
  <2>2. PICK v \in {0, 1} : found[i] = SetLevelTo(names[i], v)
    BY <1>4
  <2>3. names[i] \in Observed
    BY <1>3
  <2> HIDE DEF found
  <2>4. found[i] \in Handler
    BY <2>2, <2>3, KnownHandlers
  <2>5. found[i] \in Quiet
    BY <2>2, <2>3 DEF Quiet
  <2>6. found[i] # PowerCycleTimer
    BY <2>2, Ops
  <2> QED
    BY <2>4, <2>5, <2>6
<1>6. found = [i \in 1 .. 4 |-> found[i]]
  OBVIOUS
<1> HIDE DEF found
<1>7. found \in Seq(Handler) /\ Len(found) = 4 /\ DOMAIN found = 1 .. 4
  BY <1>5, <1>6
<1>8. EvaluateState \in Handler /\ EvaluateState \in Quiet
      /\ EvaluateState # PowerCycleTimer /\ Op(EvaluateState) = "evaluate"
  <2>1. EvaluateState \in Quiet
    BY DEF Quiet
  <2> QED
    BY <2>1, KnownHandlers, Ops
<1>9. ToSet(ioQueue) \subseteq Quiet /\ PowerCycleTimer \notin ToSet(ioQueue)
  <2>1. ToSet(Append(found, EvaluateState)) = ToSet(found) \cup {EvaluateState}
    BY <1>7, <1>8, ToSetAppend
  <2>2. \A h \in ToSet(found) : h \in Quiet /\ h # PowerCycleTimer
    BY <1>5, <1>7 DEF ToSet
  <2>3. ToSet(ioQueue) = ToSet(found) \cup {EvaluateState}
    BY <1>1, <2>1
  <2> QED
    BY <1>8, <2>2, <2>3
<1>10. InStep
  <2>1. ~Waits
    BY <1>1, <1>9 DEF Waits, Expired
  <2>2. level["host"] # 1
    <3>1. level["host"] = Undefined
      BY DEF Init, Signals
    <3>2. Undefined # 1
      BY DEF Undefined
    <3> QED
      BY <3>1, <3>2
  <2>3. Outcome
    BY <1>1, <2>1, <2>2 DEF Outcome
  <2> QED
    BY <1>9, <2>3 DEF InStep, Done
<1>11. Evaluated
  BY <1>1 DEF Evaluated, Signals
<1>12. Follows
  <2> SUFFICES ASSUME NEW l \in ACPILevel
               PROVE  LastIn(ioQueue, SetsOf(l), SetLevelTo(l, level[l]))
                        = SetLevelTo(l, IF l = acpi THEN 1 ELSE 0)
    BY DEF Follows
  <2> DEFINE M == SetsOf(l)
             d == SetLevelTo(l, level[l])
  <2>1. PICK i \in 1 .. 4 : names[i] = l
    BY <1>2
  <2>2. found[i] = SetLevelTo(l, IF l = acpi THEN 1 ELSE 0) /\ found[i] \in M
    BY <1>4, <2>1 DEF SetsOf
  <2>3. ASSUME NEW j \in 1 .. 4, j > i PROVE found[j] \notin M
    <3>1. SignalOf(found[j]) = names[j] /\ \A m \in M : SignalOf(m) = l
      BY <1>4, Ops DEF SetsOf
    <3> QED
      BY <1>3, <2>1, <2>3, <3>1
  <2>4. EvaluateState \notin M
    BY <1>8, Ops DEF SetsOf
  <2> HIDE DEF M, d
  <2>5. LastIn(found, M, d) = found[i]
    <3>1. i \in 1 .. Len(found) /\ \A j \in 1 .. Len(found) : j > i => found[j] \notin M
      BY <1>7, <2>3
    <3>2. found \in Seq(Handler) /\ found[i] \in M
      BY <1>7, <2>2
    <3> QED
      BY <3>1, <3>2, LastInIs
  <2>6. LastIn(Append(found, EvaluateState), M, d)
          = IF EvaluateState \in M THEN EvaluateState ELSE LastIn(found, M, d)
    BY <1>7, <1>8, LastInAppend
  <2>7. LastIn(ioQueue, M, d) = SetLevelTo(l, IF l = acpi THEN 1 ELSE 0)
    BY <1>1, <2>2, <2>4, <2>5, <2>6
  <2> QED
    BY <2>7 DEF M, d
<1> QED
  BY <1>1, <1>10, <1>11, <1>12 DEF PatientInv

(* Every step keeps the invariant of a patient user. *)
LEMMA NextKeepsPatient == PatientInv /\ [Next]_vars => PatientInv'
<1> SUFFICES ASSUME PatientInv, [Next]_vars PROVE PatientInv'
  OBVIOUS
<1>1. Patience' /\ Inv'
  BY NextKeepsInv DEF PatientInv, Patience
<1>2. CASE IoThread
  BY <1>1, <1>2, IoKeepsLevels, IoKeepsStep DEF PatientInv
<1>3. CASE Timers \/ Mainboard \/ Outside \/ RegulatorFails
  BY <1>1, <1>3, OutsideKeeps DEF PatientInv
<1>4. CASE UNCHANGED vars
  <2>1. UNCHANGED <<level, dirty, ioQueue, powerCycle, idle, cycleFailed, asked,
                    after, driven, acpi>>
    BY <1>4 DEF vars, history
  <2>2. ~idle' /\ Evaluated' /\ Follows'
    BY <2>1 DEF PatientInv, Evaluated, Follows
  <2>3. InTurn' <=> InTurn
    BY <2>1 DEF InTurn
  <2>4. Waits' <=> Waits
    BY <2>1 DEF Waits, Expired
  <2>5. (Asked => Asked') /\ (Done => Done')
    BY <2>1, <2>4 DEF Asked, Done, Outcome
  <2>6. (HostOnItsWay => HostOnItsWay') /\ (ChassisOnItsWay => ChassisOnItsWay')
    BY <2>1, <2>4 DEF HostOnItsWay, ChassisOnItsWay, OnItsWay, Expired
  <2> QED
    BY <1>1, <2>2, <2>3, <2>5, <2>6 DEF PatientInv, InStep
<1> QED
  BY <1>2, <1>3, <1>4 DEF Next

(* The invariant holds for a patient user, whose mainboard is obedient and does
   not go to G3 by itself. *)
THEOREM PatientInvHolds == Patience /\ Spec => []PatientInv
<1>1. Patience /\ Init => PatientInv
  BY InitPatient
<1> QED
  BY <1>1, NextKeepsPatient, PTL DEF Spec

-----------------------------------------------------------------------------
(* What a patient user sees. *)

(* At rest nothing is dirty: the netlist has seen the requests, the levels of
   the mainboard are known, and D-Bus publishes its state. *)
LEMMA AtRestIsKnown ==
  ASSUME PatientInv, AtRest
  PROVE  /\ dirty = {}
         /\ driven["host"] = level["host"] /\ driven["chassis"] = level["chassis"]
         /\ GetCurrent(level) = acpi /\ dbus = Report(level, acpi)
<1> USE DEF PatientInv, Inv
<1>1. ioQueue = <<>> /\ ToSet(ioQueue) = {}
  BY ToSetSmall DEF AtRest
<1>2. dirty = {}
  BY <1>1 DEF Listed
<1>3. driven["host"] = level["host"] /\ driven["chassis"] = level["chassis"]
  BY <1>2 DEF Evaluated, TypeOK
<1>4. \A l \in ACPILevel : level[l] = IF l = acpi THEN 1 ELSE 0
  <2> SUFFICES ASSUME NEW l \in ACPILevel PROVE level[l] = IF l = acpi THEN 1 ELSE 0
    OBVIOUS
  <2>1. LastIn(<<>>, SetsOf(l), SetLevelTo(l, level[l]))
          = SetLevelTo(l, IF l = acpi THEN 1 ELSE 0)
    BY <1>1 DEF Follows
  <2>2. LastIn(<<>>, SetsOf(l), SetLevelTo(l, level[l])) = SetLevelTo(l, level[l])
    BY LastInEmpty
  <2>3. /\ ValueOf(SetLevelTo(l, level[l])) = level[l]
        /\ ValueOf(SetLevelTo(l, IF l = acpi THEN 1 ELSE 0)) = IF l = acpi THEN 1 ELSE 0
    BY Ops
  <2> QED
    BY <2>1, <2>2, <2>3
<1>5. acpi \in ACPILevel
  BY DEF TypeOK
<1>6. GetCurrent(level) = acpi
  <2> DEFINE on == {l \in ACPILevel : level[l] = 1}
  <2>1. on = {acpi}
    BY <1>4, <1>5
  <2>2. Cardinality(on) = 1
    BY <2>1, FS_Singleton
  <2>3. (CHOOSE l \in on : TRUE) = acpi
    BY <2>1
  <2>4. ~ \E l \in ACPILevel : level[l] = Undefined
    BY <1>4 DEF Undefined
  <2>5. GetCurrent(level)
          = IF \E l \in ACPILevel : level[l] = Undefined THEN "G3"
            ELSE IF Cardinality(on) = 1 THEN CHOOSE l \in on : TRUE ELSE Invalid
    BY DEF GetCurrent
  <2> HIDE DEF on
  <2> QED
    BY <2>2, <2>3, <2>4, <2>5
<1>7. acpi # Invalid
  BY <1>5 DEF ACPILevel, Invalid
<1> QED
  BY <1>2, <1>3, <1>6, <1>7 DEF Fresh, Stale

(* A steady state is what was asked for last. *)
LEMMA SteadyIsCarriedOut ==
  ASSUME PatientInv
  PROVE  CarriedOut
<1> SUFFICES ASSUME Steady, InTurn
             PROVE  CASE asked = "off" -> level["chassis"] = 0 /\ level["host"] = 0
                      [] asked = "on" -> level["chassis"] = 1
                      [] asked = "host off" -> level["host"] = 0
                      [] asked = "host on" -> level["chassis"] = 1 /\ level["host"] = 1
                      [] asked = "power_cycle" -> cycleFailed \/ level["chassis"] = 1
                      [] OTHER -> TRUE
  BY DEF CarriedOut
<1>1. ioQueue = <<>> /\ ~powerCycle
  BY DEF Steady, AtRest
<1>2. Outcome
  BY <1>1, AtRestIsDone DEF PatientInv, Done
<1>3. ~Waits
  BY <1>1, ToSetSmall DEF Waits, Expired
<1>4. CASE asked = "off"
  BY <1>2, <1>4 DEF Outcome
<1>5. CASE asked = "on"
  BY <1>2, <1>5 DEF Outcome
<1>6. CASE asked = "host off"
  BY <1>2, <1>6 DEF Outcome
<1>7. CASE asked = "host on"
  BY <1>2, <1>7 DEF Outcome
<1>8. CASE asked = "power_cycle"
  BY <1>2, <1>3, <1>8 DEF Outcome
<1>9. CASE asked \notin Requests
  BY <1>9 DEF Requests
<1> QED
  BY <1>4, <1>5, <1>6, <1>7, <1>8, <1>9 DEF Requests

(* A steady state is a row of the table. *)
LEMMA SteadyIsInTable ==
  ASSUME PatientInv
  PROVE  TableHolds
<1> SUFFICES ASSUME Steady, InTurn, level["host"] # Undefined
             PROVE  InTable
  BY DEF TableHolds
<1> USE DEF PatientInv, Inv
<1>1. /\ driven["host"] = level["host"] /\ driven["chassis"] = level["chassis"]
      /\ GetCurrent(level) = acpi /\ dbus = Report(level, acpi)
  BY AtRestIsKnown DEF Steady
<1>2. level["host"] = 1 => level["chassis"] = 1
  <2>1. Done
    BY AtRestIsDone DEF Steady, AtRest
  <2> QED
    BY <2>1 DEF Done, Outcome
<1>3. level["host"] \in {0, 1}
  BY DEF TypeOK, Signals
<1>4. acpi = Target \/ (Target = "S5" /\ acpi = "S3")
  BY DEF Steady, Settled
<1>5. CASE level["chassis"] # 1
  <2>1. acpi = "G3"
    BY <1>1, <1>4, <1>5 DEF Target
  <2>2. dbus.host = "off" /\ dbus.chassis = FALSE
    BY <1>1, <2>1 DEF Report
  <2>3. (level["chassis"] = 1) = FALSE /\ (level["host"] = 1) = FALSE
    BY <1>2, <1>5
  <2>4. InTable <=> Row("G3", "off", FALSE, FALSE, FALSE) \in Table
    BY <1>1, <2>1, <2>2, <2>3 DEF InTable
  <2> QED
    BY <2>4 DEF Table
<1>6. CASE level["chassis"] = 1 /\ level["host"] = 1
  <2>1. acpi = "S0"
    BY <1>1, <1>4, <1>6 DEF Target
  <2>2. dbus.host = "running" /\ dbus.chassis = TRUE
    <3>1. Truthy(level, "host")
      BY <1>6 DEF Truthy
    <3> QED
      BY <1>1, <2>1, <3>1 DEF Report
  <2>3. (level["chassis"] = 1) = TRUE /\ (level["host"] = 1) = TRUE
    BY <1>6
  <2>4. InTable <=> Row("S0", "running", TRUE, TRUE, TRUE) \in Table
    BY <1>1, <2>1, <2>2, <2>3 DEF InTable
  <2> QED
    BY <2>4 DEF Table
<1>7. CASE level["chassis"] = 1 /\ level["host"] = 0
  <2>1. acpi \in {"S5", "S3"}
    BY <1>1, <1>4, <1>7 DEF Target
  <2>2. ~Truthy(level, "host")
    BY <1>7 DEF Truthy
  <2>3. (level["chassis"] = 1) = TRUE /\ (level["host"] = 1) = FALSE
    BY <1>7
  <2>4. CASE acpi = "S5"
    <3>1. dbus.host = "off" /\ dbus.chassis = TRUE
      BY <1>1, <2>2, <2>4 DEF Report
    <3>2. InTable <=> Row("S5", "off", TRUE, TRUE, FALSE) \in Table
      BY <1>1, <2>3, <2>4, <3>1 DEF InTable
    <3> QED
      BY <3>2 DEF Table
  <2>5. CASE acpi = "S3"
    <3>1. dbus.host = "standby" /\ dbus.chassis = TRUE
      BY <1>1, <2>2, <2>5 DEF Report
    <3>2. InTable <=> Row("S3", "standby", TRUE, TRUE, FALSE) \in Table
      BY <1>1, <2>3, <2>5, <3>1 DEF InTable
    <3> QED
      BY <3>2 DEF Table
  <2> QED
    BY <2>1, <2>4, <2>5
<1> QED
  BY <1>3, <1>5, <1>6, <1>7

(* A request sets the host or the chassis where nothing is in its way. *)
Lowers == level["chassis"] = 1 /\ level'["chassis"] = 0
Raises == /\ level["host"] # 1 /\ level'["host"] = 1
          /\ Head(ioQueue) # PowerCycleTimer

InSequence == (Lowers => driven["host"] # 1) /\ (Raises => driven["chassis"] = 1)

(* The levels that a request sets at once are the host's 0 and the chassis's
   1. *)
LEMMA FirstHalfIsInSequence ==
  ASSUME TypeOK, NEW s, NEW v, NEW posts, SetAndUpdate(Only(s, v), posts),
         (s = "host" /\ v = 0) \/ (s = "chassis" /\ v = 1)
  PROVE  InSequence
<1>1. s \in {"host", "chassis"} /\ v \in {0, 1}
  OBVIOUS
<1>2. level' = [level EXCEPT ![s] = v]
  BY <1>1, SetsOne DEF SetAndUpdate, SetLevels
<1>3. {"host", "chassis"} \subseteq DOMAIN level
  BY DEF TypeOK, Signals
<1>4. ~Lowers
  BY <1>2, <1>3 DEF Lowers
<1>5. ~Raises
  BY <1>2, <1>3 DEF Raises
<1> QED
  BY <1>4, <1>5 DEF InSequence

(* The second half of a request comes when the evaluation of the first has
   been run. *)
LEMMA SecondHalfIsInSequence ==
  ASSUME PatientInv, InTurn, NEW s, NEW v, RunRequest(s, v)
  PROVE  InSequence
<1>1. /\ dirty = {} /\ level' = [level EXCEPT ![s] = v]
      /\ \/ s = "host" /\ v = 1 /\ HostOnItsWay
         \/ s = "chassis" /\ v = 0 /\ ChassisOnItsWay
  BY HalfKeepsStep
<1>2. driven["host"] = level["host"] /\ driven["chassis"] = level["chassis"]
  BY <1>1 DEF PatientInv, Inv, TypeOK, Evaluated
<1>3. {"host", "chassis"} \subseteq DOMAIN level
  BY DEF PatientInv, Inv, TypeOK, Signals
<1>4. CASE s = "host" /\ v = 1 /\ HostOnItsWay
  <2>1. level["chassis"] = 1
    BY <1>4 DEF HostOnItsWay
  <2>2. level'["chassis"] = 1
    BY <1>1, <1>3, <1>4, <2>1
  <2> QED
    BY <1>2, <2>1, <2>2 DEF InSequence, Lowers
<1>5. CASE s = "chassis" /\ v = 0 /\ ChassisOnItsWay
  <2>1. level["host"] = 0
    BY <1>5 DEF ChassisOnItsWay
  <2>2. level'["host"] = 0
    BY <1>1, <1>3, <1>5, <2>1
  <2> QED
    BY <1>2, <2>1, <2>2 DEF InSequence, Raises
<1> QED
  BY <1>1, <1>4, <1>5

(* Every step is in sequence. *)
LEMMA StepsAreSequenced ==
  ASSUME PatientInv, InTurn, [Next]_vars
  PROVE  InSequence
<1> USE DEF PatientInv, Inv
<1>1. ASSUME level'["host"] = level["host"], level'["chassis"] = level["chassis"]
      PROVE  InSequence
  BY <1>1 DEF InSequence, Lowers, Raises
<1>2. CASE RequestedHostOff \/ RequestedHostOn \/ RequestedOff \/ RequestedOn
             \/ RequestedPowerCycle
  <2>1. ASSUME NEW s, NEW v, NEW posts, SetAndUpdate(Only(s, v), posts),
               (s = "host" /\ v = 0) \/ (s = "chassis" /\ v = 1)
        PROVE  InSequence
    BY <2>1, FirstHalfIsInSequence
  <2>2. CASE RequestedHostOff
    BY <2>1, <2>2 DEF RequestedHostOff
  <2>3. CASE RequestedHostOn
    BY <2>1, <2>3 DEF RequestedHostOn
  <2>4. CASE RequestedOff
    BY <2>1, <2>4 DEF RequestedOff
  <2>5. CASE RequestedOn
    BY <2>1, <2>5 DEF RequestedOn
  <2>6. CASE RequestedPowerCycle
    BY <2>1, <2>6 DEF RequestedPowerCycle
  <2> QED
    BY <1>2, <2>2, <2>3, <2>4, <2>5, <2>6
<1>3. ASSUME NEW s, NEW v, RunPostRequest(s, v) PROVE InSequence
  BY <1>1, <1>3 DEF RunPostRequest
<1>4. ASSUME NEW s, NEW v, RunRequest(s, v) PROVE InSequence
  BY <1>4, SecondHalfIsInSequence
<1>5. CASE RunPowerCycleTimer
  <2>1. ~Raises
    BY <1>5 DEF RunPowerCycleTimer, Running, Raises
  <2>2. ~Lowers
    <3>1. CASE GetCurrent(level) = "G3"
      <4>1. level'["chassis"] = 1
        BY <1>5, <3>1
           DEF RunPowerCycleTimer, SetAndUpdate, SetLevels, With, Signals
      <4> QED
        BY <4>1 DEF Lowers
    <3>2. CASE GetCurrent(level) # "G3"
      <4>1. level' = level
        BY <1>5, <3>2 DEF RunPowerCycleTimer
      <4> QED
        BY <4>1 DEF Lowers
    <3> QED
      BY <3>1, <3>2
  <2> QED
    BY <2>1, <2>2 DEF InSequence
<1>6. ASSUME RunIdleTimer PROVE FALSE
  BY <1>6, Heads, Ops DEF RunIdleTimer
<1>7. ASSUME NEW s \in Observed, NEW v \in {0, 1}, RunSetLevel(s, v)
      PROVE  InSequence
  <2>1. level' = With(Only(s, v))
    BY <1>7 DEF RunSetLevel, SetLevels
  <2>2. level'["host"] = level["host"] /\ level'["chassis"] = level["chassis"]
    BY <2>1 DEF With, Only, Observed, Signals, ACPILevel
  <2> QED
    BY <1>1, <2>2
<1>8. CASE RunEvaluateState
  BY <1>1, <1>8 DEF RunEvaluateState
<1>9. CASE Timers \/ Mainboard \/ Outside \/ RegulatorFails
  <2>1. level' = level
    BY <1>9 DEF Timers, PowerCycleExpires, IdleExpires, Mainboard, Move, Outside,
                PostCode, Arrive, RegulatorFails
  <2> QED
    BY <1>1, <2>1
<1>10. CASE UNCHANGED vars
  BY <1>1, <1>10 DEF vars
<1> QED
  BY <1>2, <1>3, <1>4, <1>5, <1>6, <1>7, <1>8, <1>9, <1>10 DEF Next, IoThread

(* "Give statemachine some time to drive GPIOs": for a patient user the chassis
   only goes off when the netlist has seen the host go off, and the host only
   comes on when it has seen the chassis come on, whenever a regulator fails
   and the timer of a power cycle expires. *)
THEOREM RequestsAreSequenced == Patience /\ Spec => Sequenced
<1>1. PatientInv /\ [Next]_vars
        => [InTurn =>
              /\ level["chassis"] = 1 /\ level'["chassis"] = 0 => driven["host"] # 1
              /\ level["host"] # 1 /\ level'["host"] = 1
                   /\ Head(ioQueue) # PowerCycleTimer
                   => driven["chassis"] = 1]_vars
  BY StepsAreSequenced DEF InSequence, Lowers, Raises
<1> QED
  BY <1>1, PatientInvHolds, PTL DEF Spec, Sequenced

(* When the user looks again, the last request, or error, has been carried out:
   no second half, timer or update that comes late has undone it. *)
THEOREM RequestsAreCarriedOut == Patience /\ Spec => []CarriedOut
<1>1. PatientInv => CarriedOut
  BY SteadyIsCarriedOut
<1> QED
  BY <1>1, PatientInvHolds, PTL

(* And what D-Bus publishes and what is requested are a row of the table at the
   head of ACPIStates.cpp. *)
THEOREM TableIsKept == Patience /\ Spec => []TableHolds
<1>1. PatientInv => TableHolds
  BY SteadyIsInTable
<1> QED
  BY <1>1, PatientInvHolds, PTL
=============================================================================

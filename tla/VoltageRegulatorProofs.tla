----------------------- MODULE VoltageRegulatorProofs -----------------------
(***************************************************************************)
(* What VoltageRegulator keeps true for every number of retries and of     *)
(* faults and every interleaving of the two threads: its types, that the   *)
(* signals follow the status, which is what ApplyStatus takes the lock for,*)
(* and, in the second half, that a fault is reported and that the signals  *)
(* show the regulator when a change is over.                               *)
(*                                                                         *)
(* Only the instruction that a thread comes to next can hold the lock or   *)
(* set the signals: what is behind it is `Plain'.  While no thread is about*)
(* to report a status, the last closure that sets the signals, of those    *)
(* that io has still to run, is one for statusShadow, or there is none and *)
(* the signals are those of statusShadow.                                  *)
(*                                                                         *)
(* `GuardInv' is about a fault when _On may change at any time: where it is*)
(* lost, a change has been left pending.                                   *)
(*                                                                         *)
(* The second half follows a change from Apply through the writes of the   *)
(* state, the timer and its retries to the status that ends it.  `Course'  *)
(* says what is on its way meanwhile: in the queues, in what the threads   *)
(* are about, and in netlink.  Three groups of steps keep it for reasons of*)
(* their own: io with a status (IoFrame), the output thread with one       *)
(* (OutFrame), and the output thread without one (QuietFrame, RestFrame);  *)
(* the steps that start or end something have a lemma each.  `AnswerInv'   *)
(* adds that an error is answered by switching the regulator off.          *)
(* `ObeyInv' is about the state that was asked for: it needs neither Course*)
(* nor Patient, for no step but those of Apply's change touches it.        *)
(***************************************************************************)
EXTENDS VoltageRegulatorInvariants

-----------------------------------------------------------------------------
(* Instructions. *)

(* A plain instruction neither holds the lock nor sets the signals. *)
LEMMA PlainOps ==
  \A i \in Plain : i.op \notin {"Commit", "Report", "SetSignals"}
BY DEF Plain, Apply, SetPending, ReadStatus, ConfirmStatus, CheckStatus, SetState,
       SetStateAgain, ReadState, ReadStateAgain, StartTimer, ApplyStatus, CompareStatus,
       HandleEvent, SetEnabled, CheckLater

(* The others are of one of three forms. *)
LEMMA SpecialForms ==
  ASSUME NEW i \in Step
  PROVE  /\ i.op = "Commit" => i.status \in Shown /\ i.done \in BOOLEAN
         /\ i.op = "Report" => i.status \in Shown
         /\ i.op = "SetSignals" => i.status \in Shown /\ i = SetSignals(i.status)
<1>1. CASE i \in Plain
  BY <1>1, PlainOps
<1>2. CASE i \in Special
  BY <1>2 DEF Special, Commit, Report, SetSignals
<1> QED BY <1>1, <1>2 DEF Step

(* The operands of an instruction. *)
LEMMA Operands ==
  ASSUME NEW i \in Step
  PROVE  /\ i.op \in WriteOps \cup {"StartTimer"}
              => i.state \in RegulatorState
         /\ i.op \in {"ApplyStatus", "CompareStatus"} => i.status \in Decoded
         /\ i.op = "HandleEvent" => i.event \in Event
         /\ i.op \in {"SetEnabled", "CheckLater"} => i.value \in {0, 1}
BY DEF Step, Plain, Special, Apply, SetPending, ReadStatus, ConfirmStatus, CheckStatus,
       SetState, SetStateAgain, ReadState, ReadStateAgain, WriteOps, StartTimer,
       ApplyStatus, CompareStatus, HandleEvent, SetEnabled, CheckLater, Commit, Report, SetSignals

(* Every instruction of the module is known. *)
LEMMA Known ==
  /\ {Apply, SetPending, ReadStatus, ConfirmStatus, CheckStatus} \subseteq Plain
  /\ \A s \in RegulatorState :
       /\ {SetState(s), SetStateAgain(s), StartTimer(s)} \subseteq Plain
       /\ {ReadState(s), ReadStateAgain(s)} \subseteq Plain
  /\ \A s \in Decoded : {ApplyStatus(s), CompareStatus(s)} \subseteq Plain
  /\ \A e \in Event : HandleEvent(e) \in Plain
  /\ \A v \in {0, 1} : {SetEnabled(v), CheckLater(v)} \subseteq Plain
  /\ \A s \in Shown : \A d \in BOOLEAN : Commit(s, d) \in Step
  /\ \A s \in Shown : Report(s) \in Step /\ SetSignals(s) \in Step
  /\ Plain \subseteq Step
BY DEF Plain, Special, Step

(* No plain handler shows a status. *)
LEMMA PlainShowsNothing ==
  ASSUME NEW h \in Seq(Plain)
  PROVE  h \notin Shows
<1>1. SUFFICES ASSUME NEW s \in Shown, h = <<SetSignals(s)>> PROVE FALSE
  BY DEF Shows
<1>2. h[1] \in Plain /\ h[1] = SetSignals(s)
  BY <1>1
<1> QED BY <1>2, PlainOps DEF SetSignals

-----------------------------------------------------------------------------
(* What the steps do to the handlers. *)

(* A list of instructions in front of a plain one. *)
LEMMA Joined ==
  ASSUME NEW more \in Seq(Step), more # <<>> => Tail(more) \in Seq(Plain),
         NEW r \in Seq(Plain)
  PROVE  /\ Rest(more \o r)
         /\ more = <<>> => more \o r = r
         /\ more # <<>> => more \o r # <<>> /\ Head(more \o r) = Head(more)
<1>1. r \in Seq(Step) /\ more \o r \in Seq(Step)
  BY Known
<1>2. CASE more = <<>>
  <2>1. more \o r = r
    BY <1>2
  <2>2. r # <<>> => Tail(r) \in Seq(Plain)
    OBVIOUS
  <2> QED BY <1>1, <1>2, <2>1, <2>2 DEF Rest
<1>3. CASE more # <<>>
  <2>1. Tail(more) \o r \in Seq(Plain)
    BY <1>3
  <2>2. more \o r # <<>> /\ Head(more \o r) = Head(more)
    BY <1>1, <1>3
  <2>3. Tail(more \o r) = Tail(more) \o r
    <3> DEFINE p == Tail(more \o r)
               q == Tail(more) \o r
    <3>1. /\ p \in Seq(Step) /\ Len(p) = Len(more) + Len(r) - 1
          /\ \A i \in 1 .. Len(p) : p[i] = (more \o r)[i + 1]
      BY <1>1, <1>3
    <3>2. /\ q \in Seq(Step) /\ Len(q) = Len(more) - 1 + Len(r)
          /\ \A i \in 1 .. Len(q) :
                q[i] = IF i <= Len(more) - 1 THEN more[i + 1] ELSE r[i - (Len(more) - 1)]
      BY <1>1, <1>3
    <3>3. \A i \in 1 .. Len(more) + Len(r) :
            (more \o r)[i] = IF i <= Len(more) THEN more[i] ELSE r[i - Len(more)]
      BY <1>1
    <3>4. Len(more) \in Nat \ {0} /\ Len(r) \in Nat
      BY <1>1, <1>3
    <3> HIDE DEF p, q
    <3>5. ASSUME NEW i \in 1 .. Len(p) PROVE p[i] = q[i]
      <4>1. i \in 1 .. Len(q) /\ i + 1 \in 1 .. Len(more) + Len(r)
            /\ (i + 1) - Len(more) = i - (Len(more) - 1)
            /\ (i + 1 <= Len(more) <=> i <= Len(more) - 1)
        BY <3>1, <3>2, <3>4
      <4> QED BY <3>1, <3>2, <3>3, <4>1
    <3>6. p = q
      BY <3>1, <3>2, <3>4, <3>5, SeqEqual
    <3> QED BY <3>6 DEF p, q
  <2> QED BY <1>1, <1>3, <2>1, <2>2, <2>3 DEF Rest
<1> QED BY <1>2, <1>3

(* A thread continues. *)
LEMMA Continues ==
  ASSUME Handlers, NEW t \in Threads, run[t] # <<>>,
         NEW more \in Seq(Step), more # <<>> => Tail(more) \in Seq(Plain),
         Continue(t, more)
  PROVE  /\ run' \in [Threads -> Seq(Step)]
         /\ \A u \in Threads : Rest(run'[u])
         /\ run'[Other(t)] = run[Other(t)]
         /\ IF more = <<>> THEN run'[t] \in Seq(Plain)
            ELSE run'[t] # <<>> /\ Head(run'[t]) = Head(more)
<1>1. Tail(run[t]) \in Seq(Plain)
  BY DEF Handlers, Rest
<1>2. run' = [run EXCEPT ![t] = more \o Tail(run[t])]
  BY DEF Continue
<1> DEFINE r == more \o Tail(run[t])
<1>3. /\ Rest(r)
      /\ IF more = <<>> THEN r \in Seq(Plain) ELSE r # <<>> /\ Head(r) = Head(more)
  BY <1>1, Joined
<1> HIDE DEF r
<1>4. run'[t] = r /\ \A u \in Threads : u # t => run'[u] = run[u]
  BY <1>2 DEF Handlers, r
<1>5. Other(t) \in Threads /\ Other(t) # t
  BY DEF Other, Threads
<1>6. run' \in [Threads -> Seq(Step)]
  BY <1>2, <1>3 DEF Handlers, Rest, r
<1> QED BY <1>3, <1>4, <1>5, <1>6 DEF Handlers

(* A plain handler is posted: nothing is shown by it. *)
LEMMA PlainPosted ==
  ASSUME NEW q \in Seq(Handler), NEW h \in Seq(Plain)
  PROVE  /\ Append(q, h) \in Seq(Handler)
         /\ \A d : LastIn(Append(q, h), Shows, d) = LastIn(q, Shows, d)
<1>1. h \in Handler /\ h \notin Shows
  BY PlainShowsNothing DEF Handler
<1> QED BY <1>1, LastInAppend

(* Any handler without a report leaves the last report that io has to set. *)
LEMMA Posts ==
  ASSUME Handlers, NEW t \in Threads, NEW h \in Seq(Plain), Post(t, h)
  PROVE  /\ queue' \in [Threads -> Seq(Handler)]
         /\ \A d : LastIn(queue'["io"], Shows, d) = LastIn(queue["io"], Shows, d)
<1>1. queue[t] \in Seq(Handler) /\ queue["io"] \in Seq(Handler)
  BY DEF Handlers, Threads
<1>2. Append(queue[t], h) \in Seq(Handler)
  BY <1>1, PlainPosted
<1>3. queue' \in [Threads -> Seq(Handler)]
  BY <1>2 DEF Handlers, Post
<1>4. queue'["io"] = queue["io"] \/ queue'["io"] = Append(queue["io"], h)
  BY DEF Handlers, Post, Threads
<1>5. \A d : LastIn(Append(queue["io"], h), Shows, d) = LastIn(queue["io"], Shows, d)
  BY <1>1, PlainPosted
<1>6. ASSUME NEW d
      PROVE  LastIn(queue'["io"], Shows, d) = LastIn(queue["io"], Shows, d)
  BY <1>4, <1>5
<1> QED BY <1>3, <1>6

(* A thread takes a handler. *)
LEMMA Takes ==
  ASSUME Handlers, NEW t \in Threads, TakeHandler(t)
  PROVE  /\ Handlers'
         /\ run[t] = <<>> /\ queue[t] # <<>> /\ Head(queue[t]) \in Handler
         /\ run'[t] = Head(queue[t]) /\ queue'[t] = Tail(queue[t])
         /\ run'[Other(t)] = run[Other(t)] /\ queue'[Other(t)] = queue[Other(t)]
<1>1. queue[t] \in Seq(Handler) /\ queue[t] # <<>> /\ run[t] = <<>>
  BY DEF Handlers, TakeHandler
<1>2. Head(queue[t]) \in Handler /\ Tail(queue[t]) \in Seq(Handler)
  BY <1>1
<1>3. Rest(Head(queue[t]))
  <2>1. CASE Head(queue[t]) \in Seq(Plain)
    <3>1. Head(queue[t]) \in Seq(Step)
      BY <2>1, Known
    <3>2. Head(queue[t]) # <<>> => Tail(Head(queue[t])) \in Seq(Plain)
      BY <2>1
    <3> QED BY <3>1, <3>2 DEF Rest
  <2>2. CASE Head(queue[t]) \in Shows
    <3>1. PICK s \in Shown : Head(queue[t]) = <<SetSignals(s)>>
      BY <2>2 DEF Shows
    <3>2. SetSignals(s) \in Step
      BY Known
    <3>3. Tail(<<SetSignals(s)>>) = <<>>
      BY ShortHandlers
    <3>4. <<SetSignals(s)>> \in Seq(Step) /\ <<>> \in Seq(Plain)
      BY <3>2
    <3> QED BY <3>1, <3>3, <3>4 DEF Rest
  <2> QED BY <1>2, <2>1, <2>2 DEF Handler
<1>4. Other(t) \in Threads /\ Other(t) # t
  BY DEF Other, Threads
<1>5. queue' \in [Threads -> Seq(Handler)] /\ run' \in [Threads -> Seq(Step)]
  BY <1>2, <1>3 DEF Handlers, TakeHandler, Rest
<1>6. run'[t] = Head(queue[t]) /\ \A u \in Threads : u # t => run'[u] = run[u]
  BY DEF TakeHandler, Handlers
<1>7. queue'[t] = Tail(queue[t]) /\ queue'[Other(t)] = queue[Other(t)]
  BY <1>4 DEF TakeHandler, Handlers
<1> QED BY <1>1, <1>2, <1>3, <1>4, <1>5, <1>6, <1>7 DEF Handlers

-----------------------------------------------------------------------------
(* Steps that neither lock nor show. *)

(* What io still has to show is as before. *)
ShowsAsBefore ==
  /\ \A d : LastIn(queue'["io"], Shows, d) = LastIn(queue["io"], Shows, d)
  /\ UNCHANGED statusShadow
  /\ UNCHANGED <<signal["powergood"], signal["fault"]>>

Calm(t) == ~At(t, "Commit") /\ ~At(t, "Report") /\ ~At(t, "SetSignals")

(* A thread goes from one plain instruction to another. *)
LEMMA StatusStays ==
  ASSUME StatusInv, ShowsAsBefore, NEW t \in Threads,
         run'[Other(t)] = run[Other(t)], Calm(t), Calm(t)'
  PROVE  StatusInv'
<1>1. \A u \in Threads : u = t \/ u = Other(t)
  BY DEF Threads, Other
<1>2. \A op : At(Other(t), op)' <=> At(Other(t), op)
  BY DEF At
<1>3. Excludes'
  BY <1>2 DEF StatusInv, Excludes, HoldsLock, Calm, Threads, Other
<1>4. Tells'
  BY <1>1, <1>2 DEF StatusInv, Tells, Calm, ShowsAsBefore
<1>5. Reporting' <=> Reporting
  BY <1>2 DEF Reporting, Calm, Threads, Other
<1>6. Now' = Now
  BY <1>2 DEF Now, Calm, Threads, Other
<1>7. Follows'
  BY <1>5, <1>6 DEF StatusInv, Follows, LastShown, Fits, ShowsAsBefore
<1> QED BY <1>3, <1>4, <1>7 DEF StatusInv

(* Neither thread takes a step. *)
LEMMA StatusStaysPut ==
  ASSUME StatusInv, ShowsAsBefore, UNCHANGED run
  PROVE  StatusInv'
BY DEF StatusInv, ShowsAsBefore, Excludes, HoldsLock, Tells, Follows, LastShown, Fits,
       Reporting, Now, At

(* A thread that comes to a plain instruction holds no lock. *)
LEMMA PlainIsCalmNext ==
  ASSUME NEW t, run'[t] = <<>> \/ Head(run'[t]) \in Plain
  PROVE  Calm(t)'
BY PlainOps DEF Calm, At

(* A thread that puts plain instructions in front of its rest keeps the
   invariant. *)
LEMMA PlainStep ==
  ASSUME Handlers, StatusInv, ShowsAsBefore, queue' \in [Threads -> Seq(Handler)],
         NEW t \in Threads, run[t] # <<>>, Calm(t),
         NEW more \in Seq(Plain), Continue(t, more)
  PROVE  Handlers' /\ StatusInv'
<1>1. more \in Seq(Step) /\ (more # <<>> => Tail(more) \in Seq(Plain))
  BY Known
<1>2. /\ run' \in [Threads -> Seq(Step)]
      /\ \A u \in Threads : Rest(run'[u])
      /\ run'[Other(t)] = run[Other(t)]
      /\ IF more = <<>> THEN run'[t] \in Seq(Plain)
         ELSE run'[t] # <<>> /\ Head(run'[t]) = Head(more)
  BY <1>1, Continues
<1>3. run'[t] = <<>> \/ Head(run'[t]) \in Plain
  <2>1. CASE more = <<>>
    BY <1>2, <2>1
  <2>2. CASE more # <<>>
    BY <1>2, <2>2
  <2> QED BY <2>1, <2>2
<1>4. Calm(t)'
  BY <1>3, PlainIsCalmNext
<1>5. StatusInv'
  BY <1>2, <1>4, StatusStays
<1> QED BY <1>2, <1>5 DEF Handlers

(* A step that leaves queue, statusShadow and the signals alone. *)
LEMMA QuietStep ==
  ASSUME Handlers, StatusInv, UNCHANGED <<queue, statusShadow, signal>>,
         NEW t \in Threads, run[t] # <<>>, Calm(t),
         NEW more \in Seq(Plain), Continue(t, more)
  PROVE  Handlers' /\ StatusInv'
<1>1. ShowsAsBefore
  BY DEF ShowsAsBefore
<1>2. queue' \in [Threads -> Seq(Handler)]
  BY DEF Handlers
<1> QED BY <1>1, <1>2, PlainStep

(* A step that posts a plain handler and ends an instruction. *)
LEMMA PostingStep ==
  ASSUME Handlers, StatusInv, UNCHANGED <<statusShadow, signal>>,
         NEW t \in Threads, run[t] # <<>>, Calm(t), Continue(t, <<>>),
         NEW u \in Threads, NEW h \in Seq(Plain), Post(u, h)
  PROVE  Handlers' /\ StatusInv'
<1>1. /\ queue' \in [Threads -> Seq(Handler)]
      /\ \A d : LastIn(queue'["io"], Shows, d) = LastIn(queue["io"], Shows, d)
  BY Posts
<1>2. ShowsAsBefore
  BY <1>1 DEF ShowsAsBefore
<1>3. <<>> \in Seq(Plain)
  OBVIOUS
<1> QED BY <1>1, <1>2, <1>3, PlainStep

(* A handler is posted from outside. *)
LEMMA PostedFromOutside ==
  ASSUME Handlers, StatusInv, UNCHANGED <<run, statusShadow, signal>>,
         NEW u \in Threads, NEW h \in Seq(Plain), Post(u, h)
  PROVE  Handlers' /\ StatusInv'
<1>1. /\ queue' \in [Threads -> Seq(Handler)]
      /\ \A d : LastIn(queue'["io"], Shows, d) = LastIn(queue["io"], Shows, d)
  BY Posts
<1>2. ShowsAsBefore
  BY <1>1 DEF ShowsAsBefore
<1>3. Handlers'
  BY <1>1 DEF Handlers
<1> QED BY <1>2, <1>3, StatusStaysPut

(* Any other operation leaves its thread calm. *)
LEMMA OtherOpsAreCalm ==
  ASSUME NEW t, NEW op, At(t, op), op \notin {"Commit", "Report", "SetSignals"}
  PROVE  run[t] # <<>> /\ Calm(t) /\ Head(run[t]).op = op
BY DEF At, Calm

-----------------------------------------------------------------------------
(* The simple variables. *)

(* Some instructions change none of them. *)
LEMMA SimpleStays ==
  ASSUME Simple, UNCHANGED <<newLevel, shadows, signal, alarm, hw, netlink, faults>>,
         overlapped' \in BOOLEAN, refused' \in BOOLEAN
  PROVE  Simple'
BY DEF Simple, shadows

(* A decoded status, and what it amounts to. *)
LEMMA StatusIsDecoded ==
  ASSUME Simple, NEW status \in RegulatorStatus, Reads(status)
  PROVE  status \in Decoded /\ faults' \in 0 .. Faults
<1>1. hw.status \in {"off", "on", "error"} /\ faults \in 0 .. Faults /\ Faults \in Nat
  BY ConstantsAssumption DEF Simple
<1> QED BY <1>1 DEF Reads, DecodeStatus, Decoded

(* What a status amounts to is one that can be shown. *)
LEMMA EffectiveIsShown ==
  ASSUME Simple, NEW status \in Decoded
  PROVE  Effective(status) \in Shown
BY DEF Simple, Effective, Goal, Decoded, Shown, RegulatorState, ReadableState

(* WriteState keeps the regulator a regulator. *)
LEMMA WriteKeepsTypes ==
  ASSUME Simple, NEW s \in RegulatorState, WriteState(s)
  PROVE  /\ hw' \in [state : RegulatorState, status : {"off", "on", "error"},
                     broken : BOOLEAN, reports : BOOLEAN]
         /\ netlink' \in Seq(Event) /\ faults' \in 0 .. Faults
         /\ hw'.state \in RegulatorState
<1>1. CASE UNCHANGED <<hw, netlink>> /\ faults > 0 /\ faults' = faults - 1
  BY <1>1, ConstantsAssumption DEF Simple
<1>2. CASE /\ hw' = [hw EXCEPT !.state = s]
           /\ netlink' = IF s = hw.state THEN netlink ELSE Append(netlink, Changed(s))
           /\ UNCHANGED faults
  <2>1. Changed(s) \in Event
    BY DEF Changed, Event
  <2>2. netlink' \in Seq(Event)
    BY <1>2, <2>1 DEF Simple
  <2>3. hw' \in [state : RegulatorState, status : {"off", "on", "error"},
                broken : BOOLEAN, reports : BOOLEAN]
    BY <1>2 DEF Simple
  <2> QED BY <1>2, <2>2, <2>3 DEF Simple
<1> QED BY <1>1, <1>2 DEF WriteState

-----------------------------------------------------------------------------
(* Apply and its instructions, on the output thread. *)

(* Apply and its parts keep the invariant. *)
LEMMA ApplySteps ==
  ASSUME Inv, RunApply \/ Writing \/ ReadingBack \/ RunSetPending \/ RunStartTimer
  PROVE  Inv'
<1> USE DEF Inv, Types
<1>1. "output" \in Threads /\ "io" \in Threads /\ <<>> \in Seq(Plain)
  BY DEF Threads
<1>2. CASE RunApply
  <2>1. run["output"] # <<>> /\ Calm("output")
    BY <1>2, OtherOpsAreCalm DEF RunApply
  <2>2. PICK s \in RegulatorState :
           \/ Continue("output", <<>>)
           \/ Continue("output", <<SetState(s), SetPending, StartTimer(s)>>)
    BY <1>2 DEF RunApply, RegulatorState
  <2>3. <<SetState(s), SetPending, StartTimer(s)>> \in Seq(Plain)
    BY Known
  <2>4. Handlers' /\ StatusInv'
    <3>1. UNCHANGED <<queue, statusShadow, signal>>
      BY <1>2 DEF RunApply
    <3> QED BY <1>1, <2>1, <2>2, <2>3, <3>1, QuietStep
  <2>5. Simple'
    BY <1>2 DEF RunApply, Simple, outside
  <2> QED BY <2>4, <2>5
<1>3. CASE Writing
  <2> DEFINE s == Head(run["output"]).state
  <2>1. /\ At("output", "SetState") \/ At("output", "SetStateAgain")
        /\ WriteState(s)
        /\ Continue("output", <<ReadState(s)>>) \/ Continue("output", <<ReadStateAgain(s)>>)
        /\ UNCHANGED <<newLevel, shadows, signal, queue, alarm, overlapped, refused>>
    BY <1>3 DEF Writing, RunSetState, RunSetStateAgain
  <2>2. run["output"] # <<>> /\ Calm("output") /\ Head(run["output"]).op \in WriteOps
    BY <2>1, OtherOpsAreCalm DEF WriteOps
  <2>3. s \in RegulatorState
    BY <1>1, <2>2, Operands DEF Handlers
  <2> HIDE DEF s
  <2>4. <<ReadState(s)>> \in Seq(Plain) /\ <<ReadStateAgain(s)>> \in Seq(Plain)
    BY <2>3, Known
  <2>5. Handlers' /\ StatusInv'
    BY <1>1, <2>1, <2>2, <2>4, QuietStep DEF shadows
  <2>6. Simple'
    BY <2>1, <2>3, WriteKeepsTypes DEF Simple, shadows
  <2> QED BY <2>5, <2>6
<1>4. CASE ReadingBack
  <2> DEFINE s == Head(run["output"]).state
  <2>1. /\ At("output", "ReadState") \/ At("output", "ReadStateAgain")
        /\ DecodeState
        /\ Continue("output", <<>>) \/ Continue("output", <<SetStateAgain(s)>>)
        /\ UNCHANGED <<newLevel, statusShadow, pendingLevelChange, pendingNewLevel,
                       retries, armed, signal, queue, alarm, hw, netlink, overlapped>>
        /\ UNCHANGED refused \/ refused' = (refused \/ stateShadow' # s)
    BY <1>4 DEF ReadingBack, RunReadState, RunReadStateAgain
  <2>2. run["output"] # <<>> /\ Calm("output") /\ Head(run["output"]).op \in WriteOps
    BY <2>1, OtherOpsAreCalm DEF WriteOps
  <2>3. s \in RegulatorState
    BY <1>1, <2>2, Operands DEF Handlers
  <2> HIDE DEF s
  <2>4. <<SetStateAgain(s)>> \in Seq(Plain)
    BY <2>3, Known
  <2>5. Handlers' /\ StatusInv'
    BY <1>1, <2>1, <2>2, <2>4, QuietStep
  <2>6. stateShadow' \in ReadableState /\ faults' \in 0 .. Faults
    BY <2>1, ConstantsAssumption DEF Simple, DecodeState, ReadableState
  <2>7. Simple'
    BY <2>1, <2>6 DEF Simple
  <2> QED BY <2>5, <2>7
<1>5. CASE RunSetPending
  <2>1. run["output"] # <<>> /\ Calm("output")
    BY <1>5, OtherOpsAreCalm DEF RunSetPending
  <2>2. Handlers' /\ StatusInv'
    BY <1>1, <1>5, <2>1, QuietStep DEF RunSetPending
  <2>3. Simple'
    BY <1>5 DEF RunSetPending, Simple, outside
  <2> QED BY <2>2, <2>3
<1>6. CASE RunStartTimer
  <2>1. run["output"] # <<>> /\ Calm("output") /\ Head(run["output"]).op = "StartTimer"
    BY <1>6, OtherOpsAreCalm DEF RunStartTimer
  <2>2. Head(run["output"]).state \in RegulatorState
    BY <1>1, <2>1, Operands DEF Handlers
  <2>3. PICK v \in {0, 1} : Post("io", <<SetEnabled(v)>>)
    BY <1>6 DEF RunStartTimer
  <2>4. <<SetEnabled(v)>> \in Seq(Plain)
    BY Known
  <2>5. Handlers' /\ StatusInv'
    <3>1. UNCHANGED <<statusShadow, signal>> /\ Continue("output", <<>>)
      BY <1>6 DEF RunStartTimer
    <3> QED BY <1>1, <2>1, <2>3, <2>4, <3>1, PostingStep
  <2>6. Retries \in 0 .. Retries
    BY ConstantsAssumption
  <2>7. Simple'
    BY <1>6, <2>2, <2>6 DEF RunStartTimer, Simple, outside
  <2> QED BY <2>5, <2>7
<1> QED BY <1>2, <1>3, <1>4, <1>5, <1>6

-----------------------------------------------------------------------------
(* ApplyStatus. *)

(* The lock is taken when the other thread does not hold it. *)
LEMMA ApplyStatusStep ==
  ASSUME Inv, NEW t \in Threads, RunApplyStatus(t)
  PROVE  Inv'
<1> USE DEF Inv, Types
<1> DEFINE status == Effective(Head(run[t]).status)
<1>1. /\ run[t] # <<>> /\ Calm(t) /\ Head(run[t]).op = "ApplyStatus"
      /\ ~HoldsLock(Other(t))
      /\ UNCHANGED <<newLevel, shadows, signal, queue, outside>>
  BY OtherOpsAreCalm DEF RunApplyStatus
<1>2. status \in Shown
  <2>1. Head(run[t]).status \in Decoded
    BY <1>1, Operands DEF Handlers
  <2> QED BY <2>1, EffectiveIsShown
<1>3. Simple'
  BY <1>1, SimpleStays DEF outside, Simple
<1>4. UNCHANGED <<queue, statusShadow, signal>>
  BY <1>1 DEF shadows
<1>5. CASE Continue(t, <<>>)
  <2>1. <<>> \in Seq(Plain)
    OBVIOUS
  <2> QED BY <1>1, <1>3, <1>4, <1>5, <2>1, QuietStep
<1>6. CASE Continue(t, <<Commit(status, Done(status))>>)
  <2> DEFINE c == Commit(status, Done(status))
  <2>1. Done(status) \in BOOLEAN
    BY DEF Done, Simple
  <2>2. c \in Step /\ c.op = "Commit"
    BY <1>2, <2>1, Known DEF Commit
  <2> HIDE DEF c, status
  <2>3. /\ <<c>> \in Seq(Step) /\ <<c>> # <<>> /\ Head(<<c>>) = c
        /\ Tail(<<c>>) \in Seq(Plain)
    BY <2>2, ShortHandlers
  <2>4. /\ run' \in [Threads -> Seq(Step)]
        /\ \A u \in Threads : Rest(run'[u])
        /\ run'[Other(t)] = run[Other(t)]
        /\ run'[t] # <<>> /\ Head(run'[t]) = c
    BY <1>1, <1>6, <2>3, Continues DEF c
  <2>5. /\ At(t, "Commit")' /\ ~At(t, "Report")' /\ ~At(t, "SetSignals")'
        /\ \A op : At(Other(t), op)' <=> At(Other(t), op)
    BY <2>2, <2>4 DEF At
  <2>6. Excludes'
    BY <1>1, <2>5 DEF Excludes, HoldsLock, Threads, Other
  <2>7. Tells'
    <3>1. \A u \in Threads : u = t \/ u = Other(t)
      BY DEF Threads, Other
    <3> QED BY <1>4, <2>4, <2>5, <3>1 DEF StatusInv, Tells
  <2>8. Follows'
    <3>1. Reporting' <=> Reporting
      BY <1>1, <2>5 DEF Reporting, Calm, Threads, Other
    <3>2. Now' = Now
      BY <1>1, <2>4, <2>5 DEF Now, Calm, Threads, Other
    <3> QED BY <1>4, <3>1, <3>2 DEF StatusInv, Follows, LastShown, Fits
  <2> QED BY <1>3, <1>4, <2>4, <2>6, <2>7, <2>8 DEF StatusInv, Handlers
<1> QED BY <1>1, <1>5, <1>6 DEF RunApplyStatus

(* Who holds the lock sets the status, and is about to report it. *)
LEMMA CommitStep ==
  ASSUME Inv, NEW t \in Threads, RunCommit(t)
  PROVE  Inv'
<1> USE DEF Inv, Types
<1> DEFINE i == Head(run[t])
           r == Report(i.status)
<1>1. /\ run[t] # <<>> /\ i.op = "Commit" /\ HoldsLock(t)
      /\ pendingLevelChange' = (pendingLevelChange /\ ~i.done)
      /\ statusShadow' = i.status
      /\ Continue(t, <<r>>)
      /\ UNCHANGED <<newLevel, stateShadow, pendingNewLevel, retries, armed, signal,
                     queue, outside>>
  BY DEF RunCommit, At, HoldsLock
<1>2. i.status \in Shown /\ i.done \in BOOLEAN
  <2>1. i \in Step
    BY <1>1 DEF Handlers
  <2> QED BY <1>1, <2>1, SpecialForms
<1>3. r \in Step /\ r.op = "Report" /\ r.status = i.status
  BY <1>2, Known DEF Report
<1>4. Simple'
  <2>1. pendingLevelChange' \in BOOLEAN
    BY <1>1, <1>2 DEF Simple
  <2> QED BY <1>1, <1>2, <2>1 DEF Simple, outside
<1>5. /\ <<r>> \in Seq(Step) /\ <<r>> # <<>> /\ Head(<<r>>) = r
      /\ Tail(<<r>>) \in Seq(Plain)
  BY <1>3, ShortHandlers
<1> HIDE DEF r, i
<1>6. /\ run' \in [Threads -> Seq(Step)]
      /\ \A u \in Threads : Rest(run'[u])
      /\ run'[Other(t)] = run[Other(t)]
      /\ run'[t] # <<>> /\ Head(run'[t]) = r
  BY <1>1, <1>5, Continues
<1>7. /\ At(t, "Report")' /\ ~HoldsLock(Other(t))
      /\ \A op : At(Other(t), op)' <=> At(Other(t), op)
  BY <1>1, <1>3, <1>6 DEF At, StatusInv, Excludes, Threads, Other
<1>8. Excludes'
  BY <1>7 DEF Excludes, HoldsLock, Threads, Other
<1>9. Tells'
  <2>1. \A u \in Threads : u = t \/ u = Other(t)
    BY DEF Threads, Other
  <2> QED BY <1>1, <1>3, <1>6, <1>7, <2>1 DEF Tells, HoldsLock
<1>10. Follows'
  BY <1>7 DEF Follows, Reporting, Threads
<1> QED BY <1>1, <1>4, <1>6, <1>8, <1>9, <1>10 DEF StatusInv, Handlers

(* The status is posted while the lock is held. *)
LEMMA ReportStep ==
  ASSUME Inv, NEW t \in Threads, RunReport(t)
  PROVE  Inv'
<1> USE DEF Inv, Types
<1> DEFINE h == <<SetSignals(statusShadow)>>
<1>1. /\ run[t] # <<>> /\ At(t, "Report") /\ HoldsLock(t)
      /\ Continue(t, <<>>)
      /\ UNCHANGED <<newLevel, shadows, signal, outside>>
  BY DEF RunReport, At, HoldsLock
<1>2. Head(run[t]).status = statusShadow
  BY <1>1 DEF StatusInv, Tells
<1>3. Post("io", h)
  BY <1>2 DEF RunReport
<1>4. h \in Shows /\ h \in Handler /\ queue["io"] \in Seq(Handler)
  BY DEF Shows, Handler, Simple, Handlers, Threads
<1> HIDE DEF h
<1>5. /\ queue' \in [Threads -> Seq(Handler)]
      /\ queue'["io"] = Append(queue["io"], h)
  <2>1. Append(queue["io"], h) \in Seq(Handler)
    BY <1>4
  <2> QED BY <1>3, <2>1 DEF Post, Handlers, Threads
<1>6. /\ run' \in [Threads -> Seq(Step)]
      /\ \A u \in Threads : Rest(run'[u])
      /\ run'[Other(t)] = run[Other(t)]
      /\ run'[t] \in Seq(Plain)
  <2>1. <<>> \in Seq(Step)
    OBVIOUS
  <2> QED BY <1>1, <2>1, Continues
<1>7. Calm(t)' /\ ~HoldsLock(Other(t)) /\ \A op : At(Other(t), op)' <=> At(Other(t), op)
  <2>1. run'[t] = <<>> \/ Head(run'[t]) \in Plain
    BY <1>6
  <2> QED BY <1>1, <1>6, <2>1, PlainIsCalmNext DEF At, StatusInv, Excludes, Threads, Other
<1>8. Excludes' /\ ~Reporting'
  BY <1>7 DEF Excludes, HoldsLock, Calm, Threads, Other, Reporting
<1>9. Tells'
  BY <1>8 DEF Tells, Reporting, Threads
<1>10. UNCHANGED statusShadow
  BY <1>1 DEF shadows
<1>11. Follows'
  BY <1>4, <1>5, <1>10, LastInAppend DEF Follows, LastShown, h
<1>12. Simple'
  BY <1>1, SimpleStays DEF outside, Simple
<1> QED BY <1>5, <1>6, <1>8, <1>9, <1>11, <1>12 DEF StatusInv, Handlers

-----------------------------------------------------------------------------
(* The instructions that lead to ApplyStatus, and its confirmation. *)

(* So do the instructions that read a status. *)
LEMMA ReadingSteps ==
  ASSUME Inv,
         \/ \E t \in Threads : RunReadStatus(t)
         \/ RunCheckStatus \/ RunCompareStatus \/ RunConfirmStatus
  PROVE  Inv'
<1> USE DEF Inv, Types
<1>1. "io" \in Threads /\ "output" \in Threads /\ <<>> \in Seq(Plain)
  BY DEF Threads
<1>2. CASE \E t \in Threads : RunReadStatus(t)
  <2>1. PICK t \in Threads : RunReadStatus(t)
    BY <1>2
  <2>2. run[t] # <<>> /\ Calm(t)
        /\ UNCHANGED <<newLevel, shadows, signal, queue, alarm, hw, netlink, overlapped,
                       refused>>
    BY <2>1, OtherOpsAreCalm DEF RunReadStatus
  <2>3. PICK status \in RegulatorStatus :
           Reads(status) /\ Continue(t, <<ApplyStatus(status)>>)
    BY <2>1 DEF RunReadStatus
  <2>4. status \in Decoded /\ faults' \in 0 .. Faults
    BY <2>3, StatusIsDecoded
  <2>5. <<ApplyStatus(status)>> \in Seq(Plain)
    BY <2>4, Known
  <2>6. Handlers' /\ StatusInv'
    BY <2>2, <2>3, <2>5, QuietStep DEF shadows
  <2>7. Simple'
    BY <2>2, <2>4 DEF Simple, shadows
  <2> QED BY <2>6, <2>7
<1>3. CASE RunCheckStatus
  <2>1. run["io"] # <<>> /\ Calm("io")
        /\ UNCHANGED <<newLevel, shadows, signal, queue, alarm, hw, netlink, overlapped,
                       refused>>
    BY <1>3, OtherOpsAreCalm DEF RunCheckStatus
  <2>2. PICK status \in RegulatorStatus :
           Reads(status) /\ Continue("io", <<CompareStatus(status)>>)
    BY <1>3 DEF RunCheckStatus
  <2>3. status \in Decoded /\ faults' \in 0 .. Faults
    BY <2>2, StatusIsDecoded
  <2>4. <<CompareStatus(status)>> \in Seq(Plain)
    BY <2>3, Known
  <2>5. Handlers' /\ StatusInv'
    BY <1>1, <2>1, <2>2, <2>4, QuietStep DEF shadows
  <2>6. Simple'
    BY <2>1, <2>3 DEF Simple, shadows
  <2> QED BY <2>5, <2>6
<1>4. CASE RunCompareStatus
  <2> DEFINE status == Head(run["io"]).status
  <2>1. run["io"] # <<>> /\ Calm("io") /\ Head(run["io"]).op = "CompareStatus"
        /\ UNCHANGED <<newLevel, shadows, signal, outside>>
    BY <1>4, OtherOpsAreCalm DEF RunCompareStatus
  <2>2. status \in Decoded
    BY <1>1, <2>1, Operands DEF Handlers
  <2>3. <<ReadStatus>> \in Seq(Plain) /\ <<ApplyStatus(status)>> \in Seq(Plain)
    BY <2>2, Known
  <2>4. \/ Post("io", <<ReadStatus>>) /\ Continue("io", <<>>)
        \/ Continue("io", <<ApplyStatus(status)>>) /\ UNCHANGED queue
    BY <1>4 DEF RunCompareStatus
  <2> HIDE DEF status
  <2>5. UNCHANGED <<statusShadow, signal>>
    BY <2>1 DEF shadows
  <2>6. Handlers' /\ StatusInv'
    BY <1>1, <2>1, <2>3, <2>4, <2>5, QuietStep, PostingStep
  <2>7. Simple'
    BY <2>1, SimpleStays DEF outside, Simple
  <2> QED BY <2>6, <2>7
<1>5. CASE RunConfirmStatus
  <2>1. run["output"] # <<>> /\ Calm("output")
        /\ UNCHANGED <<newLevel, stateShadow, statusShadow, pendingNewLevel, signal,
                       queue, outside>>
    BY <1>5, OtherOpsAreCalm DEF RunConfirmStatus
  <2>2. <<ApplyStatus("error")>> \in Seq(Plain)
    BY Known DEF Decoded
  <2>3. Continue("output", <<>>) \/ Continue("output", <<ApplyStatus("error")>>)
    BY <1>5 DEF RunConfirmStatus
  <2>4. Handlers' /\ StatusInv'
    BY <1>1, <2>1, <2>2, <2>3, QuietStep
  <2>5. pendingLevelChange' \in BOOLEAN /\ armed' \in BOOLEAN
    BY <1>5 DEF RunConfirmStatus, Simple
  <2>6. retries' = retries \/ (retries > 0 /\ retries' = retries - 1)
    BY <1>5 DEF RunConfirmStatus, MayRetry, RetriesLeft
  <2>7. retries' \in 0 .. Retries
    BY <2>6, ConstantsAssumption DEF Simple
  <2>8. Simple'
    BY <2>1, <2>5, <2>7 DEF Simple, outside
  <2> QED BY <2>4, <2>8
<1> QED BY <1>2, <1>3, <1>4, <1>5

(* Events and the checks they ask for. *)
LEMMA EventSteps ==
  ASSUME Inv, RunHandleEvent \/ RunCheckLater \/ RunSetEnabled
  PROVE  Inv'
<1> USE DEF Inv, Types
<1>1. "io" \in Threads /\ "output" \in Threads /\ <<>> \in Seq(Plain)
  BY DEF Threads
<1>2. CASE RunHandleEvent
  <2>1. run["output"] # <<>> /\ Calm("output") /\ Continue("output", <<>>)
        /\ UNCHANGED <<newLevel, shadows, signal, outside>>
    BY <1>2, OtherOpsAreCalm DEF RunHandleEvent
  <2>2. PICK v \in {0, 1} : \/ Post("io", <<CheckLater(v)>>)
                            \/ Post("io", <<CheckStatus, SetEnabled(v)>>)
    BY <1>2 DEF RunHandleEvent
  <2>3. <<CheckLater(v)>> \in Seq(Plain) /\ <<CheckStatus, SetEnabled(v)>> \in Seq(Plain)
    BY Known
  <2>4. UNCHANGED <<statusShadow, signal>>
    BY <2>1 DEF shadows
  <2>5. Handlers' /\ StatusInv'
    BY <1>1, <2>1, <2>2, <2>3, <2>4, PostingStep
  <2>6. Simple'
    BY <2>1, SimpleStays DEF outside, Simple
  <2> QED BY <2>5, <2>6
<1>3. CASE RunCheckLater
  <2> DEFINE q == queue["io"]
             h == <<SetEnabled(Head(run["io"]).value)>>
             c == <<CheckStatus>>
  <2>1. run["io"] # <<>> /\ Calm("io") /\ Head(run["io"]).op = "CheckLater"
        /\ Continue("io", <<>>) /\ UNCHANGED <<newLevel, shadows, signal, outside>>
        /\ queue' = [queue EXCEPT !["io"] = q \o <<c, h>>]
    BY <1>3, OtherOpsAreCalm DEF RunCheckLater
  <2>2. Head(run["io"]).value \in {0, 1}
    BY <1>1, <2>1, Operands DEF Handlers
  <2>3. c \in Seq(Plain) /\ h \in Seq(Plain) /\ q \in Seq(Handler)
    BY <1>1, <2>2, Known DEF Handlers
  <2> HIDE DEF q, h, c
  <2>4. q \o <<c, h>> = Append(Append(q, c), h)
    BY <2>3, AppendTwo DEF Handler
  <2>5. /\ Append(q, c) \in Seq(Handler) /\ Append(Append(q, c), h) \in Seq(Handler)
        /\ \A d : LastIn(Append(q, c), Shows, d) = LastIn(q, Shows, d)
        /\ \A d : LastIn(Append(Append(q, c), h), Shows, d)
                   = LastIn(Append(q, c), Shows, d)
    <3>1. /\ Append(q, c) \in Seq(Handler)
          /\ \A d : LastIn(Append(q, c), Shows, d) = LastIn(q, Shows, d)
      BY <2>3, PlainPosted
    <3> QED BY <2>3, <3>1, PlainPosted
  <2>6. queue' \in [Threads -> Seq(Handler)]
        /\ queue'["io"] = Append(Append(q, c), h)
    BY <1>1, <2>1, <2>4, <2>5 DEF Handlers
  <2>7. ShowsAsBefore
    BY <2>1, <2>5, <2>6 DEF ShowsAsBefore, shadows, q
  <2>8. Handlers' /\ StatusInv'
    BY <1>1, <2>1, <2>6, <2>7, PlainStep
  <2>9. Simple'
    BY <2>1, SimpleStays DEF outside, Simple
  <2> QED BY <2>8, <2>9
<1>4. CASE RunSetEnabled
  <2>1. run["io"] # <<>> /\ Calm("io") /\ Head(run["io"]).op = "SetEnabled"
        /\ Continue("io", <<>>) /\ UNCHANGED <<newLevel, shadows, queue, outside>>
        /\ signal' = [signal EXCEPT !["enabled"] = Head(run["io"]).value]
    BY <1>4, OtherOpsAreCalm DEF RunSetEnabled
  <2>2. Head(run["io"]).value \in {0, 1}
    BY <1>1, <2>1, Operands DEF Handlers
  <2>3. /\ signal' \in [{"enabled", "powergood", "fault"} -> {Undefined, 0, 1}]
        /\ UNCHANGED <<signal["powergood"], signal["fault"]>>
    BY <2>1, <2>2 DEF Simple
  <2>4. ShowsAsBefore
    BY <2>1, <2>3 DEF ShowsAsBefore, shadows
  <2>5. queue' \in [Threads -> Seq(Handler)]
    BY <2>1 DEF Handlers
  <2>6. Handlers' /\ StatusInv'
    BY <1>1, <2>1, <2>4, <2>5, PlainStep
  <2>7. Simple'
    BY <2>1, <2>3 DEF Simple, shadows, outside
  <2> QED BY <2>6, <2>7
<1> QED BY <1>2, <1>3, <1>4

(* The signals are set: they are those of the status that was posted. *)
LEMMA SetSignalsStep ==
  ASSUME Inv, RunSetSignals
  PROVE  Inv'
<1> USE DEF Inv, Types
<1> DEFINE i == Head(run["io"])
           status == i.status
<1>1. /\ run["io"] # <<>> /\ i.op = "SetSignals" /\ At("io", "SetSignals")
      /\ Continue("io", <<>>)
      /\ UNCHANGED <<newLevel, shadows, queue, hw, netlink, faults, overlapped, refused>>
      /\ "io" \in Threads
  BY DEF RunSetSignals, At, Threads
<1>2. status \in Shown /\ i = SetSignals(status)
  BY <1>1, SpecialForms DEF Handlers
<1>3. /\ status = "off" => signal' = [s \in DOMAIN signal |-> 0]
      /\ status = "error"
           => signal' = [signal EXCEPT !["powergood"] = 0, !["fault"] = 1]
      /\ status = "on"
           => signal' = [s \in DOMAIN signal |-> IF s = "fault" THEN 0 ELSE 1]
      /\ status = "invalid" => signal' = signal
      /\ alarm' = (alarm \/ CallsBack(status))
  BY DEF RunSetSignals
<1>4. DOMAIN signal = {"enabled", "powergood", "fault"}
  BY DEF Simple
<1>5. /\ signal' \in [{"enabled", "powergood", "fault"} -> {Undefined, 0, 1}]
      /\ status # "invalid" =>
           /\ signal'["powergood"] = (IF status = "on" THEN 1 ELSE 0)
           /\ signal'["fault"] = (IF status = "error" THEN 1 ELSE 0)
  BY <1>2, <1>3, <1>4 DEF Simple, Shown
<1>6. alarm' \in BOOLEAN
  BY <1>3 DEF CallsBack, Simple
<1>7. Simple'
  BY <1>1, <1>5, <1>6 DEF Simple, shadows
<1>8. /\ run' \in [Threads -> Seq(Step)]
      /\ \A u \in Threads : Rest(run'[u])
      /\ run'["output"] = run["output"]
      /\ run'["io"] \in Seq(Plain)
  <2>1. <<>> \in Seq(Step) /\ Other("io") = "output"
    BY DEF Other
  <2> QED BY <1>1, <2>1, Continues
<1>9. Calm("io")' /\ \A op : At("output", op)' <=> At("output", op)
  <2>1. run'["io"] = <<>> \/ Head(run'["io"]) \in Plain
    BY <1>8
  <2> QED BY <1>8, <2>1, PlainIsCalmNext DEF At
<1>10. ~At("io", "Report") /\ ~At("io", "Commit")
  BY <1>1 DEF At
<1>11. UNCHANGED <<queue, statusShadow>>
  BY <1>1 DEF shadows
<1>12. Excludes' /\ Tells' /\ (Reporting' <=> Reporting)
  BY <1>8, <1>9, <1>10, <1>11
     DEF Excludes, HoldsLock, Calm, Tells, Reporting, StatusInv, Threads
<1>13. Now = <<SetSignals(status)>> /\ Now' = <<>>
  BY <1>1, <1>2, <1>9 DEF Now, Calm
<1>14. Follows'
  <2>1. SUFFICES ASSUME ~Reporting PROVE Follows'
    BY <1>12 DEF Follows
  <2>2. LastShown = <<SetSignals(statusShadow)>> \/ (LastShown = <<>> /\ Fits)
    BY <2>1 DEF StatusInv, Follows
  <2>3. queue["io"] \in Seq(Handler)
    BY <1>1 DEF Handlers
  <2>4. CASE \A d : LastIn(queue["io"], Shows, d) = d
    <3>1. LastShown = <<SetSignals(status)>> /\ LastShown' = <<>>
      BY <1>11, <1>13, <2>4 DEF LastShown
    <3>2. SetSignals(status) = SetSignals(statusShadow)
      <4>1. <<SetSignals(status)>>[1] = SetSignals(status)
            /\ <<SetSignals(statusShadow)>>[1] = SetSignals(statusShadow)
            /\ <<SetSignals(status)>> # <<>>
        OBVIOUS
      <4> QED BY <2>2, <3>1, <4>1
    <3>3. status = statusShadow
      BY <3>2 DEF SetSignals
    <3>4. Fits'
      BY <1>5, <1>11, <3>3 DEF Fits
    <3> QED BY <3>1, <3>4 DEF Follows
  <2>5. CASE \E e \in Shows : \A d : LastIn(queue["io"], Shows, d) = e
    <3>1. PICK e \in Shows : \A d : LastIn(queue["io"], Shows, d) = e
      BY <2>5
    <3>2. LastShown = e /\ LastShown' = e /\ e # <<>>
      BY <1>11, <3>1 DEF LastShown, Shows
    <3> QED BY <1>11, <2>2, <3>2 DEF Follows
  <2> QED BY <2>3, <2>4, <2>5, LastInDefault
<1> QED BY <1>7, <1>8, <1>11, <1>12, <1>14 DEF StatusInv, Handlers

-----------------------------------------------------------------------------
(* What the threads do between two handlers. *)

(* So does a thread that takes a handler, *)
LEMMA StartStep ==
  ASSUME Inv, NEW t \in Threads, Start(t)
  PROVE  Inv'
<1> USE DEF Inv, Types
<1>1. /\ TakeHandler(t) /\ overlapped' = (overlapped \/ run[Other(t)] # <<>>)
      /\ UNCHANGED <<newLevel, shadows, signal, alarm, hw, netlink, faults, refused>>
  BY DEF Start
<1>2. Simple'
  BY <1>1, SimpleStays DEF Simple
<1>3. /\ Handlers'
      /\ run[t] = <<>> /\ queue[t] # <<>> /\ Head(queue[t]) \in Handler
      /\ run'[t] = Head(queue[t]) /\ queue'[t] = Tail(queue[t])
      /\ run'[Other(t)] = run[Other(t)] /\ queue'[Other(t)] = queue[Other(t)]
  BY <1>1, Takes
<1>4. UNCHANGED <<statusShadow, signal>>
  BY <1>1 DEF shadows
<1>5. \A op : ~At(t, op) /\ (At(Other(t), op)' <=> At(Other(t), op))
  BY <1>3 DEF At
<1>6. CASE Head(queue[t]) \in Shows
  <2>1. PICK s \in Shown : Head(queue[t]) = <<SetSignals(s)>>
    BY <1>6 DEF Shows
  <2>2. run'[t] # <<>> /\ Head(run'[t]) = SetSignals(s)
    <3>1. /\ <<SetSignals(s)>> # <<>>
          /\ Head(<<SetSignals(s)>>) = SetSignals(s)
      BY ShortHandlers
    <3> QED BY <1>3, <2>1, <3>1
  <2>3. At(t, "SetSignals")' /\ ~At(t, "Report")' /\ ~At(t, "Commit")'
    BY <2>2 DEF At, SetSignals
  <2>4. Excludes' /\ Tells' /\ (Reporting' <=> Reporting)
    <3>1. \A u \in Threads : u = t \/ u = Other(t)
      BY DEF Threads, Other
    <3> QED BY <1>3, <1>4, <1>5, <2>3, <3>1
         DEF StatusInv, Excludes, HoldsLock, Tells, Reporting, Threads, Other
  <2>5. Follows'
    <3>1. CASE t = "io"
      <4>1. Now = <<>> /\ Now' = Head(queue["io"])
        BY <1>5, <2>1, <2>2, <2>3, <3>1 DEF Now
      <4>2. queue["io"] \in Seq(Handler) /\ queue["io"] # <<>>
        BY <1>3, <3>1 DEF Handlers
      <4>3. LastIn(queue["io"], Shows, <<>>) = LastIn(Tail(queue["io"]), Shows, Now')
        BY <1>6, <3>1, <4>1, <4>2, LastInTail
      <4>4. LastShown' = LastShown
        BY <1>3, <3>1, <4>1, <4>3 DEF LastShown
      <4> QED BY <1>4, <2>4, <4>4 DEF StatusInv, Follows, Fits
    <3>2. CASE t = "output"
      <4>1. Now' = Now /\ queue'["io"] = queue["io"]
        BY <1>3, <1>5, <3>2 DEF Now, Other
      <4> QED BY <1>4, <2>4, <4>1 DEF StatusInv, Follows, Fits, LastShown
    <3> QED BY <3>1, <3>2 DEF Threads
  <2> QED BY <1>2, <1>3, <2>4, <2>5 DEF StatusInv
<1>7. CASE Head(queue[t]) \in Seq(Plain)
  <2>1. Calm(t)'
    <3>1. run'[t] = <<>> \/ Head(run'[t]) \in Plain
      BY <1>3, <1>7
    <3> QED BY <3>1, PlainIsCalmNext
  <2>2. Calm(t)
    BY <1>5 DEF Calm
  <2>3. ShowsAsBefore
    <3>1. CASE t = "io"
      <4>1. queue["io"] \in Seq(Handler) /\ queue["io"] # <<>>
            /\ Head(queue["io"]) \notin Shows
        BY <1>3, <1>7, <3>1, PlainShowsNothing DEF Handlers
      <4>2. \A d : LastIn(queue["io"], Shows, d) = LastIn(Tail(queue["io"]), Shows, d)
        BY <4>1, LastInTail
      <4> QED BY <1>3, <1>4, <3>1, <4>2 DEF ShowsAsBefore
    <3>2. CASE t = "output"
      BY <1>3, <1>4, <3>2 DEF ShowsAsBefore, Other
    <3> QED BY <3>1, <3>2 DEF Threads
  <2> QED BY <1>2, <1>3, <2>1, <2>2, <2>3, StatusStays
<1> QED BY <1>3, <1>6, <1>7 DEF Handler

(* an event of the kernel that is delivered, *)
LEMMA StartEventStep ==
  ASSUME Inv, StartEvent
  PROVE  Inv'
<1> USE DEF Inv, Types
<1> DEFINE e == Head(netlink)
           a == IF e.failure THEN <<ApplyStatus("error")>> ELSE <<>>
           b == IF e.change # "none" THEN <<HandleEvent(e)>> ELSE <<>>
<1>1. /\ run["output"] = <<>> /\ netlink # <<>>
      /\ run' = [run EXCEPT !["output"] = a \o b]
      /\ netlink' = Tail(netlink)
      /\ overlapped' = (overlapped \/ run["io"] # <<>>)
      /\ UNCHANGED <<newLevel, shadows, signal, queue, alarm, hw, faults, refused>>
  BY DEF StartEvent
<1>2. e \in Event /\ Tail(netlink) \in Seq(Event)
  BY <1>1 DEF Simple
<1>3. a \in Seq(Plain) /\ b \in Seq(Plain)
  BY <1>2, Known DEF Decoded
<1> DEFINE r == a \o b
<1>4. r \in Seq(Plain)
  BY <1>3
<1> HIDE DEF a, b, e
<1>5. Rest(r) /\ r \in Seq(Step) /\ (r = <<>> \/ Head(r) \in Plain)
  <2>1. r \in Seq(Step)
    BY <1>4, Known
  <2>2. r # <<>> => Head(r) \in Plain /\ Tail(r) \in Seq(Plain)
    BY <1>4
  <2> QED BY <2>1, <2>2 DEF Rest
<1> HIDE DEF r
<1>6. run'["output"] = r /\ run'["io"] = run["io"] /\ run' \in [Threads -> Seq(Step)]
  BY <1>1, <1>5 DEF Handlers, Threads, r
<1>7. Handlers'
  BY <1>1, <1>5, <1>6 DEF Handlers, Threads
<1>8. StatusInv'
  <2>1. Calm("output") /\ Calm("output")'
    BY <1>1, <1>5, <1>6, PlainIsCalmNext DEF Calm, At
  <2>2. ShowsAsBefore
    BY <1>1 DEF ShowsAsBefore, shadows
  <2>3. "output" \in Threads /\ run'[Other("output")] = run[Other("output")]
    BY <1>6 DEF Threads, Other
  <2> QED BY <2>1, <2>2, <2>3, StatusStays
<1>9. Simple'
  BY <1>1, <1>2 DEF Simple, shadows
<1> QED BY <1>7, <1>8, <1>9

-----------------------------------------------------------------------------
(* The timer, the signal _On and the regulator. *)

(* and whatever comes from outside. *)
LEMMA OutsideSteps ==
  ASSUME Inv, Expire \/ Requests \/ Alarm \/ HwSettles \/ HwSwings \/ HwBreaks
  PROVE  Inv'
<1> USE DEF Inv, Types
<1>1. "output" \in Threads /\ <<Apply>> \in Seq(Plain)
      /\ <<ReadStatus, ConfirmStatus>> \in Seq(Plain)
  BY Known DEF Threads
<1>2. CASE Expire
  <2>1. Post("output", <<ReadStatus, ConfirmStatus>>) /\ armed' = FALSE
        /\ UNCHANGED <<newLevel, stateShadow, statusShadow, pendingLevelChange,
                       pendingNewLevel, retries, signal, run, outside>>
    BY <1>2 DEF Expire
  <2>2. Handlers' /\ StatusInv'
    BY <1>1, <2>1, PostedFromOutside
  <2>3. Simple'
    BY <2>1 DEF Simple, outside
  <2> QED BY <2>2, <2>3
<1>3. CASE Requests \/ AlarmUpdates
  <2>1. PICK v \in {0, 1} : Update(v)
    BY <1>3 DEF Requests, Request, AlarmUpdates
  <2>2. Post("output", <<Apply>>) /\ newLevel' = v /\ alarm' = FALSE
        /\ UNCHANGED <<shadows, signal, run, hw, netlink, faults, overlapped, refused>>
    BY <2>1 DEF Update
  <2>3. Handlers' /\ StatusInv'
    BY <1>1, <2>2, PostedFromOutside DEF shadows
  <2>4. Simple'
    BY <2>2 DEF Simple, shadows
  <2> QED BY <2>3, <2>4
<1>4. CASE OffAlready
  <2>1. UNCHANGED <<newLevel, shadows, signal, queue, run, hw, netlink, faults,
                    overlapped, refused>> /\ alarm' = FALSE
    BY <1>4 DEF OffAlready
  <2>2. ShowsAsBefore /\ Handlers' /\ Simple'
    BY <2>1 DEF ShowsAsBefore, shadows, Handlers, Simple
  <2> QED BY <2>1, <2>2, StatusStaysPut
<1>5. CASE HwSettles \/ HwSwings \/ HwBreaks
  <2>1. UNCHANGED <<newLevel, shadows, signal, queue, run, alarm, faults, overlapped,
                    refused>>
    BY <1>5 DEF HwSettles, HwSwings, HwBreaks
  <2>2. ShowsAsBefore /\ Handlers'
    BY <2>1 DEF ShowsAsBefore, shadows, Handlers
  <2>3. StatusInv'
    BY <2>1, <2>2, StatusStaysPut
  <2>4. Failure \in Event /\ FailureDisable \in Event
    BY DEF Failure, FailureDisable, Event
  <2>5. netlink' \in Seq(Event)
    <3>1. netlink' = netlink \/ \E e \in Event : netlink' = Append(netlink, e)
      BY <1>5, <2>4 DEF HwSettles, HwSwings, HwBreaks
    <3> QED BY <3>1 DEF Simple
  <2> DEFINE Hw == [state : RegulatorState, status : {"off", "on", "error"},
                    broken : BOOLEAN, reports : BOOLEAN]
  <2>6. hw \in Hw
    BY DEF Simple
  <2>7. hw' \in Hw
    <3>1. CASE HwSettles
      <4>1. Goal(hw.state) \in {"off", "on", "error"}
        BY DEF Goal
      <4>2. hw' = [hw EXCEPT !.status = Goal(hw.state), !.broken = FALSE]
        BY <3>1 DEF HwSettles
      <4> QED BY <2>6, <4>1, <4>2
    <3>2. CASE HwSwings
      <4>1. hw' = [hw EXCEPT !.status = "error"]
        BY <3>2 DEF HwSwings
      <4> QED BY <2>6, <4>1
    <3>3. CASE HwBreaks
      <4>1. hw' = [hw EXCEPT !.status = "error", !.broken = TRUE]
        BY <3>3 DEF HwBreaks
      <4> QED BY <2>6, <4>1
    <3> QED BY <1>5, <3>1, <3>2, <3>3
  <2>8. Simple'
    BY <2>1, <2>5, <2>7 DEF Simple, shadows
  <2> QED BY <2>2, <2>3, <2>8
<1> QED BY <1>2, <1>3, <1>4, <1>5 DEF Alarm

-----------------------------------------------------------------------------
(* The theorems. *)

(* The invariant holds when the constructor has run. *)
LEMMA InitInv == Init => Inv
<1> SUFFICES ASSUME Init PROVE Inv
  OBVIOUS
<1> DEFINE first == <<SetSignals(statusShadow)>>
<1>1. /\ queue["io"] = <<first>> /\ queue["output"] = <<>>
      /\ run["io"] = <<>> /\ run["output"] = <<>>
  BY DEF Init, Threads
<1>2. PICK s \in RegulatorState, r \in BOOLEAN :
         hw = [state |-> s, status |-> Goal(s), broken |-> FALSE, reports |-> r]
  BY DEF Init
<1>3. hw.state = s /\ Goal(s) \in {"off", "on"}
  BY <1>2 DEF Goal
<1>4. statusShadow \in Shown
  BY <1>3 DEF Init, Shown
<1>5. first \in Shows /\ first \in Handler
  BY <1>4 DEF Shows, Handler
<1>6. Simple
  <2>1. hw \in [state : RegulatorState, status : {"off", "on", "error"},
                broken : BOOLEAN, reports : BOOLEAN]
    BY <1>2, <1>3
  <2>2. signal \in [{"enabled", "powergood", "fault"} -> {Undefined, 0, 1}]
    BY DEF Init
  <2>3. netlink \in Seq(Event)
    BY DEF Init
  <2>4. 0 \in 0 .. Retries /\ Faults \in 0 .. Faults
    BY ConstantsAssumption
  <2>5. pendingNewLevel \in RegulatorState
    BY DEF Init, RegulatorState
  <2> QED BY <1>3, <1>4, <2>1, <2>2, <2>3, <2>4, <2>5 DEF Init, Simple, ReadableState
<1> HIDE DEF first
<1>7. Handlers
  <2>1. <<first>> \in Seq(Handler) /\ <<>> \in Seq(Handler) /\ <<>> \in Seq(Step)
    BY <1>5
  <2>2. Rest(<<>>)
    BY DEF Rest
  <2>3. queue = [t \in Threads |-> IF t = "io" THEN <<first>> ELSE <<>>]
    BY DEF Init, first
  <2> QED BY <2>1, <2>2, <2>3 DEF Init, Handlers
<1>8. StatusInv
  <2>1. \A op : \A t \in Threads : ~At(t, op)
    BY DEF Init, At
  <2>2. Excludes /\ Tells
    BY <2>1 DEF Excludes, HoldsLock, Tells, Threads
  <2>3. <<first>> = Append(<<>>, first) /\ <<>> \in Seq(Handler)
    OBVIOUS
  <2>4. LastShown = first
    <3> DEFINE p == Append(<<>>, first)
    <3>1. queue["io"] = p
      BY <1>1, <2>3
    <3>2. ASSUME NEW q \in Seq(Handler), NEW x \in Handler, x \in Shows
          PROVE  \A d : LastIn(Append(q, x), Shows, d) = x
      BY <3>2, LastInAppend
    <3>3. \A d : LastIn(p, Shows, d) = first
      BY <1>5, <2>3, <3>2, Zenon
    <3> HIDE DEF p
    <3> QED BY <3>1, <3>3 DEF LastShown
  <2> QED BY <2>2, <2>4 DEF StatusInv, Follows, first
<1> QED BY <1>6, <1>7, <1>8 DEF Inv, Types

(* Every step keeps the invariant. *)
LEMMA NextKeepsInv == Inv /\ [Next]_vars => Inv'
<1> SUFFICES ASSUME Inv, [Next]_vars PROVE Inv'
  OBVIOUS
<1>1. "io" \in Threads /\ "output" \in Threads
  BY DEF Threads
<1>2. CASE IoThread
  BY <1>1, <1>2, StartStep, ApplyStatusStep, CommitStep, ReportStep, ReadingSteps,
     EventSteps, SetSignalsStep DEF IoThread
<1>3. CASE OutputThread
  BY <1>1, <1>3, StartStep, StartEventStep, ApplyStatusStep, CommitStep, ReportStep,
     ReadingSteps, ApplySteps, EventSteps DEF OutputThread, Writing, ReadingBack
<1>4. CASE Expire \/ Requests \/ Alarm \/ HwSettles \/ HwSwings \/ HwBreaks
  BY <1>4, OutsideSteps
<1>5. CASE UNCHANGED vars
  <2>1. UNCHANGED <<newLevel, shadows, signal, queue, run, outside>>
    BY <1>5 DEF vars
  <2>2. Simple' /\ Handlers'
    BY <2>1, SimpleStays DEF Inv, Types, Simple, Handlers, outside
  <2>3. StatusInv'
    BY <2>1, StatusStaysPut DEF Inv, ShowsAsBefore, shadows
  <2> QED BY <2>2, <2>3 DEF Inv, Types
<1> QED BY <1>2, <1>3, <1>4, <1>5 DEF Next

(* The invariant holds in every state that can be reached. *)
THEOREM InvHolds == Spec => []Inv
BY InitInv, NextKeepsInv, PTL DEF Spec

(* Steps are instructions. *)
LEMMA StepsAreInstructions == Step \subseteq Instruction
<1>1. Decoded \subseteq RegulatorStatus /\ Shown \subseteq RegulatorStatus
  BY DEF Decoded, Shown, RegulatorStatus
<1>2. Plain \subseteq Instruction
  BY <1>1 DEF Plain, Instruction
<1>3. Special \subseteq Instruction
  BY <1>1 DEF Special, Instruction
<1> QED BY <1>2, <1>3 DEF Step

(* The types of VoltageRegulator hold for every number of retries and of
   faults: in particular the retries that are left do not run below zero. *)
THEOREM TypeCorrect == Spec => []TypeOK
<1>1. Inv => TypeOK
  <2> SUFFICES ASSUME Inv PROVE TypeOK
    OBVIOUS
  <2>1. Handler \subseteq Seq(Instruction)
    <3>1. \A s \in Shown : <<SetSignals(s)>> \in Seq(Instruction)
      <4>1. \A s \in Shown : SetSignals(s) \in Instruction
        BY Known, StepsAreInstructions
      <4>2. \A i \in Instruction : <<i>> \in Seq(Instruction)
        OBVIOUS
      <4> QED BY <4>1, <4>2
    <3>2. Plain \subseteq Instruction
      BY StepsAreInstructions DEF Step
    <3>3. Seq(Plain) \subseteq Seq(Instruction)
      BY <3>2
    <3> QED BY <3>1, <3>3 DEF Handler, Shows
  <2>2. queue \in [Threads -> Seq(Seq(Instruction))]
    BY <2>1 DEF Inv, Types, Handlers
  <2>3. run \in [Threads -> Seq(Instruction)]
    BY StepsAreInstructions DEF Inv, Types, Handlers
  <2>4. Shown \subseteq RegulatorStatus \ {"undefined"}
    BY DEF Shown, RegulatorStatus
  <2> QED BY <2>2, <2>3, <2>4 DEF Inv, Types, Simple, TypeOK, ThreadsTypeOK
<1> QED BY <1>1, InvHolds, PTL

(* The lock of ApplyStatus: one thread at most is between comparing a status
   with statusShadow and posting the signals for it. *)
THEOREM LockExcludes == Spec => []Excludes
<1>1. Inv => Excludes
  BY DEF Inv, StatusInv
<1> QED BY <1>1, InvHolds, PTL

(* The signals follow the status, whichever thread has set it last: Follows,
   when io has nothing left to run and no status is about to be reported. *)
THEOREM SignalsFollow == Spec => []SignalsFollowStatus
<1>1. Inv => SignalsFollowStatus
  <2> SUFFICES ASSUME Inv, queue["io"] = <<>>, run["io"] = <<>>,
                      ~HoldsLock("output"), statusShadow # "invalid"
               PROVE  Fits
    BY DEF SignalsFollowStatus, Fits
  <2>1. ~Reporting /\ Now = <<>>
    BY DEF Reporting, HoldsLock, At, Now
  <2>2. LastShown = <<>>
    BY <2>1, LastInEmpty DEF LastShown
  <2> QED BY <2>1, <2>2 DEF Inv, StatusInv, Follows
<1> QED BY <1>1, InvHolds, PTL

-----------------------------------------------------------------------------
(* The instructions that follow another differ. *)
LEMMA Following ==
  ASSUME NEW s \in RegulatorState, NEW u \in RegulatorState,
         NEW e \in Sent, NEW f \in Sent
  PROVE  /\ <<StartTimer(s)>> = <<StartTimer(u)>> <=> s = u
         /\ <<SetPending, StartTimer(s)>> = <<SetPending, StartTimer(u)>> <=> s = u
         /\ <<StartTimer(s)>> # <<SetPending, StartTimer(u)>>
         /\ <<ConfirmStatus>> \notin {<<>>, <<StartTimer(s)>>, <<HandleEvent(e)>>,
                                     <<SetPending, StartTimer(s)>>}
         /\ <<HandleEvent(e)>> \notin {<<>>, <<StartTimer(s)>>,
                                      <<SetPending, StartTimer(s)>>}
         /\ <<>> \notin {<<StartTimer(s)>>, <<SetPending, StartTimer(s)>>}
         /\ <<HandleEvent(e)>> = <<HandleEvent(f)>> <=> e = f
<1>1. StartTimer(s).op = "StartTimer" /\ StartTimer(s).state = s
      /\ StartTimer(u).op = "StartTimer" /\ StartTimer(u).state = u
      /\ SetPending.op = "SetPending" /\ ConfirmStatus.op = "ConfirmStatus"
      /\ HandleEvent(e).op = "HandleEvent" /\ HandleEvent(e).event = e
      /\ HandleEvent(f).op = "HandleEvent" /\ HandleEvent(f).event = f
  BY DEF StartTimer, SetPending, ConfirmStatus, HandleEvent
<1>2. ASSUME NEW a, NEW b
      PROVE  /\ Head(<<a>>) = a /\ Tail(<<a>>) = <<>> /\ <<a>> # <<>>
             /\ Head(<<a, b>>) = a /\ Tail(<<a, b>>) = <<b>> /\ <<a, b>> # <<>>
  BY ShortHandlers
<1> HIDE DEF StartTimer, SetPending, ConfirmStatus, HandleEvent
<1> DEFINE S1 == <<StartTimer(s)>>
           U1 == <<StartTimer(u)>>
           S2 == <<SetPending, StartTimer(s)>>
           U2 == <<SetPending, StartTimer(u)>>
           C1 == <<ConfirmStatus>>
           E1 == <<HandleEvent(e)>>
           F1 == <<HandleEvent(f)>>
<1>3. /\ Head(S1) = StartTimer(s) /\ Head(U1) = StartTimer(u)
      /\ Head(S2) = SetPending /\ Head(U2) = SetPending /\ Head(C1) = ConfirmStatus
      /\ Head(E1) = HandleEvent(e) /\ Head(F1) = HandleEvent(f) /\ Tail(S2) = S1 /\ Tail(U2) = U1
      /\ <<>> \notin {S1, U1, S2, U2, C1, E1}
  BY <1>2
<1>4. (s = u => S1 = U1 /\ S2 = U2) /\ (e = f => E1 = F1)
  OBVIOUS
<1> HIDE DEF S1, U1, S2, U2, C1, E1, F1
<1> QED BY <1>1, <1>3, <1>4 DEF S1, U1, S2, U2, C1, E1, F1

(* What the next instruction of the output thread says about the others. *)
LEMMA OutTable ==
  ASSUME NEW r, OutForm(r), r # <<>> => Head(r) \in Step
  PROVE  /\ r = <<>> \/ Head(r).op \in {"Apply", "HandleEvent"} \cup StatusOps
                       \cup {"ReadStatus", "ConfirmStatus"}
              => \A s \in RegulatorState : ~Changing(r, s)
         /\ r = <<>> \/ Head(r).op \in {"Apply", "HandleEvent", "SetPending",
                                       "StartTimer"} \cup WriteOps
              => ~Confirming(r)
         /\ r # <<>> /\ Head(r).op \in WriteOps
              => /\ Tail(r) = <<SetPending, StartTimer(Head(r).state)>>
                 /\ \A s \in RegulatorState : Changing(r, s) <=> s = Head(r).state
         /\ r # <<>> /\ Head(r).op = "StartTimer"
              => /\ Tail(r) = <<>>
                 /\ \A s \in RegulatorState : Changing(r, s) <=> s = Head(r).state
         /\ r # <<>> /\ Head(r).op = "SetPending"
              => \E u \in RegulatorState :
                   /\ Tail(r) = <<StartTimer(u)>>
                   /\ \A s \in RegulatorState : Changing(r, s) <=> s = u
         /\ r # <<>> /\ Head(r).op = "ReadStatus"
              => Tail(r) = <<ConfirmStatus>> /\ Confirming(r)
         /\ r # <<>> /\ Head(r).op = "ConfirmStatus"
              => Tail(r) = <<>> /\ Confirming(r)
         /\ r # <<>> /\ Head(r).op \in {"Apply", "HandleEvent"} => Tail(r) = <<>>
         /\ r # <<>> /\ Head(r).op \in StatusOps
              => \/ Tail(r) = <<ConfirmStatus>> /\ Confirming(r)
                 \/ /\ Head(r).status = "error" /\ ~Confirming(r)
                    /\ Tail(r) = <<>> \/ \E e \in Sent : Tail(r) = <<HandleEvent(e)>>
<1>1. r # <<>> /\ Head(r).op \in WriteOps \cup {"StartTimer"}
        => Head(r).state \in RegulatorState
  BY Operands
<1>2. "enabled" \in RegulatorState /\ Failure \in Sent
  BY DEF RegulatorState, Sent
<1> DEFINE T1(s) == <<StartTimer(s)>>
           T2(s) == <<SetPending, StartTimer(s)>>
           C1 == <<ConfirmStatus>>
           E1(e) == <<HandleEvent(e)>>
<1>3. /\ \A s \in RegulatorState : \A u \in RegulatorState :
            /\ T1(s) = T1(u) <=> s = u
            /\ T2(s) = T2(u) <=> s = u
            /\ T1(s) # T2(u)
      /\ \A s \in RegulatorState : T1(s) # C1 /\ T2(s) # C1 /\ T1(s) # <<>> /\ T2(s) # <<>>
      /\ \A e \in Sent : \A s \in RegulatorState : E1(e) # T1(s) /\ E1(e) # T2(s)
      /\ \A e \in Sent : E1(e) # C1
      /\ C1 # <<>>
  BY <1>2, Following
<1>4. /\ \A s : Changing(r, s) <=> r # <<>> /\ (\/ Head(r).op = "StartTimer" /\ Head(r).state = s
                                              \/ Tail(r) = T1(s) \/ Tail(r) = T2(s))
      /\ Confirming(r) <=> r # <<>> /\ (Head(r).op = "ConfirmStatus" \/ Tail(r) = C1)
  BY DEF Changing, Confirming
<1>5. r # <<>> =>
        \/ Head(r).op \in {"Apply", "StartTimer", "ConfirmStatus", "HandleEvent"}
           /\ Tail(r) = <<>>
        \/ Head(r).op \in WriteOps /\ Tail(r) = T2(Head(r).state)
        \/ Head(r).op = "SetPending" /\ \E s \in RegulatorState : Tail(r) = T1(s)
        \/ Head(r).op \in {"ReadStatus"} \cup StatusOps /\ Tail(r) = C1
        \/ /\ Head(r).op \in StatusOps /\ Head(r).status = "error"
           /\ Tail(r) = <<>> \/ \E e \in Sent : Tail(r) = E1(e)
  BY DEF OutForm
<1> HIDE DEF T1, T2, C1, E1
<1>6. CASE r = <<>>
  BY <1>4, <1>6
<1>7. CASE /\ r # <<>> /\ Tail(r) = <<>>
           /\ Head(r).op \in {"Apply", "StartTimer", "ConfirmStatus", "HandleEvent"}
  <2>1. Tail(r) # C1 /\ \A s \in RegulatorState : Tail(r) # T1(s) /\ Tail(r) # T2(s)
    BY <1>3, <1>7
  <2>2. Confirming(r) <=> Head(r).op = "ConfirmStatus"
    BY <1>4, <1>7, <2>1
  <2>3. ASSUME NEW s \in RegulatorState
        PROVE  Changing(r, s) <=> Head(r).op = "StartTimer" /\ Head(r).state = s
    BY <1>4, <1>7, <2>1
  <2> QED BY <1>7, <2>2, <2>3 DEF StatusOps, WriteOps
<1>8. CASE /\ r # <<>> /\ Tail(r) = T2(Head(r).state)
           /\ Head(r).op \in WriteOps
  <2>1. ~Confirming(r) /\ \A s \in RegulatorState : Changing(r, s) <=> s = Head(r).state
    BY <1>1, <1>3, <1>4, <1>8 DEF WriteOps
  <2> QED BY <1>8, <2>1 DEF StatusOps, T2, WriteOps
<1>9. ASSUME r # <<>>, Head(r).op = "SetPending",
             NEW u \in RegulatorState, Tail(r) = T1(u)
      PROVE  /\ ~Confirming(r)
             /\ \A s \in RegulatorState : Changing(r, s) <=> s = u
  BY <1>2, <1>3, <1>4, <1>9 DEF WriteOps
<1>10. CASE /\ r # <<>> /\ Tail(r) = C1
            /\ Head(r).op \in {"ReadStatus"} \cup StatusOps
  <2>1. Confirming(r) /\ \A s \in RegulatorState : ~Changing(r, s)
    BY <1>3, <1>4, <1>10 DEF StatusOps
  <2> QED BY <1>10, <2>1 DEF StatusOps, C1, WriteOps
<1>11. ASSUME r # <<>>, Head(r).op \in StatusOps, Head(r).status = "error",
              Tail(r) = <<>> \/ \E e \in Sent : Tail(r) = E1(e)
       PROVE  ~Confirming(r) /\ \A s \in RegulatorState : ~Changing(r, s)
  <2>1. Tail(r) # C1 /\ \A s \in RegulatorState : Tail(r) # T1(s) /\ Tail(r) # T2(s)
    <3>1. CASE Tail(r) = <<>>
      BY <1>3, <3>1
    <3>2. ASSUME NEW e \in Sent, Tail(r) = E1(e)
          PROVE  Tail(r) # C1 /\ \A s \in RegulatorState : Tail(r) # T1(s) /\ Tail(r) # T2(s)
      <4>1. E1(e) # C1 /\ \A s \in RegulatorState : E1(e) # T1(s) /\ E1(e) # T2(s)
        BY <1>3, Zenon
      <4> QED BY <3>2, <4>1, Zenon
    <3> QED BY <1>11, <3>1, <3>2
  <2>2. Head(r).op # "ConfirmStatus" /\ Head(r).op # "StartTimer"
    BY <1>11 DEF StatusOps
  <2> QED BY <1>4, <2>1, <2>2
<1>12. CASE r # <<>> /\ Head(r).op = "SetPending" /\ \E s \in RegulatorState : Tail(r) = T1(s)
  BY <1>9, <1>12 DEF StatusOps, T1, WriteOps
<1>13. CASE /\ r # <<>> /\ Head(r).op \in StatusOps /\ Head(r).status = "error"
            /\ Tail(r) = <<>> \/ \E e \in Sent : Tail(r) = E1(e)
  BY <1>11, <1>13 DEF StatusOps, E1, WriteOps
<1> QED BY <1>5, <1>6, <1>7, <1>8, <1>10, <1>12, <1>13

(* Events. *)
LEMMA SentEvents ==
  /\ Sent \subseteq Event
  /\ Failure \in Sent /\ FailureDisable \in Sent
  /\ \A s \in RegulatorState : Changed(s) \in Sent
  /\ \A e \in Sent : e.failure => e.change # "enable"
<1>1. Failure \in Event /\ FailureDisable \in Event
      /\ Failure.change = "none" /\ FailureDisable.change = "disable"
  BY DEF Failure, FailureDisable, Event
<1>2. \A s \in RegulatorState : Changed(s) \in Event /\ Changed(s).failure = FALSE
  BY DEF Changed, Event
<1>3. Sent = {Changed(s) : s \in RegulatorState} \cup {Failure, FailureDisable}
  BY DEF Sent
<1> HIDE DEF Changed, Failure, FailureDisable, Event
<1> QED BY <1>1, <1>2, <1>3

(* An element in front of a list. *)
LEMMA ConsHeadTail ==
  ASSUME NEW S, NEW x \in S, NEW q \in Seq(S)
  PROVE  <<x>> \o q # <<>> /\ Head(<<x>> \o q) = x /\ Tail(<<x>> \o q) = q
<1> DEFINE r == <<x>> \o q
<1>1. /\ r \in Seq(S) /\ Len(r) = Len(q) + 1 /\ Len(q) \in Nat /\ r[1] = x
      /\ \A i \in 1 .. Len(q) : r[i + 1] = q[i]
  <2>1. <<x>> \in Seq(S) /\ Len(<<x>>) = 1 /\ <<x>>[1] = x
    OBVIOUS
  <2> QED BY <2>1
<1> HIDE DEF r
<1>2. r # <<>> /\ Head(r) = x
  BY <1>1
<1> DEFINE p == Tail(r)
<1>3. /\ p \in Seq(S) /\ Len(p) = Len(q)
      /\ \A i \in 1 .. Len(p) : p[i] = r[i + 1]
  BY <1>1, <1>2
<1> HIDE DEF p
<1>4. p = q
  BY <1>1, <1>3, SeqEqual
<1> QED BY <1>2, <1>4 DEF p, r

(* A thread that goes on: what it comes to, and what follows. *)
LEMMA Proceeds ==
  ASSUME Handlers, NEW t \in Threads, run[t] # <<>>
  PROVE  /\ Continue(t, <<>>) => run'[t] = Tail(run[t])
         /\ \A x \in Step : Continue(t, <<x>>) =>
              run'[t] # <<>> /\ Head(run'[t]) = x /\ Tail(run'[t]) = Tail(run[t])
         /\ \A x, y, z \in Step : Continue(t, <<x, y, z>>) /\ Tail(run[t]) = <<>> =>
              run'[t] # <<>> /\ Head(run'[t]) = x /\ Tail(run'[t]) = <<y, z>>
<1>1. Tail(run[t]) \in Seq(Step) /\ t \in DOMAIN run
  BY Known DEF Handlers, Rest
<1>2. CASE Continue(t, <<>>)
  <2>1. <<>> \o Tail(run[t]) = Tail(run[t])
    BY <1>1
  <2> QED BY <1>1, <1>2, <2>1 DEF Continue
<1>3. ASSUME NEW x \in Step, Continue(t, <<x>>)
      PROVE  run'[t] # <<>> /\ Head(run'[t]) = x /\ Tail(run'[t]) = Tail(run[t])
  <2> DEFINE q == Tail(run[t])
  <2>1. q \in Seq(Step) /\ run'[t] = <<x>> \o q
    BY <1>1, <1>3 DEF Continue
  <2> HIDE DEF q
  <2>2. <<x>> \in Seq(Step) /\ Len(<<x>>) = 1 /\ <<x>>[1] = x
    OBVIOUS
  <2>3. LET r == <<x>> \o q IN r # <<>> /\ Head(r) = x /\ Tail(r) = q
    BY <2>1, <2>2, ConsHeadTail
  <2> QED BY <2>1, <2>3 DEF q
<1>4. ASSUME NEW x \in Step, NEW y \in Step, NEW z \in Step,
             Continue(t, <<x, y, z>>), Tail(run[t]) = <<>>
      PROVE  run'[t] # <<>> /\ Head(run'[t]) = x /\ Tail(run'[t]) = <<y, z>>
  <2>1. run'[t] = <<x, y, z>> \o <<>>
    BY <1>1, <1>4 DEF Continue
  <2> QED BY <2>1, ShortHandlers
<1> QED BY <1>2, <1>3, <1>4

(* What follows an instruction is again of one of the forms. *)
LEMMA OutFormTail ==
  ASSUME NEW r, OutForm(r), r # <<>>, Head(r) \in Step
  PROVE  OutForm(Tail(r))
<1>1. /\ OutForm(<<>>)
      /\ OutForm(<<ConfirmStatus>>)
  BY ShortHandlers DEF OutForm, ConfirmStatus
<1>2. ASSUME NEW s \in RegulatorState
      PROVE  OutForm(<<StartTimer(s)>>)
  BY ShortHandlers DEF OutForm, StartTimer
<1>3. ASSUME NEW s \in RegulatorState
      PROVE  OutForm(<<SetPending, StartTimer(s)>>)
  <2>1. LET q == <<SetPending, StartTimer(s)>>
        IN Head(q).op = "SetPending" /\ Tail(q) = <<StartTimer(s)>>
    BY ShortHandlers DEF SetPending
  <2> QED BY <2>1 DEF OutForm
<1>4. ASSUME NEW e \in Sent
      PROVE  OutForm(<<HandleEvent(e)>>)
  BY <1>4, ShortHandlers DEF OutForm, HandleEvent
<1>5. Head(r).op \in WriteOps => Head(r).state \in RegulatorState
  BY Operands
<1>6. \/ Tail(r) = <<>> \/ Tail(r) = <<ConfirmStatus>>
      \/ \E s \in RegulatorState : Tail(r) = <<StartTimer(s)>>
      \/ \E s \in RegulatorState : Tail(r) = <<SetPending, StartTimer(s)>>
      \/ \E e \in Sent : Tail(r) = <<HandleEvent(e)>>
  BY <1>5, Zenon DEF OutForm
<1> QED BY <1>1, <1>2, <1>3, <1>4, <1>6, Zenon

(* ... and so is what follows an instruction of io. *)
LEMMA IoFormTail ==
  ASSUME NEW r, IoForm(r), r # <<>>
  PROVE  IoForm(Tail(r))
<1>1. IoForm(<<>>)
  BY DEF IoForm
<1>2. ASSUME NEW v \in {0, 1}
      PROVE  IoForm(<<SetEnabled(v)>>)
  BY ShortHandlers DEF IoForm, SetEnabled
<1>3. Tail(r) = <<>> \/ \E v \in {0, 1} : Tail(r) = <<SetEnabled(v)>>
  BY DEF IoForm
<1> QED BY <1>1, <1>2, <1>3, Zenon

(* Handlers of the queues have one of the forms. *)
LEMMA PostedForms ==
  /\ \A h \in OutHandlers : OutForm(h) /\ h # <<>>
  /\ \A h \in IoHandlers : IoForm(h) /\ h # <<>>
<1>1. OutForm(<<Apply>>) /\ <<Apply>> # <<>>
  BY ShortHandlers DEF OutForm, Apply
<1>2. OutForm(Timer) /\ Timer # <<>>
  <2>1. Head(Timer).op = "ReadStatus" /\ Tail(Timer) = <<ConfirmStatus>> /\ Timer # <<>>
    BY ShortHandlers DEF Timer, ReadStatus
  <2> QED BY <2>1 DEF OutForm
<1>3. ASSUME NEW s \in Shown
      PROVE  IoForm(<<SetSignals(s)>>) /\ <<SetSignals(s)>> # <<>>
  BY ShortHandlers DEF IoForm, SetSignals
<1>4. ASSUME NEW v \in {0, 1}
      PROVE  /\ IoForm(<<SetEnabled(v)>>) /\ <<SetEnabled(v)>> # <<>>
             /\ IoForm(<<CheckStatus, SetEnabled(v)>>) /\ <<CheckStatus, SetEnabled(v)>> # <<>>
  <2>1. /\ Head(<<SetEnabled(v)>>).op = "SetEnabled" /\ Tail(<<SetEnabled(v)>>) = <<>>
        /\ Head(<<CheckStatus, SetEnabled(v)>>).op = "CheckStatus"
        /\ Tail(<<CheckStatus, SetEnabled(v)>>) = <<SetEnabled(v)>>
        /\ <<SetEnabled(v)>> # <<>> /\ <<CheckStatus, SetEnabled(v)>> # <<>>
    BY ShortHandlers DEF SetEnabled, CheckStatus
  <2> QED BY <2>1 DEF IoForm
<1>5. /\ IoForm(<<CheckLater(0)>>) /\ <<CheckLater(0)>> # <<>>
      /\ IoForm(<<CheckStatus>>) /\ <<CheckStatus>> # <<>>
      /\ IoForm(<<ReadStatus>>) /\ <<ReadStatus>> # <<>>
  BY ShortHandlers DEF IoForm, CheckLater, CheckStatus, ReadStatus
<1>6. \A h \in IoHandlers :
        \/ h \in {<<CheckLater(0)>>, <<CheckStatus>>, <<ReadStatus>>}
        \/ \E s \in Shown : h = <<SetSignals(s)>>
        \/ \E v \in {0, 1} : h \in {<<SetEnabled(v)>>, <<CheckStatus, SetEnabled(v)>>}
  BY DEF IoHandlers, Shows
<1> QED BY <1>1, <1>2, <1>3, <1>4, <1>5, <1>6, Zenon DEF OutHandlers

(* A thread has done an instruction. *)
LEMMA FormsEnd ==
  ASSUME Handlers, Forms, NEW t \in Threads, run[t] # <<>>, Continue(t, <<>>)
  PROVE  OutForm(run'["output"]) /\ IoForm(run'["io"])
<1>1. run'[t] = Tail(run[t]) /\ Head(run[t]) \in Step
  BY Proceeds DEF Handlers
<1>2. \A u \in Threads : u # t => run'[u] = run[u]
  BY DEF Continue, Handlers
<1>3. CASE t = "output"
  BY <1>1, <1>2, <1>3, OutFormTail DEF Forms, Out, Io, Threads
<1>4. CASE t = "io"
  BY <1>1, <1>2, <1>4, IoFormTail DEF Forms, Out, Io, Threads
<1> QED BY <1>3, <1>4 DEF Threads

(* It comes to an instruction that takes the place of the last one. *)
LEMMA FormsMove ==
  ASSUME Handlers, Forms, NEW t \in Threads, run[t] # <<>>,
         NEW x \in Step, Continue(t, <<x>>),
         t = "io" => x.op \in StatusOps \cup {"CompareStatus"},
         t = "output" =>
           \/ /\ Head(run[t]).op \in StatusOps \cup {"ReadStatus"} /\ x.op \in StatusOps
              /\ Tail(run[t]) = <<ConfirmStatus>> \/ x.status = "error"
           \/ {Head(run[t]).op, x.op} \subseteq WriteOps /\ x.state = Head(run[t]).state
           \/ Head(run[t]).op = "ConfirmStatus" /\ x = ApplyStatus("error")
  PROVE  OutForm(run'["output"]) /\ IoForm(run'["io"])
<1>1. /\ run'[t] # <<>> /\ Head(run'[t]) = x /\ Tail(run'[t]) = Tail(run[t])
      /\ Head(run[t]) \in Step
  BY Proceeds DEF Handlers
<1>2. \A u \in Threads : u # t => run'[u] = run[u]
  BY DEF Continue, Handlers
<1>3. CASE t = "output"
  <2>1. IoForm(run'["io"])
    BY <1>2, <1>3 DEF Forms, Io, Threads
  <2> DEFINE r == run["output"]
             b == Tail(r)
  <2>2. r # <<>> /\ OutForm(r)
    BY <1>3 DEF Forms, Out
  <2>3. /\ run'["output"] # <<>> /\ Head(run'["output"]) = x /\ Tail(run'["output"]) = b
    BY <1>1, <1>3
  <2>4. CASE /\ Head(r).op \in StatusOps \cup {"ReadStatus"} /\ x.op \in StatusOps
             /\ Tail(r) = <<ConfirmStatus>> \/ x.status = "error"
    <3>1. \/ b = <<ConfirmStatus>>
          \/ x.status = "error" /\ (b = <<>> \/ \E e \in Sent : b = <<HandleEvent(e)>>)
      BY <2>2, <2>4, Zenon DEF OutForm, StatusOps, WriteOps
    <3> QED BY <2>1, <2>3, <2>4, <3>1, Zenon DEF OutForm
  <2>5. CASE {Head(r).op, x.op} \subseteq WriteOps /\ x.state = Head(r).state
    <3>1. b = <<SetPending, StartTimer(x.state)>>
      BY <2>2, <2>5, Zenon DEF OutForm, StatusOps, WriteOps
    <3> QED BY <2>1, <2>3, <2>5, <3>1, Zenon DEF OutForm
  <2>6. CASE Head(r).op = "ConfirmStatus" /\ x = ApplyStatus("error")
    <3>1. x.op = "ApplyStatus" /\ x.status = "error"
      BY <2>6 DEF ApplyStatus
    <3>2. b = <<>>
      BY <2>2, <2>6, Zenon DEF OutForm, StatusOps, WriteOps
    <3> QED BY <2>1, <2>3, <3>1, <3>2 DEF OutForm, StatusOps
  <2> QED BY <1>3, <2>1, <2>4, <2>5, <2>6
<1>4. CASE t = "io"
  <2>1. run'["output"] = run["output"] /\ OutForm(run["output"]) /\ IoForm(run["io"])
    BY <1>2, <1>4 DEF Forms, Out, Io, Threads
  <2>2. IoForm(run'["io"])
    BY <1>1, <1>4, <2>1 DEF IoForm, StatusOps
  <2> QED BY <2>1, <2>2
<1> QED BY <1>3, <1>4 DEF Threads

Queues == queue["output"] \in Seq(OutHandlers) /\ queue["io"] \in Seq(IoHandlers)

(* A handler is posted to a thread that knows it. *)
LEMMA FormsPost ==
  ASSUME Handlers, Queues, NEW t \in Threads, NEW h, Post(t, h),
         t = "io" => h \in IoHandlers, t = "output" => h \in OutHandlers
  PROVE  /\ Queues'
         /\ t = "io" => /\ queue'["io"] = Append(queue["io"], h)
                        /\ queue'["output"] = queue["output"]
         /\ t = "output" => /\ queue'["output"] = Append(queue["output"], h)
                            /\ queue'["io"] = queue["io"]
<1>1. queue' = [queue EXCEPT ![t] = Append(queue[t], h)]
  BY DEF Post
<1>2. CASE t = "io"
  <2>1. queue'["io"] = Append(queue["io"], h) /\ queue'["output"] = queue["output"]
    BY <1>1, <1>2 DEF Handlers, Threads
  <2> QED BY <1>2, <2>1 DEF Queues
<1>3. CASE t = "output"
  <2>1. queue'["output"] = Append(queue["output"], h) /\ queue'["io"] = queue["io"]
    BY <1>1, <1>3 DEF Handlers, Threads
  <2> QED BY <1>3, <2>1 DEF Queues
<1> QED BY <1>2, <1>3 DEF Threads

(* A handler is posted to the output thread. *)
LEMMA Posted ==
  ASSUME Handlers, Queues, NEW h \in OutHandlers, Post("output", h)
  PROVE  /\ queue'["output"] = Append(queue["output"], h)
         /\ queue'["io"] = queue["io"]
         /\ ToSet(queue'["output"]) = ToSet(queue["output"]) \cup {h}
<1>1. queue'["output"] = Append(queue["output"], h) /\ queue'["io"] = queue["io"]
  BY FormsPost DEF Threads
<1> QED BY <1>1, ToSetAppend DEF Queues

(* Apply and the timer differ. *)
LEMMA TwoHandlers == <<Apply>> # Timer
<1>1. Tail(<<Apply>>) = <<>> /\ Tail(Timer) # <<>>
  BY ShortHandlers DEF Timer
<1> QED BY <1>1

(* The handlers that the code posts are those that the threads know. *)
LEMMA KnownHandlers ==
  /\ <<Apply>> \in OutHandlers /\ Timer \in OutHandlers
  /\ \A v \in {0, 1} : {<<SetEnabled(v)>>, <<CheckStatus, SetEnabled(v)>>} \subseteq IoHandlers
  /\ {<<CheckLater(0)>>, <<CheckStatus>>, <<ReadStatus>>} \subseteq IoHandlers
  /\ \A s \in Shown : <<SetSignals(s)>> \in IoHandlers
BY Zenon DEF OutHandlers, IoHandlers, Shows

(* A thread takes a handler of its queue. *)
LEMMA FormsTake ==
  ASSUME Handlers, Forms, NEW t \in Threads, TakeHandler(t)
  PROVE  Queues' /\ OutForm(run'["output"]) /\ IoForm(run'["io"])
<1>1. /\ run[t] = <<>> /\ queue[t] # <<>>
      /\ run'[t] = Head(queue[t]) /\ queue'[t] = Tail(queue[t])
      /\ run'[Other(t)] = run[Other(t)] /\ queue'[Other(t)] = queue[Other(t)]
  BY Takes
<1>2. CASE t = "io"
  <2>1. Head(queue["io"]) \in IoHandlers /\ Tail(queue["io"]) \in Seq(IoHandlers)
    BY <1>1, <1>2 DEF Forms
  <2> QED BY <1>1, <1>2, <2>1, PostedForms DEF Forms, Queues, Other, Out, Io
<1>3. CASE t = "output"
  <2>1. Head(queue["output"]) \in OutHandlers /\ Tail(queue["output"]) \in Seq(OutHandlers)
    BY <1>1, <1>3 DEF Forms
  <2> QED BY <1>1, <1>3, <2>1, PostedForms DEF Forms, Queues, Other, Out, Io
<1> QED BY <1>2, <1>3 DEF Threads

(* The forms are kept by the steps that do an instruction of Apply. *)
LEMMA FormsApply ==
  ASSUME Inv, Forms, RunApply \/ Writing \/ ReadingBack \/ RunSetPending \/ RunStartTimer
  PROVE  Forms'
<1>1. Handlers /\ Simple /\ "output" \in Threads /\ "io" \in Threads /\ Queues
  BY DEF Inv, Types, Threads, Forms, Queues
<1>2. CASE RunApply
  <2>1. run["output"] # <<>> /\ Head(run["output"]).op = "Apply"
        /\ UNCHANGED <<queue, netlink>>
    BY <1>2 DEF RunApply, At, outside
  <2>2. CASE Continue("output", <<>>)
    <3>1. OutForm(run'["output"]) /\ IoForm(run'["io"])
      BY <1>1, <2>1, <2>2, FormsEnd
    <3> QED BY <2>1, <3>1 DEF Forms, Out, Io
  <2>3. ASSUME NEW s \in RegulatorState,
               Continue("output", <<SetState(s), SetPending, StartTimer(s)>>)
        PROVE  Forms'
    <3>1. {SetState(s), SetPending, StartTimer(s)} \subseteq Step
      BY Known
    <3>2. Tail(run["output"]) = <<>>
      BY <2>1, Zenon DEF Forms, OutForm, Out, StatusOps, WriteOps
    <3>3. /\ run'["output"] # <<>> /\ Head(run'["output"]) = SetState(s)
          /\ Tail(run'["output"]) = <<SetPending, StartTimer(s)>>
      BY <1>1, <2>1, <2>3, <3>1, <3>2, Proceeds
    <3>4. Head(run'["output"]).op \in WriteOps /\ s = Head(run'["output"]).state
      BY <3>3 DEF SetState, WriteOps
    <3>5. OutForm(run'["output"])
      BY <3>3, <3>4, Zenon DEF OutForm
    <3>6. run'["io"] = run["io"]
      BY <2>3 DEF Continue
    <3> QED BY <2>1, <3>5, <3>6 DEF Forms, Out, Io
  <2> QED BY <1>2, <2>2, <2>3 DEF RunApply, RegulatorState
<1>3. CASE Writing \/ ReadingBack
  <2> DEFINE s == Head(run["output"]).state
  <2>1. /\ run["output"] # <<>> /\ Head(run["output"]).op \in WriteOps
        /\ netlink' \in {netlink, Append(netlink, Changed(s))} /\ UNCHANGED queue
        /\ \/ Continue("output", <<>>)
           \/ \E x \in {ReadState(s), ReadStateAgain(s), SetStateAgain(s)} :
                Continue("output", <<x>>)
    BY <1>3 DEF Writing, ReadingBack, RunSetState, RunSetStateAgain, RunReadState,
                RunReadStateAgain, WriteState, WriteOps, At
  <2>2. s \in RegulatorState
    BY <1>1, <2>1, Operands DEF Handlers
  <2>3. OutForm(run'["output"]) /\ IoForm(run'["io"])
    <3>1. CASE Continue("output", <<>>)
      BY <1>1, <2>1, <3>1, FormsEnd
    <3>2. ASSUME NEW x \in {ReadState(s), ReadStateAgain(s), SetStateAgain(s)},
                 Continue("output", <<x>>)
          PROVE  OutForm(run'["output"]) /\ IoForm(run'["io"])
      <4>1. x \in Step
        BY <2>2, Known
      <4>2. x.op \in WriteOps /\ x.state = s
        BY DEF ReadState, ReadStateAgain, SetStateAgain, WriteOps
      <4> QED BY <1>1, <2>1, <3>2, <4>1, <4>2, FormsMove
    <3> QED BY <2>1, <3>1, <3>2
  <2> HIDE DEF s
  <2>4. netlink' \in Seq(Sent)
    <3>1. netlink \in Seq(Sent) /\ Changed(s) \in Sent
      BY <2>2, SentEvents DEF Forms
    <3>2. netlink' = netlink \/ netlink' = Append(netlink, Changed(s))
      BY <2>1
    <3> QED BY <3>1, <3>2
  <2> QED BY <2>1, <2>3, <2>4 DEF Forms, Out, Io
<1>4. CASE RunSetPending
  <2>1. run["output"] # <<>> /\ Continue("output", <<>>) /\ UNCHANGED <<queue, netlink>>
    BY <1>4 DEF RunSetPending, At, outside
  <2>2. OutForm(run'["output"]) /\ IoForm(run'["io"])
    BY <1>1, <2>1, FormsEnd
  <2> QED BY <2>1, <2>2 DEF Forms, Out, Io
<1>5. CASE RunStartTimer
  <2>1. run["output"] # <<>> /\ Continue("output", <<>>) /\ UNCHANGED netlink
    BY <1>5 DEF RunStartTimer, At, outside
  <2>2. OutForm(run'["output"]) /\ IoForm(run'["io"])
    BY <1>1, <2>1, FormsEnd
  <2>3. PICK v \in {0, 1} : Post("io", <<SetEnabled(v)>>)
    BY <1>5 DEF RunStartTimer
  <2>4. Queues'
    BY <1>1, <2>3, KnownHandlers, FormsPost
  <2> QED BY <2>1, <2>2, <2>4 DEF Forms, Out, Io, Queues
<1> QED BY <1>2, <1>3, <1>4, <1>5

(* What has been shown of the steps that read or apply a status. *)
LEMMA FormsStatus ==
  ASSUME Inv, Forms, NEW t \in Threads,
         RunApplyStatus(t) \/ RunCommit(t) \/ RunReport(t) \/ RunReadStatus(t)
  PROVE  Forms'
<1>1. Handlers /\ Simple /\ "output" \in Threads /\ "io" \in Threads /\ Queues
      /\ Types
  BY DEF Inv, Types, Threads, Forms, Queues
<1>2. UNCHANGED netlink /\ run[t] # <<>> /\ Head(run[t]) \in Step
  BY <1>1 DEF RunApplyStatus, RunCommit, RunReport, RunReadStatus, At, outside, Handlers
<1>3. t = "output" =>
        /\ Head(run[t]).op = "ReadStatus" => Tail(run[t]) = <<ConfirmStatus>>
        /\ Head(run[t]).op \in StatusOps =>
             Tail(run[t]) = <<ConfirmStatus>> \/ Head(run[t]).status = "error"
  <2>1. SUFFICES ASSUME t = "output" PROVE
        /\ Head(run[t]).op = "ReadStatus" => Tail(run[t]) = <<ConfirmStatus>>
        /\ Head(run[t]).op \in StatusOps =>
             Tail(run[t]) = <<ConfirmStatus>> \/ Head(run[t]).status = "error"
    OBVIOUS
  <2>2. OutForm(run[t]) /\ run[t] # <<>> /\ (run[t] # <<>> => Head(run[t]) \in Step)
    BY <1>2, <2>1 DEF Forms, Out
  <2> QED BY <2>2, OutTable
<1>4. CASE RunApplyStatus(t)
  <2> DEFINE status == Effective(Head(run[t]).status)
             x == Commit(status, Done(status))
  <2>1. /\ Head(run[t]).op = "ApplyStatus" /\ UNCHANGED queue
        /\ Continue(t, <<>>) \/ Continue(t, <<x>>)
    BY <1>4 DEF RunApplyStatus, At
  <2>2. Head(run[t]).status \in Decoded
    BY <1>2, <2>1, Operands
  <2>3. status \in Shown /\ Done(status) \in BOOLEAN
        /\ (Head(run[t]).status = "error" => status = "error")
    BY <1>1, <2>2, EffectiveIsShown DEF Done, Simple, Effective
  <2>4. x \in Step /\ x.op = "Commit" /\ x.status = status
    BY <2>3, Known DEF Commit
  <2> HIDE DEF status, x
  <2>5. OutForm(run'["output"]) /\ IoForm(run'["io"])
    <3>1. CASE Continue(t, <<>>)
      BY <1>1, <1>2, <3>1, FormsEnd
    <3>2. CASE Continue(t, <<x>>)
      <4>1. x.op \in StatusOps /\ Head(run[t]).op \in StatusOps
        BY <2>1, <2>4 DEF StatusOps
      <4>2. t = "output" => Tail(run[t]) = <<ConfirmStatus>> \/ x.status = "error"
        BY <1>3, <2>1, <2>3, <2>4, <4>1
      <4> QED BY <1>1, <1>2, <2>4, <3>2, <4>1, <4>2, FormsMove
    <3> QED BY <2>1, <3>1, <3>2
  <2> QED BY <1>2, <2>1, <2>5 DEF Forms, Out, Io
<1>5. CASE RunCommit(t)
  <2> DEFINE x == Report(Head(run[t]).status)
  <2>1. Head(run[t]).op = "Commit" /\ UNCHANGED queue /\ Continue(t, <<x>>)
    BY <1>5 DEF RunCommit, At
  <2>2. x \in Step /\ x.op = "Report" /\ x.status = Head(run[t]).status
    BY <1>2, <2>1, SpecialForms, Known DEF Report
  <2> HIDE DEF x
  <2>3. x.op \in StatusOps /\ Head(run[t]).op \in StatusOps
    BY <2>1, <2>2 DEF StatusOps
  <2>4. t = "output" => Tail(run[t]) = <<ConfirmStatus>> \/ x.status = "error"
    BY <1>3, <2>2, <2>3
  <2>5. OutForm(run'["output"]) /\ IoForm(run'["io"])
    BY <1>1, <1>2, <2>1, <2>2, <2>3, <2>4, FormsMove
  <2> QED BY <1>2, <2>1, <2>5 DEF Forms, Out, Io
<1>6. CASE RunReport(t)
  <2> DEFINE h == <<SetSignals(Head(run[t]).status)>>
  <2>1. Head(run[t]).op = "Report" /\ Post("io", h) /\ Continue(t, <<>>)
    BY <1>6 DEF RunReport, At
  <2>2. h \in IoHandlers
    BY <1>2, <2>1, SpecialForms, KnownHandlers
  <2> HIDE DEF h
  <2>3. Queues'
    BY <1>1, <2>1, <2>2, FormsPost
  <2>4. OutForm(run'["output"]) /\ IoForm(run'["io"])
    BY <1>1, <1>2, <2>1, FormsEnd
  <2> QED BY <1>2, <2>3, <2>4 DEF Forms, Out, Io, Queues
<1>7. CASE RunReadStatus(t)
  <2>1. PICK status \in RegulatorStatus :
           Reads(status) /\ Continue(t, <<ApplyStatus(status)>>)
    BY <1>7 DEF RunReadStatus
  <2>2. Head(run[t]).op = "ReadStatus" /\ UNCHANGED queue
    BY <1>7 DEF RunReadStatus, At
  <2>3. status \in Decoded
    BY <1>1, <2>1, StatusIsDecoded
  <2> DEFINE x == ApplyStatus(status)
  <2>4. x \in Step /\ x.op \in StatusOps
    <3>1. x \in Step
      BY <2>3, Known
    <3>2. x.op = "ApplyStatus"
      BY DEF ApplyStatus
    <3> QED BY <3>1, <3>2 DEF StatusOps
  <2>5. Continue(t, <<x>>)
    BY <2>1
  <2> HIDE DEF x
  <2>6. OutForm(run'["output"]) /\ IoForm(run'["io"])
    BY <1>1, <1>2, <1>3, <2>2, <2>4, <2>5, FormsMove
  <2> QED BY <1>2, <2>2, <2>6 DEF Forms, Out, Io
<1> QED BY <1>4, <1>5, <1>6, <1>7

(* The forms are kept by the steps that only io takes. *)
LEMMA FormsIo ==
  ASSUME Inv, Forms, RunCheckLater \/ RunCheckStatus \/ RunCompareStatus
                       \/ RunSetEnabled \/ RunSetSignals
  PROVE  Forms'
<1>1. Handlers /\ Simple /\ "output" \in Threads /\ "io" \in Threads /\ Queues
  BY DEF Inv, Types, Threads, Forms, Queues
<1>2. UNCHANGED netlink /\ run["io"] # <<>> /\ Head(run["io"]) \in Step
  BY <1>1 DEF RunCheckLater, RunCheckStatus, RunCompareStatus, RunSetEnabled,
              RunSetSignals, At, outside, Handlers
<1>3. Continue("io", <<>>) => OutForm(run'["output"]) /\ IoForm(run'["io"])
  BY <1>1, <1>2, FormsEnd
<1>4. CASE RunCheckLater
  <2>1. /\ Head(run["io"]).op = "CheckLater" /\ Continue("io", <<>>)
        /\ queue' = [queue EXCEPT !["io"] =
             queue["io"] \o <<<<CheckStatus>>, <<SetEnabled(Head(run["io"]).value)>>>>]
    BY <1>4 DEF RunCheckLater, At
  <2>2. Head(run["io"]).value \in {0, 1}
    BY <1>2, <2>1, Operands
  <2> DEFINE h == <<SetEnabled(Head(run["io"]).value)>>
             g == <<CheckStatus>>
  <2>3. g \in IoHandlers /\ h \in IoHandlers
    BY <2>2, KnownHandlers
  <2> HIDE DEF g, h
  <2>4. queue["io"] \o <<g, h>> \in Seq(IoHandlers)
    BY <1>1, <2>3 DEF Queues
  <2>5. /\ queue'["io"] = queue["io"] \o <<g, h>>
        /\ queue'["output"] = queue["output"]
    BY <1>1, <2>1 DEF Handlers, g, h
  <2> QED BY <1>1, <1>2, <1>3, <2>1, <2>4, <2>5 DEF Forms, Out, Io, Queues
<1>5. CASE RunCheckStatus
  <2>1. PICK status \in RegulatorStatus :
           Reads(status) /\ Continue("io", <<CompareStatus(status)>>)
    BY <1>5 DEF RunCheckStatus
  <2>2. status \in Decoded /\ UNCHANGED queue
    BY <1>1, <1>5, <2>1, StatusIsDecoded DEF RunCheckStatus
  <2> DEFINE x == CompareStatus(status)
  <2>3. x \in Step /\ x.op = "CompareStatus" /\ Continue("io", <<x>>)
    <3>1. x \in Step
      BY <2>2, Known
    <3> QED BY <2>1, <3>1 DEF CompareStatus
  <2> HIDE DEF x
  <2>4. OutForm(run'["output"]) /\ IoForm(run'["io"])
    BY <1>1, <1>2, <2>3, FormsMove
  <2> QED BY <1>2, <2>2, <2>4 DEF Forms, Out, Io
<1>6. CASE RunCompareStatus
  <2> DEFINE x == ApplyStatus(Head(run["io"]).status)
             h == <<ReadStatus>>
  <2>1. /\ Head(run["io"]).op = "CompareStatus"
        /\ \/ Post("io", h) /\ Continue("io", <<>>)
           \/ Continue("io", <<x>>) /\ UNCHANGED queue
    BY <1>6 DEF RunCompareStatus, At
  <2>2. Head(run["io"]).status \in Decoded
    BY <1>2, <2>1, Operands
  <2>3. x \in Step /\ x.op \in StatusOps
    <3>1. x \in Step
      BY <2>2, Known
    <3>2. x.op = "ApplyStatus"
      BY DEF ApplyStatus
    <3> QED BY <3>1, <3>2 DEF StatusOps
  <2>4. h \in IoHandlers
    BY KnownHandlers
  <2> HIDE DEF x, h
  <2>5. CASE Post("io", h) /\ Continue("io", <<>>)
    <3>1. Queues'
      BY <1>1, <2>4, <2>5, FormsPost
    <3> QED BY <1>2, <1>3, <2>5, <3>1 DEF Forms, Out, Io, Queues
  <2>6. CASE Continue("io", <<x>>) /\ UNCHANGED queue
    <3>1. OutForm(run'["output"]) /\ IoForm(run'["io"])
      BY <1>1, <1>2, <2>3, <2>6, FormsMove
    <3> QED BY <1>2, <2>6, <3>1 DEF Forms, Out, Io
  <2> QED BY <2>1, <2>5, <2>6
<1>7. CASE RunSetEnabled \/ RunSetSignals
  <2>1. Continue("io", <<>>) /\ UNCHANGED queue
    BY <1>7 DEF RunSetEnabled, RunSetSignals
  <2> QED BY <1>2, <1>3, <2>1 DEF Forms, Out, Io
<1> QED BY <1>4, <1>5, <1>6, <1>7

(* They are kept when the output thread confirms a change or handles an event. *)
LEMMA FormsEvents ==
  ASSUME Inv, Forms, RunConfirmStatus \/ RunHandleEvent
  PROVE  Forms'
<1>1. Handlers /\ Simple /\ "output" \in Threads /\ "io" \in Threads /\ Queues
  BY DEF Inv, Types, Threads, Forms, Queues
<1>2. UNCHANGED netlink /\ run["output"] # <<>> /\ Head(run["output"]) \in Step
  BY <1>1 DEF RunConfirmStatus, RunHandleEvent, At, outside, Handlers
<1>3. Continue("output", <<>>) => OutForm(run'["output"]) /\ IoForm(run'["io"])
  BY <1>1, <1>2, FormsEnd
<1>4. CASE RunConfirmStatus
  <2> DEFINE x == ApplyStatus("error")
  <2>1. /\ Head(run["output"]).op = "ConfirmStatus" /\ UNCHANGED queue
        /\ Continue("output", <<>>) \/ Continue("output", <<x>>)
    BY <1>4 DEF RunConfirmStatus, At
  <2>2. x \in Step
    BY Known DEF Decoded
  <2>3. x = ApplyStatus("error")
    OBVIOUS
  <2> HIDE DEF x
  <2>4. Continue("output", <<x>>) => OutForm(run'["output"]) /\ IoForm(run'["io"])
    BY <1>1, <1>2, <2>1, <2>2, <2>3, FormsMove
  <2> QED BY <1>2, <1>3, <2>1, <2>4 DEF Forms, Out, Io
<1>5. CASE RunHandleEvent
  <2> DEFINE e == Head(run["output"]).event
             v == IF e.change = "enable" THEN 1 ELSE 0
             h == IF e.failure THEN <<CheckLater(v)>> ELSE <<CheckStatus, SetEnabled(v)>>
  <2>1. Post("io", h) /\ Continue("output", <<>>) /\ Head(run["output"]).op = "HandleEvent"
    BY <1>5 DEF RunHandleEvent, At
  <2>2. e \in Sent
    BY <1>2, <2>1, Zenon DEF Forms, OutForm, Out, StatusOps, WriteOps
  <2>3. h \in IoHandlers
    <3>1. CASE e.failure
      <4>1. v = 0
        BY <2>2, <3>1, SentEvents
      <4> QED BY <3>1, <4>1, KnownHandlers
    <3>2. CASE ~e.failure
      BY <3>2, KnownHandlers
    <3> QED BY <3>1, <3>2
  <2> HIDE DEF h
  <2>4. Queues'
    BY <1>1, <2>1, <2>3, FormsPost
  <2> QED BY <1>2, <1>3, <2>1, <2>4 DEF Forms, Out, Io, Queues
<1> QED BY <1>4, <1>5

(* What is left to do of an event: DecodeRegulatorEvent reports an error first. *)
LEMMA EventHandlers ==
  ASSUME NEW e \in Sent,
         NEW r, r = (IF e.failure THEN <<ApplyStatus("error")>> ELSE <<>>)
                      \o (IF e.change # "none" THEN <<HandleEvent(e)>> ELSE <<>>)
  PROVE  /\ e.failure => /\ r # <<>> /\ Head(r) = ApplyStatus("error")
                         /\ Tail(r) = IF e.change = "none" THEN <<>> ELSE <<HandleEvent(e)>>
         /\ ~e.failure => r = <<HandleEvent(e)>>
         /\ OutForm(r)
<1> DEFINE a == ApplyStatus("error")
           b == HandleEvent(e)
<1>1. a.op = "ApplyStatus" /\ a.status = "error" /\ b.op = "HandleEvent" /\ b.event = e
  BY DEF ApplyStatus, HandleEvent
<1>2. ~e.failure => e.change # "none"
  BY DEF Sent, Changed, Failure, FailureDisable
<1>3. \/ e.failure /\ e.change = "none" /\ r = <<a>> \o <<>>
      \/ e.failure /\ e.change # "none" /\ r = <<a>> \o <<b>>
      \/ ~e.failure /\ r = <<>> \o <<b>>
  BY <1>2
<1> HIDE DEF a, b
<1>4. /\ <<a>> \o <<>> = <<a>>
      /\ <<a>> \o <<b>> = <<a, b>>
      /\ <<>> \o <<b>> = <<b>>
  <2> DEFINE S == {a, b}
  <2>1. <<a>> \in Seq(S) /\ <<b>> \in Seq(S)
    OBVIOUS
  <2>2. \A q \in Seq(S) : q \o <<>> = q /\ <<>> \o q = q
    OBVIOUS
  <2>3. <<a>> \o <<>> = <<a>> /\ <<>> \o <<b>> = <<b>>
    BY <2>1, <2>2
  <2>4. <<a>> \o <<b>> = <<a, b>>
    BY ConcatSingles
  <2> QED BY <2>3, <2>4
<1>5. /\ e.failure => /\ r # <<>> /\ Head(r) = a
                      /\ Tail(r) = IF e.change = "none" THEN <<>> ELSE <<b>>
      /\ ~e.failure => r = <<b>>
  <2>1. /\ <<a>> # <<>> /\ Head(<<a>>) = a /\ Tail(<<a>>) = <<>>
        /\ <<a, b>> # <<>> /\ Head(<<a, b>>) = a /\ Tail(<<a, b>>) = <<b>>
    BY ShortHandlers
  <2>2. CASE e.failure /\ e.change = "none"
    <3>1. r = <<a>>
      BY <1>3, <1>4, <2>2
    <3> QED BY <2>1, <2>2, <3>1
  <2>3. CASE e.failure /\ e.change # "none"
    <3>1. r = <<a, b>>
      BY <1>3, <1>4, <2>3
    <3> QED BY <2>1, <2>3, <3>1
  <2>4. CASE ~e.failure
    <3>1. r = <<b>>
      BY <1>3, <1>4, <2>4
    <3> QED BY <2>4, <3>1
  <2> QED BY <2>2, <2>3, <2>4
<1>6. OutForm(r)
  <2>1. CASE e.failure
    <3>1. r # <<>> /\ Head(r).op \in StatusOps /\ Head(r).status = "error"
      BY <1>1, <1>5, <2>1 DEF StatusOps
    <3>2. Tail(r) = <<>> \/ Tail(r) = <<HandleEvent(e)>>
      BY <1>5, <2>1 DEF b
    <3> QED BY <3>1, <3>2, Zenon DEF OutForm
  <2>2. CASE ~e.failure
    <3>1. r # <<>> /\ Head(r) = b /\ Tail(r) = <<>>
      BY <1>5, <2>2, ShortHandlers
    <3> QED BY <1>1, <3>1 DEF OutForm
  <2> QED BY <2>1, <2>2
<1> QED BY <1>5, <1>6 DEF a, b

(* The forms are kept when a thread takes a handler or receives an event. *)
LEMMA FormsStart ==
  ASSUME Inv, Forms, StartEvent \/ \E t \in Threads : Start(t)
  PROVE  Forms'
<1>1. Handlers /\ Simple /\ "output" \in Threads /\ "io" \in Threads /\ Queues
  BY DEF Inv, Types, Threads, Forms, Queues
<1>2. CASE StartEvent
  <2> DEFINE e == Head(netlink)
             r == (IF e.failure THEN <<ApplyStatus("error")>> ELSE <<>>)
                      \o (IF e.change # "none" THEN <<HandleEvent(e)>> ELSE <<>>)
  <2>1. /\ netlink # <<>> /\ netlink' = Tail(netlink) /\ UNCHANGED queue
        /\ run' = [run EXCEPT !["output"] = r]
    BY <1>2 DEF StartEvent
  <2>2. e \in Sent /\ netlink' \in Seq(Sent)
    BY <2>1 DEF Forms
  <2>3. OutForm(r)
    BY <2>2, EventHandlers
  <2> HIDE DEF r
  <2>4. run'["output"] = r /\ run'["io"] = run["io"]
    BY <1>1, <2>1 DEF Handlers
  <2> QED BY <2>1, <2>2, <2>3, <2>4 DEF Forms, Out, Io
<1>3. ASSUME NEW t \in Threads, Start(t) PROVE Forms'
  <2>1. TakeHandler(t) /\ UNCHANGED netlink
    BY <1>3 DEF Start
  <2>2. Queues' /\ OutForm(run'["output"]) /\ IoForm(run'["io"])
    BY <1>1, <2>1, FormsTake
  <2> QED BY <2>1, <2>2 DEF Forms, Queues, Out, Io
<1> QED BY <1>2, <1>3

(* They are kept by the timer, the netlist and the hardware. *)
LEMMA FormsOutside ==
  ASSUME Inv, Forms,
         \/ Expire \/ Requests \/ Alarm \/ HwSettles \/ HwSwings \/ HwBreaks
         \/ UNCHANGED vars
  PROVE  Forms'
<1>1. Handlers /\ Simple /\ "output" \in Threads /\ "io" \in Threads /\ Queues
  BY DEF Inv, Types, Threads, Forms, Queues
<1>2. CASE Expire
  <2>1. Post("output", Timer) /\ UNCHANGED <<run, netlink>>
    BY <1>2 DEF Expire, outside, Timer
  <2>2. Queues'
    BY <1>1, <2>1, KnownHandlers, FormsPost
  <2> QED BY <2>1, <2>2 DEF Forms, Queues, Out, Io
<1>3. CASE Requests \/ Alarm
  <2>1. /\ Post("output", <<Apply>>) \/ UNCHANGED queue
        /\ UNCHANGED <<run, netlink>>
    BY <1>3 DEF Requests, Request, Alarm, AlarmUpdates, OffAlready, Update
  <2>2. Queues'
    BY <1>1, <2>1, KnownHandlers, FormsPost DEF Queues
  <2> QED BY <2>1, <2>2 DEF Forms, Queues, Out, Io
<1>4. CASE HwSettles \/ HwSwings \/ HwBreaks
  <2>1. UNCHANGED <<run, queue>>
    BY <1>4 DEF HwSettles, HwSwings, HwBreaks
  <2>2. netlink' = netlink \/ \E e \in Sent : netlink' = Append(netlink, e)
    BY <1>4, SentEvents DEF HwSettles, HwSwings, HwBreaks
  <2>3. netlink' \in Seq(Sent)
    BY <2>2 DEF Forms
  <2> QED BY <2>1, <2>3 DEF Forms, Out, Io
<1>5. CASE UNCHANGED vars
  BY <1>5 DEF vars, outside, Forms, Out, Io
<1> QED BY <1>2, <1>3, <1>4, <1>5

(* The constructor has posted one handler, which sets the signals. *)
LEMMA FormsInit == Init => Forms
<1> SUFFICES ASSUME Init PROVE Forms
  OBVIOUS
<1>1. /\ queue["io"] = <<<<SetSignals(statusShadow)>>>> /\ queue["output"] = <<>>
      /\ run["io"] = <<>> /\ run["output"] = <<>> /\ netlink = <<>>
  BY DEF Init, Threads
<1>2. statusShadow \in Shown
  BY InitInv DEF Inv, Types, Simple
<1>3. <<SetSignals(statusShadow)>> \in IoHandlers
  BY <1>2, KnownHandlers
<1> DEFINE h == <<SetSignals(statusShadow)>>
<1> HIDE DEF h
<1>4. <<h>> \in Seq(IoHandlers)
  BY <1>3 DEF h
<1> QED BY <1>1, <1>4 DEF Forms, Out, Io, OutForm, IoForm, h

(* Every step keeps the forms. *)
LEMMA FormsNext == Inv /\ Forms /\ [Next]_vars => Forms'
<1> SUFFICES ASSUME Inv, Forms, [Next]_vars PROVE Forms'
  OBVIOUS
<1>1. "io" \in Threads /\ "output" \in Threads
  BY DEF Threads
<1>2. CASE IoThread
  BY <1>1, <1>2, FormsStart, FormsStatus, FormsIo DEF IoThread
<1>3. CASE OutputThread
  BY <1>1, <1>3, FormsStart, FormsStatus, FormsApply, FormsEvents
  DEF OutputThread, Writing, ReadingBack
<1>4. CASE \/ Expire \/ Requests \/ Alarm \/ HwSettles \/ HwSwings \/ HwBreaks
           \/ UNCHANGED vars
  BY <1>4, FormsOutside
<1> QED BY <1>2, <1>3, <1>4 DEF Next

(* A thread that runs no handler. *)
LEMMA NoHandler ==
  ASSUME NEW r, r = <<>>
  PROVE  /\ \A s : ~Changing(r, s)
         /\ ~Confirming(r)
         /\ \A op : ~Stands(r, op)
         /\ \A op : \A x : ~With(r, op, x)
         /\ \A x : ~Held(r, x)
BY DEF Changing, Confirming, Stands, With, Held

(* In such a step only io may hold a status, and what it commits was decided. *)
LEMMA IoFramed ==
  ASSUME Simple, Simple', Decides, IoFrame
  PROVE  /\ \A s : ~Changing(Out, s)
         /\ \A s : ~Changing(Out, s)'
         /\ ~Confirming(Out) /\ ~Confirming(Out)'
         /\ \A op : ~Stands(Out, op)
         /\ \A op : ~Stands(Out, op)'
         /\ \A op : \A x : ~With(Out, op, x)
         /\ \A op : \A x : ~With(Out, op, x)'
         /\ \A x : ~Held(Out, x)
         /\ \A x : ~Held(Out, x)'
         /\ ~Changes /\ ~Changes' /\ ~ErrorNext /\ ~ErrorNext'
         /\ \A x : Holds(x)' => Holds(x) \/ x = hw.status \/ x = "invalid"
         /\ \A x : Commits(x) => Holds(x)
         /\ \A x : With(Io, "Commit", x) => Holds(x)
         /\ Decides'
         /\ \/ UNCHANGED <<statusShadow, pendingLevelChange>>
            \/ \E x : /\ With(Io, "Commit", x) /\ Holds(x) /\ statusShadow' = x
                      /\ pendingLevelChange' =
                           (pendingLevelChange /\ x # Goal(pendingNewLevel))
                      /\ x = "error" => ~pendingLevelChange /\ hw.state = "enabled"
                      /\ \A y : ~Holds(y)'
<1>1. /\ \A s : ~Changing(Out, s)
      /\ \A s : ~Changing(Out, s)'
      /\ ~Confirming(Out) /\ ~Confirming(Out)'
      /\ \A op : ~Stands(Out, op)
      /\ \A op : ~Stands(Out, op)'
      /\ \A op : \A x : ~With(Out, op, x)
      /\ \A op : \A x : ~With(Out, op, x)'
      /\ \A x : ~Held(Out, x)
      /\ \A x : ~Held(Out, x)'
  <2>1. Out = <<>> /\ Out' = <<>>
    BY DEF IoFrame
  <2> QED BY <2>1, NoHandler
<1>2. /\ \A x : Holds(x)' => Holds(x) \/ x = hw.status \/ x = "invalid"
      /\ \A x : Commits(x) => Holds(x)
      /\ \A x : With(Io, "Commit", x) => Holds(x)
  BY <1>1 DEF Holds, Commits, IoFrame, Held
<1>3. ~Changes /\ ~Changes' /\ ~ErrorNext /\ ~ErrorNext' /\ Decides'
  BY <1>1 DEF Changes, ErrorNext, Decides, Decided, IoFrame
<1>4. \/ UNCHANGED <<statusShadow, pendingLevelChange>>
      \/ \E x : /\ With(Io, "Commit", x) /\ Holds(x) /\ statusShadow' = x
                /\ pendingLevelChange' =
                     (pendingLevelChange /\ x # Goal(pendingNewLevel))
                /\ x = "error" => ~pendingLevelChange /\ hw.state = "enabled"
                /\ \A y : ~Holds(y)'
  BY <1>1, <1>2 DEF Holds, IoFrame, Decides, Decided, Stands, With, Done
<1> QED BY <1>1, <1>2, <1>3, <1>4

(* What io comes to when it has done an instruction. *)
LEMMA IoBehind ==
  ASSUME NEW r, r # <<>>, IoForm(r)
  PROVE  LET t == Tail(r) IN
         /\ \A x : ~Held(t, x) /\ ~With(t, "Commit", x) /\ ~With(t, "Report", x)
                   /\ ~With(t, "SetSignals", x)
         /\ ~Stands(t, "Commit") /\ ~Stands(t, "Report") /\ ~Stands(t, "SetSignals")
         /\ \A v \in {0, 1} : Writes(t, v) <=> t = <<SetEnabled(v)>>
         /\ DisablesNow(t) <=> t = <<SetEnabled(0)>>
         /\ ~(t = <<SetEnabled(0)>> /\ t = <<SetEnabled(1)>>)
         /\ \A v \in {0, 1} : t = <<SetEnabled(v)>> =>
              Stands(t, "SetEnabled") /\ Head(t).value = v /\ Tail(t) = <<>>
<1> DEFINE S(v) == SetEnabled(v)
           H(v) == <<S(v)>>
<1>1. \A v : S(v).op = "SetEnabled" /\ S(v).value = v
  BY DEF SetEnabled
<1> HIDE DEF S
<1>2. \A v : H(v) # <<>> /\ Head(H(v)) = S(v) /\ Tail(H(v)) = <<>>
  <2>1. ASSUME NEW a PROVE <<a>> # <<>> /\ Head(<<a>>) = a /\ Tail(<<a>>) = <<>>
    BY ShortHandlers
  <2> QED BY <2>1
<1> HIDE DEF H
<1> DEFINE t == Tail(r)
<1>3. t = <<>> \/ t = H(0) \/ t = H(1)
  BY DEF IoForm, H, S
<1> HIDE DEF t
<1>4. \A v : H(v) = <<SetEnabled(v)>>
  BY DEF H, S
<1>5. /\ \A op : Stands(t, op) <=> t # <<>> /\ Head(t).op = op
      /\ \A op : \A x : With(t, op, x) <=> Stands(t, op) /\ Head(t).status = x
      /\ \A x : Held(t, x) <=> With(t, "ApplyStatus", x) \/ With(t, "Commit", x)
                               \/ With(t, "CompareStatus", x)
      /\ \A v : Writes(t, v) <=>
           /\ t # <<>>
           /\ \/ Tail(t) = H(v)
              \/ /\ Tail(t) = <<>>
                 /\ \/ Head(t).op \in {"SetEnabled", "CheckLater"} /\ Head(t).value = v
                    \/ With(t, "SetSignals", IF v = 1 THEN "on" ELSE "off")
      /\ DisablesNow(t) <=>
           /\ t # <<>>
           /\ \/ Tail(t) = H(0)
              \/ Head(t).op \in {"SetEnabled", "CheckLater"} /\ Head(t).value = 0
  BY <1>4 DEF Stands, With, Held, Writes, DisablesNow
<1>6. \A op : Stands(t, op) => op = "SetEnabled"
  BY <1>1, <1>2, <1>3, <1>5
<1>7. /\ \A x : ~Held(t, x) /\ ~With(t, "Commit", x) /\ ~With(t, "Report", x)
                   /\ ~With(t, "SetSignals", x)
      /\ ~Stands(t, "Commit") /\ ~Stands(t, "Report") /\ ~Stands(t, "SetSignals")
  BY <1>5, <1>6
<1>8. /\ \A v \in {0, 1} : Writes(t, v) <=> t = H(v)
      /\ DisablesNow(t) <=> t = H(0)
      /\ ~(t = H(0) /\ t = H(1))
      /\ \A v \in {0, 1} : t = H(v) =>
              Stands(t, "SetEnabled") /\ Head(t).value = v /\ Tail(t) = <<>>
  BY <1>1, <1>2, <1>3, <1>5, <1>7
<1> QED BY <1>4, <1>7, <1>8 DEF t

(* While io handles a status, only what is behind may write _Enabled. *)
LEMMA IoFront ==
  ASSUME NEW r, r # <<>>,
         Head(r).op \in StatusOps \cup {"ReadStatus", "CheckStatus", "CompareStatus"}
  PROVE  /\ \A v \in {0, 1} : Writes(r, v) <=> Tail(r) = <<SetEnabled(v)>>
         /\ DisablesNow(r) <=> Tail(r) = <<SetEnabled(0)>>
         /\ ~Stands(r, "SetSignals") /\ \A x : ~With(r, "SetSignals", x)
BY DEF StatusOps, Writes, DisablesNow, Stands, With

(* io goes on with one, and posts nothing. *)
LEMMA IoCalm ==
  ASSUME Handlers, Forms, Plainly, Io # <<>>, Head(Io).op \in Handling \ {"Report"},
         \/ Continue("io", <<>>)
         \/ \E x \in Step : /\ Continue("io", <<x>>)
                            /\ x.op \in StatusOps \cup {"CompareStatus"},
         UNCHANGED <<newLevel, stateShadow, pendingNewLevel, retries, armed, signal,
                     queue, alarm, hw, netlink>>,
         \/ Stands(Io, "Commit") /\ statusShadow' = Head(Io).status
            /\ pendingLevelChange' = (pendingLevelChange /\ ~Head(Io).done)
            /\ With(Io', "Report", Head(Io).status)
         \/ UNCHANGED <<statusShadow, pendingLevelChange>> /\ ~Stands(Io, "Commit")
            /\ ~Stands(Io, "Report")',
         \A x : Held(Io, x)' => Held(Io, x) \/ x = hw.status \/ x = "invalid",
         Decided(Io)'
  PROVE  IoFrame /\ IoFault /\ IoKeep
<1>1. "io" \in Threads /\ Out = <<>> /\ Out' = <<>>
  BY DEF Threads, Plainly, Continue, Out, Io, Handlers
<1>2. \/ Io' = Tail(Io)
      \/ /\ Io' # <<>> /\ Tail(Io') = Tail(Io)
         /\ Head(Io').op \in StatusOps \cup {"CompareStatus"}
  BY <1>1, Proceeds DEF Io
<1>3. IoForm(Io)
  BY DEF Forms
<1>4. /\ ~Stands(Io, "SetSignals") /\ \A x : ~With(Io, "SetSignals", x)
      /\ ~Stands(Io', "SetSignals") /\ \A x : ~With(Io', "SetSignals", x)
      /\ \A v \in {0, 1} : Writes(Io', v) <=> Writes(Io, v)
      /\ DisablesNow(Io') <=> DisablesNow(Io)
  <2>1. /\ \A v \in {0, 1} : Writes(Io, v) <=> Tail(Io) = <<SetEnabled(v)>>
        /\ DisablesNow(Io) <=> Tail(Io) = <<SetEnabled(0)>>
        /\ ~Stands(Io, "SetSignals") /\ \A x : ~With(Io, "SetSignals", x)
    BY IoFront DEF Handling
  <2>2. CASE Io' = Tail(Io)
    <3>1. /\ \A x : ~With(Io', "SetSignals", x)
          /\ ~Stands(Io', "SetSignals")
          /\ \A v \in {0, 1} : Writes(Io', v) <=> Io' = <<SetEnabled(v)>>
          /\ DisablesNow(Io') <=> Io' = <<SetEnabled(0)>>
      BY <1>3, <2>2, IoBehind
    <3> QED BY <2>1, <2>2, <3>1
  <2>3. CASE /\ Io' # <<>> /\ Tail(Io') = Tail(Io)
             /\ Head(Io').op \in StatusOps \cup {"CompareStatus"}
    <3>1. /\ \A v \in {0, 1} : Writes(Io', v) <=> Tail(Io') = <<SetEnabled(v)>>
          /\ DisablesNow(Io') <=> Tail(Io') = <<SetEnabled(0)>>
          /\ ~Stands(Io', "SetSignals") /\ \A x : ~With(Io', "SetSignals", x)
      BY <2>3, IoFront
    <3> QED BY <2>1, <2>3, <3>1
  <2> QED BY <1>2, <2>2, <2>3
<1>5. /\ \A op : ~Stands(Out, op) /\ ~Stands(Out', op)
      /\ \A op : \A x : ~With(Out, op, x) /\ ~With(Out', op, x)
  BY <1>1, NoHandler
<1>6. /\ \A op : At("output", op) <=> Stands(Out, op)
      /\ \A op : At("output", op)' <=> Stands(Out, op)'
      /\ \A op : At("io", op) <=> Stands(Io, op)
      /\ \A op : At("io", op)' <=> Stands(Io, op)'
  BY DEF At, Stands, Out, Io
<1>7. Now' = <<>> /\ Now = <<>> /\ Loud(Io)' = <<>> /\ Loud(Io) = <<>>
  BY <1>4, <1>6 DEF Now, Loud
<1>8. queue' = queue
  OBVIOUS
<1>9. LastNoise' = LastNoise /\ LastShown' = LastShown /\ LastSet' = LastSet
  BY <1>7, <1>8 DEF LastNoise, LastShown, LastSet
<1>10. \A x : With(Io, "Report", x)' => With(Io, "Commit", x)
  BY DEF With, Stands
<1>11. ~Stands(Io, "Report") /\ (Reporting' <=> Stands(Io, "Report")') /\ ~Reporting
  BY <1>5, <1>6 DEF Reporting, Stands
<1>12. IoFrame
  <2>1. Reports("error")' => With(Io, "Commit", "error")
    BY <1>5, <1>10 DEF Reports
  <2>2. ErrorShows' => ErrorShows \/ With(Io, "Commit", "error")
    BY <1>4, <1>8, <2>1 DEF ErrorShows
  <2>3. \/ UNCHANGED <<statusShadow, pendingLevelChange>>
        \/ /\ Stands(Io, "Commit") /\ statusShadow' = Head(Io).status
           /\ pendingLevelChange' = (pendingLevelChange /\ ~Head(Io).done)
           /\ \A x : ~Held(Io, x)'
    BY DEF Held, With, Stands
  <2> QED BY <1>1, <1>8, <2>2, <2>3 DEF IoFrame
<1>13. IoFault
  <2>1. \A x : Reports(x)' <=> With(Io, "Report", x)'
    BY <1>5 DEF Reports
  <2>2. \A x : Commits(x) <=> With(Io, "Commit", x)
    BY <1>5 DEF Commits
  <2>3. With(Io, "Commit", "error") => With(Io, "Report", "error")'
    BY DEF With, Stands
  <2>4. FaultComing => FaultComing' \/ Reports("on") \/ Reports("off")
    <3>1. ~Reports("error")
      BY <1>5, <1>11 DEF Reports, With
    <3>2. Commits("error") => Reports("error")'
      BY <2>1, <2>2, <2>3
    <3> QED BY <1>9, <3>1, <3>2 DEF FaultComing
  <2> QED BY <1>10, <2>1, <2>2, <2>4 DEF IoFault
<1>14. IoKeep
  BY <1>4, <1>8, <1>9, <1>11, Zenon DEF IoKeep, With, Stands, ShowsEnabled, ShowsDisabled
<1> QED BY <1>12, <1>13, <1>14

(* The instruction that comes first. *)
LEMMA Fronts ==
  ASSUME NEW r, r # <<>>
  PROVE  /\ \A op : Stands(r, op) <=> Head(r).op = op
         /\ \A op : \A x : With(r, op, x) <=> Head(r).op = op /\ Head(r).status = x
         /\ \A x : Held(r, x) <=>
              Head(r).op \in {"ApplyStatus", "Commit", "CompareStatus"} /\ Head(r).status = x
BY DEF Stands, With, Held

(* What ApplyStatus decides, on either thread. *)
LEMMA Deciding ==
  ASSUME Inv, NEW t \in Threads, RunApplyStatus(t), Plainly,
         NEW s, s = Head(run[t]).status, s # "undefined"
  PROVE  /\ \/ /\ Continue(t, <<>>)
               /\ \/ s = statusShadow
                  \/ s = "error" /\ (pendingLevelChange \/ hw.state = "disabled")
            \/ /\ Continue(t, <<Commit(s, Done(s))>>) /\ Commit(s, Done(s)) \in Step
               /\ s # statusShadow
               /\ s = "error" => ~pendingLevelChange /\ hw.state = "enabled"
         /\ run[t] # <<>> /\ Head(run[t]).op = "ApplyStatus" /\ s \in Shown
         /\ UNCHANGED <<newLevel, stateShadow, statusShadow, pendingLevelChange,
                 pendingNewLevel, retries, armed, signal, queue, alarm, hw, netlink,
                 overlapped>>
<1>1. run[t] # <<>> /\ Head(run[t]).op = "ApplyStatus" /\ Head(run[t]) \in Step
      /\ hw.state \in RegulatorState
  BY DEF RunApplyStatus, At, Inv, Types, Handlers, Simple
<1>2. s \in Decoded
  BY <1>1, Operands
<1>3. Effective(s) = s
  BY DEF Effective
<1>4. s \in Shown
  BY <1>2 DEF Decoded, Shown
<1>5. Done(s) \in BOOLEAN
  BY DEF Done, Inv, Types, Simple
<1>6. Commit(s, Done(s)) \in Step
  BY <1>4, <1>5, Known
<1>7. Ignored(s) <=> \/ s = statusShadow
                     \/ s = "error" /\ (pendingLevelChange \/ hw.state = "disabled")
  BY <1>1 DEF Ignored, Plainly, Between, Stands, WriteOps, Out, Io, Threads
<1>8. /\ IF Ignored(s) THEN Continue(t, <<>>) ELSE Continue(t, <<Commit(s, Done(s))>>)
      /\ UNCHANGED <<newLevel, shadows, signal, queue, outside>>
  BY <1>3 DEF RunApplyStatus
<1>9. \/ /\ Continue(t, <<>>)
         /\ \/ s = statusShadow
            \/ s = "error" /\ (pendingLevelChange \/ hw.state = "disabled")
      \/ /\ Continue(t, <<Commit(s, Done(s))>>)
         /\ s # statusShadow
         /\ s = "error" => ~pendingLevelChange /\ hw.state = "enabled"
  BY <1>1, <1>7, <1>8 DEF RegulatorState
<1>10. UNCHANGED <<newLevel, stateShadow, statusShadow, pendingLevelChange,
                 pendingNewLevel, retries, armed, signal, queue, alarm, hw, netlink,
                 overlapped>>
  BY <1>8 DEF shadows, outside
<1> QED BY <1>1, <1>4, <1>6, <1>9, <1>10

(* The steps in which io reads, compares, applies or commits a status are of that kind. *)
LEMMA IoHandles ==
  ASSUME Inv, Forms, Plainly, Decides, hw.reports,
         \/ RunApplyStatus("io") \/ RunCommit("io") \/ RunReadStatus("io")
         \/ RunCheckStatus
         \/ RunCompareStatus /\ UNCHANGED queue
  PROVE  IoFrame /\ IoFault /\ IoKeep
<1>1. Handlers /\ Simple /\ "io" \in Threads /\ IoForm(Io)
  BY DEF Inv, Types, Threads, Forms
<1>2. /\ Io # <<>> /\ Head(Io) \in Step
      /\ UNCHANGED <<newLevel, stateShadow, pendingNewLevel, retries, armed, signal,
                     queue, alarm, hw, netlink>>
  BY <1>1 DEF RunApplyStatus, RunCommit, RunReadStatus, RunCheckStatus,
              RunCompareStatus, At, outside, shadows, Handlers, Io
<1>3. Continue("io", <<>>) => Io' = Tail(Io)
  BY <1>1, <1>2, Proceeds DEF Io
<1>4. Continue("io", <<>>) => /\ \A op \in {"Commit", "Report"} : ~Stands(Io', op)
                              /\ \A x : ~Held(Io', x)
  BY <1>1, <1>2, <1>3, IoBehind
<1>5. ASSUME NEW x \in Step, Continue("io", <<x>>)
      PROVE  /\ Io' # <<>> /\ Head(Io') = x
             /\ \A op : Stands(Io', op) <=> x.op = op
             /\ \A op : \A s : With(Io', op, s) <=> x.op = op /\ x.status = s
             /\ \A s : Held(Io', s) <=>
                  x.op \in {"ApplyStatus", "Commit", "CompareStatus"} /\ x.status = s
  <2>1. Io' # <<>> /\ Head(Io') = x
    BY <1>1, <1>2, <1>5, Proceeds DEF Io
  <2> QED BY <2>1, Fronts
<1>6. /\ \A op : Stands(Io, op) <=> Head(Io).op = op
      /\ \A x : Held(Io, x) <=>
           Head(Io).op \in {"ApplyStatus", "Commit", "CompareStatus"} /\ Head(Io).status = x
  BY <1>2, Fronts
<1>7. ASSUME Head(Io).op \in {"ApplyStatus", "CompareStatus"}
      PROVE  Head(Io).status # "undefined"
  BY <1>6, <1>7 DEF Plainly, Holds
<1>8. CASE RunApplyStatus("io")
  <2> DEFINE s == Head(Io).status
             c == Commit(s, Done(s))
  <2>1. Head(Io).op = "ApplyStatus"
    BY <1>8 DEF RunApplyStatus, At, Io
  <2>2. /\ \/ Continue("io", <<>>)
           \/ /\ Continue("io", <<c>>) /\ c \in Step
              /\ s = "error" => ~pendingLevelChange /\ hw.state = "enabled"
        /\ UNCHANGED <<statusShadow, pendingLevelChange>>
    <3>1. s = Head(run["io"]).status /\ s # "undefined"
      BY <1>7, <2>1 DEF Io
    <3> HIDE DEF s
    <3> QED BY <1>1, <1>8, <3>1, Deciding
  <2>3. c.op = "Commit" /\ c.status = s /\ c.done = Done(s)
    BY DEF Commit
  <2>4. CASE Continue("io", <<>>)
    <3>1. Decided(Io)'
      BY <1>4, <2>4 DEF Decided
    <3> QED
      BY <1>1, <1>2, <1>4, <1>6, <2>1, <2>2, <2>4, <3>1, IoCalm DEF Handling, StatusOps
  <2>5. CASE /\ Continue("io", <<c>>) /\ c \in Step
             /\ s = "error" => ~pendingLevelChange /\ hw.state = "enabled"
    <3> HIDE DEF c
    <3>1. /\ Io' # <<>> /\ Head(Io') = c
          /\ \A op : Stands(Io', op) <=> c.op = op
          /\ \A x : Held(Io', x) => x = s
      BY <1>5, <2>3, <2>5
    <3>2. Decided(Io)'
      BY <1>2, <2>2, <2>3, <2>5, <3>1 DEF Decided, Done
    <3>3. \A x : Held(Io, x)' => Held(Io, x)
      BY <1>6, <2>1, <3>1
    <3>4. c.op \in StatusOps \cup {"CompareStatus"}
      BY <2>3 DEF StatusOps
    <3> QED BY <1>1, <1>2, <1>6, <2>1, <2>2, <2>3, <2>5, <3>1, <3>2, <3>3, <3>4, IoCalm
         DEF Handling, StatusOps
  <2> QED BY <2>2, <2>4, <2>5
<1>9. CASE RunCommit("io")
  <2> DEFINE s == Head(Io).status
             x == Report(s)
  <2>1. /\ Head(Io).op = "Commit" /\ Continue("io", <<x>>)
        /\ statusShadow' = s
        /\ pendingLevelChange' = (pendingLevelChange /\ ~Head(Io).done)
    BY <1>9 DEF RunCommit, At, Io
  <2>2. x \in Step
    BY <1>2, <2>1, SpecialForms, Known
  <2>3. x.op = "Report" /\ x.status = s
    BY DEF Report
  <2> HIDE DEF x
  <2>4. /\ \A op : Stands(Io', op) <=> x.op = op
        /\ With(Io', "Report", s)
        /\ \A y : ~Held(Io', y)
    BY <1>5, <2>1, <2>2, <2>3
  <2>5. Decided(Io)'
    BY <2>3, <2>4 DEF Decided
  <2>6. x.op \in StatusOps \cup {"CompareStatus"}
    BY <2>3 DEF StatusOps
  <2> QED BY <1>1, <1>2, <1>6, <2>1, <2>2, <2>4, <2>5, <2>6, IoCalm DEF Handling, StatusOps
<1>10. CASE RunReadStatus("io") \/ RunCheckStatus
  <2>1. Head(Io).op \in {"ReadStatus", "CheckStatus"}
        /\ UNCHANGED <<statusShadow, pendingLevelChange>>
    BY <1>10 DEF RunReadStatus, RunCheckStatus, At, Io, shadows
  <2>2. PICK s \in RegulatorStatus :
          Reads(s) /\ \/ Continue("io", <<ApplyStatus(s)>>)
                      \/ Continue("io", <<CompareStatus(s)>>)
    BY <1>10 DEF RunReadStatus, RunCheckStatus
  <2>3. s \in Decoded /\ (s = hw.status \/ s = "invalid")
    BY <1>1, <2>2, StatusIsDecoded DEF Reads, DecodeStatus
  <2>4. PICK x \in Step : /\ Continue("io", <<x>>)
                          /\ x.op \in {"ApplyStatus", "CompareStatus"} /\ x.status = s
    <3>1. {ApplyStatus(s), CompareStatus(s)} \subseteq Step
      BY <2>3, Known
    <3>2. /\ ApplyStatus(s).op = "ApplyStatus" /\ ApplyStatus(s).status = s
          /\ CompareStatus(s).op = "CompareStatus" /\ CompareStatus(s).status = s
      BY DEF ApplyStatus, CompareStatus
    <3> QED BY <2>2, <3>1, <3>2
  <2>5. /\ \A op : Stands(Io', op) <=> x.op = op
        /\ \A y : Held(Io', y) => y = s
    BY <1>5, <2>4
  <2>6. Decided(Io)'
    BY <2>4, <2>5 DEF Decided
  <2>7. x.op \in StatusOps \cup {"CompareStatus"}
    BY <2>4 DEF StatusOps
  <2>8. \A y : Held(Io, y)' => Held(Io, y) \/ y = hw.status \/ y = "invalid"
    BY <2>3, <2>5
  <2> QED
    BY <1>1, <1>2, <1>6, <2>1, <2>4, <2>5, <2>6, <2>7, <2>8, IoCalm DEF Handling, StatusOps
<1>11. CASE RunCompareStatus /\ UNCHANGED queue
  <2> DEFINE s == Head(Io).status
             x == ApplyStatus(s)
  <2>1. /\ Head(Io).op = "CompareStatus"
        /\ UNCHANGED <<statusShadow, pendingLevelChange>>
        /\ Continue("io", <<>>) \/ Continue("io", <<x>>)
    BY <1>11 DEF RunCompareStatus, At, Io, shadows
  <2>2. s \in Decoded
    BY <1>2, <2>1, Operands
  <2>3. x \in Step /\ x.op = "ApplyStatus" /\ x.status = s
    <3>1. x \in Step
      BY <2>2, Known
    <3> QED BY <3>1 DEF ApplyStatus
  <2> HIDE DEF x, s
  <2>4. CASE Continue("io", <<>>)
    <3>1. Decided(Io)'
      BY <1>4, <2>4 DEF Decided
    <3> QED BY <1>1, <1>2, <1>4, <1>6, <2>1, <2>4, <3>1, IoCalm DEF Handling, StatusOps
  <2>5. CASE Continue("io", <<x>>)
    <3>1. /\ \A op : Stands(Io', op) <=> x.op = op
          /\ \A y : Held(Io', y) => y = s
      BY <1>5, <2>3, <2>5
    <3>2. Decided(Io)'
      BY <2>3, <3>1 DEF Decided
    <3>3. \A y : Held(Io, y)' => Held(Io, y)
      BY <1>6, <2>1, <3>1 DEF s
    <3>4. x.op \in StatusOps \cup {"CompareStatus"}
      BY <2>3 DEF StatusOps
    <3> QED BY <1>1, <1>2, <1>6, <2>1, <2>3, <2>5, <3>1, <3>2, <3>3, <3>4, IoCalm
         DEF Handling, StatusOps
  <2> QED BY <2>1, <2>4, <2>5
<1> QED BY <1>8, <1>9, <1>10, <1>11

(* What the handlers of io are: which of them write _Enabled, and which set
   the signals. *)
LEMMA Kinds ==
  /\ \A v \in {0, 1} :
       LET h == <<SetEnabled(v)>> IN
       /\ h \notin Noisy /\ h \notin Shows
       /\ (h \in Zeros <=> v = 0) /\ (h \in Ones <=> v = 1) /\ (h \in Disables <=> v = 0)
  /\ \A s \in Shown :
       LET h == <<SetSignals(s)>> IN
       /\ h \in Shows /\ (h \in Noisy <=> s # "invalid") /\ h \notin Disables
       /\ (h \in Zeros <=> s = "off") /\ (h \in Ones <=> s = "on")
  /\ \A s, u : <<SetSignals(s)>> = <<SetSignals(u)>> <=> s = u
  /\ \A h \in {<<CheckStatus>>, <<ReadStatus>>} :
       h \notin Noisy \cup Shows \cup Zeros \cup Ones \cup Disables
  /\ \A h \in IoHandlers :
       /\ Writes(h, 0) <=> h \in Zeros
       /\ Writes(h, 1) <=> h \in Ones
       /\ DisablesNow(h) <=> h \in Disables
       /\ Loud(h) = IF h \in Noisy THEN h ELSE <<>>
       /\ h \in Shows <=> Stands(h, "SetSignals")
       /\ h \in Shows => h = <<Head(h)>> /\ h = <<SetSignals(Head(h).status)>>
       /\ \A x : ~Held(h, x)
       /\ \A op \in {"Commit", "Report"} : ~Stands(h, op)
<1> DEFINE E(v) == <<SetEnabled(v)>>
           C(v) == <<CheckStatus, SetEnabled(v)>>
           L(v) == <<CheckLater(v)>>
           S(s) == <<SetSignals(s)>>
           K == <<CheckStatus>>
           R == <<ReadStatus>>
<1>1. /\ \A v : SetEnabled(v).op = "SetEnabled" /\ SetEnabled(v).value = v
      /\ \A v : CheckLater(v).op = "CheckLater" /\ CheckLater(v).value = v
      /\ \A s : SetSignals(s).op = "SetSignals" /\ SetSignals(s).status = s
      /\ CheckStatus.op = "CheckStatus" /\ ReadStatus.op = "ReadStatus"
  BY DEF SetEnabled, CheckLater, SetSignals, CheckStatus, ReadStatus
<1> HIDE DEF SetEnabled, CheckLater, SetSignals, CheckStatus, ReadStatus
<1>2. ASSUME NEW a, NEW b
      PROVE  /\ Head(<<a>>) = a /\ Tail(<<a>>) = <<>> /\ <<a>> # <<>>
             /\ Head(<<a, b>>) = a /\ Tail(<<a, b>>) = <<b>> /\ <<a, b>> # <<>>
  BY ShortHandlers
<1>3. /\ \A v : E(v) # <<>> /\ Head(E(v)).op = "SetEnabled" /\ Head(E(v)).value = v
                /\ Tail(E(v)) = <<>>
      /\ \A v : C(v) # <<>> /\ Head(C(v)).op = "CheckStatus" /\ Tail(C(v)) = E(v)
      /\ \A v : L(v) # <<>> /\ Head(L(v)).op = "CheckLater" /\ Head(L(v)).value = v
                /\ Tail(L(v)) = <<>>
      /\ \A s : S(s) # <<>> /\ Head(S(s)).op = "SetSignals" /\ Head(S(s)).status = s
                /\ Tail(S(s)) = <<>> /\ S(s) = <<Head(S(s))>>
      /\ K # <<>> /\ Head(K).op = "CheckStatus" /\ Tail(K) = <<>>
      /\ R # <<>> /\ Head(R).op = "ReadStatus" /\ Tail(R) = <<>>
  BY <1>1, <1>2
<1>4. /\ Zeros = {E(0), C(0), L(0), S("off")}
      /\ Ones = {E(1), C(1), L(1), S("on")}
      /\ Disables = {E(0), C(0), L(0)}
      /\ Noisy = {S(x) : x \in {"on", "off", "error"}}
      /\ Shows = {S(x) : x \in Shown}
      /\ IoHandlers = Shows \cup {E(v) : v \in {0, 1}} \cup {C(v) : v \in {0, 1}}
                        \cup {L(0), K, R}
  BY DEF Zeros, Ones, Disables, Noisy, Shows, IoHandlers
<1>5. /\ \A h : \A op : Stands(h, op) <=> h # <<>> /\ Head(h).op = op
      /\ \A h : \A v : Writes(h, v) <=>
           /\ h # <<>>
           /\ \/ Tail(h) = E(v)
              \/ /\ Tail(h) = <<>>
                 /\ \/ Head(h).op \in {"SetEnabled", "CheckLater"} /\ Head(h).value = v
                    \/ Head(h).op = "SetSignals" /\ Head(h).status = IF v = 1 THEN "on" ELSE "off"
      /\ \A h : DisablesNow(h) <=>
           /\ h # <<>>
           /\ \/ Tail(h) = E(0)
              \/ Head(h).op \in {"SetEnabled", "CheckLater"} /\ Head(h).value = 0
      /\ \A h : Loud(h) = IF h # <<>> /\ Head(h).op = "SetSignals" /\ Head(h).status # "invalid"
                          THEN <<Head(h)>> ELSE <<>>
      /\ \A h : \A x : Held(h, x) =>
            Head(h).op \in {"ApplyStatus", "Commit", "CompareStatus"}
  BY DEF Stands, Writes, DisablesNow, Loud, With, Held
<1>6. Shown = {"on", "off", "error", "invalid"}
  BY DEF Shown
<1> HIDE DEF E, C, L, S, K, R
<1>7. \A v, w : /\ E(v) = E(w) <=> v = w
                /\ C(v) = C(w) <=> v = w
                /\ L(v) = L(w) <=> v = w
                /\ E(v) # C(w) /\ E(v) # L(w) /\ C(v) # L(w)
                /\ E(v) # S(w) /\ C(v) # S(w) /\ L(v) # S(w)
                /\ S(v) = S(w) <=> v = w
                /\ K \notin {E(v), C(v), L(v), S(v)} /\ R \notin {E(v), C(v), L(v), S(v)}
  BY <1>3
<1>8. /\ \A v \in {0, 1} :
           /\ E(v) \notin Noisy /\ E(v) \notin Shows
           /\ (E(v) \in Zeros <=> v = 0) /\ (E(v) \in Ones <=> v = 1)
           /\ E(v) \in Disables <=> v = 0
           /\ C(v) \notin Noisy /\ C(v) \notin Shows
           /\ (C(v) \in Zeros <=> v = 0) /\ (C(v) \in Ones <=> v = 1)
           /\ C(v) \in Disables <=> v = 0
           /\ L(v) \notin Noisy /\ L(v) \notin Shows
           /\ (L(v) \in Zeros <=> v = 0) /\ (L(v) \in Ones <=> v = 1)
           /\ L(v) \in Disables <=> v = 0
      /\ \A s \in Shown :
           /\ S(s) \in Shows /\ (S(s) \in Noisy <=> s # "invalid") /\ S(s) \notin Disables
           /\ (S(s) \in Zeros <=> s = "off") /\ (S(s) \in Ones <=> s = "on")
      /\ \A h \in {K, R} : h \notin Noisy \cup Shows \cup Zeros \cup Ones \cup Disables
  BY <1>4, <1>6, <1>7
<1>9. ASSUME NEW h \in IoHandlers
      PROVE  /\ Writes(h, 0) <=> h \in Zeros
             /\ Writes(h, 1) <=> h \in Ones
             /\ DisablesNow(h) <=> h \in Disables
             /\ Loud(h) = IF h \in Noisy THEN h ELSE <<>>
             /\ h \in Shows <=> Stands(h, "SetSignals")
             /\ h \in Shows => h = <<Head(h)>> /\ h = S(Head(h).status)
             /\ \A x : ~Held(h, x)
             /\ \A op \in {"Commit", "Report"} : ~Stands(h, op)
  <2>1. ASSUME NEW s \in Shown, h = S(s)
        PROVE  /\ Writes(h, 0) <=> h \in Zeros
               /\ Writes(h, 1) <=> h \in Ones
               /\ DisablesNow(h) <=> h \in Disables
               /\ Loud(h) = IF h \in Noisy THEN h ELSE <<>>
               /\ h \in Shows <=> Stands(h, "SetSignals")
               /\ h \in Shows => h = <<Head(h)>> /\ h = S(Head(h).status)
               /\ \A x : ~Held(h, x)
               /\ \A op \in {"Commit", "Report"} : ~Stands(h, op)
    <3>1. /\ h # <<>> /\ Head(h).op = "SetSignals" /\ Head(h).status = s
          /\ Tail(h) = <<>> /\ h = <<Head(h)>> /\ \A v : E(v) # <<>>
      BY <1>3, <2>1
    <3>2. /\ Writes(h, 0) <=> s = "off"
          /\ Writes(h, 1) <=> s = "on"
      BY <1>5, <3>1
    <3>3. ~DisablesNow(h) /\ Loud(h) = IF s # "invalid" THEN h ELSE <<>>
      BY <1>5, <3>1
    <3>4. Stands(h, "SetSignals") /\ (\A x : ~Held(h, x))
          /\ \A op \in {"Commit", "Report"} : ~Stands(h, op)
      BY <1>5, <3>1
    <3>5. /\ h \in Shows /\ (h \in Noisy <=> s # "invalid") /\ h \notin Disables
          /\ (h \in Zeros <=> s = "off") /\ (h \in Ones <=> s = "on")
      BY <1>8, <2>1
    <3> QED BY <2>1, <3>1, <3>2, <3>3, <3>4, <3>5
  <2>2. ASSUME NEW v \in {0, 1}, h = E(v) \/ h = C(v) \/ h = L(v)
        PROVE  /\ Writes(h, 0) <=> h \in Zeros
               /\ Writes(h, 1) <=> h \in Ones
               /\ DisablesNow(h) <=> h \in Disables
               /\ Loud(h) = IF h \in Noisy THEN h ELSE <<>>
               /\ h \in Shows <=> Stands(h, "SetSignals")
               /\ h \notin Shows
               /\ \A x : ~Held(h, x)
               /\ \A op \in {"Commit", "Report"} : ~Stands(h, op)
    <3>1. /\ h # <<>>
          /\ \/ /\ Head(h).op \in {"SetEnabled", "CheckLater"} /\ Head(h).value = v
                /\ Tail(h) = <<>>
             \/ Head(h).op = "CheckStatus" /\ Tail(h) = E(v)
          /\ \A w : E(w) # <<>>
      BY <1>3, <2>2
    <3>2. \A w : E(v) = E(w) <=> v = w
      BY <1>7
    <3>3. ASSUME NEW w \in {0, 1} PROVE Writes(h, w) <=> v = w
      <4>1. Writes(h, w) <=>
              \/ Tail(h) = E(w)
              \/ /\ Tail(h) = <<>>
                 /\ \/ Head(h).op \in {"SetEnabled", "CheckLater"} /\ Head(h).value = w
                    \/ Head(h).op = "SetSignals" /\ Head(h).status = IF w = 1 THEN "on" ELSE "off"
        BY <1>5, <3>1
      <4> QED BY <3>1, <3>2, <4>1
    <3>4. (DisablesNow(h) <=> v = 0) /\ Loud(h) = <<>>
      <4>1. DisablesNow(h) <=>
              \/ Tail(h) = E(0)
              \/ Head(h).op \in {"SetEnabled", "CheckLater"} /\ Head(h).value = 0
        BY <1>5, <3>1
      <4>2. Head(h).op # "SetSignals"
        BY <3>1
      <4>3. Loud(h) = <<>>
        BY <1>5, <4>2
      <4>4. E(0) # <<>> /\ (E(v) = E(0) <=> v = 0)
        BY <3>1, <3>2
      <4> QED BY <3>1, <4>1, <4>3, <4>4
    <3>5. ~Stands(h, "SetSignals") /\ (\A x : ~Held(h, x))
          /\ \A op \in {"Commit", "Report"} : ~Stands(h, op)
      BY <1>5, <3>1
    <3>6. /\ h \notin Noisy /\ h \notin Shows
          /\ (h \in Zeros <=> v = 0) /\ (h \in Ones <=> v = 1)
          /\ h \in Disables <=> v = 0
      BY <1>8, <2>2
    <3> QED BY <3>3, <3>4, <3>5, <3>6
  <2>3. ASSUME h \in {K, R}
        PROVE  /\ Writes(h, 0) <=> h \in Zeros
               /\ Writes(h, 1) <=> h \in Ones
               /\ DisablesNow(h) <=> h \in Disables
               /\ Loud(h) = IF h \in Noisy THEN h ELSE <<>>
               /\ h \in Shows <=> Stands(h, "SetSignals")
               /\ h \notin Shows
               /\ \A x : ~Held(h, x)
               /\ \A op \in {"Commit", "Report"} : ~Stands(h, op)
    <3>1. /\ h # <<>> /\ Head(h).op \in {"CheckStatus", "ReadStatus"} /\ Tail(h) = <<>>
          /\ \A w : E(w) # <<>>
      BY <1>3, <2>3
    <3>2. ~Writes(h, 0) /\ ~Writes(h, 1)
      BY <1>5, <3>1
    <3>3. ~DisablesNow(h) /\ Loud(h) = <<>>
      BY <1>5, <3>1
    <3>4. ~Stands(h, "SetSignals") /\ (\A x : ~Held(h, x))
          /\ \A op \in {"Commit", "Report"} : ~Stands(h, op)
      BY <1>5, <3>1
    <3>5. h \notin Noisy \cup Shows \cup Zeros \cup Ones \cup Disables
      BY <1>8, <2>3
    <3> QED BY <3>2, <3>3, <3>4, <3>5
  <2>4. \/ \E s \in Shown : h = S(s)
        \/ h \in {K, R}
        \/ \E v \in {0, 1} : h = E(v) \/ h = C(v) \/ h = L(v)
    BY <1>4
  <2>5. CASE \E s \in Shown : h = S(s)
    BY <2>1, <2>5
  <2>6. CASE h \in {K, R}
    BY <2>3, <2>6
  <2>7. CASE \E v \in {0, 1} : h = E(v) \/ h = C(v) \/ h = L(v)
    BY <2>2, <2>7
  <2> QED BY <2>4, <2>5, <2>6, <2>7
<1>10. /\ \A v : E(v) = <<SetEnabled(v)>>
       /\ \A s : S(s) = <<SetSignals(s)>>
       /\ K = <<CheckStatus>> /\ R = <<ReadStatus>>
  BY DEF E, S, K, R
<1>11. \A v \in {0, 1} :
         LET h == <<SetEnabled(v)>> IN
         /\ h \notin Noisy /\ h \notin Shows
         /\ (h \in Zeros <=> v = 0) /\ (h \in Ones <=> v = 1) /\ (h \in Disables <=> v = 0)
  BY <1>8, <1>10
<1>12. \A s \in Shown :
         LET h == <<SetSignals(s)>> IN
         /\ h \in Shows /\ (h \in Noisy <=> s # "invalid") /\ h \notin Disables
         /\ (h \in Zeros <=> s = "off") /\ (h \in Ones <=> s = "on")
  BY <1>8, <1>10
<1>13. \A s, u : <<SetSignals(s)>> = <<SetSignals(u)>> <=> s = u
  BY <1>7, <1>10
<1>14. \A h \in {<<CheckStatus>>, <<ReadStatus>>} :
         h \notin Noisy \cup Shows \cup Zeros \cup Ones \cup Disables
  BY <1>8, <1>10
<1>15. \A h : h \in Shows => h = <<SetSignals(Head(h).status)>>
  BY <1>3, <1>4, <1>10
<1>16. \A h \in IoHandlers :
       /\ Writes(h, 0) <=> h \in Zeros
       /\ Writes(h, 1) <=> h \in Ones
       /\ DisablesNow(h) <=> h \in Disables
       /\ Loud(h) = IF h \in Noisy THEN h ELSE <<>>
       /\ h \in Shows <=> Stands(h, "SetSignals")
       /\ h \in Shows => h = <<Head(h)>> /\ h = <<SetSignals(Head(h).status)>>
       /\ \A x : ~Held(h, x)
       /\ \A op \in {"Commit", "Report"} : ~Stands(h, op)
  BY <1>9, <1>15
<1> QED BY <1>11, <1>12, <1>13, <1>14, <1>16

(* io has done an instruction, and posts or sets something. *)
LEMMA IoEnds ==
  ASSUME Handlers, Forms, Plainly, Io # <<>>, Continue("io", <<>>)
  PROVE  /\ Out = <<>> /\ Out' = <<>>
         /\ Decided(Io)' /\ (\A x : ~Held(Io, x)')
         /\ ~Reporting' /\ Now' = <<>> /\ Loud(Io)' = <<>>
         /\ \A x : ~With(Io', "SetSignals", x) /\ ~Reports(x)' /\ ~Commits(x)'
         /\ \A v \in {0, 1} : Writes(Io', v) <=> Tail(Io) = <<SetEnabled(v)>>
         /\ ~(Writes(Io', 0) /\ Writes(Io', 1))
         /\ DisablesNow(Io') <=> Tail(Io) = <<SetEnabled(0)>>
         /\ DisablesNow(Io') => DisablesNow(Io)
         /\ \A op : At("output", op) <=> FALSE
         /\ \A op : \A x : ~With(Out, op, x)
<1>1. "io" \in Threads /\ Out = <<>> /\ Out' = <<>> /\ IoForm(Io)
  BY DEF Threads, Plainly, Continue, Out, Io, Handlers, Forms
<1>2. Io' = Tail(Io)
  BY <1>1, Proceeds DEF Io
<1>3. /\ \A x : ~Held(Io', x) /\ ~With(Io', "Commit", x) /\ ~With(Io', "Report", x)
                /\ ~With(Io', "SetSignals", x)
      /\ ~Stands(Io', "Commit") /\ ~Stands(Io', "Report") /\ ~Stands(Io', "SetSignals")
      /\ \A v \in {0, 1} : Writes(Io', v) <=> Tail(Io) = <<SetEnabled(v)>>
      /\ DisablesNow(Io') <=> Tail(Io) = <<SetEnabled(0)>>
      /\ ~(Tail(Io) = <<SetEnabled(0)>> /\ Tail(Io) = <<SetEnabled(1)>>)
  BY <1>1, <1>2, IoBehind
<1>4. /\ \A op : ~Stands(Out, op) /\ ~Stands(Out', op)
      /\ \A op : \A x : ~With(Out, op, x) /\ ~With(Out', op, x)
  BY <1>1, NoHandler
<1>5. DisablesNow(Io') => DisablesNow(Io)
  BY <1>3 DEF DisablesNow
<1>6. /\ \A op : At("output", op) <=> Stands(Out, op)
      /\ \A op : At("output", op)' <=> Stands(Out', op)
      /\ \A op : At("io", op)' <=> Stands(Io', op)
  BY DEF At, Stands, Out, Io
<1>7. ~Reporting' /\ Now' = <<>>
  BY <1>3, <1>4, <1>6 DEF Reporting, Now
<1>8. Loud(Io)' = <<>> /\ Decided(Io)'
  BY <1>3 DEF Loud, Decided
<1>9. \A x : ~Reports(x)' /\ ~Commits(x)'
  BY <1>3, <1>4 DEF Reports, Commits
<1> QED BY <1>1, <1>3, <1>4, <1>5, <1>6, <1>7, <1>8, <1>9

(* io reports a status. *)
LEMMA IoReports ==
  ASSUME Inv, Forms, Plainly, RunReport("io")
  PROVE  IoFrame /\ IoFault /\ IoKeep
<1> DEFINE s == Head(Io).status
           h == <<SetSignals(s)>>
<1>1. Handlers /\ Queues /\ "io" \in Threads
  BY DEF Inv, Types, Threads, Forms, Queues
<1>2. /\ Io # <<>> /\ Head(Io).op = "Report" /\ Head(Io) \in Step
      /\ Post("io", h) /\ Continue("io", <<>>)
      /\ UNCHANGED <<newLevel, stateShadow, statusShadow, pendingLevelChange,
                     pendingNewLevel, retries, armed, signal, alarm, hw, netlink>>
  BY <1>1 DEF RunReport, At, Io, shadows, outside, Handlers
<1>3. s \in Shown
  BY <1>2, SpecialForms
<1>4. s = statusShadow
  BY <1>1, <1>2 DEF Inv, StatusInv, Tells, At, Io
<1>5. /\ h \in IoHandlers
      /\ h \in Shows /\ (h \in Noisy <=> s # "invalid") /\ h \notin Disables
      /\ (h \in Zeros <=> s = "off") /\ (h \in Ones <=> s = "on")
      /\ h = <<SetSignals("error")>> <=> s = "error"
  BY <1>3, Kinds, KnownHandlers
<1>6. With(Io, "Report", s)
  BY <1>2 DEF With, Stands
<1>7. (h = <<SetSignals(s)>>) /\ (s = "on" => h = <<SetSignals("on")>>)
  OBVIOUS
<1> HIDE DEF h, s
<1>8. /\ queue'["io"] = Append(queue["io"], h) /\ queue'["output"] = queue["output"]
      /\ ToSet(queue'["io"]) = ToSet(queue["io"]) \cup {h}
      /\ \A M, d : LastIn(queue'["io"], M, d) = IF h \in M THEN h ELSE LastIn(queue["io"], M, d)
  <2>1. queue'["io"] = Append(queue["io"], h) /\ queue'["output"] = queue["output"]
    BY <1>1, <1>2, <1>5, FormsPost
  <2> QED BY <1>1, <1>5, <2>1, ToSetAppend, LastInAppend DEF Queues
<1>9. /\ Out = <<>> /\ Out' = <<>>
      /\ Decided(Io)' /\ (\A x : ~Held(Io, x)')
      /\ ~Reporting' /\ Now' = <<>> /\ Loud(Io)' = <<>>
      /\ \A x : ~With(Io', "SetSignals", x) /\ ~Reports(x)' /\ ~Commits(x)'
      /\ DisablesNow(Io') => DisablesNow(Io)
  BY <1>1, <1>2, IoEnds
<1>10. IoFrame
  <2>1. ErrorShows' => ErrorShows
    <3>1. s = "error" => ErrorShows
      BY <1>6 DEF ErrorShows, Reports
    <3> QED BY <1>5, <1>8, <1>9, <3>1 DEF ErrorShows
  <2> QED BY <1>2, <1>8, <1>9, <2>1 DEF IoFrame
<1>11. IoFault
  <2>1. s \in {"on", "off"} => Reports(s)
    BY <1>6 DEF Reports
  <2>2. s = "error" => FaultComing'
    <3>1. s = "error" => LastNoise' = h
      BY <1>5, <1>8 DEF LastNoise
    <3> QED BY <1>5, <3>1 DEF FaultComing
  <2>3. s = "invalid" /\ FaultComing => FaultComing'
    <3>1. SUFFICES ASSUME s = "invalid", FaultComing PROVE FaultComing'
      OBVIOUS
    <3>2. Loud(Io) = <<>>
      BY <1>2 DEF Loud, Stands
    <3>3. LastNoise' = LastNoise
      BY <1>5, <1>8, <1>9, <3>1, <3>2 DEF LastNoise
    <3>4. ~Commits("error") /\ ~Reports("error")
      <4>1. \A op, x : ~With(Out, op, x)
        BY <1>9, NoHandler
      <4> QED BY <1>2, <3>1, <4>1 DEF Commits, Reports, With, Stands, s
    <3> QED BY <1>2, <3>1, <3>3, <3>4 DEF FaultComing
  <2> QED BY <1>3, <1>9, <2>1, <2>2, <2>3 DEF IoFault, Shown
<1>12. IoKeep
  <2>1. LastShown' = h
    BY <1>5, <1>8 DEF LastShown
  <2>2. s = "off" => LastSet' \in Zeros
    BY <1>5, <1>8 DEF LastSet
  <2> QED BY <1>2, <1>4, <1>5, <1>7, <1>8, <1>9, <2>1, <2>2 DEF IoKeep
<1> QED BY <1>10, <1>11, <1>12

(* io checks a status later. *)
LEMMA IoDefers ==
  ASSUME Inv, Forms, Plainly,
         \/ RunCheckLater
         \/ RunCompareStatus /\ Post("io", <<ReadStatus>>) /\ Continue("io", <<>>)
  PROVE  IoFrame /\ IoFault /\ IoKeep
<1>1. Handlers /\ Queues /\ "io" \in Threads /\ IoForm(Io)
  BY DEF Inv, Types, Threads, Forms, Queues
<1>2. /\ Io # <<>> /\ Head(Io).op \in {"CheckLater", "CompareStatus"}
      /\ Head(Io) \in Step /\ Continue("io", <<>>)
      /\ UNCHANGED <<newLevel, stateShadow, statusShadow, pendingLevelChange,
                     pendingNewLevel, retries, armed, signal, alarm, hw, netlink>>
  BY <1>1 DEF RunCheckLater, RunCompareStatus, At, Io, shadows, outside, Handlers
<1>3. /\ Out = <<>> /\ Out' = <<>>
      /\ Decided(Io)' /\ (\A x : ~Held(Io, x)')
      /\ ~Reporting' /\ Now' = <<>> /\ Loud(Io)' = <<>>
      /\ \A x : ~With(Io', "SetSignals", x) /\ ~Reports(x)' /\ ~Commits(x)'
      /\ \A v \in {0, 1} : Writes(Io', v) <=> Tail(Io) = <<SetEnabled(v)>>
      /\ DisablesNow(Io') => DisablesNow(Io)
  BY <1>1, <1>2, IoEnds
<1>4. \A op, x : ~With(Out, op, x)
  BY <1>3, NoHandler
<1>5. ~Reporting /\ Now = <<>> /\ Loud(Io) = <<>>
  BY <1>2, <1>3 DEF Reporting, Now, Loud, At, Stands, Io, Out
<1>6. ~Commits("error") /\ ~Reports("error")
  BY <1>2, <1>4 DEF Commits, Reports, With, Stands
<1>7. /\ queue'["output"] = queue["output"]
      /\ LastNoise' = LastNoise /\ LastShown' = LastShown
      /\ <<SetSignals("error")>> \in ToSet(queue'["io"])
           => <<SetSignals("error")>> \in ToSet(queue["io"])
      /\ ToSet(queue["io"]) \cap Disables = {} /\ ~DisablesNow(Io)
           => ToSet(queue'["io"]) \cap Disables = {}
      /\ LastSet' \in Zeros \/ (LastSet' = LastSet /\ Head(Io).op = "CompareStatus")
  <2> DEFINE E == <<SetEnabled(0)>>
             K == <<CheckStatus>>
             R == <<ReadStatus>>
             S == <<SetSignals("error")>>
  <2>1. /\ E \notin Noisy /\ E \notin Shows /\ E \in Zeros /\ E \in Disables
        /\ K \notin Noisy \cup Shows \cup Zeros \cup Ones \cup Disables
        /\ R \notin Noisy \cup Shows \cup Zeros \cup Ones \cup Disables
        /\ S \in Shows
        /\ {E, K, R} \subseteq IoHandlers
    <3>1. "error" \in Shown
      BY DEF Shown
    <3> QED BY <3>1, Kinds, KnownHandlers
  <2> HIDE DEF E, K, R, S
  <2>2. CASE RunCheckLater
    <3>1. Head(Io).op = "CheckLater" /\ Head(Io).value = 0
      BY <1>1, <1>2, <2>2 DEF RunCheckLater, At, Io, IoForm
    <3>2. DisablesNow(Io)
      BY <1>2, <3>1 DEF DisablesNow
    <3>3. queue' = [queue EXCEPT !["io"] = queue["io"] \o <<K, E>>]
      BY <2>2, <3>1 DEF RunCheckLater, K, E, Io
    <3>4. queue'["io"] = queue["io"] \o <<K, E>> /\ queue'["output"] = queue["output"]
      BY <1>1, <3>3 DEF Handlers, Threads
    <3> DEFINE q == queue["io"]
               p == Append(q, K)
    <3>5. q \o <<K, E>> = Append(p, E) /\ q \in Seq(IoHandlers)
          /\ p \in Seq(IoHandlers) /\ K \in IoHandlers /\ E \in IoHandlers
      BY <1>1, <2>1, AppendTwo DEF Queues
    <3>6. /\ \A M, d : LastIn(p, M, d) = IF K \in M THEN K ELSE LastIn(q, M, d)
          /\ ToSet(p) = ToSet(q) \cup {K}
      BY <3>5, LastInAppend, ToSetAppend
    <3> HIDE DEF p, q
    <3>7. /\ \A M, d : LastIn(Append(p, E), M, d) = IF E \in M THEN E ELSE LastIn(p, M, d)
          /\ ToSet(Append(p, E)) = ToSet(p) \cup {E}
      BY <3>5, LastInAppend, ToSetAppend
    <3>9. /\ \A M, d : LastIn(queue'["io"], M, d) =
               IF E \in M THEN E ELSE IF K \in M THEN K ELSE LastIn(queue["io"], M, d)
          /\ ToSet(queue'["io"]) = ToSet(queue["io"]) \cup {K, E}
      <4>1. queue'["io"] = Append(p, E)
        BY <3>4, <3>5, Zenon DEF q
      <4> QED BY <3>6, <3>7, <4>1 DEF q
    <3>8. LastNoise' = LastNoise /\ LastShown' = LastShown /\ LastSet' \in Zeros
      BY <1>3, <1>5, <2>1, <3>9 DEF LastNoise, LastShown, LastSet
    <3> QED BY <2>1, <3>2, <3>4, <3>8, <3>9 DEF S
  <2>3. CASE RunCompareStatus /\ Post("io", R)
    <3>1. queue'["io"] = Append(queue["io"], R) /\ queue'["output"] = queue["output"]
      BY <1>1, <2>1, <2>3, FormsPost
    <3>2. /\ \A M, d : LastIn(queue'["io"], M, d) =
               IF R \in M THEN R ELSE LastIn(queue["io"], M, d)
          /\ ToSet(queue'["io"]) = ToSet(queue["io"]) \cup {R}
      BY <1>1, <2>1, <3>1, LastInAppend, ToSetAppend DEF Queues
    <3>3. LastNoise' = LastNoise /\ LastShown' = LastShown /\ LastSet' = LastSet
      BY <1>3, <1>5, <2>1, <3>2 DEF LastNoise, LastShown, LastSet
    <3>4. Head(Io).op = "CompareStatus"
      BY <2>3 DEF RunCompareStatus, At, Io
    <3> QED BY <2>1, <3>1, <3>2, <3>3, <3>4 DEF S
  <2> QED BY <2>2, <2>3 DEF R
<1>8. IoFrame
  <2>1. ErrorShows' => ErrorShows
    BY <1>3, <1>7 DEF ErrorShows
  <2> QED BY <1>2, <1>3, <1>7, <2>1 DEF IoFrame
<1>9. IoFault
  BY <1>2, <1>3, <1>6, <1>7 DEF IoFault, FaultComing
<1>10. IoKeep
  <2>1. Head(Io).op = "CompareStatus" =>
          \A v \in {0, 1} : Writes(Io', v) <=> Writes(Io, v)
    BY <1>2, <1>3, IoFront
  <2>2. Head(Io).op = "CompareStatus" =>
          (Writes(Io', 0) <=> Writes(Io, 0)) /\ (Writes(Io', 1) <=> Writes(Io, 1))
    BY <2>1
  <2>3. /\ statusShadow' = statusShadow /\ signal' = signal /\ hw' = hw
    BY <1>2
  <2> HIDE DEF Writes
  <2>4. /\ ~DisablesNow(Io) /\ ~Reporting' /\ statusShadow' = "on" /\ ShowsEnabled
           /\ hw.state = "enabled" /\ ~hw.broken
        => LastShown' = <<SetSignals("on")>> \/ signal'["enabled"] = 1
    BY <1>5, <1>7, <2>3 DEF ShowsEnabled
  <2>5. ~Reporting' /\ statusShadow' = "off" /\ ShowsDisabled /\ hw.state = "disabled" =>
       \/ Tells0
       \/ LastSet' \in Zeros
       \/ LastSet' = <<>> /\ (Writes(Io, 0)' \/ (~Writes(Io, 1)' /\ signal'["enabled"] = 0))
    BY <1>5, <1>7, <2>2, <2>3 DEF ShowsDisabled
  <2> QED BY <1>3, <1>7, <2>4, <2>5 DEF IoKeep
<1> QED BY <1>8, <1>9, <1>10

(* io sets _Enabled. *)
LEMMA IoEnables ==
  ASSUME Inv, Forms, Plainly, RunSetEnabled
  PROVE  IoFrame /\ IoFault /\ IoKeep
<1> DEFINE v == Head(Io).value
<1>1. Handlers /\ "io" \in Threads /\ IoForm(Io)
  BY DEF Inv, Types, Threads, Forms
<1>2. /\ Io # <<>> /\ Head(Io).op = "SetEnabled"
      /\ Head(Io) \in Step /\ Continue("io", <<>>)
      /\ signal' = [signal EXCEPT !["enabled"] = v]
      /\ UNCHANGED <<newLevel, stateShadow, statusShadow, pendingLevelChange,
                     pendingNewLevel, retries, armed, alarm, hw, netlink, queue>>
  BY <1>1 DEF RunSetEnabled, At, Io, shadows, outside, Handlers
<1>3. v \in {0, 1}
  BY <1>2, Operands
<1> HIDE DEF v
<1>4. /\ Out = <<>> /\ Out' = <<>>
      /\ Decided(Io)' /\ (\A x : ~Held(Io, x)')
      /\ ~Reporting' /\ Now' = <<>> /\ Loud(Io)' = <<>>
      /\ \A x : ~With(Io', "SetSignals", x) /\ ~Reports(x)' /\ ~Commits(x)'
      /\ \A u \in {0, 1} : Writes(Io', u) <=> Tail(Io) = <<SetEnabled(u)>>
      /\ ~(Writes(Io', 0) /\ Writes(Io', 1))
      /\ DisablesNow(Io') => DisablesNow(Io)
  BY <1>1, <1>2, IoEnds
<1>5. \A op, x : ~With(Out, op, x)
  BY <1>4, NoHandler
<1>6. ~Reporting /\ Now = <<>> /\ Loud(Io) = <<>>
  BY <1>2, <1>4 DEF Reporting, Now, Loud, At, Stands, Io, Out
<1>7. ~Commits("error") /\ ~Reports("error")
  BY <1>2, <1>5 DEF Commits, Reports, With, Stands
<1>8. /\ queue' = queue
      /\ LastNoise' = LastNoise /\ LastShown' = LastShown /\ LastSet' = LastSet
  BY <1>2, <1>4, <1>6 DEF LastNoise, LastShown, LastSet
<1>9. /\ signal'["enabled"] = v /\ signal'["fault"] = signal["fault"]
  BY <1>1, <1>2 DEF Inv, Types, Simple
<1>10. IoFrame
  <2>1. ErrorShows' => ErrorShows
    BY <1>4, <1>8 DEF ErrorShows
  <2> QED BY <1>2, <1>4, <1>8, <2>1 DEF IoFrame
<1>11. IoFault
  BY <1>4, <1>7, <1>8, <1>9 DEF IoFault, FaultComing
<1>12. IoKeep
  <2>1. ~DisablesNow(Io) => v = 1
    BY <1>2, <1>3 DEF DisablesNow, v
  <2>2. /\ Writes(Io, 0) => Writes(Io', 0) \/ (~Writes(Io', 1) /\ v = 0)
        /\ ~Writes(Io, 1) => ~Writes(Io', 1) /\ (v = 0 \/ Writes(Io', 0))
    <3> DEFINE H(u) == <<SetEnabled(u)>>
    <3>1. /\ \A u \in {0, 1} : Writes(Io', u) <=> Tail(Io) = H(u)
          /\ ~(Tail(Io) = H(0) /\ Tail(Io) = H(1))
      BY <1>4
    <3>2. Tail(Io) = <<>> \/ Tail(Io) = H(0) \/ Tail(Io) = H(1)
      BY <1>1, <1>2 DEF IoForm
    <3>3. \A u \in {0, 1} :
            Writes(Io, u) <=> \/ Tail(Io) = H(u)
                              \/ Tail(Io) = <<>> /\ v = u
      BY <1>2 DEF Writes, With, Stands, v
    <3> HIDE DEF H
    <3>4. <<>> # H(0) /\ <<>> # H(1)
      BY ShortHandlers DEF H
    <3> QED BY <1>3, <3>1, <3>2, <3>3, <3>4
  <2> HIDE DEF Writes
  <2>3. ~Reporting' /\ statusShadow' = "off" /\ ShowsDisabled /\ hw.state = "disabled" =>
       \/ Tells0
       \/ LastSet' \in Zeros
       \/ LastSet' = <<>> /\ (Writes(Io, 0)' \/ (~Writes(Io, 1)' /\ signal'["enabled"] = 0))
    BY <1>2, <1>6, <1>8, <1>9, <2>2 DEF ShowsDisabled
  <2> QED BY <1>4, <1>8, <1>9, <2>1, <2>3 DEF IoKeep
<1> QED BY <1>10, <1>11, <1>12

(* io sets the signals. *)
LEMMA IoShows ==
  ASSUME Inv, Forms, Plainly, RunSetSignals
  PROVE  IoFrame /\ IoFault /\ IoKeep
<1> DEFINE s == Head(Io).status
           S(x) == <<SetSignals(x)>>
<1>1. Handlers /\ Queues /\ "io" \in Threads /\ IoForm(Io)
  BY DEF Inv, Types, Threads, Forms, Queues
<1>2. /\ Io # <<>> /\ Head(Io).op = "SetSignals"
      /\ Head(Io) \in Step /\ Continue("io", <<>>)
      /\ UNCHANGED <<newLevel, stateShadow, statusShadow, pendingLevelChange,
                     pendingNewLevel, retries, armed, hw, netlink, queue>>
  BY <1>1 DEF RunSetSignals, At, Io, shadows, outside, Handlers
<1>3. s \in Shown /\ <<Head(Io)>> = S(s)
  BY <1>2, SpecialForms
<1>4. /\ s = "off" => signal'["enabled"] = 0 /\ signal'["fault"] = 0
      /\ s = "error" => signal'["enabled"] = signal["enabled"] /\ signal'["fault"] = 1
      /\ s = "on" => signal'["enabled"] = 1 /\ signal'["fault"] = 0
      /\ s = "invalid" => signal' = signal
      /\ alarm' => alarm \/ s = "error"
  <2>1. DOMAIN signal = {"enabled", "powergood", "fault"}
    BY DEF Inv, Types, Simple
  <2>2. /\ s = "off" => signal' = [x \in DOMAIN signal |-> 0]
        /\ s = "error"
             => signal' = [signal EXCEPT !["powergood"] = 0, !["fault"] = 1]
        /\ s = "on"
             => signal' = [x \in DOMAIN signal |-> IF x = "fault" THEN 0 ELSE 1]
        /\ s = "invalid" => signal' = signal
        /\ alarm' = (alarm \/ CallsBack(s))
    BY DEF RunSetSignals, Io
  <2> QED BY <2>1, <2>2 DEF CallsBack
<1> HIDE DEF s
<1>5. /\ Out = <<>> /\ Out' = <<>>
      /\ Decided(Io)' /\ (\A x : ~Held(Io, x)')
      /\ ~Reporting' /\ Now' = <<>> /\ Loud(Io)' = <<>>
      /\ \A x : ~With(Io', "SetSignals", x) /\ ~Reports(x)' /\ ~Commits(x)'
      /\ \A u \in {0, 1} : Writes(Io', u) <=> Tail(Io) = <<SetEnabled(u)>>
      /\ ~(Writes(Io', 0) /\ Writes(Io', 1))
      /\ DisablesNow(Io') => DisablesNow(Io)
  BY <1>1, <1>2, IoEnds
<1>6. \A op, x : ~With(Out, op, x)
  BY <1>5, NoHandler
<1>7. ~Reporting /\ Now = S(s) /\ Loud(Io) = (IF s = "invalid" THEN <<>> ELSE S(s))
  BY <1>2, <1>3, <1>5 DEF Reporting, Now, Loud, At, Stands, Io, Out, s
<1>8. ~Commits("error") /\ ~Reports("error")
  BY <1>2, <1>6 DEF Commits, Reports, With, Stands
<1>9. queue' = queue /\ queue["io"] \in Seq(IoHandlers)
  BY <1>1, <1>2 DEF Queues
<1>10. /\ \A x, y : S(x) = S(y) <=> x = y
       /\ S("on") \in Shows
       /\ \A h \in Noisy \cup Shows : h # <<>>
  <2>1. "on" \in Shown
    BY DEF Shown
  <2>2. \A x : S(x) # <<>>
    BY ShortHandlers
  <2> QED BY <2>1, <2>2, Kinds DEF Noisy, Shows
<1> HIDE DEF S
<1>11. IoFrame
  <2>1. ErrorShows' => ErrorShows
    BY <1>5, <1>9 DEF ErrorShows
  <2>2. s = "error" => With(Io, "SetSignals", "error")
    BY <1>2 DEF With, Stands, s
  <2> QED BY <1>2, <1>4, <1>5, <1>9, <2>1, <2>2 DEF IoFrame
<1>12. FaultComing => FaultComing'
  <2>1. SUFFICES ASSUME FaultComing PROVE FaultComing'
    OBVIOUS
  <2>2. LastNoise = S("error") \/ (LastNoise = <<>> /\ signal["fault"] = 1)
    BY <1>8, <2>1 DEF FaultComing, S
  <2>3. CASE \A d : LastIn(queue["io"], Noisy, d) = d
    <3>1. LastNoise = Loud(Io) /\ LastNoise' = <<>>
      BY <1>5, <1>9, <2>3 DEF LastNoise
    <3>2. \A x : S(x) # <<>>
      BY ShortHandlers DEF S
    <3>3. s = "error" \/ (s = "invalid" /\ signal["fault"] = 1)
      BY <1>7, <1>10, <2>2, <3>1, <3>2
    <3> QED BY <1>4, <3>1, <3>3 DEF FaultComing
  <2>4. CASE \E e \in Noisy : \A d : LastIn(queue["io"], Noisy, d) = e
    <3>1. LastNoise' = LastNoise /\ LastNoise # <<>>
      BY <1>9, <1>10, <2>4 DEF LastNoise
    <3> QED BY <2>2, <3>1 DEF FaultComing, S
  <2> QED BY <1>9, <2>3, <2>4, LastInDefault
<1>13. IoFault
  BY <1>5, <1>12 DEF IoFault
<1>14. statusShadow = "on" => LastShown' = S("on") \/ signal'["enabled"] = 1
  <2>1. SUFFICES ASSUME statusShadow = "on"
                 PROVE  LastShown' = S("on") \/ signal'["enabled"] = 1
    OBVIOUS
  <2>2. LastShown = S("on") \/ LastShown = <<>>
    BY <1>7, <2>1 DEF Inv, StatusInv, Follows, S
  <2>3. CASE \A d : LastIn(queue["io"], Shows, d) = d
    <3>1. LastShown = S(s)
      BY <1>7, <2>3 DEF LastShown
    <3>2. \A x : S(x) # <<>>
      BY ShortHandlers DEF S
    <3> QED BY <1>4, <1>10, <2>2, <3>1, <3>2
  <2>4. CASE \E e \in Shows : \A d : LastIn(queue["io"], Shows, d) = e
    <3>1. LastShown' = LastShown /\ LastShown # <<>>
      BY <1>9, <1>10, <2>4 DEF LastShown
    <3> QED BY <2>2, <3>1
  <2> QED BY <1>9, <2>3, <2>4, LastInDefault
<1>15. IoKeep
  <2>2. /\ Writes(Io, 0) => Writes(Io', 0) \/ (~Writes(Io', 1) /\ s = "off")
        /\ ~Writes(Io, 1) => ~Writes(Io', 1) /\ (s # "on" \/ Writes(Io', 0))
    <3> DEFINE H(u) == <<SetEnabled(u)>>
    <3>1. /\ \A u \in {0, 1} : Writes(Io', u) <=> Tail(Io) = H(u)
          /\ ~(Tail(Io) = H(0) /\ Tail(Io) = H(1))
      BY <1>5
    <3>2. Tail(Io) = <<>> \/ Tail(Io) = H(0) \/ Tail(Io) = H(1)
      BY <1>1, <1>2 DEF IoForm
    <3>3. \A u \in {0, 1} :
            Writes(Io, u) <=> \/ Tail(Io) = H(u)
                              \/ Tail(Io) = <<>> /\ s = (IF u = 1 THEN "on" ELSE "off")
      BY <1>2 DEF Writes, With, Stands, s
    <3> HIDE DEF H
    <3>4. <<>> # H(0) /\ <<>> # H(1)
      BY ShortHandlers DEF H
    <3> QED BY <3>1, <3>2, <3>3, <3>4
  <2> HIDE DEF Writes
  <2>3. LastSet' = LastSet
    BY <1>9 DEF LastSet
  <2>4. ~Reporting' /\ statusShadow' = "off" /\ ShowsDisabled /\ hw.state = "disabled" =>
       \/ Tells0
       \/ LastSet' \in Zeros
       \/ LastSet' = <<>> /\ (Writes(Io, 0)' \/ (~Writes(Io, 1)' /\ signal'["enabled"] = 0))
    BY <1>2, <1>3, <1>4, <1>7, <2>2, <2>3 DEF ShowsDisabled, Shown
  <2> QED BY <1>2, <1>5, <1>9, <1>14, <2>4 DEF IoKeep, S
<1> QED BY <1>11, <1>13, <1>15

(* io takes a handler. *)
LEMMA IoStarts ==
  ASSUME Inv, Forms, Start("io"), ~overlapped'
  PROVE  IoFrame /\ IoFault /\ IoKeep
<1> DEFINE h == Io'
           q == queue["io"]
           p == queue'["io"]
<1>1. Handlers /\ Queues /\ "io" \in Threads /\ Other("io") = "output"
  BY DEF Inv, Types, Threads, Forms, Queues, Other
<1>2. /\ TakeHandler("io") /\ Out = <<>>
      /\ UNCHANGED <<newLevel, stateShadow, statusShadow, pendingLevelChange,
                     pendingNewLevel, retries, armed, signal, alarm, hw, netlink>>
  BY <1>1 DEF Start, shadows, Out
<1>3. /\ Io = <<>> /\ q # <<>> /\ q \in Seq(IoHandlers) /\ Out' = <<>>
      /\ h = Head(q) /\ p = Tail(q) /\ queue'["output"] = queue["output"]
  BY <1>1, <1>2, Takes DEF Out, Io, Queues
<1>4. h \in IoHandlers /\ h # <<>> /\ p \in Seq(IoHandlers)
  BY <1>3, PostedForms
<1>5. /\ \A M, d : LastIn(q, M, d) = LastIn(p, M, IF h \in M THEN h ELSE d)
      /\ ToSet(q) = {h} \cup ToSet(p)
  BY <1>3, LastInTail, ToSetTail
<1>6. /\ Writes(h, 0) <=> h \in Zeros
      /\ Writes(h, 1) <=> h \in Ones
      /\ DisablesNow(h) <=> h \in Disables
      /\ Loud(h) = IF h \in Noisy THEN h ELSE <<>>
      /\ h \in Shows <=> Stands(h, "SetSignals")
      /\ h \in Shows => h = <<Head(h)>> /\ h = <<SetSignals(Head(h).status)>>
      /\ \A x : ~Held(h, x)
      /\ \A op \in {"Commit", "Report"} : ~Stands(h, op)
  BY <1>4, Kinds
<1> HIDE DEF h, q, p
<1>7. /\ \A op : ~Stands(Io, op) /\ ~Stands(Out, op) /\ ~Stands(Out', op)
      /\ \A op, x : ~With(Io, op, x)
      /\ \A op, x : ~With(Out, op, x)
      /\ \A op, x : ~With(Out', op, x)
  BY <1>2, <1>3, NoHandler
<1>8. /\ \A op : At("output", op) <=> Stands(Out, op)
      /\ \A op : At("output", op)' <=> Stands(Out', op)
      /\ \A op : At("io", op) <=> Stands(Io, op)
      /\ \A op : At("io", op)' <=> Stands(h, op)
  BY DEF At, Stands, Out, Io, h
<1>9. /\ ~Reporting /\ ~Reporting' /\ Now = <<>>
      /\ Now' = IF h \in Shows THEN h ELSE <<>>
  BY <1>6, <1>7, <1>8 DEF Reporting, Now, h, Io
<1>10. /\ \A x : ~Reports(x) /\ ~Commits(x) /\ ~Reports(x)'
       /\ Loud(Io) = <<>> /\ Loud(Io)' = IF h \in Noisy THEN h ELSE <<>>
       /\ Decided(Io)' /\ \A x : ~Held(Io, x)'
  <2>1. \A x : ~With(h, "Report", x) /\ ~With(h, "Commit", x)
    BY <1>6 DEF With
  <2>2. Decided(Io)' /\ \A x : ~Held(Io, x)'
    BY <1>6 DEF Decided, h
  <2> QED BY <1>6, <1>7, <2>1, <2>2 DEF Reports, Commits, Loud, h
<1>11. LastNoise' = LastNoise /\ LastShown' = LastShown
  <2>1. LastIn(q, Noisy, <<>>) = LastIn(p, Noisy, Loud(Io)')
    BY <1>5, <1>10
  <2>2. LastIn(q, Shows, <<>>) = LastIn(p, Shows, Now')
    BY <1>5, <1>9
  <2> QED BY <1>9, <1>10, <2>1, <2>2 DEF LastNoise, LastShown, p, q
<1>12. IoFrame
  <2>1. With(h, "SetSignals", "error") => h = <<SetSignals("error")>>
    BY <1>6 DEF With
  <2>2. ErrorShows' => ErrorShows
    BY <1>5, <1>10, <2>1 DEF ErrorShows, h, p, q
  <2> QED BY <1>2, <1>3, <1>10, <2>2 DEF IoFrame, q
<1>13. IoFault
  BY <1>2, <1>10, <1>11 DEF IoFault, FaultComing
<1>14. IoKeep
  <2>1. ToSet(q) \cap Disables = {} => ToSet(p) \cap Disables = {} /\ ~DisablesNow(h)
    BY <1>5, <1>6
  <2>2. /\ LastSet \in Zeros => LastSet' \in Zeros \/ (LastSet' = <<>> /\ Writes(h, 0))
        /\ LastSet = <<>> => LastSet' = <<>> /\ ~Writes(h, 1)
    <3>1. /\ LastSet = LastIn(p, Zeros \cup Ones, IF h \in Zeros \cup Ones THEN h ELSE <<>>)
          /\ LastSet' = LastIn(p, Zeros \cup Ones, <<>>)
      BY <1>5 DEF LastSet, p, q
    <3>2. \A e \in Zeros \cup Ones : e # <<>>
      BY ShortHandlers DEF Zeros, Ones
    <3>3. CASE \A d : LastIn(p, Zeros \cup Ones, d) = d
      <4>1. LastSet = (IF h \in Zeros \cup Ones THEN h ELSE <<>>) /\ LastSet' = <<>>
        BY <3>1, <3>3
      <4> QED BY <1>4, <1>6, <3>2, <4>1
    <3>4. CASE \E e \in Zeros \cup Ones : \A d : LastIn(p, Zeros \cup Ones, d) = e
      BY <3>1, <3>2, <3>4
    <3>5. \/ \A d : LastIn(p, Zeros \cup Ones, d) = d
          \/ \E e \in Zeros \cup Ones : \A d : LastIn(p, Zeros \cup Ones, d) = e
      BY <1>4, LastInDefault
    <3> QED BY <3>3, <3>4, <3>5
  <2>3. ~Writes(Io, 0)
    BY <1>3 DEF Writes
  <2> HIDE DEF Writes
  <2>4. ~Reporting' /\ statusShadow' = "off" /\ ShowsDisabled /\ hw.state = "disabled" =>
       \/ Tells0
       \/ LastSet' \in Zeros
       \/ LastSet' = <<>> /\ (Writes(Io, 0)' \/ (~Writes(Io, 1)' /\ signal'["enabled"] = 0))
    BY <1>2, <1>9, <2>2, <2>3 DEF ShowsDisabled, h
  <2> QED BY <1>2, <1>9, <1>11, <2>1, <2>4 DEF IoKeep, ShowsEnabled, h, p, q
<1> QED BY <1>12, <1>13, <1>14

(* All steps of io are such steps, unless handlers overlap. *)
LEMMA IoFrames ==
  ASSUME Inv, Inv', Forms, Plainly, Decides, hw.reports, IoThread, ~overlapped'
  PROVE  IoFrame /\ IoFault /\ IoKeep
<1>2. CASE Start("io")
  BY <1>2, IoStarts
<1>3. CASE RunApplyStatus("io") \/ RunCommit("io") \/ RunReadStatus("io")
           \/ RunCheckStatus \/ (RunCompareStatus /\ UNCHANGED queue)
  BY <1>3, IoHandles
<1>4. CASE RunCheckLater \/ (RunCompareStatus /\ ~UNCHANGED queue)
  <2>1. RunCompareStatus /\ ~UNCHANGED queue
          => Post("io", <<ReadStatus>>) /\ Continue("io", <<>>)
    BY DEF RunCompareStatus
  <2> QED BY <1>4, <2>1, IoDefers
<1>5. CASE RunReport("io")
  BY <1>5, IoReports
<1>6. CASE RunSetEnabled
  BY <1>6, IoEnables
<1>7. CASE RunSetSignals
  BY <1>7, IoShows
<1> QED BY <1>2, <1>3, <1>4, <1>5, <1>6, <1>7 DEF IoThread

(* What is left of a handler of the output thread says which event it handles. *)
LEMMA TellingTable ==
  ASSUME NEW r, OutForm(r), r # <<>> => Head(r) \in Step
  PROVE  /\ r = <<>> \/ Head(r).op \in {"Apply", "StartTimer", "ConfirmStatus", "SetPending",
                                        "ReadStatus"} \cup WriteOps
              => \A c : ~Told(r, c)
         /\ r # <<>> /\ Head(r).op = "HandleEvent"
              => \A c : Told(r, c) <=> Head(r).event.change = c
         /\ r # <<>> /\ Head(r).op \in StatusOps =>
              \/ Tail(r) = <<ConfirmStatus>> /\ \A c : ~Told(r, c)
              \/ Tail(r) = <<>> /\ \A c : ~Told(r, c)
              \/ \E e \in Sent : /\ Tail(r) = <<HandleEvent(e)>>
                                 /\ \A c : Told(r, c) <=> e.change = c
<1> DEFINE T(s) == <<StartTimer(s)>>
           U(s) == <<SetPending, StartTimer(s)>>
           C == <<ConfirmStatus>>
           E(e) == <<HandleEvent(e)>>
<1>1. /\ \A e \in Sent : E(e) # C /\ E(e) # <<>>
      /\ \A e \in Sent : \A s \in RegulatorState : E(e) # T(s) /\ E(e) # U(s)
      /\ \A e \in Sent : \A f \in Sent : E(e) = E(f) <=> e = f
  <2>1. "enabled" \in RegulatorState
    BY DEF RegulatorState
  <2> QED BY <2>1, Following
<1>2. \A c : Told(r, c) <=> \/ r # <<>> /\ Head(r).op = "HandleEvent" /\ Head(r).event.change = c
                            \/ \E e \in Sent : r # <<>> /\ e.change = c /\ Tail(r) = E(e)
  BY DEF Told, Stands
<1>3. r # <<>> /\ Head(r).op \in WriteOps \cup {"StartTimer"}
        => Head(r).state \in RegulatorState
  BY Operands
<1>4. r # <<>> =>
        \/ Head(r).op \in {"Apply", "StartTimer", "ConfirmStatus"} /\ Tail(r) = <<>>
        \/ Head(r).op = "HandleEvent" /\ Tail(r) = <<>>
        \/ Head(r).op \in WriteOps /\ Tail(r) = U(Head(r).state)
        \/ Head(r).op = "SetPending" /\ \E s \in RegulatorState : Tail(r) = T(s)
        \/ Head(r).op \in {"ReadStatus"} \cup StatusOps /\ Tail(r) = C
        \/ /\ Head(r).op \in StatusOps
           /\ Tail(r) = <<>> \/ \E e \in Sent : Tail(r) = E(e)
  BY DEF OutForm
<1> HIDE DEF T, U, C, E
<1>5. ASSUME \/ r = <<>>
             \/ Head(r).op \in {"Apply", "StartTimer", "ConfirmStatus", "SetPending",
                                "ReadStatus"} \cup WriteOps
      PROVE  \A c : ~Told(r, c)
  <2>1. r # <<>> => Head(r).op \notin StatusOps /\ Head(r).op # "HandleEvent"
    BY <1>5 DEF StatusOps, WriteOps
  <2>2. r # <<>> => \A e \in Sent : Tail(r) # E(e)
    BY <1>1, <1>3, <1>4, <2>1
  <2> QED BY <1>2, <2>1, <2>2
<1>6. ASSUME r # <<>>, Head(r).op = "HandleEvent"
      PROVE  \A c : Told(r, c) <=> Head(r).event.change = c
  <2>1. Tail(r) = <<>>
    BY <1>4, <1>6 DEF StatusOps, WriteOps
  <2>2. \A e \in Sent : Tail(r) # E(e)
    BY <1>1, <2>1
  <2> QED BY <1>2, <1>6, <2>2
<1>7. ASSUME r # <<>>, Head(r).op \in StatusOps
      PROVE  \/ Tail(r) = C /\ \A c : ~Told(r, c)
             \/ Tail(r) = <<>> /\ \A c : ~Told(r, c)
             \/ \E e \in Sent : /\ Tail(r) = E(e)
                                /\ \A c : Told(r, c) <=> e.change = c
  <2>1. \A c : Told(r, c) <=> \E e \in Sent : e.change = c /\ Tail(r) = E(e)
    BY <1>2, <1>7 DEF StatusOps
  <2>2. Tail(r) = C \/ Tail(r) = <<>> \/ \E e \in Sent : Tail(r) = E(e)
    BY <1>4, <1>7 DEF StatusOps, WriteOps
  <2>3. CASE Tail(r) = C \/ Tail(r) = <<>>
    BY <1>1, <2>1, <2>3
  <2>4. ASSUME NEW e \in Sent, Tail(r) = E(e)
        PROVE  \A c : Told(r, c) <=> e.change = c
    <3>1. ASSUME NEW c PROVE Told(r, c) <=> e.change = c
      <4>1. Told(r, c) <=> \E f \in Sent : f.change = c /\ E(e) = E(f)
        BY <2>1, <2>4
      <4>2. \A f \in Sent : E(e) = E(f) <=> e = f
        BY <1>1, <2>4
      <4> QED BY <2>4, <4>1, <4>2
    <3> QED BY <3>1
  <2> QED BY <2>2, <2>3, <2>4
<1> QED BY <1>5, <1>6, <1>7 DEF C, E

(* The output thread handles a status. *)
LEMMA OutHandling ==
  ASSUME Handlers, Forms, Out # <<>>, Head(Out).op \in StatusOps \cup {"ReadStatus"}
  PROVE  /\ \A s \in RegulatorState : ~Changing(Out, s)
         /\ \/ Tail(Out) = <<ConfirmStatus>> /\ Confirming(Out) /\ \A c : ~Told(Out, c)
            \/ Tail(Out) = <<>> /\ ~Confirming(Out) /\ \A c : ~Told(Out, c)
            \/ \E e \in Sent : /\ Tail(Out) = <<HandleEvent(e)>> /\ ~Confirming(Out)
                               /\ \A c : Told(Out, c) <=> e.change = c
<1>1. OutForm(Out) /\ Head(Out) \in Step
  BY DEF Forms, Handlers, Out, Threads
<1> DEFINE C == <<ConfirmStatus>>
           E(e) == <<HandleEvent(e)>>
<1>2. C # <<>> /\ \A e \in Sent : E(e) # C
  <2>1. "enabled" \in RegulatorState
    BY DEF RegulatorState
  <2> QED BY <2>1, Following, ShortHandlers
<1>3. \A s \in RegulatorState : ~Changing(Out, s)
  BY <1>1, OutTable
<1>4. CASE Head(Out).op = "ReadStatus"
  <2>1. Tail(Out) = C /\ Confirming(Out)
    BY <1>1, <1>4, OutTable
  <2>2. \A c : ~Told(Out, c)
    BY <1>1, <1>4, TellingTable
  <2> QED BY <1>3, <2>1, <2>2
<1>5. CASE Head(Out).op \in StatusOps
  <2>1. \/ Tail(Out) = C /\ \A c : ~Told(Out, c)
        \/ Tail(Out) = <<>> /\ \A c : ~Told(Out, c)
        \/ \E e \in Sent : Tail(Out) = E(e) /\ \A c : Told(Out, c) <=> e.change = c
    BY <1>1, <1>5, TellingTable
  <2>2. /\ Tail(Out) = C => Confirming(Out)
        /\ Tail(Out) # C => ~Confirming(Out)
    BY <1>5 DEF Confirming, StatusOps
  <2>3. \/ Tail(Out) = C /\ Confirming(Out) /\ \A c : ~Told(Out, c)
        \/ Tail(Out) = <<>> /\ ~Confirming(Out) /\ \A c : ~Told(Out, c)
        \/ \E e \in Sent : /\ Tail(Out) = E(e) /\ ~Confirming(Out)
                           /\ \A c : Told(Out, c) <=> e.change = c
    <3> HIDE DEF C, E
    <3> QED BY <1>2, <2>1, <2>2
  <2> QED BY <1>3, <2>3
<1> QED BY <1>4, <1>5

(* It has done the last instruction for this status. *)
LEMMA OutEnds ==
  ASSUME Handlers, Handlers', Forms, Forms', Plainly, Out # <<>>,
         Head(Out).op \in StatusOps \cup {"ReadStatus"}, Continue("output", <<>>)
  PROVE  /\ Io = <<>> /\ Io' = <<>>
         /\ \A s \in RegulatorState : ~Changing(Out, s) /\ ~Changing(Out', s)
         /\ Confirming(Out') <=> Confirming(Out)
         /\ \A c : Told(Out', c) <=> Told(Out, c)
         /\ \A op : Stands(Out', op) => op \in {"ConfirmStatus", "HandleEvent"}
         /\ \A x : ~Held(Out', x) /\ ~With(Out', "ApplyStatus", x)
                   /\ ~With(Out', "Commit", x) /\ ~With(Out', "Report", x)
<1>1. Io = <<>> /\ Io' = <<>> /\ "output" \in Threads
  BY DEF Plainly, Continue, Handlers, Out, Io, Threads
<1>2. OutForm(Out') /\ (Out' # <<>> => Head(Out') \in Step)
  BY DEF Forms, Handlers, Out, Threads
<1>3. Out' = Tail(Out)
  BY <1>1, Proceeds DEF Out
<1> DEFINE C == <<ConfirmStatus>>
           E(e) == <<HandleEvent(e)>>
<1>4. /\ C # <<>> /\ Head(C).op = "ConfirmStatus"
      /\ \A e : E(e) # <<>> /\ Head(E(e)).op = "HandleEvent" /\ Head(E(e)).event = e
  <2>1. \A e : HandleEvent(e).op = "HandleEvent" /\ HandleEvent(e).event = e
    BY DEF HandleEvent
  <2>2. ASSUME NEW a PROVE <<a>> # <<>> /\ Head(<<a>>) = a
    BY ShortHandlers
  <2>3. ConfirmStatus.op = "ConfirmStatus"
    BY DEF ConfirmStatus
  <2> HIDE DEF HandleEvent, ConfirmStatus
  <2> QED BY <2>1, <2>2, <2>3
<1>5. /\ \A s \in RegulatorState : ~Changing(Out, s)
      /\ \/ Tail(Out) = C /\ Confirming(Out) /\ \A c : ~Told(Out, c)
         \/ Tail(Out) = <<>> /\ ~Confirming(Out) /\ \A c : ~Told(Out, c)
         \/ \E e \in Sent : /\ Tail(Out) = E(e) /\ ~Confirming(Out)
                            /\ \A c : Told(Out, c) <=> e.change = c
  BY OutHandling
<1> HIDE DEF C, E
<1>6. \A op : Stands(Out', op) => op \in {"ConfirmStatus", "HandleEvent"}
  BY <1>3, <1>4, <1>5 DEF Stands
<1>7. \A x : ~Held(Out', x) /\ ~With(Out', "ApplyStatus", x)
             /\ ~With(Out', "Commit", x) /\ ~With(Out', "Report", x)
  BY <1>6 DEF Held, With
<1>8. \/ Out' = <<>> /\ Tail(Out) = <<>>
      \/ Out' # <<>> /\ Head(Out').op = "ConfirmStatus" /\ Tail(Out) = C
      \/ \E e \in Sent : Out' # <<>> /\ Head(Out').op = "HandleEvent" /\ Head(Out').event = e
                         /\ Tail(Out) = E(e)
  BY <1>3, <1>4, <1>5
<1>9. /\ \A s \in RegulatorState : ~Changing(Out', s)
      /\ Out' = <<>> => ~Confirming(Out') /\ \A c : ~Told(Out', c)
      /\ Out' # <<>> /\ Head(Out').op = "ConfirmStatus"
           => Confirming(Out') /\ \A c : ~Told(Out', c)
      /\ Out' # <<>> /\ Head(Out').op = "HandleEvent"
           => ~Confirming(Out') /\ \A c : Told(Out', c) <=> Head(Out').event.change = c
  <2>1. \A s \in RegulatorState : ~Changing(Out', s)
    BY <1>2, <1>8, OutTable
  <2>2. /\ Out' = <<>> => ~Confirming(Out')
        /\ Out' # <<>> /\ Head(Out').op = "ConfirmStatus" => Confirming(Out')
        /\ Out' # <<>> /\ Head(Out').op = "HandleEvent" => ~Confirming(Out')
    BY <1>2, OutTable
  <2>3. /\ Out' = <<>> => \A c : ~Told(Out', c)
        /\ Out' # <<>> /\ Head(Out').op = "ConfirmStatus" => \A c : ~Told(Out', c)
        /\ Out' # <<>> /\ Head(Out').op = "HandleEvent"
             => \A c : Told(Out', c) <=> Head(Out').event.change = c
    BY <1>2, TellingTable
  <2> QED BY <2>1, <2>2, <2>3
<1>10. (Confirming(Out') <=> Confirming(Out)) /\ \A c : Told(Out', c) <=> Told(Out, c)
  <2>1. CASE Tail(Out) = C
    BY <1>3, <1>4, <1>5, <1>9, <2>1
  <2>2. CASE Tail(Out) = <<>>
    BY <1>3, <1>4, <1>5, <1>9, <2>2
  <2>3. CASE \E e \in Sent : /\ Tail(Out) = E(e) /\ ~Confirming(Out)
                             /\ \A c : Told(Out, c) <=> e.change = c
    BY <1>3, <1>4, <1>9, <2>3
  <2> QED BY <1>5, <2>1, <2>2, <2>3
<1> QED BY <1>1, <1>5, <1>6, <1>7, <1>9, <1>10

(* It goes on with another. *)
LEMMA OutMoves ==
  ASSUME Handlers, Handlers', Forms, Forms', Plainly, Out # <<>>,
         Head(Out).op \in StatusOps \cup {"ReadStatus"},
         NEW x \in Step, Continue("output", <<x>>), x.op \in StatusOps
  PROVE  /\ Io = <<>> /\ Io' = <<>>
         /\ \A s \in RegulatorState : ~Changing(Out, s) /\ ~Changing(Out', s)
         /\ Confirming(Out') <=> Confirming(Out)
         /\ \A c : Told(Out', c) <=> Told(Out, c)
         /\ Out' # <<>> /\ Head(Out') = x
         /\ \A op : Stands(Out', op) <=> x.op = op
         /\ \A op : \A s : With(Out', op, s) <=> x.op = op /\ x.status = s
         /\ \A s : Held(Out', s) <=> x.op \in {"ApplyStatus", "Commit"} /\ x.status = s
<1>1. Io = <<>> /\ Io' = <<>> /\ "output" \in Threads
  BY DEF Plainly, Continue, Handlers, Out, Io, Threads
<1>2. OutForm(Out') /\ (Out' # <<>> => Head(Out') \in Step)
  BY DEF Forms, Handlers, Out, Threads
<1>3. Out' # <<>> /\ Head(Out') = x /\ Tail(Out') = Tail(Out)
  BY <1>1, Proceeds DEF Out
<1>4. \A s \in RegulatorState : ~Changing(Out, s)
  BY OutHandling
<1>5. \A s \in RegulatorState : ~Changing(Out', s)
  BY <1>2, <1>3, OutTable
<1>6. Confirming(Out') <=> Confirming(Out)
  BY <1>3 DEF Confirming, StatusOps
<1>7. \A c : Told(Out', c) <=> Told(Out, c)
  BY <1>3 DEF Told, Stands, StatusOps
<1>8. /\ \A op : Stands(Out', op) <=> x.op = op
      /\ \A op : \A s : With(Out', op, s) <=> x.op = op /\ x.status = s
      /\ \A s : Held(Out', s) <=> x.op \in {"ApplyStatus", "Commit"} /\ x.status = s
  BY <1>3, Fronts DEF StatusOps
<1> QED BY <1>1, <1>3, <1>4, <1>5, <1>6, <1>7, <1>8

(* A fault that statusShadow knows of, and that no thread is about to report, is
   reported, or io is going to. *)
LEMMA ErrorIsShown ==
  ASSUME Inv, Forms, ~Reporting, statusShadow = "error", Io = <<>>
  PROVE  /\ LastNoise = <<SetSignals("error")>> \/ (LastNoise = <<>> /\ signal["fault"] = 1)
         /\ FaultComing
<1> DEFINE E == <<SetSignals("error")>>
           q == queue["io"]
<1>1. LastShown = E \/ (LastShown = <<>> /\ signal["fault"] = 1)
  BY DEF Inv, StatusInv, Follows, Fits
<1>2. Now = <<>> /\ Loud(Io) = <<>> /\ q \in Seq(IoHandlers)
  BY DEF Now, Loud, At, Stands, Io, Forms
<1>3. /\ E \in Noisy /\ \A h \in Shows : h # <<>>
      /\ \A h \in Noisy : h \in Shows
  <2>1. \A h \in Shows : h # <<>>
    BY ShortHandlers DEF Shows
  <2>2. \A h \in Noisy : h \in Shows
    BY DEF Noisy, Shows, Shown
  <2>3. E \in Noisy
    BY DEF Noisy
  <2> QED BY <2>1, <2>2, <2>3
<1> HIDE DEF E
<1>4. LastNoise = E \/ (LastNoise = <<>> /\ signal["fault"] = 1)
  <2>1. LastShown = LastIn(q, Shows, <<>>) /\ LastNoise = LastIn(q, Noisy, <<>>)
    BY <1>2 DEF LastShown, LastNoise
  <2> HIDE DEF q
  <2>2. CASE \A i \in 1 .. Len(q) : q[i] \notin Shows
    <3>1. \A i \in 1 .. Len(q) : q[i] \notin Noisy
      BY <1>3, <2>2
    <3>2. LastShown = <<>> /\ LastNoise = <<>>
      BY <1>2, <2>1, <2>2, <3>1, LastInNone
    <3> QED BY <1>1, <1>3, <3>2
  <2>3. ASSUME NEW i \in 1 .. Len(q), q[i] \in Shows,
               \A j \in 1 .. Len(q) : j > i => q[j] \notin Shows
        PROVE  LastNoise = E
    <3>1. LastShown = q[i]
      BY <1>2, <2>1, <2>3, LastInIs
    <3>2. q[i] = E
      BY <1>1, <1>3, <2>3, <3>1
    <3>3. \A j \in 1 .. Len(q) : j > i => q[j] \notin Noisy
      BY <1>3, <2>3
    <3>4. LastNoise = q[i]
      BY <1>2, <1>3, <2>1, <3>2, <3>3, LastInIs
    <3> QED BY <3>2, <3>4
  <2> QED BY <1>2, <2>2, <2>3, LastInCases
<1> QED BY <1>4 DEF FaultComing, E

(* The output thread goes on with a status, and posts nothing. *)
LEMMA OutCalm ==
  ASSUME Inv, Inv', Forms, Forms', Plainly, Out # <<>>,
         Head(Out).op \in {"ReadStatus", "ApplyStatus", "Commit"},
         \/ Continue("output", <<>>) /\ Head(Out).op = "ApplyStatus"
         \/ \E x \in Step : Continue("output", <<x>>) /\ x.op \in StatusOps
                            /\ (x.op = "Report" <=> Head(Out).op = "Commit"),
         UNCHANGED <<newLevel, stateShadow, pendingNewLevel, retries, armed, signal,
                     queue, alarm, hw, netlink>>,
         Decided(Out)', \A y : With(Out', "Report", y) => With(Out, "Commit", y),
         With(Out, "Commit", "error") => With(Out', "Report", "error"),
         \E x : Reading(x) \/ Skipping(x) \/ Taking(x) \/ Committing(x)
  PROVE  OutFrame /\ OutKeep
<1>1. Handlers /\ Handlers' /\ Head(Out).op \in StatusOps \cup {"ReadStatus"}
  BY DEF Inv, Types, StatusOps
<1>2. /\ Io = <<>> /\ Io' = <<>>
      /\ \A s \in RegulatorState : ~Changing(Out, s) /\ ~Changing(Out', s)
      /\ Confirming(Out') <=> Confirming(Out)
      /\ \A c : Told(Out', c) <=> Told(Out, c)
      /\ \A op \in {"Apply", "StartTimer", "ReadStatus"} \cup WriteOps : ~Stands(Out', op)
      /\ Stands(Out', "Report") <=> Head(Out).op = "Commit"
  <2>1. CASE Continue("output", <<>>) /\ Head(Out).op = "ApplyStatus"
    <3>1. /\ Io = <<>> /\ Io' = <<>>
          /\ \A s \in RegulatorState : ~Changing(Out, s) /\ ~Changing(Out', s)
          /\ Confirming(Out') <=> Confirming(Out)
          /\ \A c : Told(Out', c) <=> Told(Out, c)
          /\ \A op : Stands(Out', op) => op \in {"ConfirmStatus", "HandleEvent"}
      BY <1>1, <2>1, OutEnds
    <3> QED BY <2>1, <3>1 DEF WriteOps
  <2>2. ASSUME NEW x \in Step, Continue("output", <<x>>), x.op \in StatusOps,
               x.op = "Report" <=> Head(Out).op = "Commit"
        PROVE  /\ Io = <<>> /\ Io' = <<>>
               /\ \A s \in RegulatorState : ~Changing(Out, s) /\ ~Changing(Out', s)
               /\ Confirming(Out') <=> Confirming(Out)
               /\ \A c : Told(Out', c) <=> Told(Out, c)
               /\ \A op \in {"Apply", "StartTimer", "ReadStatus"} \cup WriteOps : ~Stands(Out', op)
               /\ Stands(Out', "Report") <=> Head(Out).op = "Commit"
    <3>1. /\ Io = <<>> /\ Io' = <<>>
          /\ \A s \in RegulatorState : ~Changing(Out, s) /\ ~Changing(Out', s)
          /\ Confirming(Out') <=> Confirming(Out)
          /\ \A c : Told(Out', c) <=> Told(Out, c)
          /\ \A op : Stands(Out', op) <=> x.op = op
      BY <1>1, <2>2, OutMoves
    <3>2. x.op \notin {"Apply", "StartTimer", "ReadStatus"} \cup WriteOps
      BY <2>2 DEF StatusOps, WriteOps
    <3> QED BY <2>2, <3>1, <3>2
  <2> QED BY <2>1, <2>2
<1>3. /\ \A op \in {"Apply", "StartTimer"} \cup WriteOps : ~Stands(Out, op)
      /\ ~Stands(Out, "Report")
  BY DEF Stands, WriteOps
<1>4. Stands(Out, "ReadStatus") => Confirming(Out)
  <2>1. OutForm(Out) /\ Head(Out) \in Step
    BY <1>1 DEF Forms, Handlers, Out, Threads
  <2> QED BY <2>1, OutTable DEF Stands
<1>5. /\ \A op, x : ~With(Io, op, x)
      /\ \A op, x : ~With(Io', op, x)
      /\ \A op : ~Stands(Io, op) /\ ~Stands(Io', op)
  BY <1>2, NoHandler
<1>6. queue' = queue /\ signal' = signal
  OBVIOUS
<1>7. /\ \A op : At("output", op) <=> Stands(Out, op)
      /\ \A op : At("output", op)' <=> Stands(Out', op)
      /\ \A op : At("io", op) <=> Stands(Io, op)
      /\ \A op : At("io", op)' <=> Stands(Io', op)
  BY DEF At, Stands, Out, Io
<1>8. /\ Now' = <<>> /\ Now = <<>> /\ Loud(Io)' = <<>> /\ Loud(Io) = <<>>
      /\ ~Reporting /\ (Reporting' <=> Head(Out).op = "Commit")
  BY <1>2, <1>3, <1>5, <1>7 DEF Now, Loud, Reporting
<1>9. LastNoise' = LastNoise /\ LastShown' = LastShown /\ LastSet' = LastSet
  BY <1>6, <1>8 DEF LastNoise, LastShown, LastSet
<1>10. /\ \A y : Reports(y)' <=> With(Out', "Report", y)
       /\ \A y : Reports(y) <=> With(Out, "Report", y)
       /\ \A y : Commits(y) <=> With(Out, "Commit", y)
  BY <1>5 DEF Reports, Commits
<1>11. OutFrame
  <2>1. ErrorShows' => ErrorShows \/ With(Out, "Commit", "error")
    BY <1>5, <1>6, <1>10 DEF ErrorShows
  <2>2. \A op \in {"Apply", "StartTimer"} \cup WriteOps : ~Stands(Out, op) /\ ~Stands(Out', op)
    BY <1>2, <1>3 DEF WriteOps
  <2>3. \E x : Reading(x) \/ Skipping(x) \/ Taking(x) \/ Committing(x) \/ Reported(x)
    OBVIOUS
  <2> HIDE DEF Reading, Skipping, Taking, Committing, Reported, Decided
  <2> QED BY <1>2, <1>4, <1>6, <2>1, <2>2, <2>3 DEF OutFrame
<1>12. OutKeep
  <2>1. ~Reports("error")
    BY <1>3, <1>10 DEF With
  <2>2. With(Out, "Commit", "error") => FaultComing'
    BY <1>10 DEF FaultComing
  <2>3. FaultComing => FaultComing'
    BY <1>6, <1>9, <1>10, <2>1, <2>2 DEF FaultComing
  <2>4. statusShadow = "error" => FaultComing
    BY <1>2, <1>8, ErrorIsShown
  <2>5. ~Reporting' => statusShadow' = statusShadow
    BY <1>8 DEF Reading, Skipping, Taking, Committing, With, Stands
  <2>6. ~Writes(Io, 0)
    BY <1>2 DEF Writes
  <2>7. /\ ~Reporting' /\ statusShadow' = "on" /\ ShowsEnabled
           /\ hw.state = "enabled" /\ ~hw.broken
           => LastShown' = <<SetSignals("on")>> \/ signal'["enabled"] = 1
    BY <1>6, <1>8, <1>9, <2>5 DEF ShowsEnabled
  <2>8. ~Reporting' /\ statusShadow' = "off" /\ ShowsDisabled /\ hw.state = "disabled" =>
           \/ Tells0
           \/ LastSet' \in Zeros
           \/ LastSet' = <<>> /\ signal'["enabled"] = 0
    BY <1>6, <1>8, <1>9, <2>5, <2>6 DEF ShowsDisabled
  <2> QED BY <1>2, <1>6, <2>2, <2>3, <2>4, <2>7, <2>8 DEF OutKeep
<1> QED BY <1>11, <1>12

(* The output thread reads, applies or commits a status. *)
LEMMA OutHandles ==
  ASSUME Inv, Inv', Forms, Forms', Plainly, Decides, hw.reports,
         RunApplyStatus("output") \/ RunCommit("output") \/ RunReadStatus("output")
  PROVE  OutFrame /\ OutKeep
<1>1. Handlers /\ Handlers' /\ "output" \in Threads
  BY DEF Inv, Types, Threads
<1>2. /\ Out # <<>> /\ Head(Out) \in Step
      /\ UNCHANGED <<newLevel, stateShadow, pendingNewLevel, retries, armed, signal,
                     queue, alarm, hw, netlink>>
      /\ Head(Out).op \in {"ReadStatus", "ApplyStatus", "Commit"}
  BY <1>1 DEF RunApplyStatus, RunCommit, RunReadStatus, At, outside, shadows, Handlers, Out
<1>3. Head(Out).op \in StatusOps \cup {"ReadStatus"}
  BY <1>2 DEF StatusOps
<1>4. ASSUME NEW x \in Step, Continue("output", <<x>>), x.op \in StatusOps
      PROVE  /\ Out' # <<>> /\ Head(Out') = x
             /\ \A op : Stands(Out', op) <=> x.op = op
             /\ \A op : \A s : With(Out', op, s) <=> x.op = op /\ x.status = s
             /\ \A s : Held(Out', s) <=> x.op \in {"ApplyStatus", "Commit"} /\ x.status = s
  BY <1>1, <1>2, <1>3, <1>4, OutMoves
<1>5. /\ \A op : Stands(Out, op) <=> Head(Out).op = op
      /\ \A op : \A x : With(Out, op, x) <=> Head(Out).op = op /\ Head(Out).status = x
      /\ \A x : Held(Out, x) <=>
           Head(Out).op \in {"ApplyStatus", "Commit", "CompareStatus"} /\ Head(Out).status = x
  BY <1>2, Fronts
<1>6. CASE RunApplyStatus("output")
  <2> DEFINE s == Head(Out).status
             c == Commit(s, Done(s))
  <2>1. Head(Out).op = "ApplyStatus"
    BY <1>6 DEF RunApplyStatus, At, Out
  <2>2. s = Head(run["output"]).status /\ s # "undefined"
    BY <1>5, <2>1 DEF Plainly, Holds, Out
  <2>3. /\ \/ /\ Continue("output", <<>>)
              /\ \/ s = statusShadow
                 \/ s = "error" /\ (pendingLevelChange \/ hw.state = "disabled")
           \/ /\ Continue("output", <<c>>) /\ c \in Step
              /\ s # statusShadow
              /\ s = "error" => ~pendingLevelChange /\ hw.state = "enabled"
        /\ UNCHANGED <<statusShadow, pendingLevelChange>>
    <3> HIDE DEF s
    <3> QED BY <1>1, <1>6, <2>2, Deciding
  <2>4. c.op = "Commit" /\ c.status = s /\ c.done = Done(s)
    BY DEF Commit
  <2>5. c.op \in StatusOps
    BY <2>4 DEF StatusOps
  <2>6. With(Out, "ApplyStatus", s) /\ ~With(Out, "Commit", "error")
    BY <1>5, <2>1
  <2> HIDE DEF c
  <2>7. CASE /\ Continue("output", <<>>)
             /\ \/ s = statusShadow
                \/ s = "error" /\ (pendingLevelChange \/ hw.state = "disabled")
    <3>1. /\ \A op : Stands(Out', op) => op \in {"ConfirmStatus", "HandleEvent"}
          /\ \A x : ~Held(Out', x) /\ ~With(Out', "Report", x)
      BY <1>1, <1>2, <1>3, <2>7, OutEnds
    <3>2. Decided(Out)'
      BY <3>1 DEF Decided
    <3>3. Skipping(s)
      BY <2>3, <2>6, <2>7, <3>1 DEF Skipping
    <3> QED BY <1>2, <2>1, <2>6, <2>7, <3>1, <3>2, <3>3, OutCalm
  <2>8. CASE /\ Continue("output", <<c>>) /\ c \in Step
             /\ s # statusShadow
             /\ s = "error" => ~pendingLevelChange /\ hw.state = "enabled"
    <3>1. /\ \A op : Stands(Out', op) <=> c.op = op
          /\ \A op : \A x : With(Out', op, x) <=> c.op = op /\ c.status = x
          /\ \A x : Held(Out', x) <=> c.op \in {"ApplyStatus", "Commit"} /\ c.status = x
          /\ Head(Out') = c
      BY <1>4, <2>5, <2>8
    <3>2. Decided(Out)'
      BY <1>2, <2>3, <2>4, <2>8, <3>1 DEF Decided, Done
    <3>3. Taking(s)
      BY <2>3, <2>4, <2>6, <2>8, <3>1 DEF Taking
    <3>4. \A y : ~With(Out', "Report", y)
      BY <2>4, <3>1
    <3>5. c.op = "Report" <=> Head(Out).op = "Commit"
      BY <2>1, <2>4
    <3>6. \E x : Reading(x) \/ Skipping(x) \/ Taking(x) \/ Committing(x)
      BY <3>3
    <3> QED BY <1>2, <2>1, <2>5, <2>6, <2>8, <3>2, <3>4, <3>5, <3>6, OutCalm
  <2> QED BY <2>3, <2>7, <2>8
<1>7. CASE RunCommit("output")
  <2> DEFINE s == Head(Out).status
             x == Report(s)
  <2>1. /\ Head(Out).op = "Commit" /\ Continue("output", <<x>>)
        /\ statusShadow' = s
        /\ pendingLevelChange' = (pendingLevelChange /\ ~Head(Out).done)
    BY <1>7 DEF RunCommit, At, Out
  <2>2. x \in Step
    BY <1>2, <2>1, SpecialForms, Known
  <2>3. x.op = "Report" /\ x.status = s
    BY DEF Report
  <2> HIDE DEF x
  <2>4. x.op \in StatusOps
    BY <2>3 DEF StatusOps
  <2>5. /\ \A op : Stands(Out', op) <=> x.op = op
        /\ \A op : \A y : With(Out', op, y) <=> x.op = op /\ x.status = y
        /\ \A y : ~Held(Out', y)
    BY <1>4, <2>1, <2>2, <2>3, <2>4
  <2>6. Decided(Out)'
    BY <2>3, <2>5 DEF Decided
  <2>7. Committing(s)
    BY <1>5, <2>1, <2>5 DEF Committing
  <2>8. /\ \A y : With(Out', "Report", y) => With(Out, "Commit", y)
        /\ With(Out, "Commit", "error") => With(Out', "Report", "error")
    BY <1>5, <2>1, <2>3, <2>5
  <2>9. \E y : Reading(y) \/ Skipping(y) \/ Taking(y) \/ Committing(y)
    BY <2>7
  <2> QED BY <1>2, <2>1, <2>2, <2>3, <2>4, <2>6, <2>8, <2>9, OutCalm
<1>8. CASE RunReadStatus("output")
  <2>1. Head(Out).op = "ReadStatus" /\ UNCHANGED <<statusShadow, pendingLevelChange>>
    BY <1>8 DEF RunReadStatus, At, Out, shadows
  <2>2. PICK s \in RegulatorStatus : Reads(s) /\ Continue("output", <<ApplyStatus(s)>>)
    BY <1>8 DEF RunReadStatus
  <2>3. s \in Decoded /\ (s = hw.status \/ s = "invalid")
    <3>1. Simple
      BY DEF Inv, Types
    <3> QED BY <3>1, <2>2, StatusIsDecoded DEF Reads, DecodeStatus
  <2> DEFINE x == ApplyStatus(s)
  <2>4. x \in Step /\ Continue("output", <<x>>) /\ x.op = "ApplyStatus" /\ x.status = s
    <3>1. x \in Step
      BY <2>3, Known
    <3> QED BY <2>2, <3>1 DEF ApplyStatus
  <2> HIDE DEF x
  <2>5. x.op \in StatusOps
    BY <2>4 DEF StatusOps
  <2>6. /\ \A op : Stands(Out', op) <=> x.op = op
        /\ \A op : \A y : With(Out', op, y) <=> x.op = op /\ x.status = y
        /\ \A y : Held(Out', y) <=> y = s
    BY <1>4, <2>4, <2>5
  <2>7. Decided(Out)'
    BY <2>4, <2>6 DEF Decided
  <2>8. Reading(s)
    BY <1>5, <2>1, <2>3, <2>6 DEF Reading
  <2>9. /\ \A y : ~With(Out', "Report", y)
        /\ ~With(Out, "Commit", "error")
    BY <1>5, <2>1, <2>4, <2>6
  <2>10. \E y : Reading(y) \/ Skipping(y) \/ Taking(y) \/ Committing(y)
    BY <2>8
  <2>11. x.op = "Report" <=> Head(Out).op = "Commit"
    BY <2>1, <2>4
  <2> QED BY <1>2, <2>1, <2>4, <2>5, <2>7, <2>9, <2>10, <2>11, OutCalm
<1> QED BY <1>6, <1>7, <1>8

(* The output thread reports a status. *)
LEMMA OutReports ==
  ASSUME Inv, Inv', Forms, Forms', Plainly, RunReport("output")
  PROVE  OutFrame /\ OutKeep
<1> DEFINE s == Head(Out).status
           h == <<SetSignals(s)>>
<1>1. Handlers /\ Handlers' /\ Queues /\ "io" \in Threads /\ "output" \in Threads
  BY DEF Inv, Types, Threads, Forms, Queues
<1>2. /\ Out # <<>> /\ Head(Out).op = "Report" /\ Head(Out) \in Step
      /\ Post("io", h) /\ Continue("output", <<>>)
      /\ UNCHANGED <<newLevel, stateShadow, statusShadow, pendingLevelChange,
                     pendingNewLevel, retries, armed, signal, alarm, hw, netlink>>
  BY <1>1 DEF RunReport, At, Out, shadows, outside, Handlers
<1>3. s \in Shown
  BY <1>2, SpecialForms
<1>4. s = statusShadow
  BY <1>1, <1>2 DEF Inv, StatusInv, Tells, At, Out
<1>5. /\ h \in IoHandlers
      /\ h \in Shows /\ (h \in Noisy <=> s # "invalid") /\ h \notin Disables
      /\ (h \in Zeros <=> s = "off") /\ (h \in Ones <=> s = "on")
      /\ h = <<SetSignals("error")>> <=> s = "error"
  BY <1>3, Kinds, KnownHandlers
<1>6. With(Out, "Report", s) /\ Head(Out).op \in StatusOps \cup {"ReadStatus"}
  BY <1>2 DEF With, Stands, StatusOps
<1>7. s = "on" => h = <<SetSignals("on")>>
  OBVIOUS
<1> HIDE DEF h, s
<1>8. /\ queue'["io"] = Append(queue["io"], h) /\ queue'["output"] = queue["output"]
      /\ ToSet(queue'["io"]) = ToSet(queue["io"]) \cup {h}
      /\ \A M, d : LastIn(queue'["io"], M, d) = IF h \in M THEN h ELSE LastIn(queue["io"], M, d)
  <2>1. queue'["io"] = Append(queue["io"], h) /\ queue'["output"] = queue["output"]
    BY <1>1, <1>2, <1>5, FormsPost
  <2> QED BY <1>1, <1>5, <2>1, ToSetAppend, LastInAppend DEF Queues
<1>9. /\ Io = <<>> /\ Io' = <<>>
      /\ \A u \in RegulatorState : ~Changing(Out, u) /\ ~Changing(Out', u)
      /\ Confirming(Out') <=> Confirming(Out)
      /\ \A c : Told(Out', c) <=> Told(Out, c)
      /\ \A op : Stands(Out', op) => op \in {"ConfirmStatus", "HandleEvent"}
      /\ \A x : ~Held(Out', x) /\ ~With(Out', "Commit", x) /\ ~With(Out', "Report", x)
  BY <1>1, <1>2, <1>6, OutEnds
<1>10. /\ \A op, x : ~With(Io, op, x)
       /\ \A op, x : ~With(Io', op, x)
       /\ \A op : ~Stands(Io, op) /\ ~Stands(Io', op)
  BY <1>9, NoHandler
<1>11. /\ ~Reporting' /\ Now' = <<>> /\ Loud(Io)' = <<>> /\ Loud(Io) = <<>> /\ Now = <<>>
  <2>1. /\ \A op : At("output", op)' <=> Stands(Out', op)
        /\ \A op : At("io", op) <=> Stands(Io, op)
        /\ \A op : At("io", op)' <=> Stands(Io', op)
    BY DEF At, Stands, Out, Io
  <2> QED BY <1>9, <1>10, <2>1 DEF Reporting, Now, Loud
<1>12. OutFrame
  <2>1. ErrorShows' => ErrorShows
    <3>1. s = "error" => ErrorShows
      BY <1>6 DEF ErrorShows, Reports
    <3> QED BY <1>5, <1>8, <1>9, <1>10, <3>1 DEF ErrorShows, Reports
  <2>2. Decided(Out)' /\ ~Stands(Out, "ReadStatus")
        /\ ~Stands(Out', "ReadStatus")
        /\ \A op \in {"Apply", "StartTimer"} \cup WriteOps : ~Stands(Out, op) /\ ~Stands(Out', op)
    BY <1>2, <1>9 DEF Decided, Stands, WriteOps
  <2>3. Reported(s)
    BY <1>2, <1>6, <1>9 DEF Reported
  <2> QED BY <1>2, <1>8, <1>9, <2>1, <2>2, <2>3 DEF OutFrame
<1>13. OutKeep
  <2>1. s \in {"on", "off"} => Reports(s)
    BY <1>6 DEF Reports
  <2>2. s = "error" => FaultComing'
    <3>1. s = "error" => LastNoise' = h
      BY <1>5, <1>8 DEF LastNoise
    <3> QED BY <1>5, <3>1 DEF FaultComing
  <2>3. ~Commits("error") /\ (Reports("error") => s = "error")
        /\ ~With(Out, "Commit", "error") /\ ~With(Out, "ApplyStatus", "error")
    BY <1>2, <1>10 DEF Commits, Reports, With, Stands, s
  <2>4. s = "invalid" /\ FaultComing => FaultComing'
    <3>1. s = "invalid" => LastNoise' = LastNoise
      BY <1>5, <1>8, <1>11 DEF LastNoise
    <3> QED BY <1>2, <2>3, <3>1 DEF FaultComing
  <2>5. FaultComing => FaultComing' \/ Reports("on") \/ Reports("off")
    BY <1>3, <2>1, <2>2, <2>4 DEF Shown
  <2>6. LastShown' = h /\ (s = "off" => LastSet' \in Zeros)
    BY <1>5, <1>8 DEF LastShown, LastSet
  <2> QED BY <1>2, <1>4, <1>5, <1>7, <1>8, <1>9, <2>3, <2>5, <2>6 DEF OutKeep
<1> QED BY <1>12, <1>13

(* The instruction that a thread comes to. *)
LEMMA AtStands ==
  /\ \A op : At("output", op) <=> Stands(Out, op)
  /\ \A op : At("output", op)' <=> Stands(Out', op)
  /\ \A op : At("io", op) <=> Stands(Io, op)
  /\ \A op : At("io", op)' <=> Stands(Io', op)
BY DEF At, Stands, Out, Io

(* It holds no status then, and has no event to tell of. *)
LEMMA OutDoing ==
  ASSUME NEW r, OutForm(r), r # <<>> => Head(r) \in Step,
         r # <<>> => Head(r).op \in Doing
  PROVE  /\ \A x : ~Held(r, x)
         /\ \A op \in StatusOps : \A x : ~With(r, op, x)
         /\ \A op \in StatusOps : ~Stands(r, op)
         /\ ~Stands(r, "HandleEvent")
         /\ Decided(r)
         /\ \A c : ~Told(r, c)
<1>1. \A op \in StatusOps : ~Stands(r, op)
  BY DEF Stands, StatusOps, Doing, WriteOps
<1>2. ~Stands(r, "CompareStatus") /\ ~Stands(r, "HandleEvent") /\ ~Stands(r, "Commit")
      /\ ~Stands(r, "ApplyStatus")
  BY <1>1 DEF Stands, StatusOps, Doing, WriteOps
<1>3. \A c : ~Told(r, c)
  BY TellingTable DEF Doing
<1> QED BY <1>1, <1>2, <1>3 DEF With, Held, Decided

(* Only the output thread may hold a status when io runs no handler. *)
LEMMA IoRests ==
  /\ Io = <<>> =>
       /\ \A x : Holds(x) <=> Held(Out, x)
       /\ \A x : Reports(x) <=> With(Out, "Report", x)
       /\ \A x : Commits(x) <=> With(Out, "Commit", x)
       /\ ~DisablesNow(Io) /\ Decided(Io)
       /\ ErrorShows <=> \/ <<SetSignals("error")>> \in ToSet(queue["io"])
                         \/ With(Out, "Report", "error")
  /\ Io' = <<>> =>
       /\ \A x : Holds(x)' <=> Held(Out', x)
       /\ \A x : Reports(x)' <=> With(Out', "Report", x)
       /\ \A x : Commits(x)' <=> With(Out', "Commit", x)
       /\ ~DisablesNow(Io') /\ Decided(Io)'
       /\ ErrorShows' <=> \/ <<SetSignals("error")>> \in ToSet(queue'["io"])
                          \/ With(Out', "Report", "error")
<1>1. ASSUME Io = <<>>
      PROVE  /\ \A x : Holds(x) <=> Held(Out, x)
             /\ \A x : Reports(x) <=> With(Out, "Report", x)
             /\ \A x : Commits(x) <=> With(Out, "Commit", x)
             /\ ~DisablesNow(Io) /\ Decided(Io)
             /\ ErrorShows <=> \/ <<SetSignals("error")>> \in ToSet(queue["io"])
                               \/ With(Out, "Report", "error")
  <2>1. /\ \A x : ~Held(Io, x)
        /\ \A op : \A x : ~With(Io, op, x)
        /\ \A op : ~Stands(Io, op)
    BY <1>1, NoHandler
  <2> QED BY <1>1, <2>1 DEF Holds, Reports, Commits, DisablesNow, Decided, ErrorShows
<1>2. ASSUME Io' = <<>>
      PROVE  /\ \A x : Holds(x)' <=> Held(Out', x)
             /\ \A x : Reports(x)' <=> With(Out', "Report", x)
             /\ \A x : Commits(x)' <=> With(Out', "Commit", x)
             /\ ~DisablesNow(Io') /\ Decided(Io)'
             /\ ErrorShows' <=> \/ <<SetSignals("error")>> \in ToSet(queue'["io"])
                                \/ With(Out', "Report", "error")
  <2>1. /\ \A x : ~Held(Io', x)
        /\ \A op : \A x : ~With(Io', op, x)
        /\ \A op : ~Stands(Io', op)
    BY <1>2, NoHandler
  <2> QED BY <1>2, <2>1 DEF Holds, Reports, Commits, DisablesNow, Decided, ErrorShows
<1> QED BY <1>1, <1>2

(* An event is sent: what that says of the events on their way. *)
LEMMA EventSent ==
  ASSUME Forms, NEW e \in Sent, netlink' = Append(netlink, e)
  PROVE  /\ FailureComing => FailureComing'
         /\ e.failure => FailureComing'
         /\ \A c : (\E i \in DOMAIN netlink' : netlink'[i].change = c) <=>
                    e.change = c \/ (\E i \in DOMAIN netlink : netlink[i].change = c)
         /\ \A i \in DOMAIN netlink : i \in DOMAIN netlink' /\ netlink'[i] = netlink[i]
         /\ \A i \in DOMAIN netlink' : i \in DOMAIN netlink \/ netlink'[i] = e
         /\ \E j \in DOMAIN netlink' :
              netlink'[j] = e /\ \A i \in DOMAIN netlink : j > i
<1>1. netlink \in Seq(Sent)
  BY DEF Forms
<1> DEFINE n == Len(netlink) + 1
<1>2. /\ n \in DOMAIN netlink' /\ netlink'[n] = e
      /\ \A i \in DOMAIN netlink : i \in DOMAIN netlink' /\ netlink'[i] = netlink[i] /\ n > i
      /\ \A i \in DOMAIN netlink' : i \in DOMAIN netlink \/ i = n
  BY <1>1
<1> HIDE DEF n
<1>3. FailureComing => FailureComing'
  BY <1>2 DEF FailureComing
<1>4. e.failure => FailureComing'
  BY <1>2 DEF FailureComing
<1>5. \A c : (\E i \in DOMAIN netlink' : netlink'[i].change = c) <=>
               e.change = c \/ (\E i \in DOMAIN netlink : netlink[i].change = c)
  BY <1>2
<1> QED BY <1>2, <1>3, <1>4, <1>5

(* So it is when it does an instruction of a change and io runs no handler. *)
LEMMA DoingHolds ==
  ASSUME Handlers, Handlers', Forms, Forms', Io = <<>>, Io' = <<>>,
         Out # <<>> => Head(Out).op \in Doing, Out' # <<>> => Head(Out').op \in Doing
  PROVE  Silent
<1>1. /\ OutForm(Out) /\ OutForm(Out')
      /\ Out # <<>> => Head(Out) \in Step
      /\ Out' # <<>> => Head(Out') \in Step
  <2>1. OutForm(Out) /\ OutForm(Out')
    BY DEF Forms
  <2> QED BY <2>1 DEF Handlers, Out, Threads
<1>2. /\ \A x : ~Held(Out, x)
      /\ \A op \in StatusOps : \A x : ~With(Out, op, x)
      /\ \A op \in StatusOps : ~Stands(Out, op)
      /\ \A c : ~Told(Out, c)
  BY <1>1, OutDoing
<1>3. /\ \A x : ~Held(Out', x)
      /\ \A op \in StatusOps : \A x : ~With(Out', op, x)
      /\ \A op \in StatusOps : ~Stands(Out', op)
      /\ \A c : ~Told(Out', c)
  BY <1>1, OutDoing
<1>4. \A x : ~Holds(x) /\ ~Holds(x)'
  BY <1>2, <1>3, IoRests
<1>5. ~ErrorNext /\ ~ErrorNext'
  BY <1>2, <1>3 DEF ErrorNext, StatusOps
<1>6. Decides'
  <2>1. ~Stands(Out', "Commit")
    BY <1>3 DEF StatusOps
  <2>2. Decided(Out)'
    BY <2>1 DEF Decided, Stands
  <2> QED BY <2>2, IoRests DEF Decides
<1>7. /\ ErrorShows <=> <<SetSignals("error")>> \in ToSet(queue["io"])
      /\ ErrorShows' <=> <<SetSignals("error")>> \in ToSet(queue'["io"])
  BY <1>2, <1>3, IoRests DEF StatusOps
<1>8. ~Reporting /\ ~Reporting'
  <2>1. ~Stands(Io, "Report") /\ ~Stands(Io', "Report")
    BY NoHandler
  <2> QED BY <1>2, <1>3, <2>1, AtStands DEF Reporting, StatusOps
<1>9. \A x : ~Reports(x) /\ ~Reports(x)'
  BY <1>2, <1>3, IoRests DEF StatusOps
<1>10. \A x : ~Commits(x) /\ ~Commits(x)'
  BY <1>2, <1>3, IoRests DEF StatusOps
<1> QED BY <1>2, <1>3, <1>4, <1>5, <1>6, <1>7, <1>8, <1>9, <1>10 DEF Silent

(* What is known of the threads where the output thread goes on. *)
LEMMA OutGoes ==
  ASSUME Handlers, Handlers', Forms, Forms', Out # <<>>,
         NEW more, Continue("output", more)
  PROVE  /\ OutForm(Out) /\ OutForm(Out') /\ Head(Out) \in Step
         /\ Out' # <<>> => Head(Out') \in Step
         /\ Plainly => Io = <<>> /\ Io' = <<>>
<1>1. /\ OutForm(Out) /\ OutForm(Out') /\ Head(Out) \in Step
      /\ Out' # <<>> => Head(Out') \in Step
  BY DEF Forms, Handlers, Out, Threads
<1>2. Io' = Io
  BY DEF Continue, Handlers, Threads, Io
<1> QED BY <1>1, <1>2 DEF Plainly

(* Apply finds the state as it was told, or starts a change. *)
LEMMA ApplyDoes ==
  ASSUME Inv, Inv', Forms, Forms', RunApply
  PROVE  /\ Asked \in RegulatorState /\ (Plainly => Silent)
         /\ Stands(Out, "Apply") /\ Out # <<>> /\ ~Confirming(Out)
         /\ \A op : Stands(Out, op) => op = "Apply"
         /\ \A u \in RegulatorState : ~Changing(Out, u)
         /\ UNCHANGED newLevel /\ UNCHANGED stateShadow /\ UNCHANGED statusShadow
         /\ UNCHANGED pendingLevelChange /\ UNCHANGED pendingNewLevel
         /\ UNCHANGED retries /\ UNCHANGED signal /\ UNCHANGED alarm
         /\ UNCHANGED hw /\ UNCHANGED netlink /\ UNCHANGED queue
         /\ \/ Asked = stateShadow /\ Out' = <<>> /\ UNCHANGED armed
            \/ Asked # stateShadow /\ ~armed' /\ Coming(Out', "SetState", Asked)
<1> DEFINE s == Asked
<1>1. /\ Out # <<>> /\ Head(Out).op = "Apply"
      /\ UNCHANGED newLevel /\ UNCHANGED stateShadow /\ UNCHANGED statusShadow
      /\ UNCHANGED pendingLevelChange /\ UNCHANGED pendingNewLevel
      /\ UNCHANGED retries /\ UNCHANGED signal /\ UNCHANGED alarm
      /\ UNCHANGED hw /\ UNCHANGED netlink /\ UNCHANGED queue
      /\ \/ s = stateShadow /\ Continue("output", <<>>) /\ UNCHANGED armed
         \/ /\ s # stateShadow /\ ~armed'
            /\ Continue("output", <<SetState(s), SetPending, StartTimer(s)>>)
  BY DEF RunApply, At, outside, Out, Asked
<1>2. Handlers /\ Handlers' /\ "output" \in Threads /\ s \in RegulatorState
  BY DEF Inv, Types, Threads, Asked, RegulatorState
<1>3. /\ OutForm(Out) /\ OutForm(Out') /\ Head(Out) \in Step
      /\ Out' # <<>> => Head(Out') \in Step
      /\ Plainly => Io = <<>> /\ Io' = <<>>
  BY <1>1, <1>2, OutGoes
<1>4. /\ Tail(Out) = <<>> /\ ~Confirming(Out) /\ \A u \in RegulatorState : ~Changing(Out, u)
      /\ \A op : Stands(Out, op) <=> op = "Apply"
  BY <1>1, <1>3, OutTable DEF Stands
<1> HIDE DEF s
<1>5. CASE s = stateShadow /\ Continue("output", <<>>) /\ UNCHANGED armed
  <2>1. Out' = <<>>
    BY <1>1, <1>2, <1>4, <1>5, Proceeds DEF Out
  <2>2. Plainly => Silent
    BY <1>1, <1>2, <1>3, <2>1, DoingHolds DEF Doing
  <2> QED BY <1>1, <1>2, <1>4, <1>5, <2>1, <2>2 DEF s
<1>6. CASE /\ s # stateShadow /\ ~armed'
           /\ Continue("output", <<SetState(s), SetPending, StartTimer(s)>>)
  <2>1. Out' # <<>> /\ Head(Out') = SetState(s)
    <3>1. {SetState(s), SetPending, StartTimer(s)} \subseteq Step
      BY <1>2, Known
    <3> QED BY <1>1, <1>2, <1>4, <1>6, <3>1, Proceeds DEF Out
  <2>2. Head(Out').op = "SetState" /\ Head(Out').state = s
    BY <2>1 DEF SetState
  <2>3. Coming(Out', "SetState", s)
    BY <1>3, <2>1, <2>2, OutTable DEF Coming, Stands, WriteOps
  <2>4. Plainly => Silent
    BY <1>1, <1>2, <1>3, <2>2, DoingHolds DEF Doing, WriteOps
  <2> QED BY <1>1, <1>2, <1>4, <1>6, <2>3, <2>4 DEF s
<1> QED BY <1>1, <1>5, <1>6

(* The state is written, and read back next. *)
LEMMA WriteDoes ==
  ASSUME Inv, Inv', Forms, Forms', Writing
  PROVE  \E s \in RegulatorState :
           /\ Plainly => Silent
           /\ UNCHANGED newLevel /\ UNCHANGED stateShadow /\ UNCHANGED statusShadow
           /\ UNCHANGED pendingLevelChange /\ UNCHANGED pendingNewLevel
           /\ UNCHANGED retries /\ UNCHANGED armed /\ UNCHANGED signal
           /\ UNCHANGED alarm /\ UNCHANGED queue /\ UNCHANGED refused
           /\ WriteState(s)
           /\ \/ Coming(Out, "SetState", s) /\ Coming(Out', "ReadState", s)
              \/ Coming(Out, "SetStateAgain", s) /\ Coming(Out', "ReadStateAgain", s)
<1> DEFINE s == Head(Out).state
<1>1. /\ Out # <<>> /\ Head(Out).op \in WriteOps
      /\ UNCHANGED newLevel /\ UNCHANGED stateShadow /\ UNCHANGED statusShadow
      /\ UNCHANGED pendingLevelChange /\ UNCHANGED pendingNewLevel
      /\ UNCHANGED retries /\ UNCHANGED armed /\ UNCHANGED signal /\ UNCHANGED alarm
      /\ UNCHANGED queue /\ UNCHANGED refused /\ WriteState(s)
      /\ \/ Head(Out).op = "SetState" /\ Continue("output", <<ReadState(s)>>)
         \/ Head(Out).op = "SetStateAgain" /\ Continue("output", <<ReadStateAgain(s)>>)
  BY DEF Writing, RunSetState, RunSetStateAgain, At, Out, WriteOps, shadows
<1>2. Handlers /\ Handlers' /\ "output" \in Threads
  BY DEF Inv, Types, Threads
<1>3. /\ OutForm(Out) /\ OutForm(Out') /\ Head(Out) \in Step
      /\ Out' # <<>> => Head(Out') \in Step
      /\ Plainly => Io = <<>> /\ Io' = <<>>
  BY <1>1, <1>2, OutGoes
<1>4. s \in RegulatorState
  BY <1>1, <1>3, Operands
<1>5. Coming(Out, Head(Out).op, s)
  BY <1>1, <1>3, OutTable DEF Coming, Stands
<1> HIDE DEF s
<1>6. ASSUME NEW x \in {ReadState(s), ReadStateAgain(s)}, Continue("output", <<x>>)
      PROVE  Coming(Out', x.op, s) /\ (Plainly => Silent)
  <2>1. x \in Step /\ x.op \in WriteOps /\ x.state = s
    <3>1. x \in Step
      BY <1>4, Known
    <3>2. x.op \in WriteOps /\ x.state = s
      BY DEF ReadState, ReadStateAgain, WriteOps
    <3> QED BY <3>1, <3>2
  <2>2. Out' # <<>> /\ Head(Out') = x
    BY <1>1, <1>2, <1>6, <2>1, Proceeds DEF Out
  <2>3. Coming(Out', x.op, s)
    BY <1>3, <2>1, <2>2, OutTable DEF Coming, Stands
  <2>4. Plainly => Silent
    BY <1>1, <1>2, <1>3, <2>1, <2>2, DoingHolds DEF Doing
  <2> QED BY <2>3, <2>4
<1>7. ReadState(s).op = "ReadState" /\ ReadStateAgain(s).op = "ReadStateAgain"
  BY DEF ReadState, ReadStateAgain
<1> QED BY <1>1, <1>4, <1>5, <1>6, <1>7

(* It is read back: the write is repeated where that is not what was written. *)
LEMMA ReadDoes ==
  ASSUME Inv, Inv', Forms, Forms', ReadingBack
  PROVE  \E s \in RegulatorState :
           /\ Plainly => Silent
           /\ UNCHANGED newLevel /\ UNCHANGED statusShadow
           /\ UNCHANGED pendingLevelChange /\ UNCHANGED pendingNewLevel
           /\ UNCHANGED retries /\ UNCHANGED armed /\ UNCHANGED signal
           /\ UNCHANGED alarm /\ UNCHANGED queue /\ UNCHANGED hw /\ UNCHANGED netlink
           /\ DecodeState
           /\ \/ /\ Coming(Out, "ReadState", s) /\ UNCHANGED refused
                 /\ \/ Coming(Out', "SetPending", s) /\ stateShadow' = s
                    \/ Coming(Out', "SetStateAgain", s) /\ stateShadow' # s
              \/ /\ Coming(Out, "ReadStateAgain", s) /\ Coming(Out', "SetPending", s)
                 /\ refused' = (refused \/ stateShadow' # s)
<1> DEFINE s == Head(Out).state
<1>1. /\ Out # <<>> /\ Head(Out).op \in WriteOps
      /\ UNCHANGED newLevel /\ UNCHANGED statusShadow
      /\ UNCHANGED pendingLevelChange /\ UNCHANGED pendingNewLevel
      /\ UNCHANGED retries /\ UNCHANGED armed /\ UNCHANGED signal /\ UNCHANGED alarm
      /\ UNCHANGED queue /\ UNCHANGED hw /\ UNCHANGED netlink /\ DecodeState
      /\ \/ /\ Head(Out).op = "ReadState" /\ UNCHANGED refused
            /\ \/ Continue("output", <<>>) /\ stateShadow' = s
               \/ Continue("output", <<SetStateAgain(s)>>) /\ stateShadow' # s
         \/ /\ Head(Out).op = "ReadStateAgain" /\ Continue("output", <<>>)
            /\ refused' = (refused \/ stateShadow' # s)
  BY DEF ReadingBack, RunReadState, RunReadStateAgain, At, Out, WriteOps, TriesAgain
<1>2. Handlers /\ Handlers' /\ "output" \in Threads
  BY DEF Inv, Types, Threads
<1>3. /\ OutForm(Out) /\ OutForm(Out') /\ Head(Out) \in Step
      /\ Out' # <<>> => Head(Out') \in Step
      /\ Plainly => Io = <<>> /\ Io' = <<>>
  BY <1>1, <1>2, OutGoes
<1>4. s \in RegulatorState /\ Tail(Out) = <<SetPending, StartTimer(s)>>
  BY <1>1, <1>3, Operands, OutTable
<1>5. Coming(Out, Head(Out).op, s)
  BY <1>1, <1>3, OutTable DEF Coming, Stands
<1> HIDE DEF s
<1>6. ASSUME Continue("output", <<>>)
      PROVE  Coming(Out', "SetPending", s) /\ (Plainly => Silent)
  <2>1. Out' = <<SetPending, StartTimer(s)>>
    BY <1>1, <1>2, <1>4, <1>6, Proceeds DEF Out
  <2>2. Out' # <<>> /\ Head(Out') = SetPending /\ Tail(Out') = <<StartTimer(s)>>
    BY <2>1, ShortHandlers
  <2>3. Head(Out').op = "SetPending"
    BY <2>2 DEF SetPending
  <2>4. PICK u \in RegulatorState :
           /\ Tail(Out') = <<StartTimer(u)>>
           /\ \A v \in RegulatorState : Changing(Out', v) <=> v = u
    BY <1>3, <2>2, <2>3, OutTable
  <2>5. u = s
    <3>1. <<StartTimer(u)>> = <<StartTimer(s)>> <=> u = s
      BY <1>4, Following, SentEvents
    <3> QED BY <2>2, <2>4, <3>1
  <2>6. Coming(Out', "SetPending", s)
    BY <1>3, <2>2, <2>3, <2>4, <2>5, OutTable DEF Coming, Stands
  <2>7. Plainly => Silent
    BY <1>1, <1>2, <1>3, <2>3, DoingHolds DEF Doing
  <2> QED BY <2>6, <2>7
<1>7. ASSUME Continue("output", <<SetStateAgain(s)>>)
      PROVE  Coming(Out', "SetStateAgain", s) /\ (Plainly => Silent)
  <2>1. SetStateAgain(s) \in Step
    BY <1>4, Known
  <2>2. Out' # <<>> /\ Head(Out') = SetStateAgain(s)
    BY <1>1, <1>2, <1>7, <2>1, Proceeds DEF Out
  <2>3. Head(Out').op = "SetStateAgain" /\ Head(Out').state = s
    BY <2>2 DEF SetStateAgain
  <2>4. Coming(Out', "SetStateAgain", s)
    BY <1>3, <2>2, <2>3, OutTable DEF Coming, Stands, WriteOps
  <2>5. Plainly => Silent
    BY <1>1, <1>2, <1>3, <2>3, DoingHolds DEF Doing, WriteOps
  <2> QED BY <2>4, <2>5
<1> QED BY <1>1, <1>4, <1>5, <1>6, <1>7

(* The change is marked as pending. *)
LEMMA PendDoes ==
  ASSUME Inv, Inv', Forms, Forms', RunSetPending
  PROVE  /\ Plainly => Silent
         /\ pendingLevelChange' = TRUE
         /\ UNCHANGED newLevel /\ UNCHANGED stateShadow /\ UNCHANGED statusShadow
         /\ UNCHANGED pendingNewLevel /\ UNCHANGED retries /\ UNCHANGED armed
         /\ UNCHANGED signal /\ UNCHANGED alarm /\ UNCHANGED hw /\ UNCHANGED netlink
         /\ UNCHANGED queue
         /\ \E s \in RegulatorState :
              Coming(Out, "SetPending", s) /\ Coming(Out', "StartTimer", s)
<1>1. /\ Out # <<>> /\ Head(Out).op = "SetPending" /\ pendingLevelChange' = TRUE
      /\ UNCHANGED newLevel /\ UNCHANGED stateShadow /\ UNCHANGED statusShadow
      /\ UNCHANGED pendingNewLevel /\ UNCHANGED retries /\ UNCHANGED armed
      /\ UNCHANGED signal /\ UNCHANGED alarm /\ UNCHANGED hw /\ UNCHANGED netlink
      /\ UNCHANGED queue
      /\ Continue("output", <<>>)
  BY DEF RunSetPending, At, outside, Out
<1>2. Handlers /\ Handlers' /\ "output" \in Threads
  BY DEF Inv, Types, Threads
<1>3. /\ OutForm(Out) /\ OutForm(Out') /\ Head(Out) \in Step
      /\ Out' # <<>> => Head(Out') \in Step
      /\ Plainly => Io = <<>> /\ Io' = <<>>
  BY <1>1, <1>2, OutGoes
<1>4. PICK s \in RegulatorState :
        /\ Tail(Out) = <<StartTimer(s)>>
        /\ \A u \in RegulatorState : Changing(Out, u) <=> u = s
  BY <1>1, <1>3, OutTable
<1>5. Out' # <<>> /\ Head(Out') = StartTimer(s)
  <2>1. Out' = <<StartTimer(s)>>
    BY <1>1, <1>2, <1>4, Proceeds DEF Out
  <2> QED BY <2>1, ShortHandlers
<1>6. Head(Out').op = "StartTimer" /\ Head(Out').state = s
  BY <1>5 DEF StartTimer
<1>7. Coming(Out, "SetPending", s) /\ Coming(Out', "StartTimer", s)
  BY <1>1, <1>3, <1>4, <1>5, <1>6, OutTable DEF Coming, Stands
<1>8. Plainly => Silent
  BY <1>1, <1>2, <1>3, <1>6, DoingHolds DEF Doing
<1> QED BY <1>1, <1>7, <1>8

(* The timer is started, and io told of the state. *)
LEMMA TimerDoes ==
  ASSUME Inv, Inv', Forms, Forms', RunStartTimer
  PROVE  /\ Plainly => Silent
         /\ retries' = Retries /\ armed' = TRUE
         /\ UNCHANGED newLevel /\ UNCHANGED stateShadow /\ UNCHANGED statusShadow
         /\ UNCHANGED pendingLevelChange
         /\ UNCHANGED signal /\ UNCHANGED alarm /\ UNCHANGED hw /\ UNCHANGED netlink
         /\ Post("io", <<SetEnabled(IF stateShadow = "enabled" THEN 1 ELSE 0)>>)
         /\ \E s \in RegulatorState : pendingNewLevel' = s /\ Coming(Out, "StartTimer", s)
         /\ Out' = <<>>
<1> DEFINE s == Head(Out).state
<1>1. /\ Out # <<>> /\ Head(Out).op = "StartTimer"
      /\ pendingNewLevel' = s /\ retries' = Retries /\ armed' = TRUE
      /\ UNCHANGED newLevel /\ UNCHANGED stateShadow /\ UNCHANGED statusShadow
      /\ UNCHANGED pendingLevelChange
      /\ UNCHANGED signal /\ UNCHANGED alarm /\ UNCHANGED hw /\ UNCHANGED netlink
      /\ Post("io", <<SetEnabled(IF stateShadow = "enabled" THEN 1 ELSE 0)>>)
      /\ Continue("output", <<>>)
  BY DEF RunStartTimer, At, outside, Out
<1>2. Handlers /\ Handlers' /\ "output" \in Threads
  BY DEF Inv, Types, Threads
<1>3. OutForm(Out) /\ Head(Out) \in Step /\ (Plainly => Io = <<>> /\ Io' = <<>>)
  BY <1>1, <1>2, OutGoes
<1>4. s \in RegulatorState /\ Coming(Out, "StartTimer", s)
  BY <1>1, <1>3, Operands, OutTable DEF Coming, Stands
<1>5. Out' = <<>>
  BY <1>1, <1>2, <1>3, OutTable, Proceeds DEF Out
<1>6. Plainly => Silent
  BY <1>1, <1>2, <1>3, <1>5, DoingHolds DEF Doing
<1> QED BY <1>1, <1>4, <1>5, <1>6

(* A change is confirmed, checked again later, or given up. *)
LEMMA ConfirmDoes ==
  ASSUME Inv, Inv', Forms, Forms', RunConfirmStatus
  PROVE  /\ Plainly => Io = <<>> /\ Io' = <<>>
         /\ UNCHANGED newLevel /\ UNCHANGED stateShadow /\ UNCHANGED statusShadow
         /\ UNCHANGED pendingNewLevel /\ UNCHANGED signal /\ UNCHANGED alarm
         /\ UNCHANGED hw /\ UNCHANGED netlink /\ UNCHANGED queue
         /\ Out # <<>> /\ Confirming(Out) /\ \A u \in RegulatorState : ~Changing(Out, u)
         /\ \A op : Stands(Out, op) <=> op = "ConfirmStatus"
         /\ \A x : ~Held(Out, x)
         /\ \A c : ~Told(Out, c)
         /\ \/ /\ Out' = <<>> /\ UNCHANGED pendingLevelChange
               /\ \/ Confirmed /\ UNCHANGED armed /\ UNCHANGED retries
                  \/ retries > 0 /\ armed' = TRUE
            \/ /\ Out' # <<>> /\ ~(retries > 0) /\ pendingLevelChange' = FALSE
               /\ UNCHANGED armed /\ UNCHANGED retries
               /\ \A op : Stands(Out', op) <=> op = "ApplyStatus"
               /\ \A op : \A x : With(Out', op, x) <=> op = "ApplyStatus" /\ x = "error"
               /\ \A x : Held(Out', x) <=> x = "error"
               /\ \A u \in RegulatorState : ~Changing(Out', u)
               /\ ~Confirming(Out')
               /\ \A c : ~Told(Out', c)
<1>1. /\ Out # <<>> /\ Head(Out).op = "ConfirmStatus"
      /\ UNCHANGED newLevel /\ UNCHANGED stateShadow /\ UNCHANGED statusShadow
      /\ UNCHANGED pendingNewLevel
      /\ UNCHANGED signal /\ UNCHANGED alarm /\ UNCHANGED hw /\ UNCHANGED netlink
      /\ UNCHANGED queue
      /\ \/ /\ Continue("output", <<>>) /\ UNCHANGED pendingLevelChange
            /\ \/ Confirmed /\ UNCHANGED armed /\ UNCHANGED retries
               \/ retries > 0 /\ armed' = TRUE
         \/ /\ ~(retries > 0) /\ Continue("output", <<ApplyStatus("error")>>)
            /\ pendingLevelChange' = FALSE /\ UNCHANGED armed /\ UNCHANGED retries
  BY DEF RunConfirmStatus, At, outside, Out, MayRetry
<1>2. Handlers /\ Handlers' /\ "output" \in Threads
  BY DEF Inv, Types, Threads
<1>3. /\ OutForm(Out) /\ OutForm(Out') /\ Head(Out) \in Step
      /\ Out' # <<>> => Head(Out') \in Step
      /\ Plainly => Io = <<>> /\ Io' = <<>>
  BY <1>1, <1>2, OutGoes
<1>4. Tail(Out) = <<>> /\ Confirming(Out) /\ \A u \in RegulatorState : ~Changing(Out, u)
  BY <1>1, <1>3, OutTable
<1>5. /\ \A op : Stands(Out, op) <=> op = "ConfirmStatus"
      /\ \A x : ~Held(Out, x)
      /\ \A c : ~Told(Out, c)
  BY <1>1, <1>3, OutDoing DEF Doing, Stands
<1>6. CASE /\ Continue("output", <<>>) /\ UNCHANGED pendingLevelChange
           /\ \/ Confirmed /\ UNCHANGED armed /\ UNCHANGED retries
              \/ retries > 0 /\ armed' = TRUE
  <2>1. Out' = <<>>
    BY <1>1, <1>2, <1>4, <1>6, Proceeds DEF Out
  <2> QED BY <1>1, <1>3, <1>4, <1>5, <1>6, <2>1
<1>7. CASE /\ ~(retries > 0) /\ Continue("output", <<ApplyStatus("error")>>)
           /\ pendingLevelChange' = FALSE /\ UNCHANGED armed /\ UNCHANGED retries
  <2> DEFINE i == ApplyStatus("error")
  <2>1. i \in Step /\ i.op = "ApplyStatus" /\ i.status = "error"
    <3>1. i \in Step
      BY Known DEF Decoded
    <3> QED BY <3>1 DEF ApplyStatus
  <2>2. Continue("output", <<i>>)
    BY <1>7
  <2> HIDE DEF i
  <2>3. Out' # <<>> /\ Head(Out') = i /\ Tail(Out') = <<>>
    BY <1>1, <1>2, <1>4, <2>1, <2>2, Proceeds DEF Out
  <2>4. /\ \A op : Stands(Out', op) <=> op = "ApplyStatus"
        /\ \A op : \A x : With(Out', op, x) <=> op = "ApplyStatus" /\ x = "error"
        /\ \A x : Held(Out', x) <=> x = "error"
    <3>1. \A op : Stands(Out', op) <=> op = "ApplyStatus"
      BY <2>1, <2>3 DEF Stands
    <3>2. \A op : \A x : With(Out', op, x) <=> op = "ApplyStatus" /\ x = "error"
      BY <2>1, <2>3, <3>1 DEF With
    <3> QED BY <3>1, <3>2 DEF Held
  <2>5. /\ \A u \in RegulatorState : ~Changing(Out', u)
        /\ ~Confirming(Out')
        /\ \A c : ~Told(Out', c)
    <3>1. Tail(Out') # <<ConfirmStatus>> /\ ~(\E e \in Sent : Tail(Out') = <<HandleEvent(e)>>)
      BY <2>3, ShortHandlers
    <3>2. \A u \in RegulatorState : ~Changing(Out', u)
      BY <1>3, <2>1, <2>3, OutTable DEF StatusOps
    <3>3. ~Confirming(Out')
      BY <2>1, <2>3, <3>1 DEF Confirming
    <3>4. \A c : ~Told(Out', c)
      BY <2>4, <3>1, Zenon DEF Told
    <3> QED BY <3>2, <3>3, <3>4
  <2> QED BY <1>1, <1>3, <1>4, <1>5, <1>7, <2>3, <2>4, <2>5
<1> QED BY <1>1, <1>6, <1>7

(* Handlers that have overlapped stay so, and a driver reports its status or not. *)
LEMMA AloneBefore ==
  ASSUME Inv, [Next]_vars
  PROVE  Alone' => Alone
<1>1. hw \in [state : RegulatorState, status : {"off", "on", "error"},
              broken : BOOLEAN, reports : BOOLEAN]
      /\ overlapped \in BOOLEAN /\ refused \in BOOLEAN
  BY DEF Inv, Types, Simple
<1>2. overlapped' \in BOOLEAN /\ refused' \in BOOLEAN
  BY NextKeepsInv DEF Inv, Types, Simple
<1>3. CASE IoThread
  <2>1. UNCHANGED hw /\ UNCHANGED refused
    BY <1>3 DEF IoThread, Start, RunApplyStatus, RunCommit, RunReport, RunReadStatus,
      RunCheckLater, RunCheckStatus, RunCompareStatus, RunSetEnabled, RunSetSignals,
      outside
  <2>2. overlapped' = FALSE => overlapped = FALSE
    BY <1>1, <1>3 DEF IoThread, Start, RunApplyStatus, RunCommit, RunReport, RunReadStatus,
      RunCheckLater, RunCheckStatus, RunCompareStatus, RunSetEnabled, RunSetSignals,
      outside
  <2> QED BY <1>1, <1>2, <2>1, <2>2 DEF Alone
<1>4. CASE OutputThread
  <2>1. hw'.reports = hw.reports
    <3>1. UNCHANGED hw \/ \E s : hw' = [hw EXCEPT !.state = s]
      BY <1>4 DEF OutputThread, Start, StartEvent, RunApplyStatus, RunCommit, RunReport,
        RunReadStatus, RunApply, RunSetState, RunSetStateAgain, RunReadState,
        RunReadStateAgain, WriteState, RunSetPending, RunStartTimer, RunConfirmStatus,
        RunHandleEvent, outside
    <3> QED BY <1>1, <3>1
  <2>2. overlapped' = FALSE => overlapped = FALSE
    BY <1>1, <1>4 DEF OutputThread, Start, StartEvent, RunApplyStatus, RunCommit, RunReport,
        RunReadStatus, RunApply, RunSetState, RunSetStateAgain, RunReadState,
        RunReadStateAgain, RunSetPending, RunStartTimer, RunConfirmStatus,
        RunHandleEvent, outside
  <2>3. refused' = FALSE => refused = FALSE
    BY <1>1, <1>4 DEF OutputThread, Start, StartEvent, RunApplyStatus, RunCommit, RunReport,
        RunReadStatus, RunApply, RunSetState, RunSetStateAgain, RunReadState,
        RunReadStateAgain, RunSetPending, RunStartTimer, RunConfirmStatus,
        RunHandleEvent, outside
  <2> QED BY <1>1, <1>2, <2>1, <2>2, <2>3 DEF Alone
<1>5. CASE Expire \/ Requests \/ Alarm \/ HwSettles \/ HwSwings \/ HwBreaks
           \/ UNCHANGED vars
  <2>1. UNCHANGED overlapped /\ UNCHANGED refused
    BY <1>5 DEF Expire, Requests, Request, Alarm, AlarmUpdates, OffAlready, Update,
      HwSettles, HwSwings, HwBreaks, vars, outside
  <2>2. \/ UNCHANGED hw \/ hw' = [hw EXCEPT !.status = Goal(hw.state), !.broken = FALSE]
        \/ hw' = [hw EXCEPT !.status = "error"]
        \/ hw' = [hw EXCEPT !.status = "error", !.broken = TRUE]
    BY <1>5 DEF Expire, Requests, Request, Alarm, AlarmUpdates, OffAlready, Update,
      HwSettles, HwSwings, HwBreaks, vars, outside
  <2>3. hw'.reports = hw.reports
    BY <1>1, <2>2
  <2> QED BY <2>1, <2>3 DEF Alone
<1> QED BY <1>3, <1>4, <1>5 DEF Next

(* So it does in StartEvent. *)
LEMMA Receives ==
  ASSUME Inv, Inv', Forms, Forms', StartEvent, ~overlapped'
  PROVE  \E e : Received(e)
<1> DEFINE e == Head(netlink)
<1>1. /\ Out = <<>> /\ Io = <<>> /\ Io' = <<>> /\ netlink # <<>>
      /\ Out' = (IF e.failure THEN <<ApplyStatus("error")>> ELSE <<>>)
                   \o (IF e.change # "none" THEN <<HandleEvent(e)>> ELSE <<>>)
      /\ netlink' = Tail(netlink)
      /\ Still /\ UNCHANGED queue
  BY DEF StartEvent, shadows, Out, Io, Inv, Types, Handlers, Threads, Still
<1>2. /\ netlink \in Seq(Sent) /\ OutForm(Out')
      /\ Out' # <<>> => Head(Out') \in Step
  <2>1. run'["output"] # <<>> => Head(run'["output"]) \in Step
    BY DEF Inv, Types, Handlers, Threads
  <2> QED BY <2>1 DEF Forms, Out
<1>3. e \in Sent
  BY <1>1, <1>2
<1>4. /\ e.failure => /\ Out' # <<>> /\ Head(Out') = ApplyStatus("error")
                      /\ Tail(Out') = IF e.change = "none" THEN <<>> ELSE <<HandleEvent(e)>>
      /\ ~e.failure => Out' = <<HandleEvent(e)>>
  BY <1>1, <1>3, EventHandlers
<1>5. e.change \in {"enable", "disable", "none"} /\ (~e.failure => e.change # "none")
  <2>1. e \in Event
    BY <1>3, SentEvents
  <2>2. \A s \in RegulatorState : Changed(s).change # "none"
    BY DEF Changed
  <2>3. Failure.failure /\ FailureDisable.failure
    BY DEF Failure, FailureDisable
  <2>4. (\E s \in RegulatorState : e = Changed(s)) \/ e = Failure \/ e = FailureDisable
    BY <1>3 DEF Sent
  <2> QED BY <2>1, <2>2, <2>3, <2>4 DEF Event
<1> HIDE DEF e
<1>6. /\ \A c : Told(Out', c) <=> e.change = c /\ c # "none"
      /\ \A s \in RegulatorState : ~Changing(Out', s)
      /\ ~Confirming(Out')
      /\ Out' # <<>>
      /\ Head(Out').op \in {"ApplyStatus", "HandleEvent"}
      /\ Head(Out').op = "ApplyStatus" => e.failure /\ Head(Out').status = "error"
      /\ e.failure => Head(Out').op = "ApplyStatus"
  <2>1. CASE ~e.failure
    <3> DEFINE h == HandleEvent(e)
    <3>1. h.op = "HandleEvent" /\ h.event = e
      BY DEF HandleEvent
    <3> HIDE DEF h
    <3>2. Out' # <<>> /\ Head(Out') = h
      BY <1>4, <2>1, ShortHandlers DEF h
    <3>3. \A c : Told(Out', c) <=> e.change = c
      BY <1>2, <3>1, <3>2, TellingTable
    <3>4. (\A s \in RegulatorState : ~Changing(Out', s)) /\ ~Confirming(Out')
      BY <1>2, <3>1, <3>2, OutTable
    <3> QED BY <1>5, <2>1, <3>1, <3>2, <3>3, <3>4
  <2>2. CASE e.failure
    <3>1. Head(Out').op = "ApplyStatus" /\ Head(Out').status = "error" /\ Out' # <<>>
      BY <1>4, <2>2 DEF ApplyStatus
    <3>2. /\ Tail(Out') # <<ConfirmStatus>>
          /\ \A f \in Sent : Tail(Out') = <<HandleEvent(f)>> => f = e /\ e.change # "none"
          /\ e.change = "none" => Tail(Out') = <<>>
          /\ e.change # "none" => Tail(Out') = <<HandleEvent(e)>>
      <4> DEFINE E(f) == <<HandleEvent(f)>>
                 C == <<ConfirmStatus>>
      <4>1. /\ \A f \in Sent : E(f) # C /\ E(f) # <<>> /\ (E(e) = E(f) <=> e = f)
            /\ C # <<>>
        <5>1. "enabled" \in RegulatorState
          BY DEF RegulatorState
        <5> QED BY <1>3, <5>1, Following
      <4>2. Tail(Out') = IF e.change = "none" THEN <<>> ELSE E(e)
        BY <1>4, <2>2
      <4> HIDE DEF E, C
      <4>3. /\ Tail(Out') # C
            /\ \A f \in Sent : Tail(Out') = E(f) => f = e /\ e.change # "none"
            /\ e.change = "none" => Tail(Out') = <<>>
            /\ e.change # "none" => Tail(Out') = E(e)
        BY <1>3, <4>1, <4>2
      <4> QED BY <4>3 DEF E, C
    <3>3. \A c : Told(Out', c) <=> e.change = c /\ c # "none"
      <4>1. ~Stands(Out', "HandleEvent")
        BY <3>1 DEF Stands
      <4>2. ASSUME NEW c
            PROVE  Told(Out', c) <=> \E f \in Sent : f.change = c /\ Tail(Out') = <<HandleEvent(f)>>
        BY <3>1, <4>1, Zenon DEF Told
      <4>3. ASSUME NEW c, e.change = c, c # "none"
            PROVE  Told(Out', c)
        BY <1>3, <3>2, <4>2, <4>3, Zenon
      <4>4. ASSUME NEW c, NEW f \in Sent, f.change = c, Tail(Out') = <<HandleEvent(f)>>
            PROVE  e.change = c /\ c # "none"
        BY <3>2, <4>4, Zenon
      <4> QED BY <4>2, <4>3, <4>4, Zenon
    <3>4. (\A s \in RegulatorState : ~Changing(Out', s)) /\ ~Confirming(Out')
      BY <1>2, <3>1, <3>2, OutTable DEF StatusOps
    <3> QED BY <2>2, <3>1, <3>3, <3>4
  <2> QED BY <2>1, <2>2
<1>7. /\ \A op : ~Stands(Out, op)
      /\ \A op : Stands(Out', op) => op \in {"ApplyStatus", "HandleEvent"}
      /\ \A op : \A x : ~With(Out, op, x)
      /\ \A x : With(Out', "ApplyStatus", x) <=> e.failure /\ x = "error"
      /\ \A x : ~With(Out', "Report", x) /\ ~With(Out', "Commit", x)
      /\ \A x : ~Held(Out, x) /\ (Held(Out', x) => x = "error")
      /\ ~Confirming(Out) /\ \A s : ~Changing(Out, s)
      /\ \A c : ~Told(Out, c)
  <2>1. /\ \A op : ~Stands(Out, op)
        /\ \A op : \A x : ~With(Out, op, x)
        /\ \A x : ~Held(Out, x)
        /\ ~Confirming(Out) /\ \A s : ~Changing(Out, s)
    BY <1>1, NoHandler
  <2>2. \A op : Stands(Out', op) => op \in {"ApplyStatus", "HandleEvent"}
    BY <1>6 DEF Stands
  <2>3. \A x : With(Out', "ApplyStatus", x) <=> e.failure /\ x = "error"
    BY <1>6 DEF With, Stands
  <2>4. \A x : ~With(Out', "Report", x) /\ ~With(Out', "Commit", x)
               /\ ~With(Out', "CompareStatus", x)
    BY <2>2 DEF With
  <2>5. \A x : Held(Out', x) => x = "error"
    BY <2>3, <2>4 DEF Held
  <2>6. \A c : ~Told(Out, c)
    BY <1>1, <2>1 DEF Told
  <2> QED BY <2>1, <2>2, <2>3, <2>4, <2>5, <2>6
<1>8. /\ \A i \in DOMAIN netlink' : i + 1 \in DOMAIN netlink /\ netlink'[i] = netlink[i + 1]
      /\ \A i \in DOMAIN netlink :
            i = 1 \/ (i - 1 \in DOMAIN netlink' /\ netlink'[i - 1] = netlink[i])
      /\ 1 \in DOMAIN netlink /\ netlink[1] = e
      /\ DOMAIN netlink \subseteq Nat /\ DOMAIN netlink' \subseteq Nat
  BY <1>1, <1>2 DEF e
<1>9. LastNoise' = LastNoise /\ (TimerQueued' <=> TimerQueued)
  BY <1>1 DEF LastNoise, TimerQueued, Still
<1>10. Received(e)
  BY <1>1, <1>3, <1>6, <1>7, <1>8, <1>9 DEF Received
<1> QED BY <1>10

(* So it does when a handler is started. *)
LEMMA TakesHandler ==
  ASSUME Inv, Inv', Forms, Forms', Start("output"), ~overlapped'
  PROVE  HandlerTaken
<1>1. Still /\ UNCHANGED netlink /\ Io = <<>> /\ TakeHandler("output")
  BY DEF Start, shadows, Io, Other, Still
<1>2. Handlers /\ Handlers' /\ Queues /\ Queues'
  BY DEF Inv, Types, Forms, Queues
<1>3. /\ Out = <<>> /\ queue["output"] # <<>>
      /\ Out' = Head(queue["output"]) /\ queue'["output"] = Tail(queue["output"])
      /\ Io' = <<>> /\ queue'["io"] = queue["io"]
  BY <1>1, <1>2, Takes DEF Threads, Other, Out, Io
<1>4. /\ Out' \in OutHandlers
      /\ ToSet(queue["output"]) = {Out'} \cup ToSet(queue'["output"])
  BY <1>2, <1>3, ToSetTail DEF Queues
<1>5. OutForm(Out') /\ Out' # <<>> /\ Head(Out') \in Step
  <2>1. OutForm(Out')
    BY DEF Forms
  <2>2. Out' # <<>>
    BY <1>4, PostedForms
  <2> QED BY <1>2, <2>1, <2>2 DEF Handlers, Out, Threads
<1>6. <<Apply>> # Timer /\ Head(<<Apply>>) = Apply /\ Head(Timer) = ReadStatus
  <2>1. Tail(<<Apply>>) = <<>> /\ Tail(Timer) # <<>>
    BY ShortHandlers DEF Timer
  <2> QED BY <2>1, ShortHandlers DEF Timer
<1>7. \/ Out' = <<Apply>> /\ Head(Out').op = "Apply"
      \/ Out' = Timer /\ Head(Out').op = "ReadStatus"
  <2>1. Out' = <<Apply>> \/ Out' = Timer
    BY <1>4 DEF OutHandlers
  <2>2. Apply.op = "Apply" /\ ReadStatus.op = "ReadStatus"
    BY DEF Apply, ReadStatus
  <2> HIDE DEF Apply, ReadStatus, Timer
  <2>3. CASE Out' = <<Apply>>
    BY <1>6, <2>2, <2>3
  <2>4. CASE Out' = Timer
    BY <1>6, <2>2, <2>4
  <2> QED BY <2>1, <2>3, <2>4
<1>8. (\A op : ~Stands(Out, op)) /\ ~Confirming(Out) /\ \A s : ~Changing(Out, s)
  BY <1>3, NoHandler
<1>9. Head(Out').op \in Doing /\ \A op : Stands(Out', op) <=> Head(Out').op = op
  BY <1>5, <1>7 DEF Doing, Stands
<1>10. \A s \in RegulatorState : ~Changing(Out', s)
  BY <1>5, <1>7, OutTable
<1>11. /\ Stands(Out', "Apply") <=> Out' = <<Apply>>
       /\ Stands(Out', "ReadStatus") <=> Out' = Timer
       /\ Confirming(Out') <=> Out' = Timer
       /\ ~Stands(Out', "StartTimer")
  <2>1. CASE Out' = <<Apply>> /\ Head(Out').op = "Apply"
    BY <1>5, <1>6, <1>9, <2>1, OutTable
  <2>2. CASE Out' = Timer /\ Head(Out').op = "ReadStatus"
    BY <1>5, <1>6, <1>9, <2>2, OutTable
  <2> QED BY <1>7, <2>1, <2>2
<1> QED BY <1>1, <1>3, <1>4, <1>5, <1>6, <1>7, <1>8, <1>9, <1>10, <1>11
  DEF HandlerTaken, Changes, RegulatorState

(* So it does in HandleEvent. *)
LEMMA HandlesEvent ==
  ASSUME Inv, Inv', Forms, Plainly, RunHandleEvent
  PROVE  \E e, h : Handled(e, h)
<1> DEFINE e == Head(Out).event
           v == IF e.change = "enable" THEN 1 ELSE 0
           h == IF e.failure THEN <<CheckLater(v)>> ELSE <<CheckStatus, SetEnabled(v)>>
<1>1. Handlers /\ Handlers' /\ Queues /\ "io" \in Threads /\ "output" \in Threads
  BY DEF Inv, Types, Threads, Forms, Queues
<1>2. /\ Out # <<>> /\ Head(Out).op = "HandleEvent" /\ Head(Out) \in Step
      /\ Post("io", h) /\ Continue("output", <<>>)
      /\ Still /\ UNCHANGED netlink
  BY <1>1 DEF RunHandleEvent, At, Out, shadows, outside, Handlers, Still
<1>3. OutForm(Out)
  BY DEF Forms
<1>4. /\ Tail(Out) = <<>>
      /\ \A s \in RegulatorState : ~Changing(Out, s)
      /\ ~Confirming(Out) /\ \A c : Told(Out, c) <=> e.change = c
  BY <1>2, <1>3, OutTable, TellingTable
<1>5. Out' = <<>> /\ Io = <<>> /\ Io' = <<>>
  BY <1>1, <1>2, <1>4, Proceeds DEF Plainly, Continue, Handlers, Out, Io, Threads
<1>6. e \in Sent
  BY <1>2, <1>3, Zenon DEF OutForm, StatusOps, WriteOps
<1>7. e.failure => e.change # "enable"
  BY <1>6, SentEvents
<1>8. /\ h \in IoHandlers
      /\ h \notin Shows /\ h \notin Noisy
      /\ IF e.change = "enable" THEN h \notin Disables ELSE h \in Zeros
  <2> DEFINE L == <<CheckLater(0)>>
             C(u) == <<CheckStatus, SetEnabled(u)>>
  <2>1. IF e.change = "enable" THEN h = C(1) ELSE h \in {L, C(0)}
    BY <1>7
  <2>2. /\ {L, C(0), C(1)} \subseteq IoHandlers /\ {L, C(0)} \subseteq Zeros
        /\ {L, C(0), C(1)} \cap Shows = {}
        /\ {L, C(0), C(1)} \cap Noisy = {}
        /\ C(1) \notin Disables
    <3>1. {L, C(0), C(1)} \subseteq IoHandlers
      BY KnownHandlers
    <3>2. {L, C(0)} \subseteq Zeros
      BY DEF Zeros
    <3>3. /\ L # <<>> /\ Head(L).op = "CheckLater"
          /\ \A u \in {0, 1} : C(u) # <<>> /\ Head(C(u)).op = "CheckStatus"
                               /\ Tail(C(u)) = <<SetEnabled(u)>>
      BY ShortHandlers DEF CheckLater, CheckStatus
    <3> HIDE DEF L, C
    <3>4. \A g \in IoHandlers : (g \in Shows <=> Stands(g, "SetSignals"))
                                /\ (DisablesNow(g) <=> g \in Disables)
                                /\ Loud(g) = IF g \in Noisy THEN g ELSE <<>>
      BY Kinds
    <3>5. {L, C(0), C(1)} \cap Shows = {}
      BY <3>1, <3>3, <3>4 DEF Stands
    <3>6. \A g \in Noisy : g \in Shows
      BY DEF Noisy, Shows, Shown
    <3>7. C(1) \notin Disables
      <4>1. <<SetEnabled(1)>> # <<SetEnabled(0)>>
        <5> DEFINE a == SetEnabled(1)
                   b == SetEnabled(0)
        <5>1. a # b
          BY DEF SetEnabled
        <5> HIDE DEF a, b
        <5>2. Head(<<a>>) = a /\ Head(<<b>>) = b
          BY ShortHandlers
        <5>3. <<a>> # <<b>>
          BY <5>1, <5>2
        <5> QED BY <5>3 DEF a, b
      <4>2. ~DisablesNow(C(1))
        BY <3>3, <4>1 DEF DisablesNow
      <4> QED BY <3>1, <3>4, <4>2
    <3> QED BY <3>1, <3>2, <3>5, <3>6, <3>7
  <2> HIDE DEF L, C, h
  <2> QED BY <1>7, <2>1, <2>2
<1> HIDE DEF h, v, e
<1>9. /\ queue'["io"] = Append(queue["io"], h) /\ queue'["output"] = queue["output"]
      /\ ToSet(queue'["io"]) = ToSet(queue["io"]) \cup {h}
      /\ \A M, d : LastIn(queue'["io"], M, d) = IF h \in M THEN h ELSE LastIn(queue["io"], M, d)
  <2>1. queue'["io"] = Append(queue["io"], h) /\ queue'["output"] = queue["output"]
    BY <1>1, <1>2, <1>8, FormsPost
  <2> QED BY <1>1, <1>8, <2>1, ToSetAppend, LastInAppend DEF Queues
<1>10. /\ \A op, x : ~With(Io, op, x)
       /\ \A op, x : ~With(Io', op, x)
       /\ \A op, x : ~With(Out', op, x)
       /\ \A x : ~Held(Out, x)
       /\ \A x : ~Held(Out', x)
       /\ \A x : ~Held(Io', x)
       /\ \A op : ~Stands(Io, op) /\ ~Stands(Io', op) /\ ~Stands(Out', op)
       /\ \A op : Stands(Out, op) => op = "HandleEvent"
       /\ \A s : ~Changing(Out', s)
       /\ ~Confirming(Out')
  <2>1. \A op : Stands(Out, op) => op = "HandleEvent"
    BY <1>2 DEF Stands
  <2>2. /\ \A op, x : ~With(Out, op, x) \/ op = "HandleEvent"
        /\ \A x : ~Held(Out, x)
    BY <2>1 DEF With, Held
  <2> QED BY <1>5, <2>1, <2>2, NoHandler
<1>11. LastNoise' = LastNoise
  BY <1>5, <1>8, <1>9 DEF LastNoise
<1> QED BY <1>2, <1>4, <1>5, <1>6, <1>8, <1>9, <1>10, <1>11 DEF Handled

-----------------------------------------------------------------------------
(* No fault is lost. *)

(* What the threads are about does not change when neither of them does a step. *)
LEMMA ThreadsStay ==
  ASSUME UNCHANGED run, UNCHANGED stateShadow, UNCHANGED statusShadow,
         UNCHANGED pendingLevelChange, UNCHANGED pendingNewLevel, hw'.state = hw.state,
         queue'["io"] = queue["io"]
  PROVE  /\ Out' = Out /\ Io' = Io
         /\ Changes' <=> Changes
         /\ Rising' <=> Rising
         /\ ErrorNext' <=> ErrorNext
         /\ ErrorShows' <=> ErrorShows
         /\ Decides' <=> Decides
         /\ \A x : Holds(x)' <=> Holds(x)
         /\ \A x : Reports(x)' <=> Reports(x)
         /\ \A x : Commits(x)' <=> Commits(x)
         /\ LastNoise' = LastNoise
<1>1. Out' = Out /\ Io' = Io
  BY DEF Out, Io
<1>2. \A x : (Holds(x)' <=> Holds(x)) /\ (Reports(x)' <=> Reports(x))
             /\ (Commits(x)' <=> Commits(x))
  BY <1>1 DEF Holds, Reports, Commits
<1>3. (Changes' <=> Changes) /\ (Rising' <=> Rising) /\ (ErrorNext' <=> ErrorNext)
  BY <1>1 DEF Changes, Rising, ErrorNext
<1>4. (ErrorShows' <=> ErrorShows) /\ (Decides' <=> Decides) /\ LastNoise' = LastNoise
  BY <1>1, <1>2 DEF ErrorShows, Decides, Decided, Done, LastNoise
<1> QED BY <1>1, <1>2, <1>3, <1>4

(* There are two states, and the wrong status of each is the other's. *)
LEMMA WrongStatus ==
  ASSUME hw.state \in RegulatorState
  PROVE  /\ Wrong \in {"off", "on"} /\ Wrong # Goal(hw.state)
         /\ Goal(hw.state) \in {"off", "on"}
BY DEF Wrong, Goal, RegulatorState

(* io does not lose a fault. *)
LEMMA IoKeepsGuard ==
  ASSUME Simple, Simple', Guarded, hw.reports, IoFrame, IoFault
  PROVE  Guarded'
<1>1. /\ \A s : ~Changing(Out, s)
      /\ \A s : ~Changing(Out, s)'
      /\ ~Confirming(Out) /\ ~Confirming(Out)'
      /\ \A op : ~Stands(Out, op)'
      /\ ~ErrorNext /\ ~Changes /\ ~Changes' /\ Decides'
  BY IoFramed DEF Guarded
<1>2. /\ \A x : Holds(x)' => Holds(x) \/ x = hw.status \/ x = "invalid"
      /\ \A x : Commits(x) => Holds(x)
  BY IoFramed DEF Guarded
<1>3. /\ UNCHANGED hw /\ UNCHANGED netlink /\ UNCHANGED stateShadow
      /\ UNCHANGED pendingNewLevel /\ UNCHANGED armed
      /\ TimerQueued' <=> TimerQueued
      /\ hw.state \in RegulatorState
  BY DEF IoFrame, TimerQueued, Simple
<1>4. FailureComing' <=> FailureComing
  BY <1>3 DEF FailureComing
<1>5. Plainly' /\ Decides'
  <2>1. hw.status \in {"off", "on", "error"}
    BY DEF Simple
  <2> QED BY <1>1, <1>2, <1>3, <2>1 DEF Guarded, Plainly, IoFrame
<1>6. Stale'
  <2>1. SUFFICES ASSUME hw.broken, hw.state = "enabled",
                        NEW x \in {"on", "off"}, Holds(x)' \/ Reports(x)'
                 PROVE  FailureComing
    BY <1>3, <1>4 DEF Stale
  <2>2. Holds(x) \/ Reports(x)
    BY <1>2, <2>1 DEF IoFault, Guarded, Plainly
  <2> QED BY <2>1, <2>2 DEF Guarded, Stale
<1>7. \/ UNCHANGED <<statusShadow, pendingLevelChange>>
      \/ \E x : /\ With(Io, "Commit", x) /\ Holds(x) /\ statusShadow' = x
                /\ pendingLevelChange' =
                     (pendingLevelChange /\ x # Goal(pendingNewLevel))
                /\ x = "error" => ~pendingLevelChange /\ hw.state = "enabled"
                /\ \A y : ~Holds(y)'
  BY IoFramed DEF Guarded
<1>8. FaultKept'
  <2>1. SUFFICES ASSUME hw.broken, hw.state = "enabled", ~FailureComing
                 PROVE  pendingLevelChange' \/ FaultComing'
    BY <1>3, <1>4 DEF FaultKept
  <2>2. \A x \in {"on", "off"} : ~Holds(x) /\ ~Reports(x)
    BY <2>1 DEF Guarded, Stale
  <2>3. CASE FaultComing
    BY <2>2, <2>3 DEF IoFault
  <2>4. CASE pendingLevelChange
    BY <1>7, <2>2, <2>4 DEF Goal
  <2> QED BY <1>1, <2>1, <2>3, <2>4 DEF Guarded, FaultKept
<1>9. Wrong' = Wrong /\ Wrong \in {"off", "on"} /\ Wrong # Goal(hw.state)
  BY <1>3, WrongStatus DEF Wrong
<1>10. Watched'
  <2>1. SUFFICES ASSUME pendingLevelChange', Unnoticed
                 PROVE  Unnoticed'
    BY <1>1, <1>3, <1>7 DEF Guarded, Watched
  <2>2. /\ pendingNewLevel = hw.state /\ statusShadow \in {Goal(hw.state), "invalid"}
        /\ hw.status # Wrong /\ ~Holds(Wrong)
    BY <2>1 DEF Unnoticed
  <2>3. ~Holds(Wrong)'
    BY <1>2, <1>9, <2>2
  <2>4. statusShadow' \in {Goal(hw.state), "invalid"}
    <3>1. statusShadow' \in {"off", "on", "error", "invalid"}
      BY DEF Simple, Shown
    <3>2. {"off", "on"} = {Goal(hw.state), Wrong}
      BY DEF Wrong, Goal
    <3>3. CASE UNCHANGED statusShadow
      BY <2>2, <3>3
    <3>4. CASE \E x : /\ Holds(x) /\ statusShadow' = x /\ x # Goal(pendingNewLevel)
                      /\ x = "error" => ~pendingLevelChange
      <4>1. statusShadow' \notin {"error", Wrong, Goal(hw.state)}
        BY <1>7, <2>1, <2>2, <3>4
      <4> QED BY <3>1, <3>2, <4>1
    <3> QED BY <1>7, <2>1, <3>3, <3>4
  <2> QED BY <1>3, <1>9, <2>2, <2>3, <2>4 DEF Unnoticed
<1>11. PendsInTime' /\ WrongIsSeen'
  BY <1>1 DEF PendsInTime, WrongIsSeen
<1> QED BY <1>5, <1>6, <1>8, <1>10, <1>11 DEF Guarded

(* Nor does the output thread, with a status. *)
LEMMA OutKeepsGuard ==
  ASSUME Simple, Simple', Guarded, hw.reports, OutFrame, OutKeep
  PROVE  Guarded'
<1>1. /\ UNCHANGED hw /\ UNCHANGED netlink /\ UNCHANGED stateShadow
      /\ UNCHANGED pendingNewLevel /\ UNCHANGED armed
      /\ Io = <<>> /\ Io' = <<>>
      /\ \A s \in RegulatorState : ~Changing(Out, s) /\ ~Changing(Out', s)
      /\ Confirming(Out') <=> Confirming(Out)
      /\ Stands(Out, "ReadStatus") => Confirming(Out)
      /\ ~Stands(Out, "StartTimer") /\ ~Stands(Out', "StartTimer")
      /\ TimerQueued' <=> TimerQueued
      /\ Decided(Out)'
      /\ hw.state \in RegulatorState
  BY DEF OutFrame, TimerQueued, Simple
<1>2. PICK x : Reading(x) \/ Skipping(x) \/ Taking(x) \/ Committing(x) \/ Reported(x)
  BY DEF OutFrame
<1>3. /\ \A y : Holds(y) <=> Held(Out, y)
      /\ \A y : Holds(y)' <=> Held(Out', y)
      /\ \A y : Reports(y) <=> With(Out, "Report", y)
      /\ \A y : Reports(y)' <=> With(Out', "Report", y)
      /\ \A y : Commits(y) <=> With(Out, "Commit", y)
      /\ \A y : With(Out, "Commit", y) \/ With(Out, "ApplyStatus", y) => Held(Out, y)
      /\ Decided(Io)'
  <2>1. \A y : With(Out, "Commit", y) \/ With(Out, "ApplyStatus", y) => Held(Out, y)
    BY DEF Held
  <2> QED BY <1>1, <2>1, IoRests
<1>4. FailureComing' <=> FailureComing
  BY <1>1 DEF FailureComing
<1>5. \A y : Holds(y)' => Holds(y) \/ y = hw.status \/ y = "invalid"
  BY <1>2, <1>3 DEF Reading, Skipping, Taking, Committing, Reported
<1>6. Plainly' /\ Decides'
  <2>1. hw.status \in {"off", "on", "error"}
    BY DEF Simple
  <2>2. ~Holds("undefined")'
    BY <1>5, <2>1 DEF Guarded, Plainly
  <2>3. ~Between(Out) /\ ~Between(Out')
    BY DEF OutFrame, Between
  <2> QED BY <1>1, <1>3, <2>2, <2>3 DEF Guarded, Plainly, Decides
<1>7. Stale'
  <2>1. SUFFICES ASSUME hw.broken, hw.state = "enabled",
                        NEW y \in {"on", "off"}, Holds(y)' \/ Reports(y)'
                 PROVE  FailureComing
    BY <1>1, <1>4 DEF Stale
  <2>2. hw.status = "error"
    BY <2>1 DEF Guarded, Plainly
  <2>3. Holds(y) \/ Reports(y)
    BY <1>3, <1>5, <2>1, <2>2 DEF OutKeep
  <2> QED BY <2>1, <2>3 DEF Guarded, Stale
<1>8. ~Changes /\ ~Changes'
  BY <1>1 DEF Changes, RegulatorState
<1>9. Committing(x) =>
        /\ statusShadow' = x /\ Holds(x)
        /\ pendingLevelChange' = (pendingLevelChange /\ x # Goal(pendingNewLevel))
        /\ x = "error" => ~pendingLevelChange
  BY <1>3 DEF Committing, Guarded, Decides, Decided, Done, With, Stands
<1>10. ~Committing(x) => UNCHANGED statusShadow /\ UNCHANGED pendingLevelChange
  BY <1>2 DEF Reading, Skipping, Taking, Reported
<1>11. FaultKept'
  <2>1. SUFFICES ASSUME hw.broken, hw.state = "enabled", ~FailureComing
                 PROVE  pendingLevelChange' \/ ErrorNext' \/ FaultComing'
    BY <1>1, <1>4 DEF FaultKept
  <2>2. ~Holds("on") /\ ~Reports("on") /\ ~Holds("off") /\ ~Reports("off")
    BY <2>1 DEF Guarded, Stale
  <2>3. CASE FaultComing
    BY <2>2, <2>3 DEF OutKeep
  <2>4. CASE pendingLevelChange
    BY <1>9, <1>10, <2>2, <2>4 DEF Goal
  <2>5. CASE ErrorNext
    <3>1. ~pendingLevelChange
          /\ (With(Out, "ApplyStatus", "error") \/ With(Out, "Commit", "error"))
      BY <2>5 DEF ErrorNext
    <3>2. CASE With(Out, "Commit", "error")
      BY <3>2 DEF OutKeep
    <3>3. CASE With(Out, "ApplyStatus", "error")
      <4>1. /\ ~Reading(x) /\ ~Committing(x) /\ ~Reported(x)
            /\ Skipping(x) \/ Taking(x) => x = "error"
        BY <3>3 DEF Reading, Committing, Reported, Skipping, Taking, With, Stands
      <4>2. CASE Skipping(x)
        <5>1. statusShadow = "error"
          BY <2>1, <3>1, <4>1, <4>2 DEF Skipping
        <5> QED BY <3>3, <5>1 DEF OutKeep
      <4>3. CASE Taking(x)
        BY <3>1, <4>1, <4>3 DEF Taking, ErrorNext
      <4> QED BY <1>2, <4>1, <4>2, <4>3
    <3> QED BY <3>1, <3>2, <3>3
  <2> QED BY <1>8, <2>1, <2>3, <2>4, <2>5 DEF Guarded, FaultKept
<1>12. Wrong' = Wrong /\ Wrong \in {"off", "on"} /\ Wrong # Goal(hw.state)
  BY <1>1, WrongStatus DEF Wrong
<1>13. Watched'
  <2>1. SUFFICES ASSUME pendingLevelChange', Unnoticed, ~Confirming(Out)
                 PROVE  Unnoticed'
    BY <1>1, <1>8, <1>9, <1>10 DEF Guarded, Watched
  <2>2. /\ pendingNewLevel = hw.state /\ statusShadow \in {Goal(hw.state), "invalid"}
        /\ hw.status # Wrong /\ ~Holds(Wrong)
    BY <2>1 DEF Unnoticed
  <2>3. ~Holds(Wrong)'
    BY <1>5, <1>12, <2>2
  <2>4. statusShadow' \in {Goal(hw.state), "invalid"}
    <3>1. statusShadow' \in {"off", "on", "error", "invalid"}
      BY DEF Simple, Shown
    <3>2. {"off", "on"} = {Goal(hw.state), Wrong}
      BY DEF Wrong, Goal
    <3>3. CASE Committing(x)
      <4>1. statusShadow' \notin {"error", Wrong, Goal(hw.state)}
        BY <1>9, <2>1, <2>2, <3>3
      <4> QED BY <3>1, <3>2, <4>1
    <3> QED BY <1>10, <2>2, <3>3
  <2> QED BY <1>1, <1>12, <2>2, <2>3, <2>4 DEF Unnoticed
<1>14. PendsInTime'
  BY <1>1 DEF PendsInTime
<1>15. WrongIsSeen'
  <2>1. SUFFICES ASSUME Confirming(Out), hw.status = Wrong
                 PROVE  \E y \in {"invalid", Wrong} :
                          Held(Out', y) \/ (statusShadow' = y /\ \A u : ~Held(Out', u))
    BY <1>1, <1>12 DEF WrongIsSeen
  <2>2. CASE Reading(x)
    BY <2>1, <2>2 DEF Reading
  <2>3. CASE ~Reading(x)
    <3>1. ~Stands(Out, "ReadStatus")
      BY <1>2, <2>3 DEF Skipping, Taking, Committing, Reported, With, Stands
    <3>2. PICK y \in {"invalid", Wrong} :
             Held(Out, y) \/ (statusShadow = y /\ \A u : ~Held(Out, u))
      BY <2>1, <3>1 DEF Guarded, WrongIsSeen
    <3>3. Skipping(x) \/ Taking(x) \/ Committing(x) => x = y
      <4>1. Skipping(x) \/ Taking(x) \/ Committing(x) => Held(Out, x)
        BY <1>3 DEF Skipping, Taking, Committing
      <4>2. Held(Out, x) /\ Held(Out, y) => x = y
        BY DEF Held, With
      <4> QED BY <3>2, <4>1, <4>2
    <3>4. Reported(x) => \A u : ~Held(Out, u)
      BY DEF Reported, Held, With, Stands
    <3>5. y # "error"
      BY <1>12
    <3>6. CASE Skipping(x)
      BY <3>3, <3>5, <3>6 DEF Skipping
    <3>7. CASE Taking(x) \/ Committing(x)
      BY <3>3, <3>7 DEF Taking, Committing
    <3>8. CASE Reported(x)
      BY <3>2, <3>4, <3>8 DEF Reported
    <3> QED BY <1>2, <2>3, <3>6, <3>7, <3>8
  <2> QED BY <2>2, <2>3
<1> QED BY <1>6, <1>7, <1>11, <1>13, <1>14, <1>15 DEF Guarded

(* None of it disturbs a fault that is on its way. *)
LEMMA OutsideKeepsGuard ==
  ASSUME Simple, Guarded, OutsideFrame
  PROVE  Guarded'
<1>1. /\ Out' = Out /\ Io' = Io /\ hw'.state = hw.state
      /\ UNCHANGED stateShadow /\ UNCHANGED statusShadow
      /\ UNCHANGED pendingLevelChange /\ UNCHANGED pendingNewLevel
      /\ UNCHANGED signal /\ queue'["io"] = queue["io"]
      /\ hw.state \in RegulatorState
  BY DEF OutsideFrame, Out, Io, Simple
<1>2. /\ \A x : Holds(x)' <=> Holds(x)
      /\ \A x : Reports(x)' <=> Reports(x)
      /\ \A x : Commits(x)' <=> Commits(x)
      /\ Changes' <=> Changes
      /\ ErrorNext' <=> ErrorNext
      /\ Decides' <=> Decides
      /\ LastNoise' = LastNoise
  BY ThreadsStay DEF OutsideFrame
<1>3. FaultComing' <=> FaultComing
  BY <1>1, <1>2 DEF FaultComing
<1>4. Wrong' = Wrong /\ Wrong # "error" /\ Wrong # Goal(hw.state)
  BY <1>1, WrongStatus DEF Wrong
<1>5. hw'.status = Wrong => hw.status = Wrong
  BY <1>4 DEF OutsideFrame
<1>6. Plainly' /\ Decides'
  BY <1>1, <1>2 DEF Guarded, Plainly, OutsideFrame
<1>7. Stale'
  BY <1>1, <1>2 DEF Guarded, Stale, OutsideFrame
<1>8. FaultKept'
  BY <1>1, <1>2, <1>3 DEF Guarded, FaultKept, OutsideFrame
<1>9. PendsInTime' /\ WrongIsSeen'
  BY <1>1, <1>4, <1>5 DEF Guarded, PendsInTime, WrongIsSeen
<1>10. Watched'
  <2>1. Unnoticed => Unnoticed'
    BY <1>1, <1>2, <1>4, <1>5 DEF Unnoticed
  <2> QED BY <1>1, <1>2, <2>1 DEF Guarded, Watched, OutsideFrame
<1> QED BY <1>6, <1>7, <1>8, <1>9, <1>10 DEF Guarded

(* All of them are such steps. *)
LEMMA OutsideFramed ==
  ASSUME Inv, Inv', Forms, Forms', Plainly,
         \/ Expire \/ Requests \/ Alarm \/ HwSettles \/ HwSwings \/ HwBreaks
         \/ UNCHANGED vars
  PROVE  OutsideFrame
<1>1. /\ Handlers /\ Queues
      /\ hw \in [state : RegulatorState, status : {"off", "on", "error"},
                 broken : BOOLEAN, reports : BOOLEAN]
  BY DEF Inv, Types, Forms, Queues, Simple
<1>2. CASE Expire
  <2>1. /\ armed' = FALSE /\ Post("output", Timer)
        /\ UNCHANGED <<run, stateShadow, statusShadow, pendingLevelChange,
                       pendingNewLevel, signal, hw, netlink>>
    BY <1>2 DEF Expire, outside, Timer
  <2>2. /\ queue'["io"] = queue["io"]
        /\ ToSet(queue'["output"]) = ToSet(queue["output"]) \cup {Timer}
    BY <1>1, <2>1, Posted, KnownHandlers
  <2>3. TimerQueued'
    BY <2>2 DEF TimerQueued
  <2> QED BY <2>1, <2>2, <2>3 DEF OutsideFrame, Plainly, FailureComing
<1>3. CASE Requests \/ Alarm
  <2>1. /\ Post("output", <<Apply>>) \/ UNCHANGED queue
        /\ UNCHANGED <<run, stateShadow, statusShadow, pendingLevelChange,
                       pendingNewLevel, armed, signal, hw, netlink>>
    BY <1>3 DEF Requests, Request, Alarm, AlarmUpdates, OffAlready, Update, shadows
  <2>2. Post("output", <<Apply>>) =>
          /\ queue'["io"] = queue["io"]
          /\ ToSet(queue'["output"]) = ToSet(queue["output"]) \cup {<<Apply>>}
    BY <1>1, Posted, KnownHandlers
  <2>3. TimerQueued => TimerQueued'
    BY <2>1, <2>2 DEF TimerQueued
  <2> QED BY <2>1, <2>2, <2>3 DEF OutsideFrame, Plainly, FailureComing
<1>4. CASE HwSettles
  <2>1. /\ hw' = [hw EXCEPT !.status = Goal(hw.state), !.broken = FALSE]
        /\ UNCHANGED <<run, stateShadow, statusShadow, pendingLevelChange,
                       pendingNewLevel, armed, signal, queue, netlink>>
    BY <1>4 DEF HwSettles, shadows
  <2>2. hw'.state = hw.state /\ hw'.status = Goal(hw.state) /\ ~hw'.broken
    BY <1>1, <2>1
  <2>3. (TimerQueued => TimerQueued') /\ (FailureComing => FailureComing')
    BY <2>1 DEF TimerQueued, FailureComing
  <2> QED BY <2>1, <2>2, <2>3 DEF OutsideFrame
<1>5. CASE HwSwings \/ HwBreaks
  <2>1. PICK e \in {Failure, FailureDisable} : netlink' = Append(netlink, e)
    BY <1>5 DEF HwSwings, HwBreaks
  <2>2. e \in Sent /\ e.failure
    BY <2>1 DEF Sent, Failure, FailureDisable
  <2>3. FailureComing'
    BY <2>1, <2>2, EventSent
  <2>4. /\ \/ hw' = [hw EXCEPT !.status = "error"]
           \/ hw' = [hw EXCEPT !.status = "error", !.broken = TRUE]
        /\ UNCHANGED <<run, stateShadow, statusShadow, pendingLevelChange,
                       pendingNewLevel, armed, signal, queue>>
    BY <1>5 DEF HwSwings, HwBreaks, shadows
  <2>5. hw'.state = hw.state /\ hw'.status = "error"
    BY <1>1, <2>4
  <2>6. TimerQueued => TimerQueued'
    BY <2>4 DEF TimerQueued
  <2> QED BY <2>3, <2>4, <2>5, <2>6 DEF OutsideFrame
<1>6. CASE UNCHANGED vars
  BY <1>6 DEF vars, shadows, outside, OutsideFrame, Plainly, TimerQueued, FailureComing
<1> QED BY <1>2, <1>3, <1>4, <1>5, <1>6

(* None of it loses a fault. *)
LEMMA BesideKeepsGuard ==
  ASSUME Guarded, BesideFrame
  PROVE  Guarded'
<1>1. /\ Io = <<>> /\ Io' = <<>>
      /\ \A x : ~Held(Out, x) /\ (Held(Out', x) => x = "error")
      /\ \A op \in {"Commit", "Report"} : ~Stands(Out, op) /\ ~Stands(Out', op)
      /\ UNCHANGED signal /\ LastNoise' = LastNoise
  BY DEF BesideFrame
<1>2. /\ \A x : ~Reports(x) /\ ~Reports(x)'
      /\ \A x : ~Commits(x) /\ ~Commits(x)'
      /\ \A x : Holds(x)' => x = "error"
      /\ Decides'
  <2>1. /\ \A op \in {"Commit", "Report"} : \A x : ~With(Out, op, x) /\ ~With(Out', op, x)
        /\ Decided(Out)'
    BY <1>1 DEF With, Decided
  <2> QED BY <1>1, <2>1, IoRests DEF Decides
<1>3. ~ErrorNext
  <2>1. ~With(Out, "ApplyStatus", "error") /\ ~With(Out, "Commit", "error")
    BY <1>1 DEF Held
  <2> QED BY <2>1 DEF ErrorNext
<1>4. FaultComing' <=> FaultComing
  BY <1>1, <1>2 DEF FaultComing
<1>5. Plainly' /\ Stale'
  BY <1>1, <1>2 DEF Guarded, Plainly, Stale, BesideFrame
<1>6. FaultKept'
  BY <1>3, <1>4 DEF Guarded, FaultKept, BesideFrame
<1> QED BY <1>2, <1>5, <1>6 DEF Guarded, BesideFrame

(* The instructions of a change. *)
LEMMA ChangeIsBeside ==
  ASSUME Inv, Inv', Forms, Forms', Guarded, ~refused',
         RunApply \/ Writing \/ ReadingBack \/ RunSetPending \/ RunStartTimer
  PROVE  BesideFrame
<1>1. /\ Simple /\ Simple' /\ Queues /\ Handlers /\ "io" \in Threads
      /\ hw.state \in RegulatorState /\ Plainly
  BY DEF Inv, Types, Threads, Simple, Forms, Queues, Guarded
<1>2. ASSUME Silent, UNCHANGED statusShadow, UNCHANGED signal, ~Confirming(Out),
             queue'["output"] = queue["output"],
             hw'.state = hw.state \/ Changes',
             hw'.broken = hw.broken, hw'.status = hw.status,
             Between(Out') \/ stateShadow' = hw'.state,
             LastNoise' = LastNoise,
             FailureComing => FailureComing',
             pendingLevelChange => pendingLevelChange',
             Changes => Changes' \/ pendingLevelChange',
             Stands(Out', "StartTimer") => pendingLevelChange', ~Confirming(Out'),
             \/ Changes' \/ armed'
             \/ /\ ~Changes /\ UNCHANGED hw /\ UNCHANGED armed
                /\ UNCHANGED pendingLevelChange /\ UNCHANGED pendingNewLevel
      PROVE  BesideFrame
  <2>1. /\ Io = <<>> /\ Io' = <<>>
        /\ \A x : ~Holds(x) /\ ~Holds(x)'
        /\ \A x : ~Held(Out, x) /\ ~Held(Out', x)
        /\ \A op \in {"Commit", "Report", "ApplyStatus"} : ~Stands(Out, op) /\ ~Stands(Out', op)
        /\ TimerQueued' <=> TimerQueued
    BY <1>2 DEF Silent, StatusOps, TimerQueued
  <2>2. PendsInTime' /\ WrongIsSeen'
    BY <1>2 DEF PendsInTime, WrongIsSeen
  <2>3. Watched'
    <3>1. CASE Changes' \/ armed'
      BY <3>1 DEF Watched
    <3>2. CASE /\ ~Changes /\ UNCHANGED hw /\ UNCHANGED armed
               /\ UNCHANGED pendingLevelChange /\ UNCHANGED pendingNewLevel
      <4>1. Unnoticed => Unnoticed'
        BY <1>2, <2>1, <3>2 DEF Unnoticed, Wrong
      <4>2. pendingLevelChange => armed \/ TimerQueued \/ Unnoticed
        BY <1>2, <3>2 DEF Guarded, Watched
      <4> QED BY <2>1, <3>2, <4>1, <4>2 DEF Watched
    <3> QED BY <1>2, <3>1, <3>2
  <2> QED BY <1>2, <2>1, <2>2, <2>3 DEF BesideFrame
<1>3. Silent /\ UNCHANGED queue => LastNoise' = LastNoise
  BY DEF Silent, LastNoise
<1>4. \A s \in RegulatorState : \A op : Coming(Out', op, s) =>
          /\ Changes' /\ ~Confirming(Out')
          /\ Stands(Out', "StartTimer") => op = "StartTimer"
  BY DEF Coming, Changes, RegulatorState
<1>5. CASE RunApply
  <2>1. /\ Silent /\ Asked \in RegulatorState /\ ~Confirming(Out)
        /\ \A u \in RegulatorState : ~Changing(Out, u)
        /\ \A op : Stands(Out, op) => op = "Apply"
        /\ UNCHANGED stateShadow /\ UNCHANGED statusShadow
        /\ UNCHANGED pendingLevelChange /\ UNCHANGED pendingNewLevel
        /\ UNCHANGED signal /\ UNCHANGED hw /\ UNCHANGED netlink /\ UNCHANGED queue
        /\ \/ Out' = <<>> /\ UNCHANGED armed
           \/ Coming(Out', "SetState", Asked)
    BY <1>1, <1>5, ApplyDoes
  <2>2. /\ ~Changes /\ (FailureComing' <=> FailureComing)
        /\ LastNoise' = LastNoise /\ stateShadow' = hw'.state
    BY <1>1, <1>3, <2>1
    DEF FailureComing, Plainly, Changes, RegulatorState, Between, WriteOps
  <2>3. \/ ~Stands(Out', "StartTimer") /\ ~Confirming(Out') /\ UNCHANGED armed
        \/ ~Stands(Out', "StartTimer") /\ ~Confirming(Out') /\ Changes'
    BY <1>4, <2>1, NoHandler
  <2> QED BY <1>2, <2>1, <2>2, <2>3
<1>6. CASE Writing
  <2>1. PICK s \in RegulatorState :
          /\ Silent /\ UNCHANGED statusShadow /\ UNCHANGED signal
          /\ UNCHANGED pendingLevelChange /\ UNCHANGED queue
          /\ WriteState(s)
          /\ \/ Coming(Out, "SetState", s) /\ Coming(Out', "ReadState", s)
             \/ Coming(Out, "SetStateAgain", s) /\ Coming(Out', "ReadStateAgain", s)
    BY <1>1, <1>6, WriteDoes
  <2>2. hw'.broken = hw.broken /\ hw'.status = hw.status
    BY <1>1, <2>1 DEF WriteState, Simple
  <2>3. FailureComing => FailureComing'
    <3>1. CASE UNCHANGED netlink
      BY <3>1 DEF FailureComing
    <3>2. CASE netlink' = Append(netlink, Changed(s))
      <4>1. Changed(s) \in Sent
        BY <2>1 DEF Sent
      <4> QED BY <3>2, <4>1, EventSent
    <3> QED BY <2>1, <3>1, <3>2 DEF WriteState
  <2>4. Changes' /\ ~Confirming(Out') /\ ~Stands(Out', "StartTimer") /\ ~Confirming(Out)
    BY <1>4, <2>1 DEF Coming
  <2>5. Between(Out')
    BY <2>1 DEF Coming, Between, WriteOps
  <2> QED BY <1>2, <1>3, <2>1, <2>2, <2>3, <2>4, <2>5
<1>7. CASE ReadingBack
  <2>1. PICK s \in RegulatorState :
          /\ Silent /\ UNCHANGED statusShadow /\ UNCHANGED signal
          /\ UNCHANGED pendingLevelChange /\ UNCHANGED queue
          /\ UNCHANGED hw /\ UNCHANGED netlink /\ DecodeState
          /\ ~Confirming(Out)
          /\ \/ Coming(Out', "SetPending", s) /\ stateShadow' = s
             \/ Coming(Out', "SetStateAgain", s)
    BY <1>1, <1>7, ReadDoes DEF Coming
  <2>2. Changes' /\ ~Confirming(Out') /\ ~Stands(Out', "StartTimer")
    BY <1>4, <2>1
  <2>3. Between(Out') \/ stateShadow' = hw'.state
    BY <2>1 DEF Coming, Between, WriteOps, DecodeState, RegulatorState
  <2>4. FailureComing' <=> FailureComing
    BY <2>1 DEF FailureComing
  <2> QED BY <1>2, <1>3, <2>1, <2>2, <2>3, <2>4
<1>8. CASE RunSetPending
  <2>1. /\ Silent /\ pendingLevelChange' = TRUE
        /\ UNCHANGED stateShadow /\ UNCHANGED statusShadow
        /\ UNCHANGED signal /\ UNCHANGED hw /\ UNCHANGED netlink /\ UNCHANGED queue
        /\ \E s \in RegulatorState :
             Coming(Out, "SetPending", s) /\ Coming(Out', "StartTimer", s)
    BY <1>1, <1>8, PendDoes
  <2>2. Changes' /\ ~Confirming(Out') /\ ~Confirming(Out)
    BY <1>4, <2>1 DEF Coming
  <2>3. (FailureComing' <=> FailureComing) /\ stateShadow' = hw'.state
    BY <1>1, <2>1 DEF FailureComing, Plainly, Between, Coming, WriteOps
  <2> QED BY <1>2, <1>3, <2>1, <2>2, <2>3
<1>9. CASE RunStartTimer
  <2> DEFINE v == IF stateShadow = "enabled" THEN 1 ELSE 0
             h == <<SetEnabled(v)>>
  <2>1. /\ Silent /\ armed' = TRUE /\ Out' = <<>>
        /\ UNCHANGED stateShadow /\ UNCHANGED statusShadow
        /\ UNCHANGED pendingLevelChange
        /\ UNCHANGED signal /\ UNCHANGED hw /\ UNCHANGED netlink
        /\ Post("io", h)
        /\ \E s \in RegulatorState : Coming(Out, "StartTimer", s)
    BY <1>1, <1>9, TimerDoes
  <2>2. h \in IoHandlers /\ h \notin Noisy
    <3>1. v \in {0, 1}
      OBVIOUS
    <3> HIDE DEF v
    <3> QED BY <3>1, KnownHandlers, Kinds
  <2> HIDE DEF h, v
  <2>3. queue'["output"] = queue["output"] /\ LastNoise' = LastNoise
    <3>1. queue'["io"] = Append(queue["io"], h) /\ queue'["output"] = queue["output"]
      BY <1>1, <2>1, <2>2, FormsPost
    <3>2. \A M, d : LastIn(queue'["io"], M, d) = IF h \in M THEN h ELSE LastIn(queue["io"], M, d)
      BY <1>1, <2>2, <3>1, LastInAppend DEF Queues
    <3> QED BY <2>1, <2>2, <3>1, <3>2 DEF LastNoise, Silent
  <2>4. pendingLevelChange /\ ~Confirming(Out)
    BY <2>1 DEF Guarded, PendsInTime, Coming
  <2>5. (FailureComing' <=> FailureComing) /\ stateShadow' = hw'.state
    BY <1>1, <2>1 DEF FailureComing, Plainly, Between, Coming, WriteOps
  <2>6. ~Stands(Out', "StartTimer") /\ ~Confirming(Out')
    BY <2>1, NoHandler
  <2> QED BY <1>2, <2>1, <2>3, <2>4, <2>5, <2>6
<1> QED BY <1>5, <1>6, <1>7, <1>8, <1>9

(* A change is confirmed, checked again later, or given up. *)
LEMMA ConfirmIsBeside ==
  ASSUME Inv, Inv', Forms, Forms', Guarded, RunConfirmStatus
  PROVE  BesideFrame
<1>1. /\ Io = <<>> /\ Io' = <<>>
      /\ UNCHANGED stateShadow /\ UNCHANGED statusShadow
      /\ UNCHANGED pendingNewLevel /\ UNCHANGED signal
      /\ UNCHANGED hw /\ UNCHANGED netlink /\ UNCHANGED queue
      /\ \A u \in RegulatorState : ~Changing(Out, u)
      /\ \A op : Stands(Out, op) <=> op = "ConfirmStatus"
      /\ \A x : ~Held(Out, x)
      /\ \/ /\ Out' = <<>> /\ UNCHANGED pendingLevelChange
            /\ Confirmed \/ armed' = TRUE
         \/ /\ pendingLevelChange' = FALSE
            /\ \A op : Stands(Out', op) <=> op = "ApplyStatus"
            /\ \A op : \A x : With(Out', op, x) <=> op = "ApplyStatus" /\ x = "error"
            /\ \A x : Held(Out', x) <=> x = "error"
            /\ ~Confirming(Out')
  BY ConfirmDoes DEF Guarded
<1>2. Simple /\ Simple' /\ hw.state \in RegulatorState /\ stateShadow = hw.state
  BY <1>1 DEF Inv, Types, Simple, Guarded, Plainly, Between, WriteOps
<1>3. ~Changes /\ LastNoise' = LastNoise /\ (FailureComing' <=> FailureComing)
  BY <1>1 DEF Changes, RegulatorState, FailureComing, LastNoise
<1>4. ASSUME \A x : Held(Out', x) => x = "error",
             \A op \in {"Commit", "Report"} : ~Stands(Out', op),
             pendingLevelChange => pendingLevelChange' \/ ErrorNext',
             PendsInTime' /\ WrongIsSeen' /\ Watched'
      PROVE  BesideFrame
  BY <1>1, <1>2, <1>3, <1>4 DEF BesideFrame
<1>5. CASE /\ Out' = <<>> /\ UNCHANGED pendingLevelChange
           /\ Confirmed \/ armed' = TRUE
  <2>1. /\ \A u : ~Changing(Out', u)
        /\ ~Confirming(Out') /\ \A op : ~Stands(Out', op)
        /\ \A x : ~Held(Out', x)
        /\ \A x : ~Holds(x)'
    <3>1. /\ \A u : ~Changing(Out', u)
          /\ ~Confirming(Out') /\ \A op : ~Stands(Out', op)
          /\ \A x : ~Held(Out', x)
      BY <1>5, NoHandler
    <3> QED BY <1>1, <3>1, IoRests
  <2>2. PendsInTime' /\ WrongIsSeen'
    BY <2>1 DEF PendsInTime, WrongIsSeen
  <2>3. Watched'
    <3>1. SUFFICES ASSUME Confirmed
                   PROVE  Unnoticed'
      BY <1>5 DEF Watched
    <3>2. pendingNewLevel = hw.state /\ statusShadow = Goal(hw.state)
      BY <1>2, <3>1 DEF Confirmed, StateConfirmed, RegulatorState
    <3>3. Wrong' = Wrong /\ Wrong # Goal(hw.state) /\ Goal(hw.state) \in {"off", "on"}
      BY <1>1, <1>2, WrongStatus DEF Wrong
    <3>4. hw.status # Wrong
      <4>1. ~Stands(Out, "ReadStatus") /\ Confirming(Out)
        BY <1>1, ConfirmDoes
      <4>2. statusShadow \notin {"invalid", Wrong}
        BY <3>2, <3>3
      <4> QED BY <1>1, <4>1, <4>2 DEF Guarded, WrongIsSeen
    <3> QED BY <1>1, <2>1, <3>2, <3>3, <3>4 DEF Unnoticed
  <2> QED BY <1>4, <1>5, <2>1, <2>2, <2>3
<1>6. CASE /\ pendingLevelChange' = FALSE
           /\ \A op : Stands(Out', op) <=> op = "ApplyStatus"
           /\ \A op : \A x : With(Out', op, x) <=> op = "ApplyStatus" /\ x = "error"
           /\ \A x : Held(Out', x) <=> x = "error"
           /\ ~Confirming(Out')
  <2>1. ErrorNext'
    BY <1>6 DEF ErrorNext
  <2>2. PendsInTime' /\ WrongIsSeen' /\ Watched'
    BY <1>6 DEF PendsInTime, WrongIsSeen, Watched
  <2> QED BY <1>4, <1>6, <2>1, <2>2
<1> QED BY <1>1, <1>5, <1>6

(* The output thread handles an event. *)
LEMMA EventIsBeside ==
  ASSUME Inv, Inv', Forms, Forms', Guarded, RunHandleEvent
  PROVE  BesideFrame
<1>1. PICK e, h : Handled(e, h)
  BY HandlesEvent DEF Guarded
<1>2. /\ Still /\ UNCHANGED netlink /\ Plainly /\ Io = <<>> /\ Io' = <<>>
      /\ \A x : ~Held(Out, x) /\ ~Held(Out', x)
      /\ \A op : ~Stands(Out', op)
      /\ ~Confirming(Out) /\ ~Confirming(Out')
      /\ queue'["output"] = queue["output"]
  BY <1>1 DEF Handled, Guarded
<1>3. /\ FailureComing' <=> FailureComing
      /\ TimerQueued' <=> TimerQueued
      /\ stateShadow' = hw'.state /\ ~Changes
      /\ \A x : ~Holds(x)'
  BY <1>1, <1>2, IoRests
  DEF FailureComing, TimerQueued, Plainly, Still, Changes, RegulatorState, Handled,
      Between, WriteOps
<1>4. PendsInTime' /\ WrongIsSeen'
  BY <1>2 DEF PendsInTime, WrongIsSeen
<1>5. Watched'
  <2>1. Unnoticed => Unnoticed'
    BY <1>2, <1>3 DEF Unnoticed, Wrong, Still
  <2> QED BY <1>2, <1>3, <2>1 DEF Guarded, Watched, Still
<1> QED BY <1>1, <1>2, <1>3, <1>4, <1>5 DEF BesideFrame, Handled, Still

(* It receives an event. *)
LEMMA ReceiveIsBeside ==
  ASSUME Inv, Inv', Forms, Forms', Guarded, StartEvent, ~overlapped'
  PROVE  BesideFrame
<1>1. PICK e : Received(e)
  BY Receives
<1>2. /\ Still /\ UNCHANGED queue /\ Plainly /\ Out = <<>> /\ Io = <<>> /\ Io' = <<>>
  BY <1>1 DEF Guarded, Received
<1>6. /\ \A op : ~Stands(Out, op)
      /\ \A op : Stands(Out', op) => op \in {"ApplyStatus", "HandleEvent"}
      /\ \A x : With(Out', "ApplyStatus", x) <=> e.failure /\ x = "error"
      /\ \A x : ~Held(Out, x) /\ (Held(Out', x) => x = "error")
      /\ ~Confirming(Out) /\ ~Changes /\ ~Confirming(Out')
  BY <1>1 DEF Changes, Received
<1>7. FailureComing => FailureComing' \/ e.failure
  BY <1>1 DEF FailureComing, Received
<1>8. e.failure => pendingLevelChange' \/ ErrorNext'
  BY <1>6 DEF ErrorNext
<1>9. /\ LastNoise' = LastNoise /\ (TimerQueued' <=> TimerQueued)
      /\ stateShadow' = hw'.state
  BY <1>1, <1>2, <1>6 DEF Plainly, Received, Still, Between
<1>10. PendsInTime' /\ WrongIsSeen'
  BY <1>6 DEF PendsInTime, WrongIsSeen
<1>11. Watched'
  <2>1. Unnoticed => Unnoticed'
    <3>1. \A x : Holds(x)' => x = "error"
      BY <1>2, <1>6, IoRests
    <3>2. Wrong' = Wrong /\ Wrong # "error"
      BY <1>2 DEF Wrong, Still
    <3> QED BY <1>2, <3>1, <3>2 DEF Unnoticed, Still
  <2> QED BY <1>2, <1>6, <1>9, <2>1 DEF Guarded, Watched, Still
<1>12. \A op \in {"Commit", "Report"} : ~Stands(Out, op) /\ ~Stands(Out', op)
  BY <1>6
<1> QED BY <1>2, <1>6, <1>7, <1>8, <1>9, <1>10, <1>11, <1>12 DEF BesideFrame, Still

(* It takes a handler of its queue. *)
LEMMA TakeIsBeside ==
  ASSUME Inv, Inv', Forms, Forms', Guarded, Start("output"), ~overlapped'
  PROVE  BesideFrame
<1>1. HandlerTaken /\ Plainly /\ Io = <<>> /\ Io' = <<>>
  BY TakesHandler DEF HandlerTaken, Guarded
<1>2. /\ \A x : ~Holds(x) /\ ~Holds(x)'
      /\ \A x : ~Held(Out, x) /\ ~Held(Out', x)
      /\ \A op \in StatusOps : ~Stands(Out', op) /\ ~Stands(Out, op)
  <2>1. Handlers /\ Handlers' /\ Out = <<>> /\ Head(Out').op \in Doing
    BY <1>1 DEF HandlerTaken, Inv, Types
  <2> QED BY <1>1, <2>1, DoingHolds DEF Silent
<1>3. /\ \A op \in {"Commit", "Report"} : ~Stands(Out, op) /\ ~Stands(Out', op)
      /\ LastNoise' = LastNoise /\ (FailureComing' <=> FailureComing)
      /\ stateShadow' = hw'.state
      /\ PendsInTime'
  BY <1>1, <1>2 DEF HandlerTaken, Still, StatusOps, LastNoise, FailureComing, PendsInTime,
  Plainly, Between
<1>4. TimerQueued => TimerQueued' \/ Out' = Timer
  BY <1>1 DEF TimerQueued, HandlerTaken
<1>5. WrongIsSeen'
  BY <1>1 DEF WrongIsSeen, HandlerTaken
<1>6. Watched'
  <2>1. Unnoticed => Unnoticed'
    BY <1>1, <1>2 DEF Unnoticed, Wrong, HandlerTaken, Still
  <2> QED BY <1>1, <1>4, <2>1 DEF Guarded, Watched, HandlerTaken, Still
<1> QED BY <1>1, <1>2, <1>3, <1>5, <1>6 DEF BesideFrame, HandlerTaken, Still

(* A fault is kept from one step to the next, whatever _On does meanwhile. *)
LEMMA GuardNext ==
  GuardInv /\ [Next]_vars => GuardInv'
<1> SUFFICES ASSUME GuardInv, [Next]_vars
             PROVE  GuardInv'
  OBVIOUS
<1>1. Inv /\ Forms /\ Inv' /\ Forms' /\ Simple /\ Simple'
  BY NextKeepsInv, FormsNext DEF GuardInv, Inv, Types
<1>2. SUFFICES ASSUME Alone'
               PROVE  Guarded'
  BY <1>1 DEF GuardInv
<1>3. Guarded /\ hw.reports /\ ~overlapped' /\ ~refused' /\ Plainly /\ Decides
  <2>1. Alone
    BY <1>1, <1>2, AloneBefore
  <2> QED BY <1>2, <2>1 DEF GuardInv, Alone, Guarded
<1>4. CASE IoThread
  BY <1>1, <1>3, <1>4, IoFrames, IoKeepsGuard
<1>5. CASE OutputThread
  <2>1. CASE \/ RunApplyStatus("output") \/ RunCommit("output") \/ RunReadStatus("output")
             \/ RunReport("output")
    <3>1. OutFrame /\ OutKeep
      BY <1>1, <1>3, <2>1, OutHandles, OutReports
    <3> QED BY <1>1, <1>3, <3>1, OutKeepsGuard
  <2>2. CASE \/ RunApply \/ Writing \/ ReadingBack \/ RunSetPending
             \/ RunStartTimer \/ Start("output") \/ StartEvent \/ RunConfirmStatus
             \/ RunHandleEvent
    <3>1. BesideFrame
      BY <1>1, <1>3, <2>2, ChangeIsBeside, TakeIsBeside, ReceiveIsBeside, ConfirmIsBeside,
         EventIsBeside
    <3> QED BY <1>3, <3>1, BesideKeepsGuard
  <2> QED BY <1>5, <2>1, <2>2 DEF OutputThread, Writing, ReadingBack
<1>6. CASE \/ Expire \/ Requests \/ Alarm \/ HwSettles \/ HwSwings \/ HwBreaks
           \/ UNCHANGED vars
  BY <1>1, <1>3, <1>6, OutsideFramed, OutsideKeepsGuard
<1> QED BY <1>4, <1>5, <1>6 DEF Next

(* No fault has happened when the constructor has run. *)
LEMMA GuardInit == Init => GuardInv
<1> SUFFICES ASSUME Init
             PROVE  GuardInv
  OBVIOUS
<1>1. Inv /\ Forms
  BY InitInv, FormsInit
<1>2. SUFFICES ASSUME Alone
               PROVE  Guarded
  BY <1>1 DEF GuardInv
<1>3. /\ Io = <<>> /\ Out = <<>>
      /\ stateShadow = hw.state /\ statusShadow = Goal(hw.state)
  BY DEF Init, Threads, Io, Out
<1>4. hw.broken = FALSE /\ ~pendingLevelChange
  <2>1. /\ hw.broken = FALSE /\ hw.state \in {"enabled", "disabled"}
        /\ hw.status = Goal(hw.state)
    BY DEF Init, RegulatorState
  <2>2. pendingNewLevel = hw.state
    BY <1>2, <2>1 DEF Init, Alone, DecodeStatus, Goal
  <2> QED BY <1>3, <2>1, <2>2 DEF Init
<1>5. /\ ~Confirming(Out) /\ \A op : ~Stands(Out, op)
      /\ \A x : ~Holds(x)
      /\ Decided(Io) /\ Decided(Out)
  <2>1. Decided(Out)
    BY <1>3 DEF Decided, Stands
  <2> QED BY <1>3, <2>1, NoHandler, IoRests
<1> QED BY <1>3, <1>4, <1>5
  DEF Guarded, Plainly, Decides, Stale, PendsInTime, FaultKept, WrongIsSeen, Watched

(* It is so in every state that can be reached. *)
LEMMA GuardHolds == Spec => []GuardInv
<1>1. Init => GuardInv
  BY GuardInit
<1>2. GuardInv /\ [Next]_vars => GuardInv'
  BY GuardNext
<1> QED BY <1>1, <1>2, PTL DEF Spec

(* FaultIsTakenForAChange: a fault is only passed over for good where       *)
(* pendingLevelChange is left set for the state the regulator is in, and    *)
(* statusShadow never showed the other status: ConfirmStatus found what it  *)
(* waits for and does not clear the flag, which ApplyStatus has not done    *)
(* either, as the status it was given is the one it knew.  _On may change   *)
(* at any time.                                                             *)
THEOREM FaultIsTakenForAChange ==
  Spec => [](~FaultReported =>
               /\ pendingLevelChange /\ pendingNewLevel = "enabled"
               /\ statusShadow \in {"on", "invalid"})
<1> DEFINE Taken ==
      /\ pendingLevelChange /\ pendingNewLevel = "enabled"
      /\ statusShadow \in {"on", "invalid"}
<1>1. GuardInv => (~FaultReported => Taken)
  <2> SUFFICES ASSUME GuardInv, ~FaultReported
               PROVE  Taken
    OBVIOUS
  <2>1. /\ AtRest /\ Settled /\ hw.broken /\ ~(signal["fault"] = 1)
        /\ Guarded
    BY DEF FaultReported, Steady, GuardInv, Alone
  <2>2. /\ Out = <<>> /\ Io = <<>> /\ netlink = <<>> /\ ~armed
        /\ queue["io"] = <<>> /\ queue["output"] = <<>>
    BY <2>1 DEF AtRest, ThreadsIdle, Threads, Out, Io
  <2>3. /\ ~Changes /\ ~Confirming(Out)
        /\ \A op : \A x : ~With(Out, op, x)
        /\ \A op : ~Stands(Io, op)
        /\ \A x : ~Commits(x) /\ ~Reports(x)
    BY <2>2, NoHandler, IoRests DEF Changes
  <2>4. ~TimerQueued /\ ~FailureComing /\ ~ErrorNext
    <3>1. ToSet(queue["output"]) = {}
      BY <2>2, ToSetSmall
    <3>2. ~TimerQueued
      BY <3>1 DEF TimerQueued
    <3>3. ~FailureComing
      BY <2>2 DEF FailureComing
    <3> QED BY <2>3, <3>2, <3>3 DEF ErrorNext
  <2>5. LastNoise = <<>>
    <3>1. Loud(Io) = <<>>
      BY <2>3 DEF Loud
    <3> QED BY <2>2, <3>1, LastInEmpty DEF LastNoise
  <2>6. hw.state = "enabled"
    BY <2>1 DEF Settled, Guarded, Plainly, Goal
  <2>7. ~FaultComing
    <3>1. <<>> # <<SetSignals("error")>>
      BY ShortHandlers
    <3> QED BY <2>1, <2>3, <2>5, <3>1 DEF FaultComing
  <2>8. pendingLevelChange
    BY <2>1, <2>3, <2>4, <2>6, <2>7 DEF Guarded, FaultKept
  <2>9. Unnoticed
    BY <2>1, <2>2, <2>3, <2>4, <2>8 DEF Guarded, Watched
  <2> QED BY <2>6, <2>8, <2>9 DEF Unnoticed, Goal
<1> QED BY <1>1, GuardHolds, PTL


-----------------------------------------------------------------------------
(* The steps keep to the course. *)

(* A step of io of that kind does not disturb the course of a change. *)
LEMMA IoKeepsChange ==
  ASSUME Simple, Simple', Plainly, Decides, Change, hw.reports, IoFrame
  PROVE  Change'
<1>1. /\ \A s : ~Changing(Out, s)
      /\ \A s : ~Changing(Out, s)'
      /\ ~Confirming(Out) /\ ~Confirming(Out)'
      /\ \A op : ~Stands(Out, op)
      /\ \A op : ~Stands(Out, op)'
      /\ \A x : ~Held(Out, x)
      /\ ~Changes /\ ~Changes' /\ ~ErrorNext
  BY IoFramed
<1>2. (ApplyNext' <=> ApplyNext) /\ (TimerQueued' <=> TimerQueued)
  BY <1>1 DEF ApplyNext, TimerQueued, IoFrame
<1>3. /\ \A x : Holds(x)' => Holds(x) \/ x = hw.status \/ x = "invalid"
      /\ \A x : With(Io, "Commit", x) => Holds(x)
  BY IoFramed
<1>4. /\ Rising <=> pendingLevelChange /\ pendingNewLevel = "enabled"
      /\ Rising' <=> pendingLevelChange' /\ pendingNewLevel = "enabled"
      /\ Settled' <=> Settled
  BY <1>1 DEF Rising, Settled, IoFrame
<1>5. \/ UNCHANGED <<statusShadow, pendingLevelChange>>
      \/ \E x : /\ With(Io, "Commit", x) /\ Holds(x) /\ statusShadow' = x
                /\ pendingLevelChange' =
                     (pendingLevelChange /\ x # Goal(pendingNewLevel))
                /\ x = "error" => ~pendingLevelChange /\ hw.state = "enabled"
                /\ \A y : ~Holds(y)'
  BY IoFramed
<1>6. Rising' => Rising
  BY <1>4, <1>5
<1>7. hw.status \in {"off", "on", "error"} /\ hw.state \in RegulatorState
      /\ pendingNewLevel \in RegulatorState
      /\ UNCHANGED <<newLevel, stateShadow, pendingNewLevel, retries, armed, hw, netlink>>
      /\ queue'["output"] = queue["output"]
  BY DEF Simple, IoFrame
<1>9. Timed'
  BY <1>1, <1>2, <1>5, <1>7 DEF Change, Timed
<1>10. AtTimer'
  BY <1>1 DEF AtTimer
<1>11. Unmet'
  <2>1. pendingLevelChange /\ pendingNewLevel = hw.state
          => statusShadow # Goal(pendingNewLevel)
    BY <1>1 DEF Change, Unmet
  <2>2. pendingLevelChange' /\ pendingNewLevel = hw.state
          => statusShadow' # Goal(pendingNewLevel)
    BY <1>5, <2>1
  <2> QED BY <1>1, <1>7, <2>2 DEF Unmet
<1>12. RisingQuiet'
  <2>1. With(Io, "SetSignals", "error") => ErrorShows
    BY DEF ErrorShows
  <2>2. With(Io, "Commit", "error") => ~Rising
    BY <1>4 DEF Decides, Decided, Stands, With
  <2>3. /\ ErrorShows' => ErrorShows \/ With(Io, "Commit", "error")
        /\ alarm' => alarm \/ With(Io, "SetSignals", "error")
    BY DEF IoFrame
  <2>4. Rising => ~ApplyNext /\ ~alarm /\ ~ErrorShows
    BY DEF Change, RisingQuiet
  <2> QED BY <1>2, <1>6, <2>1, <2>2, <2>3, <2>4 DEF RisingQuiet
<1>13. RisingTimer' /\ RisingOff'
  <2>1. RisingTimer'
    BY <1>1, <1>4, <1>6, <1>7 DEF Change, RisingTimer
  <2>2. RisingOff'
    BY <1>6, <1>7 DEF Change, RisingOff
  <2> QED BY <2>1, <2>2
<1>14. Up'
  BY <1>4, <1>5, <1>7 DEF Change, Up, Off, Goal, RegulatorState
<1>15. Off'
  <2>1. hw.state = "enabled" /\ hw.status = "off" => Rising
    BY DEF Change, Up, Settled, Plainly, Goal
  <2>2. hw.state = "enabled" /\ hw.status = "on" => Settled
    BY DEF Settled, Goal
  <2>3. /\ hw.state = "enabled" /\ statusShadow = "off" => Rising
        /\ hw.state = "enabled" /\ Holds("off") => Rising
        /\ hw.state = "enabled" /\ Holds("on") => Settled
    BY <1>1 DEF Change, Off
  <2>4. hw.state = "enabled" /\ statusShadow' = "off" => Rising'
    BY <1>4, <1>5, <1>7, <2>3 DEF Goal
  <2>5. hw.state = "enabled" /\ Holds("off")' => Rising
    BY <1>3, <2>1, <2>3
  <2>6. hw.state = "enabled" /\ Holds("off")' => Rising'
    BY <1>3, <1>4, <1>5, <1>7, <2>1, <2>3, <2>5 DEF Goal
  <2>7. hw.state = "enabled" /\ Holds("on")' => Settled'
    BY <1>3, <1>4, <2>2, <2>3
  <2> QED BY <1>7, <2>4, <2>6, <2>7 DEF Off
<1>16. Down'
  BY <1>3, <1>5, <1>7 DEF Change, Down
<1>17. Falling'
  BY <1>1, <1>2, <1>3, <1>4, <1>5, <1>7 DEF Change, Falling
<1>18. Fresh'
  BY <1>2, <1>7 DEF Change, Fresh, IoFrame
<1> QED BY <1>9, <1>10, <1>11, <1>12, <1>13, <1>14, <1>15, <1>16, <1>17, <1>18 DEF Change

(* Nor does it lose what _Enabled is going to be. *)
LEMMA IoKeepsRest ==
  ASSUME Simple, Simple', Decides, EnabledInv, IoFrame, IoKeep
  PROVE  EnabledInv'
<1>1. (\A s : ~Changing(Out, s)) /\ (\A s : ~Changing(Out, s)')
  BY IoFramed
<1>3. UNCHANGED hw /\ UNCHANGED netlink
  BY DEF IoFrame
<1>7. Tells0' <=> Tells0
  BY <1>3 DEF Tells0, Handles, IoFrame
<1>8. StaysEnabled'
  BY <1>1, <1>3, <1>7 DEF EnabledInv, StaysEnabled, IoKeep
<1>9. ShowsEnabled'
  BY <1>1, <1>3 DEF EnabledInv, StaysEnabled, ShowsEnabled, IoKeep
<1>10. NetOrder'
  BY <1>3 DEF EnabledInv, NetOrder, Handles, IoFrame
<1>11. ShowsDisabled'
  BY <1>3, <1>7 DEF EnabledInv, ShowsDisabled, IoKeep
<1>12. Heard'
  BY DEF EnabledInv, Heard, Handles, IoFrame
<1> QED BY <1>8, <1>9, <1>10, <1>11, <1>12 DEF EnabledInv

(* Together: io with a status keeps to the course of a change. *)
LEMMA IoKeepsCourse ==
  ASSUME Inv, Inv', Forms, Plainly, Decides, Change, EnabledInv, hw.reports,
         IoThread, ~overlapped'
  PROVE  Change' /\ EnabledInv'
<1>1. IoFrame /\ IoKeep /\ Simple /\ Simple'
  BY IoFrames DEF Inv, Types
<1> QED BY <1>1, IoKeepsChange, IoKeepsRest

(* A step of the output thread with a status keeps to the course of a change. *)
LEMMA OutKeepsChange ==
  ASSUME Simple, Simple', Plainly, Decides, Change, hw.reports,
         OutFrame
  PROVE  Change'
<1>1. /\ \A x : Holds(x) <=> Held(Out, x)
      /\ \A x : Holds(x)' <=> Held(Out', x)
      /\ \A x, y : With(Out, "ApplyStatus", x) \/ With(Out, "Commit", x)
                     => (Held(Out, y) <=> y = x)
      /\ Stands(Out, "ReadStatus") \/ Stands(Out, "Report") => \A y : ~Held(Out, y)
      /\ \A x : With(Out, "Report", x) => Stands(Out, "Report")
      /\ ~(Stands(Out, "ReadStatus") /\ \E x : With(Out, "ApplyStatus", x))
  <2>1. \A x : ~Held(Io, x) /\ ~Held(Io', x)
    BY NoHandler DEF OutFrame
  <2> QED BY <2>1 DEF Holds, Held, With, Stands
<1>2. PICK x : Reading(x) \/ Skipping(x) \/ Taking(x) \/ Committing(x) \/ Reported(x)
  BY DEF OutFrame
<1>3. /\ UNCHANGED newLevel /\ UNCHANGED stateShadow /\ UNCHANGED pendingNewLevel
      /\ UNCHANGED retries /\ UNCHANGED armed /\ UNCHANGED alarm /\ UNCHANGED hw
      /\ UNCHANGED netlink /\ queue'["output"] = queue["output"]
      /\ hw.status \in {"off", "on", "error"} /\ hw.state \in {"enabled", "disabled"}
      /\ pendingNewLevel \in {"enabled", "disabled"}
      /\ Io = <<>> /\ Io' = <<>> /\ Out # <<>>
  BY DEF OutFrame, Simple, RegulatorState
<1>4. /\ \A s : Changing(Out, s) => s \notin {"enabled", "disabled"}
      /\ \A s : Changing(Out', s) => s \notin {"enabled", "disabled"}
      /\ Confirming(Out') <=> Confirming(Out)
      /\ Stands(Out, "ReadStatus") => Confirming(Out)
      /\ ~Stands(Out, "Apply") /\ ~Stands(Out', "Apply")
      /\ ~Stands(Out, "StartTimer") /\ ~Stands(Out', "StartTimer")
      /\ ~Stands(Out', "ReadStatus")
      /\ ErrorShows' => ErrorShows \/ With(Out, "Commit", "error")
  BY DEF OutFrame, RegulatorState
<1>5. (ApplyNext' <=> ApplyNext) /\ (TimerQueued' <=> TimerQueued)
  BY <1>3, <1>4 DEF ApplyNext, TimerQueued
<1>6. /\ ~Changes /\ ~Changes'
      /\ Rising <=> pendingLevelChange /\ pendingNewLevel = "enabled"
      /\ Rising' <=> pendingLevelChange' /\ pendingNewLevel = "enabled"
      /\ Settled' <=> Settled
  BY <1>3, <1>4 DEF Changes, Rising, Settled
<1>7. /\ With(Out, "Commit", x) =>
           /\ Head(Out).done = (pendingLevelChange /\ x = Goal(pendingNewLevel))
           /\ x = "error" => ~pendingLevelChange /\ hw.state = "enabled"
      /\ With(Out, "Commit", "error") => ~pendingLevelChange
  BY <1>3 DEF Decides, Decided, With, Stands, Done
<1>8. /\ pendingLevelChange' => pendingLevelChange
      /\ pendingLevelChange' # pendingLevelChange => Committing(x) /\ x = Goal(pendingNewLevel)
      /\ Committing(x) => pendingLevelChange' = (pendingLevelChange /\ x # Goal(pendingNewLevel))
      /\ pendingLevelChange \in BOOLEAN /\ pendingLevelChange' \in BOOLEAN
  BY <1>2, <1>7 DEF Simple, Reading, Skipping, Taking, Committing, Reported
<1>9. Rising' => Rising
  BY <1>6, <1>8
<1> HIDE DEF Goal
<1>10. Goal("enabled") = "on" /\ Goal("disabled") = "off"
  BY DEF Goal
<1>11. /\ \A y : Holds(y)' => Holds(y) \/ y = hw.status \/ y = "invalid"
       /\ \A y : Holds(y)' =>
            statusShadow' = statusShadow /\ pendingLevelChange' = pendingLevelChange
  BY <1>1, <1>2 DEF Reading, Skipping, Taking, Committing, Reported
<1>12. \/ statusShadow' = statusShadow
       \/ Committing(x) /\ statusShadow' = x /\ Holds(x) /\ With(Out, "Commit", x)
  BY <1>1, <1>2 DEF Reading, Skipping, Taking, Committing, Reported
<1>14. Timed'
  BY <1>3, <1>4, <1>5, <1>6, <1>8 DEF Change, Timed
<1>15. AtTimer'
  BY <1>4 DEF AtTimer
<1>16. Unmet'
  <2>1. pendingLevelChange /\ pendingNewLevel = hw.state
          => statusShadow # Goal(pendingNewLevel)
    BY <1>6 DEF Change, Unmet
  <2>2. pendingLevelChange' /\ pendingNewLevel = hw.state
          => statusShadow' # Goal(pendingNewLevel)
    BY <1>8, <1>12, <2>1
  <2> QED BY <1>3, <1>4, <2>2 DEF Unmet, RegulatorState
<1>17. RisingQuiet'
  BY <1>3, <1>4, <1>5, <1>6, <1>7, <1>9 DEF Change, RisingQuiet
<1>18. RisingTimer' /\ RisingOff'
  <2>1. RisingTimer'
    BY <1>3, <1>4, <1>6, <1>9 DEF Change, RisingTimer
  <2>2. RisingOff'
    BY <1>3, <1>9 DEF Change, RisingOff
  <2> QED BY <2>1, <2>2
<1>19. Up'
  <2>1. Committing(x) /\ x = "on" /\ hw.state = "enabled" => Settled
    BY <1>1 DEF Change, Off, Committing
  <2> QED BY <1>3, <1>6, <1>8, <1>10, <2>1 DEF Change, Up
<1>20. Off'
  <2>1. hw.state = "enabled" /\ hw.status = "off" => Rising
    BY <1>10 DEF Change, Up, Settled, Plainly
  <2>2. hw.state = "enabled" /\ hw.status = "on" => Settled
    BY <1>10 DEF Settled
  <2>3. /\ hw.state = "enabled" /\ statusShadow = "off" => Rising \/ ErrorNext
        /\ hw.state = "enabled" /\ Holds("off") => Rising
        /\ hw.state = "enabled" /\ Holds("on") => Settled
    BY DEF Change, Off
  <2>4. hw.state = "enabled" /\ statusShadow' = "off" => Rising' \/ ErrorNext'
    <3>1. SUFFICES ASSUME hw.state = "enabled", statusShadow' = "off"
                   PROVE  Rising' \/ ErrorNext'
      OBVIOUS
    <3>2. CASE Committing(x) /\ statusShadow' = x /\ Holds(x)
      BY <1>6, <1>8, <1>10, <2>3, <3>1, <3>2
    <3>3. CASE statusShadow' = statusShadow /\ Rising
      <4>1. CASE pendingLevelChange' = pendingLevelChange
        BY <1>6, <3>3, <4>1
      <4>2. CASE pendingLevelChange' # pendingLevelChange
        BY <1>6, <1>8, <1>10, <3>1, <3>3, <4>2 DEF Committing
      <4> QED BY <4>1, <4>2
    <3>4. CASE statusShadow' = statusShadow /\ ErrorNext
      <4>1. ~pendingLevelChange
            /\ (With(Out, "ApplyStatus", "error") \/ With(Out, "Commit", "error"))
        BY <3>4 DEF ErrorNext
      <4>2. Holds("error") /\ ~Stands(Out, "ReadStatus") /\ ~Stands(Out, "Report")
        BY <1>1, <4>1
      <4>3. ~Reading(x) /\ ~Reported(x) /\ ~Committing(x)
        BY <1>1, <3>1, <3>4, <4>1, <4>2 DEF Reading, Reported, Committing
      <4>4. Skipping(x) \/ Taking(x) => x = "error"
        BY <1>1, <4>1, <4>2 DEF Skipping, Taking
      <4>5. ~Skipping(x)
        BY <3>1, <3>4, <4>1, <4>4 DEF Skipping
      <4>6. With(Out', "Commit", "error") /\ ~pendingLevelChange'
        BY <1>2, <1>8, <4>1, <4>3, <4>4, <4>5 DEF Taking
      <4> QED BY <4>6 DEF ErrorNext
    <3> QED BY <1>12, <2>3, <3>1, <3>2, <3>3, <3>4
  <2>5. hw.state = "enabled" /\ Holds("off")' => Rising'
    BY <1>6, <1>11, <2>1, <2>3
  <2>6. hw.state = "enabled" /\ Holds("on")' => Settled'
    BY <1>6, <1>11, <2>2, <2>3
  <2> QED BY <1>3, <2>4, <2>5, <2>6 DEF Off
<1>21. Down'
  BY <1>3, <1>11, <1>12 DEF Change, Down
<1>22. Falling'
  <2>1. SUFFICES ASSUME hw.state = "disabled",
                        \/ statusShadow' \in {"on", "error"} \/ hw.status = "on"
                        \/ Holds("on")'
                 PROVE  Falling'
    BY <1>3 DEF Falling
  <2>2. statusShadow \in {"on", "error"} \/ hw.status = "on" \/ Holds("on")
    BY <1>7, <1>11, <1>12, <2>1
  <2>3. \/ armed
        \/ (TimerQueued \/ Stands(Out, "ReadStatus")) /\ (retries > 0 \/ Settled)
        \/ Confirming(Out) /\ retries > 0
        \/ Settled /\ (Held(Out, "off") \/ Held(Out, "invalid"))
    BY <1>6, <2>1, <2>2 DEF Change, Falling
  <2>4. Settled => hw.status = "off"
    BY <1>10, <2>1 DEF Settled
  <2>5. \/ armed
        \/ TimerQueued /\ (retries > 0 \/ Settled)
        \/ Confirming(Out) /\ retries > 0
        \/ Settled /\ (Held(Out', "off") \/ Held(Out', "invalid"))
    <3>1. CASE Stands(Out, "ReadStatus") /\ Settled
      <4>1. Reading(x)
        BY <1>1, <1>2, <3>1 DEF Skipping, Taking, Committing, Reported, With, Stands
      <4> QED BY <2>4, <3>1, <4>1 DEF Reading
    <3>2. CASE Settled /\ (Held(Out, "off") \/ Held(Out, "invalid"))
      <4>1. ~Reading(x) /\ ~Reported(x)
        BY <1>1, <3>2 DEF Reading, Reported
      <4>2. x \in {"off", "invalid"}
        BY <1>1, <1>2, <3>2, <4>1 DEF Skipping, Taking, Committing
      <4>3. ~Skipping(x) /\ ~Committing(x)
        BY <1>1, <2>1, <2>4, <3>2, <4>2 DEF Skipping, Committing
      <4> QED BY <1>2, <3>2, <4>1, <4>2, <4>3 DEF Taking
    <3> QED BY <1>4, <2>3, <3>1, <3>2
  <2> QED BY <1>3, <1>4, <1>5, <1>6, <2>5 DEF Falling
<1>23. Fresh'
  <2>1. ~(newLevel = 1 /\ hw.state = "disabled" /\ ApplyNext)
    <3>1. queue["output"] = <<>> => ~ApplyNext
      BY <1>4, ToSetSmall DEF ApplyNext
    <3> QED BY <1>3, <3>1 DEF Change, Fresh
  <2> QED BY <1>3, <1>5, <2>1 DEF Fresh
<1> QED BY <1>14, <1>15, <1>16, <1>17, <1>18, <1>19, <1>20, <1>21, <1>22, <1>23 DEF Change

(* It does not lose what _Enabled is going to be. *)
LEMMA OutKeepsRest ==
  ASSUME Simple, Simple', EnabledInv, OutFrame, OutKeep
  PROVE  EnabledInv'
<1>1. /\ UNCHANGED hw /\ UNCHANGED netlink /\ Io = <<>> /\ Io' = <<>>
      /\ \A s \in RegulatorState : ~Changing(Out, s) /\ ~Changing(Out', s)
  BY DEF OutFrame
<1>8. /\ \A c : Handles(c)' <=> Handles(c)
      /\ Tells0' <=> Tells0
  <2>1. \A c : Handles(c)' <=> Handles(c)
    BY DEF OutKeep, Handles
  <2> QED BY <1>1, <2>1 DEF Tells0
<1>9. StaysEnabled'
  <2>1. ~DisablesNow(Io) /\ ~DisablesNow(Io')
    BY <1>1 DEF DisablesNow
  <2>2. "enabled" \in RegulatorState
    BY DEF RegulatorState
  <2>3. ~Changing(Out, "enabled") /\ ~Changing(Out', "enabled")
    BY <1>1, <2>2
  <2> QED BY <1>1, <1>8, <2>1, <2>3 DEF EnabledInv, StaysEnabled, OutKeep
<1>10. ShowsEnabled'
  BY <1>1 DEF EnabledInv, ShowsEnabled, OutKeep
<1>11. NetOrder'
  BY <1>1, <1>8 DEF EnabledInv, NetOrder
<1>12. ShowsDisabled'
  <2>1. ~Writes(Io', 1)
    BY <1>1 DEF Writes
  <2> QED BY <1>1, <1>8, <2>1 DEF EnabledInv, ShowsDisabled, OutKeep
<1>13. Heard'
  BY <1>8 DEF EnabledInv, Heard
<1> QED BY <1>9, <1>10, <1>11, <1>12, <1>13 DEF EnabledInv

(* Such a step, in which it holds no status, keeps to the course of a change. *)
LEMMA QuietKeepsChange ==
  ASSUME Simple, Simple', Plainly, Change, hw.reports, QuietFrame
  PROVE  Change'
<1>1. /\ \A x : ~Held(Io, x) /\ ~Held(Io', x)
      /\ ~With(Out, "ApplyStatus", "error") /\ ~With(Out, "Commit", "error")
  BY NoHandler DEF QuietFrame, Held
<1>2. /\ UNCHANGED newLevel /\ UNCHANGED stateShadow /\ UNCHANGED pendingNewLevel
      /\ UNCHANGED retries /\ UNCHANGED armed /\ UNCHANGED alarm /\ UNCHANGED hw
      /\ UNCHANGED statusShadow /\ UNCHANGED pendingLevelChange
      /\ hw.status \in {"off", "on", "error"} /\ hw.state \in {"enabled", "disabled"}
      /\ Io = <<>> /\ Io' = <<>>
  BY DEF QuietFrame, Simple, RegulatorState
<1>3. /\ \A s : Changing(Out, s) => s \notin {"enabled", "disabled"}
      /\ \A s : Changing(Out', s) => s \notin {"enabled", "disabled"}
      /\ ~Confirming(Out') /\ ~Confirming(Out)
      /\ ~Stands(Out, "StartTimer") /\ ~Stands(Out', "StartTimer")
      /\ ~Stands(Out', "ReadStatus") /\ ~Stands(Out, "ReadStatus")
      /\ ErrorShows' => ErrorShows
      /\ ApplyNext' => ApplyNext
      /\ ~ApplyNext => UNCHANGED queue["output"]
      /\ TimerQueued' <=> TimerQueued
  BY DEF QuietFrame, RegulatorState
<1>4. /\ ~Changes /\ ~Changes'
      /\ Rising <=> pendingLevelChange /\ pendingNewLevel = "enabled"
      /\ Rising' <=> pendingLevelChange' /\ pendingNewLevel' = "enabled"
      /\ Settled' <=> Settled
  BY <1>2, <1>3 DEF Changes, Rising, Settled
<1>5. /\ \A x : ~Holds(x)
      /\ \A x : Holds(x)' => x = "error"
  BY <1>1 DEF Holds, QuietFrame
<1>7. Timed' /\ AtTimer'
  BY <1>1, <1>2, <1>3, <1>4 DEF Change, Timed, AtTimer
<1>8. Unmet'
  BY <1>2, <1>3, <1>4 DEF Change, Unmet, RegulatorState
<1>9. RisingQuiet'
  BY <1>2, <1>3, <1>4 DEF Change, RisingQuiet
<1>10. RisingTimer'
  <2>1. Rising' => Rising /\ UNCHANGED queue["output"]
    BY <1>2, <1>3, <1>4 DEF Change, RisingQuiet
  <2> QED BY <1>2, <1>3, <1>4, <2>1 DEF Change, RisingTimer
<1>11. RisingOff' /\ Up'
  BY <1>2, <1>4 DEF Change, RisingOff, Up
<1>12. Off' /\ Down'
  BY <1>1, <1>2, <1>4, <1>5 DEF Change, Off, Down, ErrorNext
<1>13. Falling'
  <2>1. ~Held(Out, "off") /\ ~Held(Out, "invalid")
    BY DEF QuietFrame
  <2> QED BY <1>2, <1>3, <1>4, <1>5, <2>1 DEF Change, Falling
<1>14. Fresh'
  BY DEF QuietFrame
<1> QED BY <1>7, <1>8, <1>9, <1>10, <1>11, <1>12, <1>13, <1>14 DEF Change

(* The output thread handles an event. *)
LEMMA EventKeepsCourse ==
  ASSUME Inv, Inv', Forms, Forms', Plainly, Plainly', Change, EnabledInv,
         hw.reports, RunHandleEvent
  PROVE  Change' /\ EnabledInv'
<1>1. PICK e, h : Handled(e, h)
  BY HandlesEvent
<1>2. /\ Still /\ UNCHANGED netlink /\ Simple /\ Simple'
      /\ Out # <<>> /\ Out' = <<>> /\ Io = <<>> /\ Io' = <<>>
      /\ \A op : ~Stands(Io, op) /\ ~Stands(Io', op) /\ ~Stands(Out', op)
      /\ \A op : Stands(Out, op) => op = "HandleEvent"
      /\ \A op, x : ~With(Out', op, x)
      /\ \A s : ~Changing(Out', s)
  BY <1>1 DEF Handled, Inv, Types
<1>4. /\ \A s \in RegulatorState : ~Changing(Out, s)
      /\ ~Confirming(Out) /\ ~Confirming(Out')
      /\ \A c : Told(Out, c) <=> e.change = c
      /\ \A x : ~Held(Out, x) /\ ~Held(Out', x)
      /\ IF e.change = "enable" THEN h \notin Disables ELSE h \in Zeros
      /\ queue'["output"] = queue["output"]
      /\ ToSet(queue'["io"]) = ToSet(queue["io"]) \cup {h} /\ h \notin Shows
      /\ \A M, d : LastIn(queue'["io"], M, d) = IF h \in M THEN h ELSE LastIn(queue["io"], M, d)
  BY <1>1 DEF Handled
<1>7. e.change \in {"enable", "disable"}
  BY <1>1, SentEvents DEF EnabledInv, Heard, Handles, Event, Handled
<1>11. ~Reporting /\ ~Reporting' /\ LastShown' = LastShown
  BY <1>2, <1>4, AtStands DEF Reporting, Now, LastShown, Still
<1>13. QuietFrame
  <2>1. /\ TimerQueued' <=> TimerQueued
        /\ ApplyNext' => ApplyNext
        /\ ~ApplyNext => UNCHANGED queue["output"]
    BY <1>2, <1>4 DEF TimerQueued, ApplyNext
  <2>2. ErrorShows' => ErrorShows
    <3>1. <<SetSignals("error")>> \in Shows
      BY DEF Shows, Shown
    <3> QED BY <1>2, <1>4, <3>1, IoRests
  <2>3. Fresh'
    <3>1. ~(newLevel = 1 /\ hw.state = "disabled" /\ ApplyNext)
      <4>1. queue["output"] = <<>> => ~ApplyNext
        BY <1>2, ToSetSmall DEF ApplyNext
      <4> QED BY <1>2, <4>1 DEF Change, Fresh
    <3> QED BY <1>2, <2>1, <3>1 DEF Fresh, Still
  <2> QED BY <1>2, <1>4, <2>1, <2>2, <2>3 DEF QuietFrame, Still
<1>14. Change'
  BY <1>2, <1>13, QuietKeepsChange
<1>16. EnabledInv'
  <2>1. \A c : ~Told(Out', c)
    BY <1>2 DEF Told
  <2>2. Heard' /\ NetOrder'
    BY <1>2, <2>1 DEF EnabledInv, Heard, NetOrder, Handles, Still
  <2>4. Tells0' => Tells0
    BY <1>2, <2>1 DEF Tells0, Handles
  <2>5. StaysEnabled'
    <3>1. SUFFICES ASSUME ~hw.broken, hw.state = "enabled"
                   PROVE  /\ ToSet(queue'["io"]) \cap Disables = {} /\ ~DisablesNow(Io')
                          /\ ~Tells0'
      BY <1>2 DEF StaysEnabled, Still
    <3>2. ToSet(queue["io"]) \cap Disables = {} /\ ~Tells0
      BY <3>1 DEF EnabledInv, StaysEnabled
    <3>3. e.change = "enable"
      BY <1>4, <1>7, <3>2 DEF Tells0, Handles
    <3> QED BY <1>2, <1>4, <2>4, <3>2, <3>3 DEF DisablesNow
  <2>6. ShowsEnabled'
    BY <1>2, <1>11 DEF EnabledInv, ShowsEnabled, Still
  <2>7. ShowsDisabled'
    <3>1. SUFFICES ASSUME hw.state = "disabled", statusShadow = "off"
                   PROVE  Tells0' \/ LastSet' \in Zeros
      BY <1>2 DEF ShowsDisabled, Still
    <3>2. CASE e.change = "disable"
      BY <1>4, <3>2 DEF LastSet
    <3>3. CASE e.change = "enable"
      <4>1. \E j \in DOMAIN netlink : netlink[j].change = "disable"
        BY <1>4, <3>1, <3>3 DEF EnabledInv, NetOrder, Handles
      <4> QED BY <1>2, <4>1 DEF Tells0
    <3> QED BY <1>7, <3>2, <3>3
  <2> QED BY <2>2, <2>5, <2>6, <2>7 DEF EnabledInv
<1> QED BY <1>14, <1>16

(* _Enabled does not depend on what changes in such a step. *)
LEMMA RestStays ==
  ASSUME EnabledInv, RestFrame
  PROVE  EnabledInv'
<1>1. /\ UNCHANGED hw /\ UNCHANGED netlink /\ UNCHANGED statusShadow /\ UNCHANGED signal
      /\ Io' = Io /\ queue'["io"] = queue["io"]
  BY DEF RestFrame
<1>3. Reporting' <=> Reporting
  BY <1>1, AtStands DEF RestFrame, Reporting, Stands
<1>4. LastShown' = LastShown /\ LastSet' = LastSet
  BY <1>1, AtStands DEF Now, Stands, Io, LastShown, LastSet
<1>8. (\A c : Handles(c)' <=> Handles(c)) /\ (Tells0' <=> Tells0)
  BY <1>1 DEF RestFrame, Handles, Tells0
<1>9. Heard' /\ NetOrder'
  BY <1>1, <1>8 DEF EnabledInv, Heard, NetOrder
<1>10. StaysEnabled'
  <2>1. queue["io"] = <<>> => ToSet(queue["io"]) \cap Disables = {}
    BY ToSetSmall
  <2>2. DisablesNow(Io') <=> DisablesNow(Io)
    BY <1>1
  <2>3. Io = <<>> => ~DisablesNow(Io)
    BY DEF DisablesNow
  <2> QED BY <1>1, <1>8, <2>1, <2>2, <2>3 DEF EnabledInv, StaysEnabled, RestFrame
<1>11. ShowsEnabled' /\ ShowsDisabled'
  <2>1. \A v \in {0, 1} : Writes(Io', v) <=> Writes(Io, v)
    BY <1>1
  <2> QED BY <1>1, <1>3, <1>4, <1>8, <2>1 DEF EnabledInv, ShowsEnabled, ShowsDisabled
<1> QED BY <1>9, <1>10, <1>11 DEF EnabledInv

(* The timer expires. *)
LEMMA ExpireKeepsCourse ==
  ASSUME Inv, Inv', Forms, Forms', Plainly, Plainly', Change, EnabledInv,
         hw.reports, Expire
  PROVE  Change' /\ EnabledInv'
<1>1. /\ armed /\ ~armed' /\ (retries = 0 => Settled) /\ Post("output", Timer)
      /\ UNCHANGED newLevel /\ UNCHANGED stateShadow /\ UNCHANGED statusShadow
      /\ UNCHANGED pendingLevelChange /\ UNCHANGED pendingNewLevel /\ UNCHANGED retries
      /\ UNCHANGED signal /\ UNCHANGED alarm /\ UNCHANGED hw /\ UNCHANGED netlink
      /\ UNCHANGED run
  BY DEF Expire, Timer, outside
<1>2. Handlers /\ Queues /\ Simple
  BY DEF Inv, Types, Forms, Queues
<1>3. /\ queue'["output"] = Append(queue["output"], Timer)
      /\ queue'["io"] = queue["io"]
      /\ ToSet(queue'["output"]) = ToSet(queue["output"]) \cup {Timer}
  BY <1>1, <1>2, Posted, KnownHandlers
<1>4. /\ Out' = Out /\ Io' = Io
      /\ Changes' <=> Changes
      /\ Rising' <=> Rising
      /\ ErrorNext' <=> ErrorNext
      /\ ErrorShows' <=> ErrorShows
      /\ \A x : Holds(x)' <=> Holds(x)
  BY <1>1, <1>3, ThreadsStay
<1>5. (ApplyNext' <=> ApplyNext) /\ TimerQueued' /\ (Settled' <=> Settled)
  BY <1>1, <1>3, <1>4, TwoHandlers DEF ApplyNext, TimerQueued, Settled
<1>7. Timed' /\ AtTimer' /\ Unmet'
  BY <1>1, <1>4, <1>5 DEF Change, Timed, AtTimer, Unmet
<1>8. RisingQuiet' /\ RisingOff' /\ Up' /\ Off' /\ Down'
  <2>1. RisingQuiet' /\ RisingOff' /\ Up'
    BY <1>1, <1>4, <1>5 DEF Change, RisingQuiet, RisingOff, Up
  <2>2. Off' /\ Down'
    BY <1>1, <1>4, <1>5 DEF Change, Off, Down
  <2> QED BY <2>1, <2>2
<1>9. RisingTimer'
  <2>1. SUFFICES ASSUME Rising
                 PROVE  RisingTimer'
    BY <1>4 DEF RisingTimer
  <2>2. queue["output"] = <<>> /\ ~Changing(Out, "enabled") /\ ~Confirming(Out)
    BY <1>1, <2>1 DEF Change, RisingTimer
  <2>3. queue'["output"] = <<Timer>>
    BY <1>3, <2>2
  <2>4. retries' = 0 => Settled'
    BY <1>1, <1>5
  <2> QED BY <1>1, <1>4, <2>2, <2>3, <2>4 DEF RisingTimer
<1>10. Falling'
  <2>1. retries > 0 \/ Settled
    BY <1>1, <1>2, ConstantsAssumption DEF Simple
  <2> QED BY <1>1, <1>4, <1>5, <2>1 DEF Change, Falling
<1>11. Fresh'
  <2>1. ~(newLevel = 1 /\ hw.state = "disabled" /\ ApplyNext)
    BY <1>1 DEF Change, Fresh
  <2> QED BY <1>1, <1>5, <2>1 DEF Fresh
<1>12. Change'
  BY <1>7, <1>8, <1>9, <1>10, <1>11 DEF Change
<1>13. RestFrame
  BY <1>1, <1>3, <1>4 DEF RestFrame
<1> QED BY <1>12, <1>13, RestStays

(* The netlist sets _On: from rest, or to switch the regulator off. *)
LEMMA UpdateKeepsCourse ==
  ASSUME Inv, Inv', Forms, Forms', Plainly, Plainly', Change, EnabledInv,
         hw.reports, Patient, Requests \/ (alarm /\ AlarmUpdates)
  PROVE  Change' /\ EnabledInv'
<1>1. /\ ~alarm' /\ Post("output", <<Apply>>)
      /\ UNCHANGED stateShadow /\ UNCHANGED statusShadow
      /\ UNCHANGED pendingLevelChange /\ UNCHANGED pendingNewLevel /\ UNCHANGED retries
      /\ UNCHANGED signal /\ UNCHANGED armed /\ UNCHANGED hw /\ UNCHANGED netlink
      /\ UNCHANGED run /\ Io = <<>>
      /\ \/ alarm /\ newLevel' = 0
         \/ AtRest /\ Settled
  BY DEF Requests, Request, AlarmUpdates, Update, shadows, Io
<1>2. Handlers /\ Queues /\ Simple
  BY DEF Inv, Types, Forms, Queues
<1>3. /\ queue'["output"] = Append(queue["output"], <<Apply>>)
      /\ queue'["io"] = queue["io"]
      /\ ToSet(queue'["output"]) = ToSet(queue["output"]) \cup {<<Apply>>}
  BY <1>1, <1>2, Posted, KnownHandlers
<1>4. /\ Out' = Out /\ Io' = Io
      /\ Changes' <=> Changes
      /\ Rising' <=> Rising
      /\ ErrorNext' <=> ErrorNext
      /\ ErrorShows' <=> ErrorShows
      /\ \A x : Holds(x)' <=> Holds(x)
  BY <1>1, <1>3, ThreadsStay
<1>5. (TimerQueued' <=> TimerQueued) /\ (Settled' <=> Settled)
  BY <1>1, <1>3, TwoHandlers DEF TimerQueued, Settled
<1>6. ASSUME AtRest
      PROVE  /\ Out = <<>> /\ ~Changes /\ ~Confirming(Out) /\ ~TimerQueued /\ ~armed
             /\ queue["io"] = <<>> /\ queue["output"] = <<>> /\ netlink = <<>>
             /\ \A s : ~Changing(Out, s)
             /\ \A op : ~Stands(Out, op)
             /\ \A x : ~Holds(x)
  <2>1. /\ Out = <<>> /\ ~armed /\ netlink = <<>>
        /\ queue["io"] = <<>> /\ queue["output"] = <<>>
    BY <1>6 DEF AtRest, ThreadsIdle, Threads, Out
  <2>2. ~TimerQueued
    BY <2>1, ToSetSmall DEF TimerQueued
  <2> QED BY <1>1, <2>1, <2>2, NoHandler, IoRests DEF Changes
<1>7. ~Rising
  <2>1. alarm => ~Rising
    BY DEF Change, RisingQuiet
  <2>2. AtRest => ~pendingLevelChange
    BY <1>6 DEF Change, Timed
  <2> QED BY <1>1, <1>6, <2>1, <2>2 DEF Rising
<1>9. Timed' /\ AtTimer' /\ Unmet'
  <2>1. Timed' /\ AtTimer'
    BY <1>1, <1>4, <1>5, <1>6 DEF Change, Timed, AtTimer
  <2>2. Unmet'
    BY <1>1, <1>4, <1>5 DEF Change, Unmet
  <2> QED BY <2>1, <2>2
<1>10. RisingQuiet' /\ RisingTimer' /\ RisingOff' /\ Up' /\ Off' /\ Down'
  <2>1. RisingQuiet' /\ RisingTimer' /\ RisingOff' /\ Up'
    BY <1>1, <1>4, <1>5, <1>7 DEF Change, RisingQuiet, RisingTimer, RisingOff, Up
  <2>2. Off' /\ Down'
    BY <1>1, <1>4, <1>5 DEF Change, Off, Down
  <2> QED BY <2>1, <2>2
<1>11. Falling'
  BY <1>1, <1>4, <1>5 DEF Change, Falling
<1>12. Fresh'
  <2>1. SUFFICES ASSUME newLevel' = 1, hw.state = "disabled"
                 PROVE  Fresh'
    BY <1>1 DEF Fresh
  <2>2. AtRest /\ Settled
    BY <1>1, <2>1
  <2>3. ~pendingLevelChange
    BY <1>6, <2>2 DEF Change, Timed
  <2>4. hw.status = "off"
    BY <2>1, <2>2 DEF Settled, Goal
  <2>5. statusShadow \in {"off", "invalid"}
    <3>1. statusShadow \notin {"on", "error"}
      <4>1. /\ ~armed /\ ~Changes /\ ~TimerQueued /\ ~Confirming(Out)
            /\ ~Stands(Out, "ReadStatus") /\ ~Held(Out, "off") /\ ~Held(Out, "invalid")
        BY <1>6, <2>2, NoHandler
      <4> QED BY <2>1, <4>1 DEF Change, Falling
    <3> QED BY <1>2, <3>1 DEF Simple, Shown
  <2>6. queue'["output"] = <<<<Apply>>>>
    <3> DEFINE h == <<Apply>>
    <3>1. queue'["output"] = Append(<<>>, h)
      BY <1>3, <1>6, <2>2
    <3> HIDE DEF h
    <3>2. queue'["output"] = <<h>>
      BY <3>1
    <3> QED BY <3>2 DEF h
  <2> QED BY <1>1, <1>3, <1>4, <1>5, <1>6, <2>2, <2>3, <2>4, <2>5, <2>6 DEF Fresh
<1>13. Change'
  BY <1>9, <1>10, <1>11, <1>12 DEF Change
<1>14. RestFrame
  BY <1>1, <1>3, <1>4 DEF RestFrame
<1> QED BY <1>13, <1>14, RestStays

(* What the threads are about does not depend on the status. *)
LEMMA HwFramed ==
  ASSUME HwFrame
  PROVE  /\ UNCHANGED newLevel /\ UNCHANGED stateShadow /\ UNCHANGED statusShadow
         /\ UNCHANGED pendingLevelChange /\ UNCHANGED pendingNewLevel
         /\ UNCHANGED retries /\ UNCHANGED armed /\ UNCHANGED signal /\ UNCHANGED alarm
         /\ UNCHANGED queue
         /\ Out' = Out /\ Io' = Io
         /\ TimerQueued' <=> TimerQueued
         /\ ApplyNext' <=> ApplyNext
         /\ Changes' <=> Changes
         /\ Rising' <=> Rising
         /\ ErrorNext' <=> ErrorNext
         /\ ErrorShows' <=> ErrorShows
         /\ \A x : Holds(x)' <=> Holds(x)
         /\ Reporting' <=> Reporting
         /\ LastShown' = LastShown /\ LastSet' = LastSet
         /\ \A c : Handles(c)' <=> Handles(c)
<1>1. /\ UNCHANGED newLevel /\ UNCHANGED stateShadow /\ UNCHANGED statusShadow
      /\ UNCHANGED pendingLevelChange /\ UNCHANGED pendingNewLevel
      /\ UNCHANGED retries /\ UNCHANGED armed /\ UNCHANGED signal /\ UNCHANGED alarm
      /\ UNCHANGED queue /\ UNCHANGED run
      /\ Out' = Out /\ Io' = Io
  BY DEF HwFrame, shadows, Out, Io
<1>2. (TimerQueued' <=> TimerQueued) /\ (ApplyNext' <=> ApplyNext)
  BY <1>1 DEF TimerQueued, ApplyNext
<1>3. /\ Changes' <=> Changes
      /\ Rising' <=> Rising
      /\ ErrorNext' <=> ErrorNext
      /\ ErrorShows' <=> ErrorShows
      /\ \A x : Holds(x)' <=> Holds(x)
  BY <1>1, ThreadsStay DEF HwFrame
<1>6. (Reporting' <=> Reporting) /\ LastShown' = LastShown /\ LastSet' = LastSet
  <2>1. (Reporting' <=> Reporting) /\ Now' = Now
    BY <1>1 DEF Reporting, Now, At
  <2> QED BY <1>1, <2>1 DEF LastShown, LastSet
<1>7. \A c : Handles(c)' <=> Handles(c)
  BY <1>1 DEF Handles
<1> QED BY <1>1, <1>2, <1>3, <1>6, <1>7

(* That does not disturb the course of a change. *)
LEMMA HwKeepsChange ==
  ASSUME Simple, Simple', Plainly', Change, hw.reports, HwFrame, HwStatus,
         hw'.broken => hw'.status = "error" /\ hw.state = "enabled",
         hw.state = "disabled" /\ hw.status = "off" => UNCHANGED netlink
  PROVE  Change'
<1>1. /\ UNCHANGED newLevel /\ UNCHANGED stateShadow /\ UNCHANGED statusShadow
      /\ UNCHANGED pendingLevelChange /\ UNCHANGED pendingNewLevel
      /\ UNCHANGED retries /\ UNCHANGED armed /\ UNCHANGED alarm /\ UNCHANGED queue
      /\ Out' = Out /\ Io' = Io /\ hw'.state = hw.state
  BY HwFramed DEF HwFrame
<1>2. /\ TimerQueued' <=> TimerQueued
      /\ ApplyNext' <=> ApplyNext
      /\ Changes' <=> Changes
      /\ Rising' <=> Rising
      /\ ErrorNext' <=> ErrorNext
      /\ ErrorShows' <=> ErrorShows
      /\ \A x : Holds(x)' <=> Holds(x)
  BY HwFramed
<1>3. /\ hw.state \in {"enabled", "disabled"}
      /\ hw.state = "disabled" => (Settled <=> hw.status = "off")
                                  /\ (Settled' <=> hw'.status = "off")
  <2>1. hw.state \in {"enabled", "disabled"}
    BY DEF Simple, RegulatorState
  <2>2. hw'.state = "disabled" => (Settled' <=> hw'.status = "off")
    BY DEF Settled, Goal
  <2> QED BY <1>1, <2>1, <2>2 DEF Settled, Goal
<1>4. Settled => Settled' \/ hw.state = "enabled"
  BY <1>3 DEF HwStatus
<1>5. hw.state = "disabled" /\ hw.status = "off" => hw'.status = "off"
  BY <1>3, <1>4
<1>7. Timed' /\ AtTimer' /\ Unmet'
  BY <1>1, <1>2 DEF Change, Timed, AtTimer, Unmet
<1>8. Settled => Settled'
  BY DEF HwStatus
<1>9. RisingQuiet' /\ RisingOff' /\ Up'
  BY <1>1, <1>2, <1>5, <1>8 DEF Change, RisingQuiet, RisingOff, Up
<1>10. RisingTimer'
  BY <1>1, <1>2, <1>8 DEF Change, RisingTimer
<1>11. Off' /\ Down'
  BY <1>1, <1>2, <1>5, <1>8 DEF Change, Off, Down
<1>12. Falling'
  <2>1. hw.state = "disabled" /\ hw'.status = "on" => hw.status = "on"
    BY <1>3 DEF HwStatus
  <2> QED BY <1>1, <1>2, <1>8, <2>1 DEF Change, Falling
<1>13. Fresh'
  <2>1. SUFFICES ASSUME newLevel = 1, hw.state = "disabled", ApplyNext
                 PROVE  Fresh'
    BY <1>1, <1>2 DEF Fresh
  <2> QED BY <1>1, <1>2, <1>5, <2>1 DEF Change, Fresh
<1> QED BY <1>7, <1>9, <1>10, <1>11, <1>12, <1>13 DEF Change

(* The regulator gets to the status of its state. *)
LEMMA SettlesKeepsCourse ==
  ASSUME Inv, Inv', Forms, Forms', Plainly, Plainly', Change, EnabledInv,
         hw.reports, HwSettles
  PROVE  Change' /\ EnabledInv'
<1>1. /\ ~Settled /\ hw' = [hw EXCEPT !.status = Goal(hw.state), !.broken = FALSE]
      /\ UNCHANGED netlink
      /\ UNCHANGED <<newLevel, shadows, signal, queue, run, alarm>>
  BY DEF HwSettles
<1>2. Simple /\ Simple'
  BY DEF Inv, Types
<1>3. /\ hw'.state = hw.state /\ hw'.reports = hw.reports
      /\ hw'.status = Goal(hw.state) /\ hw'.broken = FALSE
      /\ hw.state \in {"enabled", "disabled"}
  BY <1>1, <1>2 DEF Simple, RegulatorState
<1>4. HwFrame /\ Settled'
  BY <1>1, <1>3 DEF HwFrame, Settled
<1>5. Change'
  BY <1>1, <1>2, <1>3, <1>4, HwKeepsChange DEF HwStatus
<1>7. /\ UNCHANGED statusShadow /\ UNCHANGED signal /\ UNCHANGED queue
      /\ Out' = Out /\ Io' = Io
      /\ Reporting' <=> Reporting
      /\ LastShown' = LastShown /\ LastSet' = LastSet
      /\ \A c : Handles(c)' <=> Handles(c)
  BY <1>4, HwFramed
<1>8. Tells0' <=> Tells0
  BY <1>1, <1>7 DEF Tells0
<1>9. hw.state = "enabled" \/ Changing(Out, "enabled") => ~hw.broken
  <2>1. hw.state = "enabled" => ~hw.broken
    BY <1>1 DEF Settled
  <2>2. hw.state = "disabled" => hw.status # "off"
    BY <1>1 DEF Settled, Goal
  <2>3. Changing(Out, "enabled") => hw.state # "disabled"
    BY <2>2 DEF Change, RisingOff, Rising
  <2> QED BY <1>3, <2>1, <2>3
<1>10. EnabledInv'
  <2>1. Heard' /\ NetOrder'
    BY <1>1, <1>3, <1>7 DEF EnabledInv, Heard, NetOrder
  <2>2. StaysEnabled' /\ ShowsEnabled'
    BY <1>3, <1>7, <1>8, <1>9 DEF EnabledInv, StaysEnabled, ShowsEnabled
  <2>3. ShowsDisabled'
    BY <1>3, <1>7, <1>8 DEF EnabledInv, ShowsDisabled
  <2> QED BY <2>1, <2>2, <2>3 DEF EnabledInv
<1> QED BY <1>5, <1>10

(* Its status fails: for a moment, while it turns on or off, or for good. *)
LEMMA FailsKeepsCourse ==
  ASSUME Inv, Inv', Forms, Forms', Plainly, Plainly', Change, EnabledInv,
         hw.reports, HwSwings \/ HwBreaks
  PROVE  Change' /\ EnabledInv'
<1>1. PICK e \in {Failure, FailureDisable} :
        /\ netlink' = Append(netlink, e)
        /\ HwSwings => e = Failure
  BY DEF HwSwings, HwBreaks
<1>2. /\ Simple /\ Simple' /\ e \in Sent /\ e.failure
      /\ e.change \in {"none", "disable"}
      /\ HwSwings => e.change = "none"
  <2>1. /\ Failure.failure /\ Failure.change = "none"
        /\ FailureDisable.failure /\ FailureDisable.change = "disable"
    BY DEF Failure, FailureDisable
  <2> QED BY <1>1, <2>1, SentEvents DEF Inv, Types
<1>3. /\ hw'.state = hw.state /\ hw'.reports = hw.reports /\ hw'.status = "error"
      /\ \/ HwSwings /\ ~Settled /\ hw.status # "error" /\ hw'.broken = hw.broken
         \/ hw.state = "enabled" /\ ~hw.broken /\ hw'.broken
      /\ hw.state \in {"enabled", "disabled"}
      /\ UNCHANGED <<newLevel, shadows, signal, queue, run, alarm>>
  <2>1. /\ hw \in [state : RegulatorState, status : {"off", "on", "error"},
                   broken : BOOLEAN, reports : BOOLEAN]
        /\ hw.state \in {"enabled", "disabled"}
    BY <1>2 DEF Simple, RegulatorState
  <2>2. CASE HwSwings
    <3>1. /\ ~Settled /\ hw.status # "error" /\ hw' = [hw EXCEPT !.status = "error"]
          /\ UNCHANGED <<newLevel, shadows, signal, queue, run, alarm>>
      BY <2>2 DEF HwSwings
    <3> QED BY <2>1, <2>2, <3>1
  <2>3. CASE HwBreaks
    <3>1. /\ hw.state = "enabled" /\ ~hw.broken
          /\ hw' = [hw EXCEPT !.status = "error", !.broken = TRUE]
          /\ UNCHANGED <<newLevel, shadows, signal, queue, run, alarm>>
      BY <2>3 DEF HwBreaks
    <3> QED BY <2>1, <3>1
  <2> QED BY <2>2, <2>3
<1>4. HwFrame
  BY <1>3 DEF HwFrame
<1>5. HwSwings /\ ~Settled /\ hw'.broken = hw.broken => ~hw'.broken /\ ~Settled'
  BY <1>3 DEF Plainly, Settled, Goal
<1>6. HwStatus
  <2>1. hw.state = "enabled" /\ hw'.broken => Settled'
    BY <1>3 DEF Settled
  <2> QED BY <1>3, <1>5, <2>1 DEF HwStatus
<1>7. hw.state = "disabled" => HwSwings /\ hw.status # "off" /\ ~hw'.broken
  BY <1>3, <1>5 DEF Settled, Goal
<1>8. Change'
  BY <1>2, <1>3, <1>4, <1>6, <1>7, HwKeepsChange
<1>9. e \in Sent /\ netlink' = Append(netlink, e)
  BY <1>1, <1>2
<1>10. /\ \A c : (\E i \in DOMAIN netlink' : netlink'[i].change = c) <=>
                  e.change = c \/ (\E i \in DOMAIN netlink : netlink[i].change = c)
       /\ \A i \in DOMAIN netlink : i \in DOMAIN netlink' /\ netlink'[i] = netlink[i]
       /\ \A i \in DOMAIN netlink' : i \in DOMAIN netlink \/ netlink'[i] = e
  BY <1>9, EventSent, Zenon
<1>11. /\ UNCHANGED statusShadow /\ UNCHANGED signal /\ UNCHANGED queue
       /\ Out' = Out /\ Io' = Io
       /\ Reporting' <=> Reporting
       /\ LastShown' = LastShown /\ LastSet' = LastSet
       /\ \A c : Handles(c)' <=> Handles(c)
  BY <1>4, HwFramed
<1>12. /\ Tells0 => Tells0'
       /\ Tells0' /\ HwSwings => Tells0
  <2>1. (\E i \in DOMAIN netlink' : netlink'[i].change = "disable") <=>
          \/ e.change = "disable"
          \/ \E i \in DOMAIN netlink : netlink[i].change = "disable"
    BY <1>10, Zenon
  <2> QED BY <1>2, <1>11, <2>1 DEF Tells0
<1>13. EnabledInv'
  <2>1. Heard'
    BY <1>11 DEF EnabledInv, Heard
  <2>2. NetOrder'
    <3>1. SUFFICES ASSUME hw.state = "disabled"
                   PROVE  NetOrder'
      BY <1>3 DEF NetOrder
    <3>2. e.change # "enable"
      BY <1>2
    <3>3. /\ \A i \in DOMAIN netlink : i \in DOMAIN netlink' /\ netlink'[i] = netlink[i]
          /\ \A i \in DOMAIN netlink' : i \in DOMAIN netlink \/ netlink'[i] = e
      BY <1>10, Zenon
    <3> QED BY <1>11, <3>1, <3>2, <3>3 DEF EnabledInv, NetOrder
  <2>3. StaysEnabled' /\ ShowsEnabled'
    <3>1. ~hw'.broken => HwSwings /\ ~hw.broken
      BY <1>3
    <3> QED BY <1>3, <1>11, <1>12, <3>1 DEF EnabledInv, StaysEnabled, ShowsEnabled
  <2>4. ShowsDisabled'
    BY <1>3, <1>11, <1>12 DEF EnabledInv, ShowsDisabled
  <2> QED BY <2>1, <2>2, <2>3, <2>4 DEF EnabledInv
<1> QED BY <1>8, <1>13

(* The output thread receives an event. *)
LEMMA ReceiveKeepsCourse ==
  ASSUME Inv, Inv', Forms, Forms', Plainly, Plainly', Change, EnabledInv,
         hw.reports, StartEvent, ~overlapped'
  PROVE  Change' /\ EnabledInv'
<1>1. PICK e : Received(e)
  BY Receives
<1>2. /\ Simple /\ Simple' /\ Still /\ UNCHANGED queue
      /\ Out = <<>> /\ Io = <<>> /\ Io' = <<>>
  BY <1>1 DEF Inv, Types, Received
<1>6. /\ \A c : Told(Out', c) <=> e.change = c /\ c # "none"
      /\ \A c : ~Told(Out, c)
      /\ \A s \in RegulatorState : ~Changing(Out', s)
      /\ ~Confirming(Out') /\ ~Confirming(Out) /\ \A s : ~Changing(Out, s)
  BY <1>1 DEF Received
<1>7. /\ \A op : ~Stands(Out, op)
      /\ \A op : Stands(Out', op) => op \in {"ApplyStatus", "HandleEvent"}
      /\ \A op : \A x : ~With(Out, op, x)
      /\ \A x : ~With(Out', "Report", x) /\ ~With(Out', "Commit", x)
      /\ \A x : ~Held(Out, x) /\ (Held(Out', x) => x = "error")
  BY <1>1 DEF Received
<1>8. /\ TimerQueued' <=> TimerQueued
      /\ ApplyNext' <=> ApplyNext
      /\ ErrorShows' <=> ErrorShows
  <2>1. ~Stands(Out, "Apply") /\ ~Stands(Out', "Apply")
    BY <1>7
  <2> QED BY <1>2, <1>7, <2>1, IoRests DEF TimerQueued, ApplyNext
<1>9. QuietFrame
  <2>1. Fresh'
    <3>1. ~(newLevel = 1 /\ hw.state = "disabled" /\ ApplyNext)
      BY <1>1 DEF Change, Fresh, Received
    <3> QED BY <1>2, <1>8, <3>1 DEF Fresh, Still
  <2>2. ~Stands(Out', "StartTimer") /\ ~Stands(Out', "ReadStatus") /\ ~Stands(Out', "Commit")
    BY <1>7
  <2> QED BY <1>2, <1>6, <1>7, <1>8, <2>1, <2>2 DEF QuietFrame, Still
<1>10. Change'
  BY <1>2, <1>9, QuietKeepsChange
<1>11. LastShown' = LastShown /\ LastSet' = LastSet
       /\ ~Reporting /\ ~Reporting'
  <2>1. \A op : ~Stands(Io, op) /\ ~Stands(Io', op)
    BY <1>2, NoHandler
  <2> QED BY <1>2, <1>7, <2>1, AtStands DEF Now, Reporting, LastShown, LastSet, Still
<1>12. /\ \A i \in DOMAIN netlink' : i + 1 \in DOMAIN netlink /\ netlink'[i] = netlink[i + 1]
       /\ \A i \in DOMAIN netlink :
            i = 1 \/ (i - 1 \in DOMAIN netlink' /\ netlink'[i - 1] = netlink[i])
       /\ 1 \in DOMAIN netlink /\ netlink[1] = e
       /\ DOMAIN netlink \subseteq Nat /\ DOMAIN netlink' \subseteq Nat
  BY <1>1 DEF Received
<1>14. EnabledInv'
  <2>1. Heard'
    BY <1>6 DEF Heard, Handles
  <2>2. Tells0' <=> Tells0
    <3>1. Tells0' => Tells0
      <4>1. Told(Out', "disable") => netlink[1].change = "disable"
        BY <1>6, <1>12
      <4> QED BY <1>12, <4>1 DEF Tells0, Handles
    <3>2. Tells0 => Tells0'
      <4>1. ASSUME NEW i \in DOMAIN netlink, netlink[i].change = "disable"
            PROVE  Tells0'
        BY <1>6, <1>12, <4>1 DEF Tells0, Handles
      <4> QED BY <1>6, <4>1 DEF Tells0, Handles
    <3> QED BY <3>1, <3>2
  <2>3. NetOrder'
    <3>1. SUFFICES ASSUME hw.state = "disabled"
                   PROVE  NetOrder'
      BY <1>2 DEF NetOrder, Still
    <3>2. ASSUME NEW i \in DOMAIN netlink, netlink[i].change = "enable"
          PROVE  \E j \in DOMAIN netlink : j > i /\ netlink[j].change = "disable"
      BY <3>1, <3>2 DEF EnabledInv, NetOrder
    <3>3. ASSUME NEW i \in DOMAIN netlink', netlink'[i].change = "enable"
          PROVE  \E j \in DOMAIN netlink' : j > i /\ netlink'[j].change = "disable"
      <4>1. i + 1 \in DOMAIN netlink /\ netlink[i + 1].change = "enable" /\ i \in Nat
        BY <1>12, <3>3
      <4>2. PICK j \in DOMAIN netlink : j > i + 1 /\ netlink[j].change = "disable"
        BY <3>2, <4>1
      <4>3. i \in DOMAIN netlink' /\ j \in Nat /\ i \in Nat /\ j # 1
        BY <1>12, <3>3, <4>1, <4>2
      <4>4. j - 1 \in DOMAIN netlink' /\ netlink'[j - 1] = netlink[j] /\ j - 1 > i
        BY <1>12, <4>2, <4>3
      <4> QED BY <4>2, <4>4
    <3>4. Handles("enable")' => \E j \in DOMAIN netlink' : netlink'[j].change = "disable"
      <4>1. SUFFICES ASSUME e.change = "enable"
                     PROVE  \E j \in DOMAIN netlink' : netlink'[j].change = "disable"
        BY <1>6 DEF Handles
      <4>2. 1 \in DOMAIN netlink /\ netlink[1].change = "enable"
        BY <1>12, <4>1
      <4>3. PICK j \in DOMAIN netlink : j > 1 /\ netlink[j].change = "disable"
        BY <3>2, <4>2
      <4> QED BY <1>12, <4>3
    <3> QED BY <3>3, <3>4 DEF NetOrder
  <2>4. StaysEnabled'
    <3>1. ~DisablesNow(Io) /\ ~DisablesNow(Io')
      BY <1>2, IoRests
    <3>2. ~Changing(Out', "enabled")
      BY <1>6 DEF RegulatorState
    <3> QED BY <1>2, <2>2, <3>1, <3>2 DEF EnabledInv, StaysEnabled, Still
  <2>5. ShowsEnabled'
    BY <1>2, <1>11 DEF EnabledInv, ShowsEnabled, Still
  <2>6. ShowsDisabled'
    BY <1>2, <1>11, <2>2 DEF EnabledInv, ShowsDisabled, Writes, Still
  <2> QED BY <2>1, <2>3, <2>4, <2>5, <2>6 DEF EnabledInv
<1> QED BY <1>10, <1>14

(* The output thread takes a handler. *)
LEMMA TakeKeepsCourse ==
  ASSUME Inv, Inv', Forms, Forms', Plainly, Plainly', Change, EnabledInv,
         hw.reports, Start("output"), ~overlapped'
  PROVE  Change' /\ EnabledInv'
<1>1. /\ Still /\ UNCHANGED netlink /\ Simple /\ Simple'
      /\ Io = <<>> /\ Io' = <<>> /\ queue'["io"] = queue["io"]
      /\ Out = <<>> /\ queue["output"] # <<>> /\ queue'["output"] = Tail(queue["output"])
      /\ <<Apply>> # Timer /\ ToSet(queue["output"]) = {Out'} \cup ToSet(queue'["output"])
      /\ Out' = <<Apply>> \/ Out' = Timer
  BY TakesHandler DEF HandlerTaken, Inv, Types
<1>8. /\ \A op : ~Stands(Out, op)
      /\ ~Confirming(Out) /\ \A s : ~Changing(Out, s)
      /\ \A s \in RegulatorState : ~Changing(Out', s)
      /\ ~Changes /\ ~Changes'
  BY TakesHandler DEF HandlerTaken
<1>9. /\ \A x : ~Holds(x) /\ ~Holds(x)'
      /\ \A x : ~Held(Out, x) /\ ~Held(Out', x)
      /\ \A op \in StatusOps : \A x : ~With(Out', op, x)
      /\ \A op \in StatusOps : ~Stands(Out', op) /\ ~Stands(Out, op)
      /\ \A c : ~Told(Out', c) /\ ~Told(Out, c)
      /\ ~ErrorNext /\ ~ErrorNext'
      /\ ErrorShows' <=> ErrorShows
  <2>1. Handlers /\ Handlers' /\ Out = <<>> /\ Head(Out').op \in Doing
    BY TakesHandler DEF HandlerTaken, Inv, Types
  <2> QED BY <1>1, <2>1, DoingHolds DEF Silent
<1>11. /\ Stands(Out', "Apply") <=> Out' = <<Apply>>
       /\ Stands(Out', "ReadStatus") <=> Out' = Timer
       /\ ~Stands(Out', "StartTimer")
       /\ Confirming(Out') <=> Out' = Timer
  BY TakesHandler DEF HandlerTaken
<1>12. /\ ApplyNext' <=> ApplyNext
       /\ TimerQueued => TimerQueued' \/ Out' = Timer
       /\ TimerQueued' => TimerQueued
       /\ Out' = <<Apply>> => (TimerQueued' <=> TimerQueued) /\ ApplyNext
       /\ Out' = Timer => TimerQueued
  <2>1. /\ TimerQueued => TimerQueued' \/ Out' = Timer
        /\ TimerQueued' => TimerQueued
        /\ Out' = <<Apply>> => (TimerQueued' <=> TimerQueued)
        /\ Out' = Timer => TimerQueued
    BY <1>1 DEF TimerQueued
  <2>2. ApplyNext <=> <<Apply>> \in ToSet(queue["output"])
    BY <1>8 DEF ApplyNext
  <2>3. ApplyNext' <=> Out' = <<Apply>> \/ <<Apply>> \in ToSet(queue'["output"])
    BY <1>11 DEF ApplyNext
  <2>4. ApplyNext' <=> ApplyNext
    BY <1>1, <2>2, <2>3
  <2>5. Out' = <<Apply>> => ApplyNext
    BY <1>1, <2>2
  <2> QED BY <2>1, <2>4, <2>5
<1>13. Fresh'
  <2>1. SUFFICES ASSUME newLevel = 1, hw.state = "disabled", ApplyNext
                 PROVE  Fresh'
    BY <1>1, <1>12 DEF Fresh, Still
  <2>2. queue["output"] = <<<<Apply>>>>
    BY <1>1, <2>1 DEF Change, Fresh
  <2>3. queue'["output"] = <<>>
    BY <1>1, <2>2, ShortHandlers
  <2> QED BY <1>1, TakesHandler, <2>1, <2>3 DEF Change, Fresh, Still, HandlerTaken
<1>14. ASSUME Out' = <<Apply>>
       PROVE  Change'
  <2>1. QuietFrame
    BY <1>1, <1>8, <1>9, <1>11, <1>12, <1>13, <1>14 DEF QuietFrame, StatusOps, Still
  <2> QED BY <1>1, <2>1, QuietKeepsChange
<1>15. ASSUME Out' = Timer
       PROVE  Change'
  <2>1. /\ Confirming(Out') /\ Stands(Out', "ReadStatus") /\ ~Stands(Out', "StartTimer")
        /\ TimerQueued /\ queue["output"] # <<>>
        /\ UNCHANGED hw
        /\ hw.state \in {"enabled", "disabled"}
    BY <1>1, <1>11, <1>12, <1>15 DEF Simple, RegulatorState, Still
  <2>2. /\ Settled' <=> Settled
        /\ Rising' <=> Rising
        /\ Rising <=> pendingLevelChange /\ pendingNewLevel = "enabled"
    BY <1>1, <1>8 DEF Settled, Changes, Rising, Still
  <2>4. Timed' /\ AtTimer'
    BY <1>8, <2>1 DEF Changes, Timed, AtTimer
  <2>5. Unmet'
    BY <1>1, <1>8 DEF Change, Unmet, Still
  <2>6. RisingQuiet' /\ RisingOff' /\ Up'
    BY <1>1, <1>9, <1>12, <2>2 DEF Change, RisingQuiet, RisingOff, Up, Still
  <2>7. RisingTimer'
    <3>1. SUFFICES ASSUME Rising
                   PROVE  RisingTimer'
      BY <2>2 DEF RisingTimer
    <3>2. queue["output"] = <<Timer>> /\ ~armed /\ (retries = 0 /\ hw.state = "enabled" => Settled)
      BY <2>1, <3>1 DEF Change, RisingTimer
    <3>3. queue'["output"] = <<>>
      BY <1>1, <3>2, ShortHandlers
    <3>4. ~Changing(Out', "enabled")
      BY <1>8 DEF Changes
    <3> QED BY <1>1, <2>2, <3>2, <3>3, <3>4 DEF RisingTimer, Still
  <2>8. Off' /\ Down'
    BY <1>1, <1>9, <2>2 DEF Change, Off, Down, Still
  <2>9. Falling'
    <3>1. ~Stands(Out, "ReadStatus") /\ ~Confirming(Out) /\ ~Held(Out, "off")
          /\ ~Held(Out, "invalid")
      BY <1>8, <1>9
    <3> QED BY <1>1, <1>8, <1>9, <1>12, <2>1, <2>2, <3>1 DEF Change, Falling, Still
  <2> QED BY <1>13, <2>4, <2>5, <2>6, <2>7, <2>8, <2>9 DEF Change
<1>16. RestFrame
  BY <1>1, <1>8, <1>9 DEF RestFrame, StatusOps, Changes, Still
<1> QED BY <1>1, <1>14, <1>15, <1>16, RestStays

(* Apply finds the state as it was told, or starts a change. *)
LEMMA ApplyKeepsCourse ==
  ASSUME Inv, Inv', Forms, Forms', Plainly, Plainly', Change, EnabledInv,
         hw.reports, RunApply
  PROVE  Change' /\ EnabledInv'
<1>1. /\ Asked \in RegulatorState /\ Silent
      /\ Stands(Out, "Apply") /\ Out # <<>> /\ ~Confirming(Out)
      /\ \A op : Stands(Out, op) => op = "Apply"
      /\ \A u \in RegulatorState : ~Changing(Out, u)
      /\ UNCHANGED newLevel /\ UNCHANGED stateShadow /\ UNCHANGED statusShadow
      /\ UNCHANGED pendingLevelChange /\ UNCHANGED pendingNewLevel
      /\ UNCHANGED retries /\ UNCHANGED signal /\ UNCHANGED alarm
      /\ UNCHANGED hw /\ UNCHANGED netlink /\ UNCHANGED queue
      /\ \/ Asked = stateShadow /\ Out' = <<>> /\ UNCHANGED armed
         \/ Asked # stateShadow /\ ~armed' /\ Coming(Out', "SetState", Asked)
  BY ApplyDoes
<1>2. Simple /\ Simple' /\ ApplyNext
  BY <1>1 DEF Inv, Types, ApplyNext
<1>3. /\ Io = <<>> /\ Io' = <<>>
      /\ \A x : ~Holds(x) /\ ~Holds(x)'
      /\ \A x : ~Held(Out, x) /\ ~Held(Out', x)
      /\ \A c : ~Told(Out', c) /\ ~Told(Out, c)
      /\ ~ErrorNext /\ ~ErrorNext'
      /\ ErrorShows <=> <<SetSignals("error")>> \in ToSet(queue["io"])
      /\ ErrorShows' <=> <<SetSignals("error")>> \in ToSet(queue'["io"])
      /\ ~Stands(Out', "Report") /\ ~Stands(Out, "Report")
      /\ \A x : ~With(Out', "Report", x) /\ ~With(Out', "Commit", x)
  BY <1>1 DEF Silent, StatusOps
<1>4. hw.state \in {"enabled", "disabled"} /\ stateShadow = hw.state
  BY <1>1, <1>2 DEF Simple, Plainly, RegulatorState, Between, WriteOps
<1>5. CASE Asked = stateShadow /\ Out' = <<>> /\ UNCHANGED armed
  <2>1. /\ \A u : ~Changing(Out', u)
        /\ ~Confirming(Out')
        /\ \A op : ~Stands(Out', op)
    BY <1>5, NoHandler
  <2>2. TimerQueued' <=> TimerQueued
    BY <1>1 DEF TimerQueued
  <2>3. Fresh'
    BY <1>1, <1>4, <1>5 DEF Fresh, Asked
  <2>4. QuietFrame
    BY <1>1, <1>2, <1>3, <1>5, <2>1, <2>2, <2>3 DEF QuietFrame
  <2>5. RestFrame
    BY <1>1, <1>3, <2>1 DEF RestFrame
  <2> QED BY <1>2, <2>4, <2>5, QuietKeepsChange, RestStays
<1>6. CASE Asked # stateShadow /\ ~armed' /\ Coming(Out', "SetState", Asked)
  <2> DEFINE s == Asked
  <2>1. /\ Out' # <<>> /\ ~Confirming(Out')
        /\ \A op : Stands(Out', op) => op = "SetState"
        /\ \A u \in RegulatorState : Changing(Out', u) <=> u = s
    BY <1>6 DEF Coming
  <2>2. /\ Settled' <=> Settled
        /\ s \in {"enabled", "disabled"}
        /\ Changes'
    BY <1>1, <2>1 DEF RegulatorState, Changes, Settled
  <2>3. /\ s = "enabled" => newLevel = 1 /\ hw.state = "disabled"
        /\ s = "disabled" => newLevel # 1 /\ hw.state = "enabled"
    BY <1>4, <1>6 DEF Asked
  <2> HIDE DEF s
  <2>4. CASE s = "enabled"
    <3>1. /\ newLevel = 1 /\ hw.state = "disabled"
          /\ queue["io"] = <<>> /\ netlink = <<>>
          /\ ~pendingLevelChange /\ ~alarm /\ hw.status = "off"
          /\ statusShadow \in {"off", "invalid"}
          /\ queue["output"] = <<>>
      BY <1>1, <1>2, <2>3, <2>4 DEF Change, Fresh
    <3>2. ~ApplyNext' /\ ~ErrorShows'
      <4>1. ToSet(queue'["output"]) = {} /\ ToSet(queue'["io"]) = {}
        BY <1>1, <3>1, ToSetSmall
      <4> QED BY <1>3, <2>1, <4>1 DEF ApplyNext
    <3>3. Timed' /\ AtTimer' /\ Unmet'
      <4>1. Unmet'
        BY <1>1, <2>1, <2>2, <2>4, <3>1 DEF Unmet, Goal
      <4>2. ~Changing(Out', "disabled")
        BY <2>1, <2>4 DEF RegulatorState
      <4> QED BY <2>2, <4>1, <4>2 DEF Timed, AtTimer
    <3>4. RisingQuiet' /\ RisingTimer' /\ RisingOff'
      BY <1>1, <1>6, <2>1, <3>1, <3>2 DEF RisingQuiet, RisingTimer, RisingOff
    <3>5. Up' /\ Off' /\ Down' /\ Falling' /\ Fresh'
      BY <1>1, <1>3, <2>2, <3>1, <3>2 DEF Up, Off, Down, Falling, Fresh
    <3>6. RestFrame
      <4>1. ~Tells0
        BY <1>3, <3>1 DEF Tells0, Handles
      <4> QED BY <1>1, <1>3, <3>1, <4>1 DEF RestFrame
    <3> QED BY <3>3, <3>4, <3>5, <3>6, RestStays DEF Change
  <2>5. CASE s = "disabled"
    <3>1. newLevel # 1 /\ hw.state = "enabled"
      BY <2>3, <2>5
    <3>2. ~Rising
      BY <1>2 DEF Change, RisingQuiet
    <3>3. ~Rising' /\ Settled /\ ~Changing(Out', "enabled")
      <4>1. Changing(Out', "disabled") /\ ~Changing(Out', "enabled")
        BY <2>1, <2>5 DEF RegulatorState
      <4> QED BY <3>1, <3>2, <4>1 DEF Change, Up, Rising
    <3>4. statusShadow # "off"
      BY <1>3, <3>1, <3>2 DEF Change, Off
    <3>5. Timed' /\ AtTimer' /\ Unmet'
      <4>1. Unmet'
        BY <1>1, <2>1, <2>2, <2>5, <3>4 DEF Unmet, Goal
      <4>2. ~Stands(Out', "StartTimer")
        BY <2>1
      <4> QED BY <1>1, <2>2, <3>1, <4>1, <4>2 DEF Timed, AtTimer
    <3>6. RisingQuiet' /\ RisingTimer' /\ RisingOff'
      BY <3>3 DEF RisingQuiet, RisingTimer, RisingOff
    <3>7. Up' /\ Off' /\ Down' /\ Falling' /\ Fresh'
      BY <1>1, <1>3, <2>2, <3>1, <3>3, <3>4 DEF Up, Off, Down, Falling, Fresh
    <3>8. RestFrame
      BY <1>1, <1>3, <3>3 DEF RestFrame
    <3> QED BY <3>5, <3>6, <3>7, <3>8, RestStays DEF Change
  <2> QED BY <2>2, <2>4, <2>5
<1> QED BY <1>1, <1>5, <1>6

(* The output thread writes the state, and reads it back. *)
LEMMA WriteKeepsCourse ==
  ASSUME Inv, Inv', Forms, Forms', Plainly, Plainly', Change, EnabledInv,
         hw.reports, Writing
  PROVE  Change' /\ EnabledInv'
<1>1. PICK s \in RegulatorState :
        /\ Silent
        /\ UNCHANGED newLevel /\ UNCHANGED statusShadow
        /\ UNCHANGED pendingLevelChange /\ UNCHANGED pendingNewLevel
        /\ UNCHANGED retries /\ UNCHANGED armed /\ UNCHANGED signal
        /\ UNCHANGED alarm /\ UNCHANGED queue
        /\ WriteState(s)
        /\ Coming(Out, "SetState", s) \/ Coming(Out, "SetStateAgain", s)
        /\ Coming(Out', "ReadState", s) \/ Coming(Out', "ReadStateAgain", s)
  BY WriteDoes
<1>2. /\ Simple /\ Simple'
      /\ hw.state \in {"enabled", "disabled"}
  BY DEF Inv, Types, Simple, RegulatorState
<1>4. /\ s \in {"enabled", "disabled"}
      /\ \A u \in RegulatorState : Changing(Out, u) <=> u = s
      /\ \A u \in RegulatorState : Changing(Out', u) <=> u = s
      /\ ~Confirming(Out) /\ ~Confirming(Out')
      /\ \A op : Stands(Out, op) => op \in {"SetState", "SetStateAgain"}
      /\ \A op : Stands(Out', op) => op \in {"ReadState", "ReadStateAgain"}
  BY <1>1 DEF Coming, RegulatorState
<1>6. /\ Io = <<>> /\ Io' = <<>>
      /\ \A x : ~Holds(x) /\ ~Holds(x)'
      /\ \A c : ~Told(Out', c) /\ ~Told(Out, c)
      /\ ~ErrorNext /\ ~ErrorNext'
      /\ ErrorShows <=> <<SetSignals("error")>> \in ToSet(queue["io"])
      /\ ErrorShows' <=> <<SetSignals("error")>> \in ToSet(queue'["io"])
      /\ ~Reporting /\ ~Reporting'
  BY <1>1 DEF Silent
<1>7. /\ hw'.status = hw.status /\ hw'.broken = hw.broken /\ hw'.reports = hw.reports
      /\ \/ hw'.state = s
         \/ hw' = hw /\ UNCHANGED netlink
      /\ hw' = hw \/ hw'.state = s
      /\ \/ UNCHANGED netlink /\ hw'.state = hw.state
         \/ UNCHANGED netlink /\ hw' = hw
         \/ hw'.state = s /\ s # hw.state /\ netlink' = Append(netlink, Changed(s))
      /\ hw'.state \in {"enabled", "disabled"}
  <2>1. hw \in [state : RegulatorState, status : {"off", "on", "error"},
                broken : BOOLEAN, reports : BOOLEAN]
    BY <1>2 DEF Simple
  <2> QED BY <1>1, <1>2, <1>4, <2>1 DEF WriteState
<1>8. /\ Rising <=> s = "enabled"
      /\ Rising' <=> s = "enabled"
      /\ Changes /\ Changes'
      /\ ApplyNext' <=> ApplyNext
  <2>1. ApplyNext' <=> ApplyNext
    BY <1>1, <1>4 DEF ApplyNext
  <2>2. "enabled" \in RegulatorState /\ "disabled" \in RegulatorState
    BY DEF RegulatorState
  <2> QED BY <1>4, <2>1, <2>2 DEF Rising, Changes
<1>9. hw' = hw => (Settled' <=> Settled)
  BY DEF Settled
<1>11. statusShadow # Goal(s)
  BY <1>4 DEF Change, Unmet
<1>12. /\ s = "enabled" => /\ ~ApplyNext /\ ~alarm /\ ~ErrorShows
                           /\ ~armed /\ queue["output"] = <<>>
                           /\ hw.state = "disabled" => hw.status = "off"
                           /\ statusShadow # "on"
       /\ s = "disabled" => /\ newLevel # 1
                            /\ hw.state = "enabled" => Settled
                            /\ statusShadow # "off"
  <2>1. CASE s = "enabled"
    <3>1. Changing(Out, "enabled") /\ Rising
      BY <1>4, <1>8, <2>1
    <3> QED BY <1>11, <2>1, <3>1 DEF Change, RisingQuiet, RisingTimer, RisingOff, Goal
  <2>2. CASE s = "disabled"
    <3>1. Changing(Out, "disabled") /\ ~Rising
      BY <1>4, <1>8, <2>2
    <3> QED BY <1>11, <2>2, <3>1 DEF Change, AtTimer, Up, Goal
  <2> QED BY <1>4, <2>1, <2>2
<1>13. Change'
  <2>1. Timed' /\ AtTimer' /\ Unmet'
    <3>1. Changing(Out', "disabled") => s = "disabled"
      BY <1>4 DEF RegulatorState
    <3>2. ~Stands(Out', "StartTimer")
      BY <1>4
    <3> QED BY <1>1, <1>4, <1>8, <1>11, <1>12, <3>1, <3>2 DEF Timed, AtTimer, Unmet
  <2>2. RisingQuiet' /\ RisingTimer'
    <3>1. RisingQuiet'
      BY <1>1, <1>6, <1>8, <1>12 DEF RisingQuiet
    <3>2. RisingTimer'
      BY <1>1, <1>4, <1>8, <1>12 DEF RisingTimer
    <3> QED BY <3>1, <3>2
  <2>3. RisingOff'
    BY <1>7, <1>8, <1>12 DEF RisingOff
  <2>4. Up'
    BY <1>4, <1>7, <1>8, <1>9, <1>12 DEF Up
  <2>5. Off'
    BY <1>1, <1>4, <1>6, <1>8, <1>12 DEF Off
  <2>6. Down'
    <3>1. s = "enabled" /\ hw'.state = "disabled" => hw' = hw
      BY <1>7
    <3> QED BY <1>1, <1>4, <1>6, <1>7, <1>12, <3>1 DEF Change, Down
  <2>7. Falling' /\ Fresh'
    BY <1>1, <1>4, <1>8, <1>12 DEF Falling, Fresh
  <2> QED BY <2>1, <2>2, <2>3, <2>4, <2>5, <2>6, <2>7 DEF Change
<1>14. LastShown' = LastShown /\ LastSet' = LastSet
       /\ \A v : ~Writes(Io, v) /\ ~Writes(Io', v)
  <2>1. Now = <<>> /\ Now' = <<>>
    BY <1>6, NoHandler, AtStands DEF Now
  <2> QED BY <1>1, <1>6, <2>1 DEF LastShown, LastSet, Writes
<1>15. /\ Tells0 => Tells0'
       /\ s = "enabled" => (Tells0' => Tells0)
       /\ hw' = hw => (Tells0' => Tells0)
       /\ hw' = hw => UNCHANGED netlink
       /\ hw'.state = "disabled" /\ hw.state # "disabled" =>
            /\ \A i \in DOMAIN netlink' : netlink'[i].change = "enable" =>
                 \E j \in DOMAIN netlink' : j > i /\ netlink'[j].change = "disable"
  <2>1. CASE UNCHANGED netlink /\ (hw'.state = hw.state \/ hw' = hw)
    BY <1>6, <2>1 DEF Tells0, Handles
  <2>2. CASE hw'.state = s /\ s # hw.state /\ netlink' = Append(netlink, Changed(s))
    <3> DEFINE e == Changed(s)
    <3>1. e \in Sent /\ e.change = (IF s = "enabled" THEN "enable" ELSE "disable")
      BY <1>4, SentEvents DEF Changed
    <3> HIDE DEF e
    <3>2. netlink' = Append(netlink, e)
      BY <2>2 DEF e
    <3>3. /\ \A c : (\E i \in DOMAIN netlink' : netlink'[i].change = c) <=>
                     e.change = c \/ (\E i \in DOMAIN netlink : netlink[i].change = c)
          /\ \A i \in DOMAIN netlink' : i \in DOMAIN netlink \/ netlink'[i] = e
          /\ \E j \in DOMAIN netlink' :
               netlink'[j] = e /\ \A i \in DOMAIN netlink : j > i
      BY <3>1, <3>2, EventSent, Zenon
    <3>4. (\E i \in DOMAIN netlink' : netlink'[i].change = "disable") <=>
             \/ e.change = "disable"
             \/ \E i \in DOMAIN netlink : netlink[i].change = "disable"
      BY <3>3, Zenon
    <3>5. /\ Tells0 => Tells0'
          /\ s = "enabled" => (Tells0' => Tells0)
      BY <1>6, <3>1, <3>4 DEF Tells0, Handles
    <3>6. hw' # hw
      BY <2>2
    <3>7. s = "disabled" =>
            \A i \in DOMAIN netlink' : netlink'[i].change = "enable" =>
              \E j \in DOMAIN netlink' : j > i /\ netlink'[j].change = "disable"
      <4>1. SUFFICES ASSUME s = "disabled", NEW i \in DOMAIN netlink',
                            netlink'[i].change = "enable"
                     PROVE  \E j \in DOMAIN netlink' : j > i /\ netlink'[j].change = "disable"
        OBVIOUS
      <4>2. i \in DOMAIN netlink
        BY <3>1, <3>3, <4>1
      <4>3. PICK j \in DOMAIN netlink' : netlink'[j] = e /\ \A k \in DOMAIN netlink : j > k
        BY <3>3
      <4> QED BY <3>1, <4>1, <4>2, <4>3
    <3> QED BY <2>2, <3>3, <3>5, <3>6, <3>7
  <2> QED BY <1>7, <2>1, <2>2
<1>17. EnabledInv'
  <2>1. Heard'
    BY <1>6 DEF Heard, Handles
  <2>2. StaysEnabled'
    <3>1. SUFFICES ASSUME ~hw.broken, hw'.state = "enabled" \/ Changing(Out', "enabled")
                   PROVE  StaysEnabled'
      BY <1>7 DEF StaysEnabled
    <3>2. CASE s = "enabled"
      <4>1. Changing(Out, "enabled")
        BY <1>4, <3>2
      <4> QED BY <1>1, <1>6, <1>15, <3>1, <3>2, <4>1 DEF EnabledInv, StaysEnabled
    <3>3. CASE s = "disabled"
      <4>1. ~Changing(Out', "enabled")
        BY <1>4, <3>3 DEF RegulatorState
      <4>2. hw' = hw
        BY <1>7, <3>1, <3>3, <4>1
      <4>3. hw.state = "enabled"
        BY <3>1, <4>1, <4>2
      <4> QED BY <1>1, <1>6, <1>15, <3>1, <4>2, <4>3 DEF EnabledInv, StaysEnabled
    <3> QED BY <1>4, <3>2, <3>3
  <2>3. ShowsEnabled'
    <3>1. s = "disabled" /\ hw'.state = "enabled" => hw' = hw
      BY <1>7
    <3> QED BY <1>1, <1>4, <1>6, <1>12, <1>14, <3>1 DEF EnabledInv, ShowsEnabled
  <2>4. NetOrder'
    <3>1. SUFFICES ASSUME hw'.state = "disabled"
                   PROVE  \A i \in DOMAIN netlink' : netlink'[i].change = "enable" =>
                            \E j \in DOMAIN netlink' : j > i /\ netlink'[j].change = "disable"
      BY <1>6 DEF NetOrder, Handles
    <3>2. CASE hw.state = "disabled"
      <4>1. UNCHANGED netlink
        BY <1>7, <3>1, <3>2
      <4> QED BY <3>2, <4>1 DEF EnabledInv, NetOrder
    <3> QED BY <1>15, <3>1, <3>2
  <2>5. ShowsDisabled'
    <3>1. s = "enabled" /\ hw'.state = "disabled" => hw' = hw
      BY <1>7
    <3> QED BY <1>1, <1>4, <1>6, <1>12, <1>14, <1>15, <3>1 DEF EnabledInv, ShowsDisabled
  <2> QED BY <2>1, <2>2, <2>3, <2>4, <2>5 DEF EnabledInv
<1> QED BY <1>13, <1>17

(* The state is read back, or the change marked as pending. *)
LEMMA PendKeepsCourse ==
  ASSUME Inv, Inv', Forms, Forms', Plainly, Plainly', Change, EnabledInv,
         hw.reports, ReadingBack \/ RunSetPending
  PROVE  Change' /\ EnabledInv'
<1>1. /\ Silent
      /\ UNCHANGED newLevel /\ UNCHANGED statusShadow
      /\ UNCHANGED pendingNewLevel /\ UNCHANGED retries /\ UNCHANGED armed
      /\ UNCHANGED signal /\ UNCHANGED alarm /\ UNCHANGED hw /\ UNCHANGED netlink
      /\ UNCHANGED queue
  BY ReadDoes, PendDoes
<1>2. PICK s \in RegulatorState :
        /\ \E op \in {"ReadState", "ReadStateAgain", "SetPending"} : Coming(Out, op, s)
        /\ \E op \in {"SetPending", "SetStateAgain", "StartTimer"} : Coming(Out', op, s)
  BY ReadDoes, PendDoes
<1>4. /\ s \in {"enabled", "disabled"}
      /\ \A u \in RegulatorState : Changing(Out, u) <=> u = s
      /\ \A u \in RegulatorState : Changing(Out', u) <=> u = s
      /\ ~Confirming(Out') /\ ~Confirming(Out)
      /\ ~Stands(Out, "Apply") /\ ~Stands(Out', "Apply")
  BY <1>2 DEF Coming, RegulatorState
<1>6. /\ Io = <<>> /\ Io' = <<>>
      /\ \A x : ~Holds(x) /\ ~Holds(x)'
      /\ \A c : ~Told(Out', c) /\ ~Told(Out, c)
      /\ ~ErrorNext /\ ~ErrorNext'
      /\ ErrorShows' <=> ErrorShows
      /\ ~Stands(Out', "Report") /\ ~Stands(Out, "Report")
  BY <1>1 DEF Silent, StatusOps
<1>7. /\ Rising <=> s = "enabled"
      /\ Rising' <=> s = "enabled"
      /\ Changes /\ Changes'
      /\ ApplyNext' <=> ApplyNext
      /\ Settled' <=> Settled
  <2>1. ApplyNext' <=> ApplyNext
    BY <1>1, <1>4 DEF ApplyNext
  <2>2. "enabled" \in RegulatorState /\ "disabled" \in RegulatorState
    BY DEF RegulatorState
  <2>3. Settled' <=> Settled
    BY <1>1 DEF Settled
  <2> QED BY <1>4, <2>1, <2>2, <2>3 DEF Rising, Changes
<1>9. ~(newLevel = 1 /\ ApplyNext)
  <2>1. CASE s = "enabled"
    BY <1>7, <2>1 DEF Change, RisingQuiet
  <2>2. CASE s = "disabled"
    BY <1>4, <2>2 DEF Change, AtTimer, RegulatorState
  <2> QED BY <1>4, <2>1, <2>2
<1>10. Change'
  <2>1. Timed'
    BY <1>7 DEF Timed
  <2>2. AtTimer'
    BY <1>1, <1>4 DEF Change, AtTimer, RegulatorState
  <2>3. Unmet'
    BY <1>1, <1>4, <1>7 DEF Change, Unmet
  <2>4. RisingQuiet' /\ RisingOff' /\ Up'
    BY <1>1, <1>6, <1>7 DEF Change, RisingQuiet, RisingOff, Up
  <2>5. RisingTimer'
    <3>1. Changing(Out', "enabled") <=> Changing(Out, "enabled")
      BY <1>4 DEF RegulatorState
    <3> QED BY <1>1, <1>4, <1>7, <3>1 DEF Change, RisingTimer
  <2>6. Off' /\ Down'
    BY <1>1, <1>6, <1>7 DEF Change, Off, Down
  <2>7. Falling' /\ Fresh'
    BY <1>1, <1>7, <1>9 DEF Falling, Fresh
  <2> QED BY <2>1, <2>2, <2>3, <2>4, <2>5, <2>6, <2>7 DEF Change
<1>11. RestFrame
  <2>1. Changing(Out', "enabled") => Changing(Out, "enabled")
    BY <1>4 DEF RegulatorState
  <2> QED BY <1>1, <1>6, <2>1 DEF RestFrame
<1> QED BY <1>10, <1>11, RestStays

(* The timer is started. *)
LEMMA StartTimerKeepsCourse ==
  ASSUME Inv, Inv', Forms, Forms', Plainly, Plainly', Change, EnabledInv,
         hw.reports, PendsInTime, RunStartTimer
  PROVE  Change' /\ EnabledInv'
<1> DEFINE v == IF stateShadow = "enabled" THEN 1 ELSE 0
           h == <<SetEnabled(v)>>
<1>1. /\ Silent /\ Out' = <<>> /\ retries' = Retries /\ armed' = TRUE
      /\ UNCHANGED newLevel /\ UNCHANGED stateShadow /\ UNCHANGED statusShadow
      /\ UNCHANGED pendingLevelChange
      /\ UNCHANGED signal /\ UNCHANGED alarm /\ UNCHANGED hw /\ UNCHANGED netlink
      /\ Post("io", h)
  BY TimerDoes
<1>2. PICK s \in RegulatorState : pendingNewLevel' = s /\ Coming(Out, "StartTimer", s)
  BY TimerDoes
<1>3. /\ Handlers /\ Queues /\ "io" \in Threads
      /\ hw.state \in {"enabled", "disabled"}
  BY DEF Inv, Types, Threads, Simple, RegulatorState, Forms, Queues
<1>4. /\ s \in {"enabled", "disabled"}
      /\ \A u \in RegulatorState : Changing(Out, u) <=> u = s
      /\ ~Confirming(Out)
      /\ ~Stands(Out, "Apply") /\ Stands(Out, "StartTimer")
  BY <1>2 DEF Coming, RegulatorState
<1>5. /\ Io = <<>> /\ Io' = <<>>
      /\ \A x : ~Holds(x) /\ ~Holds(x)'
      /\ \A c : ~Told(Out', c) /\ ~Told(Out, c)
      /\ ~ErrorNext /\ ~ErrorNext'
      /\ ErrorShows <=> <<SetSignals("error")>> \in ToSet(queue["io"])
      /\ ErrorShows' <=> <<SetSignals("error")>> \in ToSet(queue'["io"])
      /\ ~Reporting /\ ~Reporting'
  BY <1>1 DEF Silent
<1>6. /\ \A u : ~Changing(Out', u)
      /\ ~Confirming(Out') /\ \A op : ~Stands(Out', op)
  BY <1>1, NoHandler
<1>7. /\ v \in {0, 1} /\ (hw.state = "enabled" => v = 1) /\ (hw.state = "disabled" => v = 0)
      /\ h \in IoHandlers /\ h \notin Shows
      /\ h \in Zeros <=> v = 0
      /\ h \in Disables <=> v = 0
  <2>1. v \in {0, 1} /\ (hw.state = "enabled" => v = 1) /\ (hw.state = "disabled" => v = 0)
    BY <1>2 DEF Plainly, Between, Coming, WriteOps
  <2> HIDE DEF v
  <2> QED BY <2>1, KnownHandlers, Kinds
<1> HIDE DEF h, v
<1>8. /\ queue'["io"] = Append(queue["io"], h) /\ queue'["output"] = queue["output"]
      /\ ToSet(queue'["io"]) = ToSet(queue["io"]) \cup {h}
      /\ \A M, d : LastIn(queue'["io"], M, d) = IF h \in M THEN h ELSE LastIn(queue["io"], M, d)
  <2>1. queue'["io"] = Append(queue["io"], h) /\ queue'["output"] = queue["output"]
    BY <1>1, <1>3, <1>7, FormsPost
  <2> QED BY <1>3, <1>7, <2>1, ToSetAppend, LastInAppend DEF Queues
<1>9. /\ ~Changes' /\ Changes
      /\ Rising <=> s = "enabled"
      /\ Rising' <=> s = "enabled"
      /\ pendingLevelChange
      /\ ApplyNext' <=> ApplyNext
      /\ Settled' <=> Settled
      /\ ErrorShows' <=> ErrorShows
  <2>2. ApplyNext' <=> ApplyNext
    BY <1>4, <1>6, <1>8 DEF ApplyNext
  <2>3. pendingLevelChange
    BY <1>4 DEF PendsInTime
  <2>4. Settled' <=> Settled
    BY <1>1 DEF Settled
  <2>5. ErrorShows' <=> ErrorShows
    <3>1. <<SetSignals("error")>> \in Shows
      BY DEF Shows, Shown
    <3> QED BY <1>5, <1>7, <1>8, <3>1
  <2>6. "enabled" \in RegulatorState /\ "disabled" \in RegulatorState
    BY DEF RegulatorState
  <2> QED BY <1>1, <1>2, <1>4, <1>6, <2>2, <2>3, <2>4, <2>5, <2>6 DEF Rising, Changes
<1>11. ~(newLevel = 1 /\ ApplyNext)
  <2>1. CASE s = "enabled"
    BY <1>9, <2>1 DEF Change, RisingQuiet
  <2>2. CASE s = "disabled"
    BY <1>4, <2>2 DEF Change, AtTimer, RegulatorState
  <2> QED BY <1>4, <2>1, <2>2
<1>12. Change'
  <2>1. Timed' /\ AtTimer'
    BY <1>1, <1>6 DEF Timed, AtTimer
  <2>2. Unmet'
    <3>1. statusShadow # Goal(s)
      BY <1>4 DEF Change, Unmet
    <3> QED BY <1>1, <1>2, <1>6, <3>1 DEF Unmet
  <2>3. RisingQuiet' /\ RisingOff' /\ Up'
    BY <1>1, <1>2, <1>9 DEF Change, RisingQuiet, RisingOff, Up
  <2>4. RisingTimer'
    <3>1. s = "enabled" => queue["output"] = <<>>
      BY <1>4 DEF Change, RisingTimer, Rising
    <3> QED BY <1>6, <1>8, <1>9, <3>1 DEF RisingTimer
  <2>5. Off' /\ Down'
    BY <1>1, <1>5, <1>9 DEF Change, Off, Down
  <2>6. Falling' /\ Fresh'
    BY <1>1, <1>9, <1>11 DEF Falling, Fresh
  <2> QED BY <2>1, <2>2, <2>3, <2>4, <2>5, <2>6 DEF Change
<1>14. EnabledInv'
  <2>1. Now = <<>> /\ Now' = <<>>
    BY <1>5, NoHandler, AtStands DEF Now
  <2>2. LastShown' = LastShown
    BY <1>7, <1>8, <2>1 DEF LastShown
  <2>3. Heard' /\ NetOrder'
    BY <1>1, <1>5 DEF EnabledInv, Heard, NetOrder, Handles
  <2>4. Tells0' <=> Tells0
    BY <1>1, <1>5 DEF Tells0, Handles
  <2>5. StaysEnabled'
    <3>1. SUFFICES ASSUME ~hw.broken, hw.state = "enabled"
                   PROVE  ToSet(queue'["io"]) \cap Disables = {} /\ ~DisablesNow(Io') /\ ~Tells0'
      BY <1>1, <1>6 DEF StaysEnabled
    <3>2. ToSet(queue["io"]) \cap Disables = {} /\ ~Tells0
      BY <3>1 DEF EnabledInv, StaysEnabled
    <3>3. h \notin Disables
      BY <1>7, <3>1
    <3> QED BY <1>5, <1>8, <2>4, <3>2, <3>3 DEF DisablesNow
  <2>6. ShowsEnabled'
    BY <1>1, <1>5, <2>2 DEF EnabledInv, ShowsEnabled
  <2>7. ShowsDisabled'
    <3>1. SUFFICES ASSUME hw.state = "disabled"
                   PROVE  LastSet' \in Zeros
      BY <1>1 DEF ShowsDisabled
    <3> QED BY <1>7, <1>8, <3>1 DEF LastSet
  <2> QED BY <2>3, <2>5, <2>6, <2>7 DEF EnabledInv
<1> QED BY <1>12, <1>14

(* A change is confirmed, checked again later, or given up. *)
LEMMA ConfirmKeepsCourse ==
  ASSUME Inv, Inv', Forms, Forms', Plainly, Plainly', Change, EnabledInv,
         hw.reports, RunConfirmStatus
  PROVE  Change' /\ EnabledInv'
<1>1. /\ Io = <<>> /\ Io' = <<>>
      /\ UNCHANGED newLevel /\ UNCHANGED stateShadow /\ UNCHANGED statusShadow
      /\ UNCHANGED pendingNewLevel /\ UNCHANGED signal /\ UNCHANGED alarm
      /\ UNCHANGED hw /\ UNCHANGED netlink /\ UNCHANGED queue
      /\ Out # <<>> /\ Confirming(Out) /\ \A u \in RegulatorState : ~Changing(Out, u)
      /\ \A op : Stands(Out, op) <=> op = "ConfirmStatus"
      /\ \A x : ~Held(Out, x)
      /\ \A c : ~Told(Out, c)
      /\ \/ /\ Out' = <<>> /\ UNCHANGED pendingLevelChange
            /\ \/ Confirmed /\ UNCHANGED armed /\ UNCHANGED retries
               \/ retries > 0 /\ armed' = TRUE
         \/ /\ Out' # <<>> /\ ~(retries > 0) /\ pendingLevelChange' = FALSE
            /\ UNCHANGED armed /\ UNCHANGED retries
            /\ \A op : Stands(Out', op) <=> op = "ApplyStatus"
            /\ \A op : \A x : With(Out', op, x) <=> op = "ApplyStatus" /\ x = "error"
            /\ \A x : Held(Out', x) <=> x = "error"
            /\ \A u \in RegulatorState : ~Changing(Out', u)
            /\ ~Confirming(Out')
            /\ \A c : ~Told(Out', c)
  BY ConfirmDoes
<1>2. Simple /\ Simple' /\ hw.state \in {"enabled", "disabled"}
  BY DEF Inv, Types, Simple, RegulatorState
<1>3. /\ ~ErrorNext /\ ~Changes
      /\ \A x : ~Holds(x)
      /\ \A x : Holds(x)' <=> Held(Out', x)
      /\ ErrorShows' <=> ErrorShows
  <2>1. ~ErrorNext /\ ~Changes
    BY <1>1 DEF ErrorNext, Held, Changes, RegulatorState
  <2>2. ~With(Out, "Report", "error") /\ ~With(Out', "Report", "error")
    BY <1>1, NoHandler DEF With
  <2> QED BY <1>1, <2>1, <2>2, IoRests
<1>4. ~Stands(Out, "Report") /\ ~Stands(Out', "Report")
  BY <1>1, NoHandler
<1>5. ~Stands(Out, "Apply") /\ ~Stands(Out', "Apply")
  BY <1>1, NoHandler
<1>6. ~(newLevel = 1 /\ hw.state = "disabled" /\ ApplyNext)
  <2>1. queue["output"] = <<>> => ~ApplyNext
    BY <1>5, ToSetSmall DEF ApplyNext
  <2> QED BY <1>1, <2>1 DEF Change, Fresh
<1>7. /\ TimerQueued' <=> TimerQueued
      /\ Settled' <=> Settled
      /\ ApplyNext' <=> ApplyNext
      /\ Rising <=> pendingLevelChange /\ pendingNewLevel = "enabled"
  BY <1>1, <1>3, <1>5 DEF TimerQueued, Settled, Rising, Changes, ApplyNext
<1>8. CASE /\ Out' = <<>> /\ UNCHANGED pendingLevelChange
           /\ \/ Confirmed /\ UNCHANGED armed /\ UNCHANGED retries
              \/ retries > 0 /\ armed' = TRUE
  <2>1. /\ \A u : ~Changing(Out', u)
        /\ ~Confirming(Out') /\ \A op : ~Stands(Out', op)
        /\ \A op : \A x : ~With(Out', op, x)
        /\ \A x : ~Held(Out', x)
    BY <1>8, NoHandler
  <2>2. ~ErrorNext' /\ \A c : ~Told(Out', c)
    BY <1>1, <1>8, <2>1, NoHandler DEF ErrorNext, Told
  <2>4. ~Changes' /\ (Rising' <=> Rising)
    <3>1. ~Changes'
      BY <2>1 DEF Changes
    <3> QED BY <1>1, <1>7, <1>8, <3>1 DEF Rising, Changes
  <2>6. Confirmed => ~pendingLevelChange /\ pendingNewLevel = hw.state
                     /\ statusShadow = Goal(hw.state)
    BY <1>1, <1>2, <1>3
    DEF Change, Unmet, Plainly, Between, WriteOps, Confirmed, StateConfirmed
  <2>7. Timed' /\ AtTimer' /\ Unmet'
    <3>1. Timed'
      BY <1>1, <1>8, <2>6 DEF Timed
    <3>2. AtTimer'
      BY <2>1 DEF AtTimer
    <3>3. Unmet'
      BY <1>1, <1>3, <1>8, <2>1, <2>4 DEF Change, Unmet
    <3> QED BY <3>1, <3>2, <3>3
  <2>8. RisingQuiet' /\ RisingOff' /\ Up' /\ Off' /\ Down' /\ Fresh'
    <3>1. RisingQuiet' /\ RisingOff' /\ Up'
      BY <1>1, <1>3, <1>7, <2>4 DEF Change, RisingQuiet, RisingOff, Up
    <3>2. Off' /\ Down'
      BY <1>1, <1>3, <1>7, <2>1, <2>2, <2>4 DEF Change, Off, Down
    <3>3. Fresh'
      BY <1>1, <1>6, <1>7 DEF Fresh
    <3> QED BY <3>1, <3>2, <3>3
  <2>9. RisingTimer'
    BY <1>1, <2>1, <2>4 DEF Change, RisingTimer
  <2>10. Falling'
    <3>1. CASE Confirmed
      <4>1. ~(hw.state = "disabled" /\ (statusShadow \in {"on", "error"} \/ hw.status = "on"))
        BY <2>6, <3>1 DEF Goal, Change, Down
      <4> QED BY <1>1, <1>3, <2>1, <4>1 DEF Falling
    <3>2. CASE armed' = TRUE
      BY <3>2 DEF Falling
    <3> QED BY <1>8, <3>1, <3>2
  <2>11. RestFrame
    BY <1>1, <1>4, <2>1, <2>2 DEF RestFrame
  <2> QED BY <2>7, <2>8, <2>9, <2>10, <2>11, RestStays DEF Change
<1>9. CASE /\ Out' # <<>> /\ ~(retries > 0) /\ pendingLevelChange' = FALSE
           /\ UNCHANGED armed /\ UNCHANGED retries
           /\ \A op : Stands(Out', op) <=> op = "ApplyStatus"
           /\ \A op : \A x : With(Out', op, x) <=> op = "ApplyStatus" /\ x = "error"
           /\ \A x : Held(Out', x) <=> x = "error"
           /\ \A u \in RegulatorState : ~Changing(Out', u)
           /\ ~Confirming(Out')
           /\ \A c : ~Told(Out', c)
  <2>1. ErrorNext'
    BY <1>9 DEF ErrorNext
  <2>2. ~Changes' /\ ~Rising'
    BY <1>9 DEF Changes, Rising, RegulatorState
  <2>3. retries = 0
    BY <1>2, <1>9, ConstantsAssumption DEF Simple
  <2>4. hw.state = "enabled" => Settled
    BY <1>1, <2>3 DEF Change, Up, RisingTimer
  <2>5. Timed' /\ AtTimer' /\ Unmet'
    <3>1. ~Stands(Out', "StartTimer") /\ ~Changing(Out', "disabled")
      BY <1>9 DEF RegulatorState
    <3> QED BY <1>9, <2>2, <3>1 DEF Timed, AtTimer, Unmet
  <2>6. RisingQuiet' /\ RisingTimer' /\ RisingOff' /\ Up'
    BY <1>1, <1>7, <2>2, <2>4 DEF RisingQuiet, RisingTimer, RisingOff, Up
  <2>7. Off' /\ Down'
    BY <1>1, <1>3, <1>9, <2>1, <2>2 DEF Change, Off, Down
  <2>8. Falling'
    BY <1>1, <1>3, <1>7, <1>9, <2>3 DEF Change, Falling
  <2>9. Fresh'
    BY <1>1, <1>6, <1>7 DEF Fresh
  <2>10. RestFrame
    <3>1. ~Changing(Out', "enabled")
      BY <1>9 DEF RegulatorState
    <3> QED BY <1>1, <1>4, <1>9, <3>1 DEF RestFrame
  <2> QED BY <2>5, <2>6, <2>7, <2>8, <2>9, <2>10, RestStays DEF Change
<1> QED BY <1>1, <1>8, <1>9

(* The output thread. *)
LEMMA OutKeepsCourse ==
  ASSUME Inv, Inv', Forms, Forms', Plainly, Plainly', Change, EnabledInv,
         hw.reports, Decides, PendsInTime, OutputThread, ~overlapped'
  PROVE  Change' /\ EnabledInv'
<1>1. CASE \/ RunApplyStatus("output") \/ RunCommit("output") \/ RunReadStatus("output")
           \/ RunReport("output")
  <2>1. Simple /\ Simple'
    BY DEF Inv, Types
  <2>2. OutFrame /\ OutKeep
    BY <1>1, <2>1, OutHandles, OutReports
  <2> QED BY <2>1, <2>2, OutKeepsChange, OutKeepsRest
<1>2. CASE Start("output") \/ StartEvent
  BY <1>2, TakeKeepsCourse, ReceiveKeepsCourse
<1>3. CASE RunApply \/ Writing
  BY <1>3, ApplyKeepsCourse, WriteKeepsCourse
<1>4. CASE ReadingBack \/ RunSetPending \/ RunStartTimer
  BY <1>4, PendKeepsCourse, StartTimerKeepsCourse
<1>5. CASE RunConfirmStatus \/ RunHandleEvent
  BY <1>5, ConfirmKeepsCourse, EventKeepsCourse
<1> QED BY <1>1, <1>2, <1>3, <1>4, <1>5 DEF OutputThread, Writing, ReadingBack

(* Nothing happens, or the callback finds _On off already. *)
LEMMA NothingKeepsCourse ==
  ASSUME Change, EnabledInv, UNCHANGED vars \/ OffAlready
  PROVE  Change' /\ EnabledInv'
<1>1. /\ UNCHANGED <<newLevel, shadows, signal, queue, run, hw, netlink>>
      /\ Out' = Out /\ Io' = Io /\ (alarm' => alarm)
  BY DEF vars, shadows, outside, OffAlready, Out, Io
<1>2. /\ UNCHANGED newLevel /\ UNCHANGED stateShadow /\ UNCHANGED statusShadow
      /\ UNCHANGED pendingLevelChange /\ UNCHANGED pendingNewLevel
      /\ UNCHANGED retries /\ UNCHANGED armed
  BY <1>1 DEF shadows
<1>3. /\ TimerQueued' <=> TimerQueued
      /\ ApplyNext' <=> ApplyNext
      /\ Changes' <=> Changes
      /\ Rising' <=> Rising
      /\ ErrorNext' <=> ErrorNext
      /\ ErrorShows' <=> ErrorShows
      /\ \A x : Holds(x)' <=> Holds(x)
      /\ Settled' <=> Settled
  <2>1. Settled' <=> Settled
    BY <1>1 DEF Settled
  <2>2. (TimerQueued' <=> TimerQueued) /\ (ApplyNext' <=> ApplyNext)
    BY <1>1 DEF TimerQueued, ApplyNext
  <2> QED BY <1>1, <1>2, <2>1, <2>2, ThreadsStay
<1>5. Timed' /\ AtTimer' /\ Unmet'
  BY <1>1, <1>2, <1>3 DEF Change, Timed, AtTimer, Unmet
<1>6. RisingQuiet' /\ RisingTimer' /\ RisingOff' /\ Up'
  BY <1>1, <1>2, <1>3 DEF Change, RisingQuiet, RisingTimer, RisingOff, Up
<1>7. Off' /\ Down' /\ Falling'
  BY <1>1, <1>2, <1>3 DEF Change, Off, Down, Falling
<1>8. Fresh'
  BY <1>1, <1>2, <1>3 DEF Change, Fresh
<1>9. Change'
  BY <1>5, <1>6, <1>7, <1>8 DEF Change
<1>10. RestFrame
  BY <1>1, <1>2 DEF RestFrame
<1> QED BY <1>9, <1>10, RestStays

(* Every step keeps the course, when _On waits for a change to be over. *)
LEMMA CourseNext ==
  ASSUME Patient
  PROVE  GuardInv /\ GuardInv' /\ Course /\ [Next]_vars => Course'
<1> SUFFICES ASSUME GuardInv, GuardInv', Course, [Next]_vars, Alone'
             PROVE  Change' /\ EnabledInv'
  BY DEF Course
<1>1. /\ Inv /\ Inv' /\ Forms /\ Forms' /\ Plainly /\ Plainly' /\ Decides /\ PendsInTime
      /\ Change /\ EnabledInv /\ ~overlapped' /\ hw.reports
  <2>1. Alone
    BY AloneBefore DEF GuardInv
  <2> QED BY <2>1 DEF GuardInv, Guarded, Course, Alone
<1>2. CASE IoThread
  BY <1>1, <1>2, IoKeepsCourse
<1>3. CASE OutputThread
  BY <1>1, <1>3, OutKeepsCourse
<1>4. CASE Expire
  BY <1>1, <1>4, ExpireKeepsCourse
<1>5. CASE Requests \/ (alarm /\ AlarmUpdates)
  BY <1>1, <1>5, UpdateKeepsCourse
<1>6. CASE HwSettles
  BY <1>1, <1>6, SettlesKeepsCourse
<1>7. CASE HwSwings \/ HwBreaks
  BY <1>1, <1>7, FailsKeepsCourse
<1>8. CASE UNCHANGED vars \/ OffAlready
  BY <1>1, <1>8, NothingKeepsCourse
<1> QED BY <1>2, <1>3, <1>4, <1>5, <1>6, <1>7, <1>8 DEF Next, Alarm

(* No change is under way when the constructor has run. *)
LEMMA CourseInit == Init => Course
<1> SUFFICES ASSUME Init, Alone
             PROVE  Change /\ EnabledInv
  BY DEF Course
<1> DEFINE h == <<SetSignals(statusShadow)>>
<1>1. /\ queue["io"] = <<h>> /\ queue["output"] = <<>> /\ Io = <<>> /\ Out = <<>>
      /\ netlink = <<>> /\ ~armed
      /\ stateShadow = hw.state /\ statusShadow = Goal(hw.state)
  BY DEF Init, Threads, Io, Out
<1>2. /\ hw.broken = FALSE /\ hw.state \in {"enabled", "disabled"}
      /\ hw.status = Goal(hw.state)
      /\ pendingNewLevel = hw.state
      /\ ~pendingLevelChange
  <2>1. /\ hw.broken = FALSE /\ hw.state \in {"enabled", "disabled"}
        /\ hw.status = Goal(hw.state)
    BY DEF Init, RegulatorState
  <2>2. pendingNewLevel = hw.state
    BY <2>1 DEF Init, Alone, DecodeStatus, Goal
  <2> QED BY <1>1, <2>1, <2>2 DEF Init
<1>4. /\ \A s : ~Changing(Out, s)
      /\ ~Confirming(Out) /\ \A op : ~Stands(Out, op) /\ ~Stands(Io, op)
      /\ \A op : \A x : ~With(Out, op, x)
      /\ \A x : ~Held(Out, x)
      /\ \A x : ~Holds(x)
      /\ \A x : ~Reports(x)
      /\ Decided(Io) /\ ~DisablesNow(Io)
  BY <1>1, NoHandler, IoRests
<1>5. /\ ~ApplyNext /\ ~TimerQueued /\ ~Changes /\ ~Rising /\ ~ErrorNext
      /\ \A c : ~Told(Out, c)
      /\ ~Tells0
  <2>1. ToSet(queue["output"]) = {}
    BY <1>1, ToSetSmall
  <2>2. \A c : ~Told(Out, c)
    BY <1>1, <1>4 DEF Told
  <2>3. ~Tells0
    BY <1>1, <2>2 DEF Tells0, Handles
  <2>4. ~ApplyNext /\ ~TimerQueued
    BY <1>4, <2>1 DEF ApplyNext, TimerQueued
  <2>5. ~Changes /\ ~Rising /\ ~ErrorNext
    BY <1>2, <1>4 DEF Changes, Rising, ErrorNext
  <2> QED BY <2>2, <2>3, <2>4, <2>5
<1>6. Settled
  BY <1>2 DEF Settled
<1>8. Change
  <2>1. Timed /\ AtTimer /\ Unmet
    BY <1>2, <1>4 DEF Timed, AtTimer, Unmet
  <2>2. RisingQuiet /\ RisingTimer /\ RisingOff /\ Up
    BY <1>5, <1>6 DEF RisingQuiet, RisingTimer, RisingOff, Up
  <2>3. Off /\ Down /\ Falling
    BY <1>1, <1>2, <1>4 DEF Off, Down, Falling, Goal
  <2>4. Fresh
    BY <1>5 DEF Fresh
  <2> QED BY <2>1, <2>2, <2>3, <2>4 DEF Change
<1>10. EnabledInv
  <2>1. statusShadow \in Shown /\ statusShadow \in {"on", "off"}
    BY <1>1 DEF Goal, Shown
  <2>2. /\ h \in Shows /\ h \notin Disables /\ h \in IoHandlers
        /\ h \in Zeros <=> statusShadow = "off"
    BY <2>1, Kinds, KnownHandlers
  <2> HIDE DEF h
  <2>3. ToSet(queue["io"]) = {h}
    BY <1>1, ToSetSmall
  <2>4. \A M, d : h \in M => LastIn(queue["io"], M, d) = h
    <3>1. <<h>> = Append(<<>>, h) /\ <<>> \in Seq(IoHandlers)
      OBVIOUS
    <3>2. ASSUME NEW q \in Seq(IoHandlers), NEW M, NEW d, h \in M
          PROVE  LastIn(Append(q, h), M, d) = h
      BY <2>2, <3>2, LastInAppend
    <3> QED BY <1>1, <3>1, <3>2
  <2>5. Heard /\ NetOrder
    BY <1>1, <1>5 DEF Heard, NetOrder, Handles
  <2>6. StaysEnabled
    BY <1>4, <1>5, <2>2, <2>3 DEF StaysEnabled
  <2>7. ShowsEnabled
    BY <2>2, <2>4 DEF ShowsEnabled, LastShown, h
  <2>8. ShowsDisabled
    BY <2>2, <2>4 DEF ShowsDisabled, LastSet
  <2> QED BY <2>5, <2>6, <2>7, <2>8 DEF EnabledInv
<1> QED BY <1>8, <1>10

(* What holds at rest. *)
LEMMA AtRestNothing ==
  ASSUME Change, AtRest
  PROVE  /\ ~pendingLevelChange /\ ~ErrorNext /\ ~Rising /\ ~Reporting
         /\ LastShown = <<>> /\ LastSet = <<>> /\ ~Tells0
         /\ \A v : ~Writes(Io, v)
         /\ hw.state = "disabled" => statusShadow \notin {"on", "error"}
<1>1. /\ Out = <<>> /\ Io = <<>> /\ netlink = <<>> /\ ~armed
      /\ queue["io"] = <<>> /\ queue["output"] = <<>>
  BY DEF AtRest, ThreadsIdle, Threads, Out, Io
<1>2. /\ \A s : ~Changing(Out, s)
      /\ ~Confirming(Out) /\ \A op : ~Stands(Out, op) /\ ~Stands(Io, op)
      /\ \A op : \A x : ~With(Out, op, x)
      /\ \A x : ~Held(Out, x)
  BY <1>1, NoHandler
<1>3. ~TimerQueued /\ ~Changes
  BY <1>1, <1>2, ToSetSmall DEF TimerQueued, Changes
<1>4. ~pendingLevelChange /\ ~ErrorNext /\ ~Rising
  BY <1>1, <1>2, <1>3 DEF Change, Timed, ErrorNext, Rising
<1>5. ~Reporting /\ LastShown = <<>> /\ LastSet = <<>>
  BY <1>1, <1>2, AtStands, LastInEmpty DEF Reporting, Now, LastShown, LastSet
<1>6. ~Tells0 /\ \A v : ~Writes(Io, v)
  BY <1>1, NoHandler DEF Tells0, Handles, Told, Writes
<1>7. hw.state = "disabled" => statusShadow \notin {"on", "error"}
  BY <1>1, <1>2, <1>3 DEF Change, Falling
<1> QED BY <1>4, <1>5, <1>6, <1>7

(* CourseHolds: a change keeps to its course in every state that can be     *)
(* reached, for any number of retries and faults and with both threads      *)
(* interleaved: Apply, the timer, ConfirmStatus and the events of netlink   *)
(* find each other as `Course' says.  Only while the handlers of the threads*)
(* have overlapped, or with a driver that reports no status, nothing is     *)
(* said.  _On waits for the last change to be over.                         *)
THEOREM CourseHolds ==
  ASSUME Patient
  PROVE  Spec => [](GuardInv /\ Course)
<1>1. Init => Course
  BY CourseInit
<1>2. GuardInv /\ GuardInv' /\ Course /\ [Next]_vars => Course'
  BY CourseNext
<1> QED BY <1>1, <1>2, GuardHolds, PTL DEF Spec

(* FaultIsReported: a regulator that is on and broken is reported on _Fault *)
(* at rest.  The event of the fault may come while a change is pending, and *)
(* is then passed over (ApplyStatus): the retries of ConfirmStatus find it. *)
THEOREM FaultIsReported ==
  ASSUME Patient
  PROVE  Spec => []FaultReported
<1>1. Course /\ ~FaultReported => ~pendingLevelChange
  BY AtRestNothing DEF Course, FaultReported, Steady, Alone
<1> QED BY <1>1, CourseHolds, FaultIsTakenForAChange, PTL

-----------------------------------------------------------------------------
(* The regulator obeys, whoever asks and whenever. *)

(* What io does leaves the output thread with what it was about. *)
LEMMA IoLeaves ==
  ASSUME Inv, Inv', IoThread
  PROVE  /\ Out' = Out /\ queue'["output"] = queue["output"]
         /\ UNCHANGED newLevel /\ UNCHANGED pendingNewLevel /\ UNCHANGED armed
         /\ UNCHANGED hw
         /\ alarm => alarm'
         /\ \/ UNCHANGED statusShadow /\ UNCHANGED pendingLevelChange
            \/ /\ Io # <<>> /\ Head(Io).op = "Commit" /\ statusShadow' = Head(Io).status
               /\ pendingLevelChange' = (pendingLevelChange /\ ~Head(Io).done)
               /\ With(Io', "Report", statusShadow')
<1>1. Handlers /\ Simple /\ Simple' /\ "io" \in Threads /\ "output" \in Threads
      /\ Other("io") = "output"
  BY DEF Inv, Types, Threads, Other
<1>2. /\ UNCHANGED newLevel /\ UNCHANGED pendingNewLevel /\ UNCHANGED armed
      /\ UNCHANGED hw
      /\ UNCHANGED alarm \/ RunSetSignals
  BY DEF IoThread, Start, RunApplyStatus, RunCommit, RunReport, RunReadStatus,
         RunCheckLater, RunCheckStatus, RunCompareStatus, RunSetEnabled,
         RunSetSignals, shadows, outside
<1>3. alarm => alarm'
  BY <1>2 DEF RunSetSignals
<1>4. Out' = Out /\ queue'["output"] = queue["output"]
  <2>1. CASE Start("io")
    BY <1>1, <2>1, Takes DEF Start, Out
  <2>2. CASE ~Start("io")
    <3>1. /\ \E r : run' = [run EXCEPT !["io"] = r]
          /\ UNCHANGED queue \/ \E r : queue' = [queue EXCEPT !["io"] = r]
      BY <2>2 DEF IoThread, RunApplyStatus, RunCommit, RunReport, RunReadStatus,
           RunCheckLater, RunCheckStatus, RunCompareStatus, RunSetEnabled,
           RunSetSignals, Continue, Post
    <3> QED BY <1>1, <3>1 DEF Handlers, Out
  <2> QED BY <2>1, <2>2
<1>5. CASE RunCommit("io")
  <2>1. /\ Io # <<>> /\ Head(Io).op = "Commit" /\ statusShadow' = Head(Io).status
        /\ pendingLevelChange' = (pendingLevelChange /\ ~Head(Io).done)
        /\ Continue("io", <<Report(Head(Io).status)>>)
    BY <1>5 DEF RunCommit, At, Io
  <2>2. Report(Head(Io).status) \in Step
    BY <1>1, <2>1, Known DEF Simple
  <2> DEFINE x == Report(Head(Io).status)
  <2>3. x.op = "Report" /\ x.status = Head(Io).status
    BY DEF Report
  <2> HIDE DEF x
  <2>4. Io' # <<>> /\ Head(Io') = x
    BY <1>1, <2>1, <2>2, Proceeds DEF Io, x
  <2> QED BY <1>2, <1>3, <1>4, <2>1, <2>3, <2>4 DEF With, Stands
<1>6. CASE ~RunCommit("io")
  <2>1. UNCHANGED statusShadow /\ UNCHANGED pendingLevelChange
    BY <1>6 DEF IoThread, Start, RunApplyStatus, RunReport, RunReadStatus,
         RunCheckLater, RunCheckStatus, RunCompareStatus, RunSetEnabled,
         RunSetSignals, shadows, outside
  <2> QED BY <1>2, <1>3, <1>4, <2>1
<1> QED BY <1>5, <1>6

(* Of the failures that are left. *)
LEMMA FewerLeft ==
  ASSUME NEW f \in Int, NEW g \in Int, NEW m \in Int
  PROVE  /\ g <= f /\ f + 2 <= m => g + 2 <= m
         /\ g <= f /\ f + 1 <= m => g + 1 <= m
         /\ g + 1 = f /\ f + 1 <= m => g + 2 <= m
         /\ g + 1 = f /\ f <= m => g + 1 <= m
         /\ g = f - 1 => g + 1 = f /\ g <= f
         /\ g = f => g <= f
  OBVIOUS

(* Failures are not taken back. *)
LEMMA FailuresStay ==
  ASSUME Simple, Simple', faults' <= faults
  PROVE  (OneFailed => OneFailed') /\ (TwoFailed => TwoFailed')
<1>1. faults \in Int /\ faults' \in Int /\ Faults \in Int
  BY ConstantsAssumption DEF Simple
<1>2. /\ faults + 1 <= Faults => faults' + 1 <= Faults
      /\ faults + 2 <= Faults => faults' + 2 <= Faults
  BY <1>1, FewerLeft
<1> QED BY <1>2 DEF OneFailed, TwoFailed

(* Such a step has no part in what the regulator obeys. *)
LEMMA ElsewhereObeys ==
  ASSUME Simple, Simple', ShadowFits, Towards, Elsewhere
  PROVE  /\ ShadowFits' /\ Towards' /\ ((refused => TwoFailed) => (refused => TwoFailed)')
         /\ (newLevel # Undefined => Obeyed) => (newLevel # Undefined => Obeyed)'
<1>1. /\ hw'.state = hw.state /\ stateShadow' = stateShadow
      /\ pendingNewLevel' = pendingNewLevel /\ refused' = refused
      /\ (OneFailed => OneFailed') /\ (TwoFailed => TwoFailed')
      /\ \A s \in RegulatorState : Changing(Out', s) <=> Changing(Out, s)
  BY FailuresStay DEF Elsewhere
<1>2. ApplyNext' \/ (~ApplyNext /\ newLevel' = newLevel /\ Asked' = Asked)
  BY DEF Elsewhere, Asked
<1>3. \A op \in Changers : Stands(Out', op) <=> Stands(Out, op)
  BY DEF Elsewhere
<1>4. /\ Stands(Out', "ReadState") <=> Stands(Out, "ReadState")
      /\ Stands(Out', "SetStateAgain") <=> Stands(Out, "SetStateAgain")
      /\ Stands(Out', "ReadStateAgain") <=> Stands(Out, "ReadStateAgain")
      /\ Stands(Out', "SetPending") <=> Stands(Out, "SetPending")
      /\ Stands(Out', "StartTimer") <=> Stands(Out, "StartTimer")
  BY <1>3 DEF Changers, WriteOps
<1>5. (Changes' <=> Changes) /\ (Between(Out') <=> Between(Out))
  BY <1>1, <1>3 DEF Changes, RegulatorState, Between, Changers
<1>6. Towards'
  <2>1. SUFFICES ASSUME NEW s \in RegulatorState, Changing(Out', s)
        PROVE  /\ ApplyNext' \/ s = Asked'
               /\ Stands(Out', "ReadState") => hw'.state = s \/ OneFailed'
               /\ Stands(Out', "SetStateAgain") \/ Stands(Out', "ReadStateAgain")
                    => OneFailed'
               /\ Stands(Out', "ReadStateAgain") => hw'.state = s \/ TwoFailed'
               /\ Stands(Out', "SetPending") \/ Stands(Out', "StartTimer") =>
                    hw'.state = s \/ refused'
    BY DEF Towards
  <2>2. Changing(Out, s)
    BY <1>1, <2>1
  <2> QED BY <1>1, <1>2, <1>4, <2>2 DEF Towards
<1>7. ShadowFits'
  BY <1>1, <1>5 DEF ShadowFits
<1>8. (newLevel # Undefined => Obeyed) => (newLevel # Undefined => Obeyed)'
  BY <1>1, <1>2, <1>5 DEF Obeyed
<1> QED BY <1>1, <1>6, <1>7, <1>8

(* A handler that is about to do one of these does nothing else after it. *)
LEMMA AsideForms ==
  ASSUME NEW r, OutForm(r), r # <<>> => Head(r) \in Step /\ Head(r).op \in Aside
  PROVE  /\ \A s \in RegulatorState : ~Changing(r, s)
         /\ \A op : Stands(r, op) => op \in Aside
         /\ r # <<>> /\ Tail(r) # <<>> => Head(Tail(r)).op \in Aside
<1>1. \A s \in RegulatorState : ~Changing(r, s)
  BY OutTable DEF Aside, StatusOps
<1>2. \A op : Stands(r, op) => op \in Aside
  BY DEF Stands
<1>3. ASSUME r # <<>>
      PROVE  Tail(r) = <<>> \/ Tail(r) = <<ConfirmStatus>>
               \/ \E e \in Sent : Tail(r) = <<HandleEvent(e)>>
  BY <1>3, OutTable DEF Aside, StatusOps
<1>4. Head(<<ConfirmStatus>>).op \in Aside
  BY ShortHandlers DEF ConfirmStatus, Aside
<1>5. \A e \in Sent : Head(<<HandleEvent(e)>>).op \in Aside
  BY ShortHandlers DEF HandleEvent, Aside
<1>6. r # <<>> /\ Tail(r) # <<>> => Head(Tail(r)).op \in Aside
  BY <1>3, <1>4, <1>5, Zenon
<1> QED BY <1>1, <1>2, <1>6

(* It goes on with such an instruction, or comes to the end of the handler. *)
LEMMA AsideIsElsewhere ==
  ASSUME Inv, Inv', Forms, Forms', Out # <<>>, Head(Out).op \in Aside,
         \/ Continue("output", <<>>)
         \/ \E x \in Step : x.op \in Aside /\ Continue("output", <<x>>),
         UNCHANGED <<newLevel, stateShadow, pendingNewLevel, hw, refused>>,
         faults' <= faults, queue'["output"] = queue["output"]
  PROVE  Elsewhere
<1>1. Handlers /\ Handlers' /\ "output" \in Threads
  BY DEF Inv, Types, Threads
<1>2. /\ OutForm(Out) /\ OutForm(Out') /\ Head(Out) \in Step
      /\ Out' # <<>> => Head(Out') \in Step
  BY <1>1 DEF Forms, Handlers, Out
<1>3. Tail(Out) # <<>> => Head(Tail(Out)).op \in Aside
  BY <1>2, AsideForms
<1>4. Out' # <<>> => Head(Out').op \in Aside
  <2>1. CASE Continue("output", <<>>)
    BY <1>1, <1>3, <2>1, Proceeds DEF Out
  <2>2. ASSUME NEW x \in Step, x.op \in Aside, Continue("output", <<x>>)
        PROVE  Out' # <<>> => Head(Out').op \in Aside
    BY <1>1, <2>2, Proceeds DEF Out
  <2> QED BY <2>1, <2>2
<1>5. /\ \A s \in RegulatorState : ~Changing(Out, s) /\ ~Changing(Out', s)
      /\ \A op : Stands(Out, op) \/ Stands(Out', op) => op \in Aside
  <2>1. /\ \A s \in RegulatorState : ~Changing(Out, s)
        /\ \A op : Stands(Out, op) => op \in Aside
    BY <1>2, AsideForms
  <2>2. /\ \A s \in RegulatorState : ~Changing(Out', s)
        /\ \A op : Stands(Out', op) => op \in Aside
    BY <1>2, <1>4, AsideForms
  <2> QED BY <2>1, <2>2
<1>6. ApplyNext' <=> ApplyNext
  BY <1>5 DEF ApplyNext, Aside
<1>7. \A op \in Changers : op \notin Aside
  BY DEF Changers, WriteOps, Aside
<1> QED BY <1>5, <1>6, <1>7 DEF Elsewhere

(* The steps of the output thread that have to do with a status or an event. *)
LEMMA StatusIsElsewhere ==
  ASSUME Inv, Inv', Forms, Forms',
         \/ RunApplyStatus("output") \/ RunCommit("output") \/ RunReport("output")
         \/ RunReadStatus("output") \/ RunConfirmStatus \/ RunHandleEvent
  PROVE  Elsewhere
<1>1. Handlers /\ Simple /\ Simple' /\ "output" \in Threads /\ "io" \in Threads
  BY DEF Inv, Types, Threads
<1>2. /\ Out # <<>> /\ Head(Out).op \in Aside /\ Head(Out) \in Step
      /\ UNCHANGED <<newLevel, stateShadow, pendingNewLevel, hw, refused>>
  <2>1. /\ Out # <<>> /\ Head(Out).op \in Aside
        /\ UNCHANGED <<newLevel, stateShadow, pendingNewLevel, hw, refused>>
    BY DEF RunApplyStatus, RunCommit, RunReport, RunReadStatus, RunConfirmStatus,
           RunHandleEvent, At, Out, Aside, shadows, outside
  <2> QED BY <1>1, <2>1 DEF Handlers, Out
<1>3. faults' <= faults
  <2>1. UNCHANGED faults \/ \E status : Reads(status)
    BY DEF RunApplyStatus, RunCommit, RunReport, RunReadStatus, RunConfirmStatus,
           RunHandleEvent, outside
  <2> QED BY <1>1, <2>1 DEF Reads, Simple
<1>4. queue'["output"] = queue["output"]
  <2>1. UNCHANGED queue \/ \E h : Post("io", h)
    BY DEF RunApplyStatus, RunCommit, RunReport, RunReadStatus, RunConfirmStatus,
           RunHandleEvent
  <2> QED BY <1>1, <2>1 DEF Post, Handlers
<1>5. \/ Continue("output", <<>>)
      \/ \E x \in Step : x.op \in Aside /\ Continue("output", <<x>>)
  <2>1. CASE RunApplyStatus("output")
    <3> DEFINE status == Effective(Head(Out).status)
               x == Commit(status, Done(status))
    <3>1. /\ Head(Out).op = "ApplyStatus"
          /\ Continue("output", <<>>) \/ Continue("output", <<x>>)
      BY <2>1 DEF RunApplyStatus, At, Out
    <3>2. x.op \in Aside
      BY DEF Commit, Aside
    <3>3. x \in Step
      <4>1. Head(Out).status \in Decoded
        BY <1>2, <3>1, Operands
      <4>2. status \in Shown
        BY <1>1, <4>1, EffectiveIsShown DEF Simple
      <4>3. Done(status) \in BOOLEAN
        BY <1>1 DEF Done, Simple
      <4> QED BY <4>2, <4>3, Known
    <3> QED BY <3>1, <3>2, <3>3
  <2>2. CASE RunCommit("output")
    <3> DEFINE x == Report(Head(Out).status)
    <3>1. Continue("output", <<x>>) /\ Head(Out).op = "Commit"
      BY <2>2 DEF RunCommit, At, Out
    <3>2. x \in Step
      BY <1>2, <3>1, SpecialForms, Known
    <3>3. x.op \in Aside
      BY DEF Report, Aside
    <3> QED BY <3>1, <3>2, <3>3
  <2>3. CASE RunReadStatus("output")
    <3>1. PICK status \in RegulatorStatus :
             Reads(status) /\ Continue("output", <<ApplyStatus(status)>>)
      BY <2>3 DEF RunReadStatus
    <3>2. status \in Decoded
      BY <1>1, <3>1, StatusIsDecoded DEF Simple
    <3>3. ApplyStatus(status) \in Step
      BY <3>2, Known
    <3>4. ApplyStatus(status).op \in Aside
      BY DEF ApplyStatus, Aside
    <3> QED BY <3>1, <3>3, <3>4
  <2>4. CASE RunConfirmStatus
    <3>1. ApplyStatus("error") \in Step
      BY Known DEF Decoded
    <3>2. ApplyStatus("error").op \in Aside
      BY DEF ApplyStatus, Aside
    <3> QED BY <2>4, <3>1, <3>2 DEF RunConfirmStatus
  <2>5. CASE RunReport("output") \/ RunHandleEvent
    BY <2>5 DEF RunReport, RunHandleEvent
  <2> QED BY <2>1, <2>2, <2>3, <2>4, <2>5
<1> QED BY <1>2, <1>3, <1>4, <1>5, AsideIsElsewhere

(* The output thread takes a handler, or receives an event. *)
LEMMA TakeIsElsewhere ==
  ASSUME Inv, Inv', Forms, Forms', Start("output") \/ StartEvent
  PROVE  Elsewhere
<1>1. Handlers /\ Handlers' /\ Simple /\ Simple' /\ "output" \in Threads
  BY DEF Inv, Types, Threads
<1>2. /\ Out = <<>>
      /\ UNCHANGED <<newLevel, stateShadow, pendingNewLevel, hw, faults, refused>>
  BY DEF Start, StartEvent, TakeHandler, Out, shadows
<1>3. (\A s : ~Changing(Out, s)) /\ (\A op : ~Stands(Out, op))
  BY <1>2, NoHandler
<1>4. OutForm(Out') /\ (Out' # <<>> => Head(Out') \in Step)
  BY <1>1 DEF Forms, Handlers, Out
<1>5. CASE Start("output")
  <2>1. /\ queue["output"] # <<>> /\ Out' = Head(queue["output"])
        /\ queue'["output"] = Tail(queue["output"])
    BY <1>1, <1>5, Takes DEF Start, Out
  <2>2. /\ queue["output"] \in Seq(OutHandlers) /\ Out' \in OutHandlers
    BY <2>1 DEF Forms
  <2>3. ToSet(queue["output"]) = {Out'} \cup ToSet(queue'["output"])
    BY <2>1, <2>2, ToSetTail
  <2>4. /\ Head(<<Apply>>).op = "Apply" /\ <<Apply>> # <<>>
        /\ Head(Timer).op = "ReadStatus" /\ Timer # <<>>
    BY ShortHandlers DEF Apply, Timer, ReadStatus
  <2>5. Out' # <<>> /\ Head(Out').op \in {"Apply", "ReadStatus"}
    BY <2>2, <2>4 DEF OutHandlers
  <2>6. (\A s \in RegulatorState : ~Changing(Out', s))
        /\ (\A op : Stands(Out', op) => op \in {"Apply", "ReadStatus"})
    <3>1. \A s \in RegulatorState : ~Changing(Out', s)
      BY <1>4, <2>5, OutTable
    <3> QED BY <2>5, <3>1 DEF Stands
  <2>7. Out' = <<Apply>> => Stands(Out', "Apply")
    BY <2>4 DEF Stands
  <2>8. ApplyNext => ApplyNext'
    BY <1>3, <2>3, <2>7 DEF ApplyNext
  <2>9. \A op \in Changers : op \notin {"Apply", "ReadStatus"}
    BY DEF Changers, WriteOps
  <2> QED BY <1>1, <1>2, <1>3, <2>6, <2>8, <2>9 DEF Elsewhere, Simple
<1>6. CASE StartEvent
  <2> DEFINE e == Head(netlink)
             r == (IF e.failure THEN <<ApplyStatus("error")>> ELSE <<>>)
                    \o (IF e.change # "none" THEN <<HandleEvent(e)>> ELSE <<>>)
  <2>1. /\ netlink # <<>> /\ UNCHANGED queue /\ run' = [run EXCEPT !["output"] = r]
    BY <1>6 DEF StartEvent
  <2>2. e \in Sent
    BY <2>1 DEF Forms
  <2>3. /\ e.failure => Head(r) = ApplyStatus("error")
        /\ ~e.failure => r = <<HandleEvent(e)>>
    BY <2>2, EventHandlers
  <2> HIDE DEF r
  <2>4. Out' = r
    BY <1>1, <2>1 DEF Handlers, Out
  <2>5. /\ Head(<<HandleEvent(e)>>).op = "HandleEvent"
        /\ ApplyStatus("error").op = "ApplyStatus"
    BY ShortHandlers DEF HandleEvent, ApplyStatus
  <2>6. Head(Out').op \in Aside
    BY <2>3, <2>4, <2>5 DEF Aside
  <2>7. (\A s \in RegulatorState : ~Changing(Out', s))
        /\ (\A op : Stands(Out', op) => op \in Aside)
    BY <1>4, <2>6, AsideForms
  <2>8. ApplyNext' <=> ApplyNext
    BY <1>3, <2>1, <2>7 DEF ApplyNext, Aside
  <2>9. \A op \in Changers : op \notin Aside
    BY DEF Changers, WriteOps, Aside
  <2> QED BY <1>1, <1>2, <1>3, <2>7, <2>8, <2>9 DEF Elsewhere, Simple
<1> QED BY <1>5, <1>6

(* What happens outside of the output thread. *)
LEMMA OthersAreElsewhere ==
  ASSUME Inv, Inv', Forms, Forms',
         \/ IoThread \/ Expire \/ Requests \/ Alarm \/ HwSettles \/ HwSwings \/ HwBreaks
         \/ UNCHANGED vars
  PROVE  Elsewhere
<1>1. Handlers /\ Simple /\ Simple' /\ "output" \in Threads /\ "io" \in Threads /\ Queues
  BY DEF Inv, Types, Threads, Forms, Queues
<1>2. ASSUME Out' = Out, UNCHANGED <<stateShadow, pendingNewLevel, refused>>,
             hw'.state = hw.state, faults' <= faults,
             ApplyNext' \/ (UNCHANGED newLevel /\ queue'["output"] = queue["output"])
      PROVE  Elsewhere
  <2>1. queue'["output"] = queue["output"] => (ApplyNext' <=> ApplyNext)
    BY <1>2 DEF ApplyNext
  <2> QED BY <1>2, <2>1 DEF Elsewhere
<1>3. CASE IoThread
  <2>1. /\ Out' = Out /\ queue'["output"] = queue["output"]
        /\ UNCHANGED newLevel /\ UNCHANGED pendingNewLevel /\ UNCHANGED hw
    BY <1>3, IoLeaves
  <2>2. /\ UNCHANGED stateShadow /\ UNCHANGED refused
        /\ UNCHANGED faults \/ \E status : Reads(status)
    BY <1>3 DEF IoThread, Start, RunApplyStatus, RunCommit, RunReport, RunReadStatus,
         RunCheckLater, RunCheckStatus, RunCompareStatus, RunSetEnabled,
         RunSetSignals, shadows, outside
  <2>3. faults' <= faults
    BY <1>1, <2>2 DEF Reads, Simple
  <2> QED BY <1>2, <2>1, <2>2, <2>3
<1>4. CASE Expire
  <2>1. /\ Post("output", Timer) /\ UNCHANGED <<run, newLevel, faults, hw>>
        /\ UNCHANGED <<stateShadow, pendingNewLevel, refused>>
    BY <1>4 DEF Expire, outside, Timer
  <2>2. queue'["output"] = Append(queue["output"], Timer)
    BY <1>1, <2>1, KnownHandlers, FormsPost
  <2>3. ToSet(queue'["output"]) = ToSet(queue["output"]) \cup {Timer}
    BY <1>1, <2>2, ToSetAppend, KnownHandlers DEF Queues
  <2>4. ApplyNext => ApplyNext'
    BY <2>1, <2>3 DEF ApplyNext, Out
  <2> QED BY <1>1, <2>1, <2>4 DEF Elsewhere, Simple, Out
<1>5. CASE Requests \/ AlarmUpdates
  <2>1. /\ Post("output", <<Apply>>) /\ UNCHANGED <<run, hw, faults>>
        /\ UNCHANGED <<stateShadow, pendingNewLevel, refused>>
    BY <1>5 DEF Requests, Request, AlarmUpdates, Update, shadows
  <2>2. queue'["output"] = Append(queue["output"], <<Apply>>)
    BY <1>1, <2>1, KnownHandlers, FormsPost
  <2>3. ToSet(queue'["output"]) = ToSet(queue["output"]) \cup {<<Apply>>}
    BY <1>1, <2>2, ToSetAppend, KnownHandlers DEF Queues
  <2>4. ApplyNext'
    BY <2>3 DEF ApplyNext
  <2> QED BY <1>1, <1>2, <2>1, <2>4 DEF Simple, Out
<1>6. CASE HwSettles \/ HwSwings \/ HwBreaks
  <2>1. /\ UNCHANGED <<run, queue, newLevel, faults>>
        /\ UNCHANGED <<stateShadow, pendingNewLevel, refused>>
    BY <1>6 DEF HwSettles, HwSwings, HwBreaks, shadows
  <2>2. hw'.state = hw.state
    BY <1>1, <1>6 DEF HwSettles, HwSwings, HwBreaks, Simple
  <2> QED BY <1>1, <1>2, <2>1, <2>2 DEF Simple, Out
<1>7. CASE UNCHANGED vars \/ OffAlready
  BY <1>1, <1>2, <1>7 DEF vars, shadows, outside, OffAlready, Simple, Out
<1> QED BY <1>3, <1>4, <1>5, <1>6, <1>7 DEF Alarm

(* A step leaves the output thread at a part of a change. *)
LEMMA TowardsIs ==
  ASSUME NEW s \in RegulatorState, NEW op \in WriteOps \cup {"SetPending", "StartTimer"},
         Coming(Out', op, s), ApplyNext' \/ s = Asked',
         op = "ReadState" => hw'.state = s \/ OneFailed',
         op \in {"SetStateAgain", "ReadStateAgain"} => OneFailed',
         op = "ReadStateAgain" => hw'.state = s \/ TwoFailed',
         op \in {"SetPending", "StartTimer"} => hw'.state = s \/ refused'
  PROVE  Towards' /\ Obeyed'
<1>1. /\ \A o : Stands(Out', o) <=> o = op
      /\ \A u \in RegulatorState : Changing(Out', u) <=> u = s
  BY DEF Coming
<1>2. Towards'
  <2>1. /\ Stands(Out', "ReadState") => op = "ReadState"
        /\ Stands(Out', "SetStateAgain") => op = "SetStateAgain"
        /\ Stands(Out', "ReadStateAgain") => op = "ReadStateAgain"
        /\ Stands(Out', "SetPending") => op = "SetPending"
        /\ Stands(Out', "StartTimer") => op = "StartTimer"
    BY <1>1
  <2> QED BY <1>1, <2>1 DEF Towards
<1>3. Changes'
  BY <1>1 DEF Changes, RegulatorState
<1> QED BY <1>2, <1>3 DEF Obeyed

(* What a change under way says of the state it is to. *)
LEMMA TowardsSays ==
  ASSUME Towards, NEW s \in RegulatorState, NEW op, Coming(Out, op, s)
  PROVE  /\ ApplyNext \/ s = Asked
         /\ op = "ReadState" => hw.state = s \/ OneFailed
         /\ op \in {"SetStateAgain", "ReadStateAgain"} => OneFailed
         /\ op = "ReadStateAgain" => hw.state = s \/ TwoFailed
         /\ op \in {"SetPending", "StartTimer"} => hw.state = s \/ refused
<1>1. Changing(Out, s) /\ Stands(Out, op)
  BY DEF Coming
<1> QED BY <1>1 DEF Towards

(* Apply is called: it compares with what was read back. *)
LEMMA ApplyObeys ==
  ASSUME ObeyInv, Inv', Forms', RunApply
  PROVE  ShadowFits' /\ Towards' /\ Obeyed' /\ (refused => TwoFailed)'
<1>1. /\ Inv /\ Forms /\ ShadowFits /\ Simple /\ (refused => TwoFailed)
      /\ UNCHANGED refused /\ UNCHANGED faults
  BY DEF ObeyInv, Inv, Types, RunApply, outside
<1>2. /\ Asked \in RegulatorState
      /\ \A op : Stands(Out, op) => op = "Apply"
      /\ UNCHANGED newLevel /\ UNCHANGED stateShadow /\ UNCHANGED hw
      /\ \/ Asked = stateShadow /\ Out' = <<>>
         \/ Coming(Out', "SetState", Asked)
  BY <1>1, ApplyDoes
<1>3. ~Between(Out) /\ Asked' = Asked
  BY <1>2 DEF Between, WriteOps, Asked
<1>4. ShadowFits' /\ (refused => TwoFailed)'
  BY <1>1, <1>2, <1>3 DEF ShadowFits, TwoFailed
<1>5. CASE Asked = stateShadow /\ Out' = <<>>
  <2>1. hw'.state = Asked'
    BY <1>1, <1>2, <1>3, <1>5 DEF ShadowFits, RegulatorState
  <2> QED BY <1>4, <1>5, <2>1, NoHandler DEF Towards, Obeyed
<1>6. CASE Coming(Out', "SetState", Asked)
  <2> DEFINE s == Asked
             op == "SetState"
  <2>1. /\ s \in RegulatorState /\ op \in WriteOps \cup {"SetPending", "StartTimer"}
        /\ Coming(Out', op, s) /\ s = Asked'
    BY <1>2, <1>3, <1>6 DEF WriteOps
  <2>2. Towards' /\ Obeyed'
    BY <2>1, TowardsIs
  <2> QED BY <1>4, <2>2
<1> QED BY <1>2, <1>5, <1>6

(* The state is written. *)
LEMMA WriteObeys ==
  ASSUME ObeyInv, Inv', Forms', Writing
  PROVE  ShadowFits' /\ Towards' /\ Obeyed' /\ (refused => TwoFailed)'
<1>1. /\ Inv /\ Forms /\ Towards /\ Simple /\ Simple' /\ (refused => TwoFailed)
      /\ faults \in Int /\ faults' \in Int /\ Faults \in Int /\ faults <= Faults
  BY ConstantsAssumption DEF ObeyInv, Inv, Types, Simple
<1>2. PICK s \in RegulatorState :
        /\ UNCHANGED newLevel /\ UNCHANGED queue /\ UNCHANGED refused
        /\ WriteState(s)
        /\ \/ Coming(Out, "SetState", s) /\ Coming(Out', "ReadState", s)
           \/ Coming(Out, "SetStateAgain", s) /\ Coming(Out', "ReadStateAgain", s)
  BY <1>1, WriteDoes
<1>3. hw'.state = s \/ faults' + 1 = faults
  <2>1. hw \in [state : RegulatorState, status : {"off", "on", "error"},
                broken : BOOLEAN, reports : BOOLEAN]
    BY <1>1 DEF Simple
  <2> QED BY <1>1, <1>2, <2>1 DEF WriteState
<1>4. faults' <= faults
  BY <1>1, <1>2 DEF WriteState
<1>5. ApplyNext' \/ s = Asked'
  <2>1. ApplyNext \/ s = Asked
    BY <1>1, <1>2, TowardsSays
  <2>2. ~Stands(Out, "Apply") /\ Asked' = Asked
    BY <1>2 DEF Coming, Asked
  <2> QED BY <1>2, <2>1, <2>2 DEF ApplyNext
<1>6. (refused => TwoFailed)'
  BY <1>1, <1>2, <1>4, FailuresStay
<1>7. CASE Coming(Out, "SetState", s) /\ Coming(Out', "ReadState", s)
  <2> DEFINE op == "ReadState"
  <2>1. hw'.state = s \/ OneFailed'
    BY <1>1, <1>3 DEF OneFailed
  <2>2. op \in WriteOps \cup {"SetPending", "StartTimer"} /\ Coming(Out', op, s)
    BY <1>7 DEF WriteOps
  <2>3. Towards' /\ Obeyed'
    BY <1>5, <2>1, <2>2, TowardsIs
  <2>4. ShadowFits'
    BY <1>7 DEF ShadowFits, Between, WriteOps, Coming
  <2> QED BY <1>6, <2>3, <2>4
<1>8. CASE Coming(Out, "SetStateAgain", s) /\ Coming(Out', "ReadStateAgain", s)
  <2> DEFINE op == "ReadStateAgain"
  <2>1. OneFailed /\ OneFailed'
    BY <1>1, <1>4, <1>8, TowardsSays, FailuresStay
  <2>2. hw'.state = s \/ TwoFailed'
    BY <1>1, <1>3, <2>1, FewerLeft DEF OneFailed, TwoFailed
  <2>3. op \in WriteOps \cup {"SetPending", "StartTimer"} /\ Coming(Out', op, s)
    BY <1>8 DEF WriteOps
  <2>4. Towards' /\ Obeyed'
    BY <1>5, <2>1, <2>2, <2>3, TowardsIs
  <2>5. ShadowFits'
    BY <1>8 DEF ShadowFits, Between, WriteOps, Coming
  <2> QED BY <1>6, <2>4, <2>5
<1> QED BY <1>2, <1>7, <1>8

(* The state is read back: what differs has failed, now or when it was written. *)
LEMMA ReadObeys ==
  ASSUME ObeyInv, Inv', Forms', ReadingBack
  PROVE  ShadowFits' /\ Towards' /\ Obeyed' /\ (refused => TwoFailed)'
<1>1. /\ Inv /\ Forms /\ Towards /\ Simple /\ Simple' /\ (refused => TwoFailed)
      /\ faults \in Int /\ faults' \in Int /\ Faults \in Int /\ faults <= Faults
  BY ConstantsAssumption DEF ObeyInv, Inv, Types, Simple
<1>2. PICK s \in RegulatorState :
        /\ UNCHANGED newLevel /\ UNCHANGED queue /\ UNCHANGED hw
        /\ DecodeState
        /\ \/ /\ Coming(Out, "ReadState", s) /\ UNCHANGED refused
              /\ \/ Coming(Out', "SetPending", s) /\ stateShadow' = s
                 \/ Coming(Out', "SetStateAgain", s) /\ stateShadow' # s
           \/ /\ Coming(Out, "ReadStateAgain", s) /\ Coming(Out', "SetPending", s)
              /\ refused' = (refused \/ stateShadow' # s)
  BY <1>1, ReadDoes
<1>3. /\ faults' <= faults
      /\ \/ stateShadow' = hw'.state
         \/ stateShadow' = "unknown" /\ faults' + 1 = faults
  <2>1. DecodeState /\ hw' = hw
    BY <1>2
  <2>2. \/ stateShadow' = hw'.state /\ faults' = faults
        \/ stateShadow' = "unknown" /\ faults' = faults - 1
    BY <2>1 DEF DecodeState
  <2>3. /\ faults' = faults => faults' <= faults
        /\ faults' = faults - 1 => faults' <= faults /\ faults' + 1 = faults
    BY <1>1, FewerLeft
  <2> QED BY <2>2, <2>3
<1>4. s # "unknown"
  BY DEF RegulatorState
<1>5. ApplyNext' \/ s = Asked'
  <2>1. ApplyNext \/ s = Asked
    BY <1>1, <1>2, TowardsSays
  <2>2. ~Stands(Out, "Apply") /\ Asked' = Asked
    BY <1>2 DEF Coming, Asked
  <2> QED BY <1>2, <2>1, <2>2 DEF ApplyNext
<1>6. (OneFailed => OneFailed') /\ (TwoFailed => TwoFailed')
  BY <1>1, <1>3, FailuresStay
<1>7. CASE /\ Coming(Out, "ReadState", s) /\ UNCHANGED refused
           /\ Coming(Out', "SetPending", s) /\ stateShadow' = s
  <2> DEFINE op == "SetPending"
  <2>1. hw'.state = s /\ stateShadow' = hw'.state
    BY <1>3, <1>4, <1>7
  <2>2. op \in WriteOps \cup {"SetPending", "StartTimer"} /\ Coming(Out', op, s)
    BY <1>7
  <2>3. Towards' /\ Obeyed'
    BY <1>5, <2>1, <2>2, TowardsIs
  <2> QED BY <1>1, <1>6, <1>7, <2>1, <2>3 DEF ShadowFits
<1>8. CASE /\ Coming(Out, "ReadState", s) /\ UNCHANGED refused
           /\ Coming(Out', "SetStateAgain", s) /\ stateShadow' # s
  <2> DEFINE op == "SetStateAgain"
  <2>1. OneFailed'
    <3>1. hw.state = s \/ OneFailed
      BY <1>1, <1>8, TowardsSays
    <3>2. faults' + 1 = faults => OneFailed'
      BY <1>1 DEF OneFailed
    <3> QED BY <1>2, <1>3, <1>6, <1>8, <3>1, <3>2
  <2>2. op \in WriteOps \cup {"SetPending", "StartTimer"} /\ Coming(Out', op, s)
    BY <1>8 DEF WriteOps
  <2>3. Towards' /\ Obeyed'
    BY <1>5, <2>1, <2>2, TowardsIs
  <2>4. ShadowFits'
    BY <1>8 DEF ShadowFits, Between, WriteOps, Coming
  <2> QED BY <1>1, <1>6, <1>8, <2>3, <2>4
<1>9. CASE /\ Coming(Out, "ReadStateAgain", s) /\ Coming(Out', "SetPending", s)
           /\ refused' = (refused \/ stateShadow' # s)
  <2> DEFINE op == "SetPending"
  <2>1. OneFailed /\ (hw.state = s \/ TwoFailed)
    BY <1>1, <1>9, TowardsSays
  <2>2. faults' + 1 = faults => TwoFailed'
    BY <1>1, <2>1, FewerLeft DEF OneFailed, TwoFailed
  <2>3. stateShadow' # s => TwoFailed'
    BY <1>2, <1>3, <1>6, <2>1, <2>2
  <2>4. (refused => TwoFailed)'
    BY <1>1, <1>6, <1>9, <2>3
  <2>5. hw'.state = s \/ refused'
    BY <1>3, <1>4, <1>9
  <2>6. ShadowFits'
    BY <1>3, <1>4, <1>9 DEF ShadowFits
  <2>7. op \in WriteOps \cup {"SetPending", "StartTimer"} /\ Coming(Out', op, s)
    BY <1>9
  <2>8. Towards' /\ Obeyed'
    BY <1>5, <2>5, <2>7, TowardsIs
  <2> QED BY <2>4, <2>6, <2>8
<1> QED BY <1>2, <1>7, <1>8, <1>9

(* The change is pending, and the timer takes over. *)
LEMMA PendObeys ==
  ASSUME ObeyInv, Inv', Forms', RunSetPending \/ RunStartTimer
  PROVE  ShadowFits' /\ Towards' /\ Obeyed' /\ (refused => TwoFailed)'
<1>1. /\ Inv /\ Forms /\ ShadowFits /\ Towards /\ (refused => TwoFailed)
      /\ UNCHANGED newLevel /\ UNCHANGED refused /\ UNCHANGED faults
      /\ Handlers /\ Asked' = Asked
  BY DEF ObeyInv, Inv, Types, RunSetPending, RunStartTimer, outside, Asked
<1>2. CASE RunSetPending
  <2>1. PICK s \in RegulatorState :
          /\ UNCHANGED hw /\ UNCHANGED stateShadow /\ UNCHANGED queue
          /\ Coming(Out, "SetPending", s) /\ Coming(Out', "StartTimer", s)
    BY <1>1, <1>2, PendDoes
  <2> DEFINE op == "StartTimer"
  <2>2. (ApplyNext \/ s = Asked) /\ (hw.state = s \/ refused)
    BY <1>1, <2>1, TowardsSays
  <2>3. ApplyNext' \/ s = Asked'
    BY <1>1, <2>1, <2>2 DEF ApplyNext, Coming
  <2>4. /\ op \in WriteOps \cup {"SetPending", "StartTimer"} /\ Coming(Out', op, s)
        /\ hw'.state = s \/ refused'
    BY <1>1, <2>1, <2>2
  <2>5. Towards' /\ Obeyed'
    BY <2>3, <2>4, TowardsIs
  <2>6. ~Between(Out)
    BY <2>1 DEF Between, WriteOps, Coming
  <2> QED BY <1>1, <2>1, <2>5, <2>6 DEF ShadowFits, TwoFailed
<1>3. CASE RunStartTimer
  <2>1. PICK s \in RegulatorState :
          /\ UNCHANGED hw /\ UNCHANGED stateShadow /\ Out' = <<>>
          /\ \E h : Post("io", h)
          /\ pendingNewLevel' = s /\ Coming(Out, "StartTimer", s)
    BY <1>1, <1>3, TimerDoes
  <2>2. queue'["output"] = queue["output"]
    BY <1>1, <2>1 DEF Post, Handlers, Threads
  <2>3. (ApplyNext \/ s = Asked) /\ (hw.state = s \/ refused)
    BY <1>1, <2>1, TowardsSays
  <2>4. ApplyNext' \/ s = Asked'
    BY <1>1, <2>1, <2>2, <2>3 DEF ApplyNext, Coming
  <2>5. Towards' /\ Obeyed'
    BY <1>1, <2>1, <2>3, <2>4, NoHandler DEF Towards, Obeyed
  <2>6. ~Between(Out)
    BY <2>1 DEF Between, WriteOps, Coming
  <2> QED BY <1>1, <2>1, <2>5, <2>6 DEF ShadowFits, TwoFailed
<1> QED BY <1>2, <1>3

(* The regulator stays obedient from one step to the next. *)
LEMMA ObeyNext ==
  ASSUME ObeyInv, [Next]_vars
  PROVE  ObeyInv'
<1>1. Inv /\ Inv' /\ Forms /\ Forms' /\ Simple /\ Simple'
  BY NextKeepsInv, FormsNext DEF ObeyInv, Inv, Types
<1>2. CASE \/ IoThread \/ Expire \/ Requests \/ Alarm \/ HwSettles \/ HwSwings
           \/ HwBreaks \/ UNCHANGED vars
  <2>1. Elsewhere
    BY <1>1, <1>2, OthersAreElsewhere
  <2> QED BY <1>1, <2>1, ElsewhereObeys DEF ObeyInv
<1>3. CASE \/ Start("output") \/ StartEvent
           \/ RunApplyStatus("output") \/ RunCommit("output") \/ RunReport("output")
           \/ RunReadStatus("output") \/ RunConfirmStatus \/ RunHandleEvent
  <2>1. Elsewhere
    BY <1>1, <1>3, TakeIsElsewhere, StatusIsElsewhere
  <2> QED BY <1>1, <2>1, ElsewhereObeys DEF ObeyInv
<1>4. CASE RunApply \/ Writing \/ ReadingBack \/ RunSetPending \/ RunStartTimer
  <2>1. ShadowFits' /\ Towards' /\ Obeyed' /\ (refused => TwoFailed)'
    BY <1>1, <1>4, ApplyObeys, WriteObeys, ReadObeys, PendObeys
  <2> QED BY <1>1, <2>1 DEF ObeyInv
<1> QED BY <1>2, <1>3, <1>4 DEF Next, OutputThread, Writing, ReadingBack

(* The invariant holds, for any user. *)
LEMMA ObeyHolds == Spec => []ObeyInv
<1>1. Init => ObeyInv
  <2> SUFFICES ASSUME Init PROVE ObeyInv
    OBVIOUS
  <2>1. /\ Inv /\ Forms /\ stateShadow = hw.state /\ Out = <<>>
        /\ newLevel = Undefined /\ ~refused
    BY InitInv, FormsInit DEF Init, Out, Threads
  <2> QED BY <2>1, NoHandler DEF ObeyInv, Towards, ShadowFits
<1> QED BY <1>1, ObeyNext, PTL DEF Spec

(* ShadowIsState: outside of SetState, between the write of the state file
   (VoltageRegulatorSysfs.cpp:30) and the read-back, stateShadow is the state
   that the consumer has: Apply compares with the truth.  It is "unknown" at
   most after a second attempt that was not read back as it was asked, which
   takes two failing accesses to sysfs in one call. *)
THEOREM ShadowIsState == Spec => [](ShadowFits /\ (refused => TwoFailed))
<1>1. ObeyInv => ShadowFits /\ (refused => TwoFailed)
  BY DEF ObeyInv
<1> QED BY <1>1, ObeyHolds, PTL

(* RegulatorObeys: from the first Update on, whenever no Apply and no change is
   due, the regulator is in the state that _On asked for last; or a second
   attempt at a change was refused, and pendingNewLevel still says what was
   asked.  That is so for a user who changes _On as fast as he likes, although
   newLevel is overwritten while Apply is queued (VoltageRegulator.cpp:88) and
   read when it runs, and with any events, timers and statuses in between. *)
THEOREM RegulatorObeys == Spec => [](newLevel # Undefined => Obeyed)
<1>1. ObeyInv => (newLevel # Undefined => Obeyed)
  BY DEF ObeyInv
<1> QED BY <1>1, ObeyHolds, PTL

-----------------------------------------------------------------------------
(* An error that is shown has the regulator switched off, unless faults are *)
(* allowed: it does not stay with a regulator that works.                   *)

(* What each thread does to the queue of io, and to the other. *)
LEMMA IoQueueGrows ==
  ASSUME Inv, Forms, OutputThread
  PROVE  /\ Io' = Io
         /\ \A h \in ToSet(queue["io"]) : h \in ToSet(queue'["io"])
         /\ RunReport("output") => <<SetSignals(Head(Out).status)>> \in ToSet(queue'["io"])
<1>1. Handlers /\ Queues /\ Simple /\ "output" \in Threads /\ "io" \in Threads
      /\ Other("output") = "io"
  BY DEF Inv, Types, Threads, Forms, Queues, Other
<1>2. CASE Start("output")
  BY <1>1, <1>2, Takes DEF Start, Io, RunReport, At, TakeHandler
<1>3. CASE ~Start("output")
  <2>1. \/ \E r : run' = [run EXCEPT !["output"] = r]
    BY <1>3 DEF OutputThread, StartEvent, RunApplyStatus, RunCommit, RunReport, RunReadStatus,
           RunApply, RunSetState, RunReadState, RunSetStateAgain, RunReadStateAgain,
           RunSetPending, RunStartTimer, RunConfirmStatus, RunHandleEvent, Continue
  <2>2. Io' = Io
    BY <1>1, <2>1 DEF Handlers, Io
  <2>3. \/ UNCHANGED queue /\ ~RunReport("output")
        \/ \E h \in IoHandlers :
             /\ Post("io", h)
             /\ RunReport("output") => h = <<SetSignals(Head(Out).status)>>
    <3>1. CASE RunReport("output")
      <4>1. Head(Out).status = statusShadow
        BY <1>1, <3>1 DEF Inv, StatusInv, Tells, RunReport, Out
      <4>2. <<SetSignals(Head(Out).status)>> \in IoHandlers
        BY <1>1, <4>1, KnownHandlers DEF Simple
      <4> QED BY <3>1, <4>2 DEF RunReport, Out
    <3>2. CASE RunHandleEvent /\ ~RunReport("output")
      <4> DEFINE e == Head(Out).event
                 v == IF e.change = "enable" THEN 1 ELSE 0
      <4>1. /\ Out # <<>> /\ Head(Out).op = "HandleEvent"
            /\ Post("io", IF e.failure THEN <<CheckLater(v)>>
                          ELSE <<CheckStatus, SetEnabled(v)>>)
        BY <3>2 DEF RunHandleEvent, At, Out
      <4>2. e \in Sent
        BY <4>1, Zenon DEF Forms, OutForm, StatusOps, WriteOps
      <4>3. v \in {0, 1} /\ (e.failure => v = 0)
        BY <4>2, SentEvents
      <4> HIDE DEF v, e
      <4>4. <<CheckStatus, SetEnabled(v)>> \in IoHandlers
            /\ (e.failure => <<CheckLater(v)>> \in IoHandlers)
        BY <4>3, KnownHandlers
      <4> QED BY <3>2, <4>1, <4>4
    <3>3. CASE RunStartTimer /\ ~RunReport("output")
      <4>1. \E v \in {0, 1} : Post("io", <<SetEnabled(v)>>)
        BY <3>3 DEF RunStartTimer
      <4> QED BY <3>3, <4>1, KnownHandlers
    <3>4. CASE ~RunReport("output") /\ ~RunHandleEvent /\ ~RunStartTimer
      BY <1>3, <3>4 DEF OutputThread, StartEvent, RunApplyStatus, RunCommit, RunReadStatus,
           RunApply, RunSetState, RunReadState, RunSetStateAgain, RunReadStateAgain,
           RunSetPending, RunConfirmStatus
    <3> QED BY <3>1, <3>2, <3>3, <3>4
  <2>4. ASSUME NEW h \in IoHandlers, Post("io", h)
        PROVE  ToSet(queue'["io"]) = ToSet(queue["io"]) \cup {h}
    <3>1. queue'["io"] = Append(queue["io"], h) /\ queue["io"] \in Seq(IoHandlers)
      BY <1>1, <2>4, FormsPost DEF Queues
    <3> QED BY <3>1, ToSetAppend
  <2> QED BY <2>2, <2>3, <2>4
<1> QED BY <1>2, <1>3

(* An error that is going to be shown is shown, or calls back the netlist. *)
LEMMA ShowsStayOut ==
  ASSUME Inv, Forms, OutputThread, ErrorShows
  PROVE  ErrorShows'
<1> DEFINE h == <<SetSignals("error")>>
<1>1. /\ Io' = Io
      /\ h \in ToSet(queue["io"]) => h \in ToSet(queue'["io"])
      /\ RunReport("output") /\ Head(Out).status = "error" => h \in ToSet(queue'["io"])
  BY IoQueueGrows
<1>2. \/ h \in ToSet(queue["io"])
      \/ With(Io, "SetSignals", "error") \/ With(Io, "Report", "error")
      \/ With(Out, "Report", "error")
  BY DEF ErrorShows, Reports
<1>3. With(Out, "Report", "error") =>
        Out # <<>> /\ Head(Out).op = "Report" /\ Head(Out).status = "error"
  BY DEF With, Stands
<1>4. Out # <<>> /\ Head(Out).op = "Report" => RunReport("output")
  BY DEF OutputThread, Start, StartEvent, TakeHandler, RunApplyStatus, RunCommit,
         RunReadStatus, RunApply, RunSetState, RunReadState, RunSetStateAgain,
         RunReadStateAgain, RunSetPending, RunStartTimer, RunConfirmStatus,
         RunHandleEvent, At, Out
<1> HIDE DEF h
<1>5. With(Io, "SetSignals", "error") \/ With(Io, "Report", "error")
        => With(Io', "SetSignals", "error") \/ With(Io', "Report", "error")
  BY <1>1
<1>6. h \in ToSet(queue'["io"]) \/ With(Io', "SetSignals", "error")
        \/ With(Io', "Report", "error")
  BY <1>1, <1>2, <1>3, <1>4, <1>5
<1> QED BY <1>6 DEF ErrorShows, Reports, h

(* io either passes it on or calls back the netlist. *)
LEMMA ShowsStayIo ==
  ASSUME Inv, Forms, IoThread, ErrorShows, ~AllowFaulting
  PROVE  ErrorShows' \/ alarm'
<1> DEFINE h == <<SetSignals("error")>>
<1>1. Handlers /\ Queues /\ Simple /\ "io" \in Threads /\ Other("io") = "output"
  BY DEF Inv, Types, Threads, Forms, Queues, Other
<1>2. \/ h \in ToSet(queue["io"])
      \/ With(Io, "SetSignals", "error") \/ With(Io, "Report", "error")
      \/ With(Out, "Report", "error")
  BY DEF ErrorShows, Reports
<1>3. /\ h \in ToSet(queue'["io"]) => ErrorShows'
      /\ With(Io', "SetSignals", "error") => ErrorShows'
      /\ With(Out', "Report", "error") => ErrorShows'
  BY DEF ErrorShows, Reports
<1>4. CASE Start("io")
  <2>1. /\ Io = <<>> /\ queue["io"] # <<>> /\ Out' = Out
        /\ Io' = Head(queue["io"]) /\ queue'["io"] = Tail(queue["io"])
    BY <1>1, <1>4, Takes DEF Start, Io, Out
  <2>2. ToSet(queue["io"]) = {Io'} \cup ToSet(queue'["io"])
    BY <1>1, <2>1, ToSetTail DEF Queues
  <2>3. h # <<>> /\ Head(h) = SetSignals("error")
    BY ShortHandlers
  <2>4. With(h, "SetSignals", "error")
    BY <2>3 DEF With, Stands, SetSignals
  <2>5. \A op : \A x : ~With(Io, op, x)
    BY <2>1, NoHandler
  <2> HIDE DEF h
  <2>6. Io' = h => With(Io', "SetSignals", "error")
    BY <2>4
  <2>7. With(Out, "Report", "error") => With(Out', "Report", "error")
    BY <2>1
  <2> QED BY <1>2, <1>3, <2>2, <2>5, <2>6, <2>7
<1>5. CASE ~Start("io")
  <2>1. /\ Io # <<>>
        /\ \E r : run' = [run EXCEPT !["io"] = r]
    BY <1>5 DEF IoThread, RunApplyStatus, RunCommit, RunReport, RunReadStatus,
           RunCheckLater, RunCheckStatus, RunCompareStatus, RunSetEnabled,
           RunSetSignals, Continue, At, Io
  <2>2. Out' = Out
    BY <1>1, <2>1 DEF Handlers, Out
  <2>3. /\ h \in ToSet(queue["io"]) => h \in ToSet(queue'["io"])
        /\ With(Io, "Report", "error") => h \in ToSet(queue'["io"])
    <3>1. ASSUME NEW g \in IoHandlers, Post("io", g)
          PROVE  ToSet(queue'["io"]) = ToSet(queue["io"]) \cup {g}
      <4>1. queue'["io"] = Append(queue["io"], g) /\ queue["io"] \in Seq(IoHandlers)
        BY <1>1, <3>1, FormsPost DEF Queues
      <4> QED BY <4>1, ToSetAppend
    <3>2. With(Io, "Report", "error") =>
            Io # <<>> /\ Head(Io).op = "Report" /\ Head(Io).status = "error"
      BY DEF With, Stands
    <3>3. CASE RunReport("io")
      <4>1. Head(Io).status = statusShadow
        BY <1>1, <3>3 DEF Inv, StatusInv, Tells, RunReport, Io
      <4>2. /\ <<SetSignals(Head(Io).status)>> \in IoHandlers
            /\ Post("io", <<SetSignals(Head(Io).status)>>)
        BY <1>1, <3>3, <4>1, KnownHandlers DEF Simple, RunReport, Io
      <4> QED BY <3>1, <3>2, <4>2
    <3>4. CASE RunCheckLater
      <4> DEFINE v == Head(Io).value
                 a == <<CheckStatus>>
                 b == <<SetEnabled(v)>>
      <4>1. queue' = [queue EXCEPT !["io"] = queue["io"] \o <<a, b>>]
            /\ Head(Io).op = "CheckLater" /\ Head(Io) \in Step
        BY <1>1, <2>1, <3>4 DEF RunCheckLater, At, Io, Handlers
      <4>2. a \in IoHandlers /\ b \in IoHandlers
        BY <4>1, Operands, KnownHandlers
      <4> HIDE DEF a, b
      <4> DEFINE p == <<a, b>>
      <4>3. queue'["io"] = queue["io"] \o p /\ p \in Seq(IoHandlers)
        BY <1>1, <4>1, <4>2 DEF Handlers
      <4> HIDE DEF p
      <4>4. queue["io"] \in Seq(IoHandlers)
        BY <1>1 DEF Queues
      <4>5. ToSet(queue'["io"]) = ToSet(queue["io"]) \cup ToSet(p)
        BY <4>3, <4>4, ToSetConcat
      <4> QED BY <3>2, <4>1, <4>5
    <3>5. CASE RunCompareStatus
      <4>1. (UNCHANGED queue \/ Post("io", <<ReadStatus>>))
            /\ Head(Io).op = "CompareStatus"
        BY <3>5 DEF RunCompareStatus, At, Io
      <4>2. <<ReadStatus>> \in IoHandlers
        BY KnownHandlers
      <4> QED BY <3>1, <3>2, <4>1, <4>2
    <3>6. CASE \/ RunApplyStatus("io") \/ RunCommit("io") \/ RunReadStatus("io")
               \/ RunCheckStatus \/ RunSetEnabled \/ RunSetSignals
      <4>1. UNCHANGED queue /\ Head(Io).op # "Report"
        BY <3>6 DEF RunApplyStatus, RunCommit, RunReadStatus, RunCheckStatus,
                    RunSetEnabled, RunSetSignals, At, Io
      <4> QED BY <3>2, <4>1
    <3> QED BY <1>5, <3>3, <3>4, <3>5, <3>6 DEF IoThread
  <2>4. With(Io, "SetSignals", "error") => alarm'
    <3>1. SUFFICES ASSUME Head(Io).op = "SetSignals", Head(Io).status = "error"
                   PROVE  alarm'
      BY DEF With, Stands
    <3>2. RunSetSignals
      BY <1>5, <2>1, <3>1 DEF IoThread, RunApplyStatus, RunCommit, RunReport,
         RunReadStatus, RunCheckLater, RunCheckStatus, RunCompareStatus,
         RunSetEnabled, At, Io
    <3> QED BY <3>1, <3>2 DEF RunSetSignals, CallsBack, Io
  <2>5. With(Out, "Report", "error") => With(Out', "Report", "error")
    BY <2>2
  <2> HIDE DEF h
  <2> QED BY <1>2, <1>3, <2>3, <2>4, <2>5
<1> QED BY <1>4, <1>5

(* So io keeps an answer coming, and shows no error while the regulator rises. *)
LEMMA IoAnswers ==
  ASSUME Inv, Inv', Forms, Plainly, Decides, Change, hw.reports, IoThread,
         NoErrorRising, Answered
  PROVE  NoErrorRising' /\ Answered'
<1>1. /\ Out' = Out /\ queue'["output"] = queue["output"]
      /\ UNCHANGED newLevel /\ UNCHANGED pendingNewLevel /\ UNCHANGED armed
      /\ UNCHANGED hw /\ (alarm => alarm')
      /\ \/ UNCHANGED statusShadow /\ UNCHANGED pendingLevelChange
         \/ /\ Io # <<>> /\ Head(Io).op = "Commit" /\ statusShadow' = Head(Io).status
            /\ pendingLevelChange' = (pendingLevelChange /\ ~Head(Io).done)
            /\ With(Io', "Report", statusShadow')
  BY IoLeaves
<1>2. /\ \A s : Changing(Out', s) <=> Changing(Out, s)
      /\ (ApplyNext' <=> ApplyNext) /\ (TimerQueued' <=> TimerQueued)
      /\ \A x : Held(Out', x) <=> Held(Out, x)
      /\ Stands(Out', "ReadStatus") <=> Stands(Out, "ReadStatus")
  BY <1>1 DEF ApplyNext, TimerQueued
<1>3. ErrorShows /\ ~AllowFaulting => ErrorShows' \/ alarm'
  BY ShowsStayIo
<1>4. CASE UNCHANGED statusShadow /\ UNCHANGED pendingLevelChange
  <2>1. Rising' <=> Rising
    BY <1>1, <1>2, <1>4 DEF Rising
  <2>2. NoErrorRising'
    BY <1>4, <2>1 DEF NoErrorRising
  <2>3. Answering /\ ~AllowFaulting => Answering'
    BY <1>1, <1>2, <1>3 DEF Answering
  <2> QED BY <1>1, <1>4, <2>2, <2>3 DEF Answered
<1>5. CASE /\ Io # <<>> /\ Head(Io).op = "Commit" /\ statusShadow' = Head(Io).status
           /\ pendingLevelChange' = (pendingLevelChange /\ ~Head(Io).done)
           /\ With(Io', "Report", statusShadow')
  <2>1. statusShadow' = "error" => ErrorShows'
    BY <1>5 DEF ErrorShows, Reports
  <2>2. Answered'
    BY <2>1 DEF Answered, Answering
  <2>3. Out = <<>>
    BY <1>5 DEF Plainly
  <2>4. statusShadow' = "error" => ~pendingLevelChange
    BY <1>5 DEF Decides, Decided, Stands
  <2>5. \A s : ~Changing(Out', s)
    BY <1>2, <2>3, NoHandler
  <2>6. statusShadow' = "error" => ~Rising'
    BY <1>5, <2>4, <2>5 DEF Rising
  <2> QED BY <2>2, <2>6 DEF NoErrorRising
<1> QED BY <1>1, <1>4, <1>5

(* The timer, the netlist and the regulator itself. *)
LEMMA OutsideAnswers ==
  ASSUME Inv, Inv', Forms, Plainly, Change, hw.reports, Patient,
         \/ Expire \/ Requests \/ Alarm \/ HwSettles \/ HwSwings \/ HwBreaks
         \/ UNCHANGED vars,
         newLevel # Undefined => Obeyed, ~refused,
         NoErrorRising, Answered
  PROVE  NoErrorRising' /\ Answered'
<1>1. Handlers /\ Simple /\ Queues /\ "io" \in Threads /\ "output" \in Threads
  BY DEF Inv, Types, Threads, Forms, Queues
<1>2. /\ UNCHANGED run /\ UNCHANGED statusShadow /\ UNCHANGED pendingLevelChange
      /\ UNCHANGED pendingNewLevel
      /\ Out' = Out /\ Io' = Io
  BY DEF Expire, Requests, Request, Alarm, AlarmUpdates, OffAlready, Update, HwSettles,
         HwSwings, HwBreaks, vars, shadows, outside, Out, Io
<1>3. /\ \A s : Changing(Out', s) <=> Changing(Out, s)
      /\ \A x : Held(Out', x) <=> Held(Out, x)
      /\ Stands(Out', "ReadStatus") <=> Stands(Out, "ReadStatus")
      /\ Stands(Out', "Apply") <=> Stands(Out, "Apply")
  BY <1>2
<1>4. NoErrorRising'
  <2>1. Rising' <=> Rising
    BY <1>2, <1>3 DEF Rising
  <2> QED BY <1>2, <2>1 DEF NoErrorRising
<1>5. queue'["io"] = queue["io"]
      /\ \A h \in ToSet(queue["output"]) : h \in ToSet(queue'["output"])
  <2>1. CASE UNCHANGED queue
    BY <2>1
  <2>2. ASSUME NEW h \in OutHandlers, Post("output", h)
        PROVE  /\ queue'["io"] = queue["io"]
               /\ ToSet(queue'["output"]) = ToSet(queue["output"]) \cup {h}
    <3>1. /\ queue'["output"] = Append(queue["output"], h)
          /\ queue'["io"] = queue["io"] /\ queue["output"] \in Seq(OutHandlers)
      BY <1>1, <2>2, FormsPost DEF Queues
    <3> QED BY <3>1, ToSetAppend
  <2>3. \/ UNCHANGED queue \/ Post("output", <<Apply>>) \/ Post("output", Timer)
    BY DEF Expire, Requests, Request, Alarm, AlarmUpdates, OffAlready, Update, HwSettles,
           HwSwings, HwBreaks, vars, Timer
  <2> QED BY <2>1, <2>2, <2>3, KnownHandlers
<1>6. (ErrorShows' <=> ErrorShows) /\ (ApplyNext => ApplyNext') /\ (TimerQueued => TimerQueued')
  BY <1>2, <1>5 DEF ErrorShows, Reports, ApplyNext, TimerQueued
<1>7. CASE Expire
  <2>1. Post("output", Timer)
    BY <1>7 DEF Expire, Timer
  <2>2. Timer \in OutHandlers
    BY KnownHandlers
  <2>3. queue'["output"] = Append(queue["output"], Timer) /\ queue["output"] \in Seq(OutHandlers)
    BY <1>1, <2>1, <2>2, FormsPost DEF Queues
  <2>4. TimerQueued'
    BY <2>2, <2>3, ToSetAppend DEF TimerQueued
  <2> QED BY <1>4, <2>4 DEF Answered, Answering
<1>8. CASE Requests
  <2>1. AtRest /\ UNCHANGED hw
    BY <1>8 DEF Requests, Request, Update
  <2>2. /\ Out = <<>> /\ Io = <<>> /\ queue["io"] = <<>> /\ queue["output"] = <<>>
        /\ ~armed /\ ~alarm
    BY <1>1, <2>1 DEF AtRest, ThreadsIdle, Out, Io
  <2>3. ~ErrorShows
    BY <2>2, NoHandler, ToSetSmall DEF ErrorShows, Reports
  <2>4. ~ApplyNext /\ ~TimerQueued
    BY <2>2, NoHandler, ToSetSmall DEF ApplyNext, TimerQueued
  <2>5. ~Answering
    BY <2>2, <2>3, <2>4, NoHandler DEF Answering
  <2> QED BY <1>2, <1>4, <2>1, <2>5 DEF Answered
<1>9. CASE AlarmUpdates
  <2>1. Post("output", <<Apply>>) /\ newLevel' = 0
    BY <1>9 DEF AlarmUpdates, Update
  <2>2. <<Apply>> \in OutHandlers
    BY KnownHandlers
  <2> DEFINE g == <<Apply>>
  <2> HIDE DEF g
  <2>3. queue'["output"] = Append(queue["output"], g) /\ queue["output"] \in Seq(OutHandlers)
    BY <1>1, <2>1, <2>2, FormsPost DEF Queues, g
  <2>4. ApplyNext'
    BY <2>2, <2>3, ToSetAppend DEF ApplyNext, g
  <2> QED BY <1>4, <2>1, <2>4 DEF Answered, Answering
<1>10. CASE OffAlready
  <2>1. /\ UNCHANGED hw /\ newLevel = 0 /\ UNCHANGED newLevel
    BY <1>10 DEF OffAlready
  <2> SUFFICES ASSUME hw.state = "enabled", statusShadow = "error"
               PROVE  Answering'
    BY <1>2, <1>4, <2>1 DEF Answered
  <2>2. ApplyNext \/ Changes
    <3>1. newLevel # Undefined /\ Asked = "disabled"
      BY <2>1 DEF Undefined, Asked
    <3> QED BY <3>1 DEF Obeyed
  <2>3. ~Changing(Out, "enabled")
    BY DEF NoErrorRising, Rising
  <2> QED BY <1>3, <1>6, <2>1, <2>2, <2>3 DEF Answering, Changes
<1>11. CASE HwSettles \/ HwSwings \/ HwBreaks \/ UNCHANGED vars
  <2>1. /\ UNCHANGED newLevel /\ UNCHANGED armed /\ UNCHANGED alarm
    BY <1>11 DEF HwSettles, HwSwings, HwBreaks, vars, shadows, outside
  <2>2. hw \in [state : RegulatorState, status : {"off", "on", "error"},
                broken : BOOLEAN, reports : BOOLEAN]
    BY <1>1 DEF Simple
  <2>3. hw'.state = hw.state /\ (hw.state = "enabled" /\ ~hw'.broken => ~hw.broken)
    BY <1>11, <2>2 DEF HwSettles, HwSwings, HwBreaks, vars, outside, Settled
  <2>4. Answering => Answering'
    BY <1>3, <1>6, <2>1 DEF Answering
  <2> QED BY <1>2, <1>4, <2>3, <2>4 DEF Answered
<1> QED BY <1>7, <1>8, <1>9, <1>10, <1>11 DEF Alarm

(* The output thread with a status: what it reads of a regulator that works *)
(* takes the place of the error.                                            *)
LEMMA StatusAnswers ==
  ASSUME Inv, Inv', Forms, Forms', Plainly, Decides, Change, hw.reports,
         \/ RunApplyStatus("output") \/ RunCommit("output") \/ RunReadStatus("output")
         \/ RunReport("output"),
         NoErrorRising, Answered
  PROVE  NoErrorRising' /\ Answered'
<1>1. OutFrame /\ OutputThread
  BY OutHandles, OutReports DEF OutputThread
<1>2. PICK x : Reading(x) \/ Skipping(x) \/ Taking(x) \/ Committing(x) \/ Reported(x)
  BY <1>1 DEF OutFrame
<1>3. /\ UNCHANGED newLevel /\ UNCHANGED pendingNewLevel /\ UNCHANGED armed
      /\ UNCHANGED alarm /\ UNCHANGED hw /\ queue'["output"] = queue["output"]
      /\ \A s \in {"enabled", "disabled"} : ~Changing(Out, s) /\ ~Changing(Out', s)
      /\ Io = <<>> /\ ~Stands(Out, "Apply")
      /\ ErrorShows => ErrorShows'
      /\ pendingLevelChange' => pendingLevelChange
      /\ Out # <<>>
  <2>1. ErrorShows => ErrorShows'
    BY <1>1, ShowsStayOut
  <2>2. pendingLevelChange' => pendingLevelChange
    <3>1. pendingLevelChange \in BOOLEAN
      BY DEF Inv, Types, Simple
    <3> QED BY <1>2, <3>1 DEF Reading, Skipping, Taking, Committing, Reported
  <2>3. \A s \in {"enabled", "disabled"} : ~Changing(Out, s) /\ ~Changing(Out', s)
    BY <1>1 DEF OutFrame, RegulatorState
  <2> QED BY <1>1, <2>1, <2>2, <2>3 DEF OutFrame
<1>4. /\ ApplyNext => ApplyNext'
      /\ TimerQueued' <=> TimerQueued
      /\ Rising' => Rising
  BY <1>3 DEF ApplyNext, TimerQueued, Rising
<1>5. ASSUME Committing(x), statusShadow' = "error"
      PROVE  ~Rising' /\ ErrorShows'
  <2>1. Out # <<>> /\ Head(Out).op = "Commit" /\ Head(Out).status = "error"
    BY <1>5 DEF Committing, With, Stands
  <2>2. ~pendingLevelChange
    BY <2>1 DEF Decides, Decided, Stands
  <2>3. RunCommit("output")
    BY <2>1 DEF RunApplyStatus, RunCommit, RunReadStatus, RunReport, At, Out
  <2>4. Continue("output", <<Report("error")>>)
    BY <2>1, <2>3 DEF RunCommit, Out
  <2>5. Report("error") \in Step
    BY Known DEF Shown
  <2>6. Out' # <<>> /\ Head(Out') = Report("error")
    BY <1>3, <2>4, <2>5, Proceeds DEF Inv, Types, Threads, Out
  <2>7. With(Out', "Report", "error")
    BY <2>6 DEF With, Stands, Report
  <2> QED BY <1>3, <2>2, <2>7 DEF Rising, ErrorShows, Reports
<1>6. CASE ~Committing(x)
  <2>1. UNCHANGED statusShadow
    BY <1>2, <1>6 DEF Reading, Skipping, Taking, Reported
  <2>2. NoErrorRising'
    BY <1>4, <2>1 DEF NoErrorRising
  <2>3. SUFFICES ASSUME ~AllowFaulting, hw.state = "enabled", ~hw.broken,
                        statusShadow = "error"
                 PROVE  Answering'
    BY <1>3, <2>1, <2>2 DEF Answered
  <2>4. Answering
    BY <2>3 DEF Answered
  <2>5. ~Rising
    BY <2>3 DEF NoErrorRising
  <2>6. hw.status = "on"
    BY <2>3, <2>5 DEF Change, Up, Settled, Goal
  <2>7. CASE Reading(x)
    BY <2>6, <2>7 DEF Reading, Answering
  <2>8. CASE Taking(x)
    <3>1. ~Stands(Out, "ReadStatus")
      BY <2>8 DEF Taking, With, Stands
    <3>2. Held(Out, "on") \/ Held(Out, "invalid") => x \in {"on", "invalid"}
      BY <2>8 DEF Taking, With, Stands, Held
    <3>3. x \in {"on", "invalid"} => Held(Out', "on") \/ Held(Out', "invalid")
      BY <2>8 DEF Taking
    <3> QED BY <1>3, <1>4, <2>4, <3>1, <3>2, <3>3 DEF Answering
  <2>9. CASE Skipping(x)
    <3>1. x = "error"
      BY <2>3, <2>9 DEF Skipping
    <3>2. ~Stands(Out, "ReadStatus") /\ ~Held(Out, "on") /\ ~Held(Out, "invalid")
      BY <2>9, <3>1 DEF Skipping, With, Stands, Held
    <3> QED BY <1>3, <1>4, <2>4, <3>2 DEF Answering
  <2>10. CASE Reported(x)
    <3>1. ~Stands(Out, "ReadStatus") /\ ~Held(Out, "on") /\ ~Held(Out, "invalid")
      BY <2>10 DEF Reported, With, Stands, Held
    <3> QED BY <1>3, <1>4, <2>4, <3>1 DEF Answering
  <2> QED BY <1>2, <1>6, <2>7, <2>8, <2>9, <2>10
<1>7. CASE Committing(x)
  BY <1>5, <1>7 DEF NoErrorRising, Answered, Answering
<1> QED BY <1>6, <1>7

(* The output thread takes a handler, receives or handles an event, or      *)
(* confirms a change.                                                       *)
LEMMA QuietAnswers ==
  ASSUME Inv, Inv', Forms, Forms', Plainly, Change, hw.reports,
         Start("output") \/ StartEvent \/ RunHandleEvent \/ RunConfirmStatus,
         NoErrorRising, Answered, ~overlapped'
  PROVE  NoErrorRising' /\ Answered'
<1>1. /\ UNCHANGED newLevel /\ UNCHANGED statusShadow /\ UNCHANGED pendingNewLevel
      /\ UNCHANGED alarm /\ UNCHANGED hw
      /\ UNCHANGED armed \/ armed' = TRUE
      /\ pendingLevelChange' => pendingLevelChange
      /\ OutputThread
  BY DEF Start, StartEvent, RunHandleEvent, RunConfirmStatus, shadows, outside, OutputThread
<1>2. /\ \A s \in RegulatorState : ~Changing(Out, s) /\ ~Changing(Out', s)
      /\ ~Stands(Out, "Apply") /\ ~Stands(Out, "ReadStatus")
      /\ \A x : ~Held(Out, x)
      /\ ApplyNext => ApplyNext'
      /\ TimerQueued => TimerQueued' \/ Stands(Out', "ReadStatus")
  <2>1. CASE Start("output")
    <3>1. HandlerTaken
      BY <2>1, TakesHandler
    <3> QED BY <3>1, NoHandler DEF HandlerTaken, ApplyNext, TimerQueued
  <2>2. CASE StartEvent
    <3>1. PICK e : Received(e)
      BY <2>2, Receives
    <3> QED BY <3>1 DEF Received, ApplyNext, TimerQueued
  <2>3. CASE RunHandleEvent
    <3>1. PICK e, h : Handled(e, h)
      BY <2>3, HandlesEvent
    <3> QED BY <3>1 DEF Handled, ApplyNext, TimerQueued
  <2>4. CASE RunConfirmStatus
    BY <2>4, ConfirmDoes, NoHandler DEF ApplyNext, TimerQueued
  <2> QED BY <2>1, <2>2, <2>3, <2>4
<1>3. Rising' => Rising
  BY <1>1, <1>2 DEF Rising, RegulatorState
<1>4. ErrorShows => ErrorShows'
  BY <1>1, ShowsStayOut
<1>5. Answering => Answering'
  BY <1>1, <1>2, <1>4 DEF Answering, RegulatorState
<1> QED BY <1>1, <1>3, <1>5 DEF NoErrorRising, Answered

(* The output thread starts a change: the one that an error asks for. *)
LEMMA ApplyAnswers ==
  ASSUME Inv, Inv', Forms, Forms', Plainly, Change, hw.reports, RunApply,
         NoErrorRising, Answered
  PROVE  NoErrorRising' /\ Answered'
<1>1. /\ Stands(Out, "Apply")
      /\ \A op : Stands(Out, op) => op = "Apply"
      /\ \A u \in RegulatorState : ~Changing(Out, u)
      /\ UNCHANGED newLevel /\ UNCHANGED stateShadow /\ UNCHANGED statusShadow
      /\ UNCHANGED pendingLevelChange /\ UNCHANGED pendingNewLevel
      /\ UNCHANGED alarm /\ UNCHANGED hw /\ UNCHANGED queue
      /\ \/ Asked = stateShadow /\ Out' = <<>> /\ UNCHANGED armed
         \/ Asked # stateShadow /\ Coming(Out', "SetState", Asked)
  BY ApplyDoes
<1>2. /\ Simple /\ OutputThread /\ stateShadow = hw.state
      /\ ApplyNext /\ (TimerQueued' <=> TimerQueued) /\ \A x : ~Held(Out, x)
  <2>1. ~Between(Out)
    BY <1>1 DEF Between, WriteOps
  <2> QED BY <1>1, <2>1 DEF Inv, Types, Plainly, OutputThread, ApplyNext, TimerQueued,
                            Held, With
<1>3. ErrorShows => ErrorShows'
  BY <1>1, <1>2, ShowsStayOut
<1>4. CASE Asked = stateShadow /\ Out' = <<>> /\ UNCHANGED armed
  <2>1. Rising' => Rising
    BY <1>1, <1>4, NoHandler DEF Rising, RegulatorState
  <2>2. hw.state = "enabled" /\ Answering => Answering'
    BY <1>1, <1>2, <1>3, <1>4 DEF Answering, RegulatorState, Asked
  <2> QED BY <1>1, <2>1, <2>2 DEF NoErrorRising, Answered
<1>5. CASE Asked # stateShadow /\ Coming(Out', "SetState", Asked)
  <2>1. CASE newLevel = 1
    <3>1. hw.state = "disabled"
      BY <1>2, <1>5, <2>1 DEF Simple, RegulatorState, Asked
    <3>2. statusShadow \in {"off", "invalid"}
      BY <1>2, <2>1, <3>1 DEF Change, Fresh
    <3> QED BY <1>1, <3>2 DEF NoErrorRising, Answered
  <2>2. CASE newLevel # 1
    <3>1. /\ Changing(Out', "disabled") /\ ~Changing(Out', "enabled")
      BY <1>5, <2>2 DEF RegulatorState, Coming, Asked
    <3> QED BY <3>1 DEF NoErrorRising, Answered, Answering, Rising
  <2> QED BY <2>1, <2>2
<1> QED BY <1>1, <1>4, <1>5

(* The output thread carries it out, until it is up to the timer. *)
LEMMA WriteAnswers ==
  ASSUME Inv, Inv', Forms, Forms', Plainly, Change, hw.reports,
         Writing \/ ReadingBack \/ RunSetPending,
         NoErrorRising, Answered
  PROVE  NoErrorRising' /\ Answered'
<1>1. UNCHANGED statusShadow
  BY DEF Writing, RunSetState, RunSetStateAgain, ReadingBack, RunReadState,
         RunReadStateAgain, RunSetPending, shadows
<1>2. PICK s \in RegulatorState :
        /\ \A u \in RegulatorState : Changing(Out, u) <=> u = s
        /\ \A u \in RegulatorState : Changing(Out', u) <=> u = s
  <2>1. \E s \in RegulatorState : \E o, p : Coming(Out, o, s) /\ Coming(Out', p, s)
    BY WriteDoes, ReadDoes, PendDoes
  <2> QED BY <2>1 DEF Coming
<1>3. CASE s = "enabled"
  <2>1. Rising
    BY <1>2, <1>3 DEF Rising, RegulatorState
  <2> QED BY <1>1, <2>1 DEF NoErrorRising, Answered
<1>4. CASE s = "disabled"
  <2>1. Changing(Out', "disabled") /\ ~Changing(Out', "enabled")
    BY <1>2, <1>4 DEF RegulatorState
  <2> QED BY <2>1 DEF NoErrorRising, Answered, Answering, Rising
<1> QED BY <1>2, <1>3, <1>4 DEF RegulatorState

(* The timer takes over. *)
LEMMA TimerAnswers ==
  ASSUME Inv, Inv', Forms, Forms', Plainly, Change, hw.reports, RunStartTimer,
         NoErrorRising, Answered
  PROVE  NoErrorRising' /\ Answered'
<1>1. /\ armed' = TRUE /\ UNCHANGED statusShadow /\ Out' = <<>>
      /\ \E s \in RegulatorState : pendingNewLevel' = s /\ Coming(Out, "StartTimer", s)
  BY TimerDoes
<1>2. Rising' => Rising
  BY <1>1, NoHandler DEF Rising, RegulatorState, Coming
<1> QED BY <1>1, <1>2 DEF NoErrorRising, Answered, Answering

(* Every step keeps to it. *)
LEMMA AnswerNext ==
  ASSUME Patient
  PROVE  GuardInv /\ GuardInv' /\ Course /\ ObeyInv /\ AnswerInv /\ [Next]_vars
           => AnswerInv'
<1> SUFFICES ASSUME GuardInv, GuardInv', Course, ObeyInv, AnswerInv, [Next]_vars, Alone'
             PROVE  NoErrorRising' /\ Answered'
  BY DEF AnswerInv
<1>1. /\ Inv /\ Inv' /\ Forms' /\ hw.reports /\ ~overlapped'
      /\ Forms /\ Plainly /\ Decides /\ Change /\ NoErrorRising /\ Answered
      /\ ~refused /\ (newLevel # Undefined => Obeyed)
  <2>1. Alone
    BY AloneBefore DEF GuardInv
  <2> QED BY <2>1 DEF GuardInv, Guarded, Course, Alone, AnswerInv, ObeyInv
<1>2. CASE IoThread
  BY <1>1, <1>2, IoAnswers
<1>3. CASE OutputThread
  BY <1>1, <1>3, StatusAnswers, QuietAnswers, ApplyAnswers, WriteAnswers, TimerAnswers
     DEF OutputThread, Writing, ReadingBack
<1>4. CASE \/ Expire \/ Requests \/ Alarm \/ HwSettles \/ HwSwings \/ HwBreaks
           \/ UNCHANGED vars
  BY <1>1, <1>4, OutsideAnswers
<1> QED BY <1>2, <1>3, <1>4 DEF Next

(* The constructor leaves no error. *)
LEMMA AnswerInit == Init => AnswerInv
<1>1. Init => statusShadow # "error"
  BY DEF Init, Goal
<1> QED BY <1>1 DEF AnswerInv, NoErrorRising, Answered

(* No answer is under way at rest. *)
LEMMA RestIsAnswered ==
  ASSUME AtRest
  PROVE  ~Answering
<1>1. /\ Out = <<>> /\ Io = <<>> /\ queue["io"] = <<>> /\ queue["output"] = <<>>
      /\ ~armed /\ ~alarm
  BY DEF AtRest, ThreadsIdle, Threads, Out, Io
<1>2. ~ErrorShows /\ ~ApplyNext /\ ~TimerQueued
  BY <1>1, NoHandler, ToSetSmall DEF ErrorShows, Reports, ApplyNext, TimerQueued
<1> QED BY <1>1, <1>2, NoHandler DEF Answering

(* AnswerHolds: an error that is shown has the regulator switched off, where *)
(* faults are not allowed.  While it is on and works, and statusShadow still *)
(* is an error, the signals, the callback, the netlist, Apply, the timer or  *)
(* the status that was read are on their way, with any number of failing     *)
(* accesses: in every reachable state in which no handlers have overlapped   *)
(* and no second attempt at a change was refused.  Where _On is low already  *)
(* the callback does nothing (Logic.cpp:89), and it is only ObeyInv that     *)
(* tells that the regulator is, or is being, switched off then; one that has *)
(* refused twice stays on with its error.                                    *)
THEOREM AnswerHolds ==
  ASSUME Patient
  PROVE  Spec => [](GuardInv /\ Course /\ AnswerInv)
<1>1. Init => AnswerInv
  BY AnswerInit
<1>2. GuardInv /\ GuardInv' /\ Course /\ ObeyInv /\ AnswerInv /\ [Next]_vars => AnswerInv'
  BY AnswerNext
<1> QED BY <1>1, <1>2, CourseHolds, ObeyHolds, PTL DEF Spec

(* SignalsShow: at rest _Enabled and _PowerGood show the regulator, through *)
(* whatever retries, late events and checks on io the signals were set, with*)
(* any number of failing accesses, unless the second attempt at a change was*)
(* one of them.                                                             *)
THEOREM SignalsShow ==
  ASSUME Patient
  PROVE  Spec => []SignalsShowRegulator
<1>1. GuardInv /\ Course /\ AnswerInv => SignalsShowRegulator
  <2> SUFFICES ASSUME GuardInv, Course, AnswerInv, Steady, ~overlapped, ~refused,
                      hw.status # "error", statusShadow # "invalid", AllowFaulting => statusShadow # "error"
               PROVE  /\ signal["enabled"] = (IF hw.state = "enabled" THEN 1 ELSE 0)
                      /\ signal["powergood"] = (IF hw.status = "on" THEN 1 ELSE 0)
                      /\ signal["fault"] = 0
    BY DEF SignalsShowRegulator
  <2>1. Inv /\ AtRest /\ Settled /\ Plainly /\ Change /\ EnabledInv /\ Answered
    BY DEF Steady, GuardInv, Guarded, Course, Alone, AnswerInv
  <2>2. ~hw.broken /\ hw.status = Goal(hw.state)
        /\ hw.state \in {"enabled", "disabled"} /\ statusShadow \in {"on", "off", "error"}
    BY <2>1 DEF Settled, Plainly, Inv, Types, Simple, RegulatorState, Shown
  <2>3. /\ ~ErrorNext /\ ~Rising /\ ~Reporting
        /\ LastShown = <<>> /\ LastSet = <<>> /\ ~Tells0
        /\ ~Writes(Io, 0)
        /\ hw.state = "disabled" => statusShadow \notin {"on", "error"}
    BY <2>1, AtRestNothing
  <2>4. statusShadow = Goal(hw.state)
    <3>1. hw.state = "enabled" => statusShadow # "error"
      BY <2>1, <2>2, RestIsAnswered DEF Answered
    <3> QED BY <2>1, <2>2, <2>3, <3>1 DEF Change, Off, Goal
  <2>5. \A s : <<>> # <<SetSignals(s)>>
    BY ShortHandlers
  <2>6. /\ signal["powergood"] = (IF statusShadow = "on" THEN 1 ELSE 0)
        /\ signal["fault"] = (IF statusShadow = "error" THEN 1 ELSE 0)
    BY <2>1, <2>3, <2>5 DEF Inv, StatusInv, Follows, Fits
  <2>7. signal["enabled"] = (IF hw.state = "enabled" THEN 1 ELSE 0)
    <3>1. CASE hw.state = "enabled"
      BY <2>1, <2>2, <2>3, <2>4, <2>5, <3>1 DEF EnabledInv, ShowsEnabled, Goal
    <3>2. CASE hw.state = "disabled"
      <4>1. <<>> \notin Zeros
        BY ShortHandlers, Zenon DEF Zeros
      <4> QED BY <2>1, <2>3, <2>4, <3>2, <4>1 DEF EnabledInv, ShowsDisabled, Goal
    <3> QED BY <2>2, <3>1, <3>2
  <2> QED BY <2>2, <2>4, <2>6, <2>7 DEF Goal
<1> QED BY <1>1, AnswerHolds, PTL
=============================================================================

----------------------------- MODULE TwoThreads -----------------------------
(***************************************************************************)
(* The two io_service queues of main and the threads that run them: "io"   *)
(* and "output" (IoOutput in the code).  A handler is a sequence of        *)
(* instructions, and the threads interleave between instructions.  A       *)
(* module that EXTENDS this one defines an action for each instruction.    *)
(***************************************************************************)
EXTENDS Sequences

VARIABLES
  queue,   \* the handlers posted to each thread
  run      \* what is left of the handler that each thread runs

Threads == {"io", "output"}
Other(t) == IF t = "io" THEN "output" ELSE "io"

ThreadsTypeOK(instructions) ==
  /\ queue \in [Threads -> Seq(Seq(instructions))]
  /\ run \in [Threads -> Seq(instructions)]

(* Thread t comes to an instruction op next. *)
At(t, op) == run[t] # <<>> /\ Head(run[t]).op = op

(* It has done that instruction and comes to more. *)
Continue(t, more) == run' = [run EXCEPT ![t] = more \o Tail(@)]

Post(t, handler) == queue' = [queue EXCEPT ![t] = Append(@, handler)]

(* Thread t takes its next handler. *)
TakeHandler(t) ==
  /\ run[t] = <<>> /\ queue[t] # <<>>
  /\ run' = [run EXCEPT ![t] = Head(queue[t])]
  /\ queue' = [queue EXCEPT ![t] = Tail(@)]

ThreadsIdle == \A t \in Threads : queue[t] = <<>> /\ run[t] = <<>>
==============================================================================

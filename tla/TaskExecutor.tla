---------------------------- MODULE TaskExecutor ----------------------------
(***************************************************************************)
(* What an EventLoop promises to the callers of queueInLoop: the functors  *)
(* handed to it are run one at a time, each exactly once, in the order in  *)
(* which they were queued, and only while the loop is running; a functor   *)
(* whose turn has come is run unless the loop stops.                       *)
(*                                                                         *)
(* The specification says nothing of batches, wakeups or polling: how the  *)
(* code keeps the promise is the subject of EventLoop.tla, which           *)
(* implements this module.                                                 *)
(***************************************************************************)
EXTENDS Naturals, Sequences

CONSTANT Functors          \* the functors that may be queued

VARIABLES
  submitted,               \* every functor queued so far, in queue order
  ran,                     \* every queued functor run so far, in run order
  running                  \* the loop thread is inside loop()

vars == <<submitted, ran, running>>

Init ==
  /\ submitted = <<>>
  /\ ran = <<>>
  /\ running = FALSE

(* A functor is queued, whether or not the loop is running.                *)
Submit(f) ==
  /\ \A i \in 1 .. Len(submitted) : submitted[i] # f
  /\ submitted' = Append(submitted, f)
  /\ UNCHANGED <<ran, running>>

(* The next functor in queue order is run.                                 *)
RunNext ==
  /\ running
  /\ Len(ran) < Len(submitted)
  /\ ran' = Append(ran, submitted[Len(ran) + 1])
  /\ UNCHANGED <<submitted, running>>

Start ==
  /\ ~running
  /\ running' = TRUE
  /\ UNCHANGED <<submitted, ran>>

Stop ==
  /\ running
  /\ running' = FALSE
  /\ UNCHANGED <<submitted, ran>>

Next ==
  \/ \E f \in Functors : Submit(f)
  \/ RunNext
  \/ Start
  \/ Stop

SafeSpec == Init /\ [][Next]_vars

Fairness == WF_vars(RunNext)

Spec == SafeSpec /\ Fairness

=============================================================================

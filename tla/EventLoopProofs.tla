--------------------------- MODULE EventLoopProofs ---------------------------
(***************************************************************************)
(* What TLAPS proves of EventLoop for every set of callers, functors and   *)
(* channels: its type invariant, that no wakeup is lost, that a quit() is  *)
(* noticed by a sleeping loop, that functors are neither lost nor          *)
(* reordered, and that every step is a step of TaskExecutor.               *)
(*                                                                         *)
(* Each invariant is inductive relative to TypeOK, which ties the flag     *)
(* callingPendingFunctors_ to the place of the loop thread: that is the    *)
(* fact queueInLoop relies on when it decides whether to write the eventfd.*)
(***************************************************************************)
EXTENDS EventLoop, SequenceTheorems, TLAPS

(* The type invariant holds initially.                                     *)
LEMMA InitTypeOK == Init => TypeOK
<1> SUFFICES ASSUME Init
             PROVE  TypeOK
  OBVIOUS
<1>1. <<>> \in Seq(Functors)
  OBVIOUS
<1>2. waking \in [Threads -> BOOLEAN]
  BY Zenon DEF Init
<1>3. PhaseOK
  BY DEF Init, PhaseOK, UserCode
<1> QED
  BY <1>1, <1>2, <1>3 DEF Init, TypeOK, Locations

(* The type invariant is preserved by every step.                          *)
LEMMA NextTypeOK == TypeOK /\ [Next]_vars => TypeOK'
<1> SUFFICES ASSUME TypeOK, [Next]_vars
             PROVE  TypeOK'
  OBVIOUS
<1> USE ThreadsAssumption, ChannelsAssumption
<1> USE DEF TypeOK, PhaseOK, Locations, UserCode, Threads, Channels
<1>1. ASSUME NEW t \in Threads, NEW f \in Functors, QueueInLoop(t, f)
      PROVE  TypeOK'
  BY <1>1 DEF QueueInLoop, NeedsWakeup, CanCall
<1>2. ASSUME NEW f \in Functors, RunInline(f)
      PROVE  TypeOK'
  BY <1>2 DEF RunInline
<1>3. ASSUME NEW t \in Threads, Quit(t)
      PROVE  TypeOK'
  BY <1>3 DEF Quit, QuitNeedsWakeup, CanCall
<1>4. ASSUME NEW t \in Threads, Wakeup(t)
      PROVE  TypeOK'
  BY <1>4 DEF Wakeup
<1>5. CASE EnterLoop
  BY <1>5 DEF EnterLoop
<1>6. CASE CheckQuit
  BY <1>6 DEF CheckQuit
<1>7. CASE PollReturns
  BY <1>7 DEF PollReturns
<1>8. CASE PollTimeout
  BY <1>8 DEF PollTimeout, AfterTimeout
<1>9. CASE HandleRead
  BY <1>9 DEF HandleRead
<1>10. ASSUME NEW c \in IoChannels, HandleIo(c)
       PROVE  TypeOK'
  BY <1>10 DEF HandleIo
<1>11. CASE BeginPendingFunctors
  BY <1>11 DEF BeginPendingFunctors
<1>12. CASE SwapFunctors
  BY <1>12 DEF SwapFunctors
<1>13. CASE RunFunctor
  BY <1>13 DEF RunFunctor
<1>14. CASE EndPendingFunctors
  BY <1>14 DEF EndPendingFunctors
<1>15. CASE CallbackReturns
  BY <1>15 DEF CallbackReturns
<1>16. CASE UNCHANGED vars
  BY <1>16 DEF vars
<1> QED
  BY <1>1, <1>2, <1>3, <1>4, <1>5, <1>6, <1>7, <1>8, <1>9, <1>10, <1>11, <1>12,
     <1>13, <1>14, <1>15, <1>16 DEF Next, Call, RunInLoop, LoopStep

(* The variables keep their types, and the flag and the batch follow the   *)
(* loop thread's place in loop().                                          *)
THEOREM TypeCorrect == Spec => []TypeOK
  BY InitTypeOK, NextTypeOK, PTL DEF Spec

-----------------------------------------------------------------------------
(* The invariants of the handoff of functors and of quit.  Each is         *)
(* inductive relative to TypeOK.                                           *)

(* The invariants about the eventfd, together.                             *)
Inv == NoLostWakeup /\ QuitWakesPoll

(* Initially nothing is queued and nobody has called quit().               *)
LEMMA InitInv == Init => Inv
  BY DEF Init, Inv, NoLostWakeup, QuitWakesPoll

(* Woken survives every step but the read of the eventfd.                  *)
LEMMA WokenStable ==
  ASSUME TypeOK, [Next]_vars, Woken, ~HandleRead
  PROVE  Woken'
<1> USE DEF TypeOK, Woken
<1>1. ASSUME NEW t \in Threads, NEW f \in Functors, QueueInLoop(t, f)
      PROVE  Woken'
  BY <1>1 DEF QueueInLoop, CanCall
<1>2. ASSUME NEW f \in Functors, RunInline(f)
      PROVE  Woken'
  BY <1>2 DEF RunInline
<1>3. ASSUME NEW t \in Threads, Quit(t)
      PROVE  Woken'
  BY <1>3 DEF Quit, CanCall
<1>4. ASSUME NEW t \in Threads, Wakeup(t)
      PROVE  Woken'
  BY <1>4 DEF Wakeup
<1>5. ASSUME UNCHANGED <<wakeupFd_, waking>>
      PROVE  Woken'
  BY <1>5
<1> QED
  BY <1>1, <1>2, <1>3, <1>4, <1>5
     DEF vars, Next, Call, RunInLoop, LoopStep, EnterLoop, CheckQuit, PollReturns,
         PollTimeout, AfterTimeout, HandleIo, BeginPendingFunctors, SwapFunctors,
         RunFunctor, EndPendingFunctors, CallbackReturns

(* A functor queued without a write of the eventfd is queued in a callback *)
(* of this very turn or outside loop(); the queue is swapped before the    *)
(* loop polls again.                                                       *)
LEMMA NextNoLostWakeup ==
  ASSUME TypeOK, NoLostWakeup, [Next]_vars
  PROVE  NoLostWakeup'
<1>1. ASSUME NEW t \in Threads, NEW f \in Functors, QueueInLoop(t, f)
      PROVE  NoLostWakeup'
  <2>1. CASE NeedsWakeup(t)
    <3>1. waking'[t]
      BY <1>1, <2>1 DEF QueueInLoop, TypeOK
    <3> QED
      BY <3>1 DEF NoLostWakeup, Woken
  <2>2. CASE ~NeedsWakeup(t) /\ pc = "ioCallback"
    BY <1>1, <2>2 DEF QueueInLoop, NoLostWakeup, WillSwap
  <2>3. CASE ~NeedsWakeup(t) /\ pc # "ioCallback"
    <3>1. t = LoopThread /\ pc = "outside"
      BY <1>1, <2>3 DEF QueueInLoop, NeedsWakeup, CanCall, UserCode, TypeOK, PhaseOK
    <3>2. cold' = cold \cup {f} /\ pendingFunctors_' = Append(pendingFunctors_, f)
      BY <1>1, <3>1 DEF QueueInLoop
    <3>3. ~WillSwap /\ ~HandleRead
      BY <3>1 DEF WillSwap, HandleRead
    <3>4. Woken => Woken'
      BY <3>3, WokenStable
    <3>5. ASSUME NEW i \in 1 .. Len(pendingFunctors_')
          PROVE  pendingFunctors_'[i] \in cold' \/ Woken'
      <4>1. CASE i \in 1 .. Len(pendingFunctors_)
        <5>1. pendingFunctors_'[i] = pendingFunctors_[i]
          BY <4>1, <3>2 DEF TypeOK
        <5> QED
          BY <4>1, <5>1, <3>2, <3>3, <3>4 DEF NoLostWakeup
      <4>2. CASE i \notin 1 .. Len(pendingFunctors_)
        <5>1. pendingFunctors_'[i] = f
          BY <4>2, <3>2, <3>5 DEF TypeOK
        <5> QED
          BY <5>1, <3>2
      <4> QED
        BY <4>1, <4>2
    <3> QED
      BY <3>5 DEF NoLostWakeup
  <2> QED
    BY <2>1, <2>2, <2>3
<1>2. CASE SwapFunctors
  BY <1>2 DEF SwapFunctors, NoLostWakeup
<1>3. CASE HandleRead
  BY <1>3 DEF HandleRead, NoLostWakeup, WillSwap
<1>4. ASSUME UNCHANGED <<pendingFunctors_, cold>>, WillSwap => WillSwap', ~HandleRead
      PROVE  NoLostWakeup'
  <2>1. Woken => Woken'
    BY <1>4, WokenStable
  <2> QED
    BY <1>4, <2>1 DEF NoLostWakeup
<1> QED
  BY <1>1, <1>2, <1>3, <1>4
     DEF WillSwap, vars, Next, Call, RunInLoop, RunInline, Quit, Wakeup, LoopStep,
         EnterLoop, CheckQuit, PollReturns, PollTimeout, AfterTimeout, HandleIo, HandleRead,
         BeginPendingFunctors, RunFunctor, EndPendingFunctors, CallbackReturns

(* quit_ is read after it may last be set without a wakeup.                *)
LEMMA NextQuitWakesPoll ==
  ASSUME TypeOK, QuitWakesPoll, [Next]_vars
  PROVE  QuitWakesPoll'
<1>1. ASSUME NEW t \in Threads, Quit(t)
      PROVE  QuitWakesPoll'
  <2>1. CASE t = LoopThread
    BY <1>1, <2>1 DEF Quit, CanCall, UserCode, QuitWakesPoll
  <2>2. CASE t # LoopThread
    <3>1. waking'[t]
      BY <1>1, <2>2 DEF Quit, QuitNeedsWakeup, TypeOK
    <3> QED
      BY <3>1 DEF QuitWakesPoll, Woken
  <2> QED
    BY <2>1, <2>2
<1>2. CASE CheckQuit
  BY <1>2 DEF CheckQuit, QuitWakesPoll, TypeOK
<1>3. CASE HandleRead
  BY <1>3 DEF HandleRead, QuitWakesPoll
<1>4. ASSUME quit_' => quit_, pc' = "poll" => pc = "poll", ~HandleRead
      PROVE  QuitWakesPoll'
  <2>1. Woken => Woken'
    BY <1>4, WokenStable
  <2> QED
    BY <1>4, <2>1 DEF QuitWakesPoll
<1>5. CASE EnterLoop
  BY <1>5 DEF EnterLoop, QuitWakesPoll
<1> QED
  BY <1>1, <1>2, <1>3, <1>4, <1>5
     DEF vars, Next, Call, RunInLoop, RunInline, QueueInLoop, Wakeup, LoopStep,
         PollReturns, PollTimeout, AfterTimeout, HandleIo,
         BeginPendingFunctors, SwapFunctors, RunFunctor, EndPendingFunctors,
         CallbackReturns

(* Both invariants are preserved.                                          *)
LEMMA NextInv == TypeOK /\ Inv /\ [Next]_vars => Inv'
  BY NextNoLostWakeup, NextQuitWakesPoll DEF Inv

(* A functor queued by another thread, or from a callback or functor, is   *)
(* always about to be taken by the loop, or the eventfd is or will be      *)
(* readable, as it is when quit() finds the loop in poll: the conditions   *)
(* under which queueInLoop and quit write the eventfd suffice.             *)
THEOREM WakeupNeverLost == Spec => []LoopIsWoken
<1>1. Init => TypeOK /\ Inv
  BY InitTypeOK, InitInv
<1>2. TypeOK /\ Inv /\ [Next]_vars => TypeOK' /\ Inv'
  BY NextTypeOK, NextInv
<1>3. Inv => LoopIsWoken
  BY DEF Inv, LoopIsWoken
<1> QED
  BY <1>1, <1>2, <1>3, PTL DEF Spec

-----------------------------------------------------------------------------
(* The queue: nothing lost, nothing reordered, and every step is a step of *)
(* TaskExecutor.                                                           *)

(* Moving the head of the second sequence to the end of the first leaves   *)
(* their concatenation unchanged.                                          *)
LEMMA MoveHead ==
  ASSUME NEW S, NEW s \in Seq(S), NEW t \in Seq(S), t # <<>>
  PROVE  Append(s, Head(t)) \o Tail(t) = s \o t
<1> DEFINE l == Append(s, Head(t)) \o Tail(t)
<1>1. /\ Head(t) \in S /\ Head(t) = t[1] /\ Len(t) \in Nat \ {0} /\ Len(s) \in Nat
      /\ Tail(t) \in Seq(S) /\ Len(Tail(t)) = Len(t) - 1
      /\ \A i \in 1 .. Len(t) - 1 : Tail(t)[i] = t[i + 1]
  BY HeadTailProperties, EmptySeq, LenProperties
<1>2. /\ Append(s, Head(t)) \in Seq(S)
      /\ Len(Append(s, Head(t))) = Len(s) + 1
      /\ \A i \in 1 .. Len(s) : Append(s, Head(t))[i] = s[i]
      /\ Append(s, Head(t))[Len(s) + 1] = t[1]
  BY <1>1
<1>3. /\ l \in Seq(S) /\ s \o t \in Seq(S)
      /\ Len(l) = Len(s) + Len(t) /\ Len(s \o t) = Len(s) + Len(t)
  BY <1>1, <1>2, ConcatProperties
<1>4. ASSUME NEW i \in 1 .. Len(l)
      PROVE  l[i] = (s \o t)[i]
  <2>1. (s \o t)[i] = IF i <= Len(s) THEN s[i] ELSE t[i - Len(s)]
    BY <1>1, <1>3, ConcatProperties
  <2>2. l[i] = IF i <= Len(s) + 1 THEN Append(s, Head(t))[i] ELSE Tail(t)[i - (Len(s) + 1)]
    BY <1>1, <1>2, <1>3, ConcatProperties
  <2>3. CASE i <= Len(s)
    BY <1>1, <1>2, <2>1, <2>2, <2>3
  <2>4. CASE i = Len(s) + 1
    BY <1>1, <1>2, <2>1, <2>2, <2>4
  <2>5. CASE i > Len(s) + 1
    <3>1. i - (Len(s) + 1) \in 1 .. Len(t) - 1
      BY <1>1, <1>3, <2>5
    <3>2. Tail(t)[i - (Len(s) + 1)] = t[i - Len(s)]
      BY <1>1, <3>1
    <3> QED
      BY <1>1, <2>1, <2>2, <2>5, <3>2
  <2> QED
    BY <1>1, <1>3, <2>3, <2>4, <2>5
<1> QED
  BY <1>3, <1>4, SeqEqual

(* Initially nothing is queued.                                            *)
LEMMA InitNothingLost == Init => NothingLostOrReordered
<1> SUFFICES ASSUME Init
             PROVE  NothingLostOrReordered
  OBVIOUS
<1>1. <<>> \in Seq(Functors) /\ <<>> \o <<>> = <<>>
  BY ConcatEmptySeq
<1> QED
  BY <1>1 DEF Init, NothingLostOrReordered

(* Queueing appends at the end of the queue, swapping moves the queue into *)
(* the empty batch, and running moves the head of the batch.               *)
LEMMA NextNothingLost ==
  ASSUME TypeOK, NothingLostOrReordered, [Next]_vars
  PROVE  NothingLostOrReordered'
<1> USE DEF TypeOK
<1>1. ASSUME NEW t \in Threads, NEW f \in Functors, QueueInLoop(t, f)
      PROVE  NothingLostOrReordered'
  <2>1. /\ submitted' = Append(submitted, f)
        /\ pendingFunctors_' = Append(pendingFunctors_, f)
        /\ ran' = ran
        /\ functors' = functors
    BY <1>1 DEF QueueInLoop
  <2> DEFINE q == ran \o functors
  <2>2. q \in Seq(Functors)
    BY ConcatProperties
  <2>3. submitted = q \o pendingFunctors_
    BY DEF NothingLostOrReordered
  <2> HIDE DEF q
  <2>4. <<f>> \in Seq(Functors)
    OBVIOUS
  <2>5. (q \o pendingFunctors_) \o <<f>> = q \o (pendingFunctors_ \o <<f>>)
    BY <2>2, <2>4, ConcatAssociative
  <2>6. /\ submitted' = submitted \o <<f>>
        /\ pendingFunctors_' = pendingFunctors_ \o <<f>>
    BY <2>1, AppendIsConcat
  <2>7. submitted' = q \o pendingFunctors_'
    BY <2>3, <2>5, <2>6
  <2> QED
    BY <2>1, <2>7 DEF q, NothingLostOrReordered
<1>2. CASE SwapFunctors
  <2>1. functors = <<>> /\ functors' = pendingFunctors_ /\ pendingFunctors_' = <<>>
    BY <1>2 DEF SwapFunctors, PhaseOK
  <2>2. submitted' = submitted /\ ran' = ran
    BY <1>2 DEF SwapFunctors
  <2>3. ran \o <<>> = ran
    BY ConcatEmptySeq
  <2>4. (ran \o pendingFunctors_) \o <<>> = ran \o pendingFunctors_
    BY ConcatProperties, ConcatEmptySeq
  <2> QED
    BY <2>1, <2>2, <2>3, <2>4, Zenon DEF NothingLostOrReordered
<1>3. CASE RunFunctor
  <2>1. /\ functors # <<>>
        /\ ran' = Append(ran, Head(functors))
        /\ functors' = Tail(functors)
        /\ submitted' = submitted
        /\ pendingFunctors_' = pendingFunctors_
    BY <1>3 DEF RunFunctor
  <2>2. Append(ran, Head(functors)) \o Tail(functors) = ran \o functors
    BY <2>1, MoveHead
  <2> QED
    BY <2>1, <2>2, Zenon DEF NothingLostOrReordered
<1>4. ASSUME UNCHANGED <<submitted, ran, functors, pendingFunctors_>>
      PROVE  NothingLostOrReordered'
  BY <1>4 DEF NothingLostOrReordered
<1> QED
  BY <1>1, <1>2, <1>3, <1>4
     DEF vars, Next, Call, RunInLoop, RunInline, Quit, Wakeup, LoopStep,
         EnterLoop, CheckQuit, PollReturns, PollTimeout, AfterTimeout, HandleIo, HandleRead,
         BeginPendingFunctors, EndPendingFunctors, CallbackReturns

(* Every functor queued has been run, is in the batch being run or waits   *)
(* in pendingFunctors_, in queue order.                                    *)
THEOREM QueueKept == Spec => []NothingLostOrReordered
  BY InitTypeOK, NextTypeOK, InitNothingLost, NextNothingLost, PTL DEF Spec

(* Every step of the loop is a step of the executor or leaves it alone.    *)
LEMMA StepImplementsExecutor ==
  ASSUME TypeOK, NothingLostOrReordered, [Next]_vars
  PROVE  [Executor!Next]_(Executor!vars)
<1> USE DEF Executor!Next, Executor!vars
<1>1. ASSUME NEW t \in Threads, NEW f \in Functors, QueueInLoop(t, f)
      PROVE  Executor!Submit(f)
  BY <1>1 DEF QueueInLoop, Fresh, Executor!Submit
<1>2. CASE EnterLoop
  BY <1>2 DEF EnterLoop, Executor!Start
<1>3. CASE CheckQuit
  BY <1>3 DEF CheckQuit, Executor!Stop
<1>4. CASE RunFunctor
  <2>1. /\ pc # "outside" /\ pc' # "outside"
        /\ functors # <<>>
        /\ ran' = Append(ran, Head(functors))
        /\ submitted' = submitted
    BY <1>4 DEF RunFunctor
  <2>2. /\ Len(ran \o functors) = Len(ran) + Len(functors)
        /\ ran \o functors \in Seq(Functors)
    BY ConcatProperties DEF TypeOK
  <2>3. Len(functors) > 0 /\ Head(functors) = functors[1]
    BY <2>1 DEF TypeOK
  <2>4. (ran \o functors)[Len(ran) + 1] = functors[1]
    BY <2>3, ConcatProperties DEF TypeOK
  <2>5. Len(submitted) = Len(ran) + Len(functors) + Len(pendingFunctors_)
    BY <2>2, ConcatProperties DEF TypeOK, NothingLostOrReordered
  <2>6. Len(ran) < Len(submitted)
    BY <2>3, <2>5 DEF TypeOK
  <2>7. submitted[Len(ran) + 1] = (ran \o functors)[Len(ran) + 1]
    BY <2>2, <2>3, ConcatProperties DEF TypeOK, NothingLostOrReordered
  <2> QED
    BY <2>1, <2>3, <2>4, <2>6, <2>7 DEF Executor!RunNext
<1>5. ASSUME UNCHANGED <<submitted, ran>>, pc # "outside" <=> pc' # "outside"
      PROVE  UNCHANGED Executor!vars
  BY <1>5
<1> QED
  BY <1>1, <1>2, <1>3, <1>4, <1>5
     DEF vars, Next, Call, RunInLoop, RunInline, Quit, Wakeup, LoopStep,
         PollReturns, PollTimeout, AfterTimeout, HandleIo, HandleRead, BeginPendingFunctors,
         SwapFunctors, EndPendingFunctors, CallbackReturns

(* The loop keeps the executor's promise of order and of at most one run   *)
(* of each functor, under any interleaving.                                *)
THEOREM ImplementsSafeExecutor == Spec => ImplementsExecutor
<1>1. Init => Executor!Init
  BY DEF Init, Executor!Init
<1>2. TypeOK /\ NothingLostOrReordered /\ [Next]_vars => [Executor!Next]_(Executor!vars)
  BY StepImplementsExecutor
<1> QED
  BY <1>1, <1>2, TypeCorrect, QueueKept, PTL DEF Spec, ImplementsExecutor, Executor!SafeSpec

=============================================================================

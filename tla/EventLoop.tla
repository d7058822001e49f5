------------------------------ MODULE EventLoop ------------------------------
(***************************************************************************)
(* One EventLoop (src/src/EventLoop.cc): the thread that owns it runs      *)
(* loop(), polling for events, handling the active channels and then       *)
(* running the functors queued by queueInLoop; other threads queue         *)
(* functors and call quit().                                               *)
(*                                                                         *)
(* The loop thread sleeps inside Poller::poll.  It is woken by the eventfd *)
(* wakeupFd_, which queueInLoop and quit write outside the mutex, in a     *)
(* step of its own, and which only handleRead clears.  Whether every       *)
(* functor and every quit finds the loop awake or wakes it is the question *)
(* this module answers.                                                    *)
(*                                                                         *)
(* What is abstracted.  The eventfd counter is reduced to "not zero": the  *)
(* code never looks at the value it reads.  looping_ is written and never  *)
(* read; it is pc # "outside".  A critical section of mutex_ is one step.  *)
(* Channels other than the wakeup channel are IoChannels: a handler of one *)
(* is user code, and so is the body of a functor.  At most                 *)
(* kInitEventListSize channels are ready at once, so that one epoll_wait   *)
(* returns them all (the growing event list is modelled in EPollPoller).   *)
(***************************************************************************)
EXTENDS Naturals, Sequences

CONSTANTS
  LoopThread,      \* the thread that created the loop (threadId_)
  Callers,         \* the other threads that call into the loop
  Functors,        \* the functors; each is passed to the loop at most once
  IoChannels,      \* the channels other than the wakeup channel
  WakeupChannel    \* wakeupChannel_

ASSUME ThreadsAssumption == LoopThread \notin Callers
ASSUME ChannelsAssumption == WakeupChannel \notin IoChannels

VARIABLES
  pc,                       \* where the loop thread is
  quit_,
  callingPendingFunctors_,
  pendingFunctors_,         \* guarded by mutex_ in the code
  functors,                 \* the batch doPendingFunctors swapped out, what is left of it
  activeChannels_,          \* channels returned by poll and not handled yet
  wakeupFd_,                \* the eventfd is readable
  waking,                   \* waking[t]: thread t is about to write the eventfd
  submitted,                \* history: the functors queued, in queue order
  ran,                      \* history: the queued functors run, in run order
  inlined,                  \* history: the functors runInLoop called directly
  cold                      \* history: the functors the loop thread queued outside loop()

vars == <<pc, quit_, callingPendingFunctors_, pendingFunctors_, functors,
          activeChannels_, wakeupFd_, waking, submitted, ran, inlined, cold>>

Threads == Callers \cup {LoopThread}
Channels == IoChannels \cup {WakeupChannel}

Locations == {"outside", "check", "poll", "events", "ioCallback", "swap",
              "functors", "functorBody"}

(* Where the loop thread executes code of the library's user.              *)
UserCode == {"outside", "ioCallback", "functorBody"}

Init ==
  /\ pc = "outside"
  /\ quit_ = FALSE
  /\ callingPendingFunctors_ = FALSE
  /\ pendingFunctors_ = <<>>
  /\ functors = <<>>
  /\ activeChannels_ = {}
  /\ wakeupFd_ = FALSE
  /\ waking = [t \in Threads |-> FALSE]
  /\ submitted = <<>>
  /\ ran = <<>>
  /\ inlined = {}
  /\ cold = {}

-----------------------------------------------------------------------------
(* Calls into the loop, by any thread that is executing user code.         *)

CanCall(t) ==
  /\ ~waking[t]
  /\ t = LoopThread => pc \in UserCode

(* f has not been passed to the loop before.                               *)
Fresh(f) ==
  /\ f \notin inlined
  /\ \A i \in 1 .. Len(submitted) : submitted[i] # f

(* queueInLoop wakes the loop unless its own thread queues the functor     *)
(* before it swaps the queue in the same turn.  Mutated form: the batch    *)
(* being run is forgotten.                                                 *)
NeedsWakeupNotFromBatch(t) == t # LoopThread
NeedsWakeup(t) == t # LoopThread \/ callingPendingFunctors_

(* quit wakes the loop for any other thread.  Mutated form: it does not.   *)
QuitNeedsNoWakeup(t) == FALSE
QuitNeedsWakeup(t) == t # LoopThread

(* queueInLoop up to the call of wakeup().  callingPendingFunctors_ is     *)
(* read after the mutex is released, but only by the loop thread itself,   *)
(* which is the only thread that writes it.                                *)
QueueInLoop(t, f) ==
  /\ CanCall(t)
  /\ Fresh(f)
  /\ pendingFunctors_' = Append(pendingFunctors_, f)
  /\ submitted' = Append(submitted, f)
  /\ waking' = [waking EXCEPT ![t] = NeedsWakeup(t)]
  /\ cold' = IF t = LoopThread /\ pc = "outside" THEN cold \cup {f} ELSE cold
  /\ UNCHANGED <<pc, quit_, callingPendingFunctors_, functors, activeChannels_,
                 wakeupFd_, ran, inlined>>

(* runInLoop on the loop thread: the functor is called directly.  On any   *)
(* other thread runInLoop is QueueInLoop.                                  *)
RunInline(f) ==
  /\ CanCall(LoopThread)
  /\ Fresh(f)
  /\ inlined' = inlined \cup {f}
  /\ UNCHANGED <<pc, quit_, callingPendingFunctors_, pendingFunctors_, functors,
                 activeChannels_, wakeupFd_, waking, submitted, ran, cold>>

RunInLoop(t, f) ==
  \/ t = LoopThread /\ RunInline(f)
  \/ t # LoopThread /\ QueueInLoop(t, f)

(* quit() up to the call of wakeup().                                      *)
Quit(t) ==
  /\ CanCall(t)
  /\ quit_' = TRUE
  /\ waking' = [waking EXCEPT ![t] = QuitNeedsWakeup(t)]
  /\ UNCHANGED <<pc, callingPendingFunctors_, pendingFunctors_, functors,
                 activeChannels_, wakeupFd_, submitted, ran, inlined, cold>>

(* wakeup(): the eventfd becomes readable.                                 *)
Wakeup(t) ==
  /\ waking[t]
  /\ wakeupFd_' = TRUE
  /\ waking' = [waking EXCEPT ![t] = FALSE]
  /\ UNCHANGED <<pc, quit_, callingPendingFunctors_, pendingFunctors_, functors,
                 activeChannels_, submitted, ran, inlined, cold>>

-----------------------------------------------------------------------------
(* The loop thread's own steps.                                            *)

(* loop() is called: looping_ is set and quit_ is cleared, whoever set it. *)
EnterLoop ==
  /\ pc = "outside"
  /\ ~waking[LoopThread]
  /\ pc' = "check"
  /\ quit_' = FALSE
  /\ UNCHANGED <<callingPendingFunctors_, pendingFunctors_, functors,
                 activeChannels_, wakeupFd_, waking, submitted, ran, inlined, cold>>

(* while (!quit_): leave loop(), or clear the active list and poll.        *)
CheckQuit ==
  /\ pc = "check"
  /\ pc' = IF quit_ THEN "outside" ELSE "poll"
  /\ activeChannels_' = IF quit_ THEN activeChannels_ ELSE {}
  /\ UNCHANGED <<quit_, callingPendingFunctors_, pendingFunctors_, functors,
                 wakeupFd_, waking, submitted, ran, inlined, cold>>

(* poll returns with the ready channels: the wakeup channel exactly when   *)
(* the eventfd is readable, and any of the others.                         *)
PollReturns ==
  /\ pc = "poll"
  /\ \E io \in SUBSET IoChannels :
       LET ready == io \cup (IF wakeupFd_ THEN {WakeupChannel} ELSE {})
       IN  ready # {} /\ activeChannels_' = ready
  /\ pc' = "events"
  /\ UNCHANGED <<quit_, callingPendingFunctors_, pendingFunctors_, functors,
                 wakeupFd_, waking, submitted, ran, inlined, cold>>

(* poll returns with no event: after kPollTimeMs, or by EINTR.  Mutated    *)
(* form of where the loop goes on: it polls again, there being no event.   *)
AfterTimeoutPolls == "check"
AfterTimeout == "events"

PollTimeout ==
  /\ pc = "poll"
  /\ ~wakeupFd_
  /\ pc' = AfterTimeout
  /\ UNCHANGED <<quit_, callingPendingFunctors_, pendingFunctors_, functors,
                 activeChannels_, wakeupFd_, waking, submitted, ran, inlined, cold>>

(* handleEvent of the wakeup channel: handleRead empties the eventfd.      *)
HandleRead ==
  /\ pc = "events"
  /\ WakeupChannel \in activeChannels_
  /\ activeChannels_' = activeChannels_ \ {WakeupChannel}
  /\ wakeupFd_' = FALSE
  /\ UNCHANGED <<pc, quit_, callingPendingFunctors_, pendingFunctors_, functors,
                 waking, submitted, ran, inlined, cold>>

(* handleEvent of another channel: its callback starts.                    *)
HandleIo(c) ==
  /\ pc = "events"
  /\ c \in activeChannels_
  /\ pc' = "ioCallback"
  /\ activeChannels_' = activeChannels_ \ {c}
  /\ UNCHANGED <<quit_, callingPendingFunctors_, pendingFunctors_, functors,
                 wakeupFd_, waking, submitted, ran, inlined, cold>>

(* doPendingFunctors, first part: the flag is raised.                      *)
BeginPendingFunctors ==
  /\ pc = "events"
  /\ activeChannels_ = {}
  /\ pc' = "swap"
  /\ callingPendingFunctors_' = TRUE
  /\ UNCHANGED <<quit_, pendingFunctors_, functors, activeChannels_, wakeupFd_,
                 waking, submitted, ran, inlined, cold>>

(* functors.swap(pendingFunctors_) under mutex_.                           *)
SwapFunctors ==
  /\ pc = "swap"
  /\ pc' = "functors"
  /\ functors' = pendingFunctors_
  /\ pendingFunctors_' = <<>>
  /\ UNCHANGED <<quit_, callingPendingFunctors_, activeChannels_, wakeupFd_,
                 waking, submitted, ran, inlined, cold>>

(* The next functor of the batch is called.  Mutated form: the batch is    *)
(* run from its end.                                                       *)
RunFunctorFromEnd ==
  /\ pc = "functors"
  /\ functors # <<>>
  /\ pc' = "functorBody"
  /\ functors' = SubSeq(functors, 1, Len(functors) - 1)
  /\ ran' = Append(ran, functors[Len(functors)])
  /\ UNCHANGED <<quit_, callingPendingFunctors_, pendingFunctors_, activeChannels_,
                 wakeupFd_, waking, submitted, inlined, cold>>

RunFunctor ==
  /\ pc = "functors"
  /\ functors # <<>>
  /\ pc' = "functorBody"
  /\ functors' = Tail(functors)
  /\ ran' = Append(ran, Head(functors))
  /\ UNCHANGED <<quit_, callingPendingFunctors_, pendingFunctors_, activeChannels_,
                 wakeupFd_, waking, submitted, inlined, cold>>

(* The batch is done: the flag is lowered and the loop goes round.         *)
(* Mutated form: the flag stays up.                                        *)
EndPendingFunctorsKeepsFlag ==
  /\ pc = "functors"
  /\ functors = <<>>
  /\ pc' = "check"
  /\ UNCHANGED <<quit_, callingPendingFunctors_, pendingFunctors_, functors,
                 activeChannels_, wakeupFd_, waking, submitted, ran, inlined, cold>>

EndPendingFunctors ==
  /\ pc = "functors"
  /\ functors = <<>>
  /\ pc' = "check"
  /\ callingPendingFunctors_' = FALSE
  /\ UNCHANGED <<quit_, pendingFunctors_, functors, activeChannels_, wakeupFd_,
                 waking, submitted, ran, inlined, cold>>

(* A callback or a functor returns to the loop.                            *)
CallbackReturns ==
  /\ pc \in {"ioCallback", "functorBody"}
  /\ ~waking[LoopThread]
  /\ pc' = IF pc = "ioCallback" THEN "events" ELSE "functors"
  /\ UNCHANGED <<quit_, callingPendingFunctors_, pendingFunctors_, functors,
                 activeChannels_, wakeupFd_, waking, submitted, ran, inlined, cold>>

-----------------------------------------------------------------------------

Call ==
  \E t \in Threads :
    \/ \E f \in Functors : QueueInLoop(t, f) \/ RunInLoop(t, f)
    \/ Quit(t)

LoopStep ==
  \/ CheckQuit
  \/ PollReturns
  \/ HandleRead
  \/ \E c \in IoChannels : HandleIo(c)
  \/ BeginPendingFunctors
  \/ SwapFunctors
  \/ RunFunctor
  \/ EndPendingFunctors
  \/ CallbackReturns

Next ==
  \/ Call
  \/ \E t \in Threads : Wakeup(t)
  \/ EnterLoop
  \/ LoopStep
  \/ PollTimeout

Spec == Init /\ [][Next]_vars

(* The scheduler runs every thread, and a callback or functor returns.  A  *)
(* call of wakeup() that has started is finished.  No I/O event is assumed *)
(* and poll is not assumed to time out: poll returns only because it was   *)
(* woken.                                                                  *)
LoopProgress == LoopStep /\ (pc = "poll" => wakeupFd_)

PromptSpec ==
  /\ Spec
  /\ WF_vars(LoopProgress)
  /\ \A t \in Threads : WF_vars(Wakeup(t))

-----------------------------------------------------------------------------

SeqElems(s) == {s[i] : i \in 1 .. Len(s)}

(* What the variables hold at each place of loop(): the flag is up exactly *)
(* while doPendingFunctors runs, a batch exists only while it is being     *)
(* run, and only user code calls into the loop on the loop's own thread.   *)
PhaseOK ==
  /\ callingPendingFunctors_ <=> pc \in {"swap", "functors", "functorBody"}
  /\ functors # <<>> => pc \in {"functors", "functorBody"}
  /\ activeChannels_ # {} => pc \in {"events", "ioCallback"}
  /\ waking[LoopThread] => pc \in UserCode

(* The values the variables range over, in each phase of loop().           *)
TypeOK ==
  /\ pc \in Locations
  /\ quit_ \in BOOLEAN
  /\ callingPendingFunctors_ \in BOOLEAN
  /\ pendingFunctors_ \in Seq(Functors)
  /\ functors \in Seq(Functors)
  /\ activeChannels_ \subseteq Channels
  /\ wakeupFd_ \in BOOLEAN
  /\ waking \in [Threads -> BOOLEAN]
  /\ submitted \in Seq(Functors)
  /\ ran \in Seq(Functors)
  /\ inlined \subseteq Functors
  /\ cold \subseteq Functors
  /\ PhaseOK

(* The loop thread is between reading the eventfd at the latest and        *)
(* swapping the queue: it takes every functor queued so far without being  *)
(* woken again.                                                            *)
WillSwap == pc \in {"events", "ioCallback", "swap"}

(* Someone has written, or is about to write, the eventfd.                 *)
Woken == wakeupFd_ \/ \E t \in Threads : waking[t]

(* No lost wakeup: the loop never goes to sleep in poll, goes round again  *)
(* to do so, or is left to be entered later, while a functor waits in      *)
(* pendingFunctors_ and nobody wakes it.                                   *)
(* The exceptions are the functors its own thread queued before calling    *)
(* loop(), for which queueInLoop does not write the eventfd.               *)
NoLostWakeup ==
  \A i \in 1 .. Len(pendingFunctors_) :
    pendingFunctors_[i] \in cold \/ WillSwap \/ Woken

(* quit() reaches a loop that sleeps: once quit_ is set, the loop is not   *)
(* left sleeping in poll with nobody waking it.                            *)
QuitWakesPoll == quit_ /\ pc = "poll" => Woken

(* The two things a sleeping loop must be woken for.                       *)
LoopIsWoken == NoLostWakeup /\ QuitWakesPoll

(* Every functor queued is in exactly one place, in queue order: run, in   *)
(* the batch being run, or still pending.                                  *)
NothingLostOrReordered == submitted = ran \o functors \o pendingFunctors_

(* A functor queued while the loop is inside loop() by another thread, or  *)
(* from a callback or functor, is run unless loop() returns first, even if *)
(* poll never times out and no other event arrives.                        *)
PromptExecution ==
  \A f \in Functors :
    (f \in SeqElems(pendingFunctors_) \ cold /\ pc # "outside")
      ~> (f \in SeqElems(ran) \/ pc = "outside")

(* A quit() that finds the loop inside loop() makes loop() return, even if *)
(* poll never times out and no other event arrives.                        *)
QuitStopsLoop == quit_ /\ pc # "outside" ~> pc = "outside"

(* What others ask of a loop inside loop() is done without a timeout.      *)
LoopResponds == PromptExecution /\ QuitStopsLoop

(* The loop is a TaskExecutor.                                             *)
Executor == INSTANCE TaskExecutor WITH running <- pc # "outside"

(* Batches, wakeups and polling keep the executor's order, and run each    *)
(* functor at most once ...                                                *)
ImplementsExecutor == Executor!SafeSpec

(* ... and, if poll times out in the end, the executor's liveness, for     *)
(* every functor however it was queued.                                    *)
ExecutesAll == WF_vars(PollTimeout) => Executor!Fairness

=============================================================================

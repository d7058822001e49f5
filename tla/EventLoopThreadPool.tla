------------------------ MODULE EventLoopThreadPool ------------------------
(***************************************************************************)
(* An EventLoopThreadPool, its EventLoopThreads and their Threads          *)
(* (src/src/EventLoopThreadPool.cc, EventLoopThread.cc, Thread.cc).  The   *)
(* owner (the thread of the base loop) starts the threads one after the    *)
(* other, hands out their loops round robin, and destroys the pool.        *)
(*                                                                         *)
(* Starting a thread passes through a semaphore (the thread has an id) and *)
(* a condition variable (its loop is published).  The loop itself is       *)
(* reduced to what EventLoop shows of it: loop() clears quit_ when it is   *)
(* entered, and returns when quit_ is set after that.  Loop 0 is the base  *)
(* loop, which is handed out when the pool has no thread.                  *)
(*                                                                         *)
(* The destructor reads loop_ without the mutex.  A use of an object after *)
(* its destruction, or of a null pointer, is recorded in `undefined`, and  *)
(* nothing is said of what follows.                                        *)
(***************************************************************************)
EXTENDS Integers

CONSTANTS
  MaxThreads,     \* bound on numThreads_
  MaxHandedOut    \* bound on the calls of getNextLoop that return one loop

ASSUME BoundsAssumption == MaxThreads \in Nat /\ MaxHandedOut \in Nat

Ids == 1 .. MaxThreads
BaseLoop == 0
Loops == {BaseLoop} \cup Ids

VARIABLES
  numThreads_,    \* set by setThreadNum before start()
  opc,            \* where the owner is
  current,        \* the EventLoopThread it is starting or destroying
  size,           \* loops_.size()
  next_,          \* index of the next loop, from 0
  handedOut,      \* history: calls of getNextLoop that returned each loop
  tpc,            \* where each thread is
  sem,            \* Thread::start's semaphore was posted
  mutex_,         \* holder of EventLoopThread::mutex_
  notified,       \* cond_ was notified
  loop_,          \* EventLoopThread::loop_ is not null
  loopExists,     \* the EventLoop on the thread's stack exists
  initialised,    \* history: ThreadInitCallback was called for the loop
  quit_,          \* the loop's quit_
  destroyed,      \* the EventLoopThread was destroyed
  userQuit,       \* history: the user called quit() on a loop of the pool
  undefined

poolVars == <<numThreads_, size, next_, handedOut>>
ownerVars == <<opc, current>>
loopVars == <<loop_, loopExists, initialised, quit_>>
syncVars == <<sem, mutex_, notified>>
vars == <<poolVars, ownerVars, tpc, loopVars, syncVars, destroyed, userQuit, undefined>>

Init ==
  /\ numThreads_ \in 0 .. MaxThreads
  /\ opc = "start" /\ current = 1 /\ size = 0 /\ next_ = 0
  /\ handedOut = [i \in Loops |-> 0]
  /\ tpc = [i \in Ids |-> "none"]
  /\ sem = [i \in Ids |-> FALSE]
  /\ mutex_ = [i \in Ids |-> "free"]
  /\ notified = [i \in Ids |-> FALSE]
  /\ loop_ = [i \in Ids |-> FALSE]
  /\ loopExists = [i \in Ids |-> FALSE]
  /\ initialised = [i \in Loops |-> FALSE]
  /\ quit_ = [i \in Ids |-> FALSE]
  /\ destroyed = [i \in Ids |-> FALSE]
  /\ userQuit = FALSE /\ undefined = FALSE

-----------------------------------------------------------------------------
(* EventLoopThreadPool::start and EventLoopThread::startLoop.              *)

(* start(): create the next EventLoopThread and its thread ...             *)
StartThread ==
  /\ opc = "start" /\ size < numThreads_
  /\ opc' = "semWait" /\ current' = size + 1
  /\ tpc' = [tpc EXCEPT ![current'] = "post"]
  /\ UNCHANGED <<poolVars, loopVars, syncVars, destroyed, userQuit, undefined>>

(* ... or, with all of them started, return.  Without threads the callback *)
(* is called for the base loop.                                            *)
StartReturns ==
  /\ opc = "start" /\ size = numThreads_
  /\ opc' = "running"
  /\ initialised' = [initialised EXCEPT ![BaseLoop] = numThreads_ = 0]
  /\ UNCHANGED <<poolVars, current, tpc, loop_, loopExists, quit_, syncVars, destroyed,
                 userQuit, undefined>>

(* Thread::start: sem_wait returns.                                        *)
SemWait ==
  /\ opc = "semWait" /\ sem[current]
  /\ opc' = "lock"
  /\ UNCHANGED <<poolVars, current, tpc, loopVars, syncVars, destroyed, userQuit, undefined>>

(* startLoop takes the mutex, first or again after cond_.wait.             *)
OwnerLocks ==
  /\ opc = "lock" /\ mutex_[current] = "free"
  /\ mutex_' = [mutex_ EXCEPT ![current] = "owner"]
  /\ opc' = "check"
  /\ UNCHANGED <<poolVars, current, tpc, loopVars, sem, notified, destroyed, userQuit,
                 undefined>>

(* The condition of startLoop's while.  Mutated form: no waiting.          *)
MustWaitNever == FALSE
MustWait == ~loop_[current]

(* Waiting releases the mutex; so does the end of the block, after which   *)
(* the loop is added to the vector.                                        *)
CheckLoop ==
  /\ opc = "check"
  /\ mutex_' = [mutex_ EXCEPT ![current] = "free"]
  /\ \/ /\ MustWait
        /\ opc' = "waiting" /\ notified' = [notified EXCEPT ![current] = FALSE]
        /\ UNCHANGED size
     \/ /\ ~MustWait
        /\ opc' = "start" /\ size' = current
        /\ UNCHANGED notified
  /\ UNCHANGED <<numThreads_, next_, handedOut, current, tpc, loopVars, sem, destroyed,
                 userQuit, undefined>>

(* cond_.wait returns because it was notified, or spuriously.              *)
CondWakes ==
  /\ opc = "waiting" /\ notified[current]
  /\ opc' = "lock"
  /\ UNCHANGED <<poolVars, current, tpc, loopVars, syncVars, destroyed, userQuit, undefined>>

CondWakesSpuriously ==
  /\ opc = "waiting" /\ ~notified[current]
  /\ opc' = "lock"
  /\ UNCHANGED <<poolVars, current, tpc, loopVars, syncVars, destroyed, userQuit, undefined>>

-----------------------------------------------------------------------------
(* EventLoopThreadPool::getNextLoop, and quit() by the user.               *)

(* The index after ++next_ and its wrapping.  Mutated form: it wraps one   *)
(* late.                                                                   *)
NextIndexWrapsLate(n) == IF n + 1 > size THEN 0 ELSE n + 1
NextIndex(n) == IF n + 1 >= size THEN 0 ELSE n + 1

GetNextLoop ==
  LET loop == IF size = 0 THEN BaseLoop ELSE next_ + 1
  IN  /\ opc = "running"
      /\ loop \in Loops /\ handedOut[loop] < MaxHandedOut
      /\ handedOut' = [handedOut EXCEPT ![loop] = @ + 1]
      /\ next_' = IF size = 0 THEN next_ ELSE NextIndex(next_)
      /\ UNCHANGED <<numThreads_, size, ownerVars, tpc, loopVars, syncVars, destroyed,
                     userQuit, undefined>>

UserQuits(i) ==
  /\ handedOut[i] > 0 /\ opc = "running" /\ loopExists[i]
  /\ quit_' = [quit_ EXCEPT ![i] = TRUE]
  /\ userQuit' = TRUE
  /\ UNCHANGED <<poolVars, ownerVars, tpc, loop_, loopExists, initialised, syncVars,
                 destroyed, undefined>>

-----------------------------------------------------------------------------
(* ~EventLoopThreadPool destroys the EventLoopThreads in order.            *)

BeginDestroy ==
  /\ opc = "running"
  /\ opc' = "destroy" /\ current' = 1
  /\ UNCHANGED <<poolVars, tpc, loopVars, syncVars, destroyed, userQuit, undefined>>

(* ~EventLoopThread: if (loop_ != nullptr), read without the mutex.  If it *)
(* is null, the object goes away and ~Thread detaches the thread.          *)
TestLoop ==
  /\ opc = "destroy" /\ current <= numThreads_
  /\ \/ /\ loop_[current]
        /\ opc' = "quit"
        /\ UNCHANGED <<current, destroyed, userQuit>>
     \/ /\ ~loop_[current]
        /\ destroyed' = [destroyed EXCEPT ![current] = TRUE]
        /\ current' = current + 1
        /\ UNCHANGED opc
  /\ UNCHANGED <<poolVars, tpc, loopVars, syncVars, userQuit, undefined>>

(* loop_->quit(): loop_ is read again, and may be null by now.             *)
QuitLoop ==
  /\ opc = "quit"
  /\ opc' = "join"
  /\ undefined' = ~loop_[current]
  /\ quit_' = [quit_ EXCEPT ![current] = TRUE]
  /\ UNCHANGED <<poolVars, current, tpc, loop_, loopExists, initialised, syncVars,
                 destroyed, userQuit>>

(* When thread_.join() returns.  Mutated form: at once.                    *)
CanJoinAtOnce(i) == TRUE
CanJoin(i) == tpc[i] = "done"

(* The thread was joined, and the EventLoopThread is destroyed.            *)
Join ==
  /\ opc = "join" /\ CanJoin(current)
  /\ destroyed' = [destroyed EXCEPT ![current] = TRUE]
  /\ current' = current + 1
  /\ opc' = "destroy"
  /\ UNCHANGED <<poolVars, tpc, loopVars, syncVars, userQuit, undefined>>

PoolDestroyed ==
  /\ opc = "destroy" /\ current > numThreads_
  /\ opc' = "done"
  /\ UNCHANGED <<poolVars, current, tpc, loopVars, syncVars, destroyed, userQuit, undefined>>

-----------------------------------------------------------------------------
(* EventLoopThread::threadFunc, run by the thread that Thread::start made. *)

ThreadAt(i, from, to) == tpc[i] = from /\ tpc' = [tpc EXCEPT ![i] = to]

(* The lambda of Thread::start: set tid_, sem_post.                        *)
PostSemaphore(i) ==
  /\ ThreadAt(i, "post", "construct")
  /\ sem' = [sem EXCEPT ![i] = TRUE]
  /\ UNCHANGED <<poolVars, ownerVars, loopVars, mutex_, notified, destroyed, userQuit,
                 undefined>>

ConstructLoop(i) ==
  /\ ThreadAt(i, "construct", "callback")
  /\ loopExists' = [loopExists EXCEPT ![i] = TRUE]
  /\ UNCHANGED <<poolVars, ownerVars, loop_, initialised, quit_, syncVars, destroyed,
                 userQuit, undefined>>

InitCallback(i) ==
  /\ ThreadAt(i, "callback", "lock")
  /\ initialised' = [initialised EXCEPT ![i] = TRUE]
  /\ UNCHANGED <<poolVars, ownerVars, loop_, loopExists, quit_, syncVars, destroyed,
                 userQuit, undefined>>

LockToPublish(i) ==
  /\ mutex_[i] = "free"
  /\ ThreadAt(i, "lock", "publish")
  /\ mutex_' = [mutex_ EXCEPT ![i] = "thread"]
  /\ UNCHANGED <<poolVars, ownerVars, loopVars, sem, notified, destroyed, userQuit, undefined>>

(* cond_.notify_one().  Mutated form: it is missing.                       *)
NotifyNot(i) == UNCHANGED notified
Notify(i) == notified' = [notified EXCEPT ![i] = TRUE]

(* loop_ = &loop, notify, and the end of the block.                        *)
Publish(i) ==
  /\ ThreadAt(i, "publish", "enter")
  /\ loop_' = [loop_ EXCEPT ![i] = TRUE]
  /\ mutex_' = [mutex_ EXCEPT ![i] = "free"]
  /\ Notify(i)
  /\ UNCHANGED <<poolVars, ownerVars, loopExists, initialised, quit_, sem, destroyed,
                 userQuit, undefined>>

(* loop.loop() is entered: quit_ = false.                                  *)
EnterLoop(i) ==
  /\ ThreadAt(i, "enter", "looping")
  /\ quit_' = [quit_ EXCEPT ![i] = FALSE]
  /\ UNCHANGED <<poolVars, ownerVars, loop_, loopExists, initialised, syncVars, destroyed,
                 userQuit, undefined>>

LoopReturns(i) ==
  /\ quit_[i]
  /\ ThreadAt(i, "looping", "lockEnd")
  /\ UNCHANGED <<poolVars, ownerVars, loopVars, syncVars, destroyed, userQuit, undefined>>

LockToClear(i) ==
  /\ mutex_[i] = "free"
  /\ ThreadAt(i, "lockEnd", "clear")
  /\ mutex_' = [mutex_ EXCEPT ![i] = "thread"]
  /\ undefined' = destroyed[i]
  /\ UNCHANGED <<poolVars, ownerVars, loopVars, sem, notified, destroyed, userQuit>>

(* loop_ = nullptr, still under the mutex ...                              *)
ClearLoop(i) ==
  /\ ThreadAt(i, "clear", "unlock")
  /\ loop_' = [loop_ EXCEPT ![i] = FALSE]
  /\ undefined' = destroyed[i]
  /\ UNCHANGED <<poolVars, ownerVars, loopExists, initialised, quit_, syncVars, destroyed,
                 userQuit>>

(* ... which is released when threadFunc returns; then the loop goes.      *)
ThreadFuncReturns(i) ==
  /\ ThreadAt(i, "unlock", "done")
  /\ mutex_' = [mutex_ EXCEPT ![i] = "free"]
  /\ loopExists' = [loopExists EXCEPT ![i] = FALSE]
  /\ undefined' = destroyed[i]
  /\ UNCHANGED <<poolVars, ownerVars, loop_, initialised, quit_, sem, notified, destroyed,
                 userQuit>>

-----------------------------------------------------------------------------
OwnerProceeds ==
  \/ StartThread \/ StartReturns \/ SemWait \/ OwnerLocks \/ CheckLoop \/ CondWakes
  \/ TestLoop \/ QuitLoop \/ Join \/ PoolDestroyed

ThreadProceeds(i) ==
  \/ PostSemaphore(i) \/ ConstructLoop(i) \/ InitCallback(i) \/ LockToPublish(i)
  \/ Publish(i) \/ EnterLoop(i) \/ LoopReturns(i) \/ LockToClear(i) \/ ClearLoop(i)
  \/ ThreadFuncReturns(i)

Next ==
  /\ ~undefined
  /\ \/ OwnerProceeds \/ CondWakesSpuriously
     \/ GetNextLoop \/ BeginDestroy
     \/ \E i \in Ids : ThreadProceeds(i) \/ UserQuits(i)

Spec == Init /\ [][Next]_vars

(* The owner and the threads are scheduled.  A thread that finds the mutex *)
(* free again and again gets it: spurious wakeups do not starve it.  The   *)
(* owner need not ever ask for a loop, quit one, or destroy the pool.      *)
FairSpec ==
  /\ Spec
  /\ WF_vars(~undefined /\ OwnerProceeds)
  /\ \A i \in Ids : SF_vars(~undefined /\ ThreadProceeds(i))

-----------------------------------------------------------------------------
(* Types; next_ stays an index of loops_, getNextLoop's only check of it.  *)
TypeOK ==
  /\ numThreads_ \in 0 .. MaxThreads
  /\ opc \in {"start", "semWait", "lock", "check", "waiting", "running",
              "destroy", "quit", "join", "done"}
  /\ current \in 1 .. MaxThreads + 1
  /\ size \in 0 .. numThreads_
  /\ next_ = 0 \/ next_ \in 0 .. size - 1
  /\ handedOut \in [Loops -> 0 .. MaxHandedOut]
  /\ tpc \in [Ids -> {"none", "post", "construct", "callback", "lock", "publish", "enter",
                      "looping", "lockEnd", "clear", "unlock", "done"}]
  /\ mutex_ \in [Ids -> {"free", "owner", "thread"}]
  /\ sem \in [Ids -> BOOLEAN] /\ notified \in [Ids -> BOOLEAN] /\ loop_ \in [Ids -> BOOLEAN]
  /\ loopExists \in [Ids -> BOOLEAN] /\ quit_ \in [Ids -> BOOLEAN]
  /\ destroyed \in [Ids -> BOOLEAN]
  /\ initialised \in [Loops -> BOOLEAN]
  /\ userQuit \in BOOLEAN /\ undefined \in BOOLEAN

(* Where the pool is not being destroyed.                                  *)
Using == {"start", "semWait", "lock", "check", "waiting", "running"}

(* startLoop and getNextLoop give out only loops whose init callback has   *)
(* returned and that live until the pool is destroyed, if the user quits   *)
(* none: what the wait loop of startLoop ("waits for threadInitCallback",  *)
(* EventLoopThread.cc:26) is for.                                          *)
LoopsReady ==
  /\ \A i \in 1 .. size : initialised[i] /\ (opc \in Using /\ ~userQuit => loopExists[i])
  /\ \A i \in Loops : handedOut[i] > 0 => initialised[i]

(* Round robin: no loop of the pool was given out twice as often as another*)
(* plus one, and the base loop only by a pool without threads.             *)
HandedOutEvenly ==
  /\ \A i, j \in 1 .. size : handedOut[i] - handedOut[j] <= 1
  /\ handedOut[BaseLoop] > 0 => numThreads_ = 0

(* What the server of the pool relies on.                                  *)
LoopsHandedOut == LoopsReady /\ HandedOutEvenly

(* Unless the user quits loops himself, ~EventLoopThread finds loop_ set,  *)
(* and no thread touches its EventLoopThread after the destructor.         *)
NoUseAfterDestruction == undefined => userQuit

(* start() returns: neither semaphore nor notification is missed.          *)
StartCompletes == <>(opc = "running")

(* Destroying a pool whose threads are all inside loop() terminates.       *)
DestroyCompletes ==
  (opc = "destroy" /\ current = 1 /\ ~userQuit /\ \A i \in 1 .. numThreads_ : tpc[i] = "looping")
    ~> opc = "done"

StartAndDestroyComplete == StartCompletes /\ DestroyCompletes

(* The pool's vector destroys its EventLoopThreads (the comment at         *)
(* EventLoopThreadPool.cc:19): the destructor of the pool returns.  It     *)
(* need not: quit() before the thread entered loop() is forgotten.         *)
DestructorReturns == opc = "destroy" /\ ~userQuit ~> opc = "done"

=============================================================================

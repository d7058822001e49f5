# Specifications of the muduo library in `src/`

The repository is a small reimplementation of the muduo network library: one
event loop per thread, non-blocking sockets behind epoll, TCP servers and
clients on top. This directory holds TLA+ models of its core, the
configurations with which TLC checks them, and TLAPS proofs.

## 1. The system

| part | source | state | operations |
|---|---|---|---|
| EventLoop | `EventLoop.cc` | `quit_`, `callingPendingFunctors_`, `pendingFunctors_` under `mutex_`, `activeChannels_`, the eventfd | `loop`, `quit`, `runInLoop`, `queueInLoop`, `wakeup`, `doPendingFunctors` |
| Channel, Poller, EPollPoller | `Channel.cc`, `EPollPoller.cc` | `events_`, `index_`, `tie_`; `channels_`, the event list; the kernel's interest list | `enable*`, `disable*`, `remove`, `handleEvent`, `poll` |
| TcpConnection | `TcpConnection.cc` | `stat_`, the output and input buffers, its channel and socket, the `shared_ptr`s that keep it alive | `send`, `shutdown`, `forceClose`, `connectEstablished`, `connectDestroyed`, the four event handlers |
| EventLoopThreadPool, EventLoopThread, Thread | files of the same names | `loop_` under `mutex_` and `cond_`, `next_`, the threads | `start`, `startLoop`, `threadFunc`, `getNextLoop`, the destructors |
| TcpServer, Acceptor | `TcpServer.cc`, `Acceptor.cc` | `connections_`, `nextConnId_`, the listening socket | `start`, `newConnection`, `removeConnection`, the destructor |
| Connector, TcpClient | `Connector.cc`, `TcpClient.cc` | `connect_`, `state_`, `channel_`; `connection_`, `retry_` | `start`, `stop`, `restart`, the handlers, `retry`; `connect`, `disconnect`, `newConnection`, `removeConnection` |
| TimerQueue, Timer, Timestamp | `TimerQueue.cc`, `Timer.h`, `Timestamp.h` | the ordered set `timers_`, the timerfd | `addTimer`, `handleRead`, `reset`, `addTime` |
| Buffer | `Buffer.h`, `Buffer.cc` | `readerIndex_`, `writerIndex_`, the vector | `append`, `retrieve`, `makeSpace`, `readFd` |
| Logger | `Logger.h`, `Logger.cc` | `logLevel_` | `setLogLevel`, `log` |
| Socket, InetAddress | files of the same names | an fd; an address | wrappers of system calls |

**How they interact.** Everything of a loop happens on its thread: `loop()`
polls, calls `handleEvent` of every active channel and then runs the functors
that were queued. Other threads reach a loop only by `queueInLoop` (a vector
under a mutex) followed by a write to the eventfd, and by `quit()`. Handlers
call the user's callbacks, which call back into the library. A connection
belongs to one loop, its server to another; closing it is a hand-shake of
functors between the two (`removeConnection`, `removeConnectionInLoop`,
`connectDestroyed`). Lifetimes are kept by `shared_ptr`s in maps, functors and
the tie guard of a channel, except where a functor holds a raw `this`.

**What is hard.** Wakeups written outside the mutex and lost or not; functors
queued by functors; three records of a channel's registration that must agree
across reuse of fds; writes split in two by a full socket, with a shutdown
waiting for the rest; state tested by one thread and changed by another before
it is acted on; objects that must outlive the functors, events and callbacks
that name them; start and destruction of threads. `PROJECT.json` lists these
hazards one by one, each at its line, with the properties that guard it.

## 2. Modules

```
TaskExecutor         abstract: an executor that runs tasks once, in queue order
EventLoop            the loop, its queue and its eventfd       implements TaskExecutor
EventLoopProofs      proofs about EventLoop
ChannelIndex         the life of a channel in its poller       used by the next and by TcpConnection
EPollPoller          channels, channels_, epoll, the event list
EPollPollerProofs    proofs about EPollPoller
ConnectionLifecycle  abstract: UP, messages, DOWN, gone
TcpConnection        one connection, its server and its users  implements ConnectionLifecycle
TcpConnectionProofs  proofs about TcpConnection
Connector            the state and the functions of a connector
TcpClient            a client, its connector and its loop      composes Connector
TcpClientProofs      proofs about TcpClient and its Connector
TimerQueue           timers, the timerfd and the clocks
TimerQueueProofs     proofs about TimerQueue
EventLoopThreadPool  starting, using and destroying the threads of a pool
EventLoopThreadPoolProofs
                     proofs about EventLoopThreadPool
TcpServer            a server, its acceptor, all its loops and connections
TcpServerProofs      proofs about TcpServer
ByteQueue            abstract: a FIFO of bytes
Buffer               the vector and its two indices            implements ByteQueue
BufferProofs         proofs about Buffer
MC*                  instances for TLC, where a .cfg cannot say it
```

A name with a trailing underscore is the member of that name. Actions carry the
name of the function whose whole body they are, or of the part of it between two
points at which another thread or the kernel can be seen to act. `pc` is the
place of the loop thread. An operator `XSomething` just before an operator `X`,
announced as its mutated form, is a version of it with a plausible bug, which
the property it is listed with in `PROJECT.json` must detect; nothing uses it.
Where a configuration names a conjunction (`LoopIsWoken`, `RecordsAgree`,
`SocketsOwned`, `HandShakeHolds`, ...), its parts are defined and explained before it.

**EventLoop.** A critical section of `mutex_` is one step; the write of the
eventfd is a step of its own (`waking[t]` holds between the two), as is each
handler and functor. User code (handlers, functors, the time outside `loop()`)
may queue, run inline and quit. `cold` records the functors that the loop's own
thread queues before it calls `loop()`: `queueInLoop` writes no wakeup for
them, so they wait for an event or for `kPollTimeMs`.

**EPollPoller.** The kernel's interest list is modelled with what `epoll_ctl`
does: an add of a registered fd fails, a change of an unregistered one fails, a
close forgets. The guards of `Create`, `RemoveChannel`, `Free` and `CloseFd`
state how the classes of the library use channels; they are listed at the head
of the module.

**TcpConnection.** The loop takes turns as in EventLoop: `Poll` and `Dispatch*`
are the events of the channel in the order of `handleEventWithGuard`,
`SwapFunctors` and `Run*` the queue. Messages are units that the socket accepts
a few at a time. `Alive` says whether a `shared_ptr` to the connection exists;
running a functor that holds a raw `this` when none does, or calling the close
callback of a server that is gone, sets `undefined` and ends the behaviour. A
call by another thread is split at its test of `stat_`, its assignment and its
queueing. The server's part is `RemoveConnectionInLoop` and `DestroyServer`.

**EventLoopThreadPool.** The owner and each thread are processes; every lock,
wait, notification and unprotected read of `loop_` is a step. Of EventLoop it
keeps only that `loop()` clears `quit_` when entered and returns when it is set.

**Connector, TcpClient.** Connector has the variables of a connector and, as
operators, what each of its functions does to them; TcpClient calls them from the
loop, from the user's code on the loop's thread and from another thread. A channel
is named by its socket. `connect()` is one step with three outcomes (proceeds,
fails and is retried, fails for good); the end of an attempt is an event with or
without `EPOLLERR`, handled by `DispatchError` and `DispatchWrite` one after the
other, between which another thread may call `stop()`. The connection that
results is only its socket and the ways it closes. `forceClose` is one step, as it is
when called on the loop's thread, and so each connection closes once; called from another
thread, the loop can close the connection between its test and its assignment, and the
second close would call `restart()` again (`TcpClient.cc:108-119`), another way to the
hazard at `Connector.cc:134`. `connect()` is called when no
earlier one is at work: the code has no guard against a second one, which frees
the channel of the first while it is in epoll (the hazard at `Connector.cc:134`).
`unsafeEnd` records that `~TcpClient` ran at a moment when a functor or a channel
holds a raw pointer to the connector that goes with it; only then can `undefined`
be reached.

**TcpServer.** Every loop goes from events to functors and back; of EventLoop it
keeps the queue, the batch, `quit_` and that `loop()` clears it. A connection is its
number, its state, its loop and whether its channel is registered; the functors
`connectEstablished`, `forceCloseInLoop`, `removeConnectionInLoop` and
`connectDestroyed` travel between its loop and the base loop. Its user calls `shutdown`
and `forceClose`, which make it `kDisconnecting`, in what runs on its loop; an event
closes it in each of its states but `kDisconnected`, `forceCloseInLoop` where the code's
test lets it. A connection so closes once. That is an assumption: called from another
thread, `forceClose` tests `stat_` and assigns it later, the loop may close the
connection in between, and it closes again (the hazard at `TcpConnection.cc:64`). A client that has connected waits until
`handleRead` accepts it; a connection holds a descriptor as long as the map or a
functor refers to it, and when there is none `accept` fails and the event stays.
The destructor is the loop over the map, then for each thread of the pool `quit` and
`join` (while which the thread goes on), then the acceptor. It runs on the base
loop's thread, before `loop()`, in a functor of the user or after `loop()`, not in a
connection's callback. `connectDestroyed` leaves a connection that is shutting down
`kDisconnecting` and does not tell its user, and a `forceCloseInLoop` behind it still
closes the connection. `unsafeEnd` records that the destructor began while the base loop
ran on and held a functor of the server, or another loop held a connection that could
still queue one, or the base loop one for which a `forceCloseInLoop` was waiting; only then is the raw `this` of a server that
is gone used (`undefined`). `Start` is a call on the base loop's thread,
`StartElsewhere` one on another, whose `listen` is a functor.

**Buffer.** A buffer is a record of its members; `append`, `retrieve`, `makeSpace`
and `readFd` are operators from buffer to buffer, with C++'s offsets. `std::copy` is
an assignment of all bytes at once, which is what it does where `MovesToFront` holds.
The history variable `last` names the operation and its bytes, so that an operation
of the abstract queue can be told from another with the same effect.

**TimerQueue.** The timerfd is the time until it fires, the wall clock a number
that a tick advances and `SetWall` sets; every place where the code reads a clock
is a step of its own. A timer is its address and is free again when `reset` has
deleted it (its fields are then forgotten, which keeps the states few). The
product in `addTime` wraps at the width of an int; `due` is the time the user
asked for, against which `NoTimerEarly` measures. Any handler of the loop may add
timers, also between poll's report of the timerfd and `handleRead`.

## 3. What TLC checks

| run | expects | what it shows |
|---|---|---|
| `eventloop` | pass | no functor or quit is left with a sleeping loop; the queue loses, repeats and reorders nothing; EventLoop implements TaskExecutor; prompt execution without any timeout, and of what was queued before `loop()` with it |
| `epollpoller_safety` | pass | index, map and kernel agree; no abort; no freed channel is handled |
| `epollpoller_noevents` | violation | a channel without events is added to epoll, against the comment at `EventLoop.cc:132` |
| `tcpconnection_lifecycle` | pass | callbacks follow ConnectionLifecycle; shutdown completes, a close is noticed and released |
| `tcpconnection_stream` | pass | the bytes written are the messages in order; shutdown waits for output; no message after DOWN |
| `tcpconnection_raw` | violation | the functor of a cross-thread `send` runs on a destroyed connection |
| `client` | pass | one activity, one channel and one owner of every socket at a time; a wanted connection is made in the end; `stop()` ends attempts and retries |
| `timerqueue` | pass | the timerfd is armed for the earliest timer; no timer runs early; every timer runs in the end, though the wall clock is set |
| `tcpserver` | pass | the hand-shake of every connection between two loops keeps it in one place and removes it once, however it closes; its user is told, unless it was shutting down when the server ended; waiting clients get a descriptor that a closed connection gave back; the ends after which the server may still be used are the three named by `unsafeEnd` |
| `buffer` | pass | Buffer implements ByteQueue; bytes move only to the front; the vector grows only when more than half of it is unread |
| `pool` | pass | start handshake, round robin, destruction |
| `pool_lostquit` | violation | a pool destroyed before its threads entered `loop()` hangs |

**Bounds, and why they are enough.** EventLoop: two callers and three functors,
so that a functor can be queued while a batch of another is being run and while
a third is queued by the batch itself. EPollPoller: three channels on two fds,
so that an fd is taken over from a channel that is removed but not freed while
another fd is in use; the event list starts at one (the code: 16) so that it
fills. TcpConnection: two messages of two units in the stream run, so that the
second message can overtake the rest of the first, with a high-water mark of
three that only the second crosses; one other thread, which races the calls that
user code makes on the loop itself; one forceClose; in the lifecycle run the
messages are one unit and the other thread only sends, since its shutdown and
forceClose do break the life cycle (the hazard at `TcpConnection.cc:64`). TcpClient:
three sockets, one more than a closing connection and a new attempt need; at most
one `stop()`, `connect()` and `forceClose` of the user wait in the queue at a
time. TimerQueue: a second
is one unit and an int has four values, so that a delay of two seconds overflows;
the clock starts at 3 and stops at 5, past times and 0 included; two timers, one
running or waiting while the other is added; the wall clock is set once. The
pool: two threads, two calls of `getNextLoop` per loop. TcpServer: two threads, so
that a thread goes on while the other is joined; three clients for two descriptors,
so that one waits, and the round robin wraps; one `forceCloseInLoop` of a connection in
its loop at a time, since of several only the first can find the connection up. Buffer: a first size and a reserve of
two bytes and an extrabuf of three, pieces up to five bytes, so that a piece is split
between vector and extrabuf at every place, and a vector of at most nine bytes.

**Deadlock** is checked where the system never stops (EventLoop, EPollPoller,
TimerQueue, Buffer). A connection, a client, a server and a pool end, and undefined
behaviour ends a behaviour of the model, so their configurations do not check it.

**Fairness.** Threads are scheduled, and callbacks and functors return (weak
fairness of the steps of a thread). `PromptSpec` of EventLoop assumes nothing of
poll but that it returns when the eventfd is readable; `ExecutesAll` takes as its
hypothesis that poll times out, since `loop()` always passes `kPollTimeMs`. For
TcpConnection epoll
is level-triggered: a socket that is readable, or writable again and again, is
reported again and again (strong fairness of `Poll` reporting it), a write to a
writable socket takes something, and a stream that ended is read to its end. For
TcpClient a retry timer fires, and while a connection is wanted attempts end, and
of attempts without end one proceeds, one is reported without an error and one
finds its socket connected; nothing is asked of the network after `stop()`, so
that `StopEnds` rests on the loop alone. For TcpServer the loops go round, the
listening socket is reported in every round while a client waits, and a connected
client closes in the end; that the destructor returns is not claimed there, because of
`pool_lostquit`. The
clocks run on, the monotonic one beyond the last modelled wall time. In
the pool a thread that finds a mutex free again and again gets it, so that
spurious wakeups starve nobody. Users need not call anything, and need not
destroy the pool.

## 4. What is proved

Each component has a module `...Proofs`. Its theorems hold for every value of the
constants that satisfies the assumptions of the modules: any number of threads,
functors, channels, fds, sockets, connections, messages, timers and bytes. Every safety
property of section 3 is a theorem: all invariants, and the action properties and the
safety part of the three refinements. No theorem rests on a bound of a run.

*EventLoop.* The type invariant contains `PhaseOK`, what each place of `loop()`
implies for the flag, the batch and the active list; it is what makes the wakeup
argument inductive: a functor pending and not cold means that the loop is
between poll and swap, or that somebody woke or is about to wake it, because
only `handleRead` clears the eventfd and only between poll and swap, and the
loop's own thread skips the wakeup only where `callingPendingFunctors_` is down,
which inside `loop()` is before the swap. From it follows `WakeupNeverLost`;
`QueueKept` and `ImplementsSafeExecutor` (the abstract executor's safety part, step
by step) need only the types.

*EPollPoller.* `MapMirrorsIndex` and `EpollMirrorsIndex` are not inductive
alone. The strengthening adds that at most one channel of an fd is not retired
and that a channel which is not at `kNew` is live, not retired and on an open
fd; then every `epoll_ctl` is one the kernel accepts (`RegistrationCorrect`), and
what poll returns is registered (`NoStaleChannel`).

*TimerQueue.* `TypeCorrect` carries the disjointness of the places of a timer.
`ArmedInTime` needs `ZeroArmed`: `reset` does not arm for a timer at 0, so a
callback's insertion of one must have left the timerfd armed. `NoTimerEarly`
needs that an expiration is never before the time asked for (`DueKept`, from the
lemma `AddTimeFits`) and that the batch of `handleRead` had expired at its `now`.

*Buffer.* The lemmas say of one buffer, apart from any behaviour, what an operation
does to its contents: `RetrieveTakes`, `AppendAdds`, `ReadFdAdds` (wherever `readv`
splits the bytes between the vector and extrabuf). `ByteQueue` is then implemented
step by step (`IsQueue`), since the type invariant alone, indices in order and the
reserve kept, is what the operations rely on. `GrowthBounded` follows from
the test of `makeSpace`: the vector grows only when the piece and the unread bytes
exceed it.

*TcpConnection.* Five theorems hold whatever the other threads call and whenever the
server ends. `Birth` says that `connectEstablished` is the first functor of a connection
and comes once; `TypeCorrect` needs it, since `ups` counts to one. `StreamIntact` follows
from `Stream`: written and buffered bytes together are the accepted ones, or a write has
failed for good and what is written is a prefix. `Writing` gives `WritingIffOutput` and
`ShutdownWaitsForOutput`. `Reading` (a channel that asks for reading, or has a readable
event in hand, belongs to a connection whose user was not told that it is down) gives
`NoMessageOnceDown`, although handlers run between poll's report and the read. It says
nothing of a connection that was destroyed untold: one that is `kDisconnecting` when
`connectDestroyed` removes its channel can be entered in epoll again by the `sendInLoop`
behind it (`TcpConnection.cc:224`, `EPollPoller.cc:64`), and a message may then come
(the hazard at `TcpConnection.cc:82`). `ChannelFollowsLife` and the refinement of `ConnectionLifecycle`
have the hypothesis `SendOnly`: other threads only call `send`, and the server outlives
the connection. Neither half can be dropped: `shutdown` of another thread tests `stat_`
and assigns it later (the hazard at `TcpConnection.cc:64`), which can undo a close; and
`connectDestroyed`, queued by a server that ends while the connection shuts down, does not
tell the user that it is down (the hazard at `TcpConnection.cc:82`). Under
it, `Told` ties `stat_` to what the user has been told, and `Owned` says who keeps the
object alive: the map until the close, then a functor until the channel is out of epoll.

*EventLoopThreadPool.* `OwnerPlace` and `ThreadPlace` say what the places of the owner and
of each thread imply for `loop_`, the vector and the loop objects. With them a loop in the
vector has been published under the mutex and initialised. `RoundRobin` (the loops before
`next_` are one ahead) is what makes the even use of the loops inductive. `EndsWhenTold`
says that without a `quit` of the user a loop ends only when the destructor told it to;
the unlocked reads of `loop_` in `~EventLoopThread` are safe for no other reason.

*TcpServer.* `HandShakeHolds` is about queues of functors of all loops at once. The
invariant describes them as lines, the batch followed by the queue of a loop. `Ordered`:
no functor is in a line twice, and `connectDestroyed` of a connection is behind its
`connectEstablished`. `Placed`: every functor is in the line of the loop it is for.
`Life` says what may wait for a connection in each state; while the server lives, `Served`
adds that the map and the functors account for it at exactly one place, up or shutting
down; after its end `Abandoned` says of a connection whose channel is registered that its
`connectDestroyed` waits, or the `removeConnectionInLoop` of a forced close behind the
first `connectDestroyed`, which entered the channel again, or that its loop has ended.
From these follow `RemovedOnce` and `GoneCleanly`: whichever way it takes,
`connectDestroyed` finds the channel in the poller. Both rest on the assumption of section
2 that a connection closes once. `LeftAlone` (after a safe end no functor of the server
waits, no other loop has a connection that can close, and a `forceCloseInLoop` left on the
base loop finds its connection closed) gives `NoUseAfterDestruction`. Of a state after undefined behaviour only `Threads` and `Placed`
are claimed.

*TcpClient.* `OneActivity` and `RegisteredIsCurrent` depend on the order of the functors.
`resetChannel` frees whatever is in `channel_`, so it must run before the next attempt. The
invariant says so by what a functor may have behind it (`Clash`): no second start behind a
start, no use of a connection behind its end, and no `resetChannel` behind a forced close
of the connection that the same attempt made, which may start the next one. `Resets` adds
that no event that could start an attempt is in hand while a `resetChannel` waits: none
waits when poll is called with a connection or a retry timer to report. `Owners` carries `NoSocketLeaked` with the converse, that a queued `connectDestroyed`
is for an open socket that is neither the connection's nor an attempt's. `Orphan` says what
a safe end of the client leaves: at most a timer, whose `connect_` is cleared, and a
`stopInLoop` that runs before the timer is reported, so that the timer still keeps the
connector alive. All of it but `NoUseAfterDestruction` also holds at the
unsafe ends.

**Only model-checked** is what the provers cannot do: the liveness properties
(`ExecutesAll`, `LoopResponds`, `ShutdownCompletes`, `CloseCompletes`, `TimersRun`,
`Reconnects`, `StopEnds`, `EventuallyAccepted`, `StartAndDestroyComplete`) and the fairness
of the abstract executor, since their proofs need ENABLED; and, by its nature, that the
three runs that expect a violation find one.

## 5. What is not modelled, and the plan

Not modelled:

- Logger: the level is one variable of all threads, set and read without order, and
  decides only the prefix of a line of output.
- Socket and InetAddress but for `accept`, the close of a descriptor and
  `shutdownWrite`: options and address formatting, on which nothing here depends.
- Failures that end the process (`socket`, `bind`, `eventfd`, `epoll_create`, an
  `EPOLL_CTL_ADD` that is refused, which is a property of EPollPoller).
- The example programs.
- The name of a connection: `newConnection` makes it from `nextConnId_`, so that it is
  as unique as the number that stands for it; `nextConnId_` is an int and two
  thousand million connections would be needed for it to wrap.

What is left: an abstract specification of a client (idle, delayed, connecting,
connected) and one of a server's view of a connection, which TcpClient and TcpServer
implement; their invariants, as proved now, are what the step-by-step proofs would need.

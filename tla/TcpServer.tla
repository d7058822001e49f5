----------------------------- MODULE TcpServer -----------------------------
(***************************************************************************)
(* A TcpServer with its Acceptor (src/src/TcpServer.cc, Acceptor.cc), its  *)
(* base loop, the loops of its pool and all its connections: how a         *)
(* connection comes into the world on one loop, lives on another, and is   *)
(* taken out of it by functors that pass between the two.                  *)
(*                                                                         *)
(* Loop 0 is the base loop, the others are the pool's.  Each loop handles  *)
(* events, takes its queue, and runs the batch (EventLoop has the wakeups  *)
(* that make it take a queue that is not empty).  A connection is its      *)
(* number, and of its life what the server has a part in (TcpConnection    *)
(* has the rest); it exists, and holds an fd, as long as connections_ or a *)
(* functor refers to it.                                                   *)
(*                                                                         *)
(* A connection closes by handleClose, called for an event or by           *)
(* forceCloseInLoop.  Its user calls shutdown() and forceClose() in what   *)
(* runs on the connection's loop, so that nothing comes between the test   *)
(* of stat_, its assignment and the queueing, and keeps no shared_ptr.     *)
(* From another thread handleClose can come in between, and a connection   *)
(* would close twice: none does here.  What is sent is in TcpConnection.   *)
(* loop() of the base loop is called once, and the user does not quit a    *)
(* loop of the pool.                                                       *)
(*                                                                         *)
(* The server is destroyed on the base loop's thread, before loop(), in a  *)
(* functor of the user or when loop() has returned, not in a callback of a *)
(* connection; and before its base loop.  Running a functor or a callback  *)
(* bound to the raw `this` of a server that is gone is recorded in         *)
(* `undefined`, and nothing is said of what follows.                       *)
(***************************************************************************)
EXTENDS Integers, SequencesExt

CONSTANTS
  MaxThreads,     \* bound on the threads of the pool
  MaxConns,       \* bound on the clients that ever connect
  MaxFds          \* the descriptors left for connections

ASSUME ServerAssumption == MaxThreads \in Nat /\ MaxConns \in Nat /\ MaxFds \in Nat \ {0}

Base == 0
Loops == 0 .. MaxThreads
Conns == 1 .. MaxConns

VARIABLES
  numThreads_,    \* set by setThreadNum before start()
  started_,
  listening,      \* the accept channel is in epoll
  arrived,        \* clients that have connected; those not accepted yet wait
  nextConnId_,
  next_,          \* the pool's index of the next loop
  connections_,
  server,         \* "alive", "quitting" or "joining" a thread in its destructor, "gone"
  joining,        \* the thread of the pool that the destructor is at
  unsafeEnd,      \* history: it was destroyed at an unfortunate moment
  stat_,          \* TcpConnection::stat_; "none" before it exists
  loop_,          \* TcpConnection::loop_
  inPoller,       \* connections whose channel is in channels_ of their loop's poller
  pc,             \* where each loop is
  quit_,
  pendingFunctors_,
  functors,       \* the batch being run
  undefined

serverVars == <<numThreads_, started_, arrived, nextConnId_, next_, connections_>>
endVars == <<server, joining, unsafeEnd>>
connVars == <<stat_, loop_, inPoller>>
vars == <<serverVars, listening, endVars, connVars, pc, quit_, pendingFunctors_, functors,
          undefined>>

Init ==
  /\ numThreads_ \in 0 .. MaxThreads
  /\ started_ = FALSE /\ listening = FALSE /\ arrived = 0
  /\ nextConnId_ = 1 /\ next_ = 0 /\ connections_ = {}
  /\ server = "alive" /\ joining = 1 /\ unsafeEnd = FALSE
  /\ stat_ = [c \in Conns |-> "none"]
  /\ loop_ = [c \in Conns |-> Base]
  /\ inPoller = {}
  /\ pc = [l \in Loops |-> IF l = Base THEN "before" ELSE "none"]
  /\ quit_ = [l \in Loops |-> FALSE]
  /\ pendingFunctors_ = [l \in Loops |-> <<>>] /\ functors = [l \in Loops |-> <<>>]
  /\ undefined = FALSE

-----------------------------------------------------------------------------
Functor(operation, c) == [op |-> operation, conn |-> c]
NoConn == 0

Queued(l, f) ==
  \/ \E i \in DOMAIN pendingFunctors_[l] : pendingFunctors_[l][i] = f
  \/ \E i \in DOMAIN functors[l] : functors[l][i] = f

(* A shared_ptr to the connection exists; its socket is open as long.      *)
Alive(c) ==
  \/ c \in connections_
  \/ \E l \in Loops, q \in {pendingFunctors_, functors} :
       \E i \in DOMAIN q[l] : q[l][i].conn = c
Open == {c \in Conns : Alive(c)}

(* queueInLoop, from any thread.                                           *)
QueueInLoop(l, f) == pendingFunctors_' = [pendingFunctors_ EXCEPT ![l] = Append(@, f)]

(* The base thread is in code of the user.                                 *)
UserCode == pc[Base] \in {"before", "functors", "returned"} /\ server \in {"alive", "gone"}

-----------------------------------------------------------------------------
(* TcpServer::start and Acceptor::listen.                                  *)

StartPool ==
  /\ server = "alive" /\ ~started_
  /\ started_' = TRUE
  /\ pc' = [l \in Loops |-> IF l \in 1 .. numThreads_ THEN "before" ELSE pc[l]]
  /\ UNCHANGED <<numThreads_, arrived, nextConnId_, next_, connections_, endVars, connVars,
                 quit_, functors, undefined>>

(* On the base loop's thread, listen() is called at once ...               *)
Start ==
  /\ StartPool /\ UserCode
  /\ listening' = TRUE
  /\ UNCHANGED pendingFunctors_

(* ... from another one it is queued, with a raw pointer to the acceptor.  *)
StartElsewhere ==
  /\ StartPool
  /\ QueueInLoop(Base, Functor("listen", NoConn))
  /\ UNCHANGED listening

ClientConnects ==
  /\ listening /\ arrived < MaxConns
  /\ arrived' = arrived + 1
  /\ UNCHANGED <<numThreads_, started_, nextConnId_, next_, connections_, listening, endVars,
                 connVars, pc, quit_, pendingFunctors_, functors, undefined>>

-----------------------------------------------------------------------------
(* Acceptor::handleRead; the listening socket is readable.                 *)

HandleRead == pc[Base] = "events" /\ listening /\ nextConnId_ <= arrived

(* accept fails for want of descriptors.  The event is left as it is, and  *)
(* comes again.  Mutated form: the acceptor gives up.                      *)
ListeningAfterErrorStopped == FALSE
ListeningAfterError == listening

AcceptFails ==
  /\ HandleRead /\ Cardinality(Open) >= MaxFds
  /\ listening' = ListeningAfterError
  /\ UNCHANGED <<serverVars, endVars, connVars, pc, quit_, pendingFunctors_, functors,
                 undefined>>

(* EventLoopThreadPool::getNextLoop.  Mutated form: the index wraps late.  *)
NextIndexLate == (next_ + 1) % (numThreads_ + 1)
NextIndex == (next_ + 1) % numThreads_

NextLoop == IF numThreads_ = 0 THEN Base ELSE next_ + 1

(* newConnection: the map first, then connectEstablished on the loop of    *)
(* the connection.                                                         *)
NewConnection ==
  LET c == nextConnId_
      l == NextLoop
  IN  /\ HandleRead /\ Cardinality(Open) < MaxFds
      /\ nextConnId_' = nextConnId_ + 1
      /\ next_' = IF numThreads_ = 0 THEN next_ ELSE NextIndex
      /\ connections_' = connections_ \cup {c}
      /\ loop_' = [loop_ EXCEPT ![c] = l]
      /\ IF l = Base
         THEN /\ stat_' = [stat_ EXCEPT ![c] = "kConnected"]
              /\ inPoller' = inPoller \cup {c}
              /\ UNCHANGED pendingFunctors_
         ELSE /\ stat_' = [stat_ EXCEPT ![c] = "kConnecting"]
              /\ QueueInLoop(l, Functor("connectEstablished", c))
              /\ UNCHANGED inPoller
      /\ UNCHANGED <<numThreads_, started_, arrived, listening, endVars, pc, quit_, functors,
                     undefined>>

-----------------------------------------------------------------------------
(* The end of a connection.                                                *)

(* The states that a connection is closed from.  Mutated form: forceClose  *)
(* and forceCloseInLoop do not test for them.                              *)
UpUntested(c) == TRUE
Up(c) == stat_[c] \in {"kConnected", "kDisconnecting"}

(* removeConnectionInLoop.                                                 *)
RemoveConnectionInLoop(c) ==
  /\ connections_' = connections_ \ {c}
  /\ QueueInLoop(loop_[c], Functor("connectDestroyed", c))

Proceeds(l) == l = Base => server \in {"alive", "gone"}

(* What the user calls on the connection's loop.  Of the functors that     *)
(* forceClose queues only the first can find the connection up; a call     *)
(* while one waits is left out, which bounds them.                         *)
UserOf(c) == pc[loop_[c]] \in {"events", "functors"} /\ Proceeds(loop_[c]) /\ Alive(c)

Shutdown(c) ==
  /\ UserOf(c)
  /\ stat_[c] = "kConnected"
  /\ stat_' = [stat_ EXCEPT ![c] = "kDisconnecting"]
  /\ UNCHANGED <<serverVars, listening, endVars, loop_, inPoller, pc, quit_, pendingFunctors_,
                 functors, undefined>>

ForceClose(c) ==
  /\ UserOf(c) /\ ~Queued(loop_[c], Functor("forceCloseInLoop", c))
  /\ Up(c)
  /\ stat_' = [stat_ EXCEPT ![c] = "kDisconnecting"]
  /\ QueueInLoop(loop_[c], Functor("forceCloseInLoop", c))
  /\ UNCHANGED <<serverVars, listening, endVars, loop_, inPoller, pc, quit_, functors, undefined>>

(* handleClose: disableAll keeps the channel in channels_, and enters it   *)
(* again when it was removed; the user is told; and closeCallback_ calls   *)
(* removeConnection of the server.                                         *)
Close(c) ==
  /\ stat_' = [stat_ EXCEPT ![c] = "kDisconnected"]
  /\ inPoller' = inPoller \cup {c}
  /\ \/ loop_[c] = Base /\ RemoveConnectionInLoop(c)
     \/ /\ loop_[c] # Base
        /\ QueueInLoop(Base, Functor("removeConnectionInLoop", c))
        /\ UNCHANGED connections_
  /\ undefined' = (server = "gone")
  /\ UNCHANGED <<numThreads_, started_, arrived, nextConnId_, next_, listening, endVars, loop_,
                 pc, quit_>>

(* For an event.  A channel that disableAll has had asks for none.         *)
HandleClose(c) ==
  /\ pc[loop_[c]] = "events"
  /\ c \in inPoller /\ stat_[c] # "kDisconnected"
  /\ Close(c)
  /\ UNCHANGED functors

-----------------------------------------------------------------------------
(* A round of a loop, after its events.                                    *)

(* loop() is called: by the user on the base loop, by threadFunc on the    *)
(* others.  A quit() that came before is forgotten.                        *)
EnterLoop(l) ==
  /\ pc[l] = "before" /\ Proceeds(l)
  /\ pc' = [pc EXCEPT ![l] = "events"]
  /\ quit_' = [quit_ EXCEPT ![l] = FALSE]
  /\ UNCHANGED <<serverVars, listening, endVars, connVars, pendingFunctors_, functors,
                 undefined>>

SwapFunctors(l) ==
  /\ pc[l] = "events"
  /\ pc' = [pc EXCEPT ![l] = "functors"]
  /\ functors' = [functors EXCEPT ![l] = pendingFunctors_[l]]
  /\ pendingFunctors_' = [pendingFunctors_ EXCEPT ![l] = <<>>]
  /\ UNCHANGED <<serverVars, listening, endVars, connVars, quit_, undefined>>

NextFunctor(l, operation) ==
  /\ pc[l] = "functors" /\ Proceeds(l)
  /\ functors[l] # <<>> /\ Head(functors[l]).op = operation
  /\ functors' = [functors EXCEPT ![l] = Tail(@)]

RunListen ==
  /\ NextFunctor(Base, "listen")
  /\ listening' = TRUE
  /\ undefined' = (server = "gone")
  /\ UNCHANGED <<serverVars, endVars, connVars, pc, quit_, pendingFunctors_>>

RunConnectEstablished(l) ==
  LET c == Head(functors[l]).conn
  IN  /\ NextFunctor(l, "connectEstablished")
      /\ stat_' = [stat_ EXCEPT ![c] = "kConnected"]
      /\ inPoller' = inPoller \cup {c}
      /\ UNCHANGED <<serverVars, listening, endVars, loop_, pc, quit_, pendingFunctors_,
                     undefined>>

RunForceCloseInLoop(l) ==
  LET c == Head(functors[l]).conn
  IN  /\ NextFunctor(l, "forceCloseInLoop")
      /\ \/ Up(c) /\ Close(c)
         \/ /\ ~Up(c)
            /\ UNCHANGED <<serverVars, listening, endVars, connVars, pc, quit_,
                           pendingFunctors_, undefined>>

RunRemoveConnectionInLoop ==
  LET c == Head(functors[Base]).conn
  IN  /\ NextFunctor(Base, "removeConnectionInLoop")
      /\ RemoveConnectionInLoop(c)
      /\ undefined' = (server = "gone")
      /\ UNCHANGED <<numThreads_, started_, arrived, nextConnId_, next_, listening, endVars,
                     connVars, pc, quit_>>

(* connectDestroyed tells the user of a connection that is kConnected that *)
(* it is down, and removes the channel.  One that is shutting down stays   *)
(* kDisconnecting, and nobody is told.                                     *)
RunConnectDestroyed(l) ==
  LET c == Head(functors[l]).conn
  IN  /\ NextFunctor(l, "connectDestroyed")
      /\ stat_' = [stat_ EXCEPT ![c] = IF @ = "kConnected" THEN "kDisconnected" ELSE @]
      /\ inPoller' = inPoller \ {c}
      /\ UNCHANGED <<serverVars, listening, endVars, loop_, pc, quit_, pendingFunctors_,
                     undefined>>

(* while (!quit_).  The EventLoop of a thread goes when its loop() returns,*)
(* and with it the functors that nobody ran.                               *)
EndBatch(l) ==
  /\ pc[l] = "functors" /\ functors[l] = <<>> /\ Proceeds(l)
  /\ pc' = [pc EXCEPT ![l] = IF quit_[l] THEN "returned" ELSE "events"]
  /\ pendingFunctors_' =
       IF quit_[l] /\ l # Base THEN [pendingFunctors_ EXCEPT ![l] = <<>>] ELSE pendingFunctors_
  /\ UNCHANGED <<serverVars, listening, endVars, connVars, quit_, functors, undefined>>

(* The user quits the base loop, on any thread.                            *)
QuitBase ==
  /\ pc[Base] \in {"before", "events", "functors"}
  /\ quit_' = [quit_ EXCEPT ![Base] = TRUE]
  /\ UNCHANGED <<serverVars, listening, endVars, connVars, pc, pendingFunctors_, functors,
                 undefined>>

-----------------------------------------------------------------------------
(* ~TcpServer.                                                             *)

(* The body destroys every connection on its loop.  Mutated form: it       *)
(* leaves them to the map's destructor.                                    *)
DestroyedByServerNone(l) == {}
DestroyedByServer(l) == {c \in connections_ : loop_[c] = l}

DestroyAll(S) ==
  [i \in 1 .. Cardinality(S) |-> Functor("connectDestroyed", SetToSeq(S)[i])]

(* The end is safe when the base loop does not run any more, or has no     *)
(* functor that calls the server, and no connection that is left, on       *)
(* another loop or to be closed by force, can queue or make such a call.   *)
SafeEnd ==
  \/ pc[Base] = "returned"
  \/ /\ ~Queued(Base, Functor("listen", NoConn))
     /\ \A c \in Conns : ~Queued(Base, Functor("removeConnectionInLoop", c))
     /\ \A c \in connections_ :
          loop_[c] = Base /\ ~Queued(Base, Functor("forceCloseInLoop", c))

BeginDestroy ==
  /\ server = "alive" /\ UserCode
  /\ server' = "quitting"
  /\ unsafeEnd' = ~SafeEnd
  /\ stat_' = [c \in Conns |-> IF c \in DestroyedByServer(Base) /\ stat_[c] = "kConnected"
                               THEN "kDisconnected" ELSE stat_[c]]
  /\ inPoller' = inPoller \ DestroyedByServer(Base)
  /\ pendingFunctors_' = [l \in Loops |->
       IF l = Base THEN pendingFunctors_[l]
                   ELSE pendingFunctors_[l] \o DestroyAll(DestroyedByServer(l))]
  /\ connections_' = {}
  /\ UNCHANGED <<numThreads_, started_, arrived, nextConnId_, next_, listening, joining, loop_,
                 pc, quit_, functors, undefined>>

(* Then the members: the pool quits its threads and joins them ...         *)
QuitThread ==
  /\ server = "quitting" /\ started_ /\ joining <= numThreads_
  /\ server' = "joining"
  /\ quit_' = [quit_ EXCEPT ![joining] = TRUE]
  /\ UNCHANGED <<serverVars, listening, joining, unsafeEnd, connVars, pc, pendingFunctors_,
                 functors, undefined>>

JoinThread ==
  /\ server = "joining" /\ pc[joining] = "returned"
  /\ server' = "quitting" /\ joining' = joining + 1
  /\ UNCHANGED <<serverVars, listening, unsafeEnd, connVars, pc, quit_, pendingFunctors_,
                 functors, undefined>>

(* ... and the acceptor removes its channel and closes the socket.         *)
(* Mutated form: the threads are not waited for.                           *)
ThreadsJoinedNot == TRUE
ThreadsJoined == started_ => joining > numThreads_

EndDestroy ==
  /\ server = "quitting" /\ ThreadsJoined
  /\ server' = "gone"
  /\ listening' = FALSE
  /\ UNCHANGED <<serverVars, joining, unsafeEnd, connVars, pc, quit_, pendingFunctors_,
                 functors, undefined>>

(* ~EventLoop of the base loop.                                            *)
DestroyBaseLoop ==
  /\ server = "gone" /\ pc[Base] = "returned"
  /\ pc' = [pc EXCEPT ![Base] = "destroyed"]
  /\ pendingFunctors_' = [pendingFunctors_ EXCEPT ![Base] = <<>>]
  /\ UNCHANGED <<serverVars, listening, endVars, connVars, quit_, functors, undefined>>

-----------------------------------------------------------------------------
RunFunctor(l) == RunConnectEstablished(l) \/ RunForceCloseInLoop(l) \/ RunConnectDestroyed(l)

Round(l) == SwapFunctors(l) \/ RunFunctor(l) \/ EndBatch(l)

BaseRound == Round(Base) \/ RunListen \/ RunRemoveConnectionInLoop

Destructor == QuitThread \/ JoinThread \/ EndDestroy

User == Start \/ StartElsewhere \/ EnterLoop(Base) \/ QuitBase \/ BeginDestroy \/ DestroyBaseLoop

Environment == ClientConnects \/ \E c \in Conns : HandleClose(c) \/ Shutdown(c) \/ ForceClose(c)

Next ==
  /\ ~undefined
  /\ \/ User \/ Environment \/ AcceptFails \/ NewConnection
     \/ BaseRound \/ Destructor
     \/ \E l \in Loops \ {Base} : EnterLoop(l) \/ Round(l)

Spec == Init /\ [][Next]_vars

(* Loops go round.  The listening socket is reported again while a client  *)
(* waits, and accepted when there is a descriptor; when there is none, a   *)
(* client that is connected closes in the end.  Nobody need call anything. *)
FairSpec ==
  /\ Spec
  /\ WF_vars(~undefined /\ (BaseRound \/ Destructor))
  /\ \A l \in Loops \ {Base} : WF_vars(~undefined /\ (EnterLoop(l) \/ Round(l)))
  /\ SF_vars(~undefined /\ NewConnection)
  /\ \A c \in Conns : SF_vars(~undefined /\ HandleClose(c))

-----------------------------------------------------------------------------
FunctorType ==
  [op : {"listen", "connectEstablished", "forceCloseInLoop", "removeConnectionInLoop",
         "connectDestroyed"},
   conn : {NoConn} \cup Conns]

TypeOK ==
  /\ numThreads_ \in 0 .. MaxThreads
  /\ started_ \in BOOLEAN /\ listening \in BOOLEAN
  /\ unsafeEnd \in BOOLEAN /\ undefined \in BOOLEAN
  /\ arrived \in 0 .. MaxConns /\ nextConnId_ \in 1 .. arrived + 1
  /\ next_ = 0 \/ next_ \in 0 .. numThreads_ - 1
  /\ connections_ \subseteq Conns /\ inPoller \subseteq Conns
  /\ server \in {"alive", "quitting", "joining", "gone"} /\ joining \in 1 .. MaxThreads + 1
  /\ stat_ \in [Conns -> {"none", "kConnecting", "kConnected", "kDisconnecting", "kDisconnected"}]
  /\ loop_ \in [Conns -> Loops]
  /\ pc \in [Loops -> {"none", "before", "events", "functors", "returned", "destroyed"}]
  /\ quit_ \in [Loops -> BOOLEAN]
  /\ pendingFunctors_ \in [Loops -> Seq(FunctorType)] /\ functors \in [Loops -> Seq(FunctorType)]

(* While the server lives, a connection is in the map until its removal is *)
(* run, and it is always in one place on its way: a functor is in flight   *)
(* for it exactly while it is established, removed or destroyed.           *)
Ops(c) == {op \in {"connectEstablished", "removeConnectionInLoop", "connectDestroyed"} :
             \E l \in Loops : Queued(l, Functor(op, c))}
Accounted ==
  server = "alive" /\ ~undefined => \A c \in 1 .. nextConnId_ - 1 :
    /\ stat_[c] = "kConnecting" => c \in connections_ /\ Ops(c) = {"connectEstablished"}
    /\ Up(c) => c \in connections_ /\ Ops(c) = {} /\ c \in inPoller
    /\ stat_[c] = "kDisconnected" =>
         Ops(c) = IF c \in connections_ THEN {"removeConnectionInLoop"}
                  ELSE IF c \in inPoller THEN {"connectDestroyed"} ELSE {}

(* connectDestroyed finds the channel in the poller: it is not run twice,  *)
(* not by the server's destructor after the removal, and not before        *)
(* connectEstablished.                                                     *)
RemovedOnce ==
  \A l \in Loops : functors[l] # <<>> /\ Head(functors[l]).op = "connectDestroyed"
                     => Head(functors[l]).conn \in inPoller

(* The two say that the functors of a connection never go wrong, before    *)
(* and after the server's end, whether it closes for an event, by force,   *)
(* by both, or in neither way.                                             *)
HandShakeHolds == Accounted /\ RemovedOnce

(* The channel of a connection that goes is out of its poller, and its     *)
(* user knows that it is down, unless it was shutting down when the server *)
(* ended: then nobody is told.  Nor is anybody when its loop ended first:  *)
(* a loop that quits drops the connectDestroyed that is queued to it.      *)
GoneCleanly ==
  \A c \in 1 .. nextConnId_ - 1 :
    \/ Alive(c) \/ pc[loop_[c]] \in {"returned", "destroyed"}
    \/ /\ c \notin inPoller
       /\ stat_[c] = "kDisconnected" \/ (stat_[c] = "kDisconnecting" /\ server # "alive")

(* The server is not used after its end, unless it ended while its base    *)
(* loop ran on and had a functor for it, a connection of another loop was  *)
(* left, or one of the base loop that forceClose had been called for.      *)
NoUseAfterDestruction == undefined => unsafeEnd

(* A client that has connected is accepted in the end, though descriptors  *)
(* run out, unless the server or its base loop ends.                       *)
Serving == server = "alive" /\ ~quit_[Base] /\ ~undefined
EventuallyAccepted ==
  \A c \in Conns : arrived >= c /\ pc[Base] # "before" ~> nextConnId_ > c \/ ~Serving

=============================================================================

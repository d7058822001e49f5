---------------------------- MODULE TcpConnection ----------------------------
(***************************************************************************)
(* One TcpConnection (src/src/TcpConnection.cc): its state machine, its    *)
(* output buffer, its channel and its lifetime, on the loop that owns it,  *)
(* with the server that created it (TcpServer.cc) and other threads that   *)
(* hold a TcpConnectionPtr.                                                *)
(*                                                                         *)
(* The loop thread takes turns as in EventLoop: it handles the events of   *)
(* the connection's channel, then runs the batch of queued functors.  User *)
(* callbacks run in the middle of both and may call send, shutdown and     *)
(* forceClose.  Other threads call them too: each call reads stat_, may    *)
(* write it, and queues a functor, in that order and not atomically.       *)
(*                                                                         *)
(* Ownership.  The object lives while a shared_ptr to it exists: in the    *)
(* server's map, with a caller, in a queued functor that was bound with    *)
(* one, in the batch being run, or in Channel's tie guard.  The functors   *)
(* of send and shutdown hold only a raw `this`.  Running one of them, or   *)
(* the close callback, on a destroyed object is undefined behaviour: the   *)
(* model records it in `undefined` and stops.                              *)
(*                                                                         *)
(* What is abstracted.  A message is MessageLength units.  The payload of  *)
(* a send from another thread is read through a pointer into the caller's  *)
(* string when the functor runs, when the string may be gone: it is then   *)
(* the message or Garbage.  The channel's registration follows             *)
(* ChannelIndex (EPollPoller proves that the kernel agrees with it).  The  *)
(* writeComplete and high-water callbacks are set.  The program ignores    *)
(* SIGPIPE, so that a write to a closed socket returns EPIPE.  The input   *)
(* buffer is not modelled, nor is memory for the queue: queueInLoop's      *)
(* wakeup is EventLoop's business.                                         *)
(***************************************************************************)
EXTENDS ChannelIndex, Naturals, Sequences

CONSTANTS
  Callers,          \* threads other than the loop's that get a TcpConnectionPtr
  CallerOps,        \* what they call: subset of {"send", "shutdown", "forceClose"}
  Messages,         \* each is sent at most once
  Garbage,          \* what a dangling payload pointer reads
  MessageLength,    \* units per message
  HighWaterMark,    \* highWaterMark_, in units
  MaxForceCloses,   \* bound on the calls of forceClose
  ServerMayEnd      \* the TcpServer may be destroyed while the connection exists

ASSUME OpsAssumption == CallerOps \subseteq {"send", "shutdown", "forceClose"}
ASSUME SizesAssumption ==
  MessageLength \in Nat \ {0} /\ HighWaterMark \in Nat /\ MaxForceCloses \in Nat
ASSUME ServerAssumption == ServerMayEnd \in BOOLEAN
ASSUME GarbageAssumption == Garbage \notin Messages

VARIABLES
  \* the object
  stat_, events_, index_, outputBuffer_,
  \* the socket and its peer
  wrClosed,         \* shutdownWrite was called
  peer,             \* "open", "eof" (it shut its sending side) or "dead" (reset)
  written,          \* history: the units the kernel accepted
  \* the loop thread
  pc, ret,          \* where it is; where the close callback returns to
  revents,          \* events of the current handleEvent not looked at yet
  pendingFunctors_, functors,
  batchHolds,       \* the batch being run contains a shared_ptr to the connection
  \* the server
  inMap,            \* connections_ holds the connection
  removing,         \* removeConnectionInLoop functors queued on the server's loop
  serverAlive,
  \* the other threads
  cpc,              \* cpc[t]: where t is in a call
  \* histories and bounds
  unsent, accepted, lost, ups, downs, forceCloses, undefined

objectVars == <<stat_, events_, index_, outputBuffer_>>
socketVars == <<wrClosed, peer, written>>
loopVars == <<pc, ret, revents, functors, batchHolds>>
serverVars == <<inMap, removing, serverAlive>>
dataVars == <<outputBuffer_, written, accepted, lost>>
historyVars == <<unsent, accepted, lost, ups, downs, forceCloses, undefined>>
vars == <<objectVars, socketVars, loopVars, pendingFunctors_, serverVars, cpc, historyVars>>

-----------------------------------------------------------------------------
(* Functors.  Only a sendInLoop carries a message.                         *)

NoMessage == "none"
Functor(op) == [op |-> op, msg |-> NoMessage]

IsRaw(f) == f.op \in {"sendInLoop", "shutdownInLoop"}
HoldsConnection(fs) == \E i \in DOMAIN fs : ~IsRaw(fs[i])

Data(m) == [i \in 1 .. MessageLength |-> <<m, i>>]

(* pc while the user's code runs on the loop thread.                       *)
UserCode == {"up", "message", "downClose", "downDestroy", "userFunctor"}

(* Channel::handleEvent holds the shared_ptr locked from tie_.             *)
Guarded == pc \in {"dispatch", "message"} \/ (pc = "downClose" /\ ret = "dispatch")

(* Some shared_ptr to the connection exists.                               *)
Alive ==
  \/ inMap
  \/ removing > 0
  \/ batchHolds
  \/ Guarded
  \/ HoldsConnection(pendingFunctors_)
  \/ \E t \in Callers : cpc[t] \notin {"none", "released"}

(* TcpServer::newConnection has made the connection, put it in the map and *)
(* queued connectEstablished.                                              *)
Init ==
  /\ stat_ = "kConnecting" /\ events_ = {} /\ index_ = kNew /\ outputBuffer_ = <<>>
  /\ wrClosed = FALSE /\ peer = "open" /\ written = <<>>
  /\ pc = "poll" /\ ret = "functors" /\ revents = {} /\ functors = <<>>
  /\ batchHolds = FALSE
  /\ pendingFunctors_ = <<Functor("connectEstablished")>>
  /\ inMap = TRUE /\ removing = 0 /\ serverAlive = TRUE
  /\ cpc = [t \in Callers |-> "none"]
  /\ unsent = Messages /\ accepted = <<>> /\ lost = FALSE
  /\ ups = 0 /\ downs = 0 /\ forceCloses = 0 /\ undefined = FALSE

-----------------------------------------------------------------------------
(* Pieces of the handlers.                                                 *)

(* Channel::update with the new events_.                                   *)
UpdateChannel(ev) ==
  /\ events_' = ev
  /\ index_' = IndexAfterUpdate(index_, ev)

(* Channel::remove.  Mutated form: it is not called.                       *)
RemoveChannelNot == UNCHANGED index_
RemoveChannel == index_' = kNew

QueueInLoop(f) == pendingFunctors_' = Append(pendingFunctors_, f)

IsWriting == "write" \in events_

(* The socket takes no more data: we shut it, or the peer reset it.        *)
Broken == wrClosed \/ peer = "dead"

(* shutdownInLoop.  Mutated form: it does not look at isWriting().         *)
ShutdownInLoopAlways == wrClosed' = TRUE
ShutdownInLoop == wrClosed' = (wrClosed \/ ~IsWriting)

(* sendInLoop may write at once only what nothing queued is ahead of.      *)
(* Mutated form: the output buffer is not looked at.                       *)
MayWriteDirectlyAlways == TRUE
MayWriteDirectly == ~IsWriting /\ outputBuffer_ = <<>>

(* The rest of a message is buffered and the channel asks for writability. *)
(* Mutated form: it does not.                                              *)
BufferRestWithoutWriting(rest) ==
  /\ outputBuffer_' = outputBuffer_ \o rest
  /\ UNCHANGED <<events_, index_, pendingFunctors_>>
BufferRest(rest) ==
  /\ outputBuffer_' = outputBuffer_ \o rest
  /\ IF Len(outputBuffer_) < HighWaterMark /\ Len(outputBuffer_ \o rest) >= HighWaterMark
     THEN QueueInLoop(Functor("highWaterMark"))
     ELSE UNCHANGED pendingFunctors_
  /\ IF IsWriting THEN UNCHANGED <<events_, index_>>
                  ELSE UpdateChannel(events_ \cup {"write"})

(* sendInLoop of the units d: the socket takes n of them (none on EAGAIN), *)
(* or fails for good and the message is dropped.                           *)
SendInLoop(d) ==
  \/ /\ stat_ = "kDisconnected"
     /\ UNCHANGED <<dataVars, events_, index_, pendingFunctors_>>
  \/ /\ stat_ # "kDisconnected"
     /\ MayWriteDirectly /\ Broken
     /\ lost' = TRUE
     /\ accepted' = accepted \o d
     /\ UNCHANGED <<outputBuffer_, written, events_, index_, pendingFunctors_>>
  \/ /\ stat_ # "kDisconnected"
     /\ \E n \in 0 .. Len(d) :
          /\ n > 0 => MayWriteDirectly
          /\ MayWriteDirectly => ~Broken
          /\ written' = written \o SubSeq(d, 1, n)
          /\ IF n = Len(d)
             THEN /\ QueueInLoop(Functor("writeComplete"))
                  /\ UNCHANGED <<outputBuffer_, events_, index_>>
             ELSE BufferRest(SubSeq(d, n + 1, Len(d)))
     /\ accepted' = accepted \o d
     /\ UNCHANGED lost

(* The connection callback is about to run with connected() false.  downs  *)
(* counts no further than 2.                                               *)
CountDown == downs' = IF downs < 2 THEN downs + 1 ELSE 2

(* handleClose up to the connection callback.  Mutated form: the channel   *)
(* stays enabled.                                                          *)
HandleCloseKeepsEvents(returnTo) ==
  /\ stat_' = "kDisconnected"
  /\ CountDown
  /\ pc' = "downClose"
  /\ ret' = returnTo
  /\ UNCHANGED <<events_, index_>>
HandleClose(returnTo) ==
  /\ stat_' = "kDisconnected"
  /\ UpdateChannel({})
  /\ CountDown
  /\ pc' = "downClose"
  /\ ret' = returnTo

-----------------------------------------------------------------------------
(* Events of the channel, in the order of Channel::handleEventWithGuard.   *)

HangsUp == peer = "dead" \/ (peer = "eof" /\ wrClosed)

(* poll reports the channel.  A hangup and an error are reported unasked;  *)
(* an end of file or a reset makes the socket readable.                    *)
Poll ==
  /\ pc = "poll" /\ index_ = kAdded /\ Alive
  /\ \E rev \in (SUBSET {"in", "out", "hup", "err"}) \ {{}} :
       /\ "in" \in rev => "read" \in events_
       /\ "out" \in rev => "write" \in events_
       /\ "hup" \in rev <=> HangsUp
       /\ "err" \in rev => peer = "dead"
       /\ peer # "open" /\ "read" \in events_ => "in" \in rev
       /\ revents' = rev
  /\ pc' = "dispatch"
  /\ UNCHANGED <<objectVars, socketVars, ret, functors, batchHolds, pendingFunctors_,
                 serverVars, cpc, historyVars>>

(* EPOLLHUP: handled only without EPOLLIN.                                 *)
DispatchHangup ==
  /\ pc = "dispatch" /\ "hup" \in revents
  /\ revents' = revents \ {"hup"}
  /\ IF "in" \in revents
     THEN UNCHANGED <<stat_, events_, index_, downs, pc, ret>>
     ELSE HandleClose("dispatch")
  /\ UNCHANGED <<outputBuffer_, socketVars, functors, batchHolds, pendingFunctors_,
                 serverVars, cpc, unsent, accepted, lost, ups, forceCloses, undefined>>

(* EPOLLERR: handleError logs SO_ERROR.                                    *)
DispatchError ==
  /\ pc = "dispatch" /\ "hup" \notin revents /\ "err" \in revents
  /\ revents' = revents \ {"err"}
  /\ UNCHANGED <<objectVars, socketVars, pc, ret, functors, batchHolds, pendingFunctors_,
                 serverVars, cpc, historyVars>>

(* EPOLLIN: handleRead gets data (what came before a reset can still be    *)
(* read), or the end of the stream, or an error that is only logged.       *)
(* Mutated form: an end of stream is ignored.                              *)
DispatchReadIgnoresEof ==
  /\ pc = "dispatch" /\ revents \cap {"hup", "err"} = {} /\ "in" \in revents
  /\ revents' = revents \ {"in"}
  /\ pc' \in {"dispatch", "message"}
  /\ UNCHANGED <<objectVars, ret, downs, socketVars, functors, batchHolds,
                 pendingFunctors_, serverVars, cpc, unsent, accepted, lost, ups,
                 forceCloses, undefined>>
DispatchRead ==
  /\ pc = "dispatch" /\ revents \cap {"hup", "err"} = {} /\ "in" \in revents
  /\ revents' = revents \ {"in"}
  /\ \/ /\ pc' = "message"
        /\ UNCHANGED <<stat_, events_, index_, downs, ret>>
     \/ /\ peer # "open"
        /\ HandleClose("dispatch")
     \/ UNCHANGED <<stat_, events_, index_, downs, pc, ret>>
  /\ UNCHANGED <<outputBuffer_, socketVars, functors, batchHolds, pendingFunctors_,
                 serverVars, cpc, unsent, accepted, lost, ups, forceCloses, undefined>>

(* What handleWrite does once the buffer is empty: stop asking for         *)
(* writability, queue the writeComplete callback, and carry out a shutdown *)
(* that waited for this.  Mutated form: the shutdown is forgotten.         *)
OutputDrainedForgetsShutdown ==
  /\ UpdateChannel(events_ \ {"write"})
  /\ QueueInLoop(Functor("writeComplete"))
  /\ UNCHANGED wrClosed
OutputDrained ==
  /\ UpdateChannel(events_ \ {"write"})
  /\ QueueInLoop(Functor("writeComplete"))
  /\ wrClosed' = (wrClosed \/ stat_ = "kDisconnecting")

(* EPOLLOUT: handleWrite, unless an earlier handler of this event stopped  *)
(* writing.                                                                *)
DispatchWrite ==
  /\ pc = "dispatch" /\ revents = {"out"}
  /\ revents' = {}
  /\ \/ UNCHANGED <<dataVars, events_, index_, wrClosed, pendingFunctors_>>
     \/ /\ IsWriting /\ ~Broken
        /\ \E n \in 1 .. Len(outputBuffer_) :
             /\ written' = written \o SubSeq(outputBuffer_, 1, n)
             /\ outputBuffer_' = SubSeq(outputBuffer_, n + 1, Len(outputBuffer_))
             /\ IF n = Len(outputBuffer_)
                THEN OutputDrained
                ELSE UNCHANGED <<events_, index_, wrClosed, pendingFunctors_>>
        /\ UNCHANGED <<accepted, lost>>
  /\ UNCHANGED <<stat_, peer, pc, ret, functors, batchHolds, serverVars, cpc,
                 unsent, ups, downs, forceCloses, undefined>>

(* handleClose after the connection callback: closeCallback_ is            *)
(* TcpServer::removeConnection, bound to the server's raw `this`.          *)
CloseCallback ==
  /\ pc = "downClose"
  /\ undefined' = ~serverAlive
  /\ removing' = IF serverAlive THEN removing + 1 ELSE removing
  /\ pc' = ret
  /\ UNCHANGED <<objectVars, socketVars, ret, revents, functors, batchHolds,
                 pendingFunctors_, inMap, serverAlive, cpc, unsent, accepted, lost,
                 ups, downs, forceCloses>>

-----------------------------------------------------------------------------
(* Functors of the loop.                                                   *)

(* The events are handled, or poll reported none for this channel: the     *)
(* queue is swapped out.                                                   *)
SwapFunctors ==
  /\ pc = "poll" \/ (pc = "dispatch" /\ revents = {})
  /\ pc = "poll" => pendingFunctors_ # <<>>
  /\ pc' = "functors"
  /\ functors' = pendingFunctors_
  /\ pendingFunctors_' = <<>>
  /\ batchHolds' = HoldsConnection(pendingFunctors_)
  /\ UNCHANGED <<objectVars, socketVars, ret, revents, serverVars, cpc, historyVars>>

(* The batch is done and destroyed.  Mutated form: it is done but kept.    *)
EndBatchKeepsFunctors ==
  /\ pc = "functors" /\ functors = <<>>
  /\ pc' = "poll"
  /\ UNCHANGED <<objectVars, socketVars, ret, revents, functors, batchHolds,
                 pendingFunctors_, serverVars, cpc, historyVars>>
EndBatch ==
  /\ pc = "functors" /\ functors = <<>>
  /\ pc' = "poll"
  /\ batchHolds' = FALSE
  /\ UNCHANGED <<objectVars, socketVars, ret, revents, functors, pendingFunctors_,
                 serverVars, cpc, historyVars>>

Takes(op) ==
  /\ pc = "functors" /\ functors # <<>> /\ Head(functors).op = op
  /\ functors' = Tail(functors)

(* A functor bound to a raw `this` is called after the connection died.    *)
RunOnDestroyed ==
  /\ \E op \in {"sendInLoop", "shutdownInLoop"} : Takes(op)
  /\ ~Alive
  /\ undefined' = TRUE
  /\ UNCHANGED <<objectVars, socketVars, pc, ret, revents, batchHolds, pendingFunctors_,
                 serverVars, cpc, unsent, accepted, lost, ups, downs, forceCloses>>

RunConnectEstablished ==
  /\ Takes("connectEstablished")
  /\ stat_' = "kConnected"
  /\ UpdateChannel(events_ \cup {"read"})
  /\ ups' = ups + 1
  /\ pc' = "up"
  /\ UNCHANGED <<outputBuffer_, socketVars, ret, revents, batchHolds, pendingFunctors_,
                 serverVars, cpc, unsent, accepted, lost, downs, forceCloses, undefined>>

RunSendInLoop ==
  /\ Takes("sendInLoop") /\ Alive
  /\ \E m \in {Head(functors).msg, Garbage} : SendInLoop(Data(m))
  /\ UNCHANGED <<stat_, wrClosed, peer, pc, ret, revents, batchHolds, serverVars, cpc,
                 unsent, ups, downs, forceCloses, undefined>>

RunShutdownInLoop ==
  /\ Takes("shutdownInLoop") /\ Alive
  /\ ShutdownInLoop
  /\ UNCHANGED <<objectVars, peer, written, pc, ret, revents, batchHolds,
                 pendingFunctors_, serverVars, cpc, historyVars>>

(* forceCloseInLoop closes once.  Mutated form: it does not look at stat_. *)
StillOpenAlways == TRUE
StillOpen == stat_ \in {"kConnected", "kDisconnecting"}

RunForceCloseInLoop ==
  /\ Takes("forceCloseInLoop")
  /\ IF StillOpen THEN HandleClose("functors")
                  ELSE UNCHANGED <<stat_, events_, index_, downs, pc, ret>>
  /\ UNCHANGED <<outputBuffer_, socketVars, revents, batchHolds, pendingFunctors_,
                 serverVars, cpc, unsent, accepted, lost, ups, forceCloses, undefined>>

(* connectDestroyed of a connection that is still connected calls the      *)
(* connection callback before it removes the channel.                      *)
RunConnectDestroyed ==
  /\ Takes("connectDestroyed")
  /\ IF stat_ = "kConnected"
     THEN /\ stat_' = "kDisconnected"
          /\ UpdateChannel({})
          /\ CountDown
          /\ pc' = "downDestroy"
     ELSE /\ RemoveChannel
          /\ UNCHANGED <<stat_, events_, downs, pc>>
  /\ UNCHANGED <<outputBuffer_, socketVars, ret, revents, batchHolds, pendingFunctors_,
                 serverVars, cpc, unsent, accepted, lost, ups, forceCloses, undefined>>

(* The writeComplete or high-water callback is called.                     *)
RunUserFunctor ==
  /\ Takes("writeComplete") \/ Takes("highWaterMark")
  /\ pc' = "userFunctor"
  /\ UNCHANGED <<objectVars, socketVars, ret, revents, batchHolds, pendingFunctors_,
                 serverVars, cpc, historyVars>>

(* A callback returns; connectDestroyed then removes the channel.          *)
CallbackReturns ==
  /\ pc \in {"up", "message", "downDestroy", "userFunctor"}
  /\ pc' = IF pc = "message" THEN "dispatch" ELSE "functors"
  /\ IF pc = "downDestroy" THEN RemoveChannel ELSE UNCHANGED index_
  /\ UNCHANGED <<stat_, events_, outputBuffer_, socketVars, ret, revents, functors,
                 batchHolds, pendingFunctors_, serverVars, cpc, historyVars>>

-----------------------------------------------------------------------------
(* Calls of the user's code on the loop thread: sendInLoop and             *)
(* shutdownInLoop are called directly.                                     *)

LoopSend(m) ==
  /\ pc \in UserCode /\ stat_ = "kConnected"
  /\ m \in unsent
  /\ unsent' = unsent \ {m}
  /\ SendInLoop(Data(m))
  /\ UNCHANGED <<stat_, wrClosed, peer, loopVars, serverVars, cpc, ups, downs,
                 forceCloses, undefined>>

LoopShutdown ==
  /\ pc \in UserCode /\ stat_ = "kConnected"
  /\ stat_' = "kDisconnecting"
  /\ ShutdownInLoop
  /\ UNCHANGED <<events_, index_, outputBuffer_, peer, written, loopVars,
                 pendingFunctors_, serverVars, cpc, historyVars>>

LoopForceClose ==
  /\ pc \in UserCode /\ stat_ \in {"kConnected", "kDisconnecting"}
  /\ forceCloses < MaxForceCloses
  /\ forceCloses' = forceCloses + 1
  /\ stat_' = "kDisconnecting"
  /\ QueueInLoop(Functor("forceCloseInLoop"))
  /\ UNCHANGED <<events_, index_, outputBuffer_, socketVars, loopVars, serverVars, cpc,
                 unsent, accepted, lost, ups, downs, undefined>>

(* A callback gives another thread a TcpConnectionPtr.                     *)
HandOut(t) ==
  /\ pc \in UserCode
  /\ cpc[t] = "none"
  /\ cpc' = [cpc EXCEPT ![t] = "idle"]
  /\ UNCHANGED <<objectVars, socketVars, loopVars, pendingFunctors_, serverVars, historyVars>>

-----------------------------------------------------------------------------
(* Calls by other threads.                                                 *)

Goto(t, from, to) == cpc[t] = from /\ cpc' = [cpc EXCEPT ![t] = to]

(* The test of stat_ at the start of send, shutdown and forceClose; when   *)
(* it fails the call returns.                                              *)
CallChecks(t, op) ==
  /\ op \in CallerOps
  /\ stat_ = "kConnected" \/ (op = "forceClose" /\ stat_ = "kDisconnecting")
  /\ op = "send" => unsent # {}
  /\ op = "forceClose" => forceCloses < MaxForceCloses
  /\ forceCloses' = IF op = "forceClose" THEN forceCloses + 1 ELSE forceCloses
  /\ Goto(t, "idle", op)
  /\ UNCHANGED <<objectVars, socketVars, loopVars, pendingFunctors_, serverVars, unsent,
                 accepted, lost, ups, downs, undefined>>

(* send queues sendInLoop with the raw `this`.                             *)
CallSendQueues(t, m) ==
  /\ Goto(t, "send", "idle")
  /\ m \in unsent
  /\ unsent' = unsent \ {m}
  /\ QueueInLoop([op |-> "sendInLoop", msg |-> m])
  /\ UNCHANGED <<objectVars, socketVars, loopVars, serverVars, accepted, lost, ups, downs,
                 forceCloses, undefined>>

(* The messages ran out, by the bound, since the test.                     *)
CallSendNothing(t) ==
  /\ Goto(t, "send", "idle")
  /\ unsent = {}
  /\ UNCHANGED <<objectVars, socketVars, loopVars, pendingFunctors_, serverVars, historyVars>>

(* shutdown and forceClose set kDisconnecting, whatever stat_ is by now.   *)
CallSetsState(t, op) ==
  /\ op \in {"shutdown", "forceClose"}
  /\ Goto(t, op, IF op = "shutdown" THEN "shutdownSet" ELSE "forceCloseSet")
  /\ stat_' = "kDisconnecting"
  /\ UNCHANGED <<events_, index_, outputBuffer_, socketVars, loopVars, pendingFunctors_,
                 serverVars, historyVars>>

CallShutdownQueues(t) ==
  /\ Goto(t, "shutdownSet", "idle")
  /\ QueueInLoop(Functor("shutdownInLoop"))
  /\ UNCHANGED <<objectVars, socketVars, loopVars, serverVars, historyVars>>

CallForceCloseQueues(t) ==
  /\ Goto(t, "forceCloseSet", "idle")
  /\ QueueInLoop(Functor("forceCloseInLoop"))
  /\ UNCHANGED <<objectVars, socketVars, loopVars, serverVars, historyVars>>

(* The thread lets go of its TcpConnectionPtr.                             *)
Release(t) ==
  /\ Goto(t, "idle", "released")
  /\ UNCHANGED <<objectVars, socketVars, loopVars, pendingFunctors_, serverVars, historyVars>>

-----------------------------------------------------------------------------
(* The server and the peer.                                                *)

(* removeConnectionInLoop on the server's loop.                            *)
RemoveConnectionInLoop ==
  /\ removing > 0
  /\ removing' = removing - 1
  /\ IF serverAlive
     THEN /\ inMap' = FALSE
          /\ QueueInLoop(Functor("connectDestroyed"))
          /\ UNCHANGED undefined
     ELSE /\ undefined' = TRUE
          /\ UNCHANGED <<inMap, pendingFunctors_>>
  /\ UNCHANGED <<objectVars, socketVars, loopVars, serverAlive, cpc, unsent, accepted, lost,
                 ups, downs, forceCloses>>

(* ~TcpServer on its own thread, the connection's loop being another.      *)
DestroyServer ==
  /\ ServerMayEnd /\ serverAlive
  /\ serverAlive' = FALSE
  /\ inMap' = FALSE
  /\ IF inMap THEN QueueInLoop(Functor("connectDestroyed")) ELSE UNCHANGED pendingFunctors_
  /\ UNCHANGED <<objectVars, socketVars, loopVars, removing, cpc, historyVars>>

(* The peer shuts its sending side, or resets the connection.              *)
PeerActs ==
  /\ \/ peer = "open" /\ peer' \in {"eof", "dead"}
     \/ peer = "eof" /\ peer' = "dead"
  /\ UNCHANGED <<objectVars, wrClosed, written, loopVars, pendingFunctors_, serverVars, cpc,
                 historyVars>>

-----------------------------------------------------------------------------

Dispatch == DispatchHangup \/ DispatchError \/ DispatchRead \/ DispatchWrite

RunFunctor ==
  \/ RunOnDestroyed
  \/ RunConnectEstablished
  \/ RunSendInLoop
  \/ RunShutdownInLoop
  \/ RunForceCloseInLoop
  \/ RunConnectDestroyed
  \/ RunUserFunctor

LoopStep ==
  \/ Dispatch \/ CloseCallback \/ SwapFunctors \/ RunFunctor \/ EndBatch \/ CallbackReturns

LoopCalls ==
  \/ \E m \in Messages : LoopSend(m)
  \/ LoopShutdown
  \/ LoopForceClose
  \/ \E t \in Callers : HandOut(t)

CallStep(t) ==
  \/ \E m \in Messages : CallSendQueues(t, m)
  \/ CallSendNothing(t)
  \/ \E op \in CallerOps : CallSetsState(t, op)
  \/ CallShutdownQueues(t)
  \/ CallForceCloseQueues(t)

Next ==
  /\ ~undefined
  /\ \/ Poll
     \/ LoopStep
     \/ LoopCalls
     \/ \E t \in Callers :
          \/ \E op \in CallerOps : CallChecks(t, op)
          \/ CallStep(t)
          \/ Release(t)
     \/ RemoveConnectionInLoop
     \/ DestroyServer
     \/ PeerActs

Spec == Init /\ [][Next]_vars

(* Fairness.  Every thread runs and callbacks return.  epoll is            *)
(* level-triggered, so that a socket that is readable, or that the peer    *)
(* makes writable again and again, is reported again and again; a write to *)
(* a writable socket takes something; and a finished stream is read to its *)
(* end.                                                                    *)
PollReports(e) == Poll /\ e \in revents'
WriteProgress == DispatchWrite /\ outputBuffer_' # outputBuffer_
ReadEnd == DispatchRead /\ pc' = "downClose"

FairSpec ==
  /\ Spec
  /\ WF_vars(~undefined /\ LoopStep)
  /\ WF_vars(~undefined /\ RemoveConnectionInLoop)
  /\ \A t \in Callers : WF_vars(~undefined /\ CallStep(t))
  /\ \A e \in {"in", "out"} : SF_vars(~undefined /\ PollReports(e))
  /\ SF_vars(~undefined /\ WriteProgress)
  /\ SF_vars(~undefined /\ ReadEnd)

-----------------------------------------------------------------------------

Units == {<<m, i>> : m \in Messages \cup {Garbage}, i \in 1 .. MessageLength}

FunctorSet ==
  [op : {"connectEstablished", "shutdownInLoop", "forceCloseInLoop", "connectDestroyed",
         "writeComplete", "highWaterMark"}, msg : {NoMessage}]
  \cup [op : {"sendInLoop"}, msg : Messages]

CallPlaces ==
  {"none", "idle", "send", "shutdown", "shutdownSet", "forceClose", "forceCloseSet",
   "released"}

(* Where the loop thread is in handleEvent, and where in doPendingFunctors.*)
InEvent == pc \in {"dispatch", "message"} \/ (pc = "downClose" /\ ret = "dispatch")
InBatch ==
  \/ pc \in {"functors", "up", "downDestroy", "userFunctor"}
  \/ pc = "downClose" /\ ret = "functors"

(* The values the variables range over, in each part of the loop's turn.   *)
TypeOK ==
  /\ stat_ \in {"kConnecting", "kConnected", "kDisconnecting", "kDisconnected"}
  /\ events_ \subseteq Events /\ index_ \in Indexes
  /\ wrClosed \in BOOLEAN /\ peer \in {"open", "eof", "dead"}
  /\ outputBuffer_ \in Seq(Units) /\ written \in Seq(Units) /\ accepted \in Seq(Units)
  /\ pc \in {"poll", "dispatch", "functors"} \cup UserCode
  /\ ret \in {"dispatch", "functors"}
  /\ revents \subseteq {"in", "out", "hup", "err"} /\ (revents # {} => InEvent)
  /\ pendingFunctors_ \in Seq(FunctorSet)
  /\ functors \in Seq(FunctorSet) /\ (functors # <<>> => InBatch)
  /\ batchHolds \in BOOLEAN /\ (batchHolds => InBatch)
  /\ inMap \in BOOLEAN /\ removing \in Nat /\ serverAlive \in BOOLEAN
  /\ cpc \in [Callers -> CallPlaces]
  /\ unsent \subseteq Messages
  /\ lost \in BOOLEAN /\ undefined \in BOOLEAN
  /\ ups \in 0 .. 1 /\ downs \in 0 .. 2 /\ forceCloses \in 0 .. MaxForceCloses

(* The bytes given to the socket, followed by those still buffered, are    *)
(* the messages that reached sendInLoop, in order and without gaps: all of *)
(* them, or once a write failed for good (EPIPE, ECONNRESET) a prefix.     *)
(* sendInLoop and handleWrite together keep this under partial writes.     *)
StreamIntact ==
  LET sent == written \o outputBuffer_
  IN  /\ Len(sent) <= Len(accepted)
      /\ sent = SubSeq(accepted, 1, Len(sent))
      /\ ~lost => Len(sent) = Len(accepted)

(* The channel asks for writability exactly while there is output to write *)
(* (until the connection is closed, or removed by a server that ends): no  *)
(* output is forgotten in the buffer, and a level-triggered EPOLLOUT with  *)
(* nothing to write does not spin.                                         *)
WritingIffOutput ==
  /\ IsWriting => outputBuffer_ # <<>>
  /\ outputBuffer_ # <<>> /\ index_ = kAdded /\ downs = 0 => IsWriting

(* shutdown() closes the sending side only after the buffered output has   *)
(* been written ("if data on the socket is not all written, do not close   *)
(* yet", TcpConnection.cc:233), whatever thread calls it, unless the       *)
(* connection was already closed.                                          *)
ShutdownWaitsForOutput ==
  [][wrClosed' # wrClosed => outputBuffer_' = <<>> \/ downs > 0]_vars

(* While the connection is up its channel is registered for reading, so    *)
(* that the peer's close is seen; once the user was told it is down, the   *)
(* channel is disabled, and no later step registers it again; and the      *)
(* object is destroyed only after connectDestroyed removed it from the     *)
(* poller, which would otherwise keep a pointer to it.                     *)
ChannelFollowsLife ==
  /\ ups = 1 /\ downs = 0 => index_ = kAdded /\ "read" \in events_
  /\ downs > 0 => index_ # kAdded /\ events_ = {}
  /\ ~Alive => index_ = kNew

(* Whatever other threads call and whenever the server ends, no message    *)
(* callback runs once the user was told that the connection is down: a     *)
(* close in the middle of handleEvent leaves nothing to be read, and a     *)
(* shutdown() that revives the state of a closed connection makes          *)
(* sendInLoop ask for writability, never for more to read.  The user is    *)
(* not told of a connection that was shutting down when its server ended:  *)
(* connectDestroyed removes its channel and leaves events_ and the state   *)
(* as they were, a sendInLoop behind it registers the channel again, and   *)
(* messages may follow.                                                    *)
NoMessageOnceDown == pc = "message" => downs = 0

(* The callbacks follow ConnectionLifecycle.                               *)
Lifecycle == INSTANCE ConnectionLifecycle WITH
  life <- IF ups = 0 THEN "connecting"
          ELSE IF downs = 0 THEN "up"
          ELSE IF Alive THEN "down" ELSE "gone",
  callback <- CASE pc = "up" -> "up"
                [] pc = "message" -> "message"
                [] pc \in {"downClose", "downDestroy"} -> "down"
                [] OTHER -> "none"

(* UP once, DOWN once, messages in between only, and the object outlives   *)
(* its callbacks, as long as the other threads only call send.             *)
ImplementsLifecycle == Lifecycle!Spec

(* A functor queued by send or shutdown finds the connection alive: "muduo *)
(* must ensure that the TcpConnection's life is longer than ..."           *)
(* (TcpConnection.h:22).                                                   *)
FunctorsFindConnection == ~undefined

(* A connection being shut down gets its sending side closed, or is closed *)
(* altogether, if the peer keeps reading.                                  *)
ShutdownCompletes ==
  stat_ = "kDisconnecting" ~> wrClosed \/ downs > 0 \/ peer = "dead" \/ undefined

(* The end of the peer's stream, or a reset, closes the connection, and a  *)
(* closed connection is taken out of the server's map and of the poller.   *)
CloseCompletes ==
  (peer # "open" /\ ups = 1) \/ downs > 0
    ~> (downs > 0 /\ index_ = kNew /\ ~inMap) \/ undefined

=============================================================================

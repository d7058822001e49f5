------------------------ MODULE TcpConnectionProofs ------------------------
(***************************************************************************)
(* Proofs about TcpConnection, for any number of threads, messages and     *)
(* calls: the stream of bytes stays intact, the channel asks for           *)
(* writability exactly while there is output, shutdown waits for it, and   *)
(* no message comes after the end.  As long as other threads only call     *)
(* send, and the server does not end first, the callbacks follow           *)
(* ConnectionLifecycle.                                                    *)
(***************************************************************************)
EXTENDS TcpConnection, SequenceTheorems, TLAPS

(* An operation is queued in s.                                            *)
Has(s, op) == \E i \in DOMAIN s : s[i].op = op

-----------------------------------------------------------------------------
(* Before connectEstablished has run, it is the first functor and there is *)
(* no other: nothing has been done with the connection.  Afterwards it is  *)
(* not queued again.                                                       *)
First(s) == s # <<>> /\ Head(s).op = "connectEstablished" /\ ~Has(Tail(s), "connectEstablished")
Birth ==
  IF ups = 0
  THEN /\ stat_ = "kConnecting" /\ events_ = {} /\ index_ = kNew /\ outputBuffer_ = <<>>
       /\ downs = 0 /\ \A t \in Callers : cpc[t] = "none"
       /\ \/ pc = "poll" /\ First(pendingFunctors_)
          \/ pc = "functors" /\ First(functors) /\ ~Has(pendingFunctors_, "connectEstablished")
  ELSE ~Has(functors, "connectEstablished") /\ ~Has(pendingFunctors_, "connectEstablished")

(* Nothing but a socket that takes no more makes a message get lost, and   *)
(* nothing is buffered behind it.                                          *)
Stream ==
  /\ ~lost => written \o outputBuffer_ = accepted
  /\ lost => /\ Broken /\ ~IsWriting /\ outputBuffer_ = <<>>
             /\ Len(written) <= Len(accepted) /\ written = SubSeq(accepted, 1, Len(written))

(* The channel asks to write while there is output, even after it was      *)
(* removed by a server that ends.                                          *)
Writing ==
  /\ IsWriting => outputBuffer_ # <<>>
  /\ outputBuffer_ # <<>> /\ downs = 0 => IsWriting

(* What poll reported as readable was up then, and still is.               *)
Reading ==
  /\ "read" \in events_ => downs = 0
  /\ "in" \in revents => pc = "dispatch" /\ downs = 0 /\ index_ = kAdded
  /\ pc = "message" => downs = 0 /\ index_ = kAdded

-----------------------------------------------------------------------------
(* Other threads only send, and the server outlives the connection.        *)
SendOnly == CallerOps \subseteq {"send"} /\ ~ServerMayEnd

(* Then stat_ says what the user has been told.                            *)
Told ==
  /\ serverAlive /\ downs <= 1
  /\ ups = 1 /\ downs = 0 <=> stat_ \in {"kConnected", "kDisconnecting"}
  /\ downs = 1 <=> stat_ = "kDisconnected"
  /\ \A t \in Callers : cpc[t] \in {"none", "idle", "send", "released"}
  /\ pc # "downDestroy" /\ (pc = "downClose" => downs = 1) /\ (pc = "up" => downs = 0)
  /\ revents \cap {"in", "hup"} # {} => pc = "dispatch" /\ downs = 0

(* The map holds the connection until it was closed and the user told, and *)
(* from then a functor until its channel was removed.                      *)
Owned ==
  /\ downs = 0 \/ pc = "downClose" =>
       /\ inMap /\ removing = 0
       /\ ~Has(pendingFunctors_, "connectDestroyed") /\ ~Has(functors, "connectDestroyed")
  /\ ~inMap /\ index_ # kNew =>
       Has(pendingFunctors_, "connectDestroyed") \/ Has(functors, "connectDestroyed")
  /\ HoldsConnection(functors) => batchHolds
  /\ pc = "userFunctor" => batchHolds
  /\ ups = 1 /\ downs = 0 => index_ = kAdded /\ "read" \in events_
  /\ downs > 0 => index_ # kAdded /\ events_ = {}

-----------------------------------------------------------------------------
(* Queues of functors: what appending and taking one changes.              *)
LEMMA HasAppend ==
  ASSUME NEW S, NEW s \in Seq(S), NEW f \in S, NEW op
  PROVE  Has(Append(s, f), op) <=> Has(s, op) \/ f.op = op
<1>1. /\ Len(Append(s, f)) = Len(s) + 1 /\ Append(s, f)[Len(s) + 1] = f
      /\ \A i \in 1 .. Len(s) : Append(s, f)[i] = s[i]
  BY AppendProperties
<1>2. Append(s, f) \in Seq(S) /\ Len(s) \in Nat
  BY AppendProperties, LenProperties
<1>3. DOMAIN s = 1 .. Len(s) /\ DOMAIN Append(s, f) = 1 .. Len(s) + 1
  BY <1>1, <1>2, LenProperties
<1> QED
  BY <1>1, <1>2, <1>3 DEF Has

LEMMA HasHeadTail ==
  ASSUME NEW S, NEW s \in Seq(S), s # <<>>, NEW op
  PROVE  Has(s, op) <=> Head(s).op = op \/ Has(Tail(s), op)
<1>1. /\ Len(Tail(s)) = Len(s) - 1 /\ Head(s) = s[1]
      /\ \A i \in 1 .. Len(Tail(s)) : Tail(s)[i] = s[i + 1]
  BY HeadTailProperties
<1>2. Len(s) \in Nat /\ Len(s) # 0 /\ Tail(s) \in Seq(S)
  BY LenProperties, EmptySeq, HeadTailProperties
<1>3. DOMAIN s = 1 .. Len(s) /\ DOMAIN Tail(s) = 1 .. Len(s) - 1
  BY <1>1, <1>2, LenProperties
<1>4. ASSUME Has(s, op), Head(s).op # op PROVE Has(Tail(s), op)
  <2>1. PICK i \in 1 .. Len(s) : s[i].op = op
    BY <1>3, <1>4 DEF Has
  <2>2. i - 1 \in 1 .. Len(s) - 1 /\ Tail(s)[i - 1] = s[i]
    BY <1>1, <1>2, <1>4, <2>1
  <2> QED
    BY <1>3, <2>1, <2>2 DEF Has
<1>5. ASSUME Has(Tail(s), op) PROVE Has(s, op)
  <2>1. PICK i \in 1 .. Len(s) - 1 : Tail(s)[i].op = op
    BY <1>3, <1>5 DEF Has
  <2>2. i + 1 \in 1 .. Len(s) /\ Tail(s)[i] = s[i + 1]
    BY <1>1, <1>2, <2>1
  <2> QED
    BY <1>3, <2>1, <2>2 DEF Has
<1>6. ASSUME Head(s).op = op PROVE Has(s, op)
  BY <1>1, <1>2, <1>3, <1>6, 1 \in 1 .. Len(s) DEF Has
<1> QED
  BY <1>4, <1>5, <1>6

LEMMA HasNothing == ASSUME NEW op PROVE ~Has(<<>>, op)
  BY EmptySeq DEF Has

LEMMA FirstAppend ==
  ASSUME NEW S, NEW s \in Seq(S), NEW f \in S, First(s), f.op # "connectEstablished"
  PROVE  First(Append(s, f))
<1>1. s # <<>> /\ Tail(s) \in Seq(S)
  BY HeadTailProperties DEF First
<1>2. /\ Append(s, f) # <<>> /\ Head(Append(s, f)) = Head(s)
      /\ Tail(Append(s, f)) = Append(Tail(s), f)
  BY <1>1, AppendProperties
<1> QED
  BY <1>1, <1>2, HasAppend DEF First

(* A functor that is not raw holds the connection.                         *)
LEMMA HoldsAppend ==
  ASSUME NEW S, NEW s \in Seq(S), NEW f \in S, HoldsConnection(s) \/ ~IsRaw(f)
  PROVE  HoldsConnection(Append(s, f))
<1>1. /\ Len(Append(s, f)) = Len(s) + 1 /\ Append(s, f)[Len(s) + 1] = f
      /\ \A i \in 1 .. Len(s) : Append(s, f)[i] = s[i]
  BY AppendProperties
<1>2. Append(s, f) \in Seq(S) /\ Len(s) \in Nat
  BY AppendProperties, LenProperties
<1>3. DOMAIN s = 1 .. Len(s) /\ DOMAIN Append(s, f) = 1 .. Len(s) + 1
  BY <1>1, <1>2, LenProperties
<1> QED
  BY <1>1, <1>2, <1>3 DEF HoldsConnection

LEMMA HoldsTail ==
  ASSUME NEW S, NEW s \in Seq(S), s # <<>>,
         HoldsConnection(Tail(s)) \/ ~IsRaw(Head(s))
  PROVE  HoldsConnection(s)
<1>1. /\ Len(Tail(s)) = Len(s) - 1 /\ Head(s) = s[1]
      /\ \A i \in 1 .. Len(Tail(s)) : Tail(s)[i] = s[i + 1]
  BY HeadTailProperties
<1>2. Len(s) \in Nat /\ Len(s) # 0 /\ Tail(s) \in Seq(S)
  BY LenProperties, EmptySeq, HeadTailProperties
<1>3. DOMAIN s = 1 .. Len(s) /\ DOMAIN Tail(s) = 1 .. Len(s) - 1
  BY <1>1, <1>2, LenProperties
<1>4. ASSUME HoldsConnection(Tail(s)) PROVE HoldsConnection(s)
  <2>1. PICK i \in 1 .. Len(s) - 1 : ~IsRaw(Tail(s)[i])
    BY <1>3, <1>4 DEF HoldsConnection
  <2>2. i + 1 \in 1 .. Len(s) /\ Tail(s)[i] = s[i + 1]
    BY <1>1, <1>2, <2>1
  <2> QED
    BY <1>3, <2>1, <2>2 DEF HoldsConnection
<1>5. ASSUME ~IsRaw(Head(s)) PROVE HoldsConnection(s)
  BY <1>1, <1>2, <1>3, <1>5, 1 \in 1 .. Len(s) DEF HoldsConnection
<1> QED
  BY <1>4, <1>5

LEMMA HasHolds ==
  ASSUME NEW s, NEW op, op \notin {"sendInLoop", "shutdownInLoop"}, Has(s, op)
  PROVE  HoldsConnection(s)
  BY DEF Has, HoldsConnection, IsRaw

-----------------------------------------------------------------------------
(* What sendInLoop does to the connection, whatever the socket takes.      *)
SendEffects ==
  /\ outputBuffer_' \in Seq(Units) /\ written' \in Seq(Units) /\ accepted' \in Seq(Units)
  /\ lost' \in BOOLEAN
  /\ \/ UNCHANGED <<events_, index_>>
     \/ events_' = events_ \cup {"write"} /\ index_' = kAdded
  /\ \/ UNCHANGED pendingFunctors_
     \/ \E op \in {"writeComplete", "highWaterMark"} : QueueInLoop(Functor(op))
  /\ stat_ = "kDisconnected" => UNCHANGED <<dataVars, events_, index_, pendingFunctors_>>

LEMMA DataType ==
  ASSUME SizesAssumption, NEW m \in Messages \cup {Garbage}
  PROVE  Data(m) \in Seq(Units) /\ Len(Data(m)) = MessageLength
<1>1. \A i \in 1 .. MessageLength : <<m, i>> \in Units
  BY DEF Units
<1>2. MessageLength \in Nat
  BY DEF SizesAssumption
<1> QED
  BY <1>1, <1>2 DEF Data

LEMMA SplitType ==
  ASSUME NEW S, NEW d \in Seq(S), NEW n \in 0 .. Len(d)
  PROVE  /\ SubSeq(d, 1, n) \in Seq(S) /\ SubSeq(d, n + 1, Len(d)) \in Seq(S)
         /\ Len(SubSeq(d, 1, n)) = n /\ Len(SubSeq(d, n + 1, Len(d))) = Len(d) - n
         /\ SubSeq(d, 1, n) \o SubSeq(d, n + 1, Len(d)) = d
<1>1. Len(d) \in Nat
  BY LenProperties
<1>2. \A i \in 1 .. Len(d) : d[i] \in S
  BY ElementOfSeq
<1>3. SubSeq(d, 1, n) \in Seq(S) /\ Len(SubSeq(d, 1, n)) = n
  <2>1. \A i \in 1 .. n : d[i] \in S
    BY <1>1, <1>2
  <2> QED
    BY <1>1, <2>1, SubSeqProperties
<1>6. /\ SubSeq(d, n + 1, Len(d)) \in Seq(S)
      /\ Len(SubSeq(d, n + 1, Len(d))) = Len(d) - n
  <2>1. \A i \in n + 1 .. Len(d) : d[i] \in S
    BY <1>1, <1>2
  <2> QED
    BY <1>1, <2>1, SubSeqProperties
<1>4. SubSeq(d, 1, n) \o SubSeq(d, n + 1, Len(d)) = SubSeq(d, 1, Len(d))
  <2>1. 1 \in 1 .. Len(d) + 1 /\ n \in 1 - 1 .. Len(d) /\ Len(d) \in n .. Len(d)
    BY <1>1
  <2> QED
    BY <2>1, ConcatAdjacentSubSeq
<1>5. SubSeq(d, 1, Len(d)) = d
  BY SubSeqFull
<1> QED
  BY <1>3, <1>4, <1>5, <1>6


LEMMA SendEffect ==
  ASSUME TypeOK, SizesAssumption, NEW m \in Messages \cup {Garbage}, SendInLoop(Data(m))
  PROVE  SendEffects
<1> DEFINE d == Data(m)
<1>1. d \in Seq(Units) /\ Len(d) = MessageLength
  BY DataType
<1> HIDE DEF d
<1>2. SendInLoop(d)
  BY DEF d
<1>3. accepted \o d \in Seq(Units)
  BY <1>1, ConcatProperties DEF TypeOK
<1>4. CASE stat_ = "kDisconnected"
  BY <1>2, <1>4 DEF SendInLoop, SendEffects, TypeOK, dataVars
<1>5. CASE stat_ # "kDisconnected" /\ UNCHANGED <<outputBuffer_, written, events_, index_, pendingFunctors_>>
             /\ lost' = TRUE /\ accepted' = accepted \o d
  BY <1>3, <1>5 DEF SendEffects, TypeOK
<1>6. ASSUME stat_ # "kDisconnected", UNCHANGED lost, accepted' = accepted \o d,
             NEW n \in 0 .. Len(d), written' = written \o SubSeq(d, 1, n),
             IF n = Len(d)
             THEN /\ QueueInLoop(Functor("writeComplete"))
                  /\ UNCHANGED <<outputBuffer_, events_, index_>>
             ELSE BufferRest(SubSeq(d, n + 1, Len(d)))
      PROVE  SendEffects
  <2> DEFINE rest == SubSeq(d, n + 1, Len(d))
  <2>1. SubSeq(d, 1, n) \in Seq(Units) /\ rest \in Seq(Units)
    BY <1>1, SplitType
  <2> HIDE DEF rest
  <2>2. written' \in Seq(Units) /\ outputBuffer_ \o rest \in Seq(Units)
    BY <1>6, <2>1, ConcatProperties DEF TypeOK
  <2>3. CASE n = Len(d)
    BY <1>3, <1>6, <2>2, <2>3 DEF SendEffects, TypeOK
  <2>4. CASE n # Len(d)
    <3>1. BufferRest(rest)
      BY <1>6, <2>4 DEF rest
    <3>2. outputBuffer_' \in Seq(Units)
      BY <2>2, <3>1 DEF BufferRest
    <3>3. UNCHANGED pendingFunctors_ \/ QueueInLoop(Functor("highWaterMark"))
      BY <3>1 DEF BufferRest
    <3>4. \/ UNCHANGED <<events_, index_>>
          \/ events_' = events_ \cup {"write"} /\ index_' = kAdded
      BY <3>1 DEF BufferRest, UpdateChannel, IndexAfterUpdate
    <3> QED
      BY <1>3, <1>6, <2>2, <3>2, <3>3, <3>4 DEF SendEffects, TypeOK
  <2> QED
    BY <2>3, <2>4
<1> QED
  BY <1>2, <1>4, <1>5, <1>6 DEF SendInLoop
(* What handleWrite does: it moves units from the buffer to the socket.    *)
LEMMA WriteEffect ==
  ASSUME TypeOK, DispatchWrite
  PROVE  /\ outputBuffer_' \in Seq(Units) /\ written' \in Seq(Units)
         /\ written' \o outputBuffer_' = written \o outputBuffer_
         /\ UNCHANGED <<accepted, lost>> /\ wrClosed' \in BOOLEAN
         /\ \/ UNCHANGED <<outputBuffer_, written, events_, index_, wrClosed, pendingFunctors_>>
            \/ /\ IsWriting /\ outputBuffer_' # <<>>
               /\ UNCHANGED <<events_, index_, wrClosed, pendingFunctors_>>
            \/ IsWriting /\ outputBuffer_' = <<>> /\ OutputDrained
<1>1. CASE UNCHANGED <<dataVars, events_, index_, wrClosed, pendingFunctors_>>
  BY <1>1 DEF TypeOK, dataVars
<1>2. ASSUME IsWriting, UNCHANGED <<accepted, lost>>,
             NEW n \in 1 .. Len(outputBuffer_),
             written' = written \o SubSeq(outputBuffer_, 1, n),
             outputBuffer_' = SubSeq(outputBuffer_, n + 1, Len(outputBuffer_)),
             IF n = Len(outputBuffer_)
             THEN OutputDrained
             ELSE UNCHANGED <<events_, index_, wrClosed, pendingFunctors_>>
      PROVE  /\ outputBuffer_' \in Seq(Units) /\ written' \in Seq(Units)
             /\ written' \o outputBuffer_' = written \o outputBuffer_
             /\ wrClosed' \in BOOLEAN
             /\ \/ /\ outputBuffer_' # <<>>
                   /\ UNCHANGED <<events_, index_, wrClosed, pendingFunctors_>>
                \/ outputBuffer_' = <<>> /\ OutputDrained
  <2> DEFINE b == outputBuffer_
             taken == SubSeq(b, 1, n)
             rest == SubSeq(b, n + 1, Len(b))
  <2>1. b \in Seq(Units) /\ written \in Seq(Units) /\ Len(b) \in Nat
    BY LenProperties DEF TypeOK
  <2>2. taken \in Seq(Units) /\ rest \in Seq(Units)
    BY <2>1, SplitType
  <2>3. Len(rest) = Len(b) - n /\ taken \o rest = b
    BY <2>1, SplitType
  <2>4. written' = written \o taken /\ outputBuffer_' = rest
    BY <1>2
  <2> HIDE DEF b, taken, rest
  <2>5. (written \o taken) \o rest = written \o (taken \o rest) /\ written \o taken \in Seq(Units)
    <3>1. (written \o taken) \o rest = written \o (taken \o rest)
      BY <2>1, <2>2, ConcatAssociative
    <3> QED
      BY <2>1, <2>2, <3>1, ConcatProperties
  <2>6. rest = <<>> <=> n = Len(b)
    BY <2>1, <2>2, <2>3, EmptySeq
  <2>7. wrClosed' \in BOOLEAN
    BY <1>2 DEF OutputDrained, TypeOK
  <2> QED
    BY <1>2, <2>2, <2>3, <2>4, <2>5, <2>6, <2>7 DEF b
<1> QED
  BY <1>1, <1>2 DEF DispatchWrite

-----------------------------------------------------------------------------
(* The functors that are queued, and what is left of a batch.              *)
LEMMA FunctorTypes ==
  /\ \A op \in {"connectEstablished", "shutdownInLoop", "forceCloseInLoop",
                "connectDestroyed", "writeComplete", "highWaterMark"} : Functor(op) \in FunctorSet
  /\ \A m \in Messages : [op |-> "sendInLoop", msg |-> m] \in FunctorSet
  BY DEF Functor, FunctorSet

LEMMA QueueType ==
  ASSUME TypeOK, NEW f \in FunctorSet, QueueInLoop(f)
  PROVE  pendingFunctors_' \in Seq(FunctorSet)
  BY AppendProperties DEF TypeOK, QueueInLoop

LEMMA TakesType ==
  ASSUME TypeOK, NEW op, Takes(op)
  PROVE  /\ functors' \in Seq(FunctorSet) /\ functors # <<>> /\ pc = "functors"
         /\ Head(functors) \in FunctorSet
  BY HeadTailProperties DEF TypeOK, Takes

-----------------------------------------------------------------------------
(* Which steps change what.                                                *)
Sends == RunSendInLoop \/ \E m \in Messages : LoopSend(m)
Closes == DispatchHangup \/ DispatchRead \/ RunForceCloseInLoop

USE DEF Next, Dispatch, RunFunctor, LoopStep, LoopCalls, CallStep, Poll,
        DispatchHangup, DispatchError, DispatchRead, DispatchWrite,
        CloseCallback, SwapFunctors, RunOnDestroyed,
        RunConnectEstablished, RunSendInLoop, RunShutdownInLoop,
        RunForceCloseInLoop, RunConnectDestroyed, RunUserFunctor,
        EndBatch, CallbackReturns, LoopSend, LoopShutdown,
        LoopForceClose, HandOut, CallChecks, CallSendQueues,
        CallSendNothing, CallSetsState, CallShutdownQueues,
        CallForceCloseQueues, Release, RemoveConnectionInLoop,
        DestroyServer, PeerActs, vars, objectVars, socketVars,
        loopVars, serverVars, dataVars, historyVars, Sends, Closes,
        Takes, Goto

(* The output.                                                             *)
LEMMA DataFrame ==
  ASSUME [Next]_vars
  PROVE  UNCHANGED dataVars \/ DispatchWrite \/ Sends
  OBVIOUS

(* The channel.                                                            *)
LEMMA ChannelFrame ==
  ASSUME [Next]_vars
  PROVE  \/ UNCHANGED <<events_, index_>>
         \/ DispatchWrite \/ Sends \/ Closes
         \/ RunConnectEstablished \/ RunConnectDestroyed \/ CallbackReturns
  OBVIOUS

(* The socket, shut for good ...                                           *)
LEMMA ShutFrame ==
  ASSUME [Next]_vars
  PROVE  UNCHANGED wrClosed \/ RunShutdownInLoop \/ LoopShutdown \/ DispatchWrite
  OBVIOUS

(* ... and the peer.                                                       *)
LEMMA PeerFrame ==
  ASSUME [Next]_vars
  PROVE  UNCHANGED peer \/ PeerActs
  OBVIOUS

(* The batch.                                                              *)
LEMMA BatchFrame ==
  ASSUME [Next]_vars
  PROVE  UNCHANGED functors \/ SwapFunctors \/ \E op : Takes(op)
  OBVIOUS

(* The queue.                                                              *)
LEMMA QueuersFrame ==
  ASSUME [Next]_vars
  PROVE  \/ UNCHANGED pendingFunctors_ \/ SwapFunctors
         \/ Sends \/ DispatchWrite \/ LoopForceClose
         \/ \E t \in Callers : \/ \E m \in Messages : CallSendQueues(t, m)
                               \/ CallShutdownQueues(t) \/ CallForceCloseQueues(t)
         \/ RemoveConnectionInLoop \/ DestroyServer
  OBVIOUS

(* What the batch keeps alive.                                             *)
LEMMA BatchHoldsFrame ==
  ASSUME [Next]_vars
  PROVE  UNCHANGED batchHolds \/ SwapFunctors \/ EndBatch
  OBVIOUS

(* Only connectDestroyed takes its functor.                                *)
LEMMA TakesDestroyed ==
  ASSUME [Next]_vars
  PROVE  Takes("connectDestroyed") => UNCHANGED functors \/ RunConnectDestroyed
  OBVIOUS

(* The loop thread's place.                                                *)
LEMMA LoopFrame ==
  ASSUME [Next]_vars
  PROVE  \/ UNCHANGED <<pc, ret, revents, batchHolds>>
         \/ Poll \/ DispatchError \/ DispatchWrite \/ Closes \/ CloseCallback
         \/ SwapFunctors \/ EndBatch \/ CallbackReturns
         \/ RunConnectEstablished \/ RunConnectDestroyed \/ RunUserFunctor
  OBVIOUS

(* stat_.                                                                  *)
LEMMA StateFrame ==
  ASSUME [Next]_vars
  PROVE  \/ UNCHANGED stat_
         \/ RunConnectEstablished \/ Closes \/ RunConnectDestroyed
         \/ LoopShutdown \/ LoopForceClose
         \/ \E t \in Callers, op \in CallerOps : CallSetsState(t, op)
  OBVIOUS

(* What the user was told.                                                 *)
LEMMA LifeFrame ==
  ASSUME [Next]_vars
  PROVE  /\ UNCHANGED ups \/ RunConnectEstablished
         /\ UNCHANGED downs \/ Closes \/ RunConnectDestroyed
  OBVIOUS

(* The server.                                                             *)
LEMMA ServerFrame ==
  ASSUME [Next]_vars
  PROVE  \/ UNCHANGED serverVars
         \/ CloseCallback \/ RemoveConnectionInLoop \/ DestroyServer
  OBVIOUS

(* Other threads.                                                          *)
LEMMA CallerFrame ==
  ASSUME [Next]_vars
  PROVE  \/ UNCHANGED cpc
         \/ \E t \in Callers : cpc[t] = "none" /\ HandOut(t)
         \/ \E t \in Callers, op \in CallerOps : CallChecks(t, op) \/ CallSetsState(t, op)
         \/ \E t \in Callers : \E from \in {"send", "shutdownSet", "forceCloseSet"} : Goto(t, from, "idle")
         \/ \E t \in Callers : Release(t)
  OBVIOUS

(* The counters.                                                           *)
LEMMA CountFrame ==
  ASSUME [Next]_vars
  PROVE  /\ unsent' \subseteq unsent /\ (undefined' \in BOOLEAN \/ UNCHANGED undefined)
         /\ UNCHANGED forceCloses \/ (forceCloses < MaxForceCloses /\ forceCloses' = forceCloses + 1)
  OBVIOUS

HIDE DEF Next, Dispatch, RunFunctor, LoopStep, LoopCalls, CallStep, Poll,
        DispatchHangup, DispatchError, DispatchRead, DispatchWrite,
        CloseCallback, SwapFunctors, RunOnDestroyed,
        RunConnectEstablished, RunSendInLoop, RunShutdownInLoop,
        RunForceCloseInLoop, RunConnectDestroyed, RunUserFunctor,
        EndBatch, CallbackReturns, LoopSend, LoopShutdown,
        LoopForceClose, HandOut, CallChecks, CallSendQueues,
        CallSendNothing, CallSetsState, CallShutdownQueues,
        CallForceCloseQueues, Release, RemoveConnectionInLoop,
        DestroyServer, PeerActs, vars, objectVars, socketVars,
        loopVars, serverVars, dataVars, historyVars, Sends, Closes,
        Takes, Goto

(* A functor that is queued: connectEstablished never again, and           *)
(* connectDestroyed by the server only.                                    *)
Queues(f) ==
  /\ QueueInLoop(f)
  /\ f.op # "connectEstablished"
  /\ f.op = "connectDestroyed" => RemoveConnectionInLoop \/ DestroyServer

-----------------------------------------------------------------------------
(* sendInLoop is called with a message, or with what a dangling pointer    *)
(* reads.                                                                  *)
LEMMA SendsEffect ==
  ASSUME TypeOK, SizesAssumption, Sends
  PROVE  /\ SendEffects
         /\ \E m \in Messages \cup {Garbage} : SendInLoop(Data(m))
<1>1. \E m \in Messages \cup {Garbage} : SendInLoop(Data(m))
  <2>1. CASE RunSendInLoop
    <3>1. Takes("sendInLoop")
      BY <2>1 DEF RunSendInLoop
    <3>2. Head(functors) \in FunctorSet /\ Head(functors).op = "sendInLoop"
      BY <3>1, TakesType DEF Takes
    <3>3. Head(functors).msg \in Messages
      BY <3>2 DEF FunctorSet
    <3> QED
      BY <2>1, <3>3 DEF RunSendInLoop
  <2>2. CASE \E m \in Messages : LoopSend(m)
    BY <2>2 DEF LoopSend
  <2> QED
    BY <2>1, <2>2 DEF Sends
<1> QED
  BY <1>1, SendEffect

LEMMA QueueFrame ==
  ASSUME TypeOK, SizesAssumption, [Next]_vars
  PROVE  UNCHANGED pendingFunctors_ \/ SwapFunctors \/ \E f \in FunctorSet : Queues(f)
<1> DEFINE Goal ==
      UNCHANGED pendingFunctors_ \/ SwapFunctors \/ \E f \in FunctorSet : Queues(f)
<1>2. ASSUME Sends PROVE Goal
  <2>1. UNCHANGED pendingFunctors_
          \/ \E op \in {"writeComplete", "highWaterMark"} : QueueInLoop(Functor(op))
    BY <1>2, SendsEffect DEF SendEffects
  <2> QED
    BY <2>1, FunctorTypes DEF Functor, Queues
<1>3. ASSUME DispatchWrite PROVE Goal
  <2>1. UNCHANGED pendingFunctors_ \/ QueueInLoop(Functor("writeComplete"))
    BY <1>3, WriteEffect DEF OutputDrained
  <2> QED
    BY <2>1, FunctorTypes DEF Functor, Queues
<1>4. ASSUME LoopForceClose PROVE Goal
  BY <1>4, FunctorTypes DEF LoopForceClose, Functor, Queues
<1>5. ASSUME NEW t \in Callers, NEW m \in Messages, CallSendQueues(t, m) PROVE Goal
  <2> DEFINE f == [op |-> "sendInLoop", msg |-> m]
  <2>1. f \in FunctorSet /\ f.op = "sendInLoop"
    BY FunctorTypes
  <2>2. QueueInLoop(f)
    BY <1>5 DEF CallSendQueues
  <2> QED
    BY <2>1, <2>2 DEF Queues
<1>6. ASSUME NEW t \in Callers, CallShutdownQueues(t) \/ CallForceCloseQueues(t) PROVE Goal
  BY <1>6, FunctorTypes DEF CallShutdownQueues, CallForceCloseQueues, Functor, Queues
<1>7. ASSUME RemoveConnectionInLoop \/ DestroyServer PROVE Goal
  <2>1. UNCHANGED pendingFunctors_ \/ QueueInLoop(Functor("connectDestroyed"))
    BY <1>7 DEF RemoveConnectionInLoop, DestroyServer
  <2> QED
    BY <1>7, <2>1, FunctorTypes DEF Functor, Queues
<1> QED
  BY <1>2, <1>3, <1>4, <1>5, <1>6, <1>7, QueuersFrame

-----------------------------------------------------------------------------
(* Every step keeps the types.  The output ...                             *)
LEMMA OutputTypeStep ==
  ASSUME TypeOK, SizesAssumption, [Next]_vars
  PROVE  /\ outputBuffer_' \in Seq(Units) /\ written' \in Seq(Units) /\ accepted' \in Seq(Units)
         /\ lost' \in BOOLEAN
  BY DataFrame, SendsEffect, WriteEffect DEF TypeOK, dataVars, SendEffects

(* ... the channel ...                                                     *)
LEMMA ChannelTypeStep ==
  ASSUME TypeOK, SizesAssumption, [Next]_vars
  PROVE  events_' \subseteq Events /\ index_' \in Indexes
<1> USE DEF Events, Indexes, kNew, kAdded, kDeleted
<1>1. events_ \subseteq Events /\ index_ \in Indexes
  BY DEF TypeOK
<1> DEFINE Goal == events_' \subseteq Events /\ index_' \in Indexes
<1>2. ASSUME Sends PROVE Goal
  BY <1>1, <1>2, SendsEffect DEF SendEffects
<1>3. ASSUME DispatchWrite PROVE Goal
  BY <1>1, <1>3, WriteEffect DEF OutputDrained, UpdateChannel, IndexAfterUpdate
<1>4. ASSUME Closes PROVE Goal
  BY <1>1, <1>4
     DEF Closes, DispatchHangup, DispatchRead, RunForceCloseInLoop, HandleClose,
         UpdateChannel, IndexAfterUpdate
<1>5. ASSUME RunConnectEstablished \/ RunConnectDestroyed \/ CallbackReturns PROVE Goal
  BY <1>1, <1>5
     DEF RunConnectEstablished, RunConnectDestroyed, CallbackReturns, RemoveChannel,
         UpdateChannel, IndexAfterUpdate
<1> QED
  BY <1>1, <1>2, <1>3, <1>4, <1>5, ChannelFrame

(* ... the queue and the batch ...                                         *)
LEMMA QueueTypeStep ==
  ASSUME TypeOK, SizesAssumption, [Next]_vars
  PROVE  pendingFunctors_' \in Seq(FunctorSet) /\ functors' \in Seq(FunctorSet)
<1>1. ASSUME SwapFunctors
      PROVE  pendingFunctors_' \in Seq(FunctorSet) /\ functors' \in Seq(FunctorSet)
  BY <1>1, EmptySeq DEF SwapFunctors, TypeOK
<1>2. pendingFunctors_' \in Seq(FunctorSet)
  BY <1>1, QueueFrame, QueueType DEF Queues, TypeOK
<1>3. functors' \in Seq(FunctorSet)
  BY <1>1, BatchFrame, TakesType DEF TypeOK
<1> QED
  BY <1>2, <1>3

(* ... the loop thread's place ...                                         *)
LEMMA LoopTypeStep ==
  ASSUME TypeOK, SizesAssumption, [Next]_vars
  PROVE  /\ pc' \in {"poll", "dispatch", "functors"} \cup UserCode
         /\ ret' \in {"dispatch", "functors"}
         /\ revents' \subseteq {"in", "out", "hup", "err"} /\ (revents' # {} => InEvent')
         /\ (functors' # <<>> => InBatch')
         /\ batchHolds' \in BOOLEAN /\ (batchHolds' => InBatch')
<1> USE DEF UserCode, InEvent, InBatch
<1> DEFINE Goal ==
      /\ pc' \in {"poll", "dispatch", "functors"} \cup UserCode
      /\ ret' \in {"dispatch", "functors"}
      /\ revents' \subseteq {"in", "out", "hup", "err"} /\ (revents' # {} => InEvent')
      /\ (functors' # <<>> => InBatch')
      /\ batchHolds' \in BOOLEAN /\ (batchHolds' => InBatch')
<1>1. /\ pc \in {"poll", "dispatch", "functors"} \cup UserCode
      /\ ret \in {"dispatch", "functors"}
      /\ revents \subseteq {"in", "out", "hup", "err"} /\ (revents # {} => InEvent)
      /\ (functors # <<>> => InBatch)
      /\ batchHolds \in BOOLEAN /\ (batchHolds => InBatch)
  BY DEF TypeOK
<1>2. ASSUME Poll PROVE Goal
  BY <1>1, <1>2 DEF Poll
<1>8. ASSUME DispatchError PROVE Goal
  BY <1>1, <1>8 DEF DispatchError
<1>9. ASSUME CloseCallback PROVE Goal
  BY <1>1, <1>9 DEF CloseCallback
<1>11. ASSUME EndBatch PROVE Goal
  BY <1>1, <1>11 DEF EndBatch
<1>12. ASSUME CallbackReturns PROVE Goal
  BY <1>1, <1>12 DEF CallbackReturns
<1>3. ASSUME DispatchHangup PROVE Goal
  BY <1>1, <1>3 DEF DispatchHangup, HandleClose
<1>13. ASSUME DispatchRead PROVE Goal
  BY <1>1, <1>13 DEF DispatchRead, HandleClose
<1>10. ASSUME RunForceCloseInLoop PROVE Goal
  BY <1>1, <1>10 DEF RunForceCloseInLoop, Takes, HandleClose
<1>4. ASSUME DispatchWrite PROVE Goal
  BY <1>1, <1>4 DEF DispatchWrite
<1>5. ASSUME SwapFunctors PROVE Goal
  BY <1>1, <1>5 DEF SwapFunctors, HoldsConnection
<1>6. ASSUME RunConnectEstablished \/ RunConnectDestroyed \/ RunUserFunctor PROVE Goal
  BY <1>1, <1>6 DEF RunConnectEstablished, RunConnectDestroyed, RunUserFunctor, Takes
<1>7. ASSUME UNCHANGED <<pc, ret, revents, batchHolds>> PROVE Goal
  BY <1>1, <1>5, <1>7, BatchFrame DEF Takes
<1> QED
  BY <1>2, <1>3, <1>4, <1>5, <1>6, <1>7, <1>8, <1>9, <1>10,
     <1>11, <1>12, <1>13, LoopFrame DEF Closes

(* ... and everything else; connectEstablished runs once.                  *)
LEMMA OtherTypeStep ==
  ASSUME TypeOK, Birth, OpsAssumption, SizesAssumption, [Next]_vars
  PROVE  /\ stat_' \in {"kConnecting", "kConnected", "kDisconnecting", "kDisconnected"}
         /\ wrClosed' \in BOOLEAN /\ peer' \in {"open", "eof", "dead"}
         /\ inMap' \in BOOLEAN /\ removing' \in Nat /\ serverAlive' \in BOOLEAN
         /\ cpc' \in [Callers -> CallPlaces]
         /\ unsent' \subseteq Messages /\ undefined' \in BOOLEAN
         /\ ups' \in 0 .. 1 /\ downs' \in 0 .. 2 /\ forceCloses' \in 0 .. MaxForceCloses
<1>1. stat_' \in {"kConnecting", "kConnected", "kDisconnecting", "kDisconnected"}
  BY StateFrame
     DEF TypeOK, RunConnectEstablished, Closes, DispatchHangup, DispatchRead,
         RunForceCloseInLoop, HandleClose, RunConnectDestroyed, LoopShutdown,
         LoopForceClose, CallSetsState
<1>2. wrClosed' \in BOOLEAN
  BY ShutFrame, WriteEffect DEF TypeOK, RunShutdownInLoop, LoopShutdown, ShutdownInLoop
<1>3. peer' \in {"open", "eof", "dead"}
  BY PeerFrame DEF TypeOK, PeerActs
<1>4. inMap' \in BOOLEAN /\ removing' \in Nat /\ serverAlive' \in BOOLEAN
  <2>1. inMap \in BOOLEAN /\ removing \in Nat /\ serverAlive \in BOOLEAN
    BY DEF TypeOK
  <2>2. CASE CloseCallback
    BY <2>1, <2>2 DEF CloseCallback
  <2>3. CASE RemoveConnectionInLoop
    <3>1. removing' \in Nat
      BY <2>1, <2>3 DEF RemoveConnectionInLoop
    <3>2. inMap' \in {inMap, FALSE} /\ UNCHANGED serverAlive
      BY <2>3 DEF RemoveConnectionInLoop
    <3> QED
      BY <2>1, <3>1, <3>2
  <2>4. CASE DestroyServer
    BY <2>1, <2>4 DEF DestroyServer
  <2> QED
    BY <2>1, <2>2, <2>3, <2>4, ServerFrame DEF serverVars
<1>5. cpc' \in [Callers -> CallPlaces]
  BY CallerFrame
     DEF TypeOK, CallPlaces, OpsAssumption, HandOut, CallChecks, CallSetsState, Release, Goto
<1>6. unsent' \subseteq Messages /\ undefined' \in BOOLEAN
  BY CountFrame DEF TypeOK
<1>7. ups' \in 0 .. 1
  <2>2. ASSUME RunConnectEstablished PROVE ups = 0 /\ ups' = 1
    <3>1. Takes("connectEstablished") /\ ups' = ups + 1
      BY <2>2 DEF RunConnectEstablished
    <3>2. Has(functors, "connectEstablished")
      BY <3>1, TakesType, HasHeadTail DEF Takes, TypeOK
    <3> QED
      BY <3>1, <3>2 DEF Birth
  <2> QED
    BY <2>2, LifeFrame DEF TypeOK
<1>8. downs' \in 0 .. 2
  BY LifeFrame
     DEF TypeOK, Closes, DispatchHangup, DispatchRead, RunForceCloseInLoop, HandleClose,
         RunConnectDestroyed, CountDown
<1>9. forceCloses' \in 0 .. MaxForceCloses
  BY CountFrame DEF TypeOK, SizesAssumption
<1> QED
  BY <1>1, <1>2, <1>3, <1>4, <1>5, <1>6, <1>7, <1>8, <1>9

LEMMA TypeStep ==
  ASSUME TypeOK, Birth, OpsAssumption, SizesAssumption, [Next]_vars
  PROVE  TypeOK'
  BY OutputTypeStep, ChannelTypeStep, QueueTypeStep, LoopTypeStep, OtherTypeStep DEF TypeOK

-----------------------------------------------------------------------------
(* Until connectEstablished has run, little can happen.                    *)
LEMMA BeforeBirth ==
  ASSUME TypeOK, Birth, ups = 0, [Next]_vars
  PROVE  \/ UNCHANGED vars \/ PeerActs
         \/ SwapFunctors \/ RunConnectEstablished \/ RemoveConnectionInLoop \/ DestroyServer
<1>1. /\ pc \in {"poll", "functors"} /\ index_ = kNew /\ \A t \in Callers : cpc[t] = "none"
      /\ pc = "functors" => functors # <<>> /\ Head(functors).op = "connectEstablished"
  BY DEF Birth, First
<1>2. ~Poll
  BY <1>1 DEF Poll, kNew, kAdded
<1>3. ~Dispatch /\ ~CloseCallback /\ ~EndBatch /\ ~CallbackReturns
  BY <1>1
     DEF Dispatch, DispatchHangup, DispatchError, DispatchRead, DispatchWrite, CloseCallback,
         EndBatch, CallbackReturns
<1>4. RunFunctor => RunConnectEstablished
  BY <1>1
     DEF RunFunctor, RunOnDestroyed, RunSendInLoop, RunShutdownInLoop, RunForceCloseInLoop,
         RunConnectDestroyed, RunUserFunctor, Takes
<1>5. ~LoopCalls
  BY <1>1 DEF LoopCalls, LoopSend, LoopShutdown, LoopForceClose, HandOut, UserCode
<1>6. \A t \in Callers : ~CallStep(t) /\ ~Release(t) /\ \A op \in CallerOps : ~CallChecks(t, op)
  BY <1>1, OpsAssumption
     DEF CallStep, CallChecks, CallSendQueues, CallSendNothing, CallSetsState,
         CallShutdownQueues, CallForceCloseQueues, Release, Goto, OpsAssumption
<1> QED
  BY <1>2, <1>3, <1>4, <1>5, <1>6 DEF Next, LoopStep

LEMMA BirthStep ==
  ASSUME TypeOK, Birth, SizesAssumption, [Next]_vars
  PROVE  Birth'
<1> DEFINE CE == "connectEstablished"
<1>1. pendingFunctors_ \in Seq(FunctorSet) /\ functors \in Seq(FunctorSet) /\ ups \in 0 .. 1
  BY DEF TypeOK
<1>2. ASSUME ups = 0 PROVE Birth'
  <2>1. /\ stat_ = "kConnecting" /\ events_ = {} /\ index_ = kNew /\ outputBuffer_ = <<>>
        /\ downs = 0 /\ \A t \in Callers : cpc[t] = "none"
    BY <1>2 DEF Birth
  <2>2. \/ pc = "poll" /\ First(pendingFunctors_)
        \/ pc = "functors" /\ First(functors) /\ ~Has(pendingFunctors_, CE)
    BY <1>2 DEF Birth
  <2>3. ASSUME UNCHANGED <<objectVars, cpc, ups, downs, pc, functors>>,
               UNCHANGED pendingFunctors_ \/ \E f \in FunctorSet : Queues(f)
        PROVE  Birth'
    <3>1. CASE UNCHANGED pendingFunctors_
      BY <1>2, <2>1, <2>2, <2>3, <3>1 DEF Birth, objectVars, First, Has
    <3>2. CASE \E f \in FunctorSet : Queues(f)
      <4>1. PICK f \in FunctorSet : Queues(f)
        BY <3>2
      <4>2. pendingFunctors_' = Append(pendingFunctors_, f) /\ f.op # CE
        BY <4>1 DEF Queues, QueueInLoop
      <4>3. First(pendingFunctors_) => First(pendingFunctors_')
        BY <1>1, <4>2, FirstAppend
      <4>4. ~Has(pendingFunctors_, CE) => ~Has(pendingFunctors_', CE)
        BY <1>1, <4>2, HasAppend
      <4> QED
        BY <1>2, <2>1, <2>2, <2>3, <4>3, <4>4 DEF Birth, objectVars, First, Has
    <3> QED
      BY <2>3, <3>1, <3>2
  <2>4. CASE UNCHANGED vars \/ PeerActs
    BY <2>3, <2>4
       DEF vars, PeerActs, objectVars, loopVars, historyVars
  <2>5. CASE RemoveConnectionInLoop \/ DestroyServer
    <3>1. UNCHANGED pendingFunctors_ \/ QueueInLoop(Functor("connectDestroyed"))
      BY <2>5 DEF RemoveConnectionInLoop, DestroyServer
    <3>2. UNCHANGED pendingFunctors_ \/ \E f \in FunctorSet : Queues(f)
      BY <2>5, <3>1, FunctorTypes DEF Queues, Functor
    <3>3. UNCHANGED <<objectVars, cpc, ups, downs, pc, functors>>
      BY <2>5 DEF RemoveConnectionInLoop, DestroyServer, loopVars, historyVars
    <3> QED
      BY <2>3, <3>2, <3>3
  <2>6. CASE SwapFunctors
    <3>1. /\ pc' = "functors" /\ functors' = pendingFunctors_ /\ pendingFunctors_' = <<>>
          /\ UNCHANGED <<objectVars, cpc, ups, downs>>
      BY <2>6 DEF SwapFunctors, historyVars
    <3>2. First(pendingFunctors_)
      BY <2>2, <2>6 DEF SwapFunctors
    <3> QED
      BY <1>2, <2>1, <3>1, <3>2, HasNothing DEF Birth, objectVars, First, Has
  <2>7. CASE RunConnectEstablished
    <3>1. /\ ups' = 1 /\ pc = "functors" /\ functors' = Tail(functors)
          /\ UNCHANGED pendingFunctors_
      BY <1>2, <2>7 DEF RunConnectEstablished, Takes
    <3> QED
      BY <2>2, <3>1 DEF Birth, First, Has
  <2> QED
    BY <1>2, <2>4, <2>5, <2>6, <2>7, BeforeBirth
<1>3. ASSUME ups = 1 PROVE Birth'
  <2>1. ~Has(functors, CE) /\ ~Has(pendingFunctors_, CE)
    BY <1>3 DEF Birth
  <2>2. ~\E op : Takes(op) /\ op = CE
    BY <1>1, <2>1, HasHeadTail DEF Takes
  <2>3. UNCHANGED ups
    BY <2>2, LifeFrame DEF RunConnectEstablished
  <2>4. ASSUME SwapFunctors PROVE ~Has(functors', CE) /\ ~Has(pendingFunctors_', CE)
    BY <2>1, <2>4, HasNothing DEF SwapFunctors
  <2>5. ~Has(pendingFunctors_', CE)
    <3>1. ASSUME NEW f \in FunctorSet, Queues(f) PROVE ~Has(pendingFunctors_', CE)
      BY <1>1, <2>1, <3>1, HasAppend DEF Queues, QueueInLoop
    <3> QED
      BY <2>1, <2>4, <3>1, QueueFrame DEF Has
  <2>6. ~Has(functors', CE)
    <3>1. ASSUME NEW op, Takes(op) PROVE ~Has(functors', CE)
      BY <1>1, <2>1, <3>1, HasHeadTail DEF Takes
    <3> QED
      BY <2>1, <2>4, <3>1, BatchFrame DEF Has
  <2> QED
    BY <1>3, <2>3, <2>5, <2>6 DEF Birth, Has
<1> QED
  BY <1>1, <1>2, <1>3

-----------------------------------------------------------------------------
(* The initial state.                                                      *)
LEMMA InitType == Init => TypeOK /\ Birth
<1> SUFFICES ASSUME Init PROVE TypeOK /\ Birth
  OBVIOUS
<1> USE DEF Init
<1>1. Functor("connectEstablished") \in FunctorSet /\ <<>> \in Seq(FunctorSet) /\ <<>> \in Seq(Units)
  BY FunctorTypes
<1>2. /\ pendingFunctors_ \in Seq(FunctorSet) /\ pendingFunctors_ # <<>>
      /\ Head(pendingFunctors_) = Functor("connectEstablished") /\ Tail(pendingFunctors_) = <<>>
  BY <1>1
<1>3. TypeOK
  <2>1. /\ stat_ = "kConnecting" /\ events_ \subseteq Events /\ index_ \in Indexes
        /\ wrClosed \in BOOLEAN /\ peer = "open"
    BY DEF Indexes
  <2>2. /\ outputBuffer_ \in Seq(Units) /\ written \in Seq(Units) /\ accepted \in Seq(Units)
        /\ functors \in Seq(FunctorSet)
    BY <1>1
  <2>3. cpc \in [Callers -> CallPlaces]
    BY DEF CallPlaces
  <2>4. ups \in 0 .. 1 /\ downs \in 0 .. 2 /\ forceCloses \in 0 .. MaxForceCloses /\ removing \in Nat
    BY SizesAssumption DEF SizesAssumption
  <2> QED
    BY <1>2, <2>1, <2>2, <2>3, <2>4 DEF TypeOK
<1>4. Birth
  BY <1>2, HasNothing DEF Birth, First, Functor
<1> QED
  BY <1>3, <1>4

LEMMA TypeInvariance == Spec => [](TypeOK /\ Birth)
<1>1. TypeOK /\ Birth /\ [Next]_vars => TypeOK' /\ Birth'
  BY TypeStep, BirthStep, OpsAssumption, SizesAssumption
<1> QED
  BY <1>1, InitType, PTL DEF Spec

(* The variables keep their types; connectEstablished runs once, for the   *)
(* server queues it once.                                                  *)
THEOREM TypeCorrect == Spec => []TypeOK
  BY TypeInvariance, PTL

-----------------------------------------------------------------------------
(* The stream of bytes.                                                    *)
LEMMA BrokenStays ==
  ASSUME TypeOK, [Next]_vars, Broken
  PROVE  Broken'
<1>1. wrClosed => wrClosed'
  BY ShutFrame DEF RunShutdownInLoop, LoopShutdown, ShutdownInLoop, DispatchWrite, OutputDrained
<1>2. peer = "dead" => peer' = "dead"
  BY PeerFrame DEF PeerActs
<1> QED
  BY <1>1, <1>2 DEF Broken

(* Only sendInLoop asks for writability.                                   *)
LEMMA WritingStarts ==
  ASSUME TypeOK, [Next]_vars, IsWriting'
  PROVE  IsWriting \/ Sends
<1>1. CASE UNCHANGED <<events_, index_>>
  BY <1>1 DEF IsWriting
<1>2. CASE DispatchWrite
  BY <1>2, WriteEffect DEF IsWriting
<1>3. CASE Closes
  BY <1>3
     DEF Closes, DispatchHangup, DispatchRead, RunForceCloseInLoop, HandleClose,
         UpdateChannel, IsWriting
<1>4. CASE RunConnectEstablished \/ RunConnectDestroyed \/ CallbackReturns
  BY <1>4
     DEF RunConnectEstablished, RunConnectDestroyed, CallbackReturns, UpdateChannel, IsWriting
<1> QED
  BY <1>1, <1>2, <1>3, <1>4, ChannelFrame

LEMMA PrefixOfConcat ==
  ASSUME NEW S, NEW s \in Seq(S), NEW t \in Seq(S), NEW k \in 0 .. Len(s)
  PROVE  SubSeq(s \o t, 1, k) = SubSeq(s, 1, k)
<1>1. Len(s) \in Nat
  BY LenProperties
<1>2. CASE k = 0
  BY <1>2, SubSeqEmpty
<1>3. CASE k # 0
  <2>1. k \in 1 .. Len(s) /\ 1 \in 1 .. Len(s)
    BY <1>1, <1>3
  <2> QED
    BY <2>1, SubSeqOfConcat1
<1> QED
  BY <1>2, <1>3

LEMMA SendKeepsStream ==
  ASSUME TypeOK, SizesAssumption, Stream, NEW d \in Seq(Units), d # <<>>, SendInLoop(d),
         Broken => Broken'
  PROVE  Stream'
<1>1. /\ written \in Seq(Units) /\ outputBuffer_ \in Seq(Units) /\ accepted \in Seq(Units)
      /\ lost \in BOOLEAN
  BY DEF TypeOK
<1>2. Len(written) \in Nat /\ Len(accepted) \in Nat /\ Len(d) \in Nat
  BY <1>1, LenProperties
<1>3. accepted \o d \in Seq(Units) /\ Len(accepted \o d) = Len(accepted) + Len(d)
  BY <1>1, ConcatProperties
<1>4. CASE UNCHANGED <<dataVars, events_>>
  BY <1>4 DEF Stream, dataVars, IsWriting
<1>5. ASSUME MayWriteDirectly, Broken, lost' = TRUE, accepted' = accepted \o d,
             UNCHANGED <<outputBuffer_, written, events_>>
      PROVE  Stream'
  <2>1. outputBuffer_ = <<>> /\ ~IsWriting
    BY <1>5 DEF MayWriteDirectly
  <2>2. Len(written) <= Len(accepted) /\ written = SubSeq(accepted, 1, Len(written))
    <3>1. CASE lost
      BY <3>1 DEF Stream
    <3>2. CASE ~lost
      <4>1. written \o <<>> = accepted
        BY <2>1, <3>2 DEF Stream
      <4>2. written = accepted
        BY <1>1, <4>1, ConcatEmptySeq
      <4> QED
        BY <1>1, <1>2, <4>2, SubSeqFull
    <3> QED
      BY <3>1, <3>2
  <2>3. SubSeq(accepted \o d, 1, Len(written)) = SubSeq(accepted, 1, Len(written))
    <3>1. Len(written) \in 0 .. Len(accepted)
      BY <1>2, <2>2
    <3> QED
      BY <1>1, <3>1, PrefixOfConcat
  <2> QED
    BY <1>2, <1>3, <1>5, <2>1, <2>2, <2>3 DEF Stream, IsWriting
<1>6. ASSUME UNCHANGED lost, accepted' = accepted \o d,
             NEW n \in 0 .. Len(d), n > 0 => MayWriteDirectly, MayWriteDirectly => ~Broken,
             written' = written \o SubSeq(d, 1, n),
             IF n = Len(d)
             THEN UNCHANGED outputBuffer_
             ELSE outputBuffer_' = outputBuffer_ \o SubSeq(d, n + 1, Len(d))
      PROVE  Stream'
  <2> DEFINE first == SubSeq(d, 1, n)
             rest == SubSeq(d, n + 1, Len(d))
  <2>1. first \in Seq(Units) /\ rest \in Seq(Units)
    BY SplitType
  <2>2. Len(first) = n /\ Len(rest) = Len(d) - n
    BY SplitType
  <2>3. first \o rest = d
    BY SplitType
  <2>4. written' = written \o first
    BY <1>6
  <2>5. n # Len(d) => outputBuffer_' = outputBuffer_ \o rest
    BY <1>6
  <2> HIDE DEF first, rest
  <2>6. ~lost
    BY <1>6 DEF Stream, MayWriteDirectly
  <2>7. written \o outputBuffer_ = accepted
    BY <2>6 DEF Stream
  <2>8. outputBuffer_' = outputBuffer_ \o rest
    <3>1. CASE n = Len(d)
      <4>1. rest = <<>>
        BY <1>2, <2>1, <2>2, <3>1, EmptySeq
      <4>2. UNCHANGED outputBuffer_
        BY <1>6, <3>1
      <4> QED
        BY <1>1, <4>1, <4>2, ConcatEmptySeq
    <3> QED
      BY <2>5, <3>1
  <2>9. written' \o outputBuffer_' = accepted \o d
    <3>1. CASE n = 0
      <4>1. first = <<>>
        BY <2>1, <2>2, <3>1, EmptySeq
      <4>2. written' = written /\ rest = d
        BY <1>1, <2>1, <2>4, <2>3, <4>1, ConcatEmptySeq
      <4>3. written \o (outputBuffer_ \o d) = (written \o outputBuffer_) \o d
        BY <1>1, ConcatAssociative
      <4> QED
        BY <2>7, <2>8, <4>2, <4>3
    <3>2. CASE n # 0
      <4>1. outputBuffer_ = <<>>
        BY <1>6, <3>2 DEF MayWriteDirectly
      <4>2. written = accepted /\ outputBuffer_' = rest
        BY <1>1, <2>1, <2>7, <2>8, <4>1, ConcatEmptySeq
      <4>3. (accepted \o first) \o rest = accepted \o (first \o rest)
        <5>1. accepted \in Seq(Units)
          BY <1>1
        <5> QED
          BY ONLY <2>1, <5>1, ConcatAssociative
      <4> QED
        BY <2>4, <2>3, <4>2, <4>3
    <3> QED
      BY <3>1, <3>2
  <2> QED
    BY <1>6, <2>6, <2>9 DEF Stream
<1> QED
  BY <1>4, <1>5, <1>6 DEF SendInLoop, BufferRest

LEMMA StreamStep ==
  ASSUME TypeOK, SizesAssumption, Stream, [Next]_vars
  PROVE  Stream'
<1>1. CASE Sends
  <2>1. PICK m \in Messages \cup {Garbage} : SendInLoop(Data(m))
    BY <1>1, SendsEffect
  <2>2. Data(m) \in Seq(Units) /\ Data(m) # <<>>
    BY DataType, EmptySeq DEF SizesAssumption
  <2> QED
    BY <2>1, <2>2, BrokenStays, SendKeepsStream
<1>2. CASE DispatchWrite
  <2>1. ~IsWriting => UNCHANGED <<outputBuffer_, written, events_>>
    BY <1>2, WriteEffect
  <2>2. written' \o outputBuffer_' = written \o outputBuffer_ /\ UNCHANGED <<accepted, lost>>
    BY <1>2, WriteEffect
  <2> QED
    BY <2>1, <2>2, BrokenStays DEF Stream, IsWriting
<1>3. CASE UNCHANGED dataVars /\ ~Sends
  BY <1>3, BrokenStays, WritingStarts DEF Stream, dataVars
<1> QED
  BY <1>1, <1>2, <1>3, DataFrame

LEMMA StreamInvariance == Spec => []Stream
<1>1. Init => Stream
  BY DEF Init, Stream
<1>2. TypeOK /\ Stream /\ [Next]_vars => Stream'
  BY StreamStep, SizesAssumption
<1> QED
  BY <1>1, <1>2, TypeCorrect, PTL DEF Spec

(* sendInLoop and handleWrite: what the socket was given, followed by what *)
(* is buffered, is what was sent, in order and without gaps, however the   *)
(* kernel splits the writes; once a write failed for good, a prefix.       *)
THEOREM StreamCorrect == Spec => []StreamIntact
<1>1. TypeOK /\ Stream => StreamIntact
  <2> SUFFICES ASSUME TypeOK, Stream PROVE StreamIntact
    OBVIOUS
  <2>1. /\ written \in Seq(Units) /\ accepted \in Seq(Units)
        /\ Len(written) \in Nat /\ Len(accepted) \in Nat
    BY LenProperties DEF TypeOK
  <2>2. CASE lost
    <3>1. written \o outputBuffer_ = written
      BY <2>1, <2>2, ConcatEmptySeq DEF Stream
    <3> QED
      BY <2>2, <3>1 DEF Stream, StreamIntact
  <2>3. CASE ~lost
    <3>1. written \o outputBuffer_ = accepted
      BY <2>3 DEF Stream
    <3>2. SubSeq(accepted, 1, Len(accepted)) = accepted
      BY <2>1, SubSeqFull
    <3> QED
      BY <2>1, <3>1, <3>2 DEF StreamIntact
  <2> QED
    BY <2>2, <2>3
<1> QED
  BY <1>1, TypeCorrect, StreamInvariance, PTL

-----------------------------------------------------------------------------
(* Output and the channel.                                                 *)
LEMMA DownsGrow ==
  ASSUME TypeOK, [Next]_vars
  PROVE  downs' = 0 => UNCHANGED downs
<1>1. CountDown => downs' # 0
  BY DEF TypeOK, CountDown
<1> QED
  BY <1>1, LifeFrame
     DEF Closes, DispatchHangup, DispatchRead, RunForceCloseInLoop, RunConnectDestroyed,
         HandleClose

(* Each way of closing disables the channel and counts.                    *)
LEMMA CloseEffect ==
  ASSUME TypeOK, Closes \/ RunConnectDestroyed
  PROVE  /\ UNCHANGED outputBuffer_
         /\ \/ UNCHANGED <<events_, downs>>
            \/ events_' = {} /\ downs' # 0
<1>1. CountDown => downs' # 0
  BY DEF TypeOK, CountDown
<1> QED
  BY <1>1
     DEF Closes, DispatchHangup, DispatchRead, RunForceCloseInLoop, RunConnectDestroyed,
         HandleClose, UpdateChannel

LEMMA WritingStep ==
  ASSUME TypeOK, SizesAssumption, Writing, [Next]_vars
  PROVE  Writing'
<1>1. ASSUME Sends PROVE Writing'
  <2>1. PICK m \in Messages \cup {Garbage} : SendInLoop(Data(m))
    BY <1>1, SendsEffect
  <2> DEFINE d == Data(m)
  <2>2. d \in Seq(Units)
    BY DataType
  <2> HIDE DEF d
  <2>3. CASE UNCHANGED <<outputBuffer_, events_>>
    BY <2>3, DownsGrow DEF Writing, IsWriting
  <2>4. ASSUME NEW n \in 0 .. Len(d), n # Len(d), BufferRest(SubSeq(d, n + 1, Len(d)))
        PROVE  Writing'
    <3> DEFINE rest == SubSeq(d, n + 1, Len(d))
    <3>1. rest \in Seq(Units) /\ Len(rest) = Len(d) - n /\ Len(d) \in Nat
      BY <2>2, SplitType, LenProperties
    <3>2. BufferRest(rest)
      BY <2>4
    <3> HIDE DEF rest
    <3>3. Len(outputBuffer_ \o rest) = Len(outputBuffer_) + Len(rest) /\ Len(outputBuffer_) \in Nat
      BY <3>1, ConcatProperties, LenProperties DEF TypeOK
    <3>4. outputBuffer_' # <<>>
      <4>1. Len(outputBuffer_') = Len(outputBuffer_) + Len(rest)
        BY <3>2, <3>3 DEF BufferRest
      <4>2. Len(rest) \in Nat \ {0}
        BY ONLY <2>4, <3>1
      <4>3. Len(outputBuffer_') # 0
        BY ONLY <4>1, <4>2, <3>3
      <4> QED
        BY <4>3, EmptySeq
    <3>5. IsWriting'
      BY <3>2 DEF BufferRest, UpdateChannel, IsWriting
    <3> QED
      BY <3>4, <3>5 DEF Writing
  <2> QED
    BY <2>1, <2>3, <2>4 DEF SendInLoop, dataVars, d
<1>2. ASSUME DispatchWrite PROVE Writing'
  <2>1. CASE UNCHANGED <<outputBuffer_, events_>>
    BY <2>1, DownsGrow DEF Writing, IsWriting
  <2>2. CASE IsWriting /\ outputBuffer_' # <<>> /\ UNCHANGED events_
    BY <2>2 DEF Writing, IsWriting
  <2>3. CASE outputBuffer_' = <<>> /\ OutputDrained
    BY <2>3 DEF Writing, IsWriting, OutputDrained, UpdateChannel
  <2> QED
    BY <1>2, <2>1, <2>2, <2>3, WriteEffect
<1>3. ASSUME Closes \/ RunConnectDestroyed PROVE Writing'
  BY <1>3, CloseEffect, DownsGrow DEF Writing, IsWriting
<1>4. ASSUME RunConnectEstablished \/ CallbackReturns PROVE Writing'
  BY <1>4, DownsGrow
     DEF RunConnectEstablished, CallbackReturns, UpdateChannel, Writing, IsWriting
<1>5. ASSUME UNCHANGED <<events_, index_>>, UNCHANGED dataVars PROVE Writing'
  BY <1>5, DownsGrow DEF Writing, IsWriting, dataVars
<1> QED
  BY <1>1, <1>2, <1>3, <1>4, <1>5, DataFrame, ChannelFrame

LEMMA WritingInvariance == Spec => []Writing
<1>1. Init => Writing
  BY DEF Init, Writing, IsWriting
<1>2. TypeOK /\ Writing /\ [Next]_vars => Writing'
  BY WritingStep, SizesAssumption
<1> QED
  BY <1>1, <1>2, TypeCorrect, PTL DEF Spec

(* sendInLoop and handleWrite ask for writability exactly while there is   *)
(* output, so that none is forgotten and epoll does not spin.              *)
THEOREM WritingFollowsOutput == Spec => []WritingIffOutput
<1>1. Writing => WritingIffOutput
  BY DEF Writing, WritingIffOutput
<1> QED
  BY <1>1, WritingInvariance, PTL

(* shutdown(), on any thread: the sending side is shut only when the       *)
(* buffered output has been written, or after the connection was closed.   *)
THEOREM ShutdownIsLate == Spec => ShutdownWaitsForOutput
<1>1. TypeOK /\ Writing /\ [Next]_vars
        => [wrClosed' # wrClosed => outputBuffer_' = <<>> \/ downs > 0]_vars
  <2> SUFFICES ASSUME TypeOK, Writing, [Next]_vars, wrClosed' # wrClosed
               PROVE  outputBuffer_' = <<>> \/ downs > 0
    OBVIOUS
  <2>1. CASE RunShutdownInLoop \/ LoopShutdown
    <3>1. ~IsWriting /\ UNCHANGED outputBuffer_
      BY <2>1 DEF RunShutdownInLoop, LoopShutdown, ShutdownInLoop, objectVars, TypeOK
    <3> QED
      BY <3>1 DEF Writing, TypeOK
  <2>2. CASE DispatchWrite
    BY <2>2, WriteEffect
  <2> QED
    BY <2>1, <2>2, ShutFrame
<1> QED
  BY <1>1, TypeCorrect, WritingInvariance, PTL DEF Spec, ShutdownWaitsForOutput

-----------------------------------------------------------------------------
(* No message after the end.                                               *)
LEMMA ReadingStep ==
  ASSUME TypeOK, Birth, SizesAssumption, Reading, [Next]_vars
  PROVE  Reading'
<1>1. ASSUME Poll PROVE Reading'
  BY <1>1 DEF Poll, Reading, objectVars, historyVars
<1>2. ASSUME DispatchHangup PROVE Reading'
  BY <1>2 DEF DispatchHangup, HandleClose, UpdateChannel, Reading
<1>3. ASSUME DispatchError \/ CloseCallback PROVE Reading'
  BY <1>3 DEF DispatchError, CloseCallback, Reading, objectVars, historyVars, TypeOK
<1>4. ASSUME DispatchRead PROVE Reading'
  BY <1>4 DEF DispatchRead, HandleClose, UpdateChannel, Reading
<1>5. ASSUME DispatchWrite PROVE Reading'
  <2>1. events_' \subseteq events_ /\ UNCHANGED <<downs, pc>> /\ pc = "dispatch" /\ revents' = {}
    BY <1>5, WriteEffect DEF DispatchWrite, OutputDrained, UpdateChannel
  <2> QED
    BY <2>1 DEF Reading
<1>6. ASSUME SwapFunctors \/ EndBatch PROVE Reading'
  BY <1>6 DEF SwapFunctors, EndBatch, Reading, objectVars, historyVars
<1>7. ASSUME CallbackReturns PROVE Reading'
  BY <1>7 DEF CallbackReturns, Reading, objectVars, historyVars
<1>8. ASSUME RunConnectEstablished PROVE Reading'
  <2>1. Has(functors, "connectEstablished")
    BY <1>8, TakesType, HasHeadTail DEF RunConnectEstablished, Takes, TypeOK
  <2>2. downs = 0
    BY <2>1 DEF Birth
  <2> QED
    BY <1>8, <2>2 DEF RunConnectEstablished, Takes, UpdateChannel, Reading
<1>9. ASSUME RunForceCloseInLoop \/ RunConnectDestroyed \/ RunUserFunctor PROVE Reading'
  BY <1>9
     DEF RunForceCloseInLoop, RunConnectDestroyed, RunUserFunctor, Takes, HandleClose,
         UpdateChannel, Reading, objectVars, historyVars
<1>10. ASSUME Sends PROVE Reading'
  <2>1. SendEffects
    BY <1>10, SendsEffect
  <2>2. UNCHANGED <<pc, revents, downs>>
    BY <1>10 DEF Sends, RunSendInLoop, LoopSend, loopVars
  <2> QED
    BY <2>1, <2>2 DEF SendEffects, Reading
<1>11. ASSUME UNCHANGED <<pc, ret, revents, batchHolds>>, UNCHANGED <<events_, index_>>,
              UNCHANGED downs
       PROVE  Reading'
  BY <1>11 DEF Reading
<1> QED
  BY <1>1, <1>2, <1>3, <1>4, <1>5, <1>6, <1>7, <1>8, <1>9, <1>10, <1>11,
     LoopFrame, ChannelFrame, LifeFrame DEF Closes

LEMMA ReadingInvariance == Spec => []Reading
<1>1. Init => Reading
  BY DEF Init, Reading
<1>2. TypeOK /\ Birth /\ Reading /\ [Next]_vars => Reading'
  BY ReadingStep, SizesAssumption
<1> QED
  BY <1>1, <1>2, TypeInvariance, PTL DEF Spec

(* handleEvent: a close in its middle leaves nothing to be read, whatever  *)
(* other threads call and whenever the server ends.                        *)
THEOREM NoMessageAfterDown == Spec => []NoMessageOnceDown
<1>1. Reading => NoMessageOnceDown
  BY DEF Reading, NoMessageOnceDown
<1> QED
  BY <1>1, ReadingInvariance, PTL

-----------------------------------------------------------------------------
(* From here on, other threads only send.  No state is written but by the  *)
(* loop thread.                                                            *)
LEMMA LoopOwnsState ==
  ASSUME SendOnly, [Next]_vars
  PROVE  /\ ~DestroyServer
         /\ \A t \in Callers, op \in CallerOps : ~CallSetsState(t, op)
  BY DEF SendOnly, DestroyServer, CallSetsState

(* The connection is closed, and the user told.                            *)
Closing ==
  /\ ups = 1 /\ downs = 0 /\ downs' = 1
  /\ stat_' = "kDisconnected" /\ events_' = {} /\ index_' = kDeleted
  /\ pc \in {"dispatch", "functors"} /\ pc' = "downClose"

LEMMA CloseOnce ==
  ASSUME TypeOK, Birth, Told, Owned, Closes
  PROVE  \/ Closing /\ revents' \cap {"in", "hup"} = {}
         \/ /\ UNCHANGED <<stat_, events_, index_, downs>>
            /\ UNCHANGED pc \/ (pc = "dispatch" /\ pc' = "message" /\ downs = 0 /\ ups = 1)
            /\ revents' \cap {"in", "hup"} # {} => pc' = "dispatch" /\ downs = 0
<1>1. ups \in 0 .. 1 /\ ret \in {"dispatch", "functors"}
  BY DEF TypeOK
<1>2. pc = "dispatch" => ups = 1
  BY <1>1 DEF Birth
<1>3. ASSUME ups = 1, downs = 0, UpdateChannel({}), CountDown
      PROVE  downs' = 1 /\ events_' = {} /\ index_' = kDeleted
  BY <1>3 DEF Owned, UpdateChannel, IndexAfterUpdate, CountDown, kAdded, kDeleted
<1>4. CASE DispatchHangup
  BY <1>1, <1>2, <1>3, <1>4 DEF DispatchHangup, HandleClose, Closing, Told
<1>5. CASE DispatchRead
  BY <1>1, <1>2, <1>3, <1>5 DEF DispatchRead, HandleClose, Closing, Told
<1>6. CASE RunForceCloseInLoop
  BY <1>1, <1>3, <1>6 DEF RunForceCloseInLoop, Takes, HandleClose, StillOpen, Closing, Told
<1> QED
  BY <1>4, <1>5, <1>6 DEF Closes

(* connectDestroyed finds the connection closed: it removes the channel    *)
(* and calls nobody.                                                       *)
LEMMA DestroyedQuietly ==
  ASSUME TypeOK, Birth, Told, Owned, RunConnectDestroyed
  PROVE  /\ downs = 1 /\ pc = "functors" /\ index_' = kNew
         /\ UNCHANGED <<stat_, events_, downs, ups, pc, revents, batchHolds>>
<1>1. Takes("connectDestroyed")
  BY DEF RunConnectDestroyed
<1>2. Has(functors, "connectDestroyed") /\ pc = "functors"
  BY <1>1, TakesType, HasHeadTail DEF Takes, TypeOK
<1>3. downs \in {0, 1, 2} /\ downs # 0 /\ downs # 2
  <2>1. downs \in 0 .. 2 /\ downs <= 1
    BY DEF TypeOK, Told
  <2>2. downs # 0
    BY <1>2 DEF Owned
  <2> QED
    BY <2>1, <2>2
<1>4. stat_ = "kDisconnected"
  BY <1>3 DEF Told
<1> QED
  BY <1>2, <1>3, <1>4 DEF RunConnectDestroyed, RemoveChannel

(* connectEstablished runs first.                                          *)
LEMMA EstablishedFirst ==
  ASSUME TypeOK, Birth, RunConnectEstablished
  PROVE  /\ ups = 0 /\ ups' = 1 /\ downs = 0 /\ UNCHANGED <<downs, revents, batchHolds>>
         /\ pc = "functors" /\ pc' = "up" /\ stat_' = "kConnected"
         /\ index_' = kAdded /\ events_' = {"read"}
<1>1. Has(functors, "connectEstablished")
  BY TakesType, HasHeadTail DEF RunConnectEstablished, Takes, TypeOK
<1>2. ups = 0
  BY <1>1 DEF Birth
<1>3. downs = 0 /\ index_ = kNew /\ events_ = {}
  BY <1>2 DEF Birth
<1> QED
  BY <1>2, <1>3
     DEF RunConnectEstablished, Takes, UpdateChannel, IndexAfterUpdate, kNew, kAdded

(* handleWrite and sendInLoop leave a channel that reads registered, and   *)
(* never touch one that is disabled.                                       *)
LEMMA OutputKeepsChannel ==
  ASSUME TypeOK, SizesAssumption, Birth, Told, Owned, Sends \/ DispatchWrite
  PROVE  \/ UNCHANGED <<events_, index_>>
         \/ ups = 1 /\ downs = 0 /\ index_' = kAdded /\ "read" \in events_'
<1>1. downs \in {0, 1} /\ ups \in {0, 1}
  <2>1. downs \in 0 .. 2 /\ downs <= 1 /\ ups \in 0 .. 1
    BY DEF TypeOK, Told
  <2> QED
    BY <2>1
<1>2. ASSUME DispatchWrite, ~UNCHANGED <<events_, index_>>
      PROVE  ups = 1 /\ downs = 0 /\ index_' = kAdded /\ "read" \in events_'
  <2>1. IsWriting /\ OutputDrained
    BY <1>2, WriteEffect
  <2>2. ups = 1 /\ downs = 0
    BY <1>1, <2>1 DEF Owned, IsWriting, Birth
  <2>3. index_ = kAdded /\ "read" \in events_
    BY <2>2 DEF Owned
  <2> QED
    BY <2>1, <2>2, <2>3 DEF OutputDrained, UpdateChannel, IndexAfterUpdate
<1>3. ASSUME Sends, ~UNCHANGED <<events_, index_>>
      PROVE  ups = 1 /\ downs = 0 /\ index_' = kAdded /\ "read" \in events_'
  <2>1. stat_ # "kDisconnected" /\ UpdateChannel(events_ \cup {"write"})
    BY <1>3, SendsEffect DEF SendInLoop, BufferRest
  <2>2. downs = 0
    BY <1>1, <2>1 DEF Told
  <2>3. ups = 1
    <3>1. CASE RunSendInLoop
      BY <1>1, <3>1 DEF RunSendInLoop, Takes, Birth, First
    <3>2. CASE \E m \in Messages : LoopSend(m)
      BY <1>1, <3>2 DEF LoopSend, Birth, UserCode
    <3> QED
      BY <1>3, <3>1, <3>2 DEF Sends
  <2>4. index_ = kAdded /\ "read" \in events_
    BY <2>2, <2>3 DEF Owned
  <2> QED
    BY <2>1, <2>2, <2>3, <2>4 DEF UpdateChannel, IndexAfterUpdate
<1> QED
  BY <1>2, <1>3

-----------------------------------------------------------------------------
(* stat_ goes on saying what the user was told.                            *)
LEMMA ToldStep ==
  ASSUME TypeOK, SizesAssumption, Birth, Told, Owned, SendOnly, [Next]_vars
  PROVE  Told'
<1>1. serverAlive'
  BY ServerFrame, LoopOwnsState
     DEF Told, serverVars, CloseCallback, RemoveConnectionInLoop
<1>2. \A t \in Callers : cpc'[t] \in {"none", "idle", "send", "released"}
  <2>1. cpc \in [Callers -> CallPlaces] /\ CallerOps \subseteq {"send"}
    BY DEF TypeOK, SendOnly
  <2>2. ASSUME NEW t \in Callers, HandOut(t) PROVE cpc'[t] = "idle" /\ \A u \in Callers \ {t} : cpc'[u] = cpc[u]
    BY <2>1, <2>2 DEF HandOut
  <2>3. ASSUME NEW t \in Callers, NEW op \in CallerOps, CallChecks(t, op)
        PROVE  cpc'[t] = "send" /\ \A u \in Callers \ {t} : cpc'[u] = cpc[u]
    BY <2>1, <2>3 DEF CallChecks, Goto
  <2>4. ASSUME NEW t \in Callers, NEW from, Goto(t, from, "idle")
        PROVE  cpc'[t] = "idle" /\ \A u \in Callers \ {t} : cpc'[u] = cpc[u]
    BY <2>1, <2>4 DEF Goto
  <2>5. ASSUME NEW t \in Callers, Release(t)
        PROVE  cpc'[t] = "released" /\ \A u \in Callers \ {t} : cpc'[u] = cpc[u]
    BY <2>1, <2>5 DEF Release, Goto
  <2>6. \A t \in Callers : cpc[t] \in {"none", "idle", "send", "released"}
    BY DEF Told
  <2> QED
    BY <2>2, <2>3, <2>4, <2>5, <2>6, CallerFrame, LoopOwnsState
<1> DEFINE Rest ==
      /\ downs <= 1
      /\ ups = 1 /\ downs = 0 <=> stat_ \in {"kConnected", "kDisconnecting"}
      /\ downs = 1 <=> stat_ = "kDisconnected"
      /\ pc # "downDestroy" /\ (pc = "downClose" => downs = 1) /\ (pc = "up" => downs = 0)
      /\ revents \cap {"in", "hup"} # {} => pc = "dispatch" /\ downs = 0
<1>3. Rest /\ ups \in {0, 1} /\ downs \in {0, 1}
  <2>1. downs \in 0 .. 2 /\ downs <= 1 /\ ups \in 0 .. 1
    BY DEF TypeOK, Told
  <2> QED
    BY <2>1 DEF Told
<1>4. ASSUME RunConnectEstablished PROVE Rest'
  BY <1>3, <1>4, EstablishedFirst
<1>5. ASSUME Closes PROVE Rest'
  <2>1. UNCHANGED ups
    BY <1>5 DEF Closes, DispatchHangup, DispatchRead, RunForceCloseInLoop
  <2>2. CASE Closing /\ revents' \cap {"in", "hup"} = {}
    BY <1>3, <2>1, <2>2 DEF Closing
  <2>3. CASE /\ UNCHANGED <<stat_, events_, index_, downs>>
             /\ UNCHANGED pc \/ (pc = "dispatch" /\ pc' = "message" /\ downs = 0 /\ ups = 1)
             /\ revents' \cap {"in", "hup"} # {} => pc' = "dispatch" /\ downs = 0
    BY <1>3, <2>1, <2>3
  <2> QED
    BY <1>5, <2>2, <2>3, CloseOnce
<1>6. ASSUME RunConnectDestroyed PROVE Rest'
  BY <1>3, <1>6, DestroyedQuietly
<1>7. ASSUME UNCHANGED <<ups, downs, stat_>>,
             /\ pc' \notin {"downDestroy", "downClose", "up"} \/ UNCHANGED pc
             /\ revents' \cap {"in", "hup"} # {} => pc' = "dispatch" /\ downs = 0
      PROVE  Rest'
  BY <1>3, <1>7
<1>8. ASSUME Poll PROVE Rest'
  <2>1. index_ = kAdded /\ pc' = "dispatch" /\ UNCHANGED <<ups, downs, stat_>>
    BY <1>8 DEF Poll, objectVars, historyVars
  <2>2. downs = 0
    BY <1>3, <2>1 DEF Owned
  <2> QED
    BY <1>7, <2>1, <2>2
<1>9. ASSUME DispatchError \/ DispatchWrite PROVE Rest'
  BY <1>3, <1>7, <1>9 DEF DispatchError, DispatchWrite, objectVars, historyVars
<1>10. ASSUME CloseCallback PROVE Rest'
  BY <1>3, <1>7, <1>10 DEF CloseCallback, objectVars, historyVars, TypeOK
<1>11. ASSUME SwapFunctors \/ EndBatch \/ CallbackReturns \/ RunUserFunctor PROVE Rest'
  BY <1>3, <1>7, <1>11
     DEF SwapFunctors, EndBatch, CallbackReturns, RunUserFunctor, Takes, objectVars, historyVars
<1>12. ASSUME UNCHANGED <<pc, ret, revents, batchHolds>>, ~Closes, ~RunConnectEstablished,
              ~RunConnectDestroyed
       PROVE  Rest'
  <2>1. UNCHANGED <<ups, downs>>
    BY <1>12, LifeFrame
  <2>2. CASE UNCHANGED stat_
    BY <1>3, <1>7, <1>12, <2>1, <2>2
  <2>3. CASE LoopShutdown \/ LoopForceClose
    <3>1. stat_ \in {"kConnected", "kDisconnecting"} /\ stat_' = "kDisconnecting"
      BY <2>3 DEF LoopShutdown, LoopForceClose
    <3> QED
      BY <1>3, <1>12, <2>1, <3>1
  <2> QED
    BY <1>12, <2>2, <2>3, StateFrame, LoopOwnsState
<1>13. Rest'
  BY <1>4, <1>5, <1>6, <1>8, <1>9, <1>10, <1>11, <1>12, LoopFrame
<1> QED
  BY <1>1, <1>2, <1>13 DEF Told

-----------------------------------------------------------------------------
(* The map, the functors and the channel go on agreeing.                   *)
LEMMA DestroyedQueued ==
  ASSUME TypeOK, SizesAssumption, [Next]_vars
  PROVE  LET CD == "connectDestroyed"
         IN  /\ Has(pendingFunctors_', CD) =>
                  Has(pendingFunctors_, CD) \/ RemoveConnectionInLoop \/ DestroyServer
             /\ Has(functors', CD) => Has(functors, CD) \/ Has(pendingFunctors_, CD)
             /\ Has(pendingFunctors_, CD) \/ Has(functors, CD) =>
                  \/ Has(pendingFunctors_', CD) \/ Has(functors', CD)
                  \/ RunConnectDestroyed
<1> DEFINE CD == "connectDestroyed"
<1>1. pendingFunctors_ \in Seq(FunctorSet) /\ functors \in Seq(FunctorSet)
  BY DEF TypeOK
<1>2. ASSUME SwapFunctors
      PROVE  ~Has(pendingFunctors_', CD) /\ functors' = pendingFunctors_
  BY <1>2, HasNothing DEF SwapFunctors
<1>3. ASSUME SwapFunctors PROVE ~Has(functors, CD)
  <2>1. functors = <<>>
    BY <1>3 DEF SwapFunctors, TypeOK, InBatch
  <2> QED
    BY <2>1, HasNothing
<1>4. ASSUME NEW f \in FunctorSet, Queues(f)
      PROVE  /\ Has(pendingFunctors_', CD) <=> Has(pendingFunctors_, CD) \/ f.op = CD
             /\ f.op = CD => RemoveConnectionInLoop \/ DestroyServer
  BY <1>1, <1>4, HasAppend DEF Queues, QueueInLoop
<1>5. ASSUME NEW op, Takes(op)
      PROVE  Has(functors, CD) <=> Has(functors', CD) \/ op = CD
  BY <1>1, <1>5, HasHeadTail DEF Takes
<1>6. Takes(CD) => UNCHANGED functors \/ RunConnectDestroyed
  BY TakesDestroyed
<1>7. UNCHANGED functors => (Has(functors', CD) <=> Has(functors, CD))
  BY DEF Has
<1>8. UNCHANGED pendingFunctors_ => (Has(pendingFunctors_', CD) <=> Has(pendingFunctors_, CD))
  BY DEF Has
<1>9. /\ Has(pendingFunctors_', CD) =>
           Has(pendingFunctors_, CD) \/ RemoveConnectionInLoop \/ DestroyServer
      /\ Has(pendingFunctors_, CD) => Has(pendingFunctors_', CD) \/ SwapFunctors
  BY <1>2, <1>4, <1>8, QueueFrame
<1>10. /\ Has(functors', CD) => Has(functors, CD) \/ Has(pendingFunctors_, CD)
       /\ Has(functors, CD) => Has(functors', CD) \/ SwapFunctors \/ RunConnectDestroyed
  <2>1. CASE UNCHANGED functors
    BY <1>7, <2>1
  <2>2. CASE SwapFunctors
    BY <1>2, <2>2
  <2>3. CASE \E op : Takes(op)
    <3>1. PICK op : Takes(op)
      BY <2>3
    <3> QED
      BY <1>5, <1>6, <1>7, <3>1
  <2> QED
    BY <2>1, <2>2, <2>3, BatchFrame
<1> QED
  BY <1>2, <1>3, <1>9, <1>10

LEMMA OwnedStep ==
  ASSUME TypeOK, SizesAssumption, Birth, Told, Owned, SendOnly, [Next]_vars
  PROVE  Owned'
<1> DEFINE CD == "connectDestroyed"
<1>1. downs \in {0, 1} /\ ups \in {0, 1}
  <2>1. downs \in 0 .. 2 /\ downs <= 1 /\ ups \in 0 .. 1
    BY DEF TypeOK, Told
  <2> QED
    BY <2>1
<1>2. downs' = 0 \/ pc' = "downClose" => downs = 0 \/ (pc = "downClose" /\ ~CloseCallback)
  <2>1. downs' = 0 => downs = 0
    BY DownsGrow
  <2>2. ASSUME pc' = "downClose" PROVE downs = 0 \/ (pc = "downClose" /\ ~CloseCallback)
    <3>1. CASE Closes
      BY <2>2, <3>1, CloseOnce DEF Closing, Closes, CloseCallback, DispatchHangup, DispatchRead,
         RunForceCloseInLoop, Takes
    <3>2. CASE RunConnectDestroyed
      BY <2>2, <3>2, DestroyedQuietly
    <3>3. CASE /\ UNCHANGED <<pc, ret, revents, batchHolds>> /\ ~CloseCallback
      BY <2>2, <3>3
    <3>4. ~(Poll \/ SwapFunctors \/ EndBatch \/ CallbackReturns \/ RunConnectEstablished \/ RunUserFunctor)
      BY <2>2 DEF Poll, SwapFunctors, EndBatch, CallbackReturns, RunConnectEstablished, RunUserFunctor
    <3>5. ASSUME DispatchError \/ DispatchWrite PROVE FALSE
      BY <2>2, <3>5 DEF DispatchError, DispatchWrite
    <3>6. ~CloseCallback
      BY <2>2 DEF CloseCallback, TypeOK
    <3> QED
      BY <3>1, <3>2, <3>3, <3>4, <3>5, <3>6, LoopFrame
  <2> QED
    BY <2>1, <2>2, <1>1, DownsGrow DEF CloseCallback, Told
<1>3. downs' = 0 \/ pc' = "downClose" =>
        /\ inMap' /\ removing' = 0
        /\ ~Has(pendingFunctors_', CD) /\ ~Has(functors', CD)
  <2> HAVE downs' = 0 \/ pc' = "downClose"
  <2>1. /\ inMap /\ removing = 0 /\ ~Has(pendingFunctors_, CD) /\ ~Has(functors, CD)
        /\ ~CloseCallback
    <3>1. CloseCallback => downs = 1
      BY DEF CloseCallback, Told
    <3> QED
      BY <1>1, <1>2, <3>1 DEF Owned
  <2>2. ~RemoveConnectionInLoop /\ ~DestroyServer
    BY <2>1, LoopOwnsState DEF RemoveConnectionInLoop
  <2> QED
    BY <2>1, <2>2, ServerFrame, DestroyedQueued DEF serverVars
<1>4. ~inMap' /\ index_' # kNew => Has(pendingFunctors_', CD) \/ Has(functors', CD)
  <2> HAVE ~inMap' /\ index_' # kNew
  <2>1. CASE RemoveConnectionInLoop
    <3>1. pendingFunctors_' = Append(pendingFunctors_, Functor(CD))
      BY <2>1 DEF RemoveConnectionInLoop, QueueInLoop, Told
    <3>2. Functor(CD) \in FunctorSet /\ Functor(CD).op = CD
      BY FunctorTypes DEF Functor
    <3> QED
      BY <3>1, <3>2, HasAppend DEF TypeOK
  <2>2. CASE ~RemoveConnectionInLoop
    <3>1. ~inMap
      BY <2>2, ServerFrame, LoopOwnsState DEF serverVars, CloseCallback
    <3>2. downs = 1 /\ pc # "downClose"
      BY <1>1, <3>1 DEF Owned
    <3>3. index_ # kNew /\ ~RunConnectDestroyed
      <4>1. ~Closing /\ ~RunConnectEstablished
        BY <3>2, EstablishedFirst DEF Closing
      <4>2. ~RunConnectDestroyed
        BY DestroyedQuietly
      <4>3. CallbackReturns => UNCHANGED index_
        BY DEF CallbackReturns, Told
      <4> QED
        BY <3>2, <4>1, <4>2, <4>3, ChannelFrame, CloseOnce, OutputKeepsChannel
    <3> QED
      BY <3>1, <3>3, DestroyedQueued DEF Owned
  <2> QED
    BY <2>1, <2>2
<1>5. HoldsConnection(functors') => batchHolds'
  <2>1. CASE SwapFunctors
    BY <2>1 DEF SwapFunctors
  <2>2. CASE EndBatch
    BY <2>2, EmptySeq DEF EndBatch, HoldsConnection
  <2>3. CASE ~SwapFunctors /\ ~EndBatch
    <3>1. UNCHANGED batchHolds
      BY <2>3, BatchHoldsFrame
    <3>2. HoldsConnection(functors') => HoldsConnection(functors)
      <4>1. ASSUME NEW op, Takes(op) PROVE HoldsConnection(functors') => HoldsConnection(functors)
        BY <4>1, HoldsTail DEF Takes, TypeOK
      <4>2. CASE UNCHANGED functors
        BY <4>2 DEF HoldsConnection
      <4> QED
        BY <2>3, <4>1, <4>2, BatchFrame
    <3> QED
      BY <3>1, <3>2 DEF Owned
  <2> QED
    BY <2>1, <2>2, <2>3
<1>6. pc' = "userFunctor" => batchHolds'
  <2> HAVE pc' = "userFunctor"
  <2>1. CASE RunUserFunctor
    <3>1. functors # <<>> /\ ~IsRaw(Head(functors)) /\ UNCHANGED batchHolds
      BY <2>1 DEF RunUserFunctor, Takes, IsRaw
    <3>2. HoldsConnection(functors)
      BY <3>1, HoldsTail DEF TypeOK
    <3> QED
      BY <3>1, <3>2 DEF Owned
  <2>2. CASE ~RunUserFunctor
    <3>1. UNCHANGED <<pc, batchHolds>>
      <4>1. ~RunConnectEstablished /\ ~RunConnectDestroyed
        BY EstablishedFirst, DestroyedQuietly
      <4>2. ~(Poll \/ SwapFunctors \/ EndBatch \/ CallbackReturns)
        BY DEF Poll, SwapFunctors, EndBatch, CallbackReturns
      <4>3. ~CloseCallback
        BY DEF CloseCallback, TypeOK
      <4>4. ~Closes
        BY CloseOnce DEF Closing, Closes, DispatchHangup, DispatchRead, RunForceCloseInLoop, Takes
      <4>5. ~DispatchError /\ ~DispatchWrite
        BY DEF DispatchError, DispatchWrite
      <4> QED
        BY <2>2, <4>1, <4>2, <4>3, <4>4, <4>5, LoopFrame
    <3> QED
      BY <3>1 DEF Owned
  <2> QED
    BY <2>1, <2>2
<1>7. /\ ups' = 1 /\ downs' = 0 => index_' = kAdded /\ "read" \in events_'
      /\ downs' > 0 => index_' # kAdded /\ events_' = {}
  <2>1. /\ ups = 1 /\ downs = 0 => index_ = kAdded /\ "read" \in events_
        /\ downs > 0 => index_ # kAdded /\ events_ = {}
    BY DEF Owned
  <2>2. CASE RunConnectEstablished
    BY <2>2, EstablishedFirst
  <2>3. CASE RunConnectDestroyed
    BY <2>1, <2>3, DestroyedQuietly DEF kNew, kAdded
  <2>4. CASE Closing
    BY <2>4 DEF Closing, kAdded, kDeleted
  <2>5. CASE UNCHANGED <<ups, downs, events_, index_>>
    BY <2>1, <2>5
  <2>6. CASE UNCHANGED <<ups, downs>> /\ ups = 1 /\ downs = 0 /\ index_' = kAdded /\ "read" \in events_'
    BY <2>6
  <2>7. CASE CallbackReturns
    <3>1. UNCHANGED <<ups, downs, events_, index_>>
      BY <2>7 DEF CallbackReturns, historyVars, Told
    <3> QED
      BY <2>5, <3>1
  <2>8. CASE Closes
    <3>1. UNCHANGED ups
      BY <2>8 DEF Closes, DispatchHangup, DispatchRead, RunForceCloseInLoop
    <3> QED
      BY <2>4, <2>5, <2>8, <3>1, CloseOnce
  <2> QED
    BY <2>2, <2>3, <2>5, <2>6, <2>7, <2>8, ChannelFrame, LifeFrame, OutputKeepsChannel
<1> QED
  BY <1>3, <1>4, <1>5, <1>6, <1>7 DEF Owned

LEMMA OwnedInvariance ==
  ASSUME SendOnly
  PROVE  Spec => [](TypeOK /\ Birth /\ Told /\ Owned)
<1>1. Init => Told /\ Owned
  <2> SUFFICES ASSUME Init PROVE Told /\ Owned
    OBVIOUS
  <2>1. /\ pendingFunctors_ = <<Functor("connectEstablished")>> /\ functors = <<>>
        /\ pendingFunctors_[1].op = "connectEstablished" /\ DOMAIN pendingFunctors_ = {1}
    BY DEF Init, Functor
  <2>2. /\ ~Has(pendingFunctors_, "connectDestroyed") /\ ~Has(functors, "connectDestroyed")
        /\ ~HoldsConnection(functors)
    BY <2>1, HasNothing, EmptySeq DEF Has, HoldsConnection
  <2> QED
    BY <2>2 DEF Init, Told, Owned
<1>2. TypeOK /\ Birth /\ Told /\ Owned /\ [Next]_vars => Told' /\ Owned'
  BY ToldStep, OwnedStep, SizesAssumption
<1> QED
  BY <1>1, <1>2, TypeInvariance, PTL DEF Spec

(* connectEstablished, handleClose and connectDestroyed with the server's  *)
(* removeConnection: the channel of a connection that is up is registered  *)
(* and reads, that of one that is down is disabled and stays so, and the   *)
(* poller has forgotten it before the object goes away.                    *)
THEOREM ChannelGoesFirst ==
  ASSUME SendOnly
  PROVE  Spec => []ChannelFollowsLife
<1>1. TypeOK /\ Owned => ChannelFollowsLife
  <2> SUFFICES ASSUME TypeOK, Owned PROVE ChannelFollowsLife
    OBVIOUS
  <2>1. ~Alive => ~inMap /\ ~HoldsConnection(pendingFunctors_) /\ ~HoldsConnection(functors)
    BY DEF Alive, Owned
  <2>2. ~Alive => ~Has(pendingFunctors_, "connectDestroyed") /\ ~Has(functors, "connectDestroyed")
    BY <2>1, HasHolds
  <2> QED
    BY <2>1, <2>2 DEF ChannelFollowsLife, Owned
<1> QED
  BY <1>1, OwnedInvariance, PTL

-----------------------------------------------------------------------------
(* Nothing brings a destroyed connection back, or calls it.                *)
LEMMA DeadStep ==
  ASSUME TypeOK, Birth, Told, Owned, SendOnly, ~Alive, [Next]_vars
  PROVE  ~Alive' /\ UNCHANGED <<ups, downs>> /\ downs = 1
<1>1. /\ ~inMap /\ removing = 0 /\ ~batchHolds /\ pc \notin {"dispatch", "message"}
      /\ ~HoldsConnection(pendingFunctors_) /\ ~HoldsConnection(functors)
      /\ \A t \in Callers : cpc[t] \in {"none", "released"}
  BY DEF Alive, Guarded, TypeOK, Owned
<1>2. downs = 1 /\ pc \notin UserCode
  <2>1. downs \in 0 .. 2 /\ downs <= 1
    BY DEF TypeOK, Told
  <2>2. downs # 0 /\ pc # "downClose"
    BY <1>1 DEF Owned
  <2> QED
    BY <1>1, <2>1, <2>2 DEF Told, UserCode, Owned
<1>3. ASSUME NEW op, Takes(op) PROVE op \in {"sendInLoop", "shutdownInLoop"}
  <2>1. IsRaw(Head(functors))
    BY <1>1, <1>3, HoldsTail DEF Takes, TypeOK
  <2> QED
    BY <1>3, <2>1 DEF Takes, IsRaw
<1>4. UNCHANGED vars \/ PeerActs \/ SwapFunctors \/ EndBatch \/ RunOnDestroyed
  <2>1. ~Poll /\ ~Dispatch /\ ~CloseCallback /\ ~CallbackReturns /\ ~LoopCalls
    BY <1>1, <1>2
       DEF Poll, Dispatch, DispatchHangup, DispatchError, DispatchRead, DispatchWrite,
           CloseCallback, CallbackReturns, LoopCalls, LoopSend, LoopShutdown, LoopForceClose,
           HandOut, UserCode
  <2>2. RunFunctor => RunOnDestroyed
    BY <1>3
       DEF RunFunctor, RunConnectEstablished, RunSendInLoop, RunShutdownInLoop,
           RunForceCloseInLoop, RunConnectDestroyed, RunUserFunctor
  <2>3. \A t \in Callers : ~CallStep(t) /\ ~Release(t) /\ \A op \in CallerOps : ~CallChecks(t, op)
    BY <1>1
       DEF CallStep, CallChecks, CallSendQueues, CallSendNothing, CallSetsState,
           CallShutdownQueues, CallForceCloseQueues, Release, Goto
  <2>4. ~RemoveConnectionInLoop /\ ~DestroyServer
    BY <1>1, LoopOwnsState DEF RemoveConnectionInLoop
  <2> QED
    BY <2>1, <2>2, <2>3, <2>4 DEF Next, LoopStep
<1>5. UNCHANGED <<inMap, removing, cpc, ups, downs>>
  BY <1>4 DEF vars, PeerActs, SwapFunctors, EndBatch, RunOnDestroyed, serverVars, historyVars
<1>6. ~batchHolds' /\ pc' \notin {"dispatch", "message"} /\ (pc' = "downClose" => pc = "downClose")
  BY <1>1, <1>4 DEF vars, PeerActs, SwapFunctors, EndBatch, RunOnDestroyed, loopVars
<1>7. ~HoldsConnection(pendingFunctors_')
  <2>1. UNCHANGED pendingFunctors_ \/ pendingFunctors_' = <<>>
    BY <1>4 DEF vars, PeerActs, SwapFunctors, EndBatch, RunOnDestroyed
  <2>2. ~HoldsConnection(<<>>)
    BY EmptySeq DEF HoldsConnection
  <2> QED
    BY <1>1, <2>1, <2>2 DEF HoldsConnection
<1>8. ~(\E t \in Callers : cpc'[t] \notin {"none", "released"})
  BY <1>1, <1>5
<1>9. ~inMap' /\ ~(removing' > 0) /\ ~Guarded'
  BY <1>1, <1>2, <1>5, <1>6 DEF Guarded, UserCode
<1> QED
  BY <1>2, <1>5, <1>6, <1>7, <1>8, <1>9 DEF Alive

(* What the abstract specification sees.                                   *)
LifeSeen ==
  IF ups = 0 THEN "connecting"
  ELSE IF downs = 0 THEN "up"
  ELSE IF Alive THEN "down" ELSE "gone"
CallbackSeen ==
  CASE pc = "up" -> "up"
    [] pc = "message" -> "message"
    [] pc \in {"downClose", "downDestroy"} -> "down"
    [] OTHER -> "none"

(* The user's callbacks and the object's end, step by step.                *)
LEMMA LifecycleStep ==
  ASSUME TypeOK, SizesAssumption, Birth, Reading, Told, Owned, SendOnly, [Next]_vars,
         Owned', Told', TypeOK', Reading'
  PROVE  \/ UNCHANGED <<LifeSeen, CallbackSeen>>
         \/ /\ LifeSeen = "connecting" /\ CallbackSeen = "none"
            /\ LifeSeen' = "up" /\ CallbackSeen' = "up"
         \/ /\ LifeSeen = "up" /\ CallbackSeen = "none"
            /\ CallbackSeen' = "message" /\ UNCHANGED LifeSeen
         \/ /\ LifeSeen = "up" /\ CallbackSeen = "none"
            /\ LifeSeen' = "down" /\ CallbackSeen' = "down"
         \/ /\ CallbackSeen # "none"
            /\ CallbackSeen' = "none" /\ UNCHANGED LifeSeen
         \/ /\ LifeSeen = "down" /\ CallbackSeen = "none"
            /\ LifeSeen' = "gone" /\ UNCHANGED CallbackSeen
<1> DEFINE Goal ==
      \/ UNCHANGED <<LifeSeen, CallbackSeen>>
      \/ /\ LifeSeen = "connecting" /\ CallbackSeen = "none"
         /\ LifeSeen' = "up" /\ CallbackSeen' = "up"
      \/ /\ LifeSeen = "up" /\ CallbackSeen = "none"
         /\ CallbackSeen' = "message" /\ UNCHANGED LifeSeen
      \/ /\ LifeSeen = "up" /\ CallbackSeen = "none"
         /\ LifeSeen' = "down" /\ CallbackSeen' = "down"
      \/ /\ CallbackSeen # "none"
         /\ CallbackSeen' = "none" /\ UNCHANGED LifeSeen
      \/ /\ LifeSeen = "down" /\ CallbackSeen = "none"
         /\ LifeSeen' = "gone" /\ UNCHANGED CallbackSeen
<1>1. /\ downs \in {0, 1} /\ ups \in {0, 1} /\ (ups = 0 => downs = 0)
      /\ inMap => Alive
      /\ downs = 0 \/ pc = "downClose" => inMap
  <2>1. downs \in 0 .. 2 /\ downs <= 1 /\ ups \in 0 .. 1
    BY DEF TypeOK, Told
  <2> QED
    BY <2>1 DEF Birth, Alive, Owned
<1>2. pc' = "downClose" => Alive'
  BY DEF Owned, Alive
<1>3. ASSUME RunConnectEstablished PROVE Goal
  BY <1>3, EstablishedFirst DEF LifeSeen, CallbackSeen
<1>4. ASSUME Closing, UNCHANGED ups PROVE Goal
  BY <1>2, <1>4 DEF Closing, LifeSeen, CallbackSeen
<1>5. ASSUME UNCHANGED <<ups, downs>>, pc = "dispatch", pc' = "message", downs = 0, ups = 1
      PROVE  Goal
  BY <1>5 DEF LifeSeen, CallbackSeen
<1>6. ASSUME CloseCallback PROVE Goal
  <2>1. /\ pc = "downClose" /\ pc' \in {"dispatch", "functors"} /\ UNCHANGED <<ups, downs>>
    BY <1>6 DEF CloseCallback, TypeOK
  <2>2. removing' = removing + 1 /\ removing \in Nat
    BY <1>6 DEF CloseCallback, Told, TypeOK
  <2>3. Alive /\ Alive'
    <3>1. removing' > 0
      BY <2>2
    <3> QED
      BY <1>1, <2>1, <3>1 DEF Alive
  <2> QED
    BY <2>1, <2>3 DEF LifeSeen, CallbackSeen
<1>7. ASSUME CallbackReturns PROVE Goal
  <2>1. /\ pc \in {"up", "message", "userFunctor"}
        /\ pc' = IF pc = "message" THEN "dispatch" ELSE "functors"
        /\ UNCHANGED <<ups, downs>>
    BY <1>7 DEF CallbackReturns, Told, historyVars
  <2>2. UNCHANGED Alive
    BY <1>7, <2>1 DEF CallbackReturns, Alive, Guarded, serverVars, HoldsConnection
  <2> QED
    BY <2>1, <2>2 DEF LifeSeen, CallbackSeen
<1>8. ASSUME UNCHANGED <<ups, downs>>, UNCHANGED CallbackSeen PROVE Goal
  <2>1. Alive' => Alive
    BY DeadStep
  <2>2. CallbackSeen # "none" => downs = 0 \/ pc = "downClose"
    BY DEF CallbackSeen, Told, Reading
  <2>3. pc = "downClose" => pc' = "downClose"
    BY <1>8 DEF CallbackSeen, Told
  <2> QED
    BY <1>1, <1>2, <1>8, <2>1, <2>2, <2>3 DEF LifeSeen
<1>9. ASSUME UNCHANGED pc PROVE UNCHANGED CallbackSeen
  BY <1>9 DEF CallbackSeen
<1>10. ASSUME RunConnectDestroyed PROVE Goal
  BY <1>8, <1>9, <1>10, DestroyedQuietly
<1>11. ASSUME Closes PROVE Goal
  <2>1. UNCHANGED ups
    BY <1>11 DEF Closes, DispatchHangup, DispatchRead, RunForceCloseInLoop
  <2> QED
    BY <1>4, <1>5, <1>8, <1>9, <1>11, <2>1, CloseOnce
<1>12. ASSUME Poll \/ DispatchError \/ DispatchWrite \/ SwapFunctors \/ EndBatch \/ RunUserFunctor
       PROVE  UNCHANGED CallbackSeen
  <2>1. /\ pc' = pc \/ (pc \in {"poll", "dispatch", "functors"}
                        /\ pc' \in {"poll", "dispatch", "functors", "userFunctor"})
    BY <1>12
       DEF Poll, DispatchError, DispatchWrite, SwapFunctors, EndBatch, RunUserFunctor, Takes
  <2> QED
    BY <2>1 DEF CallbackSeen
<1> QED
  BY <1>3, <1>6, <1>7, <1>8, <1>9, <1>10, <1>11, <1>12, LoopFrame, LifeFrame

LEMMA ReadingAndOwned ==
  ASSUME SendOnly
  PROVE  Spec => [](TypeOK /\ Birth /\ Reading /\ Told /\ Owned)
  BY OwnedInvariance, ReadingInvariance, PTL

(* TcpConnection as its user sees it, with the lifetime its shared_ptrs    *)
(* give it: UP once, messages, DOWN once, one callback at a time, and the  *)
(* object goes only after DOWN has returned.                               *)
THEOREM FollowsLifecycle ==
  ASSUME SendOnly
  PROVE  Spec => ImplementsLifecycle
<1>1. Init => Lifecycle!Init
  BY DEF Init, Lifecycle!Init
<1>2. ASSUME TypeOK, Birth, Reading, Told, Owned, TypeOK', Reading', Told', Owned', [Next]_vars
      PROVE  [Lifecycle!Next]_(Lifecycle!vars)
  BY <1>2, LifecycleStep, SizesAssumption
     DEF LifeSeen, CallbackSeen, Lifecycle!Next, Lifecycle!Up, Lifecycle!Message,
         Lifecycle!Down, Lifecycle!Return, Lifecycle!Gone, Lifecycle!vars
<1> QED
  BY <1>1, <1>2, ReadingAndOwned, PTL DEF Spec, Lifecycle!Spec, ImplementsLifecycle

=============================================================================

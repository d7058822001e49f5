------------------------------ MODULE TcpClient ------------------------------
(***************************************************************************)
(* A TcpClient with its Connector and its loop (src/src/TcpClient.cc,      *)
(* Connector.cc): connecting, retrying, handing the socket over to a       *)
(* TcpConnection, reconnecting when that closes, stop() and the destructor.*)
(*                                                                         *)
(* The loop thread polls, handles the active channels and the retry timer, *)
(* and runs the batch of functors.  Between two of these the user's code   *)
(* on the loop thread, or another thread, may call the client.  Of the     *)
(* connection only its socket is kept, and that it closes by an event or   *)
(* by a queued forceCloseInLoop (TcpConnection has the rest).              *)
(*                                                                         *)
(* How the client is used: connect() is called when no earlier connect()   *)
(* is still at work (a second one, even after stop() and during the retry  *)
(* delay, starts a second attempt, whose channel replaces the first one's  *)
(* in channel_); the client is destroyed on its loop's thread.  forceClose *)
(* is called there too, or with nothing of the loop between its test of    *)
(* stat_, the assignment and the queueing, so that a connection closes     *)
(* once: a second close would have removeConnection call restart() again,  *)
(* and start a second attempt in the same way.                             *)
(*                                                                         *)
(* Using the connector or the client after its destruction, polling a      *)
(* channel that was freed, and the exit(-1) of handleWriter are recorded   *)
(* in `undefined`.                                                         *)
(***************************************************************************)
EXTENDS Connector

VARIABLES
  clientConnect_,   \* TcpClient::connect_
  retry_,
  connection_,      \* the socket of the connection
  alive,            \* the TcpClient exists
  unsafeEnd,        \* history: it was destroyed at an unfortunate moment
  pc,               \* "poll", "events", "handler" or "functors"
  active,           \* sockets whose events poll returned, not handled yet
  timerDue,         \* poll returned the timerfd, not handled yet
  revents,          \* the events of the connector's channel being handled
  functors,         \* the batch being run
  undefined

clientVars == <<clientConnect_, retry_, connection_, alive, unsafeEnd>>
loopVars == <<pc, active, timerDue, revents, functors>>
vars == <<connectorVars, clientVars, loopVars, undefined>>

(* The user's code runs before loop() is called, as in a last functor.     *)
Init ==
  /\ ConnectorInit
  /\ clientConnect_ = TRUE /\ retry_ \in BOOLEAN
  /\ connection_ = NoSocket /\ alive = TRUE /\ unsafeEnd = FALSE
  /\ pc = "functors" /\ active = {} /\ timerDue = FALSE /\ revents = {} /\ functors = <<>>
  /\ undefined = FALSE

(* A shared_ptr to the connector is in the client and in the retry timer.  *)
ConnectorAlive == alive \/ timers > 0

Queued(op) ==
  \/ \E i \in DOMAIN pendingFunctors_ : pendingFunctors_[i].op = op
  \/ \E i \in DOMAIN functors : functors[i].op = op

-----------------------------------------------------------------------------
(* Calls of the user.                                                      *)

UserCode == pc \in {"events", "functors"}

Idle ==
  /\ registered = {} /\ timers = 0 /\ connection_ = NoSocket
  /\ \A op \in {"startInLoop", "stopInLoop", "resetChannel"} : ~Queued(op)

(* connect() on the loop thread, and on another thread.                    *)
Connect ==
  /\ alive /\ Idle
  /\ clientConnect_' = TRUE /\ connect_' = TRUE
  /\ \/ /\ UserCode
        /\ ConnectProceeds(timers) \/ ConnectFails(timers)
        /\ UNCHANGED pendingFunctors_
     \/ /\ QueueInLoop(Functor("startInLoop"))
        /\ gaveUp' = FALSE
        /\ UNCHANGED <<state_, channel_, registered, open, timers>>
  /\ UNCHANGED <<retry_, connection_, alive, unsafeEnd, loopVars, undefined>>

(* stop(); a second one is not called before the first has run.            *)
Stop ==
  /\ alive /\ ~Queued("stopInLoop")
  /\ clientConnect_' = FALSE /\ connect_' = FALSE
  /\ QueueInLoop(Functor("stopInLoop"))
  /\ UNCHANGED <<attemptVars, retry_, connection_, alive, unsafeEnd, loopVars, undefined>>

(* disconnect(): no reconnecting; the connection shuts down in due course. *)
Disconnect ==
  /\ alive
  /\ clientConnect_' = FALSE
  /\ UNCHANGED <<connectorVars, retry_, connection_, alive, unsafeEnd, loopVars, undefined>>

(* The user forces the connection to close: the whole of forceClose (see   *)
(* the head of the module).                                                *)
ForceClose ==
  /\ connection_ # NoSocket /\ ~Queued("forceCloseInLoop")
  /\ QueueInLoop([op |-> "forceCloseInLoop", socket |-> connection_])
  /\ UNCHANGED <<connect_, attemptVars, clientVars, loopVars, undefined>>

(* ~TcpClient.  A connection lives on, unless the client held the last     *)
(* shared_ptr to it; it no longer calls the client when it closes.  Else   *)
(* stopInLoop is queued with a raw pointer to the connector, which only a  *)
(* retry timer keeps alive: the end is safe with a connection, or in the   *)
(* middle of a round with a timer that fires in a later one, and no        *)
(* functor of the connector queued.                                        *)
EndClient ==
  /\ alive /\ UserCode
  /\ alive' = FALSE
  /\ \/ /\ connection_ # NoSocket
        /\ \/ QueueInLoop([op |-> "forceCloseInLoop", socket |-> connection_])
           \/ UNCHANGED pendingFunctors_
        /\ UNCHANGED connect_
     \/ /\ connection_ = NoSocket
        /\ connect_' = FALSE
        /\ QueueInLoop(Functor("stopInLoop"))
  /\ unsafeEnd' =
       ~(/\ connection_ # NoSocket \/ (timers > 0 /\ ~timerDue /\ pc = "events")
         /\ \A op \in {"startInLoop", "stopInLoop", "resetChannel"} : ~Queued(op))
  /\ UNCHANGED <<attemptVars, clientConnect_, retry_, connection_, loopVars, undefined>>

-----------------------------------------------------------------------------
(* A round of the loop.                                                    *)

(* poll returns when something is active or the queue was written.         *)
Poll ==
  /\ pc = "poll"
  /\ active' \in SUBSET (registered \cup ({connection_} \ {NoSocket}))
  /\ timerDue' \in {FALSE, timers > 0}
  /\ active' # {} \/ timerDue' \/ pendingFunctors_ # <<>>
  /\ pc' = "events"
  /\ UNCHANGED <<connectorVars, clientVars, revents, functors, undefined>>

(* handleEvent of the connector's channel: writable, after a failure with  *)
(* an error.  The channel may be gone.                                     *)
HandleAttempt(s) ==
  /\ pc = "events" /\ s \in active /\ s # connection_
  /\ active' = active \ {s}
  /\ pc' = "handler"
  /\ revents' \in {{"out"}, {"err", "out"}}
  /\ undefined' = (channel_ # s \/ ~ConnectorAlive)
  /\ UNCHANGED <<connectorVars, clientVars, timerDue, functors>>

DispatchError ==
  /\ pc = "handler" /\ "err" \in revents
  /\ revents' = revents \ {"err"}
  /\ HandleError
  /\ UNCHANGED <<connect_, clientVars, pc, active, timerDue, functors, undefined>>

(* EPOLLOUT: handleWriter; a socket that is wanted becomes the client's    *)
(* connection (newConnection).                                             *)
DispatchWrite ==
  /\ pc = "handler" /\ revents = {"out"}
  /\ revents' = {}
  /\ pc' = "events"
  /\ \/ HandleWriterFails /\ UNCHANGED <<connection_, undefined>>
     \/ /\ HandleWriterConnects
        /\ connection_' = IF connect_ THEN channel_ ELSE connection_
        /\ undefined' = (connect_ /\ ~alive)
     \/ /\ ~MustHandleWrite
        /\ undefined' = (state_ # "kDisconnected")
        /\ UNCHANGED <<attemptVars, pendingFunctors_, connection_>>
  /\ UNCHANGED <<connect_, clientConnect_, retry_, alive, unsafeEnd, active, timerDue, functors>>

(* handleClose of the connection, and the close callback: removeConnection,*)
(* which may reconnect at once, or the destructor's replacement for it.    *)
(* Mutated form: the destructor does not replace it.                       *)
CloseCallbackNotReplaced == ~alive
CloseCallbackUndefined == FALSE

CloseConnection ==
  /\ QueueInLoop([op |-> "connectDestroyed", socket |-> connection_])
  /\ connection_' = NoSocket
  /\ undefined' = CloseCallbackUndefined
  /\ IF alive /\ retry_ /\ clientConnect_ THEN StartInLoop(timers) ELSE UNCHANGED attemptVars
  /\ UNCHANGED <<connect_, clientConnect_, retry_, alive, unsafeEnd, pc, timerDue, revents>>

HandleConnection ==
  /\ pc = "events" /\ connection_ \in active
  /\ active' = active \ {connection_}
  /\ CloseConnection
  /\ UNCHANGED functors

(* The timer's callback, startInLoop.                                      *)
HandleTimer ==
  /\ pc = "events" /\ timerDue
  /\ timerDue' = FALSE
  /\ StartInLoop(timers - 1)
  /\ UNCHANGED <<connect_, pendingFunctors_, clientVars, pc, active, revents, functors, undefined>>

(* doPendingFunctors.                                                      *)
SwapFunctors ==
  /\ pc = "events" /\ active = {} /\ ~timerDue
  /\ pc' = "functors"
  /\ functors' = pendingFunctors_ /\ pendingFunctors_' = <<>>
  /\ UNCHANGED <<connect_, attemptVars, clientVars, active, timerDue, revents, undefined>>

NextFunctor(op) ==
  /\ pc = "functors" /\ functors # <<>> /\ functors[1].op = op
  /\ functors' = Tail(functors)

(* The connector's functors were bound to a raw pointer.                   *)
RunConnectorFunctor(op) ==
  /\ NextFunctor(op)
  /\ undefined' = ~ConnectorAlive
  /\ UNCHANGED <<connect_, clientVars, pc, active, timerDue, revents>>

RunStartInLoop ==
  RunConnectorFunctor("startInLoop") /\ StartInLoop(timers) /\ UNCHANGED pendingFunctors_

RunStopInLoop == RunConnectorFunctor("stopInLoop") /\ StopInLoop

RunResetChannel ==
  RunConnectorFunctor("resetChannel") /\ ResetChannel /\ UNCHANGED pendingFunctors_

RunForceCloseInLoop ==
  /\ NextFunctor("forceCloseInLoop")
  /\ \/ functors[1].socket = connection_ /\ CloseConnection /\ UNCHANGED active
     \/ /\ functors[1].socket # connection_
        /\ UNCHANGED <<connectorVars, clientVars, pc, active, timerDue, revents, undefined>>

(* connectDestroyed, with the last shared_ptr to the connection: its       *)
(* socket is closed.                                                       *)
RunConnectDestroyed ==
  /\ NextFunctor("connectDestroyed")
  /\ open' = open \ {functors[1].socket}
  /\ UNCHANGED <<connect_, pendingFunctors_, state_, channel_, registered, timers, gaveUp,
                 clientVars, pc, active, timerDue, revents, undefined>>

EndBatch ==
  /\ pc = "functors" /\ functors = <<>>
  /\ pc' = "poll"
  /\ UNCHANGED <<connectorVars, clientVars, active, timerDue, revents, functors, undefined>>

-----------------------------------------------------------------------------
RunFunctor ==
  \/ RunStartInLoop \/ RunStopInLoop \/ RunResetChannel
  \/ RunForceCloseInLoop \/ RunConnectDestroyed

Handle ==
  \/ \E s \in Sockets : HandleAttempt(s)
  \/ DispatchError \/ DispatchWrite \/ HandleConnection \/ HandleTimer

(* Nothing is said of what follows undefined behaviour.                    *)
Round == ~undefined /\ (Handle \/ SwapFunctors \/ RunFunctor \/ EndBatch)

User == ~undefined /\ (Connect \/ Stop \/ Disconnect \/ ForceClose \/ EndClient)

Next == (~undefined /\ Poll) \/ Round \/ User

Spec == Init /\ [][Next]_vars

(* The loop goes on whenever it is not blocked in poll, and poll returns   *)
(* when the queue was written.  A retry timer fires.  Of the network is    *)
(* asked only what a wanted connection needs: an attempt under way ends,   *)
(* and of attempts without end one proceeds, one ends without an error     *)
(* event, and one finds its socket connected.                              *)
PollWakes == Poll /\ pendingFunctors_ # <<>>
PollTimer == Poll /\ timerDue'
PollAttempt == Poll /\ connect_ /\ registered \cap active' # {}
AttemptProceeds == Round /\ registered' \ registered # {}
AttemptSucceeds == (\E s \in Sockets : HandleAttempt(s)) /\ "err" \notin revents'
WriterConnects == DispatchWrite /\ state_' = "kConnected"

FairSpec ==
  /\ Spec
  /\ WF_vars(Round)
  /\ WF_vars(~undefined /\ PollWakes)
  /\ SF_vars(~undefined /\ PollTimer)
  /\ SF_vars(~undefined /\ PollAttempt)
  /\ SF_vars(AttemptProceeds)
  /\ SF_vars(~undefined /\ AttemptSucceeds)
  /\ SF_vars(~undefined /\ WriterConnects)

-----------------------------------------------------------------------------
(* The type invariant; there is at most one retry timer.                   *)
FunctorType ==
  [op : {"startInLoop", "stopInLoop", "resetChannel", "forceCloseInLoop", "connectDestroyed"},
   socket : Sockets \cup {NoSocket}]
TypeOK ==
  /\ connect_ \in BOOLEAN /\ clientConnect_ \in BOOLEAN /\ retry_ \in BOOLEAN
  /\ alive \in BOOLEAN /\ unsafeEnd \in BOOLEAN /\ gaveUp \in BOOLEAN
  /\ timerDue \in BOOLEAN /\ undefined \in BOOLEAN
  /\ state_ \in {"kDisconnected", "kConnecting", "kConnected"}
  /\ channel_ \in Sockets \cup {NoSocket} /\ connection_ \in Sockets \cup {NoSocket}
  /\ registered \subseteq Sockets /\ open \subseteq Sockets /\ active \subseteq Sockets
  /\ timers \in 0..1
  /\ pc \in {"poll", "events", "handler", "functors"}
  /\ revents \subseteq {"err", "out"}
  /\ pendingFunctors_ \in Seq(FunctorType) /\ functors \in Seq(FunctorType)

(* Connector::channel_ owns the only channel that is in epoll, and is in   *)
(* epoll exactly while the connector is connecting: handleWriter and       *)
(* handleError remove it before it is freed, and the queued resetChannel   *)
(* never frees the channel of a later attempt.                             *)
RegisteredIsCurrent ==
  registered = IF state_ = "kConnecting" THEN {channel_} ELSE {}

(* Every open socket has an owner that will close it: an attempt under     *)
(* way, the connection, or a connection that is being destroyed.  A retry, *)
(* a stop() during an attempt and a connection nobody wants close theirs.  *)
BeingDestroyed ==
  {s \in Sockets : \E q \in {pendingFunctors_, functors} : \E i \in DOMAIN q :
                     q[i] = [op |-> "connectDestroyed", socket |-> s]}
NoSocketLeaked == open \subseteq registered \cup {connection_} \cup BeingDestroyed

SocketsOwned == RegisteredIsCurrent /\ NoSocketLeaked

(* A client does one thing at a time: it waits to start, waits to retry,   *)
(* is connecting, or is connected.  Two of them would end in two           *)
(* connections, of which removeConnection and the destructor know one.     *)
OneActivity ==
  timers + Cardinality(registered)
    + (IF connection_ # NoSocket THEN 1 ELSE 0) + (IF Queued("startInLoop") THEN 1 ELSE 0) <= 1

(* Unless ~TcpClient runs at a moment when functors or a channel hold raw  *)
(* pointers to the connector, neither it nor the client is used after its  *)
(* end, no freed channel is polled, and handleWriter never reaches exit.   *)
NoUseAfterDestruction == undefined => unsafeEnd

(* connect() leads to a connection, and a client with enableRetry() makes  *)
(* a new one when its connection closes, unless that is given up by the    *)
(* user or by an error that connect() does not retry.                      *)
NotWanted == ~(alive /\ connect_ /\ clientConnect_) \/ gaveUp \/ undefined
Reconnects == retry_ /\ connection_ = NoSocket ~> connection_ # NoSocket \/ NotWanted

(* After stop() no attempt is under way and no retry is waiting, once the  *)
(* loop has run stopInLoop and the timer, unless the user starts again.    *)
StopEnds == ~connect_ ~> (registered = {} /\ timers = 0) \/ connect_ \/ undefined

=============================================================================

------------------------------ MODULE Connector ------------------------------
(***************************************************************************)
(* The state of a Connector and what each of its functions does to it      *)
(* (src/src/Connector.cc).  A Connector makes one connection: it connects  *)
(* a socket, waits on a channel of its own until the socket is writable,   *)
(* and passes the socket on, or closes it and tries again after a delay.   *)
(* TcpClient composes these operators with the loop that calls them and    *)
(* with the client that owns the connector.                                *)
(*                                                                         *)
(* A channel is named by its socket.  connect() is one step: the system    *)
(* call's outcome is connecting, an error that is worth a retry, or one    *)
(* that is not, after which the connector gives up.  The retry delay is    *)
(* some time.                                                              *)
(***************************************************************************)
EXTENDS Naturals, Sequences, FiniteSets

CONSTANTS
  Sockets,          \* file descriptors
  NoSocket

ASSUME SocketsAssumption == IsFiniteSet(Sockets) /\ NoSocket \notin Sockets

VARIABLES
  connect_,         \* the user wants a connection
  state_,
  channel_,         \* the socket of the channel that channel_ owns
  registered,       \* sockets whose connector's channel is in epoll
  open,             \* open sockets, the connections' included
  timers,           \* retry timers that have not fired
  gaveUp,           \* history: the last connect() failed for good
  pendingFunctors_  \* the loop's queue

attemptVars == <<state_, channel_, registered, open, timers, gaveUp>>
connectorVars == <<attemptVars, connect_, pendingFunctors_>>

ConnectorInit ==
  /\ connect_ = FALSE /\ state_ = "kDisconnected"
  /\ channel_ = NoSocket /\ registered = {} /\ open = {}
  /\ timers = 0 /\ gaveUp = FALSE
  /\ pendingFunctors_ = <<>>

Functor(op) == [op |-> op, socket |-> NoSocket]
QueueInLoop(f) == pendingFunctors_' = Append(pendingFunctors_, f)

-----------------------------------------------------------------------------
(* Pieces.                                                                 *)

(* The number of retry timers, n before: retry() starts the delay if a     *)
(* connection is still wanted.  Mutated form: it does not try again.       *)
TimersAfterRetryNone(n, wanted) == n
TimersAfterRetry(n, wanted) == IF wanted THEN n + 1 ELSE n

(* The sockets that stay open when retry() closes s.  Mutated form: s is   *)
(* not closed.                                                             *)
OpenAfterRetryKeeps(s) == open
OpenAfterRetry(s) == open \ {s}

Retry(s) ==
  /\ open' = OpenAfterRetry(s)
  /\ state_' = "kDisconnected"
  /\ timers' = TimersAfterRetry(timers, connect_)

(* removeAndResetChannel: the channel leaves epoll at once and is freed by *)
(* a functor, since it may be the one whose event is being handled.        *)
RemoveAndResetChannel ==
  /\ QueueInLoop(Functor("resetChannel"))
  /\ registered' = registered \ {channel_}

-----------------------------------------------------------------------------
(* The functions.                                                          *)

(* connect() and connecting(): a new socket.  n timers remain: one less    *)
(* when it is the timer that calls.                                        *)
ConnectProceeds(n) ==
  \E s \in Sockets \ open :
    /\ open' = open \cup {s}
    /\ state_' = "kConnecting"
    /\ channel_' = s
    /\ registered' = registered \cup {s}
    /\ gaveUp' = FALSE
    /\ timers' = n

(* connect() fails: the socket is closed again, and retried or not (it is  *)
(* called with connect_ set).                                              *)
ConnectFails(n) ==
  /\ \/ /\ state_' = "kDisconnected"
        /\ timers' = TimersAfterRetry(n, TRUE)
        /\ gaveUp' = FALSE
     \/ /\ gaveUp' = TRUE
        /\ timers' = n
        /\ UNCHANGED state_
  /\ UNCHANGED <<channel_, registered, open>>

(* startInLoop, restart.                                                   *)
StartInLoop(n) ==
  \/ connect_ /\ (ConnectProceeds(n) \/ ConnectFails(n))
  \/ /\ ~connect_ /\ timers' = n
     /\ UNCHANGED <<state_, channel_, registered, open, gaveUp>>

(* stopInLoop: connect_ was cleared by stop(), so that retry() only closes *)
(* the socket, unless start() set it again.  Mutated form: an attempt that *)
(* is under way is left alone.                                             *)
StopInLoopNot == UNCHANGED <<attemptVars, pendingFunctors_>>
StopInLoop ==
  \/ /\ state_ = "kConnecting"
     /\ RemoveAndResetChannel
     /\ Retry(channel_)
     /\ UNCHANGED <<channel_, gaveUp>>
  \/ /\ state_ # "kConnecting"
     /\ UNCHANGED <<attemptVars, pendingFunctors_>>

(* handleError.                                                            *)
HandleError ==
  \/ /\ state_ = "kConnecting"
     /\ RemoveAndResetChannel
     /\ Retry(channel_)
     /\ UNCHANGED <<channel_, gaveUp>>
  \/ /\ state_ # "kConnecting"
     /\ UNCHANGED <<attemptVars, pendingFunctors_>>

(* handleWriter looks at state_: after handleError of the same event there *)
(* is nothing left to do.  Mutated form: it does not look.                 *)
MustHandleWriteAlways == channel_ # NoSocket
MustHandleWrite == state_ = "kConnecting"

(* handleWriter finds an error or a connection to itself.                  *)
HandleWriterFails ==
  /\ MustHandleWrite
  /\ RemoveAndResetChannel
  /\ Retry(channel_)
  /\ UNCHANGED <<channel_, gaveUp>>

(* handleWriter finds the socket connected.  If it is still wanted it is   *)
(* passed to newConnectionCallback_, else it is closed.                    *)
HandleWriterConnects ==
  /\ MustHandleWrite
  /\ RemoveAndResetChannel
  /\ state_' = "kConnected"
  /\ open' = IF connect_ THEN open ELSE open \ {channel_}
  /\ UNCHANGED <<channel_, timers, gaveUp>>

(* resetChannel.                                                           *)
ResetChannel ==
  /\ channel_' = NoSocket
  /\ UNCHANGED <<state_, registered, open, timers, gaveUp>>

=============================================================================

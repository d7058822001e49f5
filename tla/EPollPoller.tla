----------------------------- MODULE EPollPoller -----------------------------
(***************************************************************************)
(* The channels of one loop, its EPollPoller and the epoll instance in the *)
(* kernel (src/src/EPollPoller.cc, Channel.cc, Channel.h, Poller.cc).      *)
(*                                                                         *)
(* The poller keeps three records of a registration that must agree: the   *)
(* index_ of the channel, the map channels_ from fd to channel, and the    *)
(* kernel's interest list, which holds a raw pointer to the channel.       *)
(* epoll_ctl aborts the process when an add or a modification fails, and a *)
(* pointer left in the kernel after the channel is freed is used by the    *)
(* next poll.                                                              *)
(*                                                                         *)
(* The actions are the operations of Channel, called by the loop thread in *)
(* handlers and functors.  Their guards state how the classes of the       *)
(* library use a channel:                                                  *)
(*   - a channel is created on an open fd, and only when every earlier     *)
(*     channel on that fd is unregistered (TcpClient makes the             *)
(*     connection's channel on the fd of the connector's, which is removed *)
(*     but not yet freed; Connector closes an fd before its channel is     *)
(*     freed, and the number may then be reused);                          *)
(*   - it is not touched after remove();                                   *)
(*   - it is removed in its own handler or in a functor, and freed in a    *)
(*     functor, once it is unregistered (TcpConnection::connectDestroyed,  *)
(*     Connector::resetChannel);                                           *)
(*   - its fd is closed after it is unregistered.                          *)
(* A freed channel's address may be used for a new one.                    *)
(***************************************************************************)
EXTENDS ChannelIndex, Naturals, FiniteSets

CONSTANTS
  Channels,          \* addresses of channel objects
  Fds,               \* file descriptor numbers
  NoChannel,         \* no pointer
  InitEventListSize  \* kInitEventListSize

ASSUME FdsAssumption == IsFiniteSet(Fds) /\ Fds # {}
ASSUME NoChannelAssumption == NoChannel \notin Channels
ASSUME ListSizeAssumption == InitEventListSize \in Nat \ {0}

VARIABLES
  live,              \* the channel objects that exist
  retired,           \* those of them that remove() was called on
  fd_,               \* Channel::fd_
  events_,           \* Channel::events_
  index_,            \* Channel::index_
  channels_,         \* Poller::channels_, fd to channel
  eventListSize,     \* EPollPoller::events_.size()
  epoll,             \* kernel: the pointer registered for an fd
  mask,              \* kernel: the events registered for an fd
  open,              \* kernel: the open fds
  activeChannels_,   \* channels returned by poll and not handled yet
  aborted            \* update() called abort()

channelVars == <<fd_, events_, index_>>
kernelVars == <<epoll, mask, aborted>>
vars == <<live, retired, channelVars, channels_, eventListSize, kernelVars, open,
          activeChannels_>>

Init ==
  /\ live = {}
  /\ retired = {}
  /\ fd_ = [c \in Channels |-> CHOOSE f \in Fds : TRUE]
  /\ events_ = [c \in Channels |-> {}]
  /\ index_ = [c \in Channels |-> kNew]
  /\ channels_ = [f \in Fds |-> NoChannel]
  /\ eventListSize = InitEventListSize
  /\ epoll = [f \in Fds |-> NoChannel]
  /\ mask = [f \in Fds |-> {}]
  /\ open = {}
  /\ activeChannels_ = {}
  /\ aborted = FALSE

-----------------------------------------------------------------------------
(* The kernel: epoll_ctl, and opening and closing files.                   *)

CtlFails(op, f) ==
  \/ f \notin open
  \/ op = "add" /\ epoll[f] # NoChannel
  \/ op # "add" /\ epoll[f] = NoChannel

(* update(): a failed deletion is logged, any other failure aborts.        *)
Update(op, c, ev) ==
  \/ /\ CtlFails(op, fd_[c])
     /\ aborted' = (op # "del")
     /\ UNCHANGED <<epoll, mask>>
  \/ /\ ~CtlFails(op, fd_[c])
     /\ epoll' = [epoll EXCEPT ![fd_[c]] = IF op = "del" THEN NoChannel ELSE c]
     /\ mask' = [mask EXCEPT ![fd_[c]] = IF op = "del" THEN {} ELSE ev]
     /\ UNCHANGED aborted

OpenFd(f) ==
  /\ f \notin open
  /\ open' = open \cup {f}
  /\ UNCHANGED <<live, retired, channelVars, channels_, eventListSize, kernelVars,
                 activeChannels_>>

Unregistered(f) == \A c \in live : fd_[c] = f => index_[c] = kNew

(* close: the kernel forgets the registration of the fd.                   *)
CloseFd(f) ==
  /\ f \in open
  /\ Unregistered(f)
  /\ open' = open \ {f}
  /\ epoll' = [epoll EXCEPT ![f] = NoChannel]
  /\ mask' = [mask EXCEPT ![f] = {}]
  /\ UNCHANGED <<live, retired, channelVars, channels_, eventListSize, aborted,
                 activeChannels_>>

-----------------------------------------------------------------------------
(* The operations of Channel.                                              *)

(* Channel::Channel on the fd f.  A channel that is not retired and not    *)
(* registered may still register later, so there is at most one per fd.    *)
Create(c, f) ==
  /\ c \notin live
  /\ f \in open
  /\ \A d \in live : fd_[d] = f => d \in retired
  /\ live' = live \cup {c}
  /\ fd_' = [fd_ EXCEPT ![c] = f]
  /\ events_' = [events_ EXCEPT ![c] = {}]
  /\ index_' = [index_ EXCEPT ![c] = kNew]
  /\ UNCHANGED <<retired, channels_, eventListSize, kernelVars, open, activeChannels_>>

(* updateChannel, called with the new value of events_.                    *)
UpdateChannel(c, ev) ==
  /\ c \in live \ retired
  /\ fd_[c] \in open
  /\ events_' = [events_ EXCEPT ![c] = ev]
  /\ channels_' = IF index_[c] = kNew THEN [channels_ EXCEPT ![fd_[c]] = c]
                                      ELSE channels_
  /\ Update(CtlOperation(index_[c], ev), c, ev)
  /\ index_' = [index_ EXCEPT ![c] = IndexAfterUpdate(index_[c], ev)]
  /\ UNCHANGED <<live, retired, fd_, eventListSize, open, activeChannels_>>

(* enableReading, enableWriting.                                           *)
Enable(c, e) == UpdateChannel(c, events_[c] \cup {e})

(* disableWriting, which handleWrite calls only when isWriting(), and      *)
(* disableReading.                                                         *)
Disable(c, e) ==
  /\ e \in events_[c]
  /\ UpdateChannel(c, events_[c] \ {e})

DisableAll(c) == UpdateChannel(c, {})

(* remove(): the fd leaves the map, and epoll if the channel is there.     *)
(* Mutated form: epoll keeps the fd.                                       *)
RemoveChannelKeepsEpoll(c) ==
  /\ c \in live \ retired
  /\ c \notin activeChannels_
  /\ channels_' = [channels_ EXCEPT ![fd_[c]] = NoChannel]
  /\ index_' = [index_ EXCEPT ![c] = kNew]
  /\ retired' = retired \cup {c}
  /\ UNCHANGED <<live, fd_, events_, eventListSize, kernelVars, open, activeChannels_>>

RemoveChannel(c) ==
  /\ c \in live \ retired
  /\ c \notin activeChannels_
  /\ channels_' = [channels_ EXCEPT ![fd_[c]] = NoChannel]
  /\ IF index_[c] = kAdded THEN Update("del", c, {}) ELSE UNCHANGED kernelVars
  /\ index_' = [index_ EXCEPT ![c] = kNew]
  /\ retired' = retired \cup {c}
  /\ UNCHANGED <<live, fd_, events_, eventListSize, open, activeChannels_>>

(* The channel is destroyed, between two polls, when it is unregistered.   *)
Free(c) ==
  /\ c \in live
  /\ index_[c] = kNew
  /\ activeChannels_ = {}
  /\ live' = live \ {c}
  /\ retired' = retired \ {c}
  /\ UNCHANGED <<channelVars, channels_, eventListSize, kernelVars, open, activeChannels_>>

-----------------------------------------------------------------------------
(* Polling.                                                                *)

(* The size of the event list after a poll that returned n events.         *)
(* Mutated form: a full list shrinks.                                      *)
ListSizeAfterHalves(n) == IF n = eventListSize THEN eventListSize \div 2 ELSE eventListSize
ListSizeAfter(n) == IF n = eventListSize THEN eventListSize * 2 ELSE eventListSize

(* epoll_wait reports registered channels, any of them since EPOLLHUP and  *)
(* EPOLLERR need not be asked for, at most as many as the list holds.      *)
Poll ==
  /\ activeChannels_ = {}
  /\ \E fs \in SUBSET Fds :
       /\ fs # {}
       /\ \A f \in fs : epoll[f] # NoChannel
       /\ Cardinality(fs) <= eventListSize
       /\ activeChannels_' = {epoll[f] : f \in fs}
       /\ eventListSize' = ListSizeAfter(Cardinality(fs))
  /\ UNCHANGED <<live, retired, channelVars, channels_, kernelVars, open>>

(* The loop calls handleEvent; what the handler does are the operations    *)
(* above.                                                                  *)
HandleEvent(c) ==
  /\ c \in activeChannels_
  /\ activeChannels_' = activeChannels_ \ {c}
  /\ UNCHANGED <<live, retired, channelVars, channels_, eventListSize, kernelVars, open>>

-----------------------------------------------------------------------------

Next ==
  /\ ~aborted
  /\ \/ \E f \in Fds : OpenFd(f) \/ CloseFd(f)
     \/ \E c \in Channels :
          \/ \E f \in Fds : Create(c, f)
          \/ \E e \in Events : Enable(c, e) \/ Disable(c, e)
          \/ DisableAll(c)
          \/ RemoveChannel(c)
          \/ Free(c)
          \/ HandleEvent(c)
     \/ Poll

Spec == Init /\ [][Next]_vars

-----------------------------------------------------------------------------

(* The values the variables range over; the event list always has room.    *)
TypeOK ==
  /\ live \subseteq Channels
  /\ retired \subseteq live
  /\ fd_ \in [Channels -> Fds]
  /\ events_ \in [Channels -> SUBSET Events]
  /\ index_ \in [Channels -> Indexes]
  /\ channels_ \in [Fds -> Channels \cup {NoChannel}]
  /\ eventListSize \in Nat \ {0}
  /\ epoll \in [Fds -> Channels \cup {NoChannel}]
  /\ mask \in [Fds -> SUBSET Events]
  /\ open \subseteq Fds
  /\ activeChannels_ \subseteq Channels
  /\ aborted \in BOOLEAN

(* The channel that has the fd f and satisfies the index test.             *)
Holds(c, f, indexes) == c \in live /\ fd_[c] = f /\ index_[c] \in indexes

(* channels_ maps an fd to a channel exactly when that channel exists, has *)
(* that fd and is known to the poller: hasChannel tells the truth, and no  *)
(* two channels claim an fd.                                               *)
MapMirrorsIndex ==
  \A f \in Fds, c \in Channels :
    channels_[f] = c <=> Holds(c, f, {kAdded, kDeleted})

(* The kernel holds a pointer exactly to the channels at kAdded, all of    *)
(* them alive, with the events they ask for: no wakeup for an event nobody *)
(* asked for, none missed, and no pointer to a freed channel.              *)
EpollMirrorsIndex ==
  \A f \in Fds, c \in Channels :
    /\ epoll[f] = c <=> Holds(c, f, {kAdded})
    /\ epoll[f] = c => mask[f] = events_[c]

(* epoll_ctl is never called in a way that makes update() abort.           *)
NeverAborts == ~aborted

(* The three records of a registration agree, and so no epoll_ctl fails.   *)
RecordsAgree == MapMirrorsIndex /\ EpollMirrorsIndex /\ NeverAborts

(* The loop never calls handleEvent of a freed or removed channel.         *)
ActiveChannelsRegistered ==
  \A c \in activeChannels_ : c \in live /\ index_[c] # kNew

(* EventLoop.cc:132: "if it has no events, the channel is deleted from     *)
(* epoll".                                                                 *)
NoEventsMeansDeleted ==
  \A c \in live : events_[c] = {} => epoll[fd_[c]] # c

=============================================================================

-------------------------- MODULE EPollPollerProofs --------------------------
(***************************************************************************)
(* What TLAPS proves of EPollPoller for every set of channels and fds: the *)
(* poller's map, the channels' indexes and the kernel's interest list      *)
(* agree, epoll_ctl never makes the process abort, and poll never reports  *)
(* a channel that was removed or freed.                                    *)
(*                                                                         *)
(* The invariant is strengthened with how fds are shared: the live         *)
(* channels of an fd are all removed but one at most, and a removed        *)
(* channel is unregistered.  Without it an add could meet the registration *)
(* of another channel.                                                     *)
(***************************************************************************)
EXTENDS EPollPoller, TLAPS

(* An fd is used by one channel at a time.                                 *)
OneUser == \A c, d \in live \ retired : fd_[c] = fd_[d] => c = d

(* A channel is unregistered once removed or freed, and its fd is open     *)
(* while it is registered.                                                 *)
RegisteredOnlyInUse ==
  \A c \in Channels :
    /\ c \in retired => index_[c] = kNew
    /\ c \in live /\ index_[c] # kNew => fd_[c] \in open

(* The inductive invariant.                                                *)
Inv ==
  /\ TypeOK
  /\ MapMirrorsIndex
  /\ EpollMirrorsIndex
  /\ NeverAborts
  /\ ActiveChannelsRegistered
  /\ OneUser
  /\ RegisteredOnlyInUse

-----------------------------------------------------------------------------

(* Nothing exists initially.                                               *)
LEMMA InitInv == Init => Inv
<1> SUFFICES ASSUME Init
             PROVE  Inv
  OBVIOUS
<1>1. TypeOK
  <2>1. (CHOOSE f \in Fds : TRUE) \in Fds
    BY FdsAssumption
  <2> QED
    BY <2>1, ListSizeAssumption DEF Init, TypeOK, Indexes
<1>2. MapMirrorsIndex /\ EpollMirrorsIndex
  BY NoChannelAssumption DEF Init, MapMirrorsIndex, EpollMirrorsIndex, Holds
<1> QED
  BY <1>1, <1>2
     DEF Init, Inv, NeverAborts, ActiveChannelsRegistered, OneUser, RegisteredOnlyInUse

(* The operation updateChannel or removeChannel issues for a channel in    *)
(* use never fails.                                                        *)
LEMMA CtlSucceeds ==
  ASSUME Inv, NEW c \in live \ retired, fd_[c] \in open, NEW op,
         op = "add" => index_[c] # kAdded,
         op # "add" => index_[c] = kAdded
  PROVE  ~CtlFails(op, fd_[c])
<1> DEFINE f == fd_[c]
<1>0. c \in Channels /\ f \in Fds
  BY DEF Inv, TypeOK
<1>1. CASE op = "add"
  <2>1. SUFFICES ASSUME epoll[f] # NoChannel
                 PROVE  FALSE
    BY <1>1 DEF CtlFails
  <2>2. PICK d \in Channels : epoll[f] = d
    BY <1>0, <2>1 DEF Inv, TypeOK
  <2>3. d \in live /\ fd_[d] = f /\ index_[d] = kAdded
    BY <1>0, <2>2 DEF Inv, EpollMirrorsIndex, Holds
  <2>4. d \notin retired
    BY <2>3 DEF Inv, RegisteredOnlyInUse, kAdded, kNew
  <2>5. d = c
    BY <2>3, <2>4 DEF Inv, OneUser
  <2> QED
    BY <1>1, <2>3, <2>5
<1>2. CASE op # "add"
  <2>1. epoll[f] = c
    BY <1>0, <1>2 DEF Inv, EpollMirrorsIndex, Holds
  <2> QED
    BY <1>0, <1>2, <2>1, NoChannelAssumption DEF CtlFails
<1> QED
  BY <1>1, <1>2

(* updateChannel keeps the invariant, whatever the index of the channel    *)
(* and the events it asks for.                                             *)
LEMMA UpdateChannelInv ==
  ASSUME Inv, NEW c \in Channels, NEW ev \in SUBSET Events, UpdateChannel(c, ev)
  PROVE  Inv'
<1> DEFINE f == fd_[c]
           op == CtlOperation(index_[c], ev)
<1>1. /\ c \in live \ retired /\ f \in open /\ f \in Fds
      /\ events_' = [events_ EXCEPT ![c] = ev]
      /\ index_' = [index_ EXCEPT ![c] = IndexAfterUpdate(index_[c], ev)]
      /\ channels_' = IF index_[c] = kNew THEN [channels_ EXCEPT ![f] = c] ELSE channels_
      /\ UNCHANGED <<live, retired, fd_, eventListSize, open, activeChannels_>>
  BY DEF UpdateChannel, Inv, TypeOK
<1>2. /\ op \in {"add", "del", "mod"}
      /\ op = "add" <=> index_[c] # kAdded
      /\ op = "del" <=> index_[c] = kAdded /\ ev = {}
  BY DEF CtlOperation
<1>3. ~CtlFails(op, f)
  <2> HIDE DEF op
  <2> QED
    BY <1>1, <1>2, CtlSucceeds
<1>4. /\ epoll' = [epoll EXCEPT ![f] = IF op = "del" THEN NoChannel ELSE c]
      /\ mask' = [mask EXCEPT ![f] = IF op = "del" THEN {} ELSE ev]
      /\ UNCHANGED aborted
  BY <1>3 DEF UpdateChannel, Update
<1>5. IndexAfterUpdate(index_[c], ev) = IF op = "del" THEN kDeleted ELSE kAdded
  BY <1>2 DEF IndexAfterUpdate
<1>6. TypeOK'
  BY <1>1, <1>4, <1>5, Zenon DEF Inv, TypeOK, Indexes
<1> USE DEF kNew, kAdded, kDeleted
<1> HIDE DEF op
<1>7. ASSUME NEW d \in live, d # c, fd_[d] = f
      PROVE  index_[d] = kNew
  BY <1>1, <1>7 DEF Inv, OneUser, RegisteredOnlyInUse, TypeOK
<1>8. index_'[c] # kNew /\ \A d \in Channels : d # c => index_'[d] = index_[d]
  BY <1>1, <1>5 DEF Inv, TypeOK
<1>9. MapMirrorsIndex'
  <2> SUFFICES ASSUME NEW g \in Fds, NEW d \in Channels
               PROVE  channels_'[g] = d <=> Holds(d, g, {kAdded, kDeleted})'
    BY DEF MapMirrorsIndex
  <2>1. channels_[g] = d <=> Holds(d, g, {kAdded, kDeleted})
    BY DEF Inv, MapMirrorsIndex
  <2>2. channels_[g] \in Channels \cup {NoChannel} /\ index_[c] \in Indexes
    BY DEF Inv, TypeOK
  <2>3. CASE g = f
    <3>1. channels_'[f] = c
      <4>1. index_[c] # kNew => channels_[f] = c
        BY <1>1 DEF Inv, MapMirrorsIndex, Holds, TypeOK, Indexes
      <4> QED
        BY <1>1, <4>1 DEF Inv, TypeOK
    <3>2. Holds(d, g, {kAdded, kDeleted})' <=> d = c
      <4>1. CASE d = c
        BY <1>1, <1>5, <4>1, <2>3 DEF Holds, Inv, TypeOK
      <4>2. CASE d # c
        BY <1>1, <1>7, <1>8, <4>2, <2>3 DEF Holds
      <4> QED
        BY <4>1, <4>2
    <3> QED
      BY <2>3, <3>1, <3>2
  <2>4. CASE g # f
    <3>1. channels_'[g] = channels_[g]
      BY <1>1, <2>4 DEF Inv, TypeOK
    <3>2. Holds(d, g, {kAdded, kDeleted})' <=> Holds(d, g, {kAdded, kDeleted})
      BY <1>1, <1>8, <2>4 DEF Holds
    <3> QED
      BY <2>1, <3>1, <3>2
  <2> QED
    BY <2>3, <2>4
<1>10. EpollMirrorsIndex'
  <2> SUFFICES ASSUME NEW g \in Fds, NEW d \in Channels
               PROVE  /\ epoll'[g] = d <=> Holds(d, g, {kAdded})'
                      /\ epoll'[g] = d => mask'[g] = events_'[d]
    BY DEF EpollMirrorsIndex
  <2>1. /\ epoll[g] = d <=> Holds(d, g, {kAdded})
        /\ epoll[g] = d => mask[g] = events_[d]
    BY DEF Inv, EpollMirrorsIndex
  <2>2. CASE g = f
    <3>1. /\ epoll'[f] = IF op = "del" THEN NoChannel ELSE c
          /\ mask'[f] = IF op = "del" THEN {} ELSE ev
          /\ events_'[c] = ev
      BY <1>1, <1>4 DEF Inv, TypeOK
    <3>2. Holds(d, g, {kAdded})' <=> d = c /\ op # "del"
      <4>1. CASE d = c
        BY <1>1, <1>5, <4>1, <2>2 DEF Holds, Inv, TypeOK
      <4>2. CASE d # c
        BY <1>1, <1>7, <1>8, <4>2, <2>2 DEF Holds
      <4> QED
        BY <4>1, <4>2
    <3> QED
      BY <2>2, <3>1, <3>2, NoChannelAssumption
  <2>3. CASE g # f
    <3>1. epoll'[g] = epoll[g] /\ mask'[g] = mask[g]
      BY <1>1, <1>4, <2>3 DEF Inv, TypeOK
    <3>2. Holds(d, g, {kAdded})' <=> Holds(d, g, {kAdded})
      BY <1>1, <1>8, <2>3 DEF Holds
    <3>3. fd_[d] = g => events_'[d] = events_[d]
      BY <1>1, <2>3 DEF Inv, TypeOK
    <3> QED
      BY <2>1, <3>1, <3>2, <3>3 DEF Holds
  <2> QED
    BY <2>2, <2>3
<1>11. NeverAborts' /\ OneUser'
  BY <1>1, <1>4 DEF Inv, NeverAborts, OneUser
<1>12. ActiveChannelsRegistered' /\ RegisteredOnlyInUse'
  BY <1>1, <1>8 DEF Inv, TypeOK, ActiveChannelsRegistered, RegisteredOnlyInUse
<1> QED
  BY <1>6, <1>9, <1>10, <1>11, <1>12 DEF Inv

(* removeChannel keeps the invariant, whether or not the channel asked for *)
(* events when it was removed.                                             *)
LEMMA RemoveChannelInv ==
  ASSUME Inv, NEW c \in Channels, RemoveChannel(c)
  PROVE  Inv'
<1> DEFINE f == fd_[c]
<1>1. /\ c \in live \ retired /\ f \in Fds
      /\ c \notin activeChannels_
      /\ channels_' = [channels_ EXCEPT ![f] = NoChannel]
      /\ index_' = [index_ EXCEPT ![c] = kNew]
      /\ retired' = retired \cup {c}
      /\ UNCHANGED <<live, fd_, events_, eventListSize, open, activeChannels_>>
  BY DEF RemoveChannel, Inv, TypeOK
<1> USE DEF kNew, kAdded, kDeleted
<1>2. /\ UNCHANGED aborted
      /\ epoll' = IF index_[c] = kAdded THEN [epoll EXCEPT ![f] = NoChannel] ELSE epoll
      /\ mask' = IF index_[c] = kAdded THEN [mask EXCEPT ![f] = {}] ELSE mask
  <2>1. CASE index_[c] = kAdded
    <3>1. f \in open
      BY <1>1, <2>1 DEF Inv, RegisteredOnlyInUse
    <3>2. ~CtlFails("del", f)
      BY <1>1, <2>1, <3>1, CtlSucceeds
    <3> QED
      BY <2>1, <3>2 DEF RemoveChannel, Update
  <2>2. CASE index_[c] # kAdded
    BY <2>2 DEF RemoveChannel, kernelVars
  <2> QED
    BY <2>1, <2>2
<1>3. TypeOK'
  <2>1. /\ epoll' \in [Fds -> Channels \cup {NoChannel}]
        /\ mask' \in [Fds -> SUBSET Events]
    BY <1>2 DEF Inv, TypeOK
  <2> QED
    BY <1>1, <1>2, <2>1 DEF Inv, TypeOK, Indexes
<1>4. index_'[c] = kNew /\ \A d \in Channels : d # c => index_'[d] = index_[d]
  BY <1>1 DEF Inv, TypeOK
<1>5. ASSUME NEW d \in live, d # c, fd_[d] = f
      PROVE  index_[d] = kNew
  BY <1>1, <1>5 DEF Inv, OneUser, RegisteredOnlyInUse, TypeOK
<1>6. MapMirrorsIndex'
  <2> SUFFICES ASSUME NEW g \in Fds, NEW d \in Channels
               PROVE  channels_'[g] = d <=> Holds(d, g, {kAdded, kDeleted})'
    BY DEF MapMirrorsIndex
  <2>1. channels_[g] = d <=> Holds(d, g, {kAdded, kDeleted})
    BY DEF Inv, MapMirrorsIndex
  <2>2. channels_'[g] = IF g = f THEN NoChannel ELSE channels_[g]
    BY <1>1 DEF Inv, TypeOK
  <2>3. Holds(d, g, {kAdded, kDeleted})'
           <=> g # f /\ Holds(d, g, {kAdded, kDeleted})
    BY <1>1, <1>4, <1>5 DEF Holds
  <2> QED
    BY <2>1, <2>2, <2>3, NoChannelAssumption
<1>7. EpollMirrorsIndex'
  <2> SUFFICES ASSUME NEW g \in Fds, NEW d \in Channels
               PROVE  /\ epoll'[g] = d <=> Holds(d, g, {kAdded})'
                      /\ epoll'[g] = d => mask'[g] = events_'[d]
    BY DEF EpollMirrorsIndex
  <2>1. /\ epoll[g] = d <=> Holds(d, g, {kAdded})
        /\ epoll[g] = d => mask[g] = events_[d]
    BY DEF Inv, EpollMirrorsIndex
  <2>2. epoll[f] = c <=> index_[c] = kAdded
    BY <1>1 DEF Inv, EpollMirrorsIndex, Holds
  <2>3. Holds(d, g, {kAdded})' <=> g # f /\ Holds(d, g, {kAdded})
    BY <1>1, <1>4, <1>5 DEF Holds
  <2>4. CASE g = f
    <3>1. epoll'[g] # d
      <4>1. CASE index_[c] = kAdded
        BY <1>1, <1>2, <2>4, <4>1, NoChannelAssumption DEF Inv, TypeOK
      <4>2. CASE index_[c] # kAdded
        BY <1>2, <1>5, <2>1, <2>4, <4>2 DEF Holds
      <4> QED
        BY <4>1, <4>2
    <3> QED
      BY <2>3, <2>4, <3>1
  <2>5. CASE g # f
    <3>1. epoll'[g] = epoll[g] /\ mask'[g] = mask[g]
      BY <1>2, <2>5 DEF Inv, TypeOK
    <3> QED
      BY <1>1, <2>1, <2>3, <2>5, <3>1
  <2> QED
    BY <2>4, <2>5
<1>8. NeverAborts' /\ OneUser' /\ ActiveChannelsRegistered' /\ RegisteredOnlyInUse'
  BY <1>1, <1>2, <1>4
     DEF Inv, TypeOK, NeverAborts, OneUser, ActiveChannelsRegistered, RegisteredOnlyInUse
<1> QED
  BY <1>3, <1>6, <1>7, <1>8 DEF Inv

(* A new channel starts unregistered on an fd nobody else uses.            *)
LEMMA CreateInv ==
  ASSUME Inv, NEW c \in Channels, NEW f \in Fds, Create(c, f)
  PROVE  Inv'
<1>1. /\ c \notin live /\ c \notin retired
      /\ \A d \in live : fd_[d] = f => d \in retired
      /\ live' = live \cup {c}
      /\ fd_' = [fd_ EXCEPT ![c] = f]
      /\ events_' = [events_ EXCEPT ![c] = {}]
      /\ index_' = [index_ EXCEPT ![c] = kNew]
      /\ UNCHANGED <<retired, channels_, eventListSize, epoll, mask, aborted, open,
                     activeChannels_>>
  BY DEF Create, kernelVars, Inv, TypeOK
<1> USE DEF kNew, kAdded, kDeleted
<1>2. TypeOK'
  BY <1>1 DEF Inv, TypeOK, Indexes
<1>3. /\ index_'[c] = kNew /\ fd_'[c] = f
      /\ \A d \in Channels : d # c => /\ index_'[d] = index_[d]
                                     /\ fd_'[d] = fd_[d]
                                     /\ events_'[d] = events_[d]
  BY <1>1 DEF Inv, TypeOK
<1>4. ASSUME NEW g \in Fds, NEW d \in Channels, NEW S \in SUBSET {kAdded, kDeleted}
      PROVE  Holds(d, g, S)' <=> Holds(d, g, S)
  BY <1>1, <1>3 DEF Holds
<1>5. MapMirrorsIndex'
  BY <1>1, <1>4 DEF Inv, MapMirrorsIndex
<1>6. EpollMirrorsIndex'
  <2> SUFFICES ASSUME NEW g \in Fds, NEW d \in Channels
               PROVE  /\ epoll'[g] = d <=> Holds(d, g, {kAdded})'
                      /\ epoll'[g] = d => mask'[g] = events_'[d]
    BY DEF EpollMirrorsIndex
  <2>1. /\ epoll[g] = d <=> Holds(d, g, {kAdded})
        /\ epoll[g] = d => mask[g] = events_[d]
    BY DEF Inv, EpollMirrorsIndex
  <2>2. epoll[g] = d => d # c
    BY <1>1, <2>1 DEF Holds
  <2> QED
    BY <1>1, <1>3, <1>4, <2>1, <2>2
<1>7. OneUser'
  BY <1>1, <1>3 DEF Inv, TypeOK, OneUser
<1>8. NeverAborts' /\ ActiveChannelsRegistered' /\ RegisteredOnlyInUse'
  BY <1>1, <1>3
     DEF Inv, TypeOK, NeverAborts, ActiveChannelsRegistered, RegisteredOnlyInUse
<1> QED
  BY <1>2, <1>5, <1>6, <1>7, <1>8 DEF Inv

(* Destroying an unregistered channel leaves no pointer to it behind.      *)
LEMMA FreeInv ==
  ASSUME Inv, NEW c \in Channels, Free(c)
  PROVE  Inv'
<1>1. /\ c \in live /\ index_[c] = kNew /\ activeChannels_ = {}
      /\ live' = live \ {c} /\ retired' = retired \ {c}
      /\ UNCHANGED <<fd_, events_, index_, channels_, eventListSize, epoll, mask,
                     aborted, open, activeChannels_>>
  BY DEF Free, channelVars, kernelVars
<1> USE DEF kNew, kAdded, kDeleted
<1>2. ASSUME NEW g \in Fds, NEW d \in Channels, NEW S \in SUBSET {kAdded, kDeleted}
      PROVE  Holds(d, g, S)' <=> Holds(d, g, S)
  BY <1>1 DEF Holds
<1>3. MapMirrorsIndex' /\ EpollMirrorsIndex'
  BY <1>1, <1>2 DEF Inv, MapMirrorsIndex, EpollMirrorsIndex
<1>4. TypeOK' /\ NeverAborts' /\ ActiveChannelsRegistered' /\ OneUser' /\ RegisteredOnlyInUse'
  BY <1>1 DEF Inv, TypeOK, NeverAborts, ActiveChannelsRegistered, OneUser,
              RegisteredOnlyInUse
<1> QED
  BY <1>3, <1>4 DEF Inv

(* Closing an fd drops a registration nobody has.                          *)
LEMMA CloseFdInv ==
  ASSUME Inv, NEW f \in Fds, CloseFd(f)
  PROVE  Inv'
<1>1. /\ Unregistered(f) /\ open' = open \ {f}
      /\ epoll' = [epoll EXCEPT ![f] = NoChannel]
      /\ mask' = [mask EXCEPT ![f] = {}]
      /\ UNCHANGED <<live, retired, fd_, events_, index_, channels_, eventListSize,
                     aborted, activeChannels_>>
  BY DEF CloseFd, channelVars
<1> USE DEF kNew, kAdded, kDeleted
<1>2. epoll[f] = NoChannel
  BY <1>1 DEF Unregistered, Inv, TypeOK, EpollMirrorsIndex, Holds
<1>3. \A g \in Fds : epoll'[g] = epoll[g] /\ (g # f => mask'[g] = mask[g])
  BY <1>1, <1>2 DEF Inv, TypeOK
<1>4. TypeOK'
  BY <1>1 DEF Inv, TypeOK
<1>5. MapMirrorsIndex' /\ NeverAborts' /\ ActiveChannelsRegistered' /\ OneUser'
  BY <1>1 DEF Inv, MapMirrorsIndex, Holds, NeverAborts, ActiveChannelsRegistered, OneUser
<1>6. EpollMirrorsIndex'
  BY <1>1, <1>2, <1>3, NoChannelAssumption DEF Inv, EpollMirrorsIndex, Holds
<1>7. RegisteredOnlyInUse'
  BY <1>1 DEF Inv, RegisteredOnlyInUse, Unregistered
<1> QED
  BY <1>4, <1>5, <1>6, <1>7 DEF Inv

(* A poll reports live, registered channels only.                          *)
LEMMA PollInv ==
  ASSUME Inv, Poll
  PROVE  Inv'
<1>1. PICK fs \in SUBSET Fds :
        /\ \A f \in fs : epoll[f] # NoChannel
        /\ activeChannels_' = {epoll[f] : f \in fs}
        /\ eventListSize' = ListSizeAfter(Cardinality(fs))
  BY DEF Poll
<1>2. UNCHANGED <<live, retired, fd_, events_, index_, channels_, epoll, mask, aborted, open>>
  BY DEF Poll, channelVars, kernelVars
<1>3. eventListSize' \in Nat \ {0}
  BY <1>1 DEF ListSizeAfter, Inv, TypeOK
<1>4. ASSUME NEW c \in activeChannels_'
      PROVE  c \in Channels /\ c \in live /\ index_[c] # kNew
  <2>1. PICK f \in fs : c = epoll[f]
    BY <1>1, <1>4
  <2>2. f \in Fds /\ c \in Channels
    BY <1>1, <2>1 DEF Inv, TypeOK
  <2> QED
    BY <2>1, <2>2 DEF Inv, EpollMirrorsIndex, Holds, kAdded, kNew
<1>5. TypeOK'
  BY <1>2, <1>3, <1>4 DEF Inv, TypeOK
<1>6. MapMirrorsIndex' /\ EpollMirrorsIndex' /\ NeverAborts' /\ OneUser' /\ RegisteredOnlyInUse'
  BY <1>2 DEF Inv, MapMirrorsIndex, EpollMirrorsIndex, Holds, NeverAborts, OneUser,
              RegisteredOnlyInUse
<1>7. ActiveChannelsRegistered'
  BY <1>2, <1>4 DEF ActiveChannelsRegistered
<1> QED
  BY <1>5, <1>6, <1>7 DEF Inv

(* The remaining steps change only the open fds or the active channels, or *)
(* nothing.                                                                *)
LEMMA OtherInv ==
  ASSUME Inv,
         \/ \E f \in Fds : OpenFd(f)
         \/ \E c \in Channels : HandleEvent(c)
         \/ UNCHANGED vars
  PROVE  Inv'
<1>1. /\ open \subseteq open' /\ open' \subseteq Fds
      /\ activeChannels_' \subseteq activeChannels_
      /\ UNCHANGED <<live, retired, fd_, events_, index_, channels_, eventListSize,
                     epoll, mask, aborted>>
  BY DEF OpenFd, HandleEvent, vars, channelVars, kernelVars, Inv, TypeOK
<1>2. TypeOK'
  BY <1>1 DEF Inv, TypeOK
<1> QED
  BY <1>1, <1>2
     DEF Inv, MapMirrorsIndex, EpollMirrorsIndex, Holds, NeverAborts, OneUser,
         RegisteredOnlyInUse, ActiveChannelsRegistered

(* Every step keeps the invariant.                                         *)
LEMMA NextInv == Inv /\ [Next]_vars => Inv'
<1> SUFFICES ASSUME Inv, [Next]_vars
             PROVE  Inv'
  OBVIOUS
<1>1. ASSUME NEW c \in Channels, NEW e \in Events, Enable(c, e) \/ Disable(c, e)
      PROVE  Inv'
  <2>1. /\ events_[c] \cup {e} \in SUBSET Events
        /\ events_[c] \ {e} \in SUBSET Events
    BY DEF Inv, TypeOK
  <2> QED
    BY <1>1, <2>1, UpdateChannelInv DEF Enable, Disable
<1>2. ASSUME NEW c \in Channels, DisableAll(c)
      PROVE  Inv'
  BY <1>2, UpdateChannelInv DEF DisableAll
<1> QED
  BY <1>1, <1>2, RemoveChannelInv, CreateInv, FreeInv, CloseFdInv, PollInv, OtherInv
     DEF Next

(* The invariant holds of the specification.                               *)
LEMMA Invariance == Spec => []Inv
  BY InitInv, NextInv, PTL DEF Spec

(* The variables keep their types and the event list never becomes empty.  *)
THEOREM TypeCorrect == Spec => []TypeOK
  BY Invariance, PTL DEF Inv

(* Poller::channels_ holds exactly the channels the poller knows, at their *)
(* fd, the kernel's interest list exactly the channels at kAdded, with the *)
(* events they ask for, and update() never reaches abort().                *)
THEOREM RegistrationCorrect == Spec => []RecordsAgree
  BY Invariance, PTL DEF Inv, RecordsAgree

(* No channel is handled after it was removed or freed.                    *)
THEOREM NoStaleChannel == Spec => []ActiveChannelsRegistered
  BY Invariance, PTL DEF Inv

=============================================================================

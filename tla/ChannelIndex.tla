---------------------------- MODULE ChannelIndex ----------------------------
(***************************************************************************)
(* The life of a Channel in its EPollPoller (src/src/EPollPoller.cc): the  *)
(* three values of Channel::index_, the epoll_ctl operation updateChannel  *)
(* chooses and the index it leaves behind.  EPollPoller and TcpConnection  *)
(* both build on these operators.                                          *)
(***************************************************************************)

(* Events a channel may ask for: kReadEvent and kWriteEvent.               *)
Events == {"read", "write"}

kNew == "kNew"             \* not known to the poller
kAdded == "kAdded"         \* in channels_ and registered with epoll
kDeleted == "kDeleted"     \* in channels_ but taken out of epoll

Indexes == {kNew, kAdded, kDeleted}

(* The epoll_ctl operation updateChannel issues for a channel at index     *)
(* that now asks for the events ev.                                        *)
CtlOperation(index, ev) ==
  CASE index # kAdded -> "add"
    [] index = kAdded /\ ev = {} -> "del"
    [] index = kAdded /\ ev # {} -> "mod"

(* The index updateChannel leaves.  Mutated form: set_index(kDeleted) is   *)
(* forgotten.                                                              *)
IndexAfterUpdateStaysAdded(index, ev) == kAdded
IndexAfterUpdate(index, ev) ==
  IF index = kAdded /\ ev = {} THEN kDeleted ELSE kAdded

=============================================================================

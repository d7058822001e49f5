--------------------------- MODULE MCEPollPoller ---------------------------
(* Instances of EPollPoller for TLC.  Channels and fds are interchangeable *)
(* except that CHOOSE picks the initial fd_, so no symmetry is declared    *)
(* for Fds.                                                                *)
EXTENDS EPollPoller, TLC

ChannelSymmetry == Permutations(Channels)
=============================================================================

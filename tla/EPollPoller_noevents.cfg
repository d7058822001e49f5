CONSTANTS
  Channels = {c1, c2, c3}
  Fds = {f1, f2}
  NoChannel = none
  InitEventListSize = 1
SYMMETRY ChannelSymmetry
SPECIFICATION Spec
INVARIANT NoEventsMeansDeleted

CONSTANTS
  Sockets = {s1, s2, s3}
  NoSocket = none
SPECIFICATION FairSpec
INVARIANTS TypeOK SocketsOwned OneActivity NoUseAfterDestruction
PROPERTIES Reconnects StopEnds
CHECK_DEADLOCK FALSE

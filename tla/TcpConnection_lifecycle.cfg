CONSTANTS
  Callers = {t1}
  CallerOps = {"send"}
  Messages = {m1, m2}
  Garbage = garbage
  MessageLength = 1
  HighWaterMark = 3
  MaxForceCloses = 1
  ServerMayEnd = FALSE
SPECIFICATION FairSpec
INVARIANT ChannelFollowsLife
PROPERTIES ImplementsLifecycle ShutdownCompletes CloseCompletes
CHECK_DEADLOCK FALSE

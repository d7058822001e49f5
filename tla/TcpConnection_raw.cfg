CONSTANTS
  Callers = {t1}
  CallerOps = {"send"}
  Messages = {m1}
  Garbage = garbage
  MessageLength = 1
  HighWaterMark = 3
  MaxForceCloses = 0
  ServerMayEnd = FALSE
SPECIFICATION Spec
INVARIANT FunctorsFindConnection
CHECK_DEADLOCK FALSE

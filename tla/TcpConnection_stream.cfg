CONSTANTS
  Callers = {t1}
  CallerOps = {"send", "shutdown", "forceClose"}
  Messages = {m1, m2}
  Garbage = garbage
  MessageLength = 2
  HighWaterMark = 3
  MaxForceCloses = 1
  ServerMayEnd = TRUE
SPECIFICATION Spec
SYMMETRY MessageSymmetry
INVARIANTS TypeOK StreamIntact WritingIffOutput NoMessageOnceDown
PROPERTY ShutdownWaitsForOutput
CHECK_DEADLOCK FALSE

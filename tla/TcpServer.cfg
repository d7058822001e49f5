CONSTANTS
  MaxThreads = 2
  MaxConns = 3
  MaxFds = 2
SPECIFICATION FairSpec
CHECK_DEADLOCK FALSE
INVARIANTS TypeOK HandShakeHolds GoneCleanly NoUseAfterDestruction
PROPERTY EventuallyAccepted

CONSTANTS
  MaxThreads = 2
  MaxHandedOut = 2
SPECIFICATION FairSpec
INVARIANTS TypeOK LoopsHandedOut NoUseAfterDestruction
PROPERTY StartAndDestroyComplete
CHECK_DEADLOCK FALSE

CONSTANTS
  MaxThreads = 2
  MaxHandedOut = 2
SPECIFICATION FairSpec
PROPERTY DestructorReturns
CHECK_DEADLOCK FALSE

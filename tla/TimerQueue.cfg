CONSTANTS
  Timers = {t1, t2}
  Start = 3
  MaxTime = 5
  Delays = {1, 2}
  Second = 1
  IntRange = 4
  MaxJumps = 1
SPECIFICATION FairSpec
INVARIANTS TypeOK ArmedInTime NoTimerEarly
PROPERTIES TimersRun

CONSTANTS
  LoopThread = loop
  Callers = {t1, t2}
  Functors = {f1, f2, f3}
  IoChannels = {io}
  WakeupChannel = wakeupChannel
SPECIFICATION PromptSpec
INVARIANTS TypeOK LoopIsWoken
PROPERTIES ImplementsExecutor ExecutesAll LoopResponds

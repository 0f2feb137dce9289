SPECIFICATION Spec
CONSTANTS
  main = main
  ta = ta
  tb = tb
  tc = tc
  none = none
  s1 = s1
  s2 = s2
  NumThreads = 3
  NumFibers = 4
  NumCounters = 2
  MaxTasks = 2
  MaxWaiting = 2
  PinnedCapacity = 4
  Tasks = {main, ta}
  MainTask = main
  NoTask = none
  Syncs = {s1, s2}
  Script <- ManualScript
INVARIANTS
  FiberConservation
  OneWakeToken
  WaitReachedTarget
  NoAssertFails

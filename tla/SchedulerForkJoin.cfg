SPECIFICATION FairSpec
CONSTANTS
  main = main
  ta = ta
  tb = tb
  tc = tc
  none = none
  s1 = s1
  s2 = s2
  NumThreads = 2
  NumFibers = 4
  NumCounters = 2
  MaxTasks = 4
  MaxWaiting = 1
  PinnedCapacity = 4
  Tasks = {main, ta, tb, tc}
  MainTask = main
  NoTask = none
  Syncs = {s1, s2}
  Script <- FanOutScript
INVARIANTS
  TypeOK
  ValidReferences
  FiberConservation
  OneWakeToken
  WaitReachedTarget
  PinnedStays
  CountMatches
  CounterConservation
  NoAssertFails
  NothingDropped
PROPERTIES
  ImplementsForkJoin
  Terminates

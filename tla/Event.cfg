SPECIFICATION Spec
CONSTANTS
  Threads = {t1, t2, t3}
  NoThread = NoThread
  Milliseconds = 10
  Boot = 1000
  MaxClock = 1001
  MaxCalls = 2
PROPERTIES
  CallReturns
  ImplementsWakeup
CHECK_DEADLOCK FALSE

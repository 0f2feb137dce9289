SPECIFICATION Spec
CONSTANTS
  PoolSizes = {0, 1, 2, 3, 5, 9}
  ThreadNumbers = {0, 2, 3}
  Requests <- AllRequests
  Cores = 2
  CounterLimit = 7
  IndexLimit = 15
  MaxNesting = 3
  Modulus = 64
  MaxN = 63
  Futures = {v1, v2, v3}
  Cells = {c1, c2, c3}
  Handles = {h1, h2, h3}
  Null = Null
  N = 4
  MaxAge = 62
  RingUsers = {u1}
INVARIANTS
  PoolsFit
  BatchesBounded
  TilesRange
  OneOwner
  OneWaiter
  WritesOwnCell
  ResultReady
  SlotIsOwn
  ExpiresWithSlot
PROPERTIES
  LaunchScoped
CHECK_DEADLOCK FALSE

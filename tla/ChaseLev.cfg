SPECIFICATION Spec
CONSTANTS
  Owner = Owner
  Stealers = {s1}
  NoItem = NoItem
  Garbage = Garbage
  Null = Null
  initial_size = 1
  MaxItems = 4
  MaxStores = 1
INVARIANTS
  LatestBufferAlive
  SparePlace
PROPERTIES
  ImplementsDeque

SPECIFICATION Spec
CONSTANTS
  t1 = t1
  t2 = t2
  t3 = t3
  t4 = t4
  x = x
  y = y
  z = z
  Threads = {t1, t2, t3, t4}
  Items = {x, y, z}
  NoItem = NoItem
  N = 3
  InitialHold <- MCInitialHold
INVARIANTS
  MutualExclusion
PROPERTIES
  ImplementsFIFO

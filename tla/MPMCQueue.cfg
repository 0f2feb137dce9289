SPECIFICATION Spec
CONSTANTS
  t1 = t1
  t2 = t2
  t3 = t3
  x = x
  y = y
  Threads = {t1, t2, t3}
  Items = {x, y}
  NoItem = NoItem
  Garbage = Garbage
  Size = 4
  InitialItems <- MCInitialItems
  MaxPos = 7
INVARIANTS
  CellExclusive
PROPERTIES
  ImplementsFIFO

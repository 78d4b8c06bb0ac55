CONSTANTS
  b1 = b1
  b2 = b2
  f1 = f1
  f2 = f2
  main = main
  comp = comp
  p1 = p1
  Block <- MCBlock
  Frame <- MCFrame
  Coroutine <- MCCoroutine
  MainStack = main
  Pin <- MCPin
  Width = 2
  MaxDefer = 2
  None = None
SPECIFICATION Spec
INVARIANTS
  NothingDangles
PROPERTIES
  SweepIsExact
  CollectionEnds
CHECK_DEADLOCK FALSE

CONSTANTS
  o1 = o1
  o2 = o2
  i1 = i1
  i2 = i2
  i3 = i3
  b1 = b1
  Object = {o1, o2}
  Main = Main
  Instance = {i1, i2, i3}
  BlockOf <- OneBlock
  Outermost = Outermost
  None = None
  MaxFrames = 2
SPECIFICATION Spec
SYMMETRY ObjectsAndBlocks
INVARIANTS
  TypeOK
  FramesAreLive
  NoInternalFault
PROPERTIES
  ReturnsWhenLeft
  ImplementsPoints

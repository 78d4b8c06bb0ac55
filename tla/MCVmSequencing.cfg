CONSTANTS
  o1 = o1
  o2 = o2
  i1 = i1
  i2 = i2
  b1 = b1
  Object = {o1, o2}
  Main = Main
  Instance = {i1, i2}
  BlockOf <- OneBlock
  Outermost = Outermost
  None = None
SPECIFICATION Spec
SYMMETRY Objects
INVARIANTS
  StacksInPlace
PROPERTIES
  ImplementsPoints

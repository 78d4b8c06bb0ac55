CONSTANTS
  l1 = l1
  l2 = l2
  l3 = l3
  l4 = l4
  h1 = h1
  h2 = h2
  Links = {l1, l2, l3, l4}
  Heads = {h1, h2}
  Derived = {}
  Process = {l2, l3}
  None = None
SPECIFICATION Spec
INVARIANTS
  RingsLinked
  WalksAgree
PROPERTIES
  ImplementsSets
  ClearEnds

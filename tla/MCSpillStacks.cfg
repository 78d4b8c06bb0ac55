SPECIFICATION Spec
CONSTANTS
  m = m
  x = x
  y = y
  body = body
  p = p
  Coroutines <- MCCoroutines
  Main = m
  Functions <- MCFunctions
  Body = body
  RefSlots <- MCRefSlots
  Values = {0, 1}
  Initial = 0
  MaxDepth = 2
INVARIANTS
  BuffersMatch
  LocalsAreFresh
PROPERTIES
  ImplementsStacks
  TransferArrives
CHECK_DEADLOCK FALSE

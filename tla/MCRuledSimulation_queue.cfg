CONSTANTS
  o1 = o1
  o2 = o2
  o3 = o3
  i1 = i1
  b1 = b1
  Object = {o1, o2, o3}
  Process = {o1, o2, o3}
  SimBlock = {i1}
  SimMain = SimMain
  MaxNotices = 3
  Timing <- Timings
  MaxTime = 1
  Main = Main
  Instance = {i1}
  BlockOf <- OneBlock
  Outermost = Outermost
  None = None
  MaxFrames = 1
SPECIFICATION QueueSpec
INVARIANTS
  SimTypeOK
PROPERTIES
  DueRuns
  ImplementsPoints

CONSTANTS
  t1 = t1
  t2 = t2
  j1 = j1
  j2 = j2
  Text = {t1, t2}
  Job = {j1, j2}
  MaxVersion = 2
  MaxGeneration = 2
  MaxResult = 1
  Config = {"change", "save"}
  NumbersRestart = TRUE
  None = None
SPECIFICATION OvertakenSpec
PROPERTIES
  LateAnalysesDropped
CHECK_DEADLOCK FALSE

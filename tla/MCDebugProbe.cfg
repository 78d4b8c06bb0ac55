CONSTANTS
  l1 = l1
  l2 = l2
  zero = zero
  one = one
  Line = {l1, l2}
  Kinds <- MCKinds
  Value = {zero, one}
  Listings <- MCListings
  Asked <- MCAsked
  MaxDepth = 1
  MaxSets = 2
  None = None
SPECIFICATION Spec
INVARIANTS
  InspectionIsTrue
PROPERTIES
  StopsHold
  AppliedInItsStop
  EveryArrivalStops
  ResumesAreHeard
  SetsAreAnswered
CHECK_DEADLOCK FALSE

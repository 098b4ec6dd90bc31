SPECIFICATION Spec
CONSTANTS
  p1 = p1
  p2 = p2
  p3 = p3
  NoPod = NoPod
  Pods = {p1, p2}
  Questions <- OneQuestion
  MaxReruns = 1
  MaxStalls = 1
  MaxCrashes = 1
  MaxDrains = 1
  MaxFaults = 1
SYMMETRY PodSymmetry
INVARIANT TypeOK
INVARIANT EndsOnce
INVARIANT OnlyTheHolderPersists
 
INVARIANT RerunsAreBounded
CHECK_DEADLOCK FALSE

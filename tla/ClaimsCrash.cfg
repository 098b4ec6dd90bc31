SPECIFICATION Spec
CONSTANTS
  p1 = p1
  p2 = p2
  p3 = p3
  NoPod = NoPod
  Pods = {p1, p2, p3}
  Questions <- TwoQuestions
  MaxReruns = 1
  MaxStalls = 0
  MaxCrashes = 2
  MaxDrains = 0
  MaxFaults = 0
SYMMETRY PodSymmetry
INVARIANT FinishedIsEnded
PROPERTY LiveOwnerKeepsItsClaim
CHECK_DEADLOCK FALSE

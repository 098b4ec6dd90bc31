SPECIFICATION FairSpec
CONSTANTS
  p1 = p1
  p2 = p2
  None = None
  Pods = {p1, p2}
  MaxAttempts = 2
  MaxWindow = 2
  MaxRuns = 2
  MaxFaults = 2
  MaxPresses = 2
 
INVARIANT OncePerWindow
PROPERTY EndedStaysEnded
PROPERTY RecordedRunSettles
PROPERTY NextWindowIsClaimed
CHECK_DEADLOCK FALSE

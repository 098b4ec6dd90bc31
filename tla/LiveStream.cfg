SPECIFICATION FairSpec
CONSTANTS
  p1 = p1
  p2 = p2
  v1 = v1
  v2 = v2
  None = None
  Pods = {p1, p2}
  Viewers = {v1}
  Ring = 2
  Remember = 4
  MaxEvents = 3
  MaxDrops = 1
  MaxForgets = 1
  MaxLosses = 1
INVARIANT NumberedOnce
INVARIANT SamePodIsWhole
 
PROPERTY NoDeafViewer
CHECK_DEADLOCK FALSE

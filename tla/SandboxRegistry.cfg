SPECIFICATION Spec
CONSTANTS
  p1 = p1
  p2 = p2
  u1 = u1
  u2 = u2
  r1 = r1
  None = None
  Pods = {p1, p2}
  Actors = {u1, u2, r1}
  PodOf <- OnPods
  Does <- Duties
  MaxCreates = 3
  MaxOps = 3
  MaxFaults = 1
 
INVARIANT AckedIsKept
PROPERTY CloseEndsThePublished
CHECK_DEADLOCK FALSE

SPECIFICATION Spec
CONSTANTS
  b1 = b1
  b2 = b2
  t1 = t1
  t2 = t2
  None = None
  Batches = {b1, b2}
  Threads = {t1, t2}
  PlanFails = FALSE
  MaxEvents = 0
  MaxPending = 1
INVARIANT TextIsKept
CHECK_DEADLOCK FALSE

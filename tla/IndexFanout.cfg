SPECIFICATION FairSpec
CONSTANTS
  b1 = b1
  b2 = b2
  t1 = t1
  t2 = t2
  None = None
  Batches = {b1, b2}
  Threads = {t1, t2}
  PlanFails = TRUE
  MaxEvents = 1
  MaxPending = 1
INVARIANT ReadyIsWhole
PROPERTY VerdictAfterTheGate
 
PROPERTY EveryDocumentSettles
PROPERTY EveryRunCloses
CHECK_DEADLOCK FALSE

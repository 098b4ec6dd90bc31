--------------------------- MODULE MCIndexFanout ---------------------------
(* A document of two batches and two threads that consume and sweep.        *)
EXTENDS IndexFanout

CONSTANTS b1, b2, t1, t2
=============================================================================

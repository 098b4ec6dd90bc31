-------------------------- MODULE MCScheduledRuns --------------------------
(* Two pods, one of which may die.                                          *)
EXTENDS ScheduledRuns

CONSTANTS p1, p2
=============================================================================

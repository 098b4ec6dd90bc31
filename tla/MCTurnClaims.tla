--------------------------- MODULE MCTurnClaims ---------------------------
(* Small instances of TurnClaims.                                           *)
EXTENDS TurnClaims, TLC

CONSTANTS p1, p2, p3

OneQuestion == 1..1
TwoQuestions == 1..2

\* Pods are interchangeable.
PodSymmetry == Permutations(Pods)
=============================================================================

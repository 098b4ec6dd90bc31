---------------------------- MODULE MCTurnQueue ----------------------------
(* Small instances of TurnQueue: who sends what.                            *)
EXTENDS TurnQueue, TLC

CONSTANTS ann, bob, q1, q2, q3, goal, step

\* Ann asks twice, Bob once.
People == q1 :> ann @@ q2 :> ann @@ q3 :> bob
AllPersons == [m \in {q1, q2, q3} |-> "person"]

\* Ann asks twice, while a goal Bob has set starts a round and a workflow step
\* of his waits.
MixedAuthors == q1 :> ann @@ q2 :> ann @@ goal :> bob @@ step :> bob
MixedKinds == q1 :> "person" @@ q2 :> "person" @@ goal :> "driven" @@ step :> "step"
=============================================================================

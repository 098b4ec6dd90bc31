--------------------------- MODULE QuestionLedger ---------------------------
(***************************************************************************)
(* What the claims promise to the people who ask, with no pod, claim row,  *)
(* heartbeat or copy in it: a question that was asked is owed an ending    *)
(* until the thread says what became of it, and it is told once.           *)
(* TurnClaims implements this.                                             *)
(***************************************************************************)
EXTENDS Naturals

CONSTANT Questions

VARIABLES
    asked,    \* the questions in the thread
    owed,     \* those some pod still has to end
    told,     \* how many endings the thread has for each
    covered,  \* those that stand above an ending that speaks for all before it
    waived    \* those whose hand-over fell into an ending being written

ledger == <<asked, owed, told, covered, waived>>

Init ==
    /\ asked = {} /\ owed = {} /\ covered = {} /\ waived = {}
    /\ told = [q \in Questions |-> 0]

\* A question comes in; the debt may fail to be put on record.
Ask(q) ==
    /\ q \notin asked
    /\ asked' = asked \cup {q}
    /\ owed' \in {owed, owed \cup {q}}
    /\ UNCHANGED <<told, covered, waived>>

\* The thread tells what became of a question, for the first time or, where a
\* hand-over fell into the writing, perhaps again.
Tell(q) ==
    /\ q \in asked
    /\ told[q] = 0 \/ q \in waived
    /\ told' = [told EXCEPT ![q] = @ + 1]
    /\ covered' \in {covered, asked}
    /\ UNCHANGED <<asked, owed, waived>>

\* Nothing is owed any more, because the thread has told.
Settle(q) ==
    /\ q \in owed
    /\ told[q] > 0 \/ q \in covered
    /\ owed' = owed \ {q}
    /\ UNCHANGED <<asked, told, covered, waived>>

Waive(S) ==
    /\ S \subseteq asked
    /\ waived' = waived \cup S
    /\ UNCHANGED <<asked, owed, told, covered>>

Next ==
    \/ \E q \in Questions : Ask(q) \/ Tell(q) \/ Settle(q)
    \/ \E S \in SUBSET asked : Waive(S)

Spec == Init /\ [][Next]_ledger
=============================================================================

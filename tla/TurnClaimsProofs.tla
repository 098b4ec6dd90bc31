-------------------------- MODULE TurnClaimsProofs --------------------------
(* What holds of TurnClaims for any pods, questions and bounds.              *)
EXTENDS TurnClaims, TLAPS

-----------------------------------------------------------------------------
(* Types *)

\* Every variable starts in its type.
LEMMA InitTypes == Init => TypeOK
<1> USE DEF Init
<1>1. ASSUME Init PROVE TableTypeOK
  BY <1>1 DEF TableTypeOK, Rows, NoRow
<1>2. ASSUME Init PROVE BeatTypeOK
  BY <1>2 DEF BeatTypeOK
<1>3. ASSUME Init PROVE PodTypeOK
  BY <1>3 DEF PodTypeOK
<1>4. ASSUME Init PROVE CopyTypeOK
  BY <1>4 DEF CopyTypeOK
<1>5. ASSUME Init PROVE TickTypeOK
  BY <1>5 DEF TickTypeOK, Ticks, Idle, NoRow, Rows
<1>6. ASSUME Init PROVE ThreadTypeOK
  BY <1>6 DEF ThreadTypeOK
<1> QED BY <1>1, <1>2, <1>3, <1>4, <1>5, <1>6 DEF TypeOK

\* The shared tables keep their types.
LEMMA TableTypes ==
    ASSUME TypeOK, [Next]_vars
    PROVE  TableTypeOK'
<1>1. ASSUME NEW p \in Pods, NEW q \in Questions, Ask(p, q) PROVE TableTypeOK'
  <2>1. [NoRow EXCEPT !.owner = p] \in Rows
    BY DEF NoRow, Rows
  <2> QED
    BY <1>1, <2>1 DEF Ask, tableVars, TypeOK, TableTypeOK
<1>2. ASSUME NEW c \in copies, PrepareEnds(c) PROVE TableTypeOK'
  BY <1>2 DEF PrepareEnds, tableVars, TypeOK, TableTypeOK
<1>3. ASSUME NEW c \in copies, PrepareFails(c) PROVE TableTypeOK'
  BY <1>3 DEF PrepareFails, tableVars, TypeOK, TableTypeOK
<1>4. ASSUME NEW c \in copies, Start(c) PROVE TableTypeOK'
  BY <1>4 DEF Start, tableVars, TypeOK, TableTypeOK
<1>5. ASSUME NEW c \in copies, Watch(c) PROVE TableTypeOK'
  BY <1>5 DEF Watch, tableVars, TypeOK, TableTypeOK
<1>6. ASSUME NEW c \in copies, Check(c) PROVE TableTypeOK'
  BY <1>6 DEF Check, tableVars, TypeOK, TableTypeOK
<1>7. ASSUME NEW c \in copies, GiveUpCovered(c) PROVE TableTypeOK'
  BY <1>7 DEF GiveUpCovered, tableVars, TypeOK, TableTypeOK
<1>8. ASSUME NEW c \in copies, Write(c) PROVE TableTypeOK'
  BY <1>8 DEF Write, tableVars, TypeOK, TableTypeOK
<1>9. ASSUME NEW c \in copies, FinishClaim(c) PROVE TableTypeOK'
  <2>1. NoRow \in Rows
    BY DEF NoRow, Rows
  <2>2. c.q \in Questions
    BY DEF TypeOK, CopyTypeOK, Copies
  <2> QED
    BY <1>9, <2>1, <2>2 DEF FinishClaim, TypeOK, TableTypeOK
<1>10. ASSUME NEW c \in copies, TurnEnds(c) PROVE TableTypeOK'
  BY <1>10 DEF TurnEnds, tableVars, TypeOK, TableTypeOK
<1>11. ASSUME NEW p \in Pods, Beat(p) PROVE TableTypeOK'
  BY <1>11 DEF Beat, tableVars, TypeOK, TableTypeOK
<1>12. ASSUME NEW p \in Pods, TickList(p) PROVE TableTypeOK'
  BY <1>12 DEF TickList, tableVars, TypeOK, TableTypeOK
<1>13. ASSUME NEW p \in Pods, TickJudge(p) PROVE TableTypeOK'
  BY <1>13 DEF TickJudge, tableVars, TypeOK, TableTypeOK
<1>14. ASSUME NEW p \in Pods, TickTake(p) PROVE TableTypeOK'
  <2>1. PICK q \in First(tick[p].todo) :
           \/ /\ row' = [row EXCEPT ![q] = Taken(p, tick[p].rows[q])]
              /\ recent' = recent \cup {<<q, tick[p].rows[q].reruns + 1>>}
           \/ UNCHANGED tableVars
    BY <1>14 DEF TickTake
  <2>2. q \in Questions /\ tick[p].rows[q] \in Rows
    BY <2>1 DEF First, TypeOK, TickTypeOK, Ticks
  <2>3. Taken(p, tick[p].rows[q]) \in Rows /\ tick[p].rows[q].reruns + 1 \in Nat
    BY <2>2 DEF Taken, Rows
  <2> QED
    BY <1>14, <2>1, <2>2, <2>3 DEF TickTake, tableVars, TypeOK, TableTypeOK
<1>15. ASSUME NEW p \in Pods, TickAdvance(p) PROVE TableTypeOK'
  BY <1>15 DEF TickAdvance, tableVars, TypeOK, TableTypeOK
<1>16. ASSUME NEW p \in Pods, TickRerun(p) PROVE TableTypeOK'
  BY <1>16 DEF TickRerun, tableVars, TypeOK, TableTypeOK
<1>17. ASSUME NEW p \in Pods, TickEnds(p) PROVE TableTypeOK'
  BY <1>17 DEF TickEnds, tableVars, TypeOK, TableTypeOK
<1>18. ASSUME NEW p \in Pods, Wake(p) PROVE TableTypeOK'
  BY <1>18 DEF Wake, tableVars, TypeOK, TableTypeOK
<1>19. ASSUME NEW p \in Pods, Stall(p) PROVE TableTypeOK'
  BY <1>19 DEF Stall, tableVars, TypeOK, TableTypeOK
<1>20. ASSUME NEW p \in Pods, Crash(p) PROVE TableTypeOK'
  BY <1>20 DEF Crash, tableVars, TypeOK, TableTypeOK
<1>21. ASSUME NEW p \in Pods, DrainBegin(p) PROVE TableTypeOK'
  BY <1>21 DEF DrainBegin, tableVars, TypeOK, TableTypeOK
<1>22. ASSUME NEW p \in Pods, DrainDeadline(p) PROVE TableTypeOK'
  BY <1>22 DEF DrainDeadline, tableVars, TypeOK, TableTypeOK
<1>23. ASSUME NEW p \in Pods, DrainCancel(p) PROVE TableTypeOK'
  BY <1>23 DEF DrainCancel, tableVars, TypeOK, TableTypeOK
<1>24. ASSUME NEW p \in Pods, DrainExit(p) PROVE TableTypeOK'
  BY <1>24 DEF DrainExit, tableVars, TypeOK, TableTypeOK
<1>25. ASSUME NEW p \in Pods, NEW q \in Questions, DrainRelease(p, q) PROVE TableTypeOK'
  <2>1. [row[q] EXCEPT !.released = TRUE] \in Rows
    BY DEF TypeOK, TableTypeOK, Rows
  <2> QED
    BY <1>25, <2>1 DEF DrainRelease, TypeOK, TableTypeOK
<1>26. CASE BeatExpires
  BY <1>26 DEF BeatExpires, tableVars, TypeOK, TableTypeOK
<1>27. ASSUME NEW x \in recent, Age(x[1], x[2]) PROVE TableTypeOK'
  BY <1>27 DEF Age, TypeOK, TableTypeOK
<1>28. CASE UNCHANGED vars
  BY <1>28 DEF vars, podVars, tableVars, threadVars, TypeOK, TableTypeOK
<1> QED
  BY <1>1, <1>2, <1>3, <1>4, <1>5, <1>6, <1>7, <1>8, <1>9, <1>10, <1>11, <1>12, <1>13,
      <1>14, <1>15, <1>16, <1>17, <1>18, <1>19, <1>20, <1>21, <1>22, <1>23, <1>24, <1>25,
      <1>26, <1>27, <1>28 DEF Next, Moves, TickStep, PodStep, TimeStep

\* The beat is there or it is not.
LEMMA BeatTypes ==
    ASSUME TypeOK, [Next]_vars
    PROVE  BeatTypeOK'
<1>1. ASSUME NEW p \in Pods, NEW q \in Questions, Ask(p, q) PROVE BeatTypeOK'
  BY <1>1 DEF Ask, TypeOK, BeatTypeOK
<1>2. ASSUME NEW c \in copies, PrepareEnds(c) PROVE BeatTypeOK'
  BY <1>2 DEF PrepareEnds, TypeOK, BeatTypeOK
<1>3. ASSUME NEW c \in copies, PrepareFails(c) PROVE BeatTypeOK'
  BY <1>3 DEF PrepareFails, TypeOK, BeatTypeOK
<1>4. ASSUME NEW c \in copies, Start(c) PROVE BeatTypeOK'
  BY <1>4 DEF Start, TypeOK, BeatTypeOK
<1>5. ASSUME NEW c \in copies, Watch(c) PROVE BeatTypeOK'
  BY <1>5 DEF Watch, TypeOK, BeatTypeOK
<1>6. ASSUME NEW c \in copies, Check(c) PROVE BeatTypeOK'
  BY <1>6 DEF Check, TypeOK, BeatTypeOK
<1>7. ASSUME NEW c \in copies, GiveUpCovered(c) PROVE BeatTypeOK'
  BY <1>7 DEF GiveUpCovered, TypeOK, BeatTypeOK
<1>8. ASSUME NEW c \in copies, Write(c) PROVE BeatTypeOK'
  BY <1>8 DEF Write, TypeOK, BeatTypeOK
<1>9. ASSUME NEW c \in copies, FinishClaim(c) PROVE BeatTypeOK'
  BY <1>9 DEF FinishClaim, TypeOK, BeatTypeOK
<1>10. ASSUME NEW c \in copies, TurnEnds(c) PROVE BeatTypeOK'
  BY <1>10 DEF TurnEnds, TypeOK, BeatTypeOK
<1>11. ASSUME NEW p \in Pods, Beat(p) PROVE BeatTypeOK'
  BY <1>11 DEF Beat, TypeOK, BeatTypeOK
<1>12. ASSUME NEW p \in Pods, TickList(p) PROVE BeatTypeOK'
  BY <1>12 DEF TickList, TypeOK, BeatTypeOK
<1>13. ASSUME NEW p \in Pods, TickJudge(p) PROVE BeatTypeOK'
  BY <1>13 DEF TickJudge, TypeOK, BeatTypeOK
<1>14. ASSUME NEW p \in Pods, TickTake(p) PROVE BeatTypeOK'
  BY <1>14 DEF TickTake, TypeOK, BeatTypeOK
<1>15. ASSUME NEW p \in Pods, TickAdvance(p) PROVE BeatTypeOK'
  BY <1>15 DEF TickAdvance, TypeOK, BeatTypeOK
<1>16. ASSUME NEW p \in Pods, TickRerun(p) PROVE BeatTypeOK'
  BY <1>16 DEF TickRerun, TypeOK, BeatTypeOK
<1>17. ASSUME NEW p \in Pods, TickEnds(p) PROVE BeatTypeOK'
  BY <1>17 DEF TickEnds, TypeOK, BeatTypeOK
<1>18. ASSUME NEW p \in Pods, Wake(p) PROVE BeatTypeOK'
  BY <1>18 DEF Wake, TypeOK, BeatTypeOK
<1>19. ASSUME NEW p \in Pods, Stall(p) PROVE BeatTypeOK'
  BY <1>19 DEF Stall, TypeOK, BeatTypeOK
<1>20. ASSUME NEW p \in Pods, Crash(p) PROVE BeatTypeOK'
  BY <1>20 DEF Crash, TypeOK, BeatTypeOK
<1>21. ASSUME NEW p \in Pods, DrainBegin(p) PROVE BeatTypeOK'
  BY <1>21 DEF DrainBegin, TypeOK, BeatTypeOK
<1>22. ASSUME NEW p \in Pods, DrainDeadline(p) PROVE BeatTypeOK'
  BY <1>22 DEF DrainDeadline, TypeOK, BeatTypeOK
<1>23. ASSUME NEW p \in Pods, DrainCancel(p) PROVE BeatTypeOK'
  BY <1>23 DEF DrainCancel, TypeOK, BeatTypeOK
<1>24. ASSUME NEW p \in Pods, DrainExit(p) PROVE BeatTypeOK'
  BY <1>24 DEF DrainExit, TypeOK, BeatTypeOK
<1>25. ASSUME NEW p \in Pods, NEW q \in Questions, DrainRelease(p, q) PROVE BeatTypeOK'
  BY <1>25 DEF DrainRelease, TypeOK, BeatTypeOK
<1>26. CASE BeatExpires
  BY <1>26 DEF BeatExpires, TypeOK, BeatTypeOK
<1>27. ASSUME NEW x \in recent, Age(x[1], x[2]) PROVE BeatTypeOK'
  BY <1>27 DEF Age, TypeOK, BeatTypeOK
<1>28. CASE UNCHANGED vars
  BY <1>28 DEF vars, podVars, tableVars, threadVars, TypeOK, BeatTypeOK
<1> QED
  BY <1>1, <1>2, <1>3, <1>4, <1>5, <1>6, <1>7, <1>8, <1>9, <1>10, <1>11, <1>12, <1>13,
      <1>14, <1>15, <1>16, <1>17, <1>18, <1>19, <1>20, <1>21, <1>22, <1>23, <1>24, <1>25,
      <1>26, <1>27, <1>28 DEF Next, Moves, TickStep, PodStep, TimeStep

\* So do the pods and the bounds.
LEMMA PodTypes ==
    ASSUME TypeOK, [Next]_vars
    PROVE  PodTypeOK'
<1>1. ASSUME NEW p \in Pods, NEW q \in Questions, Ask(p, q) PROVE PodTypeOK'
  BY <1>1 DEF Ask, podVars, Fault, TypeOK, PodTypeOK
<1>2. ASSUME NEW c \in copies, PrepareEnds(c) PROVE PodTypeOK'
  BY <1>2 DEF PrepareEnds, podVars, TypeOK, PodTypeOK
<1>3. ASSUME NEW c \in copies, PrepareFails(c) PROVE PodTypeOK'
  BY <1>3 DEF PrepareFails, podVars, TypeOK, PodTypeOK
<1>4. ASSUME NEW c \in copies, Start(c) PROVE PodTypeOK'
  BY <1>4 DEF Start, podVars, TypeOK, PodTypeOK
<1>5. ASSUME NEW c \in copies, Watch(c) PROVE PodTypeOK'
  BY <1>5 DEF Watch, podVars, TypeOK, PodTypeOK
<1>6. ASSUME NEW c \in copies, Check(c) PROVE PodTypeOK'
  BY <1>6 DEF Check, podVars, Fault, TypeOK, PodTypeOK
<1>7. ASSUME NEW c \in copies, GiveUpCovered(c) PROVE PodTypeOK'
  BY <1>7 DEF GiveUpCovered, podVars, TypeOK, PodTypeOK
<1>8. ASSUME NEW c \in copies, Write(c) PROVE PodTypeOK'
  BY <1>8 DEF Write, podVars, Fault, TypeOK, PodTypeOK
<1>9. ASSUME NEW c \in copies, FinishClaim(c) PROVE PodTypeOK'
  BY <1>9 DEF FinishClaim, podVars, Fault, TypeOK, PodTypeOK
<1>10. ASSUME NEW c \in copies, TurnEnds(c) PROVE PodTypeOK'
  BY <1>10 DEF TurnEnds, podVars, TypeOK, PodTypeOK
<1>11. ASSUME NEW p \in Pods, Beat(p) PROVE PodTypeOK'
  BY <1>11 DEF Beat, podVars, TypeOK, PodTypeOK
<1>12. ASSUME NEW p \in Pods, TickList(p) PROVE PodTypeOK'
  BY <1>12 DEF TickList, podVars, TypeOK, PodTypeOK
<1>13. ASSUME NEW p \in Pods, TickJudge(p) PROVE PodTypeOK'
  BY <1>13 DEF TickJudge, podVars, TypeOK, PodTypeOK
<1>14. ASSUME NEW p \in Pods, TickTake(p) PROVE PodTypeOK'
  BY <1>14 DEF TickTake, podVars, Fault, TypeOK, PodTypeOK
<1>15. ASSUME NEW p \in Pods, TickAdvance(p) PROVE PodTypeOK'
  BY <1>15 DEF TickAdvance, podVars, TypeOK, PodTypeOK
<1>16. ASSUME NEW p \in Pods, TickRerun(p) PROVE PodTypeOK'
  BY <1>16 DEF TickRerun, podVars, TypeOK, PodTypeOK
<1>17. ASSUME NEW p \in Pods, TickEnds(p) PROVE PodTypeOK'
  BY <1>17 DEF TickEnds, podVars, TypeOK, PodTypeOK
<1>18. ASSUME NEW p \in Pods, Wake(p) PROVE PodTypeOK'
  BY <1>18 DEF Wake, TypeOK, PodTypeOK
<1>19. ASSUME NEW p \in Pods, Stall(p) PROVE PodTypeOK'
  BY <1>19 DEF Stall, TypeOK, PodTypeOK
<1>20. ASSUME NEW p \in Pods, Crash(p) PROVE PodTypeOK'
  BY <1>20 DEF Crash, Gone, TypeOK, PodTypeOK
<1>21. ASSUME NEW p \in Pods, DrainBegin(p) PROVE PodTypeOK'
  BY <1>21 DEF DrainBegin, TypeOK, PodTypeOK
<1>22. ASSUME NEW p \in Pods, DrainDeadline(p) PROVE PodTypeOK'
  BY <1>22 DEF DrainDeadline, TypeOK, PodTypeOK
<1>23. ASSUME NEW p \in Pods, DrainCancel(p) PROVE PodTypeOK'
  BY <1>23 DEF DrainCancel, TypeOK, PodTypeOK
<1>24. ASSUME NEW p \in Pods, DrainExit(p) PROVE PodTypeOK'
  BY <1>24 DEF DrainExit, Gone, TypeOK, PodTypeOK
<1>25. ASSUME NEW p \in Pods, NEW q \in Questions, DrainRelease(p, q) PROVE PodTypeOK'
  BY <1>25 DEF DrainRelease, podVars, TypeOK, PodTypeOK
<1>26. CASE BeatExpires
  BY <1>26 DEF BeatExpires, podVars, TypeOK, PodTypeOK
<1>27. ASSUME NEW x \in recent, Age(x[1], x[2]) PROVE PodTypeOK'
  BY <1>27 DEF Age, podVars, TypeOK, PodTypeOK
<1>28. CASE UNCHANGED vars
  BY <1>28 DEF vars, podVars, tableVars, threadVars, TypeOK, PodTypeOK
<1> QED
  BY <1>1, <1>2, <1>3, <1>4, <1>5, <1>6, <1>7, <1>8, <1>9, <1>10, <1>11, <1>12, <1>13,
      <1>14, <1>15, <1>16, <1>17, <1>18, <1>19, <1>20, <1>21, <1>22, <1>23, <1>24, <1>25,
      <1>26, <1>27, <1>28 DEF Next, Moves, TickStep, PodStep, TimeStep

\* A copy stays a copy whatever becomes of it.
LEMMA CopyTypes ==
    ASSUME TypeOK, [Next]_vars
    PROVE  CopyTypeOK'
<1>1. ASSUME NEW p \in Pods, NEW q \in Questions, Ask(p, q) PROVE CopyTypeOK'
  BY <1>1 DEF Ask, NewCopy, TypeOK, CopyTypeOK, TableTypeOK, Copies, Stages, Kinds
<1>2. ASSUME NEW c \in copies, PrepareEnds(c) PROVE CopyTypeOK'
  BY <1>2 DEF PrepareEnds, Becomes, TypeOK, CopyTypeOK, TableTypeOK, Copies, Stages, Kinds
<1>3. ASSUME NEW c \in copies, PrepareFails(c) PROVE CopyTypeOK'
  BY <1>3 DEF PrepareFails, Becomes, TypeOK, CopyTypeOK, TableTypeOK, Copies, Stages, Kinds
<1>4. ASSUME NEW c \in copies, Start(c) PROVE CopyTypeOK'
  BY <1>4 DEF Start, Becomes, TypeOK, CopyTypeOK, TableTypeOK, Copies, Stages, Kinds
<1>5. ASSUME NEW c \in copies, Watch(c) PROVE CopyTypeOK'
  BY <1>5 DEF Watch, Becomes, TypeOK, CopyTypeOK, TableTypeOK, Copies, Stages, Kinds
<1>6. ASSUME NEW c \in copies, Check(c) PROVE CopyTypeOK'
  BY <1>6 DEF Check, Becomes, TypeOK, CopyTypeOK, TableTypeOK, Copies, Stages, Kinds
<1>7. ASSUME NEW c \in copies, GiveUpCovered(c) PROVE CopyTypeOK'
  BY <1>7 DEF GiveUpCovered, Becomes, TypeOK, CopyTypeOK, TableTypeOK, Copies, Stages, Kinds
<1>8. ASSUME NEW c \in copies, Write(c) PROVE CopyTypeOK'
  BY <1>8 DEF Write, Becomes, TypeOK, CopyTypeOK, TableTypeOK, Copies, Stages, Kinds
<1>9. ASSUME NEW c \in copies, FinishClaim(c) PROVE CopyTypeOK'
  BY <1>9 DEF FinishClaim, TypeOK, CopyTypeOK, TableTypeOK, Copies, Stages, Kinds
<1>10. ASSUME NEW c \in copies, TurnEnds(c) PROVE CopyTypeOK'
  BY <1>10 DEF TurnEnds, Becomes, TypeOK, CopyTypeOK, TableTypeOK, Copies, Stages, Kinds
<1>11. ASSUME NEW p \in Pods, Beat(p) PROVE CopyTypeOK'
  BY <1>11 DEF Beat, TypeOK, CopyTypeOK
<1>12. ASSUME NEW p \in Pods, TickList(p) PROVE CopyTypeOK'
  BY <1>12 DEF TickList, TypeOK, CopyTypeOK
<1>13. ASSUME NEW p \in Pods, TickJudge(p) PROVE CopyTypeOK'
  BY <1>13 DEF TickJudge, TypeOK, CopyTypeOK
<1>14. ASSUME NEW p \in Pods, TickTake(p) PROVE CopyTypeOK'
  <2>1. PICK q \in First(tick[p].todo) :
           copies' \subseteq copies \cup
              {NewCopy(p, q, tick[p].rows[q].reruns + 1, "ending", "lost")}
    BY <1>14 DEF TickTake
  <2>2. q \in Questions /\ tick[p].rows[q].reruns + 1 \in Nat
    BY <2>1 DEF First, TypeOK, TickTypeOK, Ticks, Rows
  <2> QED
    BY <2>1, <2>2 DEF NewCopy, TypeOK, CopyTypeOK, TableTypeOK, Copies, Stages, Kinds
<1>15. ASSUME NEW p \in Pods, TickAdvance(p) PROVE CopyTypeOK'
  BY <1>15 DEF TickAdvance, TypeOK, CopyTypeOK
<1>16. ASSUME NEW p \in Pods, TickRerun(p) PROVE CopyTypeOK'
  <2>1. PICK q \in First(tick[p].mine) :
           copies' = copies \cup
              {NewCopy(p, q, tick[p].rows[q].reruns + 1, "preparing", "answer")}
    BY <1>16 DEF TickRerun
  <2>2. q \in Questions /\ tick[p].rows[q].reruns + 1 \in Nat
    BY <2>1 DEF First, TypeOK, TickTypeOK, Ticks, Rows
  <2> QED
    BY <2>1, <2>2 DEF NewCopy, TypeOK, CopyTypeOK, TableTypeOK, Copies, Stages, Kinds
<1>17. ASSUME NEW p \in Pods, TickEnds(p) PROVE CopyTypeOK'
  BY <1>17 DEF TickEnds, TypeOK, CopyTypeOK
<1>18. ASSUME NEW p \in Pods, Wake(p) PROVE CopyTypeOK'
  BY <1>18 DEF Wake, TypeOK, CopyTypeOK
<1>19. ASSUME NEW p \in Pods, Stall(p) PROVE CopyTypeOK'
  BY <1>19 DEF Stall, TypeOK, CopyTypeOK
<1>20. ASSUME NEW p \in Pods, Crash(p) PROVE CopyTypeOK'
  BY <1>20 DEF Crash, Gone, On, TypeOK, CopyTypeOK, TableTypeOK, Copies, Stages, Kinds
<1>21. ASSUME NEW p \in Pods, DrainBegin(p) PROVE CopyTypeOK'
  BY <1>21 DEF DrainBegin, TypeOK, CopyTypeOK
<1>22. ASSUME NEW p \in Pods, DrainDeadline(p) PROVE CopyTypeOK'
  BY <1>22 DEF DrainDeadline, TypeOK, CopyTypeOK
<1>23. ASSUME NEW p \in Pods, DrainCancel(p) PROVE CopyTypeOK'
  <2>1. \A d \in copies : [d EXCEPT !.stage = "ending", !.kind = "cut"] \in Copies
    BY DEF TypeOK, CopyTypeOK, Copies, Stages, Kinds
  <2>2. \A d \in copies' : d \in copies
           \/ \E e \in copies : d = [e EXCEPT !.stage = "ending", !.kind = "cut"]
    BY <1>23 DEF DrainCancel, On
  <2> QED
    BY <2>1, <2>2 DEF TypeOK, CopyTypeOK
<1>24. ASSUME NEW p \in Pods, DrainExit(p) PROVE CopyTypeOK'
  BY <1>24 DEF DrainExit, Gone, On, TypeOK, CopyTypeOK, TableTypeOK, Copies, Stages, Kinds
<1>25. ASSUME NEW p \in Pods, NEW q \in Questions, DrainRelease(p, q) PROVE CopyTypeOK'
  BY <1>25 DEF DrainRelease, TypeOK, CopyTypeOK
<1>26. CASE BeatExpires
  BY <1>26 DEF BeatExpires, TypeOK, CopyTypeOK
<1>27. ASSUME NEW x \in recent, Age(x[1], x[2]) PROVE CopyTypeOK'
  BY <1>27 DEF Age, TypeOK, CopyTypeOK
<1>28. CASE UNCHANGED vars
  BY <1>28 DEF vars, podVars, tableVars, threadVars, TypeOK, CopyTypeOK
<1> QED
  BY <1>1, <1>2, <1>3, <1>4, <1>5, <1>6, <1>7, <1>8, <1>9, <1>10, <1>11, <1>12, <1>13,
      <1>14, <1>15, <1>16, <1>17, <1>18, <1>19, <1>20, <1>21, <1>22, <1>23, <1>24, <1>25,
      <1>26, <1>27, <1>28 DEF Next, Moves, TickStep, PodStep, TimeStep

\* A tick keeps a listing and two sets of questions.
LEMMA TickTypes ==
    ASSUME TypeOK, [Next]_vars
    PROVE  TickTypeOK'
<1>1. ASSUME NEW p \in Pods, NEW q \in Questions, Ask(p, q) PROVE TickTypeOK'
  BY <1>1 DEF Ask, TypeOK, TickTypeOK
<1>2. ASSUME NEW c \in copies, PrepareEnds(c) PROVE TickTypeOK'
  BY <1>2 DEF PrepareEnds, TypeOK, TickTypeOK
<1>3. ASSUME NEW c \in copies, PrepareFails(c) PROVE TickTypeOK'
  BY <1>3 DEF PrepareFails, TypeOK, TickTypeOK
<1>4. ASSUME NEW c \in copies, Start(c) PROVE TickTypeOK'
  BY <1>4 DEF Start, TypeOK, TickTypeOK
<1>5. ASSUME NEW c \in copies, Watch(c) PROVE TickTypeOK'
  BY <1>5 DEF Watch, TypeOK, TickTypeOK
<1>6. ASSUME NEW c \in copies, Check(c) PROVE TickTypeOK'
  BY <1>6 DEF Check, TypeOK, TickTypeOK
<1>7. ASSUME NEW c \in copies, GiveUpCovered(c) PROVE TickTypeOK'
  BY <1>7 DEF GiveUpCovered, TypeOK, TickTypeOK
<1>8. ASSUME NEW c \in copies, Write(c) PROVE TickTypeOK'
  BY <1>8 DEF Write, TypeOK, TickTypeOK
<1>9. ASSUME NEW c \in copies, FinishClaim(c) PROVE TickTypeOK'
  BY <1>9 DEF FinishClaim, TypeOK, TickTypeOK
<1>10. ASSUME NEW c \in copies, TurnEnds(c) PROVE TickTypeOK'
  BY <1>10 DEF TurnEnds, TypeOK, TickTypeOK
<1>11. ASSUME NEW p \in Pods, Beat(p) PROVE TickTypeOK'
  BY <1>11 DEF Beat, TypeOK, TickTypeOK
<1>12. ASSUME NEW p \in Pods, TickList(p) PROVE TickTypeOK'
  <2>1. [Idle EXCEPT !.stage = "listed", !.rows = row] \in Ticks
    BY DEF Idle, Ticks, NoRow, TypeOK, TableTypeOK
  <2> QED
    BY <1>12, <2>1 DEF TickList, TypeOK, TickTypeOK
<1>13. ASSUME NEW p \in Pods, TickJudge(p) PROVE TickTypeOK'
  <2>1. Idle \in Ticks
    BY DEF Idle, Ticks, NoRow, Rows
  <2>2. Candidates(tick[p].rows) \in SUBSET Questions
    BY DEF Candidates
  <2>3. [tick[p] EXCEPT !.stage = "taking", !.todo = Candidates(tick[p].rows)] \in Ticks
    BY <2>2 DEF TypeOK, TickTypeOK, Ticks
  <2> QED
    BY <1>13, <2>1, <2>3 DEF TickJudge, TypeOK, TickTypeOK
<1>14. ASSUME NEW p \in Pods, TickTake(p) PROVE TickTypeOK'
  <2>1. tick[p] \in Ticks /\ tick \in [Pods -> Ticks]
    BY DEF TypeOK, TickTypeOK
  <2>2. \A todo, mine \in SUBSET Questions, st \in BOOLEAN :
           [tick[p] EXCEPT !.todo = todo, !.stalled = st, !.mine = mine] \in Ticks
    BY <2>1 DEF Ticks
  <2>3. \A todo \in SUBSET Questions : [tick[p] EXCEPT !.todo = todo] \in Ticks
    BY <2>1 DEF Ticks
  <2>4. PICK q \in First(tick[p].todo) :
           \/ tick' = [tick EXCEPT ![p] = [tick[p] EXCEPT !.todo = @ \ {q},
                       !.stalled = @ \/ ~tick[p].rows[q].released,
                       !.mine = IF Spent(tick[p].rows[q]) THEN @ ELSE @ \cup {q}]]
           \/ tick' = [tick EXCEPT ![p] = [tick[p] EXCEPT
                       !.todo = IF Listed(row, q) THEN {} ELSE @ \ {q}]]
           \/ tick' = [tick EXCEPT ![p] = [tick[p] EXCEPT !.todo = @ \ {q}]]
    BY <1>14 DEF TickTake
  <2>5. q \in Questions /\ tick[p].todo \in SUBSET Questions /\ tick[p].mine \in SUBSET Questions
    BY <2>1, <2>4 DEF First, Ticks
  <2>6. tick[p].todo \ {q} \in SUBSET Questions /\ tick[p].mine \cup {q} \in SUBSET Questions
    BY <2>5
  <2>7. (tick[p].stalled \/ ~tick[p].rows[q].released) \in BOOLEAN
    OBVIOUS
  <2>8. [tick[p] EXCEPT !.todo = @ \ {q},
                        !.stalled = @ \/ ~tick[p].rows[q].released,
                        !.mine = IF Spent(tick[p].rows[q]) THEN @ ELSE @ \cup {q}] \in Ticks
    BY <2>2, <2>5, <2>6, <2>7
  <2>9. /\ [tick[p] EXCEPT !.todo = IF Listed(row, q) THEN {} ELSE @ \ {q}] \in Ticks
        /\ [tick[p] EXCEPT !.todo = @ \ {q}] \in Ticks
    BY <2>3, <2>6
  <2>10. \A t \in Ticks : [tick EXCEPT ![p] = t] \in [Pods -> Ticks]
    BY <2>1
  <2> QED
    BY <2>4, <2>8, <2>9, <2>10 DEF TickTypeOK
<1>15. ASSUME NEW p \in Pods, TickAdvance(p) PROVE TickTypeOK'
  BY <1>15 DEF TickAdvance, First, TypeOK, TickTypeOK, Ticks
<1>16. ASSUME NEW p \in Pods, TickRerun(p) PROVE TickTypeOK'
  <2>1. tick[p] \in Ticks /\ tick \in [Pods -> Ticks]
    BY DEF TypeOK, TickTypeOK
  <2>2. PICK q \in First(tick[p].mine) : tick' = [tick EXCEPT ![p] = [tick[p] EXCEPT !.mine = @ \ {q}]]
    BY <1>16 DEF TickRerun
  <2>3. [tick[p] EXCEPT !.mine = @ \ {q}] \in Ticks
    BY <2>1 DEF Ticks
  <2> QED
    BY <2>1, <2>2, <2>3 DEF TickTypeOK
<1>17. ASSUME NEW p \in Pods, TickEnds(p) PROVE TickTypeOK'
  <2>1. Idle \in Ticks
    BY DEF Idle, Ticks, NoRow, Rows
  <2> QED
    BY <1>17, <2>1 DEF TickEnds, TypeOK, TickTypeOK
<1>18. ASSUME NEW p \in Pods, Wake(p) PROVE TickTypeOK'
  BY <1>18 DEF Wake, TypeOK, TickTypeOK
<1>19. ASSUME NEW p \in Pods, Stall(p) PROVE TickTypeOK'
  BY <1>19 DEF Stall, TypeOK, TickTypeOK
<1>20. ASSUME NEW p \in Pods, Crash(p) PROVE TickTypeOK'
  <2>1. Idle \in Ticks
    BY DEF Idle, Ticks, NoRow, Rows
  <2> QED
    BY <1>20, <2>1 DEF Crash, Gone, TypeOK, TickTypeOK
<1>21. ASSUME NEW p \in Pods, DrainBegin(p) PROVE TickTypeOK'
  <2>1. Idle \in Ticks
    BY DEF Idle, Ticks, NoRow, Rows
  <2> QED
    BY <1>21, <2>1 DEF DrainBegin, TypeOK, TickTypeOK
<1>22. ASSUME NEW p \in Pods, DrainDeadline(p) PROVE TickTypeOK'
  BY <1>22 DEF DrainDeadline, TypeOK, TickTypeOK
<1>23. ASSUME NEW p \in Pods, DrainCancel(p) PROVE TickTypeOK'
  BY <1>23 DEF DrainCancel, TypeOK, TickTypeOK
<1>24. ASSUME NEW p \in Pods, DrainExit(p) PROVE TickTypeOK'
  <2>1. Idle \in Ticks
    BY DEF Idle, Ticks, NoRow, Rows
  <2> QED
    BY <1>24, <2>1 DEF DrainExit, Gone, TypeOK, TickTypeOK
<1>25. ASSUME NEW p \in Pods, NEW q \in Questions, DrainRelease(p, q) PROVE TickTypeOK'
  BY <1>25 DEF DrainRelease, TypeOK, TickTypeOK
<1>26. CASE BeatExpires
  BY <1>26 DEF BeatExpires, TypeOK, TickTypeOK
<1>27. ASSUME NEW x \in recent, Age(x[1], x[2]) PROVE TickTypeOK'
  BY <1>27 DEF Age, TypeOK, TickTypeOK
<1>28. CASE UNCHANGED vars
  BY <1>28 DEF vars, podVars, tableVars, threadVars, TypeOK, TickTypeOK
<1> QED
  BY <1>1, <1>2, <1>3, <1>4, <1>5, <1>6, <1>7, <1>8, <1>9, <1>10, <1>11, <1>12, <1>13,
      <1>14, <1>15, <1>16, <1>17, <1>18, <1>19, <1>20, <1>21, <1>22, <1>23, <1>24, <1>25,
      <1>26, <1>27, <1>28 DEF Next, Moves, TickStep, PodStep, TimeStep

\* Endings are appended one kind at a time.
LEMMA ThreadTypes ==
    ASSUME TypeOK, [Next]_vars
    PROVE  ThreadTypeOK'
<1>1. ASSUME NEW p \in Pods, NEW q \in Questions, Ask(p, q) PROVE ThreadTypeOK'
  BY <1>1 DEF Ask, threadVars, TypeOK, ThreadTypeOK
<1>2. ASSUME NEW c \in copies, PrepareEnds(c) PROVE ThreadTypeOK'
  BY <1>2 DEF PrepareEnds, threadVars, TypeOK, ThreadTypeOK
<1>3. ASSUME NEW c \in copies, PrepareFails(c) PROVE ThreadTypeOK'
  BY <1>3 DEF PrepareFails, threadVars, TypeOK, ThreadTypeOK
<1>4. ASSUME NEW c \in copies, Start(c) PROVE ThreadTypeOK'
  BY <1>4 DEF Start, threadVars, TypeOK, ThreadTypeOK
<1>5. ASSUME NEW c \in copies, Watch(c) PROVE ThreadTypeOK'
  BY <1>5 DEF Watch, threadVars, TypeOK, ThreadTypeOK
<1>6. ASSUME NEW c \in copies, Check(c) PROVE ThreadTypeOK'
  BY <1>6 DEF Check, threadVars, CopyTypeOK, Copies, TypeOK, ThreadTypeOK
<1>7. ASSUME NEW c \in copies, GiveUpCovered(c) PROVE ThreadTypeOK'
  BY <1>7 DEF GiveUpCovered, threadVars, CopyTypeOK, Copies, TypeOK, ThreadTypeOK
<1>8. ASSUME NEW c \in copies, Write(c) PROVE ThreadTypeOK'
  <2>1. c.q \in Questions /\ c.kind \in Kinds /\ Append(endings[c.q], c.kind) \in Seq(Kinds)
    BY DEF CopyTypeOK, Copies, TypeOK, ThreadTypeOK
  <2>2. asked \in SUBSET Questions
    BY DEF TypeOK, TableTypeOK
  <2>3. endings' \in [Questions -> Seq(Kinds)]
    BY <1>8, <2>1 DEF Write, threadVars, TypeOK, ThreadTypeOK
  <2>4. covered' \in SUBSET Questions /\ exposed' = exposed
    BY <1>8, <2>2 DEF Write, threadVars, TypeOK, ThreadTypeOK
  <2> QED
    BY <2>3, <2>4 DEF TypeOK, ThreadTypeOK
<1>9. ASSUME NEW c \in copies, FinishClaim(c) PROVE ThreadTypeOK'
  BY <1>9 DEF FinishClaim, threadVars, CopyTypeOK, Copies, TypeOK, ThreadTypeOK
<1>10. ASSUME NEW c \in copies, TurnEnds(c) PROVE ThreadTypeOK'
  BY <1>10 DEF TurnEnds, threadVars, TypeOK, ThreadTypeOK
<1>11. ASSUME NEW p \in Pods, Beat(p) PROVE ThreadTypeOK'
  BY <1>11 DEF Beat, threadVars, TypeOK, ThreadTypeOK
<1>12. ASSUME NEW p \in Pods, TickList(p) PROVE ThreadTypeOK'
  BY <1>12 DEF TickList, threadVars, TypeOK, ThreadTypeOK
<1>13. ASSUME NEW p \in Pods, TickJudge(p) PROVE ThreadTypeOK'
  BY <1>13 DEF TickJudge, threadVars, TypeOK, ThreadTypeOK
<1>14. ASSUME NEW p \in Pods, TickTake(p) PROVE ThreadTypeOK'
  BY <1>14 DEF TickTake, threadVars, Exposes, First, TickTypeOK, Ticks, TypeOK, ThreadTypeOK
<1>15. ASSUME NEW p \in Pods, TickAdvance(p) PROVE ThreadTypeOK'
  BY <1>15 DEF TickAdvance, threadVars, TypeOK, ThreadTypeOK
<1>16. ASSUME NEW p \in Pods, TickRerun(p) PROVE ThreadTypeOK'
  BY <1>16 DEF TickRerun, threadVars, TypeOK, ThreadTypeOK
<1>17. ASSUME NEW p \in Pods, TickEnds(p) PROVE ThreadTypeOK'
  BY <1>17 DEF TickEnds, threadVars, TypeOK, ThreadTypeOK
<1>18. ASSUME NEW p \in Pods, Wake(p) PROVE ThreadTypeOK'
  BY <1>18 DEF Wake, threadVars, TypeOK, ThreadTypeOK
<1>19. ASSUME NEW p \in Pods, Stall(p) PROVE ThreadTypeOK'
  BY <1>19 DEF Stall, threadVars, TypeOK, ThreadTypeOK
<1>20. ASSUME NEW p \in Pods, Crash(p) PROVE ThreadTypeOK'
  BY <1>20 DEF Crash, threadVars, Gone, On, CopyTypeOK, Copies, TypeOK, ThreadTypeOK
<1>21. ASSUME NEW p \in Pods, DrainBegin(p) PROVE ThreadTypeOK'
  BY <1>21 DEF DrainBegin, threadVars, TypeOK, ThreadTypeOK
<1>22. ASSUME NEW p \in Pods, DrainDeadline(p) PROVE ThreadTypeOK'
  BY <1>22 DEF DrainDeadline, threadVars, TypeOK, ThreadTypeOK
<1>23. ASSUME NEW p \in Pods, DrainCancel(p) PROVE ThreadTypeOK'
  BY <1>23 DEF DrainCancel, threadVars, TypeOK, ThreadTypeOK
<1>24. ASSUME NEW p \in Pods, DrainExit(p) PROVE ThreadTypeOK'
  BY <1>24 DEF DrainExit, threadVars, Gone, On, CopyTypeOK, Copies, TypeOK, ThreadTypeOK
<1>25. ASSUME NEW p \in Pods, NEW q \in Questions, DrainRelease(p, q) PROVE ThreadTypeOK'
  BY <1>25 DEF DrainRelease, threadVars, Exposes, TypeOK, ThreadTypeOK
<1>26. CASE BeatExpires
  BY <1>26 DEF BeatExpires, threadVars, TypeOK, ThreadTypeOK
<1>27. ASSUME NEW x \in recent, Age(x[1], x[2]) PROVE ThreadTypeOK'
  BY <1>27 DEF Age, threadVars, TypeOK, ThreadTypeOK
<1>28. CASE UNCHANGED vars
  BY <1>28 DEF vars, podVars, tableVars, threadVars, TypeOK, ThreadTypeOK
<1> QED
  BY <1>1, <1>2, <1>3, <1>4, <1>5, <1>6, <1>7, <1>8, <1>9, <1>10, <1>11, <1>12, <1>13,
      <1>14, <1>15, <1>16, <1>17, <1>18, <1>19, <1>20, <1>21, <1>22, <1>23, <1>24, <1>25,
      <1>26, <1>27, <1>28 DEF Next, Moves, TickStep, PodStep, TimeStep

\* A step keeps every type.
LEMMA TypeStep == ASSUME TypeOK, [Next]_vars PROVE TypeOK'
BY TableTypes, BeatTypes, PodTypes, CopyTypes, TickTypes, ThreadTypes DEF TypeOK

\* Every variable keeps its type: rows, copies and ticks are what the code's
\* TurnClaim, turn task and ReclaimTick hold.
THEOREM TypeCorrect == Spec => []TypeOK
<1>1. Init => TypeOK
  BY InitTypes
<1>2. TypeOK /\ [Next]_vars => TypeOK'
  BY TypeStep
<1> QED
  BY <1>1, <1>2, PTL DEF Spec

-----------------------------------------------------------------------------
(* The inductive invariant *)

\* Only what was asked has a row, a copy, an ending or a place in a tick, and
\* a question without a claim never has another run.
Ledger ==
    /\ claimless \subseteq asked
    /\ \A q \in Questions : Listed(row, q) => q \in asked /\ q \notin claimless
    /\ \A c \in copies : c.q \in asked /\ (c.q \in claimless => c.run = 0)
    /\ \A q \in Questions : endings[q] # <<>> => q \in asked
    /\ \A p \in Pods, q \in Questions :
          Listed(tick[p].rows, q) => q \in asked /\ q \notin claimless
    /\ \A p \in Pods, q \in Questions :
          q \in tick[p].todo \/ q \in tick[p].mine => Listed(tick[p].rows, q)

\* A row counts its takes: no copy, and none a tick is still to start, is of a
\* later run than its row says, and no two ticks hold the same run.
RunsCounted ==
    /\ \A c \in copies : Listed(row, c.q) => c.run <= row[c.q].reruns
    /\ \A p \in Pods, q \in Questions :
          q \in tick[p].mine /\ Listed(row, q) => tick[p].rows[q].reruns < row[q].reruns
    /\ \A p, o \in Pods, q \in Questions :
          q \in tick[p].mine /\ q \in tick[o].mine /\ p # o
              => tick[p].rows[q].reruns # tick[o].rows[q].reruns

\* One persist at a time on a pod.
OnePersist == \A c, d \in copies : Persisting(c) /\ Persisting(d) /\ c.pod = d.pod => c = d

\* No copy is about to write a second ending.
NoneAfterEnding == \A c \in copies : c.q \notin exposed /\ endings[c.q] # <<>> => c.stage # "checked"

\* A question that has its ending and is still claimed has a copy about to
\* finish its claim.
EndedIsFinishing ==
    \A q \in Questions \ exposed :
        endings[q] # <<>> /\ Listed(row, q) => \E c \in copies : c.q = q /\ c.stage = "written"

\* Without a claim there is one copy, and once it has written it only finishes.
ClaimlessIsDone ==
    \A c \in copies :
        c.q \in claimless /\ c.q \notin exposed /\ endings[c.q] # <<>> => c.stage = "written"

EndingsSettled ==
    /\ OnePersist /\ NoneAfterEnding /\ EndedIsFinishing /\ ClaimlessIsDone
    /\ OnlyTheHolderPersists /\ EndsOnce

\* A run beyond the bound is a give-up, and ticks hold none to start.
GiveUps ==
    /\ \A c \in copies :
          c.run > MaxReruns => c.kind = "lost" /\ c.stage \in {"ending", "checked", "written"}
    /\ \A p \in Pods, q \in Questions :
          q \in tick[p].mine => tick[p].rows[q].reruns < MaxReruns

-----------------------------------------------------------------------------
(* What the steps do to copies and ticks *)

\* A copy keeps its pod, question and run whatever becomes of it.
Moved(c) ==
    \/ copies' = copies \ {c}
    \/ \E d \in Copies : /\ copies' = (copies \ {c}) \cup {d}
                         /\ d.pod = c.pod /\ d.q = c.q /\ d.run = c.run

\* A take that won its CAS.
Took(p, q) ==
    /\ q \in tick[p].todo /\ row[q] = tick[p].rows[q]
    /\ row' = [row EXCEPT ![q] = Taken(p, row[q])]
    /\ exposed' = exposed \cup Exposes(q)
    /\ \A o \in Pods : o # p => tick'[o].mine = tick[o].mine
    /\ \/ /\ row[q].reruns >= MaxReruns
          /\ tick'[p].mine = tick[p].mine
          /\ copies' = copies \cup {NewCopy(p, q, row[q].reruns + 1, "ending", "lost")}
       \/ /\ ~(row[q].reruns >= MaxReruns)
          /\ tick'[p].mine = tick[p].mine \cup {q}
          /\ copies' = copies

\* What TickTake comes to: one take that won, or nothing outside the tick.
LEMMA TakeEffect ==
    ASSUME TypeOK, NEW p \in Pods, TickTake(p)
    PROVE  /\ UNCHANGED <<asked, claimless, endings>>
           /\ \A o \in Pods : tick'[o].rows = tick[o].rows /\ tick'[o].todo \subseteq tick[o].todo
           /\ \/ \E q \in Questions : Took(p, q)
              \/ /\ UNCHANGED <<row, exposed, copies>>
                 /\ \A o \in Pods : tick'[o].mine = tick[o].mine
<1>1. tick \in [Pods -> Ticks] /\ tick[p] \in Ticks
  BY DEF TypeOK, TickTypeOK
<1>2. PICK q \in First(tick[p].todo) :
        LET was == tick[p].rows[q]
        IN  \/ /\ Unchanged(p, q)
               /\ row' = [row EXCEPT ![q] = Taken(p, was)]
               /\ exposed' = exposed \cup Exposes(q)
               /\ tick' = [tick EXCEPT ![p] = [tick[p] EXCEPT
                              !.todo = @ \ {q},
                              !.stalled = @ \/ ~was.released,
                              !.mine = IF Spent(was) THEN @ ELSE @ \cup {q}]]
               /\ copies' = IF Spent(was)
                            THEN copies \cup {NewCopy(p, q, was.reruns + 1, "ending", "lost")}
                            ELSE copies
            \/ /\ tick' = [tick EXCEPT ![p] = [tick[p] EXCEPT
                              !.todo = IF Listed(row, q) THEN {} ELSE @ \ {q}]]
               /\ UNCHANGED <<tableVars, exposed, copies>>
            \/ /\ tick' = [tick EXCEPT ![p] = [tick[p] EXCEPT !.todo = @ \ {q}]]
               /\ UNCHANGED <<tableVars, exposed, copies>>
  BY DEF TickTake
<1>3. UNCHANGED <<asked, claimless, endings>>
  BY DEF TickTake, threadVars
<1>4. q \in Questions /\ q \in tick[p].todo
  BY <1>1, <1>2 DEF First, Ticks
<1>5. CASE /\ tick' = [tick EXCEPT ![p] = [tick[p] EXCEPT
                          !.todo = IF Listed(row, q) THEN {} ELSE @ \ {q}]]
           /\ UNCHANGED <<tableVars, exposed, copies>>
  BY <1>1, <1>3, <1>5 DEF Ticks, tableVars
<1>6. CASE /\ tick' = [tick EXCEPT ![p] = [tick[p] EXCEPT !.todo = @ \ {q}]]
           /\ UNCHANGED <<tableVars, exposed, copies>>
  BY <1>1, <1>3, <1>6 DEF Ticks, tableVars
<1>7. CASE /\ Unchanged(p, q)
           /\ row' = [row EXCEPT ![q] = Taken(p, tick[p].rows[q])]
           /\ exposed' = exposed \cup Exposes(q)
           /\ tick' = [tick EXCEPT ![p] = [tick[p] EXCEPT
                          !.todo = @ \ {q},
                          !.stalled = @ \/ ~tick[p].rows[q].released,
                          !.mine = IF Spent(tick[p].rows[q]) THEN @ ELSE @ \cup {q}]]
           /\ copies' = IF Spent(tick[p].rows[q])
                  THEN copies \cup {NewCopy(p, q, tick[p].rows[q].reruns + 1, "ending", "lost")}
                  ELSE copies
  <2>1. row[q] = tick[p].rows[q]
    BY <1>7 DEF Unchanged
  <2>2. \A o \in Pods : o # p => tick'[o] = tick[o]
    BY <1>1, <1>7
  <2>3. /\ tick'[p].rows = tick[p].rows /\ tick'[p].todo = tick[p].todo \ {q}
        /\ tick'[p].mine = IF Spent(tick[p].rows[q]) THEN tick[p].mine ELSE tick[p].mine \cup {q}
    BY <1>1, <1>7 DEF Ticks
  <2>4. Took(p, q)
    BY <1>4, <1>7, <2>1, <2>2, <2>3 DEF Took, Spent
  <2> QED
    BY <1>3, <1>4, <2>2, <2>3, <2>4
<1> QED
  BY <1>2, <1>5, <1>6, <1>7

\* What TickRerun comes to: one run moves from the tick to the copies.
LEMMA RerunEffect ==
    ASSUME TypeOK, NEW p \in Pods, TickRerun(p)
    PROVE  /\ UNCHANGED <<asked, claimless, endings, row, exposed>>
           /\ \A o \in Pods : tick'[o].rows = tick[o].rows /\ tick'[o].todo = tick[o].todo
           /\ \A o \in Pods : o # p => tick'[o].mine = tick[o].mine
           /\ \E q \in Questions :
                 /\ q \in tick[p].mine /\ tick'[p].mine = tick[p].mine \ {q}
                 /\ copies' = copies \cup
                       {NewCopy(p, q, tick[p].rows[q].reruns + 1, "preparing", "answer")}
<1>1. tick \in [Pods -> Ticks] /\ tick[p] \in Ticks
  BY DEF TypeOK, TickTypeOK
<1>2. PICK q \in First(tick[p].mine) :
        /\ copies' = copies \cup
              {NewCopy(p, q, tick[p].rows[q].reruns + 1, "preparing", "answer")}
        /\ tick' = [tick EXCEPT ![p] = [tick[p] EXCEPT !.mine = @ \ {q}]]
  BY DEF TickRerun
<1>3. UNCHANGED <<asked, claimless, endings, row, exposed>>
  BY DEF TickRerun, threadVars, tableVars
<1>4. q \in Questions /\ q \in tick[p].mine
  BY <1>1, <1>2 DEF First, Ticks
<1>5. /\ \A o \in Pods : o # p => tick'[o] = tick[o]
      /\ tick'[p].rows = tick[p].rows /\ tick'[p].todo = tick[p].todo
      /\ tick'[p].mine = tick[p].mine \ {q}
  BY <1>1, <1>2 DEF Ticks
<1> QED
  BY <1>2, <1>3, <1>4, <1>5

\* A tick that starts, judges or advances takes nothing over.
LEMMA QuietTick ==
    ASSUME TypeOK, NEW p \in Pods, TickList(p) \/ TickJudge(p) \/ TickAdvance(p)
    PROVE  /\ UNCHANGED <<asked, claimless, endings, row, exposed, copies>>
           /\ \A o \in Pods : tick'[o].mine = tick[o].mine \/ tick'[o].mine = {}
           /\ \A o \in Pods : tick'[o].rows = tick[o].rows \/ tick'[o].mine = {}
           /\ \A o \in Pods, q \in Questions :
                 Listed(tick'[o].rows, q) => Listed(tick[o].rows, q) \/ Listed(row, q)
           /\ \A o \in Pods, q \in Questions :
                 q \in tick'[o].todo => \/ Listed(tick'[o].rows, q)
                                        \/ q \in tick[o].todo /\ tick'[o].rows = tick[o].rows
<1>1. tick \in [Pods -> Ticks] /\ tick[p] \in Ticks
  BY DEF TypeOK, TickTypeOK
<1>2. UNCHANGED <<asked, claimless, endings, row, exposed, copies>>
  BY DEF TickList, TickJudge, TickAdvance, threadVars, tableVars
<1>3. CASE TickList(p)
  BY <1>1, <1>2, <1>3 DEF TickList, Idle, Ticks
<1>4. CASE TickJudge(p)
  <2>1. \A q \in Candidates(tick[p].rows) : Listed(tick[p].rows, q)
    BY DEF Candidates
  <2>2. \/ tick' = [tick EXCEPT ![p] = Idle]
        \/ tick' = [tick EXCEPT ![p] =
                      [tick[p] EXCEPT !.stage = "taking", !.todo = Candidates(tick[p].rows)]]
    BY <1>4 DEF TickJudge
  <2>3. CASE tick' = [tick EXCEPT ![p] = Idle]
    BY <1>1, <1>2, <2>3 DEF Idle, Listed, NoRow
  <2>4. CASE tick' = [tick EXCEPT ![p] =
                      [tick[p] EXCEPT !.stage = "taking", !.todo = Candidates(tick[p].rows)]]
    BY <1>1, <1>2, <2>1, <2>4 DEF Ticks
  <2> QED
    BY <2>2, <2>3, <2>4
<1>5. CASE TickAdvance(p)
  BY <1>1, <1>2, <1>5 DEF TickAdvance, Ticks
<1> QED
  BY <1>3, <1>4, <1>5

\* A copy's own steps change that copy and no row.
LEMMA MoveEffect ==
    ASSUME TypeOK, NEW c \in copies,
           \/ PrepareEnds(c) \/ PrepareFails(c) \/ Start(c) \/ Watch(c) \/ TurnEnds(c)
           \/ Check(c) \/ GiveUpCovered(c) \/ Write(c)
    PROVE  Moved(c) /\ UNCHANGED <<asked, claimless, row, tick>>
<1> DEFINE Keeps(d) == d \in Copies /\ d.pod = c.pod /\ d.q = c.q /\ d.run = c.run
<1>1. c \in Copies /\ epoch \in Nat
  BY DEF TypeOK, CopyTypeOK, TableTypeOK
<1>2. \A s \in Stages : Keeps([c EXCEPT !.stage = s])
  BY <1>1 DEF Copies
<1>3. \A s \in Stages, k \in Kinds : Keeps([c EXCEPT !.stage = s, !.kind = k])
  BY <1>1 DEF Copies
<1>4. \A s \in Stages, e \in Nat : Keeps([c EXCEPT !.stage = s, !.stamp = e])
  BY <1>1 DEF Copies
<1>5. \A d : Keeps(d) /\ Becomes(c, d) => Moved(c)
  BY DEF Becomes, Moved
<1>6. /\ \A s \in {"queued", "running", "ending", "checked", "written"} : s \in Stages
      /\ "cut" \in Kinds /\ "failed" \in Kinds
  BY DEF Stages, Kinds
<1> HIDE DEF Keeps
<1>7. UNCHANGED <<asked, claimless, row, tick>>
  BY DEF PrepareEnds, PrepareFails, Start, Watch, TurnEnds, Check, GiveUpCovered, Write,
      tableVars
<1>8. CASE PrepareEnds(c) \/ PrepareFails(c) \/ Watch(c)
  <2>1. \/ Becomes(c, [c EXCEPT !.stage = "ending", !.kind = "cut"])
        \/ Becomes(c, [c EXCEPT !.stage = "ending", !.kind = "failed"])
        \/ Becomes(c, [c EXCEPT !.stage = "queued"])
    BY <1>8 DEF PrepareEnds, PrepareFails, Watch
  <2> QED
    BY <1>2, <1>3, <1>5, <1>6, <1>7, <2>1
<1>9. CASE Start(c)
  BY <1>1, <1>4, <1>5, <1>6, <1>7, <1>9 DEF Start
<1>10. CASE TurnEnds(c) \/ GiveUpCovered(c)
  BY <1>2, <1>5, <1>6, <1>7, <1>10 DEF TurnEnds, GiveUpCovered
<1>11. CASE Check(c) \/ Write(c)
  <2>1. \/ Becomes(c, [c EXCEPT !.stage = "checked"])
        \/ Becomes(c, [c EXCEPT !.stage = "written"])
        \/ copies' = copies \ {c}
    BY <1>11 DEF Check, Write
  <2>2. copies' = copies \ {c} => Moved(c)
    BY DEF Moved
  <2> QED
    BY <1>2, <1>5, <1>6, <1>7, <2>1, <2>2
<1> QED
  BY <1>8, <1>9, <1>10, <1>11

\* A tick that is over, or cancelled, holds nothing.
LEMMA IdleEffect ==
    ASSUME TypeOK, NEW p \in Pods, tick' = [tick EXCEPT ![p] = Idle]
    PROVE  \A o \in Pods :
              \/ tick'[o] = tick[o]
              \/ /\ tick'[o].mine = {} /\ tick'[o].todo = {}
                 /\ \A q \in Questions : ~Listed(tick'[o].rows, q)
BY DEF TypeOK, TickTypeOK, Idle, Listed, NoRow

\* Nothing gets a row, a copy or an ending before it is asked.
LEMMA LedgerStep ==
    ASSUME TypeOK, Ledger, [Next]_vars
    PROVE  Ledger'
<1>1. ASSUME NEW p \in Pods, NEW q \in Questions, Ask(p, q) PROVE Ledger'
  <2>1. /\ asked' = asked \cup {q} /\ UNCHANGED <<tick, endings>>
        /\ copies' = copies \cup {NewCopy(p, q, 0, "preparing", "answer")}
    BY <1>1 DEF Ask, threadVars
  <2>2. \A d \in copies' : d \in copies \/ (d.q = q /\ d.run = 0)
    BY <2>1 DEF NewCopy
  <2>3. /\ claimless' \subseteq claimless \cup {q}
        /\ \A x \in Questions : Listed(row', x) => Listed(row, x) \/ (x = q /\ claimless' = claimless)
    BY <1>1 DEF Ask, TypeOK, TableTypeOK, tableVars, Listed
  <2>4. q \notin claimless
    BY <1>1 DEF Ask, Ledger
  <2>5. ~Listed(row, q) /\ (\A d \in copies : d.q # q)
        /\ \A o \in Pods : ~Listed(tick[o].rows, q)
    BY <1>1 DEF Ask, Ledger
  <2> QED
    BY <2>1, <2>2, <2>3, <2>4, <2>5 DEF Ledger
<1>2. ASSUME NEW c \in copies, PrepareEnds(c) PROVE Ledger'
  BY <1>2, MoveEffect DEF Moved, PrepareEnds, podVars, tableVars, threadVars, Becomes,
      TypeOK, CopyTypeOK, Copies, Ledger, Listed
<1>3. ASSUME NEW c \in copies, PrepareFails(c) PROVE Ledger'
  BY <1>3, MoveEffect DEF Moved, PrepareFails, podVars, tableVars, threadVars, Becomes,
      TypeOK, CopyTypeOK, Copies, Ledger, Listed
<1>4. ASSUME NEW c \in copies, Start(c) PROVE Ledger'
  BY <1>4, MoveEffect DEF Moved, Start, podVars, tableVars, threadVars, Becomes, TypeOK,
      CopyTypeOK, Copies, Ledger, Listed
<1>5. ASSUME NEW c \in copies, Watch(c) PROVE Ledger'
  BY <1>5, MoveEffect DEF Moved, Watch, podVars, tableVars, threadVars, Becomes, TypeOK,
      CopyTypeOK, Copies, Ledger, Listed
<1>6. ASSUME NEW c \in copies, Check(c) PROVE Ledger'
  BY <1>6, MoveEffect DEF Moved, Check, podVars, tableVars, threadVars, Becomes, Fault,
      TypeOK, CopyTypeOK, Copies, Ledger, Listed
<1>7. ASSUME NEW c \in copies, GiveUpCovered(c) PROVE Ledger'
  BY <1>7, MoveEffect DEF Moved, GiveUpCovered, podVars, tableVars, threadVars, Becomes,
      TypeOK, CopyTypeOK, Copies, Ledger, Listed
<1>8. ASSUME NEW c \in copies, Write(c) PROVE Ledger'
  <2>1. c.q \in asked /\ \A q \in Questions : endings'[q] # endings[q] => q = c.q
    BY <1>8 DEF Write, threadVars, Ledger, TypeOK, ThreadTypeOK
  <2> QED
    BY <1>8, <2>1, MoveEffect DEF Moved, TypeOK, CopyTypeOK, Copies, Ledger, Listed
<1>9. ASSUME NEW c \in copies, FinishClaim(c) PROVE Ledger'
  BY <1>9 DEF FinishClaim, podVars, threadVars, Fault, TableTypeOK, NoRow, TypeOK,
      CopyTypeOK, Copies, Ledger, Listed
<1>10. ASSUME NEW c \in copies, TurnEnds(c) PROVE Ledger'
  BY <1>10, MoveEffect DEF Moved, TurnEnds, podVars, tableVars, threadVars, Becomes, TypeOK,
      CopyTypeOK, Copies, Ledger, Listed
<1>11. ASSUME NEW p \in Pods, Beat(p) PROVE Ledger'
  BY <1>11 DEF Beat, podVars, tableVars, threadVars, Ledger
<1>12. ASSUME NEW p \in Pods, TickList(p) PROVE Ledger'
  BY <1>12, QuietTick DEF Ledger
<1>13. ASSUME NEW p \in Pods, TickJudge(p) PROVE Ledger'
  BY <1>13, QuietTick DEF Ledger
<1>14. ASSUME NEW p \in Pods, TickTake(p) PROVE Ledger'
  <2>1. CASE \E q \in Questions : Took(p, q)
    <3>1. PICK q \in Questions : Took(p, q)
      BY <2>1
    <3>2. Listed(row, q) /\ q \in asked /\ q \notin claimless
      BY <3>1 DEF Took, Ledger, Listed
    <3>3. \A d \in copies' : d \in copies \/ d.q = q
      BY <3>1 DEF Took, NewCopy
    <3>4. \A x \in Questions : Listed(row', x) => Listed(row, x)
      BY <3>1, <3>2 DEF Took, TypeOK, TableTypeOK, Listed
    <3>5. \A o \in Pods, x \in Questions :
             x \in tick'[o].mine => x \in tick[o].mine \/ (o = p /\ x = q)
      BY <3>1 DEF Took
    <3>6. \A d \in copies' : d.q \in asked /\ (d.q \in claimless => d.run = 0)
      BY <3>2, <3>3 DEF Ledger
    <3>7. \A o \in Pods, x \in Questions :
             x \in tick'[o].todo \/ x \in tick'[o].mine => Listed(tick[o].rows, x)
      BY <1>14, TakeEffect, <3>1, <3>2, <3>5 DEF Took, Ledger, Listed
    <3> QED
      BY <1>14, TakeEffect, <3>4, <3>6, <3>7 DEF Ledger
  <2>2. CASE UNCHANGED <<row, exposed, copies>> /\ \A o \in Pods : tick'[o].mine = tick[o].mine
    BY <1>14, <2>2, TakeEffect DEF Ledger
  <2> QED
    BY <1>14, <2>1, <2>2, TakeEffect
<1>15. ASSUME NEW p \in Pods, TickAdvance(p) PROVE Ledger'
  BY <1>15, QuietTick DEF Ledger
<1>16. ASSUME NEW p \in Pods, TickRerun(p) PROVE Ledger'
  <2>1. PICK q \in Questions : /\ q \in tick[p].mine /\ tick'[p].mine = tick[p].mine \ {q}
                             /\ \A d \in copies' : d \in copies \/ d.q = q
    BY <1>16, RerunEffect DEF NewCopy
  <2> QED
    BY <1>16, <2>1, RerunEffect DEF Ledger
<1>17. ASSUME NEW p \in Pods, TickEnds(p) PROVE Ledger'
  BY <1>17, IdleEffect DEF TickEnds, podVars, tableVars, threadVars, On, Ledger
<1>18. ASSUME NEW p \in Pods, Wake(p) PROVE Ledger'
  BY <1>18 DEF Wake, tableVars, threadVars, Ledger
<1>19. ASSUME NEW p \in Pods, Stall(p) PROVE Ledger'
  BY <1>19 DEF Stall, tableVars, threadVars, Ledger
<1>20. ASSUME NEW p \in Pods, Crash(p) PROVE Ledger'
  BY <1>20, IdleEffect DEF Crash, tableVars, threadVars, Gone, On, Ledger
<1>21. ASSUME NEW p \in Pods, DrainBegin(p) PROVE Ledger'
  BY <1>21, IdleEffect DEF DrainBegin, tableVars, threadVars, On, Ledger
<1>22. ASSUME NEW p \in Pods, DrainDeadline(p) PROVE Ledger'
  BY <1>22 DEF DrainDeadline, tableVars, threadVars, Ledger
<1>23. ASSUME NEW p \in Pods, DrainCancel(p) PROVE Ledger'
  <2>1. \A d \in copies' : \E e \in copies : d.q = e.q /\ d.run = e.run
    BY <1>23 DEF DrainCancel, On, TypeOK, CopyTypeOK, Copies
  <2> QED
    BY <1>23, <2>1 DEF DrainCancel, tableVars, threadVars, Ledger
<1>24. ASSUME NEW p \in Pods, DrainExit(p) PROVE Ledger'
  BY <1>24, IdleEffect DEF DrainExit, tableVars, threadVars, Gone, On, Ledger
<1>25. ASSUME NEW p \in Pods, NEW q \in Questions, DrainRelease(p, q) PROVE Ledger'
  BY <1>25 DEF DrainRelease, podVars, threadVars, TableTypeOK, Rows, TypeOK, CopyTypeOK,
      Copies, Ledger, Listed
<1>26. CASE BeatExpires
  BY <1>26 DEF BeatExpires, podVars, tableVars, threadVars, Ledger
<1>27. ASSUME NEW x \in recent, Age(x[1], x[2]) PROVE Ledger'
  BY <1>27 DEF Age, podVars, threadVars, Ledger
<1>28. CASE UNCHANGED vars
  BY <1>28 DEF vars, podVars, tableVars, threadVars, Ledger
<1> QED
  BY <1>1, <1>2, <1>3, <1>4, <1>5, <1>6, <1>7, <1>8, <1>9, <1>10, <1>11, <1>12, <1>13,
      <1>14, <1>15, <1>16, <1>17, <1>18, <1>19, <1>20, <1>21, <1>22, <1>23, <1>24, <1>25,
      <1>26, <1>27, <1>28 DEF Next, Moves, TickStep, PodStep, TimeStep

\* A step that counts no take and starts no run.
RowsKept ==
    \A x \in Questions : Listed(row', x) => Listed(row, x) /\ row'[x].reruns = row[x].reruns
CopiesKept ==
    /\ \A d \in copies' : \E e \in copies : d.q = e.q /\ d.run = e.run
    /\ \A c, d \in copies' : c.q = d.q /\ c.run = d.run => c = d
TicksKept ==
    \A o \in Pods : \/ tick'[o].mine = {}
                    \/ tick'[o].mine = tick[o].mine /\ tick'[o].rows = tick[o].rows

\* Such a step keeps the runs apart.
LEMMA RunsKept ==
    ASSUME TypeOK, RunsCounted, OneRunner, RowsKept, CopiesKept, TicksKept
    PROVE  RunsCounted' /\ OneRunner'
<1> USE DEF RowsKept, CopiesKept, TicksKept
<1>1. \A d \in copies : d.q \in Questions
  BY DEF TypeOK, CopyTypeOK, Copies
<1>2. \A c \in copies' : Listed(row', c.q) => c.run <= row'[c.q].reruns
  BY <1>1 DEF RunsCounted
<1>3. \A o \in Pods, q \in Questions :
        q \in tick'[o].mine /\ Listed(row', q) => tick'[o].rows[q].reruns < row'[q].reruns
  BY DEF RunsCounted
<1>4. \A p, o \in Pods, q \in Questions :
        q \in tick'[p].mine /\ q \in tick'[o].mine /\ p # o
            => tick'[p].rows[q].reruns # tick'[o].rows[q].reruns
  <2> SUFFICES ASSUME NEW p \in Pods, NEW o \in Pods, NEW q \in Questions,
                      q \in tick'[p].mine, q \in tick'[o].mine, p # o
               PROVE  tick'[p].rows[q].reruns # tick'[o].rows[q].reruns
    OBVIOUS
  <2>1. /\ tick'[p].mine = tick[p].mine /\ tick'[p].rows = tick[p].rows
        /\ tick'[o].mine = tick[o].mine /\ tick'[o].rows = tick[o].rows
    OBVIOUS
  <2> QED
    BY <2>1 DEF RunsCounted
<1>5. \A o \in Pods, c \in copies' :
        c.q \in tick'[o].mine => c.run # tick'[o].rows[c.q].reruns + 1
  BY DEF OneRunner
<1> QED
  BY <1>2, <1>3, <1>4, <1>5 DEF RunsCounted, OneRunner

\* A copy's own step starts no run.
LEMMA MovedRuns ==
    ASSUME TypeOK, OneRunner, NEW c \in copies, Moved(c)
    PROVE  /\ \A d \in copies' : \E e \in copies : d.q = e.q /\ d.run = e.run
           /\ \A a, b \in copies' : a.q = b.q /\ a.run = b.run => a = b
<1>1. CASE copies' = copies \ {c}
  BY <1>1 DEF OneRunner
<1>2. CASE \E d \in Copies : /\ copies' = (copies \ {c}) \cup {d}
                             /\ d.pod = c.pod /\ d.q = c.q /\ d.run = c.run
  <2>1. PICK d \in Copies : /\ copies' = (copies \ {c}) \cup {d}
                            /\ d.q = c.q /\ d.run = c.run
    BY <1>2
  <2> QED
    BY <2>1 DEF OneRunner
<1> QED
  BY <1>1, <1>2 DEF Moved

\* A run is given to one pod: the take that counts it up is the only one
\* that may start it, and a listing from before it cannot be taken with.
LEMMA RunsStep ==
    ASSUME TypeOK, Ledger, RunsCounted, OneRunner, [Next]_vars
    PROVE  RunsCounted' /\ OneRunner'
<1>1. ASSUME NEW p \in Pods, NEW q \in Questions, Ask(p, q) PROVE RunsCounted' /\ OneRunner'
  <2>1. copies' = copies \cup {NewCopy(p, q, 0, "preparing", "answer")} /\ tick' = tick
    BY <1>1 DEF Ask
  <2>2. /\ \A d \in copies : d.q # q
        /\ \A o \in Pods : q \notin tick[o].mine
        /\ \A x \in Questions : x # q => row'[x] = row[x]
        /\ row'[q].reruns = 0 \/ ~Listed(row', q)
    BY <1>1 DEF Ask, Ledger, NoRow, TypeOK, TableTypeOK, Listed, tableVars
  <2>3. /\ NewCopy(p, q, 0, "preparing", "answer").q = q
        /\ NewCopy(p, q, 0, "preparing", "answer").run = 0
    BY DEF NewCopy
  <2>4. \A d \in copies : d.q \in Questions
    BY DEF TypeOK, CopyTypeOK, Copies
  <2> QED
    BY <2>1, <2>2, <2>3, <2>4 DEF Listed, RunsCounted, OneRunner
<1>2. ASSUME NEW c \in copies, PrepareEnds(c) PROVE RunsCounted' /\ OneRunner'
  BY <1>2, MoveEffect, MovedRuns, RunsKept DEF Listed, RowsKept, CopiesKept, TicksKept
<1>3. ASSUME NEW c \in copies, PrepareFails(c) PROVE RunsCounted' /\ OneRunner'
  BY <1>3, MoveEffect, MovedRuns, RunsKept DEF Listed, RowsKept, CopiesKept, TicksKept
<1>4. ASSUME NEW c \in copies, Start(c) PROVE RunsCounted' /\ OneRunner'
  BY <1>4, MoveEffect, MovedRuns, RunsKept DEF Listed, RowsKept, CopiesKept, TicksKept
<1>5. ASSUME NEW c \in copies, Watch(c) PROVE RunsCounted' /\ OneRunner'
  BY <1>5, MoveEffect, MovedRuns, RunsKept DEF Listed, RowsKept, CopiesKept, TicksKept
<1>6. ASSUME NEW c \in copies, Check(c) PROVE RunsCounted' /\ OneRunner'
  BY <1>6, MoveEffect, MovedRuns, RunsKept DEF Listed, RowsKept, CopiesKept, TicksKept
<1>7. ASSUME NEW c \in copies, GiveUpCovered(c) PROVE RunsCounted' /\ OneRunner'
  BY <1>7, MoveEffect, MovedRuns, RunsKept DEF Listed, RowsKept, CopiesKept, TicksKept
<1>8. ASSUME NEW c \in copies, Write(c) PROVE RunsCounted' /\ OneRunner'
  BY <1>8, MoveEffect, MovedRuns, RunsKept DEF Listed, RowsKept, CopiesKept, TicksKept
<1>9. ASSUME NEW c \in copies, FinishClaim(c) PROVE RunsCounted' /\ OneRunner'
  <2>1. \A x \in Questions : row'[x] = row[x] \/ ~Listed(row', x)
    BY <1>9 DEF FinishClaim, NoRow, Listed, TypeOK, TableTypeOK, CopyTypeOK, Copies
  <2>2. copies' \subseteq copies /\ tick' = tick
    BY <1>9 DEF FinishClaim
  <2>3. \A x \in Questions : Listed(row', x) => Listed(row, x) /\ row'[x].reruns = row[x].reruns
    BY <2>1 DEF Listed
  <2>4. \A c1, d \in copies' : c1.q = d.q /\ c1.run = d.run => c1 = d
    BY <2>2 DEF OneRunner
  <2> QED
    BY <2>2, <2>3, <2>4, RunsKept DEF RowsKept, CopiesKept, TicksKept
<1>10. ASSUME NEW c \in copies, TurnEnds(c) PROVE RunsCounted' /\ OneRunner'
  BY <1>10, MoveEffect, MovedRuns, RunsKept DEF Listed, RowsKept, CopiesKept, TicksKept
<1>11. ASSUME NEW p \in Pods, Beat(p) PROVE RunsCounted' /\ OneRunner'
  BY <1>11 DEF Beat, podVars, tableVars, threadVars, RunsCounted, OneRunner
<1>12. ASSUME NEW p \in Pods, TickList(p) PROVE RunsCounted' /\ OneRunner'
  <2>1. /\ UNCHANGED <<row, copies>>
        /\ \A o \in Pods : tick'[o].mine = tick[o].mine \/ tick'[o].mine = {}
        /\ \A o \in Pods : tick'[o].rows = tick[o].rows \/ tick'[o].mine = {}
    BY <1>12, QuietTick
  <2>2. \A c, d \in copies' : c.q = d.q /\ c.run = d.run => c = d
    BY <2>1 DEF OneRunner
  <2>3. RowsKept
    BY <2>1 DEF Listed, RowsKept
  <2>4. CopiesKept
    BY <2>1, <2>2 DEF CopiesKept
  <2>5. TicksKept
    BY <2>1 DEF TicksKept
  <2> QED
    BY <2>3, <2>4, <2>5, RunsKept
<1>13. ASSUME NEW p \in Pods, TickJudge(p) PROVE RunsCounted' /\ OneRunner'
  <2>1. /\ UNCHANGED <<row, copies>>
        /\ \A o \in Pods : tick'[o].mine = tick[o].mine \/ tick'[o].mine = {}
        /\ \A o \in Pods : tick'[o].rows = tick[o].rows \/ tick'[o].mine = {}
    BY <1>13, QuietTick
  <2>2. \A c, d \in copies' : c.q = d.q /\ c.run = d.run => c = d
    BY <2>1 DEF OneRunner
  <2>3. RowsKept
    BY <2>1 DEF Listed, RowsKept
  <2>4. CopiesKept
    BY <2>1, <2>2 DEF CopiesKept
  <2>5. TicksKept
    BY <2>1 DEF TicksKept
  <2> QED
    BY <2>3, <2>4, <2>5, RunsKept
<1>14. ASSUME NEW p \in Pods, TickTake(p) PROVE RunsCounted' /\ OneRunner'
  <2>1. CASE \E q \in Questions : Took(p, q)
    <3>1. PICK q \in Questions : Took(p, q)
      BY <2>1
    <3>2. Listed(row, q) /\ row[q].reruns \in Nat /\ row[q] = tick[p].rows[q]
      BY <3>1 DEF Took, Ledger, Listed, TypeOK, TableTypeOK, Rows
    <3>3. /\ row'[q].reruns = row[q].reruns + 1
          /\ \A x \in Questions : x # q => row'[x] = row[x]
      BY <3>1 DEF Took, Taken, TypeOK, TableTypeOK
    <3>4. \A d \in copies' : d \in copies \/ (d.q = q /\ d.run = row[q].reruns + 1)
      BY <3>1 DEF Took, NewCopy
    <3>5. \A c, d \in copies' : c \notin copies /\ d \notin copies => c = d
      BY <3>1 DEF Took
    <3>6. \A d \in copies : d.q \in Questions /\ d.run \in Nat
      BY DEF TypeOK, CopyTypeOK, Copies
    <3>7. \A o \in Pods, x \in Questions : tick[o].rows[x].reruns \in Nat
      BY DEF TypeOK, TickTypeOK, Ticks, Rows
    <3>8. \A d \in copies : d.q = q => d.run <= row[q].reruns
      BY <3>2 DEF RunsCounted
    <3>9. \A o \in Pods : q \in tick[o].mine => tick[o].rows[q].reruns < row[q].reruns
      BY <3>2 DEF RunsCounted
    <3>10. q \notin tick[p].mine
      BY <3>2, <3>9
    <3>11. \A o \in Pods, x \in Questions :
             x \in tick'[o].mine => x \in tick[o].mine \/ (o = p /\ x = q /\ copies' = copies)
      BY <3>1 DEF Took
    <3>12. \A o \in Pods : tick'[o].rows = tick[o].rows
      BY <1>14, TakeEffect
    <3>13. RunsCounted'
      <4>1. ASSUME NEW d \in copies', Listed(row', d.q) PROVE d.run <= row'[d.q].reruns
        <5>1. CASE d.q = q
          BY <3>2, <3>3, <3>4, <3>6, <3>8, <4>1, <5>1
        <5>2. CASE d.q # q
          BY <3>3, <3>4, <3>6, <4>1, <5>2 DEF RunsCounted, Listed
        <5> QED
          BY <5>1, <5>2
      <4>2. ASSUME NEW o \in Pods, NEW x \in Questions, x \in tick'[o].mine, Listed(row', x)
            PROVE  tick'[o].rows[x].reruns < row'[x].reruns
        <5>1. CASE x = q
          BY <3>2, <3>3, <3>7, <3>9, <3>11, <3>12, <4>2, <5>1
        <5>2. CASE x # q
          BY <3>3, <3>11, <3>12, <4>2, <5>2 DEF RunsCounted, Listed
        <5> QED
          BY <5>1, <5>2
      <4>3. ASSUME NEW o \in Pods, NEW r \in Pods, NEW x \in Questions,
                   x \in tick'[o].mine, x \in tick'[r].mine, o # r
            PROVE  tick'[o].rows[x].reruns # tick'[r].rows[x].reruns
        <5>1. CASE x \in tick[o].mine /\ x \in tick[r].mine
          BY <3>12, <4>3, <5>1 DEF RunsCounted
        <5>2. CASE ~(x \in tick[o].mine /\ x \in tick[r].mine)
          BY <3>2, <3>7, <3>9, <3>11, <3>12, <4>3, <5>2
        <5> QED
          BY <5>1, <5>2
      <4> QED
        BY <4>1, <4>2, <4>3 DEF RunsCounted
    <3>14. \A c, d \in copies' : c.q = d.q /\ c.run = d.run => c = d
      BY <3>2, <3>4, <3>5, <3>6, <3>8 DEF OneRunner
    <3>15. \A o \in Pods, c \in copies' :
              c.q \in tick'[o].mine => c.run # tick'[o].rows[c.q].reruns + 1
      <4> SUFFICES ASSUME NEW o \in Pods, NEW c \in copies', c.q \in tick'[o].mine
                   PROVE  c.run # tick[o].rows[c.q].reruns + 1
        BY <3>12
      <4>1. c.q \in Questions
        BY <3>4, <3>6
      <4>2. CASE c \notin copies
        BY <3>2, <3>4, <3>7, <3>9, <3>11, <4>1, <4>2
      <4>3. CASE c \in copies /\ c.q \in tick[o].mine
        BY <4>3 DEF OneRunner
      <4>4. CASE c \in copies /\ o = p /\ c.q = q
        BY <3>2, <3>6, <3>8, <4>4
      <4> QED
        BY <3>11, <4>1, <4>2, <4>3, <4>4
    <3> QED
      BY <3>13, <3>14, <3>15 DEF OneRunner
  <2>2. CASE UNCHANGED <<row, exposed, copies>> /\ \A o \in Pods : tick'[o].mine = tick[o].mine
    BY <1>14, <2>2, TakeEffect DEF RunsCounted, OneRunner
  <2> QED
    BY <1>14, <2>1, <2>2, TakeEffect
<1>15. ASSUME NEW p \in Pods, TickAdvance(p) PROVE RunsCounted' /\ OneRunner'
  <2>1. /\ UNCHANGED <<row, copies>>
        /\ \A o \in Pods : tick'[o].mine = tick[o].mine \/ tick'[o].mine = {}
        /\ \A o \in Pods : tick'[o].rows = tick[o].rows \/ tick'[o].mine = {}
    BY <1>15, QuietTick
  <2>2. \A c, d \in copies' : c.q = d.q /\ c.run = d.run => c = d
    BY <2>1 DEF OneRunner
  <2>3. RowsKept
    BY <2>1 DEF Listed, RowsKept
  <2>4. CopiesKept
    BY <2>1, <2>2 DEF CopiesKept
  <2>5. TicksKept
    BY <2>1 DEF TicksKept
  <2> QED
    BY <2>3, <2>4, <2>5, RunsKept
<1>16. ASSUME NEW p \in Pods, TickRerun(p) PROVE RunsCounted' /\ OneRunner'
  <2>1. PICK q \in Questions : 
            /\ q \in tick[p].mine /\ tick'[p].mine = tick[p].mine \ {q}
            /\ copies' = copies \cup
                  {NewCopy(p, q, tick[p].rows[q].reruns + 1, "preparing", "answer")}
    BY <1>16, RerunEffect
  <2>2. \A d \in copies' : d \in copies \/ (d.q = q /\ d.run = tick[p].rows[q].reruns + 1)
    BY <2>1 DEF NewCopy
  <2>3. \A c, d \in copies' : c \notin copies /\ d \notin copies => c = d
    BY <2>1
  <2>4. \A o \in Pods, x \in Questions : tick[o].rows[x].reruns \in Nat
    BY DEF TypeOK, TickTypeOK, Ticks, Rows
  <2>5. \A x \in Questions : row[x].reruns \in Nat
    BY DEF TypeOK, TableTypeOK, Rows
  <2>6. RunsCounted'
    BY <1>16, <2>1, <2>2, <2>4, <2>5, RerunEffect DEF RunsCounted, Listed
  <2>7. \A c, d \in copies' : c.q = d.q /\ c.run = d.run => c = d
    BY <2>1, <2>2, <2>3 DEF OneRunner
  <2>8. \A o \in Pods, c \in copies' :
            c.q \in tick'[o].mine => c.run # tick'[o].rows[c.q].reruns + 1
    BY <1>16, <2>1, <2>2, <2>4, RerunEffect DEF OneRunner, RunsCounted
  <2> QED
    BY <2>6, <2>7, <2>8 DEF OneRunner
<1>17. ASSUME NEW p \in Pods, TickEnds(p) PROVE RunsCounted' /\ OneRunner'
  <2>1. UNCHANGED <<row, copies>> /\ tick' = [tick EXCEPT ![p] = Idle]
    BY <1>17 DEF TickEnds, podVars, tableVars, threadVars
  <2>2. \A c, d \in copies' : c.q = d.q /\ c.run = d.run => c = d
    BY <2>1 DEF OneRunner
  <2>3. RowsKept
    BY <2>1 DEF Listed, RowsKept
  <2>4. CopiesKept
    BY <2>1, <2>2 DEF CopiesKept
  <2>5. TicksKept
    BY <2>1, IdleEffect DEF TicksKept
  <2> QED
    BY <2>3, <2>4, <2>5, RunsKept
<1>18. ASSUME NEW p \in Pods, Wake(p) PROVE RunsCounted' /\ OneRunner'
  BY <1>18 DEF Wake, tableVars, threadVars, RunsCounted, OneRunner
<1>19. ASSUME NEW p \in Pods, Stall(p) PROVE RunsCounted' /\ OneRunner'
  BY <1>19 DEF Stall, tableVars, threadVars, RunsCounted, OneRunner
<1>20. ASSUME NEW p \in Pods, Crash(p) PROVE RunsCounted' /\ OneRunner'
  <2>1. copies' \subseteq copies /\ row' = row /\ tick' = [tick EXCEPT ![p] = Idle]
    BY <1>20 DEF Crash, tableVars, threadVars, Gone
  <2>2. \A c, d \in copies' : c.q = d.q /\ c.run = d.run => c = d
    BY <2>1 DEF OneRunner
  <2>3. RowsKept
    BY <2>1 DEF Listed, RowsKept
  <2>4. CopiesKept
    BY <2>1, <2>2 DEF CopiesKept
  <2>5. TicksKept
    BY <2>1, IdleEffect DEF TicksKept
  <2> QED
    BY <2>3, <2>4, <2>5, RunsKept
<1>21. ASSUME NEW p \in Pods, DrainBegin(p) PROVE RunsCounted' /\ OneRunner'
  <2>1. UNCHANGED <<row, copies>> /\ tick' = [tick EXCEPT ![p] = Idle]
    BY <1>21 DEF DrainBegin, tableVars, threadVars
  <2>2. \A c, d \in copies' : c.q = d.q /\ c.run = d.run => c = d
    BY <2>1 DEF OneRunner
  <2>3. RowsKept
    BY <2>1 DEF Listed, RowsKept
  <2>4. CopiesKept
    BY <2>1, <2>2 DEF CopiesKept
  <2>5. TicksKept
    BY <2>1, IdleEffect DEF TicksKept
  <2> QED
    BY <2>3, <2>4, <2>5, RunsKept
<1>22. ASSUME NEW p \in Pods, DrainDeadline(p) PROVE RunsCounted' /\ OneRunner'
  BY <1>22 DEF DrainDeadline, tableVars, threadVars, RunsCounted, OneRunner
<1>23. ASSUME NEW p \in Pods, DrainCancel(p) PROVE RunsCounted' /\ OneRunner'
  <2> DEFINE Cut(e) == [e EXCEPT !.stage = "ending", !.kind = "cut"]
  <2>1. \A d \in copies : Cut(d).q = d.q /\ Cut(d).run = d.run
    BY DEF TypeOK, CopyTypeOK, Copies
  <2>2. /\ \A d \in copies' : \/ d \in copies /\ ~(d.pod = p /\ d.stage = "running")
                             \/ \E e \in copies : /\ e.pod = p /\ e.stage = "running"
                                                  /\ d = Cut(e)
        /\ UNCHANGED <<row, tick>>
    BY <1>23 DEF DrainCancel, On, tableVars
  <2> HIDE DEF Cut
  <2>3. \A d \in copies' : \E e \in copies : d.q = e.q /\ d.run = e.run
    BY <2>1, <2>2
  <2>4. ASSUME NEW c \in copies', NEW d \in copies', c.q = d.q, c.run = d.run
        PROVE  c = d
    <3>1. PICK e \in copies : /\ e.q = c.q /\ e.run = c.run
                             /\ IF e.pod = p /\ e.stage = "running" THEN c = Cut(e) ELSE c = e
      BY <2>1, <2>2, <2>4
    <3>2. PICK f \in copies : /\ f.q = d.q /\ f.run = d.run
                             /\ IF f.pod = p /\ f.stage = "running" THEN d = Cut(f) ELSE d = f
      BY <2>1, <2>2, <2>4
    <3>3. e = f
      BY <2>4, <3>1, <3>2 DEF OneRunner
    <3> QED
      BY <3>1, <3>2, <3>3
  <2> QED
    BY <2>2, <2>3, <2>4, RunsKept DEF Listed, RowsKept, CopiesKept, TicksKept
<1>24. ASSUME NEW p \in Pods, DrainExit(p) PROVE RunsCounted' /\ OneRunner'
  <2>1. copies' \subseteq copies /\ row' = row /\ tick' = [tick EXCEPT ![p] = Idle]
    BY <1>24 DEF DrainExit, tableVars, threadVars, Gone
  <2>2. \A c, d \in copies' : c.q = d.q /\ c.run = d.run => c = d
    BY <2>1 DEF OneRunner
  <2>3. RowsKept
    BY <2>1 DEF Listed, RowsKept
  <2>4. CopiesKept
    BY <2>1, <2>2 DEF CopiesKept
  <2>5. TicksKept
    BY <2>1, IdleEffect DEF TicksKept
  <2> QED
    BY <2>3, <2>4, <2>5, RunsKept
<1>25. ASSUME NEW p \in Pods, NEW q \in Questions, DrainRelease(p, q) PROVE RunsCounted' /\ OneRunner'
  <2>1. /\ \A x \in Questions : row'[x].reruns = row[x].reruns /\ row'[x].owner = row[x].owner
        /\ UNCHANGED <<copies, tick>>
    BY <1>25 DEF DrainRelease, TypeOK, TableTypeOK, Rows
  <2>2. \A d \in copies : d.q \in Questions
    BY DEF TypeOK, CopyTypeOK, Copies
  <2> QED
    BY <2>1, <2>2 DEF Listed, RunsCounted, OneRunner
<1>26. CASE BeatExpires
  BY <1>26 DEF BeatExpires, podVars, tableVars, threadVars, RunsCounted, OneRunner
<1>27. ASSUME NEW x \in recent, Age(x[1], x[2]) PROVE RunsCounted' /\ OneRunner'
  BY <1>27 DEF Age, podVars, threadVars, RunsCounted, OneRunner
<1>28. CASE UNCHANGED vars
  BY <1>28 DEF vars, podVars, tableVars, threadVars, RunsCounted, OneRunner
<1> QED
  BY <1>1, <1>2, <1>3, <1>4, <1>5, <1>6, <1>7, <1>8, <1>9, <1>10, <1>11, <1>12, <1>13,
      <1>14, <1>15, <1>16, <1>17, <1>18, <1>19, <1>20, <1>21, <1>22, <1>23, <1>24, <1>25,
      <1>26, <1>27, <1>28 DEF Next, Moves, TickStep, PodStep, TimeStep

-----------------------------------------------------------------------------
(* Endings *)

\* A step that leaves every persist as it was.
PersistsKept ==
    /\ UNCHANGED <<row, claimless, exposed, endings>>
    /\ \A d \in copies' : d \in copies \/ (/\ ~Persisting(d)
                                          /\ \/ d.q \notin claimless
                                             \/ \E e \in copies : e.q = d.q /\ ~Persisting(e))
    /\ \A e \in copies : e.stage = "written" => e \in copies'

\* Such a step keeps the endings settled.
LEMMA SettledKept ==
    ASSUME TypeOK, EndingsSettled, PersistsKept
    PROVE  EndingsSettled'
<1>1. /\ UNCHANGED <<row, claimless, exposed, endings>>
      /\ \A d \in copies' : d \in copies \/ ~Persisting(d)
      /\ \A e \in copies : e.stage = "written" => e \in copies'
  BY DEF PersistsKept
<1>2. OnePersist'
  BY <1>1 DEF EndingsSettled, OnePersist, Persisting
<1>3. NoneAfterEnding'
  BY <1>1 DEF EndingsSettled, NoneAfterEnding, Persisting
<1>4. EndedIsFinishing'
  BY <1>1 DEF EndingsSettled, EndedIsFinishing, Listed
<1>5. ClaimlessIsDone'
  BY DEF EndingsSettled, ClaimlessIsDone, PersistsKept, Persisting
<1>6. OnlyTheHolderPersists'
  BY <1>1 DEF EndingsSettled, OnlyTheHolderPersists, Persisting
<1>7. EndsOnce'
  BY <1>1 DEF EndingsSettled, EndsOnce
<1> QED
  BY <1>2, <1>3, <1>4, <1>5, <1>6, <1>7 DEF EndingsSettled

\* Two copies that persist the same question, claimed or not, are one.
LEMMA OneWriter ==
    ASSUME TypeOK, Ledger, OneRunner, EndingsSettled,
           NEW c \in copies, NEW d \in copies, c.q = d.q, c.q \notin exposed,
           Persisting(c), Persisting(d)
    PROVE  c = d
<1>1. CASE c.q \in claimless
  BY <1>1 DEF Ledger, OneRunner
<1>2. CASE c.q \notin claimless
  BY <1>2 DEF EndingsSettled, OnlyTheHolderPersists, OnePersist
<1> QED
  BY <1>1, <1>2

\* A copy that only changes its stage, or its stage and its kind.
Turns(c, s) ==
    \E d : /\ copies' = (copies \ {c}) \cup {d} /\ d.stage = s
           /\ d.q = c.q /\ d.pod = c.pod

\* What Becomes comes to.
LEMMA TurnsInto ==
    ASSUME TypeOK, NEW c \in copies, NEW s
    PROVE  /\ Becomes(c, [c EXCEPT !.stage = s]) => Turns(c, s)
           /\ \A k : Becomes(c, [c EXCEPT !.stage = s, !.kind = k]) => Turns(c, s)
           /\ \A e : Becomes(c, [c EXCEPT !.stage = s, !.stamp = e]) => Turns(c, s)
<1> DEFINE Keeps(d) == d.stage = s /\ d.q = c.q /\ d.pod = c.pod
<1>1. c \in Copies
  BY DEF TypeOK, CopyTypeOK
<1>2. /\ Keeps([c EXCEPT !.stage = s])
      /\ \A k : Keeps([c EXCEPT !.stage = s, !.kind = k])
      /\ \A e : Keeps([c EXCEPT !.stage = s, !.stamp = e])
  BY <1>1 DEF Copies
<1>3. \A d : Becomes(c, d) /\ Keeps(d) => Turns(c, s)
  BY DEF Becomes, Turns
<1> HIDE DEF Keeps
<1> QED
  BY <1>2, <1>3

\* The check finds a claim held here only while its question has no ending,
\* and a question whose claim is taken between check and finish is exposed.
LEMMA EndingsStep ==
    ASSUME TypeOK, Ledger, OneRunner, EndingsSettled, [Next]_vars
    PROVE  EndingsSettled'
<1>1. ASSUME NEW p \in Pods, NEW q \in Questions, Ask(p, q) PROVE EndingsSettled'
  <2>1. /\ UNCHANGED <<exposed, endings>> /\ copies \subseteq copies'
        /\ claimless \subseteq claimless' /\ claimless' \subseteq claimless \cup {q}
    BY <1>1 DEF Ask, threadVars
  <2>2. \A d \in copies' : d \in copies \/ (d.q = q /\ ~Persisting(d))
    BY <1>1 DEF Ask, NewCopy, Persisting
  <2>3. \A x \in Questions : x = q \/ row'[x] = row[x]
    BY <1>1 DEF Ask, TypeOK, TableTypeOK, tableVars
  <2>4. endings[q] = <<>> /\ \A d \in copies : d.q # q /\ d.q \in Questions
    BY <1>1 DEF Ask, Ledger, TypeOK, CopyTypeOK, Copies
  <2>5. OnePersist'
    BY <2>2 DEF EndingsSettled, OnePersist, Persisting
  <2>6. NoneAfterEnding'
    BY <2>1, <2>2 DEF EndingsSettled, NoneAfterEnding, Persisting
  <2>7. EndedIsFinishing'
    BY <2>1, <2>3, <2>4 DEF EndingsSettled, EndedIsFinishing, Listed
  <2>8. ClaimlessIsDone'
    BY <2>1, <2>2, <2>4 DEF EndingsSettled, ClaimlessIsDone
  <2>9. OnlyTheHolderPersists'
    BY <2>1, <2>2, <2>3, <2>4 DEF EndingsSettled, OnlyTheHolderPersists, Persisting
  <2>10. EndsOnce'
    BY <2>1 DEF EndingsSettled, EndsOnce
  <2> QED
    BY <2>5, <2>6, <2>7, <2>8, <2>9, <2>10 DEF EndingsSettled
<1>2. ASSUME NEW c \in copies, PrepareEnds(c) PROVE EndingsSettled'
  <2>1. c.stage \in {"preparing", "queued", "running"} /\ UNCHANGED <<row, claimless, exposed, endings>>
    BY <1>2 DEF PrepareEnds, tableVars, threadVars
  <2>2. Turns(c, "queued") \/ Turns(c, "running") \/ Turns(c, "ending")
    BY <1>2, TurnsInto DEF PrepareEnds
  <2>3. PICK d : /\ copies' = (copies \ {c}) \cup {d} /\ d.q = c.q
                 /\ d.stage \in {"queued", "running", "ending"}
    BY <2>2 DEF Turns
  <2> QED
    BY <2>1, <2>3, SettledKept DEF PersistsKept, Persisting
<1>3. ASSUME NEW c \in copies, PrepareFails(c) PROVE EndingsSettled'
  <2>1. c.stage \in {"preparing", "queued", "running"} /\ UNCHANGED <<row, claimless, exposed, endings>>
    BY <1>3 DEF PrepareFails, tableVars, threadVars
  <2>2. Turns(c, "queued") \/ Turns(c, "running") \/ Turns(c, "ending")
    BY <1>3, TurnsInto DEF PrepareFails
  <2>3. PICK d : /\ copies' = (copies \ {c}) \cup {d} /\ d.q = c.q
                 /\ d.stage \in {"queued", "running", "ending"}
    BY <2>2 DEF Turns
  <2> QED
    BY <2>1, <2>3, SettledKept DEF PersistsKept, Persisting
<1>4. ASSUME NEW c \in copies, Start(c) PROVE EndingsSettled'
  <2>1. c.stage \in {"preparing", "queued", "running"} /\ UNCHANGED <<row, claimless, exposed, endings>>
    BY <1>4 DEF Start, tableVars, threadVars
  <2>2. Turns(c, "queued") \/ Turns(c, "running") \/ Turns(c, "ending")
    BY <1>4, TurnsInto DEF Start
  <2>3. PICK d : /\ copies' = (copies \ {c}) \cup {d} /\ d.q = c.q
                 /\ d.stage \in {"queued", "running", "ending"}
    BY <2>2 DEF Turns
  <2> QED
    BY <2>1, <2>3, SettledKept DEF PersistsKept, Persisting
<1>5. ASSUME NEW c \in copies, Watch(c) PROVE EndingsSettled'
  <2>1. c.stage \in {"preparing", "queued", "running"} /\ UNCHANGED <<row, claimless, exposed, endings>>
    BY <1>5 DEF Watch, tableVars, threadVars
  <2>2. Turns(c, "queued") \/ Turns(c, "running") \/ Turns(c, "ending")
    BY <1>5, TurnsInto DEF Watch
  <2>3. PICK d : /\ copies' = (copies \ {c}) \cup {d} /\ d.q = c.q
                 /\ d.stage \in {"queued", "running", "ending"}
    BY <2>2 DEF Turns
  <2> QED
    BY <2>1, <2>3, SettledKept DEF PersistsKept, Persisting
<1>6. ASSUME NEW c \in copies, Check(c) PROVE EndingsSettled'
  <2>1. /\ UNCHANGED <<row, claimless, endings>> /\ exposed \subseteq exposed'
        /\ exposed' \subseteq exposed \cup {c.q}
        /\ c.stage = "ending" /\ \A e \in copies : e.pod = c.pod => ~Persisting(e)
    BY <1>6 DEF Check, tableVars, threadVars, LoopFree, On
  <2>2. CASE copies' = copies \ {c} /\ UNCHANGED exposed
    BY <2>1, <2>2, SettledKept DEF PersistsKept, Persisting
  <2>3. CASE /\ Becomes(c, [c EXCEPT !.stage = "checked"])
             /\ IsMine(c.pod, c.q) \/ c.q \in exposed'
    <3>0. Turns(c, "checked")
      BY <2>3, TurnsInto
    <3>1. PICK d : /\ copies' = (copies \ {c}) \cup {d} /\ d.q = c.q /\ d.pod = c.pod
                   /\ d.stage = "checked"
      BY <3>0 DEF Turns
    <3>2. c.q \in Questions /\ \A e \in copies : e.q \in Questions
      BY DEF TypeOK, CopyTypeOK, Copies
    <3>3. endings[c.q] # <<>> => c.q \in exposed'
      <4> SUFFICES ASSUME endings[c.q] # <<>>, c.q \notin exposed, IsMine(c.pod, c.q)
                   PROVE  FALSE
        BY <2>1, <2>3
      <4>1. CASE c.q \in claimless
        BY <2>1, <4>1 DEF EndingsSettled, ClaimlessIsDone
      <4>2. CASE row[c.q].owner = c.pod /\ c.q \notin claimless
        <5>1. Listed(row, c.q)
          BY <4>2, TurnClaimsAssumption DEF Listed, TypeOK, CopyTypeOK, Copies
        <5>2. PICK w \in copies : w.q = c.q /\ w.stage = "written"
          BY <3>2, <5>1 DEF EndingsSettled, EndedIsFinishing
        <5>3. w.pod = c.pod
          BY <4>2, <5>2 DEF EndingsSettled, OnlyTheHolderPersists, Persisting
        <5> QED
          BY <2>1, <5>2, <5>3 DEF Persisting
      <4> QED
        BY <4>1, <4>2 DEF IsMine
    <3>5. OnePersist'
      BY <2>1, <3>1 DEF EndingsSettled, OnePersist, Persisting
    <3>6. NoneAfterEnding'
      BY <2>1, <3>1, <3>3 DEF EndingsSettled, NoneAfterEnding
    <3>7. EndedIsFinishing'
      BY <2>1, <3>1 DEF EndingsSettled, EndedIsFinishing, Listed
    <3>8. ClaimlessIsDone'
      BY <2>1, <3>1, <3>3 DEF EndingsSettled, ClaimlessIsDone
    <3>9. OnlyTheHolderPersists'
      BY <2>1, <2>3, <3>1 DEF EndingsSettled, OnlyTheHolderPersists, Persisting, IsMine
    <3>10. EndsOnce'
      BY <2>1 DEF EndingsSettled, EndsOnce
    <3> QED
      BY <3>5, <3>6, <3>7, <3>8, <3>9, <3>10 DEF EndingsSettled
  <2> QED
    BY <1>6, <2>2, <2>3 DEF Check
<1>7. ASSUME NEW c \in copies, GiveUpCovered(c) PROVE EndingsSettled'
  <2>1. /\ UNCHANGED <<row, claimless, endings>> /\ exposed \subseteq exposed'
        /\ exposed' \subseteq exposed \cup {c.q}
        /\ IsMine(c.pod, c.q) \/ c.q \in exposed'
        /\ c.stage = "ending" /\ \A e \in copies : e.pod = c.pod => ~Persisting(e)
    BY <1>7 DEF GiveUpCovered, tableVars, threadVars, LoopFree, On
  <2>3. Turns(c, "written")
    BY <1>7, TurnsInto DEF GiveUpCovered
  <2>2. PICK d : /\ copies' = (copies \ {c}) \cup {d} /\ d.q = c.q /\ d.pod = c.pod
                 /\ d.stage = "written"
    BY <2>3 DEF Turns
  <2>5. OnePersist'
    BY <2>1, <2>2 DEF EndingsSettled, OnePersist, Persisting
  <2>6. NoneAfterEnding'
    BY <2>1, <2>2 DEF EndingsSettled, NoneAfterEnding
  <2>7. EndedIsFinishing'
    BY <2>1, <2>2 DEF EndingsSettled, EndedIsFinishing, Listed
  <2>8. ClaimlessIsDone'
    BY <2>1, <2>2 DEF EndingsSettled, ClaimlessIsDone
  <2>9. OnlyTheHolderPersists'
    BY <2>1, <2>2 DEF EndingsSettled, OnlyTheHolderPersists, Persisting, IsMine
  <2>10. EndsOnce'
    BY <2>1 DEF EndingsSettled, EndsOnce
  <2> QED
    BY <2>5, <2>6, <2>7, <2>8, <2>9, <2>10 DEF EndingsSettled
<1>8. ASSUME NEW c \in copies, Write(c) PROVE EndingsSettled'
  <2>1. c.stage = "checked" /\ UNCHANGED <<row, claimless, exposed>>
    BY <1>8 DEF Write, tableVars
  <2>2. c.q \in Questions /\ endings \in [Questions -> Seq(Kinds)] /\ c.kind \in Kinds
    BY DEF TypeOK, CopyTypeOK, ThreadTypeOK, Copies
  <2>3. CASE copies' = copies \ {c} /\ UNCHANGED endings
    BY <2>1, <2>3, SettledKept DEF PersistsKept
  <2>4. CASE /\ Becomes(c, [c EXCEPT !.stage = "written"])
             /\ endings' = [endings EXCEPT ![c.q] = Append(@, c.kind)] \/ UNCHANGED endings
    <3>0. Turns(c, "written")
      BY <2>4, TurnsInto
    <3>1. PICK d : /\ copies' = (copies \ {c}) \cup {d} /\ d.q = c.q /\ d.pod = c.pod
                   /\ d.stage = "written"
      BY <3>0 DEF Turns
    <3>2. \A x \in Questions : x # c.q => endings'[x] = endings[x]
      BY <2>2, <2>4
    <3>3. c.q \notin exposed => endings[c.q] = <<>>
      BY <2>1 DEF EndingsSettled, NoneAfterEnding
    <3>4. \A e \in copies : e.q \in Questions /\ (e.q = c.q /\ c.q \notin exposed /\ Persisting(e) => e = c)
      BY <2>1, OneWriter DEF Persisting, TypeOK, CopyTypeOK, Copies
    <3>5. \A e \in copies : e.q = c.q /\ c.q \in claimless => e = c
      BY DEF Ledger, OneRunner
    <3>6. OnePersist'
      BY <2>1, <3>1 DEF EndingsSettled, OnePersist, Persisting
    <3>7. NoneAfterEnding'
      <4>1. ASSUME NEW e \in copies', e.q \notin exposed, endings'[e.q] # <<>> PROVE e.stage # "checked"
        <5>1. CASE e = d
          BY <3>1, <5>1
        <5>2. CASE e \in copies /\ e # c
          <6>1. CASE e.q = c.q
            BY <3>4, <4>1, <5>2, <6>1 DEF Persisting
          <6>2. CASE e.q # c.q
            <7>1. endings'[e.q] = endings[e.q]
              BY <3>2, <3>4, <5>2, <6>2
            <7> QED
              BY <4>1, <5>2, <7>1 DEF EndingsSettled, NoneAfterEnding
          <6> QED
            BY <6>1, <6>2
        <5> QED
          BY <3>1, <5>1, <5>2
      <4> QED
        BY <2>1, <4>1 DEF NoneAfterEnding
    <3>8. EndedIsFinishing'
      BY <2>1, <3>1, <3>2 DEF EndingsSettled, EndedIsFinishing, Listed
    <3>9. ClaimlessIsDone'
      <4>1. ASSUME NEW e \in copies', e.q \in claimless, e.q \notin exposed, endings'[e.q] # <<>>
            PROVE  e.stage = "written"
        <5>1. CASE e = d
          BY <3>1, <5>1
        <5>2. CASE e \in copies /\ e # c
          <6>1. e.q # c.q
            BY <3>5, <4>1, <5>2
          <6>2. endings'[e.q] = endings[e.q]
            BY <3>2, <3>4, <5>2, <6>1
          <6> QED
            BY <4>1, <5>2, <6>2 DEF EndingsSettled, ClaimlessIsDone
        <5> QED
          BY <3>1, <5>1, <5>2
      <4> QED
        BY <2>1, <4>1 DEF ClaimlessIsDone
    <3>10. OnlyTheHolderPersists'
      BY <2>1, <3>1 DEF EndingsSettled, OnlyTheHolderPersists, Persisting
    <3>11. EndsOnce'
      <4>1. c.q \notin exposed => Len(endings'[c.q]) <= 1
        BY <2>2, <2>4, <3>3 
      <4> QED
        BY <2>1, <3>2, <4>1 DEF EndingsSettled, EndsOnce
    <3> QED
      BY <3>6, <3>7, <3>8, <3>9, <3>10, <3>11 DEF EndingsSettled
  <2> QED
    BY <1>8, <2>3, <2>4 DEF Write, threadVars
<1>9. ASSUME NEW c \in copies, FinishClaim(c) PROVE EndingsSettled'
  <2>1. /\ UNCHANGED <<claimless, endings>> /\ copies' = copies \ {c} /\ exposed \subseteq exposed'
        /\ c.stage = "written"
    BY <1>9 DEF FinishClaim, Finishes, threadVars
  <2>2. \A x \in Questions : x # c.q => row'[x] = row[x]
    BY <1>9 DEF FinishClaim, TypeOK, TableTypeOK
  <2>3. ~Listed(row', c.q) \/ c.q \in exposed'
    BY <1>9 DEF FinishClaim, TypeOK, TableTypeOK, CopyTypeOK, Copies, Listed, NoRow
  <2>4. \A e \in copies : e.q \in Questions /\ (e.q = c.q /\ c.q \notin exposed /\ Persisting(e) => e = c)
    BY <2>1, OneWriter DEF Persisting, TypeOK, CopyTypeOK, Copies
  <2>5. OnePersist'
    BY <2>1 DEF EndingsSettled, OnePersist, Persisting
  <2>6. NoneAfterEnding'
    BY <2>1 DEF EndingsSettled, NoneAfterEnding
  <2>7. EndedIsFinishing'
    BY <2>1, <2>2, <2>3 DEF EndingsSettled, EndedIsFinishing, Listed
  <2>8. ClaimlessIsDone'
    BY <2>1 DEF EndingsSettled, ClaimlessIsDone
  <2>9. OnlyTheHolderPersists'
    <3>1. ASSUME NEW e \in copies', Persisting(e)', e.q \notin exposed', e.q \notin claimless'
            PROVE  row'[e.q].owner = e.pod /\ ~row'[e.q].released
        <4>1. e \in copies /\ Persisting(e) /\ e.q \notin exposed \cup claimless
          BY <2>1, <3>1 DEF Persisting
        <4>2. row'[e.q] = row[e.q]
          BY <2>1, <2>2, <2>4, <3>1, <4>1
        <4> QED
          BY <4>1, <4>2 DEF EndingsSettled, OnlyTheHolderPersists
      <3> QED
        BY <3>1 DEF OnlyTheHolderPersists
  <2>10. EndsOnce'
    BY <2>1 DEF EndingsSettled, EndsOnce
  <2> QED
    BY <2>5, <2>6, <2>7, <2>8, <2>9, <2>10 DEF EndingsSettled
<1>10. ASSUME NEW c \in copies, TurnEnds(c) PROVE EndingsSettled'
  <2>1. c.stage \in {"preparing", "queued", "running"} /\ UNCHANGED <<row, claimless, exposed, endings>>
    BY <1>10 DEF TurnEnds, tableVars, threadVars
  <2>2. Turns(c, "queued") \/ Turns(c, "running") \/ Turns(c, "ending")
    BY <1>10, TurnsInto DEF TurnEnds
  <2>3. PICK d : /\ copies' = (copies \ {c}) \cup {d} /\ d.q = c.q
                 /\ d.stage \in {"queued", "running", "ending"}
    BY <2>2 DEF Turns
  <2> QED
    BY <2>1, <2>3, SettledKept DEF PersistsKept, Persisting
<1>11. ASSUME NEW p \in Pods, Beat(p) PROVE EndingsSettled'
  <2>1. PersistsKept
    BY <1>11 DEF Beat, podVars, tableVars, threadVars, PersistsKept
  <2> QED
    BY <2>1, SettledKept
<1>12. ASSUME NEW p \in Pods, TickList(p) PROVE EndingsSettled'
  <2>1. PersistsKept
    BY <1>12, QuietTick DEF PersistsKept
  <2> QED
    BY <2>1, SettledKept
<1>13. ASSUME NEW p \in Pods, TickJudge(p) PROVE EndingsSettled'
  <2>1. PersistsKept
    BY <1>13, QuietTick DEF PersistsKept
  <2> QED
    BY <2>1, SettledKept
<1>14. ASSUME NEW p \in Pods, TickTake(p) PROVE EndingsSettled'
  <2>1. CASE \E q \in Questions : Took(p, q)
    <3> PICK q \in Questions : Took(p, q)
      BY <2>1
    <3>1. /\ UNCHANGED <<claimless, endings>> /\ exposed \subseteq exposed'
          /\ copies \subseteq copies'
      BY <1>14, TakeEffect DEF Took
    <3>2. \A d \in copies' : d \in copies \/ (d.q = q /\ ~Persisting(d))
      BY DEF Took, NewCopy, Persisting
    <3>3. /\ \A x \in Questions : Listed(row', x) => Listed(row, x)
          /\ \A e \in copies : e.q \in Questions /\ (Persisting(e) /\ e.q \notin exposed' => row'[e.q] = row[e.q])
      <4>1. Listed(row, q)
        BY DEF Took, Ledger, Listed
      <4>2. \A x \in Questions : x # q => row'[x] = row[x]
        BY DEF Took, TypeOK, TableTypeOK
      <4>3. \A e \in copies : e.q \in Questions
        BY DEF TypeOK, CopyTypeOK, Copies
      <4>4. \A e \in copies : Persisting(e) /\ e.q = q => q \in exposed'
        BY DEF Took, Exposes
      <4> QED
        BY <4>1, <4>2, <4>3, <4>4 DEF Listed
    <3>4. q \notin claimless
      BY DEF Took, Ledger, Listed
    <3>5. OnePersist'
      BY <3>1, <3>2 DEF EndingsSettled, OnePersist, Persisting
    <3>6. NoneAfterEnding'
      BY <3>1, <3>2 DEF EndingsSettled, NoneAfterEnding, Persisting
    <3>7. EndedIsFinishing'
      BY <3>1, <3>2, <3>3 DEF EndingsSettled, EndedIsFinishing, Listed
    <3>8. ClaimlessIsDone'
      BY <3>1, <3>2, <3>4 DEF EndingsSettled, ClaimlessIsDone
    <3>9. OnlyTheHolderPersists'
      <4>1. ASSUME NEW e \in copies', Persisting(e)', e.q \notin exposed', e.q \notin claimless'
            PROVE  row'[e.q].owner = e.pod /\ ~row'[e.q].released
        <5>1. e \in copies /\ Persisting(e) /\ e.q \notin exposed \cup claimless
          BY <3>1, <3>2, <4>1 DEF Persisting
        <5>2. row'[e.q] = row[e.q]
          BY <3>3, <4>1, <5>1
        <5> QED
          BY <5>1, <5>2 DEF EndingsSettled, OnlyTheHolderPersists
      <4> QED
        BY <4>1 DEF OnlyTheHolderPersists
    <3>10. EndsOnce'
      BY <3>1 DEF EndingsSettled, EndsOnce
    <3> QED
      BY <3>5, <3>6, <3>7, <3>8, <3>9, <3>10 DEF EndingsSettled
  <2>2. CASE UNCHANGED <<row, exposed, copies>> /\ \A o \in Pods : tick'[o].mine = tick[o].mine
    <3>1. PersistsKept
      BY <1>14, <2>2, TakeEffect DEF PersistsKept
    <3> QED
      BY <3>1, SettledKept
  <2> QED
    BY <1>14, <2>1, <2>2, TakeEffect
<1>15. ASSUME NEW p \in Pods, TickAdvance(p) PROVE EndingsSettled'
  <2>1. PersistsKept
    BY <1>15, QuietTick DEF PersistsKept
  <2> QED
    BY <2>1, SettledKept
<1>16. ASSUME NEW p \in Pods, TickRerun(p) PROVE EndingsSettled'
  <2>1. PICK q \in Questions :
            /\ q \in tick[p].mine
            /\ copies' = copies \cup
                  {NewCopy(p, q, tick[p].rows[q].reruns + 1, "preparing", "answer")}
    BY <1>16, RerunEffect
  <2>2. \A d \in copies' : d \in copies \/ (d.q = q /\ ~Persisting(d))
    BY <2>1 DEF NewCopy, Persisting
  <2>3. q \notin claimless
    BY <2>1 DEF Ledger
  <2>4. PersistsKept
    BY <1>16, <2>1, <2>2, <2>3, RerunEffect DEF PersistsKept
  <2> QED
    BY <2>4, SettledKept
<1>17. ASSUME NEW p \in Pods, TickEnds(p) PROVE EndingsSettled'
  <2>1. PersistsKept
    BY <1>17 DEF TickEnds, podVars, tableVars, threadVars, PersistsKept
  <2> QED
    BY <2>1, SettledKept
<1>18. ASSUME NEW p \in Pods, Wake(p) PROVE EndingsSettled'
  <2>1. PersistsKept
    BY <1>18 DEF Wake, tableVars, threadVars, PersistsKept
  <2> QED
    BY <2>1, SettledKept
<1>19. ASSUME NEW p \in Pods, Stall(p) PROVE EndingsSettled'
  <2>1. PersistsKept
    BY <1>19 DEF Stall, tableVars, threadVars, PersistsKept
  <2> QED
    BY <2>1, SettledKept
<1>20. ASSUME NEW p \in Pods, Crash(p) PROVE EndingsSettled'
  <2>1. /\ UNCHANGED <<row, claimless, endings>> /\ exposed \subseteq exposed' /\ copies' \subseteq copies
        /\ \A e \in copies : e \in copies' \/ e.q \in exposed' \/ e.stage # "written"
    BY <1>20 DEF Crash, tableVars, threadVars, Gone, On
  <2>5. OnePersist'
    BY <2>1 DEF EndingsSettled, OnePersist, Persisting
  <2>6. NoneAfterEnding'
    BY <2>1 DEF EndingsSettled, NoneAfterEnding
  <2>7. EndedIsFinishing'
    BY <2>1 DEF EndingsSettled, EndedIsFinishing, Listed
  <2>8. ClaimlessIsDone'
    BY <2>1 DEF EndingsSettled, ClaimlessIsDone
  <2>9. OnlyTheHolderPersists'
    BY <2>1 DEF EndingsSettled, OnlyTheHolderPersists, Persisting
  <2>10. EndsOnce'
    BY <2>1 DEF EndingsSettled, EndsOnce
  <2> QED
    BY <2>5, <2>6, <2>7, <2>8, <2>9, <2>10 DEF EndingsSettled
<1>21. ASSUME NEW p \in Pods, DrainBegin(p) PROVE EndingsSettled'
  <2>1. PersistsKept
    BY <1>21 DEF DrainBegin, tableVars, threadVars, PersistsKept
  <2> QED
    BY <2>1, SettledKept
<1>22. ASSUME NEW p \in Pods, DrainDeadline(p) PROVE EndingsSettled'
  <2>1. PersistsKept
    BY <1>22 DEF DrainDeadline, tableVars, threadVars, PersistsKept
  <2> QED
    BY <2>1, SettledKept
<1>23. ASSUME NEW p \in Pods, DrainCancel(p) PROVE EndingsSettled'
  <2>1. /\ UNCHANGED <<row, claimless, exposed, endings>>
        /\ \A e \in copies : e.stage = "written" => e \in copies'
    BY <1>23 DEF DrainCancel, tableVars, threadVars
  <2>2. \A d \in copies' : d \in copies \/ (/\ d.stage = "ending"
                                            /\ \E e \in copies : e.q = d.q /\ e.stage = "running")
    BY <1>23 DEF DrainCancel, On, TypeOK, CopyTypeOK, Copies
  <2>3. PersistsKept
    BY <2>1, <2>2 DEF PersistsKept, Persisting
  <2> QED
    BY <2>3, SettledKept
<1>24. ASSUME NEW p \in Pods, DrainExit(p) PROVE EndingsSettled'
  <2>1. /\ UNCHANGED <<row, claimless, endings>> /\ exposed \subseteq exposed' /\ copies' \subseteq copies
        /\ \A e \in copies : e \in copies' \/ e.q \in exposed' \/ e.stage # "written"
    BY <1>24 DEF DrainExit, tableVars, threadVars, Gone, On
  <2>5. OnePersist'
    BY <2>1 DEF EndingsSettled, OnePersist, Persisting
  <2>6. NoneAfterEnding'
    BY <2>1 DEF EndingsSettled, NoneAfterEnding
  <2>7. EndedIsFinishing'
    BY <2>1 DEF EndingsSettled, EndedIsFinishing, Listed
  <2>8. ClaimlessIsDone'
    BY <2>1 DEF EndingsSettled, ClaimlessIsDone
  <2>9. OnlyTheHolderPersists'
    BY <2>1 DEF EndingsSettled, OnlyTheHolderPersists, Persisting
  <2>10. EndsOnce'
    BY <2>1 DEF EndingsSettled, EndsOnce
  <2> QED
    BY <2>5, <2>6, <2>7, <2>8, <2>9, <2>10 DEF EndingsSettled
<1>25. ASSUME NEW p \in Pods, NEW q \in Questions, DrainRelease(p, q) PROVE EndingsSettled'
  <2>1. UNCHANGED <<claimless, endings, copies>> /\ exposed \subseteq exposed'
    BY <1>25 DEF DrainRelease, threadVars
  <2>2. \A x \in Questions : row'[x].owner = row[x].owner /\ (x # q => row'[x] = row[x])
    BY <1>25 DEF DrainRelease, TypeOK, TableTypeOK, Rows
  <2>3. \A e \in copies : e.q \in Questions /\ (Persisting(e) /\ e.q \notin exposed' => row'[e.q] = row[e.q])
    BY <1>25, <2>2 DEF DrainRelease, Exposes, TypeOK, CopyTypeOK, Copies
  <2>5. OnePersist'
    BY <2>1 DEF EndingsSettled, OnePersist, Persisting
  <2>6. NoneAfterEnding'
    BY <2>1 DEF EndingsSettled, NoneAfterEnding
  <2>7. EndedIsFinishing'
    BY <2>1, <2>2 DEF EndingsSettled, EndedIsFinishing, Listed
  <2>8. ClaimlessIsDone'
    BY <2>1 DEF EndingsSettled, ClaimlessIsDone
  <2>9. OnlyTheHolderPersists'
      <3>1. ASSUME NEW e \in copies', Persisting(e)', e.q \notin exposed', e.q \notin claimless'
            PROVE  row'[e.q].owner = e.pod /\ ~row'[e.q].released
        <4>1. e \in copies /\ Persisting(e) /\ e.q \notin exposed \cup claimless
          BY <2>1, <3>1 DEF Persisting
        <4>2. row'[e.q] = row[e.q]
          BY <2>3, <3>1, <4>1
        <4> QED
          BY <4>1, <4>2 DEF EndingsSettled, OnlyTheHolderPersists
      <3> QED
        BY <3>1 DEF OnlyTheHolderPersists
  <2>10. EndsOnce'
    BY <2>1 DEF EndingsSettled, EndsOnce
  <2> QED
    BY <2>5, <2>6, <2>7, <2>8, <2>9, <2>10 DEF EndingsSettled
<1>26. CASE BeatExpires
  <2>1. PersistsKept
    BY <1>26 DEF BeatExpires, podVars, tableVars, threadVars, PersistsKept
  <2> QED
    BY <2>1, SettledKept
<1>27. ASSUME NEW x \in recent, Age(x[1], x[2]) PROVE EndingsSettled'
  <2>1. PersistsKept
    BY <1>27 DEF Age, podVars, threadVars, PersistsKept
  <2> QED
    BY <2>1, SettledKept
<1>28. CASE UNCHANGED vars
  <2>1. PersistsKept
    BY <1>28 DEF vars, podVars, tableVars, threadVars, PersistsKept
  <2> QED
    BY <2>1, SettledKept
<1> QED
  BY <1>1, <1>2, <1>3, <1>4, <1>5, <1>6, <1>7, <1>8, <1>9, <1>10, <1>11, <1>12, <1>13,
      <1>14, <1>15, <1>16, <1>17, <1>18, <1>19, <1>20, <1>21, <1>22, <1>23, <1>24, <1>25,
      <1>26, <1>27, <1>28 DEF Next, Moves, TickStep, PodStep, TimeStep

\* The take that finds the bound spent starts a give-up, never a run.
LEMMA GiveUpsStep ==
    ASSUME TypeOK, GiveUps, [Next]_vars
    PROVE  GiveUps'
<1>1. ASSUME NEW p \in Pods, NEW q \in Questions, Ask(p, q) PROVE GiveUps'
  <2>1. UNCHANGED tick /\ \A d \in copies' : d \in copies \/ d.run = 0
    BY <1>1 DEF Ask, NewCopy
  <2>2. ~(0 > MaxReruns)
    BY TurnClaimsAssumption
  <2> QED
    BY <2>1, <2>2 DEF GiveUps
<1>2. ASSUME NEW c \in copies, PrepareEnds(c) PROVE GiveUps'
  <2>1. UNCHANGED tick /\ c.stage \in {"preparing", "queued", "running"}
    BY <1>2 DEF PrepareEnds
  <2>2. c.run > MaxReruns => FALSE
    BY <2>1 DEF GiveUps
  <2>3. \A d \in copies' : d \in copies \/ d.run = c.run
    BY <1>2, MoveEffect DEF Moved
  <2> QED
    BY <2>1, <2>2, <2>3 DEF GiveUps
<1>3. ASSUME NEW c \in copies, PrepareFails(c) PROVE GiveUps'
  <2>1. UNCHANGED tick /\ c.stage \in {"preparing", "queued", "running"}
    BY <1>3 DEF PrepareFails
  <2>2. c.run > MaxReruns => FALSE
    BY <2>1 DEF GiveUps
  <2>3. \A d \in copies' : d \in copies \/ d.run = c.run
    BY <1>3, MoveEffect DEF Moved
  <2> QED
    BY <2>1, <2>2, <2>3 DEF GiveUps
<1>4. ASSUME NEW c \in copies, Start(c) PROVE GiveUps'
  <2>1. UNCHANGED tick /\ c.stage \in {"preparing", "queued", "running"}
    BY <1>4 DEF Start
  <2>2. c.run > MaxReruns => FALSE
    BY <2>1 DEF GiveUps
  <2>3. \A d \in copies' : d \in copies \/ d.run = c.run
    BY <1>4, MoveEffect DEF Moved
  <2> QED
    BY <2>1, <2>2, <2>3 DEF GiveUps
<1>5. ASSUME NEW c \in copies, Watch(c) PROVE GiveUps'
  <2>1. UNCHANGED tick /\ c.stage \in {"preparing", "queued", "running"}
    BY <1>5 DEF Watch
  <2>2. c.run > MaxReruns => FALSE
    BY <2>1 DEF GiveUps
  <2>3. \A d \in copies' : d \in copies \/ d.run = c.run
    BY <1>5, MoveEffect DEF Moved
  <2> QED
    BY <2>1, <2>2, <2>3 DEF GiveUps
<1>6. ASSUME NEW c \in copies, Check(c) PROVE GiveUps'
  <2>1. UNCHANGED tick
    BY <1>6 DEF Check
  <2>2. \A d \in copies' : d \in copies \/ (/\ d.run = c.run /\ d.kind = c.kind
                                            /\ d.stage \in {"checked", "written"})
    BY <1>6 DEF Check, Becomes, TypeOK, CopyTypeOK, Copies
  <2> QED
    BY <2>1, <2>2 DEF GiveUps
<1>7. ASSUME NEW c \in copies, GiveUpCovered(c) PROVE GiveUps'
  <2>1. UNCHANGED tick
    BY <1>7 DEF GiveUpCovered
  <2>2. \A d \in copies' : d \in copies \/ (/\ d.run = c.run /\ d.kind = c.kind
                                            /\ d.stage \in {"checked", "written"})
    BY <1>7 DEF GiveUpCovered, Becomes, TypeOK, CopyTypeOK, Copies
  <2> QED
    BY <2>1, <2>2 DEF GiveUps
<1>8. ASSUME NEW c \in copies, Write(c) PROVE GiveUps'
  <2>1. UNCHANGED tick
    BY <1>8 DEF Write
  <2>2. \A d \in copies' : d \in copies \/ (/\ d.run = c.run /\ d.kind = c.kind
                                            /\ d.stage \in {"checked", "written"})
    BY <1>8 DEF Write, Becomes, TypeOK, CopyTypeOK, Copies
  <2> QED
    BY <2>1, <2>2 DEF GiveUps
<1>9. ASSUME NEW c \in copies, FinishClaim(c) PROVE GiveUps'
  BY <1>9 DEF FinishClaim, podVars, threadVars, Fault, GiveUps
<1>10. ASSUME NEW c \in copies, TurnEnds(c) PROVE GiveUps'
  <2>1. UNCHANGED tick /\ c.stage \in {"preparing", "queued", "running"}
    BY <1>10 DEF TurnEnds
  <2>2. c.run > MaxReruns => FALSE
    BY <2>1 DEF GiveUps
  <2>3. \A d \in copies' : d \in copies \/ d.run = c.run
    BY <1>10, MoveEffect DEF Moved
  <2> QED
    BY <2>1, <2>2, <2>3 DEF GiveUps
<1>11. ASSUME NEW p \in Pods, Beat(p) PROVE GiveUps'
  BY <1>11 DEF Beat, podVars, tableVars, threadVars, GiveUps
<1>12. ASSUME NEW p \in Pods, TickList(p) PROVE GiveUps'
  BY <1>12, QuietTick DEF GiveUps
<1>13. ASSUME NEW p \in Pods, TickJudge(p) PROVE GiveUps'
  BY <1>13, QuietTick DEF GiveUps
<1>14. ASSUME NEW p \in Pods, TickTake(p) PROVE GiveUps'
  <2>1. /\ \A o \in Pods : tick'[o].rows = tick[o].rows
        /\ \A o \in Pods, x \in Questions : x \in tick'[o].mine =>
              x \in tick[o].mine \/ tick[o].rows[x].reruns < MaxReruns
        /\ \A d \in copies' : d \in copies \/ (d.kind = "lost" /\ d.stage = "ending")
    <3>1. CASE \E q \in Questions : Took(p, q)
      <4> PICK q \in Questions : Took(p, q)
        BY <3>1
      <4>1. row[q].reruns \in Nat /\ MaxReruns \in Nat
        BY TurnClaimsAssumption DEF TypeOK, TableTypeOK, Rows
      <4>2. \A d \in copies' : d \in copies \/ (d.kind = "lost" /\ d.stage = "ending")
        BY DEF Took, NewCopy
      <4> QED
        BY <1>14, <4>1, <4>2, TakeEffect DEF Took
    <3>2. CASE UNCHANGED <<row, exposed, copies>> /\ \A o \in Pods : tick'[o].mine = tick[o].mine
      BY <1>14, <3>2, TakeEffect
    <3> QED
      BY <1>14, <3>1, <3>2, TakeEffect
  <2> QED
    BY <2>1 DEF GiveUps
<1>15. ASSUME NEW p \in Pods, TickAdvance(p) PROVE GiveUps'
  BY <1>15, QuietTick DEF GiveUps
<1>16. ASSUME NEW p \in Pods, TickRerun(p) PROVE GiveUps'
  <2>1. PICK q \in Questions :
            /\ q \in tick[p].mine /\ tick'[p].mine = tick[p].mine \ {q}
            /\ \A d \in copies' : d \in copies \/ d.run = tick[p].rows[q].reruns + 1
    BY <1>16, RerunEffect DEF NewCopy
  <2>2. tick[p].rows[q].reruns \in Nat /\ MaxReruns \in Nat
    BY TurnClaimsAssumption DEF TypeOK, TickTypeOK, Ticks, Rows
  <2>3. ~(tick[p].rows[q].reruns + 1 > MaxReruns)
    BY <2>1, <2>2 DEF GiveUps
  <2> QED
    BY <1>16, <2>1, <2>3, RerunEffect DEF GiveUps
<1>17. ASSUME NEW p \in Pods, TickEnds(p) PROVE GiveUps'
  <2>1. copies' \subseteq copies /\ tick' = [tick EXCEPT ![p] = Idle]
    BY <1>17 DEF TickEnds, podVars, tableVars, threadVars
  <2> QED
    BY <2>1, IdleEffect DEF GiveUps
<1>18. ASSUME NEW p \in Pods, Wake(p) PROVE GiveUps'
  BY <1>18 DEF Wake, tableVars, threadVars, GiveUps
<1>19. ASSUME NEW p \in Pods, Stall(p) PROVE GiveUps'
  BY <1>19 DEF Stall, tableVars, threadVars, GiveUps
<1>20. ASSUME NEW p \in Pods, Crash(p) PROVE GiveUps'
  <2>1. copies' \subseteq copies /\ tick' = [tick EXCEPT ![p] = Idle]
    BY <1>20 DEF Crash, tableVars, threadVars, Gone
  <2> QED
    BY <2>1, IdleEffect DEF GiveUps
<1>21. ASSUME NEW p \in Pods, DrainBegin(p) PROVE GiveUps'
  <2>1. copies' \subseteq copies /\ tick' = [tick EXCEPT ![p] = Idle]
    BY <1>21 DEF DrainBegin, tableVars, threadVars
  <2> QED
    BY <2>1, IdleEffect DEF GiveUps
<1>22. ASSUME NEW p \in Pods, DrainDeadline(p) PROVE GiveUps'
  BY <1>22 DEF DrainDeadline, tableVars, threadVars, GiveUps
<1>23. ASSUME NEW p \in Pods, DrainCancel(p) PROVE GiveUps'
  <2>1. UNCHANGED tick
    BY <1>23 DEF DrainCancel
  <2>2. \A d \in copies' : d \in copies \/ \E e \in copies : e.run = d.run /\ e.stage = "running"
    BY <1>23 DEF DrainCancel, On, TypeOK, CopyTypeOK, Copies
  <2> QED
    BY <2>1, <2>2 DEF GiveUps
<1>24. ASSUME NEW p \in Pods, DrainExit(p) PROVE GiveUps'
  <2>1. copies' \subseteq copies /\ tick' = [tick EXCEPT ![p] = Idle]
    BY <1>24 DEF DrainExit, tableVars, threadVars, Gone
  <2> QED
    BY <2>1, IdleEffect DEF GiveUps
<1>25. ASSUME NEW p \in Pods, NEW q \in Questions, DrainRelease(p, q) PROVE GiveUps'
  BY <1>25 DEF DrainRelease, podVars, threadVars, GiveUps
<1>26. CASE BeatExpires
  BY <1>26 DEF BeatExpires, podVars, tableVars, threadVars, GiveUps
<1>27. ASSUME NEW x \in recent, Age(x[1], x[2]) PROVE GiveUps'
  BY <1>27 DEF Age, podVars, threadVars, GiveUps
<1>28. CASE UNCHANGED vars
  BY <1>28 DEF vars, podVars, tableVars, threadVars, GiveUps
<1> QED
  BY <1>1, <1>2, <1>3, <1>4, <1>5, <1>6, <1>7, <1>8, <1>9, <1>10, <1>11, <1>12, <1>13,
      <1>14, <1>15, <1>16, <1>17, <1>18, <1>19, <1>20, <1>21, <1>22, <1>23, <1>24, <1>25,
      <1>26, <1>27, <1>28 DEF Next, Moves, TickStep, PodStep, TimeStep

-----------------------------------------------------------------------------
(* The theorems *)

\* What holds of every reachable state: the parts lean on one another from
\* left to right.
Safe == TypeOK /\ Ledger /\ RunsCounted /\ OneRunner /\ EndingsSettled /\ GiveUps

\* The invariant holds at the start.
LEMMA SafeInit == Init => Safe
<1> SUFFICES ASSUME Init PROVE Safe
  OBVIOUS
<1>1. TypeOK
  BY InitTypes
<1>2. copies = {} /\ \A p \in Pods : tick[p].mine = {} /\ tick[p].todo = {}
  BY DEF Init, Idle
<1>3. /\ \A q \in Questions : ~Listed(row, q) /\ endings[q] = <<>>
      /\ \A p \in Pods, q \in Questions : ~Listed(tick[p].rows, q)
  BY DEF Init, Idle, Listed, NoRow
<1>4. Ledger
  BY <1>2, <1>3 DEF Ledger, Init
<1>5. RunsCounted /\ OneRunner /\ GiveUps
  BY <1>2 DEF RunsCounted, OneRunner, GiveUps
<1>6. EndsOnce
  BY <1>3 DEF EndsOnce
<1>7. EndingsSettled
  BY <1>2, <1>3, <1>6 DEF EndingsSettled, OnePersist, NoneAfterEnding, EndedIsFinishing, 
      ClaimlessIsDone, OnlyTheHolderPersists
<1> QED
  BY <1>1, <1>4, <1>5, <1>7 DEF Safe

\* Every step keeps it.
LEMMA SafeStep == Safe /\ [Next]_vars => Safe'
BY TypeStep, LedgerStep, RunsStep, EndingsStep, GiveUpsStep DEF Safe

\* So it always holds.
LEMMA SafeAlways == Spec => []Safe
<1>1. Init => Safe
  BY SafeInit
<1>2. Safe /\ [Next]_vars => Safe'
  BY SafeStep
<1> QED
  BY <1>1, <1>2, PTL DEF Spec

\* take's CAS gives each run of a question to one pod, whatever stalls, crashes,
\* drains and refused writes come between listing, judging and taking.
THEOREM OneRunnerHolds == Spec => []OneRunner
<1>1. Safe => OneRunner
  BY DEF Safe
<1> QED
  BY <1>1, SafeAlways, PTL

\* A question gets one ending in its thread, unless its claim changed hands
\* inside a persist.
THEOREM EndsOnceHolds == Spec => []EndsOnce
<1>1. Safe => EndsOnce
  BY DEF Safe, EndingsSettled
<1> QED
  BY <1>1, SafeAlways, PTL

\* Whoever is writing an ending holds the claim and has not let go of it.
THEOREM OnlyTheHolderPersistsHolds == Spec => []OnlyTheHolderPersists
<1>1. Safe => OnlyTheHolderPersists
  BY DEF Safe, EndingsSettled
<1> QED
  BY <1>1, SafeAlways, PTL

\* A question is re-run at most RECLAIM_MAX_RERUNS times; what is taken once
\* more is only given up on.
THEOREM RerunsAreBoundedHolds == Spec => []RerunsAreBounded
<1>1. Safe => RerunsAreBounded
  BY DEF Safe, GiveUps, RerunsAreBounded
<1> QED
  BY <1>1, SafeAlways, PTL

=============================================================================

--------------------------- MODULE PromiseProofs ---------------------------
(* What the claims promise, for any pods, questions and bounds: a claim is   *)
(* finished only once the thread has told, the claims implement the ledger   *)
(* of questions, and a pod that serves keeps its claims.                     *)
EXTENDS TurnClaimsProofs

-----------------------------------------------------------------------------
(* What the steps touch *)

\* The actions that change the ledger: what is asked, claimed, told or waived.
LEMMA LedgerChanges ==
    ASSUME [Next]_vars
    PROVE  \/ \E p \in Pods, q \in Questions : Ask(p, q) \/ DrainRelease(p, q)
           \/ \E c \in copies : Check(c) \/ GiveUpCovered(c) \/ Write(c) \/ FinishClaim(c)
           \/ \E p \in Pods : TickTake(p) \/ Crash(p) \/ DrainExit(p)
           \/ UNCHANGED <<asked, claimless, row, endings, covered, exposed>>
<1>1. ASSUME NEW c \in copies,
             \/ PrepareEnds(c) \/ PrepareFails(c) \/ Start(c) \/ Watch(c) \/ TurnEnds(c)
      PROVE  UNCHANGED <<asked, claimless, row, endings, covered, exposed>>
  BY <1>1 DEF PrepareEnds, PrepareFails, Start, Watch, TurnEnds, tableVars, threadVars
<1>2. ASSUME NEW p \in Pods,
             \/ Beat(p) \/ TickList(p) \/ TickJudge(p) \/ TickAdvance(p) \/ TickRerun(p)
             \/ TickEnds(p) \/ Wake(p) \/ Stall(p) \/ DrainBegin(p) \/ DrainDeadline(p)
             \/ DrainCancel(p)
      PROVE  UNCHANGED <<asked, claimless, row, endings, covered, exposed>>
  BY <1>2 DEF Beat, TickList, TickJudge, TickAdvance, TickRerun, TickEnds, Wake, Stall,
      DrainBegin, DrainDeadline, DrainCancel, tableVars, threadVars
<1>3. TimeStep => UNCHANGED <<asked, claimless, row, endings, covered, exposed>>
  BY DEF TimeStep, BeatExpires, Age, tableVars, threadVars
<1>4. UNCHANGED vars => UNCHANGED <<asked, claimless, row, endings, covered, exposed>>
  BY DEF vars, tableVars, threadVars
<1> QED
  BY <1>1, <1>2, <1>3, <1>4 DEF Next, Moves, TickStep, PodStep

\* Faults are counted.
LEMMA FaultsChange == ASSUME [Next]_vars PROVE faults' = faults \/ Fault
<1>1. ASSUME NEW c \in copies, Moves(c) \/ TurnEnds(c) PROVE faults' = faults \/ Fault
  BY <1>1 DEF Moves, PrepareEnds, PrepareFails, Start, Watch, TurnEnds, Check,
      GiveUpCovered, Write, FinishClaim
<1>2. ASSUME NEW p \in Pods, Beat(p) \/ TickStep(p) \/ Wake(p) PROVE faults' = faults \/ Fault
  BY <1>2 DEF TickStep, Beat, TickList, TickJudge, TickTake, TickAdvance, TickRerun,
      TickEnds, Wake
<1>3. ASSUME NEW p \in Pods, PodStep(p) PROVE faults' = faults \/ Fault
  BY <1>3 DEF PodStep, Stall, Crash, DrainBegin, DrainDeadline, DrainCancel, DrainExit,
      DrainRelease
<1>4. ASSUME NEW p \in Pods, NEW q \in Questions, Ask(p, q) PROVE faults' = faults \/ Fault
  BY <1>4 DEF Ask
<1>5. TimeStep => faults' = faults
  BY DEF TimeStep, BeatExpires, Age
<1>6. UNCHANGED vars => faults' = faults
  BY DEF vars
<1> QED
  BY <1>1, <1>2, <1>3, <1>4, <1>5, <1>6 DEF Next

\* A refusal is never taken back.
LEMMA FaultsGrow ==
    ASSUME TypeOK, [Next]_vars, faults' = 0
    PROVE  faults = 0
BY FaultsChange DEF Fault, TypeOK, PodTypeOK

\* The store has refused nothing so far.
Unrefused == faults = 0

\* With no faults allowed there are none.
LEMMA NoneRefused ==
    ASSUME MaxFaults = 0, faults = 0, [Next]_vars
    PROVE  faults' = 0
BY FaultsChange DEF Fault

\* Nothing that was told is taken back, and only what was asked is spoken for.
LEMMA ThreadGrows ==
    ASSUME TypeOK, Ledger, covered \subseteq asked, [Next]_vars
    PROVE  /\ asked \subseteq asked' /\ covered \subseteq covered' /\ covered' \subseteq asked'
           /\ \A q \in Questions : endings[q] # <<>> => endings'[q] # <<>>
<1>1. asked \subseteq asked'
  <2>1. ASSUME NEW p \in Pods, NEW q \in Questions, Ask(p, q) \/ DrainRelease(p, q)
        PROVE  asked \subseteq asked'
    BY <2>1 DEF Ask, DrainRelease
  <2>2. ASSUME NEW c \in copies, Check(c) \/ GiveUpCovered(c) \/ Write(c) \/ FinishClaim(c)
        PROVE  asked' = asked
    BY <2>2 DEF Check, GiveUpCovered, Write, FinishClaim
  <2>3. ASSUME NEW p \in Pods, TickTake(p) \/ Crash(p) \/ DrainExit(p) PROVE asked' = asked
    BY <2>3 DEF TickTake, Crash, DrainExit
  <2> QED
    BY <2>1, <2>2, <2>3, LedgerChanges
<1>2. CASE \E c \in copies : Write(c)
  <2>1. PICK c \in copies : Write(c)
    BY <1>2
  <2>2. c.q \in Questions /\ c.kind \in Kinds /\ endings \in [Questions -> Seq(Kinds)]
    BY DEF TypeOK, CopyTypeOK, Copies, ThreadTypeOK
  <2>3. covered' \in {covered, asked} /\ asked' = asked
    BY <2>1 DEF Write, threadVars
  <2>4. endings' = endings \/ endings' = [endings EXCEPT ![c.q] = Append(endings[c.q], c.kind)]
    BY <2>1 DEF Write, threadVars
  <2>5. Append(endings[c.q], c.kind) # <<>>
    <3>1. endings[c.q] \in Seq(Kinds)
      BY <2>2
    <3> QED
      BY <2>2, <3>1
  <2>6. \A q \in Questions : endings[q] # <<>> => endings'[q] # <<>>
    BY <2>2, <2>4, <2>5
  <2> QED
    BY <2>3, <2>6
<1>3. CASE UNCHANGED threadVars
  BY <1>1, <1>3 DEF threadVars
<1>4. (\E c \in copies : Write(c)) \/ UNCHANGED threadVars
  <2>1. ASSUME NEW c \in copies, Check(c) \/ GiveUpCovered(c) \/ FinishClaim(c)
        PROVE  UNCHANGED threadVars
    BY <2>1 DEF Check, GiveUpCovered, FinishClaim
  <2>2. ASSUME NEW p \in Pods, TickTake(p) \/ Crash(p) \/ DrainExit(p)
        PROVE  UNCHANGED threadVars
    BY <2>2 DEF TickTake, Crash, DrainExit
  <2>3. ASSUME NEW p \in Pods, NEW q \in Questions, Ask(p, q) \/ DrainRelease(p, q)
        PROVE  UNCHANGED threadVars
    BY <2>3 DEF Ask, DrainRelease
  <2> QED
    BY <2>1, <2>2, <2>3, LedgerChanges DEF threadVars
<1> QED
  BY <1>2, <1>3, <1>4

-----------------------------------------------------------------------------
(* A claim is finished only once the thread has told *)

Told(q) == endings[q] # <<>> \/ q \in covered

\* A copy about to finish its claim has an ending behind it.
WrittenIsTold == \A c \in copies : c.stage = "written" => Told(c.q)

\* As long as the store has refused nothing.
Truthful ==
    faults = 0 => /\ claimless = {} /\ covered \subseteq asked
                  /\ WrittenIsTold /\ FinishedIsEnded

\* A copy gets to "written" by its own step, which wrote the ending or found
\* the question covered.
LEMMA WrittenFrom ==
    ASSUME TypeOK, [Next]_vars, faults = 0, faults' = 0,
           NEW d \in copies', d.stage = "written"
    PROVE  \/ d \in copies
           \/ \E c \in copies : /\ d.q = c.q
                                /\ \/ GiveUpCovered(c)
                                   \/ /\ Write(c)
                                      /\ endings' = [endings EXCEPT ![c.q] = Append(@, c.kind)]
<1> DEFINE Goal == \/ d \in copies
                   \/ \E c \in copies :
                         /\ d.q = c.q
                         /\ \/ GiveUpCovered(c)
                            \/ /\ Write(c)
                               /\ endings' = [endings EXCEPT ![c.q] = Append(@, c.kind)]
<1>1. ~Fault
  BY DEF Fault
<1>2. copies \subseteq Copies
  BY DEF TypeOK, CopyTypeOK
<1>3. \A p, q, r, s, k : NewCopy(p, q, r, s, k).stage = s
  BY DEF NewCopy
<1>4. ASSUME NEW c \in copies,
             \/ PrepareEnds(c) \/ PrepareFails(c) \/ Start(c) \/ Watch(c) \/ TurnEnds(c)
      PROVE  d \in copies
  <2>1. \/ Becomes(c, [c EXCEPT !.stage = "ending", !.kind = "cut"])
        \/ Becomes(c, [c EXCEPT !.stage = "ending", !.kind = "failed"])
        \/ Becomes(c, [c EXCEPT !.stage = "queued"])
        \/ Becomes(c, [c EXCEPT !.stage = "running", !.stamp = epoch])
        \/ Becomes(c, [c EXCEPT !.stage = "ending"])
    BY <1>4 DEF PrepareEnds, PrepareFails, Start, Watch, TurnEnds
  <2> QED
    BY <1>2, <2>1 DEF Becomes, Copies
<1>5. ASSUME NEW c \in copies, Check(c) \/ FinishClaim(c) PROVE d \in copies
  <2>1. Becomes(c, [c EXCEPT !.stage = "checked"]) \/ copies' = copies \ {c}
    BY <1>5 DEF Check, FinishClaim
  <2> QED
    BY <1>2, <2>1 DEF Becomes, Copies
<1>6. ASSUME NEW c \in copies, GiveUpCovered(c) PROVE Goal
  <2>1. Becomes(c, [c EXCEPT !.stage = "written"])
    BY <1>6 DEF GiveUpCovered
  <2> QED
    BY <1>2, <1>6, <2>1 DEF Becomes, Copies
<1>7. ASSUME NEW c \in copies, Write(c) PROVE Goal
  <2>1. /\ Becomes(c, [c EXCEPT !.stage = "written"])
        /\ endings' = [endings EXCEPT ![c.q] = Append(@, c.kind)]
    BY <1>1, <1>7 DEF Write
  <2> QED
    BY <1>2, <1>7, <2>1 DEF Becomes, Copies
<1>8. ASSUME NEW p \in Pods, NEW q \in Questions, Ask(p, q) \/ DrainRelease(p, q)
      PROVE  d \in copies
  BY <1>3, <1>8 DEF Ask, DrainRelease
<1>9. ASSUME NEW p \in Pods, TickTake(p) PROVE d \in copies
  <2>1. \/ copies' = copies
        \/ \E q \in Questions : copies' = copies \cup
                 {NewCopy(p, q, row[q].reruns + 1, "ending", "lost")}
    BY <1>9, TakeEffect DEF Took
  <2> QED
    BY <1>3, <2>1
<1>10. ASSUME NEW p \in Pods, TickRerun(p) PROVE d \in copies
  <2>1. \E q \in Questions : copies' = copies \cup
                 {NewCopy(p, q, tick[p].rows[q].reruns + 1, "preparing", "answer")}
    BY <1>10, RerunEffect
  <2> QED
    BY <1>3, <2>1
<1>11. ASSUME NEW p \in Pods, DrainCancel(p) PROVE d \in copies
  <2>1. d \in copies \/ \E c \in copies : d = [c EXCEPT !.stage = "ending", !.kind = "cut"]
    BY <1>11 DEF DrainCancel, On
  <2> QED
    BY <1>2, <2>1 DEF Copies
<1>12. ASSUME NEW p \in Pods, Crash(p) \/ DrainExit(p) PROVE d \in copies
  BY <1>12 DEF Crash, DrainExit, Gone
<1>13. ASSUME NEW p \in Pods,
              \/ Beat(p) \/ TickList(p) \/ TickJudge(p) \/ TickAdvance(p) \/ TickEnds(p)
              \/ Wake(p) \/ Stall(p) \/ DrainBegin(p) \/ DrainDeadline(p)
       PROVE  d \in copies
  BY <1>13 DEF Beat, TickList, TickJudge, TickAdvance, TickEnds, Wake, Stall, DrainBegin,
      DrainDeadline
<1>14. TimeStep => d \in copies
  BY DEF TimeStep, BeatExpires, Age
<1>15. UNCHANGED vars => d \in copies
  BY DEF vars
<1> HIDE DEF Goal
<1>16. d \in copies => Goal
  BY DEF Goal
<1>17. Goal
  BY <1>4, <1>5, <1>6, <1>7, <1>8, <1>9, <1>10, <1>11, <1>12, <1>13, <1>14, <1>15, <1>16
      DEF Next, Moves, TickStep, PodStep
<1> QED
  BY <1>17 DEF Goal

\* Every step keeps it: no claim goes before its ending is there.
LEMMA TruthfulStep ==
    ASSUME TypeOK, Ledger, Truthful, [Next]_vars
    PROVE  Truthful'
<1> SUFFICES ASSUME faults' = 0
             PROVE  /\ claimless' = {} /\ covered' \subseteq asked'
                    /\ WrittenIsTold' /\ FinishedIsEnded'
  BY DEF Truthful
<1>1. /\ faults = 0 /\ claimless = {} /\ covered \subseteq asked
      /\ WrittenIsTold /\ FinishedIsEnded
  BY FaultsGrow DEF Truthful
<1>2. ~Fault
  BY <1>1 DEF Fault
<1>3. /\ asked \subseteq asked' /\ covered \subseteq covered' /\ covered' \subseteq asked'
      /\ \A q \in Questions : endings[q] # <<>> => endings'[q] # <<>>
  BY <1>1, ThreadGrows
<1>4. \A q \in Questions : Told(q) => Told(q)'
  BY <1>3 DEF Told
<1>5. claimless' = {}
  <2>1. ASSUME NEW p \in Pods, NEW q \in Questions, Ask(p, q) \/ DrainRelease(p, q)
        PROVE  claimless' = claimless
    BY <1>2, <2>1 DEF Ask, DrainRelease
  <2>2. ASSUME NEW c \in copies, Check(c) \/ GiveUpCovered(c) \/ Write(c) \/ FinishClaim(c)
        PROVE  claimless' = claimless
    BY <2>2 DEF Check, GiveUpCovered, Write, FinishClaim
  <2>3. ASSUME NEW p \in Pods, TickTake(p) \/ Crash(p) \/ DrainExit(p)
        PROVE  claimless' = claimless
    BY <2>3 DEF TickTake, Crash, DrainExit
  <2> QED
    BY <1>1, <2>1, <2>2, <2>3, LedgerChanges
<1>6. \A c \in copies : c.q \in Questions /\ c.kind \in Kinds
  BY DEF TypeOK, CopyTypeOK, Copies
<1>7. WrittenIsTold'
  <2> SUFFICES ASSUME NEW d \in copies', d.stage = "written" PROVE Told(d.q)'
    BY DEF WrittenIsTold
  <2>1. CASE d \in copies
    BY <1>1, <1>4, <1>6, <2>1 DEF WrittenIsTold
  <2>2. ASSUME NEW c \in copies, d.q = c.q, GiveUpCovered(c) PROVE Told(d.q)'
    BY <1>4, <1>6, <2>2 DEF GiveUpCovered, Told
  <2>3. ASSUME NEW c \in copies, d.q = c.q,
               endings' = [endings EXCEPT ![c.q] = Append(@, c.kind)]
        PROVE  Told(d.q)'
    <3>1. endings \in [Questions -> Seq(Kinds)]
      BY DEF TypeOK, ThreadTypeOK
    <3>2. endings'[c.q] = Append(endings[c.q], c.kind) /\ endings[c.q] \in Seq(Kinds)
      BY <1>6, <2>3, <3>1
    <3>3. endings'[c.q] # <<>>
      BY <1>6, <3>2
    <3> QED
      BY <2>3, <3>3 DEF Told
  <2> QED
    BY <1>1, <2>1, <2>2, <2>3, WrittenFrom
<1>8. FinishedIsEnded'
  <2>1. \A q \in asked : ~Listed(row, q) => Told(q)
    BY <1>1 DEF FinishedIsEnded, Told
  <2>2. asked \subseteq Questions
    BY DEF TypeOK, TableTypeOK
  <2>3. CASE asked' = asked /\ \A q \in Questions : Listed(row, q) => Listed(row', q)
    BY <1>4, <2>1, <2>2, <2>3 DEF FinishedIsEnded, Told
  <2>4. ASSUME NEW p \in Pods, NEW q \in Questions, Ask(p, q) PROVE FinishedIsEnded'
    <3>1. asked' = asked \cup {q} /\ row' = [row EXCEPT ![q] = [NoRow EXCEPT !.owner = p]]
      BY <1>2, <2>4 DEF Ask
    <3>2. Listed(row', q) /\ \A x \in Questions : Listed(row, x) => Listed(row', x)
      BY <3>1, TurnClaimsAssumption DEF Listed, NoRow, TypeOK, TableTypeOK
    <3> QED
      BY <1>4, <2>1, <2>2, <3>1, <3>2 DEF FinishedIsEnded, Told
  <2>5. ASSUME NEW c \in copies, FinishClaim(c) PROVE FinishedIsEnded'
    <3>1. Told(c.q) /\ asked' = asked /\ row' = [row EXCEPT ![c.q] = NoRow]
      BY <1>1, <1>2, <2>5 DEF FinishClaim, Finishes, WrittenIsTold
    <3>2. \A q \in Questions : q = c.q \/ (Listed(row, q) => Listed(row', q))
      BY <3>1 DEF Listed, TypeOK, TableTypeOK
    <3> QED
      BY <1>4, <2>1, <2>2, <3>1, <3>2 DEF FinishedIsEnded, Told
  <2>6. ASSUME NEW p \in Pods, NEW q \in Questions, DrainRelease(p, q)
        PROVE  asked' = asked /\ \A x \in Questions : Listed(row, x) => Listed(row', x)
    BY <2>6 DEF DrainRelease, Listed, TypeOK, TableTypeOK, Rows
  <2>7. ASSUME NEW p \in Pods, TickTake(p)
        PROVE  asked' = asked /\ \A x \in Questions : Listed(row, x) => Listed(row', x)
    <3>1. asked' = asked /\ (row' = row \/ \E q \in Questions : Took(p, q))
      BY <2>7, TakeEffect
    <3>2. ASSUME NEW q \in Questions, Took(p, q)
          PROVE  \A x \in Questions : Listed(row, x) => Listed(row', x)
      BY <3>2, TurnClaimsAssumption DEF Took, Taken, Listed, TypeOK, TableTypeOK
    <3> QED
      BY <3>1, <3>2
  <2>8. ASSUME NEW c \in copies, Check(c) \/ GiveUpCovered(c) \/ Write(c)
        PROVE  asked' = asked /\ row' = row
    BY <2>8 DEF Check, GiveUpCovered, Write, tableVars
  <2>9. ASSUME NEW p \in Pods, Crash(p) \/ DrainExit(p) PROVE asked' = asked /\ row' = row
    BY <2>9 DEF Crash, DrainExit, tableVars
  <2> QED
    BY <2>3, <2>4, <2>5, <2>6, <2>7, <2>8, <2>9, LedgerChanges
<1> QED
  BY <1>3, <1>5, <1>7, <1>8

\* So it always holds.
LEMMA TruthfulAlways == Spec => []Truthful
<1>1. Init => Truthful
  BY DEF Init, Truthful, WrittenIsTold, FinishedIsEnded
<1>2. Safe /\ Truthful /\ [Next]_vars => Truthful'
  BY TruthfulStep DEF Safe
<1> QED
  BY <1>1, <1>2, SafeAlways, PTL DEF Spec

\* As long as the store has refused nothing, a claim is finished only when its
\* question has an ending of its own or stands above a give-up ending, however
\* pods stall, crash, drain and take over.
THEOREM FinishedIsEndedHolds == Spec => [](faults = 0 => FinishedIsEnded)
<1>1. Truthful => (faults = 0 => FinishedIsEnded)
  BY DEF Truthful
<1> QED
  BY <1>1, TruthfulAlways, PTL

-----------------------------------------------------------------------------
(* The claims implement the ledger of questions *)

Owed == {q \in Questions : Listed(row, q)}
Count == [q \in Questions |-> Len(endings[q])]

\* A step that leaves the ledger alone.
Stutter == UNCHANGED <<asked, Owed, Count, covered, exposed>>

\* With rows and endings unchanged nothing is owed or told that was not before.
LEMMA SameLedger ==
    /\ row' = row => Owed' = Owed
    /\ endings' = endings => Count' = Count
BY DEF Owed, Count, Listed

\* What the mapped names stand for.
LEMMA Mapped ==
    /\ \A q \in Questions :
          Promise!Ask(q) <=> /\ q \notin asked
                             /\ asked' = asked \cup {q}
                             /\ Owed' \in {Owed, Owed \cup {q}}
                             /\ UNCHANGED <<Count, covered, exposed>>
    /\ \A q \in Questions :
          Promise!Tell(q) <=> /\ q \in asked
                              /\ Count[q] = 0 \/ q \in exposed
                              /\ Count' = [Count EXCEPT ![q] = @ + 1]
                              /\ covered' \in {covered, asked}
                              /\ UNCHANGED <<asked, Owed, exposed>>
    /\ \A q \in Questions :
          Promise!Settle(q) <=> /\ q \in Owed
                                /\ Count[q] > 0 \/ q \in covered
                                /\ Owed' = Owed \ {q}
                                /\ UNCHANGED <<asked, Count, covered, exposed>>
    /\ \A S \in SUBSET asked :
          Promise!Waive(S) <=> /\ S \subseteq asked
                               /\ exposed' = exposed \cup S
                               /\ UNCHANGED <<asked, Owed, Count, covered>>
    /\ UNCHANGED Promise!ledger <=> Stutter
    /\ Promise!Next <=> \/ \E q \in Questions :
                              Promise!Ask(q) \/ Promise!Tell(q) \/ Promise!Settle(q)
                        \/ \E S \in SUBSET asked : Promise!Waive(S)
<1>1. \A q \in Questions :
          Promise!Ask(q) <=> /\ q \notin asked
                             /\ asked' = asked \cup {q}
                             /\ Owed' \in {Owed, Owed \cup {q}}
                             /\ UNCHANGED <<Count, covered, exposed>>
  BY DEF Promise!Ask, Owed, Count
<1>2. \A q \in Questions :
          Promise!Tell(q) <=> /\ q \in asked
                              /\ Count[q] = 0 \/ q \in exposed
                              /\ Count' = [Count EXCEPT ![q] = @ + 1]
                              /\ covered' \in {covered, asked}
                              /\ UNCHANGED <<asked, Owed, exposed>>
  BY DEF Promise!Tell, Owed, Count
<1>3. \A q \in Questions :
          Promise!Settle(q) <=> /\ q \in Owed
                                /\ Count[q] > 0 \/ q \in covered
                                /\ Owed' = Owed \ {q}
                                /\ UNCHANGED <<asked, Count, covered, exposed>>
  BY DEF Promise!Settle, Owed, Count
<1>4. \A S \in SUBSET asked :
          Promise!Waive(S) <=> /\ S \subseteq asked
                               /\ exposed' = exposed \cup S
                               /\ UNCHANGED <<asked, Owed, Count, covered>>
  BY DEF Promise!Waive, Owed, Count
<1>5. UNCHANGED Promise!ledger <=> Stutter
  BY DEF Promise!ledger, Stutter, Owed, Count
<1>6. Promise!Next <=> \/ \E q \in Questions :
                              Promise!Ask(q) \/ Promise!Tell(q) \/ Promise!Settle(q)
                       \/ \E S \in SUBSET asked : Promise!Waive(S)
  BY DEF Promise!Next
<1> QED
  BY <1>1, <1>2, <1>3, <1>4, <1>5, <1>6

\* Where nothing but what is waived changes, the step is a Waive.
LEMMA WaiveStep ==
    ASSUME NEW S, S \subseteq asked, exposed' = exposed \cup S,
           asked' = asked, Owed' = Owed, Count' = Count, covered' = covered
    PROVE  Promise!Next
<1>1. S \in SUBSET asked
  OBVIOUS
<1>2. Promise!Waive(S)
  BY <1>1, Mapped
<1> QED
  BY <1>1, <1>2, Mapped

\* Step by step: asking is Ask, writing an ending is Tell, finishing a claim is
\* Settle, a hand-over inside a persist is Waive, and all else is none of the
\* ledger's business.
LEMMA LedgerStepRefines ==
    ASSUME Safe, Truthful, faults = 0, faults' = 0, [Next]_vars
    PROVE  Promise!Next \/ UNCHANGED Promise!ledger
<1>1. TypeOK /\ Ledger /\ NoneAfterEnding /\ WrittenIsTold
  BY DEF Safe, EndingsSettled, Truthful
<1>2. ~Fault
  BY DEF Fault
<1>3. /\ row \in [Questions -> Rows] /\ endings \in [Questions -> Seq(Kinds)]
      /\ \A c \in copies : c.q \in Questions /\ c.q \in asked /\ c.kind \in Kinds
  BY <1>1 DEF TypeOK, TableTypeOK, ThreadTypeOK, CopyTypeOK, Copies, Ledger
<1>4. ASSUME NEW p \in Pods, NEW q \in Questions, Ask(p, q) PROVE Promise!Next
  <2>1. /\ q \notin asked /\ asked' = asked \cup {q}
        /\ row' = [row EXCEPT ![q] = [NoRow EXCEPT !.owner = p]]
        /\ UNCHANGED <<endings, covered, exposed>>
    BY <1>2, <1>4 DEF Ask, threadVars
  <2>2. Owed' = Owed \cup {q}
    BY <1>3, <2>1, TurnClaimsAssumption DEF Owed, Listed, NoRow
  <2>3. Count' = Count
    BY <2>1, SameLedger
  <2>4. Promise!Ask(q)
    BY <2>1, <2>2, <2>3, Mapped
  <2> QED
    BY <2>4, Mapped
<1>5. ASSUME NEW c \in copies, Write(c) PROVE Promise!Next
  <2>1. /\ c.stage = "checked"
        /\ endings' = [endings EXCEPT ![c.q] = Append(endings[c.q], c.kind)]
        /\ covered' \in {covered, asked} /\ UNCHANGED <<asked, row, exposed>>
    BY <1>2, <1>5 DEF Write, tableVars
  <2>2. c.q \notin exposed => endings[c.q] = <<>>
    BY <1>1, <2>1 DEF NoneAfterEnding
  <2>3. Count[c.q] = 0 \/ c.q \in exposed
    BY <1>3, <2>2 DEF Count
  <2>4. Len(Append(endings[c.q], c.kind)) = Len(endings[c.q]) + 1
    BY <1>3
  <2>5. Count' = [Count EXCEPT ![c.q] = @ + 1]
    BY <1>3, <2>1, <2>4 DEF Count
  <2>6. Owed' = Owed
    BY <2>1, SameLedger
  <2>7. Promise!Tell(c.q)
    BY <1>3, <2>1, <2>3, <2>5, <2>6, Mapped
  <2> QED
    BY <1>3, <2>7, Mapped
<1>6. ASSUME NEW c \in copies, FinishClaim(c)
      PROVE  Promise!Next \/ UNCHANGED Promise!ledger
  <2>1. /\ c.stage = "written" /\ row' = [row EXCEPT ![c.q] = NoRow]
        /\ UNCHANGED <<asked, endings, covered, exposed>>
    BY <1>2, <1>6 DEF FinishClaim, Finishes, threadVars
  <2>2. Owed' = Owed \ {c.q} /\ Count' = Count
    BY <1>3, <2>1, SameLedger DEF Owed, Listed, NoRow
  <2>3. CASE c.q \in Owed
    <3>1. Told(c.q)
      BY <1>1, <2>1 DEF WrittenIsTold
    <3>2. endings[c.q] # <<>> => Len(endings[c.q]) > 0
      BY <1>3
    <3>3. Count[c.q] > 0 \/ c.q \in covered
      BY <1>3, <3>1, <3>2 DEF Told, Count
    <3>4. Promise!Settle(c.q)
      BY <1>3, <2>1, <2>2, <2>3, <3>3, Mapped
    <3> QED
      BY <1>3, <3>4, Mapped
  <2>4. CASE c.q \notin Owed
    BY <2>1, <2>2, <2>4, Mapped DEF Stutter
  <2> QED
    BY <2>3, <2>4
<1>7. ASSUME NEW c \in copies, Check(c) PROVE UNCHANGED Promise!ledger
  <2>1. UNCHANGED <<asked, row, endings, covered, exposed>>
    BY <1>2, <1>7 DEF Check, tableVars, threadVars
  <2> QED
    BY <2>1, SameLedger, Mapped DEF Stutter
<1>8. ASSUME NEW c \in copies, GiveUpCovered(c) PROVE Promise!Next
  <2>1. /\ exposed' = exposed \/ exposed' = exposed \cup {c.q}
        /\ UNCHANGED <<asked, row, endings, covered>>
    BY <1>8 DEF GiveUpCovered, tableVars, threadVars
  <2>2. PICK S \in SUBSET asked : exposed' = exposed \cup S
    <3>1. exposed' = exposed \cup {} \/ exposed' = exposed \cup {c.q}
      BY <2>1
    <3>2. {} \in SUBSET asked /\ {c.q} \in SUBSET asked
      BY <1>3
    <3> QED
      BY <3>1, <3>2
  <2> QED
    BY <2>1, <2>2, SameLedger, WaiveStep
<1>9. ASSUME NEW q \in Questions PROVE Exposes(q) \subseteq asked
  BY <1>3 DEF Exposes
<1>10. ASSUME NEW p \in Pods, NEW q \in Questions, DrainRelease(p, q) PROVE Promise!Next
  <2>1. /\ row' = [row EXCEPT ![q].released = TRUE]
        /\ exposed' = exposed \cup Exposes(q)
        /\ UNCHANGED <<asked, endings, covered>>
    BY <1>10 DEF DrainRelease, threadVars
  <2>2. \A x \in Questions : row'[x].owner = row[x].owner
    BY <1>3, <2>1 DEF Rows
  <2>3. Owed' = Owed
    BY <2>2 DEF Owed, Listed
  <2> QED
    BY <1>9, <2>1, <2>3, SameLedger, WaiveStep
<1>11. ASSUME NEW p \in Pods, TickTake(p) PROVE Promise!Next
  <2>1. UNCHANGED <<asked, endings, covered>>
    BY <1>11 DEF TickTake, threadVars
  <2>2. ASSUME NEW q \in Questions, Took(p, q) PROVE Promise!Next
    <3>1. /\ row' = [row EXCEPT ![q] = Taken(p, row[q])]
          /\ exposed' = exposed \cup Exposes(q)
      BY <2>2 DEF Took
    <3>2. Listed(row, q)
      BY <1>1, <2>2 DEF Took, Ledger, Listed
    <3>3. \A x \in Questions : Listed(row', x) <=> Listed(row, x)
      BY <1>3, <3>1, <3>2, TurnClaimsAssumption DEF Listed, Taken
    <3>4. Owed' = Owed
      BY <3>3 DEF Owed
    <3> QED
      BY <1>9, <2>1, <3>1, <3>4, SameLedger, WaiveStep
  <2>3. CASE UNCHANGED <<row, exposed>>
    <3>1. PICK S \in SUBSET asked : exposed' = exposed \cup S
      <4>1. exposed' = exposed \cup {} /\ {} \in SUBSET asked
        BY <2>3
      <4> QED
        BY <4>1
    <3> QED
      BY <2>1, <2>3, <3>1, SameLedger, WaiveStep
  <2> QED
    BY <1>1, <1>11, <2>2, <2>3, TakeEffect
<1>12. ASSUME NEW p \in Pods, Crash(p) \/ DrainExit(p) PROVE Promise!Next
  <2> DEFINE S == {c.q : c \in {d \in On(p) : d.stage = "written"}}
  <2>1. exposed' = exposed \cup S /\ UNCHANGED <<asked, row, endings, covered>>
    BY <1>12 DEF Crash, DrainExit, Gone, tableVars, threadVars
  <2>2. S \subseteq asked
    BY <1>3 DEF On
  <2> HIDE DEF S
  <2> QED
    BY <2>1, <2>2, SameLedger, WaiveStep
<1>13. CASE UNCHANGED <<asked, claimless, row, endings, covered, exposed>>
  BY <1>13, SameLedger, Mapped DEF Stutter
<1> QED
  BY <1>4, <1>5, <1>6, <1>7, <1>8, <1>10, <1>11, <1>12, <1>13, LedgerChanges

\* The ledger's start is the claims' start.
LEMMA LedgerInit == Init => Promise!Init
<1> SUFFICES ASSUME Init PROVE Promise!Init
  OBVIOUS
<1>1. Owed = {}
  BY DEF Init, Owed, Listed, NoRow
<1>2. Count = [q \in Questions |-> 0]
  BY DEF Init, Count
<1> QED
  BY <1>1, <1>2 DEF Init, Promise!Init, Owed, Count

\* Where the store refuses nothing, the claims implement the ledger: a debt is
\* settled only by what the thread tells, and the thread tells it once -- through
\* every interleaving of pods that stall, crash, drain and take over.
THEOREM ImplementsLedgerHolds ==
    ASSUME MaxFaults = 0
    PROVE  Spec => ImplementsLedger
<1>1. Init => Unrefused
  BY DEF Init, Unrefused
<1>2. Unrefused /\ [Next]_vars => Unrefused'
  BY NoneRefused DEF Unrefused
<1>3. Safe /\ Truthful /\ Unrefused /\ Unrefused' /\ [Next]_vars
        => [Promise!Next]_(Promise!ledger)
  BY LedgerStepRefines DEF Unrefused
<1> QED
  BY <1>1, <1>2, <1>3, LedgerInit, SafeAlways, TruthfulAlways, PTL
      DEF Spec, ImplementsLedger, Promise!Spec


-----------------------------------------------------------------------------
(* A pod that serves keeps its claims *)

\* Claimed, not let go of, and its owner serves.
Held(q) == Listed(row, q) /\ ~row[q].released /\ pod[row[q].owner] = "up"

\* Run n of a question is a copy on the pod, or its tick is about to start it.
AtWork(o, q, n) ==
    \/ \E c \in copies : c.pod = o /\ c.q = q /\ c.run = n
    \/ q \in tick[o].mine /\ tick[o].rows[q].reruns + 1 = n

\* The store refuses nothing and no loop is wedged.
Calm == faults = 0 /\ frozen = {}

\* A tick has something to take or to start only while it takes or starts.
TickStages ==
    \A p \in Pods : /\ tick[p].todo # {} => tick[p].stage = "taking"
                    /\ tick[p].mine # {} => tick[p].stage \in {"taking", "rerunning"}

\* A listing is of the past: a row has since been taken over again, or let go
\* of, or is as it was.
ListedBefore ==
    \A p \in Pods, q \in Questions :
        Listed(tick[p].rows, q) /\ Listed(row, q) =>
            \/ tick[p].rows[q].reruns < row[q].reruns
            \/ /\ tick[p].rows[q].reruns = row[q].reruns
               /\ tick[p].rows[q].owner = row[q].owner
               /\ tick[p].rows[q].released => row[q].released

\* Whoever holds a claim is at work on it.
HeldIsWorked == \A q \in Questions : Held(q) => AtWork(row[q].owner, q, row[q].reruns)

\* So a claim that is held is young, or somebody beats.
HeldIsBeaten == \A q \in Questions : Held(q) => <<q, row[q].reruns>> \in recent \/ beat

\* And what a tick has judged and finds unchanged is not held.
JudgedIsNotHeld ==
    \A p \in Pods, q \in Questions :
        q \in tick[p].todo /\ row[q] = tick[p].rows[q] => ~Held(q)

\* Without stalls and faults it stays calm.
LEMMA StaysCalm ==
    ASSUME MaxFaults = 0, MaxStalls = 0, TypeOK, Calm, [Next]_vars
    PROVE  Calm'
<1>1. faults' = 0
  BY NoneRefused DEF Calm
<1>2. stalls \in Nat /\ frozen = {}
  BY DEF Calm, TypeOK, PodTypeOK
<1>3. ASSUME NEW c \in copies, Moves(c) \/ TurnEnds(c) PROVE frozen' = frozen
  BY <1>3 DEF Moves, PrepareEnds, PrepareFails, Start, Watch, TurnEnds, Check,
      GiveUpCovered, Write, FinishClaim, podVars
<1>4. ASSUME NEW p \in Pods, Beat(p) \/ TickStep(p) \/ Wake(p) PROVE frozen' \subseteq frozen
  BY <1>4 DEF TickStep, Beat, TickList, TickJudge, TickTake, TickAdvance, TickRerun,
      TickEnds, Wake, podVars
<1>5. ASSUME NEW p \in Pods, Stall(p) PROVE FALSE
  BY <1>2, <1>5 DEF Stall
<1>6. ASSUME NEW p \in Pods, NEW q \in Questions, Ask(p, q) \/ DrainRelease(p, q)
      PROVE  frozen' = frozen
  BY <1>6 DEF Ask, DrainRelease, podVars
<1>7. ASSUME NEW p \in Pods,
             \/ Crash(p) \/ DrainBegin(p) \/ DrainDeadline(p) \/ DrainCancel(p) \/ DrainExit(p)
      PROVE  frozen' \subseteq frozen
  BY <1>7 DEF Crash, DrainBegin, DrainDeadline, DrainCancel, DrainExit, Gone
<1>8. TimeStep => frozen' = frozen
  BY DEF TimeStep, BeatExpires, Age, podVars
<1>9. UNCHANGED vars => frozen' = frozen
  BY DEF vars, podVars
<1>10. frozen' \subseteq frozen
  BY <1>3, <1>4, <1>5, <1>6, <1>7, <1>8, <1>9 DEF Next, PodStep
<1> QED
  BY <1>1, <1>2, <1>10 DEF Calm

\* No pod comes up again.
LEMMA NeverUpAgain ==
    ASSUME TypeOK, [Next]_vars
    PROVE  \A o \in Pods : pod'[o] = "up" => pod[o] = "up"
<1>1. pod \in [Pods -> {"up", "draining", "handing", "cancelled", "gone"}]
  BY DEF TypeOK, PodTypeOK
<1>2. ASSUME NEW c \in copies, Moves(c) \/ TurnEnds(c) PROVE pod' = pod
  BY <1>2 DEF Moves, PrepareEnds, PrepareFails, Start, Watch, TurnEnds, Check,
      GiveUpCovered, Write, FinishClaim, podVars
<1>3. ASSUME NEW p \in Pods, Beat(p) \/ TickStep(p) \/ Wake(p) \/ Stall(p) PROVE pod' = pod
  BY <1>3 DEF TickStep, Beat, TickList, TickJudge, TickTake, TickAdvance, TickRerun,
      TickEnds, Wake, Stall, podVars
<1>4. ASSUME NEW p \in Pods, NEW q \in Questions, Ask(p, q) \/ DrainRelease(p, q)
      PROVE  pod' = pod
  BY <1>4 DEF Ask, DrainRelease, podVars
<1>5. ASSUME NEW p \in Pods,
             \/ Crash(p) \/ DrainBegin(p) \/ DrainDeadline(p) \/ DrainCancel(p) \/ DrainExit(p)
      PROVE  \E s \in {"gone", "draining", "handing", "cancelled"} :
                pod' = [pod EXCEPT ![p] = s]
  BY <1>5 DEF Crash, DrainBegin, DrainDeadline, DrainCancel, DrainExit, Gone
<1>6. TimeStep => pod' = pod
  BY DEF TimeStep, BeatExpires, Age, podVars
<1>7. UNCHANGED vars => pod' = pod
  BY DEF vars, podVars
<1> QED
  BY <1>1, <1>2, <1>3, <1>4, <1>5, <1>6, <1>7 DEF Next, PodStep

\* What becomes of a row.
RowEnds(c) == c \in copies /\ FinishClaim(c) /\ row' = [row EXCEPT ![c.q] = NoRow]

\* The actions that change a row, where the store refuses nothing.
LEMMA RowChanges ==
    ASSUME TypeOK, Ledger, [Next]_vars, faults = 0
    PROVE  \/ row' = row
           \/ \E p \in Pods, q \in Questions : Ask(p, q) \/ DrainRelease(p, q)
           \/ \E c \in copies : RowEnds(c)
           \/ \E p \in Pods : TickTake(p) /\ \E q \in Questions : Took(p, q) /\ Listed(row, q)
<1>1. ASSUME NEW c \in copies, FinishClaim(c) PROVE row' = row \/ RowEnds(c)
  BY <1>1 DEF FinishClaim, RowEnds
<1>2. ASSUME NEW c \in copies, Check(c) \/ GiveUpCovered(c) \/ Write(c) PROVE row' = row
  BY <1>2 DEF Check, GiveUpCovered, Write, tableVars
<1>3. ASSUME NEW p \in Pods, TickTake(p)
      PROVE  row' = row \/ \E q \in Questions : Took(p, q) /\ Listed(row, q)
  <2>1. row' = row \/ \E q \in Questions : Took(p, q)
    BY <1>3, TakeEffect
  <2>2. ASSUME NEW q \in Questions, Took(p, q) PROVE Listed(row, q)
    BY <2>2 DEF Took, Ledger, Listed
  <2> QED
    BY <2>1, <2>2
<1>4. ASSUME NEW p \in Pods, Crash(p) \/ DrainExit(p) PROVE row' = row
  BY <1>4 DEF Crash, DrainExit, tableVars
<1> QED
  BY <1>1, <1>2, <1>3, <1>4, LedgerChanges

\* A tick is over, or gone with its pod.
TickOver(p) ==
    /\ tick' = [tick EXCEPT ![p] = Idle] /\ UNCHANGED <<row, recent, beat>>
    /\ tick[p].mine = {} \/ pod'[p] # "up"

\* The actions that change a tick.
LEMMA TickChanges ==
    ASSUME TypeOK, [Next]_vars
    PROVE  \/ tick' = tick
           \/ \E p \in Pods : \/ TickList(p) \/ TickJudge(p) \/ TickTake(p) \/ TickAdvance(p)
                              \/ TickRerun(p) \/ TickOver(p)
<1>1. ASSUME NEW c \in copies, Moves(c) \/ TurnEnds(c) PROVE tick' = tick
  BY <1>1 DEF Moves, PrepareEnds, PrepareFails, Start, Watch, TurnEnds, Check,
      GiveUpCovered, Write, FinishClaim
<1>2. ASSUME NEW p \in Pods,
             \/ Beat(p) \/ Wake(p) \/ Stall(p) \/ DrainDeadline(p) \/ DrainCancel(p)
      PROVE  tick' = tick
  BY <1>2 DEF Beat, Wake, Stall, DrainDeadline, DrainCancel
<1>3. ASSUME NEW p \in Pods, NEW q \in Questions, Ask(p, q) \/ DrainRelease(p, q)
      PROVE  tick' = tick
  BY <1>3 DEF Ask, DrainRelease
<1>4. ASSUME NEW p \in Pods, TickEnds(p) \/ Crash(p) \/ DrainBegin(p) \/ DrainExit(p)
      PROVE  TickOver(p)
  BY <1>4 DEF TickOver, TickEnds, Crash, DrainBegin, DrainExit, Gone, TypeOK, PodTypeOK,
      tableVars
<1>5. TimeStep => tick' = tick
  BY DEF TimeStep, BeatExpires, Age
<1>6. UNCHANGED vars => tick' = tick
  BY DEF vars
<1> QED
  BY <1>1, <1>2, <1>3, <1>4, <1>5, <1>6 DEF Next, TickStep, PodStep

\* What becomes of a tick, action by action: it lists ...
LEMMA ListFields ==
    ASSUME TypeOK, NEW p \in Pods, TickList(p)
    PROVE  /\ \A o \in Pods : o # p => tick'[o] = tick[o]
           /\ tick[p].stage = "idle" /\ tick'[p].rows = row
           /\ tick'[p].todo = {} /\ tick'[p].mine = {}
<1>1. tick \in [Pods -> Ticks]
  BY DEF TypeOK, TickTypeOK
<1>2. tick' = [tick EXCEPT ![p] = [Idle EXCEPT !.stage = "listed", !.rows = row]]
  BY DEF TickList
<1>3. tick'[p] = [Idle EXCEPT !.stage = "listed", !.rows = row]
  BY <1>1, <1>2
<1>4. tick'[p].rows = row /\ tick'[p].todo = {} /\ tick'[p].mine = {}
  BY <1>3 DEF Idle
<1> QED
  BY <1>1, <1>2, <1>4 DEF TickList, Ticking

\* ... judges what it listed ...
LEMMA JudgeFields ==
    ASSUME TypeOK, NEW p \in Pods, TickJudge(p)
    PROVE  /\ \A o \in Pods : o # p => tick'[o] = tick[o]
           /\ tick[p].stage = "listed"
           /\ \/ tick'[p] = Idle
              \/ /\ tick'[p].stage = "taking" /\ tick'[p].rows = tick[p].rows
                 /\ tick'[p].todo = Candidates(tick[p].rows)
                 /\ tick'[p].mine = tick[p].mine
<1>1. tick \in [Pods -> Ticks] /\ tick[p] \in Ticks
  BY DEF TypeOK, TickTypeOK
<1>2. \/ tick' = [tick EXCEPT ![p] = Idle]
      \/ tick' = [tick EXCEPT ![p] = [tick[p] EXCEPT !.stage = "taking",
                                                     !.todo = Candidates(tick[p].rows)]]
  BY DEF TickJudge
<1>3. \/ tick'[p] = Idle
      \/ tick'[p] = [tick[p] EXCEPT !.stage = "taking", !.todo = Candidates(tick[p].rows)]
  BY <1>1, <1>2
<1>4. \A o \in Pods : o # p => tick'[o] = tick[o]
  BY <1>1, <1>2
<1> QED
  BY <1>1, <1>3, <1>4 DEF TickJudge, Ticking, Ticks

\* ... takes ...
LEMMA TakeFields ==
    ASSUME TypeOK, NEW p \in Pods, TickTake(p)
    PROVE  /\ \A o \in Pods : o # p => tick'[o] = tick[o]
           /\ tick[p].stage = "taking" /\ tick'[p].stage = "taking"
           /\ tick'[p].rows = tick[p].rows /\ tick'[p].todo \subseteq tick[p].todo
<1>1. tick \in [Pods -> Ticks] /\ tick[p] \in Ticks /\ tick[p].stage = "taking"
  BY DEF TypeOK, TickTypeOK, TickTake, Ticking
<1>2. PICK q \in First(tick[p].todo) :
         \/ tick' = [tick EXCEPT ![p] = [tick[p] EXCEPT !.todo = @ \ {q},
                     !.stalled = @ \/ ~tick[p].rows[q].released,
                     !.mine = IF Spent(tick[p].rows[q]) THEN @ ELSE @ \cup {q}]]
         \/ tick' = [tick EXCEPT ![p] = [tick[p] EXCEPT
                     !.todo = IF Listed(row, q) THEN {} ELSE @ \ {q}]]
         \/ tick' = [tick EXCEPT ![p] = [tick[p] EXCEPT !.todo = @ \ {q}]]
  BY DEF TickTake
<1>3. \A o \in Pods : o # p => tick'[o] = tick[o]
  BY <1>1, <1>2
<1>4. tick'[p].stage = "taking"
  <2>1. \A todo, st, mine : [tick[p] EXCEPT !.todo = todo, !.stalled = st, !.mine = mine].stage
                              = tick[p].stage
    BY <1>1 DEF Ticks
  <2>2. \A todo : [tick[p] EXCEPT !.todo = todo].stage = tick[p].stage
    BY <1>1 DEF Ticks
  <2>3. [tick[p] EXCEPT !.todo = @ \ {q}, !.stalled = @ \/ ~tick[p].rows[q].released,
                        !.mine = IF Spent(tick[p].rows[q]) THEN @ ELSE @ \cup {q}].stage
          = tick[p].stage
    BY <2>1
  <2>4. /\ [tick[p] EXCEPT !.todo = IF Listed(row, q) THEN {} ELSE @ \ {q}].stage = tick[p].stage
        /\ [tick[p] EXCEPT !.todo = @ \ {q}].stage = tick[p].stage
    BY <2>2
  <2>5. \A t : tick' = [tick EXCEPT ![p] = t] => tick'[p] = t
    BY <1>1
  <2> QED
    BY <1>1, <1>2, <2>3, <2>4, <2>5
<1> QED
  BY <1>1, <1>3, <1>4, TakeEffect

\* ... advances the epoch ...
LEMMA AdvanceFields ==
    ASSUME TypeOK, NEW p \in Pods, TickAdvance(p)
    PROVE  /\ \A o \in Pods : o # p => tick'[o] = tick[o]
           /\ tick'[p].stage = "rerunning" /\ tick'[p].todo = {}
           /\ tick'[p].rows = tick[p].rows /\ tick'[p].mine = tick[p].mine
<1>1. tick \in [Pods -> Ticks] /\ tick[p] \in Ticks
  BY DEF TypeOK, TickTypeOK
<1>2. tick' = [tick EXCEPT ![p].stage = "rerunning"] /\ tick[p].todo = {}
  BY DEF TickAdvance
<1> QED
  BY <1>1, <1>2 DEF Ticks

\* ... starts the re-runs ...
LEMMA RerunFields ==
    ASSUME TypeOK, NEW p \in Pods, TickRerun(p)
    PROVE  /\ \A o \in Pods : o # p => tick'[o] = tick[o]
           /\ tick[p].stage = "rerunning" /\ tick'[p].stage = "rerunning"
           /\ tick'[p].rows = tick[p].rows /\ tick'[p].todo = tick[p].todo
           /\ tick'[p].mine \subseteq tick[p].mine
<1>1. tick \in [Pods -> Ticks] /\ tick[p] \in Ticks /\ tick[p].stage = "rerunning"
  BY DEF TypeOK, TickTypeOK, TickRerun, Ticking
<1>2. PICK q \in First(tick[p].mine) :
         tick' = [tick EXCEPT ![p] = [tick[p] EXCEPT !.mine = @ \ {q}]]
  BY DEF TickRerun
<1> QED
  BY <1>1, <1>2 DEF Ticks

\* ... and is over.
LEMMA OverFields ==
    ASSUME TypeOK, NEW p \in Pods, TickOver(p)
    PROVE  /\ \A o \in Pods : o # p => tick'[o] = tick[o]
           /\ tick'[p] = Idle
BY DEF TypeOK, TickTypeOK, TickOver

\* An idle tick has listed nothing and has nothing to do.
LEMMA IdleHoldsNothing ==
    /\ Idle.todo = {} /\ Idle.mine = {} /\ Idle.stage = "idle"
    /\ \A q \in Questions : ~Listed(Idle.rows, q)
BY DEF Idle, Listed, NoRow

\* Ticks take and start where their stage says so.
LEMMA TickStagesStep ==
    ASSUME TypeOK, TickStages, [Next]_vars
    PROVE  TickStages'
<1>1. ASSUME NEW p \in Pods, TickList(p) PROVE TickStages'
  BY <1>1, ListFields DEF TickStages
<1>2. ASSUME NEW p \in Pods, TickJudge(p) PROVE TickStages'
  BY <1>2, JudgeFields, IdleHoldsNothing DEF TickStages
<1>3. ASSUME NEW p \in Pods, TickTake(p) PROVE TickStages'
  BY <1>3, TakeFields DEF TickStages
<1>4. ASSUME NEW p \in Pods, TickAdvance(p) PROVE TickStages'
  BY <1>4, AdvanceFields DEF TickStages
<1>5. ASSUME NEW p \in Pods, TickRerun(p) PROVE TickStages'
  BY <1>5, RerunFields DEF TickStages
<1>6. ASSUME NEW p \in Pods, TickOver(p) PROVE TickStages'
  BY <1>6, OverFields, IdleHoldsNothing DEF TickStages
<1>7. tick' = tick => TickStages'
  BY DEF TickStages
<1> QED
  BY <1>1, <1>2, <1>3, <1>4, <1>5, <1>6, <1>7, TickChanges

\* A listing stays one of the past: no row goes back to what it was.
LEMMA ListedBeforeStep ==
    ASSUME TypeOK, Ledger, ListedBefore, [Next]_vars, faults = 0
    PROVE  ListedBefore'
<1>1. /\ row \in [Questions -> Rows] /\ tick \in [Pods -> Ticks]
      /\ \A p \in Pods : tick[p].rows \in [Questions -> Rows]
  BY DEF TypeOK, TableTypeOK, TickTypeOK, Ticks
<1>2. CASE tick' = tick \/ \E p \in Pods : TickTake(p)
  <2>1. \A o \in Pods : tick'[o].rows = tick[o].rows
    BY <1>2, TakeFields
  <2>2. CASE row' = row
    BY <2>1, <2>2 DEF ListedBefore
  <2>3. ASSUME NEW p \in Pods, NEW q \in Questions, Ask(p, q) PROVE ListedBefore'
    <3>1. \A o \in Pods : ~Listed(tick[o].rows, q)
      BY <2>3 DEF Ask, Ledger
    <3>2. \A x \in Questions : x # q => row'[x] = row[x]
      BY <1>1, <2>3 DEF Ask, tableVars
    <3> QED
      BY <2>1, <3>1, <3>2 DEF ListedBefore, Listed
  <2>4. ASSUME NEW p \in Pods, NEW q \in Questions, DrainRelease(p, q) PROVE ListedBefore'
    <3>1. row' = [row EXCEPT ![q].released = TRUE]
      BY <2>4 DEF DrainRelease
    <3>2. \A x \in Questions : /\ row'[x].owner = row[x].owner /\ row'[x].reruns = row[x].reruns
                               /\ row[x].released => row'[x].released
      BY <1>1, <3>1 DEF Rows
    <3> QED
      BY <2>1, <3>2 DEF ListedBefore, Listed
  <2>5. ASSUME NEW c \in copies, RowEnds(c) PROVE ListedBefore'
    <3>1. row' = [row EXCEPT ![c.q] = NoRow] /\ c.q \in Questions
      BY <2>5 DEF RowEnds, TypeOK, CopyTypeOK, Copies
    <3>2. \A x \in Questions : row'[x] = row[x] \/ ~Listed(row', x)
      BY <1>1, <3>1 DEF Listed, NoRow
    <3> QED
      BY <2>1, <3>2 DEF ListedBefore, Listed
  <2>6. ASSUME NEW p \in Pods, NEW q \in Questions, Took(p, q), Listed(row, q)
        PROVE  ListedBefore'
    <3>1. row' = [row EXCEPT ![q] = Taken(p, row[q])]
      BY <2>6 DEF Took
    <3>2. row'[q].reruns = row[q].reruns + 1 /\ \A x \in Questions : x # q => row'[x] = row[x]
      BY <1>1, <3>1 DEF Taken
    <3>3. row[q].reruns \in Nat /\ \A o \in Pods : tick[o].rows[q].reruns \in Nat
      BY <1>1 DEF Rows
    <3>4. \A o \in Pods : Listed(tick[o].rows, q) => tick[o].rows[q].reruns < row'[q].reruns
      BY <2>6, <3>2, <3>3 DEF ListedBefore
    <3> QED
      BY <2>1, <3>2, <3>4 DEF ListedBefore, Listed
  <2> QED
    BY <2>2, <2>3, <2>4, <2>5, <2>6, RowChanges
<1>3. ASSUME NEW p \in Pods, TickList(p) PROVE ListedBefore'
  <2>1. row' = row
    BY <1>3, QuietTick
  <2> QED
    BY <1>3, <2>1, ListFields DEF ListedBefore
<1>4. ASSUME NEW p \in Pods, TickJudge(p) PROVE ListedBefore'
  <2>1. row' = row
    BY <1>4, QuietTick
  <2> QED
    BY <1>4, <2>1, JudgeFields, IdleHoldsNothing DEF ListedBefore
<1>5. ASSUME NEW p \in Pods, TickAdvance(p) PROVE ListedBefore'
  <2>1. row' = row
    BY <1>5, QuietTick
  <2> QED
    BY <1>5, <2>1, AdvanceFields DEF ListedBefore
<1>6. ASSUME NEW p \in Pods, TickRerun(p) PROVE ListedBefore'
  <2>1. row' = row
    BY <1>6, RerunEffect
  <2> QED
    BY <1>6, <2>1, RerunFields DEF ListedBefore
<1>7. ASSUME NEW p \in Pods, TickOver(p), row' = row PROVE ListedBefore'
  BY <1>7, OverFields, IdleHoldsNothing DEF ListedBefore
<1> QED
  BY <1>2, <1>3, <1>4, <1>5, <1>6, <1>7, TickChanges DEF TickOver

\* A copy's own step keeps its run on its pod, unless the claim is not its pod's
\* any more or the step finishes it.
LEMMA RunStays ==
    ASSUME TypeOK, NEW c \in copies, Moves(c) \/ TurnEnds(c), ~Fault,
           NEW o \in Pods, NEW q \in Questions, NEW n \in Nat,
           NEW b \in copies, b.pod = o, b.q = q, b.run = n,
           row[q].owner = o, ~row[q].released, Listed(row', q)
    PROVE  \E d \in copies' : d.pod = o /\ d.q = q /\ d.run = n
<1>1. copies \subseteq Copies /\ row \in [Questions -> Rows] /\ epoch \in Nat
  BY DEF TypeOK, CopyTypeOK, TableTypeOK
<1> DEFINE SameRun(d) == d.pod = c.pod /\ d.q = c.q /\ d.run = c.run
<1>2. ASSUME NEW d, SameRun(d), Becomes(c, d)
      PROVE  \E e \in copies' : e.pod = o /\ e.q = q /\ e.run = n
  BY <1>2 DEF Becomes
<1>3. /\ \A s : SameRun([c EXCEPT !.stage = s])
      /\ \A s, k : SameRun([c EXCEPT !.stage = s, !.kind = k])
      /\ \A s, e : SameRun([c EXCEPT !.stage = s, !.stamp = e])
  BY <1>1 DEF Copies
<1> HIDE DEF SameRun
<1>4. CASE PrepareEnds(c) \/ PrepareFails(c) \/ Start(c) \/ Watch(c) \/ TurnEnds(c)
  <2>1. \/ Becomes(c, [c EXCEPT !.stage = "ending", !.kind = "cut"])
        \/ Becomes(c, [c EXCEPT !.stage = "ending", !.kind = "failed"])
        \/ Becomes(c, [c EXCEPT !.stage = "queued"])
        \/ Becomes(c, [c EXCEPT !.stage = "running", !.stamp = epoch])
        \/ Becomes(c, [c EXCEPT !.stage = "ending"])
    BY <1>4 DEF PrepareEnds, PrepareFails, Start, Watch, TurnEnds
  <2> QED
    BY <1>2, <1>3, <2>1
<1>5. CASE GiveUpCovered(c) \/ Write(c)
  <2>1. Becomes(c, [c EXCEPT !.stage = "written"])
    BY <1>5 DEF GiveUpCovered, Write
  <2> QED
    BY <1>2, <1>3, <2>1
<1>6. CASE Check(c)
  <2>1. \/ Becomes(c, [c EXCEPT !.stage = "checked"])
        \/ copies' = copies \ {c} /\ ~IsMine(c.pod, c.q)
    BY <1>6 DEF Check
  <2>2. ~IsMine(c.pod, c.q) => b # c
    BY DEF IsMine
  <2> QED
    BY <1>2, <1>3, <2>1, <2>2
<1>7. CASE FinishClaim(c)
  <2>1. copies' = copies \ {c} /\ row' = [row EXCEPT ![c.q] = NoRow]
    BY <1>7 DEF FinishClaim
  <2>2. c.q # q
    BY <1>1, <2>1 DEF Listed, NoRow
  <2> QED
    BY <2>1, <2>2
<1> QED
  BY <1>4, <1>5, <1>6, <1>7 DEF Moves

\* Work on a claim that is held goes on, whatever step is taken.
LEMMA WorkGoesOn ==
    ASSUME TypeOK, TickStages, [Next]_vars, ~Fault,
           NEW o \in Pods, NEW q \in Questions, NEW n \in Nat,
           pod'[o] = "up", row[q].owner = o, ~row[q].released, Listed(row', q),
           AtWork(o, q, n)
    PROVE  AtWork(o, q, n)'
<1> DEFINE Copy == \E c \in copies : c.pod = o /\ c.q = q /\ c.run = n
           Pending == q \in tick[o].mine /\ tick[o].rows[q].reruns + 1 = n
<1>1. Copy \/ Pending
  BY DEF AtWork
<1>2. ASSUME Copy' \/ Pending' PROVE AtWork(o, q, n)'
  BY <1>2 DEF AtWork
<1>3. ASSUME copies \subseteq copies' PROVE Copy => Copy'
  BY <1>3
<1>4. ASSUME tick'[o] = tick[o] PROVE Pending => Pending'
  BY <1>4
<1>5. ASSUME NEW c \in copies, Moves(c) \/ TurnEnds(c) PROVE AtWork(o, q, n)'
  <2>1. Copy => Copy'
    BY <1>5, RunStays
  <2>2. tick' = tick
    BY <1>5 DEF Moves, PrepareEnds, PrepareFails, Start, Watch, TurnEnds, Check,
        GiveUpCovered, Write, FinishClaim
  <2> QED
    BY <1>1, <1>2, <1>4, <2>1, <2>2
<1>6. ASSUME NEW p \in Pods, NEW x \in Questions, Ask(p, x) \/ DrainRelease(p, x)
      PROVE  AtWork(o, q, n)'
  <2>1. copies \subseteq copies' /\ tick' = tick
    BY <1>6 DEF Ask, DrainRelease
  <2> QED
    BY <1>1, <1>2, <1>3, <1>4, <2>1
<1>7. ASSUME NEW p \in Pods, Beat(p) \/ Wake(p) \/ Stall(p) \/ DrainDeadline(p)
      PROVE  AtWork(o, q, n)'
  <2>1. copies' = copies /\ tick' = tick
    BY <1>7 DEF Beat, Wake, Stall, DrainDeadline
  <2> QED
    BY <1>1, <1>2, <1>3, <1>4, <2>1
<1>8. ASSUME NEW p \in Pods, TickList(p) PROVE AtWork(o, q, n)'
  <2>1. copies' = copies /\ (o # p => tick'[o] = tick[o]) /\ tick[p].mine = {}
    BY <1>8, QuietTick, ListFields DEF TickStages
  <2> QED
    BY <1>1, <1>2, <1>3, <1>4, <2>1
<1>9. ASSUME NEW p \in Pods, TickJudge(p) PROVE AtWork(o, q, n)'
  <2>1. copies' = copies /\ (o # p => tick'[o] = tick[o]) /\ tick[p].mine = {}
    BY <1>9, QuietTick, JudgeFields DEF TickStages
  <2> QED
    BY <1>1, <1>2, <1>3, <1>4, <2>1
<1>10. ASSUME NEW p \in Pods, TickAdvance(p) PROVE AtWork(o, q, n)'
  <2>1. copies' = copies
    BY <1>10, QuietTick
  <2>2. tick'[o].mine = tick[o].mine /\ tick'[o].rows = tick[o].rows
    BY <1>10, AdvanceFields
  <2> QED
    BY <1>1, <1>2, <1>3, <2>1, <2>2
<1>11. ASSUME NEW p \in Pods, TickTake(p) PROVE AtWork(o, q, n)'
  <2>1. copies \subseteq copies' /\ tick[o].mine \subseteq tick'[o].mine
    BY <1>11, TakeEffect DEF Took
  <2>2. tick'[o].rows = tick[o].rows
    BY <1>11, TakeEffect
  <2> QED
    BY <1>1, <1>2, <1>3, <2>1, <2>2
<1>12. ASSUME NEW p \in Pods, TickRerun(p) PROVE AtWork(o, q, n)'
  <2>1. PICK x \in Questions :
          /\ x \in tick[p].mine /\ tick'[p].mine = tick[p].mine \ {x}
          /\ copies' = copies \cup
                {NewCopy(p, x, tick[p].rows[x].reruns + 1, "preparing", "answer")}
    BY <1>12, RerunEffect
  <2>2. /\ tick'[o].rows = tick[o].rows /\ (o # p => tick'[o].mine = tick[o].mine)
        /\ copies \subseteq copies'
    BY <1>12, <2>1, RerunEffect
  <2>3. CASE o = p /\ q = x /\ Pending
    <3>1. /\ NewCopy(p, x, n, "preparing", "answer") \in copies'
          /\ NewCopy(p, x, n, "preparing", "answer").pod = o
          /\ NewCopy(p, x, n, "preparing", "answer").q = q
          /\ NewCopy(p, x, n, "preparing", "answer").run = n
      BY <2>1, <2>3 DEF NewCopy
    <3> QED
      BY <1>2, <3>1
  <2>4. CASE ~(o = p /\ q = x /\ Pending)
    BY <1>1, <1>2, <1>3, <2>1, <2>2, <2>4
  <2> QED
    BY <2>3, <2>4
<1>13. ASSUME NEW p \in Pods, TickEnds(p) PROVE AtWork(o, q, n)'
  <2>1. copies' = copies /\ (o # p => tick'[o] = tick[o]) /\ tick[p].mine = {}
    BY <1>13 DEF TickEnds, TypeOK, TickTypeOK
  <2> QED
    BY <1>1, <1>2, <1>3, <1>4, <2>1
<1>14. ASSUME NEW p \in Pods,
              Crash(p) \/ DrainExit(p) \/ DrainBegin(p) \/ DrainCancel(p)
       PROVE  AtWork(o, q, n)'
  <2>1. o # p
    BY <1>14 DEF Crash, DrainExit, DrainBegin, DrainCancel, Gone, TypeOK, PodTypeOK
  <2>2. tick'[o] = tick[o]
    BY <1>14, <2>1 DEF Crash, DrainExit, DrainBegin, DrainCancel, Gone, TypeOK, TickTypeOK
  <2>3. \A c \in copies : c.pod = o => c \in copies'
    BY <1>14, <2>1 DEF Crash, DrainExit, DrainBegin, DrainCancel, Gone, On
  <2>4. Copy => Copy'
    BY <2>3
  <2> QED
    BY <1>1, <1>2, <1>4, <2>2, <2>4
<1>15. TimeStep \/ UNCHANGED vars => AtWork(o, q, n)'
  <2>1. TimeStep \/ UNCHANGED vars => copies' = copies /\ tick' = tick
    BY DEF TimeStep, BeatExpires, Age, vars
  <2> QED
    BY <1>1, <1>2, <1>3, <1>4, <2>1
<1> QED
  BY <1>5, <1>6, <1>7, <1>8, <1>9, <1>10, <1>11, <1>12, <1>13, <1>14, <1>15
      DEF Next, TickStep, PodStep

\* What is held after a step was held before with the same count, or has just
\* been asked or taken.
LEMMA HeldFrom ==
    ASSUME TypeOK, Ledger, [Next]_vars, faults = 0, faults' = 0, NEW q \in Questions, Held(q)'
    PROVE  \/ Held(q) /\ row'[q] = row[q]
           \/ \E p \in Pods : Ask(p, q) /\ row'[q] = [NoRow EXCEPT !.owner = p]
           \/ \E p \in Pods : TickTake(p) /\ Took(p, q) /\ row'[q] = Taken(p, row[q])
<1>1. row \in [Questions -> Rows] /\ ~Fault
  BY DEF TypeOK, TableTypeOK, Fault
<1>2. ASSUME row'[q] = row[q] PROVE Held(q) /\ row'[q] = row[q]
  <2>1. row[q].owner \in Pods
    BY <1>1, <1>2 DEF Held, Listed, Rows
  <2> QED
    BY <1>2, <2>1, NeverUpAgain DEF Held, Listed
<1>3. ASSUME NEW p \in Pods, NEW x \in Questions, Ask(p, x)
      PROVE  row'[q] = row[q] \/ (x = q /\ row'[q] = [NoRow EXCEPT !.owner = p])
  BY <1>1, <1>3 DEF Ask
<1>4. ASSUME NEW p \in Pods, NEW x \in Questions, DrainRelease(p, x) PROVE row'[q] = row[q]
  <2>1. row' = [row EXCEPT ![x].released = TRUE]
    BY <1>4 DEF DrainRelease
  <2>2. x = q => row'[q].released
    BY <1>1, <2>1 DEF Rows
  <2> QED
    BY <1>1, <2>1, <2>2 DEF Held
<1>5. ASSUME NEW c \in copies, RowEnds(c) PROVE row'[q] = row[q]
  BY <1>1, <1>5 DEF RowEnds, Held, Listed, NoRow
<1>6. ASSUME NEW p \in Pods, NEW x \in Questions, Took(p, x)
      PROVE  row'[q] = row[q] \/ (x = q /\ row'[q] = Taken(p, row[q]))
  BY <1>1, <1>6 DEF Took
<1> QED
  BY <1>2, <1>3, <1>4, <1>5, <1>6, RowChanges

\* Whoever holds a claim stays at work on it, and whoever takes one sets to it.
LEMMA WorkedStep ==
    ASSUME TypeOK, Ledger, TickStages, HeldIsWorked, [Next]_vars, faults = 0, faults' = 0
    PROVE  HeldIsWorked'
<1> SUFFICES ASSUME NEW q \in Questions, Held(q)'
             PROVE  AtWork(row[q].owner, q, row[q].reruns)'
  BY DEF HeldIsWorked
<1>1. row \in [Questions -> Rows] /\ row' \in [Questions -> Rows] /\ ~Fault
  BY TableTypes DEF TypeOK, TableTypeOK, Fault
<1>2. PICK o \in Pods, n \in Nat : o = row'[q].owner /\ n = row'[q].reruns
  BY <1>1 DEF Held, Listed, Rows
<1> SUFFICES AtWork(o, q, n)'
  BY <1>2 DEF AtWork
<1>3. CASE Held(q) /\ row'[q] = row[q]
  <2>1. AtWork(o, q, n)
    BY <1>2, <1>3 DEF HeldIsWorked
  <2>2. pod'[o] = "up" /\ Listed(row', q) /\ row[q].owner = o /\ ~row[q].released
    BY <1>2, <1>3 DEF Held
  <2> QED
    BY <1>1, <2>1, <2>2, WorkGoesOn
<1>4. ASSUME NEW p \in Pods, Ask(p, q), row'[q] = [NoRow EXCEPT !.owner = p]
      PROVE  AtWork(o, q, n)'
  <2>1. o = p /\ n = 0
    BY <1>2, <1>4 DEF NoRow
  <2>2. NewCopy(p, q, 0, "preparing", "answer") \in copies'
    BY <1>4 DEF Ask
  <2> QED
    BY <2>1, <2>2 DEF AtWork, NewCopy
<1>5. ASSUME NEW p \in Pods, TickTake(p), Took(p, q), row'[q] = Taken(p, row[q])
      PROVE  AtWork(o, q, n)'
  <2>1. o = p /\ n = row[q].reruns + 1
    BY <1>2, <1>5 DEF Taken
  <2>2. tick'[p].rows[q].reruns = row[q].reruns
    BY <1>5, TakeEffect DEF Took
  <2>3. \/ NewCopy(p, q, row[q].reruns + 1, "ending", "lost") \in copies'
        \/ q \in tick'[p].mine
    BY <1>5 DEF Took
  <2> QED
    BY <2>1, <2>2, <2>3 DEF AtWork, NewCopy
<1> QED
  BY <1>3, <1>4, <1>5, HeldFrom

\* When nothing is due and a claim is held, somebody beats: its owner has a copy.
LEMMA HeldMeansBeat ==
    ASSUME TypeOK, TickStages, HeldIsWorked, Calm, NothingDue,
           NEW q \in Questions, Held(q)
    PROVE  beat /\ \E p \in Pods : Running(p) /\ On(p) # {}
<1>1. row[q].owner \in Pods /\ row[q].reruns \in Nat
  BY DEF Held, Listed, TypeOK, TableTypeOK, Rows
<1> DEFINE o == row[q].owner
<1>2. Running(o)
  BY DEF Running, Held, Calm
<1>3. On(o) # {}
  <2>1. CASE \E c \in copies : c.pod = o /\ c.q = q /\ c.run = row[q].reruns
    BY <2>1 DEF On
  <2>2. CASE q \in tick[o].mine
    BY <1>1, <1>2, <2>2 DEF TickStages, NothingDue
  <2> QED
    BY <2>1, <2>2 DEF HeldIsWorked, AtWork
<1> QED
  BY <1>1, <1>2, <1>3 DEF NothingDue

\* What a step does to the marks of time.
LEMMA TimeChanges ==
    ASSUME TypeOK, [Next]_vars
    PROVE  \/ recent \subseteq recent' /\ (beat => beat')
           \/ NothingDue /\ beat' = beat
           \/ NothingDue /\ \A p \in Pods : Running(p) => On(p) = {}
<1>1. ASSUME NEW c \in copies, Moves(c) \/ TurnEnds(c)
      PROVE  recent \subseteq recent' /\ (beat => beat')
  BY <1>1 DEF Moves, PrepareEnds, PrepareFails, Start, Watch, TurnEnds, Check,
      GiveUpCovered, Write, FinishClaim, tableVars
<1>2. ASSUME NEW p \in Pods, Beat(p) \/ TickStep(p) \/ Wake(p)
      PROVE  recent \subseteq recent' /\ (beat => beat')
  <2>1. Beat(p) => recent' = recent /\ ~beat
    BY DEF Beat, tableVars
  <2>2. TickTake(p) => recent \subseteq recent' /\ beat' = beat
    BY DEF TickTake, tableVars
  <2>3. TickStep(p) /\ ~TickTake(p) => recent' = recent /\ beat' = beat
    BY DEF TickStep, TickList, TickJudge, TickAdvance, TickRerun, TickEnds, tableVars
  <2>4. Wake(p) => recent' = recent /\ beat' = beat
    BY DEF Wake, tableVars
  <2> QED
    BY <1>2, <2>1, <2>2, <2>3, <2>4
<1>3. ASSUME NEW p \in Pods, PodStep(p)
      PROVE  recent \subseteq recent' /\ (beat => beat')
  <2>1. (\E q \in Questions : DrainRelease(p, q)) => recent' = recent /\ beat' = beat
    BY DEF DrainRelease
  <2>2. Stall(p) \/ DrainBegin(p) \/ DrainDeadline(p) => recent' = recent /\ beat' = beat
    BY DEF Stall, DrainBegin, DrainDeadline, tableVars
  <2>3. Crash(p) \/ DrainCancel(p) \/ DrainExit(p) => recent' = recent /\ beat' = beat
    BY DEF Crash, DrainCancel, DrainExit, tableVars
  <2> QED
    BY <1>3, <2>1, <2>2, <2>3 DEF PodStep
<1>4. ASSUME NEW p \in Pods, NEW q \in Questions, Ask(p, q)
      PROVE  recent \subseteq recent' /\ (beat => beat')
  BY <1>4 DEF Ask, tableVars
<1>5. TimeStep => \/ NothingDue /\ beat' = beat
                  \/ NothingDue /\ \A p \in Pods : Running(p) => On(p) = {}
  BY DEF TimeStep, BeatExpires, Age
<1>6. UNCHANGED vars => recent' = recent /\ beat' = beat
  BY DEF vars, tableVars
<1> QED
  BY <1>1, <1>2, <1>3, <1>4, <1>5, <1>6 DEF Next

\* The window of a claim that is held passes only under a beat, and a beat does
\* not expire over a claim that is held.
LEMMA BeatenStep ==
    ASSUME TypeOK, Ledger, TickStages, HeldIsWorked, HeldIsBeaten, [Next]_vars, Calm, Calm'
    PROVE  HeldIsBeaten'
<1> SUFFICES ASSUME NEW q \in Questions, Held(q)'
             PROVE  <<q, row'[q].reruns>> \in recent' \/ beat'
  BY DEF HeldIsBeaten
<1>1. faults = 0 /\ faults' = 0 /\ ~Fault
  BY DEF Calm, Fault
<1>2. CASE Held(q) /\ row'[q] = row[q]
  <2>1. <<q, row[q].reruns>> \in recent \/ beat
    BY <1>2 DEF HeldIsBeaten
  <2>2. NothingDue => beat /\ ~\A p \in Pods : Running(p) => On(p) = {}
    BY <1>2, HeldMeansBeat
  <2> QED
    BY <1>2, <2>1, <2>2, TimeChanges
<1>3. ASSUME NEW p \in Pods, Ask(p, q), row'[q] = [NoRow EXCEPT !.owner = p]
      PROVE  <<q, row'[q].reruns>> \in recent'
  <2>1. <<q, 0>> \in recent'
    BY <1>1, <1>3 DEF Ask
  <2> QED
    BY <1>3, <2>1 DEF NoRow
<1>4. ASSUME NEW p \in Pods, TickTake(p), Took(p, q), row'[q] = Taken(p, row[q])
      PROVE  <<q, row'[q].reruns>> \in recent'
  <2>1. PICK x \in Questions :
           \/ /\ row' = [row EXCEPT ![x] = Taken(p, tick[p].rows[x])]
              /\ recent' = recent \cup {<<x, tick[p].rows[x].reruns + 1>>}
           \/ row' = row
    <3>1. tick[p].todo \subseteq Questions
      BY DEF TypeOK, TickTypeOK, Ticks
    <3> QED
      BY <1>4, <3>1 DEF TickTake, First, tableVars
  <2>2. row \in [Questions -> Rows] /\ row[q].reruns \in Nat
    BY DEF TypeOK, TableTypeOK, Rows
  <2>3. row'[q].reruns = row[q].reruns + 1
    BY <1>4 DEF Taken
  <2>4. row'[q] # row[q]
    BY <2>2, <2>3
  <2>5. x = q /\ recent' = recent \cup {<<x, tick[p].rows[x].reruns + 1>>}
    BY <2>1, <2>2, <2>4
  <2>6. tick[p].rows[q].reruns = row[q].reruns
    BY <1>4 DEF Took
  <2> QED
    BY <2>3, <2>5, <2>6
<1> QED
  BY <1>1, <1>2, <1>3, <1>4, HeldFrom

\* A tick's judgement stays good: what it finds as it was is not held.
LEMMA JudgedStep ==
    ASSUME TypeOK, Ledger, ListedBefore, HeldIsBeaten, JudgedIsNotHeld, [Next]_vars,
           faults = 0, faults' = 0
    PROVE  JudgedIsNotHeld'
<1> SUFFICES ASSUME NEW p \in Pods, NEW q \in Questions, q \in tick'[p].todo,
                    row'[q] = tick'[p].rows[q], Held(q)'
             PROVE  FALSE
  BY DEF JudgedIsNotHeld
<1>1. CASE q \in tick[p].todo /\ tick'[p].rows = tick[p].rows
  <2>1. Listed(tick[p].rows, q) /\ q \in asked
    BY <1>1 DEF Ledger
  <2>2. CASE Held(q) /\ row'[q] = row[q]
    BY <1>1, <2>2 DEF JudgedIsNotHeld
  <2>3. ASSUME NEW o \in Pods, Ask(o, q) PROVE FALSE
    BY <2>1, <2>3 DEF Ask
  <2>4. ASSUME NEW o \in Pods, Took(o, q), row'[q] = Taken(o, row[q]) PROVE FALSE
    <3>1. Listed(row, q)
      BY <2>4 DEF Took, Ledger, Listed
    <3>2. tick[p].rows[q].reruns = row[q].reruns + 1
      BY <1>1, <2>4 DEF Taken
    <3>3. row[q].reruns \in Nat
      BY DEF TypeOK, TableTypeOK, Rows
    <3> QED
      BY <2>1, <3>1, <3>2, <3>3 DEF ListedBefore
  <2> QED
    BY <2>2, <2>3, <2>4, HeldFrom
<1>2. ASSUME NEW o \in Pods, TickList(o) PROVE q \in tick[p].todo /\ tick'[p].rows = tick[p].rows
  BY <1>2, ListFields
<1>3. ASSUME NEW o \in Pods, TickTake(o) PROVE q \in tick[p].todo /\ tick'[p].rows = tick[p].rows
  BY <1>3, TakeFields
<1>4. ASSUME NEW o \in Pods, TickAdvance(o)
      PROVE  q \in tick[p].todo /\ tick'[p].rows = tick[p].rows
  BY <1>4, AdvanceFields
<1>5. ASSUME NEW o \in Pods, TickRerun(o) PROVE q \in tick[p].todo /\ tick'[p].rows = tick[p].rows
  BY <1>5, RerunFields
<1>6. ASSUME NEW o \in Pods, TickOver(o) PROVE q \in tick[p].todo /\ tick'[p].rows = tick[p].rows
  BY <1>6, OverFields, IdleHoldsNothing
<1>7. ASSUME NEW o \in Pods, TickJudge(o)
      PROVE  q \in tick[p].todo /\ tick'[p].rows = tick[p].rows
  <2>1. CASE p # o
    BY <1>7, <2>1, JudgeFields
  <2>2. CASE p = o
    <3>1. q \in Candidates(tick[p].rows) /\ tick'[p].rows = tick[p].rows
      BY <1>7, <2>2, JudgeFields, IdleHoldsNothing
    <3>2. row' = row
      BY <1>7, QuietTick
    <3>3. Held(q) /\ row[q] = tick[p].rows[q]
      BY <1>7, <3>1, <3>2 DEF Held, Listed, TickJudge, podVars
    <3>4. Stale(tick[p].rows) /\ q \in Others(tick[p].rows)
      BY <3>1, <3>3 DEF Candidates, Others, Held
    <3>5. <<q, row[q].reruns>> \notin recent /\ ~beat
      BY <3>3, <3>4 DEF Stale
    <3> QED
      BY <3>3, <3>5 DEF HeldIsBeaten
  <2> QED
    BY <2>1, <2>2
<1> QED
  BY <1>1, <1>2, <1>3, <1>4, <1>5, <1>6, <1>7, TickChanges

\* All of it, for a deployment without stalls and faults.
Guarded ==
    /\ Calm /\ TickStages /\ ListedBefore
    /\ HeldIsWorked /\ HeldIsBeaten /\ JudgedIsNotHeld

\* It holds at the start, where nothing is claimed, and every step keeps it.
LEMMA GuardedAlways ==
    ASSUME MaxFaults = 0, MaxStalls = 0
    PROVE  Spec => []Guarded
<1>1. Init => Guarded
  <2> SUFFICES ASSUME Init PROVE Guarded
    OBVIOUS
  <2>1. \A q \in Questions : ~Listed(row, q)
    BY DEF Init, Listed, NoRow
  <2>2. \A p \in Pods : tick[p] = Idle
    BY DEF Init
  <2>3. Calm
    BY DEF Init, Calm
  <2> QED
    BY <2>1, <2>2, <2>3, IdleHoldsNothing DEF Guarded, TickStages, ListedBefore,
        HeldIsWorked, HeldIsBeaten, JudgedIsNotHeld, Held
<1>2. Safe /\ Guarded /\ [Next]_vars => Guarded'
  <2> SUFFICES ASSUME Safe, Guarded, [Next]_vars PROVE Guarded'
    OBVIOUS
  <2>1. TypeOK /\ Ledger
    BY DEF Safe
  <2>2. Calm /\ Calm' /\ faults = 0 /\ faults' = 0
    BY <2>1, StaysCalm DEF Guarded, Calm
  <2> QED
    BY <2>1, <2>2, TickStagesStep, ListedBeforeStep, WorkedStep, BeatenStep, JudgedStep
        DEF Guarded
<1> QED
  BY <1>1, <1>2, SafeAlways, PTL DEF Spec

\* Without stalls and refused writes, no tick takes a claim from a pod that
\* serves, at whatever moment it lists, judges and takes, and however late the
\* owner's first beat: young claims, the beat and the CAS together see to it.
THEOREM LiveOwnerKeepsItsClaimHolds ==
    ASSUME MaxFaults = 0, MaxStalls = 0
    PROVE  Spec => LiveOwnerKeepsItsClaim
<1> DEFINE Keeps == \A q \in Questions :
               (Listed(row, q) /\ row'[q].reruns > row[q].reruns /\ ~row[q].released)
                   => ~Running(row[q].owner) \/ pod[row[q].owner] # "up"
<1>1. Safe /\ Guarded /\ [Next]_vars => [Keeps]_vars
  <2> SUFFICES ASSUME Safe, Guarded, [Next]_vars, NEW q \in Questions, Listed(row, q),
                      row'[q].reruns > row[q].reruns, ~row[q].released
               PROVE  ~Held(q)
    BY DEF Held
  <2>1. /\ TypeOK /\ Ledger /\ JudgedIsNotHeld /\ faults = 0
        /\ row \in [Questions -> Rows] /\ row[q].reruns \in Nat
    BY DEF Safe, Guarded, Calm, TypeOK, TableTypeOK, Rows
  <2>2. ASSUME NEW p \in Pods, NEW x \in Questions, Ask(p, x) PROVE FALSE
    <3>1. x # q
      BY <2>1, <2>2 DEF Ask, Ledger
    <3> QED
      BY <2>1, <2>2, <3>1 DEF Ask, tableVars
  <2>3. ASSUME NEW p \in Pods, NEW x \in Questions, DrainRelease(p, x) PROVE FALSE
    <3>1. row'[q].reruns = row[q].reruns
      BY <2>1, <2>3 DEF DrainRelease, Rows
    <3> QED
      BY <2>1, <3>1
  <2>4. ASSUME NEW c \in copies, RowEnds(c) PROVE FALSE
    <3>1. row'[q] = row[q] \/ row'[q].reruns = 0
      BY <2>1, <2>4 DEF RowEnds, NoRow
    <3> QED
      BY <2>1, <3>1
  <2>5. ASSUME NEW p \in Pods, NEW x \in Questions, Took(p, x) PROVE ~Held(q)
    <3>1. x = q
      BY <2>1, <2>5 DEF Took
    <3> QED
      BY <2>1, <2>5, <3>1 DEF Took, JudgedIsNotHeld
  <2>6. row' # row
    BY <2>1
  <2> QED
    BY <2>1, <2>2, <2>3, <2>4, <2>5, <2>6, RowChanges
<1> QED
  BY <1>1, SafeAlways, GuardedAlways, PTL DEF Spec, LiveOwnerKeepsItsClaim

=============================================================================

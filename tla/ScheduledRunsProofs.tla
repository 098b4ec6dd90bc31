------------------------ MODULE ScheduledRunsProofs ------------------------
(***************************************************************************)
(* Proofs about ScheduledRuns, for any pods and bounds: its types, that a   *)
(* run has one driver, that a window has one run, and that an ended run     *)
(* comes back only by a person's continue.                                  *)
(*                                                                         *)
(* The invariant that carries them says who may be at work on a run that no *)
(* two requests cross for, and what its row says meanwhile: at most one     *)
(* driver, and while there is one, or a sweep is about to start one, or a   *)
(* person's continue or answer is, none of the others.  A heartbeat is old  *)
(* only where there is nobody, which is why a sweep may resume the run; and *)
(* that stays so until the sweep acts, since sweeps come one at a time.     *)
(***************************************************************************)
EXTENDS ScheduledRuns, TLAPS

-----------------------------------------------------------------------------
(* The inductive invariant                                                  *)

\* The rows and the tasks are of runs that were created.
Created ==
  /\ \A r \in Runs : run[r].status = "none" <=> r > made
  /\ \A p \in Pods, r \in Runs : Drivers(p, r) > 0 => r <= made
  /\ \A p \in Pods, r \in Runs :
       /\ \A op \in {"cancel", "decide", "retry"} : <<p, op, r>> \in press => r <= made
       /\ <<p, "retry", r>> \in press => run[r].was \in Over
  /\ row.run # None => row.run \in 1 .. made
  /\ \A p \in Pods : tick[p].pc \in {"judge", "resume", "spawn", "abandon", "record"}
       => tick[p].run \in 1 .. made

\* The scan lease lets one sweep at a time go on.
OneSweep ==
  /\ lease => \A p \in Pods : tick[p].pc = "idle"
  /\ \A p, q \in Pods : tick[p].pc # "idle" /\ tick[q].pc # "idle" => p = q

\* Windows are claimed in the order of the clock, and a run is of a claimed one.
Windows ==
  /\ row.window <= window
  /\ \A r \in 1 .. made : run[r].of <= row.window
  /\ \A p \in Pods :
       /\ tick[p].pc = "claim" => row.window < tick[p].window /\ tick[p].window <= window
       /\ tick[p].pc \in {"start", "create"} =>
            /\ tick[p].window = row.window
            /\ \A r \in 1 .. made : run[r].of < row.window

Asks(p, op, r) == <<p, op, r>> \in press
Spawning(p, r) == tick[p].pc = "spawn" /\ tick[p].run = r

\* No pod has a driver of the run.
Undriven(r) == \A p \in Pods : Drivers(p, r) = 0

OneDrives(r) ==
  \A p, q \in Pods :
    Drivers(p, r) <= 1 /\ (Drivers(p, r) > 0 /\ Drivers(q, r) > 0 => p = q)

\* A continue, or an answer, of the run is alone.
OneAsks(r) ==
  \A p, q \in Pods :
    /\ Asks(p, "retry", r) /\ Asks(q, "retry", r) => p = q
    /\ Asks(p, "decide", r) /\ Asks(q, "decide", r) => p = q

\* What the row of a run says while somebody drives it or is about to.
DriverRow(r) ==
  \A p \in Pods :
    /\ Drivers(p, r) > 0 => run[r].status \in {"pending", "running"}
    /\ task[p][r].running > 0 => run[r].status = "running"
SpawnRow(r) == \A p \in Pods : Spawning(p, r) => Undriven(r) /\ run[r].status = "running"
RetryRow(r) ==
  \A p \in Pods : Asks(p, "retry", r) =>
    Undriven(r) /\ run[r].status \in {"pending", "cancelled"}
DecideRow(r) ==
  \A p \in Pods : Asks(p, "decide", r) => Undriven(r) /\ run[r].status = "awaiting"

\* A run whose heartbeat is old has nobody, and a sweep that found it so is right.
StaleRow(r) == ~run[r].fresh => run[r].status = "running" /\ ~Held(r)
StuckRow(r) ==
  \A p \in Pods : tick[p].pc \in {"resume", "abandon"} /\ tick[p].run = r => IsStuck(r)

Driven(r) ==
  /\ OneDrives(r) /\ OneAsks(r)
  /\ DriverRow(r) /\ SpawnRow(r) /\ RetryRow(r) /\ DecideRow(r)
  /\ StaleRow(r) /\ StuckRow(r)

Driving == \A r \in Runs \ count.crossed : Driven(r)

Inv == TypeOK /\ Created /\ OneSweep /\ Windows /\ Driving

-----------------------------------------------------------------------------
(* Types                                                                    *)

ClockType == window \in Nat /\ lease \in BOOLEAN /\ made \in 0 .. MaxRuns
RowType == row \in [window : Nat, run : Runs \cup {None}, attempts : Nat]
RunType == run \in [Runs -> [status : Active \cup Over \cup {"none"}, fresh : BOOLEAN,
                            of : Nat, was : Over \cup {None}]]
TaskType == task \in [Pods -> [Runs -> [queued : Nat, running : Nat]]]
HeardType == heard \subseteq Pods \X Runs
TickType == tick \in [Pods -> [pc : Steps, run : Runs \cup {None}, attempts : Nat, window : Nat]]
PressType == press \subseteq Pods \X {"cancel", "decide", "retry"} \X Runs
CountType == count \in [faults : Nat, presses : Nat, continued : BOOLEAN, crossed : SUBSET Runs]

\* Every action keeps the types.
LEMMA TypeStep ==
  ASSUME TypeOK, Created, [Next]_vars
  PROVE  TypeOK'
<1>a. ClockType BY DEF TypeOK, ClockType
<1>b. RowType BY DEF TypeOK, RowType
<1>c. RunType BY DEF TypeOK, RunType
<1>d. TaskType BY DEF TypeOK, TaskType
<1>e. HeardType BY DEF TypeOK, HeardType
<1>f. TickType BY DEF TypeOK, TickType
<1>g. PressType BY DEF TypeOK, PressType
<1>h. CountType BY DEF TypeOK, CountType
<1>i. None \notin Runs /\ MaxRuns \in Nat
  BY BoundsAssumption DEF Runs
<1>j. \A p \in Pods : tick[p].pc \in {"judge", "resume", "spawn", "abandon", "record"} => tick[p].run \in Runs
  BY <1>i, <1>a DEF Created, Runs, ClockType
<1>1. CASE NextWindow
  <2>1. RowType' /\ RunType' /\ TaskType' /\ HeardType' /\ TickType' /\ PressType' /\ CountType'
    BY <1>1, <1>b, <1>c, <1>d, <1>e, <1>f, <1>g, <1>h DEF NextWindow, RowType, RunType,
       TaskType, HeardType, TickType, PressType, CountType
  <2>2. ClockType'
    BY <1>1, <1>a DEF NextWindow, ClockType
  <2> QED
    BY <2>1, <2>2 DEF TypeOK, ClockType, RowType, RunType, TaskType, HeardType,
       TickType, PressType, CountType
<1>2. CASE NextScan
  <2>1. RowType' /\ RunType' /\ TaskType' /\ HeardType' /\ TickType' /\ PressType' /\ CountType'
    BY <1>2, <1>b, <1>c, <1>d, <1>e, <1>f, <1>g, <1>h DEF NextScan, RowType, RunType,
       TaskType, HeardType, TickType, PressType, CountType
  <2>2. ClockType'
    BY <1>2, <1>a DEF NextScan, ClockType
  <2> QED
    BY <2>1, <2>2 DEF TypeOK, ClockType, RowType, RunType, TaskType, HeardType,
       TickType, PressType, CountType
<1>3. ASSUME NEW r \in Runs, Age(r) PROVE TypeOK'
  <2>1. ClockType' /\ RowType' /\ TaskType' /\ HeardType' /\ TickType' /\ PressType' /\ CountType'
    BY <1>3, <1>a, <1>b, <1>d, <1>e, <1>f, <1>g, <1>h DEF Age, ClockType, RowType,
       TaskType, HeardType, TickType, PressType, CountType
  <2>2. RunType'
    BY <1>3, <1>c DEF Age, RunType, Active, Over
  <2> QED
    BY <2>1, <2>2 DEF TypeOK, ClockType, RowType, RunType, TaskType, HeardType,
       TickType, PressType, CountType
<1>4. ASSUME NEW p \in Pods, Crash(p) PROVE TypeOK'
  <2>1. ClockType' /\ RowType' /\ RunType'
    BY <1>4, <1>a, <1>b, <1>c DEF Crash, ClockType, RowType, RunType
  <2>2. TaskType'
    BY <1>4, <1>d DEF Crash, Fault, Rests, Idle, NoTask, TaskType
  <2>3. HeardType'
    BY <1>4, <1>e DEF Crash, Fault, Rests, Idle, NoTask, HeardType
  <2>4. TickType'
    BY <1>4, <1>f DEF Crash, Fault, Rests, Idle, NoTask, TickType, Steps
  <2>5. PressType'
    BY <1>4, <1>g DEF Crash, Fault, Rests, Idle, NoTask, PressType
  <2>6. CountType'
    BY <1>4, <1>h DEF Crash, Fault, Rests, Idle, NoTask, CountType
  <2> QED
    BY <2>1, <2>2, <2>3, <2>4, <2>5, <2>6 DEF TypeOK, ClockType, RowType, RunType,
       TaskType, HeardType, TickType, PressType, CountType
<1>5. ASSUME NEW p \in Pods, TickBegin(p) PROVE TypeOK'
  <2>1. RowType' /\ RunType' /\ TaskType' /\ HeardType' /\ PressType' /\ CountType'
    BY <1>5, <1>b, <1>c, <1>d, <1>e, <1>g, <1>h DEF TickBegin, RowType, RunType,
       TaskType, HeardType, PressType, CountType
  <2>2. ClockType'
    BY <1>5, <1>a DEF TickBegin, Idle, ClockType
  <2>3. TickType'
    BY <1>5, <1>f, <1>b DEF TickBegin, Idle, TickType, Steps, RowType
  <2> QED
    BY <2>1, <2>2, <2>3 DEF TypeOK, ClockType, RowType, RunType, TaskType, HeardType,
       TickType, PressType, CountType
<1>6. ASSUME NEW p \in Pods, TickJudge(p) PROVE TypeOK'
  <2>1. ClockType' /\ RowType' /\ RunType' /\ TaskType' /\ HeardType' /\ PressType' /\ CountType'
    BY <1>6, <1>a, <1>b, <1>c, <1>d, <1>e, <1>g, <1>h DEF TickJudge, ClockType, RowType,
       RunType, TaskType, HeardType, PressType, CountType
  <2>2. TickType'
    BY <1>6, <1>f DEF TickJudge, Goes, Rests, Idle, TickType, Steps
  <2> QED
    BY <2>1, <2>2 DEF TypeOK, ClockType, RowType, RunType, TaskType, HeardType,
       TickType, PressType, CountType
<1>7. ASSUME NEW p \in Pods, TickResume(p) PROVE TypeOK'
  <2>1. ClockType' /\ RowType' /\ TaskType' /\ HeardType' /\ PressType' /\ CountType'
    BY <1>7, <1>a, <1>b, <1>d, <1>e, <1>g, <1>h DEF TickResume, ClockType, RowType,
       TaskType, HeardType, PressType, CountType
  <2>2. RunType'
    <3>1. tick[p].run \in Runs
      BY <1>7, <1>j DEF TickResume
    <3>2. CASE run' = [run EXCEPT ![tick[p].run].fresh = TRUE]
      BY <3>1, <3>2, <1>c DEF RunType
    <3>3. CASE UNCHANGED run
      BY <3>3, <1>c DEF RunType
    <3> QED
      BY <3>2, <3>3, <1>7 DEF TickResume
  <2>3. TickType'
    BY <1>7, <1>f DEF TickResume, Goes, Rests, Idle, TickType, Steps
  <2> QED
    BY <2>1, <2>2, <2>3 DEF TypeOK, ClockType, RowType, RunType, TaskType, HeardType,
       TickType, PressType, CountType
<1>8. ASSUME NEW p \in Pods, TickSpawn(p) PROVE TypeOK'
  <2>1. ClockType' /\ RowType' /\ RunType' /\ HeardType' /\ PressType' /\ CountType'
    BY <1>8, <1>a, <1>b, <1>c, <1>e, <1>g, <1>h DEF TickSpawn, ClockType, RowType,
       RunType, HeardType, PressType, CountType
  <2>2. TaskType'
    <3>1. task' = [task EXCEPT ![p][tick[p].run].queued = @ + 1] /\ tick[p].run \in Runs
      BY <1>8, <1>j DEF TickSpawn, Spawn
    <3> QED
      BY <3>1, <1>d DEF TaskType
  <2>3. TickType'
    BY <1>8, <1>f DEF TickSpawn, Goes, Spawn, TickType, Steps
  <2> QED
    BY <2>1, <2>2, <2>3 DEF TypeOK, ClockType, RowType, RunType, TaskType, HeardType,
       TickType, PressType, CountType
<1>9. ASSUME NEW p \in Pods, TickAbandon(p) PROVE TypeOK'
  <2>1. ClockType' /\ RowType' /\ PressType' /\ CountType'
    BY <1>9, <1>a, <1>b, <1>g, <1>h DEF TickAbandon, ClockType, RowType, PressType,
       CountType
  <2>2. RunType'
    BY <1>9, <1>c, <1>i, <1>j DEF TickAbandon, Goes, NoTask, RunType, Active, Over
  <2>3. TaskType'
    <3>1. tick[p].run \in Runs
      BY <1>9, <1>j DEF TickAbandon
    <3>2. CASE task' = [task EXCEPT ![p][tick[p].run] = NoTask]
      BY <3>1, <3>2, <1>d DEF TaskType, NoTask
    <3>3. CASE UNCHANGED task
      BY <3>3, <1>d DEF TaskType
    <3> QED
      BY <3>2, <3>3, <1>9 DEF TickAbandon
  <2>4. HeardType'
    BY <1>9, <1>e DEF TickAbandon, Goes, NoTask, HeardType
  <2>5. TickType'
    BY <1>9, <1>f DEF TickAbandon, Goes, NoTask, TickType, Steps
  <2> QED
    BY <2>1, <2>2, <2>3, <2>4, <2>5 DEF TypeOK, ClockType, RowType, RunType, TaskType,
       HeardType, TickType, PressType, CountType
<1>10. ASSUME NEW p \in Pods, TickWrites(p) PROVE TypeOK'
  <2>1. ClockType' /\ RunType' /\ TaskType' /\ HeardType' /\ PressType' /\ CountType'
    BY <1>10, <1>a, <1>c, <1>d, <1>e, <1>g, <1>h DEF TickWrites, ClockType, RunType,
       TaskType, HeardType, PressType, CountType
  <2>2. RowType'
    <3>1. CASE row' = [row EXCEPT !.attempts = @ + 1]
      BY <3>1, <1>b DEF RowType
    <3>2. CASE row' = [row EXCEPT !.run = None]
      BY <3>2, <1>b DEF RowType
    <3>3. CASE tick[p].run \in Runs /\ row' = [row EXCEPT !.run = tick[p].run, !.attempts = 1]
      BY <3>3, <1>b DEF RowType
    <3> QED
      BY <3>1, <3>2, <3>3, <1>10, <1>j DEF TickWrites
  <2>3. TickType'
    BY <1>10, <1>f DEF TickWrites, Idle, TickType, Steps
  <2> QED
    BY <2>1, <2>2, <2>3 DEF TypeOK, ClockType, RowType, RunType, TaskType, HeardType,
       TickType, PressType, CountType
<1>11. ASSUME NEW p \in Pods, TickDue(p) PROVE TypeOK'
  <2>1. ClockType' /\ RowType' /\ RunType' /\ TaskType' /\ HeardType' /\ PressType' /\ CountType'
    BY <1>11, <1>a, <1>b, <1>c, <1>d, <1>e, <1>g, <1>h DEF TickDue, ClockType, RowType,
       RunType, TaskType, HeardType, PressType, CountType
  <2>2. TickType'
    BY <1>11, <1>f, <1>a DEF TickDue, Rests, Idle, TickType, Steps, ClockType
  <2> QED
    BY <2>1, <2>2 DEF TypeOK, ClockType, RowType, RunType, TaskType, HeardType,
       TickType, PressType, CountType
<1>12. ASSUME NEW p \in Pods, TickClaim(p) PROVE TypeOK'
  <2>1. ClockType' /\ RunType' /\ TaskType' /\ HeardType' /\ PressType' /\ CountType'
    BY <1>12, <1>a, <1>c, <1>d, <1>e, <1>g, <1>h DEF TickClaim, ClockType, RunType,
       TaskType, HeardType, PressType, CountType
  <2>2. RowType'
    BY <1>12, <1>b, <1>f DEF TickClaim, Rests, Idle, Goes, Claimed, RowType, TickType
  <2>3. TickType'
    BY <1>12, <1>f DEF TickClaim, Rests, Idle, Goes, Claimed, TickType, Steps
  <2> QED
    BY <2>1, <2>2, <2>3 DEF TypeOK, ClockType, RowType, RunType, TaskType, HeardType,
       TickType, PressType, CountType
<1>13. ASSUME NEW p \in Pods, TickStart(p) PROVE TypeOK'
  <2>1. ClockType' /\ RowType' /\ RunType' /\ TaskType' /\ HeardType' /\ PressType' /\ CountType'
    BY <1>13, <1>a, <1>b, <1>c, <1>d, <1>e, <1>g, <1>h DEF TickStart, ClockType,
       RowType, RunType, TaskType, HeardType, PressType, CountType
  <2>2. TickType'
    BY <1>13, <1>f DEF TickStart, Goes, Rests, Idle, TickType, Steps
  <2> QED
    BY <2>1, <2>2 DEF TypeOK, ClockType, RowType, RunType, TaskType, HeardType,
       TickType, PressType, CountType
<1>14. ASSUME NEW p \in Pods, TickFails(p) PROVE TypeOK'
  <2>1. ClockType' /\ RowType' /\ RunType' /\ TaskType' /\ HeardType' /\ PressType'
    BY <1>14, <1>a, <1>b, <1>c, <1>d, <1>e, <1>g DEF TickFails, ClockType, RowType,
       RunType, TaskType, HeardType, PressType
  <2>2. TickType'
    BY <1>14, <1>f DEF TickFails, Fault, Rests, Idle, TickType, Steps
  <2>3. CountType'
    BY <1>14, <1>h DEF TickFails, Fault, Rests, Idle, CountType
  <2> QED
    BY <2>1, <2>2, <2>3 DEF TypeOK, ClockType, RowType, RunType, TaskType, HeardType,
       TickType, PressType, CountType
<1>15. ASSUME NEW p \in Pods, TickCreate(p) PROVE TypeOK'
  <2>1. RowType' /\ HeardType' /\ PressType' /\ CountType'
    BY <1>15, <1>b, <1>e, <1>g, <1>h DEF TickCreate, RowType, HeardType, PressType,
       CountType
  <2>2. ClockType'
    BY <1>15, <1>a, <1>i DEF TickCreate, Spawn, NoRun, ClockType, Runs
  <2>3. RunType'
    BY <1>15, <1>c, <1>a, <1>f, <1>i DEF TickCreate, Spawn, NoRun, RunType, Active,
       Over, ClockType, TickType, Runs
  <2>4. TaskType'
    <3>1. task' = [task EXCEPT ![p][made + 1].queued = @ + 1] /\ made + 1 \in Runs
      BY <1>15, <1>a, <1>i DEF TickCreate, Spawn, ClockType, Runs
    <3> QED
      BY <3>1, <1>d DEF TaskType
  <2>5. TickType'
    <3>1. /\ tick' = [tick EXCEPT ![p].pc = "record", ![p].run = made + 1]
          /\ made + 1 \in Runs
      BY <1>15, <1>a, <1>i DEF TickCreate, ClockType, Runs
    <3> QED
      BY <3>1, <1>f DEF TickType, Steps
  <2> QED
    BY <2>1, <2>2, <2>3, <2>4, <2>5 DEF TypeOK, ClockType, RowType, RunType, TaskType,
       HeardType, TickType, PressType, CountType
<1>16. ASSUME NEW p \in Pods, NEW r \in Runs, DriverStarts(p, r) PROVE TypeOK'
  <2>1. ClockType' /\ RowType' /\ HeardType' /\ TickType' /\ PressType' /\ CountType'
    BY <1>16, <1>a, <1>b, <1>e, <1>f, <1>g, <1>h DEF DriverStarts, ClockType, RowType,
       HeardType, TickType, PressType, CountType
  <2>2. RunType'
    BY <1>16, <1>c DEF DriverStarts, RunType, Active, Over
  <2>3. TaskType'
    BY <1>16, <1>d DEF DriverStarts, TaskType
  <2> QED
    BY <2>1, <2>2, <2>3 DEF TypeOK, ClockType, RowType, RunType, TaskType, HeardType,
       TickType, PressType, CountType
<1>17. ASSUME NEW p \in Pods, NEW r \in Runs, DriverSettles(p, r) PROVE TypeOK'
  <2>1. ClockType' /\ RowType' /\ TickType' /\ PressType' /\ CountType'
    BY <1>17, <1>a, <1>b, <1>f, <1>g, <1>h DEF DriverSettles, DriverEnds, ClockType,
       RowType, TickType, PressType, CountType
  <2>2. RunType'
    BY <1>17, <1>c DEF DriverSettles, DriverEnds, RunType, Active, Over
  <2>3. TaskType'
    <3>1. task' = [task EXCEPT ![p][r].running = @ - 1] /\ task[p][r].running > 0
      BY <1>17 DEF DriverSettles, DriverEnds
    <3> QED
      BY <3>1, <1>d DEF TaskType
  <2>4. HeardType'
    BY <1>17, <1>e DEF DriverSettles, DriverEnds, HeardType
  <2> QED
    BY <2>1, <2>2, <2>3, <2>4 DEF TypeOK, ClockType, RowType, RunType, TaskType,
       HeardType, TickType, PressType, CountType
<1>18. ASSUME NEW p \in Pods, NEW r \in Runs, Cancel(p, r) PROVE TypeOK'
  <2>1. ClockType' /\ RowType' /\ RunType' /\ TaskType' /\ TickType'
    BY <1>18, <1>a, <1>b, <1>c, <1>d, <1>f DEF Cancel, Press, ClockType, RowType,
       RunType, TaskType, TickType
  <2>2. HeardType'
    BY <1>18, <1>e DEF Cancel, Press, HeardType
  <2>3. PressType'
    BY <1>18, <1>g DEF Cancel, Press, PressType
  <2>4. CountType'
    <3>1. PICK b \in BOOLEAN, c \in SUBSET Runs :
            count' = [count EXCEPT !.presses = @ + 1, !.continued = b, !.crossed = c]
      BY <1>18, <1>h DEF Cancel, Press, CountType
    <3>2. count' = [faults |-> count.faults, presses |-> count.presses + 1, continued |-> b, crossed |-> c]
      BY <3>1, <1>h DEF CountType
    <3> QED
      BY <3>2, <1>h DEF CountType
  <2> QED
    BY <2>1, <2>2, <2>3, <2>4 DEF TypeOK, ClockType, RowType, RunType, TaskType,
       HeardType, TickType, PressType, CountType
<1>19. ASSUME NEW p \in Pods, NEW r \in Runs, CancelLands(p, r) PROVE TypeOK'
  <2>1. ClockType' /\ RowType' /\ TickType' /\ CountType'
    BY <1>19, <1>a, <1>b, <1>f, <1>h DEF CancelLands, ClockType, RowType, TickType,
       CountType
  <2>2. RunType'
    BY <1>19, <1>c DEF CancelLands, NoTask, RunType, Active, Over
  <2>3. TaskType'
    <3>1. CASE task' = [task EXCEPT ![p][r] = NoTask]
      BY <3>1, <1>d DEF TaskType, NoTask
    <3>2. CASE UNCHANGED task
      BY <3>2, <1>d DEF TaskType
    <3> QED
      BY <3>1, <3>2, <1>19 DEF CancelLands
  <2>4. HeardType'
    BY <1>19, <1>e DEF CancelLands, NoTask, HeardType
  <2>5. PressType'
    BY <1>19, <1>g DEF CancelLands, NoTask, PressType
  <2> QED
    BY <2>1, <2>2, <2>3, <2>4, <2>5 DEF TypeOK, ClockType, RowType, RunType, TaskType,
       HeardType, TickType, PressType, CountType
<1>20. ASSUME NEW p \in Pods, NEW r \in Runs, Decide(p, r) PROVE TypeOK'
  <2>1. ClockType' /\ RowType' /\ RunType' /\ TaskType' /\ HeardType' /\ TickType'
    BY <1>20, <1>a, <1>b, <1>c, <1>d, <1>e, <1>f DEF Decide, Press, ClockType, RowType,
       RunType, TaskType, HeardType, TickType
  <2>2. PressType'
    BY <1>20, <1>g DEF Decide, Press, PressType
  <2>3. CountType'
    <3>1. PICK b \in BOOLEAN, c \in SUBSET Runs :
            count' = [count EXCEPT !.presses = @ + 1, !.continued = b, !.crossed = c]
      BY <1>20, <1>h DEF Decide, Press, CountType
    <3>2. count' = [faults |-> count.faults, presses |-> count.presses + 1, continued |-> b, crossed |-> c]
      BY <3>1, <1>h DEF CountType
    <3> QED
      BY <3>2, <1>h DEF CountType
  <2> QED
    BY <2>1, <2>2, <2>3 DEF TypeOK, ClockType, RowType, RunType, TaskType, HeardType,
       TickType, PressType, CountType
<1>21. ASSUME NEW p \in Pods, NEW r \in Runs, DecideLands(p, r) PROVE TypeOK'
  <2>1. ClockType' /\ RowType' /\ HeardType' /\ TickType' /\ CountType'
    BY <1>21, <1>a, <1>b, <1>e, <1>f, <1>h DEF DecideLands, ClockType, RowType,
       HeardType, TickType, CountType
  <2>2. RunType'
    BY <1>21, <1>c DEF DecideLands, Spawn, RunType, Active, Over
  <2>3. TaskType'
    <3>1. CASE task' = [task EXCEPT ![p][r].queued = @ + 1]
      BY <3>1, <1>d DEF TaskType
    <3>2. CASE UNCHANGED task
      BY <3>2, <1>d DEF TaskType
    <3> QED
      BY <3>1, <3>2, <1>21 DEF DecideLands, Spawn
  <2>4. PressType'
    BY <1>21, <1>g DEF DecideLands, Spawn, PressType
  <2> QED
    BY <2>1, <2>2, <2>3, <2>4 DEF TypeOK, ClockType, RowType, RunType, TaskType,
       HeardType, TickType, PressType, CountType
<1>22. ASSUME NEW p \in Pods, NEW r \in Runs, Retry(p, r) PROVE TypeOK'
  <2>1. ClockType' /\ RowType' /\ TaskType' /\ HeardType' /\ TickType'
    BY <1>22, <1>a, <1>b, <1>d, <1>e, <1>f DEF Retry, Press, ClockType, RowType,
       TaskType, HeardType, TickType
  <2>2. RunType'
    <3>1. /\ run' = [run EXCEPT ![r].status = "pending", ![r].was = run[r].status]
          /\ run[r].status \in Over
      BY <1>22 DEF Retry, Retryable, Over
    <3> QED
      BY <3>1, <1>c DEF RunType, Active
  <2>3. PressType'
    BY <1>22, <1>g DEF Retry, Press, Retryable, PressType
  <2>4. CountType'
    <3>1. PICK b \in BOOLEAN, c \in SUBSET Runs :
            count' = [count EXCEPT !.presses = @ + 1, !.continued = b, !.crossed = c]
      BY <1>22, <1>h DEF Retry, Press, CountType
    <3>2. count' = [faults |-> count.faults, presses |-> count.presses + 1, continued |-> b, crossed |-> c]
      BY <3>1, <1>h DEF CountType
    <3> QED
      BY <3>2, <1>h DEF CountType
  <2> QED
    BY <2>1, <2>2, <2>3, <2>4 DEF TypeOK, ClockType, RowType, RunType, TaskType,
       HeardType, TickType, PressType, CountType
<1>23. ASSUME NEW p \in Pods, NEW r \in Runs, RetryLands(p, r) PROVE TypeOK'
  <2>1. ClockType' /\ RowType' /\ HeardType' /\ TickType' /\ CountType'
    BY <1>23, <1>a, <1>b, <1>e, <1>f, <1>h DEF RetryLands, ClockType, RowType,
       HeardType, TickType, CountType
  <2>2. RunType'
    BY <1>23, <1>c DEF RetryLands, Spawn, Proceeds, RunType, Active, Over
  <2>3. TaskType'
    <3>1. CASE task' = [task EXCEPT ![p][r].queued = @ + 1]
      BY <3>1, <1>d DEF TaskType
    <3>2. CASE UNCHANGED task
      BY <3>2, <1>d DEF TaskType
    <3> QED
      BY <3>1, <3>2, <1>23 DEF RetryLands, Spawn
  <2>4. PressType'
    BY <1>23, <1>g DEF RetryLands, Spawn, Proceeds, PressType
  <2> QED
    BY <2>1, <2>2, <2>3, <2>4 DEF TypeOK, ClockType, RowType, RunType, TaskType,
       HeardType, TickType, PressType, CountType
<1>24. ASSUME NEW p \in Pods, NEW r \in Runs, NEW op \in {"decide", "retry"}, Refused(p, r, op) PROVE TypeOK'
  <2>1. ClockType' /\ RowType' /\ TaskType' /\ HeardType' /\ TickType'
    BY <1>24, <1>a, <1>b, <1>d, <1>e, <1>f DEF Refused, ClockType, RowType, TaskType,
       HeardType, TickType
  <2>2. RunType'
    <3>1. PICK x \in {run[r].status, run[r].was} :
            run' = [run EXCEPT ![r].status = x] /\ x \in Active \cup Over \cup {"none"}
      BY <1>24, <1>c DEF Refused, RunType, Created
    <3> QED
      BY <3>1, <1>c DEF RunType
  <2>3. PressType'
    BY <1>24, <1>g DEF Refused, Fault, Proceeds, PressType
  <2>4. CountType'
    BY <1>24, <1>h DEF Refused, Fault, Proceeds, CountType
  <2> QED
    BY <2>1, <2>2, <2>3, <2>4 DEF TypeOK, ClockType, RowType, RunType, TaskType,
       HeardType, TickType, PressType, CountType
<1>25. CASE UNCHANGED vars
  BY <1>25 DEF vars, TypeOK
<1>26. QED
  BY <1>1, <1>2, <1>3, <1>4, <1>5, <1>6, <1>7, <1>8, <1>9, <1>10, <1>11, <1>12, <1>13,
     <1>14, <1>15, <1>16, <1>17, <1>18, <1>19, <1>20, <1>21, <1>22, <1>23, <1>24, <1>25
     DEF Next, Tick, Lands

-----------------------------------------------------------------------------
(* What the invariant says of a run that nobody holds                       *)

\* Counters of tasks are numbers, and an undriven run has none.
LEMMA TaskCounts ==
  ASSUME TypeOK
  PROVE  \A p \in Pods, r \in Runs : task[p][r].queued \in Nat /\ task[p][r].running \in Nat
BY DEF TypeOK

\* A run that nobody holds.
LEMMA NobodyHolds ==
  ASSUME TypeOK, NEW r \in Runs, ~Held(r)
  PROVE  \A p \in Pods :
           /\ task[p][r].queued = 0 /\ task[p][r].running = 0
           /\ ~Asks(p, "retry", r) /\ ~Asks(p, "decide", r) /\ ~Spawning(p, r)
<1>1. \A p \in Pods : ~(Drivers(p, r) > 0) /\ ~Spawning(p, r)
  BY DEF Held, Spawning
<1>2. \A p \in Pods : ~Asks(p, "retry", r) /\ ~Asks(p, "decide", r)
  BY DEF Held, Asks
<1>3. ASSUME NEW p \in Pods PROVE task[p][r].queued = 0 /\ task[p][r].running = 0
  <2>1. task[p][r].queued \in Nat /\ task[p][r].running \in Nat
    BY TaskCounts
  <2> QED
    BY <1>1, <2>1 DEF Drivers
<1> QED
  BY <1>1, <1>2, <1>3

\* A run without a driver has no task of either kind.
LEMMA NoDriver ==
  ASSUME TypeOK, NEW r \in Runs, \A p \in Pods : ~(Drivers(p, r) > 0)
  PROVE  \A p \in Pods : task[p][r].queued = 0 /\ task[p][r].running = 0
<1> SUFFICES ASSUME NEW p \in Pods PROVE task[p][r].queued = 0 /\ task[p][r].running = 0
  OBVIOUS
<1>1. task[p][r].queued \in Nat /\ task[p][r].running \in Nat
  BY TaskCounts
<1> QED
  BY <1>1 DEF Drivers

\* The runs created have a row.
LEMMA MadeRuns ==
  ASSUME TypeOK
  PROVE  \A r \in 1 .. made : r \in Runs
BY BoundsAssumption DEF TypeOK, Runs

\* A run with a row has been created, and so has one that is driven.
LEMMA Existing ==
  ASSUME TypeOK, Created, NEW r \in Runs, 
         \/ run[r].status # "none"
         \/ \E p \in Pods : Drivers(p, r) > 0
         \/ \E p \in Pods, op \in {"cancel", "decide", "retry"} : Asks(p, op, r)
  PROVE  r <= made /\ ~(r > made) /\ run[r].status # "none"
<1>1. made \in Int /\ r \in Int
  BY BoundsAssumption DEF TypeOK, Runs
<1>2. r <= made <=> ~(r > made)
  BY <1>1
<1> QED
  BY <1>2 DEF Created, Asks

\* A step that leaves the row of a run alone, and that starts no task, request or
\* resume of it, keeps what is known of the run.
LEMMA LessWork ==
  ASSUME TypeOK, TypeOK', NEW s \in Runs, Driven(s),
         run'[s].status = run[s].status, run'[s].fresh = run[s].fresh,
         \A q \in Pods : \/ task'[q][s] = task[q][s]
                         \/ task'[q][s].queued = 0 /\ task'[q][s].running = 0,
         \A q \in Pods : /\ Asks(q, "retry", s)' => Asks(q, "retry", s)
                         /\ Asks(q, "decide", s)' => Asks(q, "decide", s),
         \A q \in Pods : tick'[q].pc \in {"spawn", "resume", "abandon"} /\ tick'[q].run = s
                           => tick[q].pc = tick'[q].pc /\ tick[q].run = s
  PROVE  Driven(s)'
<1>1. \A q \in Pods : /\ task[q][s].queued \in Nat /\ task[q][s].running \in Nat
                      /\ task'[q][s].queued \in Nat /\ task'[q][s].running \in Nat
  BY DEF TypeOK
<1>2. Undriven(s) => Undriven(s)'
  BY <1>1 DEF Undriven, Drivers
<1>3. Held(s)' => Held(s)
  BY <1>1 DEF Held, Drivers, Asks
<1>4. OneDrives(s)' /\ OneAsks(s)'
  BY <1>1 DEF Driven, OneDrives, OneAsks, Drivers
<1>5. DriverRow(s)'
  BY <1>1 DEF Driven, DriverRow, Drivers
<1>6. SpawnRow(s)' /\ RetryRow(s)' /\ DecideRow(s)'
  BY <1>2 DEF Driven, SpawnRow, RetryRow, DecideRow, Spawning
<1>7. StaleRow(s)' /\ StuckRow(s)'
  BY <1>3 DEF Driven, StaleRow, StuckRow, IsStuck
<1> QED
  BY <1>4, <1>5, <1>6, <1>7 DEF Driven

-----------------------------------------------------------------------------
(* One lemma per action: it keeps the invariant                             *)

\* The clock moves on: a claimed window stays in the past.
LEMMA NextWindowKeeps ==
  ASSUME Inv, NextWindow
  PROVE  Inv'
<1>1. TypeOK /\ TypeOK' /\ Created /\ OneSweep /\ Windows /\ Driving
  BY TypeStep DEF Inv, Next
<1>2. window' = window + 1 /\ window \in Nat /\ row.window \in Nat /\ \A q \in Pods : tick[q].window \in Nat
  BY <1>1 DEF NextWindow, TypeOK
<1>3. UNCHANGED <<lease, row, made, run, task, heard, tick, press, count>>
  BY DEF NextWindow
<1>4. Created'
  BY <1>1, <1>2, <1>3 DEF Created, Drivers
<1>5. OneSweep'
  BY <1>1, <1>2, <1>3 DEF OneSweep
<1>6. Windows'
  BY <1>1, <1>2, <1>3, MadeRuns DEF Windows
<1>7. Driving'
  <2> SUFFICES ASSUME NEW s \in Runs, s \notin count.crossed, s \notin count'.crossed
               PROVE  Driven(s)'
    BY <1>1, <1>2, <1>3 DEF Driving
  <2>1. Driven(s)
    BY <1>1 DEF Driving
  <2> QED
    BY <1>1, <1>2, <1>3, <2>1, LessWork DEF Asks
<1> QED
  BY <1>1, <1>4, <1>5, <1>6, <1>7 DEF Inv

\* The lease is free again only once every sweep has ended.
LEMMA NextScanKeeps ==
  ASSUME Inv, NextScan
  PROVE  Inv'
<1>1. TypeOK /\ TypeOK' /\ Created /\ OneSweep /\ Windows /\ Driving
  BY TypeStep DEF Inv, Next
<1>2. \A q \in Pods : tick[q].pc = "idle"
  BY <1>1 DEF NextScan, Idle
<1>3. UNCHANGED <<window, row, made, run, task, heard, tick, press, count>>
  BY DEF NextScan
<1>4. Created'
  BY <1>1, <1>2, <1>3 DEF Created, Drivers
<1>5. OneSweep'
  BY <1>1, <1>2, <1>3 DEF OneSweep
<1>6. Windows'
  BY <1>1, <1>2, <1>3, MadeRuns DEF Windows
<1>7. Driving'
  <2> SUFFICES ASSUME NEW s \in Runs, s \notin count.crossed, s \notin count'.crossed
               PROVE  Driven(s)'
    BY <1>1, <1>2, <1>3 DEF Driving
  <2>1. Driven(s)
    BY <1>1 DEF Driving
  <2> QED
    BY <1>1, <1>2, <1>3, <2>1, LessWork DEF Asks
<1> QED
  BY <1>1, <1>4, <1>5, <1>6, <1>7 DEF Inv

\* A heartbeat grows old only where nobody holds the run.
LEMMA AgeKeeps ==
  ASSUME Inv, NEW r \in Runs, Age(r)
  PROVE  Inv'
<1>1. TypeOK /\ TypeOK' /\ Created /\ OneSweep /\ Windows /\ Driving
  BY TypeStep DEF Inv, Next
<1>2. /\ run'[r].status = run[r].status /\ run'[r].of = run[r].of /\ run'[r].was = run[r].was
      /\ run[r].status = "running" /\ ~run'[r].fresh /\ ~Held(r)
      /\ \A s \in Runs \ {r} : run'[s] = run[s]
  BY <1>1 DEF Age, TypeOK
<1>3. UNCHANGED <<window, lease, row, made, task, heard, tick, press, count>>
  BY DEF Age
<1>4. Created'
  BY <1>1, <1>2, <1>3 DEF Created, Drivers
<1>5. OneSweep'
  BY <1>1, <1>2, <1>3 DEF OneSweep
<1>6. Windows'
  BY <1>1, <1>2, <1>3, MadeRuns DEF Windows
<1>7. Driving'
  <2> SUFFICES ASSUME NEW s \in Runs, s \notin count.crossed, s \notin count'.crossed
               PROVE  Driven(s)'
    BY <1>1, <1>2, <1>3 DEF Driving
  <2>1. Driven(s)
    BY <1>1 DEF Driving
  <2>2. CASE s # r
    BY <1>1, <1>2, <1>3, <2>1, <2>2, LessWork DEF Asks
  <2>3. CASE s = r
    <3>0. \A q \in Pods : tick[q].pc \in {"resume", "abandon"} => tick[q].run # s
      BY <1>2, <2>1, <2>3 DEF Driven, StuckRow, IsStuck, Age
    <3>1. OneDrives(s)'
      BY <1>2, <1>3, <2>3, <3>0, <2>1, <1>1, NobodyHolds DEF OneDrives, Undriven,
         Drivers, Spawning, Asks, Driven
    <3>2. OneAsks(s)'
      BY <1>2, <1>3, <2>3, <3>0, <2>1, <1>1, NobodyHolds DEF OneAsks, Undriven, Drivers,
         Spawning, Asks, Driven
    <3>3. DriverRow(s)'
      BY <1>2, <1>3, <2>3, <3>0, <2>1, <1>1, NobodyHolds DEF DriverRow, Undriven,
         Drivers, Spawning, Asks, Driven
    <3>4. SpawnRow(s)'
      BY <1>2, <1>3, <2>3, <3>0, <2>1, <1>1, NobodyHolds DEF SpawnRow, Undriven,
         Drivers, Spawning, Asks, Driven
    <3>5. RetryRow(s)'
      BY <1>2, <1>3, <2>3, <3>0, <2>1, <1>1, NobodyHolds DEF RetryRow, Undriven,
         Drivers, Spawning, Asks, Driven
    <3>6. DecideRow(s)'
      BY <1>2, <1>3, <2>3, <3>0, <2>1, <1>1, NobodyHolds DEF DecideRow, Undriven,
         Drivers, Spawning, Asks, Driven
    <3>7. StaleRow(s)'
      BY <1>2, <1>3, <2>3, <3>0, <2>1, <1>1, NobodyHolds DEF StaleRow, Held, Undriven,
         Drivers, Spawning, Asks, Driven
    <3>8. StuckRow(s)'
      BY <1>2, <1>3, <2>3, <3>0, <2>1, <1>1, NobodyHolds DEF StuckRow, IsStuck,
         Undriven, Drivers, Spawning, Asks, Driven
    <3> QED
      BY <3>1, <3>2, <3>3, <3>4, <3>5, <3>6, <3>7, <3>8 DEF Driven
  <2> QED
    BY <2>2, <2>3
<1> QED
  BY <1>1, <1>4, <1>5, <1>6, <1>7 DEF Inv

\* A pod that dies takes its tasks, its requests and its sweep with it.
LEMMA CrashKeeps ==
  ASSUME Inv, NEW p \in Pods, Crash(p)
  PROVE  Inv'
<1>1. TypeOK /\ TypeOK' /\ Created /\ OneSweep /\ Windows /\ Driving
  BY TypeStep DEF Inv, Next
<1>2. \A q \in Pods, s \in Runs : /\ q # p => task'[q][s] = task[q][s]
                                  /\ q = p => task'[q][s].queued = 0 /\ task'[q][s].running = 0
  BY <1>1 DEF Crash, TypeOK, NoTask
<1>3. press' \subseteq press /\ count'.crossed = count.crossed
  BY <1>1 DEF Crash, Fault, TypeOK
<1>4. /\ \A q \in Pods \ {p} : tick'[q] = tick[q]
      /\ tick'[p].pc = "idle"
  BY <1>1 DEF Crash, Rests, Idle, TypeOK
<1>5. UNCHANGED <<window, lease, row, made, run>>
  BY DEF Crash
<1>6. Created'
  BY <1>1, <1>2, <1>3, <1>4, <1>5 DEF Created, Drivers
<1>7. OneSweep'
  BY <1>1, <1>2, <1>3, <1>4, <1>5 DEF OneSweep
<1>8. Windows'
  BY <1>1, <1>2, <1>3, <1>4, <1>5, MadeRuns DEF Windows
<1>9. Driving'
  <2> SUFFICES ASSUME NEW s \in Runs, s \notin count.crossed, s \notin count'.crossed
               PROVE  Driven(s)'
    BY <1>1, <1>2, <1>3, <1>4, <1>5 DEF Driving
  <2>1. Driven(s)
    BY <1>1 DEF Driving
  <2> QED
    BY <1>1, <1>2, <1>3, <1>4, <1>5, <2>1, LessWork DEF Asks
<1> QED
  BY <1>1, <1>6, <1>7, <1>8, <1>9 DEF Inv

\* The lease admits one sweep.
LEMMA TickBeginKeeps ==
  ASSUME Inv, NEW p \in Pods, TickBegin(p)
  PROVE  Inv'
<1>1. TypeOK /\ TypeOK' /\ Created /\ OneSweep /\ Windows /\ Driving
  BY TypeStep DEF Inv, Next
<1>2. /\ \A q \in Pods \ {p} : tick'[q] = tick[q]
      /\ lease /\ ~lease'
      /\ tick'[p].pc = IF row.run = None THEN "due" ELSE "judge"
      /\ tick'[p].run = row.run
  BY <1>1 DEF TickBegin, Idle, TypeOK
<1>3. UNCHANGED <<window, row, made, run, task, heard, press, count>>
  BY DEF TickBegin
<1>4. Created'
  BY <1>1, <1>2, <1>3 DEF Created, Drivers
<1>5. OneSweep'
  BY <1>1, <1>2, <1>3 DEF OneSweep
<1>6. Windows'
  BY <1>1, <1>2, <1>3, MadeRuns DEF Windows
<1>7. Driving'
  <2> SUFFICES ASSUME NEW s \in Runs, s \notin count.crossed, s \notin count'.crossed
               PROVE  Driven(s)'
    BY <1>1, <1>2, <1>3 DEF Driving
  <2>1. Driven(s)
    BY <1>1 DEF Driving
  <2> QED
    BY <1>1, <1>2, <1>3, <2>1, LessWork DEF Asks
<1> QED
  BY <1>1, <1>4, <1>5, <1>6, <1>7 DEF Inv

\* The sweep resumes or gives up only what it found stuck.
LEMMA TickJudgeKeeps ==
  ASSUME Inv, NEW p \in Pods, TickJudge(p)
  PROVE  Inv'
<1>1. TypeOK /\ TypeOK' /\ Created /\ OneSweep /\ Windows /\ Driving
  BY TypeStep DEF Inv, Next, Tick
<1>2. /\ \A q \in Pods \ {p} : tick'[q] = tick[q]
      /\ tick[p].pc = "judge"
      /\ tick'[p].pc \in {"clear", "idle"} \/ (tick'[p].pc \in {"abandon", "resume"} /\ IsStuck(tick[p].run))
  BY <1>1 DEF TickJudge, Goes, Rests, Idle, IsSettled, TypeOK
<1>3. tick'[p].pc # "idle" => tick'[p].run = tick[p].run
  BY <1>1 DEF TickJudge, Goes, Rests, Idle, IsSettled, TypeOK
<1>4. UNCHANGED <<window, lease, row, made, run, task, heard, press, count>>
  BY DEF TickJudge
<1>5. Created'
  BY <1>1, <1>2, <1>3, <1>4 DEF Created, Drivers
<1>6. OneSweep'
  BY <1>1, <1>2, <1>3, <1>4 DEF OneSweep
<1>7. Windows'
  BY <1>1, <1>2, <1>3, <1>4, MadeRuns DEF Windows
<1>8. Driving'
  <2> SUFFICES ASSUME NEW s \in Runs, s \notin count.crossed, s \notin count'.crossed
               PROVE  Driven(s)'
    BY <1>1, <1>2, <1>3, <1>4 DEF Driving
  <2>1. Driven(s)
    BY <1>1 DEF Driving
  <2>2. CASE s # tick[p].run
    BY <1>1, <1>2, <1>3, <1>4, <2>1, <2>2, LessWork DEF Asks
  <2>3. CASE s = tick[p].run
    <3>1. OneDrives(s)'
      BY <1>2, <1>3, <1>4, <2>3, <1>1, <2>1 DEF OneDrives, Undriven, Drivers, Spawning,
         Asks, Driven
    <3>2. OneAsks(s)'
      BY <1>2, <1>3, <1>4, <2>3, <1>1, <2>1 DEF OneAsks, Undriven, Drivers, Spawning,
         Asks, Driven
    <3>3. DriverRow(s)'
      BY <1>2, <1>3, <1>4, <2>3, <1>1, <2>1 DEF DriverRow, Undriven, Drivers, Spawning,
         Asks, Driven
    <3>4. SpawnRow(s)'
      BY <1>2, <1>3, <1>4, <2>3, <1>1, <2>1 DEF SpawnRow, Undriven, Drivers, Spawning,
         Asks, Driven
    <3>5. RetryRow(s)'
      BY <1>2, <1>3, <1>4, <2>3, <1>1, <2>1 DEF RetryRow, Undriven, Drivers, Spawning,
         Asks, Driven
    <3>6. DecideRow(s)'
      BY <1>2, <1>3, <1>4, <2>3, <1>1, <2>1 DEF DecideRow, Undriven, Drivers, Spawning,
         Asks, Driven
    <3>7. StaleRow(s)'
      BY <1>2, <1>3, <1>4, <2>3, <1>1, <2>1 DEF StaleRow, Held, Undriven, Drivers,
         Spawning, Asks, Driven
    <3>8. StuckRow(s)'
      BY <1>2, <1>3, <1>4, <2>3, <1>1, <2>1 DEF StuckRow, IsStuck, Undriven, Drivers,
         Spawning, Asks, Driven
    <3> QED
      BY <3>1, <3>2, <3>3, <3>4, <3>5, <3>6, <3>7, <3>8 DEF Driven
  <2> QED
    BY <2>2, <2>3
<1> QED
  BY <1>1, <1>5, <1>6, <1>7, <1>8 DEF Inv

\* The stamp makes the run fresh, and the sweep the one that will drive it.
LEMMA TickResumeKeeps ==
  ASSUME Inv, NEW p \in Pods, TickResume(p)
  PROVE  Inv'
<1>1. TypeOK /\ TypeOK' /\ Created /\ OneSweep /\ Windows /\ Driving
  BY TypeStep DEF Inv, Next, Tick
<1>r. tick[p].run \in Runs /\ tick[p].run \in 1 .. made /\ tick[p].pc = "resume"
  BY <1>1, MadeRuns DEF TickResume, Created
<1>2. /\ \A s \in Runs : /\ run'[s].status = run[s].status
                         /\ run'[s].of = run[s].of /\ run'[s].was = run[s].was
                         /\ s # tick[p].run => run'[s].fresh = run[s].fresh
      /\ IsStuck(tick[p].run) => run'[tick[p].run].fresh
      /\ ~IsStuck(tick[p].run) => run'[tick[p].run].fresh = run[tick[p].run].fresh
  <2>1. CASE IsStuck(tick[p].run)
    <3>1. run' = [run EXCEPT ![tick[p].run].fresh = TRUE]
      BY <1>1, <1>r, <2>1 DEF TickResume
    <3>2. RunType
      BY <1>1 DEF TypeOK, RunType
    <3> QED
      BY <1>r, <2>1, <3>1, <3>2 DEF RunType
  <2>2. CASE ~IsStuck(tick[p].run)
    BY <1>1, <1>r, <2>2 DEF TickResume, TypeOK
  <2> QED
    BY <1>1, <1>r, <2>1, <2>2 DEF TickResume
<1>3. /\ \A q \in Pods \ {p} : tick'[q] = tick[q]
      /\ IsStuck(tick[p].run) => tick'[p].pc = "spawn" /\ tick'[p].run = tick[p].run
      /\ ~IsStuck(tick[p].run) => tick'[p].pc = "idle"
  BY <1>1, <1>r DEF TickResume, Goes, Rests, Idle, TypeOK
<1>4. UNCHANGED <<window, lease, row, made, task, heard, press, count>>
  BY DEF TickResume
<1>5. Created'
  BY <1>1, <1>r, <1>2, <1>3, <1>4 DEF Created, Drivers
<1>6. OneSweep'
  BY <1>1, <1>r, <1>2, <1>3, <1>4 DEF OneSweep
<1>7. Windows'
  BY <1>1, <1>r, <1>2, <1>3, <1>4, MadeRuns DEF Windows
<1>8. Driving'
  <2> SUFFICES ASSUME NEW s \in Runs, s \notin count.crossed, s \notin count'.crossed
               PROVE  Driven(s)'
    BY <1>1, <1>2, <1>3, <1>4 DEF Driving
  <2>1. Driven(s)
    BY <1>1 DEF Driving
  <2>2. CASE s # tick[p].run
    BY <1>1, <1>r, <1>2, <1>3, <1>4, <2>1, <2>2, LessWork DEF Asks
  <2>3. CASE s = tick[p].run
    <3>a. IsStuck(s) /\ ~Held(s)
      BY <1>1, <1>r, <2>1, <2>3 DEF Driven, StaleRow, StuckRow, IsStuck
    <3>b. \A q \in Pods : tick'[q].pc \notin {"resume", "abandon"}
      BY <1>1, <1>r, <1>2, <1>3, <2>3, <3>a DEF OneSweep
    <3>d. \A q \in Pods : Drivers(q, s)' = 0
      BY <1>1, <3>a, <1>4, NobodyHolds DEF Drivers
    <3>e. run'[s].status = "running"
      BY <1>2, <3>a DEF IsStuck
    <3>1. OneDrives(s)'
      BY <3>d DEF OneDrives
    <3>2. OneAsks(s)'
      BY <1>2, <1>3, <1>4, <1>r, <2>3, <1>1, <3>a, <3>b, NobodyHolds DEF OneAsks,
         Undriven, Drivers, Spawning, Asks, IsStuck
    <3>3. DriverRow(s)'
      BY <1>2, <1>3, <1>4, <1>r, <2>3, <1>1, <3>a, <3>b, NobodyHolds DEF DriverRow,
         Undriven, Drivers, Spawning, Asks, IsStuck
    <3>4. SpawnRow(s)'
      BY <3>d, <3>e DEF SpawnRow, Undriven, Spawning
    <3>5. RetryRow(s)'
      BY <1>2, <1>3, <1>4, <1>r, <2>3, <1>1, <3>a, <3>b, NobodyHolds DEF RetryRow,
         Undriven, Drivers, Spawning, Asks, IsStuck
    <3>6. DecideRow(s)'
      BY <1>2, <1>3, <1>4, <1>r, <2>3, <1>1, <3>a, <3>b, NobodyHolds DEF DecideRow,
         Undriven, Drivers, Spawning, Asks, IsStuck
    <3>7. StaleRow(s)'
      BY <1>2, <1>3, <1>4, <1>r, <2>3, <1>1, <3>a, <3>b, NobodyHolds DEF StaleRow, Held,
         Undriven, Drivers, Spawning, Asks, IsStuck
    <3>8. StuckRow(s)'
      BY <1>2, <1>3, <1>4, <1>r, <2>3, <1>1, <3>a, <3>b, NobodyHolds DEF StuckRow,
         IsStuck, Undriven, Drivers, Spawning, Asks
    <3> QED
      BY <3>1, <3>2, <3>3, <3>4, <3>5, <3>6, <3>7, <3>8 DEF Driven
  <2> QED
    BY <2>2, <2>3
<1> QED
  BY <1>1, <1>5, <1>6, <1>7, <1>8 DEF Inv

\* The sweep that stamped the run is the only one to drive it.
LEMMA TickSpawnKeeps ==
  ASSUME Inv, NEW p \in Pods, TickSpawn(p)
  PROVE  Inv'
<1>1. TypeOK /\ TypeOK' /\ Created /\ OneSweep /\ Windows /\ Driving
  BY TypeStep DEF Inv, Next, Tick
<1>r. tick[p].run \in Runs /\ tick[p].run \in 1 .. made /\ tick[p].pc = "spawn"
  BY <1>1, MadeRuns DEF TickSpawn, Created
<1>2. /\ task'[p][tick[p].run].queued = task[p][tick[p].run].queued + 1 /\ task'[p][tick[p].run].running = task[p][tick[p].run].running
      /\ \A q \in Pods, s \in Runs : q # p \/ s # tick[p].run => task'[q][s] = task[q][s]
  BY <1>1, <1>r DEF TickSpawn, Spawn, TypeOK
<1>3. /\ \A q \in Pods \ {p} : tick'[q] = tick[q]
      /\ tick'[p].pc = "note" /\ tick'[p].run = tick[p].run
  BY <1>1, <1>r DEF TickSpawn, Goes, TypeOK
<1>4. UNCHANGED <<window, lease, row, made, run, heard, press, count>>
  BY DEF TickSpawn
<1>5. Created'
  BY <1>1, <1>r, <1>2, <1>3, <1>4 DEF Created, Drivers
<1>6. OneSweep'
  BY <1>1, <1>r, <1>2, <1>3, <1>4 DEF OneSweep
<1>7. Windows'
  BY <1>1, <1>r, <1>2, <1>3, <1>4, MadeRuns DEF Windows
<1>8. Driving'
  <2> SUFFICES ASSUME NEW s \in Runs, s \notin count.crossed, s \notin count'.crossed
               PROVE  Driven(s)'
    BY <1>1, <1>2, <1>3, <1>4 DEF Driving
  <2>1. Driven(s)
    BY <1>1 DEF Driving
  <2>2. CASE s # tick[p].run
    BY <1>1, <1>r, <1>2, <1>3, <1>4, <2>1, <2>2, LessWork DEF Asks
  <2>3. CASE s = tick[p].run
    <3>a. Undriven(s) /\ run[s].status = "running" /\ run[s].fresh
      BY <1>1, <1>r, <2>1, <2>3 DEF Driven, SpawnRow, StaleRow, Spawning, Held
    <3>b. \A q \in Pods : /\ task[q][s].queued = 0 /\ task[q][s].running = 0
                         /\ ~Asks(q, "retry", s) /\ ~Asks(q, "decide", s)
      BY <1>1, <2>1, <3>a, TaskCounts DEF Driven, RetryRow, DecideRow, Undriven, Drivers
    <3>c. \A q \in Pods : tick'[q].pc \notin {"resume", "abandon", "spawn"}
      BY <1>1, <1>r, <1>3, <2>3, <3>a DEF OneSweep
    <3>d. ASSUME NEW q \in Pods PROVE Drivers(q, s)' = IF q = p THEN 1 ELSE 0
      BY <1>r, <1>2, <2>3, <3>b DEF Drivers
    <3>1. OneDrives(s)'
      BY <3>d DEF OneDrives
    <3>2. OneAsks(s)'
      BY <1>2, <1>3, <1>4, <1>r, <2>3, <3>a, <3>b, <3>c DEF OneAsks, Undriven, Drivers,
         Spawning, Asks
    <3>3. DriverRow(s)'
      BY <1>2, <1>3, <1>4, <1>r, <2>3, <3>a, <3>b, <3>c DEF DriverRow, Undriven,
         Drivers, Spawning, Asks
    <3>4. SpawnRow(s)'
      BY <1>2, <1>3, <1>4, <1>r, <2>3, <3>a, <3>b, <3>c DEF SpawnRow, Undriven, Drivers,
         Spawning, Asks
    <3>5. RetryRow(s)'
      BY <1>2, <1>3, <1>4, <1>r, <2>3, <3>a, <3>b, <3>c DEF RetryRow, Undriven, Drivers,
         Spawning, Asks
    <3>6. DecideRow(s)'
      BY <1>2, <1>3, <1>4, <1>r, <2>3, <3>a, <3>b, <3>c DEF DecideRow, Undriven,
         Drivers, Spawning, Asks
    <3>7. StaleRow(s)'
      BY <1>2, <1>3, <1>4, <1>r, <2>3, <3>a, <3>b, <3>c DEF StaleRow, Held, Undriven,
         Drivers, Spawning, Asks
    <3>8. StuckRow(s)'
      BY <1>2, <1>3, <1>4, <1>r, <2>3, <3>a, <3>b, <3>c DEF StuckRow, IsStuck, Undriven,
         Drivers, Spawning, Asks
    <3> QED
      BY <3>1, <3>2, <3>3, <3>4, <3>5, <3>6, <3>7, <3>8 DEF Driven
  <2> QED
    BY <2>2, <2>3
<1> QED
  BY <1>1, <1>5, <1>6, <1>7, <1>8 DEF Inv

\* A run given up had nobody.
LEMMA TickAbandonKeeps ==
  ASSUME Inv, NEW p \in Pods, TickAbandon(p)
  PROVE  Inv'
<1>1. TypeOK /\ TypeOK' /\ Created /\ OneSweep /\ Windows /\ Driving
  BY TypeStep DEF Inv, Next, Tick
<1>r. tick[p].run \in Runs /\ tick[p].run \in 1 .. made /\ tick[p].pc = "abandon"
  BY <1>1, MadeRuns DEF TickAbandon, Created
<1>2. /\ \A s \in Runs \ {tick[p].run} : run'[s] = run[s]
      /\ run'[tick[p].run].of = run[tick[p].run].of /\ run'[tick[p].run].was = run[tick[p].run].was
      /\ run'[tick[p].run].status \in Over /\ run'[tick[p].run].status # "none"
      /\ run'[tick[p].run].fresh \/ run'[tick[p].run].fresh = run[tick[p].run].fresh
      /\ IsStuck(tick[p].run) => run'[tick[p].run].fresh
  <2>1. CASE run[tick[p].run].status \in Over
    <3>1. UNCHANGED <<run, task>>
      BY <1>1, <1>r, <2>1 DEF TickAbandon
    <3>2. RunType
      BY <1>1 DEF TypeOK, RunType
    <3> QED
      BY <1>r, <2>1, <3>1, <3>2 DEF RunType, Over, IsStuck
  <2>2. CASE run[tick[p].run].status \notin Over
    <3>1. run' = [run EXCEPT ![tick[p].run].status = "error", ![tick[p].run].fresh = TRUE]
      BY <1>1, <1>r, <2>2 DEF TickAbandon
    <3>2. RunType
      BY <1>1 DEF TypeOK, RunType
    <3> QED
      BY <1>r, <2>2, <3>1, <3>2 DEF RunType, Over, IsStuck
  <2> QED
    BY <1>1, <1>r, <2>1, <2>2 DEF TickAbandon
<1>3. /\ \A q \in Pods, s \in Runs : q # p \/ s # tick[p].run => task'[q][s] = task[q][s]
      /\ \/ task'[p][tick[p].run] = task[p][tick[p].run]
         \/ task'[p][tick[p].run].queued = 0 /\ task'[p][tick[p].run].running = 0
  <2>1. CASE run[tick[p].run].status \in Over
    <3>1. UNCHANGED <<run, task>>
      BY <1>1, <1>r, <2>1 DEF TickAbandon
    <3>2. TaskType
      BY <1>1 DEF TypeOK, TaskType
    <3> QED
      BY <1>r, <2>1, <3>1, <3>2 DEF TaskType, NoTask
  <2>2. CASE run[tick[p].run].status \notin Over
    <3>1. task' = [task EXCEPT ![p][tick[p].run] = NoTask]
      BY <1>1, <1>r, <2>2 DEF TickAbandon
    <3>2. TaskType
      BY <1>1 DEF TypeOK, TaskType
    <3> QED
      BY <1>r, <2>2, <3>1, <3>2 DEF TaskType, NoTask
  <2> QED
    BY <1>1, <1>r, <2>1, <2>2 DEF TickAbandon
<1>4. /\ \A q \in Pods \ {p} : tick'[q] = tick[q]
      /\ tick'[p].pc = "clear" /\ tick'[p].run = tick[p].run
  BY <1>1, <1>r DEF TickAbandon, Goes, TypeOK
<1>5. UNCHANGED <<window, lease, row, made, press, count>>
  BY DEF TickAbandon
<1>6. Created'
  <2>1. \A q \in Pods, s \in Runs : Drivers(q, s)' > 0 => s <= made
    BY <1>1, <1>r, <1>3 DEF Created, Drivers
  <2>2. \A s \in Runs : run'[s].status = "none" <=> s > made
    <3>1. ~(tick[p].run > made)
      BY <1>1, <1>r, BoundsAssumption DEF TypeOK
    <3> QED
      BY <1>1, <1>r, <1>2, <3>1 DEF Created
  <2>3. \A s \in Runs : run'[s].was = run[s].was
    BY <1>r, <1>2
  <2> QED
    BY <1>1, <1>r, <1>4, <1>5, <2>1, <2>2, <2>3 DEF Created
<1>7. OneSweep'
  BY <1>1, <1>r, <1>2, <1>3, <1>4, <1>5 DEF OneSweep
<1>8. Windows'
  BY <1>1, <1>r, <1>2, <1>3, <1>4, <1>5, MadeRuns DEF Windows
<1>9. Driving'
  <2> SUFFICES ASSUME NEW s \in Runs, s \notin count.crossed, s \notin count'.crossed
               PROVE  Driven(s)'
    BY <1>1, <1>2, <1>3, <1>4, <1>5 DEF Driving
  <2>1. Driven(s)
    BY <1>1 DEF Driving
  <2>2. CASE s # tick[p].run
    BY <1>1, <1>r, <1>2, <1>3, <1>4, <1>5, <2>1, <2>2, LessWork DEF Asks
  <2>3. CASE s = tick[p].run
    <3>a. IsStuck(s) /\ ~Held(s)
      BY <1>1, <1>r, <2>1, <2>3 DEF Driven, StaleRow, StuckRow, IsStuck
    <3>b. \A q \in Pods : tick'[q].pc \notin {"resume", "abandon", "spawn"}
      BY <1>1, <1>r, <1>4, <2>3, <3>a DEF OneSweep
    <3>c. \A q \in Pods : task'[q][s].queued = 0 /\ task'[q][s].running = 0
      BY <1>1, <1>3, <3>a, NobodyHolds
    <3>d. \A q \in Pods : Drivers(q, s)' = 0
      BY <3>c DEF Drivers
    <3>1. OneDrives(s)'
      BY <3>d DEF OneDrives
    <3>2. OneAsks(s)'
      BY <1>2, <1>3, <1>4, <1>5, <1>r, <2>3, <1>1, <3>a, <3>b, NobodyHolds DEF OneAsks,
         Undriven, Drivers, Spawning, Asks, IsStuck
    <3>3. DriverRow(s)'
      BY <3>c, <3>d DEF DriverRow, Undriven, Spawning
    <3>4. SpawnRow(s)'
      BY <1>2, <1>3, <1>4, <1>5, <1>r, <2>3, <1>1, <3>a, <3>b, NobodyHolds DEF SpawnRow,
         Undriven, Drivers, Spawning, Asks, IsStuck
    <3>5. RetryRow(s)'
      BY <1>2, <1>3, <1>4, <1>5, <1>r, <2>3, <1>1, <3>a, <3>b, NobodyHolds DEF RetryRow,
         Undriven, Drivers, Spawning, Asks, IsStuck
    <3>6. DecideRow(s)'
      BY <1>2, <1>3, <1>4, <1>5, <1>r, <2>3, <1>1, <3>a, <3>b, NobodyHolds DEF
         DecideRow, Undriven, Drivers, Spawning, Asks, IsStuck
    <3>7. StaleRow(s)'
      BY <1>2, <1>3, <1>4, <1>5, <1>r, <2>3, <1>1, <3>a, <3>b, NobodyHolds DEF StaleRow,
         Held, Undriven, Drivers, Spawning, Asks, IsStuck
    <3>8. StuckRow(s)'
      BY <1>2, <1>3, <1>4, <1>5, <1>r, <2>3, <1>1, <3>a, <3>b, NobodyHolds DEF StuckRow,
         IsStuck, Undriven, Drivers, Spawning, Asks
    <3> QED
      BY <3>1, <3>2, <3>3, <3>4, <3>5, <3>6, <3>7, <3>8 DEF Driven
  <2> QED
    BY <2>2, <2>3
<1> QED
  BY <1>1, <1>6, <1>7, <1>8, <1>9 DEF Inv

\* The ledger records a run that was created.
LEMMA TickWritesKeeps ==
  ASSUME Inv, NEW p \in Pods, TickWrites(p)
  PROVE  Inv'
<1>1. TypeOK /\ TypeOK' /\ Created /\ OneSweep /\ Windows /\ Driving
  BY TypeStep DEF Inv, Next, Tick
<1>2. /\ row'.window = row.window
      /\ row'.run \in {row.run, None, tick[p].run}
      /\ row'.run = tick[p].run => tick[p].pc = "record" \/ row'.run \in {row.run, None}
  BY <1>1 DEF TickWrites, TypeOK
<1>3. /\ \A q \in Pods \ {p} : tick'[q] = tick[q]
      /\ tick[p].pc \in {"note", "clear", "record"} /\ tick'[p].pc \in {"idle", "due"}
  BY <1>1 DEF TickWrites, Idle, TypeOK
<1>4. UNCHANGED <<window, lease, made, run, task, heard, press, count>>
  BY DEF TickWrites
<1>5. Created'
  BY <1>1, <1>2, <1>3, <1>4 DEF Created, Drivers
<1>6. OneSweep'
  BY <1>1, <1>2, <1>3, <1>4 DEF OneSweep
<1>7. Windows'
  BY <1>1, <1>2, <1>3, <1>4, MadeRuns DEF Windows
<1>8. Driving'
  <2> SUFFICES ASSUME NEW s \in Runs, s \notin count.crossed, s \notin count'.crossed
               PROVE  Driven(s)'
    BY <1>1, <1>2, <1>3, <1>4 DEF Driving
  <2>1. Driven(s)
    BY <1>1 DEF Driving
  <2> QED
    BY <1>1, <1>2, <1>3, <1>4, <2>1, LessWork DEF Asks
<1> QED
  BY <1>1, <1>5, <1>6, <1>7, <1>8 DEF Inv

\* A window is claimed after the ledger's.
LEMMA TickDueKeeps ==
  ASSUME Inv, NEW p \in Pods, TickDue(p)
  PROVE  Inv'
<1>1. TypeOK /\ TypeOK' /\ Created /\ OneSweep /\ Windows /\ Driving
  BY TypeStep DEF Inv, Next, Tick
<1>2. /\ \A q \in Pods \ {p} : tick'[q] = tick[q]
      /\ tick[p].pc = "due"
      /\ tick'[p].pc = "idle" \/ (tick'[p].pc = "claim" /\ tick'[p].window = window /\ row.window # window)
  BY <1>1 DEF TickDue, Rests, Idle, TypeOK
<1>3. row.window \in Nat /\ window \in Nat
  BY <1>1 DEF TickDue, TypeOK
<1>4. UNCHANGED <<window, lease, row, made, run, task, heard, press, count>>
  BY DEF TickDue
<1>5. Created'
  BY <1>1, <1>2, <1>3, <1>4 DEF Created, Drivers
<1>6. OneSweep'
  BY <1>1, <1>2, <1>3, <1>4 DEF OneSweep
<1>7. Windows'
  BY <1>1, <1>2, <1>3, <1>4, MadeRuns DEF Windows
<1>8. Driving'
  <2> SUFFICES ASSUME NEW s \in Runs, s \notin count.crossed, s \notin count'.crossed
               PROVE  Driven(s)'
    BY <1>1, <1>2, <1>3, <1>4 DEF Driving
  <2>1. Driven(s)
    BY <1>1 DEF Driving
  <2> QED
    BY <1>1, <1>2, <1>3, <1>4, <2>1, LessWork DEF Asks
<1> QED
  BY <1>1, <1>5, <1>6, <1>7, <1>8 DEF Inv

\* The claimed window is later than that of every run.
LEMMA TickClaimKeeps ==
  ASSUME Inv, NEW p \in Pods, TickClaim(p)
  PROVE  Inv'
<1>1. TypeOK /\ TypeOK' /\ Created /\ OneSweep /\ Windows /\ Driving
  BY TypeStep DEF Inv, Next, Tick
<1>2. /\ \A q \in Pods \ {p} : tick'[q] = tick[q]
      /\ tick[p].pc = "claim"
      /\ \/ tick'[p].pc = "idle" /\ row' = row
         \/ tick'[p].pc = "start" /\ tick'[p].window = tick[p].window /\ row'.window = tick[p].window /\ row'.run = None
  BY <1>1 DEF TickClaim, Rests, Idle, Goes, Claimed, TypeOK
<1>3. row.window \in Nat /\ window \in Nat /\ tick[p].window \in Nat /\ \A s \in Runs : run[s].of \in Nat
  BY <1>1 DEF TickClaim, TypeOK
<1>4. UNCHANGED <<window, lease, made, run, task, heard, press, count>>
  BY DEF TickClaim
<1>5. Created'
  BY <1>1, <1>2, <1>3, <1>4 DEF Created, Drivers
<1>6. OneSweep'
  BY <1>1, <1>2, <1>3, <1>4 DEF OneSweep
<1>7. Windows'
  <2>1. CASE tick'[p].pc = "idle" /\ row' = row
    BY <1>1, <1>2, <1>4, <2>1 DEF Windows
  <2>2. CASE tick'[p].pc = "start" /\ tick'[p].window = tick[p].window /\ row'.window = tick[p].window
    <3>1. row.window < tick[p].window /\ tick[p].window <= window
      BY <1>1, <1>2 DEF Windows
    <3>2. \A s \in 1 .. made : s \in Runs /\ run[s].of < tick[p].window
      BY <1>1, <1>3, <3>1, MadeRuns DEF Windows
    <3>3. \A q \in Pods \ {p} : tick[q].pc = "idle"
      BY <1>1, <1>2 DEF OneSweep
    <3> QED
      BY <1>2, <1>3, <1>4, <2>2, <3>1, <3>2, <3>3 DEF Windows
  <2> QED
    BY <1>2, <2>1, <2>2
<1>8. Driving'
  <2> SUFFICES ASSUME NEW s \in Runs, s \notin count.crossed, s \notin count'.crossed
               PROVE  Driven(s)'
    BY <1>1, <1>2, <1>3, <1>4 DEF Driving
  <2>1. Driven(s)
    BY <1>1 DEF Driving
  <2> QED
    BY <1>1, <1>2, <1>3, <1>4, <2>1, LessWork DEF Asks
<1> QED
  BY <1>1, <1>5, <1>6, <1>7, <1>8 DEF Inv

\* Only the pod's own step changes.
LEMMA TickStartKeeps ==
  ASSUME Inv, NEW p \in Pods, TickStart(p)
  PROVE  Inv'
<1>1. TypeOK /\ TypeOK' /\ Created /\ OneSweep /\ Windows /\ Driving
  BY TypeStep DEF Inv, Next, Tick
<1>2. /\ \A q \in Pods \ {p} : tick'[q] = tick[q]
      /\ tick[p].pc = "start"
      /\ tick'[p].pc = "idle" \/ (tick'[p].pc = "create" /\ tick'[p].window = tick[p].window)
  BY <1>1 DEF TickStart, Rests, Idle, Goes, TypeOK
<1>3. UNCHANGED <<window, lease, row, made, run, task, heard, press, count>>
  BY DEF TickStart
<1>4. Created'
  BY <1>1, <1>2, <1>3 DEF Created, Drivers
<1>5. OneSweep'
  BY <1>1, <1>2, <1>3 DEF OneSweep
<1>6. Windows'
  BY <1>1, <1>2, <1>3, MadeRuns DEF Windows
<1>7. Driving'
  <2> SUFFICES ASSUME NEW s \in Runs, s \notin count.crossed, s \notin count'.crossed
               PROVE  Driven(s)'
    BY <1>1, <1>2, <1>3 DEF Driving
  <2>1. Driven(s)
    BY <1>1 DEF Driving
  <2> QED
    BY <1>1, <1>2, <1>3, <2>1, LessWork DEF Asks
<1> QED
  BY <1>1, <1>4, <1>5, <1>6, <1>7 DEF Inv

\* Only the pod's own step and the faults change.
LEMMA TickFailsKeeps ==
  ASSUME Inv, NEW p \in Pods, TickFails(p)
  PROVE  Inv'
<1>1. TypeOK /\ TypeOK' /\ Created /\ OneSweep /\ Windows /\ Driving
  BY TypeStep DEF Inv, Next, Tick
<1>2. /\ \A q \in Pods \ {p} : tick'[q] = tick[q]
      /\ tick[p].pc # "idle" /\ tick'[p].pc = "idle" /\ count'.crossed = count.crossed
  BY <1>1 DEF TickFails, Rests, Idle, Fault, TypeOK
<1>3. UNCHANGED <<window, lease, row, made, run, task, heard, press>>
  BY DEF TickFails
<1>4. Created'
  BY <1>1, <1>2, <1>3 DEF Created, Drivers
<1>5. OneSweep'
  BY <1>1, <1>2, <1>3 DEF OneSweep
<1>6. Windows'
  BY <1>1, <1>2, <1>3, MadeRuns DEF Windows
<1>7. Driving'
  <2> SUFFICES ASSUME NEW s \in Runs, s \notin count.crossed, s \notin count'.crossed
               PROVE  Driven(s)'
    BY <1>1, <1>2, <1>3 DEF Driving
  <2>1. Driven(s)
    BY <1>1 DEF Driving
  <2> QED
    BY <1>1, <1>2, <1>3, <2>1, LessWork DEF Asks
<1> QED
  BY <1>1, <1>4, <1>5, <1>6, <1>7 DEF Inv

\* The new run is the first of its window, and has one driver.
LEMMA TickCreateKeeps ==
  ASSUME Inv, NEW p \in Pods, TickCreate(p)
  PROVE  Inv'
<1>1. TypeOK /\ TypeOK' /\ Created /\ OneSweep /\ Windows /\ Driving
  BY TypeStep DEF Inv, Next, Tick
<1>2. made + 1 \in Runs /\ made' = made + 1 /\ made \in Nat
  BY <1>1, BoundsAssumption DEF TickCreate, TypeOK, Runs
<1>3. /\ \A s \in Runs \ {made + 1} : run'[s] = run[s]
      /\ run'[made + 1].status = "pending" /\ run'[made + 1].fresh /\ run'[made + 1].of = tick[p].window
  BY <1>1, <1>2 DEF TickCreate, NoRun, TypeOK
<1>4. /\ task'[p][made + 1].queued = task[p][made + 1].queued + 1 /\ task'[p][made + 1].running = task[p][made + 1].running
      /\ \A q \in Pods, s \in Runs : q # p \/ s # made + 1 => task'[q][s] = task[q][s]
  BY <1>1, <1>2 DEF TickCreate, Spawn, TypeOK
<1>5. /\ \A q \in Pods \ {p} : tick'[q] = tick[q]
      /\ tick[p].pc = "create" /\ tick'[p].pc = "record" /\ tick'[p].run = made + 1
  BY <1>1, <1>2 DEF TickCreate, TypeOK
<1>6. UNCHANGED <<window, lease, row, heard, press, count>>
  BY DEF TickCreate
<1>7. Created'
  <2>1. \A s \in Runs : run'[s].status = "none" <=> s > made'
    BY <1>1, <1>2, <1>3 DEF Created, Runs
  <2>2. \A q \in Pods, s \in Runs : Drivers(q, s)' > 0 => s <= made'
    BY <1>1, <1>2, <1>4 DEF Created, Drivers, Runs
  <2>7. \A s \in Runs : s <= made => s <= made' /\ run'[s] = run[s]
    BY <1>2, <1>3 DEF Runs
  <2>3. \A q \in Pods, s \in Runs, op \in {"cancel", "decide", "retry"} : <<q, op, s>> \in press' => s <= made'
    BY <1>1, <1>6, <2>7 DEF Created
  <2>4. \A q \in Pods, s \in Runs : <<q, "retry", s>> \in press' => run'[s].was \in Over
    BY <1>1, <1>6, <2>7 DEF Created
  <2>5. row'.run # None => row'.run \in 1 .. made'
    BY <1>1, <1>2, <1>6 DEF Created
  <2>6. \A q \in Pods : tick'[q].pc \in {"judge", "resume", "spawn", "abandon", "record"} => tick'[q].run \in 1 .. made'
    BY <1>1, <1>2, <1>5 DEF Created
  <2> QED
    BY <2>1, <2>2, <2>3, <2>4, <2>5, <2>6 DEF Created
<1>8. OneSweep'
  BY <1>1, <1>2, <1>3, <1>4, <1>5, <1>6 DEF OneSweep
<1>9. Windows'
  <2>1. /\ \A s \in 1 .. made : run[s].of < row.window
        /\ tick[p].window = row.window
        /\ \A q \in Pods \ {p} : tick[q].pc = "idle"
    BY <1>1, <1>5 DEF Windows, OneSweep
  <2>2. \A s \in 1 .. made' : run'[s].of <= row.window
    <3> SUFFICES ASSUME NEW s \in 1 .. made' PROVE run'[s].of <= row.window
      OBVIOUS
    <3>1. row.window \in Nat
      BY <1>1 DEF TypeOK
    <3>2. CASE s = made + 1
      BY <1>3, <2>1, <3>1, <3>2
    <3>3. CASE s \in 1 .. made
      <4>1. s \in Runs \ {made + 1}
        BY <1>1, <1>2, <3>3, MadeRuns
      <4> QED
        BY <1>1, <1>3, <2>1, <3>1, <3>3, <4>1 DEF Windows
    <3> QED
      BY <1>2, <3>2, <3>3
  <2> QED
    BY <1>1, <1>5, <1>6, <2>1, <2>2 DEF Windows
<1>10. Driving'
  <2> SUFFICES ASSUME NEW s \in Runs, s \notin count.crossed, s \notin count'.crossed
               PROVE  Driven(s)'
    BY <1>1, <1>2, <1>3, <1>4, <1>5, <1>6 DEF Driving
  <2>1. Driven(s)
    BY <1>1 DEF Driving
  <2>2. CASE s # made + 1
    BY <1>1, <1>2, <1>3, <1>4, <1>5, <1>6, <2>1, <2>2, LessWork DEF Asks
  <2>3. CASE s = made + 1
    <3>1a. ~(s <= made)
      BY <1>2, <2>3
    <3>2a. \A q \in Pods : ~Asks(q, "retry", s) /\ ~Asks(q, "decide", s) /\ ~(Drivers(q, s) > 0)
      BY <1>1, <3>1a DEF Created, Asks
    <3>a. ASSUME NEW q \in Pods PROVE task[q][s].queued = 0 /\ task[q][s].running = 0
      <4>1. task[q][s].queued \in Nat /\ task[q][s].running \in Nat
        BY <1>1, TaskCounts
      <4> QED
        BY <3>2a, <4>1 DEF Drivers
    <3>b. \A q \in Pods : tick'[q].pc \notin {"resume", "abandon", "spawn"}
      BY <1>1, <1>5 DEF OneSweep
    <3>c. \A q \in Pods : task'[q][s].running = 0
      BY <1>2, <1>4, <2>3, <3>a
    <3>d. ASSUME NEW q \in Pods PROVE Drivers(q, s)' = IF q = p THEN 1 ELSE 0
      BY <1>2, <1>4, <2>3, <3>a DEF Drivers
    <3>e. run'[s].status = "pending"
      BY <1>3, <2>3
    <3>1. OneDrives(s)'
      BY <3>d DEF OneDrives
    <3>2. OneAsks(s)'
      BY <1>2, <1>3, <1>4, <1>5, <1>6, <2>3, <3>2a, <3>b DEF OneAsks, Undriven, Drivers,
         Spawning, Asks
    <3>3. DriverRow(s)'
      BY <3>c, <3>e DEF DriverRow, Undriven, Spawning
    <3>4. SpawnRow(s)'
      BY <1>2, <1>3, <1>4, <1>5, <1>6, <2>3, <3>2a, <3>b DEF SpawnRow, Undriven,
         Drivers, Spawning, Asks
    <3>5. RetryRow(s)'
      BY <1>2, <1>3, <1>4, <1>5, <1>6, <2>3, <3>2a, <3>b DEF RetryRow, Undriven,
         Drivers, Spawning, Asks
    <3>6. DecideRow(s)'
      BY <1>2, <1>3, <1>4, <1>5, <1>6, <2>3, <3>2a, <3>b DEF DecideRow, Undriven,
         Drivers, Spawning, Asks
    <3>7. StaleRow(s)'
      BY <1>2, <1>3, <1>4, <1>5, <1>6, <2>3, <3>2a, <3>b DEF StaleRow, Held, Undriven,
         Drivers, Spawning, Asks
    <3>8. StuckRow(s)'
      BY <1>2, <1>3, <1>4, <1>5, <1>6, <2>3, <3>2a, <3>b DEF StuckRow, IsStuck,
         Undriven, Drivers, Spawning, Asks
    <3> QED
      BY <3>1, <3>2, <3>3, <3>4, <3>5, <3>6, <3>7, <3>8 DEF Driven
  <2> QED
    BY <2>2, <2>3
<1> QED
  BY <1>1, <1>7, <1>8, <1>9, <1>10 DEF Inv

\* A driver that gets its slot is still the only one.
LEMMA DriverStartsKeeps ==
  ASSUME Inv, NEW p \in Pods, NEW r \in Runs, DriverStarts(p, r)
  PROVE  Inv'
<1>1. TypeOK /\ TypeOK' /\ Created /\ OneSweep /\ Windows /\ Driving
  BY TypeStep DEF Inv, Next
<1>2. task[p][r].queued > 0 /\ task[p][r].queued \in Nat /\ task[p][r].running \in Nat
  BY <1>1 DEF DriverStarts, TypeOK
<1>3. /\ \A s \in Runs \ {r} : run'[s] = run[s]
      /\ run'[r].of = run[r].of /\ run'[r].was = run[r].was
      /\ run'[r].status = "running" /\ run'[r].fresh = run[r].fresh
  <2>1. CASE TRUE
    <3>1. run' = [run EXCEPT ![r].status = "running"]
      BY <1>1, <2>1 DEF DriverStarts
    <3>2. RunType
      BY <1>1 DEF TypeOK, RunType
    <3> QED
      BY <2>1, <3>1, <3>2 DEF RunType, RunType
  <2> QED
    BY <1>1, <2>1 DEF DriverStarts
<1>4. /\ \A q \in Pods, s \in Runs : q # p \/ s # r => task'[q][s] = task[q][s]
      /\ task'[p][r].queued = task[p][r].queued - 1 /\ task'[p][r].running = task[p][r].running + 1
  <2>1. CASE TRUE
    <3>1. task' = [task EXCEPT ![p][r] = [queued |-> @.queued - 1, running |-> @.running + 1]]
      BY <1>1, <2>1 DEF DriverStarts
    <3>2. TaskType
      BY <1>1 DEF TypeOK, TaskType
    <3> QED
      BY <2>1, <3>1, <3>2 DEF TaskType, TaskType
  <2> QED
    BY <1>1, <2>1 DEF DriverStarts
<1>5. UNCHANGED <<window, lease, row, made, heard, tick, press, count>>
  BY DEF DriverStarts
<1>6. Created'
  <2>1. r <= made /\ ~(r > made)
    BY <1>1, <1>2, <1>3, <1>4, <1>5, Existing DEF Drivers
  <2>2. \A q \in Pods, s \in Runs : Drivers(q, s)' > 0 => Drivers(q, s) > 0 \/ s = r
    BY <1>2, <1>3, <1>4, <1>5 DEF Drivers
  <2>3. \A s \in Runs : run'[s].status = "none" <=> s > made
    BY <1>1, <1>2, <1>3, <1>4, <1>5, <2>1 DEF Created
  <2> QED
    BY <1>1, <1>2, <1>3, <1>4, <1>5, <2>1, <2>2, <2>3 DEF Created
<1>7. OneSweep'
  BY <1>1, <1>2, <1>3, <1>4, <1>5 DEF OneSweep
<1>8. Windows'
  BY <1>1, <1>2, <1>3, <1>4, <1>5, MadeRuns DEF Windows
<1>9. Driving'
  <2> SUFFICES ASSUME NEW s \in Runs, s \notin count.crossed, s \notin count'.crossed
               PROVE  Driven(s)'
    BY <1>1, <1>2, <1>3, <1>4, <1>5 DEF Driving
  <2>1. Driven(s)
    BY <1>1 DEF Driving
  <2>2. CASE s # r
    BY <1>1, <1>2, <1>3, <1>4, <1>5, <2>1, <2>2, LessWork DEF Asks
  <2>3. CASE s = r
    <3>a. Drivers(p, s) > 0
      BY <1>2, <2>3 DEF Drivers
    <3>b. run[s].fresh /\ run'[s].fresh
      BY <1>3, <2>1, <2>3, <3>a DEF Driven, StaleRow, Held
    <3>c. \A q \in Pods : /\ ~Spawning(q, s) /\ ~Asks(q, "retry", s) /\ ~Asks(q, "decide", s)
                         /\ ~(tick[q].pc \in {"resume", "abandon"} /\ tick[q].run = s)
      BY <2>1, <3>a, <3>b DEF Driven, SpawnRow, RetryRow, DecideRow, StuckRow, IsStuck, Undriven
    <3>d. \A q \in Pods : Drivers(q, s)' = Drivers(q, s)
      BY <1>2, <1>4, <2>3 DEF Drivers
    <3>e. run'[s].status = "running"
      BY <1>3, <2>3
    <3>1. OneDrives(s)'
      BY <2>1, <3>d DEF Driven, OneDrives
    <3>2. OneAsks(s)'
      BY <1>2, <1>3, <1>4, <1>5, <2>3, <3>a, <3>b, <3>c DEF OneAsks, Undriven, Drivers,
         Spawning, Asks
    <3>3. DriverRow(s)'
      BY <3>e DEF DriverRow, Undriven, Spawning
    <3>4. SpawnRow(s)'
      BY <1>2, <1>3, <1>4, <1>5, <2>3, <3>a, <3>b, <3>c DEF SpawnRow, Undriven, Drivers,
         Spawning, Asks
    <3>5. RetryRow(s)'
      BY <1>2, <1>3, <1>4, <1>5, <2>3, <3>a, <3>b, <3>c DEF RetryRow, Undriven, Drivers,
         Spawning, Asks
    <3>6. DecideRow(s)'
      BY <1>2, <1>3, <1>4, <1>5, <2>3, <3>a, <3>b, <3>c DEF DecideRow, Undriven,
         Drivers, Spawning, Asks
    <3>7. StaleRow(s)'
      BY <1>2, <1>3, <1>4, <1>5, <2>3, <3>a, <3>b, <3>c DEF StaleRow, Held, Undriven,
         Drivers, Spawning, Asks
    <3>8. StuckRow(s)'
      BY <1>2, <1>3, <1>4, <1>5, <2>3, <3>a, <3>b, <3>c DEF StuckRow, IsStuck, Undriven,
         Drivers, Spawning, Asks
    <3> QED
      BY <3>1, <3>2, <3>3, <3>4, <3>5, <3>6, <3>7, <3>8 DEF Driven
  <2> QED
    BY <2>2, <2>3
<1> QED
  BY <1>1, <1>6, <1>7, <1>8, <1>9 DEF Inv

\* A run that ends or pauses has no driver left.
LEMMA DriverSettlesKeeps ==
  ASSUME Inv, NEW p \in Pods, NEW r \in Runs, DriverSettles(p, r)
  PROVE  Inv'
<1>1. TypeOK /\ TypeOK' /\ Created /\ OneSweep /\ Windows /\ Driving
  BY TypeStep DEF Inv, Next
<1>2. task[p][r].running > 0 /\ task[p][r].queued \in Nat /\ task[p][r].running \in Nat
  BY <1>1 DEF DriverSettles, DriverEnds, TypeOK
<1>3. /\ \A s \in Runs \ {r} : run'[s] = run[s]
      /\ run'[r].of = run[r].of
      /\ run'[r].was = run[r].was /\ run'[r].fresh = run[r].fresh
      /\ run'[r].status \in {"done", "error", "awaiting", "cancelled"}
  <2>1. CASE TRUE
    <3>1. \E st \in {"done", "error", "awaiting", "cancelled"} : run' = [run EXCEPT ![r].status = st]
      BY <1>1, <2>1 DEF DriverSettles, DriverEnds
    <3>2. RunType
      BY <1>1 DEF TypeOK, RunType
    <3> QED
      BY <2>1, <3>1, <3>2 DEF RunType, RunType
  <2> QED
    BY <1>1, <2>1 DEF DriverSettles
<1>4. /\ \A q \in Pods, s \in Runs : q # p \/ s # r => task'[q][s] = task[q][s]
      /\ task'[p][r].queued = task[p][r].queued /\ task'[p][r].running = task[p][r].running - 1
  <2>1. CASE TRUE
    <3>1. task' = [task EXCEPT ![p][r].running = @ - 1]
      BY <1>1, <2>1 DEF DriverSettles, DriverEnds
    <3>2. TaskType
      BY <1>1 DEF TypeOK, TaskType
    <3> QED
      BY <2>1, <3>1, <3>2 DEF TaskType, TaskType
  <2> QED
    BY <1>1, <2>1 DEF DriverSettles
<1>5. UNCHANGED <<window, lease, row, made, tick, press, count>>
  BY DEF DriverSettles, DriverEnds
<1>6. Created'
  <2>1. r <= made /\ ~(r > made)
    BY <1>1, <1>2, <1>3, <1>4, <1>5, Existing DEF Drivers
  <2>2. \A q \in Pods, s \in Runs : Drivers(q, s)' > 0 => Drivers(q, s) > 0 \/ s = r
    BY <1>2, <1>3, <1>4, <1>5 DEF Drivers
  <2>3. \A s \in Runs : run'[s].status = "none" <=> s > made
    BY <1>1, <1>2, <1>3, <1>4, <1>5, <2>1 DEF Created
  <2> QED
    BY <1>1, <1>2, <1>3, <1>4, <1>5, <2>1, <2>2, <2>3 DEF Created
<1>7. OneSweep'
  BY <1>1, <1>2, <1>3, <1>4, <1>5 DEF OneSweep
<1>8. Windows'
  BY <1>1, <1>2, <1>3, <1>4, <1>5, MadeRuns DEF Windows
<1>9. Driving'
  <2> SUFFICES ASSUME NEW s \in Runs, s \notin count.crossed, s \notin count'.crossed
               PROVE  Driven(s)'
    BY <1>1, <1>2, <1>3, <1>4, <1>5 DEF Driving
  <2>1. Driven(s)
    BY <1>1 DEF Driving
  <2>2. CASE s # r
    BY <1>1, <1>2, <1>3, <1>4, <1>5, <2>1, <2>2, LessWork DEF Asks
  <2>3. CASE s = r
    <3>a. Drivers(p, s) > 0 /\ Drivers(p, s) <= 1
      BY <1>2, <2>1, <2>3 DEF Driven, OneDrives, Drivers
    <3>b. run[s].fresh /\ run'[s].fresh
      BY <1>3, <2>1, <2>3, <3>a DEF Driven, StaleRow, Held
    <3>c. \A q \in Pods : /\ ~Spawning(q, s) /\ ~Asks(q, "retry", s) /\ ~Asks(q, "decide", s)
                         /\ ~(tick[q].pc \in {"resume", "abandon"} /\ tick[q].run = s)
      BY <2>1, <3>a, <3>b DEF Driven, SpawnRow, RetryRow, DecideRow, StuckRow, IsStuck, Undriven
    <3>d. ASSUME NEW q \in Pods
          PROVE  Drivers(q, s)' = 0 /\ ~(Drivers(q, s)' > 0) /\ ~(task'[q][s].running > 0)
      <4>1. task[q][s].queued \in Nat /\ task[q][s].running \in Nat
        BY <1>1, TaskCounts
      <4>2. CASE q = p
        <5>1. task[q][s].running = 1 /\ task[q][s].queued = 0
          BY <1>2, <2>3, <3>a, <4>1, <4>2 DEF Drivers
        <5>2. task'[q][s].running = 0 /\ task'[q][s].queued = 0
          BY <1>4, <2>3, <4>2, <5>1
        <5> QED
          BY <5>2 DEF Drivers
      <4>3. CASE q # p
        <5>1. ~(Drivers(q, s) > 0) /\ task'[q][s] = task[q][s]
          BY <1>4, <2>1, <2>3, <3>a, <4>3 DEF Driven, OneDrives
        <5>2. task[q][s].running = 0 /\ task[q][s].queued = 0
          BY <4>1, <5>1 DEF Drivers
        <5> QED
          BY <5>1, <5>2 DEF Drivers
      <4> QED
        BY <4>2, <4>3
    <3>1. OneDrives(s)'
      BY <3>d DEF OneDrives
    <3>2. OneAsks(s)'
      BY <1>2, <1>3, <1>4, <1>5, <2>3, <3>b, <3>c DEF OneAsks, Undriven, Drivers,
         Spawning, Asks
    <3>3. DriverRow(s)'
      BY <3>d DEF DriverRow, Undriven, Spawning
    <3>4. SpawnRow(s)'
      BY <1>2, <1>3, <1>4, <1>5, <2>3, <3>b, <3>c DEF SpawnRow, Undriven, Drivers,
         Spawning, Asks
    <3>5. RetryRow(s)'
      BY <1>2, <1>3, <1>4, <1>5, <2>3, <3>b, <3>c DEF RetryRow, Undriven, Drivers,
         Spawning, Asks
    <3>6. DecideRow(s)'
      BY <1>2, <1>3, <1>4, <1>5, <2>3, <3>b, <3>c DEF DecideRow, Undriven, Drivers,
         Spawning, Asks
    <3>7. StaleRow(s)'
      BY <1>2, <1>3, <1>4, <1>5, <2>3, <3>b, <3>c DEF StaleRow, Held, Undriven, Drivers,
         Spawning, Asks
    <3>8. StuckRow(s)'
      BY <1>2, <1>3, <1>4, <1>5, <2>3, <3>b, <3>c DEF StuckRow, IsStuck, Undriven,
         Drivers, Spawning, Asks
    <3> QED
      BY <3>1, <3>2, <3>3, <3>4, <3>5, <3>6, <3>7, <3>8 DEF Driven
  <2> QED
    BY <2>2, <2>3
<1> QED
  BY <1>1, <1>6, <1>7, <1>8, <1>9 DEF Inv

\* A Stop starts nothing.
LEMMA CancelKeeps ==
  ASSUME Inv, NEW p \in Pods, NEW r \in Runs, Cancel(p, r)
  PROVE  Inv'
<1>1. TypeOK /\ TypeOK' /\ Created /\ OneSweep /\ Windows /\ Driving
  BY TypeStep DEF Inv, Next
<1>2. run[r].status # "none"
  BY <1>1 DEF Cancel, Active
<1>3. count'.crossed = count.crossed
  BY <1>1 DEF Cancel, Press, TypeOK
<1>4. /\ \A q \in Pods, o \in {"cancel", "decide", "retry"}, s \in Runs :
           <<q, o, s>> \in press' <=> <<q, o, s>> \in press \/ <<q, o, s>> = <<p, "cancel", r>>
  BY <1>1 DEF Cancel, Press
<1>5. UNCHANGED <<window, lease, row, made, run, task, tick>>
  BY DEF Cancel, Press
<1>6. Created'
  <2>1. r <= made /\ ~(r > made)
    BY <1>1, <1>2, <1>3, <1>4, <1>5, Existing
  <2>2. \A q \in Pods, s \in Runs : Drivers(q, s)' > 0 => Drivers(q, s) > 0 \/ s = r
    BY <1>2, <1>3, <1>4, <1>5 DEF Drivers
  <2>3. \A s \in Runs : run'[s].status = "none" <=> s > made
    BY <1>1, <1>2, <1>3, <1>4, <1>5, <2>1 DEF Created
  <2> QED
    BY <1>1, <1>2, <1>3, <1>4, <1>5, <2>1, <2>2, <2>3 DEF Created
<1>7. OneSweep'
  BY <1>1, <1>2, <1>3, <1>4, <1>5 DEF OneSweep
<1>8. Windows'
  BY <1>1, <1>2, <1>3, <1>4, <1>5, MadeRuns DEF Windows
<1>9. Driving'
  <2> SUFFICES ASSUME NEW s \in Runs, s \notin count.crossed, s \notin count'.crossed
               PROVE  Driven(s)'
    BY <1>1, <1>2, <1>3, <1>4, <1>5 DEF Driving
  <2>1. Driven(s)
    BY <1>1 DEF Driving
  <2> QED
    BY <1>1, <1>2, <1>3, <1>4, <1>5, <2>1, LessWork DEF Asks
<1> QED
  BY <1>1, <1>6, <1>7, <1>8, <1>9 DEF Inv

\* A Stop that lands leaves this pod without a driver of the run.
LEMMA CancelLandsKeeps ==
  ASSUME Inv, NEW p \in Pods, NEW r \in Runs, CancelLands(p, r)
  PROVE  Inv'
<1>1. TypeOK /\ TypeOK' /\ Created /\ OneSweep /\ Windows /\ Driving
  BY TypeStep DEF Inv, Next, Lands
<1>2. Asks(p, "cancel", r)
  BY <1>1 DEF CancelLands, Asks
<1>3. /\ \A q \in Pods, o \in {"cancel", "decide", "retry"}, s \in Runs :
           <<q, o, s>> \in press' <=> <<q, o, s>> \in press /\ <<q, o, s>> # <<p, "cancel", r>>
  BY <1>1 DEF CancelLands
<1>4. /\ \A s \in Runs \ {r} : run'[s] = run[s]
      /\ run'[r].of = run[r].of /\ run'[r].was = run[r].was
      /\ run'[r].fresh = run[r].fresh
      /\ Asks(p, "retry", r) \/ task[p][r].running > 0 => run'[r].status = "cancelled"
      /\ ~Asks(p, "retry", r) /\ ~(task[p][r].running > 0) => run'[r].status = run[r].status
  <2>1. CASE Asks(p, "retry", r)
    <3>1. run' = [run EXCEPT ![r].status = "cancelled"]
      BY <1>1, <2>1 DEF CancelLands, Asks
    <3>2. RunType
      BY <1>1 DEF TypeOK, RunType
    <3> QED
      BY <2>1, <3>1, <3>2 DEF RunType
  <2>2. CASE ~Asks(p, "retry", r) /\ task[p][r].running > 0
    <3>1. run' = [run EXCEPT ![r].status = "cancelled"]
      BY <1>1, <2>2 DEF CancelLands, Asks
    <3>2. RunType
      BY <1>1 DEF TypeOK, RunType
    <3> QED
      BY <2>2, <3>1, <3>2 DEF RunType
  <2>3. CASE ~Asks(p, "retry", r) /\ ~(task[p][r].running > 0)
    <3>1. run' = [run EXCEPT ![r].status = run[r].status]
      BY <1>1, <2>3 DEF CancelLands, Asks
    <3>2. RunType
      BY <1>1 DEF TypeOK, RunType
    <3> QED
      BY <2>3, <3>1, <3>2 DEF RunType
  <2> QED
    BY <1>1, <2>1, <2>2, <2>3 DEF CancelLands
<1>5. /\ \A q \in Pods, s \in Runs : q # p \/ s # r => task'[q][s] = task[q][s]
      /\ Asks(p, "retry", r) => task'[p][r] = task[p][r]
      /\ ~Asks(p, "retry", r) => task'[p][r].queued = 0 /\ task'[p][r].running = 0
  <2>1. CASE Asks(p, "retry", r)
    <3>1. UNCHANGED task
      BY <1>1, <2>1 DEF CancelLands, Asks
    <3>2. TaskType
      BY <1>1 DEF TypeOK, TaskType
    <3> QED
      BY <2>1, <3>1, <3>2 DEF TaskType, NoTask
  <2>2. CASE ~Asks(p, "retry", r)
    <3>1. task' = [task EXCEPT ![p][r] = NoTask]
      BY <1>1, <2>2 DEF CancelLands, Asks
    <3>2. TaskType
      BY <1>1 DEF TypeOK, TaskType
    <3> QED
      BY <2>2, <3>1, <3>2 DEF TaskType, NoTask
  <2> QED
    BY <1>1, <2>1, <2>2 DEF CancelLands
<1>6. UNCHANGED <<window, lease, row, made, tick, count>>
  BY DEF CancelLands
<1>7. Created'
  <2>1. r <= made /\ ~(r > made)
    BY <1>1, <1>2, Existing
  <2>2. \A q \in Pods, s \in Runs : Drivers(q, s)' > 0 => Drivers(q, s) > 0 \/ s = r
    BY <1>2, <1>3, <1>4, <1>5, <1>6 DEF Drivers
  <2>3. \A s \in Runs : run'[s].status = "none" <=> s > made
    BY <1>1, <1>2, <1>3, <1>4, <1>5, <1>6, <2>1 DEF Created
  <2> QED
    BY <1>1, <1>2, <1>3, <1>4, <1>5, <1>6, <2>1, <2>2, <2>3 DEF Created
<1>8. OneSweep'
  BY <1>1, <1>2, <1>3, <1>4, <1>5, <1>6 DEF OneSweep
<1>9. Windows'
  BY <1>1, <1>2, <1>3, <1>4, <1>5, <1>6, MadeRuns DEF Windows
<1>10. Driving'
  <2> SUFFICES ASSUME NEW s \in Runs, s \notin count.crossed, s \notin count'.crossed
               PROVE  Driven(s)'
    BY <1>1, <1>2, <1>3, <1>4, <1>5, <1>6 DEF Driving
  <2>1. Driven(s)
    BY <1>1 DEF Driving
  <2>2. CASE s # r \/ (~Asks(p, "retry", r) /\ ~(task[p][r].running > 0))
    BY <1>1, <1>3, <1>4, <1>5, <1>6, <2>1, <2>2, LessWork DEF Asks
  <2>3. CASE s = r /\ Asks(p, "retry", r)
    <3>a. \A q \in Pods : ~(Drivers(q, s) > 0) /\ ~Spawning(q, s) /\ ~Asks(q, "decide", s)
      BY <2>1, <2>3 DEF Driven, RetryRow, DecideRow, SpawnRow, Undriven
    <3>b. run[s].fresh
      BY <2>1, <2>3 DEF Driven, StaleRow, Held, Asks
    <3>c. \A q \in Pods : task[q][s].queued = 0 /\ task[q][s].running = 0
      BY <1>1, <3>a, NoDriver
    <3>e. \A q \in Pods : ~(tick[q].pc \in {"resume", "abandon"} /\ tick[q].run = s)
      BY <2>1, <3>b DEF Driven, StuckRow, IsStuck
    <3>1. OneDrives(s)'
      BY <1>3, <1>4, <1>5, <1>6, <2>1, <2>3, <3>a, <3>b, <3>c, <3>e DEF OneDrives, Undriven,
         Drivers, Spawning, Asks
    <3>2. OneAsks(s)'
      BY <1>3, <1>4, <1>5, <1>6, <2>1, <2>3, <3>a, <3>b, <3>c, <3>e DEF Driven, OneAsks,
         Undriven, Drivers, Spawning, Asks
    <3>3. DriverRow(s)'
      BY <1>3, <1>4, <1>5, <1>6, <2>1, <2>3, <3>a, <3>b, <3>c, <3>e DEF DriverRow, Undriven,
         Drivers, Spawning, Asks
    <3>4. SpawnRow(s)'
      BY <1>3, <1>4, <1>5, <1>6, <2>1, <2>3, <3>a, <3>b, <3>c, <3>e DEF SpawnRow, Undriven,
         Drivers, Spawning, Asks
    <3>5. RetryRow(s)'
      BY <1>3, <1>4, <1>5, <1>6, <2>1, <2>3, <3>a, <3>b, <3>c, <3>e DEF RetryRow, Undriven,
         Drivers, Spawning, Asks
    <3>6. DecideRow(s)'
      BY <1>3, <1>4, <1>5, <1>6, <2>1, <2>3, <3>a, <3>b, <3>c, <3>e DEF DecideRow, Undriven,
         Drivers, Spawning, Asks
    <3>7. StaleRow(s)'
      BY <1>3, <1>4, <1>5, <1>6, <2>1, <2>3, <3>a, <3>b, <3>c, <3>e DEF StaleRow, Held,
         Undriven, Drivers, Spawning, Asks
    <3>8. StuckRow(s)'
      BY <1>3, <1>4, <1>5, <1>6, <2>1, <2>3, <3>a, <3>b, <3>c, <3>e DEF StuckRow, IsStuck,
         Undriven, Drivers, Spawning, Asks
    <3> QED
      BY <3>1, <3>2, <3>3, <3>4, <3>5, <3>6, <3>7, <3>8 DEF Driven
  <2>4. CASE s = r /\ ~Asks(p, "retry", r) /\ task[p][r].running > 0
    <3>a. Drivers(p, s) > 0
      BY <1>1, <2>4, TaskCounts DEF Drivers
    <3>b. run[s].fresh /\ run'[s].fresh
      BY <1>4, <2>1, <2>4, <3>a DEF Driven, StaleRow, Held
    <3>c. \A q \in Pods : /\ ~Spawning(q, s) /\ ~Asks(q, "retry", s) /\ ~Asks(q, "decide", s)
                         /\ ~(tick[q].pc \in {"resume", "abandon"} /\ tick[q].run = s)
      BY <2>1, <3>a, <3>b DEF Driven, SpawnRow, RetryRow, DecideRow, StuckRow, IsStuck, Undriven
    <3>d. ASSUME NEW q \in Pods PROVE task'[q][s].queued = 0 /\ task'[q][s].running = 0
      <4>1. task[q][s].queued \in Nat /\ task[q][s].running \in Nat
        BY <1>1, TaskCounts
      <4>2. CASE q = p
        BY <1>5, <2>4, <4>2
      <4>3. CASE q # p
        <5>1. ~(Drivers(q, s) > 0) /\ task'[q][s] = task[q][s]
          BY <1>5, <2>1, <2>4, <3>a, <4>3 DEF Driven, OneDrives
        <5> QED
          BY <4>1, <5>1 DEF Drivers
      <4> QED
        BY <4>2, <4>3
    <3>1. OneDrives(s)'
      BY <1>3, <1>4, <1>5, <1>6, <2>4, <3>b, <3>c, <3>d DEF OneDrives, Undriven, Drivers,
         Spawning, Asks
    <3>2. OneAsks(s)'
      BY <1>3, <1>4, <1>5, <1>6, <2>4, <3>b, <3>c, <3>d DEF OneAsks, Undriven, Drivers,
         Spawning, Asks
    <3>3. DriverRow(s)'
      BY <1>3, <1>4, <1>5, <1>6, <2>4, <3>b, <3>c, <3>d DEF DriverRow, Undriven, Drivers,
         Spawning, Asks
    <3>4. SpawnRow(s)'
      BY <1>3, <1>4, <1>5, <1>6, <2>4, <3>b, <3>c, <3>d DEF SpawnRow, Undriven, Drivers,
         Spawning, Asks
    <3>5. RetryRow(s)'
      BY <1>3, <1>4, <1>5, <1>6, <2>4, <3>b, <3>c, <3>d DEF RetryRow, Undriven, Drivers,
         Spawning, Asks
    <3>6. DecideRow(s)'
      BY <1>3, <1>4, <1>5, <1>6, <2>4, <3>b, <3>c, <3>d DEF DecideRow, Undriven, Drivers,
         Spawning, Asks
    <3>7. StaleRow(s)'
      BY <1>3, <1>4, <1>5, <1>6, <2>4, <3>b, <3>c, <3>d DEF StaleRow, Held, Undriven,
         Drivers, Spawning, Asks
    <3>8. StuckRow(s)'
      BY <1>3, <1>4, <1>5, <1>6, <2>4, <3>b, <3>c, <3>d DEF StuckRow, IsStuck, Undriven,
         Drivers, Spawning, Asks
    <3> QED
      BY <3>1, <3>2, <3>3, <3>4, <3>5, <3>6, <3>7, <3>8 DEF Driven
  <2> QED
    BY <2>2, <2>3, <2>4
<1> QED
  BY <1>1, <1>7, <1>8, <1>9, <1>10 DEF Inv

\* A gate is answered where nobody drives.
LEMMA DecideKeeps ==
  ASSUME Inv, NEW p \in Pods, NEW r \in Runs, Decide(p, r)
  PROVE  Inv'
<1>1. TypeOK /\ TypeOK' /\ Created /\ OneSweep /\ Windows /\ Driving
  BY TypeStep DEF Inv, Next
<1>2. run[r].status = "awaiting"
  BY <1>1 DEF Decide
<1>3. /\ count.crossed \subseteq count'.crossed
      /\ r \in count'.crossed \/ \A q \in Pods : <<q, "decide", r>> \notin press
  BY <1>1 DEF Decide, Press, TypeOK
<1>4. /\ \A q \in Pods, o \in {"cancel", "decide", "retry"}, s \in Runs :
           <<q, o, s>> \in press' <=> <<q, o, s>> \in press \/ <<q, o, s>> = <<p, "decide", r>>
  BY <1>1 DEF Decide, Press
<1>5. UNCHANGED <<window, lease, row, made, run, task, heard, tick>>
  BY DEF Decide, Press
<1>6. Created'
  <2>1. r <= made /\ ~(r > made)
    BY <1>1, <1>2, <1>3, <1>4, <1>5, Existing
  <2>2. \A q \in Pods, s \in Runs : Drivers(q, s)' > 0 => Drivers(q, s) > 0 \/ s = r
    BY <1>2, <1>3, <1>4, <1>5 DEF Drivers
  <2>3. \A s \in Runs : run'[s].status = "none" <=> s > made
    BY <1>1, <1>2, <1>3, <1>4, <1>5, <2>1 DEF Created
  <2> QED
    BY <1>1, <1>2, <1>3, <1>4, <1>5, <2>1, <2>2, <2>3 DEF Created
<1>7. OneSweep'
  BY <1>1, <1>2, <1>3, <1>4, <1>5 DEF OneSweep
<1>8. Windows'
  BY <1>1, <1>2, <1>3, <1>4, <1>5, MadeRuns DEF Windows
<1>9. Driving'
  <2> SUFFICES ASSUME NEW s \in Runs, s \notin count.crossed, s \notin count'.crossed
               PROVE  Driven(s)'
    BY <1>1, <1>2, <1>3, <1>4, <1>5 DEF Driving
  <2>1. Driven(s)
    BY <1>1 DEF Driving
  <2>2. CASE s # r
    BY <1>1, <1>2, <1>3, <1>4, <1>5, <2>1, <2>2, LessWork DEF Asks
  <2>3. CASE s = r
    <3>a. \A q \in Pods : ~(Drivers(q, s) > 0) /\ ~Spawning(q, s) /\ ~Asks(q, "retry", s)
      BY <1>2, <2>1, <2>3 DEF Driven, DriverRow, SpawnRow, RetryRow
    <3>b. run[s].fresh
      BY <1>2, <2>1, <2>3 DEF Driven, StaleRow
    <3>c. \A q \in Pods : task[q][s].queued = 0 /\ task[q][s].running = 0
      BY <1>1, <3>a, NoDriver
    <3>e. \A q \in Pods : ~(tick[q].pc \in {"resume", "abandon"} /\ tick[q].run = s)
      BY <2>1, <3>b DEF Driven, StuckRow, IsStuck
    <3>1. OneDrives(s)'
      BY <1>2, <1>3, <1>4, <1>5, <2>3, <3>a, <3>b, <3>c, <3>e DEF OneDrives, Undriven,
         Drivers, Spawning, Asks
    <3>2. OneAsks(s)'
      BY <1>2, <1>3, <1>4, <1>5, <2>3, <3>a, <3>b, <3>c, <3>e DEF OneAsks, Undriven,
         Drivers, Spawning, Asks
    <3>3. DriverRow(s)'
      BY <1>2, <1>3, <1>4, <1>5, <2>3, <3>a, <3>b, <3>c, <3>e DEF DriverRow, Undriven,
         Drivers, Spawning, Asks
    <3>4. SpawnRow(s)'
      BY <1>2, <1>3, <1>4, <1>5, <2>3, <3>a, <3>b, <3>c, <3>e DEF SpawnRow, Undriven,
         Drivers, Spawning, Asks
    <3>5. RetryRow(s)'
      BY <1>2, <1>3, <1>4, <1>5, <2>3, <3>a, <3>b, <3>c, <3>e DEF RetryRow, Undriven,
         Drivers, Spawning, Asks
    <3>6. DecideRow(s)'
      BY <1>2, <1>3, <1>4, <1>5, <2>3, <3>a, <3>b, <3>c, <3>e DEF DecideRow, Undriven,
         Drivers, Spawning, Asks
    <3>7. StaleRow(s)'
      BY <1>2, <1>3, <1>4, <1>5, <2>3, <3>a, <3>b, <3>c, <3>e DEF StaleRow, Held,
         Undriven, Drivers, Spawning, Asks
    <3>8. StuckRow(s)'
      BY <1>2, <1>3, <1>4, <1>5, <2>3, <3>a, <3>b, <3>c, <3>e DEF StuckRow, IsStuck,
         Undriven, Drivers, Spawning, Asks
    <3> QED
      BY <3>1, <3>2, <3>3, <3>4, <3>5, <3>6, <3>7, <3>8 DEF Driven
  <2> QED
    BY <2>2, <2>3
<1> QED
  BY <1>1, <1>6, <1>7, <1>8, <1>9 DEF Inv

\* The answered run gets one driver.
LEMMA DecideLandsKeeps ==
  ASSUME Inv, NEW p \in Pods, NEW r \in Runs, DecideLands(p, r)
  PROVE  Inv'
<1>1. TypeOK /\ TypeOK' /\ Created /\ OneSweep /\ Windows /\ Driving
  BY TypeStep DEF Inv, Next, Lands
<1>2. Asks(p, "decide", r)
  BY <1>1 DEF DecideLands, Asks
<1>3. /\ \A q \in Pods, o \in {"cancel", "decide", "retry"}, s \in Runs :
           <<q, o, s>> \in press' <=> <<q, o, s>> \in press /\ <<q, o, s>> # <<p, "decide", r>>
  BY <1>1 DEF DecideLands
<1>4. /\ \A s \in Runs \ {r} : run'[s] = run[s]
      /\ run'[r].of = run[r].of /\ run'[r].was = run[r].was
      /\ r = made => run'[r].status = "running" /\ run'[r].fresh
      /\ ~(r = made) => run'[r] = run[r]
  <2>1. CASE r = made
    <3>1. run' = [run EXCEPT ![r].status = "running", ![r].fresh = TRUE]
      BY <1>1, <2>1 DEF DecideLands
    <3>2. RunType
      BY <1>1 DEF TypeOK, RunType
    <3> QED
      BY <2>1, <3>1, <3>2 DEF RunType
  <2>2. CASE ~(r = made)
    <3>1. UNCHANGED <<run, task>>
      BY <1>1, <2>2 DEF DecideLands
    <3>2. RunType
      BY <1>1 DEF TypeOK, RunType
    <3> QED
      BY <2>2, <3>1, <3>2 DEF RunType
  <2> QED
    BY <1>1, <2>1, <2>2 DEF DecideLands
<1>5. /\ \A q \in Pods, s \in Runs : q # p \/ s # r => task'[q][s] = task[q][s]
      /\ r = made => task'[p][r].queued = task[p][r].queued + 1 /\ task'[p][r].running = task[p][r].running
      /\ ~(r = made) => task'[p][r] = task[p][r]
  <2>1. CASE r = made
    <3>1. task' = [task EXCEPT ![p][r].queued = @ + 1]
      BY <1>1, <2>1 DEF DecideLands, Spawn
    <3>2. TaskType
      BY <1>1 DEF TypeOK, TaskType
    <3> QED
      BY <2>1, <3>1, <3>2 DEF TaskType
  <2>2. CASE ~(r = made)
    <3>1. UNCHANGED <<run, task>>
      BY <1>1, <2>2 DEF DecideLands
    <3>2. TaskType
      BY <1>1 DEF TypeOK, TaskType
    <3> QED
      BY <2>2, <3>1, <3>2 DEF TaskType
  <2> QED
    BY <1>1, <2>1, <2>2 DEF DecideLands
<1>6. UNCHANGED <<window, lease, row, made, heard, tick, count>>
  BY DEF DecideLands
<1>7. Created'
  <2>1. r <= made /\ ~(r > made)
    BY <1>1, <1>2, Existing
  <2>2. \A q \in Pods, s \in Runs : Drivers(q, s)' > 0 => Drivers(q, s) > 0 \/ s = r
    BY <1>2, <1>3, <1>4, <1>5, <1>6 DEF Drivers
  <2>3. \A s \in Runs : run'[s].status = "none" <=> s > made
    BY <1>1, <1>2, <1>3, <1>4, <1>5, <1>6, <2>1 DEF Created
  <2> QED
    BY <1>1, <1>2, <1>3, <1>4, <1>5, <1>6, <2>1, <2>2, <2>3 DEF Created
<1>8. OneSweep'
  BY <1>1, <1>2, <1>3, <1>4, <1>5, <1>6 DEF OneSweep
<1>9. Windows'
  BY <1>1, <1>2, <1>3, <1>4, <1>5, <1>6, MadeRuns DEF Windows
<1>10. Driving'
  <2> SUFFICES ASSUME NEW s \in Runs, s \notin count.crossed, s \notin count'.crossed
               PROVE  Driven(s)'
    BY <1>1, <1>2, <1>3, <1>4, <1>5, <1>6 DEF Driving
  <2>1. Driven(s)
    BY <1>1 DEF Driving
  <2>2. CASE s # r \/ ~(r = made)
    BY <1>1, <1>2, <1>3, <1>4, <1>5, <1>6, <2>1, <2>2, LessWork DEF Asks
  <2>3. CASE s = r /\ r = made
    <3>a. /\ \A q \in Pods : ~(Drivers(q, s) > 0) /\ ~Spawning(q, s) /\ ~Asks(q, "retry", s)
          /\ run[s].fresh
      BY <1>2, <2>1, <2>3 DEF Driven, RetryRow, DecideRow, SpawnRow, StaleRow, Held,
         Undriven, Asks
    <3>c. \A q \in Pods : task[q][s].queued = 0 /\ task[q][s].running = 0
      BY <1>1, <3>a, NoDriver
    <3>e. \A q \in Pods : /\ ~(tick[q].pc \in {"resume", "abandon"} /\ tick[q].run = s)
                         /\ ~Asks(q, "decide", s)'
      BY <1>2, <1>3, <2>1, <2>3, <3>a DEF Driven, StuckRow, IsStuck, OneAsks, Asks
    <3>d. ASSUME NEW q \in Pods
          PROVE  /\ Drivers(q, s)' \in {0, 1} /\ (Drivers(q, s)' > 0 => q = p)
                 /\ task'[q][s].running = 0
      BY <1>5, <2>3, <3>c DEF Drivers
    <3>f. run'[s].status = "running" /\ run'[s].fresh
      BY <1>4, <2>3
    <3>1. OneDrives(s)'
      BY <3>d DEF OneDrives
    <3>2. OneAsks(s)'
      BY <1>2, <1>3, <1>4, <1>5, <1>6, <2>3, <3>a, <3>c, <3>e, <3>f DEF OneAsks,
         Undriven, Drivers, Spawning, Asks
    <3>3. DriverRow(s)'
      BY <3>d, <3>f DEF DriverRow, Undriven, Spawning
    <3>4. SpawnRow(s)'
      BY <1>2, <1>3, <1>4, <1>5, <1>6, <2>3, <3>a, <3>c, <3>e, <3>f DEF SpawnRow,
         Undriven, Drivers, Spawning, Asks
    <3>5. RetryRow(s)'
      BY <1>2, <1>3, <1>4, <1>5, <1>6, <2>3, <3>a, <3>c, <3>e, <3>f DEF RetryRow,
         Undriven, Drivers, Spawning, Asks
    <3>6. DecideRow(s)'
      BY <1>2, <1>3, <1>4, <1>5, <1>6, <2>3, <3>a, <3>c, <3>e, <3>f DEF DecideRow,
         Undriven, Drivers, Spawning, Asks
    <3>7. StaleRow(s)'
      BY <1>2, <1>3, <1>4, <1>5, <1>6, <2>3, <3>a, <3>c, <3>e, <3>f DEF StaleRow, Held,
         Undriven, Drivers, Spawning, Asks
    <3>8. StuckRow(s)'
      BY <1>2, <1>3, <1>4, <1>5, <1>6, <2>3, <3>a, <3>c, <3>e, <3>f DEF StuckRow,
         IsStuck, Undriven, Drivers, Spawning, Asks
    <3> QED
      BY <3>1, <3>2, <3>3, <3>4, <3>5, <3>6, <3>7, <3>8 DEF Driven
  <2> QED
    BY <2>2, <2>3
<1> QED
  BY <1>1, <1>7, <1>8, <1>9, <1>10 DEF Inv

\* An ended run is claimed where nobody drives.
LEMMA RetryKeeps ==
  ASSUME Inv, NEW p \in Pods, NEW r \in Runs, Retry(p, r)
  PROVE  Inv'
<1>1. TypeOK /\ TypeOK' /\ Created /\ OneSweep /\ Windows /\ Driving
  BY TypeStep DEF Inv, Next
<1>2. run[r].status \in {"error", "cancelled"}
  BY <1>1 DEF Retry, Retryable
<1>3. /\ count.crossed \subseteq count'.crossed
      /\ r \in count'.crossed \/ \A q \in Pods : <<q, "retry", r>> \notin press
  BY <1>1 DEF Retry, Press, TypeOK
<1>4. /\ \A q \in Pods, o \in {"cancel", "decide", "retry"}, s \in Runs :
           <<q, o, s>> \in press' <=> <<q, o, s>> \in press \/ <<q, o, s>> = <<p, "retry", r>>
  BY <1>1 DEF Retry, Press
<1>5. /\ \A s \in Runs \ {r} : run'[s] = run[s]
      /\ run'[r].of = run[r].of
      /\ run'[r].status = "pending" /\ run'[r].fresh = run[r].fresh /\ run'[r].was \in Over
  <2>1. CASE TRUE
    <3>1. run' = [run EXCEPT ![r].status = "pending", ![r].was = run[r].status]
      BY <1>1, <1>2, <2>1 DEF Retry
    <3>2. RunType
      BY <1>1 DEF TypeOK, RunType
    <3> QED
      BY <1>2, <2>1, <3>1, <3>2 DEF RunType, Over
  <2> QED
    BY <1>1, <1>2, <2>1 DEF Retry
<1>6. UNCHANGED <<window, lease, row, made, task, heard, tick>>
  BY DEF Retry, Press
<1>7. Created'
  <2>1. r <= made /\ ~(r > made)
    BY <1>1, <1>2, <1>3, <1>4, <1>5, <1>6, Existing
  <2>2. \A q \in Pods, s \in Runs : Drivers(q, s)' > 0 => Drivers(q, s) > 0 \/ s = r
    BY <1>2, <1>3, <1>4, <1>5, <1>6 DEF Drivers
  <2>3. \A s \in Runs : run'[s].status = "none" <=> s > made
    BY <1>1, <1>2, <1>3, <1>4, <1>5, <1>6, <2>1 DEF Created
  <2> QED
    BY <1>1, <1>2, <1>3, <1>4, <1>5, <1>6, <2>1, <2>2, <2>3 DEF Created
<1>8. OneSweep'
  BY <1>1, <1>2, <1>3, <1>4, <1>5, <1>6 DEF OneSweep
<1>9. Windows'
  BY <1>1, <1>2, <1>3, <1>4, <1>5, <1>6, MadeRuns DEF Windows
<1>10. Driving'
  <2> SUFFICES ASSUME NEW s \in Runs, s \notin count.crossed, s \notin count'.crossed
               PROVE  Driven(s)'
    BY <1>1, <1>2, <1>3, <1>4, <1>5, <1>6 DEF Driving
  <2>1. Driven(s)
    BY <1>1 DEF Driving
  <2>2. CASE s # r
    BY <1>1, <1>2, <1>3, <1>4, <1>5, <1>6, <2>1, <2>2, LessWork DEF Asks
  <2>3. CASE s = r
    <3>a. \A q \in Pods : ~(Drivers(q, s) > 0) /\ ~Spawning(q, s) /\ ~Asks(q, "decide", s)
      BY <1>2, <2>1, <2>3 DEF Driven, DriverRow, SpawnRow, DecideRow
    <3>b. run[s].fresh
      BY <1>2, <2>1, <2>3 DEF Driven, StaleRow
    <3>c. \A q \in Pods : task[q][s].queued = 0 /\ task[q][s].running = 0
      BY <1>1, <3>a, NoDriver
    <3>e. \A q \in Pods : ~(tick[q].pc \in {"resume", "abandon"} /\ tick[q].run = s)
      BY <2>1, <3>b DEF Driven, StuckRow, IsStuck
    <3>1. OneDrives(s)'
      BY <1>2, <1>3, <1>4, <1>5, <1>6, <2>3, <3>a, <3>b, <3>c, <3>e DEF OneDrives,
         Undriven, Drivers, Spawning, Asks
    <3>2. OneAsks(s)'
      BY <1>2, <1>3, <1>4, <1>5, <1>6, <2>3, <3>a, <3>b, <3>c, <3>e DEF OneAsks,
         Undriven, Drivers, Spawning, Asks
    <3>3. DriverRow(s)'
      BY <1>2, <1>3, <1>4, <1>5, <1>6, <2>3, <3>a, <3>b, <3>c, <3>e DEF DriverRow,
         Undriven, Drivers, Spawning, Asks
    <3>4. SpawnRow(s)'
      BY <1>2, <1>3, <1>4, <1>5, <1>6, <2>3, <3>a, <3>b, <3>c, <3>e DEF SpawnRow,
         Undriven, Drivers, Spawning, Asks
    <3>5. RetryRow(s)'
      BY <1>2, <1>3, <1>4, <1>5, <1>6, <2>3, <3>a, <3>b, <3>c, <3>e DEF RetryRow,
         Undriven, Drivers, Spawning, Asks
    <3>6. DecideRow(s)'
      BY <1>2, <1>3, <1>4, <1>5, <1>6, <2>3, <3>a, <3>b, <3>c, <3>e DEF DecideRow,
         Undriven, Drivers, Spawning, Asks
    <3>7. StaleRow(s)'
      BY <1>2, <1>3, <1>4, <1>5, <1>6, <2>3, <3>a, <3>b, <3>c, <3>e DEF StaleRow, Held,
         Undriven, Drivers, Spawning, Asks
    <3>8. StuckRow(s)'
      BY <1>2, <1>3, <1>4, <1>5, <1>6, <2>3, <3>a, <3>b, <3>c, <3>e DEF StuckRow,
         IsStuck, Undriven, Drivers, Spawning, Asks
    <3> QED
      BY <3>1, <3>2, <3>3, <3>4, <3>5, <3>6, <3>7, <3>8 DEF Driven
  <2> QED
    BY <2>2, <2>3
<1> QED
  BY <1>1, <1>7, <1>8, <1>9, <1>10 DEF Inv

\* The continued run gets one driver.
LEMMA RetryLandsKeeps ==
  ASSUME Inv, NEW p \in Pods, NEW r \in Runs, RetryLands(p, r)
  PROVE  Inv'
<1>1. TypeOK /\ TypeOK' /\ Created /\ OneSweep /\ Windows /\ Driving
  BY TypeStep DEF Inv, Next, Lands
<1>2. Asks(p, "retry", r)
  BY <1>1 DEF RetryLands, Asks
<1>3. /\ \A q \in Pods, o \in {"cancel", "decide", "retry"}, s \in Runs :
           <<q, o, s>> \in press' <=> <<q, o, s>> \in press /\ <<q, o, s>> # <<p, "retry", r>>
  BY <1>1 DEF RetryLands
<1>4. /\ \A s \in Runs \ {r} : run'[s] = run[s]
      /\ run'[r].of = run[r].of /\ run'[r].was = run[r].was
      /\ Proceeds(r) => run'[r].status = "running" /\ run'[r].fresh
      /\ ~(Proceeds(r)) => run'[r] = run[r]
  <2>1. CASE Proceeds(r)
    <3>1. run' = [run EXCEPT ![r].status = "running", ![r].fresh = TRUE]
      BY <1>1, <2>1 DEF RetryLands
    <3>2. RunType
      BY <1>1 DEF TypeOK, RunType
    <3> QED
      BY <2>1, <3>1, <3>2 DEF RunType
  <2>2. CASE ~(Proceeds(r))
    <3>1. UNCHANGED <<run, task>>
      BY <1>1, <2>2 DEF RetryLands
    <3>2. RunType
      BY <1>1 DEF TypeOK, RunType
    <3> QED
      BY <2>2, <3>1, <3>2 DEF RunType
  <2> QED
    BY <1>1, <2>1, <2>2 DEF RetryLands
<1>5. /\ \A q \in Pods, s \in Runs : q # p \/ s # r => task'[q][s] = task[q][s]
      /\ Proceeds(r) => task'[p][r].queued = task[p][r].queued + 1 /\ task'[p][r].running = task[p][r].running
      /\ ~(Proceeds(r)) => task'[p][r] = task[p][r]
  <2>1. CASE Proceeds(r)
    <3>1. task' = [task EXCEPT ![p][r].queued = @ + 1]
      BY <1>1, <2>1 DEF RetryLands, Spawn
    <3>2. TaskType
      BY <1>1 DEF TypeOK, TaskType
    <3> QED
      BY <2>1, <3>1, <3>2 DEF TaskType
  <2>2. CASE ~(Proceeds(r))
    <3>1. UNCHANGED <<run, task>>
      BY <1>1, <2>2 DEF RetryLands
    <3>2. TaskType
      BY <1>1 DEF TypeOK, TaskType
    <3> QED
      BY <2>2, <3>1, <3>2 DEF TaskType
  <2> QED
    BY <1>1, <2>1, <2>2 DEF RetryLands
<1>6. UNCHANGED <<window, lease, row, made, heard, tick, count>>
  BY DEF RetryLands
<1>7. Created'
  <2>1. r <= made /\ ~(r > made)
    BY <1>1, <1>2, Existing
  <2>2. \A q \in Pods, s \in Runs : Drivers(q, s)' > 0 => Drivers(q, s) > 0 \/ s = r
    BY <1>2, <1>3, <1>4, <1>5, <1>6 DEF Drivers
  <2>3. \A s \in Runs : run'[s].status = "none" <=> s > made
    BY <1>1, <1>2, <1>3, <1>4, <1>5, <1>6, <2>1 DEF Created
  <2> QED
    BY <1>1, <1>2, <1>3, <1>4, <1>5, <1>6, <2>1, <2>2, <2>3 DEF Created
<1>8. OneSweep'
  BY <1>1, <1>2, <1>3, <1>4, <1>5, <1>6 DEF OneSweep
<1>9. Windows'
  BY <1>1, <1>2, <1>3, <1>4, <1>5, <1>6, MadeRuns DEF Windows
<1>10. Driving'
  <2> SUFFICES ASSUME NEW s \in Runs, s \notin count.crossed, s \notin count'.crossed
               PROVE  Driven(s)'
    BY <1>1, <1>2, <1>3, <1>4, <1>5, <1>6 DEF Driving
  <2>1. Driven(s)
    BY <1>1 DEF Driving
  <2>2. CASE s # r \/ ~(Proceeds(r))
    BY <1>1, <1>2, <1>3, <1>4, <1>5, <1>6, <2>1, <2>2, LessWork DEF Asks
  <2>3. CASE s = r /\ Proceeds(r)
    <3>a. /\ \A q \in Pods : ~(Drivers(q, s) > 0) /\ ~Spawning(q, s) /\ ~Asks(q, "decide", s)
          /\ run[s].fresh
      BY <1>2, <2>1, <2>3 DEF Driven, RetryRow, DecideRow, SpawnRow, StaleRow, Held,
         Undriven, Asks
    <3>c. \A q \in Pods : task[q][s].queued = 0 /\ task[q][s].running = 0
      BY <1>1, <3>a, NoDriver
    <3>e. \A q \in Pods : /\ ~(tick[q].pc \in {"resume", "abandon"} /\ tick[q].run = s)
                         /\ ~Asks(q, "retry", s)'
      BY <1>2, <1>3, <2>1, <2>3, <3>a DEF Driven, StuckRow, IsStuck, OneAsks, Asks
    <3>d. ASSUME NEW q \in Pods
          PROVE  /\ Drivers(q, s)' \in {0, 1} /\ (Drivers(q, s)' > 0 => q = p)
                 /\ task'[q][s].running = 0
      BY <1>5, <2>3, <3>c DEF Drivers
    <3>f. run'[s].status = "running" /\ run'[s].fresh
      BY <1>4, <2>3
    <3>1. OneDrives(s)'
      BY <3>d DEF OneDrives
    <3>2. OneAsks(s)'
      BY <1>2, <1>3, <1>4, <1>5, <1>6, <2>3, <3>a, <3>c, <3>e, <3>f DEF OneAsks,
         Undriven, Drivers, Spawning, Asks
    <3>3. DriverRow(s)'
      BY <3>d, <3>f DEF DriverRow, Undriven, Spawning
    <3>4. SpawnRow(s)'
      BY <1>2, <1>3, <1>4, <1>5, <1>6, <2>3, <3>a, <3>c, <3>e, <3>f DEF SpawnRow,
         Undriven, Drivers, Spawning, Asks
    <3>5. RetryRow(s)'
      BY <1>2, <1>3, <1>4, <1>5, <1>6, <2>3, <3>a, <3>c, <3>e, <3>f DEF RetryRow,
         Undriven, Drivers, Spawning, Asks
    <3>6. DecideRow(s)'
      BY <1>2, <1>3, <1>4, <1>5, <1>6, <2>3, <3>a, <3>c, <3>e, <3>f DEF DecideRow,
         Undriven, Drivers, Spawning, Asks
    <3>7. StaleRow(s)'
      BY <1>2, <1>3, <1>4, <1>5, <1>6, <2>3, <3>a, <3>c, <3>e, <3>f DEF StaleRow, Held,
         Undriven, Drivers, Spawning, Asks
    <3>8. StuckRow(s)'
      BY <1>2, <1>3, <1>4, <1>5, <1>6, <2>3, <3>a, <3>c, <3>e, <3>f DEF StuckRow,
         IsStuck, Undriven, Drivers, Spawning, Asks
    <3> QED
      BY <3>1, <3>2, <3>3, <3>4, <3>5, <3>6, <3>7, <3>8 DEF Driven
  <2> QED
    BY <2>2, <2>3
<1> QED
  BY <1>1, <1>7, <1>8, <1>9, <1>10 DEF Inv

\* A refused continue gives the row back as it was.
LEMMA RefusedKeeps ==
  ASSUME Inv, NEW p \in Pods, NEW r \in Runs, NEW op \in {"decide", "retry"}, Refused(p, r, op)
  PROVE  Inv'
<1>1. TypeOK /\ TypeOK' /\ Created /\ OneSweep /\ Windows /\ Driving
  BY TypeStep DEF Inv, Next, Lands
<1>2. Asks(p, op, r) /\ (op = "retry" => run[r].was \in Over)
  BY <1>1 DEF Refused, Asks, Created
<1>3. /\ \A q \in Pods, o \in {"cancel", "decide", "retry"}, s \in Runs :
           <<q, o, s>> \in press' <=> <<q, o, s>> \in press /\ <<q, o, s>> # <<p, op, r>>
  BY <1>1 DEF Refused
<1>4. /\ \A s \in Runs \ {r} : run'[s] = run[s]
      /\ run'[r].of = run[r].of /\ run'[r].was = run[r].was
      /\ run'[r].fresh = run[r].fresh /\ run'[r].status # "none"
      /\ run'[r].status = run[r].status \/ (op = "retry" /\ Proceeds(r))
  <2>1. CASE op = "retry" /\ Proceeds(r)
    <3>1. run' = [run EXCEPT ![r].status = run[r].was]
      BY <1>1, <1>2, Existing, <1>1, <2>1 DEF Refused
    <3>2. RunType
      BY <1>1 DEF TypeOK, RunType
    <3> QED
      BY <1>2, Existing, <1>1, <2>1, <3>1, <3>2 DEF RunType, Over
  <2>2. CASE ~(op = "retry" /\ Proceeds(r))
    <3>1. run' = [run EXCEPT ![r].status = run[r].status]
      BY <1>1, <1>2, Existing, <1>1, <2>2 DEF Refused
    <3>2. RunType
      BY <1>1 DEF TypeOK, RunType
    <3> QED
      BY <1>2, Existing, <1>1, <2>2, <3>1, <3>2 DEF RunType, Over
  <2> QED
    BY <1>1, <1>2, Existing, <1>1, <2>1, <2>2 DEF Refused
<1>5. count'.crossed = count.crossed
  BY <1>1 DEF Refused, Fault, TypeOK
<1>6. UNCHANGED <<window, lease, row, made, task, heard, tick>>
  BY DEF Refused
<1>7. Created'
  <2>1. r <= made /\ ~(r > made)
    BY <1>1, <1>2, Existing
  <2>2. \A q \in Pods, s \in Runs : Drivers(q, s)' > 0 => Drivers(q, s) > 0 \/ s = r
    BY <1>2, <1>3, <1>4, <1>5, <1>6 DEF Drivers
  <2>3. \A s \in Runs : run'[s].status = "none" <=> s > made
    BY <1>1, <1>2, <1>3, <1>4, <1>5, <1>6, <2>1 DEF Created
  <2> QED
    BY <1>1, <1>2, <1>3, <1>4, <1>5, <1>6, <2>1, <2>2, <2>3 DEF Created
<1>8. OneSweep'
  BY <1>1, <1>2, <1>3, <1>4, <1>5, <1>6 DEF OneSweep
<1>9. Windows'
  BY <1>1, <1>2, <1>3, <1>4, <1>5, <1>6, MadeRuns DEF Windows
<1>10. Driving'
  <2> SUFFICES ASSUME NEW s \in Runs, s \notin count.crossed, s \notin count'.crossed
               PROVE  Driven(s)'
    BY <1>1, <1>2, <1>3, <1>4, <1>5, <1>6 DEF Driving
  <2>1. Driven(s)
    BY <1>1 DEF Driving
  <2>2. CASE s # r \/ run'[r].status = run[r].status
    BY <1>1, <1>3, <1>4, <1>5, <1>6, <2>1, <2>2, LessWork DEF Asks
  <2>3. CASE s = r /\ op = "retry" /\ Proceeds(r)
    <3>a. /\ \A q \in Pods : ~(Drivers(q, s) > 0) /\ ~Spawning(q, s) /\ ~Asks(q, "decide", s)
          /\ run[s].fresh
      BY <1>2, <2>1, <2>3 DEF Driven, RetryRow, DecideRow, SpawnRow, StaleRow, Held,
         Undriven, Asks
    <3>c. \A q \in Pods : task[q][s].queued = 0 /\ task[q][s].running = 0
      BY <1>1, <3>a, NoDriver
    <3>e. \A q \in Pods : /\ ~(tick[q].pc \in {"resume", "abandon"} /\ tick[q].run = s)
                         /\ ~Asks(q, "retry", s)'
      BY <1>2, <1>3, <2>1, <2>3, <3>a DEF Driven, StuckRow, IsStuck, OneAsks, Asks
    <3>1. OneDrives(s)'
      BY <1>3, <1>4, <1>5, <1>6, <2>3, <3>a, <3>c, <3>e DEF OneDrives, Undriven, Drivers,
         Spawning, Asks
    <3>2. OneAsks(s)'
      BY <1>3, <1>4, <1>5, <1>6, <2>3, <3>a, <3>c, <3>e DEF OneAsks, Undriven, Drivers,
         Spawning, Asks
    <3>3. DriverRow(s)'
      BY <1>3, <1>4, <1>5, <1>6, <2>3, <3>a, <3>c, <3>e DEF DriverRow, Undriven, Drivers,
         Spawning, Asks
    <3>4. SpawnRow(s)'
      BY <1>3, <1>4, <1>5, <1>6, <2>3, <3>a, <3>c, <3>e DEF SpawnRow, Undriven, Drivers,
         Spawning, Asks
    <3>5. RetryRow(s)'
      BY <1>3, <1>4, <1>5, <1>6, <2>3, <3>a, <3>c, <3>e DEF RetryRow, Undriven, Drivers,
         Spawning, Asks
    <3>6. DecideRow(s)'
      BY <1>3, <1>4, <1>5, <1>6, <2>3, <3>a, <3>c, <3>e DEF DecideRow, Undriven, Drivers,
         Spawning, Asks
    <3>7. StaleRow(s)'
      BY <1>3, <1>4, <1>5, <1>6, <2>3, <3>a, <3>c, <3>e DEF StaleRow, Held, Undriven,
         Drivers, Spawning, Asks
    <3>8. StuckRow(s)'
      BY <1>3, <1>4, <1>5, <1>6, <2>3, <3>a, <3>c, <3>e DEF StuckRow, IsStuck, Undriven,
         Drivers, Spawning, Asks
    <3> QED
      BY <3>1, <3>2, <3>3, <3>4, <3>5, <3>6, <3>7, <3>8 DEF Driven
  <2> QED
    BY <1>4, <2>2, <2>3
<1> QED
  BY <1>1, <1>7, <1>8, <1>9, <1>10 DEF Inv

-----------------------------------------------------------------------------
(* The theorems                                                             *)

\* The invariant holds when no pod has done anything yet.
LEMMA InvInit == Init => Inv
<1> SUFFICES ASSUME Init PROVE Inv
  OBVIOUS
<1>1. TypeOK
  BY BoundsAssumption DEF Init, TypeOK, NoRun, NoTask, Idle, Steps, Active, Over, Runs
<1>2. /\ made = 0 /\ press = {} /\ row.run = None /\ row.window = 0 /\ window = 1
      /\ \A r \in Runs : run[r].status = "none" /\ run[r].fresh
      /\ \A p \in Pods : tick[p].pc = "idle"
      /\ \A p \in Pods, r \in Runs : Drivers(p, r) = 0 /\ task[p][r].running = 0
  BY DEF Init, NoRun, NoTask, Idle, Drivers
<1>3. Created
  BY <1>2 DEF Created, Runs
<1>4. OneSweep /\ Windows
  BY <1>2 DEF OneSweep, Windows
<1>5. ASSUME NEW r \in Runs PROVE Driven(r)
  BY <1>2 DEF Driven, OneDrives, OneAsks, DriverRow, SpawnRow, RetryRow, DecideRow, StaleRow,
     StuckRow, Spawning, Asks
<1> QED
  BY <1>1, <1>3, <1>4, <1>5 DEF Inv, Driving

\* Every step keeps the invariant.
LEMMA InvStep ==
  ASSUME Inv, [Next]_vars
  PROVE  Inv'
<1>1. CASE NextWindow
  BY <1>1, NextWindowKeeps
<1>2. CASE NextScan
  BY <1>2, NextScanKeeps
<1>3. ASSUME NEW r \in Runs, Age(r) PROVE Inv'
  BY <1>3, AgeKeeps
<1>4. ASSUME NEW p \in Pods, Crash(p) PROVE Inv'
  BY <1>4, CrashKeeps
<1>5. ASSUME NEW p \in Pods, TickBegin(p) PROVE Inv'
  BY <1>5, TickBeginKeeps
<1>6. ASSUME NEW p \in Pods, TickJudge(p) PROVE Inv'
  BY <1>6, TickJudgeKeeps
<1>7. ASSUME NEW p \in Pods, TickResume(p) PROVE Inv'
  BY <1>7, TickResumeKeeps
<1>8. ASSUME NEW p \in Pods, TickSpawn(p) PROVE Inv'
  BY <1>8, TickSpawnKeeps
<1>9. ASSUME NEW p \in Pods, TickAbandon(p) PROVE Inv'
  BY <1>9, TickAbandonKeeps
<1>10. ASSUME NEW p \in Pods, TickWrites(p) PROVE Inv'
  BY <1>10, TickWritesKeeps
<1>11. ASSUME NEW p \in Pods, TickDue(p) PROVE Inv'
  BY <1>11, TickDueKeeps
<1>12. ASSUME NEW p \in Pods, TickClaim(p) PROVE Inv'
  BY <1>12, TickClaimKeeps
<1>13. ASSUME NEW p \in Pods, TickStart(p) PROVE Inv'
  BY <1>13, TickStartKeeps
<1>14. ASSUME NEW p \in Pods, TickFails(p) PROVE Inv'
  BY <1>14, TickFailsKeeps
<1>15. ASSUME NEW p \in Pods, TickCreate(p) PROVE Inv'
  BY <1>15, TickCreateKeeps
<1>16. ASSUME NEW p \in Pods, NEW r \in Runs, DriverStarts(p, r) PROVE Inv'
  BY <1>16, DriverStartsKeeps
<1>17. ASSUME NEW p \in Pods, NEW r \in Runs, DriverSettles(p, r) PROVE Inv'
  BY <1>17, DriverSettlesKeeps
<1>18. ASSUME NEW p \in Pods, NEW r \in Runs, Cancel(p, r) PROVE Inv'
  BY <1>18, CancelKeeps
<1>19. ASSUME NEW p \in Pods, NEW r \in Runs, CancelLands(p, r) PROVE Inv'
  BY <1>19, CancelLandsKeeps
<1>20. ASSUME NEW p \in Pods, NEW r \in Runs, Decide(p, r) PROVE Inv'
  BY <1>20, DecideKeeps
<1>21. ASSUME NEW p \in Pods, NEW r \in Runs, DecideLands(p, r) PROVE Inv'
  BY <1>21, DecideLandsKeeps
<1>22. ASSUME NEW p \in Pods, NEW r \in Runs, Retry(p, r) PROVE Inv'
  BY <1>22, RetryKeeps
<1>23. ASSUME NEW p \in Pods, NEW r \in Runs, RetryLands(p, r) PROVE Inv'
  BY <1>23, RetryLandsKeeps
<1>24. ASSUME NEW p \in Pods, NEW r \in Runs, NEW op \in {"decide", "retry"}, Refused(p, r, op) PROVE Inv'
  BY <1>24, RefusedKeeps
<1>25. CASE UNCHANGED vars
  <2>1. TypeOK'
    BY <1>25, TypeStep DEF Inv
  <2>2. Created' /\ OneSweep' /\ Windows'
    BY <1>25 DEF Inv, vars, Created, OneSweep, Windows, Drivers
  <2>3. Driving'
    BY <1>25 DEF Inv, vars, Driving, Driven, OneDrives, OneAsks, DriverRow, SpawnRow, RetryRow,
       DecideRow, StaleRow, StuckRow, Undriven, Drivers, Spawning, Asks, Held, IsStuck
  <2> QED
    BY <2>1, <2>2, <2>3 DEF Inv
<1>26. QED
  BY <1>1, <1>2, <1>3, <1>4, <1>5, <1>6, <1>7, <1>8, <1>9, <1>10, <1>11, <1>12, <1>13,
     <1>14, <1>15, <1>16, <1>17, <1>18, <1>19, <1>20, <1>21, <1>22, <1>23, <1>24, <1>25
     DEF Next, Tick, Lands

\* A step leaves the created runs and their windows alone, but for the sweep that
\* creates the next.
LEMMA WindowsOfRuns ==
  ASSUME Inv, [Next]_vars, OncePerWindow
  PROVE  OncePerWindow'
<1>0. TypeOK /\ RunType /\ Created /\ Windows /\ OneSweep
  BY DEF Inv, TypeOK, RunType
<1>1. CASE NextWindow
  BY <1>1 DEF NextWindow, OncePerWindow
<1>2. CASE NextScan
  BY <1>2 DEF NextScan, OncePerWindow
<1>3. ASSUME NEW r \in Runs, Age(r) PROVE OncePerWindow'
  <2>1. \A s \in Runs : run'[s].of = run[s].of
    <3>1. CASE run' = [run EXCEPT ![r].fresh = FALSE]
      BY <3>1, <1>0 DEF RunType
    <3> QED
      BY <1>3, <3>1 DEF Age
  <2> QED
    BY <1>0, <1>3, <2>1, MadeRuns DEF Age, OncePerWindow
<1>4. ASSUME NEW p \in Pods, Crash(p) PROVE OncePerWindow'
  BY <1>4 DEF Crash, OncePerWindow
<1>5. ASSUME NEW p \in Pods, TickBegin(p) PROVE OncePerWindow'
  BY <1>5 DEF TickBegin, OncePerWindow
<1>6. ASSUME NEW p \in Pods, TickJudge(p) PROVE OncePerWindow'
  BY <1>6 DEF TickJudge, OncePerWindow
<1>7. ASSUME NEW p \in Pods, TickResume(p) PROVE OncePerWindow'
  <2>1. \A s \in Runs : run'[s].of = run[s].of
    <3>1. CASE run' = [run EXCEPT ![tick[p].run].fresh = TRUE]
      BY <3>1, <1>0 DEF RunType
    <3>2. CASE UNCHANGED run
      BY <3>2, <1>0 DEF RunType
    <3> QED
      BY <1>7, <3>1, <3>2 DEF TickResume
  <2> QED
    BY <1>0, <1>7, <2>1, MadeRuns DEF TickResume, OncePerWindow
<1>8. ASSUME NEW p \in Pods, TickSpawn(p) PROVE OncePerWindow'
  BY <1>8 DEF TickSpawn, OncePerWindow
<1>9. ASSUME NEW p \in Pods, TickAbandon(p) PROVE OncePerWindow'
  <2>1. \A s \in Runs : run'[s].of = run[s].of
    <3>1. CASE run' = [run EXCEPT ![tick[p].run].status = "error", ![tick[p].run].fresh = TRUE]
      BY <3>1, <1>0 DEF RunType
    <3>2. CASE UNCHANGED run
      BY <3>2, <1>0 DEF RunType
    <3> QED
      BY <1>9, <3>1, <3>2 DEF TickAbandon
  <2> QED
    BY <1>0, <1>9, <2>1, MadeRuns DEF TickAbandon, OncePerWindow
<1>10. ASSUME NEW p \in Pods, TickWrites(p) PROVE OncePerWindow'
  BY <1>10 DEF TickWrites, OncePerWindow
<1>11. ASSUME NEW p \in Pods, TickDue(p) PROVE OncePerWindow'
  BY <1>11 DEF TickDue, OncePerWindow
<1>12. ASSUME NEW p \in Pods, TickClaim(p) PROVE OncePerWindow'
  BY <1>12 DEF TickClaim, OncePerWindow
<1>13. ASSUME NEW p \in Pods, TickStart(p) PROVE OncePerWindow'
  BY <1>13 DEF TickStart, OncePerWindow
<1>14. ASSUME NEW p \in Pods, TickFails(p) PROVE OncePerWindow'
  BY <1>14 DEF TickFails, OncePerWindow
<1>15. ASSUME NEW p \in Pods, TickCreate(p) PROVE OncePerWindow'
  <2>1. made + 1 \in Runs /\ made' = made + 1 /\ made \in Nat
    BY <1>15, <1>0, BoundsAssumption DEF TickCreate, TypeOK, Runs
  <2>2. \A s \in 1 .. made : run'[s].of = run[s].of /\ s \in Runs
    BY <1>15, <1>0, <2>1, MadeRuns DEF TickCreate, RunType
  <2>3. run'[made + 1].of = row.window /\ row.window \in Nat
    BY <1>15, <1>0, <2>1 DEF TickCreate, NoRun, Windows, TypeOK
  <2>4. \A s \in 1 .. made : run[s].of # row.window
    BY <1>15, <1>0, <2>2, <2>3 DEF TickCreate, Windows, RunType
  <2>5. \A s \in 1 .. made' : s \in 1 .. made \/ s = made + 1
    BY <2>1
  <2> QED
    BY <2>1, <2>2, <2>3, <2>4, <2>5 DEF OncePerWindow
<1>16. ASSUME NEW p \in Pods, NEW r \in Runs, DriverStarts(p, r) PROVE OncePerWindow'
  <2>1. \A s \in Runs : run'[s].of = run[s].of
    <3>1. CASE run' = [run EXCEPT ![r].status = "running"]
      BY <3>1, <1>0 DEF RunType
    <3> QED
      BY <1>16, <3>1 DEF DriverStarts
  <2> QED
    BY <1>0, <1>16, <2>1, MadeRuns DEF DriverStarts, OncePerWindow
<1>17. ASSUME NEW p \in Pods, NEW r \in Runs, DriverSettles(p, r) PROVE OncePerWindow'
  <2>1. \A s \in Runs : run'[s].of = run[s].of
    <3>1. CASE \E st \in {"done", "error", "awaiting", "cancelled"} : run' = [run EXCEPT ![r].status = st]
      BY <3>1, <1>0 DEF RunType
    <3> QED
      BY <1>17, <3>1 DEF DriverSettles, DriverEnds
  <2> QED
    BY <1>0, <1>17, <2>1, MadeRuns DEF DriverSettles, OncePerWindow, DriverEnds
<1>18. ASSUME NEW p \in Pods, NEW r \in Runs, Cancel(p, r) PROVE OncePerWindow'
  BY <1>18 DEF Cancel, OncePerWindow, Press
<1>19. ASSUME NEW p \in Pods, NEW r \in Runs, CancelLands(p, r) PROVE OncePerWindow'
  <2>1. \A s \in Runs : run'[s].of = run[s].of
    <3>1. CASE \E st \in {"cancelled", run[r].status} : run' = [run EXCEPT ![r].status = st]
      BY <3>1, <1>0 DEF RunType
    <3> QED
      BY <1>19, <3>1 DEF CancelLands
  <2> QED
    BY <1>0, <1>19, <2>1, MadeRuns DEF CancelLands, OncePerWindow
<1>20. ASSUME NEW p \in Pods, NEW r \in Runs, Decide(p, r) PROVE OncePerWindow'
  BY <1>20 DEF Decide, OncePerWindow, Press
<1>21. ASSUME NEW p \in Pods, NEW r \in Runs, DecideLands(p, r) PROVE OncePerWindow'
  <2>1. \A s \in Runs : run'[s].of = run[s].of
    <3>1. CASE run' = [run EXCEPT ![r].status = "running", ![r].fresh = TRUE]
      BY <3>1, <1>0 DEF RunType
    <3>2. CASE UNCHANGED run
      BY <3>2, <1>0 DEF RunType
    <3> QED
      BY <1>21, <3>1, <3>2 DEF DecideLands
  <2> QED
    BY <1>0, <1>21, <2>1, MadeRuns DEF DecideLands, OncePerWindow
<1>22. ASSUME NEW p \in Pods, NEW r \in Runs, Retry(p, r) PROVE OncePerWindow'
  <2>1. \A s \in Runs : run'[s].of = run[s].of
    <3>1. CASE run' = [run EXCEPT ![r].status = "pending", ![r].was = run[r].status]
      BY <3>1, <1>0 DEF RunType
    <3> QED
      BY <1>22, <3>1 DEF Retry, Press
  <2> QED
    BY <1>0, <1>22, <2>1, MadeRuns DEF Retry, OncePerWindow, Press
<1>23. ASSUME NEW p \in Pods, NEW r \in Runs, RetryLands(p, r) PROVE OncePerWindow'
  <2>1. \A s \in Runs : run'[s].of = run[s].of
    <3>1. CASE run' = [run EXCEPT ![r].status = "running", ![r].fresh = TRUE]
      BY <3>1, <1>0 DEF RunType
    <3>2. CASE UNCHANGED run
      BY <3>2, <1>0 DEF RunType
    <3> QED
      BY <1>23, <3>1, <3>2 DEF RetryLands
  <2> QED
    BY <1>0, <1>23, <2>1, MadeRuns DEF RetryLands, OncePerWindow
<1>24. ASSUME NEW p \in Pods, NEW r \in Runs, NEW op \in {"decide", "retry"}, Refused(p, r, op) PROVE OncePerWindow'
  <2>1. \A s \in Runs : run'[s].of = run[s].of
    <3>1. CASE \E st \in {run[r].was, run[r].status} : run' = [run EXCEPT ![r].status = st]
      BY <3>1, <1>0 DEF RunType
    <3> QED
      BY <1>24, <3>1 DEF Refused
  <2> QED
    BY <1>0, <1>24, <2>1, MadeRuns DEF Refused, OncePerWindow
<1>25. CASE UNCHANGED vars
  BY <1>25 DEF vars, OncePerWindow
<1>26. QED
  BY <1>1, <1>2, <1>3, <1>4, <1>5, <1>6, <1>7, <1>8, <1>9, <1>10, <1>11, <1>12, <1>13,
     <1>14, <1>15, <1>16, <1>17, <1>18, <1>19, <1>20, <1>21, <1>22, <1>23, <1>24, <1>25
     DEF Next, Tick, Lands

\* What a step may make of a run that has ended, while no continue crosses another.
Revived(r) == \E p \in Pods : <<p, "retry", r>> \in press' \ press

LEMMA EndedStep ==
  ASSUME Inv, [Next]_vars, NEW r \in Runs, r \notin count.crossed, run[r].status \in Over
  PROVE  run'[r].status = run[r].status \/ Revived(r)
<1> DEFINE Stays == run'[r].status = run[r].status \/ Revived(r)
<1>0. TypeOK /\ RunType /\ Created /\ Driven(r)
  BY DEF Inv, Driving, TypeOK, RunType
<1>a. /\ run[r].status \notin {"pending", "running", "awaiting", "none"}
      /\ \A p \in Pods : /\ ~(Drivers(p, r) > 0) /\ ~(task[p][r].running > 0) /\ ~Asks(p, "decide", r)
                         /\ Asks(p, "retry", r) => run[r].status = "cancelled"
  BY <1>0 DEF Driven, DriverRow, RetryRow, DecideRow, Over
<1>b. \A p \in Pods : task[p][r].queued = 0 /\ task[p][r].running = 0
  BY <1>0, <1>a, NoDriver
<1>1. CASE NextWindow
  BY <1>1 DEF NextWindow
<1>2. CASE NextScan
  BY <1>2 DEF NextScan
<1>3. ASSUME NEW s \in Runs, Age(s) PROVE Stays
  <2>1. CASE run' = [run EXCEPT ![s].fresh = FALSE]
    BY <2>1, <1>0 DEF RunType
  <2> QED
    BY <1>3, <1>0, <1>a, <1>b, <2>1 DEF Age
<1>4. ASSUME NEW p \in Pods, Crash(p) PROVE Stays
  BY <1>4 DEF Crash
<1>5. ASSUME NEW p \in Pods, TickBegin(p) PROVE Stays
  BY <1>5 DEF TickBegin
<1>6. ASSUME NEW p \in Pods, TickJudge(p) PROVE Stays
  BY <1>6 DEF TickJudge
<1>7. ASSUME NEW p \in Pods, TickResume(p) PROVE Stays
  <2>1. CASE run' = [run EXCEPT ![tick[p].run].fresh = TRUE]
    BY <2>1, <1>0 DEF RunType
  <2>2. CASE UNCHANGED run
    BY <2>2, <1>0 DEF RunType
  <2> QED
    BY <1>7, <1>0, <1>a, <1>b, <2>1, <2>2 DEF TickResume
<1>8. ASSUME NEW p \in Pods, TickSpawn(p) PROVE Stays
  BY <1>8 DEF TickSpawn
<1>9. ASSUME NEW p \in Pods, TickAbandon(p) PROVE Stays
  <2>1. CASE run' = [run EXCEPT ![tick[p].run].status = "error", ![tick[p].run].fresh = TRUE] /\ tick[p].run # r
    BY <2>1, <1>0 DEF RunType
  <2>2. CASE UNCHANGED run
    BY <2>2, <1>0 DEF RunType
  <2> QED
    BY <1>9, <1>0, <1>a, <1>b, <2>1, <2>2 DEF TickAbandon
<1>10. ASSUME NEW p \in Pods, TickWrites(p) PROVE Stays
  BY <1>10 DEF TickWrites
<1>11. ASSUME NEW p \in Pods, TickDue(p) PROVE Stays
  BY <1>11 DEF TickDue
<1>12. ASSUME NEW p \in Pods, TickClaim(p) PROVE Stays
  BY <1>12 DEF TickClaim
<1>13. ASSUME NEW p \in Pods, TickStart(p) PROVE Stays
  BY <1>13 DEF TickStart
<1>14. ASSUME NEW p \in Pods, TickFails(p) PROVE Stays
  BY <1>14 DEF TickFails
<1>15. ASSUME NEW p \in Pods, TickCreate(p) PROVE Stays
  <2>1. CASE run' = [run EXCEPT ![made + 1] = [NoRun EXCEPT !.status = "pending", !.of = tick[p].window]] /\ made + 1 # r
    BY <2>1, <1>0 DEF RunType
  <2> QED
    BY <1>15, <1>0, <1>a, <1>b, <2>1 DEF TickCreate, Created, TypeOK, Runs
<1>16. ASSUME NEW p \in Pods, NEW s \in Runs, DriverStarts(p, s) PROVE Stays
  <2>1. CASE s # r /\ run' = [run EXCEPT ![s].status = "running"]
    BY <2>1, <1>0 DEF RunType
  <2> QED
    BY <1>16, <1>0, <1>a, <1>b, <2>1 DEF DriverStarts
<1>17. ASSUME NEW p \in Pods, NEW s \in Runs, DriverSettles(p, s) PROVE Stays
  <2>1. CASE s # r /\ \E st \in {"done", "error", "awaiting", "cancelled"} : run' = [run EXCEPT ![s].status = st]
    BY <2>1, <1>0 DEF RunType
  <2> QED
    BY <1>17, <1>0, <1>a, <1>b, <2>1 DEF DriverSettles, DriverEnds
<1>18. ASSUME NEW p \in Pods, NEW s \in Runs, Cancel(p, s) PROVE Stays
  BY <1>18 DEF Cancel, Press
<1>19. ASSUME NEW p \in Pods, NEW s \in Runs, CancelLands(p, s) PROVE Stays
  <2>1. CASE run' = [run EXCEPT ![s].status = "cancelled"] /\ (s = r => run[s].status = "cancelled")
    BY <2>1, <1>0 DEF RunType
  <2>2. CASE run' = [run EXCEPT ![s].status = run[s].status]
    BY <2>2, <1>0 DEF RunType
  <2> QED
    BY <1>19, <1>0, <1>a, <1>b, <2>1, <2>2 DEF CancelLands, Asks
<1>20. ASSUME NEW p \in Pods, NEW s \in Runs, Decide(p, s) PROVE Stays
  BY <1>20 DEF Decide, Press
<1>21. ASSUME NEW p \in Pods, NEW s \in Runs, DecideLands(p, s) PROVE Stays
  <2>1. CASE run' = [run EXCEPT ![s].status = "running", ![s].fresh = TRUE] /\ s # r
    BY <2>1, <1>0 DEF RunType
  <2>2. CASE UNCHANGED run
    BY <2>2, <1>0 DEF RunType
  <2> QED
    BY <1>21, <1>0, <1>a, <1>b, <2>1, <2>2 DEF DecideLands, Asks
<1>22. ASSUME NEW p \in Pods, NEW s \in Runs, Retry(p, s) PROVE Stays
  <2>1. CASE s # r /\ run' = [run EXCEPT ![s].status = "pending", ![s].was = run[s].status]
    BY <2>1, <1>0 DEF RunType
  <2>2. CASE s = r
    BY <1>22, <2>2 DEF Retry, Press, Revived
  <2> QED
    BY <1>22, <1>0, <1>a, <1>b, <2>1, <2>2 DEF Retry
<1>23. ASSUME NEW p \in Pods, NEW s \in Runs, RetryLands(p, s) PROVE Stays
  <2>1. CASE run' = [run EXCEPT ![s].status = "running", ![s].fresh = TRUE] /\ s # r
    BY <2>1, <1>0 DEF RunType
  <2>2. CASE UNCHANGED run
    BY <2>2, <1>0 DEF RunType
  <2> QED
    BY <1>23, <1>0, <1>a, <1>b, <2>1, <2>2 DEF RetryLands, Proceeds
<1>24. ASSUME NEW p \in Pods, NEW s \in Runs, NEW op \in {"decide", "retry"}, Refused(p, s, op) PROVE Stays
  <2>1. CASE s # r /\ run' = [run EXCEPT ![s].status = run[s].was]
    BY <2>1, <1>0 DEF RunType
  <2>2. CASE run' = [run EXCEPT ![s].status = run[s].status]
    BY <2>2, <1>0 DEF RunType
  <2> QED
    BY <1>24, <1>0, <1>a, <1>b, <2>1, <2>2 DEF Refused, Proceeds
<1>25. CASE UNCHANGED vars
  BY <1>25 DEF vars
<1>26. QED
  BY <1>1, <1>2, <1>3, <1>4, <1>5, <1>6, <1>7, <1>8, <1>9, <1>10, <1>11, <1>12, <1>13,
     <1>14, <1>15, <1>16, <1>17, <1>18, <1>19, <1>20, <1>21, <1>22, <1>23, <1>24, <1>25
     DEF Next, Tick, Lands

\* Every variable of the schedule keeps its type.
THEOREM TypeCorrect == Spec => []TypeOK
<1>1. Inv /\ [Next]_vars => Inv'
  BY InvStep
<1>2. Inv => TypeOK
  BY DEF Inv
<1> QED
  BY <1>1, <1>2, InvInit, PTL DEF Spec

\* A run has at most one driver, on all pods together, unless two answers to its
\* gate or two continues of it cross.
THEOREM OneDriverHolds == Spec => []OneDriver
<1>1. Inv /\ [Next]_vars => Inv'
  BY InvStep
<1>2. Inv => OneDriver
  BY DEF Inv, Driving, Driven, OneDrives, OneDriver
<1> QED
  BY <1>1, <1>2, InvInit, PTL DEF Spec

\* A window of the schedule has at most one run.
THEOREM OncePerWindowHolds == Spec => []OncePerWindow
<1>1. Inv /\ OncePerWindow /\ [Next]_vars => Inv' /\ OncePerWindow'
  BY InvStep, WindowsOfRuns
<1>2. Init => OncePerWindow
  BY DEF Init, OncePerWindow
<1> QED
  BY <1>1, <1>2, InvInit, PTL DEF Spec

\* An ended run comes back only by a person's continue, unless two continues of
\* it cross.
THEOREM EndedStaysEndedHolds == Spec => EndedStaysEnded
<1>1. Inv /\ [Next]_vars => Inv'
  BY InvStep
<1>2. ASSUME Inv, [Next]_vars
      PROVE  [\A r \in Runs \ count.crossed : run[r].status \in Over =>
                \/ run'[r].status = run[r].status
                \/ \E p \in Pods : <<p, "retry", r>> \in press' \ press]_vars
  BY <1>2, EndedStep DEF Revived
<1> QED
  BY <1>1, <1>2, InvInit, PTL DEF Spec, EndedStaysEnded
=============================================================================

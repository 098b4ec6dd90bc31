---------------------------- MODULE ScheduledRuns ----------------------------
(***************************************************************************)
(* The runs of one schedule trigger on one item: the window ledger all pods *)
(* share, the sweep that one pod per scan interval makes of it, the         *)
(* workflow runs it starts, resumes and gives up, the tasks that drive      *)
(* them, and the person who stops a run, answers its gate or continues it.  *)
(*                                                                         *)
(* One step is one store call, or the code between two awaits.  Windows are *)
(* numbered; a window counts once its target time has passed.  A run's      *)
(* heartbeat is fresh or not: how old it must be is the code's grace period,*)
(* which is longer than the wait for any step.                              *)
(***************************************************************************)
EXTENDS Integers

CONSTANTS
  Pods,
  None,
  MaxAttempts,  \* max_resume_attempts
  MaxWindow,    \* windows of the schedule
  MaxRuns,      \* runs created
  MaxFaults,    \* pods that die and workflows that do not load, together
  MaxPresses    \* what people press: Stop, Continue, an answer to a gate

ASSUME BoundsAssumption ==
  /\ None \notin Nat
  /\ \A n \in {MaxAttempts, MaxWindow, MaxRuns, MaxFaults, MaxPresses} : n \in Nat

Runs == 1 .. MaxRuns
Active == {"pending", "running", "awaiting"}   \* ACTIVE_RUN
Over == {"done", "error", "cancelled"}

VARIABLES
  window,  \* the window the clock is in
  lease,   \* whether this scan interval can still be claimed
  row,     \* the ledger: window claimed, its run, times it was driven
  made,    \* runs created so far
  run,     \* the rows of the runs
  task,    \* each pod's drivers of each run: waiting for a slot, and running
  heard,   \* the drivers that a Stop's epoch has reached
  tick,    \* each pod's sweep
  press,   \* requests of a person in flight
  count    \* faults and presses so far, and the runs two people pressed for at once

vars == <<window, lease, row, made, run, task, heard, tick, press, count>>

NoRun == [status |-> "none", fresh |-> TRUE, of |-> 0, was |-> None]
NoTask == [queued |-> 0, running |-> 0]
Idle == [pc |-> "idle", run |-> None, attempts |-> 0, window |-> 0]

Fault == count.faults < MaxFaults /\ count' = [count EXCEPT !.faults = @ + 1]

\* A person's request begins; a pod has one of a kind for a run at a time.  It
\* crosses another of its kind that has passed its checks and not landed yet.
Press(p, op, r) ==
  /\ count.presses < MaxPresses /\ <<p, op, r>> \notin press
  /\ press' = press \cup {<<p, op, r>>}
  /\ count' = [count EXCEPT !.presses = @ + 1,
                            !.continued = @ \/ op = "retry",
                            !.crossed = IF op # "cancel" /\ \E q \in Pods : <<q, op, r>> \in press
                                        THEN @ \cup {r} ELSE @]
Goes(p, pc) == tick' = [tick EXCEPT ![p].pc = pc, ![p].attempts = 0]
Rests(p) == tick' = [tick EXCEPT ![p] = Idle]

Drivers(p, r) == task[p][r].queued + task[p][r].running
Spawn(p, r) == task' = [task EXCEPT ![p][r].queued = @ + 1]

-----------------------------------------------------------------------------
(* Time and pods.                                                           *)

NextWindow ==
  /\ window < MaxWindow
  /\ window' = window + 1
  /\ UNCHANGED <<lease, row, made, run, task, heard, tick, press, count>>

\* The scan lease of the next interval can be claimed.  A sweep is over by then.
NextScan ==
  /\ ~lease /\ lease' = TRUE
  /\ \A p \in Pods : tick[p] = Idle
  /\ UNCHANGED <<window, row, made, run, task, heard, tick, press, count>>

\* Somebody is driving the run or about to.
Held(r) ==
  \/ \E p \in Pods : Drivers(p, r) > 0 \/ (tick[p].pc = "spawn" /\ tick[p].run = r)
  \/ \E p \in Pods, op \in {"retry", "decide"} : <<p, op, r>> \in press

\* No progress for the grace period.  A driver's steps write progress, and none
\* takes that long.
Age(r) ==
  /\ run[r].status = "running" /\ run[r].fresh /\ ~Held(r)
  /\ run' = [run EXCEPT ![r].fresh = FALSE]
  /\ UNCHANGED <<window, lease, row, made, task, heard, tick, press, count>>

\* The pod dies and is started again.
Crash(p) ==
  /\ Fault
  /\ task' = [task EXCEPT ![p] = [r \in Runs |-> NoTask]]
  /\ heard' = {h \in heard : h[1] # p}
  /\ press' = {q \in press : q[1] # p}
  /\ Rests(p)
  /\ UNCHANGED <<window, lease, row, made, run>>

-----------------------------------------------------------------------------
(* TriggerSweeper.                                                          *)

\* The interval's lease is won; the trigger's run is looked up.
TickBegin(p) ==
  /\ tick[p] = Idle /\ lease
  /\ lease' = FALSE
  /\ tick' = [tick EXCEPT ![p].pc = IF row.run = None THEN "due" ELSE "judge",
                          ![p].run = row.run,
                          ![p].attempts = IF row.run = None THEN 0 ELSE row.attempts]
  /\ UNCHANGED <<window, row, made, run, task, heard, press, count>>

\* Mutant: a run is stuck only before it was ever driven.
IsStuck_Undriven(r) == run[r].status = "pending" /\ ~run[r].fresh
IsStuck(r) == run[r].status = "running" /\ ~run[r].fresh

\* Mutant: only a run that went well frees the schedule.
IsSettled_Done(r) == run[r].status = "done"
IsSettled(r) == run[r].status \in Over

\* disposition, and what the sweep makes of it.
TickJudge(p) ==
  /\ tick[p].pc = "judge"
  /\ LET r == tick[p].run IN
       IF IsSettled(r) THEN Goes(p, "clear")
       ELSE IF ~IsStuck(r) THEN Rests(p)
       ELSE Goes(p, IF tick[p].attempts >= MaxAttempts THEN "abandon" ELSE "resume")
  /\ UNCHANGED <<window, lease, row, made, run, task, heard, press, count>>

\* The heartbeat is stamped by compare-and-set: the winner drives the run.
TickResume(p) ==
  /\ tick[p].pc = "resume"
  /\ LET r == tick[p].run IN
       IF IsStuck(r)
       THEN run' = [run EXCEPT ![r].fresh = TRUE] /\ Goes(p, "spawn")
       ELSE UNCHANGED run /\ Rests(p)
  /\ UNCHANGED <<window, lease, row, made, task, heard, press, count>>

TickSpawn(p) ==
  /\ tick[p].pc = "spawn"
  /\ Spawn(p, tick[p].run)
  /\ Goes(p, "note")
  /\ UNCHANGED <<window, lease, row, made, run, heard, press, count>>

\* Given up: a driver of this pod does not outlive the row.
TickAbandon(p) ==
  /\ tick[p].pc = "abandon"
  /\ LET r == tick[p].run IN
       IF run[r].status \in Over THEN UNCHANGED <<run, task, heard>>
       ELSE /\ run' = [run EXCEPT ![r].status = "error", ![r].fresh = TRUE]
            /\ task' = [task EXCEPT ![p][r] = NoTask]
            /\ heard' = heard \ {<<p, r>>}
  /\ Goes(p, "clear")
  /\ UNCHANGED <<window, lease, row, made, press, count>>

\* _write_fields reads the ledger's row and writes it back, without compare-and-
\* set: the sweep is the only writer.
TickWrites(p) ==
  /\ tick[p].pc \in {"note", "clear", "record"}
  /\ row' = CASE tick[p].pc = "note"   -> [row EXCEPT !.attempts = @ + 1]
              [] tick[p].pc = "clear"  -> [row EXCEPT !.run = None]
              [] tick[p].pc = "record" -> [row EXCEPT !.run = tick[p].run, !.attempts = 1]
  /\ tick' = [tick EXCEPT ![p] = IF @.pc = "clear" THEN [Idle EXCEPT !.pc = "due"] ELSE Idle]
  /\ UNCHANGED <<window, lease, made, run, task, heard, press, count>>

\* is_due, for the window of this moment.
TickDue(p) ==
  /\ tick[p].pc = "due"
  /\ IF row.window = window THEN Rests(p)
     ELSE tick' = [tick EXCEPT ![p].pc = "claim", ![p].window = window]
  /\ UNCHANGED <<window, lease, row, made, run, task, heard, press, count>>

\* Mutant: the claim clears the run and leaves the window.
Claimed_OldWindow(old, w) == [window |-> old.window, run |-> None, attempts |-> 0]
Claimed(old, w) == [window |-> w, run |-> None, attempts |-> 0]

\* try_claim, a compare-and-set.
TickClaim(p) ==
  /\ tick[p].pc = "claim"
  /\ IF row.window = tick[p].window THEN UNCHANGED row /\ Rests(p)
     ELSE row' = Claimed(row, tick[p].window) /\ Goes(p, "start")
  /\ UNCHANGED <<window, lease, made, run, task, heard, press, count>>

\* start: the item has one active run; the window is spent all the same.
TickStart(p) ==
  /\ tick[p].pc = "start"
  /\ IF \E r \in Runs : run[r].status \in Active THEN Rests(p) ELSE Goes(p, "create")
  /\ UNCHANGED <<window, lease, row, made, run, task, heard, press, count>>

\* The manifest does not load: the tick ends there, and the window, or the stamp
\* of the resume, is spent.
TickFails(p) ==
  /\ tick[p].pc \in {"create", "spawn"} /\ Fault
  /\ Rests(p)
  /\ UNCHANGED <<window, lease, row, made, run, task, heard, press>>

TickCreate(p) ==
  /\ tick[p].pc = "create" /\ made < MaxRuns
  /\ made' = made + 1
  /\ run' = [run EXCEPT ![made + 1] =
               [NoRun EXCEPT !.status = "pending", !.of = tick[p].window]]
  /\ Spawn(p, made + 1)
  /\ tick' = [tick EXCEPT ![p].pc = "record", ![p].run = made + 1]
  /\ UNCHANGED <<window, lease, row, heard, press, count>>

Tick(p) ==
  \/ TickJudge(p) \/ TickResume(p) \/ TickSpawn(p) \/ TickAbandon(p)
  \/ TickWrites(p) \/ TickDue(p) \/ TickClaim(p) \/ TickStart(p)
  \/ TickFails(p) \/ TickCreate(p)

-----------------------------------------------------------------------------
(* The driver.                                                              *)

\* A slot is free: run_workflow marks the run.
DriverStarts(p, r) ==
  /\ task[p][r].queued > 0
  /\ task' = [task EXCEPT ![p][r] = [queued |-> @.queued - 1, running |-> @.running + 1]]
  /\ run' = [run EXCEPT ![r].status = "running"]
  /\ UNCHANGED <<window, lease, row, made, heard, tick, press, count>>

DriverEnds(p, r, status) ==
  /\ task[p][r].running > 0
  /\ task' = [task EXCEPT ![p][r].running = @ - 1]
  /\ heard' = heard \ {<<p, r>>}
  /\ run' = [run EXCEPT ![r].status = status]
  /\ UNCHANGED <<window, lease, row, made, tick, press, count>>

\* The run ends by itself, pauses at a gate, or sees at a turn's boundary that
\* the epoch has moved.
DriverSettles(p, r) ==
  \/ \E status \in {"done", "error", "awaiting"} : DriverEnds(p, r, status)
  \/ <<p, r>> \in heard /\ DriverEnds(p, r, "cancelled")

-----------------------------------------------------------------------------
(* A person's requests: cancel, decide and retry.                           *)

\* The epoch moves: a driver that sampled it before may see that, on any pod.
Cancel(p, r) ==
  /\ Press(p, "cancel", r)
  /\ run[r].status \in Active
  /\ heard' = heard \cup {<<q, r>> : q \in {s \in Pods : task[s][r].running > 0}}
  /\ UNCHANGED <<window, lease, row, made, run, task, tick>>

\* Then what this pod has of the run: a continue that is starting, or a driver.
\* A driver that still waits for its slot dies without a word on the row.
CancelLands(p, r) ==
  /\ <<p, "cancel", r>> \in press
  /\ press' = press \ {<<p, "cancel", r>>}
  /\ IF <<p, "retry", r>> \in press
     THEN run' = [run EXCEPT ![r].status = "cancelled"] /\ UNCHANGED <<task, heard>>
     ELSE /\ task' = [task EXCEPT ![p][r] = NoTask]
          /\ heard' = heard \ {<<p, r>>}
          /\ run' = [run EXCEPT ![r].status = IF task[p][r].running > 0 THEN "cancelled" ELSE @]
  /\ UNCHANGED <<window, lease, row, made, tick, count>>

Decide(p, r) ==
  /\ Press(p, "decide", r)
  /\ run[r].status = "awaiting"
  /\ UNCHANGED <<window, lease, row, made, run, task, heard, tick>>

DecideLands(p, r) ==
  /\ <<p, "decide", r>> \in press
  /\ press' = press \ {<<p, "decide", r>>}
  /\ IF r = made
     THEN /\ run' = [run EXCEPT ![r].status = "running", ![r].fresh = TRUE]
          /\ Spawn(p, r)
     ELSE UNCHANGED <<run, task>>
  /\ UNCHANGED <<window, lease, row, made, heard, tick, count>>

\* Mutant: a continue may be pressed on a run that is being continued.
Retryable_Pending(r) == run[r].status \in Over \cup {"pending"}
Retryable(r) == run[r].status \in {"error", "cancelled"}

\* The run is claimed by compare-and-set before the first await.
Retry(p, r) ==
  /\ Press(p, "retry", r)
  /\ Retryable(r) /\ r = made
  /\ \A other \in Runs \ {r} : run[other].status \notin {"pending", "running"}
  /\ run' = [run EXCEPT ![r].status = "pending", ![r].was = run[r].status]
  /\ UNCHANGED <<window, lease, row, made, task, heard, tick>>

\* Mutant: the continue does not look whether a Stop has settled the run.
Proceeds_Blind(r) == TRUE
Proceeds(r) == run[r].status = "pending"

\* The prior task, if it is this pod's, has ended by then.
RetryLands(p, r) ==
  /\ <<p, "retry", r>> \in press /\ Drivers(p, r) = 0
  /\ press' = press \ {<<p, "retry", r>>}
  /\ IF Proceeds(r)
     THEN /\ run' = [run EXCEPT ![r].status = "running", ![r].fresh = TRUE]
          /\ Spawn(p, r)
     ELSE UNCHANGED <<run, task>>
  /\ UNCHANGED <<window, lease, row, made, heard, tick, count>>

\* The workflow no longer loads: the run is as it was, unless a Stop settled it.
Refused(p, r, op) ==
  /\ <<p, op, r>> \in press /\ Fault
  /\ press' = press \ {<<p, op, r>>}
  /\ run' = [run EXCEPT ![r].status = IF op = "retry" /\ Proceeds(r) THEN run[r].was ELSE @]
  /\ UNCHANGED <<window, lease, row, made, task, heard, tick>>

Lands(p, r) ==
  \/ CancelLands(p, r) \/ DecideLands(p, r) \/ RetryLands(p, r)
  \/ \E op \in {"decide", "retry"} : Refused(p, r, op)

-----------------------------------------------------------------------------
Init ==
  /\ window = 1 /\ lease = TRUE /\ made = 0
  /\ row = [window |-> 0, run |-> None, attempts |-> 0]
  /\ run = [r \in Runs |-> NoRun]
  /\ task = [p \in Pods |-> [r \in Runs |-> NoTask]]
  /\ heard = {} /\ press = {}
  /\ tick = [p \in Pods |-> Idle]
  /\ count = [faults |-> 0, presses |-> 0, continued |-> FALSE, crossed |-> {}]

Next ==
  \/ NextWindow \/ NextScan
  \/ \E r \in Runs : Age(r)
  \/ \E p \in Pods :
       \/ Crash(p) \/ TickBegin(p) \/ Tick(p)
       \/ \E r \in Runs :
            \/ DriverStarts(p, r) \/ DriverSettles(p, r)
            \/ Cancel(p, r) \/ Decide(p, r) \/ Retry(p, r) \/ Lands(p, r)

Spec == Init /\ [][Next]_vars

\* Sweeps go on, steps and slots come to an end, time passes; a person need not
\* press anything, and a run need not hear of a Stop.
FairSpec ==
  /\ Spec
  /\ WF_vars(NextScan \/ \E p \in Pods : TickBegin(p))
  /\ \A p \in Pods : WF_vars(Tick(p))
  /\ \A r \in Runs :
       /\ WF_vars(Age(r))
       /\ WF_vars(\E p \in Pods : DriverStarts(p, r) \/ DriverSettles(p, r))
       /\ WF_vars(\E p \in Pods : Lands(p, r))

-----------------------------------------------------------------------------
Steps == {"idle", "judge", "resume", "spawn", "abandon", "note", "clear", "due", "claim",
          "start", "create", "record"}

\* Types of the ledger, of the runs' rows, and of the sweeps, tasks and requests
\* at work on them.
TypeOK ==
  /\ window \in Nat /\ lease \in BOOLEAN /\ made \in 0 .. MaxRuns
  /\ row \in [window : Nat, run : Runs \cup {None}, attempts : Nat]
  /\ run \in [Runs -> [status : Active \cup Over \cup {"none"}, fresh : BOOLEAN,
                       of : Nat, was : Over \cup {None}]]
  /\ task \in [Pods -> [Runs -> [queued : Nat, running : Nat]]]
  /\ heard \subseteq Pods \X Runs
  /\ tick \in [Pods -> [pc : Steps, run : Runs \cup {None}, attempts : Nat, window : Nat]]
  /\ press \subseteq Pods \X {"cancel", "decide", "retry"} \X Runs
  /\ count \in [faults : Nat, presses : Nat, continued : BOOLEAN, crossed : SUBSET Runs]

\* A run never has two drivers, on one pod or on two, which would do its steps
\* twice on one journal: not by a resume after a crash, not by two sweeps that
\* both found it stuck, not by two people who continue it, while a beat comes
\* within the grace period (and no answer to a gate, nor a continue after a Stop,
\* crosses another).
OneDriver ==
  \A r \in Runs \ count.crossed, p, q \in Pods :
    /\ Drivers(p, r) <= 1
    /\ Drivers(p, r) > 0 /\ Drivers(q, r) > 0 => p = q

\* A window of the schedule has one run, whoever dies, and whoever continues
\* an earlier one.
OncePerWindow ==
  \A r, s \in 1 .. made : run[r].of = run[s].of => r = s

\* A run that has ended is not revived but by a person who continues it; one
\* that was stopped while the continue was starting stays stopped, if no other
\* continue crosses that one.
EndedStaysEnded ==
  [][\A r \in Runs \ count.crossed : run[r].status \in Over =>
       \/ run'[r].status = run[r].status
       \/ \E p \in Pods : <<p, "retry", r>> \in press' \ press]_vars

\* The run a sweep recorded is not left running without a driver for ever: it
\* is resumed until it ends or pauses, or is given up, whoever dies, as long as
\* nobody continues an ended run, which no sweep records, nor answers its gate
\* twice at once, which may do the same.
RecordedRunSettles ==
  \A r \in Runs :
    row.run = r /\ run[r].status = "running"
      ~> run[r].status # "running" \/ count.continued \/ r \in count.crossed

\* A window that is due is claimed once the debt of the one before is paid: the
\* schedule goes on through crashes, unless its run waits for a person or its
\* pod died before it was driven.
NextWindowIsClaimed ==
  row.window # window
    ~> row.window = window \/ (\E r \in Runs : run[r].status \in {"pending", "awaiting"})
=============================================================================

----------------------------- MODULE TurnClaims -----------------------------
(***************************************************************************)
(* The questions of one conversation across the pods of a deployment: the  *)
(* durable claim of each (`TurnClaim`), the heartbeat that says someone    *)
(* drives the conversation, the cancel epoch, and the reclaim tick that    *)
(* takes over the claims of a pod that is gone, stalled or draining.       *)
(*                                                                         *)
(* A copy is one run of a question on one pod.  What happens to a copy     *)
(* inside its pod (queue, folding, Stop) is TurnQueue's; here each         *)
(* question is a turn of its own.  Time is what the code compares it to:   *)
(* a beat, an opened claim or a taken one is within the stale window or    *)
(* not, and the window only passes when no running pod owes a beat.        *)
(***************************************************************************)
EXTENDS Integers, Sequences, FiniteSets

CONSTANTS
    Pods,
    NoPod,
    Questions,     \* the questions, in the order they are asked
    MaxReruns,     \* RECLAIM_MAX_RERUNS
    MaxStalls,     \* bound: pods that stall past the stale window and come back
    MaxCrashes,    \* bound: pods that go without a drain
    MaxDrains,     \* bound: pods that are drained
    MaxFaults      \* bound: reads and writes the store refuses

ASSUME TurnClaimsAssumption ==
    /\ IsFiniteSet(Pods) /\ NoPod \notin Pods
    /\ IsFiniteSet(Questions) /\ Questions \subseteq Nat
    /\ MaxReruns \in Nat /\ MaxStalls \in Nat /\ MaxCrashes \in Nat
    /\ MaxDrains \in Nat /\ MaxFaults \in Nat

VARIABLES
    asked,        \* the questions stored in the thread
    claimless,    \* those whose claim the store refused to open
    row,          \* the TurnClaim of each question
    recent,       \* <<q, reruns>>: opened, or taken for the nth time, within the window
    beat,         \* _TurnActivity: the key's heartbeat is fresh
    epoch,        \* the key's TurnEpoch
    pod,          \* where each pod is in its life
    frozen,       \* pods whose loop is wedged: neither steps nor beats
    copies,       \* the runs of questions on pods
    tick,         \* where each pod's ReclaimTick stands
    endings,      \* what the thread says became of each question, in order
    covered,      \* questions that stand above a give-up ending
    exposed,      \* see Exposes
    stalls, crashes, drains, faults

podVars   == <<pod, frozen, stalls, crashes, drains>>
tableVars == <<row, recent>>
threadVars == <<endings, covered>>
vars == <<asked, claimless, tableVars, beat, epoch, podVars, copies, tick,
          threadVars, exposed, faults>>

-----------------------------------------------------------------------------
NoRow == [owner |-> NoPod, released |-> FALSE, reruns |-> 0]

Idle == [stage |-> "idle", rows |-> [q \in Questions |-> NoRow],
         todo |-> {}, mine |-> {}, stalled |-> FALSE]

Listed(rows, q) == rows[q].owner # NoPod

Running(p) == pod[p] # "gone" /\ p \notin frozen

On(p) == {c \in copies : c.pod = p}

\* `persist` asks, writes and finishes without an await: nothing else happens
\* on its pod's loop meanwhile, but other pods and threads go on.
Persisting(c) == c.stage \in {"checked", "written"}

LoopFree(p) == Running(p) /\ \A c \in On(p) : ~Persisting(c)

\* Mutants: the owner is not compared; a released claim still counts.
IsMine_Open(p, q) == q \in claimless \/ row[q].owner # NoPod
IsMine_Released(p, q) == q \in claimless \/ row[q].owner = p

\* No claim could be opened, or it is owned here and not let go of.
IsMine(p, q) == q \in claimless \/ (row[q].owner = p /\ ~row[q].released)

\* A claim that changes hands while one of its copies is between its check and
\* its finish, which the design accepts: the reply may then be written twice,
\* or dropped by the one whose turn it has become.
Exposes(q) == IF \E c \in copies : c.q = q /\ Persisting(c) THEN {q} ELSE {}

NewCopy(p, q, r, s, k) == [pod |-> p, q |-> q, run |-> r, stage |-> s, kind |-> k, stamp |-> 0]

Becomes(c, d) == copies' = (copies \ {c}) \cup {d}

\* The one asked first, in the order every pod goes through them.
First(S) == {q \in S : \A x \in S : q <= x}

Fault == faults < MaxFaults /\ faults' = faults + 1

-----------------------------------------------------------------------------
(* A question and its run *)

\* The question is stored, its claim opened (best effort), its preparation begun.
Ask(p, q) ==
    /\ pod[p] = "up" /\ LoopFree(p)
    /\ q \notin asked /\ \A x \in Questions : x < q => x \in asked
    /\ asked' = asked \cup {q}
    /\ copies' = copies \cup {NewCopy(p, q, 0, "preparing", "answer")}
    /\ \/ /\ row' = [row EXCEPT ![q] = [NoRow EXCEPT !.owner = p]]
          /\ recent' = recent \cup {<<q, 0>>}
          /\ UNCHANGED <<claimless, faults>>
       \/ /\ Fault
          /\ claimless' = claimless \cup {q}
          /\ UNCHANGED tableVars
    /\ UNCHANGED <<beat, epoch, podVars, tick, threadVars, exposed>>

\* Queued behind the conversation's other turns -- or declined by the worker,
\* its token having been marked by the drain.
PrepareEnds(c) ==
    /\ c.stage = "preparing" /\ LoopFree(c.pod)
    /\ Becomes(c, IF pod[c.pod] = "cancelled"
                  THEN [c EXCEPT !.stage = "ending", !.kind = "cut"]
                  ELSE [c EXCEPT !.stage = "queued"])
    /\ UNCHANGED <<asked, claimless, tableVars, beat, epoch, podVars, tick, threadVars,
                   exposed, faults>>

PrepareFails(c) ==
    /\ c.stage = "preparing" /\ LoopFree(c.pod)
    /\ Becomes(c, [c EXCEPT !.stage = "ending", !.kind = "failed"])
    /\ UNCHANGED <<asked, claimless, tableVars, beat, epoch, podVars, tick, threadVars,
                   exposed, faults>>

\* One turn at a time; it stamps the epoch as it starts.
Start(c) ==
    /\ c.stage = "queued" /\ LoopFree(c.pod)
    /\ \A d \in On(c.pod) : d.stage \in {"preparing", "queued"} \/ d.kind \in {"failed", "lost"}
    /\ Becomes(c, [c EXCEPT !.stage = "running", !.stamp = epoch])
    /\ UNCHANGED <<asked, claimless, tableVars, beat, epoch, podVars, tick, threadVars,
                   exposed, faults>>

TurnEnds(c) ==
    /\ c.stage = "running" /\ LoopFree(c.pod)
    /\ Becomes(c, [c EXCEPT !.stage = "ending"])
    /\ UNCHANGED <<asked, claimless, tableVars, beat, epoch, podVars, tick, threadVars,
                   exposed, faults>>

EpochPassed(c) == epoch > c.stamp

\* The watcher cancels a copy the epoch has moved past.
Watch(c) ==
    /\ c.stage = "running" /\ LoopFree(c.pod)
    /\ EpochPassed(c)
    /\ Becomes(c, [c EXCEPT !.stage = "ending", !.kind = "cut"])
    /\ UNCHANGED <<asked, claimless, tableVars, beat, epoch, podVars, tick, threadVars,
                   exposed, faults>>

-----------------------------------------------------------------------------
(* persist and _end_with_failure: ask, write, finish *)

\* Not this pod's any more: nothing of this copy is persisted.  A claim the
\* store cannot read counts as this pod's.
Check(c) ==
    /\ c.stage = "ending" /\ LoopFree(c.pod)
    /\ c.kind = "lost" => c.q \notin covered
    /\ \/ /\ IsMine(c.pod, c.q)
          /\ Becomes(c, [c EXCEPT !.stage = "checked"])
          /\ UNCHANGED <<exposed, faults>>
       \/ /\ ~IsMine(c.pod, c.q)
          /\ copies' = copies \ {c}
          /\ UNCHANGED <<exposed, faults>>
       \/ /\ ~IsMine(c.pod, c.q) /\ Fault
          /\ Becomes(c, [c EXCEPT !.stage = "checked"])
          /\ exposed' = exposed \cup {c.q}
    /\ UNCHANGED <<asked, claimless, tableVars, beat, epoch, podVars, tick, threadVars>>

\* `abandon`: a give-up ending already stands below this question; its claim
\* is finished without another.
GiveUpCovered(c) ==
    /\ c.stage = "ending" /\ c.kind = "lost" /\ LoopFree(c.pod)
    /\ c.q \in covered
    /\ Becomes(c, [c EXCEPT !.stage = "written"])
    /\ exposed' = IF IsMine(c.pod, c.q) THEN exposed ELSE exposed \cup {c.q}
    /\ UNCHANGED <<asked, claimless, tableVars, beat, epoch, podVars, tick, threadVars,
                   faults>>

\* The ending is stored.  Refused, a reply leaves its claim open; an error
\* ending is not written and the claim is finished all the same.
Write(c) ==
    /\ c.stage = "checked" /\ Running(c.pod)
    /\ \/ /\ Becomes(c, [c EXCEPT !.stage = "written"])
          /\ endings' = [endings EXCEPT ![c.q] = Append(@, c.kind)]
          /\ covered' = IF c.kind = "lost" THEN asked ELSE covered
          /\ UNCHANGED faults
       \/ /\ Fault
          /\ IF c.kind \in {"failed", "lost"}
             THEN Becomes(c, [c EXCEPT !.stage = "written"])
             ELSE copies' = copies \ {c}
          /\ UNCHANGED threadVars
    /\ UNCHANGED <<asked, claimless, tableVars, beat, epoch, podVars, tick, exposed>>

\* Mutant: the claim may be finished before the ending is stored.
Finishes_Early(c) == Persisting(c)

\* The ending is in the store.
Finishes(c) == c.stage = "written"

\* permanently_delete, whoever owns the row by now; refused, it is left for
\* the reclaimer.
FinishClaim(c) ==
    /\ Finishes(c) /\ Running(c.pod)
    /\ copies' = copies \ {c}
    /\ \/ /\ row' = [row EXCEPT ![c.q] = NoRow]
          /\ UNCHANGED <<exposed, faults>>
       \/ /\ row[c.q].owner # NoPod /\ Fault
          /\ exposed' = exposed \cup {c.q}
          /\ UNCHANGED row
    /\ UNCHANGED <<asked, claimless, recent, beat, epoch, podVars, tick, threadVars>>

-----------------------------------------------------------------------------
(* Time *)

Beat(p) ==
    /\ Running(p) /\ On(p) # {} /\ ~beat
    /\ beat' = TRUE
    /\ UNCHANGED <<asked, claimless, tableVars, epoch, podVars, copies, tick, threadVars,
                   exposed, faults>>

\* A running pod with a copy beats every few seconds, and a tick takes what it
\* has judged within milliseconds.
NothingDue ==
    \A p \in Pods : Running(p) =>
        /\ On(p) # {} => beat
        /\ tick[p].stage # "taking"
        /\ tick[p].stage = "rerunning" => On(p) # {}

\* The window since a claim was opened or taken has passed; an earlier take's first.
Age(q, r) ==
    /\ <<q, r>> \in recent /\ NothingDue
    /\ \A x \in recent : x[1] = q => x[2] >= r
    /\ recent' = recent \ {<<q, r>>}
    /\ UNCHANGED <<asked, claimless, row, beat, epoch, podVars, copies, tick, threadVars,
                   exposed, faults>>

BeatExpires ==
    /\ beat /\ NothingDue
    /\ \A p \in Pods : Running(p) => On(p) = {}
    /\ beat' = FALSE
    /\ UNCHANGED <<asked, claimless, tableVars, epoch, podVars, copies, tick, threadVars,
                   exposed, faults>>

-----------------------------------------------------------------------------
(* ReclaimTick.  The scan lease only makes ticks rarer, and the ticks of two *)
(* windows may overlap, so any pod may be in one.                            *)

Ticking(p, s) == pod[p] = "up" /\ p \notin frozen /\ tick[p].stage = s

TickList(p) ==
    /\ Ticking(p, "idle")
    /\ \E q \in Questions : Listed(row, q)
    /\ tick' = [tick EXCEPT ![p] = [Idle EXCEPT !.stage = "listed", !.rows = row]]
    /\ UNCHANGED <<asked, claimless, tableVars, beat, epoch, podVars, copies, threadVars,
                   exposed, faults>>

Others(rows) == {q \in Questions : Listed(rows, q) /\ ~rows[q].released}

\* Mutant: that a claim was just taken is not looked at.
Stale_OpenedOnly(rows) ==
    Others(rows) # {} /\ (\A q \in Others(rows) : <<q, 0>> \notin recent) /\ ~beat

\* None of the unreleased claims was opened or taken within the window, and
\* nobody beats on the key.
Stale(rows) ==
    /\ Others(rows) # {}
    /\ \A q \in Others(rows) : <<q, rows[q].reruns>> \notin recent
    /\ ~beat

\* Mutant: only what was let go of is taken.
Candidates_Released(rows) == {q \in Questions : Listed(rows, q) /\ rows[q].released}

Candidates(rows) ==
    {q \in Questions : Listed(rows, q) /\ (rows[q].released \/ Stale(rows))}

TickJudge(p) ==
    /\ Ticking(p, "listed")
    /\ LET cs == Candidates(tick[p].rows)
       IN  tick' = [tick EXCEPT ![p] = IF cs = {} THEN Idle
                                       ELSE [tick[p] EXCEPT !.stage = "taking",
                                                           !.todo = cs]]
    /\ UNCHANGED <<asked, claimless, tableVars, beat, epoch, podVars, copies, threadVars,
                   exposed, faults>>

\* Mutant: the compare is left out.
Unchanged_NoCas(p, q) == row[q].owner # NoPod

\* The etag the listing read is still the row's.
Unchanged(p, q) == row[q] = tick[p].rows[q]

\* Mutant: one too many.
Spent_OffByOne(r) == r.reruns > MaxReruns

Spent(r) == r.reruns >= MaxReruns

\* Mutant: the row is written without its flag.
Taken_Partial(p, was) == [owner |-> p, reruns |-> was.reruns + 1]

\* What `take` writes: this pod's, not let go of, taken over once more.
Taken(p, was) == [owner |-> p, released |-> FALSE, reruns |-> was.reruns + 1]

\* The give-up of the claim taken last is awaited before the next take.
GivingUp(p) == \E c \in On(p) : c.kind = "lost"

\* The next candidate, in the order asked: taken by CAS; or finished meanwhile,
\* or refused by the store, and left; or a peer's, and then so is the rest.
TickTake(p) ==
    /\ Ticking(p, "taking") /\ tick[p].todo # {} /\ ~GivingUp(p)
    /\ \E q \in First(tick[p].todo) :
       LET was == tick[p].rows[q]
       IN  \/ /\ Unchanged(p, q)
              /\ row' = [row EXCEPT ![q] = Taken(p, was)]
              /\ recent' = recent \cup {<<q, was.reruns + 1>>}
              /\ exposed' = exposed \cup Exposes(q)
              /\ tick' = [tick EXCEPT ![p] = [tick[p] EXCEPT
                             !.todo = @ \ {q},
                             !.stalled = @ \/ ~was.released,
                             !.mine = IF Spent(was) THEN @ ELSE @ \cup {q}]]
              /\ copies' = IF Spent(was)
                           THEN copies \cup {NewCopy(p, q, was.reruns + 1, "ending", "lost")}
                           ELSE copies
              /\ UNCHANGED faults
           \/ /\ ~Unchanged(p, q)
              /\ tick' = [tick EXCEPT ![p] = [tick[p] EXCEPT
                             !.todo = IF Listed(row, q) THEN {} ELSE @ \ {q}]]
              /\ UNCHANGED <<tableVars, exposed, copies, faults>>
           \/ /\ Unchanged(p, q) /\ Fault
              /\ tick' = [tick EXCEPT ![p] = [tick[p] EXCEPT !.todo = @ \ {q}]]
              /\ UNCHANGED <<tableVars, exposed, copies>>
    /\ UNCHANGED <<asked, claimless, beat, epoch, podVars, threadVars>>

\* Mutant: the epoch is left alone.
Advances_Never(p) == FALSE

\* An unreleased claim was taken: its owner may still hold a copy.
Advances(p) == tick[p].stalled

\* Once per key, before any re-run.
TickAdvance(p) ==
    /\ Ticking(p, "taking") /\ tick[p].todo = {} /\ ~GivingUp(p)
    /\ epoch' = IF Advances(p) THEN epoch + 1 ELSE epoch
    /\ tick' = [tick EXCEPT ![p].stage = "rerunning"]
    /\ UNCHANGED <<asked, claimless, tableVars, beat, podVars, copies, threadVars,
                   exposed, faults>>

\* Each re-run is awaited until it is queued.
TickRerun(p) ==
    /\ Ticking(p, "rerunning") /\ tick[p].mine # {}
    /\ \A c \in On(p) : c.run > 0 => c.stage # "preparing"
    /\ \E q \in First(tick[p].mine) :
           /\ copies' = copies \cup
                 {NewCopy(p, q, tick[p].rows[q].reruns + 1, "preparing", "answer")}
           /\ tick' = [tick EXCEPT ![p] = [tick[p] EXCEPT !.mine = @ \ {q}]]
    /\ UNCHANGED <<asked, claimless, tableVars, beat, epoch, podVars, threadVars,
                   exposed, faults>>

TickEnds(p) ==
    /\ Ticking(p, "rerunning") /\ tick[p].mine = {}
    /\ tick' = [tick EXCEPT ![p] = Idle]
    /\ UNCHANGED <<asked, claimless, tableVars, beat, epoch, podVars, copies, threadVars,
                   exposed, faults>>

-----------------------------------------------------------------------------
(* The life of a pod *)

\* The loop is wedged for longer than the stale window.
Stall(p) ==
    /\ pod[p] = "up" /\ p \notin frozen /\ stalls < MaxStalls
    /\ frozen' = frozen \cup {p}
    /\ stalls' = stalls + 1
    /\ UNCHANGED <<asked, claimless, tableVars, beat, epoch, pod, crashes, drains, copies,
                   tick, threadVars, exposed, faults>>

Wake(p) ==
    /\ p \in frozen
    /\ frozen' = frozen \ {p}
    /\ UNCHANGED <<asked, claimless, tableVars, beat, epoch, pod, stalls, crashes, drains,
                   copies, tick, threadVars, exposed, faults>>

\* The deployment keeps a pod that serves.
OtherPodUp(p) == \E o \in Pods \ {p} : pod[o] = "up"

\* What the process held is gone with it.
Gone(p) ==
    /\ pod' = [pod EXCEPT ![p] = "gone"]
    /\ copies' = copies \ On(p)
    /\ tick' = [tick EXCEPT ![p] = Idle]
    /\ frozen' = frozen \ {p}
    /\ exposed' = exposed \cup {c.q : c \in {d \in On(p) : d.stage = "written"}}

Crash(p) ==
    /\ pod[p] # "gone" /\ crashes < MaxCrashes /\ OtherPodUp(p)
    /\ Gone(p)
    /\ crashes' = crashes + 1
    /\ UNCHANGED <<asked, claimless, tableVars, beat, epoch, stalls, drains, threadVars,
                   faults>>

\* The sweepers are cancelled, a tick in the middle of its work with them.
DrainBegin(p) ==
    /\ pod[p] = "up" /\ p \notin frozen /\ drains < MaxDrains /\ OtherPodUp(p)
    /\ pod' = [pod EXCEPT ![p] = "draining"]
    /\ drains' = drains + 1
    /\ tick' = [tick EXCEPT ![p] = Idle]
    /\ UNCHANGED <<asked, claimless, tableVars, beat, epoch, frozen, stalls, crashes,
                   copies, threadVars, exposed, faults>>

\* Time is up with work unfinished: its claims are to be let go of.
DrainDeadline(p) ==
    /\ pod[p] = "draining" /\ On(p) # {}
    /\ pod' = [pod EXCEPT ![p] = "handing"]
    /\ UNCHANGED <<asked, claimless, tableVars, beat, epoch, frozen, stalls, crashes,
                   drains, copies, tick, threadVars, exposed, faults>>

\* A release lands, by CAS: in time, or after the drain has stopped waiting for it.
DrainRelease(p, q) ==
    /\ pod[p] \in {"handing", "cancelled"}
    /\ row[q].owner = p /\ ~row[q].released
    /\ row' = [row EXCEPT ![q].released = TRUE]
    /\ exposed' = exposed \cup Exposes(q)
    /\ UNCHANGED <<asked, claimless, recent, beat, epoch, podVars, copies, tick, threadVars,
                   faults>>

\* What still runs is cancelled, what is queued is skipped, and a send still
\* preparing will be declined.
DrainCancel(p) ==
    /\ pod[p] = "handing" /\ LoopFree(p)
    /\ pod' = [pod EXCEPT ![p] = "cancelled"]
    /\ copies' = {c \in copies : c.pod = p => c.stage \notin {"queued", "running"}}
                 \cup {[c EXCEPT !.stage = "ending", !.kind = "cut"] :
                          c \in {d \in On(p) : d.stage = "running"}}
    /\ UNCHANGED <<asked, claimless, tableVars, beat, epoch, frozen, stalls, crashes,
                   drains, tick, threadVars, exposed, faults>>

DrainExit(p) ==
    /\ pod[p] = "cancelled" \/ (pod[p] = "draining" /\ On(p) = {})
    /\ Gone(p)
    /\ UNCHANGED <<asked, claimless, tableVars, beat, epoch, stalls, crashes, drains,
                   threadVars, faults>>

-----------------------------------------------------------------------------
Init ==
    /\ asked = {} /\ claimless = {}
    /\ row = [q \in Questions |-> NoRow] /\ recent = {}
    /\ beat = FALSE /\ epoch = 0
    /\ pod = [p \in Pods |-> "up"] /\ frozen = {}
    /\ copies = {} /\ tick = [p \in Pods |-> Idle]
    /\ endings = [q \in Questions |-> <<>>] /\ covered = {} /\ exposed = {}
    /\ stalls = 0 /\ crashes = 0 /\ drains = 0 /\ faults = 0

\* What a copy does without the model or a tool answering.
Moves(c) ==
    \/ PrepareEnds(c) \/ PrepareFails(c) \/ Start(c) \/ Watch(c)
    \/ Check(c) \/ GiveUpCovered(c) \/ Write(c) \/ FinishClaim(c)

TickStep(p) ==
    \/ TickList(p) \/ TickJudge(p) \/ TickTake(p) \/ TickAdvance(p) \/ TickRerun(p)
    \/ TickEnds(p)

TimeStep ==
    BeatExpires \/ \E x \in recent : Age(x[1], x[2])

PodStep(p) ==
    \/ Stall(p) \/ Crash(p) \/ DrainBegin(p) \/ DrainDeadline(p)
    \/ DrainCancel(p) \/ DrainExit(p) \/ \E q \in Questions : DrainRelease(p, q)

Next ==
    \/ \E p \in Pods, q \in Questions : Ask(p, q)
    \/ \E c \in copies : Moves(c) \/ TurnEnds(c)
    \/ \E p \in Pods : Beat(p) \/ TickStep(p) \/ Wake(p) \/ PodStep(p)
    \/ TimeStep

Spec == Init /\ [][Next]_vars

(* Fairness: a running pod's loop resumes its tasks, time passes, and every    *)
(* pod that is not gone keeps ticking; a stall ends.  A drain may end at any   *)
(* point, which Kubernetes' grace period makes sure of.                        *)
HangSpec ==
    /\ Spec
    /\ \A p \in Pods :
          /\ WF_vars(\E c \in On(p) : Moves(c))
          /\ WF_vars(TickStep(p)) /\ WF_vars(Beat(p))
          /\ WF_vars(Wake(p) \/ DrainDeadline(p) \/ DrainCancel(p) \/ DrainExit(p))
    /\ WF_vars(TimeStep)

\* Every run ends by itself (the runner bounds its steps and each call's time).
RunsEnd == \A p \in Pods : WF_vars(\E c \in On(p) : TurnEnds(c))

-----------------------------------------------------------------------------
(* Properties *)

Stages == {"preparing", "queued", "running", "ending", "checked", "written"}
Kinds == {"answer", "cut", "failed", "lost"}
Rows == [owner : Pods \cup {NoPod}, released : BOOLEAN, reruns : Nat]
Copies == [pod : Pods, q : Questions, run : Nat, stage : Stages, kind : Kinds, stamp : Nat]
Ticks == [stage : {"idle", "listed", "taking", "rerunning"}, rows : [Questions -> Rows],
          todo : SUBSET Questions, mine : SUBSET Questions, stalled : BOOLEAN]

\* Types of the shared tables, of what the pods hold, and of the thread.
TableTypeOK ==
    /\ asked \in SUBSET Questions /\ claimless \in SUBSET Questions
    /\ row \in [Questions -> Rows] /\ recent \in SUBSET (Questions \X Nat)
    /\ epoch \in Nat

BeatTypeOK == beat \in BOOLEAN

PodTypeOK ==
    /\ pod \in [Pods -> {"up", "draining", "handing", "cancelled", "gone"}]
    /\ frozen \in SUBSET Pods
    /\ stalls \in Nat /\ crashes \in Nat /\ drains \in Nat /\ faults \in Nat

CopyTypeOK == copies \in SUBSET Copies

TickTypeOK == tick \in [Pods -> Ticks]

ThreadTypeOK ==
    /\ endings \in [Questions -> Seq(Kinds)]
    /\ covered \in SUBSET Questions /\ exposed \in SUBSET Questions

\* Types of every variable, as the rows and the fields hold them.
TypeOK ==
    /\ TableTypeOK /\ BeatTypeOK /\ PodTypeOK /\ CopyTypeOK /\ TickTypeOK /\ ThreadTypeOK

\* However claims are taken, released and taken again, a question gets one
\* ending in its thread -- unless its claim changed hands inside a persist,
\* between the check and the finish.
EndsOnce == \A q \in Questions \ exposed : Len(endings[q]) <= 1

\* Whoever is writing an ending holds the claim and has not let go of it: a
\* turn handed over by a drain, or whose claim a peer took while its pod was
\* stalled, leaves no partial reply and no marker.
OnlyTheHolderPersists ==
    \A c \in copies :
        Persisting(c) /\ c.q \notin exposed \cup claimless
            => row[c.q].owner = c.pod /\ ~row[c.q].released

\* take's CAS gives each re-run of a question to one pod: no two copies of the
\* same run exist anywhere, and none is still to be started of a run that exists.
OneRunner ==
    /\ \A c, d \in copies : c.q = d.q /\ c.run = d.run => c = d
    /\ \A p \in Pods, c \in copies :
          c.q \in tick[p].mine => c.run # tick[p].rows[c.q].reruns + 1

\* A question is re-run at most RECLAIM_MAX_RERUNS times; after that it is only
\* given up on.
RerunsAreBounded == \A c \in copies : c.run > MaxReruns => c.kind = "lost"

\* The claims of a pod that runs and has not let go of them are never taken,
\* however young they are and however late their first beat: a tick never
\* mistakes a turn that has not beaten yet for a dead owner (no stalls, no
\* store faults).
LiveOwnerKeepsItsClaim ==
    [][\A q \in Questions :
          (Listed(row, q) /\ row'[q].reruns > row[q].reruns /\ ~row[q].released)
              => ~Running(row[q].owner) \/ pod[row[q].owner] # "up"]_vars

\* A claim is finished only when its question has an ending of its own or
\* stands above a give-up ending: "it is finished when the reply persists and
\* not before" (ReclaimTick).
FinishedIsEnded ==
    \A q \in asked \ claimless : ~Listed(row, q) => endings[q] # <<>> \/ q \in covered

\* When runs end by themselves, every question whose claim was opened is ended,
\* whichever pods stall, crash or are drained, as long as one keeps serving.
EveryQuestionEnds ==
    RunsEnd => \A q \in Questions :
        Listed(row, q) ~> (~Listed(row, q) /\ (endings[q] # <<>> \/ q \in covered))

\* A copy that still runs when its claim is taken, even one that hangs, lets go
\* once its pod is back: that is what the epoch is advanced for -- unless a pod
\* died meanwhile, which may be the taker, between the take and the advance.
TakenCopyLetsGo ==
    \A q \in Questions, r \in 0..MaxReruns :
        LET Runs == \E c \in copies : c.q = q /\ c.run = r /\ c.stage = "running"
            Taking == \E p \in Pods : /\ tick[p].stage = "taking"
                                      /\ row[q] = Taken(p, tick[p].rows[q])
        IN  (Runs /\ Taking /\ r < row[q].reruns) ~> (~Runs \/ crashes > 0 \/ drains > 0)

\* What a person may rely on, whatever pods do: the claims implement the ledger
\* of questions, in which a debt is settled only by what the thread tells, and
\* the thread tells it once (no store faults).
Promise == INSTANCE QuestionLedger WITH
    owed <- {q \in Questions : Listed(row, q)},
    told <- [q \in Questions |-> Len(endings[q])],
    waived <- exposed

ImplementsLedger == Promise!Spec
=============================================================================

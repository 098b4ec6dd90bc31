----------------------------- MODULE IndexFanout -----------------------------
(***************************************************************************)
(* The indexing of one knowledge-base document: the requests that enqueue   *)
(* it, the split job that clears its chunks and fans it out, the process    *)
(* jobs that index one batch each, the join state they agree on by          *)
(* compare-and-set, the finalize job, and the two sweeps that recover what  *)
(* is left behind.  One step is one call of the store or of the queue;      *)
(* everything a handler read before it is in its record `at[t]`.            *)
(*                                                                         *)
(* The job queue and the store are external: a job is delivered at least    *)
(* once (a thread that dies, or stalls past its heartbeat, has its job      *)
(* delivered again, or retired when its deliveries are spent), and a write  *)
(* of the document without a revision replaces the whole row.               *)
(***************************************************************************)
EXTENDS Integers, FiniteSets

CONSTANTS
  Batches,      \* the unit batches of the document
  Threads,      \* consumer threads and sweep loops of all pods
  None,         \* no version of the content
  PlanFails,    \* whether planning the fan-out may fail
  MaxEvents,    \* later requests, crashes, stalls and failures of a behaviour
  MaxPending    \* jobs of one kind waiting in the queue

ASSUME BatchesAssumption == IsFiniteSet(Batches) /\ Batches # {}
ASSUME BoundsAssumption ==
  /\ PlanFails \in BOOLEAN
  /\ MaxEvents \in Nat
  /\ MaxPending \in Nat \ {0}
ASSUME NoneAssumption == None \notin Nat
ASSUME NamesAssumption == Batches \cap {"split", "finalize", "runs", "docs", "none"} = {}

VARIABLES
  doc,      \* the SourceDoc row: content, status and extracted text
  chunks,   \* the version of the content each batch's rows were built from
  staged,   \* the staged text of each batch
  run,      \* the IndexRun row
  pending,  \* how many jobs of each kind wait in the queue
  at,       \* what each thread is doing
  request,  \* the request being served
  old,      \* the rows not written for longer than the sweeps' grace
  count     \* events and splits so far

vars == <<doc, chunks, staged, run, pending, at, request, old, count>>

Versions == 0 .. MaxEvents
Rows == [Batches -> Versions \cup {None}]
NoRows == [b \in Batches |-> None]
AllOf(v) == [b \in Batches |-> v]
Jobs == Batches \cup {"split", "finalize"}
Sweeps == {"runs", "docs"}

Idle == [pc |-> "idle", job |-> "none", v |-> None, rows |-> NoRows,
         bad |-> FALSE, fresh |-> FALSE, won |-> FALSE, held |-> FALSE,
         todo |-> {}]
NoRequest == [pc |-> "idle", kind |-> "none", v |-> None, rows |-> NoRows,
              fresh |-> FALSE]

Accounted(r) == r.done \cup r.failed

\* Mutant: the first report completes the run.
Complete_Any(r) == Accounted(r) # {}

\* Every batch of the run has reported, one way or the other.
Complete(r) == Accounted(r) = Batches

\* mark_done: the batch joins those done.
WithDone(r, b) == [r EXCEPT !.done = @ \cup {b}]

\* Mutant: the batches that failed are not looked at.
AnyFailed_Ignored(r) == FALSE

\* What the verdict is decided on.
AnyFailed(r) == r.failed # {}

Running == run.status = "running"
Event == count.events < MaxEvents /\ count' = [count EXCEPT !.events = @ + 1]

-----------------------------------------------------------------------------
(* The rows.  A write of the run breaks every compare-and-set read before   *)
(* it, a write of the document breaks the collection re-read's.             *)

RunWritten(r, a) ==
  /\ run' = r
  /\ at' = [t \in Threads |-> [a[t] EXCEPT !.fresh = FALSE]]
  /\ old' = old \ {"run"}

DocWritten(content, status, text) ==
  /\ doc' = [content |-> content, status |-> status, text |-> text]
  /\ old' = old \ {"doc"}

Overtaken(q) == [q EXCEPT !.fresh = FALSE]

Add(job) == pending' = [pending EXCEPT ![job] = IF @ < MaxPending THEN @ + 1 ELSE @]

Goto(t, pc) == at' = [at EXCEPT ![t].pc = pc]

-----------------------------------------------------------------------------
(* Requests: the upload that stored the document, an edit (PATCH and its    *)
(* on_success handler), the re-read route, and one document of a            *)
(* collection re-read.                                                      *)

Serve(q) ==
  /\ request.pc = "idle"
  /\ Event
  /\ request' = q

Edit ==
  /\ Serve([NoRequest EXCEPT !.pc = "check", !.kind = "edit"])
  /\ DocWritten(doc.content + 1, doc.status, doc.text)
  /\ UNCHANGED <<chunks, staged, run, pending, at>>

ReindexRead ==
  /\ Serve([NoRequest EXCEPT !.pc = "flip", !.kind = "reindex",
                             !.v = doc.content, !.rows = doc.text])
  /\ UNCHANGED <<doc, chunks, staged, run, pending, at, old>>

ReindexFlip ==
  /\ request.kind = "reindex" /\ request.pc = "flip"
  /\ DocWritten(request.v, "indexing", request.rows)
  /\ request' = [request EXCEPT !.pc = "check"]
  /\ UNCHANGED <<chunks, staged, run, pending, at, count>>

RequeueRead ==
  /\ Serve([pc |-> "check", kind |-> "requeue", v |-> doc.content,
            rows |-> doc.text, fresh |-> TRUE])
  /\ UNCHANGED <<doc, chunks, staged, run, pending, at, old>>

\* What follows the enqueue: only the collection re-read still has to flip.
Enqueued == IF request.kind = "requeue" THEN [request EXCEPT !.pc = "flip"] ELSE NoRequest

EnqueueCheck ==
  /\ request.pc = "check"
  /\ request' = IF pending["split"] > 0 \/ Running
                THEN Enqueued
                ELSE [request EXCEPT !.pc = "create"]
  /\ UNCHANGED <<doc, chunks, staged, run, pending, at, old, count>>

EnqueueCreate ==
  /\ request.pc = "create"
  /\ Add("split")
  /\ request' = Enqueued
  /\ UNCHANGED <<doc, chunks, staged, run, at, old, count>>

\* Mutant: the flip is written whatever happened since the read.
RevisionHolds_Blind(q) == TRUE

\* The revision the request read is still the current one.
RevisionHolds(q) == q.fresh

RequeueFlip ==
  /\ request.kind = "requeue" /\ request.pc = "flip"
  /\ IF RevisionHolds(request)
     THEN DocWritten(request.v, "indexing", request.rows)
     ELSE UNCHANGED <<doc, old>>
  /\ request' = NoRequest
  /\ UNCHANGED <<chunks, staged, run, pending, at, count>>

RequestDies ==
  /\ request.pc # "idle"
  /\ Event
  /\ request' = NoRequest
  /\ UNCHANGED <<doc, chunks, staged, run, pending, at, old>>

-----------------------------------------------------------------------------
(* The queue.  Split jobs of one document carry its id as partition key and *)
(* are popped one at a time; the others run in parallel.                    *)

First(job) == CASE job = "split" -> "plan"
                [] job = "finalize" -> "guard"
                [] OTHER -> "running"

Pop(t, job) ==
  /\ at[t].pc = "idle"
  /\ pending[job] > 0
  /\ job = "split" => \A u \in Threads : ~(at[u].job = "split" /\ at[u].held)
  /\ pending' = [pending EXCEPT ![job] = @ - 1]
  /\ at' = [at EXCEPT ![t] = [Idle EXCEPT !.pc = First(job), !.job = job, !.held = TRUE]]
  /\ UNCHANGED <<doc, chunks, staged, run, request, old, count>>

\* The handler returns: the job is done.
Return(t) == at' = [at EXCEPT ![t] = Idle]

\* The thread dies, or its handler raises: the job is delivered again, or
\* retired when its deliveries are spent (or at once, for NoRetry).
Redelivered(t) ==
  \/ at[t].job \in Jobs /\ at[t].held /\ Add(at[t].job)
  \/ UNCHANGED pending

Crash(t) ==
  /\ at[t].pc # "idle"
  /\ Event
  /\ Redelivered(t)
  /\ Return(t)
  /\ UNCHANGED <<doc, chunks, staged, run, request, old>>

\* The thread stalls past its heartbeat: the job goes to another as well.
Stall(t) ==
  /\ at[t].pc # "idle" /\ at[t].held
  /\ Event
  /\ Redelivered(t)
  /\ at' = [at EXCEPT ![t].held = FALSE]
  /\ UNCHANGED <<doc, chunks, staged, run, request, old>>

-----------------------------------------------------------------------------
(* split                                                                    *)

SplitPlan(t) ==
  /\ at[t].pc = "plan"
  /\ \/ /\ Cardinality(Batches) > 1
        /\ Goto(t, "clear")
     \/ /\ Cardinality(Batches) = 1 \/ PlanFails
        /\ at' = [at EXCEPT ![t].pc = "drop", ![t].v = doc.content]
  /\ count' = [count EXCEPT !.splits = @ + 1]
  /\ UNCHANGED <<doc, chunks, staged, run, pending, request, old>>

SplitClear(t) ==
  /\ at[t].pc = "clear"
  /\ chunks' = NoRows
  /\ Goto(t, "unstage")
  /\ UNCHANGED <<doc, staged, run, pending, request, old, count>>

SplitUnstage(t) ==
  /\ at[t].pc = "unstage"
  /\ staged' = NoRows
  /\ Goto(t, "start")
  /\ UNCHANGED <<doc, chunks, run, pending, request, old, count>>

SplitStart(t) ==
  /\ at[t].pc = "start"
  /\ RunWritten([status |-> "running", done |-> {}, failed |-> {}, finalized |-> FALSE],
                [at EXCEPT ![t].pc = "create", ![t].todo = Batches])
  /\ UNCHANGED <<doc, chunks, staged, pending, request, count>>

SplitCreate(t) ==
  /\ at[t].pc = "create"
  /\ \E b \in at[t].todo :
       /\ Add(b)
       /\ IF at[t].todo = {b}
          THEN Return(t)
          ELSE at' = [at EXCEPT ![t].todo = @ \ {b}]
  /\ UNCHANGED <<doc, chunks, staged, run, request, old, count>>

\* Ingestor.index, the single-job path.
WholeDrop(t) ==
  /\ at[t].pc = "drop"
  /\ chunks' = NoRows
  /\ Goto(t, "whole")
  /\ UNCHANGED <<doc, staged, run, pending, request, old, count>>

WholeIndex(t) ==
  /\ at[t].pc = "whole"
  /\ chunks' = AllOf(at[t].v)
  /\ Goto(t, "publish")
  /\ UNCHANGED <<doc, staged, run, pending, request, old, count>>

WholePublish(t) ==
  /\ at[t].pc = "publish"
  /\ DocWritten(at[t].v, "ready", AllOf(at[t].v))
  /\ request' = Overtaken(request)
  /\ Return(t)
  /\ UNCHANGED <<chunks, staged, run, pending, count>>

\* The embedder fails: transient and deliveries left, so the document stays
\* indexing and the job is raised back to the queue, or the verdict `error`.
WholeFails(t) ==
  /\ at[t].pc = "whole"
  /\ Event
  /\ \E final \in BOOLEAN :
       at' = [at EXCEPT ![t].pc = "stamp", ![t].bad = final,
                        ![t].v = doc.content, ![t].rows = doc.text]
  /\ UNCHANGED <<doc, chunks, staged, run, pending, request, old>>

WholeStamp(t) ==
  /\ at[t].pc = "stamp"
  /\ DocWritten(at[t].v, IF at[t].bad THEN "error" ELSE "indexing", at[t].rows)
  /\ IF ~at[t].bad /\ at[t].held THEN Add("split") ELSE UNCHANGED pending
  /\ request' = Overtaken(request)
  /\ Return(t)
  /\ UNCHANGED <<chunks, staged, run, count>>

-----------------------------------------------------------------------------
(* process                                                                  *)

ProcessGuard(t) ==
  /\ at[t].pc = "running"
  /\ IF Running
     THEN at' = [at EXCEPT ![t].pc = "write", ![t].v = doc.content]
     ELSE Return(t)
  /\ UNCHANGED <<doc, chunks, staged, run, pending, request, old, count>>

\* The rows are create-only: the first writer wins.
ProcessWrite(t) ==
  /\ at[t].pc = "write"
  /\ chunks' = [chunks EXCEPT ![at[t].job] = IF @ = None THEN at[t].v ELSE @]
  /\ Goto(t, "counted")
  /\ UNCHANGED <<doc, staged, run, pending, request, old, count>>

ProcessFails(t) ==
  /\ at[t].pc = "write"
  /\ Event
  /\ Redelivered(t)
  /\ Return(t)
  /\ UNCHANGED <<doc, chunks, staged, run, request, old>>

ProcessCounted(t) ==
  /\ at[t].pc = "counted"
  /\ Goto(t, IF at[t].job \in run.done THEN "gate" ELSE "stage")
  /\ UNCHANGED <<doc, chunks, staged, run, pending, request, old, count>>

ProcessStage(t) ==
  /\ at[t].pc = "stage"
  /\ staged' = [staged EXCEPT ![at[t].job] = at[t].v]
  /\ Goto(t, "done")
  /\ UNCHANGED <<doc, chunks, run, pending, request, old, count>>

MarkDone(t) ==
  /\ at[t].pc = "done"
  /\ IF at[t].job \in run.done
     THEN Goto(t, "gate") /\ UNCHANGED <<run, old>>
     ELSE RunWritten(WithDone(run, at[t].job),
                     [at EXCEPT ![t].pc = "gate"])
  /\ UNCHANGED <<doc, chunks, staged, pending, request, count>>

-----------------------------------------------------------------------------
(* claim_finalize: read, then write if nothing was written since.  `claimed`
   is set before the write and is not taken back when the write is refused. *)

ClaimRead(t) ==
  /\ at[t].pc = "gate"
  /\ at' = IF run.finalized \/ ~Complete(run)
           THEN [at EXCEPT ![t].pc = "claimed"]
           ELSE [at EXCEPT ![t].pc = "flag", ![t].won = TRUE, ![t].fresh = TRUE]
  /\ UNCHANGED <<doc, chunks, staged, run, pending, request, old, count>>

ClaimWrite(t) ==
  /\ at[t].pc = "flag"
  /\ IF at[t].fresh
     THEN RunWritten([run EXCEPT !.finalized = TRUE], [at EXCEPT ![t].pc = "claimed"])
     ELSE Goto(t, "gate") /\ UNCHANGED <<run, old>>
  /\ UNCHANGED <<doc, chunks, staged, pending, request, count>>

\* Mutant: a run claimed long ago is left to its winner.
SendsFinalize_Winner(a) == a.won

\* The winner enqueues the finalize job; the sweep also when it lost but had
\* listed a run claimed long ago (`bad`).
SendsFinalize(a) == a.won \/ (a.job = "runs" /\ a.bad)

EnqueueFinalize(t) ==
  /\ at[t].pc = "claimed"
  /\ IF SendsFinalize(at[t])
     THEN Add("finalize")
     ELSE UNCHANGED pending
  /\ Return(t)
  /\ UNCHANGED <<doc, chunks, staged, run, request, old, count>>

-----------------------------------------------------------------------------
(* finalize                                                                 *)

FinalizeGuard(t) ==
  /\ at[t].pc = "guard"
  /\ IF Running
     THEN at' = [at EXCEPT ![t].pc = "read", ![t].bad = AnyFailed(run)]
     ELSE Return(t)
  /\ UNCHANGED <<doc, chunks, staged, run, pending, request, old, count>>

FinalizeRead(t) ==
  /\ at[t].pc = "read"
  /\ at' = [at EXCEPT ![t].pc = "verdict", ![t].v = doc.content, ![t].rows = staged]
  /\ UNCHANGED <<doc, chunks, staged, run, pending, request, old, count>>

FinalizeVerdict(t) ==
  /\ at[t].pc = "verdict"
  /\ DocWritten(at[t].v, IF at[t].bad THEN "error" ELSE "ready", at[t].rows)
  /\ request' = Overtaken(request)
  /\ Goto(t, "tidy")
  /\ UNCHANGED <<chunks, staged, run, pending, count>>

FinalizeTidy(t) ==
  /\ at[t].pc = "tidy"
  /\ staged' = NoRows
  /\ Goto(t, "finish")
  /\ UNCHANGED <<doc, chunks, run, pending, request, old, count>>

FinalizeFinish(t) ==
  /\ at[t].pc = "finish"
  /\ RunWritten([run EXCEPT !.status = IF at[t].bad THEN "error" ELSE "done"],
                [at EXCEPT ![t] = Idle])
  /\ UNCHANGED <<doc, chunks, staged, pending, request, count>>

-----------------------------------------------------------------------------
(* The sweeps, and the time they wait for.                                  *)

\* Nothing is at work or waiting: only then does the grace pass by itself.
Quiet ==
  /\ \A t \in Threads : at[t].pc = "idle"
  /\ \A j \in Jobs : pending[j] = 0
  /\ request.pc = "idle"

\* The grace passes without a write of the row; with work under way that
\* takes a slow handler, an event.
Age(row) ==
  /\ row \notin old
  /\ \/ row = "run" /\ Running
     \/ row = "doc" /\ doc.status = "indexing"
  /\ (Quiet /\ UNCHANGED count) \/ Event
  /\ old' = old \cup {row}
  /\ UNCHANGED <<doc, chunks, staged, run, pending, at, request>>

SweepRuns(t) ==
  /\ at[t].pc = "idle"
  /\ Running
  /\ \/ /\ Complete(run)
        /\ ~run.finalized \/ "run" \in old    \* otherwise the pass does nothing
        /\ at' = [at EXCEPT ![t] = [Idle EXCEPT !.pc = "gate", !.job = "runs",
                                                !.bad = run.finalized]]
     \/ /\ ~Complete(run) /\ "run" \in old
        /\ at' = [at EXCEPT ![t] = [Idle EXCEPT !.pc = "fail", !.job = "runs",
                                                !.bad = run.finalized,
                                                !.todo = Batches \ Accounted(run)]]
  /\ UNCHANGED <<doc, chunks, staged, run, pending, request, old, count>>

MarkFailed(t) ==
  /\ at[t].pc = "fail"
  /\ \E b \in at[t].todo :
       LET a == [at EXCEPT ![t].todo = @ \ {b},
                           ![t].pc = IF at[t].todo = {b} THEN "gate" ELSE "fail"] IN
       IF b \in run.failed
       THEN at' = a /\ UNCHANGED <<run, old>>
       ELSE RunWritten([run EXCEPT !.failed = @ \cup {b}], a)
  /\ UNCHANGED <<doc, chunks, staged, pending, request, count>>

StillMoving ==
  \/ Running /\ "run" \notin old
  \/ pending["split"] > 0
  \/ \E t \in Threads : at[t].job = "split" /\ at[t].held

\* Mutant: a document that never had a fan-out run is not looked at.
LooksStuck_OfARun == doc.status = "indexing" /\ "doc" \in old /\ run.status # "none"
LooksStuck == doc.status = "indexing" /\ "doc" \in old

SweepDocs(t) ==
  /\ at[t].pc = "idle"
  /\ LooksStuck
  /\ ~StillMoving
  /\ at' = [at EXCEPT ![t] = [Idle EXCEPT !.pc = "judge", !.job = "docs",
                                          !.v = doc.content, !.rows = doc.text]]
  /\ UNCHANGED <<doc, chunks, staged, run, pending, request, old, count>>

SweepVerdict(t) ==
  /\ at[t].pc = "judge"
  /\ DocWritten(at[t].v, "error", at[t].rows)
  /\ request' = Overtaken(request)
  /\ Return(t)
  /\ UNCHANGED <<chunks, staged, run, pending, count>>

-----------------------------------------------------------------------------
Init ==
  /\ doc = [content |-> 0, status |-> "indexing", text |-> NoRows]
  /\ chunks = NoRows
  /\ staged = NoRows
  /\ run = [status |-> "none", done |-> {}, failed |-> {}, finalized |-> FALSE]
  /\ pending = [j \in Jobs |-> 0]
  /\ at = [t \in Threads |-> Idle]
  /\ request = [NoRequest EXCEPT !.pc = "check", !.kind = "upload"]
  /\ old = {}
  /\ count = [events |-> 0, splits |-> 0]

Requests ==
  \/ Edit \/ ReindexRead \/ ReindexFlip \/ RequeueRead
  \/ EnqueueCheck \/ EnqueueCreate \/ RequeueFlip \/ RequestDies

Split(t) ==
  \/ SplitPlan(t) \/ SplitClear(t) \/ SplitUnstage(t) \/ SplitStart(t) \/ SplitCreate(t)
  \/ WholeDrop(t) \/ WholeIndex(t) \/ WholePublish(t) \/ WholeFails(t) \/ WholeStamp(t)

Process(t) ==
  \/ ProcessGuard(t) \/ ProcessWrite(t) \/ ProcessFails(t) \/ ProcessCounted(t)
  \/ ProcessStage(t) \/ MarkDone(t)

Claim(t) == ClaimRead(t) \/ ClaimWrite(t) \/ EnqueueFinalize(t)

Finalize(t) ==
  \/ FinalizeGuard(t) \/ FinalizeRead(t) \/ FinalizeVerdict(t)
  \/ FinalizeTidy(t) \/ FinalizeFinish(t)

Sweep(t) == SweepRuns(t) \/ MarkFailed(t) \/ SweepDocs(t) \/ SweepVerdict(t)

Next ==
  \/ Requests
  \/ \E row \in {"run", "doc"} : Age(row)
  \/ \E t \in Threads :
       \/ \E job \in Jobs : Pop(t, job)
       \/ Crash(t) \/ Stall(t)
       \/ Split(t) \/ Process(t) \/ Claim(t) \/ Finalize(t) \/ Sweep(t)

Spec == Init /\ [][Next]_vars

\* Threads that do not crash go on, a waiting job finds a consumer however
\* often the sweeps run, and the grace of an untouched row ends.
Fairness ==
  /\ WF_vars(Requests)
  /\ WF_vars(Age("run")) /\ WF_vars(Age("doc"))
  /\ \A t \in Threads :
       /\ WF_vars(Split(t)) /\ WF_vars(Process(t)) /\ WF_vars(Claim(t))
       /\ WF_vars(Finalize(t)) /\ WF_vars(Sweep(t))
  /\ \A job \in Jobs : SF_vars(\E t \in Threads : Pop(t, job))

FairSpec == Spec /\ Fairness

-----------------------------------------------------------------------------
(* Properties.  A second split of a document whose first is still under    *)
(* way tramples it, since nothing ties a process job to the run that sent   *)
(* it: ReadyIsWhole and VerdictAfterTheGate are about one split.            *)

\* Every row, job and thread record has its type.
TypeOK ==
  /\ doc \in [content : Versions, status : {"indexing", "ready", "error"}, text : Rows]
  /\ chunks \in Rows
  /\ staged \in Rows
  /\ run \in [status : {"none", "running", "done", "error"}, done : SUBSET Batches,
              failed : SUBSET Batches, finalized : BOOLEAN]
  /\ pending \in [Jobs -> 0 .. MaxPending]
  /\ at \in [Threads -> [pc : {"idle", "plan", "clear", "unstage", "start", "create",
                               "drop", "whole", "publish", "stamp", "running", "write", "counted",
                               "stage", "done", "gate", "flag", "claimed", "guard", "read",
                               "verdict", "tidy", "finish", "fail", "judge"},
                         job : Jobs \cup Sweeps \cup {"none"},
                         v : Versions \cup {None}, rows : Rows, bad : BOOLEAN,
                         fresh : BOOLEAN, won : BOOLEAN, held : BOOLEAN,
                         todo : SUBSET Batches]]
  /\ request \in [pc : {"idle", "flip", "check", "create"},
                  kind : {"none", "upload", "edit", "reindex", "requeue"},
                  v : Versions \cup {None}, rows : Rows, fresh : BOOLEAN]
  /\ old \subseteq {"run", "doc"}
  /\ count \in [events : 0 .. MaxEvents, splits : Nat]

\* A document shown as ready has the rows of all its batches: redelivered
\* batches, batches that died and were failed by the sweep, and a finalize
\* that ran late or twice never publish a document with a hole in it.
ReadyIsWhole ==
  count.splits <= 1 /\ doc.status = "ready" => \A b \in Batches : chunks[b] # None

\* The finalize job writes its verdict only for a run that every batch has
\* reported to and whose gate was claimed, whoever enqueued the job.
VerdictAfterTheGate ==
  [][\A t \in Threads : FinalizeVerdict(t) /\ count.splits <= 1
       => run.finalized /\ Accounted(run) = Batches]_vars

\* The collection re-read, which marks a document as indexing only after its
\* job was enqueued, never undoes the content or the text a worker or an edit
\* has written since it read the row.
FlipUndoesNothing ==
  [][RequeueFlip => doc'.content = doc.content /\ doc'.text = doc.text]_vars

\* A ready document that nothing works on any more has its extracted text:
\* a second finalize, which finds the staging area cleared, does not wipe it.
TextIsKept == Quiet /\ doc.status = "ready" => doc.text # NoRows

\* Whatever request, thread or job is lost on the way, a document that is
\* being indexed gets its verdict.
EveryDocumentSettles == doc.status = "indexing" ~> doc.status # "indexing"

\* A run that was started is closed, also when the winner of the gate died
\* before its finalize job was enqueued.
EveryRunCloses == Running ~> ~Running
=============================================================================

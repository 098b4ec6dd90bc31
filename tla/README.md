# Verification of the workspace server

The repository is a multi-user workspace server: people chat with an agent
about an item, the agent works in a sandbox, workflows and schedules start
work of their own, and a knowledge base (KB) is indexed by background jobs.
Several replicas (pods) of one server share a document store (specstar) and
nothing else. This directory holds TLA+ models of the parts whose correctness
depends on orderings no test reaches, what TLC checks of them, and what TLAPS
proves of them.

Paths below are relative to `src/src/workspace_app/`.

## 1. Inventory

| Component | State it keeps | Operations | Interacts with |
|---|---|---|---|
| **turn engine** (`api/turns.py`, `ChatTurnEngine`) | per conversation: FIFO queue, running turn task, running author, who interrupted it, epoch stamp | `enqueue`, `_worker`, fold and mid-run read of waiting messages, `cancel_current`, takeover, `aclose` | chat send, turn control, event bus |
| **chat send** (`api/chat_send.py`, `api/kb_chat_routes.py`) | sends being prepared; the stored thread | `_send`, `_start_turn`, `on_complete`/`persist`, `_end_with_failure`, `give_up_reclaimed`, re-runs | turn engine, claims, agent runner |
| **turn claims and reclaim** (`api/turn_claims.py`, `api/turn_reclaim.py`) | one `TurnClaim` row per unanswered question: owner, released, re-run count | `open`, `is_mine`, `finish`, `release`, `take` (compare-and-set), `ReclaimTick` | heartbeat, turn control, chat send |
| **turn heartbeat** (`api/turn_activity.py`) | one beat per conversation key | beat, stale test | reclaim |
| **turn control** (`turn_control/`) | one cancel epoch per conversation key | `advance`, `current` | Stop, reclaim, watcher |
| **pod lifecycle** (`api/lifecycle.py`) | sweepers, drain order | start, drain, stop | everything above |
| **live stream, event bus** (`api/event_bus/`, `turns.py`) | per-session ring of events with sequence numbers | publish, subscribe, resume by `Last-Event-ID`, fan-out | turn engine, web client |
| **sandbox registry** (`api/registry.py`, `sandbox_address.py`, `sandbox_activity.py`) | sandbox handle per item, addresses and activity in the store | acquire, write back, reap when idle, close | sandbox backends, file sync |
| **sandbox backends** (`sandbox/`) | processes and containers | create, exec, kill | registry |
| **sandbox file sync** (`sync/`, `files/`) | which side holds the newest copy | push, pull, write back | registry, file stores |
| **file stores** (`filestore/`) | files, blobs, migration state | read, write, backfill, blob collection | sync, quota |
| **failover** (`failover/`) | cool-downs, rate-limit gates | pick an endpoint, record a failure | runner |
| **workflow orchestrator** (`workflow/`) | run record, journal, gates | start, resume, decide, cancel, abandon | turn engine, triggers |
| **triggers and schedules** (`workflow/triggers.py` and others) | due windows, scan lease | scan, claim a window, fire | orchestrator |
| **KB indexing, wiki jobs** (`kb/index_coordinator.py`, `kb/index_run.py`, ...) | one index run per document: batches done, finalize gate | fan out, mark done, finalize, sweep | job queue, KB store |
| **KB retrieval** (`kb/retriever.py`, ...) | none | rank, fuse | runner |
| **conversation goals** (`api/goal_*.py`) | rounds used, state | round, pause, wrap up | chat send |
| **quota** (`quota/`) | disk ledger | admit, book, reconcile | file stores |
| **permissions** (`perm/`) | none | predicates over records | routes |
| **agent tools and runner**, **apps, entities, config**, **model settings, health, capacity, monitor**, **chat video, changelog, skill eval**, **tooling, view plugins** | data, prompts, dashboards | - | - |
| **web client** (`src/web/`) | last number seen, ids drawn | reconnect, resume, drop duplicates | live stream |
| **sandbox host, desktop helper** | separate programs | - | the server's API |

What is hard, and what makes each part correct:

- *Turn engine.* Sends, the worker, the turn task, Stop, another person's
  message, another pod's Stop and the drain interleave at every `await`.
  Correct: a message is in one place and its POST is answered once; a turn runs
  as one person; a Stop reaches the turn it was pressed on, even one that
  hangs; nothing is given back to a queue that is closing.
- *Claims and reclaim.* Pods stall, crash and are drained; listings are stale
  when used; a persist is three store calls. Correct: one runner per take-over,
  one ending per question, only the holder writes, a live owner keeps its
  claim, re-runs are bounded, and every question is ended.
- *Live stream.* Events arrive with and without listeners, numbers of two pods
  meet. Correct: a resume replays what was missed, once and in order.
- *Sandbox registry.* Building, reaping and using race across pods. Correct:
  one live sandbox per item, none killed while in use, no write lost.
- *Index fan-out.* Jobs are redelivered, the winner of the finalize gate may
  die. Correct: a document is finalized once, from all its batches, and always.
- *Triggers, workflows.* A claimed window or a driver may die with its pod.
  Correct: a due window fires once; one driver per run; a run always ends.
- *File migration, quota, failover, goals.* Check-then-act over awaits.
  Correct: a newer file is never overwritten by an older one; the ledger is not
  set back; an endpoint in cool-down is not tried first; caps hold.

`PROJECT.json` lists the hazards at their lines, with the property that covers
each, or the reason why none does.

## 2. Plan

| Step | Module | State |
|---|---|---|
| 1 | `TurnQueue`: one conversation on one pod | done, proved |
| 2 | `TurnClaims`: one conversation's questions across pods | done, proved |
| 3 | `QuestionLedger`: what the claims promise, and `TurnClaims` shown to implement it | done, proved |
| 4 | `IndexFanout`: the indexing of one document | done, proved |
| 5 | `LiveStream`: the events of one conversation, and their viewer | done, proved |
| 6 | `SandboxRegistry`: the sandbox of one item across pods | done, proved |
| 7 | `ScheduledRuns`: the runs of one schedule, and their drivers | done, proved |
| 8 | file migration, quota ledger, conversation store, failover, goals | left |

"Proved" means the module's types and every safety property its passing runs
check; liveness stays with TLC (section 11).

The modules meet where the code does: `TurnQueue` has the claim as its queue
sees it (a peer takes it, the store refuses it) and `TurnClaims` has the queue
as a copy's stages, so each is the other's environment. `LiveStream` takes the
events of a turn as given.

## 3. `TurnQueue`: one conversation on one pod

asyncio runs one task at a time and switches only at an `await`, so an action
is the code from one `await` to the next. The variables, with the field each
stands for, are listed at the head of the module. The payload of a message is
left out; what is kept is its author and its kind (a person's, a goal round, a
workflow step), because the code's conditions ask for these.

| Actions | Code |
|---|---|
| `Prepare`, `PrepareFails`, `Enqueue` | `_send` and `_start_turn`: the claim is opened, the prompt prepared over awaits, the entry put in the queue; a failed preparation ends in the thread |
| `SkipOnDrain`, `Decline`, `Begin`, `HandBack`, `StartTurn`, `StampEpoch`, `AfterTurn` | `_worker`: take the head with what folds into it, end a stopped send without running it, rebuild the history, give the group back when someone else speaks meanwhile, start the turn, stamp its epoch, settle what it had read |
| `TurnFirstStep`, `TurnNeverRan`, `ReadInterjections`, `TurnEnds`, `TurnCancelled`, `FlushEnds`, `FlushCut` | the turn task: its run, messages read in the middle of it, `on_complete`, the turn-end flush |
| `DeliverCancel`, `WatchEpoch` | the `call_soon`ed cancel of a takeover, and the watcher that polls the epoch |
| `StopPress`, `StopAdvance`, `StopLand` | `cancel_current`, split at its await |
| `PeerAdvances`, `PeerTakes` | another pod's Stop, another pod's take of a claim |
| `DrainBegin` ... `DrainClose` | `aclose`, its releases landing in time, late or never |

Two interleavings exist only if the history refresh really suspends: a message
that arrives during the refresh, and a drain that begins there. The refreshes
wired today are synchronous under an `async` signature; the model lets them
suspend, as the interface allows.

`ClaimStore = FALSE` is a KB chat: it has no claims and no hand-over.

## 4. `TurnClaims`: the questions of one conversation across pods

A *copy* is one run of a question on one pod, with its run number (the re-run
count of the claim when it began) and its stage: preparing, queued, running,
ending, checked, written. Folding, Stop and the order of the queue are left to
`TurnQueue`; here each question is a turn of its own.

| Actions | Code |
|---|---|
| `Ask`, `PrepareEnds`, `PrepareFails`, `Start`, `TurnEnds`, `Watch` | the send and its turn: claim opened (or refused by the store), prepared, run, cut short by the epoch |
| `Check`, `Write`, `FinishClaim`, `GiveUpCovered` | `persist`, `_end_with_failure`, `give_up_reclaimed`: is the claim ours, write the ending, delete the claim |
| `Beat`, `BeatExpires`, `Age` | the heartbeat and the stale window |
| `TickList`, `TickJudge`, `TickTake`, `TickAdvance`, `TickRerun`, `TickEnds` | `ReclaimTick`, between the store calls another pod can interleave with |
| `Stall`, `Wake`, `Crash`, `DrainBegin`, `DrainDeadline`, `DrainRelease`, `DrainCancel`, `DrainExit` | a wedged loop, a lost process, the drain of the pod |

Decisions a reader should know:

- *Time* is what the code compares it to: a beat, an opened claim or a taken
  one is within the stale window or it is not. The window passes only while no
  running pod owes a beat; a pod that does not beat for longer is a *stall*.
- *Persist* is three store calls with no `await`: nothing else happens on that
  pod's loop (`LoopFree`), while other pods and store threads go on.
- `exposed` marks the questions for which a claim changed hands inside such a
  persist, or for which a store call or the process failed after the write.
  The code accepts these windows (its comments say the reclaimer sweeps what is
  left); `EndsOnce` and `OnlyTheHolderPersists` are stated outside them.
- `take` is atomic: specstar's revision check is assumed to make it so.
- The sweep lease makes ticks rarer and never excludes one, so any pod may tick.
- The epoch's stamp is read together with the start of the turn.
- The deployment keeps one pod that serves (`OtherPodUp`).
- An `advance` that fails, and beats that fail while the pod runs, are left out.

### What the claims promise

`QuestionLedger` has no pod, claim row, heartbeat or copy: a question is asked,
it is owed, the thread tells what became of it, the debt is settled. A debt is
settled only by what the thread tells, and it is told once, except for a
question that was *waived*. `TurnClaims!Promise` maps the ledger onto the
claims: what is owed are the claimed questions, what is told the endings in the
thread, what is waived the `exposed` ones. That every step of the claims is a
step of the ledger or a stutter is `ImplementsLedger`, checked and proved
without store faults.

## 5. `IndexFanout`: the indexing of one document

`kb/index_coordinator.py`, `kb/index_run.py` and `kb/ingest.py`. A step is one
call of the store or of the job queue; what a handler has read is kept in
`at[t]`, so that it is stale when the code uses it. Content is a version
number, a batch's chunks and staged text the version they were built from.

| Actions | Code |
|---|---|
| `Edit`, `ReindexRead`, `ReindexFlip`, `RequeueRead`, `EnqueueCheck`, `EnqueueCreate`, `RequeueFlip`, `RequestDies` | the requests: new content, re-read of one document, re-read of a collection with its late flip to *indexing* by compare-and-set; enqueueing coalesces with a waiting job |
| `Pop`, `Crash`, `Stall` | the queue: delivered at least once, again after a death or a stall, retired when the deliveries are spent |
| `SplitPlan` ... `SplitCreate`, `WholeDrop` ... `WholeStamp` | the split job; when planning fails, the whole document in one job |
| `ProcessGuard` ... `MarkDone`, `ClaimRead`, `ClaimWrite`, `EnqueueFinalize` | one batch, its report to the run, the gate's compare-and-set |
| `FinalizeGuard` ... `FinalizeFinish` | the finalize job |
| `Age`, `SweepRuns`, `MarkFailed`, `SweepDocs`, `SweepVerdict` | time, and the two sweeps for stuck runs and stuck documents |

Decisions: a write of the row without a revision replaces all of it, as
specstar's does. `ReadyIsWhole` and `VerdictAfterTheGate` are about the first
split of a document: a second one started over the first clears its chunks, and
the code gives no promise there (section 10), so the proofs carry what they
say of the gate only while one split was planned. Deletion, duplicates of a
document, the wiki, digest and quality hooks and progress texts are left out.

## 6. `SandboxRegistry`: the sandbox of one item across pods

`api/registry.py` with `sandbox_address.py` and `sandbox_activity.py`, and the
routing of file operations of `files/facade.py`. The deployment is the one with
a sandbox host: the host mints handles, restores the durable copy on `create`
and writes it back on request. A sandbox's content is a set of writes.

| Actions | Code |
|---|---|
| `TurnBegin`, `Lock`, `AcquireRead`, `Create`, `Publish`, `KillOrphan`, `Bump`, `Use`, `Flush` | a turn: the session's lock, the published address, a build when it is empty or dead, publication by compare-and-set, the loser's kill; the exec and its rebuild on a dead handle; the end-of-turn flush |
| `FileResolve`, `FileCheck`, `ColdWrite`, `Use` | a file operation: the live sandbox if one is published, else the durable copy |
| `ReapPick`, `ReapRead`, `Writeback`, `Kill`, `ReapDrop` | the idle reaper, between its look at the fleet's heartbeat and its kill |
| `Shutdown`, `ShutdownRead`, `Forget`, `Mirror` | `close_all`, and the checkpoint |
| `CloseBegin`, `CloseTake`, `ClosePublished`, `CloseList`, `CloseUnrecorded`, `Teardown`, `CloseKill`, `ClosePop` | `close_session`: this pod's handle, the published one, the host's unrecorded ones |
| `SessionAges`, `BeatAges`, `HostReaps`, `PodCrashes` | idle time, the host's own reaping, a lost pod |

`exposed` records the writes that land in a window the code leaves open
(section 10 lists them); `AckedIsKept` is about all others.

## 7. `LiveStream`: the events of one conversation

`ChatTurnEngine`'s session (`api/turns.py`), the bus of `api/event_bus/`, and
the viewer's loop of `src/web/src/hooks/useChatSession.tsx`. An event is its id.

| Actions | Code |
|---|---|
| `Publish`, `PublishUnserved` | `_fanout` on the pod that publishes: number, ring, subscribers; and the bus |
| `Deliver`, `Lose` | a frame of another pod, dropped where nobody listens; a frame the broker loses |
| `Connect`, `Detach`, `CloseStreams`, `Forget` | `subscribe` with the viewer's last number and its replay; the end of a response; a session forgotten |
| `Receive`, `Drop`, `Ends` | the viewer: draw what it has not drawn, by id; lose the connection; be closed |

Presence is left out. `due` and `all` are history variables for the properties.

## 8. `ScheduledRuns`: the runs of one schedule

`workflow/triggers.py` and `workflow/orchestrator.py`.

| Actions | Code |
|---|---|
| `TickBegin`, `TickJudge`, `TickResume`, `TickSpawn`, `TickAbandon`, `TickWrites` | the sweep: the scan lease, what became of the recorded run, resume by a compare-and-set on its heartbeat, the bounded attempts, giving it up |
| `TickDue`, `TickClaim`, `TickStart`, `TickFails`, `TickCreate` | a due window: claimed by compare-and-set, the item's one active run, the run and its driver |
| `DriverStarts`, `DriverSettles` | the driver: its slot, and how it leaves the run |
| `Cancel`, `CancelLands`, `Decide`, `DecideLands`, `Retry`, `RetryLands`, `Refused` | Stop, a gate's answer and Continue, split at their awaits |
| `NextWindow`, `NextScan`, `Age`, `Crash` | the clock, a heartbeat that goes stale, a lost pod |

Any pod may begin a request on any run; a pod has one of a kind for a run at a
time. Two answers, or two Continues, that have both passed their checks on
different pods *cross* (section 10): `crossed` names their runs, and `OneDriver`
and `EndedStaysEnded` are about the others.

Two assumptions are in the actions: a sweep is over before the next scan
interval begins (`NextScan`), and a driver that lives beats within the grace
period (`Age`). Steps, phases and the journal, steering, page jobs, pruning and
the run's timeout are left out.

## 9. Runs

All runs allow a state without successors (`CHECK_DEADLOCK FALSE`): with every
question ended, every window fired or a pod closed, nothing is left to do.

| Run | Instance | Shows |
|---|---|---|
| `queue_stop` | 2 people, 3 messages, 1 Stop, 1 epoch advance and 1 take by peers | types; no message lost or held twice; takeovers exact; a stopped send never runs; own endings final; a lost claim is ended elsewhere |
| `queue_drain` | 2 messages of one person, a goal round and a step of another's, a drain, 1 take | on a pod that goes at any moment, rounds and steps are never folded; nothing is given back to a closing queue; no POST woken for a question nobody will end |
| `queue_kb` | 3 messages, no claims, 1 Stop, a drain, 1 refused write | no POST is woken for a question nobody will end |
| `queue_live` | as `queue_stop` without the take, with fairness | every POST is woken; a Stop, here or on another pod, ends a run that hangs |
| `claims_once` | 2 pods, 1 question, 1 re-run, 1 stall, 1 crash, 1 drain, 1 store fault | one ending, one runner per take-over, only the holder writes, re-runs bounded |
| `claims_crash` | 3 pods, 2 questions, 1 re-run, 2 crashes | a live owner keeps its claim; a claim goes only with an ending, one give-up covering both questions included |
| `claims_live` | 2 pods, 1 question, 1 stall, 1 crash, 1 drain, with fairness | every question is ended; a copy whose claim was taken lets go; the claims implement `QuestionLedger` |
| `index_fanout` | 2 batches, 2 threads, 1 later request, crash, stall or failure, with fairness | no ready document with a hole, no verdict before the gate, the late flip undoes nothing, every document gets a verdict and every run is closed |
| `index_text` | 2 batches, 2 threads, no fault at all | the disagreement of section 10 |
| `sandbox_registry` | 2 pods, 3 tasks, 3 operations, 3 sandboxes, 1 crash or reap | one sandbox is worked in, acknowledged writes are kept, a close ends the published sandbox |
| `live_stream` | 2 pods, 1 viewer, 3 events, ring of 2, 1 lost connection, 1 forgotten session, 1 lost frame, with fairness | an event is numbered once and drawn once, a return to one's pod is whole, no viewer goes deaf |
| `scheduled_runs` | 2 pods, 2 windows, 2 runs, 2 attempts, 2 faults, 2 presses, with fairness | one driver unless requests cross, one run per window, what has ended stays ended, a recorded run settles, the next window is claimed |

Why the bounds are enough. Three messages of two people are the least in which
a message is folded, given back by another's takeover, and folded again; a goal
round and a step are one entry of each other kind. One stall, one crash and one
drain on the same question already put every pair of them, and a take, inside
every persist; the third pod of `claims_crash` is the tick that watches a claim
another has just taken; two questions are what a shared give-up ending needs.
Two batches and two threads are what a race at the gate needs, and what a sweep
beside a consumer needs; an event at any step is one edit, re-read, death or
failure against any of them. Three sandboxes are one that dies and two pods
that build over it; three operations are two users and a teardown. A ring of
two under three events loses one. Two windows let the debt of the first hold up
the second, two faults spend the attempts of a run.
Pods of the claims are interchangeable (no pod id is ordered), so their safety
runs use symmetry; the runs with liveness do not.

A live owner's claim is safe only without stalls (`claims_crash` has none): a
pod that stalls past the window is meant to lose its claims.

### Fairness

- `Scheduled` (`TurnQueue`): asyncio resumes every task that is ready, a
  scheduled callback runs, the watcher polls, an accepted Stop is carried out.
- `HangSpec` (`TurnClaims`): a pod's loop resumes its copies, every pod that
  serves ticks and beats, a stall ends, a drain moves on (its phases have
  deadlines), time passes.
- `RunsEnd`, a premise of `EveryPostWakes` and `EveryQuestionEnds` only: a run
  ends by itself, since the runner bounds its steps and each call's time. The
  properties on hanging runs do not have it.
- `IndexFanout`: consumers take and carry out jobs, the sweeps come round, rows
  that nobody writes grow old.
- `LiveStream`: the bus consumer of a pod, the viewer's loop and its reconnect
  go on.
- `ScheduledRuns`: scans come round, a sweep, a request and a driver go on
  (slots are bounded and freed by runs that end or pause), heartbeats that
  nobody writes grow stale.
- No fairness is assumed of people, peers, stalls, crashes, releases or faults.

`TakenCopyLetsGo` excepts executions in which a pod has died: a taker that dies
between its take and its advance leaves the old copy running to its own end.

## 10. Where the code disagrees with what it says

The run `index_text` shows one, with no fault in it: `claim_finalize`
(`kb/index_run.py:111`) sets `claimed` before its compare-and-set and keeps it
when the write is refused, so of two batches that finish together both win; two
finalize jobs run, and the one that reads the staging area after the other has
cleared it publishes the document without its text. Its docstring says "Returns
``True`` for the single winner".

The others are known exceptions of the models: the actions have them, and the
properties are stated around them.

*Turn engine.*
- A cancel that arrives in the turn-end flush, after the reply was stored, gives
  back messages that reply has answered (`api/turns.py:1622`); `_after_turn`
  says such a turn "answered nothing it read".
- A Stop awaits the epoch's advance and then cancels whatever turn is current
  (`api/turns.py:1925`), perhaps the next one; `cancel_current` says "Queued
  messages are untouched".
- The claim is asked about only for a turn's own message, so one that a peer has
  taken may still be folded here: the exception of `LostClaimEndsElsewhere`.

*Claims.*
- `is_mine` compares pod ids (`api/turn_claims.py:203`): a pod that stalled and
  takes its own claim back has two copies that are both the owner's; the old
  one, cancelled by the advance, stores its cut-off reply and deletes the claim.
- A tick judges the claims of its listing and then advances the whole
  conversation's epoch (`api/turn_reclaim.py:189`), cutting short a turn asked
  in between.
- `_end_with_failure` suppresses a refused write and finishes the claim
  (`api/chat_send.py:1317`): the question has neither an ending nor a claim.

*Indexing.*
- A second split that starts over a first one tramples it: both write into the
  same chunks, staging area and run.
- Writes of the row without a revision (`kb/ingest.py:664`) put back the content
  from before an edit that was committed in between.
- An edit while a run is active is coalesced into it and may never be indexed.
- A death between clearing the staging area and closing the run lets the
  sweep's second finalize wipe the text.

*Sandbox.* The windows of `exposed`:
- a write between a teardown's write-back and its kill;
- a write to the durable copy while a sandbox lives that is not published yet:
  `resolve_io_handle` (`api/registry.py:200-219`) argues that "a live sandbox is
  ALWAYS published";
- a reaper's kill of a handle that changed since its write-back;
- the host's reaping of content not written back;
- an unpublished sandbox written back over a newer durable copy by a close.

*Live stream.*
- A viewer remembers as many ids (`SEEN_IDS_MAX`, 2000) as the ring holds, since
  "remembering further back than the server can replay buys nothing"
  (`useChatSession.tsx:161-164`). Two pods that numbered differently can replay
  together more than one ring: an event older than the memory may then be drawn
  twice. `DrawnOnce` is stated for a memory that covers the events
  (`Remember` at least `MaxEvents`).
- A pod without listeners does not number another pod's events
  (`api/turns.py:1218`), so a viewer that moves pods, or whose session was
  forgotten, resumes with a number of another counter and skips events
  (`api/turns.py:2022`): `SamePodIsWhole` is about those that stay.
  The viewer's rule that a contiguous number means nothing was missed
  (`useChatSession.tsx:301-304`) fails there too.

*Schedules and runs.*
- Stop of a run that is paused at a gate, has no driver, or waits for a slot
  does not end it; `api/workflow_routes.py:756` says "Stop a run — it goes
  terminal (cancelled)". A Stop on another pod while a Continue is starting is
  lost.
- A run whose pod dies before it was driven stays pending, and holds up the
  schedule; one whose pod dies before it was recorded is not resumed.
- A claimed window whose start fails is gone, and one that is due while the
  item has another active run is spent; `workflow/triggers.py:831` says
  "Missed windows fire late (catch-up), never dropped".
- A resume whose workflow does not load is not counted as an attempt.
- A sweep that outlives its scan interval meets the next one, and the ledger's
  rows are written back without compare-and-set.
- Two answers to one gate, or two Continues, given at once on two pods start two
  drivers (`crossed`); so does a driver slower than the grace period, and a
  person's start beside the schedule's (`workflow/orchestrator.py:614`). The
  last two are left out.

## 11. Proofs

For every value of the constants that satisfies the modules' named assumptions
(finite sets of messages, people, questions or tasks, any bounds), TLAPS proves
the types of each module and every safety property the passing runs check. The
assumptions beyond those are named with the theorem.

Each proof has an inductive invariant that the property follows from, one lemma
per action or group of actions that disturbs it, and a temporal step at the end.

**`TurnQueueProofs`** - `TypeCorrect`, `HeldOnceHolds`,
`StoppedSendNeverRunsHolds`. `HeldOnce` is not inductive: an action that empties
`entry` or `folded` keeps it only because of where the worker stands. `Core ==
TypeOK /\ Shape /\ HeldOnce` adds, in `Shape`, what `entry`, `folded` and the
turn are at each of the worker's stages. Lemmas on `Pick`, `PutFront` and the
tail of a queue give its items and that nothing is repeated.
`StoppedSendNeverRuns` is inductive relative to `Core`: a send is marked only
while nothing holds it.

**`TurnEndingProofs`** - six more properties of `TurnQueue` from `Core`.
`OwnTurnIsFinal` needs `Unended`: a message still on its way, in the line or at
the head of a turn that has not started has no ending yet. `WakeIsAccountedFor`
needs `Accounts`: what the claim rows say of each message (`Recorded`), that
what `on_complete` reported of a turn is still true when the worker looks
(`Told`), and that a turn which ended without an outcome never ran, which only a
drain does (`NeverRan`). `TakeoverIsExact`, `OnlyPersonsAreFolded`,
`DrainGivesNothingBack` and `LostClaimEndsElsewhere` hold by `Core` and the
steps that can disturb them.

**`TurnClaimsProofs`** - `TypeCorrect`, `OneRunnerHolds`, `EndsOnceHolds`,
`OnlyTheHolderPersistsHolds`, `RerunsAreBoundedHolds`. The invariant is
`Safe == TypeOK /\ Ledger /\ RunsCounted /\ OneRunner /\ EndingsSettled /\
GiveUps`. `Ledger` says that claims, copies, endings and listings are of
questions that were asked. `RunsCounted` says that the claim's re-run count
bounds the run of every copy and exceeds the listing of every tick that has
taken it: the compare-and-set raises the count, so two takes never give the same
run, which is `OneRunner`. `EndingsSettled` says that one persist is at work on
a pod, that a question with an ending has no copy about to write another and,
while it is still claimed, a copy about to finish the claim: the holder that
passes the check is therefore the first to write, which is `EndsOnce`.
`GiveUps` says that a run beyond the bound only gives up.

**`PromiseProofs`** - what the claims promise, from `Safe`.
- `FinishedIsEndedHolds`: while the store has refused no call (`faults = 0`, a
  condition on the state, so `MaxFaults` is any). `Truthful` adds that a copy
  about to finish its claim has an ending behind it.
- `ImplementsLedgerHolds`, for `MaxFaults = 0`: initial states map to initial
  states, and each action to the step of the ledger it is, or to a stutter.
  With a refused call it is false, as section 10 says of `_end_with_failure`.
- `LiveOwnerKeepsItsClaimHolds`, for `MaxFaults = 0` and `MaxStalls = 0`: a pod
  that stalls is meant to lose its claims. `Guarded` ties a claim to a copy at
  work on its owner's pod (`HeldIsWorked`), that copy to a beat or to the
  claim's youth (`HeldIsBeaten`), and a tick's listing to the rows as they were
  (`ListedBefore`): what a tick has judged and finds unchanged is held by nobody
  (`JudgedIsNotHeld`).

**`ScheduledRunsProofs`** - `TypeCorrect`, `OneDriverHolds`,
`OncePerWindowHolds`, `EndedStaysEndedHolds`. Two counters that only grow give
the windows (`Windows`). `Driving` says, of each run that no two requests cross
for, who may be at work on it and what its row says meanwhile: at most one of a
driver, a sweep about to start one and a Continue or an answer about to. It
needs that a stale heartbeat means nobody is there (`StaleRow`), and that this
stays true until the sweep acts, because sweeps come one at a time (`OneSweep`).

**`LiveStreamProofs`** - `TypeCorrect`, `NumberedOnceHolds`,
`SamePodIsWholeHolds`, `DrawnOnceHolds`. A ring holds the newest numbers without
a gap (`RingOf`), which is also why a replay is the newest part of the ring;
what a pod has numbered is no longer on its way to it (`OnceOf`); a viewer knows
of no session of the future (`LivesOf`); and for one that only ever was at this
session, the response ascends beyond what it has seen and every entry of the
ring due to it is drawn, in the response, or numbered above all it has seen
(`HomeOf`). `DrawnOnce` is proved for `MaxEvents <= Remember`, the case in which
the viewer's memory forgets nothing (`Memory`).

**`IndexFanoutProofs`** - `TypeCorrect`, `ReadyIsWholeHolds`,
`VerdictAfterTheGateHolds`, `FlipUndoesNothingHolds`. While one split was
planned, `OneSplit` says that a thread between its plan and the start of its run
is alone there, that what is reported done is written, that the gate is claimed
only when every batch has reported, and what each thread's stale read of the run
still guarantees. `Unmoved` says that a re-read whose revision is current has
the content and the text of the row, which is why its late flip undoes nothing.

**`SandboxRegistryProofs`** - `TypeCorrect`, `OneSandboxHolds`,
`AckedIsKeptHolds`, `CloseEndsThePublishedHolds`.
- `Typed` adds to the types what a task has at each stage. That a pod always has
  a session object to give needs the set of tasks to be finite.
- `Converged`: whatever a session or a task has in hand is published or dead;
  what is being built is published by nobody, held by one task, and known to
  nobody as dead or as the address to converge on (`Apart`); and the slot it
  will be swapped into is dead. `OneSandbox` is two of its conjuncts.
- `Saved`: the acknowledged writes outside the windows are in the published
  sandbox while it lives, else in the durable copy (`InPlace`); a sandbox about
  to be published over this address came up with all of them (`Ready`); and one
  about to be killed has been written back since the last write (`Left`). The
  step to notice is a kill: it takes the handle the session has *by now*, which
  by `Converged` is published or dead.
- `Closing`: as long as a close is the last operation started, nobody else is at
  work, what it has tried is dead but for the sandbox it is tearing down, and
  past the address the published one is dead. A close counts as alone when
  nothing was at work as it began and nothing starts before it ends, which is
  what `at[a].write = ops` records.

Only model-checked:
- liveness: `EveryPostWakes`, `StopEndsTheTurn`, `EpochEndsTheTurn`,
  `EveryQuestionEnds`, `TakenCopyLetsGo`, `EveryDocumentSettles`,
  `EveryRunCloses`, `NoDeafViewer`, `RecordedRunSettles`, `NextWindowIsClaimed`.
  They rest on fairness and `ENABLED`, which the prover does not reason about;
- the counterexample to `TextIsKept`, which is a run and not a theorem;
- the ledger under store faults: it does not hold there.

## 12. Not modelled

The components marked so in `PROJECT.json`: file stores, quota, failover and
goals, which are left in the plan; I/O (sandbox backends, sandbox host, the
broker's transport); pure data (configuration, prompts, tools, permissions,
rendering, ranking). Most of the repository's lines are of these last kinds:
routes, tool schemas, prompts, settings and user interface, which have no state
of their own that several actors share.

Within the modelled components: `run_interruptible`, the message reducer and
history builders of the turn engine; the content of prompts and replies; the
conversation's revision check on writes of the thread; and what sections 5 to 8
leave out by name.

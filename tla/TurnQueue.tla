----------------------------- MODULE TurnQueue -----------------------------
(***************************************************************************)
(* One conversation of ChatTurnEngine on one pod: the FIFO of messages     *)
(* (`_TurnQueue`), the worker that runs them one turn at a time, the turn  *)
(* task and the cancels that reach it, and everyone who acts on them:      *)
(* sends preparing a turn, Stop, another person's takeover, the cross-pod  *)
(* cancel epoch, a peer that takes a claim, and the drain of the pod.      *)
(*                                                                         *)
(* asyncio runs one task at a time and switches only at an `await`, so an  *)
(* action here is the code from one `await` to the next.                   *)
(***************************************************************************)
EXTENDS Integers, Sequences, FiniteSets

CONSTANTS
    Messages,      \* the queue entries of one run
    Users,         \* the people (and the setters of goals)
    NoOne,         \* no user, or no message
    Author,        \* who sent each message
    Kind,          \* "person", "driven" (a goal round), "step" (a workflow's)
    ClaimStore,    \* TRUE: app chat, each question has a TurnClaim; FALSE: KB chat
    Rollout,       \* TRUE: the pod may be drained
    MaxStops,      \* bound: Stops pressed on this pod
    MaxEpoch,      \* bound: the epoch a peer may advance to
    MaxTakes,      \* bound: claims a peer takes
    MaxFaults      \* bound: writes of the thread the store refuses

ASSUME TurnQueueAssumption ==
    /\ IsFiniteSet(Messages)
    /\ NoOne \notin Messages \cup Users
    /\ Author \in [Messages -> Users]
    /\ Kind \in [Messages -> {"person", "driven", "step"}]
    /\ ClaimStore \in BOOLEAN /\ Rollout \in BOOLEAN
    /\ MaxStops \in Nat /\ MaxEpoch \in Nat /\ MaxTakes \in Nat /\ MaxFaults \in Nat

VARIABLES
    queue,          \* _TurnQueue._items
    folded,         \* the messages the turn answers besides its own
    entry,          \* the message whose turn it is
    worker,         \* where _worker stands
    runningAuthor,  \* _WorkspaceSession.running_author
    interruptedBy,  \* _WorkspaceSession.interrupted_by
    turn,           \* the turn task
    cancel,         \* "soon": call_soon(turn.cancel); "now": delivered at the next resume
    unwinding,      \* the task ends with CancelledError
    outcome,        \* what on_complete said
    watcher,        \* an epoch watcher polls for this turn
    myEpoch,        \* the epoch the turn was stamped with
    epoch,          \* ITurnControl: the shared cancel epoch
    sent,           \* how far each send has come
    marked,         \* PendingTurn.cancelled
    woken,          \* the futures that are resolved
    claim,          \* each message's TurnClaim, as this pod stands to it
    ending,         \* what the stored thread says became of each message
    unsaved,        \* messages whose ending the store refused to write
    faults, takes,  \* how often the bounded faults happened
    drain,          \* where aclose stands
    handover,       \* aclose found unfinished work and releases the claims
    stop, presses   \* the Stop in progress, and how many were pressed

lineVars   == <<queue, folded, entry>>
workerVars == <<worker, runningAuthor, interruptedBy>>
turnVars   == <<turn, cancel, unwinding, outcome, watcher, myEpoch>>
sendVars   == <<sent, marked>>
recordVars == <<claim, ending, unsaved, faults>>
drainVars  == <<drain, handover>>
stopVars   == <<stop, presses>>
envVars    == <<epoch, takes>>
vars == <<lineVars, workerVars, turnVars, sendVars, woken, recordVars,
          drainVars, stopVars, envVars>>

-----------------------------------------------------------------------------
(* Reading the state *)

Items(q) == {q[i] : i \in DOMAIN q}

\* The members of S in q, in the order they have there.
Pick(q, S) ==
    LET at == {i \in DOMAIN q : q[i] \in S}
    IN  [k \in 1..Cardinality(at) |->
            q[CHOOSE i \in at : Cardinality({j \in at : j <= i}) = k]]

\* `aclose` has finished waiting: a turn cancelled from here on is the pod going.
Draining == drain \in {"cancelling", "closed"}

\* The turn task exists and has not ended.
Live == turn \in {"created", "working", "flushing"}

\* Mutants: a goal round counts as a person; a stopped send is not left out.
IsPersons_Goal(m) == Kind[m] # "step" /\ m \notin marked
IsPersons_Stopped(m) == Kind[m] = "person"

\* A person's message still to be answered: what the fold, the reader and a
\* takeover look at.
IsPersons(m) == Kind[m] = "person" /\ m \notin marked

Persons == {m \in Messages : IsPersons(m)}

\* Mutants: the owner is not looked at; a turn without a claim is not this pod's.
ClaimIsMine_Open(m) == claim[m] # "done"
ClaimIsMine_NoneIsNot(m) == claim[m] = "mine"

\* The reply is this pod's to write: no claim at all, or an open one held here.
ClaimIsMine(m) == claim[m] \in {"none", "mine"}

\* permanently_delete: whoever holds the claim, the row is gone.
Finish(c, S) == [m \in Messages |->
                    IF m \in S /\ c[m] \in {"mine", "lost"} THEN "done" ELSE c[m]]

\* Mutant: the list itself is put at the head, not its entries.
PutFront_Nested(entries, q) == <<entries>> \o q

\* `put_front`: back at the head, in order.
PutFront(entries, q) == entries \o q

\* Mutant: the claim is finished whatever on_complete said.
SettledClaim_Always(m, verdict) == Finish(claim, {m})

\* The claim is finished once the ending is in the store, and not before.
SettledClaim(m, verdict) == IF verdict = "stored" THEN Finish(claim, {m}) ELSE claim

-----------------------------------------------------------------------------
(* What is written when a turn ends: on_complete.  `how` is the ending of   *)
(* m itself; `others` are the messages the same reply answers.              *)
OnComplete(m, how, others, verdict) ==
    /\ verdict = "not_mine" <=> ~ClaimIsMine(m)
    /\ verdict = "raised" => faults < MaxFaults
    /\ faults' = faults + (IF verdict = "raised" THEN 1 ELSE 0)
    /\ unsaved' = IF verdict = "raised" THEN unsaved \cup {m} \cup others ELSE unsaved
    /\ ending' = IF verdict # "stored" THEN ending
                 ELSE [x \in Messages |-> IF x = m THEN how
                                          ELSE IF x \in others THEN "answered"
                                          ELSE ending[x]]
    /\ claim' = SettledClaim(m, verdict)

Verdicts == {"stored", "not_mine", "raised"}

-----------------------------------------------------------------------------
(* Sends *)

\* The question is stored, its claim opened, its PendingTurn registered.
Prepare(m) ==
    /\ sent[m] = "new" /\ Kind[m] # "step"
    /\ sent' = [sent EXCEPT ![m] = "preparing"]
    /\ claim' = [claim EXCEPT ![m] = IF ClaimStore THEN "mine" ELSE "none"]
    /\ UNCHANGED <<lineVars, workerVars, turnVars, marked, woken, ending, unsaved,
                   faults, drainVars, stopVars, envVars>>

\* Preparation raised: the thread gets its error ending, while the claim is ours.
PrepareFails(m) ==
    /\ sent[m] = "preparing"
    /\ sent' = [sent EXCEPT ![m] = "failed"]
    /\ IF ClaimIsMine(m)
       THEN /\ ending' = [ending EXCEPT ![m] = "failed"]
            /\ claim' = Finish(claim, {m})
       ELSE UNCHANGED <<ending, claim>>
    /\ UNCHANGED <<lineVars, workerVars, turnVars, marked, woken, unsaved, faults,
                   drainVars, stopVars, envVars>>

\* Mutant: only a turn that already runs is taken over, not one being prepared.
TakesOver_Running(m) == IsPersons(m) /\ Live /\ Author[m] # runningAuthor

\* Someone else's message stops the turn that is being started or run.
TakesOver(m) ==
    /\ IsPersons(m)
    /\ runningAuthor # NoOne
    /\ Author[m] # runningAuthor

\* The token is retired; the cancel of a takeover is left to the loop's next pass.
Enqueue(m) ==
    /\ sent[m] = IF Kind[m] = "step" THEN "new" ELSE "preparing"
    /\ sent' = [sent EXCEPT ![m] = "enqueued"]
    /\ worker' = IF worker = "gone" THEN "parked" ELSE worker
    /\ IF TakesOver(m)
       THEN /\ interruptedBy' = Author[m]
            /\ cancel' = IF Live /\ cancel = "no" THEN "soon" ELSE cancel
       ELSE UNCHANGED <<interruptedBy, cancel>>
    /\ queue' = Append(queue, m)
    /\ UNCHANGED <<folded, entry, runningAuthor, turn, unwinding, outcome, watcher,
                   myEpoch, marked, woken, recordVars, drainVars, stopVars, envVars>>

-----------------------------------------------------------------------------
(* The worker *)

\* Draining: nothing new starts; the POST is woken, the claim stays for a peer.
SkipOnDrain ==
    /\ worker = "parked" /\ queue # <<>>
    /\ Draining /\ Head(queue) \notin marked
    /\ queue' = Tail(queue)
    /\ woken' = woken \cup {Head(queue)}
    /\ UNCHANGED <<folded, entry, workerVars, turnVars, sendVars, recordVars,
                   drainVars, stopVars, envVars>>

\* Stopped while preparing: ended on the record without running.
Decline ==
    /\ worker = "parked" /\ queue # <<>>
    /\ Head(queue) \in marked
    /\ queue' = Tail(queue)
    /\ woken' = woken \cup {Head(queue)}
    /\ \E v \in Verdicts : OnComplete(Head(queue), "declined", {}, v)
    /\ UNCHANGED <<folded, entry, workerVars, turnVars, sendVars, drainVars,
                   stopVars, envVars>>

NewTurn ==
    /\ turn' = "created" /\ worker' = "stamping"
    /\ cancel' = "no" /\ unwinding' = FALSE /\ outcome' = "none" /\ watcher' = FALSE
    /\ UNCHANGED myEpoch

\* The head of the queue and, when it is a person's, every other person's
\* message waiting: the last is the turn, the earlier ones lead it.
BeginGroup ==
    IF IsPersons(Head(queue))
    THEN <<Head(queue)>> \o Pick(Tail(queue), Persons)
    ELSE <<Head(queue)>>

Begin ==
    /\ worker = "parked" /\ queue # <<>>
    /\ ~Draining /\ Head(queue) \notin marked
    /\ entry' = BeginGroup[Len(BeginGroup)]
    /\ folded' = SubSeq(BeginGroup, 1, Len(BeginGroup) - 1)
    /\ queue' = IF IsPersons(Head(queue)) THEN Pick(Tail(queue), Messages \ Persons)
                                          ELSE Tail(queue)
    /\ runningAuthor' = IF Kind[entry'] = "step" THEN NoOne ELSE Author[entry']
    /\ interruptedBy' = NoOne
    /\ IF Kind[entry'] = "step"
       THEN NewTurn
       ELSE worker' = "refreshing" /\ UNCHANGED turnVars
    /\ UNCHANGED <<sendVars, woken, recordVars, drainVars, stopVars, envVars>>

\* The history is rebuilt and someone else has spoken meanwhile: nothing ran,
\* so the whole group goes back and the newcomer's turn answers it.
HandBack ==
    /\ worker = "refreshing" /\ interruptedBy # NoOne
    /\ queue' = PutFront(Append(folded, entry), queue)
    /\ folded' = <<>> /\ entry' = NoOne
    /\ worker' = "parked" /\ runningAuthor' = NoOne /\ interruptedBy' = NoOne
    /\ UNCHANGED <<turnVars, sendVars, woken, recordVars, drainVars, stopVars, envVars>>

StartTurn ==
    /\ worker = "refreshing" /\ interruptedBy = NoOne
    /\ NewTurn
    /\ UNCHANGED <<lineVars, runningAuthor, interruptedBy, sendVars, woken, recordVars,
                   drainVars, stopVars, envVars>>

\* `current_turn` is already set when the epoch is read.
StampEpoch ==
    /\ worker = "stamping"
    /\ worker' = "awaiting"
    /\ myEpoch' = epoch
    /\ watcher' = Live
    /\ UNCHANGED <<lineVars, runningAuthor, interruptedBy, turn, cancel, unwinding,
                   outcome, sendVars, woken, recordVars, drainVars, stopVars, envVars>>

\* Mutant: a drain's cancel is taken for a Stop.
ReturnsFolded_Drain(closing) == unwinding /\ folded # <<>>

\* `_after_turn`: a cancelled turn answered nothing it read.
ReturnsFolded(closing) == unwinding /\ ~closing /\ folded # <<>>

\* Mutants: the returned POSTs are woken as well; the absorbed ones never are;
\* the whole group goes back.
WakesAfter_All(closing) == {entry} \cup Items(folded)
WakesAfter_Own(closing) == {entry}
Returned_Group == Append(folded, entry)

\* The POSTs of the messages that go back keep waiting for the next turn.
WakesAfter(closing) ==
    IF ReturnsFolded(closing) THEN {entry} ELSE {entry} \cup Items(folded)

\* What a cancelled turn gives back: what it read, never its own message.
Returned == folded

\* The turn ended: its folded messages are settled or given back, its POST woken.
AfterTurn ==
    /\ worker \in {"awaiting", "closing"} /\ turn = "done"
    /\ LET closing  == worker = "closing" \/ Draining
           answered == ~unwinding /\ ~closing /\ outcome = "stored"
       IN  /\ queue' = IF ReturnsFolded(closing) THEN PutFront(Returned, queue) ELSE queue
           /\ claim' = IF answered THEN Finish(claim, Items(folded)) ELSE claim
           /\ woken' = woken \cup WakesAfter(closing)
    /\ folded' = <<>> /\ entry' = NoOne
    /\ worker' = IF worker = "closing" THEN "gone" ELSE "parked"
    /\ runningAuthor' = NoOne
    /\ turn' = "none" /\ cancel' = "no" /\ watcher' = FALSE
    /\ unwinding' = FALSE /\ outcome' = "none" /\ myEpoch' = 0
    /\ UNCHANGED <<interruptedBy, sendVars, ending, unsaved, faults, drainVars,
                   stopVars, envVars>>

WorkerStep == SkipOnDrain \/ Decline \/ Begin \/ HandBack \/ StartTurn
              \/ StampEpoch \/ AfterTurn

-----------------------------------------------------------------------------
(* The turn task *)

TurnFirstStep ==
    /\ turn = "created" /\ cancel # "now"
    /\ turn' = "working"
    /\ UNCHANGED <<lineVars, workerVars, cancel, unwinding, outcome, watcher, myEpoch,
                   sendVars, woken, recordVars, drainVars, stopVars, envVars>>

\* A task cancelled before its first step never runs its body.
TurnNeverRan ==
    /\ turn = "created" /\ cancel = "now"
    /\ turn' = "done" /\ cancel' = "no" /\ unwinding' = TRUE
    /\ UNCHANGED <<lineVars, workerVars, outcome, watcher, myEpoch, sendVars, woken,
                   recordVars, drainVars, stopVars, envVars>>

\* Before a model call the turn reads what its own author has sent since.
Readable == {m \in Items(queue) : IsPersons(m) /\ Author[m] = Author[entry]}

ReadInterjections ==
    /\ turn = "working" /\ cancel # "now"
    /\ Kind[entry] # "step" /\ Readable # {}
    /\ folded' = folded \o Pick(queue, Readable)
    /\ queue' = Pick(queue, Messages \ Readable)
    /\ UNCHANGED <<entry, workerVars, turnVars, sendVars, woken, recordVars,
                   drainVars, stopVars, envVars>>

\* The run ends by itself, with an answer or an error message: persisted, and
\* the task goes on to flush the sandbox.
TurnEnds ==
    /\ turn = "working" /\ cancel # "now"
    /\ turn' = "flushing"
    /\ \E v \in Verdicts : outcome' = v /\ OnComplete(entry, "answered", Items(folded), v)
    /\ UNCHANGED <<lineVars, workerVars, cancel, unwinding, watcher, myEpoch, sendVars,
                   woken, drainVars, stopVars, envVars>>

\* CancelledError in the run: the partial reply and its marker are persisted.
TurnCancelled ==
    /\ turn = "working" /\ cancel = "now"
    /\ turn' = "flushing" /\ cancel' = "no" /\ unwinding' = TRUE
    /\ \E v \in Verdicts :
          /\ outcome' = v
          /\ OnComplete(entry, IF interruptedBy # NoOne THEN "interrupted" ELSE "cancelled",
                        {}, v)
    /\ UNCHANGED <<lineVars, workerVars, watcher, myEpoch, sendVars, woken, drainVars,
                   stopVars, envVars>>

\* on_turn_end returned (its failures are suppressed).
FlushEnds ==
    /\ turn = "flushing" /\ cancel # "now"
    /\ turn' = "done"
    /\ UNCHANGED <<lineVars, workerVars, cancel, unwinding, outcome, watcher, myEpoch,
                   sendVars, woken, recordVars, drainVars, stopVars, envVars>>

\* A CancelledError inside the flush is not suppressed: the task ends cancelled.
FlushCut ==
    /\ turn = "flushing" /\ cancel = "now"
    /\ turn' = "done" /\ cancel' = "no" /\ unwinding' = TRUE
    /\ UNCHANGED <<lineVars, workerVars, outcome, watcher, myEpoch, sendVars, woken,
                   recordVars, drainVars, stopVars, envVars>>

\* The call_soon'ed cancel runs, after the first step that was scheduled before it.
DeliverCancel ==
    /\ cancel = "soon" /\ turn # "created"
    /\ cancel' = IF Live THEN "now" ELSE "no"
    /\ UNCHANGED <<lineVars, workerVars, turn, unwinding, outcome, watcher, myEpoch,
                   sendVars, woken, recordVars, drainVars, stopVars, envVars>>

\* Mutant: off by one.
EpochPassed_OffByOne == epoch > myEpoch + 1

\* A newer Stop than the turn's stamp.
EpochPassed == epoch > myEpoch

\* The epoch moved past the turn's stamp: cancel it, once.  The watcher sleeps
\* a poll interval first, so the turn has taken its first step.
WatchEpoch ==
    /\ watcher /\ Live /\ turn # "created"
    /\ EpochPassed
    /\ watcher' = FALSE
    /\ cancel' = "now"
    /\ UNCHANGED <<lineVars, workerVars, turn, unwinding, outcome, myEpoch, sendVars,
                   woken, recordVars, drainVars, stopVars, envVars>>

-----------------------------------------------------------------------------
(* Stop *)

\* Someone presses Stop (NoOne: a caller that cannot say who).
StopPress(by) ==
    /\ stop.stage = "idle" /\ presses < MaxStops
    /\ stop' = [stage |-> "pressed", by |-> by]
    /\ presses' = presses + 1
    /\ UNCHANGED <<lineVars, workerVars, turnVars, sendVars, woken, recordVars,
                   drainVars, envVars>>

StopAdvance ==
    /\ stop.stage = "pressed"
    /\ stop' = [stop EXCEPT !.stage = "advanced"]
    /\ epoch' = epoch + 1
    /\ UNCHANGED <<lineVars, workerVars, turnVars, sendVars, woken, recordVars,
                   drainVars, presses, takes>>

\* A send still preparing is marked for its own author's Stop; a goal round's
\* token is unattributed, and anyone's Stop reaches it.
StopMarks(m) ==
    /\ sent[m] = "preparing"
    /\ stop.by = NoOne \/ Kind[m] = "driven" \/ Author[m] = stop.by

\* Mutant: the turn can be reached only once its epoch has been read.
StopCancels_Stamped == Live /\ worker = "awaiting"

\* The turn in `current_turn`, whichever it is when the Stop lands.
StopCancels == Live

StopLand ==
    /\ stop.stage = "advanced"
    /\ stop' = [stage |-> "idle", by |-> NoOne]
    /\ marked' = marked \cup {m \in Messages : StopMarks(m)}
    /\ cancel' = IF StopCancels /\ cancel = "no" THEN "soon" ELSE cancel
    /\ UNCHANGED <<lineVars, workerVars, turn, unwinding, outcome, watcher, myEpoch,
                   sent, woken, recordVars, drainVars, presses, envVars>>

-----------------------------------------------------------------------------
(* Other pods *)

\* A Stop that landed on another pod, or a reclaimer there, advances the epoch.
PeerAdvances ==
    /\ epoch < MaxEpoch
    /\ epoch' = epoch + 1
    /\ UNCHANGED <<lineVars, workerVars, turnVars, sendVars, woken, recordVars,
                   drainVars, stopVars, takes>>

\* A peer's reclaimer takes an open claim (this pod stalled past its heartbeat).
PeerTakes(m) ==
    /\ claim[m] = "mine" /\ takes < MaxTakes
    /\ claim' = [claim EXCEPT ![m] = "lost"]
    /\ takes' = takes + 1
    /\ UNCHANGED <<lineVars, workerVars, turnVars, sendVars, woken, ending, unsaved,
                   faults, drainVars, stopVars, epoch>>

-----------------------------------------------------------------------------
(* Drain: aclose *)

DrainBegin ==
    /\ Rollout /\ drain = "serving"
    /\ drain' = "waiting"
    /\ UNCHANGED <<lineVars, workerVars, turnVars, sendVars, woken, recordVars,
                   handover, stopVars, envVars>>

\* Nothing left to wait for, or the deadline passed: what is unfinished now is
\* to be handed over.
DrainDeadline ==
    /\ drain = "waiting"
    /\ drain' = "handing"
    /\ handover' = (ClaimStore /\ (\/ Live
                                   \/ queue # <<>>
                                   \/ \E m \in Messages : sent[m] = "preparing"))
    /\ UNCHANGED <<lineVars, workerVars, turnVars, sendVars, woken, recordVars,
                   stopVars, envVars>>

\* A release lands, in time or after aclose has stopped waiting for it.
DrainRelease(m) ==
    /\ drain \in {"handing", "cancelling", "closed"} /\ handover
    /\ claim[m] = "mine"
    /\ claim' = [claim EXCEPT ![m] = "lost"]
    /\ UNCHANGED <<lineVars, workerVars, turnVars, sendVars, woken, ending, unsaved,
                   faults, drainVars, stopVars, envVars>>

\* Sends still preparing are marked, and the straggler is cancelled outright.
DrainCancel ==
    /\ drain = "handing"
    /\ drain' = "cancelling"
    /\ marked' = marked \cup {m \in Messages : sent[m] = "preparing"}
    /\ cancel' = IF Live THEN "now" ELSE cancel
    /\ UNCHANGED <<lineVars, workerVars, turn, unwinding, outcome, watcher, myEpoch,
                   sent, woken, recordVars, handover, stopVars, envVars>>

\* The worker is cancelled.  Awaiting its turn, it takes the turn with it and
\* ends when that does; anywhere else it ends where it stands.
DrainClose ==
    /\ drain = "cancelling"
    /\ drain' = "closed"
    /\ worker' = IF worker = "awaiting" THEN "closing" ELSE "gone"
    /\ cancel' = IF worker = "awaiting" /\ Live THEN "now" ELSE cancel
    /\ UNCHANGED <<lineVars, runningAuthor, interruptedBy, turn, unwinding, outcome,
                   watcher, myEpoch, sendVars, woken, recordVars, handover, stopVars,
                   envVars>>

-----------------------------------------------------------------------------
Init ==
    /\ queue = <<>> /\ folded = <<>> /\ entry = NoOne
    /\ worker = "gone" /\ runningAuthor = NoOne /\ interruptedBy = NoOne
    /\ turn = "none" /\ cancel = "no" /\ unwinding = FALSE /\ outcome = "none"
    /\ watcher = FALSE /\ myEpoch = 0 /\ epoch = 0
    /\ sent = [m \in Messages |-> "new"] /\ marked = {} /\ woken = {}
    /\ claim = [m \in Messages |-> "none"] /\ ending = [m \in Messages |-> "owed"]
    /\ unsaved = {} /\ faults = 0 /\ takes = 0
    /\ drain = "serving" /\ handover = FALSE
    /\ stop = [stage |-> "idle", by |-> NoOne] /\ presses = 0

Next ==
    \/ \E m \in Messages : Prepare(m) \/ PrepareFails(m) \/ Enqueue(m)
    \/ SkipOnDrain \/ Decline \/ Begin \/ HandBack \/ StartTurn \/ StampEpoch \/ AfterTurn
    \/ TurnFirstStep \/ TurnNeverRan \/ ReadInterjections \/ TurnEnds \/ TurnCancelled
    \/ FlushEnds \/ FlushCut \/ DeliverCancel \/ WatchEpoch
    \/ \E by \in Users \cup {NoOne} : StopPress(by)
    \/ StopAdvance \/ StopLand
    \/ PeerAdvances \/ \E m \in Messages : PeerTakes(m)
    \/ DrainBegin \/ DrainDeadline \/ DrainCancel \/ DrainClose
    \/ \E m \in Messages : DrainRelease(m)

Spec == Init /\ [][Next]_vars

(* Fairness: asyncio resumes every task that is ready, a scheduled callback   *)
(* runs, the watcher polls, and a Stop that was accepted is carried out.      *)
Scheduled ==
    /\ WF_vars(WorkerStep)
    /\ WF_vars(TurnFirstStep \/ TurnNeverRan \/ TurnCancelled \/ FlushEnds \/ FlushCut)
    /\ WF_vars(DeliverCancel) /\ WF_vars(WatchEpoch)
    /\ WF_vars(StopAdvance \/ StopLand)

\* A run may hang for ever in a model or tool call: nothing makes it end.
HangSpec == Spec /\ Scheduled

\* Every run ends by itself (the runner bounds its steps and each call's time).
RunsEnd == WF_vars(TurnEnds)

-----------------------------------------------------------------------------
(* Properties *)

\* Types of the fields of the queue, the session and the turn task ...
EngineTypeOK ==
    /\ queue \in Seq(Messages) /\ folded \in Seq(Messages)
    /\ entry \in Messages \cup {NoOne}
    /\ worker \in {"gone", "parked", "refreshing", "stamping", "awaiting", "closing"}
    /\ runningAuthor \in Users \cup {NoOne} /\ interruptedBy \in Users \cup {NoOne}
    /\ turn \in {"none", "created", "working", "flushing", "done"}
    /\ cancel \in {"no", "soon", "now"}
    /\ outcome \in Verdicts \cup {"none"}

FlagTypeOK == unwinding \in BOOLEAN /\ watcher \in BOOLEAN /\ handover \in BOOLEAN

\* ... of what is stored and shared, and of the sends, Stops and drain at work on it.
RecordTypeOK ==
    /\ epoch \in Nat /\ myEpoch \in Nat /\ faults \in Nat /\ takes \in Nat /\ presses \in Nat
    /\ sent \in [Messages -> {"new", "preparing", "failed", "enqueued"}]
    /\ marked \in SUBSET Messages /\ woken \in SUBSET Messages /\ unsaved \in SUBSET Messages
    /\ claim \in [Messages -> {"none", "mine", "lost", "done"}]
    /\ ending \in [Messages -> {"owed", "answered", "cancelled", "interrupted",
                                "declined", "failed"}]
    /\ drain \in {"serving", "waiting", "handing", "cancelling", "closed"}
    /\ stop \in [stage : {"idle", "pressed", "advanced"},
                 by : Users \cup {NoOne}]

\* Types of every variable, as the code's fields hold them.
TypeOK == EngineTypeOK /\ FlagTypeOK /\ RecordTypeOK

NoRepeats(q) == \A i, j \in DOMAIN q : q[i] = q[j] => i = j

\* Whatever folds, reads, takeovers, Stops and drains do to the queue, a message
\* handed to `enqueue` is in exactly one place: waiting, read by the turn, the
\* turn itself, or its POST has been woken.
HeldOnce ==
    /\ NoRepeats(queue) /\ NoRepeats(folded)
    /\ Items(queue) \cap Items(folded) = {}
    /\ entry \notin Items(queue) \cup Items(folded)
    /\ woken \cap (Items(queue) \cup Items(folded) \cup {entry}) = {}
    /\ {m \in Messages : sent[m] = "enqueued"}
         = Items(queue) \cup Items(folded) \cup ({entry} \ {NoOne}) \cup woken

\* A turn runs as one person: while someone else's message waits behind a
\* person's turn being started or run, that turn is being ended for it; and a
\* turn marked as taken over has its taker in the queue, so its ending names
\* who speaks next.
TakeoverIsExact ==
    worker \in {"refreshing", "stamping", "awaiting"} /\ runningAuthor # NoOne =>
        LET others == {m \in Items(queue) : IsPersons(m) /\ Author[m] # runningAuthor}
        IN  /\ Kind[entry] = "person" /\ others # {} => interruptedBy # NoOne
            /\ interruptedBy # NoOne =>
                  /\ \E m \in others : Author[m] = interruptedBy
                  /\ \/ worker = "refreshing"
                     \/ cancel # "no" \/ unwinding \/ turn = "done"

\* A send stopped while it was preparing never reaches the runner, neither as a
\* turn nor read into another's, and its POST is not woken before the thread
\* holds its ending (or the pod lost the claim, or the store refused the write).
StoppedSendNeverRuns ==
    \A m \in marked :
        /\ m # entry /\ m \notin Items(folded)
        /\ m \in woken => \/ ending[m] = "declined" \/ m \in unsaved
                          \/ claim[m] \in {"lost", "done"}

\* A POST is woken only for a question that has its ending in the thread, or is
\* still owed through an open claim, or when the pod is going or the store
\* refused the write.
WakeIsAccountedFor ==
    [][\A m \in woken' \ woken :
          \/ ending'[m] # "owed" \/ claim'[m] \in {"mine", "lost"}
          \/ m \in unsaved' \/ Kind[m] = "step" \/ Draining]_vars

\* Goal rounds and workflow steps are turns of their own: never folded, never read.
OnlyPersonsAreFolded == \A m \in Items(folded) : Kind[m] = "person"

\* A claim a peer took, or this pod released, is the peer's to answer: this pod
\* writes no ending for it -- except that a turn of its own may have read it.
LostClaimEndsElsewhere ==
    [][\A m \in Messages :
          claim[m] = "lost" /\ ending'[m] # ending[m] => m \in Items(folded)]_vars

\* A turn cancelled by the drain was not stopped: what it read is handed over,
\* never queued again on the pod that is going.
DrainGivesNothingBack ==
    [][Draining /\ turn = "done" /\ turn' = "none" => Items(queue') = Items(queue)]_vars

\* A message that had its own turn is never queued again: its ending is final.
OwnTurnIsFinal ==
    \A m \in Items(queue) \cup Items(folded) :
        ending[m] \notin {"cancelled", "interrupted", "declined", "failed"}

\* When runs end by themselves, every message that was queued has its POST woken
\* (or the pod closed), however often Stops and takeovers send it back.
EveryPostWakes ==
    RunsEnd => \A m \in Messages : sent[m] = "enqueued" ~> (m \in woken \/ drain = "closed")

\* A Stop pressed while a turn runs here ends that turn, even one that hangs.
StopEndsTheTurn ==
    \A m \in Messages :
        (stop.stage = "pressed" /\ Live /\ entry = m) ~> (entry # m \/ Draining)

\* So does a Stop pressed on another pod, once the turn has its epoch stamp.
EpochEndsTheTurn ==
    (watcher /\ epoch > myEpoch) ~> (~Live \/ Draining)
=============================================================================

-------------------------- MODULE TurnEndingProofs --------------------------
(***************************************************************************)
(* More proofs about TurnQueue, on top of its Core invariant: what a turn   *)
(* may read, whose turn it is, and what becomes of every message.           *)
(***************************************************************************)
EXTENDS TurnQueueProofs

-----------------------------------------------------------------------------
(* What a step may change.  Most steps leave the line alone; these lemmas    *)
(* name the ones that do not.                                               *)

\* Only the start of a turn and the reader fill the folded messages.
LEMMA FoldedChanges ==
    ASSUME [Next]_vars
    PROVE  folded' = folded \/ folded' = <<>> \/ Begin \/ ReadInterjections
BY DEF Next, Prepare, PrepareFails, Enqueue, SkipOnDrain, Decline, HandBack, StartTurn, StampEpoch,
   AfterTurn, TurnFirstStep, TurnNeverRan, TurnEnds, TurnCancelled, FlushEnds, FlushCut,
   DeliverCancel, WatchEpoch, StopPress, StopAdvance, StopLand, PeerAdvances, PeerTakes,
   DrainBegin, DrainDeadline, DrainCancel, DrainClose, DrainRelease, vars, lineVars

\* What the reader takes is the author's own, a person's, and not stopped.
LEMMA ReadLemma ==
    ASSUME TypeOK, ReadInterjections
    PROVE  /\ Items(folded') = Items(folded) \cup Readable
           /\ Items(queue') = Items(queue) \ Readable
           /\ \A m \in Readable : IsPersons(m) /\ Author[m] = Author[entry]
<1>1. queue \in Seq(Messages) /\ folded \in Seq(Messages)
  BY DEF TypeOK, EngineTypeOK
<1>2. Items(queue) \subseteq Messages
  BY <1>1 DEF Items
<1>3. Readable \subseteq Items(queue) /\ \A m \in Readable : IsPersons(m) /\ Author[m] = Author[entry]
  BY DEF Readable
<1>4. /\ Pick(queue, Readable) \in Seq(Messages)
      /\ Items(Pick(queue, Readable)) = Items(queue) \cap Readable
      /\ Items(Pick(queue, Messages \ Readable)) = Items(queue) \cap (Messages \ Readable)
  BY <1>1, PickLemma
<1>5. Items(folded \o Pick(queue, Readable)) = Items(folded) \cup Items(Pick(queue, Readable))
  BY <1>1, <1>4, ItemsConcat
<1> QED
  BY <1>2, <1>3, <1>4, <1>5 DEF ReadInterjections

LEMMA PersonsStep ==
    ASSUME Core, OnlyPersonsAreFolded, [Next]_vars
    PROVE  OnlyPersonsAreFolded'
<1>1. TypeOK
  BY DEF Core
<1>2. CASE Begin
  <2>1. CASE IsPersons(Head(queue))
    BY <1>1, <1>2, <2>1, BeginLemma DEF OnlyPersonsAreFolded, Persons, IsPersons
  <2>2. CASE ~IsPersons(Head(queue))
    BY <1>1, <1>2, <2>2, BeginLemma DEF OnlyPersonsAreFolded, Items
  <2> QED
    BY <2>1, <2>2
<1>3. CASE ReadInterjections
  BY <1>1, <1>3, ReadLemma DEF OnlyPersonsAreFolded, IsPersons
<1>4. CASE folded' = folded
  BY <1>4 DEF OnlyPersonsAreFolded
<1>5. CASE folded' = <<>>
  BY <1>5 DEF OnlyPersonsAreFolded, Items
<1> QED
  BY <1>2, <1>3, <1>4, <1>5, FoldedChanges

\* Goal rounds and workflow steps are never folded into, or read by, a turn.
THEOREM OnlyPersonsAreFoldedHolds == Spec => []OnlyPersonsAreFolded
<1>1. Init => OnlyPersonsAreFolded
  BY DEF Init, OnlyPersonsAreFolded, Items
<1>2. Core /\ OnlyPersonsAreFolded /\ [Next]_vars => OnlyPersonsAreFolded'
  BY PersonsStep
<1> QED
  BY <1>1, <1>2, CoreInvariant, PTL DEF Spec

-----------------------------------------------------------------------------
(* A drain *)

\* A turn that ends while the pod is going gives nothing back to the queue.
THEOREM DrainGivesNothingBackHolds == Spec => DrainGivesNothingBack
<1>1. [Next]_vars => [Draining /\ turn = "done" /\ turn' = "none" => Items(queue') = Items(queue)]_vars
  <2> SUFFICES ASSUME Next, Draining, turn = "done", turn' = "none"
               PROVE  Items(queue') = Items(queue)
    OBVIOUS
  <2>1. AfterTurn
    BY DEF Next, Prepare, PrepareFails, Enqueue, SkipOnDrain, Decline, Begin, NewTurn, HandBack,
       StartTurn, StampEpoch, TurnFirstStep, TurnNeverRan, ReadInterjections, TurnEnds,
       TurnCancelled, FlushEnds, FlushCut, DeliverCancel, WatchEpoch, StopPress, StopAdvance,
       StopLand, PeerAdvances, PeerTakes, DrainBegin, DrainDeadline, DrainCancel, DrainClose,
       DrainRelease, turnVars
  <2>2. queue' = queue
    BY <2>1 DEF AfterTurn, ReturnsFolded
  <2> QED
    BY <2>2
<1> QED
  BY <1>1, PTL DEF Spec, DrainGivesNothingBack

-----------------------------------------------------------------------------
(* The endings *)

\* The writers of the thread.
LEMMA EndingChanges ==
    ASSUME [Next]_vars
    PROVE  \/ ending' = ending
           \/ Decline \/ TurnEnds \/ TurnCancelled \/ \E m \in Messages : PrepareFails(m)
BY DEF Next, Prepare, Enqueue, SkipOnDrain, Begin, HandBack, StartTurn, StampEpoch,
   AfterTurn, TurnFirstStep, TurnNeverRan, ReadInterjections, FlushEnds, FlushCut,
   DeliverCancel, WatchEpoch, StopPress, StopAdvance, StopLand, PeerAdvances, PeerTakes,
   DrainBegin, DrainDeadline, DrainCancel, DrainClose, DrainRelease, vars, recordVars

\* A claim a peer has is answered there: no ending is written for it here, but
\* for a message that a turn of this pod has read.
THEOREM LostClaimEndsElsewhereHolds == Spec => LostClaimEndsElsewhere
<1>1. TypeOK /\ [Next]_vars =>
        [\A m \in Messages : claim[m] = "lost" /\ ending'[m] # ending[m] => m \in Items(folded)]_vars
  <2> SUFFICES ASSUME TypeOK, [Next]_vars, NEW m \in Messages, claim[m] = "lost", ending'[m] # ending[m]
               PROVE  m \in Items(folded)
    OBVIOUS
  <2>1. ending \in [Messages -> {"owed", "answered", "cancelled", "interrupted", "declined", "failed"}]
    BY DEF TypeOK, RecordTypeOK
  <2>2. ~ClaimIsMine(m)
    BY DEF ClaimIsMine
  <2>3. ASSUME NEW x, NEW how, NEW others, NEW v, OnComplete(x, how, others, v)
        PROVE  m \in others
    BY <2>1, <2>2, <2>3 DEF OnComplete
  <2>4. CASE Decline
    BY <2>3, <2>4 DEF Decline
  <2>5. CASE TurnEnds
    BY <2>3, <2>5 DEF TurnEnds
  <2>6. CASE TurnCancelled
    BY <2>3, <2>6 DEF TurnCancelled
  <2>7. ASSUME NEW x \in Messages, PrepareFails(x) PROVE m \in Items(folded)
    BY <2>1, <2>2, <2>7 DEF PrepareFails
  <2> QED
    BY <2>4, <2>5, <2>6, <2>7, EndingChanges
<1> QED
  BY <1>1, TypeCorrect, PTL DEF Spec, LostClaimEndsElsewhere

-----------------------------------------------------------------------------
(* A message's own turn *)

\* The endings that a message gets from a turn, or a refusal, of its own.
Final == {"cancelled", "interrupted", "declined", "failed"}

\* The steps that touch the line.
LEMMA LineChanges ==
    ASSUME [Next]_vars
    PROVE  \/ queue' = queue /\ folded' = folded
           \/ \E m \in Messages : Enqueue(m)
           \/ SkipOnDrain \/ Decline \/ Begin \/ HandBack \/ AfterTurn \/ ReadInterjections
BY DEF Next, Prepare, PrepareFails, StartTurn, StampEpoch,
   TurnFirstStep, TurnNeverRan, TurnEnds, TurnCancelled, FlushEnds, FlushCut,
   DeliverCancel, WatchEpoch, StopPress, StopAdvance, StopLand, PeerAdvances, PeerTakes,
   DrainBegin, DrainDeadline, DrainCancel, DrainClose, DrainRelease, vars, lineVars

\* A message in the line was there before, is sent now, or is handed back
\* before its turn has started.
LEMMA LineFrom ==
    ASSUME TypeOK, Shape, [Next]_vars, NEW x \in Items(queue') \cup Items(folded')
    PROVE  \/ x \in Items(queue) \cup Items(folded)
           \/ worker = "refreshing" /\ x = entry
           \/ x \in Messages /\ sent[x] \in {"new", "preparing"}
<1>1. queue \in Seq(Messages) /\ folded \in Seq(Messages)
  BY DEF TypeOK, EngineTypeOK
<1>2. CASE queue' = queue /\ folded' = folded
  BY <1>2
<1>3. ASSUME NEW m \in Messages, Enqueue(m)
      PROVE  x \in Items(queue) \cup Items(folded) \/ (x = m /\ sent[m] \in {"new", "preparing"})
  <2>1. queue' = Append(queue, m) /\ folded' = folded /\ sent[m] \in {"new", "preparing"}
    BY <1>3 DEF Enqueue
  <2> QED
    BY <1>1, <2>1, ItemsAppend
<1>4. CASE SkipOnDrain \/ Decline
  <2>1. queue # <<>> /\ queue' = Tail(queue) /\ folded' = folded
    BY <1>4 DEF SkipOnDrain, Decline
  <2> QED
    BY <1>1, <2>1, ItemsTail
<1>5. CASE Begin
  BY <1>5, BeginLemma
<1>6. CASE HandBack
  <2>1. /\ queue' = Append(folded, entry) \o queue /\ folded' = <<>> /\ worker = "refreshing"
        /\ entry \in Messages
    BY <1>6 DEF HandBack, PutFront, Shape
  <2>2. /\ Append(folded, entry) \in Seq(Messages)
        /\ Items(Append(folded, entry)) = Items(folded) \cup {entry}
    BY <1>1, <2>1, ItemsAppend
  <2>3. Items(queue') = Items(folded) \cup {entry} \cup Items(queue)
    BY <1>1, <2>1, <2>2, ItemsConcat
  <2> QED
    BY <2>1, <2>3 DEF Items
<1>7. CASE AfterTurn
  <2>1. (queue' = folded \o queue \/ queue' = queue) /\ folded' = <<>>
    BY <1>7 DEF AfterTurn, PutFront, Returned
  <2>2. Items(folded \o queue) = Items(folded) \cup Items(queue)
    BY <1>1, ItemsConcat
  <2> QED
    BY <2>1, <2>2 DEF Items
<1>8. CASE ReadInterjections
  <2>1. Readable \subseteq Items(queue)
    BY DEF Readable
  <2> QED
    BY <1>8, <2>1, ReadLemma
<1> QED
  BY <1>2, <1>3, <1>4, <1>5, <1>6, <1>7, <1>8, LineChanges

\* A send only goes forward.
LEMMA SentForward ==
    ASSUME TypeOK, [Next]_vars, NEW m \in Messages
    PROVE  /\ sent'[m] \in {"new", "preparing"} => sent[m] \in {"new", "preparing"}
           /\ sent[m] # "new" => sent'[m] # "new"
<1>1. sent \in [Messages -> {"new", "preparing", "failed", "enqueued"}]
  BY DEF TypeOK, RecordTypeOK
<1>2. \/ sent' = sent \/ \E x \in Messages : Prepare(x) \/ PrepareFails(x) \/ Enqueue(x)
  BY DEF Next, SkipOnDrain, Decline, Begin, HandBack, StartTurn, StampEpoch, AfterTurn,
     TurnFirstStep, TurnNeverRan, ReadInterjections, TurnEnds, TurnCancelled, FlushEnds, FlushCut,
     DeliverCancel, WatchEpoch, StopPress, StopAdvance, StopLand, PeerAdvances, PeerTakes,
     DrainBegin, DrainDeadline, DrainCancel, DrainClose, DrainRelease, vars, sendVars
<1> QED
  BY <1>1, <1>2 DEF Prepare, PrepareFails, Enqueue

\* The worker gets to `refreshing` only through the start of a turn.
LEMMA RefreshingFrom ==
    ASSUME [Next]_vars, worker' = "refreshing"
    PROVE  Begin \/ (worker = "refreshing" /\ entry' = entry)
<1>1. \/ worker' = worker /\ entry' = entry
      \/ Begin \/ HandBack \/ StartTurn \/ StampEpoch \/ AfterTurn \/ DrainClose
      \/ \E m \in Messages : Enqueue(m)
  BY DEF Next, Prepare, PrepareFails, SkipOnDrain, Decline, TurnFirstStep, TurnNeverRan,
     ReadInterjections, TurnEnds, TurnCancelled, FlushEnds, FlushCut, DeliverCancel, WatchEpoch,
     StopPress, StopAdvance, StopLand, PeerAdvances, PeerTakes, DrainBegin, DrainDeadline,
     DrainCancel, DrainRelease, vars, lineVars, workerVars
<1>2. CASE HandBack \/ StartTurn \/ StampEpoch \/ AfterTurn \/ DrainClose
  BY <1>2 DEF HandBack, StartTurn, NewTurn, StampEpoch, AfterTurn, DrainClose
<1>3. ASSUME NEW m \in Messages, Enqueue(m) PROVE worker = "refreshing" /\ entry' = entry
  BY <1>3 DEF Enqueue
<1> QED
  BY <1>1, <1>2, <1>3

\* Nothing has ended a message that is still on its way, in the line, or at
\* the head of a turn that has not started.
Unended ==
    /\ \A m \in Messages : sent[m] \in {"new", "preparing"} => ending[m] = "owed"
    /\ OwnTurnIsFinal
    /\ worker = "refreshing" => ending[entry] \notin Final

LEMMA UnendedStep ==
    ASSUME Core, Unended, [Next]_vars
    PROVE  Unended'
<1>1. TypeOK /\ Shape /\ HeldOnce
  BY DEF Core
<1>2. queue \in Seq(Messages) /\ folded \in Seq(Messages)
  BY <1>1 DEF TypeOK, EngineTypeOK
<1>3. Items(queue) \subseteq Messages /\ Items(folded) \subseteq Messages
  BY <1>2 DEF Items
<1>4. \A x \in Items(queue) \cup Items(folded) : ending[x] \notin Final /\ sent[x] = "enqueued"
  BY <1>1, <1>3 DEF Unended, OwnTurnIsFinal, Final, HeldOnce
<1>5. ending \in [Messages -> {"owed", "answered", "cancelled", "interrupted", "declined", "failed"}]
  BY <1>1 DEF TypeOK, RecordTypeOK
\* Who is waiting after the step, by where it was before.
<1> DEFINE Waits(x) == \/ x \in Items(queue) \cup Items(folded)
                       \/ worker = "refreshing" /\ x = entry
                       \/ sent[x] \in {"new", "preparing"}
<1>6. \A x \in Items(queue') \cup Items(folded') : Waits(x) /\ x \in Messages
  BY <1>1, <1>3, LineFrom DEF Shape
<1>7. worker' = "refreshing" => entry' \in Messages /\ Waits(entry')
  <2>1. CASE Begin
    BY <1>1, <2>1, BeginLemma
  <2> QED
    BY <1>1, <2>1, RefreshingFrom DEF Shape
<1>8. \A x \in Messages : sent'[x] \in {"new", "preparing"} => sent[x] \in {"new", "preparing"}
  BY <1>1, SentForward
<1>9. \A x \in Messages : Waits(x) => ending[x] \notin Final
  BY <1>4 DEF Unended, Final
<1>10. SUFFICES /\ \A x \in Messages : sent'[x] \in {"new", "preparing"} => ending'[x] = "owed"
                /\ \A x \in Items(queue') \cup Items(folded') : ending'[x] \notin Final
                /\ worker' = "refreshing" => ending'[entry'] \notin Final
  BY DEF Unended, OwnTurnIsFinal, Final
<1> HIDE DEF Waits
<1>11. CASE ending' = ending
  BY <1>6, <1>7, <1>8, <1>9, <1>11 DEF Unended
<1>12. ASSUME NEW m \in Messages, PrepareFails(m)
       PROVE  /\ \A x \in Messages : sent'[x] \in {"new", "preparing"} => ending'[x] = "owed"
              /\ \A x \in Items(queue') \cup Items(folded') : ending'[x] \notin Final
              /\ worker' = "refreshing" => ending'[entry'] \notin Final
  <2>1. /\ sent[m] = "preparing" /\ sent' = [sent EXCEPT ![m] = "failed"]
        /\ UNCHANGED <<queue, folded, entry, worker>>
    BY <1>12 DEF PrepareFails, lineVars, workerVars
  <2>2. \A x \in Messages : x # m => ending'[x] = ending[x]
    BY <1>5, <1>12 DEF PrepareFails
  <2>3. sent'[m] = "failed"
    BY <1>1, <2>1 DEF TypeOK, RecordTypeOK
  <2>4. m \notin Items(queue) \cup Items(folded) /\ m # entry
    BY <1>1, <1>4, <2>1, TurnQueueAssumption DEF HeldOnce
  <2> QED
    BY <1>3, <1>4, <1>8, <2>1, <2>2, <2>3, <2>4 DEF Unended, Shape, Core
<1>13. CASE Decline
  <2> DEFINE h == Head(queue)
  <2>1. /\ worker = "parked" /\ queue # <<>> /\ queue' = Tail(queue)
        /\ UNCHANGED <<folded, sent, worker>>
    BY <1>13 DEF Decline, sendVars, workerVars
  <2>2. \A x \in Messages : x # h => ending'[x] = ending[x]
    BY <1>5, <1>13 DEF Decline, OnComplete
  <2>3. h \in Items(queue) /\ Items(queue') \subseteq Items(queue) /\ h \notin Items(queue')
    BY <1>1, <1>2, <2>1, ItemsTail DEF HeldOnce
  <2>4. h \notin Items(folded) /\ sent[h] = "enqueued"
    BY <1>1, <1>4, <2>3 DEF HeldOnce
  <2> HIDE DEF h
  <2>5. \A x \in Items(queue') \cup Items(folded') : x # h /\ x \in Items(queue) \cup Items(folded)
    BY <2>1, <2>3, <2>4
  <2> QED
    BY <1>3, <1>4, <2>1, <2>2, <2>4, <2>5 DEF Unended
<1>14. CASE TurnEnds \/ TurnCancelled
  <2>1. /\ turn = "working" /\ UNCHANGED <<queue, folded, entry, worker, sent>>
    BY <1>14 DEF TurnEnds, TurnCancelled, lineVars, workerVars, sendVars
  <2>2. \A x \in Messages : x # entry => ending'[x] \in {ending[x], "answered"}
    BY <1>5, <1>14 DEF TurnEnds, TurnCancelled, OnComplete
  <2>3. \A x \in Messages : x # entry /\ x \notin Items(folded) => ending'[x] = ending[x]
    BY <1>5, <1>14 DEF TurnEnds, TurnCancelled, OnComplete
  <2>4. worker # "refreshing" /\ entry \in Messages /\ entry \notin Items(queue) \cup Items(folded)
        /\ sent[entry] = "enqueued"
    BY <1>1, <2>1, TurnQueueAssumption DEF Shape, HeldOnce
  <2> QED
    BY <1>3, <1>4, <2>1, <2>2, <2>3, <2>4 DEF Unended, Final
<1> QED
  BY <1>11, <1>12, <1>13, <1>14, EndingChanges

\* A message that had its own turn, or was refused one, is never queued or read
\* again.
THEOREM OwnTurnIsFinalHolds == Spec => []OwnTurnIsFinal
<1>1. Init => Unended
  BY DEF Init, Unended, OwnTurnIsFinal, Items
<1>2. Core /\ Unended /\ [Next]_vars => Unended'
  BY UnendedStep
<1>3. Unended => OwnTurnIsFinal
  BY DEF Unended
<1> QED
  BY <1>1, <1>2, <1>3, CoreInvariant, PTL DEF Spec

-----------------------------------------------------------------------------
(* Whose turn it is *)

\* The property, taken apart: a person's turn is being started or run, the
\* others whose messages wait behind it, and that it is being ended.
Busy == worker \in {"refreshing", "stamping", "awaiting"} /\ runningAuthor # NoOne
Others == {m \in Items(queue) : IsPersons(m) /\ Author[m] # runningAuthor}
Cut == worker = "refreshing" \/ cancel # "no" \/ unwinding \/ turn = "done"

LEMMA TakeoverIs ==
    TakeoverIsExact <=>
      (Busy => /\ Kind[entry] = "person" /\ Others # {} => interruptedBy # NoOne
               /\ interruptedBy # NoOne => (\E m \in Others : Author[m] = interruptedBy) /\ Cut)
BY DEF TakeoverIsExact, Busy, Others, Cut

LEMMA TakeoverNext ==
    ASSUME Busy' => /\ Kind[entry'] = "person" /\ Others' # {} => interruptedBy' # NoOne
                    /\ interruptedBy' # NoOne => /\ \E m \in Others' : Author[m] = interruptedBy'
                                                 /\ Cut'
    PROVE  TakeoverIsExact'
BY DEF TakeoverIsExact, Busy, Others, Cut

\* A step that neither adds nor stops anyone, nor lets the turn off.
LEMMA TakeoverKept ==
    ASSUME TakeoverIsExact, Others' = Others,
           UNCHANGED <<entry, runningAuthor, interruptedBy>>,
           Busy' => Busy, Busy /\ Cut => Cut'
    PROVE  TakeoverIsExact'
BY TakeoverIs, TakeoverNext

LEMMA OthersSame ==
    ASSUME UNCHANGED <<queue, marked, runningAuthor>>
    PROVE  Others' = Others
BY DEF Others, IsPersons, Items

\* A Stop and a drain mark sends that are not in the queue yet.
LEMMA OthersUnmarked ==
    ASSUME Core, UNCHANGED <<queue, runningAuthor>>,
           marked \subseteq marked', \A m \in marked' \ marked : sent[m] = "preparing"
    PROVE  Others' = Others
<1>1. \A m \in Items(queue) : m \in marked' <=> m \in marked
  BY DEF Core, HeldOnce
<1> QED
  BY <1>1 DEF Others, IsPersons, Items

LEMMA TakeoverStep ==
    ASSUME Core, TakeoverIsExact, [Next]_vars
    PROVE  TakeoverIsExact'
<1>1. TypeOK /\ Shape /\ HeldOnce
  BY DEF Core
<1>2. ASSUME UNCHANGED <<queue, marked, entry, workerVars, turnVars>> PROVE TakeoverIsExact'
  <2>1. UNCHANGED <<queue, marked, entry, worker, runningAuthor, interruptedBy, turn, cancel, unwinding>>
    BY <1>2 DEF workerVars, turnVars
  <2>2. Others' = Others
    BY <2>1, OthersSame
  <2>3. (Busy' => Busy) /\ (Cut => Cut')
    BY <2>1 DEF Busy, Cut
  <2> QED
    BY <2>1, <2>2, <2>3, TakeoverKept
<1>3. ASSUME UNCHANGED <<queue, marked, entry, workerVars>>, Busy /\ Cut => Cut'
      PROVE  TakeoverIsExact'
  <2>1. UNCHANGED <<queue, marked, entry, worker, runningAuthor, interruptedBy>>
    BY <1>3 DEF workerVars
  <2>2. Others' = Others
    BY <2>1, OthersSame
  <2>3. Busy' => Busy
    BY <2>1 DEF Busy
  <2> QED
    BY <1>3, <2>1, <2>2, <2>3, TakeoverKept
<1>4. ASSUME worker' \notin {"refreshing", "stamping", "awaiting"} PROVE TakeoverIsExact'
  BY <1>4, TakeoverNext DEF Busy
\* The turn exists once its task was made.
<1>5. /\ worker \in {"stamping", "awaiting"} => Live \/ turn = "done"
      /\ Live => turn # "done"
  BY <1>1 DEF Shape, Live, TypeOK, EngineTypeOK
<1>6. ASSUME NEW m \in Messages, Prepare(m) \/ PrepareFails(m) \/ PeerTakes(m) \/ DrainRelease(m)
      PROVE  TakeoverIsExact'
  BY <1>2, <1>6 DEF Prepare, PrepareFails, PeerTakes, DrainRelease, lineVars, sendVars
<1>7. ASSUME NEW by \in Users \cup {NoOne}, StopPress(by) PROVE TakeoverIsExact'
  BY <1>2, <1>7 DEF StopPress, lineVars, sendVars
<1>8. CASE StopAdvance \/ PeerAdvances \/ DrainBegin \/ DrainDeadline \/ UNCHANGED vars
  BY <1>2, <1>8 DEF StopAdvance, PeerAdvances, DrainBegin, DrainDeadline, vars, lineVars, sendVars
<1>9. CASE \/ TurnFirstStep \/ TurnNeverRan \/ TurnEnds \/ TurnCancelled \/ FlushEnds \/ FlushCut
           \/ DeliverCancel \/ WatchEpoch
  <2>1. UNCHANGED <<queue, marked, entry, workerVars>>
    BY <1>9 DEF TurnFirstStep, TurnNeverRan, TurnEnds, TurnCancelled, FlushEnds, FlushCut,
       DeliverCancel, WatchEpoch, lineVars, sendVars
  <2>2. worker' = worker
    BY <2>1 DEF workerVars
  <2>3. CASE TurnFirstStep \/ TurnEnds \/ FlushEnds
    <3>1. UNCHANGED <<cancel, unwinding>> /\ turn # "done"
      BY <2>3 DEF TurnFirstStep, TurnEnds, FlushEnds
    <3> QED
      BY <1>3, <2>1, <2>2, <3>1 DEF Cut
  <2>4. CASE TurnNeverRan \/ TurnCancelled \/ FlushCut
    <3>1. unwinding' = TRUE
      BY <2>4 DEF TurnNeverRan, TurnCancelled, FlushCut
    <3> QED
      BY <1>3, <2>1, <3>1 DEF Cut
  <2>5. CASE DeliverCancel
    <3>1. cancel' = (IF Live THEN "now" ELSE "no") /\ turn' = turn
      BY <2>5 DEF DeliverCancel
    <3> QED
      BY <1>3, <1>5, <2>1, <2>2, <3>1 DEF Cut, Busy
  <2>6. CASE WatchEpoch
    BY <1>3, <2>1, <2>6 DEF WatchEpoch, Cut
  <2> QED
    BY <1>9, <2>3, <2>4, <2>5, <2>6
<1>10. CASE StopLand \/ DrainCancel
  <2>1. UNCHANGED <<queue, entry, worker, runningAuthor, interruptedBy, turn, unwinding>>
    BY <1>10 DEF StopLand, DrainCancel, lineVars, workerVars
  <2>2. marked \subseteq marked' /\ \A m \in marked' \ marked : sent[m] = "preparing"
    BY <1>10 DEF StopLand, DrainCancel, StopMarks
  <2>3. cancel # "no" => cancel' # "no"
    BY <1>10 DEF StopLand, DrainCancel
  <2>4. Others' = Others
    BY <2>1, <2>2, OthersUnmarked
  <2>5. (Busy' => Busy) /\ (Cut => Cut')
    BY <2>1, <2>3 DEF Busy, Cut
  <2> QED
    BY <2>1, <2>4, <2>5, TakeoverKept
<1>11. CASE SkipOnDrain \/ Decline \/ HandBack \/ AfterTurn \/ DrainClose
  <2>1. worker' \in {"parked", "gone", "closing"}
    BY <1>11 DEF SkipOnDrain, Decline, HandBack, AfterTurn, DrainClose, workerVars
  <2> QED
    BY <1>4, <2>1
<1>12. CASE Begin
  <2>1. interruptedBy' = NoOne /\ marked' = marked
    BY <1>12 DEF Begin, sendVars
  <2>2. Kind[entry'] = "person" => Others' = {}
    <3>1. CASE IsPersons(Head(queue))
      <4>1. Items(queue') \cap Persons = {} /\ queue' \in Seq(Messages)
        BY <1>1, <1>12, <3>1, BeginLemma
      <4>2. \A m \in Items(queue') : m \notin Persons /\ m \in Messages
        BY <4>1 DEF Items
      <4> QED
        BY <2>1, <4>2 DEF Others, Persons, IsPersons, Items
    <3>2. CASE ~IsPersons(Head(queue))
      BY <1>1, <1>12, <3>2, BeginLemma DEF IsPersons, Begin
    <3> QED
      BY <3>1, <3>2
  <2> QED
    BY <2>1, <2>2, TakeoverNext
<1>13. CASE StartTurn
  <2>1. /\ UNCHANGED <<queue, marked, entry, runningAuthor, interruptedBy>>
        /\ worker = "refreshing" /\ interruptedBy = NoOne
    BY <1>13 DEF StartTurn, lineVars, sendVars
  <2>2. Others' = Others
    BY <2>1, OthersSame
  <2>3. Busy' => Busy
    BY <2>1 DEF Busy
  <2> QED
    BY <2>1, <2>2, <2>3, TakeoverIs, TakeoverNext
<1>14. CASE StampEpoch
  <2>1. /\ UNCHANGED <<queue, marked, entry, runningAuthor, interruptedBy, turn, cancel, unwinding>>
        /\ worker = "stamping" /\ worker' = "awaiting"
    BY <1>14 DEF StampEpoch, lineVars, sendVars
  <2>2. Others' = Others
    BY <2>1, OthersSame
  <2>3. (Busy' => Busy) /\ (Cut => Cut')
    BY <2>1 DEF Busy, Cut
  <2> QED
    BY <2>1, <2>2, <2>3, TakeoverKept
<1>15. ASSUME NEW m \in Messages, Enqueue(m) PROVE TakeoverIsExact'
  <2>1. /\ UNCHANGED <<entry, runningAuthor, marked, turn, unwinding>> /\ queue' = Append(queue, m)
        /\ worker' = (IF worker = "gone" THEN "parked" ELSE worker)
    BY <1>15 DEF Enqueue
  <2>2. queue \in Seq(Messages)
    BY <1>1 DEF TypeOK, EngineTypeOK
  <2>3. Items(queue') = Items(queue) \cup {m}
    BY <2>1, <2>2, ItemsAppend
  <2>4. Busy' => Busy /\ worker' = worker
    BY <2>1 DEF Busy
  <2>5. CASE TakesOver(m)
    <3>1. interruptedBy' = Author[m] /\ cancel' = (IF Live /\ cancel = "no" THEN "soon" ELSE cancel)
      BY <1>15, <2>5 DEF Enqueue
    <3>2. m \in Others'
      BY <2>1, <2>3, <2>5 DEF Others, TakesOver, IsPersons, Items
    <3>3. interruptedBy' # NoOne
      BY <3>1, TurnQueueAssumption
    <3>4. Busy' => Cut'
      BY <1>5, <2>1, <2>4, <3>1 DEF Cut, Busy
    <3> QED
      BY <3>1, <3>2, <3>3, <3>4, TakeoverNext
  <2>6. CASE ~TakesOver(m)
    <3>1. UNCHANGED <<interruptedBy, cancel>>
      BY <1>15, <2>6 DEF Enqueue
    <3>2. Busy => Others' = Others
      BY <2>1, <2>3, <2>6 DEF Busy, Others, TakesOver, IsPersons, Items
    <3>3. Busy' /\ Cut => Cut'
      BY <2>1, <2>4, <3>1 DEF Cut
    <3>4. CASE Busy'
      <4>1. Busy /\ Others' = Others /\ (Cut => Cut')
        BY <2>4, <3>2, <3>3, <3>4
      <4> QED
        BY <2>1, <3>1, <4>1, TakeoverKept
    <3> QED
      BY <3>4, TakeoverNext
  <2> QED
    BY <2>5, <2>6
<1>16. CASE ReadInterjections
  <2>1. UNCHANGED <<entry, marked, worker, runningAuthor, interruptedBy, turn, cancel, unwinding>>
        /\ Kind[entry] # "step"
    BY <1>16 DEF ReadInterjections, workerVars, turnVars, sendVars
  <2>2. /\ Items(queue') = Items(queue) \ Readable
        /\ \A m \in Readable : Author[m] = Author[entry]
    BY <1>1, <1>16, ReadLemma
  <2>3. (Busy' => Busy) /\ (Cut => Cut')
    BY <2>1 DEF Busy, Cut
  <2>4. CASE Busy
    <3>1. runningAuthor = Author[entry]
      BY <1>1, <2>1, <2>4 DEF Shape, Busy
    <3>2. \A m \in Readable : Author[m] = runningAuthor
      BY <2>2, <3>1
    <3>3. Others' = {m \in Items(queue') : IsPersons(m) /\ Author[m] # runningAuthor}
      BY <2>1 DEF Others, IsPersons, Items
    <3>4. Others' = Others
      BY <2>2, <3>2, <3>3 DEF Others
    <3> QED
      BY <2>1, <2>3, <3>4, TakeoverKept
  <2>5. CASE ~Busy
    BY <2>3, <2>5, TakeoverNext
  <2> QED
    BY <2>4, <2>5
<1> QED
  BY <1>6, <1>7, <1>8, <1>9, <1>10, <1>11, <1>12, <1>13, <1>14, <1>15, <1>16 DEF Next

\* While someone else's message waits behind a person's turn, that turn is
\* being ended for it; and a turn marked as taken over has its taker waiting.
THEOREM TakeoverIsExactHolds == Spec => []TakeoverIsExact
<1>1. Init => TakeoverIsExact
  BY DEF Init, TakeoverIsExact
<1>2. Core /\ TakeoverIsExact /\ [Next]_vars => TakeoverIsExact'
  BY TakeoverStep
<1> QED
  BY <1>1, <1>2, CoreInvariant, PTL DEF Spec

-----------------------------------------------------------------------------
(* What a woken POST can rely on *)

\* A claim is finished only for a message with its ending; a question has its
\* claim from the moment it is prepared.
Recorded ==
    /\ \A m \in Messages : claim[m] = "done" => ending[m] # "owed"
    /\ \A m \in Messages : sent[m] # "new" /\ Kind[m] # "step" /\ ClaimStore => claim[m] # "none"
    /\ \A m \in Messages : claim[m] # "none" => ClaimStore

\* What on_complete said of a turn is still true when the worker looks.
Told ==
    /\ outcome = "stored" => ending[entry] # "owed"
    /\ outcome = "stored" /\ ~unwinding => \A m \in Items(folded) : ending[m] # "owed"
    /\ outcome = "raised" => entry \in unsaved
    /\ outcome = "raised" /\ ~unwinding => Items(folded) \subseteq unsaved
    /\ outcome = "not_mine" => claim[entry] \in {"lost", "done"}

\* A turn that ends without an outcome never ran, and only a drain does that.
NeverRan ==
    /\ turn \in {"created", "working"} => outcome = "none"
    /\ turn \in {"created", "working"} => ~unwinding
    /\ turn = "created" /\ cancel = "now" => Draining
    /\ turn = "done" /\ outcome = "none" => Draining
    /\ turn = "flushing" => outcome # "none"
    /\ turn = "none" => outcome = "none"
    /\ worker = "closing" => Draining

Accounts == Recorded /\ Told /\ NeverRan

\* What on_complete does to one message.
LEMMA OnCompleteIs ==
    ASSUME TypeOK, NEW m \in Messages, NEW how \in Final \cup {"answered"}, NEW others \in SUBSET Messages,
           NEW v \in Verdicts, OnComplete(m, how, others, v)
    PROVE  /\ \A x \in Messages : ending[x] # "owed" => ending'[x] # "owed"
           /\ v = "stored" => ending'[m] # "owed" /\ \A x \in others : ending'[x] # "owed"
           /\ unsaved \subseteq unsaved'
           /\ v = "raised" => m \in unsaved' /\ others \subseteq unsaved'
           /\ v = "not_mine" => claim[m] \in {"lost", "done"} /\ claim' = claim /\ ending' = ending
           /\ \A x \in Messages : claim'[x] # claim[x] =>
                 claim[x] \in {"mine", "lost"} /\ claim'[x] = "done" /\ ending'[x] # "owed"
<1>1. /\ ending \in [Messages -> {"owed", "answered", "cancelled", "interrupted", "declined", "failed"}]
      /\ claim \in [Messages -> {"none", "mine", "lost", "done"}]
  BY DEF TypeOK, RecordTypeOK
<1>2. ~ClaimIsMine(m) => claim[m] \in {"lost", "done"}
  BY <1>1 DEF ClaimIsMine
<1>3. CASE v = "stored"
  <2>1. /\ ending' = [x \in Messages |-> IF x = m THEN how
                                         ELSE IF x \in others THEN "answered" ELSE ending[x]]
        /\ claim' = Finish(claim, {m}) /\ unsaved' = unsaved
    BY <1>3 DEF OnComplete, SettledClaim
  <2>2. how # "owed"
    BY DEF Final
  <2>3. ending'[m] # "owed" /\ \A x \in others : ending'[x] # "owed"
    BY <2>1, <2>2
  <2>4. \A x \in Messages : ending[x] # "owed" => ending'[x] # "owed"
    BY <2>1, <2>2
  <2>5. \A x \in Messages : claim'[x] # claim[x] =>
            x = m /\ claim[x] \in {"mine", "lost"} /\ claim'[x] = "done"
    BY <1>1, <2>1 DEF Finish
  <2> QED
    BY <1>3, <2>1, <2>3, <2>4, <2>5
<1>4. CASE v = "not_mine"
  <2>1. ending' = ending /\ claim' = claim /\ unsaved' = unsaved /\ ~ClaimIsMine(m)
    BY <1>4 DEF OnComplete, SettledClaim
  <2> QED
    BY <1>2, <1>4, <2>1
<1>5. CASE v = "raised"
  <2>1. ending' = ending /\ claim' = claim /\ unsaved' = unsaved \cup {m} \cup others
    BY <1>5 DEF OnComplete, SettledClaim
  <2> QED
    BY <1>5, <2>1
<1> QED
  BY <1>3, <1>4, <1>5 DEF Verdicts

\* The steps that write the record through on_complete, by their message.
LEMMA DeclineIs ==
    ASSUME TypeOK, Decline
    PROVE  /\ Head(queue) \in Messages
           /\ \E v \in Verdicts : OnComplete(Head(queue), "declined", {}, v)
BY ItemsTail DEF Decline, TypeOK, EngineTypeOK

LEMMA TurnEndsIs ==
    ASSUME TypeOK, Shape, TurnEnds \/ TurnCancelled
    PROVE  /\ entry \in Messages /\ Items(folded) \in SUBSET Messages /\ outcome' \in Verdicts
           /\ turn = "working" /\ turn' = "flushing"
           /\ UNCHANGED <<entry, folded, woken, drain, sent>>
           /\ \E how \in Final \cup {"answered"}, others \in {{}, Items(folded)} :
                 /\ OnComplete(entry, how, others, outcome')
                 /\ unwinding' = TRUE \/ others = Items(folded)
<1>1. entry \in Messages
  BY DEF TurnEnds, TurnCancelled, Shape
<1>2. Items(folded) \in SUBSET Messages
  BY DEF TypeOK, EngineTypeOK, Items
<1>3. /\ turn = "working" /\ turn' = "flushing" /\ UNCHANGED <<entry, folded, woken, drain, sent>>
  BY DEF TurnEnds, TurnCancelled, lineVars, drainVars, sendVars
<1>4. CASE TurnEnds
  <2>1. outcome' \in Verdicts /\ OnComplete(entry, "answered", Items(folded), outcome')
    BY <1>4 DEF TurnEnds
  <2> QED
    BY <1>1, <1>2, <1>3, <2>1
<1>5. CASE TurnCancelled
  <2>1. PICK how \in {"interrupted", "cancelled"} :
          outcome' \in Verdicts /\ OnComplete(entry, how, {}, outcome')
    BY <1>5 DEF TurnCancelled
  <2>2. how \in Final \cup {"answered"} /\ unwinding' = TRUE
    BY <1>5 DEF Final, TurnCancelled
  <2> QED
    BY <1>1, <1>2, <1>3, <2>1, <2>2
<1> QED
  BY <1>4, <1>5

\* A stored ending stays one, whatever it becomes, and a refused write is not
\* forgotten.
LEMMA EndedStays ==
    ASSUME TypeOK, Shape, [Next]_vars
    PROVE  /\ \A m \in Messages : ending[m] # "owed" => ending'[m] # "owed"
           /\ unsaved \subseteq unsaved'
<1>1. /\ ending \in [Messages -> {"owed", "answered", "cancelled", "interrupted", "declined", "failed"}]
      /\ {} \in SUBSET Messages /\ "declined" \in Final
  BY DEF TypeOK, RecordTypeOK, Final
<1>2. CASE Decline
  BY <1>1, <1>2, DeclineIs, OnCompleteIs
<1>3. CASE TurnEnds \/ TurnCancelled
  BY <1>1, <1>3, TurnEndsIs, OnCompleteIs
<1>4. ASSUME NEW m \in Messages, PrepareFails(m)
      PROVE  /\ \A x \in Messages : ending[x] # "owed" => ending'[x] # "owed"
             /\ unsaved' = unsaved
  BY <1>1, <1>4 DEF PrepareFails
<1>5. \/ UNCHANGED <<ending, unsaved>>
      \/ Decline \/ TurnEnds \/ TurnCancelled \/ \E m \in Messages : PrepareFails(m)
  BY DEF Next, Prepare, Enqueue, SkipOnDrain, Begin, HandBack, StartTurn, StampEpoch,
     AfterTurn, TurnFirstStep, TurnNeverRan, ReadInterjections, FlushEnds, FlushCut,
     DeliverCancel, WatchEpoch, StopPress, StopAdvance, StopLand, PeerAdvances, PeerTakes,
     DrainBegin, DrainDeadline, DrainCancel, DrainClose, DrainRelease, vars, recordVars
<1> QED
  BY <1>2, <1>3, <1>4, <1>5

\* The writers of the claims.
LEMMA ClaimChanges ==
    ASSUME [Next]_vars
    PROVE  \/ claim' = claim
           \/ \E m \in Messages : Prepare(m) \/ PrepareFails(m) \/ PeerTakes(m) \/ DrainRelease(m)
           \/ Decline \/ TurnEnds \/ TurnCancelled \/ AfterTurn
BY DEF Next, Enqueue, SkipOnDrain, Begin, HandBack, StartTurn, StampEpoch,
   TurnFirstStep, TurnNeverRan, ReadInterjections, FlushEnds, FlushCut,
   DeliverCancel, WatchEpoch, StopPress, StopAdvance, StopLand, PeerAdvances,
   DrainBegin, DrainDeadline, DrainCancel, DrainClose, vars, recordVars

\* A claim is made by its send's preparation, and then only moves towards a
\* peer or its end; it ends with its message.
LEMMA ClaimStep ==
    ASSUME Core, Accounts, [Next]_vars, NEW m \in Messages
    PROVE  \/ claim'[m] = claim[m]
           \/ sent[m] = "new" /\ claim'[m] = IF ClaimStore THEN "mine" ELSE "none"
           \/ claim[m] \in {"mine", "lost"} /\ claim'[m] = "done" /\ ending'[m] # "owed"
           \/ claim[m] = "mine" /\ claim'[m] = "lost"
<1>1. TypeOK /\ Shape /\ HeldOnce
  BY DEF Core
<1>2. /\ ending \in [Messages -> {"owed", "answered", "cancelled", "interrupted", "declined", "failed"}]
      /\ claim \in [Messages -> {"none", "mine", "lost", "done"}]
      /\ {} \in SUBSET Messages /\ "declined" \in Final
  BY <1>1 DEF TypeOK, RecordTypeOK, Final
<1>3. CASE Decline
  BY <1>1, <1>2, <1>3, DeclineIs, OnCompleteIs
<1>4. CASE TurnEnds \/ TurnCancelled
  BY <1>1, <1>2, <1>4, TurnEndsIs, OnCompleteIs
<1>5. CASE AfterTurn
  <2>1. ending' = ending
    BY <1>5 DEF AfterTurn
  <2>2. \/ claim' = claim
        \/ ~unwinding /\ outcome = "stored" /\ claim' = Finish(claim, Items(folded))
    BY <1>5 DEF AfterTurn
  <2>3. outcome = "stored" /\ ~unwinding => \A x \in Items(folded) : ending[x] # "owed"
    BY DEF Accounts, Told
  <2> QED
    BY <1>2, <2>1, <2>2, <2>3 DEF Finish
<1>6. ASSUME NEW x \in Messages, Prepare(x)
      PROVE  claim'[m] = claim[m] \/ (sent[m] = "new" /\ claim'[m] = IF ClaimStore THEN "mine" ELSE "none")
  BY <1>2, <1>6 DEF Prepare
<1>7. ASSUME NEW x \in Messages, PrepareFails(x)
      PROVE  \/ claim'[m] = claim[m]
             \/ claim[m] \in {"mine", "lost"} /\ claim'[m] = "done" /\ ending'[m] # "owed"
  BY <1>2, <1>7 DEF PrepareFails, Finish
<1>8. ASSUME NEW x \in Messages, PeerTakes(x) \/ DrainRelease(x)
      PROVE  claim'[m] = claim[m] \/ (claim[m] = "mine" /\ claim'[m] = "lost")
  BY <1>2, <1>8 DEF PeerTakes, DrainRelease
<1> QED
  BY <1>3, <1>4, <1>5, <1>6, <1>7, <1>8, ClaimChanges

LEMMA RecordedStep ==
    ASSUME Core, Accounts, [Next]_vars
    PROVE  Recorded'
<1>1. TypeOK /\ Shape /\ HeldOnce /\ Recorded
  BY DEF Core, Accounts
<1> SUFFICES ASSUME NEW m \in Messages
             PROVE  /\ claim'[m] = "done" => ending'[m] # "owed"
                    /\ sent'[m] # "new" /\ Kind[m] # "step" /\ ClaimStore => claim'[m] # "none"
                    /\ claim'[m] # "none" => ClaimStore
  BY DEF Recorded
<1>2. /\ claim[m] = "done" => ending[m] # "owed"
      /\ sent[m] # "new" /\ Kind[m] # "step" /\ ClaimStore => claim[m] # "none"
      /\ claim[m] # "none" => ClaimStore
  BY <1>1 DEF Recorded
<1>3. ending[m] # "owed" => ending'[m] # "owed"
  BY <1>1, EndedStays
\* A send leaves "new" through its preparation, but for a workflow's step.
<1>4. sent[m] = "new" /\ sent'[m] # "new" /\ Kind[m] # "step" /\ ClaimStore => claim'[m] # "none"
  <2>1. /\ sent \in [Messages -> {"new", "preparing", "failed", "enqueued"}]
        /\ claim \in [Messages -> {"none", "mine", "lost", "done"}]
    BY <1>1 DEF TypeOK, RecordTypeOK
  <2>2. \/ sent' = sent \/ \E x \in Messages : Prepare(x) \/ PrepareFails(x) \/ Enqueue(x)
    BY DEF Next, SkipOnDrain, Decline, Begin, HandBack, StartTurn, StampEpoch, AfterTurn,
       TurnFirstStep, TurnNeverRan, ReadInterjections, TurnEnds, TurnCancelled, FlushEnds, FlushCut,
       DeliverCancel, WatchEpoch, StopPress, StopAdvance, StopLand, PeerAdvances, PeerTakes,
       DrainBegin, DrainDeadline, DrainCancel, DrainClose, DrainRelease, vars, sendVars
  <2> QED
    BY <2>1, <2>2 DEF Prepare, PrepareFails, Enqueue
<1>5. CASE claim'[m] = claim[m]
  BY <1>2, <1>3, <1>4, <1>5
<1>6. CASE sent[m] = "new" /\ claim'[m] = IF ClaimStore THEN "mine" ELSE "none"
  BY <1>2, <1>6
<1>7. CASE claim[m] \in {"mine", "lost"} /\ claim'[m] = "done" /\ ending'[m] # "owed"
  BY <1>2, <1>7
<1>8. CASE claim[m] = "mine" /\ claim'[m] = "lost"
  BY <1>2, <1>8
<1> QED
  BY <1>5, <1>6, <1>7, <1>8, ClaimStep

LEMMA ToldStep ==
    ASSUME Core, Accounts, [Next]_vars
    PROVE  Told'
<1>1. TypeOK /\ Shape /\ HeldOnce /\ Told /\ NeverRan
  BY DEF Core, Accounts
<1>2. ASSUME outcome' = "none" PROVE Told'
  BY <1>2 DEF Told
<1>3. CASE AfterTurn \/ StartTurn
  BY <1>2, <1>3 DEF AfterTurn, StartTurn, NewTurn
<1>4. CASE Begin
  <2>1. outcome = "none"
    BY <1>1, <1>4 DEF Begin, Shape, NeverRan
  <2>2. outcome' = "none"
    BY <1>4, <2>1 DEF Begin, NewTurn, turnVars
  <2> QED
    BY <1>2, <2>2
<1>5. CASE HandBack \/ ReadInterjections
  <2>1. outcome' = outcome /\ outcome = "none"
    BY <1>1, <1>5 DEF HandBack, ReadInterjections, Shape, NeverRan, turnVars
  <2> QED
    BY <1>2, <2>1
<1>6. CASE TurnEnds \/ TurnCancelled
  <2>1. /\ entry \in Messages /\ Items(folded) \in SUBSET Messages /\ outcome' \in Verdicts
        /\ UNCHANGED <<entry, folded>>
    BY <1>1, <1>6, TurnEndsIs
  <2>2. PICK how \in Final \cup {"answered"}, others \in {{}, Items(folded)} :
          /\ OnComplete(entry, how, others, outcome')
          /\ unwinding' = TRUE \/ others = Items(folded)
    BY <1>1, <1>6, TurnEndsIs
  <2>3. others \in SUBSET Messages
    BY <2>1
  <2>4. /\ outcome' = "stored" => ending'[entry] # "owed" /\ \A x \in others : ending'[x] # "owed"
        /\ outcome' = "raised" => entry \in unsaved' /\ others \subseteq unsaved'
        /\ outcome' = "not_mine" => claim'[entry] \in {"lost", "done"}
    BY <1>1, <2>1, <2>2, <2>3, OnCompleteIs
  <2> QED
    BY <2>1, <2>2, <2>4 DEF Told
<1>7. CASE UNCHANGED <<entry, folded, outcome>> /\ (unwinding => unwinding')
  <2>1. CASE outcome = "none"
    BY <1>2, <1>7, <2>1
  <2>2. CASE outcome # "none"
    <3>1. entry \in Messages /\ Items(folded) \subseteq Messages
      BY <1>1, <2>2 DEF NeverRan, Shape, TypeOK, EngineTypeOK, Items
    <3>2. sent[entry] = "enqueued"
      BY <1>1, <3>1, TurnQueueAssumption DEF HeldOnce
    <3>3. claim[entry] \in {"lost", "done"} => claim'[entry] \in {"lost", "done"}
      BY <3>1, <3>2, ClaimStep
    <3>4. /\ \A m \in Messages : ending[m] # "owed" => ending'[m] # "owed"
          /\ unsaved \subseteq unsaved'
      BY <1>1, EndedStays
    <3> QED
      BY <1>1, <1>7, <3>1, <3>3, <3>4 DEF Told
  <2> QED
    BY <2>1, <2>2
<1>8. \/ UNCHANGED <<entry, folded, outcome>> /\ (unwinding => unwinding')
      \/ AfterTurn \/ StartTurn \/ Begin \/ HandBack \/ ReadInterjections \/ TurnEnds \/ TurnCancelled
  BY DEF Next, Prepare, PrepareFails, Enqueue, SkipOnDrain, Decline, StampEpoch,
     TurnFirstStep, TurnNeverRan, FlushEnds, FlushCut, DeliverCancel, WatchEpoch, StopPress,
     StopAdvance, StopLand, PeerAdvances, PeerTakes, DrainBegin, DrainDeadline, DrainCancel,
     DrainClose, DrainRelease, vars, lineVars, turnVars
<1> QED
  BY <1>3, <1>4, <1>5, <1>6, <1>7, <1>8

\* A drain is never called off.
LEMMA DrainForward ==
    ASSUME [Next]_vars, Draining
    PROVE  Draining'
BY DEF Next, Prepare, PrepareFails, Enqueue, SkipOnDrain, Decline, Begin, HandBack, StartTurn,
   StampEpoch, AfterTurn, TurnFirstStep, TurnNeverRan, ReadInterjections, TurnEnds, TurnCancelled,
   FlushEnds, FlushCut, DeliverCancel, WatchEpoch, StopPress, StopAdvance, StopLand, PeerAdvances,
   PeerTakes, DrainBegin, DrainDeadline, DrainCancel, DrainClose, DrainRelease, Draining, vars,
   drainVars

LEMMA NeverRanStep ==
    ASSUME Core, Accounts, [Next]_vars
    PROVE  NeverRan'
<1>1. TypeOK /\ Shape /\ NeverRan
  BY DEF Core, Accounts
<1>2. Draining => Draining'
  BY DrainForward
<1>3. ASSUME UNCHANGED <<turn, outcome, unwinding>>, worker' = worker \/ worker' # "closing" \/ Draining',
             turn = "created" /\ cancel' = "now" => cancel = "now" \/ Draining'
      PROVE  NeverRan'
  BY <1>1, <1>2, <1>3 DEF NeverRan
<1>4. ASSUME worker' # "closing", UNCHANGED <<turnVars>> PROVE NeverRan'
  BY <1>3, <1>4 DEF turnVars
<1>5. ASSUME NewTurn PROVE NeverRan'
  BY <1>5 DEF NewTurn, NeverRan
<1>6. CASE Begin
  BY <1>4, <1>5, <1>6 DEF Begin
<1>7. CASE StartTurn
  BY <1>5, <1>7 DEF StartTurn
<1>8. CASE HandBack
  BY <1>4, <1>8 DEF HandBack
<1>9. CASE AfterTurn
  BY <1>9 DEF AfterTurn, NeverRan
<1>10. CASE TurnFirstStep
  BY <1>1, <1>2, <1>10 DEF TurnFirstStep, NeverRan, workerVars
<1>11. CASE TurnNeverRan
  BY <1>1, <1>2, <1>11 DEF TurnNeverRan, NeverRan, workerVars
<1>12. CASE TurnEnds \/ TurnCancelled
  <2>1. outcome' \in Verdicts /\ turn' = "flushing" /\ worker' = worker
    BY <1>12 DEF TurnEnds, TurnCancelled, workerVars
  <2> QED
    BY <1>1, <1>2, <2>1 DEF NeverRan, Verdicts
<1>13. CASE FlushEnds \/ FlushCut
  BY <1>1, <1>2, <1>13 DEF FlushEnds, FlushCut, NeverRan, workerVars
<1>14. CASE DrainCancel \/ DrainClose
  <2>1. Draining' /\ UNCHANGED <<turn, outcome, unwinding>>
    BY <1>14 DEF DrainCancel, DrainClose, Draining
  <2> QED
    BY <1>3, <2>1
<1>15. CASE /\ UNCHANGED <<turn, outcome, unwinding>> /\ (worker' = worker \/ worker' # "closing")
            /\ cancel' = cancel \/ cancel' # "now" \/ turn # "created"
  BY <1>3, <1>15
<1>16. CASE StopLand \/ DeliverCancel \/ WatchEpoch \/ StampEpoch
  <2>1. /\ UNCHANGED <<turn, outcome, unwinding>> /\ (worker' = worker \/ worker' # "closing")
        /\ cancel' = cancel \/ cancel' # "now" \/ turn # "created"
    BY <1>16 DEF StopLand, DeliverCancel, WatchEpoch, StampEpoch, workerVars
  <2> QED
    BY <1>15, <2>1
<1>17. ASSUME NEW m \in Messages, Enqueue(m) PROVE NeverRan'
  <2>1. /\ UNCHANGED <<turn, outcome, unwinding>> /\ (worker' = worker \/ worker' # "closing")
        /\ cancel' = cancel \/ cancel' # "now"
    BY <1>17 DEF Enqueue
  <2> QED
    BY <1>15, <2>1
<1>18. CASE UNCHANGED <<workerVars, turnVars>>
  BY <1>15, <1>18 DEF workerVars, turnVars
<1>19. \/ UNCHANGED <<workerVars, turnVars>>
       \/ Begin \/ StartTurn \/ HandBack \/ AfterTurn \/ TurnFirstStep \/ TurnNeverRan \/ TurnEnds
       \/ TurnCancelled \/ FlushEnds \/ FlushCut \/ DrainCancel \/ DrainClose \/ StopLand
       \/ DeliverCancel \/ WatchEpoch \/ StampEpoch \/ \E m \in Messages : Enqueue(m)
  BY DEF Next, Prepare, PrepareFails, SkipOnDrain, Decline, ReadInterjections, StopPress,
     StopAdvance, PeerAdvances, PeerTakes, DrainBegin, DrainDeadline, DrainRelease, vars
<1> QED
  BY <1>6, <1>7, <1>8, <1>9, <1>10, <1>11, <1>12, <1>13, <1>14, <1>16, <1>17, <1>18, <1>19

LEMMA AccountsInvariant == Spec => []Accounts
<1>1. Init => Accounts
  BY DEF Init, Accounts, Recorded, Told, NeverRan
<1>2. Core /\ Accounts /\ [Next]_vars => Accounts'
  BY RecordedStep, ToldStep, NeverRanStep DEF Accounts
<1> QED
  BY <1>1, <1>2, CoreInvariant, PTL DEF Spec

\* A POST is woken for a question that has its ending, that a claim still owes,
\* whose write the store refused, or because the pod is going.
LEMMA WakeStep ==
    ASSUME Core, Accounts, [Next]_vars, NEW m \in woken', m \notin woken
    PROVE  \/ ending'[m] # "owed" \/ claim'[m] \in {"mine", "lost"}
           \/ m \in unsaved' \/ Kind[m] = "step" \/ Draining
<1>1. TypeOK /\ Shape /\ HeldOnce /\ Recorded /\ Told /\ NeverRan
  BY DEF Core, Accounts
<1>2. claim \in [Messages -> {"none", "mine", "lost", "done"}] /\ {} \in SUBSET Messages
  BY <1>1 DEF TypeOK, RecordTypeOK
<1>3. CASE SkipOnDrain
  BY <1>3 DEF SkipOnDrain
<1>4. CASE Decline
  <2>1. m = Head(queue) /\ m \in Messages
    BY <1>1, <1>4, DeclineIs DEF Decline
  <2>2. PICK v \in Verdicts : OnComplete(m, "declined", {}, v)
    BY <1>1, <1>4, <2>1, DeclineIs
  <2>3. "declined" \in Final \cup {"answered"}
    BY DEF Final
  <2>4. /\ v = "stored" => ending'[m] # "owed"
        /\ v = "raised" => m \in unsaved'
        /\ v = "not_mine" => claim[m] \in {"lost", "done"} /\ claim' = claim /\ ending' = ending
    BY <1>1, <1>2, <2>1, <2>2, <2>3, OnCompleteIs
  <2> QED
    BY <1>1, <2>1, <2>4 DEF Verdicts, Recorded
<1>5. CASE AfterTurn
  <2> SUFFICES ASSUME ~Draining, Kind[m] # "step"
               PROVE  ending'[m] # "owed" \/ claim'[m] \in {"mine", "lost"} \/ m \in unsaved'
    OBVIOUS
  <2>1. /\ turn = "done" /\ UNCHANGED <<ending, unsaved>>
        /\ claim' = IF ~unwinding /\ outcome = "stored" THEN Finish(claim, Items(folded)) ELSE claim
    BY <1>1, <1>5 DEF AfterTurn, NeverRan
  <2>2. m = entry \/ (m \in Items(folded) /\ ~unwinding)
    <3>1. m \in WakesAfter(FALSE)
      BY <1>1, <1>5 DEF AfterTurn, NeverRan
    <3> QED
      BY <3>1 DEF WakesAfter, ReturnsFolded, Items
  <2>3. entry \in Messages /\ Items(folded) \subseteq Messages /\ outcome \in Verdicts
    BY <1>1, <2>1 DEF Shape, NeverRan, TypeOK, EngineTypeOK, Items
  <2>4. CASE outcome = "stored"
    BY <1>1, <2>1, <2>2, <2>4 DEF Told
  <2>5. CASE outcome = "raised"
    BY <1>1, <2>1, <2>2, <2>5 DEF Told
  <2>6. CASE outcome = "not_mine"
    <3>1. claim[entry] \in {"lost", "done"} /\ claim' = claim
      BY <1>1, <2>1, <2>6 DEF Told
    <3>2. ClaimStore
      BY <1>1, <2>3, <3>1 DEF Recorded
    <3>3. m \in Messages /\ sent[m] = "enqueued"
      BY <1>1, <2>2, <2>3, TurnQueueAssumption DEF HeldOnce
    <3>4. claim[m] \in {"mine", "lost", "done"}
      BY <1>1, <1>2, <3>2, <3>3 DEF Recorded
    <3> QED
      BY <1>1, <2>1, <3>1, <3>3, <3>4 DEF Recorded
  <2> QED
    BY <2>3, <2>4, <2>5, <2>6 DEF Verdicts
<1>6. woken' = woken \/ SkipOnDrain \/ Decline \/ AfterTurn
  BY DEF Next, Prepare, PrepareFails, Enqueue, Begin, HandBack, StartTurn, StampEpoch,
     TurnFirstStep, TurnNeverRan, ReadInterjections, TurnEnds, TurnCancelled, FlushEnds, FlushCut,
     DeliverCancel, WatchEpoch, StopPress, StopAdvance, StopLand, PeerAdvances, PeerTakes,
     DrainBegin, DrainDeadline, DrainCancel, DrainClose, DrainRelease, vars
<1> QED
  BY <1>3, <1>4, <1>5, <1>6

\* No POST is answered with its question forgotten.
THEOREM WakeIsAccountedForHolds == Spec => WakeIsAccountedFor
<1>1. Core /\ Accounts /\ [Next]_vars =>
        [\A m \in woken' \ woken :
            \/ ending'[m] # "owed" \/ claim'[m] \in {"mine", "lost"}
            \/ m \in unsaved' \/ Kind[m] = "step" \/ Draining]_vars
  BY WakeStep
<1> QED
  BY <1>1, CoreInvariant, AccountsInvariant, PTL DEF Spec, WakeIsAccountedFor
=============================================================================

-------------------------- MODULE IndexFanoutProofs --------------------------
(***************************************************************************)
(* Proofs about IndexFanout, for any batches, threads and bounds.           *)
(***************************************************************************)
EXTENDS IndexFanout, TLAPS, FiniteSetTheorems

-----------------------------------------------------------------------------
(* The inductive invariant                                                  *)

\* Where a split job is after its plan, and where the run has not started yet.
PreRun == {"clear", "unstage", "start", "drop", "whole", "publish", "stamp"}
Past == PreRun \cup {"create"}

\* Every version a thread or a request has read is one the document had.
VersionsOf(t) ==
  /\ at[t].v \in 0 .. count.events \cup {None}
  /\ at[t].pc \in {"drop", "whole", "publish", "stamp", "write", "counted", "stage", "done",
                   "verdict", "judge"} => at[t].v # None

Asked ==
  /\ request.v \in 0 .. count.events \cup {None}
  /\ request.pc = "flip" => request.kind \in {"reindex", "requeue"}
  /\ request.kind \in {"reindex", "requeue"} => request.v # None

\* The job a thread is in the middle of tells where it can be.
JobOf(t) ==
  /\ at[t].pc \in {"running", "write", "counted", "stage", "done"} => at[t].job \in Batches
  /\ at[t].pc \in {"guard", "read", "verdict", "tidy", "finish"} => at[t].job = "finalize"
  /\ at[t].pc \in Past \cup {"plan"} => at[t].job = "split"
  /\ at[t].pc \in {"gate", "flag", "claimed"} => at[t].job \in Batches \cup {"runs"}
  /\ at[t].pc = "fail" => at[t].job = "runs"

\* What a collection re-read took from a revision that still is the current one.
Unmoved ==
  request.fresh => request.kind = "requeue" /\ request.v = doc.content /\ request.rows = doc.text

Whole == \A b \in Batches : chunks[b] # None

\* One split: a thread between its plan and its run is alone, and the run has
\* not started; what a thread has seen of the run and of the rows stays true.
ThreadOf(t) ==
  /\ at[t].pc \in PreRun => run.status = "none" /\ doc.status # "ready"
  /\ at[t].pc = "create" => run.status # "none"
  /\ at[t].pc = "publish" => Whole
  /\ at[t].pc \in {"counted", "stage", "done"} => chunks[at[t].job] # None
  /\ at[t].job \in Batches => run.status # "none"
  /\ at[t].pc \in {"gate", "flag", "claimed", "fail"} => run.status # "none"
  /\ at[t].job = "finalize" => run.finalized
  /\ at[t].pc = "flag" \/ at[t].won => Complete(run)
  /\ at[t].pc = "claimed" /\ at[t].won => run.finalized
  /\ at[t].job = "runs" /\ at[t].bad => run.finalized
  /\ at[t].pc \in {"read", "verdict", "tidy", "finish"} /\ ~at[t].bad => Whole

Alone ==
  /\ \A t, u \in Threads : at[t].pc \in Past /\ at[u].pc \in Past => t = u
  /\ count.splits = 0 => \A t \in Threads : at[t].pc \notin Past

\* The gate is claimed once every batch has reported, what is reported done is
\* written, and only then is there a finalize job, or a ready document.
Gate ==
  /\ count.splits = 0 => run.status = "none" /\ doc.status # "ready"
  /\ run.status = "none" =>
       /\ run.done = {} /\ run.failed = {} /\ ~run.finalized
       /\ \A j \in Jobs \ {"split"} : pending[j] = 0
  /\ \A b \in run.done : chunks[b] # None
  /\ run.finalized => Complete(run)
  /\ pending["finalize"] > 0 => run.finalized
  /\ doc.status = "ready" => Whole

OneSplit == Alone /\ Gate /\ \A t \in Threads : ThreadOf(t)

Inv ==
  /\ TypeOK
  /\ doc.content <= count.events /\ Asked /\ \A t \in Threads : VersionsOf(t)
  /\ \A t \in Threads : JobOf(t)
  /\ Unmoved
  /\ count.splits <= 1 => OneSplit

-----------------------------------------------------------------------------
(* Types                                                                    *)

Pcs == {"idle", "plan", "clear", "unstage", "start", "create",
        "drop", "whole", "publish", "stamp", "running", "write", "counted",
        "stage", "done", "gate", "flag", "claimed", "guard", "read",
        "verdict", "tidy", "finish", "fail", "judge"}
JobNames == Jobs \cup Sweeps \cup {"none"}
Seen == Versions \cup {None}

Docs == [content : Versions, status : {"indexing", "ready", "error"}, text : Rows]
Runs == [status : {"none", "running", "done", "error"}, done : SUBSET Batches,
         failed : SUBSET Batches, finalized : BOOLEAN]
Tasks == [pc : Pcs, job : JobNames, v : Seen, rows : Rows, bad : BOOLEAN,
          fresh : BOOLEAN, won : BOOLEAN, held : BOOLEAN, todo : SUBSET Batches]
Asks == [pc : {"idle", "flip", "check", "create"},
         kind : {"none", "upload", "edit", "reindex", "requeue"},
         v : Seen, rows : Rows, fresh : BOOLEAN]
Counts == [events : 0 .. MaxEvents, splits : Nat]

LEMMA TypedIs ==
  TypeOK <=> /\ doc \in Docs /\ chunks \in Rows /\ staged \in Rows /\ run \in Runs
             /\ pending \in [Jobs -> 0 .. MaxPending] /\ at \in [Threads -> Tasks]
             /\ request \in Asks /\ old \subseteq {"run", "doc"} /\ count \in Counts
BY DEF TypeOK, Docs, Runs, Tasks, Asks, Counts, Pcs, JobNames, Seen

LEMMA TypedNext ==
  ASSUME doc' \in Docs, chunks' \in Rows, staged' \in Rows, run' \in Runs,
         pending' \in [Jobs -> 0 .. MaxPending], at' \in [Threads -> Tasks],
         request' \in Asks, old' \subseteq {"run", "doc"}, count' \in Counts
  PROVE  TypeOK'
BY DEF TypeOK, Docs, Runs, Tasks, Asks, Counts, Pcs, JobNames, Seen

LEMMA NamesApart ==
  ASSUME NEW b \in Batches
  PROVE  b # "split" /\ b # "finalize" /\ b # "runs" /\ b # "docs"
BY NamesAssumption

LEMMA NoRowsType == NoRows \in Rows
BY DEF NoRows, Rows

LEMMA IdleType ==
  /\ Idle \in Tasks /\ Idle.pc = "idle" /\ Idle.job = "none" /\ Idle.v = None
  /\ Idle.bad = FALSE /\ Idle.won = FALSE /\ Idle.held = FALSE
BY NoRowsType DEF Idle, Tasks, Pcs, JobNames, Seen

LEMMA NoRequestType ==
  /\ NoRequest \in Asks /\ NoRequest.pc = "idle" /\ NoRequest.kind = "none"
  /\ NoRequest.v = None /\ NoRequest.fresh = FALSE /\ NoRequest.rows = NoRows
BY NoRowsType DEF NoRequest, Asks, Seen

\* What the other threads do of a step: nothing but lose a compare-and-set.
Same(u) ==
  /\ at'[u].pc = at[u].pc /\ at'[u].job = at[u].job /\ at'[u].v = at[u].v
  /\ at'[u].bad = at[u].bad /\ at'[u].won = at[u].won
Others(t) == \A u \in Threads \ {t} : Same(u)

LEMMA ReplacedIs ==
  ASSUME TypeOK, NEW t \in Threads, NEW x \in Tasks, at' = [at EXCEPT ![t] = x]
  PROVE  at' \in [Threads -> Tasks] /\ Others(t) /\ at'[t] = x
<1>1. at \in [Threads -> Tasks]
  BY TypedIs
<1>2. at' \in [Threads -> Tasks] /\ at'[t] = x /\ \A u \in Threads \ {t} : at'[u] = at[u]
  BY <1>1
<1> QED
  BY <1>2 DEF Others, Same

LEMMA GotoIs ==
  ASSUME TypeOK, NEW t \in Threads, NEW pc \in Pcs, Goto(t, pc)
  PROVE  /\ at' \in [Threads -> Tasks] /\ Others(t)
         /\ at'[t].pc = pc /\ at'[t].job = at[t].job /\ at'[t].v = at[t].v
         /\ at'[t].bad = at[t].bad /\ at'[t].won = at[t].won
<1>1. at \in [Threads -> Tasks] /\ at[t] \in Tasks
  BY TypedIs
<1>2. at' = [at EXCEPT ![t] = [at[t] EXCEPT !.pc = pc]]
  BY <1>1 DEF Goto
<1>3. [at[t] EXCEPT !.pc = pc] \in Tasks
  BY <1>1 DEF Tasks
<1>4. at' \in [Threads -> Tasks] /\ Others(t) /\ at'[t] = [at[t] EXCEPT !.pc = pc]
  BY <1>2, <1>3, ReplacedIs
<1> QED
  BY <1>1, <1>4 DEF Tasks

LEMMA ReturnIs ==
  ASSUME TypeOK, NEW t \in Threads, Return(t)
  PROVE  /\ at' \in [Threads -> Tasks] /\ Others(t)
         /\ at'[t].pc = "idle" /\ at'[t].job = "none" /\ at'[t].v = None
         /\ at'[t].bad = FALSE /\ at'[t].won = FALSE
<1>1. at' \in [Threads -> Tasks] /\ Others(t) /\ at'[t] = Idle
  BY IdleType, ReplacedIs DEF Return
<1> QED
  BY <1>1, IdleType

LEMMA RunWrittenIs ==
  ASSUME TypeOK, NEW r \in Runs, NEW a \in [Threads -> Tasks], RunWritten(r, a)
  PROVE  /\ run' = r /\ old' \subseteq {"run", "doc"} /\ at' \in [Threads -> Tasks]
         /\ \A u \in Threads : /\ at'[u].pc = a[u].pc /\ at'[u].job = a[u].job /\ at'[u].v = a[u].v
                               /\ at'[u].bad = a[u].bad /\ at'[u].won = a[u].won
<1>1. run' = r /\ old' \subseteq {"run", "doc"}
  BY TypedIs DEF RunWritten
<1>2. at' = [u \in Threads |-> [a[u] EXCEPT !.fresh = FALSE]]
  BY DEF RunWritten
<1>3. ASSUME NEW x \in Tasks
      PROVE  /\ [x EXCEPT !.fresh = FALSE] \in Tasks
             /\ [x EXCEPT !.fresh = FALSE].pc = x.pc /\ [x EXCEPT !.fresh = FALSE].job = x.job
             /\ [x EXCEPT !.fresh = FALSE].v = x.v /\ [x EXCEPT !.fresh = FALSE].bad = x.bad
             /\ [x EXCEPT !.fresh = FALSE].won = x.won
  BY DEF Tasks
<1>4. at' \in [Threads -> Tasks]
  BY <1>2, <1>3
<1>5. ASSUME NEW u \in Threads
      PROVE  /\ at'[u].pc = a[u].pc /\ at'[u].job = a[u].job /\ at'[u].v = a[u].v
             /\ at'[u].bad = a[u].bad /\ at'[u].won = a[u].won
  <2>1. at'[u] = [a[u] EXCEPT !.fresh = FALSE]
    BY <1>2
  <2> QED
    BY <1>3, <2>1
<1> QED
  BY <1>1, <1>4, <1>5

LEMMA DocWrittenIs ==
  ASSUME TypeOK, NEW c \in Versions, NEW s \in {"indexing", "ready", "error"}, NEW x \in Rows,
         DocWritten(c, s, x)
  PROVE  /\ doc' \in Docs /\ old' \subseteq {"run", "doc"}
         /\ doc'.content = c /\ doc'.status = s /\ doc'.text = x
BY TypedIs DEF DocWritten, Docs

LEMMA AddIs ==
  ASSUME TypeOK, NEW job \in Jobs, Add(job)
  PROVE  /\ pending' \in [Jobs -> 0 .. MaxPending]
         /\ \A k \in Jobs \ {job} : pending'[k] = pending[k]
<1>1. pending \in [Jobs -> 0 .. MaxPending] /\ MaxPending \in Nat
  BY TypedIs, BoundsAssumption
<1>2. pending' = [pending EXCEPT ![job] = IF pending[job] < MaxPending THEN pending[job] + 1
                                                                       ELSE pending[job]]
  BY DEF Add
<1>3. (IF pending[job] < MaxPending THEN pending[job] + 1 ELSE pending[job]) \in 0 .. MaxPending
  BY <1>1
<1> QED
  BY <1>1, <1>2, <1>3

LEMMA EventIs ==
  ASSUME TypeOK, Event
  PROVE  count' \in Counts /\ count'.splits = count.splits /\ count'.events = count.events + 1
         /\ count.events \in 0 .. MaxEvents /\ count.splits \in Nat
<1>1. count \in Counts /\ count.events < MaxEvents /\ count' = [count EXCEPT !.events = @ + 1]
  BY TypedIs DEF Event
<1>2. count.events \in Nat /\ count.events <= MaxEvents /\ MaxEvents \in Nat /\ count.splits \in Nat
  BY <1>1, BoundsAssumption DEF Counts
<1>3. count'.events = count.events + 1 /\ count'.splits = count.splits
  BY <1>1 DEF Counts
<1> QED
  BY <1>1, <1>2, <1>3 DEF Counts

LEMMA OvertakenIs ==
  ASSUME TypeOK, request' = Overtaken(request)
  PROVE  /\ request' \in Asks /\ request'.fresh = FALSE /\ request'.pc = request.pc
         /\ request'.kind = request.kind /\ request'.v = request.v /\ request'.rows = request.rows
BY TypedIs DEF Overtaken, Asks

-----------------------------------------------------------------------------
(* What a step of one thread owes the invariant                             *)

LEMMA ThreadsTyped ==
  ASSUME TypeOK, NEW t \in Threads
  PROVE  /\ at[t] \in Tasks /\ at[t].pc \in Pcs /\ at[t].job \in JobNames /\ at[t].v \in Seen
         /\ at[t].rows \in Rows /\ at[t].todo \in SUBSET Batches
         /\ at[t].bad \in BOOLEAN /\ at[t].won \in BOOLEAN /\ at[t].held \in BOOLEAN
BY TypedIs DEF Tasks

LEMMA CountsTyped ==
  ASSUME TypeOK
  PROVE  count.events \in 0 .. MaxEvents /\ count.events \in Nat /\ count.splits \in Nat
         /\ doc.content \in Nat
BY TypedIs, BoundsAssumption DEF Counts, Docs, Versions

\* The other threads keep what only speaks of them.
LEMMA InvFrom ==
  ASSUME Inv, NEW t \in Threads, TypeOK', Others(t), JobOf(t)', VersionsOf(t)',
         count.events <= count'.events, doc'.content <= count'.events, Asked', Unmoved',
         count'.splits <= 1 => OneSplit'
  PROVE  Inv'
<1>1. count.events \in Nat /\ count'.events \in Nat
  <2>1. TypeOK
    BY DEF Inv
  <2>2. count'.events \in 0 .. MaxEvents
    BY DEF TypeOK
  <2> QED
    BY <2>1, <2>2, CountsTyped, BoundsAssumption
<1>2. ASSUME NEW u \in Threads PROVE JobOf(u)' /\ VersionsOf(u)'
  <2>1. CASE u = t
    BY <2>1
  <2>2. CASE u # t
    <3>1. JobOf(u) /\ VersionsOf(u)
      BY DEF Inv
    <3>2. at'[u].pc = at[u].pc /\ at'[u].job = at[u].job /\ at'[u].v = at[u].v
      BY <2>2 DEF Others, Same
    <3>3. JobOf(u)'
      BY <3>1, <3>2 DEF JobOf
    <3>4. at'[u].v \in 0 .. count'.events \cup {None}
      BY <1>1, <3>1, <3>2 DEF VersionsOf
    <3>5. VersionsOf(u)'
      BY <3>1, <3>2, <3>4 DEF VersionsOf
    <3> QED
      BY <3>3, <3>5
  <2> QED
    BY <2>1, <2>2
<1> QED
  BY <1>2 DEF Inv

\* A step that leaves the document and the request.
LEMMA RequestSame ==
  ASSUME Inv, TypeOK', count.events <= count'.events, doc' = doc, request' = request
  PROVE  doc'.content <= count'.events /\ Asked' /\ Unmoved'
<1>1. TypeOK /\ doc.content <= count.events /\ Asked /\ Unmoved
  BY DEF Inv
<1>2. count.events \in Nat /\ count'.events \in Nat /\ doc.content \in Nat
  <2>1. count'.events \in 0 .. MaxEvents
    BY DEF TypeOK
  <2> QED
    BY <1>1, <2>1, CountsTyped, BoundsAssumption
<1>3. doc'.content <= count'.events
  BY <1>1, <1>2
<1>4. Asked'
  BY <1>1, <1>2 DEF Asked
<1>5. Unmoved'
  BY <1>1 DEF Unmoved
<1> QED
  BY <1>3, <1>4, <1>5

\* A step that writes the document and breaks the compare-and-set of the request.
LEMMA RequestOvertaken ==
  ASSUME Inv, NEW c, c \in 0 .. count.events, doc'.content = c, count' = count,
         request' = Overtaken(request)
  PROVE  doc'.content <= count'.events /\ Asked' /\ Unmoved'
<1>1. TypeOK /\ Asked
  BY DEF Inv
<1>2. /\ request'.fresh = FALSE /\ request'.pc = request.pc
      /\ request'.kind = request.kind /\ request'.v = request.v
  BY <1>1, OvertakenIs
<1>3. doc'.content <= count'.events
  BY <1>1, CountsTyped
<1>4. Asked'
  BY <1>1, <1>2 DEF Asked
<1>5. Unmoved'
  BY <1>2 DEF Unmoved
<1> QED
  BY <1>3, <1>4, <1>5

\* What the run and the rows never lose while there is one split.
Grows ==
  /\ run.status # "none" => run'.status # "none"
  /\ Complete(run) => Complete(run')
  /\ run.finalized => run'.finalized

LEMMA OneSplitFrom ==
  ASSUME OneSplit, \A u \in Threads : JobOf(u), NEW t \in Threads, Others(t), Grows,
         at'[t].pc \in Past => at[t].pc \in Past,
         count'.splits = count.splits,
         run.status = "none" => run'.status = "none" \/ at[t].pc \in PreRun,
         doc'.status = "ready" => doc.status = "ready" \/ run.status # "none" \/ at[t].pc \in Past,
         (\A b \in Batches : chunks[b] # None => chunks'[b] # None) \/ at[t].pc \in PreRun,
         Gate', ThreadOf(t)'
  PROVE  OneSplit'
<1>1. Alone /\ Gate /\ \A u \in Threads : ThreadOf(u)
  BY DEF OneSplit
<1>2. PreRun \subseteq Past
  BY DEF Past
<1>3. Alone'
  <2>1. \A u \in Threads : at'[u].pc \in Past => at[u].pc \in Past
    BY DEF Others, Same
  <2> QED
    BY <1>1, <2>1 DEF Alone
<1>4. ASSUME NEW u \in Threads, u # t PROVE ThreadOf(u)'
  <2>1. /\ at'[u].pc = at[u].pc /\ at'[u].job = at[u].job
        /\ at'[u].bad = at[u].bad /\ at'[u].won = at[u].won
    BY <1>4 DEF Others, Same
  <2>2. ThreadOf(u) /\ JobOf(u)
    BY <1>1
  <2>3. at[u].pc \in PreRun => at[t].pc \notin Past
    BY <1>1, <1>2, <1>4 DEF Alone
  <2>4. at[u].pc \in PreRun => run'.status = "none" /\ doc'.status # "ready"
    BY <1>2, <2>2, <2>3 DEF ThreadOf
  <2>5. CASE \A b \in Batches : chunks[b] # None => chunks'[b] # None
    <3>1. Whole => Whole'
      BY <2>5 DEF Whole
    <3>2. at[u].pc \in {"counted", "stage", "done"} => chunks'[at[u].job] # None
      BY <2>2, <2>5 DEF ThreadOf, JobOf
    <3> QED
      BY <2>1, <2>2, <2>4, <3>1, <3>2 DEF ThreadOf, Grows
  <2>6. CASE at[t].pc \in PreRun
    <3>1. run.status = "none" /\ ~run.finalized
      BY <1>1, <2>6 DEF ThreadOf, Gate
    <3>2. at[u].pc \notin Past
      BY <1>1, <1>2, <1>4, <2>6 DEF Alone
    <3>3. /\ at[u].job \notin Batches /\ at[u].job # "finalize"
          /\ at[u].pc \notin {"gate", "flag", "claimed", "fail"}
      BY <2>2, <3>1 DEF ThreadOf
    <3>4. /\ at[u].pc \notin {"counted", "stage", "done"}
          /\ at[u].pc \notin {"read", "verdict", "tidy", "finish"}
      BY <2>2, <3>3 DEF JobOf
    <3>5. /\ at[u].pc \notin PreRun /\ at[u].pc # "create" /\ at[u].pc # "publish"
      BY <3>2 DEF Past, PreRun
    <3>6. at[u].won => Complete(run')
      BY <2>2 DEF ThreadOf, Grows
    <3>7. ~(at[u].job = "runs" /\ at[u].bad)
      BY <2>2, <3>1 DEF ThreadOf
    <3> QED
      BY <2>1, <3>3, <3>4, <3>5, <3>6, <3>7 DEF ThreadOf
  <2> QED
    BY <2>5, <2>6
<1>5. \A u \in Threads : ThreadOf(u)'
  BY <1>4
<1> QED
  BY <1>3, <1>5 DEF OneSplit

-----------------------------------------------------------------------------
(* The split and the whole-document path, the verdicts                      *)

LEMMA NoneJob == "none" \notin Batches
BY NamesAssumption

LEMMA SplitClearKeeps ==
  ASSUME Inv, NEW t \in Threads, SplitClear(t) PROVE Inv'
<1>1. TypeOK /\ JobOf(t) /\ VersionsOf(t) /\ at[t].pc = "clear"
  BY DEF Inv, SplitClear
<1>2. UNCHANGED <<doc, staged, run, pending, request, old, count>>
  BY DEF SplitClear
<1>c. chunks' = NoRows /\ chunks' \in Rows
  BY NoRowsType DEF SplitClear
<1>3. /\ at' \in [Threads -> Tasks] /\ Others(t)
      /\ at'[t].pc = "unstage" /\ at'[t].job = at[t].job /\ at'[t].v = at[t].v
      /\ at'[t].bad = at[t].bad /\ at'[t].won = at[t].won
  <2>1. Goto(t, "unstage") /\ "unstage" \in Pcs
    BY DEF SplitClear, Pcs
  <2> QED
    BY <1>1, <2>1, GotoIs
<1>4. TypeOK'
  BY <1>1, <1>2, <1>3, <1>c, TypedIs, TypedNext
<1>5. JobOf(t)' /\ VersionsOf(t)'
  BY <1>1, <1>2, <1>3, <1>c DEF JobOf, VersionsOf, Past, PreRun
<1>6. count.events <= count'.events
  BY <1>1, <1>2, <1>c, CountsTyped
<1>7. doc'.content <= count'.events /\ Asked' /\ Unmoved'
  BY <1>2, <1>4, <1>6, RequestSame
<1>8. ASSUME count'.splits <= 1 PROVE OneSplit'
  <2>1. count'.splits = count.splits /\ count.splits \in Nat
    BY <1>1, <1>2, <1>c, CountsTyped
  <2>2. OneSplit /\ \A u \in Threads : JobOf(u)
    BY <1>8, <2>1 DEF Inv
  <2>3. Gate /\ ThreadOf(t) /\ Alone
    BY <2>2 DEF OneSplit
  <2>4. Gate'
    <3>1. run.status = "none" /\ doc.status # "ready"
      BY <1>1, <2>3 DEF ThreadOf, PreRun
    <3>2. run.done = {}
      BY <2>3, <3>1 DEF Gate
    <3> QED
      BY <1>2, <2>3, <3>1, <3>2 DEF Gate, Complete, Accounted
  <2>5. ThreadOf(t)'
    <3>1. run.status = "none" /\ doc.status # "ready" /\ ~run.finalized /\ at[t].job = "split"
      BY <1>1, <2>3 DEF ThreadOf, PreRun, Gate, JobOf, Past
    <3> QED
      BY <1>1, <1>2, <1>3, <2>3, <3>1, NamesApart DEF ThreadOf, Complete, Accounted, PreRun
  <2>6. at'[t].pc \in Past => at[t].pc \in Past
    BY <1>1, <1>3 DEF Past, PreRun
  <2>7. Grows
    BY <1>2 DEF Grows
  <2> QED
    BY <1>1, <1>2, <1>3, <1>c, <2>1, <2>2, <2>4, <2>5, <2>6, <2>7, OneSplitFrom DEF PreRun
<1> QED
  BY <1>3, <1>4, <1>5, <1>6, <1>7, <1>8, InvFrom

LEMMA WholeDropKeeps ==
  ASSUME Inv, NEW t \in Threads, WholeDrop(t) PROVE Inv'
<1>1. TypeOK /\ JobOf(t) /\ VersionsOf(t) /\ at[t].pc = "drop"
  BY DEF Inv, WholeDrop
<1>2. UNCHANGED <<doc, staged, run, pending, request, old, count>>
  BY DEF WholeDrop
<1>c. chunks' = NoRows /\ chunks' \in Rows
  BY NoRowsType DEF WholeDrop
<1>3. /\ at' \in [Threads -> Tasks] /\ Others(t)
      /\ at'[t].pc = "whole" /\ at'[t].job = at[t].job /\ at'[t].v = at[t].v
      /\ at'[t].bad = at[t].bad /\ at'[t].won = at[t].won
  <2>1. Goto(t, "whole") /\ "whole" \in Pcs
    BY DEF WholeDrop, Pcs
  <2> QED
    BY <1>1, <2>1, GotoIs
<1>4. TypeOK'
  BY <1>1, <1>2, <1>3, <1>c, TypedIs, TypedNext
<1>5. JobOf(t)' /\ VersionsOf(t)'
  BY <1>1, <1>2, <1>3, <1>c DEF JobOf, VersionsOf, Past, PreRun
<1>6. count.events <= count'.events
  BY <1>1, <1>2, <1>c, CountsTyped
<1>7. doc'.content <= count'.events /\ Asked' /\ Unmoved'
  BY <1>2, <1>4, <1>6, RequestSame
<1>8. ASSUME count'.splits <= 1 PROVE OneSplit'
  <2>1. count'.splits = count.splits /\ count.splits \in Nat
    BY <1>1, <1>2, <1>c, CountsTyped
  <2>2. OneSplit /\ \A u \in Threads : JobOf(u)
    BY <1>8, <2>1 DEF Inv
  <2>3. Gate /\ ThreadOf(t) /\ Alone
    BY <2>2 DEF OneSplit
  <2>4. Gate'
    <3>1. run.status = "none" /\ doc.status # "ready"
      BY <1>1, <2>3 DEF ThreadOf, PreRun
    <3>2. run.done = {}
      BY <2>3, <3>1 DEF Gate
    <3> QED
      BY <1>2, <2>3, <3>1, <3>2 DEF Gate, Complete, Accounted
  <2>5. ThreadOf(t)'
    <3>1. run.status = "none" /\ doc.status # "ready" /\ ~run.finalized /\ at[t].job = "split"
      BY <1>1, <2>3 DEF ThreadOf, PreRun, Gate, JobOf, Past
    <3> QED
      BY <1>1, <1>2, <1>3, <2>3, <3>1, NamesApart DEF ThreadOf, Complete, Accounted, PreRun
  <2>6. at'[t].pc \in Past => at[t].pc \in Past
    BY <1>1, <1>3 DEF Past, PreRun
  <2>7. Grows
    BY <1>2 DEF Grows
  <2> QED
    BY <1>1, <1>2, <1>3, <1>c, <2>1, <2>2, <2>4, <2>5, <2>6, <2>7, OneSplitFrom DEF PreRun
<1> QED
  BY <1>3, <1>4, <1>5, <1>6, <1>7, <1>8, InvFrom

LEMMA SplitUnstageKeeps ==
  ASSUME Inv, NEW t \in Threads, SplitUnstage(t) PROVE Inv'
<1>1. TypeOK /\ JobOf(t) /\ VersionsOf(t) /\ at[t].pc = "unstage"
  BY DEF Inv, SplitUnstage
<1>2. UNCHANGED <<doc, chunks, run, pending, request, old, count>>
  BY DEF SplitUnstage
<1>c. staged' = NoRows /\ staged' \in Rows
  BY NoRowsType DEF SplitUnstage
<1>3. /\ at' \in [Threads -> Tasks] /\ Others(t)
      /\ at'[t].pc = "start" /\ at'[t].job = at[t].job /\ at'[t].v = at[t].v
      /\ at'[t].bad = at[t].bad /\ at'[t].won = at[t].won
  <2>1. Goto(t, "start") /\ "start" \in Pcs
    BY DEF SplitUnstage, Pcs
  <2> QED
    BY <1>1, <2>1, GotoIs
<1>4. TypeOK'
  BY <1>1, <1>2, <1>3, <1>c, TypedIs, TypedNext
<1>5. JobOf(t)' /\ VersionsOf(t)'
  BY <1>1, <1>2, <1>3, <1>c DEF JobOf, VersionsOf, Past, PreRun
<1>6. count.events <= count'.events
  BY <1>1, <1>2, <1>c, CountsTyped
<1>7. doc'.content <= count'.events /\ Asked' /\ Unmoved'
  BY <1>2, <1>4, <1>6, RequestSame
<1>8. ASSUME count'.splits <= 1 PROVE OneSplit'
  <2>1. count'.splits = count.splits /\ count.splits \in Nat
    BY <1>1, <1>2, <1>c, CountsTyped
  <2>2. OneSplit /\ \A u \in Threads : JobOf(u)
    BY <1>8, <2>1 DEF Inv
  <2>3. Gate /\ ThreadOf(t) /\ Alone
    BY <2>2 DEF OneSplit
  <2>4. Gate'
    BY <1>2, <2>3 DEF Gate, Whole, Complete, Accounted
  <2>5. ThreadOf(t)'
    BY <1>1, <1>2, <1>3, <2>3 DEF ThreadOf, Whole, Complete, Accounted, PreRun
  <2>6. at'[t].pc \in Past => at[t].pc \in Past
    BY <1>1, <1>3 DEF Past, PreRun
  <2>7. Grows
    BY <1>2 DEF Grows
  <2> QED
    BY <1>1, <1>2, <1>3, <1>c, <2>1, <2>2, <2>4, <2>5, <2>6, <2>7, OneSplitFrom
<1> QED
  BY <1>3, <1>4, <1>5, <1>6, <1>7, <1>8, InvFrom

LEMMA FinalizeTidyKeeps ==
  ASSUME Inv, NEW t \in Threads, FinalizeTidy(t) PROVE Inv'
<1>1. TypeOK /\ JobOf(t) /\ VersionsOf(t) /\ at[t].pc = "tidy"
  BY DEF Inv, FinalizeTidy
<1>2. UNCHANGED <<doc, chunks, run, pending, request, old, count>>
  BY DEF FinalizeTidy
<1>c. staged' = NoRows /\ staged' \in Rows
  BY NoRowsType DEF FinalizeTidy
<1>3. /\ at' \in [Threads -> Tasks] /\ Others(t)
      /\ at'[t].pc = "finish" /\ at'[t].job = at[t].job /\ at'[t].v = at[t].v
      /\ at'[t].bad = at[t].bad /\ at'[t].won = at[t].won
  <2>1. Goto(t, "finish") /\ "finish" \in Pcs
    BY DEF FinalizeTidy, Pcs
  <2> QED
    BY <1>1, <2>1, GotoIs
<1>4. TypeOK'
  BY <1>1, <1>2, <1>3, <1>c, TypedIs, TypedNext
<1>5. JobOf(t)' /\ VersionsOf(t)'
  BY <1>1, <1>2, <1>3, <1>c DEF JobOf, VersionsOf, Past, PreRun
<1>6. count.events <= count'.events
  BY <1>1, <1>2, <1>c, CountsTyped
<1>7. doc'.content <= count'.events /\ Asked' /\ Unmoved'
  BY <1>2, <1>4, <1>6, RequestSame
<1>8. ASSUME count'.splits <= 1 PROVE OneSplit'
  <2>1. count'.splits = count.splits /\ count.splits \in Nat
    BY <1>1, <1>2, <1>c, CountsTyped
  <2>2. OneSplit /\ \A u \in Threads : JobOf(u)
    BY <1>8, <2>1 DEF Inv
  <2>3. Gate /\ ThreadOf(t) /\ Alone
    BY <2>2 DEF OneSplit
  <2>4. Gate'
    BY <1>2, <2>3 DEF Gate, Whole, Complete, Accounted
  <2>5. ThreadOf(t)'
    BY <1>1, <1>2, <1>3, <2>3 DEF ThreadOf, Whole, Complete, Accounted, PreRun
  <2>6. at'[t].pc \in Past => at[t].pc \in Past
    BY <1>1, <1>3 DEF Past, PreRun
  <2>7. Grows
    BY <1>2 DEF Grows
  <2> QED
    BY <1>1, <1>2, <1>3, <1>c, <2>1, <2>2, <2>4, <2>5, <2>6, <2>7, OneSplitFrom
<1> QED
  BY <1>3, <1>4, <1>5, <1>6, <1>7, <1>8, InvFrom

LEMMA WholeIndexKeeps ==
  ASSUME Inv, NEW t \in Threads, WholeIndex(t) PROVE Inv'
<1>1. TypeOK /\ JobOf(t) /\ VersionsOf(t) /\ at[t].pc = "whole"
  BY DEF Inv, WholeIndex
<1>2. UNCHANGED <<doc, staged, run, pending, request, old, count>>
  BY DEF WholeIndex
<1>c. /\ chunks' \in Rows /\ \A b \in Batches : chunks'[b] # None
  <2>1. chunks' = AllOf(at[t].v)
    BY DEF WholeIndex
  <2>2. at[t].v \in Versions /\ at[t].v # None
    BY <1>1, ThreadsTyped DEF VersionsOf, Seen
  <2> QED
    BY <2>1, <2>2 DEF AllOf, Rows
<1>3. /\ at' \in [Threads -> Tasks] /\ Others(t)
      /\ at'[t].pc = "publish" /\ at'[t].job = at[t].job /\ at'[t].v = at[t].v
      /\ at'[t].bad = at[t].bad /\ at'[t].won = at[t].won
  <2>1. Goto(t, "publish") /\ "publish" \in Pcs
    BY DEF WholeIndex, Pcs
  <2> QED
    BY <1>1, <2>1, GotoIs
<1>4. TypeOK'
  BY <1>1, <1>2, <1>3, <1>c, TypedIs, TypedNext
<1>5. JobOf(t)' /\ VersionsOf(t)'
  BY <1>1, <1>2, <1>3, <1>c DEF JobOf, VersionsOf, Past, PreRun
<1>6. count.events <= count'.events
  BY <1>1, <1>2, <1>c, CountsTyped
<1>7. doc'.content <= count'.events /\ Asked' /\ Unmoved'
  BY <1>2, <1>4, <1>6, RequestSame
<1>8. ASSUME count'.splits <= 1 PROVE OneSplit'
  <2>1. count'.splits = count.splits /\ count.splits \in Nat
    BY <1>1, <1>2, <1>c, CountsTyped
  <2>2. OneSplit /\ \A u \in Threads : JobOf(u)
    BY <1>8, <2>1 DEF Inv
  <2>3. Gate /\ ThreadOf(t) /\ Alone
    BY <2>2 DEF OneSplit
  <2>4. Gate'
    <3>1. run.status = "none" /\ run.done = {}
      BY <1>1, <2>3 DEF ThreadOf, PreRun, Gate
    <3> QED
      BY <1>2, <1>c, <2>3, <3>1 DEF Gate, Complete, Accounted, Whole
  <2>5. ThreadOf(t)'
    BY <1>1, <1>2, <1>3, <2>3, <1>c DEF ThreadOf, Whole, Complete, Accounted, PreRun
  <2>6. at'[t].pc \in Past => at[t].pc \in Past
    BY <1>1, <1>3 DEF Past, PreRun
  <2>7. Grows
    BY <1>2 DEF Grows
  <2> QED
    BY <1>1, <1>2, <1>3, <1>c, <2>1, <2>2, <2>4, <2>5, <2>6, <2>7, OneSplitFrom
<1> QED
  BY <1>3, <1>4, <1>5, <1>6, <1>7, <1>8, InvFrom

LEMMA WholePublishKeeps ==
  ASSUME Inv, NEW t \in Threads, WholePublish(t) PROVE Inv'
<1>1. TypeOK /\ JobOf(t) /\ VersionsOf(t) /\ at[t].pc = "publish"
  BY DEF Inv, WholePublish
<1>2. UNCHANGED <<chunks, staged, run, pending, count>>
  BY DEF WholePublish
<1>c. /\ doc' \in Docs /\ old' \subseteq {"run", "doc"}
      /\ doc'.content = at[t].v /\ doc'.status = "ready"
  <2>1. at[t].v \in 0 .. count.events /\ at[t].v \in Versions
    BY <1>1, ThreadsTyped DEF VersionsOf, Seen
  <2>2. DocWritten(at[t].v, "ready", AllOf(at[t].v))
    BY DEF WholePublish
  <2>3. AllOf(at[t].v) \in Rows /\ ("ready") \in {"indexing", "ready", "error"}
    BY <2>1 DEF AllOf, Rows
  <2> QED
    BY <1>1, <2>1, <2>2, <2>3, DocWrittenIs
<1>d. request' \in Asks /\ request' = Overtaken(request)
  <2>1. request' = Overtaken(request)
    BY DEF WholePublish
  <2> QED
    BY <1>1, <2>1, OvertakenIs
<1>3. /\ at' \in [Threads -> Tasks] /\ Others(t)
      /\ at'[t].pc = "idle" /\ at'[t].job = "none" /\ at'[t].v = None
      /\ at'[t].bad = FALSE /\ at'[t].won = FALSE
  <2>1. Return(t)
    BY DEF WholePublish
  <2> QED
    BY <1>1, <2>1, ReturnIs
<1>4. TypeOK'
  BY <1>1, <1>2, <1>3, <1>c, <1>d, TypedIs, TypedNext
<1>5. JobOf(t)' /\ VersionsOf(t)'
  BY <1>1, <1>2, <1>3, <1>c, <1>d DEF JobOf, VersionsOf, Past, PreRun
<1>6. count.events <= count'.events
  BY <1>1, <1>2, <1>c, <1>d, CountsTyped
<1>7. doc'.content <= count'.events /\ Asked' /\ Unmoved'
  <2>1. at[t].v \in 0 .. count.events
    BY <1>1 DEF VersionsOf
  <2> QED
    BY <1>2, <1>c, <1>d, <2>1, RequestOvertaken
<1>8. ASSUME count'.splits <= 1 PROVE OneSplit'
  <2>1. count'.splits = count.splits /\ count.splits \in Nat
    BY <1>1, <1>2, <1>c, <1>d, CountsTyped
  <2>2. OneSplit /\ \A u \in Threads : JobOf(u)
    BY <1>8, <2>1 DEF Inv
  <2>3. Gate /\ ThreadOf(t) /\ Alone
    BY <2>2 DEF OneSplit
  <2>4. Gate'
    <3>1. count.splits # 0
      BY <1>1, <2>3 DEF Alone, Past, PreRun
    <3>2. Whole
      BY <1>1, <2>3 DEF ThreadOf
    <3> QED
      BY <1>2, <2>1, <2>3, <3>1, <3>2 DEF Gate, Complete, Accounted, Whole
  <2>5. ThreadOf(t)'
    BY <1>3, NoneJob DEF ThreadOf, PreRun
  <2>6. at'[t].pc \in Past => at[t].pc \in Past
    BY <1>1, <1>3 DEF Past, PreRun
  <2>7. Grows
    BY <1>2 DEF Grows
  <2> QED
    BY <1>1, <1>2, <1>3, <1>c, <1>d, <2>1, <2>2, <2>4, <2>5, <2>6, <2>7, OneSplitFrom DEF Past,
       PreRun
<1> QED
  BY <1>3, <1>4, <1>5, <1>6, <1>7, <1>8, InvFrom

LEMMA WholeStampKeeps ==
  ASSUME Inv, NEW t \in Threads, WholeStamp(t) PROVE Inv'
<1>1. TypeOK /\ JobOf(t) /\ VersionsOf(t) /\ at[t].pc = "stamp"
  BY DEF Inv, WholeStamp
<1>2. UNCHANGED <<chunks, staged, run, count>>
  BY DEF WholeStamp
<1>c. /\ doc' \in Docs /\ old' \subseteq {"run", "doc"}
      /\ doc'.content = at[t].v /\ doc'.status = IF at[t].bad THEN "error" ELSE "indexing"
  <2>1. at[t].v \in 0 .. count.events /\ at[t].v \in Versions
    BY <1>1, ThreadsTyped DEF VersionsOf, Seen
  <2>2. DocWritten(at[t].v, IF at[t].bad THEN "error" ELSE "indexing", at[t].rows)
    BY DEF WholeStamp
  <2>3. at[t].rows \in Rows /\ (IF at[t].bad THEN "error" ELSE "indexing") \in {"indexing", "ready", "error"}
    BY <1>1, ThreadsTyped
  <2> QED
    BY <1>1, <2>1, <2>2, <2>3, DocWrittenIs
<1>d. request' \in Asks /\ request' = Overtaken(request)
  <2>1. request' = Overtaken(request)
    BY DEF WholeStamp
  <2> QED
    BY <1>1, <2>1, OvertakenIs
<1>f. /\ pending' \in [Jobs -> 0 .. MaxPending]
      /\ \A k \in Jobs \ {"split"} : pending'[k] = pending[k]
  <2>1. CASE ~at[t].bad /\ at[t].held
    <3>1. Add("split") /\ "split" \in Jobs
      BY <2>1 DEF WholeStamp, Jobs
    <3> QED
      BY <1>1, <3>1, AddIs
  <2>2. CASE ~(~at[t].bad /\ at[t].held)
    <3>1. pending' = pending
      BY <2>2 DEF WholeStamp
    <3> QED
      BY <1>1, <3>1, TypedIs
  <2> QED
    BY <2>1, <2>2
<1>3. /\ at' \in [Threads -> Tasks] /\ Others(t)
      /\ at'[t].pc = "idle" /\ at'[t].job = "none" /\ at'[t].v = None
      /\ at'[t].bad = FALSE /\ at'[t].won = FALSE
  <2>1. Return(t)
    BY DEF WholeStamp
  <2> QED
    BY <1>1, <2>1, ReturnIs
<1>4. TypeOK'
  BY <1>1, <1>2, <1>3, <1>c, <1>d, <1>f, TypedIs, TypedNext
<1>5. JobOf(t)' /\ VersionsOf(t)'
  BY <1>1, <1>2, <1>3, <1>c, <1>d, <1>f DEF JobOf, VersionsOf, Past, PreRun
<1>6. count.events <= count'.events
  BY <1>1, <1>2, <1>c, <1>d, <1>f, CountsTyped
<1>7. doc'.content <= count'.events /\ Asked' /\ Unmoved'
  <2>1. at[t].v \in 0 .. count.events
    BY <1>1 DEF VersionsOf
  <2> QED
    BY <1>2, <1>c, <1>d, <2>1, RequestOvertaken
<1>8. ASSUME count'.splits <= 1 PROVE OneSplit'
  <2>1. count'.splits = count.splits /\ count.splits \in Nat
    BY <1>1, <1>2, <1>c, <1>d, <1>f, CountsTyped
  <2>2. OneSplit /\ \A u \in Threads : JobOf(u)
    BY <1>8, <2>1 DEF Inv
  <2>3. Gate /\ ThreadOf(t) /\ Alone
    BY <2>2 DEF OneSplit
  <2>4. Gate'
    BY <1>2, <1>c, <1>f, <2>1, <2>3 DEF Gate, Complete, Accounted, Whole, Jobs
  <2>5. ThreadOf(t)'
    BY <1>3, NoneJob DEF ThreadOf, PreRun
  <2>6. at'[t].pc \in Past => at[t].pc \in Past
    BY <1>1, <1>3 DEF Past, PreRun
  <2>7. Grows
    BY <1>2 DEF Grows
  <2> QED
    BY <1>1, <1>2, <1>3, <1>c, <1>d, <1>f, <2>1, <2>2, <2>4, <2>5, <2>6, <2>7, OneSplitFrom
<1> QED
  BY <1>3, <1>4, <1>5, <1>6, <1>7, <1>8, InvFrom

LEMMA SweepVerdictKeeps ==
  ASSUME Inv, NEW t \in Threads, SweepVerdict(t) PROVE Inv'
<1>1. TypeOK /\ JobOf(t) /\ VersionsOf(t) /\ at[t].pc = "judge"
  BY DEF Inv, SweepVerdict
<1>2. UNCHANGED <<chunks, staged, run, pending, count>>
  BY DEF SweepVerdict
<1>c. /\ doc' \in Docs /\ old' \subseteq {"run", "doc"}
      /\ doc'.content = at[t].v /\ doc'.status = "error"
  <2>1. at[t].v \in 0 .. count.events /\ at[t].v \in Versions
    BY <1>1, ThreadsTyped DEF VersionsOf, Seen
  <2>2. DocWritten(at[t].v, "error", at[t].rows)
    BY DEF SweepVerdict
  <2>3. at[t].rows \in Rows /\ ("error") \in {"indexing", "ready", "error"}
    BY <1>1, ThreadsTyped
  <2> QED
    BY <1>1, <2>1, <2>2, <2>3, DocWrittenIs
<1>d. request' \in Asks /\ request' = Overtaken(request)
  <2>1. request' = Overtaken(request)
    BY DEF SweepVerdict
  <2> QED
    BY <1>1, <2>1, OvertakenIs
<1>3. /\ at' \in [Threads -> Tasks] /\ Others(t)
      /\ at'[t].pc = "idle" /\ at'[t].job = "none" /\ at'[t].v = None
      /\ at'[t].bad = FALSE /\ at'[t].won = FALSE
  <2>1. Return(t)
    BY DEF SweepVerdict
  <2> QED
    BY <1>1, <2>1, ReturnIs
<1>4. TypeOK'
  BY <1>1, <1>2, <1>3, <1>c, <1>d, TypedIs, TypedNext
<1>5. JobOf(t)' /\ VersionsOf(t)'
  BY <1>1, <1>2, <1>3, <1>c, <1>d DEF JobOf, VersionsOf, Past, PreRun
<1>6. count.events <= count'.events
  BY <1>1, <1>2, <1>c, <1>d, CountsTyped
<1>7. doc'.content <= count'.events /\ Asked' /\ Unmoved'
  <2>1. at[t].v \in 0 .. count.events
    BY <1>1 DEF VersionsOf
  <2> QED
    BY <1>2, <1>c, <1>d, <2>1, RequestOvertaken
<1>8. ASSUME count'.splits <= 1 PROVE OneSplit'
  <2>1. count'.splits = count.splits /\ count.splits \in Nat
    BY <1>1, <1>2, <1>c, <1>d, CountsTyped
  <2>2. OneSplit /\ \A u \in Threads : JobOf(u)
    BY <1>8, <2>1 DEF Inv
  <2>3. Gate /\ ThreadOf(t) /\ Alone
    BY <2>2 DEF OneSplit
  <2>4. Gate'
    BY <1>2, <1>c, <2>1, <2>3 DEF Gate, Complete, Accounted, Whole
  <2>5. ThreadOf(t)'
    BY <1>3, NoneJob DEF ThreadOf, PreRun
  <2>6. at'[t].pc \in Past => at[t].pc \in Past
    BY <1>1, <1>3 DEF Past, PreRun
  <2>7. Grows
    BY <1>2 DEF Grows
  <2> QED
    BY <1>1, <1>2, <1>3, <1>c, <1>d, <2>1, <2>2, <2>4, <2>5, <2>6, <2>7, OneSplitFrom
<1> QED
  BY <1>3, <1>4, <1>5, <1>6, <1>7, <1>8, InvFrom

LEMMA FinalizeVerdictKeeps ==
  ASSUME Inv, NEW t \in Threads, FinalizeVerdict(t) PROVE Inv'
<1>1. TypeOK /\ JobOf(t) /\ VersionsOf(t) /\ at[t].pc = "verdict"
  BY DEF Inv, FinalizeVerdict
<1>2. UNCHANGED <<chunks, staged, run, pending, count>>
  BY DEF FinalizeVerdict
<1>c. /\ doc' \in Docs /\ old' \subseteq {"run", "doc"}
      /\ doc'.content = at[t].v /\ doc'.status = IF at[t].bad THEN "error" ELSE "ready"
  <2>1. at[t].v \in 0 .. count.events /\ at[t].v \in Versions
    BY <1>1, ThreadsTyped DEF VersionsOf, Seen
  <2>2. DocWritten(at[t].v, IF at[t].bad THEN "error" ELSE "ready", at[t].rows)
    BY DEF FinalizeVerdict
  <2>3. at[t].rows \in Rows /\ (IF at[t].bad THEN "error" ELSE "ready") \in {"indexing", "ready", "error"}
    BY <1>1, ThreadsTyped
  <2> QED
    BY <1>1, <2>1, <2>2, <2>3, DocWrittenIs
<1>d. request' \in Asks /\ request' = Overtaken(request)
  <2>1. request' = Overtaken(request)
    BY DEF FinalizeVerdict
  <2> QED
    BY <1>1, <2>1, OvertakenIs
<1>3. /\ at' \in [Threads -> Tasks] /\ Others(t)
      /\ at'[t].pc = "tidy" /\ at'[t].job = at[t].job /\ at'[t].v = at[t].v
      /\ at'[t].bad = at[t].bad /\ at'[t].won = at[t].won
  <2>1. Goto(t, "tidy") /\ "tidy" \in Pcs
    BY DEF FinalizeVerdict, Pcs
  <2> QED
    BY <1>1, <2>1, GotoIs
<1>4. TypeOK'
  BY <1>1, <1>2, <1>3, <1>c, <1>d, TypedIs, TypedNext
<1>5. JobOf(t)' /\ VersionsOf(t)'
  BY <1>1, <1>2, <1>3, <1>c, <1>d DEF JobOf, VersionsOf, Past, PreRun
<1>6. count.events <= count'.events
  BY <1>1, <1>2, <1>c, <1>d, CountsTyped
<1>7. doc'.content <= count'.events /\ Asked' /\ Unmoved'
  <2>1. at[t].v \in 0 .. count.events
    BY <1>1 DEF VersionsOf
  <2> QED
    BY <1>2, <1>c, <1>d, <2>1, RequestOvertaken
<1>8. ASSUME count'.splits <= 1 PROVE OneSplit'
  <2>1. count'.splits = count.splits /\ count.splits \in Nat
    BY <1>1, <1>2, <1>c, <1>d, CountsTyped
  <2>2. OneSplit /\ \A u \in Threads : JobOf(u)
    BY <1>8, <2>1 DEF Inv
  <2>3. Gate /\ ThreadOf(t) /\ Alone
    BY <2>2 DEF OneSplit
  <2>h. run.status # "none"
    BY <1>1, <2>3 DEF ThreadOf, JobOf, Gate
  <2>4. Gate'
    <3>1. run.finalized /\ (~at[t].bad => Whole)
      BY <1>1, <2>3 DEF ThreadOf, JobOf
    <3>2. run.status # "none" /\ count.splits # 0
      BY <2>3, <3>1 DEF Gate
    <3> QED
      BY <1>2, <1>c, <2>1, <2>3, <3>1, <3>2 DEF Gate, Complete, Accounted, Whole
  <2>5. ThreadOf(t)'
    <3>1. run.finalized /\ (~at[t].bad => Whole) /\ at[t].job = "finalize"
      BY <1>1, <2>3 DEF ThreadOf, JobOf
    <3>2. at[t].won => Complete(run)
      BY <2>3 DEF ThreadOf
    <3> QED
      BY <1>2, <1>3, <3>1, <3>2, NamesApart DEF ThreadOf, Complete, Accounted, PreRun, Whole
  <2>6. at'[t].pc \in Past => at[t].pc \in Past
    BY <1>1, <1>3 DEF Past, PreRun
  <2>7. Grows
    BY <1>2 DEF Grows
  <2> QED
    BY <1>1, <1>2, <1>3, <1>c, <1>d, <2>1, <2>2, <2>4, <2>5, <2>6, <2>7, <2>h, OneSplitFrom
<1> QED
  BY <1>3, <1>4, <1>5, <1>6, <1>7, <1>8, InvFrom

-----------------------------------------------------------------------------
(* The process jobs                                                         *)

LEMMA ProcessGoesKeeps ==
  ASSUME Inv, NEW t \in Threads, ProcessGuard(t), Running PROVE Inv'
<1>1. TypeOK /\ JobOf(t) /\ VersionsOf(t) /\ at[t].pc = "running"
  BY DEF Inv, ProcessGuard
<1>2. UNCHANGED <<doc, chunks, staged, run, pending, request, old, count>>
  BY DEF ProcessGuard
<1>3. /\ at' \in [Threads -> Tasks] /\ Others(t)
      /\ at'[t].pc = "write" /\ at'[t].job = at[t].job /\ at'[t].v = doc.content
      /\ at'[t].bad = at[t].bad /\ at'[t].won = at[t].won
  <2> DEFINE x == [at[t] EXCEPT !.pc = "write", !.v = doc.content]
  <2>1. /\ at[t] \in Tasks /\ at \in [Threads -> Tasks] /\ doc.content \in Seen
        /\ doc.text \in Rows /\ staged \in Rows
    BY <1>1, TypedIs DEF Docs, Seen
  <2>2. at' = [at EXCEPT ![t] = x]
    BY <2>1 DEF ProcessGuard
  <2>3. /\ x \in Tasks
        /\ x.pc = "write" /\ x.job = at[t].job /\ x.v = doc.content
        /\ x.bad = at[t].bad /\ x.won = at[t].won
    BY <2>1 DEF Tasks, Pcs
  <2> HIDE DEF x
  <2>4. at' \in [Threads -> Tasks] /\ Others(t) /\ at'[t] = x
    BY <1>1, <2>2, <2>3, ReplacedIs
  <2> QED
    BY <2>3, <2>4
<1>v. doc.content \in 0 .. count.events /\ None \notin 0 .. count.events
  BY <1>1, CountsTyped, NoneAssumption DEF Inv
<1>4. TypeOK'
  BY <1>1, <1>2, <1>3, TypedIs, TypedNext
<1>5. JobOf(t)' /\ VersionsOf(t)'
  BY <1>1, <1>2, <1>3, <1>v DEF JobOf, VersionsOf, Past, PreRun
<1>6. count.events <= count'.events
  BY <1>1, <1>2, CountsTyped
<1>7. doc'.content <= count'.events /\ Asked' /\ Unmoved'
  BY <1>2, <1>4, <1>6, RequestSame
<1>8. ASSUME count'.splits <= 1 PROVE OneSplit'
  <2>1. count'.splits = count.splits /\ count.splits \in Nat
    BY <1>1, <1>2, CountsTyped
  <2>2. OneSplit /\ \A u \in Threads : JobOf(u)
    BY <1>8, <2>1 DEF Inv
  <2>3. Gate /\ ThreadOf(t) /\ Alone
    BY <2>2 DEF OneSplit
  <2>4. Gate'
    BY <1>2, <2>3 DEF Gate, Whole, Complete, Accounted
  <2>5. ThreadOf(t)'
    BY <1>1, <1>2, <1>3, <2>3, NamesApart DEF ThreadOf, Complete, Accounted, PreRun, JobOf
  <2>6. at'[t].pc \in Past => at[t].pc \in Past
    BY <1>1, <1>3 DEF Past, PreRun
  <2>7. Grows
    BY <1>2 DEF Grows
  <2> QED
    BY <1>1, <1>2, <1>3, <2>1, <2>2, <2>4, <2>5, <2>6, <2>7, OneSplitFrom
<1> QED
  BY <1>3, <1>4, <1>5, <1>6, <1>7, <1>8, InvFrom

LEMMA ProcessLateKeeps ==
  ASSUME Inv, NEW t \in Threads, ProcessGuard(t), ~Running PROVE Inv'
<1>1. TypeOK /\ JobOf(t) /\ VersionsOf(t) /\ at[t].pc = "running"
  BY DEF Inv, ProcessGuard
<1>2. UNCHANGED <<doc, chunks, staged, run, pending, request, old, count>>
  BY DEF ProcessGuard
<1>3. /\ at' \in [Threads -> Tasks] /\ Others(t)
      /\ at'[t].pc = "idle" /\ at'[t].job = "none" /\ at'[t].v = None
      /\ at'[t].bad = FALSE /\ at'[t].won = FALSE
  <2>1. Return(t)
    BY DEF ProcessGuard
  <2> QED
    BY <1>1, <2>1, ReturnIs
<1>4. TypeOK'
  BY <1>1, <1>2, <1>3, TypedIs, TypedNext
<1>5. JobOf(t)' /\ VersionsOf(t)'
  BY <1>1, <1>2, <1>3 DEF JobOf, VersionsOf, Past, PreRun
<1>6. count.events <= count'.events
  BY <1>1, <1>2, CountsTyped
<1>7. doc'.content <= count'.events /\ Asked' /\ Unmoved'
  BY <1>2, <1>4, <1>6, RequestSame
<1>8. ASSUME count'.splits <= 1 PROVE OneSplit'
  <2>1. count'.splits = count.splits /\ count.splits \in Nat
    BY <1>1, <1>2, CountsTyped
  <2>2. OneSplit /\ \A u \in Threads : JobOf(u)
    BY <1>8, <2>1 DEF Inv
  <2>3. Gate /\ ThreadOf(t) /\ Alone
    BY <2>2 DEF OneSplit
  <2>4. Gate'
    BY <1>2, <2>3 DEF Gate, Whole, Complete, Accounted
  <2>5. ThreadOf(t)'
    BY <1>3, NoneJob DEF ThreadOf, PreRun
  <2>6. at'[t].pc \in Past => at[t].pc \in Past
    BY <1>1, <1>3 DEF Past, PreRun
  <2>7. Grows
    BY <1>2 DEF Grows
  <2> QED
    BY <1>1, <1>2, <1>3, <2>1, <2>2, <2>4, <2>5, <2>6, <2>7, OneSplitFrom
<1> QED
  BY <1>3, <1>4, <1>5, <1>6, <1>7, <1>8, InvFrom

LEMMA ProcessGuardKeeps ==
  ASSUME Inv, NEW t \in Threads, ProcessGuard(t) PROVE Inv'
BY ProcessGoesKeeps, ProcessLateKeeps

LEMMA ProcessWriteKeeps ==
  ASSUME Inv, NEW t \in Threads, ProcessWrite(t) PROVE Inv'
<1>1. TypeOK /\ JobOf(t) /\ VersionsOf(t) /\ at[t].pc = "write"
  BY DEF Inv, ProcessWrite
<1>2. UNCHANGED <<doc, staged, run, pending, request, old, count>>
  BY DEF ProcessWrite
<1>c. /\ chunks' \in Rows /\ chunks'[at[t].job] # None
      /\ \A b \in Batches : chunks[b] # None => chunks'[b] # None
  <2>1. chunks \in Rows /\ at[t].job \in Batches
    BY <1>1, TypedIs DEF JobOf
  <2>2. at[t].v \in Versions /\ at[t].v # None
    BY <1>1, ThreadsTyped DEF VersionsOf, Seen
  <2>3. chunks' = [chunks EXCEPT ![at[t].job] = IF chunks[at[t].job] = None THEN at[t].v
                                                 ELSE chunks[at[t].job]]
    BY DEF ProcessWrite
  <2> QED
    BY <2>1, <2>2, <2>3 DEF Rows
<1>3. /\ at' \in [Threads -> Tasks] /\ Others(t)
      /\ at'[t].pc = "counted" /\ at'[t].job = at[t].job /\ at'[t].v = at[t].v
      /\ at'[t].bad = at[t].bad /\ at'[t].won = at[t].won
  <2>1. Goto(t, "counted") /\ "counted" \in Pcs
    BY DEF ProcessWrite, Pcs
  <2> QED
    BY <1>1, <2>1, GotoIs
<1>4. TypeOK'
  BY <1>1, <1>2, <1>3, <1>c, TypedIs, TypedNext
<1>5. JobOf(t)' /\ VersionsOf(t)'
  BY <1>1, <1>2, <1>3, <1>c DEF JobOf, VersionsOf, Past, PreRun
<1>6. count.events <= count'.events
  BY <1>1, <1>2, <1>c, CountsTyped
<1>7. doc'.content <= count'.events /\ Asked' /\ Unmoved'
  BY <1>2, <1>4, <1>6, RequestSame
<1>8. ASSUME count'.splits <= 1 PROVE OneSplit'
  <2>1. count'.splits = count.splits /\ count.splits \in Nat
    BY <1>1, <1>2, <1>c, CountsTyped
  <2>2. OneSplit /\ \A u \in Threads : JobOf(u)
    BY <1>8, <2>1 DEF Inv
  <2>3. Gate /\ ThreadOf(t) /\ Alone
    BY <2>2 DEF OneSplit
  <2>4. Gate'
    <3>1. run.done \subseteq Batches
      BY <1>1, TypedIs DEF Runs
    <3>2. Whole => Whole'
      BY <1>c DEF Whole
    <3> QED
      BY <1>2, <1>c, <2>3, <3>1, <3>2 DEF Gate, Complete, Accounted
  <2>5. ThreadOf(t)'
    BY <1>1, <1>2, <1>3, <1>c, <2>3, NamesApart DEF ThreadOf, Complete, Accounted, PreRun, JobOf
  <2>6. at'[t].pc \in Past => at[t].pc \in Past
    BY <1>1, <1>3 DEF Past, PreRun
  <2>7. Grows
    BY <1>2 DEF Grows
  <2> QED
    BY <1>1, <1>2, <1>3, <1>c, <2>1, <2>2, <2>4, <2>5, <2>6, <2>7, OneSplitFrom
<1> QED
  BY <1>3, <1>4, <1>5, <1>6, <1>7, <1>8, InvFrom

LEMMA CountedAgainKeeps ==
  ASSUME Inv, NEW t \in Threads, ProcessCounted(t), at[t].job \in run.done PROVE Inv'
<1>1. TypeOK /\ JobOf(t) /\ VersionsOf(t) /\ at[t].pc = "counted"
  BY DEF Inv, ProcessCounted
<1>2. UNCHANGED <<doc, chunks, staged, run, pending, request, old, count>>
  BY DEF ProcessCounted
<1>3. /\ at' \in [Threads -> Tasks] /\ Others(t)
      /\ at'[t].pc = "gate" /\ at'[t].job = at[t].job /\ at'[t].v = at[t].v
      /\ at'[t].bad = at[t].bad /\ at'[t].won = at[t].won
  <2>1. Goto(t, "gate") /\ "gate" \in Pcs
    BY DEF ProcessCounted, Pcs
  <2> QED
    BY <1>1, <2>1, GotoIs
<1>4. TypeOK'
  BY <1>1, <1>2, <1>3, TypedIs, TypedNext
<1>5. JobOf(t)' /\ VersionsOf(t)'
  BY <1>1, <1>2, <1>3 DEF JobOf, VersionsOf, Past, PreRun
<1>6. count.events <= count'.events
  BY <1>1, <1>2, CountsTyped
<1>7. doc'.content <= count'.events /\ Asked' /\ Unmoved'
  BY <1>2, <1>4, <1>6, RequestSame
<1>8. ASSUME count'.splits <= 1 PROVE OneSplit'
  <2>1. count'.splits = count.splits /\ count.splits \in Nat
    BY <1>1, <1>2, CountsTyped
  <2>2. OneSplit /\ \A u \in Threads : JobOf(u)
    BY <1>8, <2>1 DEF Inv
  <2>3. Gate /\ ThreadOf(t) /\ Alone
    BY <2>2 DEF OneSplit
  <2>4. Gate'
    BY <1>2, <2>3 DEF Gate, Whole, Complete, Accounted
  <2>5. ThreadOf(t)'
    BY <1>1, <1>2, <1>3, <2>3, NamesApart DEF ThreadOf, Complete, Accounted, PreRun, JobOf
  <2>6. at'[t].pc \in Past => at[t].pc \in Past
    BY <1>1, <1>3 DEF Past, PreRun
  <2>7. Grows
    BY <1>2 DEF Grows
  <2> QED
    BY <1>1, <1>2, <1>3, <2>1, <2>2, <2>4, <2>5, <2>6, <2>7, OneSplitFrom
<1> QED
  BY <1>3, <1>4, <1>5, <1>6, <1>7, <1>8, InvFrom

LEMMA CountedFirstKeeps ==
  ASSUME Inv, NEW t \in Threads, ProcessCounted(t), at[t].job \notin run.done PROVE Inv'
<1>1. TypeOK /\ JobOf(t) /\ VersionsOf(t) /\ at[t].pc = "counted"
  BY DEF Inv, ProcessCounted
<1>2. UNCHANGED <<doc, chunks, staged, run, pending, request, old, count>>
  BY DEF ProcessCounted
<1>3. /\ at' \in [Threads -> Tasks] /\ Others(t)
      /\ at'[t].pc = "stage" /\ at'[t].job = at[t].job /\ at'[t].v = at[t].v
      /\ at'[t].bad = at[t].bad /\ at'[t].won = at[t].won
  <2>1. Goto(t, "stage") /\ "stage" \in Pcs
    BY DEF ProcessCounted, Pcs
  <2> QED
    BY <1>1, <2>1, GotoIs
<1>4. TypeOK'
  BY <1>1, <1>2, <1>3, TypedIs, TypedNext
<1>5. JobOf(t)' /\ VersionsOf(t)'
  BY <1>1, <1>2, <1>3 DEF JobOf, VersionsOf, Past, PreRun
<1>6. count.events <= count'.events
  BY <1>1, <1>2, CountsTyped
<1>7. doc'.content <= count'.events /\ Asked' /\ Unmoved'
  BY <1>2, <1>4, <1>6, RequestSame
<1>8. ASSUME count'.splits <= 1 PROVE OneSplit'
  <2>1. count'.splits = count.splits /\ count.splits \in Nat
    BY <1>1, <1>2, CountsTyped
  <2>2. OneSplit /\ \A u \in Threads : JobOf(u)
    BY <1>8, <2>1 DEF Inv
  <2>3. Gate /\ ThreadOf(t) /\ Alone
    BY <2>2 DEF OneSplit
  <2>4. Gate'
    BY <1>2, <2>3 DEF Gate, Whole, Complete, Accounted
  <2>5. ThreadOf(t)'
    BY <1>1, <1>2, <1>3, <2>3, NamesApart DEF ThreadOf, Complete, Accounted, PreRun, JobOf
  <2>6. at'[t].pc \in Past => at[t].pc \in Past
    BY <1>1, <1>3 DEF Past, PreRun
  <2>7. Grows
    BY <1>2 DEF Grows
  <2> QED
    BY <1>1, <1>2, <1>3, <2>1, <2>2, <2>4, <2>5, <2>6, <2>7, OneSplitFrom
<1> QED
  BY <1>3, <1>4, <1>5, <1>6, <1>7, <1>8, InvFrom

LEMMA ProcessCountedKeeps ==
  ASSUME Inv, NEW t \in Threads, ProcessCounted(t) PROVE Inv'
BY CountedAgainKeeps, CountedFirstKeeps

LEMMA ProcessStageKeeps ==
  ASSUME Inv, NEW t \in Threads, ProcessStage(t) PROVE Inv'
<1>1. TypeOK /\ JobOf(t) /\ VersionsOf(t) /\ at[t].pc = "stage"
  BY DEF Inv, ProcessStage
<1>2. UNCHANGED <<doc, chunks, run, pending, request, old, count>>
  BY DEF ProcessStage
<1>c. staged' \in Rows
  <2>1. staged \in Rows /\ at[t].job \in Batches /\ at[t].v \in Seen
    BY <1>1, TypedIs, ThreadsTyped DEF JobOf
  <2>2. staged' = [staged EXCEPT ![at[t].job] = at[t].v]
    BY DEF ProcessStage
  <2> QED
    BY <2>1, <2>2 DEF Rows, Seen
<1>3. /\ at' \in [Threads -> Tasks] /\ Others(t)
      /\ at'[t].pc = "done" /\ at'[t].job = at[t].job /\ at'[t].v = at[t].v
      /\ at'[t].bad = at[t].bad /\ at'[t].won = at[t].won
  <2>1. Goto(t, "done") /\ "done" \in Pcs
    BY DEF ProcessStage, Pcs
  <2> QED
    BY <1>1, <2>1, GotoIs
<1>4. TypeOK'
  BY <1>1, <1>2, <1>3, <1>c, TypedIs, TypedNext
<1>5. JobOf(t)' /\ VersionsOf(t)'
  BY <1>1, <1>2, <1>3, <1>c DEF JobOf, VersionsOf, Past, PreRun
<1>6. count.events <= count'.events
  BY <1>1, <1>2, <1>c, CountsTyped
<1>7. doc'.content <= count'.events /\ Asked' /\ Unmoved'
  BY <1>2, <1>4, <1>6, RequestSame
<1>8. ASSUME count'.splits <= 1 PROVE OneSplit'
  <2>1. count'.splits = count.splits /\ count.splits \in Nat
    BY <1>1, <1>2, <1>c, CountsTyped
  <2>2. OneSplit /\ \A u \in Threads : JobOf(u)
    BY <1>8, <2>1 DEF Inv
  <2>3. Gate /\ ThreadOf(t) /\ Alone
    BY <2>2 DEF OneSplit
  <2>4. Gate'
    BY <1>2, <2>3 DEF Gate, Whole, Complete, Accounted
  <2>5. ThreadOf(t)'
    BY <1>1, <1>2, <1>3, <2>3, NamesApart DEF ThreadOf, Complete, Accounted, PreRun, JobOf, Whole
  <2>6. at'[t].pc \in Past => at[t].pc \in Past
    BY <1>1, <1>3 DEF Past, PreRun
  <2>7. Grows
    BY <1>2 DEF Grows
  <2> QED
    BY <1>1, <1>2, <1>3, <1>c, <2>1, <2>2, <2>4, <2>5, <2>6, <2>7, OneSplitFrom
<1> QED
  BY <1>3, <1>4, <1>5, <1>6, <1>7, <1>8, InvFrom

LEMMA MarkDoneKeeps ==
  ASSUME Inv, NEW t \in Threads, MarkDone(t) PROVE Inv'
<1>1. TypeOK /\ JobOf(t) /\ VersionsOf(t) /\ at[t].pc = "done"
  BY DEF Inv, MarkDone
<1>2. UNCHANGED <<doc, chunks, staged, pending, request, count>>
  BY DEF MarkDone
<1>c. /\ run' \in Runs /\ run'.status = run.status /\ run'.finalized = run.finalized
      /\ run'.failed = run.failed /\ run'.done \subseteq run.done \cup {at[t].job}
      /\ (Complete(run) => Complete(run')) /\ old' \subseteq {"run", "doc"}
      /\ at' \in [Threads -> Tasks] /\ Others(t) /\ at'[t].pc = "gate" /\ at'[t].job = at[t].job
      /\ at'[t].v = at[t].v /\ at'[t].bad = at[t].bad /\ at'[t].won = at[t].won
  <2>0. run \in Runs /\ at \in [Threads -> Tasks] /\ at[t] \in Tasks /\ at[t].job \in Batches
    BY <1>1, TypedIs DEF JobOf
  <2>1. CASE at[t].job \in run.done
    <3>1. Goto(t, "gate") /\ "gate" \in Pcs /\ run' = run /\ old' = old
      BY <2>1 DEF MarkDone, Pcs
    <3> QED
      BY <1>1, <2>0, <3>1, GotoIs, TypedIs DEF Runs, Complete, Accounted
  <2>2. CASE at[t].job \notin run.done
    <3> DEFINE a == [at EXCEPT ![t].pc = "gate"]
               r == WithDone(run, at[t].job)
    <3>1. RunWritten(r, a)
      BY <2>2 DEF MarkDone
    <3>2. /\ r \in Runs /\ r.status = run.status /\ r.finalized = run.finalized
          /\ r.failed = run.failed /\ r.done = run.done \cup {at[t].job}
      BY <2>0 DEF WithDone, Runs
    <3>3. /\ a \in [Threads -> Tasks] /\ a[t].pc = "gate" /\ a[t].job = at[t].job
          /\ a[t].v = at[t].v
          /\ a[t].bad = at[t].bad /\ a[t].won = at[t].won
          /\ \A u \in Threads \ {t} : a[u] = at[u]
      BY <2>0 DEF Tasks, Pcs
    <3> HIDE DEF a, r
    <3>4. /\ run' = r /\ old' \subseteq {"run", "doc"} /\ at' \in [Threads -> Tasks]
          /\ \A u \in Threads : /\ at'[u].pc = a[u].pc /\ at'[u].job = a[u].job /\ at'[u].v = a[u].v
                                /\ at'[u].bad = a[u].bad /\ at'[u].won = a[u].won
      BY <1>1, <3>1, <3>2, <3>3, RunWrittenIs
    <3>5. Others(t)
      BY <3>3, <3>4 DEF Others, Same
    <3>6. Complete(run) => Complete(run')
      BY <2>0, <3>2, <3>4 DEF Complete, Accounted, Runs
    <3> QED
      BY <2>0, <3>2, <3>3, <3>4, <3>5, <3>6
  <2> QED
    BY <2>1, <2>2
<1>3. /\ at' \in [Threads -> Tasks] /\ Others(t)
      /\ at'[t].pc = "gate" /\ at'[t].job = at[t].job /\ at'[t].v = at[t].v
      /\ at'[t].bad = at[t].bad /\ at'[t].won = at[t].won
  BY <1>c
<1>4. TypeOK'
  BY <1>1, <1>2, <1>3, <1>c, TypedIs, TypedNext
<1>5. JobOf(t)' /\ VersionsOf(t)'
  BY <1>1, <1>2, <1>3, <1>c DEF JobOf, VersionsOf, Past, PreRun
<1>6. count.events <= count'.events
  BY <1>1, <1>2, <1>c, CountsTyped
<1>7. doc'.content <= count'.events /\ Asked' /\ Unmoved'
  BY <1>2, <1>4, <1>6, RequestSame
<1>8. ASSUME count'.splits <= 1 PROVE OneSplit'
  <2>1. count'.splits = count.splits /\ count.splits \in Nat
    BY <1>1, <1>2, <1>c, CountsTyped
  <2>2. OneSplit /\ \A u \in Threads : JobOf(u)
    BY <1>8, <2>1 DEF Inv
  <2>3. Gate /\ ThreadOf(t) /\ Alone
    BY <2>2 DEF OneSplit
  <2>4. Gate'
    <3>1. at[t].job \in Batches /\ chunks[at[t].job] # None /\ run.status # "none"
      BY <1>1, <2>3 DEF JobOf, ThreadOf
    <3>2. \A b \in run'.done : chunks[b] # None
      BY <1>c, <2>3, <3>1 DEF Gate
    <3> QED
      BY <1>2, <1>c, <2>1, <2>3, <3>1, <3>2 DEF Gate, Whole
  <2>5. ThreadOf(t)'
    BY <1>1, <1>2, <1>3, <1>c, <2>3, NamesApart DEF ThreadOf, PreRun, JobOf
  <2>6. at'[t].pc \in Past => at[t].pc \in Past
    BY <1>1, <1>3 DEF Past, PreRun
  <2>7. Grows
    BY <1>c DEF Grows
  <2> QED
    BY <1>1, <1>2, <1>3, <1>c, <2>1, <2>2, <2>4, <2>5, <2>6, <2>7, OneSplitFrom
<1> QED
  BY <1>3, <1>4, <1>5, <1>6, <1>7, <1>8, InvFrom

-----------------------------------------------------------------------------
(* The gate and the finalize job                                            *)

LEMMA ClaimLateKeeps ==
  ASSUME Inv, NEW t \in Threads, ClaimRead(t), run.finalized \/ ~Complete(run) PROVE Inv'
<1>1. TypeOK /\ JobOf(t) /\ VersionsOf(t) /\ at[t].pc = "gate"
  BY DEF Inv, ClaimRead
<1>2. UNCHANGED <<doc, chunks, staged, run, pending, request, old, count>>
  BY DEF ClaimRead
<1>3. /\ at' \in [Threads -> Tasks] /\ Others(t)
      /\ at'[t].pc = "claimed" /\ at'[t].job = at[t].job /\ at'[t].v = at[t].v
      /\ at'[t].bad = at[t].bad /\ at'[t].won = at[t].won
  <2> DEFINE x == [at[t] EXCEPT !.pc = "claimed"]
  <2>1. /\ at[t] \in Tasks /\ at \in [Threads -> Tasks] /\ doc.content \in Seen
        /\ doc.text \in Rows /\ staged \in Rows
    BY <1>1, TypedIs DEF Docs, Seen
  <2>2. at' = [at EXCEPT ![t] = x]
    BY <2>1 DEF ClaimRead
  <2>3. /\ x \in Tasks
        /\ x.pc = "claimed" /\ x.job = at[t].job /\ x.v = at[t].v
        /\ x.bad = at[t].bad /\ x.won = at[t].won
    BY <2>1 DEF Tasks, Pcs
  <2> HIDE DEF x
  <2>4. at' \in [Threads -> Tasks] /\ Others(t) /\ at'[t] = x
    BY <1>1, <2>2, <2>3, ReplacedIs
  <2> QED
    BY <2>3, <2>4
<1>4. TypeOK'
  BY <1>1, <1>2, <1>3, TypedIs, TypedNext
<1>5. JobOf(t)' /\ VersionsOf(t)'
  BY <1>1, <1>2, <1>3 DEF JobOf, VersionsOf, Past, PreRun
<1>6. count.events <= count'.events
  BY <1>1, <1>2, CountsTyped
<1>7. doc'.content <= count'.events /\ Asked' /\ Unmoved'
  BY <1>2, <1>4, <1>6, RequestSame
<1>8. ASSUME count'.splits <= 1 PROVE OneSplit'
  <2>1. count'.splits = count.splits /\ count.splits \in Nat
    BY <1>1, <1>2, CountsTyped
  <2>2. OneSplit /\ \A u \in Threads : JobOf(u)
    BY <1>8, <2>1 DEF Inv
  <2>3. Gate /\ ThreadOf(t) /\ Alone
    BY <2>2 DEF OneSplit
  <2>4. Gate'
    BY <1>2, <2>3 DEF Gate, Whole, Complete, Accounted
  <2>5. ThreadOf(t)'
    <3>1. at[t].won => run.finalized /\ Complete(run)
      BY <2>3 DEF ThreadOf, Gate
    <3>2. /\ at[t].job \in Batches \cup {"runs"} /\ run.status # "none"
          /\ at[t].job = "runs" /\ at[t].bad => run.finalized
      BY <1>1, <2>3 DEF ThreadOf, JobOf
    <3> QED
      BY <1>2, <1>3, <3>1, <3>2, NamesApart DEF ThreadOf, Complete, Accounted, PreRun
  <2>6. at'[t].pc \in Past => at[t].pc \in Past
    BY <1>1, <1>3 DEF Past, PreRun
  <2>7. Grows
    BY <1>2 DEF Grows
  <2> QED
    BY <1>1, <1>2, <1>3, <2>1, <2>2, <2>4, <2>5, <2>6, <2>7, OneSplitFrom
<1> QED
  BY <1>3, <1>4, <1>5, <1>6, <1>7, <1>8, InvFrom

LEMMA ClaimFirstKeeps ==
  ASSUME Inv, NEW t \in Threads, ClaimRead(t), ~(run.finalized \/ ~Complete(run)) PROVE Inv'
<1>1. TypeOK /\ JobOf(t) /\ VersionsOf(t) /\ at[t].pc = "gate"
  BY DEF Inv, ClaimRead
<1>2. UNCHANGED <<doc, chunks, staged, run, pending, request, old, count>>
  BY DEF ClaimRead
<1>3. /\ at' \in [Threads -> Tasks] /\ Others(t)
      /\ at'[t].pc = "flag" /\ at'[t].job = at[t].job /\ at'[t].v = at[t].v
      /\ at'[t].bad = at[t].bad /\ at'[t].won = TRUE
  <2> DEFINE x == [at[t] EXCEPT !.pc = "flag", !.won = TRUE, !.fresh = TRUE]
  <2>1. /\ at[t] \in Tasks /\ at \in [Threads -> Tasks] /\ doc.content \in Seen
        /\ doc.text \in Rows /\ staged \in Rows
    BY <1>1, TypedIs DEF Docs, Seen
  <2>2. at' = [at EXCEPT ![t] = x]
    BY <2>1 DEF ClaimRead
  <2>3. /\ x \in Tasks
        /\ x.pc = "flag" /\ x.job = at[t].job /\ x.v = at[t].v
        /\ x.bad = at[t].bad /\ x.won = TRUE
    BY <2>1 DEF Tasks, Pcs
  <2> HIDE DEF x
  <2>4. at' \in [Threads -> Tasks] /\ Others(t) /\ at'[t] = x
    BY <1>1, <2>2, <2>3, ReplacedIs
  <2> QED
    BY <2>3, <2>4
<1>4. TypeOK'
  BY <1>1, <1>2, <1>3, TypedIs, TypedNext
<1>5. JobOf(t)' /\ VersionsOf(t)'
  BY <1>1, <1>2, <1>3 DEF JobOf, VersionsOf, Past, PreRun
<1>6. count.events <= count'.events
  BY <1>1, <1>2, CountsTyped
<1>7. doc'.content <= count'.events /\ Asked' /\ Unmoved'
  BY <1>2, <1>4, <1>6, RequestSame
<1>8. ASSUME count'.splits <= 1 PROVE OneSplit'
  <2>1. count'.splits = count.splits /\ count.splits \in Nat
    BY <1>1, <1>2, CountsTyped
  <2>2. OneSplit /\ \A u \in Threads : JobOf(u)
    BY <1>8, <2>1 DEF Inv
  <2>3. Gate /\ ThreadOf(t) /\ Alone
    BY <2>2 DEF OneSplit
  <2>4. Gate'
    BY <1>2, <2>3 DEF Gate, Whole, Complete, Accounted
  <2>5. ThreadOf(t)'
    <3>1. Complete(run)
      OBVIOUS
    <3>2. /\ at[t].job \in Batches \cup {"runs"} /\ run.status # "none"
          /\ at[t].job = "runs" /\ at[t].bad => run.finalized
      BY <1>1, <2>3 DEF ThreadOf, JobOf
    <3> QED
      BY <1>2, <1>3, <3>1, <3>2, NamesApart DEF ThreadOf, Complete, Accounted, PreRun
  <2>6. at'[t].pc \in Past => at[t].pc \in Past
    BY <1>1, <1>3 DEF Past, PreRun
  <2>7. Grows
    BY <1>2 DEF Grows
  <2> QED
    BY <1>1, <1>2, <1>3, <2>1, <2>2, <2>4, <2>5, <2>6, <2>7, OneSplitFrom
<1> QED
  BY <1>3, <1>4, <1>5, <1>6, <1>7, <1>8, InvFrom

LEMMA ClaimReadKeeps ==
  ASSUME Inv, NEW t \in Threads, ClaimRead(t) PROVE Inv'
BY ClaimLateKeeps, ClaimFirstKeeps

LEMMA ClaimWinsKeeps ==
  ASSUME Inv, NEW t \in Threads, ClaimWrite(t), at[t].fresh PROVE Inv'
<1>1. TypeOK /\ JobOf(t) /\ VersionsOf(t) /\ at[t].pc = "flag"
  BY DEF Inv, ClaimWrite
<1>2. UNCHANGED <<doc, chunks, staged, pending, request, count>>
  BY DEF ClaimWrite
<1>c. /\ run' \in Runs /\ run'.status = run.status /\ run'.finalized = TRUE
      /\ run'.done = run.done /\ run'.failed = run.failed /\ old' \subseteq {"run", "doc"}
      /\ at' \in [Threads -> Tasks] /\ Others(t)
      /\ at'[t].pc = "claimed" /\ at'[t].job = at[t].job /\ at'[t].v = at[t].v
      /\ at'[t].bad = at[t].bad /\ at'[t].won = at[t].won
  <2>0. run \in Runs /\ at \in [Threads -> Tasks] /\ at[t] \in Tasks
    BY <1>1, TypedIs
  <2> DEFINE a == [at EXCEPT ![t].pc = "claimed"]
             r == [run EXCEPT !.finalized = TRUE]
  <2>1. RunWritten(r, a)
    BY DEF ClaimWrite
  <2>2. /\ r \in Runs /\ r.status = run.status /\ r.finalized = TRUE /\ r.done = run.done
        /\ r.failed = run.failed
    BY <2>0 DEF Runs
  <2>3. /\ a \in [Threads -> Tasks]
        /\ a[t].pc = "claimed" /\ a[t].job = at[t].job /\ a[t].v = at[t].v
        /\ a[t].bad = at[t].bad /\ a[t].won = at[t].won
        /\ \A u \in Threads \ {t} : a[u] = at[u]
    BY <2>0, IdleType DEF Tasks, Pcs
  <2> HIDE DEF a, r
  <2>4. /\ run' = r /\ old' \subseteq {"run", "doc"} /\ at' \in [Threads -> Tasks]
        /\ \A u \in Threads : /\ at'[u].pc = a[u].pc /\ at'[u].job = a[u].job /\ at'[u].v = a[u].v
                              /\ at'[u].bad = a[u].bad /\ at'[u].won = a[u].won
    BY <1>1, <2>1, <2>2, <2>3, RunWrittenIs
  <2>5. Others(t)
    BY <2>3, <2>4 DEF Others, Same
  <2> QED
    BY <2>2, <2>3, <2>4, <2>5
<1>3. /\ at' \in [Threads -> Tasks] /\ Others(t)
      /\ at'[t].pc = "claimed" /\ at'[t].job = at[t].job /\ at'[t].v = at[t].v
      /\ at'[t].bad = at[t].bad /\ at'[t].won = at[t].won
  BY <1>c
<1>4. TypeOK'
  BY <1>1, <1>2, <1>3, <1>c, TypedIs, TypedNext
<1>5. JobOf(t)' /\ VersionsOf(t)'
  BY <1>1, <1>2, <1>3, <1>c DEF JobOf, VersionsOf, Past, PreRun
<1>6. count.events <= count'.events
  BY <1>1, <1>2, <1>c, CountsTyped
<1>7. doc'.content <= count'.events /\ Asked' /\ Unmoved'
  BY <1>2, <1>4, <1>6, RequestSame
<1>8. ASSUME count'.splits <= 1 PROVE OneSplit'
  <2>1. count'.splits = count.splits /\ count.splits \in Nat
    BY <1>1, <1>2, <1>c, CountsTyped
  <2>2. OneSplit /\ \A u \in Threads : JobOf(u)
    BY <1>8, <2>1 DEF Inv
  <2>3. Gate /\ ThreadOf(t) /\ Alone
    BY <2>2 DEF OneSplit
  <2>4. Gate'
    <3>1. run.status # "none" /\ Complete(run)
      BY <1>1, <2>3 DEF ThreadOf
    <3>2. Complete(run')
      BY <1>c, <3>1 DEF Complete, Accounted
    <3> QED
      BY <1>2, <1>c, <2>1, <2>3, <3>1, <3>2 DEF Gate, Whole
  <2>5. ThreadOf(t)'
    <3>1. run.status # "none" /\ Complete(run) /\ at[t].job \in Batches \cup {"runs"}
      BY <1>1, <2>3 DEF ThreadOf, JobOf
    <3>2. Complete(run')
      BY <1>c, <3>1 DEF Complete, Accounted
    <3> QED
      BY <1>3, <1>c, <3>1, <3>2, NamesApart DEF ThreadOf, PreRun
  <2>6. at'[t].pc \in Past => at[t].pc \in Past
    BY <1>1, <1>3 DEF Past, PreRun
  <2>7. Grows
    BY <1>c DEF Grows, Complete, Accounted
  <2> QED
    BY <1>1, <1>2, <1>3, <1>c, <2>1, <2>2, <2>4, <2>5, <2>6, <2>7, OneSplitFrom
<1> QED
  BY <1>3, <1>4, <1>5, <1>6, <1>7, <1>8, InvFrom

LEMMA ClaimRefusedKeeps ==
  ASSUME Inv, NEW t \in Threads, ClaimWrite(t), ~at[t].fresh PROVE Inv'
<1>1. TypeOK /\ JobOf(t) /\ VersionsOf(t) /\ at[t].pc = "flag"
  BY DEF Inv, ClaimWrite
<1>2. UNCHANGED <<doc, chunks, staged, run, pending, request, old, count>>
  BY DEF ClaimWrite
<1>3. /\ at' \in [Threads -> Tasks] /\ Others(t)
      /\ at'[t].pc = "gate" /\ at'[t].job = at[t].job /\ at'[t].v = at[t].v
      /\ at'[t].bad = at[t].bad /\ at'[t].won = at[t].won
  <2>1. Goto(t, "gate") /\ "gate" \in Pcs
    BY DEF ClaimWrite, Pcs
  <2> QED
    BY <1>1, <2>1, GotoIs
<1>4. TypeOK'
  BY <1>1, <1>2, <1>3, TypedIs, TypedNext
<1>5. JobOf(t)' /\ VersionsOf(t)'
  BY <1>1, <1>2, <1>3 DEF JobOf, VersionsOf, Past, PreRun
<1>6. count.events <= count'.events
  BY <1>1, <1>2, CountsTyped
<1>7. doc'.content <= count'.events /\ Asked' /\ Unmoved'
  BY <1>2, <1>4, <1>6, RequestSame
<1>8. ASSUME count'.splits <= 1 PROVE OneSplit'
  <2>1. count'.splits = count.splits /\ count.splits \in Nat
    BY <1>1, <1>2, CountsTyped
  <2>2. OneSplit /\ \A u \in Threads : JobOf(u)
    BY <1>8, <2>1 DEF Inv
  <2>3. Gate /\ ThreadOf(t) /\ Alone
    BY <2>2 DEF OneSplit
  <2>4. Gate'
    BY <1>2, <2>3 DEF Gate, Whole, Complete, Accounted
  <2>5. ThreadOf(t)'
    BY <1>1, <1>2, <1>3, <2>3, NamesApart DEF ThreadOf, Complete, Accounted, PreRun, JobOf, Gate
  <2>6. at'[t].pc \in Past => at[t].pc \in Past
    BY <1>1, <1>3 DEF Past, PreRun
  <2>7. Grows
    BY <1>2 DEF Grows
  <2> QED
    BY <1>1, <1>2, <1>3, <2>1, <2>2, <2>4, <2>5, <2>6, <2>7, OneSplitFrom
<1> QED
  BY <1>3, <1>4, <1>5, <1>6, <1>7, <1>8, InvFrom

LEMMA ClaimWriteKeeps ==
  ASSUME Inv, NEW t \in Threads, ClaimWrite(t) PROVE Inv'
BY ClaimWinsKeeps, ClaimRefusedKeeps

LEMMA EnqueueFinalizeKeeps ==
  ASSUME Inv, NEW t \in Threads, EnqueueFinalize(t) PROVE Inv'
<1>1. TypeOK /\ JobOf(t) /\ VersionsOf(t) /\ at[t].pc = "claimed"
  BY DEF Inv, EnqueueFinalize
<1>2. UNCHANGED <<doc, chunks, staged, run, request, old, count>>
  BY DEF EnqueueFinalize
<1>c. /\ pending' \in [Jobs -> 0 .. MaxPending]
      /\ \A k \in Jobs \ {"finalize"} : pending'[k] = pending[k]
      /\ SendsFinalize(at[t]) \/ pending' = pending
  <2>1. CASE SendsFinalize(at[t])
    <3>1. Add("finalize") /\ "finalize" \in Jobs
      BY <2>1 DEF EnqueueFinalize, Jobs
    <3> QED
      BY <1>1, <2>1, <3>1, AddIs
  <2>2. CASE ~SendsFinalize(at[t])
    <3>1. pending' = pending
      BY <2>2 DEF EnqueueFinalize
    <3> QED
      BY <1>1, <3>1, TypedIs
  <2> QED
    BY <2>1, <2>2
<1>3. /\ at' \in [Threads -> Tasks] /\ Others(t)
      /\ at'[t].pc = "idle" /\ at'[t].job = "none" /\ at'[t].v = None
      /\ at'[t].bad = FALSE /\ at'[t].won = FALSE
  <2>1. Return(t)
    BY DEF EnqueueFinalize
  <2> QED
    BY <1>1, <2>1, ReturnIs
<1>4. TypeOK'
  BY <1>1, <1>2, <1>3, <1>c, TypedIs, TypedNext
<1>5. JobOf(t)' /\ VersionsOf(t)'
  BY <1>1, <1>2, <1>3, <1>c DEF JobOf, VersionsOf, Past, PreRun
<1>6. count.events <= count'.events
  BY <1>1, <1>2, <1>c, CountsTyped
<1>7. doc'.content <= count'.events /\ Asked' /\ Unmoved'
  BY <1>2, <1>4, <1>6, RequestSame
<1>8. ASSUME count'.splits <= 1 PROVE OneSplit'
  <2>1. count'.splits = count.splits /\ count.splits \in Nat
    BY <1>1, <1>2, <1>c, CountsTyped
  <2>2. OneSplit /\ \A u \in Threads : JobOf(u)
    BY <1>8, <2>1 DEF Inv
  <2>3. Gate /\ ThreadOf(t) /\ Alone
    BY <2>2 DEF OneSplit
  <2>4. Gate'
    <3>1. SendsFinalize(at[t]) => run.finalized
      BY <1>1, <2>3 DEF ThreadOf, SendsFinalize
    <3>2. run.status # "none"
      BY <1>1, <2>3 DEF ThreadOf
    <3> QED
      BY <1>2, <1>c, <2>3, <3>1, <3>2 DEF Gate, Complete, Accounted, Whole
  <2>5. ThreadOf(t)'
    BY <1>3, NoneJob DEF ThreadOf, PreRun
  <2>6. at'[t].pc \in Past => at[t].pc \in Past
    BY <1>1, <1>3 DEF Past, PreRun
  <2>7. Grows
    BY <1>2 DEF Grows
  <2> QED
    BY <1>1, <1>2, <1>3, <1>c, <2>1, <2>2, <2>4, <2>5, <2>6, <2>7, OneSplitFrom
<1> QED
  BY <1>3, <1>4, <1>5, <1>6, <1>7, <1>8, InvFrom

LEMMA FinalizeGoesKeeps ==
  ASSUME Inv, NEW t \in Threads, FinalizeGuard(t), Running PROVE Inv'
<1>1. TypeOK /\ JobOf(t) /\ VersionsOf(t) /\ at[t].pc = "guard"
  BY DEF Inv, FinalizeGuard
<1>2. UNCHANGED <<doc, chunks, staged, run, pending, request, old, count>>
  BY DEF FinalizeGuard
<1>3. /\ at' \in [Threads -> Tasks] /\ Others(t)
      /\ at'[t].pc = "read" /\ at'[t].job = at[t].job /\ at'[t].v = at[t].v
      /\ at'[t].bad = AnyFailed(run) /\ at'[t].won = at[t].won
  <2> DEFINE x == [at[t] EXCEPT !.pc = "read", !.bad = AnyFailed(run)]
  <2>1. /\ at[t] \in Tasks /\ at \in [Threads -> Tasks] /\ doc.content \in Seen
        /\ doc.text \in Rows /\ staged \in Rows
    BY <1>1, TypedIs DEF Docs, Seen
  <2>2. at' = [at EXCEPT ![t] = x]
    BY <2>1 DEF FinalizeGuard
  <2>3. /\ x \in Tasks
        /\ x.pc = "read" /\ x.job = at[t].job /\ x.v = at[t].v
        /\ x.bad = AnyFailed(run) /\ x.won = at[t].won
    BY <2>1 DEF Tasks, Pcs, AnyFailed
  <2> HIDE DEF x
  <2>4. at' \in [Threads -> Tasks] /\ Others(t) /\ at'[t] = x
    BY <1>1, <2>2, <2>3, ReplacedIs
  <2> QED
    BY <2>3, <2>4
<1>4. TypeOK'
  BY <1>1, <1>2, <1>3, TypedIs, TypedNext
<1>5. JobOf(t)' /\ VersionsOf(t)'
  BY <1>1, <1>2, <1>3 DEF JobOf, VersionsOf, Past, PreRun
<1>6. count.events <= count'.events
  BY <1>1, <1>2, CountsTyped
<1>7. doc'.content <= count'.events /\ Asked' /\ Unmoved'
  BY <1>2, <1>4, <1>6, RequestSame
<1>8. ASSUME count'.splits <= 1 PROVE OneSplit'
  <2>1. count'.splits = count.splits /\ count.splits \in Nat
    BY <1>1, <1>2, CountsTyped
  <2>2. OneSplit /\ \A u \in Threads : JobOf(u)
    BY <1>8, <2>1 DEF Inv
  <2>3. Gate /\ ThreadOf(t) /\ Alone
    BY <2>2 DEF OneSplit
  <2>4. Gate'
    BY <1>2, <2>3 DEF Gate, Whole, Complete, Accounted
  <2>5. ThreadOf(t)'
    <3>1. run.finalized /\ at[t].job = "finalize" /\ Complete(run)
      BY <1>1, <2>3 DEF ThreadOf, JobOf, Gate
    <3>2. ~AnyFailed(run) => Whole
      BY <2>3, <3>1 DEF AnyFailed, Complete, Accounted, Gate, Whole
    <3> QED
      BY <1>2, <1>3, <2>3, <3>1, <3>2, NamesApart DEF ThreadOf, PreRun, Whole, Complete, Accounted
  <2>6. at'[t].pc \in Past => at[t].pc \in Past
    BY <1>1, <1>3 DEF Past, PreRun
  <2>7. Grows
    BY <1>2 DEF Grows
  <2> QED
    BY <1>1, <1>2, <1>3, <2>1, <2>2, <2>4, <2>5, <2>6, <2>7, OneSplitFrom
<1> QED
  BY <1>3, <1>4, <1>5, <1>6, <1>7, <1>8, InvFrom

LEMMA FinalizeLateKeeps ==
  ASSUME Inv, NEW t \in Threads, FinalizeGuard(t), ~Running PROVE Inv'
<1>1. TypeOK /\ JobOf(t) /\ VersionsOf(t) /\ at[t].pc = "guard"
  BY DEF Inv, FinalizeGuard
<1>2. UNCHANGED <<doc, chunks, staged, run, pending, request, old, count>>
  BY DEF FinalizeGuard
<1>3. /\ at' \in [Threads -> Tasks] /\ Others(t)
      /\ at'[t].pc = "idle" /\ at'[t].job = "none" /\ at'[t].v = None
      /\ at'[t].bad = FALSE /\ at'[t].won = FALSE
  <2>1. Return(t)
    BY DEF FinalizeGuard
  <2> QED
    BY <1>1, <2>1, ReturnIs
<1>4. TypeOK'
  BY <1>1, <1>2, <1>3, TypedIs, TypedNext
<1>5. JobOf(t)' /\ VersionsOf(t)'
  BY <1>1, <1>2, <1>3 DEF JobOf, VersionsOf, Past, PreRun
<1>6. count.events <= count'.events
  BY <1>1, <1>2, CountsTyped
<1>7. doc'.content <= count'.events /\ Asked' /\ Unmoved'
  BY <1>2, <1>4, <1>6, RequestSame
<1>8. ASSUME count'.splits <= 1 PROVE OneSplit'
  <2>1. count'.splits = count.splits /\ count.splits \in Nat
    BY <1>1, <1>2, CountsTyped
  <2>2. OneSplit /\ \A u \in Threads : JobOf(u)
    BY <1>8, <2>1 DEF Inv
  <2>3. Gate /\ ThreadOf(t) /\ Alone
    BY <2>2 DEF OneSplit
  <2>4. Gate'
    BY <1>2, <2>3 DEF Gate, Whole, Complete, Accounted
  <2>5. ThreadOf(t)'
    BY <1>3, NoneJob DEF ThreadOf, PreRun
  <2>6. at'[t].pc \in Past => at[t].pc \in Past
    BY <1>1, <1>3 DEF Past, PreRun
  <2>7. Grows
    BY <1>2 DEF Grows
  <2> QED
    BY <1>1, <1>2, <1>3, <2>1, <2>2, <2>4, <2>5, <2>6, <2>7, OneSplitFrom
<1> QED
  BY <1>3, <1>4, <1>5, <1>6, <1>7, <1>8, InvFrom

LEMMA FinalizeGuardKeeps ==
  ASSUME Inv, NEW t \in Threads, FinalizeGuard(t) PROVE Inv'
BY FinalizeGoesKeeps, FinalizeLateKeeps

LEMMA FinalizeReadKeeps ==
  ASSUME Inv, NEW t \in Threads, FinalizeRead(t) PROVE Inv'
<1>1. TypeOK /\ JobOf(t) /\ VersionsOf(t) /\ at[t].pc = "read"
  BY DEF Inv, FinalizeRead
<1>2. UNCHANGED <<doc, chunks, staged, run, pending, request, old, count>>
  BY DEF FinalizeRead
<1>3. /\ at' \in [Threads -> Tasks] /\ Others(t)
      /\ at'[t].pc = "verdict" /\ at'[t].job = at[t].job /\ at'[t].v = doc.content
      /\ at'[t].bad = at[t].bad /\ at'[t].won = at[t].won
  <2> DEFINE x == [at[t] EXCEPT !.pc = "verdict", !.v = doc.content, !.rows = staged]
  <2>1. /\ at[t] \in Tasks /\ at \in [Threads -> Tasks] /\ doc.content \in Seen
        /\ doc.text \in Rows /\ staged \in Rows
    BY <1>1, TypedIs DEF Docs, Seen
  <2>2. at' = [at EXCEPT ![t] = x]
    BY <2>1 DEF FinalizeRead
  <2>3. /\ x \in Tasks
        /\ x.pc = "verdict" /\ x.job = at[t].job /\ x.v = doc.content
        /\ x.bad = at[t].bad /\ x.won = at[t].won
    BY <2>1 DEF Tasks, Pcs
  <2> HIDE DEF x
  <2>4. at' \in [Threads -> Tasks] /\ Others(t) /\ at'[t] = x
    BY <1>1, <2>2, <2>3, ReplacedIs
  <2> QED
    BY <2>3, <2>4
<1>v. doc.content \in 0 .. count.events /\ None \notin 0 .. count.events
  BY <1>1, CountsTyped, NoneAssumption DEF Inv
<1>4. TypeOK'
  BY <1>1, <1>2, <1>3, TypedIs, TypedNext
<1>5. JobOf(t)' /\ VersionsOf(t)'
  BY <1>1, <1>2, <1>3, <1>v DEF JobOf, VersionsOf, Past, PreRun
<1>6. count.events <= count'.events
  BY <1>1, <1>2, CountsTyped
<1>7. doc'.content <= count'.events /\ Asked' /\ Unmoved'
  BY <1>2, <1>4, <1>6, RequestSame
<1>8. ASSUME count'.splits <= 1 PROVE OneSplit'
  <2>1. count'.splits = count.splits /\ count.splits \in Nat
    BY <1>1, <1>2, CountsTyped
  <2>2. OneSplit /\ \A u \in Threads : JobOf(u)
    BY <1>8, <2>1 DEF Inv
  <2>3. Gate /\ ThreadOf(t) /\ Alone
    BY <2>2 DEF OneSplit
  <2>4. Gate'
    BY <1>2, <2>3 DEF Gate, Whole, Complete, Accounted
  <2>5. ThreadOf(t)'
    BY <1>1, <1>2, <1>3, <2>3, NamesApart DEF ThreadOf, Complete, Accounted, PreRun, JobOf, Whole
  <2>6. at'[t].pc \in Past => at[t].pc \in Past
    BY <1>1, <1>3 DEF Past, PreRun
  <2>7. Grows
    BY <1>2 DEF Grows
  <2> QED
    BY <1>1, <1>2, <1>3, <2>1, <2>2, <2>4, <2>5, <2>6, <2>7, OneSplitFrom
<1> QED
  BY <1>3, <1>4, <1>5, <1>6, <1>7, <1>8, InvFrom

LEMMA FinalizeFinishKeeps ==
  ASSUME Inv, NEW t \in Threads, FinalizeFinish(t) PROVE Inv'
<1>1. TypeOK /\ JobOf(t) /\ VersionsOf(t) /\ at[t].pc = "finish"
  BY DEF Inv, FinalizeFinish
<1>2. UNCHANGED <<doc, chunks, staged, pending, request, count>>
  BY DEF FinalizeFinish
<1>c. /\ run' \in Runs /\ run'.status # "none" /\ run'.finalized = run.finalized
      /\ run'.done = run.done /\ run'.failed = run.failed /\ old' \subseteq {"run", "doc"}
      /\ at' \in [Threads -> Tasks] /\ Others(t)
      /\ at'[t].pc = "idle" /\ at'[t].job = "none" /\ at'[t].v = None /\ at'[t].bad = FALSE
      /\ at'[t].won = FALSE
  <2>0. run \in Runs /\ at \in [Threads -> Tasks] /\ at[t] \in Tasks
    BY <1>1, TypedIs
  <2> DEFINE a == [at EXCEPT ![t] = Idle]
             r == [run EXCEPT !.status = IF at[t].bad THEN "error" ELSE "done"]
  <2>1. RunWritten(r, a)
    BY DEF FinalizeFinish
  <2>2. /\ r \in Runs /\ r.status # "none" /\ r.finalized = run.finalized /\ r.done = run.done
        /\ r.failed = run.failed
    BY <2>0 DEF Runs
  <2>3. /\ a \in [Threads -> Tasks]
        /\ a[t].pc = "idle" /\ a[t].job = "none" /\ a[t].v = None /\ a[t].bad = FALSE
        /\ a[t].won = FALSE
        /\ \A u \in Threads \ {t} : a[u] = at[u]
    BY <2>0, IdleType DEF Tasks, Pcs
  <2> HIDE DEF a, r
  <2>4. /\ run' = r /\ old' \subseteq {"run", "doc"} /\ at' \in [Threads -> Tasks]
        /\ \A u \in Threads : /\ at'[u].pc = a[u].pc /\ at'[u].job = a[u].job /\ at'[u].v = a[u].v
                              /\ at'[u].bad = a[u].bad /\ at'[u].won = a[u].won
    BY <1>1, <2>1, <2>2, <2>3, RunWrittenIs
  <2>5. Others(t)
    BY <2>3, <2>4 DEF Others, Same
  <2> QED
    BY <2>2, <2>3, <2>4, <2>5
<1>3. /\ at' \in [Threads -> Tasks] /\ Others(t)
      /\ at'[t].pc = "idle" /\ at'[t].job = "none" /\ at'[t].v = None
      /\ at'[t].bad = FALSE /\ at'[t].won = FALSE
  BY <1>c
<1>4. TypeOK'
  BY <1>1, <1>2, <1>3, <1>c, TypedIs, TypedNext
<1>5. JobOf(t)' /\ VersionsOf(t)'
  BY <1>1, <1>2, <1>3, <1>c DEF JobOf, VersionsOf, Past, PreRun
<1>6. count.events <= count'.events
  BY <1>1, <1>2, <1>c, CountsTyped
<1>7. doc'.content <= count'.events /\ Asked' /\ Unmoved'
  BY <1>2, <1>4, <1>6, RequestSame
<1>8. ASSUME count'.splits <= 1 PROVE OneSplit'
  <2>1. count'.splits = count.splits /\ count.splits \in Nat
    BY <1>1, <1>2, <1>c, CountsTyped
  <2>2. OneSplit /\ \A u \in Threads : JobOf(u)
    BY <1>8, <2>1 DEF Inv
  <2>3. Gate /\ ThreadOf(t) /\ Alone
    BY <2>2 DEF OneSplit
  <2>h. run.status # "none"
    BY <1>1, <2>3 DEF ThreadOf, JobOf, Gate
  <2>4. Gate'
    <3>1. run.finalized
      BY <1>1, <2>3 DEF ThreadOf, JobOf
    <3>2. run.status # "none" /\ count.splits # 0
      BY <2>3, <3>1 DEF Gate
    <3>3. Complete(run) => Complete(run')
      BY <1>c DEF Complete, Accounted
    <3> QED
      BY <1>2, <1>c, <2>1, <2>3, <3>1, <3>2, <3>3 DEF Gate, Whole
  <2>5. ThreadOf(t)'
    BY <1>3, NoneJob DEF ThreadOf, PreRun
  <2>6. at'[t].pc \in Past => at[t].pc \in Past
    BY <1>1, <1>3 DEF Past, PreRun
  <2>7. Grows
    BY <1>c DEF Grows, Complete, Accounted
  <2> QED
    BY <1>1, <1>2, <1>3, <1>c, <2>1, <2>2, <2>4, <2>5, <2>6, <2>7, <2>h, OneSplitFrom
<1> QED
  BY <1>3, <1>4, <1>5, <1>6, <1>7, <1>8, InvFrom

-----------------------------------------------------------------------------
(* Crashes, stalls and failures; the start of the run                       *)

\* A job delivered again is the one the thread had.
LEMMA RedeliveredIs ==
  ASSUME TypeOK, NEW t \in Threads, Redelivered(t)
  PROVE  /\ pending' \in [Jobs -> 0 .. MaxPending]
         /\ \A k \in Jobs \ {at[t].job} : pending'[k] = pending[k]
<1>1. CASE at[t].job \in Jobs /\ at[t].held /\ Add(at[t].job)
  BY <1>1, AddIs
<1>2. CASE UNCHANGED pending
  BY <1>2, TypedIs
<1> QED
  BY <1>1, <1>2 DEF Redelivered

LEMMA CrashKeeps ==
  ASSUME Inv, NEW t \in Threads, Crash(t) PROVE Inv'
<1>1. TypeOK /\ JobOf(t) /\ VersionsOf(t) /\ at[t].pc # "idle"
  BY DEF Inv, Crash
<1>2. UNCHANGED <<doc, chunks, staged, run, request, old>>
  BY DEF Crash
<1>c. /\ count' \in Counts /\ count'.splits = count.splits /\ count'.events = count.events + 1
  <2>1. Event
    BY DEF Crash
  <2> QED
    BY <1>1, <2>1, EventIs
<1>d. /\ pending' \in [Jobs -> 0 .. MaxPending]
      /\ \A k \in Jobs \ {at[t].job} : pending'[k] = pending[k]
  <2>1. Redelivered(t)
    BY DEF Crash
  <2> QED
    BY <1>1, <2>1, RedeliveredIs
<1>3. /\ at' \in [Threads -> Tasks] /\ Others(t)
      /\ at'[t].pc = "idle" /\ at'[t].job = "none" /\ at'[t].v = None
      /\ at'[t].bad = FALSE /\ at'[t].won = FALSE
  <2>1. Return(t)
    BY DEF Crash
  <2> QED
    BY <1>1, <2>1, ReturnIs
<1>4. TypeOK'
  BY <1>1, <1>2, <1>3, <1>c, <1>d, TypedIs, TypedNext
<1>5. JobOf(t)' /\ VersionsOf(t)'
  BY <1>1, <1>2, <1>3, <1>c, <1>d DEF JobOf, VersionsOf, Past, PreRun
<1>6. count.events <= count'.events
  BY <1>1, <1>2, <1>c, <1>d, CountsTyped
<1>7. doc'.content <= count'.events /\ Asked' /\ Unmoved'
  BY <1>2, <1>4, <1>6, RequestSame
<1>8. ASSUME count'.splits <= 1 PROVE OneSplit'
  <2>1. count'.splits = count.splits /\ count.splits \in Nat
    BY <1>1, <1>2, <1>c, <1>d, CountsTyped
  <2>2. OneSplit /\ \A u \in Threads : JobOf(u)
    BY <1>8, <2>1 DEF Inv
  <2>3. Gate /\ ThreadOf(t) /\ Alone
    BY <2>2 DEF OneSplit
  <2>4. Gate'
    <3>1. at[t].job = "finalize" => run.finalized
      BY <2>3 DEF ThreadOf
    <3>2. run.status = "none" => at[t].job \notin Batches /\ at[t].job # "finalize"
      BY <2>3, <3>1 DEF ThreadOf, Gate
    <3>3. run.status = "none" => \A j \in Jobs \ {"split"} : pending'[j] = 0
      BY <1>d, <2>3, <3>2 DEF Gate, Jobs
    <3>4. pending'["finalize"] > 0 => run.finalized
      <4>1. CASE at[t].job = "finalize"
        BY <3>1, <4>1
      <4>2. CASE at[t].job # "finalize"
        BY <1>d, <2>3, <4>2 DEF Gate, Jobs
      <4> QED
        BY <4>1, <4>2
    <3> QED
      BY <1>2, <1>c, <2>3, <3>3, <3>4 DEF Gate, Complete, Accounted, Whole
  <2>5. ThreadOf(t)'
    BY <1>3, NoneJob DEF ThreadOf, PreRun
  <2>6. at'[t].pc \in Past => at[t].pc \in Past
    BY <1>1, <1>3 DEF Past, PreRun
  <2>7. Grows
    BY <1>2 DEF Grows
  <2> QED
    BY <1>1, <1>2, <1>3, <1>c, <1>d, <2>1, <2>2, <2>4, <2>5, <2>6, <2>7, OneSplitFrom
<1> QED
  BY <1>3, <1>4, <1>5, <1>6, <1>7, <1>8, InvFrom

LEMMA ProcessFailsKeeps ==
  ASSUME Inv, NEW t \in Threads, ProcessFails(t) PROVE Inv'
<1>1. TypeOK /\ JobOf(t) /\ VersionsOf(t) /\ at[t].pc = "write"
  BY DEF Inv, ProcessFails
<1>2. UNCHANGED <<doc, chunks, staged, run, request, old>>
  BY DEF ProcessFails
<1>c. /\ count' \in Counts /\ count'.splits = count.splits /\ count'.events = count.events + 1
  <2>1. Event
    BY DEF ProcessFails
  <2> QED
    BY <1>1, <2>1, EventIs
<1>d. /\ pending' \in [Jobs -> 0 .. MaxPending]
      /\ \A k \in Jobs \ {at[t].job} : pending'[k] = pending[k]
  <2>1. Redelivered(t)
    BY DEF ProcessFails
  <2> QED
    BY <1>1, <2>1, RedeliveredIs
<1>3. /\ at' \in [Threads -> Tasks] /\ Others(t)
      /\ at'[t].pc = "idle" /\ at'[t].job = "none" /\ at'[t].v = None
      /\ at'[t].bad = FALSE /\ at'[t].won = FALSE
  <2>1. Return(t)
    BY DEF ProcessFails
  <2> QED
    BY <1>1, <2>1, ReturnIs
<1>4. TypeOK'
  BY <1>1, <1>2, <1>3, <1>c, <1>d, TypedIs, TypedNext
<1>5. JobOf(t)' /\ VersionsOf(t)'
  BY <1>1, <1>2, <1>3, <1>c, <1>d DEF JobOf, VersionsOf, Past, PreRun
<1>6. count.events <= count'.events
  BY <1>1, <1>2, <1>c, <1>d, CountsTyped
<1>7. doc'.content <= count'.events /\ Asked' /\ Unmoved'
  BY <1>2, <1>4, <1>6, RequestSame
<1>8. ASSUME count'.splits <= 1 PROVE OneSplit'
  <2>1. count'.splits = count.splits /\ count.splits \in Nat
    BY <1>1, <1>2, <1>c, <1>d, CountsTyped
  <2>2. OneSplit /\ \A u \in Threads : JobOf(u)
    BY <1>8, <2>1 DEF Inv
  <2>3. Gate /\ ThreadOf(t) /\ Alone
    BY <2>2 DEF OneSplit
  <2>4. Gate'
    <3>1. at[t].job = "finalize" => run.finalized
      BY <2>3 DEF ThreadOf
    <3>2. run.status = "none" => at[t].job \notin Batches /\ at[t].job # "finalize"
      BY <2>3, <3>1 DEF ThreadOf, Gate
    <3>3. run.status = "none" => \A j \in Jobs \ {"split"} : pending'[j] = 0
      BY <1>d, <2>3, <3>2 DEF Gate, Jobs
    <3>4. pending'["finalize"] > 0 => run.finalized
      <4>1. CASE at[t].job = "finalize"
        BY <3>1, <4>1
      <4>2. CASE at[t].job # "finalize"
        BY <1>d, <2>3, <4>2 DEF Gate, Jobs
      <4> QED
        BY <4>1, <4>2
    <3> QED
      BY <1>2, <1>c, <2>3, <3>3, <3>4 DEF Gate, Complete, Accounted, Whole
  <2>5. ThreadOf(t)'
    BY <1>3, NoneJob DEF ThreadOf, PreRun
  <2>6. at'[t].pc \in Past => at[t].pc \in Past
    BY <1>1, <1>3 DEF Past, PreRun
  <2>7. Grows
    BY <1>2 DEF Grows
  <2> QED
    BY <1>1, <1>2, <1>3, <1>c, <1>d, <2>1, <2>2, <2>4, <2>5, <2>6, <2>7, OneSplitFrom
<1> QED
  BY <1>3, <1>4, <1>5, <1>6, <1>7, <1>8, InvFrom

LEMMA StallKeeps ==
  ASSUME Inv, NEW t \in Threads, Stall(t) PROVE Inv'
<1>1. TypeOK /\ JobOf(t) /\ VersionsOf(t) /\ at[t].pc # "idle"
  BY DEF Inv, Stall
<1>2. UNCHANGED <<doc, chunks, staged, run, request, old>>
  BY DEF Stall
<1>c. /\ count' \in Counts /\ count'.splits = count.splits /\ count'.events = count.events + 1
  <2>1. Event
    BY DEF Stall
  <2> QED
    BY <1>1, <2>1, EventIs
<1>d. /\ pending' \in [Jobs -> 0 .. MaxPending]
      /\ \A k \in Jobs \ {at[t].job} : pending'[k] = pending[k]
  <2>1. Redelivered(t)
    BY DEF Stall
  <2> QED
    BY <1>1, <2>1, RedeliveredIs
<1>3. /\ at' \in [Threads -> Tasks] /\ Others(t)
      /\ at'[t].pc = at[t].pc /\ at'[t].job = at[t].job /\ at'[t].v = at[t].v
      /\ at'[t].bad = at[t].bad /\ at'[t].won = at[t].won
  <2> DEFINE x == [at[t] EXCEPT !.held = FALSE]
  <2>1. /\ at[t] \in Tasks /\ at \in [Threads -> Tasks] /\ doc.content \in Seen
        /\ doc.text \in Rows /\ staged \in Rows
    BY <1>1, TypedIs DEF Docs, Seen
  <2>2. at' = [at EXCEPT ![t] = x]
    BY <2>1 DEF Stall
  <2>3. /\ x \in Tasks
        /\ x.pc = at[t].pc /\ x.job = at[t].job /\ x.v = at[t].v
        /\ x.bad = at[t].bad /\ x.won = at[t].won
    BY <2>1 DEF Tasks, Pcs
  <2> HIDE DEF x
  <2>4. at' \in [Threads -> Tasks] /\ Others(t) /\ at'[t] = x
    BY <1>1, <2>2, <2>3, ReplacedIs
  <2> QED
    BY <2>3, <2>4
<1>v. count.events \in Nat /\ 0 .. count.events \subseteq 0 .. count'.events
  BY <1>1, <1>c, CountsTyped
<1>4. TypeOK'
  BY <1>1, <1>2, <1>3, <1>c, <1>d, TypedIs, TypedNext
<1>5. JobOf(t)' /\ VersionsOf(t)'
  BY <1>1, <1>2, <1>3, <1>c, <1>d, <1>v DEF JobOf, VersionsOf, Past, PreRun
<1>6. count.events <= count'.events
  BY <1>1, <1>2, <1>c, <1>d, CountsTyped
<1>7. doc'.content <= count'.events /\ Asked' /\ Unmoved'
  BY <1>2, <1>4, <1>6, RequestSame
<1>8. ASSUME count'.splits <= 1 PROVE OneSplit'
  <2>1. count'.splits = count.splits /\ count.splits \in Nat
    BY <1>1, <1>2, <1>c, <1>d, CountsTyped
  <2>2. OneSplit /\ \A u \in Threads : JobOf(u)
    BY <1>8, <2>1 DEF Inv
  <2>3. Gate /\ ThreadOf(t) /\ Alone
    BY <2>2 DEF OneSplit
  <2>4. Gate'
    <3>1. at[t].job = "finalize" => run.finalized
      BY <2>3 DEF ThreadOf
    <3>2. run.status = "none" => at[t].job \notin Batches /\ at[t].job # "finalize"
      BY <2>3, <3>1 DEF ThreadOf, Gate
    <3>3. run.status = "none" => \A j \in Jobs \ {"split"} : pending'[j] = 0
      BY <1>d, <2>3, <3>2 DEF Gate, Jobs
    <3>4. pending'["finalize"] > 0 => run.finalized
      <4>1. CASE at[t].job = "finalize"
        BY <3>1, <4>1
      <4>2. CASE at[t].job # "finalize"
        BY <1>d, <2>3, <4>2 DEF Gate, Jobs
      <4> QED
        BY <4>1, <4>2
    <3> QED
      BY <1>2, <1>c, <2>3, <3>3, <3>4 DEF Gate, Complete, Accounted, Whole
  <2>5. ThreadOf(t)'
    BY <1>2, <1>3, <2>3 DEF ThreadOf, Whole, Complete, Accounted
  <2>6. at'[t].pc \in Past => at[t].pc \in Past
    BY <1>1, <1>3 DEF Past, PreRun
  <2>7. Grows
    BY <1>2 DEF Grows
  <2> QED
    BY <1>1, <1>2, <1>3, <1>c, <1>d, <2>1, <2>2, <2>4, <2>5, <2>6, <2>7, OneSplitFrom
<1> QED
  BY <1>3, <1>4, <1>5, <1>6, <1>7, <1>8, InvFrom

LEMMA WholeFailsKeeps ==
  ASSUME Inv, NEW t \in Threads, WholeFails(t) PROVE Inv'
<1>1. TypeOK /\ JobOf(t) /\ VersionsOf(t) /\ at[t].pc = "whole"
  BY DEF Inv, WholeFails
<1>2. UNCHANGED <<doc, chunks, staged, run, pending, request, old>>
  BY DEF WholeFails
<1>c. /\ count' \in Counts /\ count'.splits = count.splits /\ count'.events = count.events + 1
  <2>1. Event
    BY DEF WholeFails
  <2> QED
    BY <1>1, <2>1, EventIs
<1>p. PICK final \in BOOLEAN :
        at' = [at EXCEPT ![t].pc = "stamp", ![t].bad = final, ![t].v = doc.content, ![t].rows = doc.text]
  BY DEF WholeFails
<1>3. /\ at' \in [Threads -> Tasks] /\ Others(t)
      /\ at'[t].pc = "stamp" /\ at'[t].job = at[t].job /\ at'[t].v = doc.content
      /\ at'[t].bad = final /\ at'[t].won = at[t].won
  <2> DEFINE x == [at[t] EXCEPT !.pc = "stamp", !.bad = final, !.v = doc.content, !.rows = doc.text]
  <2>1. /\ at[t] \in Tasks /\ at \in [Threads -> Tasks] /\ doc.content \in Seen
        /\ doc.text \in Rows /\ staged \in Rows
    BY <1>1, TypedIs DEF Docs, Seen
  <2>2. at' = [at EXCEPT ![t] = x]
    BY <1>p, <2>1
  <2>3. /\ x \in Tasks
        /\ x.pc = "stamp" /\ x.job = at[t].job /\ x.v = doc.content
        /\ x.bad = final /\ x.won = at[t].won
    BY <2>1 DEF Tasks, Pcs
  <2> HIDE DEF x
  <2>4. at' \in [Threads -> Tasks] /\ Others(t) /\ at'[t] = x
    BY <1>1, <2>2, <2>3, ReplacedIs
  <2> QED
    BY <2>3, <2>4
<1>w. doc.content \in 0 .. count'.events /\ None \notin 0 .. count'.events
  <2>1. doc.content \in Nat /\ doc.content <= count.events /\ count.events \in Nat
    BY <1>1, CountsTyped DEF Inv
  <2> QED
    BY <1>c, <2>1, NoneAssumption
<1>4. TypeOK'
  BY <1>1, <1>2, <1>3, <1>c, TypedIs, TypedNext
<1>5. JobOf(t)' /\ VersionsOf(t)'
  BY <1>1, <1>2, <1>3, <1>c, <1>w DEF JobOf, VersionsOf, Past, PreRun
<1>6. count.events <= count'.events
  BY <1>1, <1>2, <1>c, CountsTyped
<1>7. doc'.content <= count'.events /\ Asked' /\ Unmoved'
  BY <1>2, <1>4, <1>6, RequestSame
<1>8. ASSUME count'.splits <= 1 PROVE OneSplit'
  <2>1. count'.splits = count.splits /\ count.splits \in Nat
    BY <1>1, <1>2, <1>c, CountsTyped
  <2>2. OneSplit /\ \A u \in Threads : JobOf(u)
    BY <1>8, <2>1 DEF Inv
  <2>3. Gate /\ ThreadOf(t) /\ Alone
    BY <2>2 DEF OneSplit
  <2>4. Gate'
    BY <1>2, <1>c, <2>3 DEF Gate, Whole, Complete, Accounted
  <2>5. ThreadOf(t)'
    BY <1>1, <1>2, <1>3, <2>3, NamesApart DEF ThreadOf, Complete, Accounted, PreRun, JobOf, Past
  <2>6. at'[t].pc \in Past => at[t].pc \in Past
    BY <1>1, <1>3 DEF Past, PreRun
  <2>7. Grows
    BY <1>2 DEF Grows
  <2> QED
    BY <1>1, <1>2, <1>3, <1>c, <2>1, <2>2, <2>4, <2>5, <2>6, <2>7, OneSplitFrom
<1> QED
  BY <1>3, <1>4, <1>5, <1>6, <1>7, <1>8, InvFrom

LEMMA SplitStartKeeps ==
  ASSUME Inv, NEW t \in Threads, SplitStart(t) PROVE Inv'
<1>1. TypeOK /\ JobOf(t) /\ VersionsOf(t) /\ at[t].pc = "start"
  BY DEF Inv, SplitStart
<1>2. UNCHANGED <<doc, chunks, staged, pending, request, count>>
  BY DEF SplitStart
<1>c. /\ run' \in Runs /\ run'.status = "running" /\ run'.finalized = FALSE /\ run'.done = {}
      /\ run'.failed = {} /\ old' \subseteq {"run", "doc"}
      /\ at' \in [Threads -> Tasks] /\ Others(t)
      /\ at'[t].pc = "create" /\ at'[t].job = at[t].job /\ at'[t].v = at[t].v
      /\ at'[t].bad = at[t].bad /\ at'[t].won = at[t].won
  <2>0. run \in Runs /\ at \in [Threads -> Tasks] /\ at[t] \in Tasks
    BY <1>1, TypedIs
  <2> DEFINE a == [at EXCEPT ![t].pc = "create", ![t].todo = Batches]
             r == [status |-> "running", done |-> {}, failed |-> {}, finalized |-> FALSE]
  <2>1. RunWritten(r, a)
    BY DEF SplitStart
  <2>2. r \in Runs /\ r.status = "running" /\ r.finalized = FALSE /\ r.done = {} /\ r.failed = {}
    BY <2>0 DEF Runs
  <2>3. /\ a \in [Threads -> Tasks]
        /\ a[t].pc = "create" /\ a[t].job = at[t].job /\ a[t].v = at[t].v
        /\ a[t].bad = at[t].bad /\ a[t].won = at[t].won
        /\ \A u \in Threads \ {t} : a[u] = at[u]
    BY <2>0, IdleType DEF Tasks, Pcs
  <2> HIDE DEF a, r
  <2>4. /\ run' = r /\ old' \subseteq {"run", "doc"} /\ at' \in [Threads -> Tasks]
        /\ \A u \in Threads : /\ at'[u].pc = a[u].pc /\ at'[u].job = a[u].job /\ at'[u].v = a[u].v
                              /\ at'[u].bad = a[u].bad /\ at'[u].won = a[u].won
    BY <1>1, <2>1, <2>2, <2>3, RunWrittenIs
  <2>5. Others(t)
    BY <2>3, <2>4 DEF Others, Same
  <2> QED
    BY <2>2, <2>3, <2>4, <2>5
<1>3. /\ at' \in [Threads -> Tasks] /\ Others(t)
      /\ at'[t].pc = "create" /\ at'[t].job = at[t].job /\ at'[t].v = at[t].v
      /\ at'[t].bad = at[t].bad /\ at'[t].won = at[t].won
  BY <1>c
<1>4. TypeOK'
  BY <1>1, <1>2, <1>3, <1>c, TypedIs, TypedNext
<1>5. JobOf(t)' /\ VersionsOf(t)'
  BY <1>1, <1>2, <1>3, <1>c DEF JobOf, VersionsOf, Past, PreRun
<1>6. count.events <= count'.events
  BY <1>1, <1>2, <1>c, CountsTyped
<1>7. doc'.content <= count'.events /\ Asked' /\ Unmoved'
  BY <1>2, <1>4, <1>6, RequestSame
<1>8. ASSUME count'.splits <= 1 PROVE OneSplit'
  <2>1. count'.splits = count.splits /\ count.splits \in Nat
    BY <1>1, <1>2, <1>c, CountsTyped
  <2>2. OneSplit /\ \A u \in Threads : JobOf(u)
    BY <1>8, <2>1 DEF Inv
  <2>3. Gate /\ ThreadOf(t) /\ Alone
    BY <2>2 DEF OneSplit
  <2>h. /\ run.status = "none" /\ run.done = {} /\ run.failed = {} /\ ~run.finalized
        /\ pending["finalize"] = 0 /\ count.splits # 0 /\ doc.status # "ready"
    BY <1>1, <2>3 DEF ThreadOf, Gate, PreRun, Jobs, Alone, Past
  <2>4. Gate'
    BY <1>2, <1>c, <2>1, <2>3, <2>h, CountsTyped DEF Gate, Whole
  <2>5. ThreadOf(t)'
    <3>1. ~Complete(run) /\ at[t].job = "split"
      BY <1>1, <2>h, BatchesAssumption DEF Complete, Accounted, JobOf, Past, PreRun
    <3>2. ~at[t].won
      BY <2>3, <3>1 DEF ThreadOf
    <3> QED
      BY <1>2, <1>3, <1>c, <2>3, <3>1, <3>2, NamesApart DEF ThreadOf, PreRun
  <2>6. at'[t].pc \in Past => at[t].pc \in Past
    BY <1>1, <1>3 DEF Past, PreRun
  <2>7. Grows
    <3>1. ~Complete(run)
      BY <2>h, BatchesAssumption DEF Complete, Accounted
    <3> QED
      BY <1>c, <2>h, <3>1 DEF Grows
  <2> QED
    BY <1>1, <1>2, <1>3, <1>c, <2>1, <2>2, <2>4, <2>5, <2>6, <2>7, OneSplitFrom DEF PreRun
<1> QED
  BY <1>3, <1>4, <1>5, <1>6, <1>7, <1>8, InvFrom

LEMMA SplitCreateKeeps ==
  ASSUME Inv, NEW t \in Threads, SplitCreate(t) PROVE Inv'
<1>1. TypeOK /\ JobOf(t) /\ VersionsOf(t) /\ at[t].pc = "create"
  BY DEF Inv, SplitCreate
<1>2. UNCHANGED <<doc, chunks, staged, run, request, old, count>>
  BY DEF SplitCreate
<1>c. /\ pending' \in [Jobs -> 0 .. MaxPending]
      /\ \A k \in Jobs \ Batches : pending'[k] = pending[k]
  <2>1. PICK k \in at[t].todo : Add(k)
    BY DEF SplitCreate
  <2>2. k \in Batches /\ k \in Jobs
    BY <1>1, ThreadsTyped DEF Jobs
  <2> QED
    BY <1>1, <2>1, <2>2, AddIs
<1>p. PICK b \in at[t].todo : /\ Add(b)
                            /\ IF at[t].todo = {b} THEN Return(t) ELSE at' = [at EXCEPT ![t].todo = @ \ {b}]
  BY DEF SplitCreate
<1>q. PICK x \in Tasks :
        /\ at' = [at EXCEPT ![t] = x] /\ x.pc \in {"create", "idle"} /\ x.job \in {"split", "none"}
        /\ x.v \in {at[t].v, None} /\ x.bad \in {at[t].bad, FALSE} /\ x.won \in {at[t].won, FALSE}
        /\ x.pc = "create" => x.job = "split"
  <2>1. at[t] \in Tasks /\ at \in [Threads -> Tasks] /\ at[t].job = "split"
    BY <1>1, TypedIs DEF JobOf, Past
  <2>2. CASE at[t].todo = {b}
    BY <1>p, <2>2, IdleType DEF Return
  <2>3. CASE at[t].todo # {b}
    <3> DEFINE x == [at[t] EXCEPT !.todo = @ \ {b}]
    <3>1. at' = [at EXCEPT ![t] = x]
      BY <1>p, <2>1, <2>3
    <3>2. /\ x \in Tasks /\ x.pc = "create" /\ x.job = "split" /\ x.v = at[t].v
          /\ x.bad = at[t].bad /\ x.won = at[t].won
      BY <1>1, <2>1 DEF Tasks
    <3> HIDE DEF x
    <3> QED
      BY <3>1, <3>2
  <2> QED
    BY <2>2, <2>3
<1>b. b \in Batches /\ b \in Jobs
  BY <1>1, <1>p, ThreadsTyped DEF Jobs
<1>3. /\ at' \in [Threads -> Tasks] /\ Others(t)
      /\ at'[t].pc = x.pc /\ at'[t].job = x.job /\ at'[t].v = x.v
      /\ at'[t].bad = x.bad /\ at'[t].won = x.won
  BY <1>1, <1>q, ReplacedIs
<1>4. TypeOK'
  BY <1>1, <1>2, <1>3, <1>c, TypedIs, TypedNext
<1>5. JobOf(t)' /\ VersionsOf(t)'
  BY <1>1, <1>2, <1>3, <1>c, <1>q DEF JobOf, VersionsOf, Past, PreRun
<1>6. count.events <= count'.events
  BY <1>1, <1>2, <1>c, CountsTyped
<1>7. doc'.content <= count'.events /\ Asked' /\ Unmoved'
  BY <1>2, <1>4, <1>6, RequestSame
<1>8. ASSUME count'.splits <= 1 PROVE OneSplit'
  <2>1. count'.splits = count.splits /\ count.splits \in Nat
    BY <1>1, <1>2, <1>c, CountsTyped
  <2>2. OneSplit /\ \A u \in Threads : JobOf(u)
    BY <1>8, <2>1 DEF Inv
  <2>3. Gate /\ ThreadOf(t) /\ Alone
    BY <2>2 DEF OneSplit
  <2>4. Gate'
    <3>1. run.status # "none"
      BY <1>1, <2>3 DEF ThreadOf
    <3>2. pending'["finalize"] = pending["finalize"]
      BY <1>c, NamesApart DEF Jobs
    <3> QED
      BY <1>2, <2>3, <3>1, <3>2 DEF Gate, Complete, Accounted, Whole
  <2>5. ThreadOf(t)'
    <3>1. run.status # "none" /\ (at[t].won => Complete(run))
      BY <1>1, <2>3 DEF ThreadOf
    <3>2. x.job \notin Batches /\ x.job # "finalize" /\ x.job # "runs" /\ (x.won => Complete(run))
      BY <1>q, <3>1, NamesApart, NoneJob
    <3> QED
      BY <1>2, <1>3, <1>q, <3>1, <3>2 DEF ThreadOf, PreRun, Complete, Accounted
  <2>6. at'[t].pc \in Past => at[t].pc \in Past
    BY <1>1, <1>3 DEF Past, PreRun
  <2>7. Grows
    BY <1>2 DEF Grows
  <2> QED
    BY <1>1, <1>2, <1>3, <1>c, <2>1, <2>2, <2>4, <2>5, <2>6, <2>7, OneSplitFrom
<1> QED
  BY <1>3, <1>4, <1>5, <1>6, <1>7, <1>8, InvFrom

-----------------------------------------------------------------------------
(* Taking work: the queue, the sweeps and the plan of the split             *)

LEMMA FirstIs ==
  ASSUME NEW job \in Jobs
  PROVE  /\ First(job) \in {"plan", "guard", "running"}
         /\ First(job) = "plan" => job = "split"
         /\ First(job) = "guard" => job = "finalize"
         /\ First(job) = "running" => job \in Batches
<1>1. CASE job = "split"
  BY <1>1 DEF First
<1>2. CASE job = "finalize"
  BY <1>2 DEF First
<1>3. CASE job \in Batches
  BY <1>3, NamesApart DEF First
<1> QED
  BY <1>1, <1>2, <1>3 DEF Jobs

\* A task begun afresh.
Fresh(x, pc, job, v, bad) ==
  x \in Tasks /\ x.pc = pc /\ x.job = job /\ x.v = v /\ x.bad = bad /\ x.won = FALSE

LEMMA PopKeeps ==
  ASSUME Inv, NEW t \in Threads, NEW job \in Jobs, Pop(t, job) PROVE Inv'
<1>1. TypeOK /\ JobOf(t) /\ VersionsOf(t) /\ at[t].pc = "idle"
  BY DEF Inv, Pop
<1>2. UNCHANGED <<doc, chunks, staged, run, request, old, count>>
  BY DEF Pop
<1>c. /\ pending' \in [Jobs -> 0 .. MaxPending] /\ pending[job] > 0
      /\ \A k \in Jobs : pending'[k] <= pending[k]
  <2>1. pending \in [Jobs -> 0 .. MaxPending] /\ MaxPending \in Nat
    BY <1>1, TypedIs, BoundsAssumption
  <2>2. pending[job] > 0 /\ pending' = [pending EXCEPT ![job] = pending[job] - 1]
    BY DEF Pop
  <2>3. pending[job] - 1 \in 0 .. MaxPending /\ pending[job] - 1 <= pending[job]
    BY <2>1, <2>2
  <2>4. ASSUME NEW k \in Jobs PROVE pending'[k] <= pending[k]
    <3>1. CASE k = job
      BY <2>1, <2>2, <2>3, <3>1
    <3>2. CASE k # job
      BY <2>1, <2>2, <3>2
    <3> QED
      BY <3>1, <3>2
  <2> QED
    BY <2>1, <2>2, <2>3, <2>4
<1>3. /\ at' \in [Threads -> Tasks] /\ Others(t)
      /\ at'[t].pc = First(job) /\ at'[t].job = job /\ at'[t].v = None
      /\ at'[t].bad = FALSE /\ at'[t].won = FALSE
  <2> DEFINE x == [Idle EXCEPT !.pc = First(job), !.job = job, !.held = TRUE]
  <2>0. First(job) \in Pcs /\ job \in JobNames
    BY <1>1, TypedIs, FirstIs DEF Pcs, JobNames
  <2>1. at' = [at EXCEPT ![t] = x]
    BY DEF Pop
  <2>2. Fresh(x, First(job), job, None, FALSE)
    BY <2>0, IdleType DEF Fresh, Tasks, Pcs, JobNames, Sweeps
  <2> HIDE DEF x
  <2>3. at' \in [Threads -> Tasks] /\ Others(t) /\ at'[t] = x
    BY <1>1, <2>1, <2>2, ReplacedIs DEF Fresh
  <2> QED
    BY <2>2, <2>3 DEF Fresh
<1>4. TypeOK'
  BY <1>1, <1>2, <1>3, <1>c, TypedIs, TypedNext
<1>5. JobOf(t)' /\ VersionsOf(t)'
  BY <1>1, <1>2, <1>3, <1>c, FirstIs DEF JobOf, VersionsOf, Past, PreRun
<1>6. count.events <= count'.events
  BY <1>1, <1>2, <1>c, CountsTyped
<1>7. doc'.content <= count'.events /\ Asked' /\ Unmoved'
  BY <1>2, <1>4, <1>6, RequestSame
<1>8. ASSUME count'.splits <= 1 PROVE OneSplit'
  <2>1. count'.splits = count.splits /\ count.splits \in Nat
    BY <1>1, <1>2, <1>c, CountsTyped
  <2>2. OneSplit /\ \A u \in Threads : JobOf(u)
    BY <1>8, <2>1 DEF Inv
  <2>3. Gate /\ ThreadOf(t) /\ Alone
    BY <2>2 DEF OneSplit
  <2>h. /\ "finalize" \in Jobs /\ MaxPending \in Nat
        /\ \A k \in Jobs : pending[k] \in 0 .. MaxPending /\ pending'[k] \in 0 .. MaxPending
    BY <1>1, <1>c, TypedIs, BoundsAssumption DEF Jobs
  <2>i. /\ run.status = "none" => job = "split"
        /\ job = "finalize" => run.finalized
    BY <1>c, <2>3, <2>h DEF Gate
  <2>4. Gate'
    <3>1. run.status = "none" => \A j \in Jobs \ {"split"} : pending'[j] = 0
      BY <1>c, <2>3, <2>h DEF Gate
    <3>2. pending'["finalize"] > 0 => run.finalized
      BY <1>c, <2>3, <2>h DEF Gate
    <3> QED
      BY <1>2, <2>3, <3>1, <3>2 DEF Gate, Whole, Complete, Accounted
  <2>5. ThreadOf(t)'
    <3>1. job \in Batches => run.status # "none"
      BY <2>i, NamesApart
    <3>2. job # "runs"
      BY NamesApart DEF Jobs
    <3>3. First(job) \in {"plan", "guard", "running"}
      BY FirstIs
    <3> QED
      BY <1>2, <1>3, <2>i, <3>1, <3>2, <3>3 DEF ThreadOf, PreRun
  <2>6. at'[t].pc \in Past => at[t].pc \in Past
    BY <1>1, <1>3, FirstIs DEF Past, PreRun
  <2>7. Grows
    BY <1>2 DEF Grows
  <2> QED
    BY <1>1, <1>2, <1>3, <1>c, <2>1, <2>2, <2>4, <2>5, <2>6, <2>7, OneSplitFrom
<1> QED
  BY <1>3, <1>4, <1>5, <1>6, <1>7, <1>8, InvFrom

LEMMA SweepGatesKeeps ==
  ASSUME Inv, NEW t \in Threads, SweepRuns(t), Complete(run) PROVE Inv'
<1>1. TypeOK /\ JobOf(t) /\ VersionsOf(t) /\ at[t].pc = "idle"
  BY DEF Inv, SweepRuns
<1>2. UNCHANGED <<doc, chunks, staged, run, pending, request, old, count>>
  BY DEF SweepRuns
<1>3. /\ at' \in [Threads -> Tasks] /\ Others(t)
      /\ at'[t].pc = "gate" /\ at'[t].job = "runs" /\ at'[t].v = None
      /\ at'[t].bad = run.finalized /\ at'[t].won = FALSE
  <2> DEFINE x == [Idle EXCEPT !.pc = "gate", !.job = "runs", !.bad = run.finalized]
  <2>0. run.finalized \in BOOLEAN
    BY <1>1, TypedIs DEF Runs
  <2>1. at' = [at EXCEPT ![t] = x]
    BY DEF SweepRuns
  <2>2. Fresh(x, "gate", "runs", None, run.finalized)
    BY <2>0, IdleType DEF Fresh, Tasks, Pcs, JobNames, Sweeps
  <2> HIDE DEF x
  <2>3. at' \in [Threads -> Tasks] /\ Others(t) /\ at'[t] = x
    BY <1>1, <2>1, <2>2, ReplacedIs DEF Fresh
  <2> QED
    BY <2>2, <2>3 DEF Fresh
<1>4. TypeOK'
  BY <1>1, <1>2, <1>3, TypedIs, TypedNext
<1>5. JobOf(t)' /\ VersionsOf(t)'
  BY <1>1, <1>2, <1>3 DEF JobOf, VersionsOf, Past, PreRun
<1>6. count.events <= count'.events
  BY <1>1, <1>2, CountsTyped
<1>7. doc'.content <= count'.events /\ Asked' /\ Unmoved'
  BY <1>2, <1>4, <1>6, RequestSame
<1>8. ASSUME count'.splits <= 1 PROVE OneSplit'
  <2>1. count'.splits = count.splits /\ count.splits \in Nat
    BY <1>1, <1>2, CountsTyped
  <2>2. OneSplit /\ \A u \in Threads : JobOf(u)
    BY <1>8, <2>1 DEF Inv
  <2>3. Gate /\ ThreadOf(t) /\ Alone
    BY <2>2 DEF OneSplit
  <2>4. Gate'
    BY <1>2, <2>3 DEF Gate, Whole, Complete, Accounted
  <2>5. ThreadOf(t)'
    <3>1. run.status = "running"
      BY DEF SweepRuns, Running
    <3> QED
      BY <1>2, <1>3, <3>1, NamesAssumption DEF ThreadOf, PreRun
  <2>6. at'[t].pc \in Past => at[t].pc \in Past
    BY <1>1, <1>3 DEF Past, PreRun
  <2>7. Grows
    BY <1>2 DEF Grows
  <2> QED
    BY <1>1, <1>2, <1>3, <2>1, <2>2, <2>4, <2>5, <2>6, <2>7, OneSplitFrom
<1> QED
  BY <1>3, <1>4, <1>5, <1>6, <1>7, <1>8, InvFrom

LEMMA SweepFailsKeeps ==
  ASSUME Inv, NEW t \in Threads, SweepRuns(t), ~Complete(run) PROVE Inv'
<1>1. TypeOK /\ JobOf(t) /\ VersionsOf(t) /\ at[t].pc = "idle"
  BY DEF Inv, SweepRuns
<1>2. UNCHANGED <<doc, chunks, staged, run, pending, request, old, count>>
  BY DEF SweepRuns
<1>3. /\ at' \in [Threads -> Tasks] /\ Others(t)
      /\ at'[t].pc = "fail" /\ at'[t].job = "runs" /\ at'[t].v = None
      /\ at'[t].bad = run.finalized /\ at'[t].won = FALSE
  <2> DEFINE x == [Idle EXCEPT !.pc = "fail", !.job = "runs", !.bad = run.finalized, !.todo = Batches \ Accounted(run)]
  <2>0. run.finalized \in BOOLEAN /\ Batches \ Accounted(run) \in SUBSET Batches
    BY <1>1, TypedIs DEF Runs
  <2>1. at' = [at EXCEPT ![t] = x]
    BY DEF SweepRuns
  <2>2. Fresh(x, "fail", "runs", None, run.finalized)
    BY <2>0, IdleType DEF Fresh, Tasks, Pcs, JobNames, Sweeps
  <2> HIDE DEF x
  <2>3. at' \in [Threads -> Tasks] /\ Others(t) /\ at'[t] = x
    BY <1>1, <2>1, <2>2, ReplacedIs DEF Fresh
  <2> QED
    BY <2>2, <2>3 DEF Fresh
<1>4. TypeOK'
  BY <1>1, <1>2, <1>3, TypedIs, TypedNext
<1>5. JobOf(t)' /\ VersionsOf(t)'
  BY <1>1, <1>2, <1>3 DEF JobOf, VersionsOf, Past, PreRun
<1>6. count.events <= count'.events
  BY <1>1, <1>2, CountsTyped
<1>7. doc'.content <= count'.events /\ Asked' /\ Unmoved'
  BY <1>2, <1>4, <1>6, RequestSame
<1>8. ASSUME count'.splits <= 1 PROVE OneSplit'
  <2>1. count'.splits = count.splits /\ count.splits \in Nat
    BY <1>1, <1>2, CountsTyped
  <2>2. OneSplit /\ \A u \in Threads : JobOf(u)
    BY <1>8, <2>1 DEF Inv
  <2>3. Gate /\ ThreadOf(t) /\ Alone
    BY <2>2 DEF OneSplit
  <2>4. Gate'
    BY <1>2, <2>3 DEF Gate, Whole, Complete, Accounted
  <2>5. ThreadOf(t)'
    <3>1. run.status = "running"
      BY DEF SweepRuns, Running
    <3> QED
      BY <1>2, <1>3, <3>1, NamesAssumption DEF ThreadOf, PreRun
  <2>6. at'[t].pc \in Past => at[t].pc \in Past
    BY <1>1, <1>3 DEF Past, PreRun
  <2>7. Grows
    BY <1>2 DEF Grows
  <2> QED
    BY <1>1, <1>2, <1>3, <2>1, <2>2, <2>4, <2>5, <2>6, <2>7, OneSplitFrom
<1> QED
  BY <1>3, <1>4, <1>5, <1>6, <1>7, <1>8, InvFrom

LEMMA SweepRunsKeeps ==
  ASSUME Inv, NEW t \in Threads, SweepRuns(t) PROVE Inv'
BY SweepGatesKeeps, SweepFailsKeeps

LEMMA SweepDocsKeeps ==
  ASSUME Inv, NEW t \in Threads, SweepDocs(t) PROVE Inv'
<1>1. TypeOK /\ JobOf(t) /\ VersionsOf(t) /\ at[t].pc = "idle"
  BY DEF Inv, SweepDocs
<1>2. UNCHANGED <<doc, chunks, staged, run, pending, request, old, count>>
  BY DEF SweepDocs
<1>3. /\ at' \in [Threads -> Tasks] /\ Others(t)
      /\ at'[t].pc = "judge" /\ at'[t].job = "docs" /\ at'[t].v = doc.content
      /\ at'[t].bad = FALSE /\ at'[t].won = FALSE
  <2> DEFINE x == [Idle EXCEPT !.pc = "judge", !.job = "docs", !.v = doc.content, !.rows = doc.text]
  <2>0. doc.content \in Seen /\ doc.text \in Rows
    BY <1>1, TypedIs DEF Docs, Seen
  <2>1. at' = [at EXCEPT ![t] = x]
    BY DEF SweepDocs
  <2>2. Fresh(x, "judge", "docs", doc.content, FALSE)
    BY <2>0, IdleType DEF Fresh, Tasks, Pcs, JobNames, Sweeps
  <2> HIDE DEF x
  <2>3. at' \in [Threads -> Tasks] /\ Others(t) /\ at'[t] = x
    BY <1>1, <2>1, <2>2, ReplacedIs DEF Fresh
  <2> QED
    BY <2>2, <2>3 DEF Fresh
<1>v. doc.content \in 0 .. count.events /\ None \notin 0 .. count.events
  BY <1>1, CountsTyped, NoneAssumption DEF Inv
<1>4. TypeOK'
  BY <1>1, <1>2, <1>3, TypedIs, TypedNext
<1>5. JobOf(t)' /\ VersionsOf(t)'
  BY <1>1, <1>2, <1>3, <1>v DEF JobOf, VersionsOf, Past, PreRun
<1>6. count.events <= count'.events
  BY <1>1, <1>2, CountsTyped
<1>7. doc'.content <= count'.events /\ Asked' /\ Unmoved'
  BY <1>2, <1>4, <1>6, RequestSame
<1>8. ASSUME count'.splits <= 1 PROVE OneSplit'
  <2>1. count'.splits = count.splits /\ count.splits \in Nat
    BY <1>1, <1>2, CountsTyped
  <2>2. OneSplit /\ \A u \in Threads : JobOf(u)
    BY <1>8, <2>1 DEF Inv
  <2>3. Gate /\ ThreadOf(t) /\ Alone
    BY <2>2 DEF OneSplit
  <2>4. Gate'
    BY <1>2, <2>3 DEF Gate, Whole, Complete, Accounted
  <2>5. ThreadOf(t)'
    BY <1>3, NamesAssumption DEF ThreadOf, PreRun
  <2>6. at'[t].pc \in Past => at[t].pc \in Past
    BY <1>1, <1>3 DEF Past, PreRun
  <2>7. Grows
    BY <1>2 DEF Grows
  <2> QED
    BY <1>1, <1>2, <1>3, <2>1, <2>2, <2>4, <2>5, <2>6, <2>7, OneSplitFrom
<1> QED
  BY <1>3, <1>4, <1>5, <1>6, <1>7, <1>8, InvFrom

LEMMA MarkFailedKeeps ==
  ASSUME Inv, NEW t \in Threads, MarkFailed(t) PROVE Inv'
<1>1. TypeOK /\ JobOf(t) /\ VersionsOf(t) /\ at[t].pc = "fail"
  BY DEF Inv, MarkFailed
<1>2. UNCHANGED <<doc, chunks, staged, pending, request, count>>
  BY DEF MarkFailed
<1>c. /\ run' \in Runs /\ run'.status = run.status /\ run'.finalized = run.finalized
      /\ run'.done = run.done
      /\ (Complete(run) => Complete(run')) /\ old' \subseteq {"run", "doc"}
      /\ at' \in [Threads -> Tasks] /\ Others(t) /\ at'[t].pc \in {"gate", "fail"}
      /\ at'[t].job = at[t].job
      /\ at'[t].v = at[t].v /\ at'[t].bad = at[t].bad /\ at'[t].won = at[t].won
  <2>0. run \in Runs /\ at \in [Threads -> Tasks] /\ at[t] \in Tasks /\ at[t].todo \subseteq Batches
    BY <1>1, TypedIs, ThreadsTyped
  <2> DEFINE A(b) == [at EXCEPT ![t].todo = @ \ {b}, ![t].pc = IF at[t].todo = {b} THEN "gate" ELSE "fail"]
  <2>1. PICK b \in at[t].todo : IF b \in run.failed
                                THEN at' = A(b) /\ UNCHANGED <<run, old>>
                                ELSE RunWritten([run EXCEPT !.failed = @ \cup {b}], A(b))
    BY DEF MarkFailed
  <2> DEFINE a == A(b)
             r == [run EXCEPT !.failed = @ \cup {b}]
  <2>2. /\ r \in Runs /\ r.status = run.status /\ r.finalized = run.finalized
        /\ r.failed = run.failed \cup {b} /\ r.done = run.done
    BY <2>0, <2>1 DEF Runs
  <2>3. /\ a \in [Threads -> Tasks] /\ a[t].pc \in {"gate", "fail"} /\ a[t].job = at[t].job
        /\ a[t].v = at[t].v /\ a[t].bad = at[t].bad /\ a[t].won = at[t].won
        /\ \A u \in Threads \ {t} : a[u] = at[u]
    BY <2>0 DEF Tasks, Pcs
  <2>4. (at' = a /\ run' = run /\ old' = old) \/ RunWritten(r, a)
    BY <2>1
  <2> HIDE DEF a, r, A
  <2>5. CASE at' = a /\ run' = run /\ old' = old
    <3>1. Others(t)
      BY <2>3, <2>5 DEF Others, Same
    <3> QED
      BY <1>1, <2>0, <2>3, <2>5, <3>1, TypedIs
  <2>6. CASE RunWritten(r, a)
    <3>1. /\ run' = r /\ old' \subseteq {"run", "doc"} /\ at' \in [Threads -> Tasks]
          /\ \A u \in Threads : /\ at'[u].pc = a[u].pc /\ at'[u].job = a[u].job /\ at'[u].v = a[u].v
                                /\ at'[u].bad = a[u].bad /\ at'[u].won = a[u].won
      BY <1>1, <2>2, <2>3, <2>6, RunWrittenIs
    <3>2. Others(t)
      BY <2>3, <3>1 DEF Others, Same
    <3>3. Complete(run) => Complete(run')
      BY <2>0, <2>1, <2>2, <3>1 DEF Complete, Accounted, Runs
    <3> QED
      BY <2>2, <2>3, <3>1, <3>2, <3>3
  <2> QED
    BY <2>4, <2>5, <2>6
<1>3. /\ at' \in [Threads -> Tasks] /\ Others(t)
      /\ at'[t].pc = at'[t].pc /\ at'[t].job = at[t].job /\ at'[t].v = at[t].v
      /\ at'[t].bad = at[t].bad /\ at'[t].won = at[t].won
  BY <1>c
<1>4. TypeOK'
  BY <1>1, <1>2, <1>3, <1>c, TypedIs, TypedNext
<1>5. JobOf(t)' /\ VersionsOf(t)'
  BY <1>1, <1>2, <1>3, <1>c DEF JobOf, VersionsOf, Past, PreRun
<1>6. count.events <= count'.events
  BY <1>1, <1>2, <1>c, CountsTyped
<1>7. doc'.content <= count'.events /\ Asked' /\ Unmoved'
  BY <1>2, <1>4, <1>6, RequestSame
<1>8. ASSUME count'.splits <= 1 PROVE OneSplit'
  <2>1. count'.splits = count.splits /\ count.splits \in Nat
    BY <1>1, <1>2, <1>c, CountsTyped
  <2>2. OneSplit /\ \A u \in Threads : JobOf(u)
    BY <1>8, <2>1 DEF Inv
  <2>3. Gate /\ ThreadOf(t) /\ Alone
    BY <2>2 DEF OneSplit
  <2>4. Gate'
    <3>1. run.status # "none"
      BY <1>1, <2>3 DEF ThreadOf
    <3> QED
      BY <1>2, <1>c, <2>1, <2>3, <3>1 DEF Gate, Whole
  <2>5. ThreadOf(t)'
    <3>1. /\ run.status # "none" /\ at[t].job = "runs" /\ (at[t].won => Complete(run))
          /\ at[t].bad => run.finalized
      BY <1>1, <2>3 DEF JobOf, ThreadOf
    <3> QED
      BY <1>3, <1>c, <3>1, NamesAssumption DEF ThreadOf, PreRun
  <2>6. at'[t].pc \in Past => at[t].pc \in Past
    BY <1>1, <1>c DEF Past, PreRun
  <2>7. Grows
    BY <1>c DEF Grows
  <2> QED
    BY <1>1, <1>2, <1>3, <1>c, <2>1, <2>2, <2>4, <2>5, <2>6, <2>7, OneSplitFrom
<1> QED
  BY <1>3, <1>4, <1>5, <1>6, <1>7, <1>8, InvFrom

\* The first split finds no run, no ready document and no other split past its plan.
LEMMA SplitPlanKeeps ==
  ASSUME Inv, NEW t \in Threads, SplitPlan(t) PROVE Inv'
<1>1. TypeOK /\ JobOf(t) /\ VersionsOf(t) /\ at[t].pc = "plan"
  BY DEF Inv, SplitPlan
<1>2. UNCHANGED <<doc, chunks, staged, run, pending, request, old>>
  BY DEF SplitPlan
<1>c. count' \in Counts /\ count'.splits = count.splits + 1 /\ count'.events = count.events
  <2>1. count \in Counts /\ count' = [count EXCEPT !.splits = @ + 1]
    BY <1>1, TypedIs DEF SplitPlan
  <2> QED
    BY <2>1 DEF Counts
<1>v. doc.content \in 0 .. count.events /\ None \notin 0 .. count.events
  BY <1>1, CountsTyped, NoneAssumption DEF Inv
<1>3. /\ at' \in [Threads -> Tasks] /\ Others(t) /\ at'[t].pc \in {"clear", "drop"}
      /\ at'[t].job = at[t].job /\ at'[t].v \in {at[t].v, doc.content}
      /\ at'[t].pc = "drop" => at'[t].v = doc.content
      /\ at'[t].bad = at[t].bad /\ at'[t].won = at[t].won
  <2>1. CASE Goto(t, "clear")
    <3>1. "clear" \in Pcs
      BY DEF Pcs
    <3> QED
      BY <1>1, <2>1, <3>1, GotoIs
  <2>2. CASE at' = [at EXCEPT ![t].pc = "drop", ![t].v = doc.content]
    <3> DEFINE x == [at[t] EXCEPT !.pc = "drop", !.v = doc.content]
    <3>1. at[t] \in Tasks /\ at \in [Threads -> Tasks] /\ doc.content \in Seen
      BY <1>1, TypedIs DEF Docs, Seen
    <3>2. at' = [at EXCEPT ![t] = x]
      BY <2>2, <3>1
    <3>3. /\ x \in Tasks /\ x.pc = "drop" /\ x.job = at[t].job /\ x.v = doc.content
          /\ x.bad = at[t].bad /\ x.won = at[t].won
      BY <3>1 DEF Tasks, Pcs
    <3> HIDE DEF x
    <3>4. at' \in [Threads -> Tasks] /\ Others(t) /\ at'[t] = x
      BY <1>1, <3>2, <3>3, ReplacedIs
    <3> QED
      BY <3>3, <3>4
  <2> QED
    BY <2>1, <2>2 DEF SplitPlan
<1>4. TypeOK'
  BY <1>1, <1>2, <1>3, <1>c, TypedIs, TypedNext
<1>5. JobOf(t)' /\ VersionsOf(t)'
  BY <1>1, <1>3, <1>c, <1>v DEF JobOf, VersionsOf, Past, PreRun
<1>6. count.events <= count'.events
  BY <1>1, <1>c, CountsTyped
<1>7. doc'.content <= count'.events /\ Asked' /\ Unmoved'
  BY <1>2, <1>4, <1>6, RequestSame
<1>8. ASSUME count'.splits <= 1 PROVE OneSplit'
  <2>1. count.splits = 0
    BY <1>1, <1>8, <1>c, CountsTyped
  <2>2. OneSplit
    BY <2>1 DEF Inv
  <2>3. Gate /\ Alone /\ \A u \in Threads : ThreadOf(u)
    BY <2>2 DEF OneSplit
  <2>4. run.status = "none" /\ doc.status # "ready" /\ \A u \in Threads : at[u].pc \notin Past
    BY <2>1, <2>3 DEF Gate, Alone
  <2>5. Alone'
    <3>1. \A u \in Threads : u # t => at'[u].pc \notin Past
      BY <1>3, <2>4 DEF Others, Same
    <3> QED
      BY <1>c, <2>1, <3>1 DEF Alone
  <2>6. Gate'
    BY <1>2, <1>c, <2>1, <2>3 DEF Gate, Whole, Complete, Accounted
  <2>7. ASSUME NEW u \in Threads PROVE ThreadOf(u)'
    <3>1. CASE u = t
      <4>1. at[t].job = "split"
        BY <1>1 DEF JobOf
      <4>2. at[t].won => Complete(run)
        BY <2>3 DEF ThreadOf
      <4> QED
        BY <1>2, <1>3, <2>4, <3>1, <4>1, <4>2, NamesApart DEF ThreadOf, Complete, Accounted
    <3>2. CASE u # t
      <4>1. /\ at'[u].pc = at[u].pc /\ at'[u].job = at[u].job
            /\ at'[u].bad = at[u].bad /\ at'[u].won = at[u].won
        BY <1>3, <3>2 DEF Others, Same
      <4>2. ThreadOf(u)
        BY <2>3
      <4> QED
        BY <1>2, <4>1, <4>2 DEF ThreadOf, Whole, Complete, Accounted
    <3> QED
      BY <3>1, <3>2
  <2> QED
    BY <2>5, <2>6, <2>7 DEF OneSplit
<1> QED
  BY <1>3, <1>4, <1>5, <1>6, <1>7, <1>8, InvFrom

-----------------------------------------------------------------------------
(* The requests, and the time the sweeps wait for                           *)

\* A step of no thread: the rows and the run stay, and a document is at most
\* put back to indexing.
LEMMA RequestStep ==
  ASSUME Inv, TypeOK', UNCHANGED <<chunks, run, at>>,
         count'.splits = count.splits, count.events <= count'.events,
         doc'.status \in {doc.status, "indexing"},
         \A k \in Jobs \ {"split"} : pending'[k] = pending[k],
         doc'.content <= count'.events, Asked', Unmoved'
  PROVE  Inv'
<1>1. TypeOK
  BY DEF Inv
<1>2. count.events \in Nat /\ count'.events \in Nat
  <2>1. count'.events \in 0 .. MaxEvents
    BY DEF TypeOK
  <2> QED
    BY <1>1, <2>1, CountsTyped, BoundsAssumption
<1>3. ASSUME NEW u \in Threads PROVE JobOf(u)' /\ VersionsOf(u)'
  <2>1. JobOf(u) /\ VersionsOf(u)
    BY DEF Inv
  <2>2. 0 .. count.events \subseteq 0 .. count'.events
    BY <1>2
  <2>3. JobOf(u)'
    BY <2>1 DEF JobOf
  <2>4. VersionsOf(u)'
    BY <2>1, <2>2 DEF VersionsOf
  <2> QED
    BY <2>3, <2>4
<1>4. ASSUME count'.splits <= 1 PROVE OneSplit'
  <2>1. OneSplit
    BY <1>4 DEF Inv
  <2>2. Alone /\ Gate /\ \A u \in Threads : ThreadOf(u)
    BY <2>1 DEF OneSplit
  <2>3. Alone'
    BY <2>2 DEF Alone
  <2>4. Gate'
    <3>1. "finalize" \in Jobs \ {"split"}
      BY DEF Jobs
    <3> QED
      BY <2>2, <3>1 DEF Gate, Whole, Complete, Accounted
  <2>5. ASSUME NEW u \in Threads PROVE ThreadOf(u)'
    <3>1. ThreadOf(u)
      BY <2>2
    <3> QED
      BY <3>1 DEF ThreadOf, Whole, Complete, Accounted
  <2> QED
    BY <2>3, <2>4, <2>5 DEF OneSplit
<1> QED
  BY <1>3, <1>4 DEF Inv

\* The versions a request can read.
LEMMA CurrentVersion ==
  ASSUME Inv
  PROVE  /\ TypeOK /\ doc.content \in 0 .. count.events /\ doc.content \in Versions
         /\ doc.content # None /\ doc.text \in Rows /\ doc.status \in {"indexing", "ready", "error"}
         /\ count.events \in Nat
<1>1. TypeOK /\ doc.content <= count.events
  BY DEF Inv
<1> QED
  BY <1>1, CountsTyped, TypedIs, NoneAssumption DEF Docs, Versions

LEMMA EditKeeps ==
  ASSUME Inv, Edit PROVE Inv'
<1>1. /\ TypeOK /\ doc.content \in 0 .. count.events /\ doc.text \in Rows
      /\ doc.status \in {"indexing", "ready", "error"}
  BY CurrentVersion
<1>2. UNCHANGED <<chunks, staged, run, pending, at>>
  BY DEF Edit
<1>3. /\ count' \in Counts /\ count'.splits = count.splits /\ count'.events = count.events + 1
      /\ count.events \in 0 .. MaxEvents
  <2>1. Event
    BY DEF Edit, Serve
  <2> QED
    BY <1>1, <2>1, EventIs
<1>4. /\ doc.content + 1 \in Versions /\ doc.content + 1 <= count'.events
      /\ count.events <= count'.events
  <2>1. count'.events \in 0 .. MaxEvents
    BY <1>3 DEF Counts
  <2> QED
    BY <1>1, <1>3, <2>1, BoundsAssumption DEF Versions
<1>5. /\ doc' \in Docs /\ old' \subseteq {"run", "doc"}
      /\ doc'.content = doc.content + 1 /\ doc'.status = doc.status
  <2>1. DocWritten(doc.content + 1, doc.status, doc.text)
    BY DEF Edit
  <2> QED
    BY <1>1, <1>4, <2>1, DocWrittenIs
<1>6. /\ request' \in Asks /\ request'.pc = "check" /\ request'.kind = "edit"
      /\ request'.v = None /\ request'.fresh = FALSE
  BY NoRequestType DEF Edit, Serve, Asks
<1>7. TypeOK'
  BY <1>1, <1>2, <1>3, <1>5, <1>6, TypedIs, TypedNext
<1>8. Asked' /\ Unmoved'
  BY <1>6 DEF Asked, Unmoved
<1> QED
  BY <1>2, <1>3, <1>4, <1>5, <1>7, <1>8, RequestStep

LEMMA ReindexReadKeeps ==
  ASSUME Inv, ReindexRead PROVE Inv'
<1>1. /\ TypeOK /\ doc.content \in 0 .. count.events /\ doc.content \in Versions
      /\ doc.content # None /\ doc.text \in Rows /\ count.events \in Nat
  BY CurrentVersion
<1>2. UNCHANGED <<doc, chunks, staged, run, pending, at, old>>
  BY DEF ReindexRead
<1>3. count' \in Counts /\ count'.splits = count.splits /\ count'.events = count.events + 1
  <2>1. Event
    BY DEF ReindexRead, Serve
  <2> QED
    BY <1>1, <2>1, EventIs
<1>4. /\ request' \in Asks /\ request'.pc = "flip" /\ request'.kind = "reindex"
      /\ request'.v = doc.content /\ request'.fresh = FALSE
  BY <1>1, NoRequestType DEF ReindexRead, Serve, Asks, Seen
<1>5. TypeOK'
  BY <1>1, <1>2, <1>3, <1>4, TypedIs, TypedNext
<1>6. doc.content \in 0 .. count'.events /\ count.events <= count'.events
  BY <1>1, <1>3
<1>7. Asked' /\ Unmoved'
  BY <1>1, <1>4, <1>6 DEF Asked, Unmoved
<1> QED
  BY <1>1, <1>2, <1>3, <1>5, <1>6, <1>7, RequestStep

LEMMA RequeueReadKeeps ==
  ASSUME Inv, RequeueRead PROVE Inv'
<1>1. /\ TypeOK /\ doc.content \in 0 .. count.events /\ doc.content \in Versions
      /\ doc.content # None /\ doc.text \in Rows /\ count.events \in Nat
  BY CurrentVersion
<1>2. UNCHANGED <<doc, chunks, staged, run, pending, at, old>>
  BY DEF RequeueRead
<1>3. count' \in Counts /\ count'.splits = count.splits /\ count'.events = count.events + 1
  <2>1. Event
    BY DEF RequeueRead, Serve
  <2> QED
    BY <1>1, <2>1, EventIs
<1>4. /\ request' \in Asks /\ request'.pc = "check" /\ request'.kind = "requeue"
      /\ request'.v = doc.content /\ request'.rows = doc.text
  BY <1>1 DEF RequeueRead, Serve, Asks, Seen
<1>5. TypeOK'
  BY <1>1, <1>2, <1>3, <1>4, TypedIs, TypedNext
<1>6. doc.content \in 0 .. count'.events /\ count.events <= count'.events
  BY <1>1, <1>3
<1>7. Asked' /\ Unmoved'
  BY <1>1, <1>2, <1>4, <1>6 DEF Asked, Unmoved
<1> QED
  BY <1>1, <1>2, <1>3, <1>5, <1>6, <1>7, RequestStep

\* What a request that flips the document writes.
LEMMA RequestVersion ==
  ASSUME Inv, request.kind \in {"reindex", "requeue"}
  PROVE  request.v \in 0 .. count.events /\ request.v \in Versions /\ request.rows \in Rows
<1>1. TypeOK /\ Asked
  BY DEF Inv
<1>2. request.v \in 0 .. count.events
  BY <1>1 DEF Asked
<1>3. request.v \in Seen /\ request.v # None /\ request.rows \in Rows
  BY <1>1, TypedIs DEF Asks, Asked
<1> QED
  BY <1>2, <1>3 DEF Seen

LEMMA ReindexFlipKeeps ==
  ASSUME Inv, ReindexFlip PROVE Inv'
<1>1. TypeOK /\ Asked /\ Unmoved /\ request.kind = "reindex"
  BY DEF Inv, ReindexFlip
<1>2. UNCHANGED <<chunks, staged, run, pending, at, count>>
  BY DEF ReindexFlip
<1>3. request.v \in 0 .. count.events /\ request.v \in Versions /\ request.rows \in Rows
  BY <1>1, RequestVersion
<1>4. /\ doc' \in Docs /\ old' \subseteq {"run", "doc"}
      /\ doc'.content = request.v /\ doc'.status = "indexing"
  <2>1. DocWritten(request.v, "indexing", request.rows)
    BY DEF ReindexFlip
  <2> QED
    BY <1>1, <1>3, <2>1, DocWrittenIs
<1>5. /\ request' \in Asks /\ request'.pc = "check" /\ request'.kind = "reindex"
      /\ request'.v = request.v /\ request'.fresh = request.fresh
  <2>1. request \in Asks /\ request' = [request EXCEPT !.pc = "check"]
    BY <1>1, TypedIs DEF ReindexFlip
  <2> QED
    BY <1>1, <2>1 DEF Asks
<1>6. TypeOK'
  BY <1>1, <1>2, <1>4, <1>5, TypedIs, TypedNext
<1>7. Asked' /\ Unmoved'
  BY <1>1, <1>2, <1>5 DEF Asked, Unmoved
<1>8. doc'.content <= count'.events /\ count.events <= count'.events
  BY <1>1, <1>2, <1>3, <1>4, CountsTyped
<1> QED
  BY <1>2, <1>4, <1>6, <1>7, <1>8, RequestStep

\* What an enqueue leaves of the request.
LEMMA AskedAgain ==
  ASSUME TypeOK, Asked, Unmoved, NEW q \in {Enqueued, [request EXCEPT !.pc = "create"]},
         UNCHANGED <<doc, count>>, request' = q
  PROVE  request' \in Asks /\ Asked' /\ Unmoved'
<1>1. request \in Asks
  BY TypedIs
<1>2. CASE q = NoRequest
  BY <1>2, NoRequestType DEF Asked, Unmoved
<1>3. CASE request.kind = "requeue" /\ q = [request EXCEPT !.pc = "flip"]
  <2>1. /\ request' \in Asks /\ request'.pc = "flip" /\ request'.kind = "requeue"
        /\ request'.v = request.v /\ request'.fresh = request.fresh /\ request'.rows = request.rows
    BY <1>1, <1>3 DEF Asks
  <2> QED
    BY <1>3, <2>1 DEF Asked, Unmoved
<1>4. CASE q = [request EXCEPT !.pc = "create"]
  <2>1. /\ request' \in Asks /\ request'.pc = "create" /\ request'.kind = request.kind
        /\ request'.v = request.v /\ request'.fresh = request.fresh /\ request'.rows = request.rows
    BY <1>1, <1>4 DEF Asks
  <2> QED
    BY <2>1 DEF Asked, Unmoved
<1> QED
  BY <1>2, <1>3, <1>4 DEF Enqueued

LEMMA EnqueueCheckKeeps ==
  ASSUME Inv, EnqueueCheck PROVE Inv'
<1>1. TypeOK /\ Asked /\ Unmoved /\ doc.content <= count.events
  BY DEF Inv
<1>2. UNCHANGED <<doc, chunks, staged, run, pending, at, old, count>>
  BY DEF EnqueueCheck
<1>3. request' \in Asks /\ Asked' /\ Unmoved'
  <2>1. PICK q \in {Enqueued, [request EXCEPT !.pc = "create"]} : request' = q
    BY DEF EnqueueCheck
  <2> QED
    BY <1>1, <1>2, <2>1, AskedAgain
<1>4. TypeOK'
  BY <1>1, <1>2, <1>3, TypedIs, TypedNext
<1>5. count.events <= count'.events
  BY <1>1, <1>2, CountsTyped
<1> QED
  BY <1>1, <1>2, <1>3, <1>4, <1>5, RequestStep

LEMMA EnqueueCreateKeeps ==
  ASSUME Inv, EnqueueCreate PROVE Inv'
<1>1. TypeOK /\ Asked /\ Unmoved /\ doc.content <= count.events
  BY DEF Inv
<1>2. UNCHANGED <<doc, chunks, staged, run, at, old, count>>
  BY DEF EnqueueCreate
<1>3. request' \in Asks /\ Asked' /\ Unmoved'
  <2>1. request' = Enqueued
    BY DEF EnqueueCreate
  <2> QED
    BY <1>1, <1>2, <2>1, AskedAgain
<1>4. /\ pending' \in [Jobs -> 0 .. MaxPending]
      /\ \A k \in Jobs \ {"split"} : pending'[k] = pending[k]
  <2>1. Add("split") /\ "split" \in Jobs
    BY DEF EnqueueCreate, Jobs
  <2> QED
    BY <1>1, <2>1, AddIs
<1>5. TypeOK'
  BY <1>1, <1>2, <1>3, <1>4, TypedIs, TypedNext
<1>6. count.events <= count'.events
  BY <1>1, <1>2, CountsTyped
<1> QED
  BY <1>1, <1>2, <1>3, <1>4, <1>5, <1>6, RequestStep

LEMMA RequeueFlipKeeps ==
  ASSUME Inv, RequeueFlip PROVE Inv'
<1>1. TypeOK /\ Asked /\ Unmoved /\ request.kind = "requeue" /\ doc.content <= count.events
  BY DEF Inv, RequeueFlip
<1>2. UNCHANGED <<chunks, staged, run, pending, at, count>>
  BY DEF RequeueFlip
<1>3. request.v \in 0 .. count.events /\ request.v \in Versions /\ request.rows \in Rows
  BY <1>1, RequestVersion
<1>4. /\ doc' \in Docs /\ old' \subseteq {"run", "doc"}
      /\ doc'.content <= count.events /\ doc'.status \in {doc.status, "indexing"}
  <2>1. CASE RevisionHolds(request)
    <3>1. DocWritten(request.v, "indexing", request.rows)
      BY <2>1 DEF RequeueFlip
    <3>2. /\ doc' \in Docs /\ old' \subseteq {"run", "doc"}
          /\ doc'.content = request.v /\ doc'.status = "indexing"
      BY <1>1, <1>3, <3>1, DocWrittenIs
    <3>3. request.v <= count.events
      BY <1>1, <1>3, CountsTyped
    <3> QED
      BY <3>2, <3>3
  <2>2. CASE ~RevisionHolds(request)
    <3>1. doc' = doc /\ old' = old
      BY <2>2 DEF RequeueFlip
    <3> QED
      BY <1>1, <3>1, TypedIs
  <2> QED
    BY <2>1, <2>2
<1>5. request' \in Asks /\ Asked' /\ Unmoved'
  <2>1. request' = NoRequest
    BY DEF RequeueFlip
  <2> QED
    BY <2>1, NoRequestType DEF Asked, Unmoved
<1>6. TypeOK'
  BY <1>1, <1>2, <1>4, <1>5, TypedIs, TypedNext
<1>7. count.events <= count'.events
  BY <1>1, <1>2, CountsTyped
<1> QED
  BY <1>2, <1>4, <1>5, <1>6, <1>7, RequestStep

LEMMA RequestDiesKeeps ==
  ASSUME Inv, RequestDies PROVE Inv'
<1>1. TypeOK /\ doc.content <= count.events /\ doc.content \in Nat /\ count.events \in Nat
  BY CountsTyped DEF Inv
<1>2. UNCHANGED <<doc, chunks, staged, run, pending, at, old>>
  BY DEF RequestDies
<1>3. count' \in Counts /\ count'.splits = count.splits /\ count'.events = count.events + 1
  <2>1. Event
    BY DEF RequestDies
  <2> QED
    BY <1>1, <2>1, EventIs
<1>4. request' \in Asks /\ Asked' /\ Unmoved'
  <2>1. request' = NoRequest
    BY DEF RequestDies
  <2> QED
    BY <2>1, NoRequestType DEF Asked, Unmoved
<1>5. TypeOK'
  BY <1>1, <1>2, <1>3, <1>4, TypedIs, TypedNext
<1>6. doc'.content <= count'.events /\ count.events <= count'.events
  BY <1>1, <1>2, <1>3
<1> QED
  BY <1>2, <1>3, <1>4, <1>5, <1>6, RequestStep

LEMMA AgeKeeps ==
  ASSUME Inv, NEW row \in {"run", "doc"}, Age(row) PROVE Inv'
<1>1. /\ TypeOK /\ Asked /\ Unmoved
      /\ doc.content <= count.events /\ doc.content \in Nat /\ count.events \in Nat
  BY CountsTyped DEF Inv
<1>2. UNCHANGED <<doc, chunks, staged, run, pending, at, request>> /\ old' \subseteq {"run", "doc"}
  BY <1>1, TypedIs DEF Age
<1>3. count' \in Counts /\ count'.splits = count.splits /\ count.events <= count'.events
  <2>1. CASE Event
    BY <1>1, <2>1, EventIs
  <2>2. CASE count' = count
    BY <1>1, <2>2, TypedIs
  <2> QED
    BY <2>1, <2>2 DEF Age
<1>4. TypeOK'
  BY <1>1, <1>2, <1>3, TypedIs, TypedNext
<1>5. doc'.content <= count'.events /\ Asked' /\ Unmoved'
  BY <1>2, <1>3, <1>4, RequestSame
<1> QED
  BY <1>2, <1>3, <1>4, <1>5, RequestStep

-----------------------------------------------------------------------------
(* The theorems                                                             *)

LEMMA InvInit == Init => Inv
<1> SUFFICES ASSUME Init PROVE Inv
  OBVIOUS
<1>1. TypeOK
  <2>1. doc \in Docs /\ chunks \in Rows /\ staged \in Rows
    BY NoRowsType, BoundsAssumption DEF Init, Docs, Versions
  <2>2. run \in Runs /\ old \subseteq {"run", "doc"} /\ count \in Counts
    BY BoundsAssumption DEF Init, Runs, Counts
  <2>3. pending \in [Jobs -> 0 .. MaxPending]
    BY BoundsAssumption DEF Init
  <2>4. at \in [Threads -> Tasks]
    BY IdleType DEF Init
  <2>5. request \in Asks
    BY NoRequestType DEF Init, Asks
  <2> QED
    BY <2>1, <2>2, <2>3, <2>4, <2>5, TypedIs
<1>2. /\ request.v = None /\ request.pc = "check" /\ request.kind = "upload"
      /\ request.fresh = FALSE /\ doc.content = 0 /\ count.events = 0 /\ count.splits = 0
  BY NoRequestType DEF Init, Asks
<1>3. \A t \in Threads : at[t] = Idle
  BY DEF Init
<1>4. Asked /\ Unmoved /\ doc.content <= count.events
  BY <1>2 DEF Asked, Unmoved
<1>5. ASSUME NEW t \in Threads PROVE JobOf(t) /\ VersionsOf(t) /\ ThreadOf(t) /\ at[t].pc \notin Past
  BY <1>3, IdleType, NoneJob DEF JobOf, VersionsOf, ThreadOf, Past, PreRun
<1>6. /\ run.status = "none" /\ run.done = {} /\ run.failed = {} /\ ~run.finalized
      /\ doc.status = "indexing" /\ \A j \in Jobs : pending[j] = 0
  BY DEF Init
<1>7. Gate
  BY <1>6 DEF Gate, Jobs
<1>8. Alone
  BY <1>5 DEF Alone
<1> QED
  BY <1>1, <1>4, <1>5, <1>7, <1>8 DEF Inv, OneSplit

LEMMA InvStep == Inv /\ [Next]_vars => Inv'
<1> SUFFICES ASSUME Inv, [Next]_vars PROVE Inv'
  OBVIOUS
<1>1. CASE Requests
  BY <1>1, EditKeeps, ReindexReadKeeps, ReindexFlipKeeps, RequeueReadKeeps, EnqueueCheckKeeps,
     EnqueueCreateKeeps, RequeueFlipKeeps, RequestDiesKeeps DEF Requests
<1>2. CASE \E row \in {"run", "doc"} : Age(row)
  BY <1>2, AgeKeeps
<1>3. ASSUME NEW t \in Threads,
             \/ \E job \in Jobs : Pop(t, job)
             \/ Crash(t) \/ Stall(t)
             \/ Split(t) \/ Process(t) \/ Claim(t) \/ Finalize(t) \/ Sweep(t)
      PROVE  Inv'
  <2>1. CASE \E job \in Jobs : Pop(t, job)
    BY <2>1, PopKeeps
  <2>2. CASE Crash(t) \/ Stall(t)
    BY <2>2, CrashKeeps, StallKeeps
  <2>3. CASE Split(t)
    BY <2>3, SplitPlanKeeps, SplitClearKeeps, SplitUnstageKeeps, SplitStartKeeps, SplitCreateKeeps,
       WholeDropKeeps, WholeIndexKeeps, WholePublishKeeps, WholeFailsKeeps, WholeStampKeeps DEF Split
  <2>4. CASE Process(t)
    BY <2>4, ProcessGuardKeeps, ProcessWriteKeeps, ProcessFailsKeeps, ProcessCountedKeeps,
       ProcessStageKeeps, MarkDoneKeeps DEF Process
  <2>5. CASE Claim(t)
    BY <2>5, ClaimReadKeeps, ClaimWriteKeeps, EnqueueFinalizeKeeps DEF Claim
  <2>6. CASE Finalize(t)
    BY <2>6, FinalizeGuardKeeps, FinalizeReadKeeps, FinalizeVerdictKeeps, FinalizeTidyKeeps,
       FinalizeFinishKeeps DEF Finalize
  <2>7. CASE Sweep(t)
    BY <2>7, SweepRunsKeeps, MarkFailedKeeps, SweepDocsKeeps, SweepVerdictKeeps DEF Sweep
  <2> QED
    BY <1>3, <2>1, <2>2, <2>3, <2>4, <2>5, <2>6, <2>7
<1>4. CASE UNCHANGED vars
  <2>1. TypeOK'
    BY <1>4 DEF Inv, TypeOK, vars
  <2>2. \A u \in Threads : JobOf(u)' /\ VersionsOf(u)'
    BY <1>4 DEF Inv, JobOf, VersionsOf, vars
  <2>3. doc'.content <= count'.events /\ Asked' /\ Unmoved'
    BY <1>4 DEF Inv, Asked, Unmoved, vars
  <2>4. ASSUME count'.splits <= 1 PROVE OneSplit'
    BY <1>4, <2>4 DEF Inv, OneSplit, Alone, Gate, ThreadOf, Whole, Complete, Accounted, vars
  <2> QED
    BY <2>1, <2>2, <2>3, <2>4 DEF Inv
<1> QED
  BY <1>1, <1>2, <1>3, <1>4 DEF Next

LEMMA InvAlways == Spec => []Inv
BY InvInit, InvStep, PTL DEF Spec

\* The rows, the queue and the threads' records keep their types: a version
\* written back from a stale read is one the document had, and no counter of
\* waiting jobs leaves its range.
THEOREM TypeCorrect == Spec => []TypeOK
<1>1. Inv => TypeOK
  BY DEF Inv
<1> QED
  BY <1>1, InvAlways, PTL

\* A document shown as ready has the rows of every batch, as long as one split
\* has been planned: however many deliveries, crashes, stalls and sweeps
\* (index_coordinator.py) there were.
THEOREM ReadyIsWholeHolds == Spec => []ReadyIsWhole
<1>1. Inv => ReadyIsWhole
  BY DEF Inv, OneSplit, Gate, Whole, ReadyIsWhole
<1> QED
  BY <1>1, InvAlways, PTL

\* A finalize job writes its verdict only for a run whose gate was claimed
\* after every batch had reported.
THEOREM VerdictAfterTheGateHolds == Spec => VerdictAfterTheGate
<1>1. Inv /\ [Next]_vars => [\A t \in Threads : FinalizeVerdict(t) /\ count.splits <= 1
                               => run.finalized /\ Accounted(run) = Batches]_vars
  <2> SUFFICES ASSUME Inv, NEW t \in Threads, FinalizeVerdict(t), count.splits <= 1
               PROVE  run.finalized /\ Accounted(run) = Batches
    OBVIOUS
  <2>1. at[t].job = "finalize"
    BY DEF Inv, JobOf, FinalizeVerdict
  <2>2. run.finalized
    BY <2>1 DEF Inv, OneSplit, ThreadOf
  <2> QED
    BY <2>2 DEF Inv, OneSplit, Gate, Complete
<1> QED
  BY <1>1, InvAlways, PTL DEF Spec, VerdictAfterTheGate

\* The flip of a collection re-read changes neither the content nor the text.
THEOREM FlipUndoesNothingHolds == Spec => FlipUndoesNothing
<1>1. Inv /\ [Next]_vars => [RequeueFlip => doc'.content = doc.content /\ doc'.text = doc.text]_vars
  <2> SUFFICES ASSUME Inv, RequeueFlip
               PROVE  doc'.content = doc.content /\ doc'.text = doc.text
    OBVIOUS
  <2>1. Unmoved
    BY DEF Inv
  <2>2. CASE RevisionHolds(request)
    <3>1. doc' = [content |-> request.v, status |-> "indexing", text |-> request.rows]
      BY <2>2 DEF RequeueFlip, DocWritten
    <3> QED
      BY <2>1, <2>2, <3>1 DEF Unmoved, RevisionHolds
  <2>3. CASE ~RevisionHolds(request)
    BY <2>3 DEF RequeueFlip
  <2> QED
    BY <2>2, <2>3
<1> QED
  BY <1>1, InvAlways, PTL DEF Spec, FlipUndoesNothing
=============================================================================

--------------------------- MODULE SandboxRegistry ---------------------------
(***************************************************************************)
(* The one live sandbox of an item, shared by all pods: each pod's registry *)
(* of sessions, the address the pods converge on, the heartbeat the idle    *)
(* reapers ask, and the durable copy.  The deployment modelled is the one   *)
(* with a sandbox host: handles are minted by `create`, the address store   *)
(* is wired, and the host owns the durable copy (it restores it on create   *)
(* and writes it back on request).                                          *)
(*                                                                         *)
(* One step is one call of the store or of the host.  What is written is a  *)
(* set of writes; a write-back that reconciles makes the durable copy equal *)
(* to the sandbox's, so it also deletes.                                    *)
(***************************************************************************)
EXTENDS Integers, FiniteSets

CONSTANTS
  Pods,
  Actors,      \* the tasks: requests, turns, the idle reapers
  PodOf,       \* the pod each of them runs on
  Does,        \* the operations each of them may start
  None,
  MaxCreates,  \* sandboxes the host makes
  MaxOps,      \* operations started
  MaxFaults    \* crashes of a pod and reaps by the host

Operations == {"turn", "file", "reap", "shutdown", "mirror", "close"}

ASSUME ActorsAssumption ==
  /\ IsFiniteSet(Actors)
  /\ PodOf \in [Actors -> Pods]
  /\ Does \in [Actors -> SUBSET Operations]
ASSUME BoundsAssumption == MaxCreates \in Nat /\ MaxOps \in Nat /\ MaxFaults \in Nat
ASSUME NoneAssumption == None \notin Nat /\ None \notin Actors

Handles == 1 .. MaxCreates
Writes == 1 .. MaxOps    \* named by the operation that makes them

VARIABLES
  alive,    \* the sandboxes the host runs
  created,  \* how many it has made
  box,      \* what each holds
  durable,  \* the durable copy
  address,  \* the published handle
  beat,     \* the item's heartbeat: none, fresh or old
  table,    \* the session object each pod lists, or None
  object,   \* the session objects of each pod
  at,       \* what each actor is doing
  ops,      \* operations started so far
  faults,
  acked,    \* writes that were acknowledged
  exposed   \* writes that landed where a teardown or a reap would miss them

vars == <<alive, created, box, durable, address, beat, table, object, at, ops, faults,
          acked, exposed>>
host == <<alive, created, box, durable>>
registry == <<address, beat, table, object>>
log == <<acked, exposed>>

\* Enough for the listed one and for those dropped from the table that an
\* actor of the pod still holds.
Objects == 1 .. Cardinality(Actors) + 1
NoSession == [handle |-> None, locked |-> FALSE, recent |-> FALSE]
Rest == [op |-> "none", pc |-> "idle", obj |-> None, handle |-> None, stale |-> None,
         force |-> FALSE, write |-> None, from |-> "none", tried |-> {}, listed |-> {}]

Goto(a, pc) == at' = [at EXCEPT ![a].pc = pc]
Done(a) == at' = [at EXCEPT ![a] = Rest]

\* A session object nothing refers to any more is gone.
Collected(objs) ==
  object' = [p \in Pods |-> [o \in Objects |->
     IF table'[p] = o \/ \E a \in Actors : PodOf[a] = p /\ at'[a].obj = o
     THEN objs[p][o] ELSE NoSession]]
Session(a) == object[PodOf[a]][at[a].obj]

Alive(h) == h \in alive

\* A teardown has written the sandbox back and not killed it yet.
Leaving(h) ==
  \E a \in Actors : at[a].pc \in {"unused?", "kill", "closekill"} /\ at[a].handle = h

-----------------------------------------------------------------------------
(* session(): the listed object, or a new one.                              *)

Free(p) == CHOOSE o \in Objects :
  table[p] # o /\ \A a \in Actors : PodOf[a] = p => at[a].obj # o

\* The object `session` returns, and the pod's table and objects after it.
SessionOf(p) == IF table[p] = None THEN Free(p) ELSE table[p]

GetSession(p) ==
  IF table[p] = None
  THEN /\ table' = [table EXCEPT ![p] = Free(p)]
       /\ object' = [object EXCEPT ![p][Free(p)] = [NoSession EXCEPT !.recent = TRUE]]
  ELSE UNCHANGED <<table, object>>

Start(a, op) ==
  /\ at[a].pc = "idle"
  /\ op \in Does[a]
  /\ ops < MaxOps
  /\ ops' = ops + 1

TurnBegin(a) ==
  /\ Start(a, "turn")
  /\ GetSession(PodOf[a])
  /\ at' = [at EXCEPT ![a] = [Rest EXCEPT !.op = "turn", !.pc = "lock", !.write = ops + 1,
                                          !.obj = SessionOf(PodOf[a])]]
  /\ UNCHANGED <<host, address, beat, faults, log>>

-----------------------------------------------------------------------------
(* ensure_handle (turns) and rebuild_io_handle (file operations)            *)

\* The handle goes to the session; ensure_handle also lists the session, and
\* an object listed meanwhile learns the handle too.
Hold(a, h) ==
  LET p == PodOf[a]
      o == at[a].obj
      listed == IF table[p] = None THEN o ELSE table[p]
  IN /\ at' = [at EXCEPT ![a].pc = "bump", ![a].handle = h, ![a].stale = None]
     /\ IF at[a].op = "turn"
        THEN /\ table' = [table EXCEPT ![p] = listed]
             /\ object' = [object EXCEPT ![p][o].handle = h, ![p][listed].handle = h]
        ELSE /\ UNCHANGED table
             /\ object' = [object EXCEPT ![p][o].handle = h]

\* ensure_handle takes the lock and probes the handle it has, unless its
\* caller was told that the sandbox is gone; a rebuild does not probe.
Reusable(a) ==
  /\ at[a].op = "turn" /\ ~at[a].force
  /\ Session(a).handle # None /\ Alive(Session(a).handle)

Lock(a) ==
  /\ at[a].pc = "lock"
  /\ ~Session(a).locked
  /\ object' = [object EXCEPT ![PodOf[a]][at[a].obj].locked = TRUE]
  /\ IF Reusable(a)
     THEN at' = [at EXCEPT ![a].pc = "bump", ![a].handle = Session(a).handle]
     ELSE Goto(a, "acquire")
  /\ UNCHANGED <<host, address, beat, table, ops, faults, log>>

\* _acquire: converge on a live address, or build one and remember the dead.
AcquireRead(a) ==
  /\ at[a].pc = "acquire"
  /\ IF address # None /\ Alive(address)
     THEN Hold(a, address)
     ELSE /\ at' = [at EXCEPT ![a].pc = "create", ![a].stale = address]
          /\ UNCHANGED <<table, object>>
  /\ UNCHANGED <<host, address, beat, ops, faults, log>>

\* Mutant: a sandbox comes up empty.
Restored_Empty == {}

\* The host restores the durable copy before it says the sandbox is ready.
Restored == durable

Create(a) ==
  /\ at[a].pc = "create"
  /\ created < MaxCreates
  /\ created' = created + 1
  /\ alive' = alive \cup {created + 1}
  /\ box' = [box EXCEPT ![created + 1] = Restored]
  /\ at' = [at EXCEPT ![a].pc = "publish", ![a].handle = created + 1]
  /\ UNCHANGED <<durable, registry, ops, faults, log>>

\* Mutant: the address is written without compare-and-set.
SlotIsOurs_Blind(stale) == TRUE

\* claim the empty slot, or swap the dead address out; the loser converges.
SlotIsOurs(stale) == address = stale

Publish(a) ==
  /\ at[a].pc = "publish"
  /\ IF SlotIsOurs(at[a].stale)
     THEN address' = at[a].handle /\ Hold(a, at[a].handle)
     ELSE /\ at' = [at EXCEPT ![a].pc = "orphan", ![a].stale = address]
          /\ UNCHANGED <<address, table, object>>
  /\ UNCHANGED <<host, beat, ops, faults, log>>

KillOrphan(a) ==
  /\ at[a].pc = "orphan"
  /\ alive' = alive \ {at[a].handle}
  /\ Hold(a, at[a].stale)
  /\ UNCHANGED <<created, box, durable, address, beat, ops, faults, log>>

Bump(a) ==
  /\ at[a].pc = "bump"
  /\ beat' = "fresh"
  /\ object' = [object EXCEPT ![PodOf[a]][at[a].obj].locked = FALSE,
                              ![PodOf[a]][at[a].obj].recent = TRUE]
  /\ at' = [at EXCEPT ![a].pc = "use", ![a].force = FALSE]
  /\ UNCHANGED <<host, address, table, ops, faults, log>>

-----------------------------------------------------------------------------
(* File operations: the facade's routing.                                   *)

FileResolve(a) ==
  /\ Start(a, "file")
  /\ LET s == table[PodOf[a]]
         cached == IF s = None THEN None ELSE object[PodOf[a]][s].handle
         h == IF cached = None THEN address ELSE cached
     IN at' = [at EXCEPT ![a] = [Rest EXCEPT !.op = "file", !.handle = h, !.write = ops + 1,
                                             !.pc = IF h = None THEN "cold" ELSE "check"]]
  /\ UNCHANGED <<host, registry, faults, log>>

FileCheck(a) ==
  /\ at[a].pc = "check"
  /\ IF Alive(at[a].handle)
     THEN Goto(a, "use") /\ UNCHANGED <<table, object>>
     ELSE /\ GetSession(PodOf[a])
          /\ at' = [at EXCEPT ![a].pc = "lock", ![a].obj = SessionOf(PodOf[a])]
  /\ UNCHANGED <<host, address, beat, ops, faults, log>>

ColdWrite(a) ==
  /\ at[a].pc = "cold"
  /\ durable' = durable \cup {at[a].write}
  /\ acked' = acked \cup {at[a].write}
  /\ exposed' = IF alive = {} THEN exposed ELSE exposed \cup {at[a].write}
  /\ Done(a)
  /\ UNCHANGED <<alive, created, box, registry, ops, faults>>

\* The operation itself.  On a dead handle a turn's exec forces a rebuild, a
\* file operation fails.
Use(a) ==
  /\ at[a].pc = "use"
  /\ LET h == at[a].handle
         w == at[a].write
     IN IF Alive(h)
        THEN /\ box' = [box EXCEPT ![h] = @ \cup {w}]
             /\ acked' = acked \cup {w}
             /\ exposed' = IF Leaving(h) THEN exposed \cup {w} ELSE exposed
             /\ IF at[a].op = "turn" THEN Goto(a, "flush") ELSE Done(a)
        ELSE /\ UNCHANGED <<box, log>>
             /\ IF at[a].op = "turn"
                THEN at' = [at EXCEPT ![a].pc = "lock", ![a].force = TRUE]
                ELSE Done(a)
  /\ UNCHANGED <<alive, created, durable, address, beat, table, ops, faults>>
  /\ Collected(object)

\* The write-back of a live sandbox that also deletes.
Reconcile(h) == durable' = box[h]

\* The turn's end reconciles the handle of the listed session.
Flush(a) ==
  /\ at[a].pc = "flush"
  /\ LET s == table[PodOf[a]]
         h == IF s = None THEN None ELSE object[PodOf[a]][s].handle
     IN IF h # None /\ Alive(h) THEN Reconcile(h) ELSE UNCHANGED durable
  /\ Done(a)
  /\ UNCHANGED <<alive, created, box, address, beat, table, ops, faults, log>>
  /\ Collected(object)

-----------------------------------------------------------------------------
(* kill_idle, close_all and mirror_warm                                     *)

Listed(p) == IF table[p] = None THEN None ELSE object[p][table[p]].handle

ReapPick(a) ==
  /\ Start(a, "reap")
  /\ LET p == PodOf[a]
         o == table[p]
     IN /\ o # None /\ ~object[p][o].recent /\ ~object[p][o].locked
        /\ IF object[p][o].handle = None
           THEN table' = [table EXCEPT ![p] = None] /\ UNCHANGED at
           ELSE /\ at' = [at EXCEPT ![a] = [Rest EXCEPT !.op = "reap", !.pc = "idle?",
                                                        !.obj = o]]
                /\ UNCHANGED table
  /\ UNCHANGED <<host, address, beat, faults, log>>
  /\ Collected(object)

ReapRead(a) ==
  /\ at[a].pc = "idle?"
  /\ IF beat = "fresh"
     THEN table' = [table EXCEPT ![PodOf[a]] = None] /\ Done(a)
     ELSE Goto(a, "writeback") /\ UNCHANGED table
  /\ UNCHANGED <<host, address, beat, ops, faults, log>>
  /\ Collected(object)

\* close_all drops the session first and asks the fleet after the write-back.
Shutdown(a) ==
  /\ Start(a, "shutdown")
  /\ table[PodOf[a]] # None
  /\ table' = [table EXCEPT ![PodOf[a]] = None]
  /\ at' = IF Listed(PodOf[a]) = None THEN at
           ELSE [at EXCEPT ![a] = [Rest EXCEPT !.op = "shutdown", !.pc = "writeback",
                                               !.obj = table[PodOf[a]]]]
  /\ UNCHANGED <<host, address, beat, faults, log>>
  /\ Collected(object)

\* A reaper whose session was emptied meanwhile has nothing to kill and drops
\* it; a write-back that finds the sandbox gone ends the matter.
Writeback(a) ==
  /\ at[a].pc = "writeback"
  /\ LET h == Session(a).handle IN
       IF h # None /\ Alive(h)
       THEN /\ Reconcile(h)
            /\ at' = [at EXCEPT ![a].handle = h,
                                ![a].pc = IF at[a].op = "reap" THEN "kill" ELSE "unused?"]
            /\ UNCHANGED table
       ELSE /\ Done(a)
            /\ table' = IF h = None /\ at[a].op = "reap"
                        THEN [table EXCEPT ![PodOf[a]] = None] ELSE table
            /\ UNCHANGED durable
  /\ UNCHANGED <<alive, created, box, address, beat, ops, faults, log>>
  /\ Collected(object)

ShutdownRead(a) ==
  /\ at[a].pc = "unused?"
  /\ IF beat = "fresh" THEN Done(a) ELSE Goto(a, "kill")
  /\ UNCHANGED <<host, address, beat, table, ops, faults, log>>
  /\ Collected(object)

\* The handle killed is the one the session holds by now.
Kill(a) ==
  /\ at[a].pc = "kill"
  /\ LET h == Session(a).handle IN
       /\ alive' = alive \ {h}
       /\ exposed' = IF h \in alive /\ h # at[a].handle
                     THEN exposed \cup (box[h] \ durable) ELSE exposed
       /\ IF h = None THEN Done(a)
          ELSE Goto(a, IF at[a].op = "reap" THEN "drop" ELSE "forget")
  /\ UNCHANGED <<created, box, durable, address, beat, table, ops, faults, acked>>
  /\ Collected(object)

ReapDrop(a) ==
  /\ at[a].pc = "drop"
  /\ table' = [table EXCEPT ![PodOf[a]] = None]
  /\ IF table[PodOf[a]] = None THEN Done(a) ELSE Goto(a, "forget")
  /\ UNCHANGED <<host, address, beat, ops, faults, log>>
  /\ Collected(object)

Forget(a) ==
  /\ at[a].pc = "forget"
  /\ beat' = "none"
  /\ IF at[a].op = "close" THEN Goto(a, "pop") ELSE Done(a)
  /\ UNCHANGED <<host, address, table, ops, faults, log>>
  /\ Collected(object)

\* The checkpoint adds and never deletes.
Mirror(a) ==
  /\ Start(a, "mirror")
  /\ Listed(PodOf[a]) # None /\ Alive(Listed(PodOf[a]))
  /\ durable' = durable \cup box[Listed(PodOf[a])]
  /\ UNCHANGED <<alive, created, box, registry, at, faults, log>>

-----------------------------------------------------------------------------
(* close_session: the session's handle under its lock, then the address,    *)
(* then what the host says it runs, until one of them was killed here;      *)
(* `tried` keeps a source from repeating another's handle.                  *)

CloseBegin(a) ==
  /\ Start(a, "close")
  /\ LET o == table[PodOf[a]]
         alone == \A b \in Actors : at[b] = Rest
     IN at' = [at EXCEPT ![a] = [Rest EXCEPT !.op = "close", !.obj = o,
                                !.write = IF alone THEN ops + 1 ELSE None,
                                !.pc = IF o = None THEN "published" ELSE "take"]]
  /\ UNCHANGED <<host, registry, faults, log>>

Tear(a, h, source) ==
  at' = [at EXCEPT ![a].pc = "teardown", ![a].handle = h, ![a].from = source,
                   ![a].tried = @ \cup {h}, ![a].listed = @ \ {h}]

\* The session is still the listed one, and it has a sandbox to end.
Takes(p, o) == table[p] = o /\ object[p][o].handle # None

CloseTake(a) ==
  /\ at[a].pc = "take"
  /\ ~Session(a).locked
  /\ LET p == PodOf[a]
         o == at[a].obj
     IN IF Takes(p, o)
        THEN /\ object' = [object EXCEPT ![p][o].handle = None, ![p][o].locked = TRUE]
             /\ Tear(a, object[p][o].handle, "session")
        ELSE Goto(a, "published") /\ UNCHANGED object
  /\ UNCHANGED <<host, address, beat, table, ops, faults, log>>

ClosePublished(a) ==
  /\ at[a].pc = "published"
  /\ IF address # None /\ address \notin at[a].tried
     THEN Tear(a, address, "address")
     ELSE Goto(a, "list")
  /\ UNCHANGED <<host, registry, ops, faults, log>>

\* One replica of the host answers, for the sandboxes that are on it.
CloseList(a) ==
  /\ at[a].pc = "list"
  /\ \E here \in SUBSET alive :
       at' = [at EXCEPT ![a].pc = "unrecorded", ![a].listed = here \ at[a].tried]
  /\ UNCHANGED <<host, registry, ops, faults, log>>

CloseUnrecorded(a) ==
  /\ at[a].pc = "unrecorded"
  /\ \/ \E h \in at[a].listed : Tear(a, h, "listing")
     \/ at[a].listed = {} /\ Goto(a, "forget")
  /\ UNCHANGED <<host, registry, ops, faults, log>>

\* Mutant: a sandbox that was already gone ends the search.
Ended_Gone(killed) == TRUE

\* What close_session does after a teardown: the search ends when a sandbox was
\* killed by it, not when one was already gone.  The session's handle was torn
\* down under the session's lock.
Ended(killed) == killed

TornDown(a, killed) ==
  /\ Goto(a, CASE at[a].from = "listing" -> "unrecorded"
               [] Ended(killed) -> "forget"
               [] at[a].from = "session" -> "published"
               [] OTHER -> "list")
  /\ object' = IF at[a].from = "session"
               THEN [object EXCEPT ![PodOf[a]][at[a].obj].locked = FALSE] ELSE object

Teardown(a) ==
  /\ at[a].pc = "teardown"
  /\ LET h == at[a].handle IN
       IF Alive(h)
       THEN /\ Reconcile(h)
            /\ exposed' = IF h = address THEN exposed ELSE exposed \cup (durable \ box[h])
            /\ Goto(a, "closekill")
            /\ UNCHANGED object
       ELSE TornDown(a, FALSE) /\ UNCHANGED <<durable, exposed>>
  /\ UNCHANGED <<alive, created, box, address, beat, table, ops, faults, acked>>

CloseKill(a) ==
  /\ at[a].pc = "closekill"
  /\ alive' = alive \ {at[a].handle}
  /\ TornDown(a, Alive(at[a].handle))
  /\ UNCHANGED <<created, box, durable, address, beat, table, ops, faults, log>>

ClosePop(a) ==
  /\ at[a].pc = "pop"
  /\ LET p == PodOf[a]
         o == at[a].obj
     IN table' = [table EXCEPT ![p] =
          IF o = None \/ (@ = o /\ object[p][o].handle = None) THEN None ELSE @]
  /\ Done(a)
  /\ UNCHANGED <<host, address, beat, ops, faults, log>>
  /\ Collected(object)

-----------------------------------------------------------------------------
(* Time, the host's own reaper, and crashes.                                *)

\* The idle threshold is hours: it does not pass within an operation.
Working(a) == at[a].op \in {"turn", "file"}

SessionAges(p) ==
  /\ table[p] # None
  /\ \A a \in Actors : PodOf[a] = p => ~Working(a)
  /\ object' = [object EXCEPT ![p][table[p]].recent = FALSE]
  /\ UNCHANGED <<host, address, beat, table, at, ops, faults, log>>

BeatAges ==
  /\ beat = "fresh"
  /\ \A a \in Actors : ~Working(a)
  /\ beat' = "old"
  /\ UNCHANGED <<host, address, table, object, at, ops, faults, log>>

Fault == faults < MaxFaults /\ faults' = faults + 1

\* The host's idle timer, or the loss of a host pod: nothing is written back.
HostReaps(h) ==
  /\ h \in alive
  /\ Fault
  /\ alive' = alive \ {h}
  /\ exposed' = exposed \cup (box[h] \ durable)
  /\ UNCHANGED <<created, box, durable, registry, at, ops, acked>>

PodCrashes(p) ==
  /\ Fault
  /\ table' = [table EXCEPT ![p] = None]
  /\ object' = [object EXCEPT ![p] = [o \in Objects |-> NoSession]]
  /\ at' = [a \in Actors |-> IF PodOf[a] = p THEN Rest ELSE at[a]]
  /\ UNCHANGED <<host, address, beat, ops, log>>

-----------------------------------------------------------------------------
Init ==
  /\ alive = {}
  /\ created = 0
  /\ box = [h \in Handles |-> {}]
  /\ durable = {}
  /\ address = None
  /\ beat = "none"
  /\ table = [p \in Pods |-> None]
  /\ object = [p \in Pods |-> [o \in Objects |-> NoSession]]
  /\ at = [a \in Actors |-> Rest]
  /\ ops = 0
  /\ faults = 0
  /\ acked = {}
  /\ exposed = {}

Step(a) ==
  \/ TurnBegin(a) \/ Lock(a) \/ AcquireRead(a) \/ Create(a) \/ Publish(a)
  \/ KillOrphan(a) \/ Bump(a) \/ FileResolve(a) \/ FileCheck(a) \/ ColdWrite(a)
  \/ Use(a) \/ Flush(a)
  \/ ReapPick(a) \/ ReapRead(a) \/ Shutdown(a) \/ Writeback(a) \/ ShutdownRead(a)
  \/ Kill(a) \/ ReapDrop(a) \/ Forget(a) \/ Mirror(a)
  \/ CloseBegin(a) \/ CloseTake(a) \/ ClosePublished(a) \/ CloseList(a)
  \/ CloseUnrecorded(a) \/ Teardown(a) \/ CloseKill(a) \/ ClosePop(a)

Next ==
  \/ \E a \in Actors : Step(a)
  \/ \E p \in Pods : SessionAges(p) \/ PodCrashes(p)
  \/ BeatAges
  \/ \E h \in Handles : HostReaps(h)

Spec == Init /\ [][Next]_vars

-----------------------------------------------------------------------------
Stages ==
  {"idle", "lock", "acquire", "create", "publish", "orphan", "bump", "check", "cold", "use",
   "flush", "idle?", "writeback", "unused?", "kill", "drop", "forget", "take", "published",
   "list", "unrecorded", "teardown", "closekill", "pop"}
Sources == {"none", "session", "address", "listing"}
Sessions == [handle : Handles \cup {None}, locked : BOOLEAN, recent : BOOLEAN]
Tasks == [op : Operations \cup {"none"}, pc : Stages, obj : Objects \cup {None},
          handle : Handles \cup {None}, stale : Handles \cup {None}, force : BOOLEAN,
          write : Writes \cup {None}, from : Sources, tried : SUBSET Handles,
          listed : SUBSET Handles]

\* Types of what the host has, of the shared registry, of the tasks, of the log.
HostTypeOK ==
  /\ alive \in SUBSET Handles /\ created \in 0 .. MaxCreates
  /\ box \in [Handles -> SUBSET Writes] /\ durable \in SUBSET Writes

RegistryTypeOK ==
  /\ address \in Handles \cup {None} /\ beat \in {"none", "fresh", "old"}
  /\ table \in [Pods -> Objects \cup {None}]
  /\ object \in [Pods -> [Objects -> Sessions]]

TaskTypeOK == at \in [Actors -> Tasks]

LogTypeOK ==
  /\ ops \in 0 .. MaxOps /\ faults \in 0 .. MaxFaults
  /\ acked \in SUBSET Writes /\ exposed \in SUBSET Writes

\* Every variable has its type.
TypeOK == HostTypeOK /\ RegistryTypeOK /\ TaskTypeOK /\ LogTypeOK

\* However many pods build at once, over an empty or a dead address, every live
\* sandbox that a session lists or an operation is about to use is the published
\* one: two pods never work in two sandboxes of one item.
OneSandbox ==
  /\ \A p \in Pods, o \in Objects :
       object[p][o].handle \in alive => object[p][o].handle = address
  /\ \A a \in Actors :
       at[a].pc \in {"bump", "use"} /\ at[a].handle \in alive => at[a].handle = address

\* A write that was acknowledged stays in the published sandbox or in the durable
\* copy, through idle reaps, shutdowns, closes, rebuilds and crashes, unless it
\* landed in one of the windows that `exposed` records.
AckedIsKept ==
  acked \ exposed \subseteq durable \cup (IF address \in alive THEN box[address] ELSE {})

\* A close that nothing else runs beside leaves no published sandbox alive, on
\* whichever pod it lands and however stale the handle that pod has cached.
CloseEndsThePublished ==
  [][\A a \in Actors : ClosePop(a) /\ at[a].write = ops => address \notin alive]_vars
=============================================================================

------------------------ MODULE SandboxRegistryProofs ------------------------
(***************************************************************************)
(* Proofs about SandboxRegistry, for any pods, tasks and bounds: every live *)
(* sandbox that is worked in is the published one, acknowledged writes are  *)
(* kept, and a close that runs alone ends the published sandbox.            *)
(***************************************************************************)
EXTENDS SandboxRegistry, TLAPS, FiniteSetTheorems

-----------------------------------------------------------------------------
(* Types, and what a task has at each of its stages                         *)

Work == {"lock", "acquire", "create", "publish", "orphan", "bump", "check", "cold", "use", "flush"}
Holding == {"lock", "acquire", "create", "publish", "orphan", "bump", "idle?", "writeback",
            "unused?", "kill", "take"}
Tearing(a) == at[a].pc \in {"teardown", "closekill"}

\* A task that works on a session object has one.
Seated(a) ==
  \/ at[a].pc \in Holding
  \/ at[a].pc = "use" /\ at[a].op = "turn"
  \/ Tearing(a) /\ at[a].from = "session"
  => at[a].obj \in Objects

\* Writes are named by the operations so far, and who works has one to make.
Named(a) ==
  /\ at[a].write # None => at[a].write <= ops
  /\ at[a].pc \in Work => at[a].op \in {"turn", "file"} /\ at[a].write # None
  /\ at[a].pc \in {"check", "cold"} => at[a].op = "file"

Typed == TypeOK /\ \A a \in Actors : Seated(a) /\ Named(a)

Only(a) == at' \in [Actors -> Tasks] /\ \A b \in Actors \ {a} : at'[b] = at[b]

-----------------------------------------------------------------------------
(* The helpers of the steps                                                 *)

LEMMA RestTyped == Rest \in Tasks /\ NoSession \in Sessions
BY DEF Rest, Tasks, Stages, Sources, NoSession, Sessions

LEMMA NoneIsNoObject == None \notin Objects /\ None \notin Handles /\ None \notin Writes
<1>1. Cardinality(Actors) + 1 \in Nat
  BY ActorsAssumption, FS_CardinalityType
<1> QED
  BY <1>1, NoneAssumption, BoundsAssumption DEF Objects, Handles, Writes

\* A pod always has a session object that nothing refers to.
LEMMA FreeIsThere ==
    ASSUME TypeOK, NEW p \in Pods, table[p] = None
    PROVE  Free(p) \in Objects
<1> DEFINE n == Cardinality(Actors)
           Held(o) == \E a \in Actors : PodOf[a] = p /\ at[a].obj = o
           f == [o \in Objects |-> CHOOSE a \in Actors : PodOf[a] = p /\ at[a].obj = o]
<1>1. n \in Nat /\ IsFiniteSet(Actors)
  BY ActorsAssumption, FS_CardinalityType
<1>2. IsFiniteSet(Objects) /\ Cardinality(Objects) = n + 1
  <2>1. n + 1 \in Int /\ 1 \in Int /\ ~(1 > n + 1) /\ (n + 1) - 1 + 1 = n + 1
    BY <1>1
  <2> HIDE DEF n
  <2>2. IsFiniteSet(1 .. n + 1) /\ Cardinality(1 .. n + 1) = n + 1
    BY <2>1, FS_Interval
  <2> QED
    BY <2>2 DEF Objects, n
<1>3. ASSUME \A o \in Objects : Held(o) PROVE FALSE
  <2>1. f \in [Objects -> Actors] /\ \A o \in Objects : at[f[o]].obj = o
    BY <1>3
  <2>2. n < Cardinality(Objects)
    BY <1>1, <1>2
  <2> HIDE DEF f
  <2>3. \E x, y \in Objects : x # y /\ f[x] = f[y]
    BY <1>1, <1>2, <2>1, <2>2, FS_PigeonHole DEF n
  <2> QED
    BY <2>1, <2>3
<1>4. PICK o \in Objects : ~Held(o)
  BY <1>3
<1>5. table[p] # o
  BY NoneIsNoObject
<1> QED
  BY <1>4, <1>5 DEF Free

LEMMA GotoIs ==
    ASSUME TypeOK, NEW a \in Actors, NEW s \in Stages, Goto(a, s)
    PROVE  Only(a) /\ at'[a] = [at[a] EXCEPT !.pc = s]
<1>1. at \in [Actors -> Tasks] /\ at' = [at EXCEPT ![a].pc = s]
  BY DEF TypeOK, TaskTypeOK, Goto
<1> QED
  BY <1>1 DEF Only, Tasks

LEMMA DoneIs ==
    ASSUME TypeOK, NEW a \in Actors, Done(a)
    PROVE  Only(a) /\ at'[a] = Rest
<1>1. at \in [Actors -> Tasks] /\ at' = [at EXCEPT ![a] = Rest]
  BY DEF TypeOK, TaskTypeOK, Done
<1> QED
  BY <1>1, RestTyped DEF Only

LEMMA SetIs ==
    ASSUME TypeOK, NEW a \in Actors, NEW t \in Tasks, at' = [at EXCEPT ![a] = t]
    PROVE  Only(a) /\ at'[a] = t
<1>1. at \in [Actors -> Tasks]
  BY DEF TypeOK, TaskTypeOK
<1> QED
  BY <1>1 DEF Only

\* Collecting forgets objects and changes none.
LEMMA CollectedIs ==
    ASSUME TypeOK, Collected(object)
    PROVE  /\ object' \in [Pods -> [Objects -> Sessions]]
           /\ \A p \in Pods, o \in Objects :
                /\ object'[p][o].handle \in {object[p][o].handle, None}
                /\ object'[p][o] \in {object[p][o], NoSession}
<1>1. object \in [Pods -> [Objects -> Sessions]]
  BY DEF TypeOK, RegistryTypeOK
<1>2. \A p \in Pods, o \in Objects : object'[p][o] \in {object[p][o], NoSession}
  BY <1>1 DEF Collected
<1>3. object' \in [Pods -> [Objects -> Sessions]]
  BY <1>1, RestTyped DEF Collected
<1> QED
  BY <1>1, <1>2, <1>3 DEF NoSession

LEMMA GetSessionIs ==
    ASSUME TypeOK, NEW p \in Pods, GetSession(p)
    PROVE  /\ table' \in [Pods -> Objects \cup {None}]
           /\ object' \in [Pods -> [Objects -> Sessions]]
           /\ SessionOf(p) \in Objects
           /\ \A q \in Pods, o \in Objects : object'[q][o].handle \in {object[q][o].handle, None}
<1>1. object \in [Pods -> [Objects -> Sessions]] /\ table \in [Pods -> Objects \cup {None}]
  BY DEF TypeOK, RegistryTypeOK
<1>2. CASE table[p] = None
  <2>1. Free(p) \in Objects
    BY <1>2, FreeIsThere
  <2> DEFINE s == [NoSession EXCEPT !.recent = TRUE]
  <2>2. s \in Sessions /\ s.handle = None
    BY DEF NoSession, Sessions
  <2>3. object' = [object EXCEPT ![p][Free(p)] = s] /\ table' = [table EXCEPT ![p] = Free(p)]
    BY <1>2 DEF GetSession
  <2>4. SessionOf(p) = Free(p)
    BY <1>2 DEF SessionOf
  <2> HIDE DEF s
  <2> QED
    BY <1>1, <2>1, <2>2, <2>3, <2>4
<1>3. CASE table[p] # None
  BY <1>1, <1>3 DEF GetSession, SessionOf
<1> QED
  BY <1>2, <1>3

\* A session that gets a handle.
LEMMA HandleSet ==
    ASSUME NEW objs \in [Pods -> [Objects -> Sessions]], NEW p \in Pods, NEW o \in Objects,
           NEW h \in Handles \cup {None}
    PROVE  LET held == [objs EXCEPT ![p][o].handle = h]
           IN  /\ held \in [Pods -> [Objects -> Sessions]]
               /\ \A q \in Pods, r \in Objects : held[q][r].handle \in {objs[q][r].handle, h}
<1> DEFINE s == [objs[p][o] EXCEPT !.handle = h]
           row == [objs[p] EXCEPT ![o] = s]
           held == [objs EXCEPT ![p] = row]
<1>1. s \in Sessions /\ s.handle = h
  BY DEF Sessions
<1>2. [objs EXCEPT ![p][o].handle = h] = held
  OBVIOUS
<1> HIDE DEF s
<1>3. row \in [Objects -> Sessions] /\ \A r \in Objects : row[r].handle \in {objs[p][r].handle, h}
  BY <1>1
<1> HIDE DEF row
<1>4. /\ held \in [Pods -> [Objects -> Sessions]]
      /\ \A q \in Pods, r \in Objects : held[q][r].handle \in {objs[q][r].handle, h}
  BY <1>3
<1> QED
  BY <1>2, <1>4

LEMMA HoldIs ==
    ASSUME TypeOK, NEW a \in Actors, at[a].obj \in Objects, NEW h \in Handles \cup {None},
           Hold(a, h)
    PROVE  /\ Only(a) /\ at'[a] = [at[a] EXCEPT !.pc = "bump", !.handle = h, !.stale = None]
           /\ table' \in [Pods -> Objects \cup {None}]
           /\ object' \in [Pods -> [Objects -> Sessions]]
           /\ \A q \in Pods, o \in Objects : object'[q][o].handle \in {object[q][o].handle, h}
<1> DEFINE p == PodOf[a]
           o == at[a].obj
           listed == IF table[p] = None THEN o ELSE table[p]
<1>1. /\ object \in [Pods -> [Objects -> Sessions]] /\ table \in [Pods -> Objects \cup {None}]
      /\ at \in [Actors -> Tasks] /\ p \in Pods /\ o \in Objects
  BY ActorsAssumption DEF TypeOK, RegistryTypeOK, TaskTypeOK
<1>2. listed \in Objects
  BY <1>1
<1>3. at' = [at EXCEPT ![a].pc = "bump", ![a].handle = h, ![a].stale = None]
  BY DEF Hold
<1>4. Only(a) /\ at'[a] = [at[a] EXCEPT !.pc = "bump", !.handle = h, !.stale = None]
  <2> DEFINE t == [at[a] EXCEPT !.pc = "bump", !.handle = h, !.stale = None]
  <2> HIDE DEF p, o, listed
  <2>0. at[a] \in Tasks /\ "bump" \in Stages
    BY <1>1 DEF Stages
  <2>1. t \in Tasks
    BY <2>0 DEF Tasks
  <2>2. at' = [at EXCEPT ![a] = t]
    BY <1>1, <1>3
  <2> HIDE DEF t
  <2>3. Only(a) /\ at'[a] = t
    BY <2>1, <2>2, SetIs
  <2> QED
    BY <2>3 DEF t
<1>5. CASE at[a].op = "turn"
  <2>1. /\ table' = [table EXCEPT ![p] = listed]
        /\ object' = [object EXCEPT ![p][o].handle = h, ![p][listed].handle = h]
    BY <1>5 DEF Hold
  <2> DEFINE held == [object EXCEPT ![p][o].handle = h]
  <2> HIDE DEF p, o, listed
  <2>2. /\ held \in [Pods -> [Objects -> Sessions]]
        /\ \A q \in Pods, r \in Objects : held[q][r].handle \in {object[q][r].handle, h}
    BY <1>1, HandleSet
  <2>3. object' = [held EXCEPT ![p][listed].handle = h]
    BY <2>1
  <2> HIDE DEF held
  <2>4. /\ object' \in [Pods -> [Objects -> Sessions]]
        /\ \A q \in Pods, r \in Objects : object'[q][r].handle \in {held[q][r].handle, h}
    <3> DEFINE next == [held EXCEPT ![p][listed].handle = h]
    <3>1. /\ next \in [Pods -> [Objects -> Sessions]]
          /\ \A q \in Pods, r \in Objects : next[q][r].handle \in {held[q][r].handle, h}
      BY <1>1, <1>2, <2>2, HandleSet
    <3> QED
      BY <3>1, <2>3
  <2> QED
    BY <1>1, <1>2, <1>4, <2>1, <2>2, <2>4
<1>6. CASE at[a].op # "turn"
  <2>1. table' = table /\ object' = [object EXCEPT ![p][o].handle = h]
    BY <1>6 DEF Hold
  <2> DEFINE held == [object EXCEPT ![p][o].handle = h]
  <2> HIDE DEF p, o, listed
  <2>2. /\ held \in [Pods -> [Objects -> Sessions]]
        /\ \A q \in Pods, r \in Objects : held[q][r].handle \in {object[q][r].handle, h}
    BY <1>1, HandleSet
  <2> QED
    BY <1>1, <1>4, <2>1, <2>2
<1> QED
  BY <1>5, <1>6

-----------------------------------------------------------------------------
(* What each step makes of its task and of the sessions                     *)

Moved(a, t) == Only(a) /\ at'[a] = t

\* The table and the objects stay typed, and no object has a handle it did not
\* have before, but h.
Handed(h) ==
  /\ table' \in [Pods -> Objects \cup {None}]
  /\ object' \in [Pods -> [Objects -> Sessions]]
  /\ \A p \in Pods, o \in Objects : object'[p][o].handle \in {object[p][o].handle, None, h}

LEMMA Kinds ==
    ASSUME Typed, NEW a \in Actors
    PROVE  /\ at[a] \in Tasks /\ PodOf[a] \in Pods
           /\ table[PodOf[a]] \in Objects \cup {None}
           /\ \A p \in Pods, o \in Objects :
                object[p][o] \in Sessions /\ object[p][o].handle \in Handles \cup {None}
           /\ at[a].obj \in Objects => Session(a) \in Sessions /\ Session(a).handle \in Handles \cup {None}
           /\ Listed(PodOf[a]) \in Handles \cup {None}
<1>1. /\ at \in [Actors -> Tasks] /\ table \in [Pods -> Objects \cup {None}]
      /\ object \in [Pods -> [Objects -> Sessions]]
  BY DEF Typed, TypeOK, TaskTypeOK, RegistryTypeOK
<1>2. /\ at[a] \in Tasks /\ PodOf[a] \in Pods
      /\ table[PodOf[a]] \in Objects \cup {None}
  BY <1>1, ActorsAssumption
<1>3. \A p \in Pods, o \in Objects :
         object[p][o] \in Sessions /\ object[p][o].handle \in Handles \cup {None}
  BY <1>1 DEF Sessions
<1> QED
  BY <1>2, <1>3 DEF Session, Listed

LEMMA SameSessions ==
    ASSUME TypeOK, UNCHANGED <<table, object>>
    PROVE  Handed(None)
BY DEF TypeOK, RegistryTypeOK, Handed

LEMMA Dropped ==
    ASSUME TypeOK, table' \in [Pods -> Objects \cup {None}], Collected(object)
    PROVE  Handed(None)
BY CollectedIs DEF Handed

LEMMA Got ==
    ASSUME TypeOK, NEW p \in Pods, GetSession(p)
    PROVE  Handed(None) /\ SessionOf(p) \in Objects
BY GetSessionIs DEF Handed

LEMMA Held ==
    ASSUME Typed, NEW a \in Actors, at[a].obj \in Objects, NEW h \in Handles \cup {None},
           Hold(a, h)
    PROVE  /\ Moved(a, [at[a] EXCEPT !.pc = "bump", !.handle = h, !.stale = None])
           /\ Handed(h)
<1>1. TypeOK
  BY DEF Typed
<1> DEFINE t == [at[a] EXCEPT !.pc = "bump", !.handle = h, !.stale = None]
<1>2. /\ Only(a) /\ at'[a] = t
      /\ table' \in [Pods -> Objects \cup {None}]
      /\ object' \in [Pods -> [Objects -> Sessions]]
      /\ \A q \in Pods, o \in Objects : object'[q][o].handle \in {object[q][o].handle, h}
  BY <1>1, HoldIs
<1> HIDE DEF t
<1>3. Handed(h)
  BY <1>2 DEF Handed
<1>4. Moved(a, t)
  BY <1>2 DEF Moved
<1> QED
  BY <1>3, <1>4 DEF t

\* A session's flags change and its handle stays.
LEMMA FlagSet ==
    ASSUME TypeOK, NEW p \in Pods, NEW o \in Objects, NEW s \in Sessions,
           s.handle \in {object[p][o].handle, None},
           object' = [object EXCEPT ![p][o] = s], UNCHANGED table
    PROVE  Handed(None)
<1>1. object \in [Pods -> [Objects -> Sessions]] /\ table \in [Pods -> Objects \cup {None}]
  BY DEF TypeOK, RegistryTypeOK
<1> DEFINE line == [object[p] EXCEPT ![o] = s]
<1>2. line \in [Objects -> Sessions] /\ \A r \in Objects : line[r].handle \in {object[p][r].handle, None}
  BY <1>1
<1>3. object' = [object EXCEPT ![p] = line]
  BY <1>1
<1> HIDE DEF line
<1>4. /\ object' \in [Pods -> [Objects -> Sessions]]
      /\ \A q \in Pods, r \in Objects : object'[q][r].handle \in {object[q][r].handle, None}
  BY <1>1, <1>2, <1>3
<1> QED
  BY <1>1, <1>4 DEF Handed

LEMMA Went ==
    ASSUME Typed, NEW a \in Actors, NEW s \in Stages, Goto(a, s)
    PROVE  Moved(a, [at[a] EXCEPT !.pc = s])
BY GotoIs DEF Moved, Typed

LEMMA Rests ==
    ASSUME Typed, NEW a \in Actors, Done(a)
    PROVE  Moved(a, Rest)
BY DoneIs DEF Moved, Typed

LEMMA Sets ==
    ASSUME Typed, NEW a \in Actors, NEW t \in Tasks, at' = [at EXCEPT ![a] = t]
    PROVE  Moved(a, t)
BY SetIs DEF Moved, Typed

LEMMA Stays ==
    ASSUME Typed, NEW a \in Actors, UNCHANGED at
    PROVE  Moved(a, at[a])
BY DEF Moved, Only, Typed, TypeOK, TaskTypeOK

\* Starting an operation.
LEMMA NewWrite ==
    ASSUME Typed, ops < MaxOps
    PROVE  ops + 1 \in Writes \cup {None}
BY BoundsAssumption DEF Typed, TypeOK, LogTypeOK, Writes

LEMMA TurnBeginIs ==
    ASSUME Typed, NEW a \in Actors, TurnBegin(a)
    PROVE  /\ Handed(None) /\ SessionOf(PodOf[a]) \in Objects
           /\ Moved(a, [Rest EXCEPT !.op = "turn", !.pc = "lock", !.write = ops + 1,
                                    !.obj = SessionOf(PodOf[a])])
<1> DEFINE o == SessionOf(PodOf[a])
           w == ops + 1
           t == [Rest EXCEPT !.op = "turn", !.pc = "lock", !.write = w, !.obj = o]
<1>1. Handed(None) /\ o \in Objects
  BY Got, Kinds DEF TurnBegin, Typed
<1>2. "turn" \in Operations /\ "lock" \in Stages /\ w \in Writes \cup {None}
  BY NewWrite DEF Operations, Stages, TurnBegin, Start
<1>3. at' = [at EXCEPT ![a] = t]
  BY DEF TurnBegin
<1> HIDE DEF o, w
<1>4. t \in Tasks
  BY <1>1, <1>2, RestTyped DEF Tasks
<1> HIDE DEF t
<1>5. Moved(a, t)
  BY <1>3, <1>4, Sets
<1> QED
  BY <1>1, <1>5 DEF t, o, w

LEMMA LockIs ==
    ASSUME Typed, NEW a \in Actors, Lock(a)
    PROVE  /\ Handed(None)
           /\ \/ /\ Reusable(a)
                 /\ Moved(a, [at[a] EXCEPT !.pc = "bump", !.handle = Session(a).handle])
              \/ Moved(a, [at[a] EXCEPT !.pc = "acquire"])
<1> DEFINE p == PodOf[a]
           o == at[a].obj
           s == [object[p][o] EXCEPT !.locked = TRUE]
<1>1. o \in Objects /\ p \in Pods /\ at[a] \in Tasks
  BY Kinds DEF Typed, Seated, Holding, Lock
<1>2. s \in Sessions /\ s.handle = object[p][o].handle /\ Session(a).handle \in Handles \cup {None}
  <2>1. object[p][o] \in Sessions /\ Session(a).handle \in Handles \cup {None}
    BY <1>1, Kinds
  <2> QED
    BY <2>1 DEF Sessions
<1>3. object' = [object EXCEPT ![p][o] = s] /\ table' = table
  BY DEF Lock
<1> HIDE DEF s, o, p
<1>4. Handed(None)
  BY <1>1, <1>2, <1>3, FlagSet DEF Typed
<1>5. CASE Reusable(a)
  <2> DEFINE h == Session(a).handle
             t == [at[a] EXCEPT !.pc = "bump", !.handle = h]
  <2>1. at' = [at EXCEPT ![a] = t]
    BY <1>5 DEF Lock
  <2>2. h \in Handles \cup {None} /\ "bump" \in Stages
    BY <1>2 DEF Stages
  <2> HIDE DEF h
  <2>3. t \in Tasks
    BY <1>1, <2>2 DEF Tasks
  <2> HIDE DEF t
  <2>4. Moved(a, t)
    BY <2>1, <2>3, Sets
  <2> QED
    BY <1>4, <1>5, <2>4 DEF t, h
<1>6. CASE ~Reusable(a)
  <2>1. "acquire" \in Stages /\ Goto(a, "acquire")
    BY <1>6 DEF Lock, Stages
  <2> QED
    BY <1>4, <2>1, Went
<1> QED
  BY <1>5, <1>6

LEMMA AcquireReadIs ==
    ASSUME Typed, NEW a \in Actors, AcquireRead(a)
    PROVE  \/ /\ Handed(address) /\ address \in alive
              /\ Moved(a, [at[a] EXCEPT !.pc = "bump", !.handle = address, !.stale = None])
           \/ /\ Handed(None) /\ ~(address # None /\ Alive(address))
              /\ Moved(a, [at[a] EXCEPT !.pc = "create", !.stale = address])
<1>1. /\ at[a].obj \in Objects /\ address \in Handles \cup {None} /\ at[a] \in Tasks
  BY Kinds DEF Typed, Seated, Holding, AcquireRead, TypeOK, RegistryTypeOK
<1>2. CASE address # None /\ Alive(address)
  <2>1. Hold(a, address) /\ address \in alive
    BY <1>2 DEF AcquireRead, Alive
  <2> QED
    BY <1>1, <2>1, Held
<1>3. CASE ~(address # None /\ Alive(address))
  <2> DEFINE t == [at[a] EXCEPT !.pc = "create", !.stale = address]
  <2>1. at' = [at EXCEPT ![a] = t] /\ UNCHANGED <<table, object>>
    BY <1>3 DEF AcquireRead
  <2>2. "create" \in Stages
    BY DEF Stages
  <2>3. t \in Tasks
    BY <1>1, <2>2 DEF Tasks
  <2> HIDE DEF t
  <2>4. Moved(a, t) /\ Handed(None)
    BY <2>1, <2>3, Sets, SameSessions DEF Typed
  <2> QED
    BY <1>3, <2>4 DEF t
<1> QED
  BY <1>2, <1>3

LEMMA CreateIs ==
    ASSUME Typed, NEW a \in Actors, Create(a)
    PROVE  /\ Handed(None)
           /\ Moved(a, [at[a] EXCEPT !.pc = "publish", !.handle = created + 1])
<1> DEFINE h == created + 1
           t == [at[a] EXCEPT !.pc = "publish", !.handle = h]
<1>1. h \in Handles \cup {None} /\ at[a] \in Tasks /\ "publish" \in Stages
  BY Kinds, BoundsAssumption DEF Typed, TypeOK, HostTypeOK, Create, Handles, Stages
<1>2. at' = [at EXCEPT ![a] = t] /\ UNCHANGED <<table, object>>
  BY DEF Create, registry
<1> HIDE DEF h
<1>3. t \in Tasks
  BY <1>1 DEF Tasks
<1> HIDE DEF t
<1>4. Moved(a, t) /\ Handed(None)
  BY <1>2, <1>3, Sets, SameSessions DEF Typed
<1> QED
  BY <1>4 DEF t, h

LEMMA PublishIs ==
    ASSUME Typed, NEW a \in Actors, Publish(a)
    PROVE  \/ /\ Handed(at[a].handle) /\ SlotIsOurs(at[a].stale) /\ address' = at[a].handle
              /\ Moved(a, [at[a] EXCEPT !.pc = "bump", !.handle = at[a].handle, !.stale = None])
           \/ /\ Handed(None) /\ ~SlotIsOurs(at[a].stale) /\ address' = address
              /\ Moved(a, [at[a] EXCEPT !.pc = "orphan", !.stale = address])
<1>1. /\ at[a].obj \in Objects /\ address \in Handles \cup {None} /\ at[a] \in Tasks
      /\ at[a].handle \in Handles \cup {None}
  BY Kinds DEF Typed, Seated, Holding, Publish, TypeOK, RegistryTypeOK, Tasks
<1>2. CASE SlotIsOurs(at[a].stale)
  <2>1. Hold(a, at[a].handle) /\ address' = at[a].handle
    BY <1>2 DEF Publish
  <2> QED
    BY <1>1, <1>2, <2>1, Held
<1>3. CASE ~SlotIsOurs(at[a].stale)
  <2> DEFINE t == [at[a] EXCEPT !.pc = "orphan", !.stale = address]
  <2>1. at' = [at EXCEPT ![a] = t] /\ UNCHANGED <<address, table, object>>
    BY <1>3 DEF Publish
  <2>2. "orphan" \in Stages
    BY DEF Stages
  <2>3. t \in Tasks
    BY <1>1, <2>2 DEF Tasks
  <2> HIDE DEF t
  <2>4. Moved(a, t) /\ Handed(None)
    BY <2>1, <2>3, Sets, SameSessions DEF Typed
  <2> QED
    BY <1>3, <2>1, <2>4 DEF t
<1> QED
  BY <1>2, <1>3

LEMMA KillOrphanIs ==
    ASSUME Typed, NEW a \in Actors, KillOrphan(a)
    PROVE  /\ Handed(at[a].stale)
           /\ Moved(a, [at[a] EXCEPT !.pc = "bump", !.handle = at[a].stale, !.stale = None])
<1>1. at[a].obj \in Objects /\ at[a].stale \in Handles \cup {None} /\ Hold(a, at[a].stale)
  BY Kinds DEF Typed, Seated, Holding, KillOrphan, Tasks
<1> QED
  BY <1>1, Held

LEMMA BumpIs ==
    ASSUME Typed, NEW a \in Actors, Bump(a)
    PROVE  Handed(None) /\ Moved(a, [at[a] EXCEPT !.pc = "use", !.force = FALSE])
<1> DEFINE p == PodOf[a]
           o == at[a].obj
           s == [object[p][o] EXCEPT !.locked = FALSE, !.recent = TRUE]
           t == [at[a] EXCEPT !.pc = "use", !.force = FALSE]
<1>1. o \in Objects /\ p \in Pods /\ at[a] \in Tasks /\ "use" \in Stages
  BY Kinds DEF Typed, Seated, Holding, Bump, Stages
<1>2. s \in Sessions /\ s.handle = object[p][o].handle
  <2>1. object[p][o] \in Sessions
    BY <1>1, Kinds
  <2> QED
    BY <2>1 DEF Sessions
<1>3. object' = [object EXCEPT ![p][o] = s] /\ table' = table
  BY DEF Bump
<1>4. at' = [at EXCEPT ![a] = t]
  BY DEF Bump
<1> HIDE DEF s, o, p
<1>5. Handed(None)
  BY <1>1, <1>2, <1>3, FlagSet DEF Typed
<1>6. t \in Tasks
  BY <1>1 DEF Tasks
<1> HIDE DEF t
<1>7. Moved(a, t)
  BY <1>4, <1>6, Sets
<1> QED
  BY <1>5, <1>7 DEF t

LEMMA FileResolveIs ==
    ASSUME Typed, NEW a \in Actors, FileResolve(a)
    PROVE  /\ Handed(None)
           /\ \E h \in Handles \cup {None} :
                /\ \/ h = address
                   \/ \E p \in Pods, o \in Objects : h = object[p][o].handle
                /\ Moved(a, [Rest EXCEPT !.op = "file", !.handle = h, !.write = ops + 1,
                                         !.pc = IF h = None THEN "cold" ELSE "check"])
<1> DEFINE s == table[PodOf[a]]
           cached == IF s = None THEN None ELSE object[PodOf[a]][s].handle
           h == IF cached = None THEN address ELSE cached
           w == ops + 1
           pc == IF h = None THEN "cold" ELSE "check"
           t == [Rest EXCEPT !.op = "file", !.handle = h, !.write = w, !.pc = pc]
<1>1. at' = [at EXCEPT ![a] = t]
  BY DEF FileResolve
<1>2. h \in Handles \cup {None} /\ (h = address \/ \E p \in Pods, o \in Objects : h = object[p][o].handle)
  <2>1. PodOf[a] \in Pods /\ s \in Objects \cup {None} /\ address \in Handles \cup {None}
    BY Kinds DEF Typed, TypeOK, RegistryTypeOK
  <2>2. \A p \in Pods, o \in Objects : object[p][o].handle \in Handles \cup {None}
    BY Kinds
  <2> HIDE DEF s
  <2>3. cached \in Handles \cup {None}
    BY <2>1, <2>2
  <2>4. cached # None => s \in Objects /\ cached = object[PodOf[a]][s].handle
    BY <2>1
  <2> HIDE DEF cached
  <2> QED
    BY <2>1, <2>3, <2>4
<1>3. pc \in Stages /\ "file" \in Operations /\ w \in Writes \cup {None}
  BY NewWrite DEF Stages, Operations, FileResolve, Start
<1>4. Handed(None)
  BY SameSessions DEF FileResolve, registry, Typed
<1> HIDE DEF w, pc, h, s, cached
<1>5. t \in Tasks
  BY <1>2, <1>3, RestTyped DEF Tasks
<1> HIDE DEF t
<1>6. Moved(a, t)
  BY <1>1, <1>5, Sets
<1>7. Moved(a, [Rest EXCEPT !.op = "file", !.handle = h, !.write = ops + 1,
                            !.pc = IF h = None THEN "cold" ELSE "check"])
  BY <1>6 DEF t, w, pc
<1> QED
  BY <1>2, <1>4, <1>7

LEMMA FileCheckIs ==
    ASSUME Typed, NEW a \in Actors, FileCheck(a)
    PROVE  /\ Handed(None)
           /\ \/ Moved(a, [at[a] EXCEPT !.pc = "use"])
              \/ /\ SessionOf(PodOf[a]) \in Objects
                 /\ Moved(a, [at[a] EXCEPT !.pc = "lock", !.obj = SessionOf(PodOf[a])])
<1>1. at[a] \in Tasks /\ PodOf[a] \in Pods
  BY Kinds
<1>2. CASE Alive(at[a].handle)
  <2>1. Goto(a, "use") /\ UNCHANGED <<table, object>> /\ "use" \in Stages
    BY <1>2 DEF FileCheck, Stages
  <2> QED
    BY <2>1, Went, SameSessions DEF Typed
<1>3. CASE ~Alive(at[a].handle)
  <2> DEFINE o == SessionOf(PodOf[a])
             t == [at[a] EXCEPT !.pc = "lock", !.obj = o]
  <2>1. GetSession(PodOf[a]) /\ at' = [at EXCEPT ![a] = t] /\ "lock" \in Stages
    BY <1>3 DEF FileCheck, Stages
  <2>2. Handed(None) /\ o \in Objects
    BY <1>1, <2>1, Got DEF Typed
  <2> HIDE DEF o
  <2>3. t \in Tasks
    BY <1>1, <2>1, <2>2 DEF Tasks
  <2> HIDE DEF t
  <2>4. Moved(a, t)
    BY <2>1, <2>3, Sets
  <2> QED
    BY <2>2, <2>4 DEF t, o
<1> QED
  BY <1>2, <1>3

LEMMA ColdWriteIs ==
    ASSUME Typed, NEW a \in Actors, ColdWrite(a)
    PROVE  Handed(None) /\ Moved(a, Rest)
BY Rests, SameSessions DEF ColdWrite, registry, Typed

LEMMA UseIs ==
    ASSUME Typed, NEW a \in Actors, Use(a)
    PROVE  /\ Handed(None)
           /\ \/ Moved(a, Rest)
              \/ Moved(a, [at[a] EXCEPT !.pc = "flush"]) /\ at[a].op = "turn"
              \/ Moved(a, [at[a] EXCEPT !.pc = "lock", !.force = TRUE]) /\ at[a].op = "turn"
<1>1. at[a] \in Tasks /\ "flush" \in Stages /\ "lock" \in Stages
  BY Kinds DEF Stages
<1>2. Handed(None)
  BY Dropped DEF Use, Typed, TypeOK, RegistryTypeOK
<1>3. CASE at[a].op # "turn"
  <2>1. Done(a)
    BY <1>3 DEF Use
  <2> QED
    BY <1>2, <2>1, Rests
<1>4. CASE at[a].op = "turn" /\ Alive(at[a].handle)
  <2>1. Goto(a, "flush")
    BY <1>4 DEF Use
  <2> QED
    BY <1>1, <1>2, <1>4, <2>1, Went
<1>5. CASE at[a].op = "turn" /\ ~Alive(at[a].handle)
  <2> DEFINE t == [at[a] EXCEPT !.pc = "lock", !.force = TRUE]
  <2>1. at' = [at EXCEPT ![a] = t]
    BY <1>5 DEF Use
  <2>2. t \in Tasks
    BY <1>1 DEF Tasks
  <2> HIDE DEF t
  <2>3. Moved(a, t)
    BY <2>1, <2>2, Sets
  <2> QED
    BY <1>2, <1>5, <2>3 DEF t
<1> QED
  BY <1>3, <1>4, <1>5

LEMMA FlushIs ==
    ASSUME Typed, NEW a \in Actors, Flush(a)
    PROVE  Handed(None) /\ Moved(a, Rest)
BY Rests, Dropped DEF Flush, Typed, TypeOK, RegistryTypeOK

LEMMA Unlisted ==
    ASSUME Typed, NEW p \in Pods, table' \in {table, [table EXCEPT ![p] = None]}, Collected(object)
    PROVE  Handed(None)
<1>1. table' \in [Pods -> Objects \cup {None}]
  BY DEF Typed, TypeOK, RegistryTypeOK
<1> QED
  BY <1>1, Dropped DEF Typed

LEMMA ReapPickIs ==
    ASSUME Typed, NEW a \in Actors, ReapPick(a)
    PROVE  /\ Handed(None)
           /\ \/ Moved(a, at[a])
              \/ \E o \in Objects : Moved(a, [Rest EXCEPT !.op = "reap", !.pc = "idle?", !.obj = o])
<1> DEFINE o == table[PodOf[a]]
           t == [Rest EXCEPT !.op = "reap", !.pc = "idle?", !.obj = o]
<1>1. o \in Objects /\ PodOf[a] \in Pods /\ "reap" \in Operations /\ "idle?" \in Stages
  BY Kinds DEF ReapPick, Operations, Stages
<1>2. Handed(None)
  BY <1>1, Unlisted DEF ReapPick
<1>3. at' = at \/ at' = [at EXCEPT ![a] = t]
  BY DEF ReapPick
<1> HIDE DEF o
<1>4. t \in Tasks
  BY <1>1, RestTyped DEF Tasks
<1> HIDE DEF t
<1>5. Moved(a, at[a]) \/ Moved(a, t)
  BY <1>3, <1>4, Sets, Stays
<1> QED
  BY <1>1, <1>2, <1>5 DEF t

LEMMA ReapReadIs ==
    ASSUME Typed, NEW a \in Actors, ReapRead(a)
    PROVE  Handed(None) /\ (Moved(a, Rest) \/ Moved(a, [at[a] EXCEPT !.pc = "writeback"]))
<1>1. Handed(None)
  BY Kinds, Unlisted DEF ReapRead
<1>2. (Done(a) \/ Goto(a, "writeback")) /\ "writeback" \in Stages
  BY DEF ReapRead, Stages
<1> QED
  BY <1>1, <1>2, Rests, Went

LEMMA ShutdownIs ==
    ASSUME Typed, NEW a \in Actors, Shutdown(a)
    PROVE  /\ Handed(None)
           /\ \/ Moved(a, at[a])
              \/ \E o \in Objects :
                   Moved(a, [Rest EXCEPT !.op = "shutdown", !.pc = "writeback", !.obj = o])
<1> DEFINE o == table[PodOf[a]]
           t == [Rest EXCEPT !.op = "shutdown", !.pc = "writeback", !.obj = o]
<1>1. o \in Objects /\ PodOf[a] \in Pods /\ "shutdown" \in Operations /\ "writeback" \in Stages
  BY Kinds DEF Shutdown, Operations, Stages
<1>2. Handed(None)
  BY <1>1, Unlisted DEF Shutdown
<1>3. at' = at \/ at' = [at EXCEPT ![a] = t]
  BY DEF Shutdown
<1> HIDE DEF o
<1>4. t \in Tasks
  BY <1>1, RestTyped DEF Tasks
<1> HIDE DEF t
<1>5. Moved(a, at[a]) \/ Moved(a, t)
  BY <1>3, <1>4, Sets, Stays
<1> QED
  BY <1>1, <1>2, <1>5 DEF t

LEMMA WritebackIs ==
    ASSUME Typed, NEW a \in Actors, Writeback(a)
    PROVE  /\ Handed(None)
           /\ \/ Moved(a, Rest) /\ durable' = durable
              \/ /\ Session(a).handle \in alive /\ durable' = box[Session(a).handle]
                 /\ \E s \in {"kill", "unused?"} :
                      Moved(a, [at[a] EXCEPT !.handle = Session(a).handle, !.pc = s])
<1> DEFINE h == Session(a).handle
<1>1. PodOf[a] \in Pods /\ h \in Handles \cup {None} /\ at[a] \in Tasks
  BY Kinds DEF Typed, Seated, Holding, Writeback
<1>2. CASE h # None /\ Alive(h)
  <2> DEFINE s == IF at[a].op = "reap" THEN "kill" ELSE "unused?"
             t == [at[a] EXCEPT !.handle = h, !.pc = s]
  <2>1. at' = [at EXCEPT ![a] = t] /\ table' = table /\ Reconcile(h)
    BY <1>2 DEF Writeback
  <2>2. s \in {"kill", "unused?"} /\ s \in Stages
    BY DEF Stages
  <2>3. Handed(None)
    BY <1>1, <2>1, Unlisted DEF Writeback
  <2>4. h \in alive /\ durable' = box[h]
    BY <1>2, <2>1 DEF Alive, Reconcile
  <2> HIDE DEF h, s
  <2>5. t \in Tasks
    BY <1>1, <2>2 DEF Tasks
  <2> HIDE DEF t
  <2>6. Moved(a, t)
    BY <2>1, <2>5, Sets
  <2> QED
    BY <2>2, <2>3, <2>4, <2>6 DEF t, h
<1>3. CASE ~(h # None /\ Alive(h))
  <2>1. /\ Done(a) /\ durable' = durable /\ Collected(object)
        /\ table' = IF h = None /\ at[a].op = "reap" THEN [table EXCEPT ![PodOf[a]] = None] ELSE table
    BY <1>3 DEF Writeback
  <2>2. table' \in {table, [table EXCEPT ![PodOf[a]] = None]}
    BY <2>1
  <2> QED
    BY <1>1, <2>1, <2>2, Rests, Unlisted
<1> QED
  BY <1>2, <1>3

LEMMA ShutdownReadIs ==
    ASSUME Typed, NEW a \in Actors, ShutdownRead(a)
    PROVE  Handed(None) /\ (Moved(a, Rest) \/ Moved(a, [at[a] EXCEPT !.pc = "kill"]))
<1>1. Handed(None)
  BY Kinds, Unlisted DEF ShutdownRead
<1>2. (Done(a) \/ Goto(a, "kill")) /\ "kill" \in Stages
  BY DEF ShutdownRead, Stages
<1> QED
  BY <1>1, <1>2, Rests, Went

LEMMA KillIs ==
    ASSUME Typed, NEW a \in Actors, Kill(a)
    PROVE  /\ Handed(None)
           /\ \/ Moved(a, Rest)
              \/ \E s \in {"drop", "forget"} : Moved(a, [at[a] EXCEPT !.pc = s])
<1>1. Handed(None)
  BY Kinds, Unlisted DEF Kill
<1> DEFINE s == IF at[a].op = "reap" THEN "drop" ELSE "forget"
<1>2. s \in Stages /\ s \in {"drop", "forget"} /\ (Done(a) \/ Goto(a, s))
  BY DEF Kill, Stages
<1> HIDE DEF s
<1> QED
  BY <1>1, <1>2, Rests, Went

LEMMA ReapDropIs ==
    ASSUME Typed, NEW a \in Actors, ReapDrop(a)
    PROVE  Handed(None) /\ (Moved(a, Rest) \/ Moved(a, [at[a] EXCEPT !.pc = "forget"]))
<1>1. Handed(None)
  BY Kinds, Unlisted DEF ReapDrop
<1>2. (Done(a) \/ Goto(a, "forget")) /\ "forget" \in Stages
  BY DEF ReapDrop, Stages
<1> QED
  BY <1>1, <1>2, Rests, Went

LEMMA ForgetIs ==
    ASSUME Typed, NEW a \in Actors, Forget(a)
    PROVE  Handed(None) /\ (Moved(a, Rest) \/ Moved(a, [at[a] EXCEPT !.pc = "pop"]))
<1>1. Handed(None)
  BY Kinds, Unlisted DEF Forget
<1>2. (Done(a) \/ Goto(a, "pop")) /\ "pop" \in Stages
  BY DEF Forget, Stages
<1> QED
  BY <1>1, <1>2, Rests, Went

LEMMA MirrorIs ==
    ASSUME Typed, NEW a \in Actors, Mirror(a)
    PROVE  Handed(None) /\ Moved(a, at[a])
BY Stays, SameSessions DEF Mirror, registry, Typed

LEMMA CloseBeginIs ==
    ASSUME Typed, NEW a \in Actors, CloseBegin(a)
    PROVE  /\ Handed(None)
           /\ \E o \in Objects \cup {None}, w \in {ops + 1, None}, s \in {"published", "take"} :
                /\ s = "take" => o \in Objects
                /\ w # None => \A b \in Actors : at[b] = Rest
                /\ Moved(a, [Rest EXCEPT !.op = "close", !.obj = o, !.write = w, !.pc = s])
<1> DEFINE o == table[PodOf[a]]
           alone == \A b \in Actors : at[b] = Rest
           w == IF alone THEN ops + 1 ELSE None
           s == IF o = None THEN "published" ELSE "take"
           t == [Rest EXCEPT !.op = "close", !.obj = o, !.write = w, !.pc = s]
<1>1. at' = [at EXCEPT ![a] = t]
  BY DEF CloseBegin
<1>2. o \in Objects \cup {None} /\ "close" \in Operations
  BY Kinds DEF Operations
<1>3. w \in Writes \cup {None} /\ w \in {ops + 1, None} /\ (w # None => alone)
  BY NewWrite DEF CloseBegin, Start
<1>4. s \in Stages /\ s \in {"published", "take"} /\ (s = "take" => o \in Objects)
  BY <1>2 DEF Stages
<1>5. Handed(None)
  BY SameSessions DEF CloseBegin, registry, Typed
<1> HIDE DEF o, w, s
<1>6. t \in Tasks
  BY <1>2, <1>3, <1>4, RestTyped DEF Tasks
<1> HIDE DEF t
<1>7. Moved(a, t)
  BY <1>1, <1>6, Sets
<1> QED
  BY <1>2, <1>3, <1>4, <1>5, <1>7 DEF t

\* A close that goes for a sandbox.
Torn(a, h, source) ==
  [at[a] EXCEPT !.pc = "teardown", !.handle = h, !.from = source,
                !.tried = at[a].tried \cup {h}, !.listed = at[a].listed \ {h}]

LEMMA TearIs ==
    ASSUME Typed, NEW a \in Actors, NEW h \in Handles,
           NEW source \in {"session", "address", "listing"}, Tear(a, h, source)
    PROVE  Moved(a, Torn(a, h, source))
<1>1. at[a] \in Tasks /\ "teardown" \in Stages /\ source \in Sources
  BY Kinds DEF Stages, Sources
<1>2. at' = [at EXCEPT ![a] = Torn(a, h, source)]
  BY DEF Tear, Torn
<1>3. Torn(a, h, source) \in Tasks
  BY <1>1 DEF Tasks, Torn
<1> QED
  BY <1>2, <1>3, Sets

LEMMA CloseTakeIs ==
    ASSUME Typed, NEW a \in Actors, CloseTake(a)
    PROVE  /\ Handed(None)
           /\ \/ /\ Session(a).handle \in Handles /\ at[a].obj \in Objects
                 /\ Moved(a, Torn(a, Session(a).handle, "session"))
              \/ Moved(a, [at[a] EXCEPT !.pc = "published"])
<1> DEFINE p == PodOf[a]
           o == at[a].obj
           s == [object[p][o] EXCEPT !.handle = None, !.locked = TRUE]
<1>1. o \in Objects /\ p \in Pods /\ object[p][o] \in Sessions /\ Session(a).handle \in Handles \cup {None}
  BY Kinds DEF Typed, Seated, Holding, CloseTake
<1>2. CASE Takes(p, o)
  <2>0. object' = [object EXCEPT ![p][o].handle = None, ![p][o].locked = TRUE]
    BY <1>2 DEF CloseTake
  <2>1. /\ object' = [object EXCEPT ![p][o] = s] /\ table' = table
        /\ Tear(a, Session(a).handle, "session")
    <3>1. object' = [object EXCEPT ![p][o] = s]
      BY <2>0
    <3>2. table' = table /\ Tear(a, Session(a).handle, "session")
      BY <1>2 DEF CloseTake, Session
    <3> QED
      BY <3>1, <3>2
  <2>2. s \in Sessions /\ s.handle = None
    BY <1>1 DEF Sessions
  <2>3. Session(a).handle \in Handles
    BY <1>1, <1>2 DEF Takes, Session
  <2> HIDE DEF s, p, o
  <2>4. Handed(None)
    BY <1>1, <2>1, <2>2, FlagSet DEF Typed
  <2> QED
    BY <1>1, <2>1, <2>3, <2>4, TearIs DEF o
<1>3. CASE ~Takes(p, o)
  <2>1. Goto(a, "published") /\ UNCHANGED <<table, object>> /\ "published" \in Stages
    BY <1>3 DEF CloseTake, Stages
  <2> QED
    BY <2>1, Went, SameSessions DEF Typed
<1> QED
  BY <1>2, <1>3

LEMMA ClosePublishedIs ==
    ASSUME Typed, NEW a \in Actors, ClosePublished(a)
    PROVE  /\ Handed(None)
           /\ \/ /\ address \in Handles /\ Moved(a, Torn(a, address, "address"))
              \/ /\ address = None \/ address \in at[a].tried
                 /\ Moved(a, [at[a] EXCEPT !.pc = "list"])
<1>1. Handed(None) /\ address \in Handles \cup {None} /\ "list" \in Stages
  BY SameSessions DEF ClosePublished, registry, Typed, TypeOK, RegistryTypeOK, Stages
<1>2. CASE address # None /\ address \notin at[a].tried
  <2>1. address \in Handles /\ Tear(a, address, "address")
    BY <1>1, <1>2 DEF ClosePublished
  <2> QED
    BY <1>1, <2>1, TearIs
<1>3. CASE ~(address # None /\ address \notin at[a].tried)
  <2>1. Goto(a, "list")
    BY <1>3 DEF ClosePublished
  <2> QED
    BY <1>1, <1>3, <2>1, Went
<1> QED
  BY <1>2, <1>3

LEMMA CloseListIs ==
    ASSUME Typed, NEW a \in Actors, CloseList(a)
    PROVE  /\ Handed(None)
           /\ \E here \in SUBSET alive :
                Moved(a, [at[a] EXCEPT !.pc = "unrecorded", !.listed = here])
<1>1. Handed(None) /\ alive \in SUBSET Handles /\ "unrecorded" \in Stages /\ at[a] \in Tasks
  BY Kinds, SameSessions DEF CloseList, registry, Typed, TypeOK, HostTypeOK, Stages
<1>2. PICK here \in SUBSET alive :
         at' = [at EXCEPT ![a].pc = "unrecorded", ![a].listed = here \ at[a].tried]
  BY DEF CloseList
<1> DEFINE some == here \ at[a].tried
           t == [at[a] EXCEPT !.pc = "unrecorded", !.listed = some]
<1>3. at' = [at EXCEPT ![a] = t]
  BY <1>2
<1>4. some \in SUBSET alive /\ some \in SUBSET Handles
  BY <1>1
<1> HIDE DEF some
<1>5. t \in Tasks
  BY <1>1, <1>4 DEF Tasks
<1> HIDE DEF t
<1>6. Moved(a, t)
  BY <1>3, <1>5, Sets
<1> QED
  BY <1>1, <1>4, <1>6 DEF t

LEMMA CloseUnrecordedIs ==
    ASSUME Typed, NEW a \in Actors, CloseUnrecorded(a)
    PROVE  /\ Handed(None)
           /\ \/ \E h \in at[a].listed : Moved(a, Torn(a, h, "listing"))
              \/ Moved(a, [at[a] EXCEPT !.pc = "forget"])
<1>1. Handed(None) /\ at[a].listed \in SUBSET Handles /\ "forget" \in Stages
  BY Kinds, SameSessions DEF CloseUnrecorded, registry, Typed, TypeOK, HostTypeOK, Stages, Tasks
<1>2. ASSUME NEW h \in at[a].listed, Tear(a, h, "listing") PROVE Moved(a, Torn(a, h, "listing"))
  BY <1>1, <1>2, TearIs
<1>3. ASSUME Goto(a, "forget") PROVE Moved(a, [at[a] EXCEPT !.pc = "forget"])
  BY <1>1, <1>3, Went
<1> QED
  BY <1>1, <1>2, <1>3 DEF CloseUnrecorded

\* Where a close goes after a teardown.
After(a, killed) ==
  CASE at[a].from = "listing" -> "unrecorded"
    [] Ended(killed) -> "forget"
    [] at[a].from = "session" -> "published"
    [] OTHER -> "list"

LEMMA TornDownIs ==
    ASSUME Typed, NEW a \in Actors, Tearing(a), NEW killed \in BOOLEAN, TornDown(a, killed),
           table' = table
    PROVE  Handed(None) /\ Moved(a, [at[a] EXCEPT !.pc = After(a, killed)])
<1> DEFINE p == PodOf[a]
           o == at[a].obj
           s == [object[p][o] EXCEPT !.locked = FALSE]
<1>1. After(a, killed) \in Stages /\ Goto(a, After(a, killed))
  BY DEF After, Stages, TornDown
<1>2. Moved(a, [at[a] EXCEPT !.pc = After(a, killed)])
  BY <1>1, Went
<1>3. CASE at[a].from = "session"
  <2>1. o \in Objects /\ p \in Pods /\ object[p][o] \in Sessions
    BY <1>3, Kinds DEF Typed, Seated
  <2>2. object' = [object EXCEPT ![p][o] = s]
    BY <1>3 DEF TornDown
  <2>3. s \in Sessions /\ s.handle = object[p][o].handle
    BY <2>1 DEF Sessions
  <2> HIDE DEF s, p, o
  <2>4. Handed(None)
    BY <2>1, <2>2, <2>3, FlagSet DEF Typed
  <2> QED
    BY <1>2, <2>4
<1>4. CASE at[a].from # "session"
  <2>1. object' = object
    BY <1>4 DEF TornDown
  <2> QED
    BY <1>2, <2>1, SameSessions DEF Typed
<1> QED
  BY <1>3, <1>4

LEMMA TeardownIs ==
    ASSUME Typed, NEW a \in Actors, Teardown(a)
    PROVE  /\ Handed(None)
           /\ \/ Alive(at[a].handle) /\ Moved(a, [at[a] EXCEPT !.pc = "closekill"])
              \/ ~Alive(at[a].handle) /\ Moved(a, [at[a] EXCEPT !.pc = After(a, FALSE)])
<1>1. CASE Alive(at[a].handle)
  <2>1. Goto(a, "closekill") /\ UNCHANGED <<table, object>> /\ "closekill" \in Stages
    BY <1>1 DEF Teardown, Stages
  <2> QED
    BY <1>1, <2>1, Went, SameSessions DEF Typed
<1>2. CASE ~Alive(at[a].handle)
  <2>1. TornDown(a, FALSE) /\ table' = table /\ Tearing(a)
    BY <1>2 DEF Teardown, Tearing
  <2> QED
    BY <1>2, <2>1, TornDownIs
<1> QED
  BY <1>1, <1>2

LEMMA CloseKillIs ==
    ASSUME Typed, NEW a \in Actors, CloseKill(a)
    PROVE  Handed(None) /\ Moved(a, [at[a] EXCEPT !.pc = After(a, Alive(at[a].handle))])
<1>1. TornDown(a, Alive(at[a].handle)) /\ table' = table /\ Tearing(a) /\ Alive(at[a].handle) \in BOOLEAN
  BY DEF CloseKill, Tearing, Alive
<1> QED
  BY <1>1, TornDownIs

LEMMA ClosePopIs ==
    ASSUME Typed, NEW a \in Actors, ClosePop(a)
    PROVE  Handed(None) /\ Moved(a, Rest)
<1> DEFINE p == PodOf[a]
           o == at[a].obj
           empty == o = None \/ (table[p] = o /\ object[p][o].handle = None)
<1>1. /\ Done(a) /\ Collected(object)
      /\ table' = [table EXCEPT ![p] = IF empty THEN None ELSE table[p]]
  BY DEF ClosePop
<1>2. p \in Pods /\ table \in [Pods -> Objects \cup {None}]
  BY Kinds DEF Typed, TypeOK, RegistryTypeOK
<1> HIDE DEF p, o, empty
<1>3. table' \in {table, [table EXCEPT ![p] = None]}
  BY <1>1, <1>2
<1> QED
  BY <1>1, <1>2, <1>3, Rests, Unlisted

-----------------------------------------------------------------------------
(* Types are kept                                                           *)

Shared == address \in Handles \cup {None} /\ beat \in {"none", "fresh", "old"}

\* A step of one task keeps the types when it leaves that task seated.
LEMMA TypedStep ==
    ASSUME Typed, NEW a \in Actors, NEW t, Moved(a, t), NEW h, Handed(h),
           HostTypeOK', Shared', LogTypeOK', ops' >= ops, Seated(a)', Named(a)'
    PROVE  Typed'
<1>1. TypeOK'
  BY DEF Moved, Only, Handed, Shared, TypeOK, RegistryTypeOK, TaskTypeOK
<1>2. ASSUME NEW b \in Actors PROVE Seated(b)' /\ Named(b)'
  <2>1. CASE b = a
    BY <2>1
  <2>2. CASE b # a
    <3>1. at'[b] = at[b] /\ Seated(b) /\ Named(b) /\ at[b] \in Tasks /\ ops \in Nat /\ ops' \in Nat
      BY <2>2, Kinds DEF Moved, Only, Typed, TypeOK, LogTypeOK
    <3>2. Seated(b)'
      BY <3>1 DEF Seated, Tearing
    <3>3. at[b].write # None => at[b].write \in Nat
      BY <3>1 DEF Tasks, Writes
    <3>4. Named(b)'
      BY <3>1, <3>3 DEF Named
    <3> QED
      BY <3>2, <3>4
  <2> QED
    BY <2>1, <2>2
<1> QED
  BY <1>1, <1>2 DEF Typed

\* A task that rests, and one that starts.
LEMMA RestSeated ==
    ASSUME NEW a \in Actors, Moved(a, Rest)
    PROVE  Seated(a)' /\ Named(a)'
<1>1. at'[a] = Rest
  BY DEF Moved
<1>2. Rest.pc = "idle" /\ Rest.write = None
  BY DEF Rest
<1> QED
  BY <1>1, <1>2 DEF Seated, Named, Tearing, Holding, Work

\* A task that only moves on to a stage that asks for nothing more.
LEMMA StageSeated ==
    ASSUME Typed, NEW a \in Actors, NEW s \in Stages, Moved(a, [at[a] EXCEPT !.pc = s]), ops' = ops,
           s \in Work => at[a].pc \in Work, s \notin {"check", "cold"},
           s \in Holding => at[a].obj \in Objects,
           s = "use" /\ at[a].op = "turn" => at[a].obj \in Objects,
           s \in {"teardown", "closekill"} /\ at[a].from = "session" => at[a].obj \in Objects
    PROVE  Seated(a)' /\ Named(a)'
<1>1. at[a] \in Tasks /\ at'[a] = [at[a] EXCEPT !.pc = s]
  BY Kinds DEF Moved
<1>2. /\ at'[a].pc = s /\ at'[a].obj = at[a].obj /\ at'[a].op = at[a].op
      /\ at'[a].from = at[a].from /\ at'[a].write = at[a].write
  BY <1>1 DEF Tasks
<1>3. Named(a)
  BY DEF Typed
<1> QED
  BY <1>2, <1>3 DEF Seated, Named, Tearing

LEMMA StaySeated ==
    ASSUME Typed, NEW a \in Actors, Moved(a, at[a]), ops' \in Nat, ops' >= ops
    PROVE  Seated(a)' /\ Named(a)'
<1>1. at'[a] = at[a] /\ Seated(a) /\ Named(a) /\ at[a] \in Tasks /\ ops \in Nat
  BY Kinds DEF Moved, Typed, TypeOK, LogTypeOK
<1>2. Seated(a)'
  BY <1>1 DEF Seated, Tearing
<1>3. at[a].write # None => at[a].write \in Nat
  BY <1>1 DEF Tasks, Writes
<1>4. Named(a)'
  BY <1>1, <1>3 DEF Named
<1> QED
  BY <1>2, <1>4

LEMMA SameHost == ASSUME Typed, UNCHANGED host PROVE HostTypeOK'
BY DEF Typed, TypeOK, HostTypeOK, host

LEMMA SameShared == ASSUME Typed, UNCHANGED <<address, beat>> PROVE Shared'
BY DEF Typed, TypeOK, RegistryTypeOK, Shared

LEMMA SameLog == ASSUME Typed, UNCHANGED <<ops, faults, log>> PROVE LogTypeOK' /\ ops' = ops /\ ops' >= ops /\ ops' \in Nat
BY DEF Typed, TypeOK, LogTypeOK, log

\* An operation that starts is counted.
LEMMA Started ==
    ASSUME Typed, NEW a \in Actors, NEW op, Start(a, op), UNCHANGED <<faults, log>>
    PROVE  LogTypeOK' /\ ops' = ops + 1 /\ ops' >= ops /\ ops' \in Nat
BY BoundsAssumption DEF Typed, TypeOK, LogTypeOK, log, Start

\* The steps that build a sandbox and work in it.
LEMMA TypedWork ==
    ASSUME Typed, NEW a \in Actors,
           \/ TurnBegin(a) \/ Lock(a) \/ AcquireRead(a) \/ Create(a) \/ Publish(a)
           \/ KillOrphan(a) \/ Bump(a)
    PROVE  Typed'
<1>0. at[a] \in Tasks /\ TypeOK /\ HostTypeOK /\ RegistryTypeOK /\ Seated(a) /\ Named(a)
  BY Kinds DEF Typed, TypeOK
<1>1. CASE TurnBegin(a)
  <2> DEFINE o == SessionOf(PodOf[a])
             t == [Rest EXCEPT !.op = "turn", !.pc = "lock", !.write = ops + 1, !.obj = o]
  <2>1. Handed(None) /\ o \in Objects /\ Moved(a, t)
    BY <1>1, TurnBeginIs
  <2>2. HostTypeOK' /\ Shared' /\ LogTypeOK' /\ ops' = ops + 1 /\ ops' >= ops /\ ops' \in Nat
    BY <1>1, SameHost, SameShared, Started DEF TurnBegin
  <2> HIDE DEF o
  <2>3. t.pc = "lock" /\ t.obj = o /\ t.op = "turn" /\ t.write = ops + 1
    BY DEF Rest
  <2> HIDE DEF t
  <2>4. at'[a] = t /\ ops + 1 # None
    BY <2>1, <2>2, NoneAssumption DEF Moved
  <2>5. Seated(a)' /\ Named(a)'
    BY <2>1, <2>2, <2>3, <2>4 DEF Seated, Named, Tearing
  <2> QED
    BY <2>1, <2>2, <2>5, TypedStep
<1>2. CASE Lock(a)
  <2>1. HostTypeOK' /\ Shared' /\ LogTypeOK' /\ ops' = ops /\ ops' >= ops
    BY <1>2, SameHost, SameShared, SameLog DEF Lock
  <2>2. Handed(None) /\ at[a].pc = "lock" /\ at[a].obj \in Objects
    BY <1>0, <1>2, LockIs DEF Lock, Seated, Holding
  <2>3. CASE Moved(a, [at[a] EXCEPT !.pc = "bump", !.handle = Session(a).handle])
    <3> DEFINE t == [at[a] EXCEPT !.pc = "bump", !.handle = Session(a).handle]
    <3>1. t.pc = "bump" /\ t.obj = at[a].obj /\ t.op = at[a].op /\ t.write = at[a].write
      BY <1>0 DEF Tasks
    <3> HIDE DEF t
    <3>2. Moved(a, t) /\ at'[a] = t
      BY <2>3 DEF Moved, t
    <3>3. Seated(a)' /\ Named(a)'
      BY <1>0, <2>1, <2>2, <3>1, <3>2 DEF Seated, Named, Tearing, Work
    <3> QED
      BY <2>1, <2>2, <3>2, <3>3, TypedStep
  <2>4. CASE Moved(a, [at[a] EXCEPT !.pc = "acquire"])
    <3>1. Seated(a)' /\ Named(a)'
      <4>1. "acquire" \in Stages /\ at[a].pc \in Work
        BY <2>2 DEF Stages, Work
      <4> QED
        BY <2>1, <2>2, <2>4, <4>1, StageSeated
    <3> QED
      BY <2>1, <2>2, <2>4, <3>1, TypedStep
  <2> QED
    BY <1>2, <2>3, <2>4, LockIs
<1>3. ASSUME NEW h, NEW t, Moved(a, t), Handed(h), HostTypeOK', Shared',
             UNCHANGED <<ops, faults, log>>, at[a].pc \in {"acquire", "create", "publish", "orphan", "bump"},
             t.pc \in {"create", "publish", "orphan", "bump", "use"},
             t.obj = at[a].obj, t.op = at[a].op, t.write = at[a].write
      PROVE  Typed'
  <2>1. LogTypeOK' /\ ops' = ops /\ ops' >= ops
    BY <1>3, SameLog
  <2>2. at'[a] = t /\ at[a].obj \in Objects
    BY <1>0, <1>3 DEF Moved, Seated, Holding
  <2>3. Seated(a)' /\ Named(a)'
    BY <1>0, <1>3, <2>1, <2>2 DEF Seated, Named, Tearing, Work
  <2> QED
    BY <1>3, <2>1, <2>3, TypedStep
<1>4. CASE AcquireRead(a)
  <2>1. HostTypeOK' /\ Shared' /\ UNCHANGED <<ops, faults, log>> /\ at[a].pc = "acquire"
    BY <1>4, SameHost, SameShared DEF AcquireRead
  <2> DEFINE t1 == [at[a] EXCEPT !.pc = "bump", !.handle = address, !.stale = None]
             t2 == [at[a] EXCEPT !.pc = "create", !.stale = address]
  <2>2. /\ t1.pc = "bump" /\ t1.obj = at[a].obj /\ t1.op = at[a].op /\ t1.write = at[a].write
        /\ t2.pc = "create" /\ t2.obj = at[a].obj /\ t2.op = at[a].op /\ t2.write = at[a].write
    BY <1>0 DEF Tasks
  <2>3. (Moved(a, t1) /\ Handed(address)) \/ (Moved(a, t2) /\ Handed(None))
    BY <1>4, AcquireReadIs
  <2> HIDE DEF t1, t2
  <2> QED
    BY <1>3, <2>1, <2>2, <2>3
<1>5. CASE Create(a)
  <2>1. HostTypeOK'
    <3>1. /\ created \in 0 .. MaxCreates /\ alive \in SUBSET Handles /\ durable \in SUBSET Writes
          /\ box \in [Handles -> SUBSET Writes]
      BY <1>0 DEF HostTypeOK
    <3>2. created + 1 \in 0 .. MaxCreates /\ created + 1 \in Handles
      BY <1>5, <3>1, BoundsAssumption DEF Create, Handles
    <3>3. box' = [box EXCEPT ![created + 1] = durable] /\ alive' = alive \cup {created + 1}
      BY <1>5 DEF Create, Restored
    <3>4. box' \in [Handles -> SUBSET Writes] /\ alive' \in SUBSET Handles
      BY <3>1, <3>2, <3>3
    <3> QED
      BY <1>5, <3>1, <3>2, <3>4 DEF HostTypeOK, Create
  <2>2. Shared' /\ UNCHANGED <<ops, faults, log>> /\ at[a].pc = "create"
    BY <1>5, SameShared DEF Create, registry
  <2> DEFINE t == [at[a] EXCEPT !.pc = "publish", !.handle = created + 1]
  <2>3. t.pc = "publish" /\ t.obj = at[a].obj /\ t.op = at[a].op /\ t.write = at[a].write
    BY <1>0 DEF Tasks
  <2>4. Moved(a, t) /\ Handed(None)
    BY <1>5, CreateIs
  <2> HIDE DEF t
  <2> QED
    BY <1>3, <2>1, <2>2, <2>3, <2>4
<1>6. CASE Publish(a)
  <2>1. HostTypeOK' /\ UNCHANGED <<ops, faults, log>> /\ at[a].pc = "publish"
    BY <1>6, SameHost DEF Publish
  <2>2. Shared'
    <3>1. address' \in {address, at[a].handle} /\ beat' = beat
      BY <1>6, PublishIs DEF Publish
    <3>2. at[a].handle \in Handles \cup {None}
      BY <1>0 DEF Tasks
    <3> QED
      BY <1>0, <3>1, <3>2 DEF Shared, RegistryTypeOK
  <2> DEFINE t1 == [at[a] EXCEPT !.pc = "bump", !.handle = at[a].handle, !.stale = None]
             t2 == [at[a] EXCEPT !.pc = "orphan", !.stale = address]
  <2>3. /\ t1.pc = "bump" /\ t1.obj = at[a].obj /\ t1.op = at[a].op /\ t1.write = at[a].write
        /\ t2.pc = "orphan" /\ t2.obj = at[a].obj /\ t2.op = at[a].op /\ t2.write = at[a].write
    BY <1>0 DEF Tasks
  <2>4. (Moved(a, t1) /\ Handed(at[a].handle)) \/ (Moved(a, t2) /\ Handed(None))
    BY <1>6, PublishIs
  <2> HIDE DEF t1, t2
  <2> QED
    BY <1>3, <2>1, <2>2, <2>3, <2>4
<1>7. CASE KillOrphan(a)
  <2>1. HostTypeOK' /\ Shared' /\ UNCHANGED <<ops, faults, log>> /\ at[a].pc = "orphan"
    BY <1>0, <1>7, SameShared DEF KillOrphan, HostTypeOK
  <2> DEFINE t == [at[a] EXCEPT !.pc = "bump", !.handle = at[a].stale, !.stale = None]
  <2>3. t.pc = "bump" /\ t.obj = at[a].obj /\ t.op = at[a].op /\ t.write = at[a].write
    BY <1>0 DEF Tasks
  <2>4. Moved(a, t) /\ Handed(at[a].stale)
    BY <1>7, KillOrphanIs
  <2> HIDE DEF t
  <2> QED
    BY <1>3, <2>1, <2>3, <2>4
<1>8. CASE Bump(a)
  <2>1. HostTypeOK' /\ Shared' /\ UNCHANGED <<ops, faults, log>> /\ at[a].pc = "bump"
    BY <1>0, <1>8, SameHost DEF Bump, RegistryTypeOK, Shared
  <2> DEFINE t == [at[a] EXCEPT !.pc = "use", !.force = FALSE]
  <2>3. t.pc = "use" /\ t.obj = at[a].obj /\ t.op = at[a].op /\ t.write = at[a].write
    BY <1>0 DEF Tasks
  <2>4. Moved(a, t) /\ Handed(None)
    BY <1>8, BumpIs
  <2> HIDE DEF t
  <2> QED
    BY <1>3, <2>1, <2>3, <2>4
<1> QED
  BY <1>1, <1>2, <1>4, <1>5, <1>6, <1>7, <1>8

\* The steps of file operations, the use of a sandbox and a turn's end.
LEMMA TypedFile ==
    ASSUME Typed, NEW a \in Actors,
           FileResolve(a) \/ FileCheck(a) \/ ColdWrite(a) \/ Use(a) \/ Flush(a)
    PROVE  Typed'
<1>0. at[a] \in Tasks /\ TypeOK /\ HostTypeOK /\ RegistryTypeOK /\ LogTypeOK /\ Seated(a) /\ Named(a)
  BY Kinds DEF Typed, TypeOK
<1>1. CASE FileResolve(a)
  <2>1. HostTypeOK' /\ Shared' /\ LogTypeOK' /\ ops' = ops + 1 /\ ops' >= ops /\ ops' \in Nat
    BY <1>1, SameHost, SameShared, Started DEF FileResolve, registry
  <2>2. PICK h \in Handles \cup {None} :
           Moved(a, [Rest EXCEPT !.op = "file", !.handle = h, !.write = ops + 1,
                                 !.pc = IF h = None THEN "cold" ELSE "check"])
    BY <1>1, FileResolveIs
  <2>3. Handed(None)
    BY <1>1, FileResolveIs
  <2> DEFINE pc == IF h = None THEN "cold" ELSE "check"
             t == [Rest EXCEPT !.op = "file", !.handle = h, !.write = ops + 1, !.pc = pc]
  <2>4. pc \in {"cold", "check"}
    OBVIOUS
  <2>5. t.pc = pc /\ t.op = "file" /\ t.write = ops + 1
    BY DEF Rest
  <2> HIDE DEF pc, t
  <2>6. Moved(a, t) /\ at'[a] = t /\ ops + 1 # None
    BY <2>1, <2>2, NoneAssumption DEF Moved, t, pc
  <2>7. Seated(a)' /\ Named(a)'
    BY <2>1, <2>4, <2>5, <2>6 DEF Seated, Named, Tearing, Holding
  <2> QED
    BY <2>1, <2>3, <2>6, <2>7, TypedStep
<1>2. CASE FileCheck(a)
  <2>1. HostTypeOK' /\ Shared' /\ LogTypeOK' /\ ops' = ops /\ ops' >= ops
    BY <1>2, SameHost, SameShared, SameLog DEF FileCheck
  <2>2. Handed(None) /\ at[a].pc = "check" /\ at[a].pc \in Work
    BY <1>2, FileCheckIs DEF FileCheck, Work
  <2>3. CASE Moved(a, [at[a] EXCEPT !.pc = "use"]) /\ at[a].op # "turn"
    <3>1. Seated(a)' /\ Named(a)'
      <4>1. "use" \in Stages /\ "use" \notin Holding
        BY DEF Stages, Holding
      <4> QED
        BY <2>1, <2>2, <2>3, <4>1, StageSeated
    <3> QED
      BY <2>1, <2>2, <2>3, <3>1, TypedStep
  <2>4. CASE /\ SessionOf(PodOf[a]) \in Objects
             /\ Moved(a, [at[a] EXCEPT !.pc = "lock", !.obj = SessionOf(PodOf[a])])
    <3> DEFINE o == SessionOf(PodOf[a])
               t == [at[a] EXCEPT !.pc = "lock", !.obj = o]
    <3>1. t.pc = "lock" /\ t.obj = o /\ t.op = at[a].op /\ t.write = at[a].write
      BY <1>0 DEF Tasks
    <3> HIDE DEF t, o
    <3>2. Moved(a, t) /\ at'[a] = t /\ o \in Objects
      BY <2>4 DEF Moved, t, o
    <3>3. Seated(a)' /\ Named(a)'
      BY <1>0, <2>1, <2>2, <3>1, <3>2 DEF Seated, Named, Tearing
    <3> QED
      BY <2>1, <2>2, <3>2, <3>3, TypedStep
  <2>5. at[a].op # "turn"
    BY <1>0, <1>2 DEF Named, FileCheck
  <2> QED
    BY <1>2, <2>3, <2>4, <2>5, FileCheckIs
<1>3. CASE ColdWrite(a)
  <2>1. at[a].write \in Writes
    BY <1>0, <1>3 DEF ColdWrite, Named, Work, Tasks
  <2>2. HostTypeOK' /\ Shared' /\ LogTypeOK' /\ ops' = ops /\ ops' >= ops
    BY <1>0, <1>3, <2>1, SameShared DEF ColdWrite, HostTypeOK, LogTypeOK, registry
  <2>3. Handed(None) /\ Moved(a, Rest)
    BY <1>3, ColdWriteIs
  <2> QED
    BY <2>2, <2>3, RestSeated, TypedStep
<1>4. CASE Use(a)
  <2>1. at[a].write \in Writes /\ at[a].pc = "use"
    BY <1>0, <1>4 DEF Use, Named, Work, Tasks
  <2>2. LogTypeOK' /\ ops' = ops /\ ops' >= ops
    <3>1. acked' \in {acked, acked \cup {at[a].write}} /\ exposed' \in {exposed, exposed \cup {at[a].write}}
      BY <1>4 DEF Use, log
    <3> QED
      BY <1>0, <1>4, <2>1, <3>1 DEF Use, LogTypeOK
  <2>3. HostTypeOK' /\ Shared'
    <3>1. box' \in [Handles -> SUBSET Writes]
      <4>1. CASE Alive(at[a].handle)
        <5>1. box' = [box EXCEPT ![at[a].handle] = @ \cup {at[a].write}]
          BY <1>4, <4>1 DEF Use
        <5> QED
          BY <1>0, <2>1, <5>1 DEF HostTypeOK
      <4>2. CASE ~Alive(at[a].handle)
        BY <1>0, <1>4, <4>2 DEF Use, HostTypeOK
      <4> QED
        BY <4>1, <4>2
    <3> QED
      BY <1>0, <1>4, <3>1, SameShared DEF Use, HostTypeOK
  <2>4. Handed(None)
    BY <1>4, UseIs
  <2>5. CASE Moved(a, Rest)
    BY <2>2, <2>3, <2>4, <2>5, RestSeated, TypedStep
  <2>6. CASE Moved(a, [at[a] EXCEPT !.pc = "flush"])
    <3>1. Seated(a)' /\ Named(a)'
      <4>1. "flush" \in Stages /\ "flush" \notin Holding /\ at[a].pc \in Work
        BY <2>1 DEF Stages, Holding, Work
      <4> QED
        BY <2>2, <2>6, <4>1, StageSeated
    <3> QED
      BY <2>2, <2>3, <2>4, <2>6, <3>1, TypedStep
  <2>7. CASE Moved(a, [at[a] EXCEPT !.pc = "lock", !.force = TRUE]) /\ at[a].op = "turn"
    <3> DEFINE t == [at[a] EXCEPT !.pc = "lock", !.force = TRUE]
    <3>1. t.pc = "lock" /\ t.obj = at[a].obj /\ t.op = at[a].op /\ t.write = at[a].write
      BY <1>0 DEF Tasks
    <3> HIDE DEF t
    <3>2. Moved(a, t) /\ at'[a] = t /\ at[a].obj \in Objects
      BY <1>0, <2>1, <2>7 DEF Moved, t, Seated
    <3>3. Seated(a)' /\ Named(a)'
      BY <1>0, <2>1, <2>2, <2>7, <3>1, <3>2 DEF Seated, Named, Tearing, Work
    <3> QED
      BY <2>2, <2>3, <2>4, <3>2, <3>3, TypedStep
  <2> QED
    BY <1>4, <2>5, <2>6, <2>7, UseIs
<1>5. CASE Flush(a)
  <2>1. durable' \in SUBSET Writes
    <3> DEFINE h == Listed(PodOf[a])
    <3>1. h \in Handles \cup {None}
      BY Kinds
    <3>2. (h # None /\ Alive(h) /\ durable' = box[h]) \/ durable' = durable
      BY <1>5 DEF Flush, Reconcile, Listed
    <3> HIDE DEF h
    <3> QED
      BY <1>0, <3>1, <3>2 DEF HostTypeOK
  <2>2. HostTypeOK' /\ Shared' /\ LogTypeOK' /\ ops' = ops /\ ops' >= ops
    BY <1>0, <1>5, <2>1, SameShared, SameLog DEF Flush, HostTypeOK
  <2>3. Handed(None) /\ Moved(a, Rest)
    BY <1>5, FlushIs
  <2> QED
    BY <2>2, <2>3, RestSeated, TypedStep
<1> QED
  BY <1>1, <1>2, <1>3, <1>4, <1>5

\* The steps of the reaper, of a shutdown and of the checkpoint.
LEMMA TypedReap ==
    ASSUME Typed, NEW a \in Actors,
           \/ ReapPick(a) \/ ReapRead(a) \/ Shutdown(a) \/ Writeback(a) \/ ShutdownRead(a)
           \/ Kill(a) \/ ReapDrop(a) \/ Forget(a) \/ Mirror(a)
    PROVE  Typed'
<1>0. at[a] \in Tasks /\ TypeOK /\ HostTypeOK /\ RegistryTypeOK /\ LogTypeOK /\ Seated(a) /\ Named(a)
  BY Kinds DEF Typed, TypeOK
<1>1. ASSUME HostTypeOK', Shared', LogTypeOK', ops' >= ops, ops' \in Nat, Handed(None), NEW o \in Objects,
             NEW op \in {"reap", "shutdown"}, NEW s \in {"idle?", "writeback"},
             Moved(a, [Rest EXCEPT !.op = op, !.pc = s, !.obj = o])
      PROVE  Typed'
  <2> DEFINE t == [Rest EXCEPT !.op = op, !.pc = s, !.obj = o]
  <2>1. t.pc = s /\ t.obj = o /\ t.write = None
    BY DEF Rest
  <2> HIDE DEF t
  <2>2. Moved(a, t) /\ at'[a] = t
    BY <1>1 DEF Moved, t
  <2>3. Seated(a)' /\ Named(a)'
    BY <1>1, <2>1, <2>2 DEF Seated, Named, Tearing, Work
  <2> QED
    BY <1>1, <2>2, <2>3, TypedStep
<1>2. ASSUME HostTypeOK', Shared', LogTypeOK', ops' >= ops, ops' \in Nat, Handed(None),
             Moved(a, Rest) \/ Moved(a, at[a])
      PROVE  Typed'
  <2>1. Seated(a)' /\ Named(a)'
    BY <1>2, RestSeated, StaySeated
  <2> QED
    BY <1>2, <2>1, TypedStep
<1>3. ASSUME HostTypeOK', Shared', LogTypeOK', ops' = ops, ops' >= ops, Handed(None), NEW s \in Stages,
             s \notin Work, s \in Holding => at[a].pc \in Holding,
             s \notin {"use", "teardown", "closekill"}, Moved(a, [at[a] EXCEPT !.pc = s])
      PROVE  Typed'
  <2>1. s \in Holding => at[a].obj \in Objects
    BY <1>0, <1>3 DEF Seated
  <2>2. s \notin {"check", "cold"}
    BY <1>3 DEF Work
  <2>3. Seated(a)' /\ Named(a)'
    BY <1>3, <2>1, <2>2, StageSeated
  <2> QED
    BY <1>3, <2>3, TypedStep
<1>4. CASE ReapPick(a)
  <2>1. HostTypeOK' /\ Shared' /\ LogTypeOK' /\ ops' >= ops /\ ops' \in Nat
    BY <1>4, SameHost, SameShared, Started DEF ReapPick
  <2> QED
    BY <1>1, <1>2, <1>4, <2>1, ReapPickIs
<1>5. CASE ReapRead(a)
  <2>1. HostTypeOK' /\ Shared' /\ LogTypeOK' /\ ops' = ops /\ ops' >= ops /\ ops' \in Nat
    BY <1>5, SameHost, SameShared, SameLog DEF ReapRead
  <2>2. "writeback" \in Stages /\ "writeback" \notin Work /\ at[a].pc \in Holding
    BY <1>5 DEF ReapRead, Stages, Work, Holding
  <2> QED
    BY <1>2, <1>3, <1>5, <2>1, <2>2, ReapReadIs
<1>6. CASE Shutdown(a)
  <2>1. HostTypeOK' /\ Shared' /\ LogTypeOK' /\ ops' >= ops /\ ops' \in Nat
    BY <1>6, SameHost, SameShared, Started DEF Shutdown
  <2> QED
    BY <1>1, <1>2, <1>6, <2>1, ShutdownIs
<1>7. CASE Writeback(a)
  <2>1. durable' \in SUBSET Writes /\ at[a].obj \in Objects
    BY <1>0, <1>7, WritebackIs DEF HostTypeOK, Writeback, Seated, Holding
  <2>2. HostTypeOK' /\ Shared' /\ LogTypeOK' /\ ops' = ops /\ ops' >= ops /\ ops' \in Nat
    BY <1>0, <1>7, <2>1, SameShared, SameLog DEF Writeback, HostTypeOK
  <2>3. Handed(None)
    BY <1>7, WritebackIs
  <2>4. ASSUME NEW s \in {"kill", "unused?"},
               Moved(a, [at[a] EXCEPT !.handle = Session(a).handle, !.pc = s])
        PROVE  Typed'
    <3> DEFINE t == [at[a] EXCEPT !.handle = Session(a).handle, !.pc = s]
    <3>1. t.pc = s /\ t.obj = at[a].obj /\ t.write = at[a].write
      BY <1>0 DEF Tasks
    <3> HIDE DEF t
    <3>2. Moved(a, t) /\ at'[a] = t
      BY <2>4 DEF Moved, t
    <3>3. Seated(a)' /\ Named(a)'
      BY <1>0, <2>1, <2>2, <2>4, <3>1, <3>2 DEF Seated, Named, Tearing, Work
    <3> QED
      BY <2>2, <2>3, <3>2, <3>3, TypedStep
  <2> QED
    BY <1>2, <1>7, <2>2, <2>3, <2>4, WritebackIs
<1>8. CASE ShutdownRead(a)
  <2>1. HostTypeOK' /\ Shared' /\ LogTypeOK' /\ ops' = ops /\ ops' >= ops /\ ops' \in Nat
    BY <1>8, SameHost, SameShared, SameLog DEF ShutdownRead
  <2>2. "kill" \in Stages /\ "kill" \notin Work /\ at[a].pc \in Holding
    BY <1>8 DEF ShutdownRead, Stages, Work, Holding
  <2> QED
    BY <1>2, <1>3, <1>8, <2>1, <2>2, ShutdownReadIs
<1>9. CASE Kill(a)
  <2>1. exposed' \in SUBSET Writes
    <3> DEFINE h == Session(a).handle
    <3>1. h \in Handles \cup {None}
      BY <1>0, <1>9, Kinds DEF Kill, Seated, Holding
    <3>2. exposed' = exposed \/ (h \in alive /\ exposed' = exposed \cup (box[h] \ durable))
      BY <1>9 DEF Kill
    <3> HIDE DEF h
    <3>3. h \in alive => box[h] \in SUBSET Writes
      BY <1>0 DEF HostTypeOK
    <3> QED
      BY <1>0, <3>2, <3>3 DEF LogTypeOK
  <2>2. HostTypeOK' /\ Shared' /\ LogTypeOK' /\ ops' = ops /\ ops' >= ops /\ ops' \in Nat
    BY <1>0, <1>9, <2>1, SameShared DEF Kill, HostTypeOK, LogTypeOK
  <2>3. \A s \in {"drop", "forget"} : s \in Stages /\ s \notin Work /\ s \notin Holding
    BY DEF Stages, Work, Holding
  <2> QED
    BY <1>2, <1>3, <1>9, <2>2, <2>3, KillIs
<1>10. CASE ReapDrop(a)
  <2>1. HostTypeOK' /\ Shared' /\ LogTypeOK' /\ ops' = ops /\ ops' >= ops /\ ops' \in Nat
    BY <1>10, SameHost, SameShared, SameLog DEF ReapDrop
  <2>2. "forget" \in Stages /\ "forget" \notin Work /\ "forget" \notin Holding
    BY DEF Stages, Work, Holding
  <2> QED
    BY <1>2, <1>3, <1>10, <2>1, <2>2, ReapDropIs
<1>11. CASE Forget(a)
  <2>1. HostTypeOK' /\ Shared' /\ LogTypeOK' /\ ops' = ops /\ ops' >= ops /\ ops' \in Nat
    BY <1>0, <1>11, SameHost, SameLog DEF Forget, Shared, RegistryTypeOK
  <2>2. "pop" \in Stages /\ "pop" \notin Work /\ "pop" \notin Holding
    BY DEF Stages, Work, Holding
  <2> QED
    BY <1>2, <1>3, <1>11, <2>1, <2>2, ForgetIs
<1>12. CASE Mirror(a)
  <2>1. durable' \in SUBSET Writes
    <3>1. Listed(PodOf[a]) \in Handles \cup {None} /\ Listed(PodOf[a]) # None
      BY <1>12, Kinds DEF Mirror
    <3> QED
      BY <1>0, <1>12, <3>1 DEF Mirror, HostTypeOK
  <2>2. HostTypeOK' /\ Shared' /\ LogTypeOK' /\ ops' >= ops /\ ops' \in Nat
    BY <1>0, <1>12, <2>1, SameShared, Started DEF Mirror, HostTypeOK, registry
  <2> QED
    BY <1>2, <1>12, <2>2, MirrorIs
<1> QED
  BY <1>4, <1>5, <1>6, <1>7, <1>8, <1>9, <1>10, <1>11, <1>12

\* The steps of a close.
LEMMA TypedClose ==
    ASSUME Typed, NEW a \in Actors,
           \/ CloseBegin(a) \/ CloseTake(a) \/ ClosePublished(a) \/ CloseList(a)
           \/ CloseUnrecorded(a) \/ Teardown(a) \/ CloseKill(a) \/ ClosePop(a)
    PROVE  Typed'
<1>0. at[a] \in Tasks /\ TypeOK /\ HostTypeOK /\ RegistryTypeOK /\ LogTypeOK /\ Seated(a) /\ Named(a)
  BY Kinds DEF Typed, TypeOK
<1>1. ASSUME HostTypeOK', Shared', LogTypeOK', ops' = ops, ops' >= ops, Handed(None), NEW h,
             NEW source \in {"session", "address", "listing"}, Moved(a, Torn(a, h, source)),
             source = "session" => at[a].obj \in Objects
      PROVE  Typed'
  <2> DEFINE t == Torn(a, h, source)
  <2>1. t.pc = "teardown" /\ t.obj = at[a].obj /\ t.from = source /\ t.write = at[a].write
    BY <1>0 DEF Tasks, Torn
  <2> HIDE DEF t
  <2>2. Moved(a, t) /\ at'[a] = t
    BY <1>1 DEF Moved, t
  <2>3. Seated(a)' /\ Named(a)'
    BY <1>0, <1>1, <2>1, <2>2 DEF Seated, Named, Tearing, Work, Holding
  <2> QED
    BY <1>1, <2>2, <2>3, TypedStep
<1>2. ASSUME HostTypeOK', Shared', LogTypeOK', ops' = ops, ops' >= ops, Handed(None), NEW s \in Stages,
             s \notin Work, s \notin Holding, s # "teardown", s = "closekill" => at[a].pc = "teardown",
             Moved(a, [at[a] EXCEPT !.pc = s])
      PROVE  Typed'
  <2>1. s \in {"teardown", "closekill"} /\ at[a].from = "session" => at[a].obj \in Objects
    BY <1>0, <1>2 DEF Seated, Tearing
  <2>2. s \notin {"check", "cold", "use"}
    BY <1>2 DEF Work
  <2>3. Seated(a)' /\ Named(a)'
    BY <1>2, <2>1, <2>2, StageSeated
  <2> QED
    BY <1>2, <2>3, TypedStep
<1>3. \A s \in {"published", "list", "unrecorded", "forget", "pop", "closekill"} :
         s \in Stages /\ s \notin Work /\ s \notin Holding /\ s # "teardown"
  BY DEF Stages, Work, Holding
<1>4. \A killed \in BOOLEAN : After(a, killed) \in {"published", "list", "unrecorded", "forget"}
  BY DEF After
<1>5. CASE CloseBegin(a)
  <2>1. HostTypeOK' /\ Shared' /\ LogTypeOK' /\ ops' = ops + 1 /\ ops' >= ops /\ ops' \in Nat
    BY <1>5, SameHost, SameShared, Started DEF CloseBegin, registry
  <2>2. PICK o \in Objects \cup {None}, w \in {ops + 1, None}, s \in {"published", "take"} :
           /\ s = "take" => o \in Objects
           /\ Moved(a, [Rest EXCEPT !.op = "close", !.obj = o, !.write = w, !.pc = s])
    BY <1>5, CloseBeginIs
  <2> DEFINE t == [Rest EXCEPT !.op = "close", !.obj = o, !.write = w, !.pc = s]
  <2>3. t.pc = s /\ t.obj = o /\ t.write = w
    BY DEF Rest
  <2> HIDE DEF t
  <2>4. Moved(a, t) /\ at'[a] = t
    BY <2>2 DEF Moved, t
  <2>5. Handed(None)
    BY <1>5, CloseBeginIs
  <2>6. Seated(a)' /\ Named(a)'
    BY <2>1, <2>2, <2>3, <2>4 DEF Seated, Named, Tearing, Work, Holding
  <2> QED
    BY <2>1, <2>4, <2>5, <2>6, TypedStep
<1>6. CASE CloseTake(a)
  <2>1. HostTypeOK' /\ Shared' /\ LogTypeOK' /\ ops' = ops /\ ops' >= ops
    BY <1>6, SameHost, SameShared, SameLog DEF CloseTake
  <2> QED
    BY <1>1, <1>2, <1>3, <1>6, <2>1, CloseTakeIs
<1>7. CASE ClosePublished(a)
  <2>1. HostTypeOK' /\ Shared' /\ LogTypeOK' /\ ops' = ops /\ ops' >= ops
    BY <1>7, SameHost, SameShared, SameLog DEF ClosePublished, registry
  <2> QED
    BY <1>1, <1>2, <1>3, <1>7, <2>1, ClosePublishedIs
<1>8. CASE CloseList(a)
  <2>1. HostTypeOK' /\ Shared' /\ LogTypeOK' /\ ops' = ops /\ ops' >= ops
    BY <1>8, SameHost, SameShared, SameLog DEF CloseList, registry
  <2>2. PICK here \in SUBSET alive : Moved(a, [at[a] EXCEPT !.pc = "unrecorded", !.listed = here])
    BY <1>8, CloseListIs
  <2> DEFINE t == [at[a] EXCEPT !.pc = "unrecorded", !.listed = here]
  <2>3. t.pc = "unrecorded" /\ t.write = at[a].write
    BY <1>0 DEF Tasks
  <2> HIDE DEF t
  <2>4. Moved(a, t) /\ at'[a] = t
    BY <2>2 DEF Moved, t
  <2>5. Handed(None)
    BY <1>8, CloseListIs
  <2>6. Seated(a)' /\ Named(a)'
    BY <1>0, <2>1, <2>3, <2>4 DEF Seated, Named, Tearing, Work, Holding
  <2> QED
    BY <2>1, <2>4, <2>5, <2>6, TypedStep
<1>9. CASE CloseUnrecorded(a)
  <2>1. HostTypeOK' /\ Shared' /\ LogTypeOK' /\ ops' = ops /\ ops' >= ops
    BY <1>9, SameHost, SameShared, SameLog DEF CloseUnrecorded, registry
  <2> QED
    BY <1>1, <1>2, <1>3, <1>9, <2>1, CloseUnrecordedIs
<1>10. CASE Teardown(a)
  <2> DEFINE h == at[a].handle
  <2>1. h \in alive => box[h] \in SUBSET Writes
    BY <1>0 DEF HostTypeOK
  <2>2. durable' \in SUBSET Writes /\ exposed' \in SUBSET Writes
    <3>1. CASE Alive(h)
      <4>1. durable' = box[h] /\ exposed' \in {exposed, exposed \cup (durable \ box[h])}
        BY <1>10, <3>1 DEF Teardown, Reconcile
      <4> HIDE DEF h
      <4> QED
        BY <1>0, <2>1, <3>1, <4>1 DEF HostTypeOK, LogTypeOK, Alive
    <3>2. CASE ~Alive(h)
      BY <1>0, <1>10, <3>2 DEF Teardown, HostTypeOK, LogTypeOK
    <3> QED
      BY <3>1, <3>2
  <2>3. HostTypeOK' /\ Shared' /\ LogTypeOK' /\ ops' = ops /\ ops' >= ops
    BY <1>0, <1>10, <2>2, SameShared DEF Teardown, HostTypeOK, LogTypeOK
  <2>4. at[a].pc = "teardown"
    BY <1>10 DEF Teardown
  <2>5. Handed(None)
    BY <1>10, TeardownIs
  <2>6. CASE Moved(a, [at[a] EXCEPT !.pc = "closekill"])
    BY <1>2, <1>3, <2>3, <2>4, <2>5, <2>6
  <2>7. CASE Moved(a, [at[a] EXCEPT !.pc = After(a, FALSE)])
    <3> DEFINE s == After(a, FALSE)
    <3>1. s \in {"published", "list", "unrecorded", "forget"} /\ Moved(a, [at[a] EXCEPT !.pc = s])
      BY <1>4, <2>7
    <3> HIDE DEF s
    <3>2. s \in Stages /\ s \notin Work /\ s \notin Holding /\ s # "teardown" /\ s # "closekill"
      BY <1>3, <3>1
    <3> QED
      BY <1>2, <2>3, <2>5, <3>1, <3>2
  <2> QED
    BY <1>10, <2>6, <2>7, TeardownIs
<1>11. CASE CloseKill(a)
  <2> DEFINE s == After(a, Alive(at[a].handle))
  <2>1. HostTypeOK' /\ Shared' /\ LogTypeOK' /\ ops' = ops /\ ops' >= ops
    BY <1>0, <1>11, SameShared, SameLog DEF CloseKill, HostTypeOK
  <2>2. s \in {"published", "list", "unrecorded", "forget"}
    <3>1. Alive(at[a].handle) \in BOOLEAN
      BY DEF Alive
    <3> QED
      BY <1>4, <3>1
  <2>3. Handed(None) /\ Moved(a, [at[a] EXCEPT !.pc = s])
    BY <1>11, CloseKillIs
  <2> HIDE DEF s
  <2>4. s \in Stages /\ s \notin Work /\ s \notin Holding /\ s # "teardown" /\ s # "closekill"
    BY <1>3, <2>2
  <2> QED
    BY <1>2, <2>1, <2>3, <2>4
<1>12. CASE ClosePop(a)
  <2>1. HostTypeOK' /\ Shared' /\ LogTypeOK' /\ ops' = ops /\ ops' >= ops
    BY <1>12, SameHost, SameShared, SameLog DEF ClosePop
  <2>2. Handed(None) /\ Moved(a, Rest)
    BY <1>12, ClosePopIs
  <2> QED
    BY <2>1, <2>2, RestSeated, TypedStep
<1> QED
  BY <1>5, <1>6, <1>7, <1>8, <1>9, <1>10, <1>11, <1>12

\* Idle time, the host's reaping, a lost pod.
LEMMA TypedWorld ==
    ASSUME Typed,
           \/ \E p \in Pods : SessionAges(p) \/ PodCrashes(p)
           \/ BeatAges \/ \E h \in Handles : HostReaps(h)
           \/ UNCHANGED vars
    PROVE  /\ Typed' /\ Handed(None)
           /\ \A b \in Actors : at'[b] \in {at[b], Rest}
<1>0. TypeOK /\ HostTypeOK /\ RegistryTypeOK /\ LogTypeOK /\ TaskTypeOK
  BY DEF Typed, TypeOK
<1>1. ASSUME \A b \in Actors : at'[b] \in {at[b], Rest}, ops' = ops PROVE \A b \in Actors : Seated(b)' /\ Named(b)'
  <2>1. SUFFICES ASSUME NEW b \in Actors PROVE Seated(b)' /\ Named(b)'
    OBVIOUS
  <2>2. CASE at'[b] = at[b]
    BY <1>1, <2>2 DEF Typed, Seated, Named, Tearing
  <2>3. CASE at'[b] = Rest
    <3>1. Rest.pc = "idle" /\ Rest.write = None
      BY DEF Rest
    <3> QED
      BY <2>3, <3>1 DEF Seated, Named, Tearing, Holding, Work
  <2> QED
    BY <1>1, <2>2, <2>3
<1>2. ASSUME HostTypeOK', Shared', LogTypeOK', ops' = ops, Handed(None), UNCHANGED at
      PROVE  Typed' /\ \A b \in Actors : at'[b] \in {at[b], Rest}
  <2>1. \A b \in Actors : Seated(b)' /\ Named(b)'
    BY <1>1, <1>2
  <2>2. TypeOK'
    BY <1>0, <1>2 DEF TypeOK, RegistryTypeOK, TaskTypeOK, Shared, Handed
  <2> QED
    BY <1>2, <2>1, <2>2 DEF Typed
<1>3. ASSUME NEW p \in Pods, SessionAges(p) PROVE Handed(None) /\ HostTypeOK' /\ Shared' /\ LogTypeOK' /\ ops' = ops /\ UNCHANGED at
  <2> DEFINE o == table[p]
             s == [object[p][o] EXCEPT !.recent = FALSE]
  <2>1. o \in Objects /\ object[p][o] \in Sessions
    BY <1>0, <1>3 DEF SessionAges, RegistryTypeOK
  <2>2. s \in Sessions /\ s.handle = object[p][o].handle
    BY <2>1 DEF Sessions
  <2>3. object' = [object EXCEPT ![p][o] = s] /\ table' = table
    BY <1>3 DEF SessionAges
  <2> HIDE DEF s, o
  <2>4. Handed(None)
    BY <1>0, <2>1, <2>2, <2>3, FlagSet
  <2> QED
    BY <1>3, <2>4, SameHost, SameShared, SameLog DEF SessionAges
<1>4. ASSUME BeatAges PROVE Handed(None) /\ HostTypeOK' /\ Shared' /\ LogTypeOK' /\ ops' = ops /\ UNCHANGED at
  BY <1>0, <1>4, SameHost, SameLog, SameSessions DEF BeatAges, Shared, RegistryTypeOK
<1>5. ASSUME UNCHANGED vars PROVE Handed(None) /\ HostTypeOK' /\ Shared' /\ LogTypeOK' /\ ops' = ops /\ UNCHANGED at
  BY <1>0, <1>5, SameHost, SameShared, SameLog, SameSessions DEF vars, host, log
<1>6. ASSUME NEW h \in Handles, HostReaps(h) PROVE Handed(None) /\ HostTypeOK' /\ Shared' /\ LogTypeOK' /\ ops' = ops /\ UNCHANGED at
  <2>1. Handed(None) /\ Shared' /\ UNCHANGED at
    BY <1>0, <1>6, SameShared, SameSessions DEF HostReaps, registry
  <2>2. HostTypeOK'
    BY <1>0, <1>6 DEF HostReaps, HostTypeOK
  <2>3. exposed' \in SUBSET Writes
    BY <1>0, <1>6 DEF HostReaps, HostTypeOK, LogTypeOK
  <2>4. faults' \in 0 .. MaxFaults
    BY <1>0, <1>6, BoundsAssumption DEF HostReaps, Fault, LogTypeOK
  <2> QED
    BY <1>0, <1>6, <2>1, <2>2, <2>3, <2>4 DEF HostReaps, LogTypeOK
<1>7. ASSUME NEW p \in Pods, PodCrashes(p)
      PROVE  Typed' /\ Handed(None) /\ \A b \in Actors : at'[b] \in {at[b], Rest}
  <2>1. at' \in [Actors -> Tasks] /\ \A b \in Actors : at'[b] \in {at[b], Rest}
    BY <1>0, <1>7, RestTyped DEF PodCrashes, TaskTypeOK
  <2>2. Handed(None)
    <3>1. object \in [Pods -> [Objects -> Sessions]] /\ table \in [Pods -> Objects \cup {None}]
      BY <1>0 DEF RegistryTypeOK
    <3> DEFINE line == [o \in Objects |-> NoSession]
    <3>2. line \in [Objects -> Sessions] /\ \A o \in Objects : line[o].handle = None
      BY RestTyped DEF NoSession
    <3>3. object' = [object EXCEPT ![p] = line] /\ table' = [table EXCEPT ![p] = None]
      BY <1>7 DEF PodCrashes
    <3> HIDE DEF line
    <3> QED
      BY <3>1, <3>2, <3>3 DEF Handed
  <2>3. HostTypeOK' /\ Shared' /\ ops' = ops
    BY <1>7, SameHost, SameShared DEF PodCrashes
  <2>4. LogTypeOK'
    <3>1. faults' \in 0 .. MaxFaults
      BY <1>0, <1>7, BoundsAssumption DEF PodCrashes, Fault, LogTypeOK
    <3> QED
      BY <1>0, <1>7, <3>1 DEF PodCrashes, LogTypeOK, log
  <2>5. \A b \in Actors : Seated(b)' /\ Named(b)'
    BY <1>1, <2>1, <2>3
  <2>6. TypeOK'
    BY <2>1, <2>2, <2>3, <2>4 DEF TypeOK, RegistryTypeOK, TaskTypeOK, Shared, Handed
  <2> QED
    BY <2>1, <2>2, <2>5, <2>6 DEF Typed
<1> QED
  BY <1>2, <1>3, <1>4, <1>5, <1>6, <1>7

LEMMA TypedInit == Init => Typed
<1> SUFFICES ASSUME Init PROVE Typed
  OBVIOUS
<1>1. HostTypeOK /\ LogTypeOK
  BY BoundsAssumption DEF Init, HostTypeOK, LogTypeOK
<1>2. RegistryTypeOK /\ TaskTypeOK
  BY RestTyped DEF Init, RegistryTypeOK, TaskTypeOK
<1>3. ASSUME NEW a \in Actors PROVE Seated(a) /\ Named(a)
  <2>1. at[a].pc = "idle" /\ at[a].write = None
    BY DEF Init, Rest
  <2> QED
    BY <2>1 DEF Seated, Named, Tearing, Holding, Work
<1> QED
  BY <1>1, <1>2, <1>3 DEF Typed, TypeOK

LEMMA TypedNext == Typed /\ [Next]_vars => Typed'
<1>1. ASSUME Typed, NEW a \in Actors, Step(a) PROVE Typed'
  BY <1>1, TypedWork, TypedFile, TypedReap, TypedClose DEF Step
<1>2. ASSUME Typed, [Next]_vars PROVE Typed'
  BY <1>1, <1>2, TypedWorld DEF Next
<1> QED
  BY <1>2

\* Every variable keeps its type, for any pods, tasks and bounds: no pod ever
\* runs out of session objects and no task works on an object it does not have.
THEOREM TypeCorrect == Spec => []TypeOK
<1>1. Typed => TypeOK
  BY DEF Typed
<1> QED
  BY <1>1, TypedInit, TypedNext, PTL DEF Spec

-----------------------------------------------------------------------------
(* One sandbox is worked in                                                 *)

Made == (1 .. created) \cup {None}

\* A handle the host has made, and no live one but the published.
Good(h) == h \in Made /\ (h \in alive => h = address)

Building(a) == at[a].pc \in {"publish", "orphan"}
Pointing == {"bump", "use", "check", "orphan", "create", "publish"}

\* What a task has in hand is the published sandbox or dead; what it builds is
\* not published yet, and replaces a dead one.
Points(a) ==
  /\ at[a].handle \in Made /\ at[a].stale \in Made /\ at[a].listed \subseteq 1 .. created
  /\ at[a].pc \in {"bump", "use", "check"} => Good(at[a].handle)
  /\ at[a].pc = "orphan" => Good(at[a].stale)
  /\ at[a].pc \in {"create", "publish"} => at[a].stale \notin alive
  /\ Building(a) => at[a].handle \notin {address, None}

\* No two tasks build the same sandbox, and nobody takes one for dead or
\* converges on it before it is published.
Apart ==
  \A a, b \in Actors : Building(a) =>
    /\ at[b].stale # at[a].handle
    /\ b # a /\ Building(b) => at[b].handle # at[a].handle

Converged ==
  /\ alive \subseteq 1 .. created /\ address \in Made
  /\ \A p \in Pods, o \in Objects : Good(object[p][o].handle)
  /\ \A a \in Actors : Points(a)
  /\ Apart

LEMMA NoneIsGood == ASSUME Typed, Converged PROVE Good(None) /\ Good(address) /\ None \notin alive
<1>1. None \notin alive
  BY NoneIsNoObject DEF Typed, TypeOK, HostTypeOK
<1> QED
  BY <1>1 DEF Converged, Good, Made

LEMMA HandedGood ==
    ASSUME Typed, Converged, NEW h, Handed(h), Good(h), alive' \subseteq alive, UNCHANGED <<address, created>>
    PROVE  \A p \in Pods, o \in Objects : Good(object[p][o].handle)'
<1>1. ASSUME NEW p \in Pods, NEW o \in Objects PROVE Good(object[p][o].handle)'
  <2> DEFINE g == object'[p][o].handle
  <2>1. g \in {object[p][o].handle, None, h}
    BY DEF Handed
  <2>2. Good(object[p][o].handle) /\ Good(None)
    BY NoneIsGood DEF Converged
  <2>3. g \in Made /\ (g \in alive => g = address)
    BY <2>1, <2>2 DEF Good
  <2>4. Made' = Made
    BY DEF Made
  <2>5. g \in Made' /\ (g \in alive' => g = address')
    BY <2>3, <2>4
  <2> QED
    BY <2>5 DEF Good
<1> QED
  BY <1>1

LEMMA PointsStays ==
    ASSUME NEW a \in Actors, Points(a), at'[a] = at[a], alive' \subseteq alive,
           UNCHANGED <<address, created>>
    PROVE  Points(a)'
BY DEF Points, Building, Good, Made

\* A task that moves while no sandbox appears and the address stays.
LEMMA ConvergedStep ==
    ASSUME Typed, Converged, NEW a \in Actors, NEW t, Moved(a, t), NEW h, Handed(h), Good(h),
           alive' \subseteq alive, UNCHANGED <<address, created>>, Points(a)',
           t.stale \in {at[a].stale, None, address},
           t.pc \in {"publish", "orphan"} => Building(a) /\ t.handle = at[a].handle
    PROVE  Converged'
<1>0. at'[a] = t /\ \A b \in Actors \ {a} : at'[b] = at[b]
  BY DEF Moved, Only
<1>1. \A p \in Pods, o \in Objects : Good(object[p][o].handle)'
  BY HandedGood
<1>2. \A b \in Actors : Points(b)'
  BY <1>0, PointsStays DEF Converged
<1>3. Apart'
  <2> SUFFICES ASSUME NEW b \in Actors, NEW c \in Actors, Building(b)'
               PROVE  /\ at'[c].stale # at'[b].handle
                      /\ c # b /\ Building(c)' => at'[c].handle # at'[b].handle
    BY DEF Apart
  <2>1. \A d \in Actors : Building(d)' => Building(d) /\ at'[d].handle = at[d].handle
    BY <1>0 DEF Building
  <2>2. \A d \in Actors : at'[d].stale \in {at[d].stale, None, address}
    BY <1>0
  <2>3. at[b].handle \notin {address, None} /\ at[c].stale # at[b].handle
    BY <2>1 DEF Converged, Points, Apart
  <2>4. c # b /\ Building(c) => at[c].handle # at[b].handle
    BY <2>1 DEF Converged, Apart
  <2> QED
    BY <2>1, <2>2, <2>3, <2>4
<1>4. alive' \subseteq 1 .. created' /\ (address \in Made)'
  BY DEF Converged, Made
<1> QED
  BY <1>1, <1>2, <1>3, <1>4 DEF Converged

\* A task that moves to a stage at which it has no sandbox in hand.
LEMMA PlainStep ==
    ASSUME Typed, Converged, NEW a \in Actors, NEW t, Moved(a, t), Handed(None),
           alive' \subseteq alive, UNCHANGED <<address, created>>,
           t.pc \notin Pointing, t.handle \in Made, t.stale \in {at[a].stale, None},
           t.listed \subseteq 1 .. created
    PROVE  Converged'
<1>1. at'[a] = t
  BY DEF Moved
<1>2. t.stale \in Made
  BY DEF Converged, Points, Made
<1>3. Points(a)'
  BY <1>1, <1>2 DEF Points, Building, Pointing, Made
<1> QED
  BY <1>3, NoneIsGood, ConvergedStep DEF Pointing

LEMMA RestIsPlain ==
    Rest.pc \notin Pointing /\ Rest.handle = None /\ Rest.stale = None /\ Rest.listed = {}
BY DEF Rest, Pointing

LEMMA PlainTask ==
    ASSUME Typed, Converged, NEW a \in Actors
    PROVE  /\ at[a].handle \in Made /\ at[a].stale \in Made /\ at[a].listed \subseteq 1 .. created
           /\ None \in Made /\ address \in Made /\ {} \subseteq 1 .. created /\ at[a] \in Tasks
BY Kinds DEF Converged, Points, Made

\* A task that rests, and one that only moves on.
LEMMA PlainRest ==
    ASSUME Typed, Converged, NEW a \in Actors, Moved(a, Rest), Handed(None),
           alive' \subseteq alive, UNCHANGED <<address, created>>
    PROVE  Converged'
BY PlainStep, RestIsPlain, PlainTask

LEMMA PlainStage ==
    ASSUME Typed, Converged, NEW a \in Actors, NEW s \in Stages \ Pointing,
           Moved(a, [at[a] EXCEPT !.pc = s]), Handed(None),
           alive' \subseteq alive, UNCHANGED <<address, created>>
    PROVE  Converged'
<1> DEFINE t == [at[a] EXCEPT !.pc = s]
<1>1. t.pc = s /\ t.handle = at[a].handle /\ t.stale = at[a].stale /\ t.listed = at[a].listed
  BY PlainTask DEF Tasks
<1> HIDE DEF t
<1>2. Moved(a, t)
  BY DEF t
<1> QED
  BY <1>1, <1>2, PlainTask, PlainStep

\* The steps that leave their task without a sandbox in hand.
LEMMA ConvergedPlain ==
    ASSUME Typed, Converged, NEW a \in Actors,
           \/ TurnBegin(a) \/ ColdWrite(a) \/ Use(a) \/ Flush(a)
           \/ ReapPick(a) \/ ReapRead(a) \/ Shutdown(a) \/ Writeback(a) \/ ShutdownRead(a)
           \/ Kill(a) \/ ReapDrop(a) \/ Forget(a) \/ Mirror(a)
    PROVE  Converged'
<1>0. /\ at[a].handle \in Made /\ at[a].stale \in Made /\ at[a].listed \subseteq 1 .. created
      /\ None \in Made /\ {} \subseteq 1 .. created /\ at[a] \in Tasks
  BY PlainTask
<1>1. \A s \in {"flush", "lock", "idle?", "writeback", "kill", "unused?", "drop", "forget", "pop"} :
         s \in Stages \ Pointing
  BY DEF Stages, Pointing
<1>2. CASE TurnBegin(a)
  <2> DEFINE t == [Rest EXCEPT !.op = "turn", !.pc = "lock", !.write = ops + 1,
                               !.obj = SessionOf(PodOf[a])]
  <2>1. t.pc = "lock" /\ t.handle = None /\ t.stale = None /\ t.listed = {}
    BY DEF Rest
  <2>2. Moved(a, t) /\ Handed(None) /\ alive' \subseteq alive /\ UNCHANGED <<address, created>>
    BY <1>2, TurnBeginIs DEF TurnBegin, host
  <2> HIDE DEF t
  <2> QED
    BY <1>0, <1>1, <2>1, <2>2, PlainStep
<1>3. CASE ColdWrite(a)
  <2>1. alive' \subseteq alive /\ UNCHANGED <<address, created>>
    BY <1>3 DEF ColdWrite, registry
  <2> QED
    BY <1>3, <2>1, ColdWriteIs, PlainRest
<1>4. CASE Use(a)
  <2>1. alive' \subseteq alive /\ UNCHANGED <<address, created>> /\ Handed(None)
    BY <1>4, UseIs DEF Use
  <2>2. CASE Moved(a, Rest)
    BY <2>1, <2>2, PlainRest
  <2>3. CASE Moved(a, [at[a] EXCEPT !.pc = "flush"])
    BY <1>1, <2>1, <2>3, PlainStage
  <2>4. CASE Moved(a, [at[a] EXCEPT !.pc = "lock", !.force = TRUE])
    <3> DEFINE t == [at[a] EXCEPT !.pc = "lock", !.force = TRUE]
    <3>1. t.pc = "lock" /\ t.handle = at[a].handle /\ t.stale = at[a].stale /\ t.listed = at[a].listed
      BY <1>0 DEF Tasks
    <3> HIDE DEF t
    <3>2. Moved(a, t)
      BY <2>4 DEF t
    <3> QED
      BY <1>0, <1>1, <2>1, <3>1, <3>2, PlainStep
  <2> QED
    BY <1>4, <2>2, <2>3, <2>4, UseIs
<1>5. CASE Flush(a)
  <2>1. alive' \subseteq alive /\ UNCHANGED <<address, created>>
    BY <1>5 DEF Flush
  <2> QED
    BY <1>5, <2>1, FlushIs, PlainRest
<1>6. ASSUME Handed(None), alive' \subseteq alive, UNCHANGED <<address, created>>,
             NEW op, NEW s \in {"idle?", "writeback"}, NEW o,
             Moved(a, [Rest EXCEPT !.op = op, !.pc = s, !.obj = o])
      PROVE  Converged'
  <2> DEFINE t == [Rest EXCEPT !.op = op, !.pc = s, !.obj = o]
  <2>1. t.pc = s /\ t.handle = None /\ t.stale = None /\ t.listed = {}
    BY DEF Rest
  <2> HIDE DEF t
  <2>2. Moved(a, t)
    BY <1>6 DEF t
  <2> QED
    BY <1>0, <1>1, <1>6, <2>1, <2>2, PlainStep
<1>7. ASSUME Handed(None), alive' \subseteq alive, UNCHANGED <<address, created>>, Moved(a, at[a]),
             at[a].pc = "idle"
      PROVE  Converged'
  <2>1. at[a].pc \notin Pointing
    BY <1>7 DEF Pointing
  <2> QED
    BY <1>0, <1>7, <2>1, PlainStep
<1>8. CASE ReapPick(a)
  <2>1. alive' \subseteq alive /\ UNCHANGED <<address, created>> /\ at[a].pc = "idle" /\ Handed(None)
    BY <1>8, ReapPickIs DEF ReapPick, host, Start
  <2>2. Moved(a, at[a]) \/ \E o \in Objects : Moved(a, [Rest EXCEPT !.op = "reap", !.pc = "idle?", !.obj = o])
    BY <1>8, ReapPickIs
  <2> QED
    BY <1>6, <1>7, <2>1, <2>2
<1>9. CASE ReapRead(a)
  <2>1. alive' \subseteq alive /\ UNCHANGED <<address, created>>
    BY <1>9 DEF ReapRead, host
  <2> QED
    BY <1>1, <1>9, <2>1, ReapReadIs, PlainRest, PlainStage
<1>10. CASE Shutdown(a)
  <2>1. alive' \subseteq alive /\ UNCHANGED <<address, created>> /\ at[a].pc = "idle" /\ Handed(None)
    BY <1>10, ShutdownIs DEF Shutdown, host, Start
  <2>2. Moved(a, at[a]) \/ \E o \in Objects : Moved(a, [Rest EXCEPT !.op = "shutdown", !.pc = "writeback", !.obj = o])
    BY <1>10, ShutdownIs
  <2> QED
    BY <1>6, <1>7, <2>1, <2>2
<1>11. CASE Writeback(a)
  <2>1. alive' \subseteq alive /\ UNCHANGED <<address, created>> /\ Handed(None)
    BY <1>11, WritebackIs DEF Writeback
  <2>2. Session(a).handle \in Made
    <3>1. at[a].obj \in Objects /\ PodOf[a] \in Pods
      BY <1>11, Kinds DEF Writeback, Typed, Seated, Holding
    <3> QED
      BY <3>1 DEF Converged, Good, Session
  <2>3. ASSUME NEW s \in {"kill", "unused?"},
               Moved(a, [at[a] EXCEPT !.handle = Session(a).handle, !.pc = s])
        PROVE  Converged'
    <3> DEFINE t == [at[a] EXCEPT !.handle = Session(a).handle, !.pc = s]
    <3>1. t.pc = s /\ t.handle = Session(a).handle /\ t.stale = at[a].stale /\ t.listed = at[a].listed
      BY <1>0 DEF Tasks
    <3> HIDE DEF t
    <3>2. Moved(a, t)
      BY <2>3 DEF t
    <3> QED
      BY <1>0, <1>1, <2>1, <2>2, <3>1, <3>2, PlainStep
  <2> QED
    BY <1>11, <2>1, <2>3, WritebackIs, PlainRest
<1>12. CASE ShutdownRead(a)
  <2>1. alive' \subseteq alive /\ UNCHANGED <<address, created>>
    BY <1>12 DEF ShutdownRead, host
  <2> QED
    BY <1>1, <1>12, <2>1, ShutdownReadIs, PlainRest, PlainStage
<1>13. CASE Kill(a)
  <2>1. alive' \subseteq alive /\ UNCHANGED <<address, created>>
    BY <1>13 DEF Kill
  <2> QED
    BY <1>1, <1>13, <2>1, KillIs, PlainRest, PlainStage
<1>14. CASE ReapDrop(a)
  <2>1. alive' \subseteq alive /\ UNCHANGED <<address, created>>
    BY <1>14 DEF ReapDrop, host
  <2> QED
    BY <1>1, <1>14, <2>1, ReapDropIs, PlainRest, PlainStage
<1>15. CASE Forget(a)
  <2>1. alive' \subseteq alive /\ UNCHANGED <<address, created>>
    BY <1>15 DEF Forget, host
  <2> QED
    BY <1>1, <1>15, <2>1, ForgetIs, PlainRest, PlainStage
<1>16. CASE Mirror(a)
  <2>1. alive' \subseteq alive /\ UNCHANGED <<address, created>> /\ at[a].pc = "idle"
    BY <1>16 DEF Mirror, registry, Start
  <2> QED
    BY <1>7, <1>16, <2>1, MirrorIs
<1> QED
  BY <1>2, <1>3, <1>4, <1>5, <1>8, <1>9, <1>10, <1>11, <1>12, <1>13, <1>14, <1>15, <1>16

LEMMA ConvergedClose ==
    ASSUME Typed, Converged, NEW a \in Actors,
           \/ CloseBegin(a) \/ CloseTake(a) \/ ClosePublished(a) \/ CloseList(a)
           \/ CloseUnrecorded(a) \/ Teardown(a) \/ CloseKill(a) \/ ClosePop(a)
    PROVE  Converged'
<1>0. /\ at[a].handle \in Made /\ at[a].stale \in Made /\ at[a].listed \subseteq 1 .. created
      /\ None \in Made /\ address \in Made /\ {} \subseteq 1 .. created /\ at[a] \in Tasks
  BY PlainTask
<1>1. \A s \in {"take", "published", "list", "unrecorded", "teardown", "closekill", "forget", "pop"} :
         s \in Stages \ Pointing
  BY DEF Stages, Pointing
<1>2. \A killed \in BOOLEAN : After(a, killed) \in Stages \ Pointing
  BY DEF After, Stages, Pointing
<1>3. ASSUME Handed(None), alive' \subseteq alive, UNCHANGED <<address, created>>,
             NEW h \in Made, NEW source, Moved(a, Torn(a, h, source))
      PROVE  Converged'
  <2> DEFINE t == Torn(a, h, source)
  <2>1. t.pc = "teardown" /\ t.handle = h /\ t.stale = at[a].stale /\ t.listed \subseteq 1 .. created
    BY <1>0 DEF Tasks, Torn
  <2> HIDE DEF t
  <2>2. Moved(a, t)
    BY <1>3 DEF t
  <2> QED
    BY <1>0, <1>1, <1>3, <2>1, <2>2, PlainStep
<1>4. CASE CloseBegin(a)
  <2>1. alive' \subseteq alive /\ UNCHANGED <<address, created>> /\ Handed(None)
    BY <1>4, CloseBeginIs DEF CloseBegin, host, registry
  <2>2. PICK o \in Objects \cup {None}, w \in {ops + 1, None}, s \in {"published", "take"} :
           Moved(a, [Rest EXCEPT !.op = "close", !.obj = o, !.write = w, !.pc = s])
    BY <1>4, CloseBeginIs
  <2> DEFINE t == [Rest EXCEPT !.op = "close", !.obj = o, !.write = w, !.pc = s]
  <2>3. t.pc = s /\ t.handle = None /\ t.stale = None /\ t.listed = {}
    BY DEF Rest
  <2> HIDE DEF t
  <2>4. Moved(a, t)
    BY <2>2 DEF t
  <2> QED
    BY <1>0, <1>1, <2>1, <2>3, <2>4, PlainStep
<1>5. CASE CloseTake(a)
  <2>1. alive' \subseteq alive /\ UNCHANGED <<address, created>>
    BY <1>5 DEF CloseTake, host
  <2>2. Session(a).handle \in Made
    <3>1. at[a].obj \in Objects /\ PodOf[a] \in Pods
      BY <1>5, Kinds DEF CloseTake, Typed, Seated, Holding
    <3> QED
      BY <3>1 DEF Converged, Good, Session
  <2> QED
    BY <1>1, <1>3, <1>5, <2>1, <2>2, CloseTakeIs, PlainStage
<1>6. CASE ClosePublished(a)
  <2>1. alive' \subseteq alive /\ UNCHANGED <<address, created>>
    BY <1>6 DEF ClosePublished, host, registry
  <2> QED
    BY <1>0, <1>1, <1>3, <1>6, <2>1, ClosePublishedIs, PlainStage
<1>7. CASE CloseList(a)
  <2>1. alive' \subseteq alive /\ UNCHANGED <<address, created>> /\ Handed(None)
    BY <1>7, CloseListIs DEF CloseList, host, registry
  <2>2. PICK here \in SUBSET alive : Moved(a, [at[a] EXCEPT !.pc = "unrecorded", !.listed = here])
    BY <1>7, CloseListIs
  <2> DEFINE t == [at[a] EXCEPT !.pc = "unrecorded", !.listed = here]
  <2>3. t.pc = "unrecorded" /\ t.handle = at[a].handle /\ t.stale = at[a].stale /\ t.listed = here
    BY <1>0 DEF Tasks
  <2>4. here \subseteq 1 .. created
    BY DEF Converged
  <2> HIDE DEF t
  <2>5. Moved(a, t)
    BY <2>2 DEF t
  <2> QED
    BY <1>0, <1>1, <2>1, <2>3, <2>4, <2>5, PlainStep
<1>8. CASE CloseUnrecorded(a)
  <2>1. alive' \subseteq alive /\ UNCHANGED <<address, created>> /\ at[a].listed \subseteq Made
    BY <1>0, <1>8 DEF CloseUnrecorded, host, registry, Made
  <2> QED
    BY <1>1, <1>3, <1>8, <2>1, CloseUnrecordedIs, PlainStage
<1>9. CASE Teardown(a)
  <2>1. alive' \subseteq alive /\ UNCHANGED <<address, created>> /\ After(a, FALSE) \in Stages \ Pointing
    BY <1>2, <1>9 DEF Teardown
  <2> QED
    BY <1>1, <1>9, <2>1, TeardownIs, PlainStage
<1>10. CASE CloseKill(a)
  <2>1. /\ alive' \subseteq alive /\ UNCHANGED <<address, created>>
        /\ After(a, Alive(at[a].handle)) \in Stages \ Pointing
    <3>1. Alive(at[a].handle) \in BOOLEAN
      BY DEF Alive
    <3> QED
      BY <1>2, <1>10, <3>1 DEF CloseKill
  <2> QED
    BY <1>10, <2>1, CloseKillIs, PlainStage
<1>11. CASE ClosePop(a)
  <2>1. alive' \subseteq alive /\ UNCHANGED <<address, created>>
    BY <1>11 DEF ClosePop, host
  <2> QED
    BY <1>11, <2>1, ClosePopIs, PlainRest
<1> QED
  BY <1>4, <1>5, <1>6, <1>7, <1>8, <1>9, <1>10, <1>11

\* The steps that take a sandbox in hand.
LEMMA ConvergedHands ==
    ASSUME Typed, Converged, NEW a \in Actors,
           Lock(a) \/ AcquireRead(a) \/ KillOrphan(a) \/ Bump(a) \/ FileResolve(a) \/ FileCheck(a)
    PROVE  Converged'
<1>0. /\ at[a].handle \in Made /\ at[a].stale \in Made /\ at[a].listed \subseteq 1 .. created
      /\ None \in Made /\ address \in Made /\ at[a] \in Tasks /\ Points(a)
      /\ Good(None) /\ Good(address) /\ None \notin alive
  BY PlainTask, NoneIsGood DEF Converged
<1>1. ASSUME NEW h, Handed(h), Good(h), alive' \subseteq alive, UNCHANGED <<address, created>>, NEW t, Moved(a, t),
             t.pc \in {"bump", "use", "check"}, Good(t.handle),
             t.stale \in {at[a].stale, None}, t.listed \subseteq 1 .. created
      PROVE  Converged'
  <2>1. at'[a] = t /\ t.stale \in Made
    BY <1>0, <1>1 DEF Moved
  <2>2. Points(a)'
    BY <1>1, <2>1 DEF Points, Building, Good, Made
  <2>3. t.pc \notin {"publish", "orphan"} /\ t.stale \in {at[a].stale, None, address}
    BY <1>1
  <2> QED
    BY <1>1, <2>2, <2>3, ConvergedStep
<1>2. CASE Lock(a)
  <2>1. alive' \subseteq alive /\ UNCHANGED <<address, created>> /\ Handed(None)
    BY <1>2, LockIs DEF Lock, host
  <2>2. Good(Session(a).handle)
    <3>1. at[a].obj \in Objects /\ PodOf[a] \in Pods
      BY <1>2, Kinds DEF Lock, Typed, Seated, Holding
    <3> QED
      BY <3>1 DEF Converged, Session
  <2>3. CASE Moved(a, [at[a] EXCEPT !.pc = "bump", !.handle = Session(a).handle])
    <3> DEFINE t == [at[a] EXCEPT !.pc = "bump", !.handle = Session(a).handle]
    <3>1. t.pc = "bump" /\ t.handle = Session(a).handle /\ t.stale = at[a].stale /\ t.listed = at[a].listed
      BY <1>0 DEF Tasks
    <3> HIDE DEF t
    <3>2. Moved(a, t)
      BY <2>3 DEF t
    <3> QED
      BY <1>0, <1>1, <2>1, <2>2, <3>1, <3>2
  <2>4. CASE Moved(a, [at[a] EXCEPT !.pc = "acquire"])
    <3>1. "acquire" \in Stages \ Pointing
      BY DEF Stages, Pointing
    <3> QED
      BY <2>1, <2>4, <3>1, PlainStage
  <2> QED
    BY <1>2, <2>3, <2>4, LockIs
<1>3. CASE AcquireRead(a)
  <2>1. alive' \subseteq alive /\ UNCHANGED <<address, created>>
    BY <1>3 DEF AcquireRead, host
  <2>2. CASE Handed(address) /\ Moved(a, [at[a] EXCEPT !.pc = "bump", !.handle = address, !.stale = None])
    <3> DEFINE t == [at[a] EXCEPT !.pc = "bump", !.handle = address, !.stale = None]
    <3>1. t.pc = "bump" /\ t.handle = address /\ t.stale = None /\ t.listed = at[a].listed
      BY <1>0 DEF Tasks
    <3> HIDE DEF t
    <3>2. Moved(a, t)
      BY <2>2 DEF t
    <3> QED
      BY <1>0, <1>1, <2>1, <2>2, <3>1, <3>2
  <2>3. CASE /\ Handed(None) /\ ~(address # None /\ Alive(address))
             /\ Moved(a, [at[a] EXCEPT !.pc = "create", !.stale = address])
    <3> DEFINE t == [at[a] EXCEPT !.pc = "create", !.stale = address]
    <3>1. t.pc = "create" /\ t.handle = at[a].handle /\ t.stale = address /\ t.listed = at[a].listed
      BY <1>0 DEF Tasks
    <3>2. address \notin alive
      BY <1>0, <2>3 DEF Alive
    <3> HIDE DEF t
    <3>3. Moved(a, t) /\ at'[a] = t
      BY <2>3 DEF t, Moved
    <3>4. Points(a)'
      BY <1>0, <2>1, <3>1, <3>2, <3>3 DEF Points, Building, Made
    <3> QED
      BY <1>0, <2>1, <2>3, <3>1, <3>3, <3>4, ConvergedStep
  <2> QED
    BY <1>3, <2>2, <2>3, AcquireReadIs
<1>4. CASE KillOrphan(a)
  <2> DEFINE t == [at[a] EXCEPT !.pc = "bump", !.handle = at[a].stale, !.stale = None]
  <2>1. alive' \subseteq alive /\ UNCHANGED <<address, created>> /\ Good(at[a].stale)
    BY <1>0, <1>4 DEF KillOrphan, Points
  <2>2. t.pc = "bump" /\ t.handle = at[a].stale /\ t.stale = None /\ t.listed = at[a].listed
    BY <1>0 DEF Tasks
  <2>3. Handed(at[a].stale) /\ Moved(a, t)
    BY <1>4, KillOrphanIs
  <2> HIDE DEF t
  <2> QED
    BY <1>0, <1>1, <2>1, <2>2, <2>3
<1>5. CASE Bump(a)
  <2> DEFINE t == [at[a] EXCEPT !.pc = "use", !.force = FALSE]
  <2>1. alive' \subseteq alive /\ UNCHANGED <<address, created>> /\ Good(at[a].handle)
    BY <1>0, <1>5 DEF Bump, Points, host
  <2>2. t.pc = "use" /\ t.handle = at[a].handle /\ t.stale = at[a].stale /\ t.listed = at[a].listed
    BY <1>0 DEF Tasks
  <2>3. Handed(None) /\ Moved(a, t)
    BY <1>5, BumpIs
  <2> HIDE DEF t
  <2> QED
    BY <1>0, <1>1, <2>1, <2>2, <2>3
<1>6. CASE FileResolve(a)
  <2>1. alive' \subseteq alive /\ UNCHANGED <<address, created>> /\ Handed(None)
    BY <1>6, FileResolveIs DEF FileResolve, host, registry
  <2>2. PICK h \in Handles \cup {None} :
           /\ h = address \/ \E p \in Pods, o \in Objects : h = object[p][o].handle
           /\ Moved(a, [Rest EXCEPT !.op = "file", !.handle = h, !.write = ops + 1,
                                    !.pc = IF h = None THEN "cold" ELSE "check"])
    BY <1>6, FileResolveIs
  <2>3. Good(h)
    BY <1>0, <2>2 DEF Converged
  <2> DEFINE pc == IF h = None THEN "cold" ELSE "check"
             t == [Rest EXCEPT !.op = "file", !.handle = h, !.write = ops + 1, !.pc = pc]
  <2>4. t.pc = pc /\ t.handle = h /\ t.stale = None /\ t.listed = {}
    BY DEF Rest
  <2>5. pc = "cold" \/ pc = "check"
    OBVIOUS
  <2> HIDE DEF t, pc
  <2>6. Moved(a, t)
    BY <2>2 DEF t, pc
  <2>7. CASE pc = "cold"
    <3>1. t.pc \notin Pointing /\ t.handle \in Made /\ t.listed \subseteq 1 .. created
      BY <2>3, <2>4, <2>7 DEF Pointing, Good
    <3> QED
      BY <2>1, <2>4, <2>6, <3>1, PlainStep
  <2>8. CASE pc = "check"
    BY <1>0, <1>1, <2>1, <2>3, <2>4, <2>6, <2>8
  <2> QED
    BY <2>5, <2>7, <2>8
<1>7. CASE FileCheck(a)
  <2>1. alive' \subseteq alive /\ UNCHANGED <<address, created>> /\ Handed(None) /\ Good(at[a].handle)
    BY <1>0, <1>7, FileCheckIs DEF FileCheck, Points, host
  <2>2. CASE Moved(a, [at[a] EXCEPT !.pc = "use"])
    <3> DEFINE t == [at[a] EXCEPT !.pc = "use"]
    <3>1. t.pc = "use" /\ t.handle = at[a].handle /\ t.stale = at[a].stale /\ t.listed = at[a].listed
      BY <1>0 DEF Tasks
    <3> HIDE DEF t
    <3>2. Moved(a, t)
      BY <2>2 DEF t
    <3> QED
      BY <1>0, <1>1, <2>1, <3>1, <3>2
  <2>3. CASE Moved(a, [at[a] EXCEPT !.pc = "lock", !.obj = SessionOf(PodOf[a])])
    <3> DEFINE t == [at[a] EXCEPT !.pc = "lock", !.obj = SessionOf(PodOf[a])]
    <3>1. t.pc = "lock" /\ t.handle = at[a].handle /\ t.stale = at[a].stale /\ t.listed = at[a].listed
      BY <1>0 DEF Tasks
    <3> HIDE DEF t
    <3>2. Moved(a, t) /\ t.pc \notin Pointing
      BY <2>3, <3>1 DEF t, Pointing
    <3> QED
      BY <1>0, <2>1, <3>1, <3>2, PlainStep
  <2> QED
    BY <1>7, <2>2, <2>3, FileCheckIs
<1> QED
  BY <1>2, <1>3, <1>4, <1>5, <1>6, <1>7

\* A new sandbox is nobody's yet.
LEMMA ConvergedCreate ==
    ASSUME Typed, Converged, NEW a \in Actors, Create(a)
    PROVE  Converged'
<1> DEFINE new == created + 1
           t == [at[a] EXCEPT !.pc = "publish", !.handle = new]
<1>0. /\ at[a] \in Tasks /\ Points(a) /\ at[a].pc = "create"
      /\ alive' = alive \cup {new} /\ created' = new /\ address' = address
      /\ created \in Nat /\ new \in Nat /\ None \notin Nat
  BY PlainTask, NoneAssumption DEF Converged, Create, registry, Typed, TypeOK, HostTypeOK
<1>1. Moved(a, t) /\ Handed(None)
  BY CreateIs
<1>2. t.pc = "publish" /\ t.handle = new /\ t.stale = at[a].stale /\ t.listed = at[a].listed
  BY <1>0 DEF Tasks
<1> HIDE DEF t
<1>3. Made \subseteq Made' /\ new \in Made' /\ new \notin Made /\ 1 .. created \subseteq 1 .. created'
  BY <1>0 DEF Made
<1>4. ASSUME NEW h, Good(h) PROVE h \in Made' /\ (h \in alive' => h = address') /\ h # new
  BY <1>0, <1>3, <1>4 DEF Good
<1> HIDE DEF new
<1>5. at'[a] = t /\ \A b \in Actors \ {a} : at'[b] = at[b]
  BY <1>1 DEF Moved, Only
<1>6. ASSUME NEW p \in Pods, NEW o \in Objects PROVE Good(object[p][o].handle)'
  <2>1. Good(object[p][o].handle) /\ Good(None)
    BY NoneIsGood DEF Converged
  <2>2. object'[p][o].handle \in {object[p][o].handle, None}
    BY <1>1 DEF Handed
  <2>3. object'[p][o].handle \in Made' /\ (object'[p][o].handle \in alive' => object'[p][o].handle = address')
    BY <1>4, <2>1, <2>2
  <2> QED
    BY <2>3 DEF Good
<1>7. address \in Made /\ None \in Made
  BY DEF Converged, Made
<1>8. ASSUME NEW b \in Actors PROVE Points(b)'
  <2>1. Points(b) /\ at[b].handle \in Made /\ at[b].stale \in Made /\ at[b].listed \subseteq 1 .. created
    BY DEF Converged, Points
  <2>2. CASE b # a
    <3>1. at'[b] = at[b]
      BY <1>5, <2>2
    <3>2. at[b].pc \in {"bump", "use", "check"} => at[b].handle \in Made' /\ (at[b].handle \in alive' => at[b].handle = address')
      BY <1>4, <2>1 DEF Points
    <3>3. at[b].pc = "orphan" => at[b].stale \in Made' /\ (at[b].stale \in alive' => at[b].stale = address')
      BY <1>4, <2>1 DEF Points
    <3>4. at[b].pc \in {"create", "publish"} => at[b].stale \notin alive'
      BY <1>0, <1>3, <2>1 DEF Points
    <3> QED
      BY <1>0, <1>3, <2>1, <3>1, <3>2, <3>3, <3>4 DEF Points, Building, Good
  <2>3. CASE b = a
    <3>1. at[a].stale \notin alive' /\ new \notin {address, None}
      BY <1>0, <1>3, <1>7, <2>1, <2>3 DEF Points
    <3> QED
      BY <1>0, <1>2, <1>3, <1>5, <2>1, <2>3, <3>1 DEF Points, Building
  <2> QED
    BY <2>2, <2>3
<1>9. Apart'
  <2> SUFFICES ASSUME NEW b \in Actors, NEW c \in Actors, Building(b)'
               PROVE  /\ at'[c].stale # at'[b].handle
                      /\ c # b /\ Building(c)' => at'[c].handle # at'[b].handle
    BY DEF Apart
  <2>1. \A d \in Actors : at'[d].stale = at[d].stale /\ at[d].stale \in Made /\ at[d].handle \in Made
    BY <1>2, <1>5 DEF Converged, Points
  <2>2. \A d \in Actors \ {a} : at'[d].handle = at[d].handle /\ (Building(d)' <=> Building(d))
    BY <1>5 DEF Building
  <2>3. at'[a].handle = new
    BY <1>2, <1>5
  <2>4. \A d, e \in Actors : Building(d) =>
           /\ at[e].stale # at[d].handle
           /\ e # d /\ Building(e) => at[e].handle # at[d].handle
    BY DEF Converged, Apart
  <2>5. CASE b = a
    BY <1>3, <2>1, <2>2, <2>3, <2>5
  <2>6. CASE b # a /\ c = a
    BY <1>3, <2>1, <2>2, <2>3, <2>4, <2>6
  <2>7. CASE b # a /\ c # a
    BY <2>1, <2>2, <2>4, <2>7
  <2> QED
    BY <2>5, <2>6, <2>7
<1>10. alive' \subseteq 1 .. created' /\ (address \in Made)'
  BY <1>0, <1>3, <1>7 DEF Converged, Made, new
<1> QED
  BY <1>6, <1>8, <1>9, <1>10 DEF Converged

\* The one who publishes replaces a dead address; who comes second has a
\* sandbox that nobody else knows.
LEMMA ConvergedPublish ==
    ASSUME Typed, Converged, NEW a \in Actors, Publish(a)
    PROVE  Converged'
<1>0. /\ at[a] \in Tasks /\ Points(a) /\ at[a].pc = "publish" /\ Building(a)
      /\ alive' = alive /\ created' = created
      /\ Good(None) /\ Good(address) /\ address \in Made /\ at[a].handle \in Made
  BY PlainTask, NoneIsGood DEF Converged, Publish, host, Building
<1>1. CASE /\ Handed(at[a].handle) /\ SlotIsOurs(at[a].stale) /\ address' = at[a].handle
           /\ Moved(a, [at[a] EXCEPT !.pc = "bump", !.handle = at[a].handle, !.stale = None])
  <2> DEFINE h == at[a].handle
             t == [at[a] EXCEPT !.pc = "bump", !.handle = at[a].handle, !.stale = None]
  <2>1. t.pc = "bump" /\ t.handle = h /\ t.stale = None /\ t.listed = at[a].listed
    BY <1>0 DEF Tasks
  <2> HIDE DEF t
  <2>2. Moved(a, t) /\ at'[a] = t /\ \A b \in Actors \ {a} : at'[b] = at[b]
    BY <1>1 DEF Moved, Only, t
  <2>3. address \notin alive /\ Made' = Made /\ h \in Made /\ None \in Made /\ h # None
    BY <1>0, <1>1 DEF Points, SlotIsOurs, Made
  <2>4. ASSUME NEW g, Good(g) PROVE g \in Made /\ g \notin alive
    BY <2>3, <2>4 DEF Good
  <2>5. ASSUME NEW p \in Pods, NEW o \in Objects PROVE Good(object[p][o].handle)'
    <3>1. Good(object[p][o].handle)
      BY DEF Converged
    <3>2. object'[p][o].handle \in {object[p][o].handle, None, h}
      BY <1>1 DEF Handed
    <3>3. object'[p][o].handle \in Made /\ (object'[p][o].handle \in alive => object'[p][o].handle = h)
      BY <1>0, <2>3, <2>4, <3>1, <3>2
    <3> QED
      BY <1>0, <1>1, <2>3, <3>3 DEF Good
  <2>6. ASSUME NEW b \in Actors PROVE Points(b)'
    <3>1. Points(b)
      BY DEF Converged
    <3>2. CASE b # a
      <4>1. at'[b] = at[b]
        BY <2>2, <3>2
      <4>2. at[b].pc \in {"bump", "use", "check"} => at[b].handle \in Made /\ at[b].handle \notin alive
        BY <2>4, <3>1 DEF Points
      <4>3. at[b].pc = "orphan" => at[b].stale \in Made /\ at[b].stale \notin alive
        BY <2>4, <3>1 DEF Points
      <4>4. Building(b) => at[b].handle # h
        BY <1>0, <3>2 DEF Converged, Apart
      <4>5. Good(at[b].handle)' <=> at'[b].handle \in Made' /\ (at'[b].handle \in alive' => at'[b].handle = address')
        BY DEF Good
      <4>6. Good(at[b].stale)' <=> at'[b].stale \in Made' /\ (at'[b].stale \in alive' => at'[b].stale = address')
        BY DEF Good
      <4> HIDE DEF h
      <4>7. address' = h
        BY <1>1 DEF h
      <4> QED
        BY <1>0, <2>3, <3>1, <4>1, <4>2, <4>3, <4>4, <4>5, <4>6, <4>7 DEF Points, Building
    <3>3. CASE b = a
      BY <1>0, <1>1, <2>1, <2>2, <2>3, <3>1, <3>3 DEF Points, Building, Good
    <3> QED
      BY <3>2, <3>3
  <2>7. Apart'
    <3> SUFFICES ASSUME NEW b \in Actors, NEW c \in Actors, Building(b)'
                 PROVE  /\ at'[c].stale # at'[b].handle
                        /\ c # b /\ Building(c)' => at'[c].handle # at'[b].handle
      BY DEF Apart
    <3>1. \A d \in Actors : Building(d)' => d # a /\ Building(d) /\ at'[d].handle = at[d].handle
      BY <2>1, <2>2 DEF Building
    <3>2. \A d \in Actors : at'[d].stale \in {at[d].stale, None}
      BY <2>1, <2>2
    <3>3. at[b].handle # None /\ at[c].stale # at[b].handle /\ (c # b /\ Building(c) => at[c].handle # at[b].handle)
      BY <3>1 DEF Converged, Points, Apart
    <3> QED
      BY <3>1, <3>2, <3>3
  <2>8. alive' \subseteq 1 .. created' /\ (address \in Made)'
    BY <1>0, <1>1, <2>3 DEF Converged
  <2> QED
    BY <2>5, <2>6, <2>7, <2>8 DEF Converged
<1>2. CASE /\ Handed(None) /\ address' = address /\ Moved(a, [at[a] EXCEPT !.pc = "orphan", !.stale = address])
  <2> DEFINE t == [at[a] EXCEPT !.pc = "orphan", !.stale = address]
  <2>1. t.pc = "orphan" /\ t.handle = at[a].handle /\ t.stale = address /\ t.listed = at[a].listed
    BY <1>0 DEF Tasks
  <2> HIDE DEF t
  <2>2. Moved(a, t) /\ at'[a] = t
    BY <1>2 DEF t, Moved
  <2>3. Points(a)'
    BY <1>0, <1>2, <2>1, <2>2 DEF Points, Building, Good, Made
  <2> QED
    BY <1>0, <1>2, <2>1, <2>2, <2>3, ConvergedStep
<1> QED
  BY <1>1, <1>2, PublishIs

LEMMA ConvergedWorld ==
    ASSUME Typed, Converged, Handed(None), \A b \in Actors : at'[b] \in {at[b], Rest},
           alive' \subseteq alive, UNCHANGED <<address, created>>
    PROVE  Converged'
<1>1. \A p \in Pods, o \in Objects : Good(object[p][o].handle)'
  BY HandedGood, NoneIsGood
<1>2. ASSUME NEW b \in Actors PROVE Points(b)'
  <2>1. CASE at'[b] = at[b]
    BY <2>1, PointsStays DEF Converged
  <2>2. CASE at'[b] = Rest
    BY <2>2, RestIsPlain DEF Points, Building, Pointing, Made
  <2> QED
    BY <2>1, <2>2
<1>3. Apart'
  <2> SUFFICES ASSUME NEW b \in Actors, NEW c \in Actors, Building(b)'
               PROVE  /\ at'[c].stale # at'[b].handle
                      /\ c # b /\ Building(c)' => at'[c].handle # at'[b].handle
    BY DEF Apart
  <2>1. \A d \in Actors : Building(d)' => Building(d) /\ at'[d].handle = at[d].handle
    BY RestIsPlain DEF Building, Pointing
  <2>2. \A d \in Actors : at'[d].stale \in {at[d].stale, None}
    BY RestIsPlain
  <2>3. at[b].handle # None /\ at[c].stale # at[b].handle /\ (c # b /\ Building(c) => at[c].handle # at[b].handle)
    BY <2>1 DEF Converged, Points, Apart
  <2> QED
    BY <2>1, <2>2, <2>3
<1>4. alive' \subseteq 1 .. created' /\ (address \in Made)'
  BY DEF Converged, Made
<1> QED
  BY <1>1, <1>2, <1>3, <1>4 DEF Converged

LEMMA ConvergedInit == Init => Converged
<1> SUFFICES ASSUME Init PROVE Converged
  OBVIOUS
<1>1. \A a \in Actors : at[a] = Rest
  BY DEF Init
<1>2. alive = {} /\ address = None /\ \A p \in Pods, o \in Objects : object[p][o].handle = None
  BY DEF Init, NoSession
<1>3. \A a \in Actors : Points(a) /\ ~Building(a)
  BY <1>1, RestIsPlain DEF Points, Building, Pointing, Made
<1> QED
  BY <1>2, <1>3 DEF Converged, Good, Made, Apart

LEMMA ConvergedNext == Typed /\ Converged /\ [Next]_vars => Converged'
<1>1. ASSUME Typed, Converged, NEW a \in Actors, Step(a) PROVE Converged'
  BY <1>1, ConvergedPlain, ConvergedClose, ConvergedHands, ConvergedCreate, ConvergedPublish DEF Step
<1>2. ASSUME Typed, Converged,
             \/ \E p \in Pods : SessionAges(p) \/ PodCrashes(p)
             \/ BeatAges \/ \E h \in Handles : HostReaps(h)
             \/ UNCHANGED vars
      PROVE  Converged'
  <2>1. Handed(None) /\ \A b \in Actors : at'[b] \in {at[b], Rest}
    BY <1>2, TypedWorld
  <2>2. alive' \subseteq alive /\ UNCHANGED <<address, created>>
    BY <1>2 DEF SessionAges, PodCrashes, BeatAges, HostReaps, host, registry, vars
  <2> QED
    BY <1>2, <2>1, <2>2, ConvergedWorld
<1> QED
  BY <1>1, <1>2 DEF Next

LEMMA ConvergedIsOne == Converged => OneSandbox
BY DEF Converged, Good, Points, OneSandbox

\* Two pods never work in two sandboxes of one item: every live sandbox that a
\* session has or an operation is about to use is the published one, for any
\* pods and tasks that build, reap, close and crash at once.
THEOREM OneSandboxHolds == Spec => []OneSandbox
BY TypedInit, TypedNext, ConvergedInit, ConvergedNext, ConvergedIsOne, PTL DEF Spec

-----------------------------------------------------------------------------
(* Where the steps lead                                                     *)

\* The stages at which a teardown has written back, or a build is ready.
Marked == {"publish", "unused?", "kill", "closekill"}
ClosePcs == {"take", "published", "list", "unrecorded", "teardown", "closekill", "forget", "pop"}

LEMMA StageIs ==
    ASSUME Typed, NEW a \in Actors, NEW s, Moved(a, [at[a] EXCEPT !.pc = s])
    PROVE  /\ Only(a) /\ at'[a].pc = s /\ at'[a].op = at[a].op /\ at'[a].handle = at[a].handle
           /\ at'[a].write = at[a].write /\ at'[a].from = at[a].from /\ at'[a].tried = at[a].tried
           /\ at'[a].stale = at[a].stale
<1>1. at[a] \in Tasks /\ at'[a] = [at[a] EXCEPT !.pc = s] /\ Only(a)
  BY Kinds DEF Moved
<1> QED
  BY <1>1 DEF Tasks

LEMMA RestIs ==
    ASSUME NEW a \in Actors, Moved(a, Rest)
    PROVE  Only(a) /\ at'[a].pc = "idle" /\ at'[a].op = "none" /\ at'[a].write = None
BY DEF Moved, Rest

LEMMA HeldIs ==
    ASSUME Typed, NEW a \in Actors, NEW h,
           Moved(a, [at[a] EXCEPT !.pc = "bump", !.handle = h, !.stale = None])
    PROVE  Only(a) /\ at'[a].pc = "bump" /\ at'[a].op = at[a].op
<1>1. at[a] \in Tasks /\ at'[a] = [at[a] EXCEPT !.pc = "bump", !.handle = h, !.stale = None] /\ Only(a)
  BY Kinds DEF Moved
<1> QED
  BY <1>1 DEF Tasks

LEMMA TornIs ==
    ASSUME Typed, NEW a \in Actors, NEW h, NEW source, Moved(a, Torn(a, h, source))
    PROVE  /\ Only(a) /\ at'[a].pc = "teardown" /\ at'[a].op = at[a].op /\ at'[a].handle = h
           /\ at'[a].write = at[a].write /\ at'[a].from = source /\ at'[a].tried = at[a].tried \cup {h}
<1>1. at[a] \in Tasks /\ at'[a] = Torn(a, h, source) /\ Only(a)
  BY Kinds DEF Moved
<1> QED
  BY <1>1 DEF Tasks, Torn

\* Steps that do nothing to the host, the durable copy and the address.
Idly(a) ==
  \/ TurnBegin(a) \/ Lock(a) \/ AcquireRead(a) \/ Bump(a) \/ FileResolve(a) \/ FileCheck(a)
  \/ ReapPick(a) \/ ReapRead(a) \/ Shutdown(a) \/ ReapDrop(a)

\* No step but those of a close is one of a task that closes, nor makes one.
LEMMA IdlyIs ==
    ASSUME Typed, NEW a \in Actors, Idly(a)
    PROVE  /\ Only(a) /\ at[a].pc \notin ClosePcs
           /\ at'[a].pc \notin Marked /\ at'[a].pc \notin ClosePcs \ {"forget"}
           /\ at'[a].op \in {at[a].op, "turn", "file", "reap", "shutdown", "none"}
           /\ UNCHANGED <<alive, box, durable, address, acked, exposed>>
<1>0. at[a] \in Tasks
  BY Kinds
<1>1. CASE TurnBegin(a)
  <2>1. /\ Only(a) /\ at'[a] = [Rest EXCEPT !.op = "turn", !.pc = "lock", !.write = ops + 1,
                                            !.obj = SessionOf(PodOf[a])]
    BY <1>1, TurnBeginIs DEF Moved
  <2>2. at'[a].pc = "lock" /\ at'[a].op = "turn"
    BY <2>1 DEF Rest
  <2> QED
    BY <1>1, <2>1, <2>2 DEF TurnBegin, Start, host, log, Marked, ClosePcs
<1>2. CASE Lock(a)
  <2>1. Only(a) /\ at'[a].pc \in {"bump", "acquire"} /\ at'[a].op = at[a].op
    <3>1. CASE Moved(a, [at[a] EXCEPT !.pc = "bump", !.handle = Session(a).handle])
      BY <1>0, <3>1 DEF Moved, Tasks
    <3>2. CASE Moved(a, [at[a] EXCEPT !.pc = "acquire"])
      BY <3>2, StageIs
    <3> QED
      BY <1>2, <3>1, <3>2, LockIs
  <2> QED
    BY <1>2, <2>1 DEF Lock, host, log, Marked, ClosePcs
<1>3. CASE AcquireRead(a)
  <2>1. Only(a) /\ at'[a].pc \in {"bump", "create"} /\ at'[a].op = at[a].op
    <3>1. CASE Moved(a, [at[a] EXCEPT !.pc = "bump", !.handle = address, !.stale = None])
      BY <1>0, <3>1 DEF Moved, Tasks
    <3>2. CASE Moved(a, [at[a] EXCEPT !.pc = "create", !.stale = address])
      BY <1>0, <3>2 DEF Moved, Tasks
    <3> QED
      BY <1>3, <3>1, <3>2, AcquireReadIs
  <2> QED
    BY <1>3, <2>1 DEF AcquireRead, host, log, Marked, ClosePcs
<1>4. CASE Bump(a)
  <2>1. Only(a) /\ at'[a].pc = "use" /\ at'[a].op = at[a].op
    BY <1>0, <1>4, BumpIs DEF Moved, Tasks
  <2> QED
    BY <1>4, <2>1 DEF Bump, host, log, Marked, ClosePcs
<1>5. CASE FileResolve(a)
  <2>1. PICK h \in Handles \cup {None} :
           Moved(a, [Rest EXCEPT !.op = "file", !.handle = h, !.write = ops + 1,
                                 !.pc = IF h = None THEN "cold" ELSE "check"])
    BY <1>5, FileResolveIs
  <2>2. Only(a) /\ at'[a].pc \in {"cold", "check"} /\ at'[a].op = "file"
    BY <2>1 DEF Moved, Rest
  <2> QED
    BY <1>5, <2>2 DEF FileResolve, Start, host, registry, log, Marked, ClosePcs
<1>6. CASE FileCheck(a)
  <2>1. Only(a) /\ at'[a].pc \in {"use", "lock"} /\ at'[a].op = at[a].op
    <3>1. CASE Moved(a, [at[a] EXCEPT !.pc = "use"])
      BY <3>1, StageIs
    <3>2. CASE Moved(a, [at[a] EXCEPT !.pc = "lock", !.obj = SessionOf(PodOf[a])])
      BY <1>0, <3>2 DEF Moved, Tasks
    <3> QED
      BY <1>6, <3>1, <3>2, FileCheckIs
  <2> QED
    BY <1>6, <2>1 DEF FileCheck, host, log, Marked, ClosePcs
<1>7. CASE ReapPick(a)
  <2>1. Only(a) /\ at'[a].pc \in {"idle", "idle?"} /\ at'[a].op \in {at[a].op, "reap"}
    <3>1. CASE Moved(a, at[a])
      BY <1>7, <3>1 DEF Moved, ReapPick, Start
    <3>2. ASSUME NEW o \in Objects, Moved(a, [Rest EXCEPT !.op = "reap", !.pc = "idle?", !.obj = o])
          PROVE  Only(a) /\ at'[a].pc \in {"idle", "idle?"} /\ at'[a].op \in {at[a].op, "reap"}
      BY <3>2 DEF Moved, Rest
    <3> QED
      BY <1>7, <3>1, <3>2, ReapPickIs
  <2> QED
    BY <1>7, <2>1 DEF ReapPick, Start, host, log, Marked, ClosePcs
<1>8. CASE ReapRead(a)
  <2>1. Only(a) /\ at'[a].pc \in {"idle", "writeback"} /\ at'[a].op \in {at[a].op, "none"}
    BY <1>8, ReapReadIs, RestIs, StageIs
  <2> QED
    BY <1>8, <2>1 DEF ReapRead, host, log, Marked, ClosePcs
<1>9. CASE Shutdown(a)
  <2>1. Only(a) /\ at'[a].pc \in {"idle", "writeback"} /\ at'[a].op \in {at[a].op, "shutdown"}
    <3>1. CASE Moved(a, at[a])
      BY <1>9, <3>1 DEF Moved, Shutdown, Start
    <3>2. ASSUME NEW o \in Objects, Moved(a, [Rest EXCEPT !.op = "shutdown", !.pc = "writeback", !.obj = o])
          PROVE  Only(a) /\ at'[a].pc \in {"idle", "writeback"} /\ at'[a].op \in {at[a].op, "shutdown"}
      BY <3>2 DEF Moved, Rest
    <3> QED
      BY <1>9, <3>1, <3>2, ShutdownIs
  <2> QED
    BY <1>9, <2>1 DEF Shutdown, Start, host, log, Marked, ClosePcs
<1>10. CASE ReapDrop(a)
  <2>1. Only(a) /\ at'[a].pc \in {"idle", "forget"} /\ at'[a].op \in {at[a].op, "none"}
    BY <1>10, ReapDropIs, RestIs, StageIs
  <2> QED
    BY <1>10, <2>1 DEF ReapDrop, host, log, Marked, ClosePcs
<1> QED
  BY <1>1, <1>2, <1>3, <1>4, <1>5, <1>6, <1>7, <1>8, <1>9, <1>10 DEF Idly

\* The same of the steps that do something there.
Busily(a) ==
  \/ Create(a) \/ Publish(a) \/ KillOrphan(a) \/ ColdWrite(a) \/ Use(a) \/ Flush(a)
  \/ Writeback(a) \/ ShutdownRead(a) \/ Kill(a) \/ Mirror(a)

LEMMA BusilyIs ==
    ASSUME Typed, NEW a \in Actors, Busily(a)
    PROVE  /\ Only(a) /\ at[a].pc \notin ClosePcs
           /\ at'[a].pc \notin ClosePcs \ {"forget"}
           /\ at'[a].op \in {at[a].op, "none"}
<1>0. at[a] \in Tasks
  BY Kinds
<1>1. CASE Create(a)
  <2>1. Only(a) /\ at'[a].pc = "publish" /\ at'[a].op = at[a].op
    BY <1>0, <1>1, CreateIs DEF Moved, Tasks
  <2> QED
    BY <1>1, <2>1 DEF Create, ClosePcs
<1>2. CASE Publish(a)
  <2>1. Only(a) /\ at'[a].pc \in {"bump", "orphan"} /\ at'[a].op = at[a].op
    <3>1. CASE Moved(a, [at[a] EXCEPT !.pc = "bump", !.handle = at[a].handle, !.stale = None])
      BY <1>0, <3>1 DEF Moved, Tasks
    <3>2. CASE Moved(a, [at[a] EXCEPT !.pc = "orphan", !.stale = address])
      BY <1>0, <3>2 DEF Moved, Tasks
    <3> QED
      BY <1>2, <3>1, <3>2, PublishIs
  <2> QED
    BY <1>2, <2>1 DEF Publish, ClosePcs
<1>3. CASE KillOrphan(a)
  <2>1. Only(a) /\ at'[a].pc = "bump" /\ at'[a].op = at[a].op
    BY <1>0, <1>3, KillOrphanIs DEF Moved, Tasks
  <2> QED
    BY <1>3, <2>1 DEF KillOrphan, ClosePcs
<1>4. CASE ColdWrite(a)
  BY <1>4, ColdWriteIs, RestIs DEF ColdWrite, ClosePcs
<1>5. CASE Use(a)
  <2>1. Only(a) /\ at'[a].pc \in {"idle", "flush", "lock"} /\ at'[a].op \in {at[a].op, "none"}
    <3>1. CASE Moved(a, [at[a] EXCEPT !.pc = "lock", !.force = TRUE])
      BY <1>0, <3>1 DEF Moved, Tasks
    <3> QED
      BY <1>5, <3>1, UseIs, RestIs, StageIs
  <2> QED
    BY <1>5, <2>1 DEF Use, ClosePcs
<1>6. CASE Flush(a)
  BY <1>6, FlushIs, RestIs DEF Flush, ClosePcs
<1>7. CASE Writeback(a)
  <2>1. Only(a) /\ at'[a].pc \in {"idle", "kill", "unused?"} /\ at'[a].op \in {at[a].op, "none"}
    <3>1. ASSUME NEW s \in {"kill", "unused?"}, Moved(a, [at[a] EXCEPT !.handle = Session(a).handle, !.pc = s])
          PROVE  Only(a) /\ at'[a].pc = s /\ at'[a].op = at[a].op
      BY <1>0, <3>1 DEF Moved, Tasks
    <3> QED
      BY <1>7, <3>1, WritebackIs, RestIs
  <2> QED
    BY <1>7, <2>1 DEF Writeback, ClosePcs
<1>8. CASE ShutdownRead(a)
  <2>1. Only(a) /\ at'[a].pc \in {"idle", "kill"} /\ at'[a].op \in {at[a].op, "none"}
    BY <1>8, ShutdownReadIs, RestIs, StageIs
  <2> QED
    BY <1>8, <2>1 DEF ShutdownRead, ClosePcs
<1>9. CASE Kill(a)
  <2>1. Only(a) /\ at'[a].pc \in {"idle", "drop", "forget"} /\ at'[a].op \in {at[a].op, "none"}
    BY <1>9, KillIs, RestIs, StageIs
  <2> QED
    BY <1>9, <2>1 DEF Kill, ClosePcs
<1>10. CASE Mirror(a)
  <2>1. Only(a) /\ at'[a] = at[a] /\ at[a].pc = "idle"
    BY <1>10, MirrorIs DEF Moved, Mirror, Start
  <2> QED
    BY <2>1 DEF ClosePcs
<1> QED
  BY <1>1, <1>2, <1>3, <1>4, <1>5, <1>6, <1>7, <1>8, <1>9, <1>10 DEF Busily

-----------------------------------------------------------------------------
(* Acknowledged writes are kept                                             *)

Kept == acked \ exposed

\* Where a reader finds what was written: in the published sandbox while it
\* lives, else in the durable copy.
InPlace == Kept \subseteq IF address \in alive THEN box[address] ELSE durable

\* A sandbox about to be published over this address came up with everything,
\* and one that is about to be killed was written back since the last write.
Ready(a) ==
  at[a].pc = "publish" /\ at[a].stale = address /\ at[a].handle \in alive
    => Kept \subseteq box[at[a].handle]
Left(a) ==
  at[a].pc \in {"unused?", "kill", "closekill"} /\ at[a].handle = address /\ address \in alive
    => Kept \subseteq durable

Saved == InPlace /\ \A a \in Actors : Ready(a) /\ Left(a)

\* A step that writes into no sandbox keeps what was kept, if it leaves no less
\* in the durable copy and writes back before it kills.
LEMMA SavedStep ==
    ASSUME Saved, Kept' \subseteq Kept, alive' \subseteq alive, UNCHANGED <<address, box>>,
           Kept \subseteq durable => Kept' \subseteq durable',
           address \notin alive' => Kept' \subseteq durable',
           \A b \in Actors : at'[b] = at[b] \/ at'[b].pc \notin Marked \/ (Ready(b)' /\ Left(b)')
    PROVE  Saved'
<1>1. InPlace'
  BY DEF Saved, InPlace
<1>2. ASSUME NEW b \in Actors, at'[b] = at[b] PROVE Ready(b)' /\ Left(b)'
  BY <1>2 DEF Saved, Ready, Left
<1>3. ASSUME NEW b \in Actors, at'[b].pc \notin Marked PROVE Ready(b)' /\ Left(b)'
  BY <1>3 DEF Ready, Left, Marked
<1> QED
  BY <1>1, <1>2, <1>3 DEF Saved

\* A dead address leaves everything in the durable copy.
LEMMA DeadIsDurable ==
    ASSUME Saved, address \notin alive PROVE Kept \subseteq durable
BY DEF Saved, InPlace

LEMMA SavedIdle ==
    ASSUME Saved, UNCHANGED <<alive, box, durable, address, acked, exposed>>,
           \A b \in Actors : at'[b] = at[b] \/ at'[b].pc \notin Marked \/ (Ready(b)' /\ Left(b)')
    PROVE  Saved'
<1>1. Kept' = Kept
  BY DEF Kept
<1> QED
  BY <1>1, DeadIsDurable, SavedStep

LEMMA SavedCreate ==
    ASSUME Typed, Converged, Saved, NEW a \in Actors, Create(a)
    PROVE  Saved'
<1> DEFINE new == created + 1
<1>0. /\ created \in Nat /\ alive \subseteq 1 .. created /\ address \in Made /\ alive \subseteq Handles
      /\ box \in [Handles -> SUBSET Writes] /\ new \in Handles
  BY BoundsAssumption DEF Typed, TypeOK, HostTypeOK, Converged, Create, Handles
<1>1. /\ alive' = alive \cup {new} /\ box' = [box EXCEPT ![new] = durable]
      /\ UNCHANGED <<durable, address, acked, exposed>>
  BY DEF Create, Restored, registry, log
<1>2. new \notin Made /\ new # address /\ Kept' = Kept
  BY <1>0, <1>1, NoneAssumption DEF Made, Kept
<1>3. \A b \in Actors : at[b].handle \in Made /\ at[b].handle # new
  BY <1>2 DEF Converged, Points
<1>4. Only(a) /\ at'[a].pc = "publish" /\ at'[a].handle = new /\ at'[a].stale = at[a].stale /\ at[a].stale \notin alive
  <2>1. at[a] \in Tasks /\ Moved(a, [at[a] EXCEPT !.pc = "publish", !.handle = new])
    BY CreateIs, Kinds
  <2>2. at[a].stale \notin alive
    BY DEF Create, Converged, Points
  <2> QED
    BY <2>1, <2>2 DEF Moved, Tasks
<1> HIDE DEF new
<1>5. box'[new] = durable /\ \A h \in alive : h # new /\ box'[h] = box[h]
  <2>1. \A h \in alive : h # new
    BY <1>0, <1>2 DEF Made
  <2> QED
    BY <1>0, <1>1, <2>1
<1>6. InPlace'
  BY <1>1, <1>2, <1>5 DEF Saved, InPlace
<1>7. ASSUME NEW b \in Actors PROVE Ready(b)' /\ Left(b)'
  <2>1. CASE b = a
    BY <1>1, <1>2, <1>4, <1>5, <2>1, DeadIsDurable DEF Ready, Left
  <2>2. CASE b # a
    <3>1. at'[b] = at[b] /\ at[b].handle # new
      BY <1>3, <1>4, <2>2 DEF Only
    <3> QED
      BY <1>1, <1>2, <1>5, <3>1 DEF Saved, Ready, Left
  <2> QED
    BY <2>1, <2>2
<1> QED
  BY <1>6, <1>7 DEF Saved

LEMMA SavedPublish ==
    ASSUME Typed, Converged, Saved, NEW a \in Actors, Publish(a)
    PROVE  Saved'
<1>0. /\ at[a] \in Tasks /\ at[a].pc = "publish" /\ Building(a) /\ Points(a)
      /\ UNCHANGED <<alive, box, durable, acked, exposed>> /\ Kept' = Kept
  BY Kinds DEF Publish, Building, Converged, host, log, Kept
<1>1. CASE /\ SlotIsOurs(at[a].stale) /\ address' = at[a].handle
           /\ Moved(a, [at[a] EXCEPT !.pc = "bump", !.handle = at[a].handle, !.stale = None])
  <2>1. at'[a].pc = "bump" /\ Only(a)
    BY <1>1, HeldIs
  <2>2. address \notin alive /\ at[a].stale = address
    BY <1>0, <1>1 DEF Points, SlotIsOurs
  <2>3. Kept \subseteq durable
    BY <2>2, DeadIsDurable
  <2>4. InPlace'
    BY <1>0, <1>1, <2>2, <2>3 DEF Saved, InPlace, Ready
  <2>5. ASSUME NEW b \in Actors PROVE Ready(b)' /\ Left(b)'
    <3>1. CASE b = a
      BY <2>1, <3>1 DEF Ready, Left
    <3>2. CASE b # a
      <4>1. at'[b] = at[b] /\ at[b].stale # at[a].handle
        BY <1>0, <2>1, <3>2 DEF Only, Converged, Apart
      <4> QED
        BY <1>0, <1>1, <2>3, <4>1 DEF Ready, Left
    <3> QED
      BY <3>1, <3>2
  <2> QED
    BY <2>4, <2>5 DEF Saved
<1>2. CASE address' = address /\ Moved(a, [at[a] EXCEPT !.pc = "orphan", !.stale = address])
  <2>1. Only(a) /\ at'[a].pc = "orphan"
    BY <1>0, <1>2 DEF Moved, Tasks
  <2>2. \A b \in Actors : at'[b] = at[b] \/ at'[b].pc \notin Marked
    BY <2>1 DEF Only, Marked
  <2> QED
    BY <1>0, <1>2, <2>2, SavedIdle
<1> QED
  BY <1>1, <1>2, PublishIs

LEMMA SavedWrites ==
    ASSUME Typed, Converged, Saved, NEW a \in Actors, ColdWrite(a) \/ Use(a)
    PROVE  Saved'
<1>0. /\ at[a] \in Tasks /\ box \in [Handles -> SUBSET Writes] /\ alive \subseteq Handles
      /\ Points(a) /\ \A b \in Actors : Points(b)
  BY Kinds DEF Typed, TypeOK, HostTypeOK, Converged
<1>1. \A b \in Actors : at'[b] = at[b] \/ at'[b].pc \notin Marked
  <2>1. Only(a) /\ at'[a].pc \notin Marked
    <3>1. CASE ColdWrite(a)
      BY <3>1, ColdWriteIs, RestIs DEF Marked
    <3>2. CASE Use(a)
      <4>1. CASE Moved(a, [at[a] EXCEPT !.pc = "lock", !.force = TRUE])
        BY <1>0, <4>1 DEF Moved, Tasks, Marked
      <4>2. CASE Moved(a, Rest)
        <5>1. Only(a) /\ at'[a].pc = "idle"
          BY <4>2, RestIs
        <5> QED
          BY <5>1 DEF Marked
      <4>3. CASE Moved(a, [at[a] EXCEPT !.pc = "flush"])
        <5>1. Only(a) /\ at'[a].pc = "flush"
          BY <4>3, StageIs
        <5> QED
          BY <5>1 DEF Marked
      <4> QED
        BY <3>2, <4>1, <4>2, <4>3, UseIs
    <3> QED
      BY <3>1, <3>2
  <2> QED
    BY <2>1 DEF Only
<1>2. CASE ColdWrite(a)
  <2> DEFINE w == at[a].write
  <2>1. /\ durable' = durable \cup {w} /\ acked' = acked \cup {w} /\ UNCHANGED <<alive, box, address>>
        /\ exposed' = IF alive = {} THEN exposed ELSE exposed \cup {w}
    BY <1>2 DEF ColdWrite, registry
  <2> HIDE DEF w
  <2>2. CASE alive = {}
    <3>1. Kept' \subseteq Kept \cup {w} /\ Kept \subseteq durable
      BY <2>1, <2>2, DeadIsDurable DEF Kept
    <3> QED
      BY <2>1, <2>2, <3>1 DEF Saved, InPlace, Ready, Left
  <2>3. CASE alive # {}
    <3>1. Kept' \subseteq Kept
      BY <2>1, <2>3 DEF Kept
    <3> QED
      BY <1>1, <2>1, <3>1, DeadIsDurable, SavedStep
  <2> QED
    BY <2>2, <2>3
<1>3. CASE Use(a) /\ ~Alive(at[a].handle)
  <2>1. UNCHANGED <<alive, box, durable, address, acked, exposed>>
    BY <1>3 DEF Use, log
  <2> QED
    BY <1>1, <2>1, SavedIdle
<1>4. CASE Use(a) /\ Alive(at[a].handle)
  <2> DEFINE w == at[a].write
  <2>1. at[a].handle = address /\ address \in alive
    BY <1>0, <1>4 DEF Use, Points, Good, Alive
  <2>2. /\ box' = [box EXCEPT ![address] = box[address] \cup {w}] /\ acked' = acked \cup {w}
        /\ UNCHANGED <<alive, durable, address>>
        /\ exposed' = IF Leaving(address) THEN exposed \cup {w} ELSE exposed
    BY <1>4, <2>1 DEF Use
  <2> HIDE DEF w
  <2>3. Kept' \subseteq Kept \cup {w} /\ (Leaving(address) => Kept' \subseteq Kept)
    BY <2>2 DEF Kept
  <2>4. InPlace'
    BY <1>0, <2>1, <2>2, <2>3 DEF Saved, InPlace
  <2>5. ASSUME NEW b \in Actors PROVE Ready(b)' /\ Left(b)'
    <3>1. CASE at'[b].pc \notin Marked
      BY <3>1 DEF Ready, Left, Marked
    <3>2. CASE at'[b] = at[b]
      <4>1. Ready(b)'
        BY <1>0, <2>1, <2>2, <3>2 DEF Ready, Points
      <4>2. Left(b)'
        <5>1. at[b].pc \in {"unused?", "kill", "closekill"} /\ at[b].handle = address => Leaving(address)
          BY DEF Leaving
        <5> QED
          BY <2>1, <2>2, <2>3, <3>2, <5>1 DEF Saved, Left
      <4> QED
        BY <4>1, <4>2
    <3> QED
      BY <1>1, <3>1, <3>2
  <2> QED
    BY <2>4, <2>5 DEF Saved
<1> QED
  BY <1>2, <1>3, <1>4

\* The other steps, when the one task that moved carries no new burden.
LEMMA Moves ==
    ASSUME NEW a \in Actors, Only(a), at'[a].pc \notin Marked
    PROVE  \A b \in Actors : at'[b] = at[b] \/ at'[b].pc \notin Marked \/ (Ready(b)' /\ Left(b)')
BY DEF Only

\* A write-back of a sandbox that a session has is one of the published sandbox.
LEMMA SavedBack ==
    ASSUME Saved, NEW a \in Actors, Only(a),
           \/ durable' = durable
           \/ address \in alive /\ durable' = box[address],
           UNCHANGED <<alive, box, address, acked, exposed>>,
           at'[a].pc \notin Marked \/ (Ready(a)' /\ Left(a)')
    PROVE  Saved'
<1>1. Kept' = Kept
  BY DEF Kept
<1>2. address \in alive => Kept \subseteq box[address]
  BY DEF Saved, InPlace
<1>3. \A b \in Actors : at'[b] = at[b] \/ at'[b].pc \notin Marked \/ (Ready(b)' /\ Left(b)')
  BY DEF Only
<1> QED
  BY <1>1, <1>2, <1>3, DeadIsDurable, SavedStep

LEMMA SavedFlush ==
    ASSUME Typed, Converged, Saved, NEW a \in Actors, Flush(a)
    PROVE  Saved'
<1>1. Only(a) /\ at'[a].pc = "idle"
  BY FlushIs, RestIs
<1>2. UNCHANGED <<alive, box, address, acked, exposed>>
  BY DEF Flush, log
<1> DEFINE h == Listed(PodOf[a])
<1>3. durable' = IF h # None /\ Alive(h) THEN box[h] ELSE durable
  BY DEF Flush, Reconcile, Listed
<1>4. h \in alive => h = address
  <2>1. table[PodOf[a]] \in Objects \cup {None} /\ PodOf[a] \in Pods
    BY Kinds
  <2>2. h = None \/ Good(h)
    BY <2>1 DEF Listed, Converged
  <2> QED
    BY <2>2, NoneIsGood DEF Good
<1> HIDE DEF h
<1>5. durable' = durable \/ (address \in alive /\ durable' = box[address])
  BY <1>3, <1>4 DEF Alive
<1>6. at'[a].pc \notin Marked
  BY <1>1 DEF Marked
<1> QED
  BY <1>1, <1>2, <1>5, <1>6, SavedBack

LEMMA SavedWriteback ==
    ASSUME Typed, Converged, Saved, NEW a \in Actors, Writeback(a)
    PROVE  Saved'
<1>0. at[a] \in Tasks /\ at[a].obj \in Objects /\ PodOf[a] \in Pods
  BY Kinds DEF Typed, Seated, Holding, Writeback
<1>1. UNCHANGED <<alive, box, address, acked, exposed>>
  BY DEF Writeback, log
<1>2. Good(Session(a).handle)
  BY <1>0 DEF Converged, Session
<1>3. CASE Moved(a, Rest) /\ durable' = durable
  <2>1. Only(a) /\ at'[a].pc = "idle"
    BY <1>3, RestIs
  <2>2. at'[a].pc \notin Marked
    BY <2>1 DEF Marked
  <2> QED
    BY <1>1, <1>3, <2>1, <2>2, SavedBack
<1>4. ASSUME Session(a).handle \in alive, durable' = box[Session(a).handle], NEW s \in {"kill", "unused?"},
             Moved(a, [at[a] EXCEPT !.handle = Session(a).handle, !.pc = s])
      PROVE  Saved'
  <2>1. Only(a) /\ at'[a].pc = s
    BY <1>0, <1>4 DEF Moved, Tasks
  <2>2. address \in alive /\ durable' = box[address]
    BY <1>2, <1>4 DEF Good
  <2>3. Kept' \subseteq durable'
    BY <1>1, <2>2 DEF Saved, InPlace, Kept
  <2>4. Ready(a)' /\ Left(a)'
    BY <2>1, <2>3 DEF Ready, Left
  <2> QED
    BY <1>1, <2>1, <2>2, <2>4, SavedBack
<1> QED
  BY <1>3, <1>4, WritebackIs

\* A step that kills a sandbox, and may record what the kill loses.
LEMMA SavedKill ==
    ASSUME Typed, Converged, Saved, NEW a \in Actors, Only(a), at'[a].pc \notin Marked,
           Kept' \subseteq Kept, NEW h, alive' \subseteq alive, alive \ {h} \subseteq alive',
           UNCHANGED <<address, box, durable>>,
           h = address /\ address \in alive => Kept' \subseteq durable
    PROVE  Saved'
<1>1. address \notin alive' => Kept' \subseteq durable'
  BY DeadIsDurable
<1> QED
  BY <1>1, Moves, SavedStep

LEMMA SavedKills ==
    ASSUME Typed, Converged, Saved, NEW a \in Actors, KillOrphan(a) \/ Kill(a) \/ CloseKill(a)
    PROVE  Saved'
<1>0. at[a] \in Tasks /\ Points(a)
  BY Kinds DEF Converged
<1>1. CASE KillOrphan(a)
  <2>1. Only(a) /\ at'[a].pc = "bump"
    BY <1>1, KillOrphanIs, HeldIs
  <2>2. /\ alive' = alive \ {at[a].handle} /\ Kept' = Kept /\ UNCHANGED <<address, box, durable>>
        /\ at[a].handle # address
    BY <1>0, <1>1 DEF KillOrphan, Points, Building, log, Kept
  <2>3. at'[a].pc \notin Marked
    BY <2>1 DEF Marked
  <2> QED
    BY <2>1, <2>2, <2>3, SavedKill
<1>2. CASE Kill(a)
  <2> DEFINE h == Session(a).handle
  <2>0. at[a].obj \in Objects /\ PodOf[a] \in Pods
    BY <1>2, Kinds DEF Typed, Seated, Holding, Kill
  <2>1. Only(a) /\ at'[a].pc \in {"idle", "drop", "forget"}
    BY <1>2, KillIs, RestIs, StageIs
  <2>2. /\ alive' = alive \ {h} /\ UNCHANGED <<address, box, durable, acked>>
        /\ exposed' = IF h \in alive /\ h # at[a].handle
                      THEN exposed \cup (box[h] \ durable) ELSE exposed
    BY <1>2 DEF Kill
  <2>3. at'[a].pc \notin Marked
    BY <2>1 DEF Marked
  <2>4. at[a].handle = address /\ address \in alive => Kept \subseteq durable
    BY <1>2 DEF Saved, Left, Kill
  <2>5. address \in alive => Kept \subseteq box[address]
    BY DEF Saved, InPlace
  <2> HIDE DEF h
  <2>6. Kept' \subseteq Kept
    BY <2>2 DEF Kept
  <2>7. ASSUME h = address, address \in alive PROVE Kept' \subseteq durable
    <3>1. CASE at[a].handle = address
      BY <2>4, <2>6, <2>7, <3>1
    <3>2. CASE at[a].handle # address
      BY <2>2, <2>5, <2>7, <3>2 DEF Kept
    <3> QED
      BY <3>1, <3>2
  <2> QED
    BY <2>1, <2>2, <2>3, <2>6, <2>7, SavedKill
<1>3. CASE CloseKill(a)
  <2>1. Only(a) /\ at'[a].pc = After(a, Alive(at[a].handle))
    BY <1>3, CloseKillIs, StageIs
  <2>2. alive' = alive \ {at[a].handle} /\ Kept' = Kept /\ UNCHANGED <<address, box, durable>>
    BY <1>3 DEF CloseKill, log, Kept
  <2>3. at[a].handle = address /\ address \in alive => Kept \subseteq durable
    BY <1>3 DEF Saved, Left, CloseKill
  <2>4. at'[a].pc \notin Marked
    BY <2>1 DEF Marked, After
  <2> QED
    BY <2>1, <2>2, <2>3, <2>4, SavedKill
<1> QED
  BY <1>1, <1>2, <1>3

LEMMA SavedTeardown ==
    ASSUME Typed, Converged, Saved, NEW a \in Actors, Teardown(a)
    PROVE  Saved'
<1> DEFINE h == at[a].handle
<1>0. UNCHANGED <<alive, box, address, acked>>
  BY DEF Teardown
<1>1. CASE ~Alive(h)
  <2>1. ~Alive(at[a].handle) /\ Moved(a, [at[a] EXCEPT !.pc = After(a, FALSE)])
    BY <1>1, TeardownIs
  <2>2. Only(a) /\ at'[a].pc = After(a, FALSE)
    BY <2>1, StageIs
  <2>3. at'[a].pc \notin Marked
    BY <2>2 DEF Marked, After
  <2>4. UNCHANGED <<durable, exposed>>
    BY <1>1 DEF Teardown
  <2> QED
    BY <1>0, <2>2, <2>3, <2>4, Moves, SavedIdle
<1>2. CASE Alive(h)
  <2>1. Moved(a, [at[a] EXCEPT !.pc = "closekill"])
    BY <1>2, TeardownIs
  <2>2. Only(a) /\ at'[a].pc = "closekill" /\ at'[a].handle = h
    BY <2>1, StageIs
  <2>3. durable' = box[h] /\ exposed' = IF h = address THEN exposed ELSE exposed \cup (durable \ box[h])
    BY <1>2 DEF Teardown, Reconcile
  <2> HIDE DEF h
  <2>4. Kept' \subseteq Kept
    BY <1>0, <2>3 DEF Kept
  <2>5. Kept \subseteq durable => Kept' \subseteq durable'
    <3>1. CASE h = address
      BY <1>2, <2>3, <2>4, <3>1 DEF Saved, InPlace, Alive
    <3>2. CASE h # address
      BY <1>0, <2>3, <3>2 DEF Kept
    <3> QED
      BY <3>1, <3>2
  <2>6. address \notin alive' => Kept' \subseteq durable'
    BY <1>0, <2>5, DeadIsDurable
  <2>7. Ready(a)' /\ Left(a)'
    BY <1>0, <2>2, <2>3, <2>4 DEF Ready, Left, Saved, InPlace
  <2>8. \A b \in Actors : at'[b] = at[b] \/ at'[b].pc \notin Marked \/ (Ready(b)' /\ Left(b)')
    BY <2>2, <2>7 DEF Only
  <2> QED
    BY <1>0, <2>4, <2>5, <2>6, <2>8, SavedStep
<1> QED
  BY <1>1, <1>2

\* The steps of a close that look for the next sandbox, and its end.
Seeks(a) ==
  \/ CloseBegin(a) \/ CloseTake(a) \/ ClosePublished(a) \/ CloseList(a)
  \/ CloseUnrecorded(a) \/ ClosePop(a)

LEMMA SeeksIs ==
    ASSUME Typed, NEW a \in Actors, Seeks(a)
    PROVE  /\ Only(a) /\ UNCHANGED <<alive, box, durable, address, acked, exposed>>
           /\ at'[a].pc \in (ClosePcs \ {"closekill"}) \cup {"idle"}
<1>0. at[a] \in Tasks
  BY Kinds
<1>1. CASE CloseBegin(a)
  <2>1. ASSUME NEW o, NEW w, NEW s \in {"published", "take"},
               Moved(a, [Rest EXCEPT !.op = "close", !.obj = o, !.write = w, !.pc = s])
        PROVE  Only(a) /\ at'[a].pc = s
    BY <2>1 DEF Moved, Rest
  <2>2. Only(a) /\ at'[a].pc \in {"published", "take"}
    BY <1>1, <2>1, CloseBeginIs
  <2> QED
    BY <1>1, <2>2 DEF CloseBegin, Start, host, registry, log, ClosePcs
<1>2. CASE CloseTake(a)
  <2>1. Only(a) /\ at'[a].pc \in {"teardown", "published"}
    BY <1>2, CloseTakeIs, TornIs, StageIs
  <2> QED
    BY <1>2, <2>1 DEF CloseTake, host, log, ClosePcs
<1>3. CASE ClosePublished(a)
  <2>1. Only(a) /\ at'[a].pc \in {"teardown", "list"}
    BY <1>3, ClosePublishedIs, TornIs, StageIs
  <2> QED
    BY <1>3, <2>1 DEF ClosePublished, host, registry, log, ClosePcs
<1>4. CASE CloseList(a)
  <2>1. ASSUME NEW here, Moved(a, [at[a] EXCEPT !.pc = "unrecorded", !.listed = here])
        PROVE  Only(a) /\ at'[a].pc = "unrecorded"
    BY <1>0, <2>1 DEF Moved, Tasks
  <2>2. Only(a) /\ at'[a].pc = "unrecorded"
    BY <1>4, <2>1, CloseListIs
  <2> QED
    BY <1>4, <2>2 DEF CloseList, host, registry, log, ClosePcs
<1>5. CASE CloseUnrecorded(a)
  <2>1. Only(a) /\ at'[a].pc \in {"teardown", "forget"}
    BY <1>5, CloseUnrecordedIs, TornIs, StageIs
  <2> QED
    BY <1>5, <2>1 DEF CloseUnrecorded, host, registry, log, ClosePcs
<1>6. CASE ClosePop(a)
  <2>1. Only(a) /\ at'[a].pc = "idle"
    BY <1>6, ClosePopIs, RestIs
  <2> QED
    BY <1>6, <2>1 DEF ClosePop, host, log
<1> QED
  BY <1>1, <1>2, <1>3, <1>4, <1>5, <1>6 DEF Seeks

LEMMA SavedStill ==
    ASSUME Typed, Converged, Saved, NEW a \in Actors,
           Idly(a) \/ Seeks(a) \/ ShutdownRead(a) \/ Forget(a) \/ Mirror(a)
    PROVE  Saved'
<1>1. CASE Idly(a) \/ Seeks(a)
  <2>1. Only(a) /\ at'[a].pc \notin Marked /\ UNCHANGED <<alive, box, durable, address, acked, exposed>>
    <3>1. CASE Idly(a)
      BY <3>1, IdlyIs
    <3>2. CASE Seeks(a)
      BY <3>2, SeeksIs DEF Marked, ClosePcs
    <3> QED
      BY <1>1, <3>1, <3>2
  <2> QED
    BY <2>1, Moves, SavedIdle
<1>2. CASE ShutdownRead(a)
  <2>1. UNCHANGED <<alive, box, durable, address, acked, exposed>> /\ at[a].pc = "unused?"
    BY <1>2 DEF ShutdownRead, host, log
  <2>2. CASE Moved(a, Rest)
    <3>1. Only(a) /\ at'[a].pc \notin Marked
      BY <2>2, RestIs DEF Marked
    <3> QED
      BY <2>1, <3>1, Moves, SavedIdle
  <2>3. CASE Moved(a, [at[a] EXCEPT !.pc = "kill"])
    <3>1. Only(a) /\ at'[a].pc = "kill" /\ at'[a].handle = at[a].handle
      BY <2>3, StageIs
    <3>2. Ready(a)' /\ Left(a)'
      BY <2>1, <3>1 DEF Saved, Ready, Left, Kept
    <3>3. \A b \in Actors : at'[b] = at[b] \/ at'[b].pc \notin Marked \/ (Ready(b)' /\ Left(b)')
      BY <3>1, <3>2 DEF Only
    <3> QED
      BY <2>1, <3>3, SavedIdle
  <2> QED
    BY <1>2, <2>2, <2>3, ShutdownReadIs
<1>3. CASE Forget(a)
  <2>1. Only(a) /\ at'[a].pc \in {"idle", "pop"}
    BY <1>3, ForgetIs, RestIs, StageIs
  <2>2. at'[a].pc \notin Marked
    BY <2>1 DEF Marked
  <2>3. UNCHANGED <<alive, box, durable, address, acked, exposed>>
    BY <1>3 DEF Forget, host, log
  <2> QED
    BY <2>1, <2>2, <2>3, Moves, SavedIdle
<1>4. CASE Mirror(a)
  <2>1. Only(a) /\ at'[a].pc = "idle"
    BY <1>4, MirrorIs DEF Moved, Mirror, Start
  <2>2. at'[a].pc \notin Marked
    BY <2>1 DEF Marked
  <2>3. UNCHANGED <<alive, box, address>> /\ Kept' = Kept /\ durable \subseteq durable'
    BY <1>4 DEF Mirror, registry, log, Kept
  <2> QED
    BY <2>1, <2>2, <2>3, Moves, DeadIsDurable, SavedStep
<1> QED
  BY <1>1, <1>2, <1>3, <1>4

LEMMA SavedWorld ==
    ASSUME Typed, Converged, Saved,
           \/ \E p \in Pods : SessionAges(p) \/ PodCrashes(p)
           \/ BeatAges \/ \E h \in Handles : HostReaps(h)
           \/ UNCHANGED vars
    PROVE  Saved'
<1>1. \A b \in Actors : at'[b] = at[b] \/ at'[b].pc \notin Marked \/ (Ready(b)' /\ Left(b)')
  <2>1. \A b \in Actors : at'[b] \in {at[b], Rest}
    BY TypedWorld
  <2>2. Rest.pc \notin Marked
    BY DEF Rest, Marked
  <2> QED
    BY <2>1, <2>2
<1>2. ASSUME NEW h \in Handles, HostReaps(h) PROVE Saved'
  <2>1. /\ alive' = alive \ {h} /\ exposed' = exposed \cup (box[h] \ durable)
        /\ UNCHANGED <<address, box, durable, acked>>
    BY <1>2 DEF HostReaps, registry
  <2>2. Kept' \subseteq Kept
    BY <2>1 DEF Kept
  <2>3. address \notin alive' => Kept' \subseteq durable'
    <3>1. CASE address \notin alive
      BY <2>1, <2>2, <3>1, DeadIsDurable
    <3>2. CASE address \in alive /\ address = h
      BY <2>1, <3>2 DEF Saved, InPlace, Kept
    <3> QED
      BY <2>1, <3>1, <3>2
  <2> QED
    BY <1>1, <2>1, <2>2, <2>3, SavedStep
<1>3. ASSUME \/ \E p \in Pods : SessionAges(p) \/ PodCrashes(p)
             \/ BeatAges \/ UNCHANGED vars
      PROVE  Saved'
  <2>1. UNCHANGED <<alive, box, durable, address, acked, exposed>>
    BY <1>3 DEF SessionAges, PodCrashes, BeatAges, host, log, vars
  <2> QED
    BY <1>1, <2>1, SavedIdle
<1> QED
  BY <1>2, <1>3

LEMMA SavedInit == Init => Saved
<1> SUFFICES ASSUME Init PROVE Saved
  OBVIOUS
<1>1. Kept = {}
  BY DEF Init, Kept
<1> QED
  BY <1>1 DEF Saved, InPlace, Ready, Left

LEMMA SavedNext == Typed /\ Converged /\ Saved /\ [Next]_vars => Saved'
<1>1. ASSUME Typed, Converged, Saved, NEW a \in Actors, Step(a) PROVE Saved'
  <2>1. \/ Idly(a) \/ Seeks(a) \/ ShutdownRead(a) \/ Forget(a) \/ Mirror(a)
        \/ Create(a) \/ Publish(a) \/ ColdWrite(a) \/ Use(a) \/ Flush(a) \/ Writeback(a)
        \/ KillOrphan(a) \/ Kill(a) \/ CloseKill(a) \/ Teardown(a)
    BY <1>1 DEF Step, Idly, Seeks
  <2> QED
    BY <1>1, <2>1, SavedStill, SavedCreate, SavedPublish, SavedWrites, SavedFlush, SavedWriteback,
       SavedKills, SavedTeardown
<1> QED
  BY <1>1, SavedWorld DEF Next

LEMMA SavedIsKept == Saved => AckedIsKept
BY DEF Saved, InPlace, Kept, AckedIsKept

\* A write that was acknowledged is in the published sandbox or in the durable
\* copy, whatever pods reap, shut down, close, rebuild and crash meanwhile, unless
\* it landed in one of the windows that `exposed` records.
THEOREM AckedIsKeptHolds == Spec => []AckedIsKept
BY TypedInit, TypedNext, ConvergedInit, ConvergedNext, SavedInit, SavedNext, SavedIsKept, PTL DEF Spec

-----------------------------------------------------------------------------
(* A close that runs alone ends the published sandbox                       *)

\* The stages of a close are those of tasks that close.
Closed(a) ==
  /\ at[a].pc \in ClosePcs \ {"forget"} => at[a].op = "close"
  /\ at[a].op = "close" => at[a].pc \in ClosePcs
  /\ Tearing(a) => at[a].from # "none"

\* While nothing has started beside it nothing else runs.  What it has tried is
\* dead, but the sandbox it is tearing down; and once it is past the address
\* the published sandbox is dead.
Sole(a) == at[a].op = "close" /\ at[a].write = ops
Past(a) ==
  /\ at[a].pc \in {"list", "unrecorded", "forget", "pop"} => address \notin alive
  /\ Tearing(a) /\ at[a].from = "listing" => address \notin alive
  /\ Tearing(a) /\ at[a].from = "address" => at[a].handle = address
  /\ Tearing(a) /\ at[a].from = "session" /\ at[a].handle \in alive => at[a].handle = address
Tried(a) == \A h \in at[a].tried : h \in alive => Tearing(a) /\ h = at[a].handle
Ending(a) == Sole(a) => (\A b \in Actors \ {a} : at[b] = Rest) /\ Past(a) /\ Tried(a)

Closing == \A a \in Actors : Closed(a) /\ Ending(a)

\* Only what starts leaves the idle stage, and it counts.
LEMMA StepCounts ==
    ASSUME NEW a \in Actors, Step(a)
    PROVE  \/ at[a].pc = "idle" /\ ops' = ops + 1
           \/ at[a].pc # "idle" /\ ops' = ops
<1>1. CASE \/ TurnBegin(a) \/ FileResolve(a) \/ ReapPick(a) \/ Shutdown(a) \/ Mirror(a) \/ CloseBegin(a)
  BY <1>1 DEF TurnBegin, FileResolve, ReapPick, Shutdown, Mirror, CloseBegin, Start
<1>2. CASE \/ Lock(a) \/ AcquireRead(a) \/ Create(a) \/ Publish(a) \/ KillOrphan(a) \/ Bump(a) \/ FileCheck(a)
  BY <1>2 DEF Lock, AcquireRead, Create, Publish, KillOrphan, Bump, FileCheck
<1>3. CASE ColdWrite(a) \/ Use(a) \/ Flush(a) \/ ReapRead(a) \/ Writeback(a) \/ ShutdownRead(a)
  BY <1>3 DEF ColdWrite, Use, Flush, ReapRead, Writeback, ShutdownRead
<1>4. CASE \/ Kill(a) \/ ReapDrop(a) \/ Forget(a) \/ CloseTake(a) \/ ClosePublished(a) \/ CloseList(a)
  BY <1>4 DEF Kill, ReapDrop, Forget, CloseTake, ClosePublished, CloseList
<1>5. CASE CloseUnrecorded(a) \/ Teardown(a) \/ CloseKill(a) \/ ClosePop(a)
  BY <1>5 DEF CloseUnrecorded, Teardown, CloseKill, ClosePop
<1> QED
  BY <1>1, <1>2, <1>3, <1>4, <1>5 DEF Step

\* A step of another task either starts something, or cannot be.
LEMMA EndingOther ==
    ASSUME Typed, Closing, NEW a \in Actors, Step(a), Only(a), NEW b \in Actors \ {a}
    PROVE  Closed(b)' /\ Ending(b)'
<1>1. at'[b] = at[b]
  BY DEF Only
<1>2. Closed(b)'
  BY <1>1 DEF Closing, Closed, Tearing
<1>3. ~Sole(b)'
  <2> SUFFICES ASSUME at[b].op = "close", at[b].write = ops' PROVE FALSE
    BY <1>1 DEF Sole
  <2>1. ops \in Nat /\ at[b] \in Tasks /\ Named(b)
    BY Kinds DEF Typed, TypeOK, LogTypeOK
  <2>2. CASE at[a].pc = "idle" /\ ops' = ops + 1
    <3>1. ops + 1 # None
      BY <2>1, NoneAssumption
    <3> QED
      BY <2>1, <2>2, <3>1 DEF Named
  <2>3. CASE at[a].pc # "idle" /\ ops' = ops
    <3>1. at[a] = Rest
      BY <2>3 DEF Closing, Ending, Sole
    <3> QED
      BY <2>3, <3>1 DEF Rest
  <2> QED
    BY <2>2, <2>3, StepCounts
<1> QED
  BY <1>2, <1>3 DEF Ending

\* Steps that no close takes.
LEMMA EndingElse ==
    ASSUME Typed, Closing, NEW a \in Actors, Idly(a) \/ Busily(a)
    PROVE  Only(a) /\ Closed(a)' /\ Ending(a)'
<1>1. /\ Only(a) /\ at[a].pc \notin ClosePcs /\ at'[a].pc \notin ClosePcs \ {"forget"}
      /\ at'[a].op \in {at[a].op, "turn", "file", "reap", "shutdown", "none"}
  BY IdlyIs, BusilyIs
<1>2. at[a].op # "close"
  BY <1>1 DEF Closing, Closed
<1>3. at'[a].op # "close"
  BY <1>1, <1>2
<1>4. ~Tearing(a)'
  BY <1>1 DEF Tearing, ClosePcs
<1> QED
  BY <1>1, <1>3, <1>4 DEF Closed, Ending, Sole

\* A step of a close, from what it makes of the one task.
LEMMA EndingStep ==
    ASSUME Typed, Closing, NEW a \in Actors, Only(a), ops' = ops,
           at'[a].op = at[a].op, at'[a].write = at[a].write,
           at[a].op = "close", at'[a].pc \in ClosePcs, Tearing(a)' => at'[a].from # "none",
           Past(a) /\ Tried(a) => Past(a)' /\ Tried(a)'
    PROVE  Closed(a)' /\ Ending(a)'
<1>1. Closed(a)'
  BY DEF Closed
<1>2. ASSUME Sole(a)' PROVE (\A b \in Actors \ {a} : at'[b] = Rest) /\ Past(a)' /\ Tried(a)'
  <2>1. Sole(a)
    BY <1>2 DEF Sole
  <2> QED
    BY <2>1 DEF Closing, Ending, Only
<1> QED
  BY <1>1, <1>2 DEF Ending

LEMMA EndingBegin ==
    ASSUME Typed, Closing, NEW a \in Actors, CloseBegin(a)
    PROVE  Only(a) /\ Closed(a)' /\ Ending(a)'
<1>1. PICK o \in Objects \cup {None}, w \in {ops + 1, None}, s \in {"published", "take"} :
         /\ w # None => \A b \in Actors : at[b] = Rest
         /\ Moved(a, [Rest EXCEPT !.op = "close", !.obj = o, !.write = w, !.pc = s])
  BY CloseBeginIs
<1>2. /\ Only(a) /\ at'[a].op = "close" /\ at'[a].write = w /\ at'[a].pc = s /\ at'[a].tried = {}
  BY <1>1 DEF Moved, Rest
<1>3. ops' = ops + 1 /\ ops \in Nat
  BY DEF CloseBegin, Start, Typed, TypeOK, LogTypeOK
<1>4. ~Tearing(a)' /\ at'[a].pc \in ClosePcs
  BY <1>2 DEF Tearing, ClosePcs
<1>5. Past(a)' /\ Tried(a)'
  BY <1>2, <1>4 DEF Past, Tried
<1>6. Sole(a)' => \A b \in Actors \ {a} : at'[b] = Rest
  <2>1. Sole(a)' => w # None
    BY <1>2, <1>3, NoneAssumption DEF Sole
  <2> QED
    BY <1>1, <1>2, <2>1 DEF Only
<1> QED
  BY <1>2, <1>4, <1>5, <1>6 DEF Closed, Ending

\* A close takes the next sandbox to tear down.
LEMMA EndingTorn ==
    ASSUME Typed, Closing, NEW a \in Actors, at[a].op = "close", ops' = ops, NEW h,
           NEW source \in {"session", "address", "listing"}, Moved(a, Torn(a, h, source)),
           UNCHANGED <<alive, address>>, ~Tearing(a),
           source = "listing" => at[a].pc = "unrecorded",
           source = "address" => h = address,
           source = "session" /\ h \in alive => h = address
    PROVE  Only(a) /\ Closed(a)' /\ Ending(a)'
<1>1. /\ Only(a) /\ at'[a].pc = "teardown" /\ at'[a].op = at[a].op /\ at'[a].handle = h
      /\ at'[a].write = at[a].write /\ at'[a].from = source /\ at'[a].tried = at[a].tried \cup {h}
  BY TornIs
<1>2. Tearing(a)' /\ at'[a].pc \in ClosePcs
  BY <1>1 DEF Tearing, ClosePcs
<1>3. Past(a) => Past(a)'
  BY <1>1 DEF Past, Tearing
<1>4. Tried(a) => Tried(a)'
  BY <1>1, <1>2 DEF Tried
<1> QED
  BY <1>1, <1>2, <1>3, <1>4, EndingStep

\* A close moves on.
LEMMA EndingStage ==
    ASSUME Typed, Closing, NEW a \in Actors, at[a].op = "close", ops' = ops, NEW s \in ClosePcs,
           Moved(a, [at[a] EXCEPT !.pc = s]), alive' \subseteq alive, address' = address,
           s \in {"teardown", "closekill"} => Tearing(a),
           Past(a) /\ Tried(a) /\ s \in {"list", "unrecorded", "forget", "pop"} => address \notin alive',
           Tried(a) /\ s \notin {"teardown", "closekill"} => \A h \in at[a].tried : h \notin alive'
    PROVE  Only(a) /\ Closed(a)' /\ Ending(a)'
<1>1. /\ Only(a) /\ at'[a].pc = s /\ at'[a].op = at[a].op /\ at'[a].handle = at[a].handle
      /\ at'[a].write = at[a].write /\ at'[a].from = at[a].from /\ at'[a].tried = at[a].tried
  BY StageIs
<1>2. Tearing(a)' <=> s \in {"teardown", "closekill"}
  BY <1>1 DEF Tearing
<1>3. Tearing(a)' => at'[a].from # "none"
  BY <1>1, <1>2 DEF Closing, Closed
<1>4. Past(a) /\ Tried(a) => Past(a)'
  BY <1>1, <1>2 DEF Past
<1>5. Tried(a) => Tried(a)'
  BY <1>1, <1>2 DEF Tried
<1> QED
  BY <1>1, <1>3, <1>4, <1>5, EndingStep

LEMMA EndingSeeks ==
    ASSUME Typed, Converged, Closing, NEW a \in Actors,
           CloseTake(a) \/ ClosePublished(a) \/ CloseList(a) \/ CloseUnrecorded(a)
    PROVE  Only(a) /\ Closed(a)' /\ Ending(a)'
<1>0. /\ at[a].pc \in {"take", "published", "list", "unrecorded"} /\ ops' = ops
      /\ UNCHANGED <<alive, address>>
  BY DEF CloseTake, ClosePublished, CloseList, CloseUnrecorded, host, registry
<1>1. at[a].op = "close" /\ ~Tearing(a) /\ at[a] \in Tasks
  BY <1>0, Kinds DEF Closing, Closed, ClosePcs, Tearing
<1>2. Tried(a) => \A h \in at[a].tried : h \notin alive'
  BY <1>0, <1>1 DEF Tried
<1>3. {"published", "list", "forget"} \subseteq ClosePcs
  BY DEF ClosePcs
<1>4. CASE CloseTake(a)
  <2>1. CASE Session(a).handle \in Handles /\ at[a].obj \in Objects /\ Moved(a, Torn(a, Session(a).handle, "session"))
    <3>1. Good(Session(a).handle)
      BY <2>1, Kinds DEF Converged, Session
    <3>2. Session(a).handle \in alive => Session(a).handle = address
      BY <3>1 DEF Good
    <3> DEFINE h == Session(a).handle
    <3> HIDE DEF h
    <3>3. Moved(a, Torn(a, h, "session")) /\ (h \in alive => h = address)
      BY <2>1, <3>2 DEF h
    <3> QED
      BY <1>0, <1>1, <3>3, EndingTorn
  <2>2. CASE Moved(a, [at[a] EXCEPT !.pc = "published"])
    BY <1>0, <1>1, <1>2, <1>3, <2>2, EndingStage
  <2> QED
    BY <1>4, <2>1, <2>2, CloseTakeIs
<1>5. CASE ClosePublished(a)
  <2>1. CASE Moved(a, Torn(a, address, "address"))
    BY <1>0, <1>1, <2>1, EndingTorn
  <2>2. CASE (address = None \/ address \in at[a].tried) /\ Moved(a, [at[a] EXCEPT !.pc = "list"])
    <3>1. Tried(a) => address \notin alive'
      BY <1>0, <1>2, <2>2, NoneIsGood
    <3> QED
      BY <1>0, <1>1, <1>2, <1>3, <2>2, <3>1, EndingStage
  <2> QED
    BY <1>5, <2>1, <2>2, ClosePublishedIs
<1>6. CASE CloseList(a)
  <2>0. at[a].pc = "list"
    BY <1>6 DEF CloseList
  <2>1. PICK here \in SUBSET alive : Moved(a, [at[a] EXCEPT !.pc = "unrecorded", !.listed = here])
    BY <1>6, CloseListIs
  <2>2. /\ Only(a) /\ at'[a].pc = "unrecorded" /\ at'[a].op = at[a].op /\ at'[a].write = at[a].write
        /\ at'[a].tried = at[a].tried
    BY <1>1, <2>1 DEF Moved, Tasks
  <2>3. ~Tearing(a)' /\ at'[a].pc \in ClosePcs
    BY <2>2 DEF Tearing, ClosePcs
  <2>4. Past(a) => Past(a)'
    BY <1>0, <2>0, <2>2, <2>3 DEF Past
  <2>5. Tried(a) => Tried(a)'
    BY <1>2, <2>2 DEF Tried
  <2> QED
    BY <1>0, <1>1, <2>2, <2>3, <2>4, <2>5, EndingStep
<1>7. CASE CloseUnrecorded(a)
  <2>0. at[a].pc = "unrecorded"
    BY <1>7 DEF CloseUnrecorded
  <2>1. ASSUME NEW h \in at[a].listed, Moved(a, Torn(a, h, "listing")) PROVE Only(a) /\ Closed(a)' /\ Ending(a)'
    BY <1>0, <1>1, <2>0, <2>1, EndingTorn
  <2>2. CASE Moved(a, [at[a] EXCEPT !.pc = "forget"])
    <3>1. Past(a) => address \notin alive'
      BY <1>0, <2>0 DEF Past
    <3> QED
      BY <1>0, <1>1, <1>2, <1>3, <2>2, <3>1, EndingStage
  <2> QED
    BY <1>7, <2>1, <2>2, CloseUnrecordedIs
<1> QED
  BY <1>4, <1>5, <1>6, <1>7

LEMMA EndingTears ==
    ASSUME Typed, Converged, Closing, NEW a \in Actors, Teardown(a) \/ CloseKill(a)
    PROVE  Only(a) /\ Closed(a)' /\ Ending(a)'
<1>0. Tearing(a) /\ ops' = ops /\ alive' \subseteq alive /\ address' = address
  BY DEF Teardown, CloseKill, Tearing
<1>1. at[a].op = "close" /\ at[a] \in Tasks /\ at[a].from \in {"session", "address", "listing"}
  BY <1>0, Kinds DEF Closing, Closed, ClosePcs, Tearing, Tasks, Sources
<1>2. ASSUME NEW killed \in BOOLEAN, at[a].handle \notin alive', killed <=> at[a].handle \in alive,
             Moved(a, [at[a] EXCEPT !.pc = After(a, killed)])
      PROVE  Only(a) /\ Closed(a)' /\ Ending(a)'
  <2> DEFINE s == After(a, killed)
  <2>1. s \in {"unrecorded", "forget", "published", "list"}
    BY DEF After
  <2>2. s \in ClosePcs /\ s \notin {"teardown", "closekill"}
    BY <2>1 DEF ClosePcs
  <2>3. Tried(a) => \A h \in at[a].tried : h \notin alive'
    BY <1>0, <1>2 DEF Tried
  <2>4. ASSUME Past(a), s # "published" PROVE address \notin alive'
    <3>1. CASE at[a].from = "listing"
      BY <1>0, <2>4, <3>1 DEF Past
    <3>2. CASE at[a].from = "address"
      BY <1>0, <1>2, <2>4, <3>2 DEF Past
    <3>3. CASE at[a].from = "session"
      <4>1. killed
        BY <2>4, <3>3 DEF After, Ended
      <4> QED
        BY <1>0, <1>2, <2>4, <3>3, <4>1 DEF Past
    <3> QED
      BY <1>1, <3>1, <3>2, <3>3
  <2> HIDE DEF s
  <2>5. Moved(a, [at[a] EXCEPT !.pc = s])
    BY <1>2 DEF s
  <2>6. Past(a) /\ Tried(a) /\ s \in {"list", "unrecorded", "forget", "pop"} => address \notin alive'
    BY <2>4
  <2> QED
    BY <1>0, <1>1, <2>2, <2>3, <2>5, <2>6, EndingStage
<1>3. CASE CloseKill(a)
  <2>1. alive' = alive \ {at[a].handle} /\ Alive(at[a].handle) \in BOOLEAN
    BY <1>3 DEF CloseKill, Alive
  <2>2. Moved(a, [at[a] EXCEPT !.pc = After(a, Alive(at[a].handle))])
    BY <1>3, CloseKillIs
  <2>3. Alive(at[a].handle) <=> at[a].handle \in alive
    BY DEF Alive
  <2> QED
    BY <1>2, <2>1, <2>2, <2>3
<1>4. CASE Teardown(a)
  <2>0. alive' = alive
    BY <1>4 DEF Teardown
  <2>1. CASE Moved(a, [at[a] EXCEPT !.pc = "closekill"])
    <3>1. "closekill" \in ClosePcs
      BY DEF ClosePcs
    <3> QED
      BY <1>0, <1>1, <2>1, <3>1, EndingStage
  <2>2. CASE ~Alive(at[a].handle) /\ Moved(a, [at[a] EXCEPT !.pc = After(a, FALSE)])
    <3>1. at[a].handle \notin alive /\ FALSE \in BOOLEAN
      BY <2>2 DEF Alive
    <3> QED
      BY <1>2, <2>0, <2>2, <3>1
  <2> QED
    BY <1>4, <2>1, <2>2, TeardownIs
<1> QED
  BY <1>3, <1>4

LEMMA EndingEnds ==
    ASSUME Typed, Converged, Closing, NEW a \in Actors, Forget(a) \/ ClosePop(a)
    PROVE  Only(a) /\ Closed(a)' /\ Ending(a)'
<1>1. CASE Moved(a, Rest)
  <2>1. Only(a) /\ at'[a].pc = "idle" /\ at'[a].op = "none"
    BY <1>1, RestIs
  <2> QED
    BY <2>1 DEF Closed, Ending, Sole, Tearing, ClosePcs
<1>2. CASE Forget(a) /\ Moved(a, [at[a] EXCEPT !.pc = "pop"])
  <2>0. /\ at[a].pc = "forget" /\ ops' = ops /\ UNCHANGED <<alive, address>> /\ "pop" \in ClosePcs
        /\ (at[a].op = "close" \/ Done(a))
    BY <1>2 DEF Forget, host, ClosePcs
  <2>1. at[a].op = "close"
    <3>1. CASE Done(a)
      <4>1. at'[a].pc = "idle"
        BY <3>1, Rests, RestIs
      <4>2. at'[a].pc = "pop"
        BY <1>2, StageIs
      <4> QED
        BY <4>1, <4>2
    <3> QED
      BY <2>0, <3>1
  <2>2. ~Tearing(a) /\ (Past(a) => address \notin alive')
    BY <2>0 DEF Tearing, Past
  <2>3. Tried(a) => \A h \in at[a].tried : h \notin alive'
    BY <2>0, <2>2 DEF Tried
  <2> QED
    BY <1>2, <2>0, <2>1, <2>2, <2>3, EndingStage
<1> QED
  BY <1>1, <1>2, ForgetIs, ClosePopIs

LEMMA EndingWorld ==
    ASSUME Typed, Closing,
           \/ \E p \in Pods : SessionAges(p) \/ PodCrashes(p)
           \/ BeatAges \/ \E h \in Handles : HostReaps(h)
           \/ UNCHANGED vars
    PROVE  Closing'
<1>1. alive' \subseteq alive /\ address' = address /\ ops' = ops
  BY DEF SessionAges, PodCrashes, BeatAges, HostReaps, host, registry, vars
<1>2. \A b \in Actors : at'[b] \in {at[b], Rest}
  BY TypedWorld
<1>3. ASSUME NEW a \in Actors PROVE Closed(a)' /\ Ending(a)'
  <2>1. CASE at'[a] = Rest
    <3>1. at'[a].pc = "idle" /\ at'[a].op = "none"
      BY <2>1 DEF Rest
    <3> QED
      BY <3>1 DEF Closed, Ending, Sole, Tearing, ClosePcs
  <2>2. CASE at'[a] = at[a]
    <3>1. Closed(a)' /\ (Past(a) => Past(a)') /\ (Tried(a) => Tried(a)') /\ (Sole(a)' => Sole(a))
      BY <1>1, <2>2 DEF Closing, Closed, Past, Tried, Sole, Tearing
    <3> QED
      BY <1>2, <3>1 DEF Closing, Ending
  <2> QED
    BY <1>2, <2>1, <2>2
<1> QED
  BY <1>3 DEF Closing

LEMMA ClosingInit == Init => Closing
<1> SUFFICES ASSUME Init, NEW a \in Actors PROVE Closed(a) /\ Ending(a)
  BY DEF Closing
<1>1. at[a].pc = "idle" /\ at[a].op = "none"
  BY DEF Init, Rest
<1> QED
  BY <1>1 DEF Closed, Ending, Sole, Tearing, ClosePcs

LEMMA ClosingNext == Typed /\ Converged /\ Closing /\ [Next]_vars => Closing'
<1>1. ASSUME Typed, Converged, Closing, NEW a \in Actors, Step(a) PROVE Closing'
  <2>1. \/ Idly(a) \/ Busily(a) \/ CloseBegin(a) \/ CloseTake(a) \/ ClosePublished(a) \/ CloseList(a)
        \/ CloseUnrecorded(a) \/ Teardown(a) \/ CloseKill(a) \/ Forget(a) \/ ClosePop(a)
    BY <1>1 DEF Step, Idly, Busily
  <2>2. Only(a) /\ Closed(a)' /\ Ending(a)'
    BY <1>1, <2>1, EndingElse, EndingBegin, EndingSeeks, EndingTears, EndingEnds
  <2>3. \A b \in Actors \ {a} : Closed(b)' /\ Ending(b)'
    BY <1>1, <2>2, EndingOther
  <2> QED
    BY <2>2, <2>3 DEF Closing
<1> QED
  BY <1>1, EndingWorld DEF Next

\* A close that pops at the end of a search nothing ran beside has left the
\* published sandbox dead.
LEMMA PopEnds ==
    Closing => \A a \in Actors : ClosePop(a) /\ at[a].write = ops => address \notin alive
<1> SUFFICES ASSUME Closing, NEW a \in Actors, ClosePop(a), at[a].write = ops PROVE address \notin alive
  OBVIOUS
<1>1. at[a].pc = "pop"
  BY DEF ClosePop
<1>2. at[a].op = "close"
  BY <1>1 DEF Closing, Closed, ClosePcs
<1> QED
  BY <1>1, <1>2 DEF Closing, Ending, Sole, Past

\* A close that nothing else runs beside leaves no published sandbox alive,
\* whatever handle the pod it runs on had cached and whichever host replica
\* answered its listing.
THEOREM CloseEndsThePublishedHolds == Spec => CloseEndsThePublished
<1>1. Typed /\ Converged /\ Closing
      => [\A a \in Actors : ClosePop(a) /\ at[a].write = ops => address \notin alive]_vars
  BY PopEnds
<1> QED
  BY <1>1, TypedInit, TypedNext, ConvergedInit, ConvergedNext, ClosingInit, ClosingNext, PTL
     DEF Spec, CloseEndsThePublished
=============================================================================

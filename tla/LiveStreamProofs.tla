-------------------------- MODULE LiveStreamProofs --------------------------
(***************************************************************************)
(* Proofs about LiveStream, for any pods, viewers, ring and bounds.         *)
(***************************************************************************)
EXTENDS LiveStream, TLAPS, FiniteSetTheorems, SequenceTheorems

-----------------------------------------------------------------------------
(* The inductive invariant                                                  *)

\* A ring holds the newest numbers of its session, without a gap, and events
\* that were published.
RingOf(p) ==
  /\ Len(session[p].ring) <= session[p].seq
  /\ \A i \in 1 .. Len(session[p].ring) :
       /\ session[p].ring[i].seq = session[p].seq - Len(session[p].ring) + i
       /\ session[p].ring[i].id \in 1 .. published

\* What a pod has numbered is no longer on its way to it, and nothing is on its
\* way twice.
OnceOf(p) ==
  /\ \A i, j \in 1 .. Len(session[p].ring) : session[p].ring[i].id = session[p].ring[j].id => i = j
  /\ \A i, j \in 1 .. Len(bus[p]) : bus[p][i] = bus[p][j] => i = j
  /\ \A i \in 1 .. Len(bus[p]) : bus[p][i] \in 1 .. published
  /\ \A i \in 1 .. Len(bus[p]), j \in 1 .. Len(session[p].ring) : bus[p][i] # session[p].ring[j].id

\* A session a viewer knows of is not one of the future.
LivesOf(v) ==
  /\ viewer[v].home # <<>> => viewer[v].home[2] <= session[viewer[v].home[1]].life
  /\ viewer[v].loyal /\ viewer[v].on # Away => viewer[v].home = <<viewer[v].on.pod, viewer[v].on.life>>
  /\ viewer[v].on.pod \in Pods => viewer[v].on.life <= session[viewer[v].on.pod].life
  /\ viewer[v].on.pod = None => viewer[v].on = Away
  /\ viewer[v].home = <<>> => due[v] = {} /\ viewer[v].max = 0 /\ viewer[v].on = Away
  /\ due[v] \subseteq 1 .. published

\* The response of a viewer that only ever was at this session: numbers ascend
\* beyond the highest the viewer has seen, and what the ring has of the events
\* due to it is drawn, or in the response, or will be replayed.
HomeOf(v, p) ==
  /\ viewer[v].max <= session[p].seq
  /\ viewer[v].on # Away => viewer[v].on.pod = p /\ viewer[v].on.life = session[p].life
  /\ \A i \in 1 .. Len(session[p].ring) :
       LET entry == session[p].ring[i] IN
       entry.id \in due[v] /\ entry.id \notin viewer[v].all =>
         /\ entry.seq > viewer[v].max
         /\ viewer[v].on # Away =>
              \E j \in 1 .. Len(viewer[v].on.frames) : viewer[v].on.frames[j] = entry
  /\ \A j \in 1 .. Len(viewer[v].on.frames) :
       LET frame == viewer[v].on.frames[j] IN
       frame # Close =>
         /\ frame.seq > viewer[v].max /\ frame.seq <= session[p].seq
         /\ \A k \in 1 .. Len(viewer[v].on.frames) :
              k > j /\ viewer[v].on.frames[k] # Close => viewer[v].on.frames[k].seq > frame.seq

AtHome(v, p) == viewer[v].loyal /\ viewer[v].home = <<p, session[p].life>>

Inv ==
  /\ TypeOK
  /\ \A p \in Pods : RingOf(p) /\ OnceOf(p)
  /\ \A v \in Viewers : LivesOf(v)
  /\ \A v \in Viewers, p \in Pods : AtHome(v, p) => HomeOf(v, p)

-----------------------------------------------------------------------------
(* Bounded buffers                                                          *)

\* r is what is left of s when its first d elements are dropped.
Tails(r, s) ==
  \E d \in Nat : Len(r) = Len(s) - d /\ \A i \in 1 .. Len(s) - d : r[i] = s[i + d]

\* The newest n of a sequence.
LEMMA LastProperties ==
  ASSUME NEW S, NEW s \in Seq(S), NEW n \in Nat
  PROVE  /\ Last(s, n) \in Seq(S)
         /\ Len(s) <= n => Last(s, n) = s
         /\ Len(Last(s, n)) = IF Len(s) <= n THEN Len(s) ELSE n
         /\ Tails(Last(s, n), s)
<1>1. CASE Len(s) <= n
  <2>1. Last(s, n) = s
    BY <1>1 DEF Last
  <2>2. 0 \in Nat /\ Len(s) = Len(s) - 0 /\ \A i \in 1 .. Len(s) - 0 : s[i] = s[i + 0]
    OBVIOUS
  <2> QED
    BY <1>1, <2>1, <2>2 DEF Tails
<1>2. CASE Len(s) > n
  <2> DEFINE d == Len(s) - n
  <2>1. Last(s, n) = SubSeq(s, d + 1, Len(s))
    BY <1>2 DEF Last
  <2>2. d \in Nat /\ Len(s) \in Nat /\ d + 1 \in 1 .. Len(s) + 1 /\ n = Len(s) - d
    BY <1>2
  <2>3. /\ Last(s, n) \in Seq(S) /\ Len(Last(s, n)) = n
        /\ \A i \in 1 .. n : Last(s, n)[i] = s[i + d]
    BY <2>1, <2>2, SubSeqProperties
  <2> HIDE DEF d
  <2>4. Len(Last(s, n)) = Len(s) - d /\ \A i \in 1 .. Len(s) - d : Last(s, n)[i] = s[i + d]
    BY <2>2, <2>3
  <2>5. Tails(Last(s, n), s)
    BY <2>2, <2>4 DEF Tails
  <2>6. ~(Len(s) <= n)
    BY <1>2, <2>2
  <2> QED
    BY <2>3, <2>5, <2>6
<1> QED
  BY <1>1, <1>2

-----------------------------------------------------------------------------
(* Types                                                                    *)

Sessions == [life : Nat, seq : Nat, ring : Seq(Frames), subs : SUBSET Viewers]
Connections == [pod : Pods \cup {None}, life : Nat, frames : Seq(Frames)]
Watchers == [on : Connections, home : {<<>>} \cup (Pods \X Nat), loyal : BOOLEAN, max : Nat,
             seen : Seq(Nat), all : SUBSET Nat]

\* The parts of TypeOK, one per variable.
LEMMA Typed ==
  ASSUME TypeOK
  PROVE  /\ published \in 0 .. MaxEvents /\ session \in [Pods -> Sessions]
         /\ listed \in [Pods -> BOOLEAN] /\ bus \in [Pods -> Seq(Events)]
         /\ viewer \in [Viewers -> Watchers] /\ due \in [Viewers -> SUBSET Events]
         /\ count \in [drops : Nat, forgets : Nat, losses : Nat]
BY DEF TypeOK, Sessions, Connections, Watchers

LEMMA NumberedType ==
  ASSUME NEW s \in Sessions, NEW e \in Nat
  PROVE  /\ Numbered(s, e) \in Sessions
         /\ Numbered(s, e).life = s.life /\ Numbered(s, e).seq = s.seq + 1
         /\ Numbered(s, e).subs = s.subs
         /\ Numbered(s, e).ring = Last(Append(s.ring, [seq |-> s.seq + 1, id |-> e]), Ring)
<1>1. Append(s.ring, [seq |-> s.seq + 1, id |-> e]) \in Seq(Frames)
  BY DEF Sessions, Frames
<1>2. Last(Append(s.ring, [seq |-> s.seq + 1, id |-> e]), Ring) \in Seq(Frames)
  BY <1>1, LastProperties, StreamAssumption
<1> QED
  BY <1>2 DEF Sessions, Numbered

LEMMA FanoutType ==
  ASSUME TypeOK, NEW p \in Pods, NEW e \in Events, Fanout(p, session[p], e)
  PROVE  /\ session' \in [Pods -> Sessions] /\ viewer' \in [Viewers -> Watchers]
         /\ due' \in [Viewers -> SUBSET Events]
         /\ session'[p] = Numbered(session[p], e)
         /\ \A q \in Pods \ {p} : session'[q] = session[q]
<1>1. session[p] \in Sessions /\ e \in Nat
  BY Typed DEF Events
<1>2. session' \in [Pods -> Sessions] /\ session'[p] = Numbered(session[p], e)
      /\ \A q \in Pods \ {p} : session'[q] = session[q]
  BY <1>1, Typed, NumberedType DEF Fanout
<1>3. ASSUME NEW v \in Viewers
      PROVE  [viewer[v] EXCEPT !.on.frames = Append(@, [seq |-> session[p].seq + 1, id |-> e])] \in Watchers
  <2>1. viewer[v] \in Watchers
    BY Typed
  <2>2. Append(viewer[v].on.frames, [seq |-> session[p].seq + 1, id |-> e]) \in Seq(Frames)
    BY <1>1, <2>1 DEF Watchers, Connections, Sessions, Frames
  <2> QED
    BY <2>1, <2>2 DEF Watchers, Connections
<1>4. viewer' \in [Viewers -> Watchers]
  BY <1>3, Typed DEF Fanout
<1>5. due' \in [Viewers -> SUBSET Events]
  BY Typed DEF Fanout
<1> QED
  BY <1>2, <1>4, <1>5

-----------------------------------------------------------------------------
(* The session numbers an event                                             *)

\* The ring of the next number: the new entry last, the newest of the older ones
\* before it.
LEMMA NumberedRing ==
  ASSUME TypeOK, NEW p \in Pods, NEW e \in Events, Fanout(p, session[p], e)
  PROVE  /\ session'[p].seq = session[p].seq + 1
         /\ session'[p].life = session[p].life
         /\ session'[p].subs = session[p].subs
         /\ session'[p].ring \in Seq(Frames)
         /\ \E d \in Nat :
              /\ Len(session'[p].ring) = Len(session[p].ring) + 1 - d
              /\ \A i \in 1 .. Len(session[p].ring) + 1 - d :
                   session'[p].ring[i] = IF i + d = Len(session[p].ring) + 1
                                         THEN [seq |-> session[p].seq + 1, id |-> e]
                                         ELSE session[p].ring[i + d]
<1> DEFINE new == [seq |-> session[p].seq + 1, id |-> e]
           ring == session[p].ring
           grown == Append(ring, new)
<1>1. session[p] \in Sessions /\ e \in Nat /\ ring \in Seq(Frames) /\ session[p].seq \in Nat
  BY Typed DEF Events, Sessions
<1>2. /\ session'[p].seq = session[p].seq + 1 /\ session'[p].life = session[p].life
      /\ session'[p].subs = session[p].subs /\ session'[p].ring = Last(grown, Ring)
  BY <1>1, FanoutType, NumberedType
<1>3. new \in Frames
  BY <1>1 DEF Frames
<1> HIDE DEF new
<1>4. /\ grown \in Seq(Frames) /\ Len(grown) = Len(ring) + 1
      /\ \A k \in 1 .. Len(ring) + 1 : grown[k] = IF k = Len(ring) + 1 THEN new ELSE ring[k]
  BY <1>1, <1>3
<1> HIDE DEF grown
<1>a. Ring \in Nat
  BY StreamAssumption
<1>5. session'[p].ring \in Seq(Frames)
  BY <1>2, <1>4, <1>a, LastProperties
<1>b. PICK d \in Nat : /\ Len(session'[p].ring) = Len(grown) - d
                       /\ \A i \in 1 .. Len(grown) - d : session'[p].ring[i] = grown[i + d]
  <2>1. Tails(session'[p].ring, grown)
    BY <1>2, <1>4, <1>a, LastProperties
  <2> QED
    BY <2>1 DEF Tails
<1>6. /\ Len(session'[p].ring) = Len(ring) + 1 - d
      /\ \A i \in 1 .. Len(ring) + 1 - d : session'[p].ring[i] = grown[i + d]
  BY <1>4, <1>b
<1>7. Len(ring) \in Nat
  BY <1>1
<1>8. \A i \in 1 .. Len(ring) + 1 - d : i + d \in 1 .. Len(ring) + 1
  BY <1>7
<1>9. \A i \in 1 .. Len(ring) + 1 - d :
         session'[p].ring[i] = IF i + d = Len(ring) + 1 THEN new ELSE ring[i + d]
  <2> SUFFICES ASSUME NEW i \in 1 .. Len(ring) + 1 - d
               PROVE  session'[p].ring[i] = IF i + d = Len(ring) + 1 THEN new ELSE ring[i + d]
    OBVIOUS
  <2> DEFINE k == i + d
  <2>1. k \in 1 .. Len(ring) + 1 /\ session'[p].ring[i] = grown[k]
    BY <1>6, <1>8
  <2> HIDE DEF k
  <2>2. session'[p].ring[i] = IF k = Len(ring) + 1 THEN new ELSE ring[k]
    BY <1>4, <2>1
  <2> QED
    BY <2>2 DEF k
<1> QED
  BY <1>2, <1>5, <1>6, <1>9 DEF new

\* The entries of the ring after an event: the new one, and older ones.
LEMMA Entries ==
  ASSUME TypeOK, NEW p \in Pods, NEW e \in Events, Fanout(p, session[p], e), RingOf(p)
  PROVE  \E d \in Nat :
           /\ Len(session'[p].ring) = Len(session[p].ring) + 1 - d
           /\ Len(session'[p].ring) \in Nat /\ Len(session[p].ring) \in Nat
           /\ \A i \in 1 .. Len(session'[p].ring) :
                /\ session'[p].ring[i].seq = session'[p].seq - Len(session'[p].ring) + i
                /\ \/ /\ i + d = Len(session[p].ring) + 1 /\ i = Len(session'[p].ring)
                      /\ session'[p].ring[i] = [seq |-> session[p].seq + 1, id |-> e]
                   \/ /\ i + d \in 1 .. Len(session[p].ring)
                      /\ session'[p].ring[i] = session[p].ring[i + d]
<1> DEFINE new == [seq |-> session[p].seq + 1, id |-> e]
           ring == session[p].ring
           next == session'[p].ring
<1>1. /\ Len(ring) \in Nat /\ Len(next) \in Nat
      /\ session[p].seq \in Nat /\ session'[p].seq = session[p].seq + 1
  <2>1. ring \in Seq(Frames) /\ session[p].seq \in Nat
    BY Typed DEF Sessions
  <2>2. next \in Seq(Frames) /\ session'[p].seq = session[p].seq + 1
    BY NumberedRing
  <2> HIDE DEF next, ring
  <2> QED
    BY <2>1, <2>2
<1>2. PICK d \in Nat :
         /\ Len(next) = Len(ring) + 1 - d
         /\ \A i \in 1 .. Len(ring) + 1 - d : next[i] = IF i + d = Len(ring) + 1 THEN new ELSE ring[i + d]
  BY NumberedRing
<1>3. new.seq = session[p].seq + 1
  OBVIOUS
<1>4. \A k \in 1 .. Len(ring) : ring[k].seq = session[p].seq - Len(ring) + k
  BY DEF RingOf
<1> HIDE DEF new, ring, next
<1>5. ASSUME NEW i \in 1 .. Len(next)
      PROVE  \/ i + d = Len(ring) + 1 /\ i = Len(next) /\ next[i] = new
             \/ i + d \in 1 .. Len(ring) /\ next[i] = ring[i + d]
  BY <1>1, <1>2
<1>6. ASSUME NEW i \in 1 .. Len(next)
      PROVE  next[i].seq = session'[p].seq - Len(next) + i
  <2>1. CASE i + d = Len(ring) + 1 /\ i = Len(next) /\ next[i] = new
    BY <1>1, <1>3, <2>1
  <2>2. CASE i + d \in 1 .. Len(ring) /\ next[i] = ring[i + d]
    BY <1>1, <1>2, <1>4, <2>2
  <2> QED
    BY <1>5, <2>1, <2>2
<1> QED
  BY <1>1, <1>2, <1>5, <1>6 DEF new, ring, next

\* A ring that takes an event it does not have keeps the order, and stays without
\* repeats.
LEMMA RingAfter ==
  ASSUME TypeOK, TypeOK', NEW p \in Pods, RingOf(p), OnceOf(p), NEW e \in Events,
         Fanout(p, session[p], e), published <= published', e <= published',
         \A i \in 1 .. Len(session[p].ring) : session[p].ring[i].id # e
  PROVE  /\ RingOf(p)'
         /\ \A i, j \in 1 .. Len(session'[p].ring) :
              session'[p].ring[i].id = session'[p].ring[j].id => i = j
         /\ \A i \in 1 .. Len(session'[p].ring) :
              \/ session'[p].ring[i].id = e
              \/ \E k \in 1 .. Len(session[p].ring) : session'[p].ring[i] = session[p].ring[k]
<1> DEFINE new == [seq |-> session[p].seq + 1, id |-> e]
           ring == session[p].ring
           next == session'[p].ring
<1>1. PICK d \in Nat :
           /\ Len(next) = Len(ring) + 1 - d
           /\ Len(next) \in Nat /\ Len(ring) \in Nat
           /\ \A i \in 1 .. Len(next) :
                /\ next[i].seq = session'[p].seq - Len(next) + i
                /\ \/ i + d = Len(ring) + 1 /\ i = Len(next) /\ next[i] = new
                   \/ i + d \in 1 .. Len(ring) /\ next[i] = ring[i + d]
  BY Entries
<1>2. new.id = e
  OBVIOUS
<1>0. published <= published'
  OBVIOUS
<1>3. session[p].seq \in Nat /\ session'[p].seq = session[p].seq + 1
  BY Typed, NumberedRing DEF Sessions
<1>4. published \in Nat /\ published' \in Nat /\ e \in 1 .. published'
  BY DEF TypeOK, Events
<1>5. /\ Len(ring) <= session[p].seq
      /\ \A k \in 1 .. Len(ring) : ring[k].id \in 1 .. published /\ ring[k].id # e
      /\ \A k, l \in 1 .. Len(ring) : ring[k].id = ring[l].id => k = l
  BY DEF RingOf, OnceOf
<1> HIDE DEF new, ring, next
<1>6. ASSUME NEW i \in 1 .. Len(next), NEW j \in 1 .. Len(next), next[i].id = next[j].id
      PROVE  i = j
  <2>1. CASE next[i] = new /\ next[j] = new /\ i = Len(next) /\ j = Len(next)
    BY <2>1
  <2>2. CASE \E k \in 1 .. Len(ring) : k = i + d /\ next[i] = ring[k] /\ next[j] = new
    BY <1>2, <1>5, <1>6, <2>2
  <2>3. CASE \E k \in 1 .. Len(ring) : k = j + d /\ next[j] = ring[k] /\ next[i] = new
    BY <1>2, <1>5, <1>6, <2>3
  <2>4. CASE \E k, l \in 1 .. Len(ring) : k = i + d /\ l = j + d /\ next[i] = ring[k] /\ next[j] = ring[l]
    <3>1. PICK k \in 1 .. Len(ring), l \in 1 .. Len(ring) :
            k = i + d /\ l = j + d /\ next[i] = ring[k] /\ next[j] = ring[l]
      BY <2>4
    <3>2. k = l
      BY <1>5, <1>6, <3>1
    <3> QED
      BY <1>1, <3>1, <3>2
  <2> QED
    BY <1>1, <2>1, <2>2, <2>3, <2>4
<1>7. ASSUME NEW i \in 1 .. Len(next) PROVE next[i].id \in 1 .. published'
  <2>1. CASE next[i] = new
    BY <1>2, <1>4, <2>1
  <2>2. CASE \E k \in 1 .. Len(ring) : next[i] = ring[k]
    BY <1>0, <1>4, <1>5, <2>2
  <2> QED
    BY <1>1, <2>1, <2>2
<1>8. Len(next) <= session'[p].seq
  BY <1>1, <1>3, <1>5
<1>9. RingOf(p)'
  BY <1>1, <1>7, <1>8 DEF RingOf, next
<1> QED
  BY <1>1, <1>2, <1>6, <1>9 DEF next, ring

\* What the event changes for a viewer: its response, if it is attached, and what
\* is due to it, if the session is its first.
LEMMA FanoutViewer ==
  ASSUME TypeOK, NEW p \in Pods, NEW e \in Events, Fanout(p, session[p], e), NEW v \in Viewers
  PROVE  /\ viewer'[v].home = viewer[v].home /\ viewer'[v].loyal = viewer[v].loyal
         /\ viewer'[v].max = viewer[v].max /\ viewer'[v].all = viewer[v].all
         /\ viewer'[v].seen = viewer[v].seen
         /\ viewer'[v].on.pod = viewer[v].on.pod /\ viewer'[v].on.life = viewer[v].on.life
         /\ IF viewer[v].on.pod = p /\ viewer[v].on.life = session[p].life /\ listed[p]
            THEN viewer'[v].on.frames
                   = Append(viewer[v].on.frames, [seq |-> session[p].seq + 1, id |-> e])
            ELSE viewer'[v] = viewer[v]
         /\ due'[v] = IF viewer[v].home = <<p, session[p].life>> /\ listed[p]
                      THEN due[v] \cup {e} ELSE due[v]
<1>1. viewer[v] \in Watchers
  BY Typed
<1>2. due'[v] = IF viewer[v].home = <<p, session[p].life>> /\ listed[p]
                THEN due[v] \cup {e} ELSE due[v]
  BY DEF Fanout
<1>3. CASE viewer[v].on.pod = p /\ viewer[v].on.life = session[p].life /\ listed[p]
  <2> DEFINE fr == Append(viewer[v].on.frames, [seq |-> session[p].seq + 1, id |-> e])
  <2>1. viewer'[v] = [viewer[v] EXCEPT !.on.frames = fr]
    BY <1>3 DEF Fanout, Attached
  <2> HIDE DEF fr
  <2>2. /\ viewer'[v].home = viewer[v].home /\ viewer'[v].loyal = viewer[v].loyal
        /\ viewer'[v].max = viewer[v].max /\ viewer'[v].all = viewer[v].all
        /\ viewer'[v].seen = viewer[v].seen
        /\ viewer'[v].on.pod = viewer[v].on.pod /\ viewer'[v].on.life = viewer[v].on.life
        /\ viewer'[v].on.frames = fr
    BY <1>1, <2>1 DEF Watchers, Connections
  <2> QED
    BY <1>2, <1>3, <2>2 DEF fr
<1>4. CASE ~(viewer[v].on.pod = p /\ viewer[v].on.life = session[p].life /\ listed[p])
  <2>1. viewer'[v] = viewer[v]
    BY <1>4 DEF Fanout, Attached
  <2> QED
    BY <1>2, <1>4, <2>1
<1> QED
  BY <1>3, <1>4

\* A connection that is away has no pod, and one that has a pod is not.
LEMMA AwayOrNot ==
  ASSUME TypeOK, NEW v \in Viewers, LivesOf(v)
  PROVE  viewer[v].on = Away <=> viewer[v].on.pod \notin Pods
BY StreamAssumption, Typed DEF Away, LivesOf, Watchers, Connections

\* An event leaves what is known of a viewer's sessions.
LEMMA FanoutLives ==
  ASSUME TypeOK, TypeOK', NEW p \in Pods, NEW e \in Events, Fanout(p, session[p], e),
         published <= published', e <= published', NEW v \in Viewers, LivesOf(v)
  PROVE  LivesOf(v)'
<1>1. \A q \in Pods : session'[q].life = session[q].life
  BY FanoutType, NumberedRing
<1>2. /\ viewer'[v].home = viewer[v].home /\ viewer'[v].loyal = viewer[v].loyal
      /\ viewer'[v].max = viewer[v].max
      /\ viewer'[v].on.pod = viewer[v].on.pod /\ viewer'[v].on.life = viewer[v].on.life
      /\ viewer[v].on.pod \notin Pods => viewer'[v] = viewer[v]
  BY FanoutViewer
<1>a. due'[v] = IF viewer[v].home = <<p, session[p].life>> /\ listed[p]
                THEN due[v] \cup {e} ELSE due[v]
  BY FanoutViewer
<1>b. due'[v] \subseteq due[v] \cup {e}
  BY <1>a
<1>c. viewer[v].home = <<>> => due'[v] = due[v]
  BY <1>a
<1>3. viewer'[v].on = Away <=> viewer[v].on = Away
  <2>1. viewer[v].on.pod \in Pods => viewer'[v].on # Away /\ viewer[v].on # Away
    BY <1>2, StreamAssumption DEF Away
  <2> QED
    BY <1>2, <2>1, AwayOrNot
<1>4. viewer[v].home # <<>> => viewer[v].home[1] \in Pods
  BY Typed DEF Watchers
<1>5. due'[v] \subseteq 1 .. published'
  <2>1. /\ published \in Nat /\ published' \in Nat /\ published <= published' /\ e \in 1 .. published'
        /\ due[v] \subseteq 1 .. published
    BY DEF LivesOf, TypeOK, Events
  <2> QED
    BY <1>b, <2>1
<1>6. viewer'[v].on.pod = None => viewer'[v].on = Away
  BY <1>2, <1>3 DEF LivesOf
<1> QED
  BY <1>1, <1>2, <1>c, <1>3, <1>4, <1>5, <1>6 DEF LivesOf

\* An event keeps the response of a viewer at home whole and in order.
LEMMA FanoutHome ==
  ASSUME Inv, TypeOK', NEW p \in Pods, NEW e \in Events, Fanout(p, session[p], e),
         NEW v \in Viewers, listed[p] \/ e \notin due[v],
         \A i \in 1 .. Len(session[p].ring) : session[p].ring[i].id # e,
         NEW q \in Pods, AtHome(v, q)'
  PROVE  HomeOf(v, q)'
<1> DEFINE new == [seq |-> session[p].seq + 1, id |-> e]
<1>1. TypeOK /\ LivesOf(v) /\ RingOf(p)
  BY DEF Inv
<1>a. /\ viewer'[v].home = viewer[v].home /\ viewer'[v].loyal = viewer[v].loyal
      /\ viewer[v].on.pod \notin Pods => viewer'[v] = viewer[v]
      /\ viewer'[v].on.pod = viewer[v].on.pod
  BY <1>1, FanoutViewer
<1>b. session'[q].life = session[q].life
  BY <1>1, FanoutType, NumberedRing
<1>2. AtHome(v, q)
  BY <1>a, <1>b DEF AtHome
<1>3. HomeOf(v, q)
  BY <1>2 DEF Inv
<1>4. /\ viewer'[v].max = viewer[v].max /\ viewer'[v].all = viewer[v].all
      /\ viewer'[v].on.pod = viewer[v].on.pod /\ viewer'[v].on.life = viewer[v].on.life
      /\ viewer[v].loyal /\ viewer[v].home = <<q, session[q].life>>
  BY <1>1, <1>2, FanoutViewer DEF AtHome
<1>5. viewer'[v].on = Away <=> viewer[v].on = Away
  <2>2. viewer[v].on.pod \in Pods => viewer'[v].on # Away /\ viewer[v].on # Away
    BY <1>4, StreamAssumption DEF Away
  <2> QED
    BY <1>1, <1>a, <2>2, AwayOrNot
<1>6. CASE q # p
  <2>0. viewer[v].home # <<p, session[p].life>>
    BY <1>4, <1>6
  <2>1. session'[q] = session[q] /\ due'[v] = due[v]
    <3>1. session'[q] = session[q]
      BY <1>1, <1>6, FanoutType
    <3>2. due'[v] = IF viewer[v].home = <<p, session[p].life>> /\ listed[p]
                    THEN due[v] \cup {e} ELSE due[v]
      BY <1>1, FanoutViewer
    <3> QED
      BY <2>0, <3>1, <3>2
  <2>2. viewer[v].on.pod # p
    <3>1. viewer[v].on # Away => viewer[v].on.pod = q
      BY <1>3 DEF HomeOf
    <3>2. viewer[v].on = Away => viewer[v].on.pod \notin Pods
      BY <1>1, AwayOrNot
    <3> QED
      BY <1>6, <3>1, <3>2
  <2>3. viewer'[v] = viewer[v]
    BY <1>1, <2>2, FanoutViewer
  <2> QED
    BY <1>3, <2>1, <2>3 DEF HomeOf
<1>7. CASE q = p
  <2> DEFINE ring == session[p].ring
             next == session'[p].ring
             old == viewer[v].on.frames
             frames == viewer'[v].on.frames
  <2>1. /\ session[p].seq \in Nat /\ session'[p].seq = session[p].seq + 1
        /\ session'[p].life = session[p].life /\ ring \in Seq(Frames) /\ next \in Seq(Frames)
    BY <1>1, Typed, NumberedRing DEF Sessions
  <2>2. viewer[v].max \in Nat /\ viewer[v].max <= session[p].seq /\ old \in Seq(Frames)
    BY <1>1, <1>3, <1>7, Typed DEF HomeOf, Watchers, Connections
  <2>3. \A i \in 1 .. Len(next) : next[i] = new \/ \E k \in 1 .. Len(ring) : next[i] = ring[k]
    BY <1>1, Entries
  <2>4. viewer[v].on # Away => viewer[v].on.pod = p /\ viewer[v].on.life = session[p].life
    BY <1>3, <1>7 DEF HomeOf
  <2>5. /\ new \in Frames /\ new.seq = session[p].seq + 1 /\ new.id = e /\ new # Close
    BY <2>1 DEF Frames, Events, Close
  <2>6. /\ listed[p] => due'[v] = due[v] \cup {e}
        /\ ~listed[p] => due'[v] = due[v] /\ e \notin due[v] /\ frames = old
        /\ listed[p] /\ viewer[v].on # Away => frames = Append(old, new)
        /\ viewer[v].on = Away => viewer'[v] = viewer[v]
    <3>1. due'[v] = IF listed[p] THEN due[v] \cup {e} ELSE due[v]
      <4>1. due'[v] = IF viewer[v].home = <<p, session[p].life>> /\ listed[p]
                      THEN due[v] \cup {e} ELSE due[v]
        BY <1>1, FanoutViewer
      <4> QED
        BY <1>4, <1>7, <4>1
    <3>2. IF viewer[v].on.pod = p /\ viewer[v].on.life = session[p].life /\ listed[p]
          THEN frames = Append(old, new) ELSE viewer'[v] = viewer[v]
      <4>1. CASE viewer[v].on.pod = p /\ viewer[v].on.life = session[p].life /\ listed[p]
        BY <1>1, <4>1, FanoutViewer, Zenon
      <4>2. CASE ~(viewer[v].on.pod = p /\ viewer[v].on.life = session[p].life /\ listed[p])
        BY <1>1, <4>2, FanoutViewer, Zenon
      <4> QED
        BY <4>1, <4>2, Zenon
    <3>3. viewer[v].on = Away => viewer'[v] = viewer[v]
      BY <1>1, <1>a, AwayOrNot
    <3> HIDE DEF new
    <3> QED
      BY <2>4, <3>1, <3>2, <3>3
  <2>7. viewer'[v].max <= session'[p].seq
    BY <1>4, <2>1, <2>2
  <2>8. viewer'[v].on # Away => viewer'[v].on.pod = p /\ viewer'[v].on.life = session'[p].life
    BY <1>4, <1>5, <2>1, <2>4
  <2> HIDE DEF new, ring, next, old, frames
  <2>9. ASSUME NEW i \in 1 .. Len(next), next[i].id \in due'[v], next[i].id \notin viewer'[v].all
        PROVE  /\ next[i].seq > viewer'[v].max
               /\ viewer'[v].on # Away => \E j \in 1 .. Len(frames) : frames[j] = next[i]
    <3>1. CASE next[i] = new
      <4>1. listed[p]
        BY <2>5, <2>6, <2>9, <3>1
      <4>2. viewer'[v].on # Away => frames[Len(old) + 1] = new /\ Len(old) + 1 \in 1 .. Len(frames)
        BY <1>5, <2>2, <2>5, <2>6, <4>1
      <4> QED
        BY <1>4, <2>1, <2>2, <2>5, <3>1, <4>2
    <3>2. CASE next[i] # new
      <4>1. PICK k \in 1 .. Len(ring) : next[i] = ring[k]
        BY <2>3, <3>2
      <4>2. CASE ring[k].id \in due[v]
        <5>1. /\ ring[k].seq > viewer[v].max
              /\ viewer[v].on # Away => \E j \in 1 .. Len(old) : old[j] = ring[k]
          BY <1>3, <1>4, <1>7, <2>9, <4>1, <4>2 DEF HomeOf, ring, old
        <5>2. viewer[v].on # Away => \E j \in 1 .. Len(frames) : frames[j] = ring[k]
          BY <2>2, <2>5, <2>6, <5>1
        <5> QED
          BY <1>4, <1>5, <4>1, <5>1, <5>2
      <4>3. CASE ring[k].id \notin due[v]
        <5>1. ring[k].id # e
          BY DEF ring
        <5> QED
          BY <2>6, <2>9, <4>1, <4>3, <5>1
      <4> QED
        BY <4>2, <4>3
    <3> QED
      BY <3>1, <3>2
  <2>10. ASSUME NEW j \in 1 .. Len(frames), frames[j] # Close
         PROVE  /\ frames[j].seq > viewer'[v].max /\ frames[j].seq <= session'[p].seq
                /\ \A k \in 1 .. Len(frames) : k > j /\ frames[k] # Close => frames[k].seq > frames[j].seq
    <3>1. \A i \in 1 .. Len(old) : old[i] # Close =>
            /\ old[i].seq \in Nat /\ old[i].seq > viewer[v].max /\ old[i].seq <= session[p].seq
            /\ \A k \in 1 .. Len(old) : k > i /\ old[k] # Close => old[k].seq > old[i].seq
      <4>1. \A i \in 1 .. Len(old) : old[i].seq \in Nat
        <5>1. \A i \in 1 .. Len(old) : old[i] \in Frames
          BY <2>2
        <5> QED
          BY <5>1 DEF Frames
      <4>2. \A i \in 1 .. Len(old) : old[i] # Close =>
              /\ old[i].seq > viewer[v].max /\ old[i].seq <= session[p].seq
              /\ \A k \in 1 .. Len(old) : k > i /\ old[k] # Close => old[k].seq > old[i].seq
        BY <1>3, <1>7 DEF HomeOf, old
      <4> QED
        BY <4>1, <4>2
    <3>2. CASE frames = old
      BY <1>4, <2>1, <2>10, <3>1, <3>2
    <3>3. CASE frames = Append(old, new)
      <4>1. /\ Len(frames) = Len(old) + 1 /\ Len(old) \in Nat /\ frames[Len(old) + 1] = new
            /\ \A i \in 1 .. Len(old) : frames[i] = old[i]
        BY <2>2, <2>5, <3>3
      <4>2. CASE j = Len(old) + 1
        BY <1>4, <2>1, <2>2, <2>5, <4>1, <4>2
      <4>3. CASE j \in 1 .. Len(old)
        <5>1. frames[j] = old[j] /\ old[j] # Close
          BY <2>10, <4>1, <4>3
        <5>2. ASSUME NEW k \in 1 .. Len(frames), k > j, frames[k] # Close
              PROVE  frames[k].seq > frames[j].seq
          <6>1. CASE k \in 1 .. Len(old)
            BY <3>1, <4>1, <4>3, <5>1, <5>2, <6>1
          <6>2. CASE k = Len(old) + 1
            BY <2>1, <2>5, <3>1, <4>1, <4>3, <5>1, <6>2
          <6> QED
            BY <4>1, <6>1, <6>2
        <5> QED
          BY <1>4, <2>1, <3>1, <4>3, <5>1, <5>2
      <4> QED
        BY <4>1, <4>2, <4>3
    <3>4. frames = old \/ frames = Append(old, new)
      BY <2>6 DEF frames, old
    <3> QED
      BY <3>2, <3>3, <3>4
  <2> QED
    BY <1>7, <2>7, <2>8, <2>9, <2>10 DEF HomeOf, next, frames
<1> QED
  BY <1>6, <1>7

-----------------------------------------------------------------------------
(* Type correctness                                                         *)

LEMMA TypeFromParts ==
  ASSUME published' \in 0 .. MaxEvents, session' \in [Pods -> Sessions],
         listed' \in [Pods -> BOOLEAN], bus' \in [Pods -> Seq(Events)],
         viewer' \in [Viewers -> Watchers], due' \in [Viewers -> SUBSET Events],
         count' \in [drops : Nat, forgets : Nat, losses : Nat]
  PROVE  TypeOK'
BY DEF TypeOK, Sessions, Connections, Watchers

LEMMA ToBusType ==
  ASSUME TypeOK, NEW p \in Pods, NEW e \in Events, ToBus(p, e)
  PROVE  bus' \in [Pods -> Seq(Events)]
BY Typed DEF ToBus

LEMMA PublishType == ASSUME TypeOK, NEW p \in Pods, Publish(p) PROVE TypeOK'
<1>1. published + 1 \in Events /\ published' \in 0 .. MaxEvents
  BY StreamAssumption, Typed DEF Publish, Events
<1>2. /\ session' \in [Pods -> Sessions] /\ viewer' \in [Viewers -> Watchers]
      /\ due' \in [Viewers -> SUBSET Events]
  BY <1>1, FanoutType DEF Publish
<1>3. bus' \in [Pods -> Seq(Events)]
  BY <1>1, ToBusType DEF Publish
<1>4. listed' \in [Pods -> BOOLEAN] /\ count' \in [drops : Nat, forgets : Nat, losses : Nat]
  BY Typed DEF Publish
<1> QED
  BY <1>1, <1>2, <1>3, <1>4, TypeFromParts

LEMMA PublishUnservedType ==
  ASSUME TypeOK, NEW p \in Pods, PublishUnserved(p) PROVE TypeOK'
<1>1. published + 1 \in Events /\ published' \in 0 .. MaxEvents
  BY StreamAssumption, Typed DEF PublishUnserved, Events
<1>2. bus' \in [Pods -> Seq(Events)]
  BY <1>1, ToBusType DEF PublishUnserved
<1>3. UNCHANGED <<session, listed, viewer, due, count>>
  BY DEF PublishUnserved
<1> QED
  BY <1>1, <1>2, <1>3, Typed, TypeFromParts

LEMMA BusTail ==
  ASSUME TypeOK, NEW p \in Pods, bus[p] # <<>>, bus' = [bus EXCEPT ![p] = Tail(@)]
  PROVE  /\ bus' \in [Pods -> Seq(Events)] /\ Head(bus[p]) \in Events
         /\ \A q \in Pods \ {p} : bus'[q] = bus[q]
         /\ Len(bus[p]) \in Nat /\ Len(bus'[p]) = Len(bus[p]) - 1 /\ Head(bus[p]) = bus[p][1]
         /\ \A i \in 1 .. Len(bus'[p]) : bus'[p][i] = bus[p][i + 1]
<1>1. bus \in [Pods -> Seq(Events)] /\ bus[p] \in Seq(Events)
  BY Typed
<1>2. bus'[p] = Tail(bus[p]) /\ \A q \in Pods \ {p} : bus'[q] = bus[q]
  BY <1>1
<1>3. /\ Tail(bus[p]) \in Seq(Events) /\ Head(bus[p]) \in Events /\ Head(bus[p]) = bus[p][1]
      /\ Len(bus[p]) \in Nat /\ Len(Tail(bus[p])) = Len(bus[p]) - 1
      /\ \A i \in 1 .. Len(bus[p]) - 1 : Tail(bus[p])[i] = bus[p][i + 1]
  BY <1>1
<1>4. bus' \in [Pods -> Seq(Events)]
  BY <1>1, <1>3
<1> QED
  BY <1>2, <1>3, <1>4

LEMMA DeliverType == ASSUME TypeOK, NEW p \in Pods, Deliver(p) PROVE TypeOK'
<1>1. bus' \in [Pods -> Seq(Events)] /\ Head(bus[p]) \in Events
  BY BusTail DEF Deliver
<1>2. /\ session' \in [Pods -> Sessions] /\ viewer' \in [Viewers -> Watchers]
      /\ due' \in [Viewers -> SUBSET Events]
  <2>1. CASE listed[p] /\ session[p].subs # {}
    <3>1. Fanout(p, session[p], Head(bus[p]))
      BY <2>1 DEF Deliver
    <3> QED
      BY <1>1, <3>1, FanoutType
  <2>2. CASE ~(listed[p] /\ session[p].subs # {})
    BY <2>2, Typed DEF Deliver
  <2> QED
    BY <2>1, <2>2
<1>3. UNCHANGED <<published, listed, count>>
  BY DEF Deliver
<1> QED
  BY <1>1, <1>2, <1>3, Typed, TypeFromParts

LEMMA LoseType == ASSUME TypeOK, NEW p \in Pods, Lose(p) PROVE TypeOK'
<1>1. bus' \in [Pods -> Seq(Events)]
  BY BusTail DEF Lose
<1>2. count' \in [drops : Nat, forgets : Nat, losses : Nat]
  <2>1. count' = [count EXCEPT !.losses = @ + 1]
    BY DEF Lose
  <2>2. count \in [drops : Nat, forgets : Nat, losses : Nat]
    BY Typed
  <2> QED
    BY <2>1, <2>2
<1>3. UNCHANGED <<published, session, listed, viewer, due>>
  BY DEF Lose
<1> QED
  BY <1>1, <1>2, <1>3, Typed, TypeFromParts

\* What a session replays: the newest of its ring.
LEMMA ReplayType ==
  ASSUME NEW s \in Sessions, NEW n \in Nat
  PROVE  /\ ReplaySince(s, n) \in Seq(Frames)
         /\ Cardinality({i \in 1 .. Len(s.ring) : Missed(s.ring[i], n)}) \in Nat
<1>1. s.ring \in Seq(Frames) /\ Len(s.ring) \in Nat
  BY DEF Sessions
<1> DEFINE missed == {i \in 1 .. Len(s.ring) : Missed(s.ring[i], n)}
<1>2. IsFiniteSet(1 .. Len(s.ring)) /\ missed \subseteq 1 .. Len(s.ring)
  <2>1. 1 \in Int /\ Len(s.ring) \in Int
    BY <1>1
  <2>2. missed \subseteq 1 .. Len(s.ring)
    OBVIOUS
  <2> HIDE DEF missed
  <2> QED
    BY <2>1, <2>2, FS_Interval
<1>3. Cardinality(missed) \in Nat
  <2> HIDE DEF missed
  <2> QED
    BY <1>2, FS_Subset, FS_CardinalityType
<1> QED
  BY <1>1, <1>3, LastProperties DEF ReplaySince

LEMMA ConnectType ==
  ASSUME TypeOK, NEW v \in Viewers, NEW p \in Pods, Connect(v, p)
  PROVE  /\ TypeOK'
         /\ session'[p].life = session[p].life /\ session'[p].seq = session[p].seq
         /\ session'[p].ring = session[p].ring
         /\ \A q \in Pods \ {p} : session'[q] = session[q]
         /\ \A w \in Viewers \ {v} : viewer'[w] = viewer[w]
         /\ viewer'[v].on = [pod |-> p, life |-> session[p].life,
              frames |-> IF viewer[v].home # <<>> THEN ReplaySince(session[p], viewer[v].max)
                         ELSE <<>>]
         /\ viewer'[v].home = IF viewer[v].home # <<>> THEN viewer[v].home
                              ELSE <<p, session[p].life>>
         /\ viewer'[v].loyal
              = (viewer[v].loyal /\ (viewer[v].home # <<>> => viewer[v].home = <<p, session[p].life>>))
         /\ viewer'[v].max = viewer[v].max /\ viewer'[v].seen = viewer[v].seen
         /\ viewer'[v].all = viewer[v].all
<1> DEFINE conn == [pod |-> p, life |-> session[p].life,
              frames |-> IF viewer[v].home # <<>> THEN ReplaySince(session[p], viewer[v].max)
                         ELSE <<>>]
           home == IF viewer[v].home # <<>> THEN viewer[v].home ELSE <<p, session[p].life>>
           loyal == viewer[v].loyal /\ (viewer[v].home # <<>> => viewer[v].home = <<p, session[p].life>>)
<1>1. session[p] \in Sessions /\ viewer[v] \in Watchers
  BY Typed
<1>2. viewer' = [viewer EXCEPT ![v] = [@ EXCEPT !.on = conn, !.home = home, !.loyal = loyal]]
  BY DEF Connect
<1>3. conn \in Connections
  <2>1. ReplaySince(session[p], viewer[v].max) \in Seq(Frames) /\ <<>> \in Seq(Frames)
    <3>1. viewer[v].max \in Nat
      BY <1>1 DEF Watchers
    <3>2. ReplaySince(session[p], viewer[v].max) \in Seq(Frames)
      BY <1>1, <3>1, ReplayType
    <3> QED
      BY <3>2
  <2> QED
    BY <1>1, <2>1 DEF Connections, Sessions
<1>4. home \in {<<>>} \cup (Pods \X Nat)
  BY <1>1 DEF Watchers, Sessions
<1>5. loyal \in BOOLEAN
  OBVIOUS
<1> HIDE DEF conn, home, loyal
<1>6. [viewer[v] EXCEPT !.on = conn, !.home = home, !.loyal = loyal] \in Watchers
  BY <1>1, <1>3, <1>4, <1>5 DEF Watchers
<1>7. viewer' \in [Viewers -> Watchers]
  BY <1>2, <1>6, Typed
<1>a. /\ viewer'[v] = [viewer[v] EXCEPT !.on = conn, !.home = home, !.loyal = loyal]
      /\ \A w \in Viewers \ {v} : viewer'[w] = viewer[w]
  BY <1>2, Typed
<1>b. /\ viewer'[v].on = conn /\ viewer'[v].home = home /\ viewer'[v].loyal = loyal
      /\ viewer'[v].max = viewer[v].max /\ viewer'[v].seen = viewer[v].seen
      /\ viewer'[v].all = viewer[v].all
  BY <1>1, <1>a DEF Watchers
<1>8. session' = [session EXCEPT ![p].subs = @ \cup {v}]
  BY DEF Connect
<1>c. [session[p] EXCEPT !.subs = @ \cup {v}] \in Sessions
  BY <1>1 DEF Sessions
<1>d. session' \in [Pods -> Sessions]
  BY <1>8, <1>c, Typed
<1>e. /\ session'[p] = [session[p] EXCEPT !.subs = @ \cup {v}]
      /\ \A q \in Pods \ {p} : session'[q] = session[q]
  BY <1>8, Typed
<1>f. /\ session'[p].life = session[p].life /\ session'[p].seq = session[p].seq
      /\ session'[p].ring = session[p].ring
  BY <1>1, <1>e DEF Sessions
<1>9. listed' \in [Pods -> BOOLEAN] /\ UNCHANGED <<published, bus, due, count>>
  BY Typed DEF Connect
<1>g. TypeOK'
  BY <1>7, <1>9, <1>d, Typed, TypeFromParts
<1> QED
  BY <1>a, <1>b, <1>e, <1>f, <1>g DEF conn, home, loyal

LEMMA ReceiveType ==
  ASSUME TypeOK, NEW v \in Viewers, Receive(v)
  PROVE  /\ TypeOK'
         /\ \A w \in Viewers \ {v} : viewer'[w] = viewer[w]
         /\ viewer[v].on.frames \in Seq(Frames) /\ viewer[v].on.frames # <<>>
         /\ viewer'[v].on.pod = viewer[v].on.pod /\ viewer'[v].on.life = viewer[v].on.life
         /\ viewer'[v].on.frames = Tail(viewer[v].on.frames)
         /\ viewer'[v].home = viewer[v].home /\ viewer'[v].loyal = viewer[v].loyal
         /\ viewer'[v].max = IF Head(viewer[v].on.frames).seq > viewer[v].max
                             THEN Head(viewer[v].on.frames).seq ELSE viewer[v].max
         /\ viewer'[v].seen = IF Draws(v)
                              THEN Last(Append(viewer[v].seen, Head(viewer[v].on.frames).id), Remember)
                              ELSE viewer[v].seen
         /\ viewer'[v].all = viewer[v].all \cup {Head(viewer[v].on.frames).id}
<1> DEFINE frame == Head(viewer[v].on.frames)
           rest == Tail(viewer[v].on.frames)
           max == IF frame.seq > viewer[v].max THEN frame.seq ELSE viewer[v].max
           seen == IF Draws(v) THEN Last(Append(viewer[v].seen, frame.id), Remember) ELSE viewer[v].seen
           all == viewer[v].all \cup {frame.id}
<1>1. viewer[v] \in Watchers /\ viewer[v].on \in Connections /\ viewer[v].on.frames \in Seq(Frames)
      /\ viewer[v].on.frames # <<>>
  BY Typed DEF Watchers, Connections, Receive
<1>2. viewer' = [viewer EXCEPT ![v] = [@ EXCEPT !.on.frames = rest, !.max = max, !.seen = seen,
                                                !.all = all]]
  BY DEF Receive
<1>3. frame \in Frames /\ rest \in Seq(Frames)
  BY <1>1
<1>4. max \in Nat /\ all \in SUBSET Nat
  BY <1>1, <1>3 DEF Watchers, Frames
<1>5. seen \in Seq(Nat)
  <2>1. Append(viewer[v].seen, frame.id) \in Seq(Nat) /\ viewer[v].seen \in Seq(Nat)
    BY <1>1, <1>3 DEF Watchers, Frames
  <2> QED
    BY <2>1, LastProperties, StreamAssumption
<1> HIDE DEF frame, rest, max, seen, all
<1>6. [viewer[v] EXCEPT !.on.frames = rest, !.max = max, !.seen = seen, !.all = all] \in Watchers
  BY <1>1, <1>3, <1>4, <1>5 DEF Watchers, Connections
<1>7. viewer' \in [Viewers -> Watchers]
  BY <1>2, <1>6, Typed
<1>8. /\ viewer'[v] = [viewer[v] EXCEPT !.on.frames = rest, !.max = max, !.seen = seen, !.all = all]
      /\ \A w \in Viewers \ {v} : viewer'[w] = viewer[w]
  BY <1>2, Typed
<1>9. /\ viewer'[v].on.pod = viewer[v].on.pod /\ viewer'[v].on.life = viewer[v].on.life
      /\ viewer'[v].on.frames = rest
      /\ viewer'[v].home = viewer[v].home /\ viewer'[v].loyal = viewer[v].loyal
      /\ viewer'[v].max = max /\ viewer'[v].seen = seen /\ viewer'[v].all = all
  BY <1>1, <1>8 DEF Watchers, Connections
<1>10. UNCHANGED <<published, session, listed, bus, due, count>>
  BY DEF Receive
<1>11. TypeOK'
  BY <1>7, <1>10, Typed, TypeFromParts
<1> QED
  BY <1>1, <1>8, <1>9, <1>11 DEF frame, rest, max, seen, all

LEMMA DisconnectedType ==
  ASSUME TypeOK, NEW v \in Viewers, Disconnected(v)
  PROVE  /\ viewer' \in [Viewers -> Watchers]
         /\ \A w \in Viewers \ {v} : viewer'[w] = viewer[w]
         /\ viewer'[v].on = Away
         /\ viewer'[v].home = viewer[v].home /\ viewer'[v].loyal = viewer[v].loyal
         /\ viewer'[v].max = viewer[v].max /\ viewer'[v].seen = viewer[v].seen
         /\ viewer'[v].all = viewer[v].all
<1>1. viewer[v] \in Watchers
  BY Typed
<1>2. Away \in Connections
  BY DEF Away, Connections
<1>3. viewer' = [viewer EXCEPT ![v] = [@ EXCEPT !.on = Away]]
  BY DEF Disconnected
<1>4. [viewer[v] EXCEPT !.on = Away] \in Watchers
  BY <1>1, <1>2 DEF Watchers
<1>5. /\ viewer' \in [Viewers -> Watchers] /\ viewer'[v] = [viewer[v] EXCEPT !.on = Away]
      /\ \A w \in Viewers \ {v} : viewer'[w] = viewer[w]
  BY <1>3, <1>4, Typed
<1>6. /\ viewer'[v].on = Away
      /\ viewer'[v].home = viewer[v].home /\ viewer'[v].loyal = viewer[v].loyal
      /\ viewer'[v].max = viewer[v].max /\ viewer'[v].seen = viewer[v].seen
      /\ viewer'[v].all = viewer[v].all
  BY <1>1, <1>5 DEF Watchers
<1> QED
  BY <1>5, <1>6

LEMMA DropType == ASSUME TypeOK, NEW v \in Viewers, Drop(v) PROVE TypeOK'
<1>1. viewer' \in [Viewers -> Watchers]
  BY DisconnectedType DEF Drop
<1>2. count' \in [drops : Nat, forgets : Nat, losses : Nat]
  <2>1. count' = [count EXCEPT !.drops = @ + 1]
    BY DEF Drop
  <2>2. count \in [drops : Nat, forgets : Nat, losses : Nat]
    BY Typed
  <2> QED
    BY <2>1, <2>2
<1>3. UNCHANGED <<published, session, listed, bus, due>>
  BY DEF Drop
<1> QED
  BY <1>1, <1>2, <1>3, Typed, TypeFromParts

\* Taking a subscriber off a session leaves its numbers and its ring.
LEMMA EndsType ==
  ASSUME TypeOK, NEW v \in Viewers, Ends(v)
  PROVE  /\ TypeOK'
         /\ \A p \in Pods : /\ session'[p].life = session[p].life
                            /\ session'[p].seq = session[p].seq
                            /\ session'[p].ring = session[p].ring
<1>1. viewer' \in [Viewers -> Watchers]
  BY DisconnectedType DEF Ends
<1>2. ASSUME NEW p \in Pods
      PROVE  /\ session[p] \in Sessions
             /\ [session[p] EXCEPT !.subs = @ \ {v}] \in Sessions
             /\ [session[p] EXCEPT !.subs = @ \ {v}].life = session[p].life
             /\ [session[p] EXCEPT !.subs = @ \ {v}].seq = session[p].seq
             /\ [session[p] EXCEPT !.subs = @ \ {v}].ring = session[p].ring
  BY Typed DEF Sessions
<1>3. session' = [p \in Pods |->
       IF viewer[v].on.pod = p /\ viewer[v].on.life = session[p].life
       THEN [session[p] EXCEPT !.subs = @ \ {v}] ELSE session[p]]
  BY DEF Ends
<1>4. session' \in [Pods -> Sessions]
  BY <1>2, <1>3
<1>5. ASSUME NEW p \in Pods
      PROVE  /\ session'[p].life = session[p].life /\ session'[p].seq = session[p].seq
             /\ session'[p].ring = session[p].ring
  <2>1. session'[p] = [session[p] EXCEPT !.subs = @ \ {v}] \/ session'[p] = session[p]
    BY <1>3
  <2> QED
    BY <1>2, <2>1
<1>6. UNCHANGED <<published, listed, bus, due, count>>
  BY DEF Ends
<1>7. TypeOK'
  BY <1>1, <1>4, <1>6, Typed, TypeFromParts
<1> QED
  BY <1>5, <1>7

LEMMA DetachType ==
  ASSUME TypeOK, NEW p \in Pods, NEW v \in Viewers, Detach(p, v)
  PROVE  /\ TypeOK'
         /\ \A q \in Pods : /\ session'[q].life = session[q].life
                            /\ session'[q].seq = session[q].seq
                            /\ session'[q].ring = session[q].ring
<1>1. session' = [session EXCEPT ![p].subs = @ \ {v}]
  BY DEF Detach
<1>2. session[p] \in Sessions /\ [session[p] EXCEPT !.subs = @ \ {v}] \in Sessions
  BY Typed DEF Sessions
<1>3. /\ session' \in [Pods -> Sessions] /\ session'[p] = [session[p] EXCEPT !.subs = @ \ {v}]
      /\ \A q \in Pods \ {p} : session'[q] = session[q]
  BY <1>1, <1>2, Typed
<1>4. /\ session'[p].life = session[p].life /\ session'[p].seq = session[p].seq
      /\ session'[p].ring = session[p].ring
  BY <1>2, <1>3 DEF Sessions
<1>5. UNCHANGED <<published, listed, bus, viewer, due, count>>
  BY DEF Detach
<1>6. TypeOK'
  BY <1>3, <1>5, Typed, TypeFromParts
<1> QED
  BY <1>3, <1>4, <1>6

\* The sentinel is the only thing a response gets.
LEMMA SentCloseType ==
  ASSUME TypeOK, NEW p \in Pods, SentClose(p)
  PROVE  /\ viewer' \in [Viewers -> Watchers]
         /\ \A v \in Viewers :
              /\ viewer'[v].home = viewer[v].home /\ viewer'[v].loyal = viewer[v].loyal
              /\ viewer'[v].max = viewer[v].max /\ viewer'[v].all = viewer[v].all
              /\ viewer'[v].seen = viewer[v].seen
              /\ viewer'[v].on.pod = viewer[v].on.pod /\ viewer'[v].on.life = viewer[v].on.life
              /\ \/ viewer'[v] = viewer[v]
                 \/ /\ viewer[v].on.pod = p
                    /\ viewer'[v].on.frames = Append(viewer[v].on.frames, Close)
<1>1. ASSUME NEW v \in Viewers
      PROVE  LET closed == [viewer[v] EXCEPT !.on.frames = Append(@, Close)]
             IN /\ viewer[v] \in Watchers /\ closed \in Watchers
                /\ closed.home = viewer[v].home /\ closed.loyal = viewer[v].loyal
                /\ closed.max = viewer[v].max /\ closed.all = viewer[v].all
                /\ closed.seen = viewer[v].seen
                /\ closed.on.pod = viewer[v].on.pod /\ closed.on.life = viewer[v].on.life
                /\ closed.on.frames = Append(viewer[v].on.frames, Close)
  <2> DEFINE longer == Append(viewer[v].on.frames, Close)
             closed == [viewer[v] EXCEPT !.on.frames = longer]
  <2>1. viewer[v] \in Watchers
    BY Typed
  <2>2. Close \in Frames
    BY DEF Close, Frames
  <2>3. longer \in Seq(Frames)
    BY <2>1, <2>2 DEF Watchers, Connections
  <2> HIDE DEF longer
  <2>4. /\ closed \in Watchers
        /\ closed.home = viewer[v].home /\ closed.loyal = viewer[v].loyal
        /\ closed.max = viewer[v].max /\ closed.all = viewer[v].all
        /\ closed.seen = viewer[v].seen
        /\ closed.on.pod = viewer[v].on.pod /\ closed.on.life = viewer[v].on.life
        /\ closed.on.frames = longer
    BY <2>1, <2>3 DEF Watchers, Connections
  <2> QED
    BY <2>1, <2>4 DEF longer
<1>2. viewer' = [v \in Viewers |-> IF Closes(p, v)
                                   THEN [viewer[v] EXCEPT !.on.frames = Append(@, Close)]
                                   ELSE viewer[v]]
  BY DEF SentClose
<1>3. viewer' \in [Viewers -> Watchers]
  BY <1>1, <1>2
<1>4. ASSUME NEW v \in Viewers
      PROVE  /\ viewer'[v].home = viewer[v].home /\ viewer'[v].loyal = viewer[v].loyal
             /\ viewer'[v].max = viewer[v].max /\ viewer'[v].all = viewer[v].all
             /\ viewer'[v].seen = viewer[v].seen
             /\ viewer'[v].on.pod = viewer[v].on.pod /\ viewer'[v].on.life = viewer[v].on.life
             /\ \/ viewer'[v] = viewer[v]
                \/ /\ viewer[v].on.pod = p
                   /\ viewer'[v].on.frames = Append(viewer[v].on.frames, Close)
  <2>1. CASE Closes(p, v)
    <3>1. viewer[v].on.pod = p /\ viewer'[v] = [viewer[v] EXCEPT !.on.frames = Append(@, Close)]
      BY <1>2, <2>1 DEF Closes
    <3> QED
      BY <1>1, <3>1
  <2>2. CASE ~Closes(p, v)
    <3>1. viewer'[v] = viewer[v]
      BY <1>2, <2>2
    <3> QED
      BY <3>1
  <2> QED
    BY <2>1, <2>2
<1> QED
  BY <1>3, <1>4

LEMMA CloseStreamsType == ASSUME TypeOK, NEW p \in Pods, CloseStreams(p) PROVE TypeOK'
<1>1. viewer' \in [Viewers -> Watchers]
  BY SentCloseType DEF CloseStreams
<1>2. count' \in [drops : Nat, forgets : Nat, losses : Nat]
  <2>1. count' = [count EXCEPT !.drops = @ + 1]
    BY DEF CloseStreams
  <2>2. count \in [drops : Nat, forgets : Nat, losses : Nat]
    BY Typed
  <2> QED
    BY <2>1, <2>2
<1>3. UNCHANGED <<published, session, listed, bus, due>>
  BY DEF CloseStreams
<1> QED
  BY <1>1, <1>2, <1>3, Typed, TypeFromParts

LEMMA ForgetType ==
  ASSUME TypeOK, NEW p \in Pods, Forget(p)
  PROVE  /\ TypeOK'
         /\ session'[p].ring = <<>> /\ session'[p].seq = 0
         /\ session[p].life \in Nat /\ session'[p].life = session[p].life + 1
         /\ \A q \in Pods \ {p} : session'[q] = session[q]
<1>1. viewer' \in [Viewers -> Watchers]
  BY SentCloseType DEF Forget
<1>2. count' \in [drops : Nat, forgets : Nat, losses : Nat]
  <2>1. count' = [count EXCEPT !.forgets = @ + 1]
    BY DEF Forget
  <2>2. count \in [drops : Nat, forgets : Nat, losses : Nat]
    BY Typed
  <2> QED
    BY <2>1, <2>2
<1>3. session[p].life \in Nat /\ session \in [Pods -> Sessions]
  BY Typed DEF Sessions
<1>4. session' = [session EXCEPT ![p] = Fresh(session[p].life + 1)]
  BY DEF Forget
<1>5. /\ Fresh(session[p].life + 1) \in Sessions /\ Fresh(session[p].life + 1).ring = <<>>
      /\ Fresh(session[p].life + 1).seq = 0 /\ Fresh(session[p].life + 1).life = session[p].life + 1
  BY <1>3 DEF Fresh, Sessions
<1>6. /\ session' \in [Pods -> Sessions] /\ session'[p] = Fresh(session[p].life + 1)
      /\ \A q \in Pods \ {p} : session'[q] = session[q]
  BY <1>3, <1>4, <1>5
<1>7. UNCHANGED <<published, bus, due>> /\ listed' \in [Pods -> BOOLEAN]
  BY Typed DEF Forget
<1>8. TypeOK'
  BY <1>1, <1>2, <1>6, <1>7, Typed, TypeFromParts
<1> QED
  BY <1>3, <1>5, <1>6, <1>8

LEMMA TypeStep == ASSUME TypeOK, [Next]_vars PROVE TypeOK'
<1>1. CASE UNCHANGED vars
  BY <1>1 DEF vars, TypeOK
<1>2. ASSUME NEW p \in Pods,
             Publish(p) \/ PublishUnserved(p) \/ Deliver(p) \/ Lose(p) \/ CloseStreams(p) \/ Forget(p)
      PROVE  TypeOK'
  BY <1>2, PublishType, PublishUnservedType, DeliverType, LoseType, CloseStreamsType, ForgetType
<1>3. ASSUME NEW v \in Viewers, Receive(v) \/ Drop(v) \/ Ends(v) PROVE TypeOK'
  BY <1>3, ReceiveType, DropType, EndsType
<1>4. ASSUME NEW v \in Viewers, NEW p \in Pods, Connect(v, p) \/ Detach(p, v) PROVE TypeOK'
  BY <1>4, ConnectType, DetachType
<1> QED
  BY <1>1, <1>2, <1>3, <1>4 DEF Next

LEMMA TypeInit == Init => TypeOK
<1> SUFFICES ASSUME Init PROVE TypeOK
  OBVIOUS
<1>1. Fresh(0) \in Sessions
  BY DEF Fresh, Sessions
<1>2. NewViewer \in Watchers
  <2>1. Away \in Connections
    BY DEF Away, Connections
  <2>2. <<>> \in Seq(Nat)
    OBVIOUS
  <2> QED
    BY <2>1, <2>2 DEF NewViewer, Watchers
<1>3. /\ session \in [Pods -> Sessions] /\ viewer \in [Viewers -> Watchers]
  BY <1>1, <1>2 DEF Init
<1>4. published \in 0 .. MaxEvents
  BY StreamAssumption DEF Init
<1>5. /\ listed \in [Pods -> BOOLEAN] /\ bus \in [Pods -> Seq(Events)]
      /\ due \in [Viewers -> SUBSET Events] /\ count \in [drops : Nat, forgets : Nat, losses : Nat]
  BY DEF Init
<1> QED
  BY <1>3, <1>4, <1>5 DEF TypeOK, Sessions, Watchers, Connections

\* Every variable has its type, in every reachable state.
THEOREM TypeCorrect == Spec => []TypeOK
<1>1. TypeOK /\ [Next]_vars => TypeOK'
  BY TypeStep
<1> QED
  BY <1>1, TypeInit, PTL DEF Spec

-----------------------------------------------------------------------------
(* What a step leaves alone                                                 *)

LEMMA SameLives ==
  ASSUME TypeOK, \A p \in Pods : session'[p].life = session[p].life
  PROVE  \A p \in Pods : session[p].life <= session'[p].life
<1>1. \A p \in Pods : session[p].life \in Nat
  BY Typed DEF Sessions
<1> QED
  BY <1>1

LEMMA RingSame ==
  ASSUME TypeOK, TypeOK', NEW p \in Pods, RingOf(p), published <= published',
         session'[p].seq = session[p].seq, session'[p].ring = session[p].ring
  PROVE  RingOf(p)'
<1>1. published \in Nat /\ published' \in Nat /\ published <= published'
  BY DEF TypeOK
<1>2. \A i \in 1 .. Len(session[p].ring) : session[p].ring[i].id \in 1 .. published'
  BY <1>1 DEF RingOf
<1> QED
  BY <1>2 DEF RingOf

LEMMA OnceSame ==
  ASSUME TypeOK, TypeOK', NEW p \in Pods, OnceOf(p), published <= published',
         session'[p].ring = session[p].ring, bus'[p] = bus[p]
  PROVE  OnceOf(p)'
<1>1. published \in Nat /\ published' \in Nat /\ published <= published'
  BY DEF TypeOK
<1>2. \A i \in 1 .. Len(bus[p]) : bus[p][i] \in 1 .. published'
  BY <1>1 DEF OnceOf
<1> QED
  BY <1>2 DEF OnceOf

LEMMA LivesSame ==
  ASSUME TypeOK, TypeOK', NEW v \in Viewers, LivesOf(v), published <= published',
         viewer'[v].home = viewer[v].home, viewer'[v].loyal = viewer[v].loyal,
         viewer'[v].max = viewer[v].max \/ viewer[v].on # Away,
         viewer'[v].on.pod = viewer[v].on.pod, viewer'[v].on.life = viewer[v].on.life,
         viewer[v].on.pod \notin Pods => viewer'[v] = viewer[v],
         due'[v] = due[v], \A p \in Pods : session[p].life <= session'[p].life
  PROVE  LivesOf(v)'
<1>1. /\ viewer[v].on.pod \in Pods \cup {None} /\ viewer[v].on.life \in Nat
      /\ viewer[v].home # <<>> => viewer[v].home[1] \in Pods /\ viewer[v].home[2] \in Nat
  BY Typed DEF Watchers, Connections
<1>2. \A p \in Pods : session[p].life \in Nat /\ session'[p].life \in Nat
  BY DEF TypeOK
<1>3. viewer'[v].on = Away <=> viewer[v].on = Away
  <2>1. viewer[v].on.pod \in Pods => viewer'[v].on # Away /\ viewer[v].on # Away
    BY StreamAssumption DEF Away
  <2> QED
    BY <2>1, AwayOrNot
<1>4. due'[v] \subseteq 1 .. published'
  <2>1. published \in Nat /\ published' \in Nat /\ published <= published' /\ due[v] \subseteq 1 .. published
    BY DEF TypeOK, LivesOf
  <2> QED
    BY <2>1
<1>5. viewer'[v].home # <<>> => viewer'[v].home[2] <= session'[viewer'[v].home[1]].life
  <2>1. viewer[v].home # <<>> => viewer[v].home[2] <= session[viewer[v].home[1]].life
    BY DEF LivesOf
  <2> QED
    BY <1>1, <1>2, <2>1
<1>6. viewer'[v].on.pod \in Pods => viewer'[v].on.life <= session'[viewer'[v].on.pod].life
  <2>1. viewer[v].on.pod \in Pods => viewer[v].on.life <= session[viewer[v].on.pod].life
    BY DEF LivesOf
  <2> QED
    BY <1>1, <1>2, <2>1
<1>7. /\ viewer'[v].loyal /\ viewer'[v].on # Away => viewer'[v].home = <<viewer'[v].on.pod, viewer'[v].on.life>>
      /\ viewer'[v].on.pod = None => viewer'[v].on = Away
      /\ viewer'[v].home = <<>> => due'[v] = {} /\ viewer'[v].max = 0 /\ viewer'[v].on = Away
  BY <1>3 DEF LivesOf
<1> QED
  BY <1>4, <1>5, <1>6, <1>7 DEF LivesOf

LEMMA HomeSame ==
  ASSUME NEW v \in Viewers, NEW p \in Pods, AtHome(v, p) => HomeOf(v, p),
         viewer'[v] = viewer[v], due'[v] = due[v], session'[p].life = session[p].life,
         session'[p].seq = session[p].seq, session'[p].ring = session[p].ring, AtHome(v, p)'
  PROVE  HomeOf(v, p)'
BY DEF HomeOf, AtHome

-----------------------------------------------------------------------------
(* Each action keeps the invariant                                          *)

\* What is new to the bus is new to every pod.
LEMMA OnceToBus ==
  ASSUME TypeOK, TypeOK', NEW p \in Pods, NEW q \in Pods, OnceOf(q), ToBus(p, published + 1),
         published' = published + 1,
         \A i, j \in 1 .. Len(session'[q].ring) :
            session'[q].ring[i].id = session'[q].ring[j].id => i = j,
         \A i \in 1 .. Len(session'[q].ring) :
           \/ p = q /\ session'[q].ring[i].id = published + 1
           \/ \E k \in 1 .. Len(session[q].ring) : session'[q].ring[i] = session[q].ring[k],
         \A k \in 1 .. Len(session[q].ring) : session[q].ring[k].id \in 1 .. published
  PROVE  OnceOf(q)'
<1> DEFINE old == bus[q]
           new == bus'[q]
           ring == session[q].ring
           next == session'[q].ring
           e == published + 1
<1>1. published \in Nat /\ published' = published + 1 /\ old \in Seq(Events) /\ e \in Nat
  BY Typed
<1>2. IF p # q THEN new = Append(old, e) ELSE new = old
  BY Typed DEF ToBus, Foreign
<1>3. /\ \A i, j \in 1 .. Len(old) : old[i] = old[j] => i = j
      /\ \A i \in 1 .. Len(old) : old[i] \in 1 .. published
      /\ \A i \in 1 .. Len(old), j \in 1 .. Len(ring) : old[i] # ring[j].id
  BY DEF OnceOf
<1>4. /\ \A i, j \in 1 .. Len(next) : next[i].id = next[j].id => i = j
      /\ \A i \in 1 .. Len(next) :
           (p = q /\ next[i].id = e) \/ \E k \in 1 .. Len(ring) : next[i] = ring[k]
      /\ \A k \in 1 .. Len(ring) : ring[k].id \in 1 .. published
  OBVIOUS
<1>5. published' = e /\ e > published /\ Len(old) \in Nat
  BY <1>1
<1> HIDE DEF old, new, ring, next, e
<1>6. CASE p = q
  <2>1. new = old
    BY <1>2, <1>6
  <2>2. ASSUME NEW i \in 1 .. Len(old), NEW j \in 1 .. Len(next) PROVE old[i] # next[j].id
    <3>1. CASE next[j].id = e
      BY <1>1, <1>3, <1>5, <3>1
    <3>2. CASE \E k \in 1 .. Len(ring) : next[j] = ring[k]
      BY <1>3, <3>2
    <3> QED
      BY <1>4, <3>1, <3>2
  <2>3. \A i \in 1 .. Len(old) : old[i] \in 1 .. published'
    BY <1>1, <1>3, <1>5
  <2> QED
    BY <1>3, <1>4, <2>1, <2>2, <2>3 DEF OnceOf, new, next
<1>7. CASE p # q
  <2>1. /\ Len(new) = Len(old) + 1 /\ new[Len(old) + 1] = e
        /\ \A i \in 1 .. Len(old) : new[i] = old[i]
    <3>1. new = Append(old, e)
      BY <1>2, <1>7
    <3> QED
      BY <1>1, <3>1
  <2>2. \A i \in 1 .. Len(new) : i \in 1 .. Len(old) \/ i = Len(old) + 1
    BY <1>5, <2>1
  <2>3. \A j \in 1 .. Len(next) : \E k \in 1 .. Len(ring) : next[j] = ring[k]
    BY <1>4, <1>7
  <2>4. ASSUME NEW i \in 1 .. Len(new), NEW j \in 1 .. Len(new), new[i] = new[j] PROVE i = j
    <3>1. \A k \in 1 .. Len(old) : old[k] # e
      BY <1>1, <1>3, <1>5
    <3> QED
      BY <1>3, <2>1, <2>2, <2>4, <3>1
  <2>5. \A i \in 1 .. Len(new) : new[i] \in 1 .. published'
    <3>1. e \in 1 .. published'
      BY <1>1, <1>5
    <3>2. \A k \in 1 .. Len(old) : old[k] \in 1 .. published'
      BY <1>1, <1>3, <1>5
    <3> QED
      BY <2>1, <2>2, <3>1, <3>2
  <2>6. ASSUME NEW i \in 1 .. Len(new), NEW j \in 1 .. Len(next) PROVE new[i] # next[j].id
    <3>1. PICK k \in 1 .. Len(ring) : next[j] = ring[k]
      BY <2>3
    <3>2. ring[k].id # e
      BY <1>1, <1>4, <1>5
    <3> QED
      BY <1>3, <2>1, <2>2, <3>1, <3>2
  <2> QED
    BY <1>4, <2>4, <2>5, <2>6 DEF OnceOf, new, next
<1> QED
  BY <1>6, <1>7

LEMMA PublishKeeps == ASSUME Inv, NEW p \in Pods, Publish(p) PROVE Inv'
<1> DEFINE e == published + 1
<1>1. TypeOK /\ \A q \in Pods : RingOf(q) /\ OnceOf(q)
  BY DEF Inv
<1>2. TypeOK'
  BY <1>1, PublishType
<1>3. /\ published \in Nat /\ published' = e /\ e \in Events
      /\ Fanout(p, session[p], e) /\ ToBus(p, e)
  BY <1>1, StreamAssumption, Typed DEF Publish, Events
<1>4. \A q \in Pods : \A i \in 1 .. Len(session[q].ring) : session[q].ring[i].id \in 1 .. published
  BY <1>1 DEF RingOf
<1>5. \A i \in 1 .. Len(session[p].ring) : session[p].ring[i].id # e
  BY <1>3, <1>4
<1>6. published <= published' /\ e <= published'
  BY <1>3
<1>a. ToBus(p, published + 1) /\ published' = published + 1
  BY <1>3
<1> HIDE DEF e
<1>7. /\ RingOf(p)'
      /\ \A i, j \in 1 .. Len(session'[p].ring) :
           session'[p].ring[i].id = session'[p].ring[j].id => i = j
      /\ \A i \in 1 .. Len(session'[p].ring) :
           \/ session'[p].ring[i].id = e
           \/ \E k \in 1 .. Len(session[p].ring) : session'[p].ring[i] = session[p].ring[k]
  BY <1>1, <1>2, <1>3, <1>5, <1>6, RingAfter
<1>8. \A q \in Pods \ {p} : session'[q] = session[q]
  BY <1>1, <1>3, FanoutType
<1>9. ASSUME NEW q \in Pods PROVE RingOf(q)' /\ OnceOf(q)'
  <2>1. CASE q = p
    <3>1. \A i \in 1 .. Len(session'[q].ring) :
            \/ p = q /\ session'[q].ring[i].id = published + 1
            \/ \E k \in 1 .. Len(session[q].ring) : session'[q].ring[i] = session[q].ring[k]
      BY <1>7, <2>1 DEF e
    <3>2. OnceOf(q)'
      BY <1>1, <1>2, <1>a, <1>4, <1>7, <2>1, <3>1, OnceToBus
    <3> QED
      BY <1>7, <2>1, <3>2
  <2>2. CASE q # p
    <3>1. session'[q] = session[q]
      BY <1>8, <2>2
    <3>2. RingOf(q)'
      BY <1>1, <1>2, <1>6, <3>1, RingSame
    <3>3. \A i, j \in 1 .. Len(session'[q].ring) :
            session'[q].ring[i].id = session'[q].ring[j].id => i = j
      BY <1>1, <3>1 DEF OnceOf
    <3>4. OnceOf(q)'
      BY <1>1, <1>2, <1>a, <1>4, <3>1, <3>3, OnceToBus
    <3> QED
      BY <3>2, <3>4
  <2> QED
    BY <2>1, <2>2
<1>10. ASSUME NEW v \in Viewers PROVE LivesOf(v)'
  <2>1. LivesOf(v)
    BY DEF Inv
  <2> QED
    BY <1>1, <1>2, <1>3, <1>6, <2>1, FanoutLives
<1>11. ASSUME NEW v \in Viewers, NEW q \in Pods, AtHome(v, q)' PROVE HomeOf(v, q)'
  <2>1. LivesOf(v)
    BY DEF Inv
  <2>2. e \notin due[v]
    BY <1>3, <2>1 DEF LivesOf, e
  <2> QED
    BY <1>2, <1>3, <1>5, <1>11, <2>2, FanoutHome
<1> QED
  BY <1>2, <1>9, <1>10, <1>11 DEF Inv

LEMMA PublishUnservedKeeps == ASSUME Inv, NEW p \in Pods, PublishUnserved(p) PROVE Inv'
<1>1. TypeOK /\ TypeOK'
  BY PublishUnservedType DEF Inv
<1>2. /\ UNCHANGED <<session, listed, viewer, due>> /\ published' = published + 1
      /\ ToBus(p, published + 1) /\ published \in Nat
  BY <1>1, Typed DEF PublishUnserved
<1>3. published <= published'
  BY <1>2
<1>4. ASSUME NEW q \in Pods PROVE RingOf(q)' /\ OnceOf(q)'
  <2>1. RingOf(q) /\ OnceOf(q)
    BY DEF Inv
  <2>2. RingOf(q)'
    BY <1>1, <1>2, <1>3, <2>1, RingSame
  <2>3. /\ \A i, j \in 1 .. Len(session'[q].ring) :
             session'[q].ring[i].id = session'[q].ring[j].id => i = j
        /\ \A i \in 1 .. Len(session'[q].ring) :
             \E k \in 1 .. Len(session[q].ring) : session'[q].ring[i] = session[q].ring[k]
        /\ \A k \in 1 .. Len(session[q].ring) : session[q].ring[k].id \in 1 .. published
    BY <1>2, <2>1 DEF OnceOf, RingOf
  <2>4. OnceOf(q)'
    BY <1>1, <1>2, <2>1, <2>3, OnceToBus
  <2> QED
    BY <2>2, <2>4
<1>5. ASSUME NEW v \in Viewers PROVE LivesOf(v)'
  <2>1. LivesOf(v)
    BY DEF Inv
  <2>2. \A q \in Pods : session[q].life <= session'[q].life
    BY <1>1, <1>2, SameLives
  <2> QED
    BY <1>1, <1>2, <1>3, <2>1, <2>2, LivesSame
<1>6. ASSUME NEW v \in Viewers, NEW q \in Pods, AtHome(v, q)' PROVE HomeOf(v, q)'
  <2>1. AtHome(v, q) => HomeOf(v, q)
    BY DEF Inv
  <2> QED
    BY <1>2, <1>6, <2>1, HomeSame
<1> QED
  BY <1>1, <1>4, <1>5, <1>6 DEF Inv

\* The pod that takes a frame off its queue numbers it, or nobody there listens.
LEMMA OnceFromBus ==
  ASSUME TypeOK, TypeOK', NEW p \in Pods, OnceOf(p), published' = published,
         bus[p] # <<>>, bus' = [bus EXCEPT ![p] = Tail(@)],
         \A i, j \in 1 .. Len(session'[p].ring) :
            session'[p].ring[i].id = session'[p].ring[j].id => i = j,
         \A i \in 1 .. Len(session'[p].ring) :
           \/ session'[p].ring[i].id = Head(bus[p])
           \/ \E k \in 1 .. Len(session[p].ring) : session'[p].ring[i] = session[p].ring[k]
  PROVE  OnceOf(p)'
<1> DEFINE old == bus[p]
           new == bus'[p]
           ring == session[p].ring
           next == session'[p].ring
           e == Head(bus[p])
<1>1. /\ Len(old) \in Nat /\ Len(new) = Len(old) - 1 /\ e = old[1]
      /\ \A i \in 1 .. Len(new) : new[i] = old[i + 1]
  BY BusTail
<1>2. /\ \A i, j \in 1 .. Len(old) : old[i] = old[j] => i = j
      /\ \A i \in 1 .. Len(old) : old[i] \in 1 .. published
      /\ \A i \in 1 .. Len(old), j \in 1 .. Len(ring) : old[i] # ring[j].id
  BY DEF OnceOf
<1>3. /\ \A i, j \in 1 .. Len(next) : next[i].id = next[j].id => i = j
      /\ \A i \in 1 .. Len(next) :
           next[i].id = e \/ \E k \in 1 .. Len(ring) : next[i] = ring[k]
      /\ published' = published
  OBVIOUS
<1> HIDE DEF old, new, ring, next, e
<1>4. ASSUME NEW i \in 1 .. Len(new)
      PROVE  /\ i + 1 \in 1 .. Len(old) /\ new[i] = old[i + 1] /\ 1 \in 1 .. Len(old) /\ i + 1 # 1
  BY <1>1
<1>5. ASSUME NEW i \in 1 .. Len(new) PROVE new[i] # e /\ new[i] \in 1 .. published
  BY <1>1, <1>2, <1>4
<1>6. ASSUME NEW i \in 1 .. Len(new), NEW j \in 1 .. Len(new), new[i] = new[j] PROVE i = j
  <2>1. i + 1 = j + 1
    BY <1>2, <1>4, <1>6
  <2> QED
    BY <1>1, <2>1
<1>7. ASSUME NEW i \in 1 .. Len(new), NEW j \in 1 .. Len(next) PROVE new[i] # next[j].id
  <2>1. CASE next[j].id = e
    BY <1>5, <2>1
  <2>2. CASE \E k \in 1 .. Len(ring) : next[j] = ring[k]
    BY <1>2, <1>4, <2>2
  <2> QED
    BY <1>3, <2>1, <2>2
<1> QED
  BY <1>3, <1>5, <1>6, <1>7 DEF OnceOf, new, next

\* Steps that only take frames off a pod's queue.
LEMMA QuietKeeps ==
  ASSUME Inv, TypeOK', NEW p \in Pods, bus[p] # <<>>, bus' = [bus EXCEPT ![p] = Tail(@)],
         UNCHANGED <<published, session, viewer, due>>
  PROVE  Inv'
<1>1. TypeOK /\ published \in Nat
  BY DEF Inv, TypeOK
<1>2. published <= published'
  BY <1>1
<1>3. ASSUME NEW q \in Pods PROVE RingOf(q)' /\ OnceOf(q)'
  <2>1. RingOf(q) /\ OnceOf(q)
    BY DEF Inv
  <2>2. RingOf(q)'
    BY <1>1, <1>2, <2>1, RingSame
  <2>3. CASE q # p
    <3>1. bus'[q] = bus[q]
      BY <1>1, <2>3, BusTail
    <3> QED
      BY <1>1, <1>2, <2>1, <2>2, <3>1, OnceSame
  <2>4. CASE q = p
    <3>1. /\ \A i, j \in 1 .. Len(session'[p].ring) :
               session'[p].ring[i].id = session'[p].ring[j].id => i = j
          /\ \A i \in 1 .. Len(session'[p].ring) :
               \E k \in 1 .. Len(session[p].ring) : session'[p].ring[i] = session[p].ring[k]
      BY <2>1, <2>4 DEF OnceOf
    <3>2. OnceOf(p)'
      BY <1>1, <2>1, <2>4, <3>1, OnceFromBus
    <3> QED
      BY <2>2, <2>4, <3>2
  <2> QED
    BY <2>3, <2>4
<1>4. ASSUME NEW v \in Viewers PROVE LivesOf(v)'
  <2>1. LivesOf(v)
    BY DEF Inv
  <2>2. \A q \in Pods : session[q].life <= session'[q].life
    BY <1>1, SameLives
  <2> QED
    BY <1>1, <1>2, <2>1, <2>2, LivesSame
<1>5. ASSUME NEW v \in Viewers, NEW q \in Pods, AtHome(v, q)' PROVE HomeOf(v, q)'
  <2>1. AtHome(v, q) => HomeOf(v, q)
    BY DEF Inv
  <2> QED
    BY <1>5, <2>1, HomeSame
<1> QED
  BY <1>3, <1>4, <1>5 DEF Inv

LEMMA LoseKeeps == ASSUME Inv, NEW p \in Pods, Lose(p) PROVE Inv'
<1>1. TypeOK'
  BY LoseType DEF Inv
<1> QED
  BY <1>1, QuietKeeps DEF Lose

LEMMA DeliverKeeps == ASSUME Inv, NEW p \in Pods, Deliver(p) PROVE Inv'
<1> DEFINE e == Head(bus[p])
<1>1. TypeOK /\ TypeOK'
  BY DeliverType DEF Inv
<1>2. bus[p] # <<>> /\ bus' = [bus EXCEPT ![p] = Tail(@)] /\ published' = published
  BY DEF Deliver
<1>3. CASE ~(listed[p] /\ session[p].subs # {})
  <2>1. UNCHANGED <<published, session, viewer, due>>
    BY <1>3 DEF Deliver
  <2> QED
    BY <1>1, <1>2, <2>1, QuietKeeps
<1>4. CASE listed[p] /\ session[p].subs # {}
  <2>1. Fanout(p, session[p], e)
    BY <1>4 DEF Deliver
  <2>2. /\ e \in Events /\ Len(bus[p]) \in Nat /\ Len(bus[p]) - 1 \in Nat /\ e = bus[p][1]
        /\ \A q \in Pods \ {p} : bus'[q] = bus[q]
    <3>1. /\ e \in Events /\ Len(bus[p]) \in Nat /\ e = bus[p][1] /\ Len(bus'[p]) = Len(bus[p]) - 1
          /\ \A q \in Pods \ {p} : bus'[q] = bus[q]
      BY <1>1, <1>2, BusTail
    <3>2. Len(bus'[p]) \in Nat
      BY <1>1 DEF TypeOK
    <3> QED
      BY <3>1, <3>2
  <2>3. RingOf(p) /\ OnceOf(p)
    BY DEF Inv
  <2>4. 1 \in 1 .. Len(bus[p])
    BY <2>2
  <2>5. e \in 1 .. published /\ \A i \in 1 .. Len(session[p].ring) : session[p].ring[i].id # e
    BY <2>2, <2>3, <2>4 DEF OnceOf
  <2>6. published <= published' /\ e <= published'
    BY <1>1, <1>2, <2>5 DEF TypeOK
  <2>h. Head(bus[p]) = e
    OBVIOUS
  <2> HIDE DEF e
  <2>7. /\ RingOf(p)'
        /\ \A i, j \in 1 .. Len(session'[p].ring) :
             session'[p].ring[i].id = session'[p].ring[j].id => i = j
        /\ \A i \in 1 .. Len(session'[p].ring) :
             \/ session'[p].ring[i].id = e
             \/ \E k \in 1 .. Len(session[p].ring) : session'[p].ring[i] = session[p].ring[k]
    BY <1>1, <2>1, <2>2, <2>3, <2>5, <2>6, RingAfter
  <2>8. OnceOf(p)'
    BY <1>1, <1>2, <2>3, <2>h, <2>7, OnceFromBus
  <2>9. ASSUME NEW q \in Pods PROVE RingOf(q)' /\ OnceOf(q)'
    <3>1. CASE q = p
      BY <2>7, <2>8, <3>1
    <3>2. CASE q # p
      <4>1. session'[q] = session[q] /\ RingOf(q) /\ OnceOf(q)
        BY <1>1, <2>1, <2>2, <3>2, FanoutType DEF Inv
      <4>2. bus'[q] = bus[q]
        BY <2>2, <3>2
      <4> QED
        BY <1>1, <2>6, <4>1, <4>2, RingSame, OnceSame
    <3> QED
      BY <3>1, <3>2
  <2>10. ASSUME NEW v \in Viewers PROVE LivesOf(v)'
    <3>1. LivesOf(v)
      BY DEF Inv
    <3> QED
      BY <1>1, <2>1, <2>2, <2>6, <3>1, FanoutLives
  <2>11. ASSUME NEW v \in Viewers, NEW q \in Pods, AtHome(v, q)' PROVE HomeOf(v, q)'
    BY <1>1, <1>4, <2>1, <2>2, <2>5, <2>11, FanoutHome
  <2> QED
    BY <1>1, <2>9, <2>10, <2>11 DEF Inv
<1> QED
  BY <1>3, <1>4

\* What is known of one viewer.
ViewerOf(v) == LivesOf(v) /\ \A p \in Pods : AtHome(v, p) => HomeOf(v, p)

\* Steps of the viewers and of their responses: no pod numbers anything, and the
\* sessions live on.
LEMMA ResponseKeeps ==
  ASSUME Inv, TypeOK', UNCHANGED <<published, bus, due>>,
         \A p \in Pods : /\ session'[p].life = session[p].life /\ session'[p].seq = session[p].seq
                         /\ session'[p].ring = session[p].ring,
         \A v \in Viewers : viewer'[v] = viewer[v] \/ ViewerOf(v)'
  PROVE  Inv'
<1>1. TypeOK /\ published \in Nat
  BY DEF Inv, TypeOK
<1>2. published <= published'
  BY <1>1
<1>3. ASSUME NEW q \in Pods PROVE RingOf(q)' /\ OnceOf(q)'
  <2>1. RingOf(q) /\ OnceOf(q)
    BY DEF Inv
  <2> QED
    BY <1>1, <1>2, <2>1, RingSame, OnceSame
<1>4. ASSUME NEW v \in Viewers, viewer'[v] = viewer[v]
      PROVE  LivesOf(v)' /\ \A p \in Pods : AtHome(v, p)' => HomeOf(v, p)'
  <2>1. LivesOf(v) /\ \A q \in Pods : AtHome(v, q) => HomeOf(v, q)
    BY DEF Inv
  <2>2. \A q \in Pods : session[q].life <= session'[q].life
    BY <1>1, SameLives
  <2>3. LivesOf(v)'
    BY <1>1, <1>2, <1>4, <2>1, <2>2, LivesSame
  <2>4. ASSUME NEW q \in Pods, AtHome(v, q)' PROVE HomeOf(v, q)'
    BY <1>4, <2>1, <2>4, HomeSame
  <2> QED
    BY <2>3, <2>4
<1>5. ASSUME NEW v \in Viewers
      PROVE  LivesOf(v)' /\ \A p \in Pods : AtHome(v, p)' => HomeOf(v, p)'
  <2>1. CASE viewer'[v] = viewer[v]
    BY <1>4, <2>1
  <2>2. CASE ViewerOf(v)'
    BY <2>2 DEF ViewerOf
  <2> QED
    BY <2>1, <2>2
<1> QED
  BY <1>3, <1>5 DEF Inv

LEMMA DetachKeeps == ASSUME Inv, NEW p \in Pods, NEW v \in Viewers, Detach(p, v) PROVE Inv'
<1>1. TypeOK
  BY DEF Inv
<1>2. /\ TypeOK'
      /\ \A q \in Pods : /\ session'[q].life = session[q].life /\ session'[q].seq = session[q].seq
                         /\ session'[q].ring = session[q].ring
  BY <1>1, DetachType
<1>3. UNCHANGED <<published, bus, viewer, due>>
  BY DEF Detach
<1> QED
  BY <1>2, <1>3, ResponseKeeps

\* A viewer without a connection has nothing on its way.
LEMMA DisconnectedKeeps ==
  ASSUME Inv, TypeOK', NEW v \in Viewers, Disconnected(v), due' = due, published' = published,
         \A p \in Pods : /\ session'[p].life = session[p].life /\ session'[p].seq = session[p].seq
                         /\ session'[p].ring = session[p].ring
  PROVE  ViewerOf(v)'
<1>1. TypeOK /\ LivesOf(v)
  BY DEF Inv
<1>2. /\ viewer'[v].on = Away
      /\ viewer'[v].home = viewer[v].home /\ viewer'[v].loyal = viewer[v].loyal
      /\ viewer'[v].max = viewer[v].max /\ viewer'[v].all = viewer[v].all
  BY <1>1, DisconnectedType
<1>3. viewer'[v].on.pod = None /\ viewer'[v].on.frames = <<>> /\ viewer'[v].on.pod \notin Pods
  BY <1>2, StreamAssumption DEF Away
<1>4. viewer[v].home # <<>> => viewer[v].home[1] \in Pods
  BY <1>1, Typed DEF Watchers
<1>5. LivesOf(v)'
  BY <1>1, <1>2, <1>3, <1>4 DEF LivesOf
<1>6. ASSUME NEW p \in Pods, AtHome(v, p)' PROVE HomeOf(v, p)'
  <2>1. AtHome(v, p)
    BY <1>2, <1>6 DEF AtHome
  <2>2. HomeOf(v, p)
    BY <2>1 DEF Inv
  <2>3. Len(viewer'[v].on.frames) = 0
    BY <1>3
  <2> QED
    BY <1>2, <2>2, <2>3 DEF HomeOf
<1> QED
  BY <1>5, <1>6 DEF ViewerOf

LEMMA DropKeeps == ASSUME Inv, NEW v \in Viewers, Drop(v) PROVE Inv'
<1>1. TypeOK /\ TypeOK'
  BY DropType DEF Inv
<1>2. UNCHANGED <<published, session, bus, due>> /\ Disconnected(v)
  BY DEF Drop
<1>3. ViewerOf(v)'
  BY <1>1, <1>2, DisconnectedKeeps
<1>4. \A w \in Viewers \ {v} : viewer'[w] = viewer[w]
  BY <1>1, <1>2, DisconnectedType
<1> QED
  BY <1>1, <1>2, <1>3, <1>4, ResponseKeeps

LEMMA EndsKeeps == ASSUME Inv, NEW v \in Viewers, Ends(v) PROVE Inv'
<1>1. TypeOK
  BY DEF Inv
<1>2. /\ TypeOK'
      /\ \A p \in Pods : /\ session'[p].life = session[p].life /\ session'[p].seq = session[p].seq
                         /\ session'[p].ring = session[p].ring
  BY <1>1, EndsType
<1>3. UNCHANGED <<published, bus, due>> /\ Disconnected(v)
  BY DEF Ends
<1>4. ViewerOf(v)'
  BY <1>2, <1>3, DisconnectedKeeps
<1>5. \A w \in Viewers \ {v} : viewer'[w] = viewer[w]
  BY <1>1, <1>3, DisconnectedType
<1> QED
  BY <1>2, <1>3, <1>4, <1>5, ResponseKeeps

\* The viewer takes the first frame: the numbers after it are higher.
LEMMA ReceiveKeeps == ASSUME Inv, NEW v \in Viewers, Receive(v) PROVE Inv'
<1> DEFINE old == viewer[v].on.frames
           new == viewer'[v].on.frames
           frame == Head(viewer[v].on.frames)
<1>1. TypeOK /\ LivesOf(v)
  BY DEF Inv
<1>2. /\ TypeOK'
      /\ \A w \in Viewers \ {v} : viewer'[w] = viewer[w]
      /\ old \in Seq(Frames) /\ old # <<>> /\ new = Tail(old)
      /\ viewer'[v].on.pod = viewer[v].on.pod /\ viewer'[v].on.life = viewer[v].on.life
      /\ viewer'[v].home = viewer[v].home /\ viewer'[v].loyal = viewer[v].loyal
      /\ viewer'[v].max = IF frame.seq > viewer[v].max THEN frame.seq ELSE viewer[v].max
      /\ viewer'[v].all = viewer[v].all \cup {frame.id}
  BY <1>1, ReceiveType
<1>3. UNCHANGED <<published, session, bus, due>> /\ frame # Close
  BY DEF Receive
<1>4. viewer[v].on # Away
  BY <1>2 DEF Away
<1>5. viewer[v].on.pod \in Pods /\ viewer'[v].on # Away
  <2>1. viewer[v].on.pod \in Pods
    BY <1>1, <1>4, AwayOrNot
  <2> QED
    BY <1>2, <2>1, StreamAssumption DEF Away
<1>6. LivesOf(v)'
  <2>1. published \in Nat /\ \A p \in Pods : session[p].life <= session'[p].life
    BY <1>1, <1>3, SameLives, Typed
  <2>2. published <= published'
    BY <1>3, <2>1
  <2> QED
    BY <1>1, <1>2, <1>3, <1>4, <1>5, <2>1, <2>2, LivesSame
<1>7. ASSUME NEW p \in Pods, AtHome(v, p)' PROVE HomeOf(v, p)'
  <2> DEFINE ring == session[p].ring
  <2>1. HomeOf(v, p)
    <3>1. AtHome(v, p)
      BY <1>2, <1>3, <1>7 DEF AtHome
    <3> QED
      BY <3>1 DEF Inv
  <2>2. /\ Len(old) \in Nat \ {0} /\ frame = old[1] /\ Len(new) = Len(old) - 1
        /\ \A i \in 1 .. Len(new) : i + 1 \in 1 .. Len(old) /\ new[i] = old[i + 1]
    <3>1. Len(old) \in Nat \ {0} /\ frame = old[1]
      BY <1>2
    <3>2. Len(new) = Len(old) - 1 /\ \A i \in 1 .. Len(old) - 1 : new[i] = old[i + 1]
      BY <1>2
    <3> HIDE DEF old, new, frame
    <3> QED
      BY <3>1, <3>2
  <2>3. \A i \in 1 .. Len(old) : old[i].seq \in Nat
    <3>1. \A i \in 1 .. Len(old) : old[i] \in Frames
      BY <1>2
    <3> QED
      BY <3>1 DEF Frames
  <2>4. viewer[v].max \in Nat /\ session[p].seq \in Nat
    BY <1>1, Typed DEF Watchers, Sessions
  <2>5. \A j \in 1 .. Len(old) : old[j] # Close =>
          /\ old[j].seq > viewer[v].max /\ old[j].seq <= session[p].seq
          /\ \A k \in 1 .. Len(old) : k > j /\ old[k] # Close => old[k].seq > old[j].seq
    BY <2>1 DEF HomeOf
  <2>6. \A i \in 1 .. Len(ring) : ring[i].id \in due[v] /\ ring[i].id \notin viewer[v].all =>
          \E j \in 1 .. Len(old) : old[j] = ring[i]
    BY <1>4, <2>1 DEF HomeOf
  <2>7. \A i \in 1 .. Len(ring) : ring[i] # Close
    <3>1. RingOf(p) /\ Close.id = 0
      BY DEF Inv, Close
    <3>2. \A i \in 1 .. Len(ring) : ring[i].id \in 1 .. published
      BY <3>1 DEF RingOf
    <3> HIDE DEF ring
    <3> QED
      BY <1>1, <3>1, <3>2, Typed
  <2>8. viewer[v].on.pod = p /\ viewer[v].on.life = session[p].life
    BY <1>4, <2>1 DEF HomeOf
  <2> HIDE DEF old, new, frame, ring
  <2>9. frame.seq > viewer[v].max /\ frame.seq <= session[p].seq /\ frame.seq \in Nat
    BY <1>3, <2>2, <2>3, <2>5
  <2>10. viewer'[v].max = frame.seq
    BY <1>2, <2>9
  <2>11. ASSUME NEW i \in 1 .. Len(ring), ring[i].id \in due[v], ring[i].id \notin viewer'[v].all
         PROVE  /\ ring[i].seq > viewer'[v].max
                /\ \E j \in 1 .. Len(new) : new[j] = ring[i]
    <3>1. ring[i].id \notin viewer[v].all /\ ring[i].id # frame.id
      BY <1>2, <2>11
    <3>2. PICK j \in 1 .. Len(old) : old[j] = ring[i]
      BY <2>6, <2>11, <3>1
    <3>3. j # 1
      BY <2>2, <3>1, <3>2
    <3>4. old[j].seq > frame.seq
      BY <1>3, <2>2, <2>5, <2>7, <3>2, <3>3
    <3>5. j - 1 \in 1 .. Len(new) /\ new[j - 1] = ring[i]
      BY <2>2, <3>2, <3>3
    <3> QED
      BY <2>10, <3>2, <3>4, <3>5
  <2>12. ASSUME NEW j \in 1 .. Len(new), new[j] # Close
         PROVE  /\ new[j].seq > viewer'[v].max /\ new[j].seq <= session[p].seq
                /\ \A k \in 1 .. Len(new) : k > j /\ new[k] # Close => new[k].seq > new[j].seq
    <3>1. j + 1 \in 1 .. Len(old) /\ old[j + 1] = new[j] /\ 1 \in 1 .. Len(old) /\ j + 1 > 1
      BY <2>2
    <3>2. /\ new[j].seq > frame.seq /\ new[j].seq <= session[p].seq
      BY <1>3, <2>2, <2>5, <2>12, <3>1
    <3>3. ASSUME NEW k \in 1 .. Len(new), k > j, new[k] # Close PROVE new[k].seq > new[j].seq
      <4>1. k + 1 \in 1 .. Len(old) /\ old[k + 1] = new[k] /\ k + 1 > j + 1
        BY <2>2, <3>3
      <4> QED
        BY <2>5, <2>12, <3>1, <3>3, <4>1
    <3> QED
      BY <2>10, <3>2, <3>3
  <2>13. session' = session /\ due' = due /\ viewer'[v].max <= session[p].seq
         /\ viewer'[v].on.pod = p /\ viewer'[v].on.life = session[p].life
    BY <1>2, <1>3, <2>8, <2>9, <2>10
  <2> QED
    BY <2>11, <2>12, <2>13 DEF HomeOf, new, ring
<1>8. ViewerOf(v)'
  BY <1>6, <1>7 DEF ViewerOf
<1> QED
  BY <1>2, <1>3, <1>8, ResponseKeeps

\* The sentinel comes after what is on its way.
LEMMA SentCloseHome ==
  ASSUME Inv, TypeOK', NEW p \in Pods, SentClose(p), due' = due, NEW v \in Viewers, NEW q \in Pods,
         session'[q].life = session[q].life, session'[q].seq = session[q].seq,
         session'[q].ring = session[q].ring, AtHome(v, q)'
  PROVE  HomeOf(v, q)'
<1> DEFINE old == viewer[v].on.frames
           new == viewer'[v].on.frames
<1>1. TypeOK /\ LivesOf(v)
  BY DEF Inv
<1>2. /\ viewer'[v].home = viewer[v].home /\ viewer'[v].loyal = viewer[v].loyal
      /\ viewer'[v].max = viewer[v].max /\ viewer'[v].all = viewer[v].all
      /\ viewer'[v].on.pod = viewer[v].on.pod /\ viewer'[v].on.life = viewer[v].on.life
      /\ \/ viewer'[v] = viewer[v]
         \/ viewer[v].on.pod = p /\ new = Append(old, Close)
  BY <1>1, SentCloseType
<1>3. HomeOf(v, q)
  <2>1. AtHome(v, q)
    BY <1>2 DEF AtHome
  <2> QED
    BY <2>1 DEF Inv
<1>4. CASE viewer'[v] = viewer[v]
  <2>1. AtHome(v, q) => HomeOf(v, q)
    BY <1>3
  <2> QED
    BY <1>4, <2>1, HomeSame
<1>5. CASE viewer[v].on.pod = p /\ new = Append(old, Close)
  <2>1. viewer[v].on # Away /\ viewer'[v].on # Away
    BY <1>2, <1>5, StreamAssumption DEF Away
  <2>2. old \in Seq(Frames) /\ Close \in Frames
    BY <1>1, Typed DEF Watchers, Connections, Close, Frames
  <2> HIDE DEF old, new
  <2>3. /\ Len(old) \in Nat /\ Len(new) = Len(old) + 1 /\ new[Len(old) + 1] = Close
        /\ \A i \in 1 .. Len(old) : new[i] = old[i]
    BY <1>5, <2>2
  <2>4. \A i \in 1 .. Len(new) : new[i] # Close => i \in 1 .. Len(old)
    BY <2>3
  <2>5. \A i \in 1 .. Len(old) : i \in 1 .. Len(new)
    BY <2>3
  <2>6. ASSUME NEW j \in 1 .. Len(new), new[j] # Close
        PROVE  /\ new[j].seq > viewer[v].max /\ new[j].seq <= session[q].seq
               /\ \A k \in 1 .. Len(new) : k > j /\ new[k] # Close => new[k].seq > new[j].seq
    <3>1. \A i \in 1 .. Len(old) : old[i] # Close =>
            /\ old[i].seq > viewer[v].max /\ old[i].seq <= session[q].seq
            /\ \A k \in 1 .. Len(old) : k > i /\ old[k] # Close => old[k].seq > old[i].seq
      BY <1>3 DEF HomeOf, old
    <3> QED
      BY <2>3, <2>4, <2>6, <3>1
  <2>7. ASSUME NEW i \in 1 .. Len(session[q].ring), session[q].ring[i].id \in due[v],
               session[q].ring[i].id \notin viewer[v].all
        PROVE  /\ session[q].ring[i].seq > viewer[v].max
               /\ \E j \in 1 .. Len(new) : new[j] = session[q].ring[i]
    <3>1. /\ session[q].ring[i].seq > viewer[v].max
          /\ \E j \in 1 .. Len(old) : old[j] = session[q].ring[i]
      BY <1>3, <2>1, <2>7 DEF HomeOf, old
    <3> QED
      BY <2>3, <2>5, <3>1
  <2>8. /\ viewer[v].max <= session[q].seq
        /\ viewer[v].on.pod = q /\ viewer[v].on.life = session[q].life
    BY <1>3, <2>1 DEF HomeOf
  <2> QED
    BY <1>2, <2>6, <2>7, <2>8 DEF HomeOf, new
<1> QED
  BY <1>2, <1>4, <1>5

\* The sentinel leaves what is known of a viewer's sessions.
LEMMA SentCloseLives ==
  ASSUME TypeOK, TypeOK', NEW p \in Pods, SentClose(p), due' = due, published' = published,
         NEW v \in Viewers, LivesOf(v), \A q \in Pods : session[q].life <= session'[q].life
  PROVE  LivesOf(v)'
<1>1. published <= published'
  BY DEF TypeOK
<1>2. /\ viewer'[v].home = viewer[v].home /\ viewer'[v].loyal = viewer[v].loyal
      /\ viewer'[v].max = viewer[v].max
      /\ viewer'[v].on.pod = viewer[v].on.pod /\ viewer'[v].on.life = viewer[v].on.life
      /\ viewer[v].on.pod \notin Pods => viewer'[v] = viewer[v]
  BY SentCloseType
<1> QED
  BY <1>1, <1>2, LivesSame

LEMMA CloseStreamsKeeps == ASSUME Inv, NEW p \in Pods, CloseStreams(p) PROVE Inv'
<1>1. TypeOK /\ TypeOK'
  BY CloseStreamsType DEF Inv
<1>2. UNCHANGED <<published, session, bus, due>> /\ SentClose(p)
  BY DEF CloseStreams
<1>3. ASSUME NEW v \in Viewers PROVE ViewerOf(v)'
  <2>1. LivesOf(v) /\ \A q \in Pods : session[q].life <= session'[q].life
    <3>1. \A q \in Pods : session[q].life \in Nat /\ session'[q] = session[q]
      BY <1>1, <1>2 DEF TypeOK
    <3> QED
      BY <3>1 DEF Inv
  <2>2. LivesOf(v)'
    BY <1>1, <1>2, <2>1, SentCloseLives
  <2>3. ASSUME NEW q \in Pods, AtHome(v, q)' PROVE HomeOf(v, q)'
    BY <1>1, <1>2, <2>3, SentCloseHome
  <2> QED
    BY <2>2, <2>3 DEF ViewerOf
<1> QED
  BY <1>1, <1>2, <1>3, ResponseKeeps

\* A session that starts over is nobody's home yet.
LEMMA ForgetKeeps == ASSUME Inv, NEW p \in Pods, Forget(p) PROVE Inv'
<1>1. TypeOK
  BY DEF Inv
<1>2. /\ TypeOK'
      /\ session'[p].ring = <<>> /\ session'[p].seq = 0
      /\ session[p].life \in Nat /\ session'[p].life = session[p].life + 1
      /\ \A q \in Pods \ {p} : session'[q] = session[q]
  BY <1>1, ForgetType
<1>3. UNCHANGED <<published, bus, due>> /\ SentClose(p) /\ published <= published'
  BY <1>1 DEF Forget, TypeOK
<1>4. ASSUME NEW q \in Pods PROVE RingOf(q)' /\ OnceOf(q)'
  <2>1. RingOf(q) /\ OnceOf(q)
    BY DEF Inv
  <2>2. CASE q # p
    <3>1. session'[q] = session[q] /\ bus'[q] = bus[q]
      BY <1>2, <1>3, <2>2
    <3> QED
      BY <1>1, <1>2, <1>3, <2>1, <3>1, RingSame, OnceSame
  <2>3. CASE q = p
    <3>1. Len(session'[q].ring) = 0 /\ session'[q].seq = 0
      BY <1>2, <2>3
    <3>2. RingOf(q)'
      BY <3>1 DEF RingOf
    <3>3. OnceOf(q)'
      BY <1>3, <2>1, <3>1 DEF OnceOf
    <3> QED
      BY <3>2, <3>3
  <2> QED
    BY <2>2, <2>3
<1>5. \A q \in Pods : session[q].life <= session'[q].life
  <2>1. \A q \in Pods : session[q].life \in Nat
    BY <1>1 DEF TypeOK
  <2>2. ASSUME NEW q \in Pods PROVE session[q].life <= session'[q].life
    <3>1. CASE q = p
      BY <1>2, <3>1
    <3>2. CASE q # p
      BY <1>2, <2>1, <3>2
    <3> QED
      BY <3>1, <3>2
  <2> QED
    BY <2>2
<1>6. ASSUME NEW v \in Viewers PROVE LivesOf(v)'
  <2>1. LivesOf(v)
    BY DEF Inv
  <2> QED
    BY <1>1, <1>2, <1>3, <1>5, <2>1, SentCloseLives
<1>7. ASSUME NEW v \in Viewers, NEW q \in Pods, AtHome(v, q)' PROVE HomeOf(v, q)'
  <2>1. q # p
    <3>1. viewer[v].home = viewer'[v].home
      BY <1>1, <1>3, SentCloseType
    <3>2. LivesOf(v)
      BY DEF Inv
    <3>3. CASE q = p
      <4>1. viewer[v].home = <<p, session[p].life + 1>>
        BY <1>2, <1>7, <3>1, <3>3 DEF AtHome
      <4>2. session[p].life + 1 <= session[p].life
        BY <3>2, <4>1 DEF LivesOf
      <4> QED
        BY <1>2, <4>2
    <3> QED
      BY <3>3
  <2>2. session'[q] = session[q]
    BY <1>2, <2>1
  <2> QED
    BY <1>2, <1>3, <1>7, <2>2, SentCloseHome
<1> QED
  BY <1>2, <1>4, <1>6, <1>7 DEF Inv

\* The ring is in the order of its numbers, so the newest of it, as many as were
\* missed, are the missed ones.
LEMMA ReplayIs ==
  ASSUME TypeOK, NEW p \in Pods, RingOf(p), NEW n \in Nat, n <= session[p].seq
  PROVE  LET ring == session[p].ring
             r == ReplaySince(session[p], n)
         IN /\ \A i \in 1 .. Len(ring) : ring[i].seq > n => \E j \in 1 .. Len(r) : r[j] = ring[i]
            /\ \A j \in 1 .. Len(r) :
                 /\ r[j].seq > n /\ r[j].seq <= session[p].seq
                 /\ \A k \in 1 .. Len(r) : k > j => r[k].seq > r[j].seq
<1> DEFINE ring == session[p].ring
           r == ReplaySince(session[p], n)
           seq == session[p].seq
           missed == {i \in 1 .. Len(ring) : Missed(ring[i], n)}
           c == Cardinality(missed)
           lo == IF Len(ring) <= seq - n THEN 1 ELSE Len(ring) - (seq - n) + 1
<1>1. ring \in Seq(Frames) /\ Len(ring) \in Nat /\ seq \in Nat /\ n <= seq
  BY Typed DEF Sessions
<1>2. \A i \in 1 .. Len(ring) : ring[i].seq = seq - Len(ring) + i
  BY DEF RingOf
<1>a. c \in Nat /\ r = Last(ring, c)
  <2>1. session[p] \in Sessions
    BY Typed
  <2>2. c \in Nat
    BY <2>1, ReplayType
  <2> QED
    BY <2>2 DEF ReplaySince
<1>3. missed = lo .. Len(ring)
  <2>1. missed = {i \in 1 .. Len(ring) : seq - Len(ring) + i > n}
    BY <1>2 DEF Missed
  <2>2. {i \in 1 .. Len(ring) : seq - Len(ring) + i > n} = lo .. Len(ring)
    <3> HIDE DEF ring, seq
    <3> QED
      BY <1>1
  <2> QED
    BY <2>1, <2>2
<1>4. lo \in Int /\ lo <= Len(ring) + 1 /\ lo >= 1 /\ lo > Len(ring) - (seq - n)
      /\ (lo = 1 \/ lo = Len(ring) - (seq - n) + 1)
  <2> HIDE DEF ring, seq
  <2> QED
    BY <1>1
<1> HIDE DEF r, lo, ring, seq, missed
<1>5. c = Len(ring) - lo + 1
  <2>1. Cardinality(lo .. Len(ring)) = IF lo > Len(ring) THEN 0 ELSE Len(ring) - lo + 1
    <3>1. lo \in Int /\ Len(ring) \in Int
      BY <1>1, <1>4
    <3> HIDE DEF c
    <3> QED
      BY <3>1, FS_Interval
  <2> QED
    BY <1>1, <1>3, <1>4, <2>1
<1>6. Tails(r, ring) /\ Len(r) = IF Len(ring) <= c THEN Len(ring) ELSE c
  BY <1>1, <1>a, LastProperties
<1>7. Len(r) = Len(ring) - lo + 1
  BY <1>1, <1>4, <1>5, <1>6
<1>8. PICK d \in Nat : Len(r) = Len(ring) - d /\ \A i \in 1 .. Len(ring) - d : r[i] = ring[i + d]
  BY <1>6 DEF Tails
<1>9. d = lo - 1
  BY <1>1, <1>4, <1>7, <1>8
<1>10. ASSUME NEW j \in 1 .. Len(r) PROVE j + d \in 1 .. Len(ring) /\ r[j] = ring[j + d]
  BY <1>1, <1>8
<1>11. ASSUME NEW j \in 1 .. Len(r) PROVE r[j].seq = seq - Len(ring) + j + d
  <2>1. ring[j + d].seq = seq - Len(ring) + (j + d)
    BY <1>2, <1>10
  <2> QED
    BY <1>1, <1>10, <2>1
<1>b. Len(r) \in Nat
  BY <1>1, <1>4, <1>7
<1>12. ASSUME NEW j \in 1 .. Len(r)
       PROVE  /\ r[j].seq > n /\ r[j].seq <= seq
              /\ \A k \in 1 .. Len(r) : k > j => r[k].seq > r[j].seq
  <2>1. r[j].seq > n /\ r[j].seq <= seq
    BY <1>1, <1>4, <1>9, <1>11, <1>8, <1>b
  <2>2. \A k \in 1 .. Len(r) : k > j => r[k].seq > r[j].seq
    BY <1>1, <1>11, <1>b
  <2> QED
    BY <2>1, <2>2
<1>13. ASSUME NEW i \in 1 .. Len(ring), ring[i].seq > n
       PROVE  \E j \in 1 .. Len(r) : r[j] = ring[i]
  <2>1. seq - Len(ring) + i > n
    BY <1>2, <1>13
  <2>2. i > d
    BY <1>1, <1>4, <1>9, <2>1
  <2>3. i - d \in 1 .. Len(r) /\ (i - d) + d = i
    BY <1>1, <1>8, <2>2
  <2>4. r[i - d] = ring[(i - d) + d]
    BY <1>8, <2>3
  <2> QED
    BY <2>3, <2>4
<1> QED
  BY <1>12, <1>13 DEF ring, r, seq

\* The replay ends where the live events begin.
LEMMA ConnectKeeps == ASSUME Inv, NEW v \in Viewers, NEW p \in Pods, Connect(v, p) PROVE Inv'
<1> DEFINE joined == viewer[v].home # <<>>
           life == session[p].life
           r == ReplaySince(session[p], viewer[v].max)
<1>1. TypeOK /\ LivesOf(v) /\ viewer[v].on = Away /\ RingOf(p)
  BY DEF Inv, Connect
<1>2. TypeOK'
  BY <1>1, ConnectType
<1>3. /\ session'[p].life = session[p].life /\ session'[p].seq = session[p].seq
      /\ session'[p].ring = session[p].ring
      /\ \A q \in Pods \ {p} : session'[q] = session[q]
      /\ \A w \in Viewers \ {v} : viewer'[w] = viewer[w]
  BY <1>1, ConnectType
<1>4. viewer'[v].on = [pod |-> p, life |-> life, frames |-> IF joined THEN r ELSE <<>>]
  BY <1>1, ConnectType
<1>5. /\ viewer'[v].home = IF joined THEN viewer[v].home ELSE <<p, life>>
      /\ viewer'[v].loyal = (viewer[v].loyal /\ (joined => viewer[v].home = <<p, life>>))
      /\ viewer'[v].max = viewer[v].max /\ viewer'[v].all = viewer[v].all
  BY <1>1, ConnectType
<1>6. UNCHANGED <<published, bus, due>>
  BY DEF Connect
<1>7. /\ viewer'[v].on.pod = p /\ viewer'[v].on.life = life /\ viewer'[v].on # Away
      /\ viewer'[v].on.frames = IF joined THEN r ELSE <<>>
  <2>1. p # None
    BY StreamAssumption
  <2> HIDE DEF r, life, joined
  <2> QED
    BY <1>4, <2>1 DEF Away
<1>8. life \in Nat /\ viewer[v].max \in Nat /\ session[p].seq \in Nat
  BY <1>1, Typed DEF Sessions, Watchers
<1>9. LivesOf(v)'
  <2>1. \A q \in Pods : session'[q].life = session[q].life
    BY <1>3
  <2>2. joined => viewer[v].home[1] \in Pods /\ viewer[v].home[2] <= session[viewer[v].home[1]].life
    BY <1>1, Typed DEF LivesOf, Watchers
  <2>3. viewer'[v].home # <<>> => viewer'[v].home[2] <= session'[viewer'[v].home[1]].life
    BY <1>5, <1>8, <2>1, <2>2
  <2>4. viewer'[v].loyal => viewer'[v].home = <<p, life>>
    BY <1>5
  <2>5. viewer'[v].home # <<>>
    BY <1>5
  <2>6. p # None
    BY StreamAssumption
  <2>7. due'[v] \subseteq 1 .. published'
    BY <1>1, <1>6 DEF LivesOf
  <2>8. life <= session'[p].life
    BY <1>8, <2>1
  <2> QED
    BY <1>7, <2>3, <2>4, <2>5, <2>6, <2>7, <2>8 DEF LivesOf
<1>10. ASSUME NEW q \in Pods, AtHome(v, q)' PROVE HomeOf(v, q)'
  <2>1. q = p
    <3>1. viewer'[v].home = <<p, life>> /\ viewer'[v].home = <<q, session'[q].life>>
      BY <1>5, <1>10 DEF AtHome
    <3> QED
      BY <3>1
  <2>2. CASE joined
    <3>1. AtHome(v, p)
      BY <1>5, <1>10, <2>2 DEF AtHome
    <3>2. HomeOf(v, p)
      BY <3>1 DEF Inv
    <3>3. viewer[v].max <= session[p].seq
      BY <3>2 DEF HomeOf
    <3>4. /\ \A i \in 1 .. Len(session[p].ring) :
               session[p].ring[i].seq > viewer[v].max => \E j \in 1 .. Len(r) : r[j] = session[p].ring[i]
          /\ \A j \in 1 .. Len(r) :
               /\ r[j].seq > viewer[v].max /\ r[j].seq <= session[p].seq
               /\ \A k \in 1 .. Len(r) : k > j => r[k].seq > r[j].seq
      BY <1>1, <1>8, <3>3, ReplayIs
    <3>5. viewer'[v].on.frames = r
      BY <1>7, <2>2
    <3>6. \A i \in 1 .. Len(session[p].ring) :
            session[p].ring[i].id \in due[v] /\ session[p].ring[i].id \notin viewer[v].all =>
              session[p].ring[i].seq > viewer[v].max
      BY <3>2 DEF HomeOf
    <3> HIDE DEF r, joined
    <3>7. ASSUME NEW i \in 1 .. Len(session[p].ring), session[p].ring[i].id \in due[v],
                 session[p].ring[i].id \notin viewer[v].all
          PROVE  /\ session[p].ring[i].seq > viewer[v].max
                 /\ \E j \in 1 .. Len(r) : r[j] = session[p].ring[i]
      BY <3>4, <3>6, <3>7
    <3>8. session'[p].ring = session[p].ring /\ session'[p].seq = session[p].seq
          /\ session'[p].life = life /\ due' = due
      BY <1>3, <1>6
    <3>9. HomeOf(v, p)'
      BY <1>5, <1>7, <3>3, <3>4, <3>5, <3>7, <3>8 DEF HomeOf
    <3> QED
      BY <2>1, <3>9
  <2>3. CASE ~joined
    <3>1. due[v] = {} /\ viewer[v].max = 0
      BY <1>1, <2>3 DEF LivesOf
    <3>2. Len(viewer'[v].on.frames) = 0
      BY <1>7, <2>3
    <3>3. viewer[v].max <= session[p].seq
      BY <1>8, <3>1
    <3> QED
      BY <1>3, <1>5, <1>6, <1>7, <2>1, <3>1, <3>2, <3>3 DEF HomeOf
  <2> QED
    BY <2>2, <2>3
<1>11. ViewerOf(v)'
  BY <1>9, <1>10 DEF ViewerOf
<1>12. \A q \in Pods : /\ session'[q].life = session[q].life /\ session'[q].seq = session[q].seq
                       /\ session'[q].ring = session[q].ring
  BY <1>3
<1> QED
  BY <1>2, <1>3, <1>6, <1>11, <1>12, ResponseKeeps

-----------------------------------------------------------------------------
(* The theorems                                                             *)

LEMMA InvInit == Init => Inv
<1> SUFFICES ASSUME Init PROVE Inv
  OBVIOUS
<1>1. TypeOK
  BY TypeInit
<1>2. ASSUME NEW p \in Pods PROVE RingOf(p) /\ OnceOf(p)
  <2>1. session[p] = Fresh(0) /\ bus[p] = <<>>
    BY DEF Init
  <2>2. session[p].seq = 0 /\ Len(session[p].ring) = 0 /\ Len(bus[p]) = 0
    BY <2>1 DEF Fresh
  <2> QED
    BY <2>2 DEF RingOf, OnceOf
<1>3. ASSUME NEW v \in Viewers PROVE viewer[v] = NewViewer /\ due[v] = {}
  BY DEF Init
<1>4. ASSUME NEW v \in Viewers PROVE LivesOf(v)
  <2>1. viewer[v].on = Away /\ viewer[v].home = <<>> /\ viewer[v].max = 0
    BY <1>3 DEF NewViewer
  <2>2. viewer[v].on.pod = None
    BY <2>1 DEF Away
  <2> QED
    BY <1>3, <2>1, <2>2, StreamAssumption DEF LivesOf
<1>5. ASSUME NEW v \in Viewers, NEW p \in Pods PROVE ~AtHome(v, p)
  <2>1. viewer[v].home = <<>>
    BY <1>3 DEF NewViewer
  <2> QED
    BY <2>1 DEF AtHome
<1> QED
  BY <1>1, <1>2, <1>4, <1>5 DEF Inv

LEMMA InvStep == ASSUME Inv, [Next]_vars PROVE Inv'
<1>1. CASE UNCHANGED vars
  <2>1. TypeOK'
    BY TypeStep DEF Inv
  <2>2. UNCHANGED <<published, session, bus, due, viewer>>
    BY <1>1 DEF vars
  <2> QED
    BY <2>1, <2>2, ResponseKeeps
<1>2. ASSUME NEW p \in Pods,
             Publish(p) \/ PublishUnserved(p) \/ Deliver(p) \/ Lose(p) \/ CloseStreams(p) \/ Forget(p)
      PROVE  Inv'
  BY <1>2, PublishKeeps, PublishUnservedKeeps, DeliverKeeps, LoseKeeps, CloseStreamsKeeps, ForgetKeeps
<1>3. ASSUME NEW v \in Viewers, Receive(v) \/ Drop(v) \/ Ends(v) PROVE Inv'
  BY <1>3, ReceiveKeeps, DropKeeps, EndsKeeps
<1>4. ASSUME NEW v \in Viewers, NEW p \in Pods, Connect(v, p) \/ Detach(p, v) PROVE Inv'
  BY <1>4, ConnectKeeps, DetachKeeps
<1> QED
  BY <1>1, <1>2, <1>3, <1>4 DEF Next

LEMMA InvAlways == Spec => []Inv
<1>1. Inv /\ [Next]_vars => Inv'
  BY InvStep
<1> QED
  BY <1>1, InvInit, PTL DEF Spec

\* No session numbers an event twice, whatever the bus does: what a pod has
\* numbered is not on its way to it.
THEOREM NumberedOnceHolds == Spec => []NumberedOnce
<1>1. Inv => NumberedOnce
  <2> SUFFICES ASSUME Inv, NEW p \in Pods
               PROVE  \A i, j \in 1 .. Len(session[p].ring) :
                        session[p].ring[i].id = session[p].ring[j].id => i = j
    BY DEF NumberedOnce
  <2>1. OnceOf(p)
    BY DEF Inv
  <2> QED
    BY <2>1 DEF OnceOf
<1> QED
  BY <1>1, InvAlways, PTL

\* A viewer that only ever comes back to its first session is owed nothing of the
\* ring that it has not drawn and that is not in its response.
THEOREM SamePodIsWholeHolds == Spec => []SamePodIsWhole
<1>1. Inv => SamePodIsWhole
  <2> SUFFICES ASSUME Inv, NEW v \in Viewers, viewer[v].loyal, viewer[v].on # Away,
                      viewer[v].on.life = session[viewer[v].on.pod].life
               PROVE  due[v] \cap Ids(session[viewer[v].on.pod].ring)
                        \subseteq viewer[v].all \cup Ids(viewer[v].on.frames)
    BY DEF SamePodIsWhole
  <2> DEFINE p == viewer[v].on.pod
             ring == session[p].ring
             frames == viewer[v].on.frames
  <2>1. TypeOK /\ LivesOf(v)
    BY DEF Inv
  <2>2. p \in Pods
    BY <2>1, AwayOrNot
  <2>3. viewer[v].home = <<p, session[p].life>>
    BY <2>1 DEF LivesOf
  <2>4. HomeOf(v, p)
    BY <2>2, <2>3 DEF Inv, AtHome
  <2>5. \A i \in 1 .. Len(ring) : ring[i].id \in due[v] /\ ring[i].id \notin viewer[v].all =>
          \E j \in 1 .. Len(frames) : frames[j] = ring[i]
    BY <2>4 DEF HomeOf
  <2> SUFFICES ASSUME NEW x \in due[v], x \in Ids(ring), x \notin viewer[v].all
               PROVE  x \in Ids(frames)
    OBVIOUS
  <2> HIDE DEF p, ring, frames
  <2>6. PICK i \in 1 .. Len(ring) : x = ring[i].id
    BY DEF Ids
  <2>7. PICK j \in 1 .. Len(frames) : frames[j] = ring[i]
    BY <2>5, <2>6
  <2> QED
    BY <2>6, <2>7 DEF Ids
<1> QED
  BY <1>1, InvAlways, PTL

-----------------------------------------------------------------------------
(* What a viewer remembers                                                  *)

\* A response carries events and close sentinels.
FramesOf(v) ==
  \A i \in 1 .. Len(viewer[v].on.frames) :
    viewer[v].on.frames[i] = Close \/ viewer[v].on.frames[i].id \in Events

\* A viewer that forgets nothing remembers exactly what it has received.
SeenOf(v) ==
  /\ viewer[v].all \subseteq Events
  /\ viewer[v].all = {viewer[v].seen[i] : i \in 1 .. Len(viewer[v].seen)}
  /\ Len(viewer[v].seen) = Cardinality(viewer[v].all)

Memory == \A v \in Viewers : FramesOf(v) /\ SeenOf(v)

\* A response that grows by one frame.
LEMMA FramesGrow ==
  ASSUME NEW v \in Viewers, FramesOf(v), NEW f \in Frames, f = Close \/ f.id \in Events,
         viewer[v].on.frames \in Seq(Frames), viewer'[v].on.frames = Append(viewer[v].on.frames, f)
  PROVE  FramesOf(v)'
<1> DEFINE old == viewer[v].on.frames
           new == viewer'[v].on.frames
<1>1. /\ Len(new) = Len(old) + 1 /\ Len(old) \in Nat /\ new[Len(old) + 1] = f
      /\ \A i \in 1 .. Len(old) : new[i] = old[i]
  OBVIOUS
<1>2. \A i \in 1 .. Len(old) : old[i] = Close \/ old[i].id \in Events
  BY DEF FramesOf
<1> HIDE DEF old, new
<1>3. \A i \in 1 .. Len(new) : new[i] = Close \/ new[i].id \in Events
  BY <1>1, <1>2
<1> QED
  BY <1>3 DEF FramesOf, new

LEMMA MemorySame ==
  ASSUME NEW v \in Viewers, SeenOf(v), viewer'[v].all = viewer[v].all, viewer'[v].seen = viewer[v].seen
  PROVE  SeenOf(v)'
BY DEF SeenOf, Events

LEMMA MemoryFanout ==
  ASSUME TypeOK, Memory, NEW p \in Pods, NEW e \in Events, Fanout(p, session[p], e)
  PROVE  Memory'
<1> SUFFICES ASSUME NEW v \in Viewers PROVE FramesOf(v)' /\ SeenOf(v)'
  BY DEF Memory
<1> DEFINE f == [seq |-> session[p].seq + 1, id |-> e]
<1>1. FramesOf(v) /\ SeenOf(v)
  BY DEF Memory
<1>2. viewer'[v].all = viewer[v].all /\ viewer'[v].seen = viewer[v].seen
  BY FanoutViewer
<1>3. SeenOf(v)'
  BY <1>1, <1>2, MemorySame
<1>4. f \in Frames /\ f.id \in Events /\ viewer[v].on.frames \in Seq(Frames)
  BY Typed DEF Frames, Sessions, Watchers, Connections, Events
<1>5. CASE viewer[v].on.pod = p /\ viewer[v].on.life = session[p].life /\ listed[p]
  <2>1. viewer'[v].on.frames = Append(viewer[v].on.frames, f)
    BY <1>5, FanoutViewer, Zenon
  <2> HIDE DEF f
  <2> QED
    BY <1>1, <1>3, <1>4, <2>1, FramesGrow
<1>6. CASE ~(viewer[v].on.pod = p /\ viewer[v].on.life = session[p].life /\ listed[p])
  <2>1. viewer'[v] = viewer[v]
    BY <1>6, FanoutViewer, Zenon
  <2> QED
    BY <1>1, <1>3, <2>1 DEF FramesOf
<1> QED
  BY <1>5, <1>6

LEMMA MemorySentClose == ASSUME TypeOK, Memory, NEW p \in Pods, SentClose(p) PROVE Memory'
<1> SUFFICES ASSUME NEW v \in Viewers PROVE FramesOf(v)' /\ SeenOf(v)'
  BY DEF Memory
<1>1. FramesOf(v) /\ SeenOf(v)
  BY DEF Memory
<1>2. /\ viewer'[v].all = viewer[v].all /\ viewer'[v].seen = viewer[v].seen
      /\ \/ viewer'[v] = viewer[v]
         \/ viewer'[v].on.frames = Append(viewer[v].on.frames, Close)
  BY SentCloseType
<1>3. SeenOf(v)'
  BY <1>1, <1>2, MemorySame
<1>4. Close \in Frames /\ viewer[v].on.frames \in Seq(Frames)
  BY Typed DEF Frames, Close, Watchers, Connections
<1>5. CASE viewer'[v] = viewer[v]
  BY <1>1, <1>3, <1>5 DEF FramesOf
<1>6. CASE viewer'[v].on.frames = Append(viewer[v].on.frames, Close)
  BY <1>1, <1>3, <1>4, <1>6, FramesGrow
<1> QED
  BY <1>2, <1>5, <1>6

LEMMA MemoryDisconnected == ASSUME TypeOK, Memory, NEW v \in Viewers, Disconnected(v) PROVE Memory'
<1>1. /\ \A w \in Viewers \ {v} : viewer'[w] = viewer[w]
      /\ viewer'[v].on = Away
      /\ viewer'[v].all = viewer[v].all /\ viewer'[v].seen = viewer[v].seen
  BY DisconnectedType
<1> SUFFICES ASSUME NEW w \in Viewers PROVE FramesOf(w)' /\ SeenOf(w)'
  BY DEF Memory
<1>2. FramesOf(w) /\ SeenOf(w)
  BY DEF Memory
<1>3. viewer'[w].all = viewer[w].all /\ viewer'[w].seen = viewer[w].seen
  BY <1>1
<1>4. SeenOf(w)'
  BY <1>2, <1>3, MemorySame
<1>5. CASE w # v
  <2>1. viewer'[w] = viewer[w]
    BY <1>1, <1>5
  <2> QED
    BY <1>2, <1>4, <2>1 DEF FramesOf
<1>6. CASE w = v
  <2>1. Len(viewer'[w].on.frames) = 0
    BY <1>1, <1>6 DEF Away
  <2> QED
    BY <1>4, <2>1 DEF FramesOf
<1> QED
  BY <1>5, <1>6

LEMMA MemoryConnect ==
  ASSUME Inv, Memory, NEW v \in Viewers, NEW p \in Pods, Connect(v, p) PROVE Memory'
<1> DEFINE ring == session[p].ring
           r == ReplaySince(session[p], viewer[v].max)
           new == viewer'[v].on.frames
<1>1. TypeOK /\ RingOf(p)
  BY DEF Inv
<1>2. /\ \A w \in Viewers \ {v} : viewer'[w] = viewer[w]
      /\ viewer'[v].all = viewer[v].all /\ viewer'[v].seen = viewer[v].seen
  BY <1>1, ConnectType
<1>3. new = r \/ new = <<>>
  <2>1. viewer'[v].on = [pod |-> p, life |-> session[p].life,
              frames |-> IF viewer[v].home # <<>> THEN r ELSE <<>>]
    BY <1>1, ConnectType
  <2> HIDE DEF r
  <2> QED
    BY <2>1
<1>4. \A i \in 1 .. Len(ring) : ring[i].id \in Events
  <2>1. \A i \in 1 .. Len(ring) : ring[i].id \in 1 .. published
    BY <1>1 DEF RingOf
  <2>2. published \in 0 .. MaxEvents /\ MaxEvents \in Nat
    BY <1>1, StreamAssumption, Typed
  <2> HIDE DEF ring
  <2> QED
    BY <2>1, <2>2 DEF Events
<1>5. \A i \in 1 .. Len(r) : r[i].id \in Events
  <2>1. ring \in Seq(Frames) /\ session[p] \in Sessions /\ viewer[v].max \in Nat
    BY <1>1, Typed DEF Sessions, Watchers
  <2>2. Tails(r, ring)
    <3> DEFINE c == Cardinality({i \in 1 .. Len(session[p].ring) : Missed(session[p].ring[i], viewer[v].max)})
    <3>1. c \in Nat
      BY <2>1, ReplayType
    <3>2. r = Last(ring, c)
      BY DEF ReplaySince
    <3> HIDE DEF r, ring, c
    <3> QED
      BY <2>1, <3>1, <3>2, LastProperties
  <2> HIDE DEF r, ring
  <2>3. PICK d \in Nat : Len(r) = Len(ring) - d /\ \A i \in 1 .. Len(ring) - d : r[i] = ring[i + d]
    BY <2>2 DEF Tails
  <2>4. Len(ring) \in Nat
    BY <2>1
  <2>5. ASSUME NEW i \in 1 .. Len(r) PROVE r[i].id \in Events
    <3>1. i + d \in 1 .. Len(ring) /\ r[i] = ring[i + d]
      BY <2>3, <2>4
    <3> QED
      BY <1>4, <3>1
  <2> QED
    BY <2>5
<1>6. FramesOf(v)'
  <2>1. CASE new = r
    BY <1>5, <2>1 DEF FramesOf, Events
  <2>2. CASE new = <<>>
    <3>1. Len(new) = 0
      BY <2>2
    <3> QED
      BY <3>1 DEF FramesOf
  <2> QED
    BY <1>3, <2>1, <2>2
<1>7. ASSUME NEW w \in Viewers PROVE FramesOf(w)' /\ SeenOf(w)'
  <2>1. FramesOf(w) /\ SeenOf(w)
    BY DEF Memory
  <2>2. viewer'[w].all = viewer[w].all /\ viewer'[w].seen = viewer[w].seen
    BY <1>2
  <2>3. SeenOf(w)'
    BY <2>1, <2>2, MemorySame
  <2>4. CASE w # v
    <3>1. viewer'[w] = viewer[w]
      BY <1>2, <2>4
    <3> QED
      BY <2>1, <2>3, <3>1 DEF FramesOf
  <2>5. CASE w = v
    BY <1>6, <2>3, <2>5
  <2> QED
    BY <2>4, <2>5
<1> QED
  BY <1>7 DEF Memory

\* What is drawn is new to the viewer, and fits in what it remembers.
LEMMA MemoryReceive ==
  ASSUME TypeOK, Memory, MaxEvents <= Remember, NEW v \in Viewers, Receive(v) PROVE Memory'
<1> DEFINE old == viewer[v].on.frames
           new == viewer'[v].on.frames
           seen == viewer[v].seen
           all == viewer[v].all
           id == Head(viewer[v].on.frames).id
<1>1. /\ \A w \in Viewers \ {v} : viewer'[w] = viewer[w]
      /\ old \in Seq(Frames) /\ old # <<>> /\ new = Tail(old)
      /\ viewer'[v].seen = IF Draws(v) THEN Last(Append(seen, id), Remember) ELSE seen
      /\ viewer'[v].all = all \cup {id}
  BY ReceiveType
<1>2. old # <<>> /\ Head(old) # Close
  BY DEF Receive
<1>3. FramesOf(v) /\ SeenOf(v)
  BY DEF Memory
<1>4. /\ Len(old) \in Nat \ {0} /\ Head(old) = old[1] /\ Len(new) = Len(old) - 1
      /\ \A i \in 1 .. Len(old) - 1 : new[i] = old[i + 1]
  BY <1>1
<1>5. seen \in Seq(Nat) /\ all \subseteq Events /\ IsFiniteSet(all) /\ Cardinality(Events) = MaxEvents
  <2>1. 1 \in Int /\ MaxEvents \in Int /\ MaxEvents \in Nat
    BY StreamAssumption
  <2>2. IsFiniteSet(1 .. MaxEvents) /\ Cardinality(1 .. MaxEvents) = IF 1 > MaxEvents THEN 0 ELSE MaxEvents - 1 + 1
    BY <2>1, FS_Interval
  <2>3. all \subseteq 1 .. MaxEvents
    BY <1>3 DEF SeenOf, Events
  <2>4. IsFiniteSet(all)
    <3> HIDE DEF all
    <3> QED
      BY <2>2, <2>3, FS_Subset
  <2>5. Cardinality(1 .. MaxEvents) = MaxEvents
    <3> DEFINE n == Cardinality(1 .. MaxEvents)
    <3>1. n = IF 1 > MaxEvents THEN 0 ELSE MaxEvents - 1 + 1
      BY <2>2
    <3> HIDE DEF n
    <3>2. n = MaxEvents
      BY <2>1, <3>1
    <3> QED
      BY <3>2 DEF n
  <2>6. seen \in Seq(Nat)
    BY Typed DEF Watchers
  <2> QED
    BY <2>3, <2>4, <2>5, <2>6 DEF Events
<1>6. all = {seen[i] : i \in 1 .. Len(seen)} /\ Len(seen) = Cardinality(all)
  BY <1>3 DEF SeenOf
<1>7. id \in Events
  <2>1. 1 \in 1 .. Len(old)
    BY <1>4
  <2>2. old[1] = Close \/ old[1].id \in Events
    BY <1>3, <2>1 DEF FramesOf
  <2> QED
    BY <1>2, <1>4, <2>2
<1>8. \A i \in 1 .. Len(new) : new[i] = Close \/ new[i].id \in Events
  <2>1. \A i \in 1 .. Len(old) : old[i] = Close \/ old[i].id \in Events
    BY <1>3 DEF FramesOf
  <2> HIDE DEF old, new
  <2> QED
    BY <1>4, <2>1
<1>9. Draws(v) <=> id \notin all
  <2>1. Draws(v) <=> ~(\E i \in 1 .. Len(seen) : seen[i] = id)
    BY <1>2, Zenon DEF Draws, Drawn
  <2> HIDE DEF seen, id, all
  <2> QED
    BY <1>6, <2>1
<1>10. SeenOf(v)'
  <2>1. CASE id \in all
    <3>1. viewer'[v].all = viewer[v].all /\ viewer'[v].seen = viewer[v].seen
      BY <1>1, <1>9, <2>1
    <3> QED
      BY <1>3, <3>1, MemorySame
  <2>2. CASE id \notin all
    <3> DEFINE next == Append(seen, id)
               more == all \cup {id}
    <3> HIDE DEF seen, id, all
    <3>1. IsFiniteSet(more) /\ Cardinality(more) = Cardinality(all) + 1
      BY <1>5, <2>2, FS_AddElement
    <3>2. more \subseteq Events /\ IsFiniteSet(Events)
      <4>1. IsFiniteSet(Events)
        BY StreamAssumption, FS_Interval DEF Events
      <4> QED
        BY <1>5, <1>7, <4>1
    <3>3. Cardinality(more) <= MaxEvents
      BY <1>5, <3>1, <3>2, FS_Subset
    <3>4. id \in Nat
      BY <1>7 DEF Events
    <3>5. /\ next \in Seq(Nat) /\ Len(next) = Len(seen) + 1 /\ Len(seen) \in Nat
          /\ \A i \in 1 .. Len(seen) : next[i] = seen[i]
          /\ next[Len(seen) + 1] = id
      BY <1>5, <3>4
    <3> HIDE DEF next, more
    <3>6. Len(next) = Cardinality(more) /\ Len(next) <= Remember /\ Remember \in Nat
      BY <1>6, <3>1, <3>3, <3>5, StreamAssumption
    <3>7. viewer'[v].seen = next
      <4>1. viewer'[v].seen = Last(next, Remember)
        BY <1>1, <1>9, <2>2 DEF next
      <4>2. Last(next, Remember) = next
        BY <3>5, <3>6, LastProperties
      <4> QED
        BY <4>1, <4>2
    <3>8. more = {next[i] : i \in 1 .. Len(next)}
      <4>1. \A i \in 1 .. Len(next) : i \in 1 .. Len(seen) \/ i = Len(seen) + 1
        BY <3>5
      <4>2. \A i \in 1 .. Len(seen) : i \in 1 .. Len(next)
        BY <3>5
      <4>3. Len(seen) + 1 \in 1 .. Len(next)
        BY <3>5
      <4>4. \A x : x \in more <=> x = id \/ \E i \in 1 .. Len(seen) : x = seen[i]
        BY <1>6 DEF more
      <4>5. \A x \in more : \E i \in 1 .. Len(next) : x = next[i]
        BY <3>5, <4>2, <4>3, <4>4
      <4>6. \A i \in 1 .. Len(next) : next[i] \in more
        BY <3>5, <4>1, <4>4
      <4> QED
        BY <4>5, <4>6
    <3>9. viewer'[v].all = more
      BY <1>1 DEF more
    <3> QED
      BY <3>2, <3>6, <3>7, <3>8, <3>9 DEF SeenOf, Events
  <2> QED
    BY <2>1, <2>2
<1>11. FramesOf(v)'
  BY <1>8 DEF FramesOf, Events
<1>12. ASSUME NEW w \in Viewers PROVE FramesOf(w)' /\ SeenOf(w)'
  <2>1. CASE w = v
    BY <1>10, <1>11, <2>1
  <2>2. CASE w # v
    <3>1. viewer'[w] = viewer[w] /\ FramesOf(w) /\ SeenOf(w)
      BY <1>1, <2>2 DEF Memory
    <3> QED
      BY <3>1, MemorySame DEF FramesOf
  <2> QED
    BY <2>1, <2>2
<1> QED
  BY <1>12 DEF Memory

LEMMA MemoryStep == ASSUME Inv, Memory, MaxEvents <= Remember, [Next]_vars PROVE Memory'
<1>0. TypeOK
  BY DEF Inv
<1>1. CASE viewer' = viewer
  BY <1>1 DEF Memory, FramesOf, SeenOf, Events
<1>2. ASSUME NEW p \in Pods, Publish(p) PROVE Memory'
  <2>1. published + 1 \in Events /\ Fanout(p, session[p], published + 1)
    BY <1>0, <1>2, StreamAssumption, Typed DEF Publish, Events
  <2> QED
    BY <1>0, <2>1, MemoryFanout
<1>3. ASSUME NEW p \in Pods, Deliver(p) PROVE Memory'
  <2>1. bus[p] # <<>> /\ bus' = [bus EXCEPT ![p] = Tail(@)]
    BY <1>3 DEF Deliver
  <2>2. Head(bus[p]) \in Events
    BY <1>0, <2>1, BusTail
  <2>3. CASE listed[p] /\ session[p].subs # {}
    <3>1. Fanout(p, session[p], Head(bus[p]))
      BY <1>3, <2>3 DEF Deliver
    <3> QED
      BY <1>0, <2>2, <3>1, MemoryFanout
  <2>4. CASE ~(listed[p] /\ session[p].subs # {})
    <3>1. viewer' = viewer
      BY <1>3, <2>4 DEF Deliver
    <3> QED
      BY <1>1, <3>1
  <2> QED
    BY <2>3, <2>4
<1>4. ASSUME NEW p \in Pods, PublishUnserved(p) \/ Lose(p) \/ CloseStreams(p) \/ Forget(p)
      PROVE  Memory'
  <2>1. viewer' = viewer \/ SentClose(p)
    BY <1>4 DEF PublishUnserved, Lose, CloseStreams, Forget
  <2> QED
    BY <1>0, <1>1, <2>1, MemorySentClose
<1>5. ASSUME NEW v \in Viewers, Receive(v) PROVE Memory'
  BY <1>0, <1>5, MemoryReceive
<1>6. ASSUME NEW v \in Viewers, Drop(v) \/ Ends(v) PROVE Memory'
  <2>1. Disconnected(v)
    BY <1>6 DEF Drop, Ends
  <2> QED
    BY <1>0, <2>1, MemoryDisconnected
<1>7. ASSUME NEW v \in Viewers, NEW p \in Pods, Connect(v, p) PROVE Memory'
  BY <1>7, MemoryConnect
<1>8. ASSUME NEW v \in Viewers, NEW p \in Pods, Detach(p, v) PROVE Memory'
  BY <1>1, <1>8 DEF Detach
<1>9. CASE UNCHANGED vars
  BY <1>1, <1>9 DEF vars
<1> QED
  BY <1>2, <1>3, <1>4, <1>5, <1>6, <1>7, <1>8, <1>9 DEF Next

LEMMA MemoryInit == Init => Memory
<1> SUFFICES ASSUME Init, NEW v \in Viewers PROVE FramesOf(v) /\ SeenOf(v)
  BY DEF Memory
<1>1. viewer[v] = NewViewer
  BY DEF Init
<1>2. viewer[v].on.frames = <<>> /\ viewer[v].seen = <<>> /\ viewer[v].all = {}
  BY <1>1 DEF NewViewer, Away
<1>3. FramesOf(v)
  BY <1>2 DEF FramesOf
<1>4. Len(viewer[v].seen) = 0 /\ Cardinality(viewer[v].all) = 0
  BY <1>2, FS_EmptySet
<1> QED
  BY <1>2, <1>3, <1>4 DEF SeenOf

\* A viewer whose memory holds the events there are draws each of them once,
\* whatever pods it reconnects to and in whatever order their numbers are.
THEOREM DrawnOnceHolds ==
  ASSUME MaxEvents <= Remember
  PROVE  Spec => DrawnOnce
<1>1. Init => Inv /\ Memory
  BY InvInit, MemoryInit
<1>2. Inv /\ Memory /\ [Next]_vars => Inv' /\ Memory'
  BY InvStep, MemoryStep
<1>3. Memory => \A v \in Viewers : Receive(v) /\ Draws(v)
                  => Head(viewer[v].on.frames).id \notin viewer[v].all
  <2> SUFFICES ASSUME NEW v \in Viewers, SeenOf(v), Draws(v)
               PROVE  Head(viewer[v].on.frames).id \notin viewer[v].all
    BY DEF Memory
  <2>1. \A i \in 1 .. Len(viewer[v].seen) : viewer[v].seen[i] # Head(viewer[v].on.frames).id
    BY DEF Draws, Drawn
  <2>2. viewer[v].all = {viewer[v].seen[i] : i \in 1 .. Len(viewer[v].seen)}
    BY DEF SeenOf
  <2> QED
    BY <2>1, <2>2
<1> QED
  BY <1>1, <1>2, <1>3, PTL DEF Spec, DrawnOnce
=============================================================================

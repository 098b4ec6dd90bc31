----------------------------- MODULE LiveStream -----------------------------
(***************************************************************************)
(* The live stream of one conversation: each pod's session with its own     *)
(* numbering and replay ring, the bus that carries an event to the other    *)
(* pods, and the viewers, which lose their connection, reconnect to any pod *)
(* with the highest number they have seen, and drop by its id what they     *)
(* have drawn already.                                                      *)
(*                                                                         *)
(* An event is its id, in the order of publication.  A pod's code here has  *)
(* no await between reading a session and writing it, so one call is one    *)
(* step.  The broker is external: one queue per pod, in order, which may    *)
(* lose a frame.                                                            *)
(***************************************************************************)
EXTENDS Integers, Sequences, FiniteSets

CONSTANTS
  Pods,
  Viewers,
  None,
  Ring,         \* replay_buffer_events: what a session keeps for replay
  Remember,     \* SEEN_IDS_MAX: the ids a viewer remembers
  MaxEvents,    \* events published
  MaxDrops,     \* connections that are lost, or closed by the server
  MaxForgets,   \* sessions forgotten while their key lives on
  MaxLosses     \* frames the broker loses

ASSUME StreamAssumption ==
  /\ None \notin Pods
  /\ Ring \in Nat /\ Remember \in Nat \ {0}
  /\ MaxEvents \in Nat /\ MaxDrops \in Nat /\ MaxForgets \in Nat /\ MaxLosses \in Nat

Events == 1 .. MaxEvents

VARIABLES
  published,  \* how many events there are
  session,    \* each pod's listed session: its life, number, ring, subscribers
  listed,     \* the pods that have one
  bus,        \* the frames on their way to each pod
  viewer,     \* each viewer's connection and what it keeps across connections
  due,        \* what the viewer's first session has numbered since it joined
  count       \* connections lost, sessions forgotten and frames lost so far

vars == <<published, session, listed, bus, viewer, due, count>>

Fresh(life) == [life |-> life, seq |-> 0, ring |-> <<>>, subs |-> {}]
Away == [pod |-> None, life |-> 0, frames |-> <<>>]
Close == [seq |-> 0, id |-> 0]

\* The newest n of a bounded buffer.
Last(s, n) == IF Len(s) <= n THEN s ELSE SubSeq(s, Len(s) - n + 1, Len(s))
Ids(s) == {s[i].id : i \in 1 .. Len(s)}

\* The viewers attached to the session a pod lists now.
Attached(p, life) == {v \in Viewers : viewer[v].on.pod = p /\ viewer[v].on.life = life}

-----------------------------------------------------------------------------
(* The session.                                                             *)

\* _fanout: number the event, keep it for replay, hand it to every subscriber.
Numbered(s, e) ==
  [life |-> s.life, seq |-> s.seq + 1, subs |-> s.subs,
   ring |-> Last(Append(s.ring, [seq |-> s.seq + 1, id |-> e]), Ring)]

Fanout(p, s, e) ==
  /\ session' = [session EXCEPT ![p] = Numbered(s, e)]
  /\ viewer' = [v \in Viewers |->
       IF v \in Attached(p, s.life) /\ listed[p]
       THEN [viewer[v] EXCEPT !.on.frames = Append(@, [seq |-> s.seq + 1, id |-> e])]
       ELSE viewer[v]]
  /\ due' = [v \in Viewers |->
       IF viewer[v].home = <<p, s.life>> /\ listed[p] THEN due[v] \cup {e} ELSE due[v]]

\* Mutant: a pod delivers what it published itself once more.
Foreign_Any(origin, p) == TRUE
Foreign(origin, p) == origin # p

\* Every pod hears every frame; the ones it skips as its own are not in its queue.
ToBus(origin, e) ==
  bus' = [p \in Pods |-> IF Foreign(origin, p) THEN Append(bus[p], e) ELSE bus[p]]

\* A turn's event: the turn was enqueued on this pod, which lists a session.
Publish(p) ==
  /\ published < MaxEvents
  /\ published' = published + 1
  /\ Fanout(p, session[p], published + 1)
  /\ listed' = [listed EXCEPT ![p] = TRUE]
  /\ ToBus(p, published + 1)
  /\ UNCHANGED count

\* A file changed or a turn ended on a pod that never served the conversation:
\* only the bus hears of it.
PublishUnserved(p) ==
  /\ ~listed[p]
  /\ published < MaxEvents
  /\ published' = published + 1
  /\ ToBus(p, published + 1)
  /\ UNCHANGED <<session, listed, viewer, due, count>>

\* _on_bus_event: another pod's event, unless nobody here listens.
Deliver(p) ==
  /\ bus[p] # <<>>
  /\ IF listed[p] /\ session[p].subs # {}
     THEN Fanout(p, session[p], Head(bus[p]))
     ELSE UNCHANGED <<session, viewer, due>>
  /\ bus' = [bus EXCEPT ![p] = Tail(@)]
  /\ UNCHANGED <<published, listed, count>>

Lose(p) ==
  /\ bus[p] # <<>> /\ count.losses < MaxLosses
  /\ bus' = [bus EXCEPT ![p] = Tail(@)]
  /\ count' = [count EXCEPT !.losses = @ + 1]
  /\ UNCHANGED <<published, session, listed, viewer, due>>

-----------------------------------------------------------------------------
(* subscribe_sse and the viewer's loop.                                     *)

\* Mutant: off by one at the boundary.
Missed_OffByOne(entry, since) == entry.seq > since + 1
Missed(entry, since) == entry.seq > since

\* The ring is in the order of its numbers: what was missed is the newest of it.
ReplaySince(s, since) ==
  Last(s.ring, Cardinality({i \in 1 .. Len(s.ring) : Missed(s.ring[i], since)}))

\* The first connection replays nothing; a later one what the pod's ring has
\* beyond the highest number the viewer ever saw.
Connect(v, p) ==
  /\ viewer[v].on = Away
  /\ LET s == session[p]
         joined == viewer[v].home # <<>>
     IN /\ session' = [session EXCEPT ![p].subs = @ \cup {v}]
        /\ viewer' = [viewer EXCEPT ![v] =
             [@ EXCEPT !.on = [pod |-> p, life |-> s.life,
                               frames |-> IF joined THEN ReplaySince(s, viewer[v].max) ELSE <<>>],
                       !.home = IF joined THEN viewer[v].home ELSE <<p, s.life>>,
                       !.loyal = viewer[v].loyal /\ (joined => viewer[v].home = <<p, s.life>>)]]
  /\ listed' = [listed EXCEPT ![p] = TRUE]
  /\ UNCHANGED <<published, bus, due, count>>

\* Mutant: what the viewer has drawn is told by the number.
Drawn_ByNumber(v, frame) == frame.seq <= viewer[v].max
Drawn(v, frame) == \E i \in 1 .. Len(viewer[v].seen) : viewer[v].seen[i] = frame.id

Draws(v) ==
  /\ viewer[v].on.frames # <<>>
  /\ Head(viewer[v].on.frames) # Close
  /\ ~Drawn(v, Head(viewer[v].on.frames))

Receive(v) ==
  /\ viewer[v].on.frames # <<>>
  /\ Head(viewer[v].on.frames) # Close
  /\ LET frame == Head(viewer[v].on.frames) IN
       viewer' = [viewer EXCEPT ![v] =
         [@ EXCEPT !.on.frames = Tail(viewer[v].on.frames),
                   !.max = IF frame.seq > viewer[v].max THEN frame.seq ELSE viewer[v].max,
                   !.seen = IF Draws(v) THEN Last(Append(viewer[v].seen, frame.id), Remember)
                            ELSE viewer[v].seen,
                   !.all = viewer[v].all \cup {frame.id}]]
  /\ UNCHANGED <<published, session, listed, bus, due, count>>

\* The connection is gone for the viewer; the pod's generator ends later.
Disconnected(v) == viewer' = [viewer EXCEPT ![v].on = Away]

Drop(v) ==
  /\ viewer[v].on # Away
  /\ count.drops < MaxDrops
  /\ count' = [count EXCEPT !.drops = @ + 1]
  /\ Disconnected(v)
  /\ UNCHANGED <<published, session, listed, bus, due>>

\* The close sentinel: the response ends, and its generator detaches.
Ends(v) ==
  /\ viewer[v].on.frames # <<>>
  /\ Head(viewer[v].on.frames) = Close
  /\ Disconnected(v)
  /\ session' = [p \in Pods |->
       IF viewer[v].on.pod = p /\ viewer[v].on.life = session[p].life
       THEN [session[p] EXCEPT !.subs = @ \ {v}] ELSE session[p]]
  /\ UNCHANGED <<published, listed, bus, due, count>>

\* The generator of a connection that was dropped is closed.
Detach(p, v) ==
  /\ v \in session[p].subs
  /\ ~(viewer[v].on.pod = p /\ viewer[v].on.life = session[p].life)
  /\ session' = [session EXCEPT ![p].subs = @ \ {v}]
  /\ UNCHANGED <<published, listed, bus, viewer, due, count>>

-----------------------------------------------------------------------------
(* close_streams, close_all_streams and forget.                             *)

\* Mutant: forget leaves the responses of the session open.
Closes_None(p, v) == FALSE
Closes(p, v) == viewer[v].on.pod = p /\ viewer[v].on.life = session[p].life

SentClose(p) ==
  viewer' = [v \in Viewers |-> IF Closes(p, v)
                               THEN [viewer[v] EXCEPT !.on.frames = Append(@, Close)]
                               ELSE viewer[v]]

CloseStreams(p) ==
  /\ listed[p] /\ session[p].subs # {}
  /\ count.drops < MaxDrops
  /\ count' = [count EXCEPT !.drops = @ + 1]
  /\ SentClose(p)
  /\ UNCHANGED <<published, session, listed, bus, due>>

\* The key's next session starts over at one.
Forget(p) ==
  /\ listed[p]
  /\ count.forgets < MaxForgets
  /\ count' = [count EXCEPT !.forgets = @ + 1]
  /\ SentClose(p)
  /\ session' = [session EXCEPT ![p] = Fresh(@.life + 1)]
  /\ listed' = [listed EXCEPT ![p] = FALSE]
  /\ UNCHANGED <<published, bus, due>>

-----------------------------------------------------------------------------
NewViewer == [on |-> Away, home |-> <<>>, loyal |-> TRUE, max |-> 0,
              seen |-> <<>>, all |-> {}]

Init ==
  /\ published = 0
  /\ session = [p \in Pods |-> Fresh(0)]
  /\ listed = [p \in Pods |-> FALSE]
  /\ bus = [p \in Pods |-> <<>>]
  /\ viewer = [v \in Viewers |-> NewViewer]
  /\ due = [v \in Viewers |-> {}]
  /\ count = [drops |-> 0, forgets |-> 0, losses |-> 0]

Next ==
  \/ \E p \in Pods :
       \/ Publish(p) \/ PublishUnserved(p) \/ Deliver(p) \/ Lose(p)
       \/ CloseStreams(p) \/ Forget(p)
  \/ \E v \in Viewers :
       \/ Receive(v) \/ Drop(v) \/ Ends(v)
       \/ \E p \in Pods : Connect(v, p) \/ Detach(p, v)

Spec == Init /\ [][Next]_vars

\* The loops of a pod's consumer and of each viewer go on.
FairSpec ==
  /\ Spec
  /\ \A p \in Pods : WF_vars(Deliver(p))
  /\ \A v \in Viewers :
       /\ WF_vars(Receive(v)) /\ WF_vars(Ends(v))
       /\ WF_vars(\E p \in Pods : Connect(v, p))

-----------------------------------------------------------------------------
Frames == [seq : Nat, id : Nat]

\* Types of the sessions, of the frames on their way, and of what a viewer keeps.
TypeOK ==
  /\ published \in 0 .. MaxEvents
  /\ session \in [Pods -> [life : Nat, seq : Nat, ring : Seq(Frames), subs : SUBSET Viewers]]
  /\ listed \in [Pods -> BOOLEAN]
  /\ bus \in [Pods -> Seq(Events)]
  /\ viewer \in [Viewers -> [on : [pod : Pods \cup {None}, life : Nat, frames : Seq(Frames)],
                             home : {<<>>} \cup (Pods \X Nat), loyal : BOOLEAN, max : Nat,
                             seen : Seq(Nat), all : SUBSET Nat]]
  /\ due \in [Viewers -> SUBSET Events]
  /\ count \in [drops : Nat, forgets : Nat, losses : Nat]

\* A session numbers an event once: the pod that published it skips its own
\* frame when the bus brings it back, and a pod the event reached does not send
\* it on.
NumberedOnce ==
  \A p \in Pods : LET r == session[p].ring IN
    \A i, j \in 1 .. Len(r) : r[i].id = r[j].id => i = j

\* A viewer draws an event once, however it reconnects: the numbers of two pods
\* do not compare, but the id is the event's own (while the viewer remembers it).
DrawnOnce ==
  [][\A v \in Viewers : Receive(v) /\ Draws(v)
       => Head(viewer[v].on.frames).id \notin viewer[v].all]_vars

\* A viewer that returns to the session it first joined misses nothing that the
\* session numbered since, but what its ring has let go of: the replay ends
\* exactly where the live events begin.
SamePodIsWhole ==
  \A v \in Viewers :
    LET p == viewer[v].on.pod IN
    viewer[v].loyal /\ viewer[v].on # Away /\ viewer[v].on.life = session[p].life =>
      due[v] \cap Ids(session[p].ring) \subseteq viewer[v].all \cup Ids(viewer[v].on.frames)

\* No viewer is left attached to a session the pod has forgotten, which would
\* send it heartbeats and never an event again.
NoDeafViewer ==
  \A v \in Viewers :
    LET Deaf == viewer[v].on # Away
                /\ viewer[v].on.life # session[viewer[v].on.pod].life
    IN Deaf ~> ~Deaf
=============================================================================

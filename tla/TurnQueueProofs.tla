-------------------------- MODULE TurnQueueProofs --------------------------
(***************************************************************************)
(* Proofs about TurnQueue, for any messages, people and bounds.            *)
(***************************************************************************)
EXTENDS TurnQueue, TLAPS, FiniteSetTheorems, SequenceTheorems

-----------------------------------------------------------------------------
(* What the operations on the queue do to the messages it holds *)

\* `put` at the tail adds one message.
LEMMA ItemsAppend ==
    ASSUME NEW q \in Seq(Messages), NEW m \in Messages
    PROVE  /\ Append(q, m) \in Seq(Messages)
           /\ Items(Append(q, m)) = Items(q) \cup {m}
           /\ NoRepeats(q) /\ m \notin Items(q) => NoRepeats(Append(q, m))
<1>1. /\ Append(q, m) \in Seq(Messages) /\ Len(Append(q, m)) = Len(q) + 1
      /\ \A i \in 1..Len(q) : Append(q, m)[i] = q[i]
      /\ Append(q, m)[Len(q) + 1] = m
  OBVIOUS
<1>2. Items(Append(q, m)) = Items(q) \cup {m}
  <2>1. Items(Append(q, m)) \subseteq Items(q) \cup {m}
    BY <1>1 DEF Items
  <2>2. \A i \in 1..Len(q) : i \in DOMAIN Append(q, m)
    BY <1>1
  <2>3. Len(q) + 1 \in DOMAIN Append(q, m)
    BY <1>1
  <2>4. Items(q) \cup {m} \subseteq Items(Append(q, m))
    BY <1>1, <2>2, <2>3 DEF Items
  <2>5. QED
    BY <2>1, <2>4
<1>3. ASSUME NoRepeats(q), m \notin Items(q) PROVE NoRepeats(Append(q, m))
  BY <1>1, <1>3 DEF NoRepeats, Items
<1>4. QED
  BY <1>1, <1>2, <1>3

\* `put_front` joins the two lines.
LEMMA ItemsConcat ==
    ASSUME NEW p \in Seq(Messages), NEW q \in Seq(Messages)
    PROVE  /\ p \o q \in Seq(Messages)
           /\ Items(p \o q) = Items(p) \cup Items(q)
           /\ NoRepeats(p) /\ NoRepeats(q) /\ Items(p) \cap Items(q) = {}
                 => NoRepeats(p \o q)
<1>1. p \o q \in Seq(Messages) /\ Len(p \o q) = Len(p) + Len(q)
  OBVIOUS
<1>2. \A i \in 1..Len(p) : (p \o q)[i] = p[i]
  OBVIOUS
<1>3. \A i \in 1..Len(q) : (p \o q)[Len(p) + i] = q[i]
  OBVIOUS
<1>4. \A i \in 1..(Len(p) + Len(q)) :
         (p \o q)[i] = IF i <= Len(p) THEN p[i] ELSE q[i - Len(p)]
  OBVIOUS
<1>5. Items(p \o q) = Items(p) \cup Items(q)
  <2>1. Items(p \o q) \subseteq Items(p) \cup Items(q)
    BY <1>1, <1>4 DEF Items
  <2>2. Items(p) \subseteq Items(p \o q)
    BY <1>1, <1>2 DEF Items
  <2>3. Items(q) \subseteq Items(p \o q)
    <3>1. SUFFICES ASSUME NEW x \in Items(q) PROVE x \in Items(p \o q)
      OBVIOUS
    <3>2. PICK i \in 1..Len(q) : x = q[i]
      BY DEF Items
    <3>3. Len(p) + i \in DOMAIN (p \o q) /\ (p \o q)[Len(p) + i] = x
      BY <1>1, <1>3, <3>2
    <3>4. QED
      BY <3>3 DEF Items
  <2>4. QED
    BY <2>1, <2>2, <2>3
<1>6. ASSUME NoRepeats(p), NoRepeats(q), Items(p) \cap Items(q) = {}
      PROVE  NoRepeats(p \o q)
  <2>1. SUFFICES ASSUME NEW i \in 1..(Len(p) + Len(q)), NEW j \in 1..(Len(p) + Len(q)),
                        (p \o q)[i] = (p \o q)[j]
                 PROVE  i = j
    BY <1>1 DEF NoRepeats
  <2>2. \A k \in 1..Len(p), l \in 1..Len(q) : p[k] # q[l]
    <3>1. \A k \in 1..Len(p) : p[k] \in Items(p)
      BY DEF Items
    <3>2. \A l \in 1..Len(q) : q[l] \in Items(q)
      BY DEF Items
    <3>3. QED
      BY <1>6, <3>1, <3>2
  <2>3. CASE i <= Len(p) /\ j <= Len(p)
    BY <1>4, <1>6, <2>1, <2>3 DEF NoRepeats
  <2>4. CASE i > Len(p) /\ j > Len(p)
    <3>1. q[i - Len(p)] = q[j - Len(p)] /\ i - Len(p) \in 1..Len(q) /\ j - Len(p) \in 1..Len(q)
      BY <1>4, <2>1, <2>4
    <3>2. i - Len(p) = j - Len(p)
      BY <1>6, <3>1 DEF NoRepeats
    <3>3. QED
      BY <3>2
  <2>5. CASE i <= Len(p) /\ j > Len(p)
    BY <1>4, <2>1, <2>2, <2>5
  <2>6. CASE i > Len(p) /\ j <= Len(p)
    BY <1>4, <2>1, <2>2, <2>6
  <2>7. QED
    BY <2>3, <2>4, <2>5, <2>6
<1>7. QED
  BY <1>1, <1>5, <1>6

\* Taking the head off.
LEMMA ItemsTail ==
    ASSUME NEW q \in Seq(Messages), q # <<>>
    PROVE  /\ Head(q) \in Messages /\ Tail(q) \in Seq(Messages)
           /\ Items(q) = {Head(q)} \cup Items(Tail(q))
           /\ NoRepeats(q) => NoRepeats(Tail(q)) /\ Head(q) \notin Items(Tail(q))
<1>1. /\ Head(q) \in Messages /\ Tail(q) \in Seq(Messages) /\ Head(q) = q[1]
      /\ Len(Tail(q)) = Len(q) - 1 /\ Len(q) >= 1
      /\ \A i \in 1..(Len(q) - 1) : Tail(q)[i] = q[i + 1]
  OBVIOUS
<1>2. Items(q) = {Head(q)} \cup Items(Tail(q))
  <2>1. \A i \in 2..Len(q) : i - 1 \in DOMAIN Tail(q) /\ Tail(q)[i - 1] = q[i]
    BY <1>1
  <2>2. Items(q) \subseteq {Head(q)} \cup Items(Tail(q))
    <3>1. SUFFICES ASSUME NEW i \in 1..Len(q), i # 1 PROVE q[i] \in Items(Tail(q))
      BY <1>1 DEF Items
    <3>2. i - 1 \in DOMAIN Tail(q) /\ Tail(q)[i - 1] = q[i]
      BY <2>1, <3>1
    <3>3. QED
      BY <3>2 DEF Items
  <2>3. {Head(q)} \cup Items(Tail(q)) \subseteq Items(q)
    BY <1>1 DEF Items
  <2>4. QED
    BY <2>2, <2>3
<1>3. ASSUME NoRepeats(q) PROVE NoRepeats(Tail(q)) /\ Head(q) \notin Items(Tail(q))
  BY <1>1, <1>3 DEF NoRepeats, Items
<1>4. QED
  BY <1>1, <1>2, <1>3

\* Splitting the last off: the turn's own message and the ones that lead it.
LEMMA ItemsFront ==
    ASSUME NEW q \in Seq(Messages), q # <<>>
    PROVE  LET front == SubSeq(q, 1, Len(q) - 1)
               last  == q[Len(q)]
           IN  /\ last \in Messages /\ front \in Seq(Messages)
               /\ Items(q) = Items(front) \cup {last}
               /\ NoRepeats(q) => NoRepeats(front) /\ last \notin Items(front)
<1> DEFINE front == SubSeq(q, 1, Len(q) - 1)
           last  == q[Len(q)]
<1>1. Len(q) \in Nat /\ Len(q) >= 1 /\ last \in Messages /\ front \in Seq(Messages)
  OBVIOUS
<1>2. front = [i \in 1..(Len(q) - 1) |-> q[i]]
  BY <1>1, SubSeqRestrict DEF Restrict
<1>3. /\ Items(q) = Items(front) \cup {last}
      /\ NoRepeats(q) => NoRepeats(front) /\ last \notin Items(front)
  <2> HIDE DEF front
  <2>1. DOMAIN front = 1..(Len(q) - 1) /\ \A i \in DOMAIN front : front[i] = q[i]
    BY <1>2
  <2>2. QED
    BY <1>1, <2>1 DEF Items, NoRepeats
<1>4. QED
  BY <1>1, <1>3

\* The order-preserving selection that `take` and the fold make holds exactly
\* the chosen messages, each once.
LEMMA PickLemma ==
    ASSUME NEW q \in Seq(Messages), NEW S
    PROVE  /\ Pick(q, S) \in Seq(Messages)
           /\ Items(Pick(q, S)) = Items(q) \cap S
           /\ NoRepeats(q) => NoRepeats(Pick(q, S))
<1> DEFINE at == {i \in DOMAIN q : q[i] \in S}
           upto(i) == {j \in at : j <= i}
           n == Cardinality(at)
           rank == [i \in at |-> Cardinality(upto(i))]
           pos(k) == CHOOSE i \in at : Cardinality(upto(i)) = k
<1>1. at \subseteq 1..Len(q) /\ IsFiniteSet(at) /\ n \in Nat
  <2>1. at \subseteq 1..Len(q) /\ Len(q) \in Nat
    OBVIOUS
  <2>2. IsFiniteSet(1..Len(q))
    BY <2>1, FS_Interval
  <2>3. IsFiniteSet(at)
    BY <2>1, <2>2, FS_Subset
  <2>4. QED
    BY <2>1, <2>3, FS_CardinalityType
<1>2. \A i \in at : /\ IsFiniteSet(upto(i)) /\ upto(i) \subseteq at /\ i \in upto(i)
                    /\ Cardinality(upto(i)) \in 1..n
  <2>1. SUFFICES ASSUME NEW i \in at
                 PROVE  /\ IsFiniteSet(upto(i)) /\ upto(i) \subseteq at /\ i \in upto(i)
                        /\ Cardinality(upto(i)) \in 1..n
    OBVIOUS
  <2>2. upto(i) \in SUBSET at /\ i \in upto(i)
    BY <1>1
  <2>3. IsFiniteSet(upto(i)) /\ Cardinality(upto(i)) <= n
    BY <1>1, <2>2, FS_Subset
  <2>4. Cardinality(upto(i)) \in Nat /\ Cardinality(upto(i)) # 0
    BY <2>2, <2>3, FS_CardinalityType, FS_EmptySet
  <2>5. QED
    BY <1>1, <2>2, <2>3, <2>4
<1>3. \A i, j \in at : i < j => Cardinality(upto(i)) # Cardinality(upto(j))
  <2>1. SUFFICES ASSUME NEW i \in at, NEW j \in at, i < j
                 PROVE  Cardinality(upto(i)) # Cardinality(upto(j))
    OBVIOUS
  <2>2. upto(i) \in SUBSET upto(j) /\ j \in upto(j) /\ j \notin upto(i)
    BY <1>1, <2>1
  <2>3. upto(i) # upto(j)
    BY <2>2
  <2>4. QED
    BY <1>2, <2>2, <2>3, FS_Subset
<1>4. rank \in Injection(at, 1..n)
  <2>1. rank \in [at -> 1..n]
    BY <1>2
  <2>2. \A i, j \in at : rank[i] = rank[j] => i = j
    <3>1. SUFFICES ASSUME NEW i \in at, NEW j \in at, i # j PROVE rank[i] # rank[j]
      OBVIOUS
    <3>2. i < j \/ j < i
      BY <1>1, <3>1
    <3>3. rank[i] = Cardinality(upto(i)) /\ rank[j] = Cardinality(upto(j))
      OBVIOUS
    <3>4. QED
      BY <1>3, <3>2, <3>3
  <2>3. QED
    BY <2>1, <2>2 DEF Injection, IsInjective
<1>5. rank \in Surjection(at, 1..n)
  <2>1. IsFiniteSet(1..n) /\ Cardinality(1..n) = n
    BY <1>1, FS_Interval
  <2>2. QED
    BY <1>4, <2>1, FS_Injection
<1>6. \A k \in 1..n : \E i \in at : Cardinality(upto(i)) = k
  BY <1>5 DEF Surjection
<1>7. \A k \in 1..n : pos(k) \in at /\ Cardinality(upto(pos(k))) = k
  BY <1>6
<1>8. \A i \in at : pos(Cardinality(upto(i))) = i
  BY <1>1, <1>2, <1>3, <1>7
<1>9. Pick(q, S) = [k \in 1..n |-> q[pos(k)]]
  BY DEF Pick
<1> HIDE DEF pos, upto, n, rank
<1>10. Pick(q, S) \in Seq(Messages) /\ Len(Pick(q, S)) = n
  BY <1>1, <1>7, <1>9
<1>11. Items(Pick(q, S)) = Items(q) \cap S
  <2>1. Items(Pick(q, S)) \subseteq Items(q) \cap S
    BY <1>7, <1>9 DEF Items
  <2>2. ASSUME NEW i \in at PROVE q[i] \in Items(Pick(q, S))
    BY <1>2, <1>8, <1>9 DEF Items
  <2>3. QED
    BY <2>1, <2>2 DEF Items
<1>12. ASSUME NoRepeats(q) PROVE NoRepeats(Pick(q, S))
  <2>1. SUFFICES ASSUME NEW k \in 1..n, NEW l \in 1..n, q[pos(k)] = q[pos(l)]
                 PROVE  k = l
    BY <1>9 DEF NoRepeats
  <2>2. pos(k) = pos(l)
    BY <1>7, <1>12, <2>1 DEF NoRepeats
  <2>3. QED
    BY <1>7, <2>2
<1>13. QED
  BY <1>10, <1>11, <1>12

-----------------------------------------------------------------------------
(* Types *)

\* How the worker, the turn task and the message being run go together: a turn
\* task has its message; a worker that waits on `get` holds nothing, unless the
\* pod is going; `running_author` is the author of what the worker is running.
Shape ==
    /\ worker \in {"refreshing", "stamping", "awaiting", "closing"} => entry \in Messages
    /\ turn # "none" => entry \in Messages
    /\ worker = "refreshing" => turn = "none"
    /\ worker \in {"stamping", "awaiting", "closing"} => turn # "none"
    /\ worker \in {"gone", "parked"} /\ ~Draining
          => entry = NoOne /\ folded = <<>> /\ turn = "none"
    /\ worker \in {"refreshing", "stamping", "awaiting"}
          => runningAuthor = IF Kind[entry] = "step" THEN NoOne ELSE Author[entry]

\* The group a turn begins with: the head, and only people's messages with it.
LEMMA BeginGroupLemma ==
    ASSUME queue \in Seq(Messages), queue # <<>>
    PROVE  /\ BeginGroup \in Seq(Messages) /\ BeginGroup # <<>>
           /\ Items(BeginGroup) = IF IsPersons(Head(queue))
                                  THEN {Head(queue)} \cup (Items(Tail(queue)) \cap Persons)
                                  ELSE {Head(queue)}
           /\ NoRepeats(queue) => NoRepeats(BeginGroup)
           /\ ~IsPersons(Head(queue)) => BeginGroup = <<Head(queue)>>
<1>1. Head(queue) \in Messages /\ Tail(queue) \in Seq(Messages)
  BY ItemsTail
<1>2. <<Head(queue)>> \in Seq(Messages) /\ Items(<<Head(queue)>>) = {Head(queue)}
      /\ NoRepeats(<<Head(queue)>>)
  BY <1>1 DEF Items, NoRepeats
<1> DEFINE rest == Pick(Tail(queue), Persons)
<1>3. /\ rest \in Seq(Messages) /\ Items(rest) = Items(Tail(queue)) \cap Persons
      /\ NoRepeats(Tail(queue)) => NoRepeats(rest)
  BY <1>1, PickLemma
<1>4. NoRepeats(queue) => NoRepeats(Tail(queue)) /\ Head(queue) \notin Items(Tail(queue))
  BY ItemsTail
<1> HIDE DEF rest
<1>5. /\ <<Head(queue)>> \o rest \in Seq(Messages)
      /\ Items(<<Head(queue)>> \o rest) = {Head(queue)} \cup Items(rest)
      /\ NoRepeats(queue) => NoRepeats(<<Head(queue)>> \o rest)
  <2>1. NoRepeats(queue) => {Head(queue)} \cap Items(rest) = {}
    BY <1>3, <1>4
  <2> DEFINE first == <<Head(queue)>>
  <2>2. first \in Seq(Messages) /\ Items(first) = {Head(queue)} /\ NoRepeats(first)
    BY <1>2
  <2> HIDE DEF first
  <2>3. /\ first \o rest \in Seq(Messages)
        /\ Items(first \o rest) = Items(first) \cup Items(rest)
        /\ NoRepeats(first) /\ NoRepeats(rest) /\ Items(first) \cap Items(rest) = {}
              => NoRepeats(first \o rest)
    BY <1>3, <2>2, ItemsConcat
  <2>4. QED
    BY <1>3, <1>4, <2>1, <2>2, <2>3 DEF first
<1>6. <<Head(queue)>> \o rest # <<>>
  BY <1>5 DEF Items
<1>7. BeginGroup = IF IsPersons(Head(queue)) THEN <<Head(queue)>> \o rest ELSE <<Head(queue)>>
  BY DEF BeginGroup, rest
<1>8. <<Head(queue)>> # <<>>
  OBVIOUS
<1>9. QED
  BY <1>2, <1>3, <1>5, <1>6, <1>7, <1>8

\* What the next turn takes from the queue and what it leaves.
LEMMA BeginLemma ==
    ASSUME TypeOK, Begin
    PROVE  /\ entry' \in Messages /\ folded' \in Seq(Messages) /\ queue' \in Seq(Messages)
           /\ Items(queue) = Items(queue') \cup Items(folded') \cup {entry'}
           /\ IF IsPersons(Head(queue))
              THEN /\ Items(folded') \cup {entry'} \subseteq Persons
                   /\ Items(queue') \cap Persons = {}
              ELSE folded' = <<>> /\ entry' = Head(queue)
           /\ NoRepeats(queue) =>
                 /\ NoRepeats(queue') /\ NoRepeats(folded')
                 /\ entry' \notin Items(queue') \cup Items(folded')
                 /\ Items(queue') \cap Items(folded') = {}
<1> DEFINE g == BeginGroup
           rest == Pick(Tail(queue), Messages \ Persons)
<1>1. queue \in Seq(Messages) /\ queue # <<>>
  BY DEF TypeOK, EngineTypeOK, Begin
<1>2. /\ g \in Seq(Messages) /\ g # <<>>
      /\ Items(g) = IF IsPersons(Head(queue))
                    THEN {Head(queue)} \cup (Items(Tail(queue)) \cap Persons)
                    ELSE {Head(queue)}
      /\ NoRepeats(queue) => NoRepeats(g)
      /\ ~IsPersons(Head(queue)) => g = <<Head(queue)>>
  BY <1>1, BeginGroupLemma
<1>3. /\ entry' = g[Len(g)] /\ folded' = SubSeq(g, 1, Len(g) - 1)
      /\ queue' = IF IsPersons(Head(queue)) THEN rest ELSE Tail(queue)
  BY DEF Begin
<1>4. /\ Head(queue) \in Messages /\ Tail(queue) \in Seq(Messages)
      /\ Items(queue) = {Head(queue)} \cup Items(Tail(queue))
      /\ NoRepeats(queue) => NoRepeats(Tail(queue)) /\ Head(queue) \notin Items(Tail(queue))
  BY <1>1, ItemsTail
<1>5. /\ rest \in Seq(Messages) /\ Items(rest) = Items(Tail(queue)) \cap (Messages \ Persons)
      /\ NoRepeats(Tail(queue)) => NoRepeats(rest)
  BY <1>4, PickLemma
<1> HIDE DEF g, rest
<1>6. /\ g[Len(g)] \in Messages /\ SubSeq(g, 1, Len(g) - 1) \in Seq(Messages)
      /\ Items(g) = Items(SubSeq(g, 1, Len(g) - 1)) \cup {g[Len(g)]}
      /\ NoRepeats(g) => NoRepeats(SubSeq(g, 1, Len(g) - 1))
                         /\ g[Len(g)] \notin Items(SubSeq(g, 1, Len(g) - 1))
  BY <1>2, ItemsFront
<1>7. Items(Tail(queue)) \subseteq Messages
  BY <1>4 DEF Items
<1>8. Persons \subseteq Messages /\ (IsPersons(Head(queue)) => Head(queue) \in Persons)
  BY <1>4 DEF Persons
<1>9. CASE IsPersons(Head(queue))
  <2>1. queue' = rest /\ Items(folded') \cup {entry'} = Items(g) /\ Items(g) \subseteq Persons
    BY <1>2, <1>3, <1>6, <1>8, <1>9
  <2>2. Items(queue) = Items(queue') \cup Items(g) /\ Items(queue') \cap Persons = {}
    BY <1>2, <1>4, <1>5, <1>7, <1>8, <1>9, <2>1
  <2>3. QED
    BY <1>2, <1>3, <1>4, <1>5, <1>6, <1>9, <2>1, <2>2
<1>10. CASE ~IsPersons(Head(queue))
  <2>1. g = <<Head(queue)>> /\ Len(g) = 1 /\ g[1] = Head(queue)
    BY <1>2, <1>10
  <2>2. entry' = Head(queue) /\ folded' = <<>> /\ queue' = Tail(queue)
    <3>1. SubSeq(g, 1, 0) = <<>>
      BY SubSeqEmpty
    <3>2. QED
      BY <1>3, <1>10, <2>1, <3>1
  <2>3. Items(<<>>) = {} /\ NoRepeats(<<>>) /\ <<>> \in Seq(Messages)
    BY DEF Items, NoRepeats
  <2>4. QED
    BY <1>4, <1>10, <2>2, <2>3
<1>11. QED
  BY <1>9, <1>10

\* Every step keeps the types and the shape.
LEMMA TypeStep ==
    ASSUME TypeOK, Shape, [Next]_vars
    PROVE  TypeOK' /\ Shape'
<1> USE TurnQueueAssumption
<1>1. ASSUME NEW m \in Messages, Prepare(m) PROVE TypeOK' /\ Shape'
  BY <1>1 DEF Prepare, TypeOK, EngineTypeOK, FlagTypeOK, RecordTypeOK, Shape, Draining,
     Live, Finish, vars, lineVars, workerVars, turnVars, sendVars, recordVars, drainVars,
     stopVars, envVars
<1>2. ASSUME NEW m \in Messages, PrepareFails(m) PROVE TypeOK' /\ Shape'
  BY <1>2 DEF PrepareFails, TypeOK, EngineTypeOK, FlagTypeOK, RecordTypeOK, Shape,
     Draining, Live, Finish, vars, lineVars, workerVars, turnVars, sendVars, recordVars,
     drainVars, stopVars, envVars
<1>3. ASSUME NEW m \in Messages, Enqueue(m) PROVE TypeOK' /\ Shape'
  BY <1>3, ItemsAppend DEF Enqueue, TakesOver, TypeOK, EngineTypeOK, FlagTypeOK,
     RecordTypeOK, Shape, Draining, Live, Finish, vars, lineVars, workerVars, turnVars,
     sendVars, recordVars, drainVars, stopVars, envVars
<1>4. ASSUME NEW m \in Messages, PeerTakes(m) PROVE TypeOK' /\ Shape'
  BY <1>4 DEF PeerTakes, TypeOK, EngineTypeOK, FlagTypeOK, RecordTypeOK, Shape, Draining,
     Live, Finish, vars, lineVars, workerVars, turnVars, sendVars, recordVars, drainVars,
     stopVars, envVars
<1>5. ASSUME NEW m \in Messages, DrainRelease(m) PROVE TypeOK' /\ Shape'
  BY <1>5 DEF DrainRelease, TypeOK, EngineTypeOK, FlagTypeOK, RecordTypeOK, Shape,
     Draining, Live, Finish, vars, lineVars, workerVars, turnVars, sendVars, recordVars,
     drainVars, stopVars, envVars
<1>6. CASE SkipOnDrain
  BY <1>6, ItemsTail DEF SkipOnDrain, TypeOK, EngineTypeOK, FlagTypeOK, RecordTypeOK,
     Shape, Draining, Live, Finish, vars, lineVars, workerVars, turnVars, sendVars,
     recordVars, drainVars, stopVars, envVars
<1>7. CASE Decline
  BY <1>7, ItemsTail DEF Decline, OnComplete, Verdicts, SettledClaim, TypeOK, EngineTypeOK,
     FlagTypeOK, RecordTypeOK, Shape, Draining, Live, Finish, vars, lineVars, workerVars,
     turnVars, sendVars, recordVars, drainVars, stopVars, envVars
<1>8. CASE Begin
  <2>1. entry' \in Messages /\ folded' \in Seq(Messages) /\ queue' \in Seq(Messages)
    BY <1>8, BeginLemma
  <2>2. /\ runningAuthor' = IF Kind[entry'] = "step" THEN NoOne ELSE Author[entry']
        /\ interruptedBy' = NoOne /\ ~Draining
        /\ UNCHANGED <<sendVars, woken, recordVars, drainVars, stopVars, envVars, myEpoch>>
    BY <1>8 DEF Begin, NewTurn, turnVars
  <2>3. \/ /\ turn' = "created" /\ worker' = "stamping" /\ cancel' = "no"
           /\ unwinding' = FALSE /\ outcome' = "none" /\ watcher' = FALSE
        \/ worker' = "refreshing" /\ turn = "none" /\ UNCHANGED turnVars
    BY <1>8 DEF Begin, NewTurn, Shape
  <2>4. EngineTypeOK'
    BY <2>1, <2>2, <2>3 DEF TypeOK, EngineTypeOK, turnVars
  <2>5. FlagTypeOK'
    BY <2>2, <2>3 DEF TypeOK, FlagTypeOK, turnVars, drainVars
  <2>6. RecordTypeOK'
    BY <2>2 DEF TypeOK, RecordTypeOK, sendVars, recordVars, drainVars, stopVars, envVars
  <2>7. Shape'
    BY <2>1, <2>2, <2>3 DEF Shape, turnVars
  <2>8. QED
    BY <2>4, <2>5, <2>6, <2>7 DEF TypeOK
<1>9. CASE HandBack
  <2>1. entry \in Messages
    BY <1>9 DEF HandBack, Shape
  <2>2. PutFront(Append(folded, entry), queue) \in Seq(Messages)
    BY <2>1, ItemsAppend, ItemsConcat DEF TypeOK, EngineTypeOK, PutFront
  <2>3. QED
    BY <1>9, <2>2 DEF HandBack, TypeOK, EngineTypeOK, FlagTypeOK, RecordTypeOK, Shape,
       Draining, Live, Finish, vars, lineVars, workerVars, turnVars, sendVars, recordVars,
       drainVars, stopVars, envVars
<1>10. CASE StartTurn
  <2>1. EngineTypeOK' /\ FlagTypeOK'
    BY <1>10 DEF StartTurn, NewTurn, TypeOK, EngineTypeOK, FlagTypeOK, lineVars, drainVars
  <2>2. RecordTypeOK'
    BY <1>10 DEF StartTurn, NewTurn, TypeOK, RecordTypeOK, sendVars, recordVars, drainVars,
       stopVars, envVars
  <2>3. Shape'
    BY <1>10 DEF StartTurn, NewTurn, Shape, lineVars
  <2>4. QED
    BY <2>1, <2>2, <2>3 DEF TypeOK
<1>11. CASE StampEpoch
  BY <1>11 DEF StampEpoch, TypeOK, EngineTypeOK, FlagTypeOK, RecordTypeOK, Shape, Draining,
     Live, Finish, vars, lineVars, workerVars, turnVars, sendVars, recordVars, drainVars,
     stopVars, envVars
<1>12. CASE AfterTurn
  <2>1. entry \in Messages
    BY <1>12 DEF AfterTurn, Shape
  <2>2. queue' \in Seq(Messages)
    BY <1>12, ItemsConcat DEF TypeOK, EngineTypeOK, AfterTurn, PutFront, Returned
  <2>3. woken' \in SUBSET Messages
    BY <1>12, <2>1 DEF AfterTurn, WakesAfter, TypeOK, EngineTypeOK, RecordTypeOK, Items
  <2>4. claim' \in [Messages -> {"none", "mine", "lost", "done"}]
    BY <1>12 DEF AfterTurn, Finish, TypeOK, RecordTypeOK
  <2>5. /\ folded' = <<>> /\ entry' = NoOne /\ worker' \in {"gone", "parked"}
        /\ runningAuthor' = NoOne /\ turn' = "none" /\ cancel' = "no" /\ watcher' = FALSE
        /\ unwinding' = FALSE /\ outcome' = "none" /\ myEpoch' = 0
        /\ UNCHANGED <<interruptedBy, sendVars, ending, unsaved, faults, drainVars,
                       stopVars, envVars>>
    BY <1>12 DEF AfterTurn
  <2>6. FlagTypeOK'
    BY <2>5 DEF TypeOK, FlagTypeOK, drainVars
  <2>7. QED
    BY <2>2, <2>3, <2>4, <2>5, <2>6 DEF TypeOK, EngineTypeOK, RecordTypeOK, Shape, vars,
       lineVars, workerVars, turnVars, sendVars, recordVars, drainVars, stopVars, envVars
<1>13. CASE TurnFirstStep
  BY <1>13 DEF TurnFirstStep, TypeOK, EngineTypeOK, FlagTypeOK, RecordTypeOK, Shape,
     Draining, Live, Finish, vars, lineVars, workerVars, turnVars, sendVars, recordVars,
     drainVars, stopVars, envVars
<1>14. CASE TurnNeverRan
  BY <1>14 DEF TurnNeverRan, TypeOK, EngineTypeOK, FlagTypeOK, RecordTypeOK, Shape,
     Draining, Live, Finish, vars, lineVars, workerVars, turnVars, sendVars, recordVars,
     drainVars, stopVars, envVars
<1>15. CASE ReadInterjections
  <2>1. folded' \in Seq(Messages) /\ queue' \in Seq(Messages)
    BY <1>15, PickLemma, ItemsConcat DEF ReadInterjections, TypeOK, EngineTypeOK
  <2>2. QED
    BY <1>15, <2>1 DEF ReadInterjections, TypeOK, EngineTypeOK, FlagTypeOK, RecordTypeOK,
       Shape, Draining, Live, Finish, vars, lineVars, workerVars, turnVars, sendVars,
       recordVars, drainVars, stopVars, envVars
<1>16. CASE TurnEnds
  BY <1>16 DEF TurnEnds, OnComplete, Verdicts, SettledClaim, Items, TypeOK, EngineTypeOK,
     FlagTypeOK, RecordTypeOK, Shape, Draining, Live, Finish, vars, lineVars, workerVars,
     turnVars, sendVars, recordVars, drainVars, stopVars, envVars
<1>17. CASE TurnCancelled
  BY <1>17 DEF TurnCancelled, OnComplete, Verdicts, SettledClaim, TypeOK, EngineTypeOK,
     FlagTypeOK, RecordTypeOK, Shape, Draining, Live, Finish, vars, lineVars, workerVars,
     turnVars, sendVars, recordVars, drainVars, stopVars, envVars
<1>18. CASE FlushEnds
  BY <1>18 DEF FlushEnds, TypeOK, EngineTypeOK, FlagTypeOK, RecordTypeOK, Shape, Draining,
     Live, Finish, vars, lineVars, workerVars, turnVars, sendVars, recordVars, drainVars,
     stopVars, envVars
<1>19. CASE FlushCut
  BY <1>19 DEF FlushCut, TypeOK, EngineTypeOK, FlagTypeOK, RecordTypeOK, Shape, Draining,
     Live, Finish, vars, lineVars, workerVars, turnVars, sendVars, recordVars, drainVars,
     stopVars, envVars
<1>20. CASE DeliverCancel
  BY <1>20 DEF DeliverCancel, TypeOK, EngineTypeOK, FlagTypeOK, RecordTypeOK, Shape,
     Draining, Live, Finish, vars, lineVars, workerVars, turnVars, sendVars, recordVars,
     drainVars, stopVars, envVars
<1>21. CASE WatchEpoch
  <2>1. /\ watcher' = FALSE /\ cancel' = "now"
        /\ UNCHANGED <<lineVars, workerVars, turn, unwinding, outcome, myEpoch, sendVars,
                       woken, recordVars, drainVars, stopVars, envVars>>
    BY <1>21 DEF WatchEpoch
  <2>2. FlagTypeOK'
    BY <2>1 DEF TypeOK, FlagTypeOK, drainVars
  <2>3. QED
    BY <2>1, <2>2 DEF TypeOK, EngineTypeOK, RecordTypeOK, Shape, Draining, vars, lineVars,
       workerVars, turnVars, sendVars, recordVars, drainVars, stopVars, envVars
<1>22. CASE StopAdvance
  <2>1. EngineTypeOK' /\ FlagTypeOK' /\ Shape'
    BY <1>22 DEF StopAdvance, TypeOK, EngineTypeOK, FlagTypeOK, Shape, Draining, lineVars,
       workerVars, turnVars, drainVars
  <2>2. RecordTypeOK'
    BY <1>22 DEF StopAdvance, TypeOK, RecordTypeOK, turnVars, sendVars, recordVars,
       drainVars
  <2>3. QED
    BY <2>1, <2>2 DEF TypeOK
<1>23. CASE StopLand
  BY <1>23 DEF StopLand, TypeOK, EngineTypeOK, FlagTypeOK, RecordTypeOK, Shape, Draining,
     Live, Finish, vars, lineVars, workerVars, turnVars, sendVars, recordVars, drainVars,
     stopVars, envVars
<1>24. CASE PeerAdvances
  BY <1>24 DEF PeerAdvances, TypeOK, EngineTypeOK, FlagTypeOK, RecordTypeOK, Shape,
     Draining, Live, Finish, vars, lineVars, workerVars, turnVars, sendVars, recordVars,
     drainVars, stopVars, envVars
<1>25. CASE DrainBegin
  BY <1>25 DEF DrainBegin, TypeOK, EngineTypeOK, FlagTypeOK, RecordTypeOK, Shape, Draining,
     Live, Finish, vars, lineVars, workerVars, turnVars, sendVars, recordVars, drainVars,
     stopVars, envVars
<1>26. CASE DrainDeadline
  BY <1>26 DEF DrainDeadline, TypeOK, EngineTypeOK, FlagTypeOK, RecordTypeOK, Shape,
     Draining, Live, Finish, vars, lineVars, workerVars, turnVars, sendVars, recordVars,
     drainVars, stopVars, envVars
<1>27. CASE DrainCancel
  BY <1>27 DEF DrainCancel, TypeOK, EngineTypeOK, FlagTypeOK, RecordTypeOK, Shape,
     Draining, Live, Finish, vars, lineVars, workerVars, turnVars, sendVars, recordVars,
     drainVars, stopVars, envVars
<1>28. CASE DrainClose
  BY <1>28 DEF DrainClose, TypeOK, EngineTypeOK, FlagTypeOK, RecordTypeOK, Shape, Draining,
     Live, Finish, vars, lineVars, workerVars, turnVars, sendVars, recordVars, drainVars,
     stopVars, envVars
<1>29. ASSUME NEW by \in Users \cup {NoOne}, StopPress(by) PROVE TypeOK' /\ Shape'
  BY <1>29 DEF StopPress, TypeOK, EngineTypeOK, FlagTypeOK, RecordTypeOK, Shape, Draining,
     Live, Finish, vars, lineVars, workerVars, turnVars, sendVars, recordVars, drainVars,
     stopVars, envVars
<1>30. CASE UNCHANGED vars
  BY <1>30 DEF TypeOK, EngineTypeOK, FlagTypeOK, RecordTypeOK, Shape, Draining, vars,
     lineVars, workerVars, turnVars, sendVars, recordVars, drainVars, stopVars, envVars
<1>31. QED
  BY <1>1, <1>2, <1>3, <1>4, <1>5, <1>6, <1>7, <1>8, <1>9, <1>10, <1>11, <1>12, <1>13,
     <1>14, <1>15, <1>16, <1>17, <1>18, <1>19, <1>20, <1>21, <1>22, <1>23, <1>24, <1>25,
     <1>26, <1>27, <1>28, <1>29, <1>30 DEF Next

LEMMA InitTypes == ASSUME Init PROVE TypeOK /\ Shape
<1> USE TurnQueueAssumption
<1>1. EngineTypeOK
  BY DEF Init, EngineTypeOK
<1>2. FlagTypeOK
  BY DEF Init, FlagTypeOK
<1>3. RecordTypeOK
  BY DEF Init, RecordTypeOK
<1>4. Shape
  BY DEF Init, Shape
<1>5. QED
  BY <1>1, <1>2, <1>3, <1>4 DEF TypeOK

\* Every variable keeps its type in every behaviour: what a Stop, a takeover or
\* a drain leaves behind in the queue is always a line of messages.
THEOREM TypeCorrect == Spec => []TypeOK
<1>1. Init => TypeOK /\ Shape
  BY InitTypes
<1>2. TypeOK /\ Shape /\ [Next]_vars => (TypeOK /\ Shape)'
  BY TypeStep
<1>3. QED
  BY <1>1, <1>2, PTL DEF Spec

-----------------------------------------------------------------------------
(* No message is lost and none is held twice *)

\* Every step moves messages from one place to one other.
LEMMA HeldStep ==
    ASSUME TypeOK, Shape, HeldOnce, [Next]_vars
    PROVE  HeldOnce'
<1> USE TurnQueueAssumption
<1>1. ASSUME NEW m \in Messages, Prepare(m) PROVE HeldOnce'
  BY <1>1 DEF Prepare, TypeOK, EngineTypeOK, RecordTypeOK, HeldOnce, vars, lineVars,
     workerVars, turnVars, sendVars, recordVars, drainVars, stopVars, envVars
<1>2. ASSUME NEW m \in Messages, PrepareFails(m) PROVE HeldOnce'
  BY <1>2 DEF PrepareFails, TypeOK, EngineTypeOK, RecordTypeOK, HeldOnce, vars, lineVars,
     workerVars, turnVars, sendVars, recordVars, drainVars, stopVars, envVars
<1>3. ASSUME NEW m \in Messages, Enqueue(m) PROVE HeldOnce'
  <2>1. m \notin Items(queue) \cup Items(folded) \cup {entry} \cup woken
    <3>1. sent[m] # "enqueued" /\ m # NoOne
      BY <1>3 DEF Enqueue
    <3>2. QED
      BY <3>1 DEF HeldOnce
  <2>2. /\ queue' = Append(queue, m) /\ UNCHANGED <<folded, entry, woken>>
        /\ sent' = [sent EXCEPT ![m] = "enqueued"]
    BY <1>3 DEF Enqueue
  <2>3. Items(queue') = Items(queue) \cup {m} /\ NoRepeats(queue')
    BY <2>1, <2>2, ItemsAppend DEF TypeOK, EngineTypeOK, HeldOnce
  <2>4. {x \in Messages : sent'[x] = "enqueued"} = {x \in Messages : sent[x] = "enqueued"} \cup {m}
    BY <2>2 DEF TypeOK, RecordTypeOK
  <2>5. QED
    BY <2>1, <2>2, <2>3, <2>4 DEF HeldOnce
<1>4. ASSUME NEW m \in Messages, PeerTakes(m) PROVE HeldOnce'
  BY <1>4 DEF PeerTakes, HeldOnce, vars, lineVars, workerVars, turnVars, sendVars,
     recordVars, drainVars, stopVars, envVars
<1>5. ASSUME NEW m \in Messages, DrainRelease(m) PROVE HeldOnce'
  BY <1>5 DEF DrainRelease, HeldOnce, vars, lineVars, workerVars, turnVars, sendVars,
     recordVars, drainVars, stopVars, envVars
<1>6. CASE SkipOnDrain
  <2>1. /\ queue # <<>> /\ queue' = Tail(queue) /\ woken' = woken \cup {Head(queue)}
        /\ UNCHANGED <<folded, entry, sent>>
    BY <1>6 DEF SkipOnDrain, sendVars
  <2>2. QED
    BY <2>1, ItemsTail DEF TypeOK, EngineTypeOK, HeldOnce
<1>7. CASE Decline
  <2>1. /\ queue # <<>> /\ queue' = Tail(queue) /\ woken' = woken \cup {Head(queue)}
        /\ UNCHANGED <<folded, entry, sent>>
    BY <1>7 DEF Decline, sendVars
  <2>2. QED
    BY <2>1, ItemsTail DEF TypeOK, EngineTypeOK, HeldOnce
<1>8. CASE Begin
  <2>1. entry = NoOne /\ Items(folded) = {} /\ UNCHANGED <<woken, sent>>
    BY <1>8 DEF Begin, Shape, Items, sendVars
  <2>2. NoRepeats(queue)
    BY DEF HeldOnce
  <2>3. /\ Items(queue) = Items(queue') \cup Items(folded') \cup {entry'}
        /\ entry' \in Messages
        /\ NoRepeats(queue') /\ NoRepeats(folded')
        /\ entry' \notin Items(queue') \cup Items(folded')
        /\ Items(queue') \cap Items(folded') = {}
    BY <1>8, <2>2, BeginLemma
  <2>4. QED
    BY <2>1, <2>3 DEF HeldOnce
<1>9. CASE HandBack
  <2>1. entry \in Messages /\ folded \in Seq(Messages) /\ queue \in Seq(Messages)
    BY <1>9 DEF HandBack, Shape, TypeOK, EngineTypeOK
  <2>2. /\ queue' = Append(folded, entry) \o queue /\ folded' = <<>> /\ entry' = NoOne
        /\ UNCHANGED <<woken, sent>>
    BY <1>9 DEF HandBack, PutFront, sendVars
  <2>3. /\ Append(folded, entry) \in Seq(Messages) /\ NoRepeats(Append(folded, entry))
        /\ Items(Append(folded, entry)) = Items(folded) \cup {entry}
    BY <2>1, ItemsAppend DEF HeldOnce
  <2>4. Items(Append(folded, entry)) \cap Items(queue) = {} /\ NoRepeats(queue)
    BY <2>3 DEF HeldOnce
  <2>5. Items(queue') = Items(folded) \cup {entry} \cup Items(queue) /\ NoRepeats(queue')
    BY <2>1, <2>2, <2>3, <2>4, ItemsConcat
  <2>6. Items(folded') = {} /\ NoRepeats(folded') /\ NoOne \notin Items(queue')
    BY <2>1, <2>2, <2>5 DEF Items, NoRepeats
  <2>7. QED
    BY <2>2, <2>5, <2>6 DEF HeldOnce
<1>10. CASE StartTurn
  BY <1>10 DEF StartTurn, HeldOnce, vars, lineVars, workerVars, turnVars, sendVars,
     recordVars, drainVars, stopVars, envVars
<1>11. CASE StampEpoch
  BY <1>11 DEF StampEpoch, HeldOnce, vars, lineVars, workerVars, turnVars, sendVars,
     recordVars, drainVars, stopVars, envVars
<1>12. CASE AfterTurn
  <2>1. entry \in Messages /\ folded \in Seq(Messages) /\ queue \in Seq(Messages)
    BY <1>12 DEF AfterTurn, Shape, TypeOK, EngineTypeOK
  <2>2. /\ folded' = <<>> /\ entry' = NoOne /\ sent' = sent
        /\ Items(folded') = {} /\ NoRepeats(folded')
    BY <1>12 DEF AfterTurn, sendVars, Items, NoRepeats
  <2>3. \/ queue' = folded \o queue /\ woken' = woken \cup {entry}
        \/ queue' = queue /\ woken' = woken \cup {entry} \cup Items(folded)
    BY <1>12 DEF AfterTurn, WakesAfter, ReturnsFolded, PutFront, Returned
  <2>4. CASE queue' = folded \o queue /\ woken' = woken \cup {entry}
    <3>1. Items(queue') = Items(folded) \cup Items(queue) /\ NoRepeats(queue')
      BY <2>1, <2>4, ItemsConcat DEF HeldOnce
    <3>2. NoOne \notin Items(queue') \cup woken'
      BY <2>1, <2>4, <3>1 DEF Items, TypeOK, RecordTypeOK
    <3>3. QED
      BY <2>1, <2>2, <2>4, <3>1, <3>2 DEF HeldOnce
  <2>5. CASE queue' = queue /\ woken' = woken \cup {entry} \cup Items(folded)
    <3>1. NoOne \notin Items(queue') \cup woken'
      BY <2>1, <2>5 DEF Items, TypeOK, RecordTypeOK
    <3>2. QED
      BY <2>1, <2>2, <2>5, <3>1 DEF HeldOnce
  <2>6. QED
    BY <2>3, <2>4, <2>5
<1>13. CASE TurnFirstStep
  BY <1>13 DEF TurnFirstStep, HeldOnce, vars, lineVars, workerVars, turnVars, sendVars,
     recordVars, drainVars, stopVars, envVars
<1>14. CASE TurnNeverRan
  BY <1>14 DEF TurnNeverRan, HeldOnce, vars, lineVars, workerVars, turnVars, sendVars,
     recordVars, drainVars, stopVars, envVars
<1>15. CASE ReadInterjections
  <2> DEFINE read == Pick(queue, Readable)
             kept == Pick(queue, Messages \ Readable)
  <2>1. folded \in Seq(Messages) /\ queue \in Seq(Messages) /\ Items(queue) \subseteq Messages
    BY DEF TypeOK, EngineTypeOK, Items
  <2>2. folded' = folded \o read /\ queue' = kept /\ UNCHANGED <<entry, woken, sent>>
    BY <1>15 DEF ReadInterjections, sendVars
  <2>3. /\ read \in Seq(Messages) /\ Items(read) = Items(queue) \cap Readable
        /\ kept \in Seq(Messages) /\ Items(kept) = Items(queue) \cap (Messages \ Readable)
        /\ NoRepeats(read) /\ NoRepeats(kept)
    BY <2>1, PickLemma DEF HeldOnce
  <2> HIDE DEF read, kept
  <2>4. Items(folded') = Items(folded) \cup Items(read) /\ NoRepeats(folded')
    BY <2>1, <2>2, <2>3, ItemsConcat DEF HeldOnce
  <2>5. QED
    BY <2>1, <2>2, <2>3, <2>4 DEF HeldOnce
<1>16. CASE TurnEnds
  BY <1>16 DEF TurnEnds, HeldOnce, vars, lineVars, workerVars, turnVars, sendVars,
     recordVars, drainVars, stopVars, envVars
<1>17. CASE TurnCancelled
  BY <1>17 DEF TurnCancelled, HeldOnce, vars, lineVars, workerVars, turnVars, sendVars,
     recordVars, drainVars, stopVars, envVars
<1>18. CASE FlushEnds
  BY <1>18 DEF FlushEnds, HeldOnce, vars, lineVars, workerVars, turnVars, sendVars,
     recordVars, drainVars, stopVars, envVars
<1>19. CASE FlushCut
  BY <1>19 DEF FlushCut, HeldOnce, vars, lineVars, workerVars, turnVars, sendVars,
     recordVars, drainVars, stopVars, envVars
<1>20. CASE DeliverCancel
  BY <1>20 DEF DeliverCancel, HeldOnce, vars, lineVars, workerVars, turnVars, sendVars,
     recordVars, drainVars, stopVars, envVars
<1>21. CASE WatchEpoch
  BY <1>21 DEF WatchEpoch, HeldOnce, vars, lineVars, workerVars, turnVars, sendVars,
     recordVars, drainVars, stopVars, envVars
<1>22. CASE StopAdvance
  BY <1>22 DEF StopAdvance, HeldOnce, vars, lineVars, workerVars, turnVars, sendVars,
     recordVars, drainVars, stopVars, envVars
<1>23. CASE StopLand
  BY <1>23 DEF StopLand, HeldOnce, vars, lineVars, workerVars, turnVars, sendVars,
     recordVars, drainVars, stopVars, envVars
<1>24. CASE PeerAdvances
  BY <1>24 DEF PeerAdvances, HeldOnce, vars, lineVars, workerVars, turnVars, sendVars,
     recordVars, drainVars, stopVars, envVars
<1>25. CASE DrainBegin
  BY <1>25 DEF DrainBegin, HeldOnce, vars, lineVars, workerVars, turnVars, sendVars,
     recordVars, drainVars, stopVars, envVars
<1>26. CASE DrainDeadline
  BY <1>26 DEF DrainDeadline, HeldOnce, vars, lineVars, workerVars, turnVars, sendVars,
     recordVars, drainVars, stopVars, envVars
<1>27. CASE DrainCancel
  BY <1>27 DEF DrainCancel, HeldOnce, vars, lineVars, workerVars, turnVars, sendVars,
     recordVars, drainVars, stopVars, envVars
<1>28. CASE DrainClose
  BY <1>28 DEF DrainClose, HeldOnce, vars, lineVars, workerVars, turnVars, sendVars,
     recordVars, drainVars, stopVars, envVars
<1>29. ASSUME NEW by \in Users \cup {NoOne}, StopPress(by) PROVE HeldOnce'
  BY <1>29 DEF StopPress, HeldOnce, vars, lineVars, workerVars, turnVars, sendVars,
     recordVars, drainVars, stopVars, envVars
<1>30. CASE UNCHANGED vars
  BY <1>30 DEF HeldOnce, vars, lineVars, workerVars, turnVars, sendVars, recordVars,
     drainVars, stopVars, envVars
<1>31. QED
  BY <1>1, <1>2, <1>3, <1>4, <1>5, <1>6, <1>7, <1>8, <1>9, <1>10, <1>11, <1>12, <1>13,
     <1>14, <1>15, <1>16, <1>17, <1>18, <1>19, <1>20, <1>21, <1>22, <1>23, <1>24, <1>25,
     <1>26, <1>27, <1>28, <1>29, <1>30 DEF Next

\* What the engine's invariants rest on.
Core == TypeOK /\ Shape /\ HeldOnce

LEMMA CoreInvariant == Spec => []Core
<1>1. Init => Core
  <2>1. SUFFICES ASSUME Init PROVE Core
    OBVIOUS
  <2>2. TypeOK /\ Shape
    BY <2>1, InitTypes
  <2>3. HeldOnce
    BY <2>1 DEF Init, HeldOnce, Items, NoRepeats
  <2>4. QED
    BY <2>2, <2>3 DEF Core
<1>2. Core /\ [Next]_vars => Core'
  BY TypeStep, HeldStep DEF Core
<1>3. QED
  BY <1>1, <1>2, PTL DEF Spec

\* Folds, reads, takeovers, Stops and drains never lose a queued message and
\* never hold it in two places.
THEOREM HeldOnceHolds == Spec => []HeldOnce
BY CoreInvariant, PTL DEF Core

-----------------------------------------------------------------------------
(* A stopped send *)

\* A send is marked only while nothing holds it yet, and the worker and the
\* reader pass over marked messages.
LEMMA StoppedStep ==
    ASSUME Core, StoppedSendNeverRuns, [Next]_vars
    PROVE  StoppedSendNeverRuns'
<1> USE TurnQueueAssumption
<1>1. ASSUME NEW m \in Messages, Prepare(m) PROVE StoppedSendNeverRuns'
  <2>1. m \notin woken
    BY <1>1 DEF Prepare, Core, HeldOnce
  <2>2. QED
    BY <1>1, <2>1 DEF Prepare, Core, TypeOK, EngineTypeOK, RecordTypeOK,
       StoppedSendNeverRuns, vars, lineVars, workerVars, turnVars, sendVars, recordVars,
       drainVars, stopVars, envVars
<1>2. ASSUME NEW m \in Messages, PrepareFails(m) PROVE StoppedSendNeverRuns'
  <2>1. m \notin woken
    BY <1>2 DEF PrepareFails, Core, HeldOnce
  <2>2. QED
    BY <1>2, <2>1 DEF PrepareFails, Finish, Core, TypeOK, EngineTypeOK, RecordTypeOK,
       StoppedSendNeverRuns, vars, lineVars, workerVars, turnVars, sendVars, recordVars,
       drainVars, stopVars, envVars
<1>3. ASSUME NEW m \in Messages, Enqueue(m) PROVE StoppedSendNeverRuns'
  BY <1>3 DEF Enqueue, StoppedSendNeverRuns, vars, lineVars, workerVars, turnVars,
     sendVars, recordVars, drainVars, stopVars, envVars
<1>4. ASSUME NEW m \in Messages, PeerTakes(m) PROVE StoppedSendNeverRuns'
  BY <1>4 DEF PeerTakes, Core, TypeOK, EngineTypeOK, RecordTypeOK, StoppedSendNeverRuns,
     vars, lineVars, workerVars, turnVars, sendVars, recordVars, drainVars, stopVars,
     envVars
<1>5. ASSUME NEW m \in Messages, DrainRelease(m) PROVE StoppedSendNeverRuns'
  BY <1>5 DEF DrainRelease, Core, TypeOK, EngineTypeOK, RecordTypeOK, StoppedSendNeverRuns,
     vars, lineVars, workerVars, turnVars, sendVars, recordVars, drainVars, stopVars,
     envVars
<1>6. CASE SkipOnDrain
  BY <1>6 DEF SkipOnDrain, StoppedSendNeverRuns, vars, lineVars, workerVars, turnVars,
     sendVars, recordVars, drainVars, stopVars, envVars
<1>7. CASE Decline
  <2>1. queue # <<>> /\ Head(queue) \in Messages
    BY <1>7, ItemsTail DEF Decline, Core, TypeOK, EngineTypeOK, RecordTypeOK
  <2>2. Head(queue) # entry /\ Head(queue) \notin Items(folded)
    BY <2>1, ItemsTail DEF Core, HeldOnce, TypeOK, EngineTypeOK, RecordTypeOK
  <2>3. /\ woken' = woken \cup {Head(queue)} /\ UNCHANGED <<folded, entry, marked>>
        /\ \A x \in Messages : x # Head(queue) =>
              /\ ending'[x] = ending[x] /\ (x \in unsaved => x \in unsaved')
              /\ (claim[x] \in {"lost", "done"} => claim'[x] \in {"lost", "done"})
    BY <1>7, <2>1 DEF Decline, OnComplete, Verdicts, SettledClaim, Finish, sendVars, Core,
       TypeOK, EngineTypeOK, RecordTypeOK
  <2>4. LET x == Head(queue)
        IN  ending'[x] = "declined" \/ x \in unsaved' \/ claim'[x] \in {"lost", "done"}
    BY <1>7, <2>1 DEF Decline, OnComplete, Verdicts, ClaimIsMine, SettledClaim, Core,
       TypeOK, EngineTypeOK, RecordTypeOK
  <2>5. marked \subseteq Messages
    BY DEF Core, TypeOK, EngineTypeOK, RecordTypeOK
  <2>6. QED
    BY <2>3, <2>4, <2>5 DEF StoppedSendNeverRuns
<1>8. CASE Begin
  <2>1. entry' \notin marked /\ \A x \in Items(folded') : x \notin marked
    <3>1. CASE IsPersons(Head(queue))
      BY <1>8, <3>1, BeginLemma DEF Core, Persons, IsPersons
    <3>2. CASE ~IsPersons(Head(queue))
      BY <1>8, <3>2, BeginLemma DEF Core, Begin, Items
    <3>3. QED
      BY <3>1, <3>2
  <2>2. UNCHANGED <<marked, woken, ending, unsaved, claim>>
    BY <1>8 DEF Begin, sendVars, recordVars
  <2>3. QED
    BY <2>1, <2>2 DEF StoppedSendNeverRuns
<1>9. CASE HandBack
  BY <1>9 DEF HandBack, Core, Items, TypeOK, EngineTypeOK, RecordTypeOK,
     StoppedSendNeverRuns, vars, lineVars, workerVars, turnVars, sendVars, recordVars,
     drainVars, stopVars, envVars
<1>10. CASE StartTurn
  BY <1>10 DEF StartTurn, StoppedSendNeverRuns, vars, lineVars, workerVars, turnVars,
     sendVars, recordVars, drainVars, stopVars, envVars
<1>11. CASE StampEpoch
  BY <1>11 DEF StampEpoch, StoppedSendNeverRuns, vars, lineVars, workerVars, turnVars,
     sendVars, recordVars, drainVars, stopVars, envVars
<1>12. CASE AfterTurn
  <2>1. \A x \in woken' \ woken : x = entry \/ x \in Items(folded)
    BY <1>12 DEF AfterTurn, WakesAfter
  <2>2. /\ entry' = NoOne /\ folded' = <<>> /\ UNCHANGED <<marked, ending, unsaved>>
        /\ \A x \in Messages : claim[x] \in {"lost", "done"} => claim'[x] \in {"lost", "done"}
    BY <1>12 DEF AfterTurn, Finish, sendVars, Core, TypeOK, EngineTypeOK, RecordTypeOK
  <2>3. Items(folded') = {} /\ NoOne \notin marked /\ marked \subseteq Messages
    BY <2>2 DEF Items, Core, TypeOK, EngineTypeOK, RecordTypeOK
  <2>4. QED
    BY <2>1, <2>2, <2>3 DEF StoppedSendNeverRuns
<1>13. CASE TurnFirstStep
  BY <1>13 DEF TurnFirstStep, StoppedSendNeverRuns, vars, lineVars, workerVars, turnVars,
     sendVars, recordVars, drainVars, stopVars, envVars
<1>14. CASE TurnNeverRan
  BY <1>14 DEF TurnNeverRan, StoppedSendNeverRuns, vars, lineVars, workerVars, turnVars,
     sendVars, recordVars, drainVars, stopVars, envVars
<1>15. CASE ReadInterjections
  <2>1. \A x \in Items(folded') : x \in Items(folded) \/ x \in Readable
    <3>1. folded \in Seq(Messages) /\ queue \in Seq(Messages)
      BY DEF Core, TypeOK, EngineTypeOK, RecordTypeOK
    <3>2. Pick(queue, Readable) \in Seq(Messages)
          /\ Items(Pick(queue, Readable)) = Items(queue) \cap Readable
      BY <3>1, PickLemma
    <3>3. QED
      BY <1>15, <3>1, <3>2, ItemsConcat DEF ReadInterjections
  <2>2. \A x \in Readable : x \notin marked
    BY DEF Readable, IsPersons
  <2>3. QED
    BY <1>15, <2>1, <2>2 DEF ReadInterjections, StoppedSendNeverRuns, vars, lineVars,
       workerVars, turnVars, sendVars, recordVars, drainVars, stopVars, envVars
<1>16. CASE TurnEnds
  <2>1. /\ UNCHANGED <<folded, entry, marked, woken>>
        /\ \A x \in Messages : x # entry /\ x \notin Items(folded) =>
              /\ ending'[x] = ending[x] /\ (x \in unsaved => x \in unsaved')
              /\ (claim[x] \in {"lost", "done"} => claim'[x] \in {"lost", "done"})
    BY <1>16 DEF TurnEnds, OnComplete, Verdicts, SettledClaim, Finish, lineVars, sendVars,
       Core, TypeOK, EngineTypeOK, RecordTypeOK
  <2>2. marked \subseteq Messages
    BY DEF Core, TypeOK, EngineTypeOK, RecordTypeOK
  <2>3. QED
    BY <2>1, <2>2 DEF StoppedSendNeverRuns
<1>17. CASE TurnCancelled
  <2>1. /\ UNCHANGED <<folded, entry, marked, woken>>
        /\ \A x \in Messages : x # entry /\ x \notin Items(folded) =>
              /\ ending'[x] = ending[x] /\ (x \in unsaved => x \in unsaved')
              /\ (claim[x] \in {"lost", "done"} => claim'[x] \in {"lost", "done"})
    BY <1>17 DEF TurnCancelled, OnComplete, Verdicts, SettledClaim, Finish, lineVars,
       sendVars, Core, TypeOK, EngineTypeOK, RecordTypeOK
  <2>2. marked \subseteq Messages
    BY DEF Core, TypeOK, EngineTypeOK, RecordTypeOK
  <2>3. QED
    BY <2>1, <2>2 DEF StoppedSendNeverRuns
<1>18. CASE FlushEnds
  BY <1>18 DEF FlushEnds, StoppedSendNeverRuns, vars, lineVars, workerVars, turnVars,
     sendVars, recordVars, drainVars, stopVars, envVars
<1>19. CASE FlushCut
  BY <1>19 DEF FlushCut, StoppedSendNeverRuns, vars, lineVars, workerVars, turnVars,
     sendVars, recordVars, drainVars, stopVars, envVars
<1>20. CASE DeliverCancel
  BY <1>20 DEF DeliverCancel, StoppedSendNeverRuns, vars, lineVars, workerVars, turnVars,
     sendVars, recordVars, drainVars, stopVars, envVars
<1>21. CASE WatchEpoch
  BY <1>21 DEF WatchEpoch, StoppedSendNeverRuns, vars, lineVars, workerVars, turnVars,
     sendVars, recordVars, drainVars, stopVars, envVars
<1>22. CASE StopAdvance
  BY <1>22 DEF StopAdvance, StoppedSendNeverRuns, vars, lineVars, workerVars, turnVars,
     sendVars, recordVars, drainVars, stopVars, envVars
<1>23. CASE StopLand
  <2>1. \A x \in Messages : sent[x] = "preparing"
             => x # entry /\ x \notin Items(folded) /\ x \notin woken
    BY DEF Core, HeldOnce
  <2>2. QED
    BY <1>23, <2>1 DEF StopLand, StopMarks, StoppedSendNeverRuns, vars, lineVars,
       workerVars, turnVars, sendVars, recordVars, drainVars, stopVars, envVars
<1>24. CASE PeerAdvances
  BY <1>24 DEF PeerAdvances, StoppedSendNeverRuns, vars, lineVars, workerVars, turnVars,
     sendVars, recordVars, drainVars, stopVars, envVars
<1>25. CASE DrainBegin
  BY <1>25 DEF DrainBegin, StoppedSendNeverRuns, vars, lineVars, workerVars, turnVars,
     sendVars, recordVars, drainVars, stopVars, envVars
<1>26. CASE DrainDeadline
  BY <1>26 DEF DrainDeadline, StoppedSendNeverRuns, vars, lineVars, workerVars, turnVars,
     sendVars, recordVars, drainVars, stopVars, envVars
<1>27. CASE DrainCancel
  <2>1. \A x \in Messages : sent[x] = "preparing"
             => x # entry /\ x \notin Items(folded) /\ x \notin woken
    BY DEF Core, HeldOnce
  <2>2. QED
    BY <1>27, <2>1 DEF DrainCancel, StoppedSendNeverRuns, vars, lineVars, workerVars,
       turnVars, sendVars, recordVars, drainVars, stopVars, envVars
<1>28. CASE DrainClose
  BY <1>28 DEF DrainClose, StoppedSendNeverRuns, vars, lineVars, workerVars, turnVars,
     sendVars, recordVars, drainVars, stopVars, envVars
<1>29. ASSUME NEW by \in Users \cup {NoOne}, StopPress(by) PROVE StoppedSendNeverRuns'
  BY <1>29 DEF StopPress, StoppedSendNeverRuns, vars, lineVars, workerVars, turnVars,
     sendVars, recordVars, drainVars, stopVars, envVars
<1>30. CASE UNCHANGED vars
  BY <1>30 DEF StoppedSendNeverRuns, vars, lineVars, workerVars, turnVars, sendVars,
     recordVars, drainVars, stopVars, envVars
<1>31. QED
  BY <1>1, <1>2, <1>3, <1>4, <1>5, <1>6, <1>7, <1>8, <1>9, <1>10, <1>11, <1>12, <1>13,
     <1>14, <1>15, <1>16, <1>17, <1>18, <1>19, <1>20, <1>21, <1>22, <1>23, <1>24, <1>25,
     <1>26, <1>27, <1>28, <1>29, <1>30 DEF Next

\* A send stopped while it was preparing never reaches the runner, and its POST
\* is answered only after its ending is on the record.
THEOREM StoppedSendNeverRunsHolds == Spec => []StoppedSendNeverRuns
<1>1. Init => StoppedSendNeverRuns
  BY DEF Init, StoppedSendNeverRuns
<1>2. Core /\ StoppedSendNeverRuns /\ [Next]_vars => StoppedSendNeverRuns'
  BY StoppedStep
<1>3. QED
  BY <1>1, <1>2, CoreInvariant, PTL DEF Spec
=============================================================================

----------------------------- MODULE IngestProofs -----------------------------
(***************************************************************************)
(* Proofs about Ingest, for every number of connections, shards, lines and  *)
(* every channel capacity, in both modes.                                   *)
(***************************************************************************)
EXTENDS Ingest, SequenceTheorems, TLAPS

(* Every line of A is older than every line of B of the same connection. *)
Precedes(A, B) == \A k \in A, l \in B : k.conn = l.conn => k.n < l.n

InOrder(q) ==
  \A i, j \in 1 .. Len(q) : i < j /\ q[i].conn = q[j].conn => q[i].n < q[j].n

(* A line is only ever in the channel and the hand of its own shard. *)
Routed == \A s \in Shards : \A l \in Range(queue[s]) \cup hand[s] : ShardOf[l.conn] = s

(* Walking a line's way backwards, from the buffers to the shard's channel,
   the lines of a connection get younger. *)
Chain ==
  /\ InOrder(applied)
  /\ InOrder(ingest)
  /\ Precedes(Range(applied), Range(ingest))
  /\ \A s \in Shards :
       /\ InOrder(queue[s])
       /\ Precedes(Range(applied) \cup Range(ingest), Range(queue[s]) \cup hand[s])
       /\ Precedes(hand[s], Range(queue[s]))

(* The lines seen so far are those dropped, waiting or applied, and no others. *)
ReadSoFar ==
  \A l \in Line : l \in dropped \cup Waiting \cup Range(applied) <=> l.n <= sent[l.conn]

DroppedForGood == dropped \cap (Waiting \cup Range(applied)) = {}

(* In synchronous mode nothing is between the shards and the engine. *)
SyncIsDirect ==
  mode = "sync" => /\ ingest = << >>
                   /\ forwarding = {}
                   /\ \A s \in Shards : hand[s] = {}

DrainIsSync == at = "drain" => mode = "sync"

Inv ==
  /\ TypeOK /\ Routed /\ Chain /\ ReadSoFar /\ DroppedForGood
  /\ SyncIsDirect /\ DrainIsSync

-------------------------------------------------------------------------------
(* Channels as sets and as orders. *)

LEMMA AppendRange ==
  ASSUME NEW S, NEW q \in Seq(S), NEW e \in S
  PROVE  /\ Append(q, e) \in Seq(S)
         /\ Len(Append(q, e)) = Len(q) + 1
         /\ Range(Append(q, e)) = Range(q) \cup {e}
BY AppendProperties, LenProperties DEF Range

LEMMA HeadTailRange ==
  ASSUME NEW S, NEW q \in Seq(S), q # << >>
  PROVE  /\ Head(q) \in S
         /\ Tail(q) \in Seq(S)
         /\ Len(Tail(q)) = Len(q) - 1
         /\ Head(q) \in Range(q)
         /\ Range(q) = {Head(q)} \cup Range(Tail(q))
<1>1. /\ Tail(q) \in Seq(S) /\ Head(q) \in S
      /\ Len(Tail(q)) = Len(q) - 1
      /\ \A i \in 1 .. Len(Tail(q)) : Tail(q)[i] = q[i + 1]
      /\ Len(q) \in Nat \ {0}
  BY HeadTailProperties, EmptySeq
<1>2. Head(q) = q[1]
  BY DEF Head
<1>3. /\ Range(q) = {q[i] : i \in 1 .. Len(q)}
      /\ Range(Tail(q)) = {Tail(q)[i] : i \in 1 .. Len(q) - 1}
  BY <1>1, RangeEquality
<1>4. ASSUME NEW e \in Range(q) PROVE e \in {Head(q)} \cup Range(Tail(q))
  <2>1. PICK i \in 1 .. Len(q) : e = q[i]
    BY <1>3
  <2>2. CASE i = 1
    BY <1>2, <2>1, <2>2
  <2>3. CASE i # 1
    <3>1. i - 1 \in 1 .. Len(q) - 1 /\ (i - 1) + 1 = i
      BY <1>1, <2>3
    <3>2. Tail(q)[i - 1] = e
      BY <1>1, <2>1, <3>1
    <3>3. QED
      BY <1>3, <3>1, <3>2
  <2>4. QED
    BY <2>2, <2>3
<1>5. 1 \in 1 .. Len(q)
  BY <1>1
<1>6. Head(q) \in Range(q)
  BY <1>2, <1>3, <1>5
<1>7. ASSUME NEW e \in Range(Tail(q)) PROVE e \in Range(q)
  <2>1. PICK i \in 1 .. Len(q) - 1 : e = Tail(q)[i]
    BY <1>3
  <2>2. i + 1 \in 1 .. Len(q) /\ e = q[i + 1]
    BY <1>1, <2>1
  <2>3. QED
    BY <1>3, <2>2
<1>8. QED
  BY <1>1, <1>4, <1>6, <1>7

LEMMA AppendInOrder ==
  ASSUME NEW q \in Seq(Line), NEW e \in Line, InOrder(q), Precedes(Range(q), {e})
  PROVE  InOrder(Append(q, e))
<1>1. /\ Len(q) \in Nat
      /\ Len(Append(q, e)) = Len(q) + 1
      /\ \A i \in 1 .. Len(q) : Append(q, e)[i] = q[i]
      /\ Append(q, e)[Len(q) + 1] = e
  BY AppendProperties, LenProperties
<1>2. \A i \in 1 .. Len(q) : q[i] \in Range(q)
  BY LenProperties DEF Range
<1> SUFFICES ASSUME NEW i \in 1 .. Len(q) + 1, NEW j \in 1 .. Len(q) + 1, i < j,
                    Append(q, e)[i].conn = Append(q, e)[j].conn
             PROVE  Append(q, e)[i].n < Append(q, e)[j].n
  BY <1>1 DEF InOrder
<1>3. i \in 1 .. Len(q) /\ (j \in 1 .. Len(q) \/ j = Len(q) + 1)
  BY <1>1
<1>4. CASE j \in 1 .. Len(q)
  BY <1>1, <1>3, <1>4 DEF InOrder
<1>5. CASE j = Len(q) + 1
  BY <1>1, <1>2, <1>3, <1>5 DEF Precedes
<1>6. QED
  BY <1>3, <1>4, <1>5

LEMMA TailInOrder ==
  ASSUME NEW q \in Seq(Line), q # << >>, InOrder(q)
  PROVE  InOrder(Tail(q)) /\ Precedes({Head(q)}, Range(Tail(q)))
<1>1. /\ Len(q) \in Nat \ {0}
      /\ Tail(q) \in Seq(Line)
      /\ Len(Tail(q)) = Len(q) - 1
      /\ \A i \in 1 .. Len(q) - 1 : Tail(q)[i] = q[i + 1]
      /\ Head(q) = q[1]
  BY HeadTailProperties, EmptySeq DEF Head
<1>2. InOrder(Tail(q))
  <2> SUFFICES ASSUME NEW i \in 1 .. Len(q) - 1, NEW j \in 1 .. Len(q) - 1, i < j,
                      Tail(q)[i].conn = Tail(q)[j].conn
               PROVE  Tail(q)[i].n < Tail(q)[j].n
    BY <1>1 DEF InOrder
  <2>1. i + 1 \in 1 .. Len(q) /\ j + 1 \in 1 .. Len(q) /\ i + 1 < j + 1
    BY <1>1
  <2>2. QED
    BY <1>1, <2>1 DEF InOrder
<1>3. Precedes({Head(q)}, Range(Tail(q)))
  <2> SUFFICES ASSUME NEW l \in Range(Tail(q)), q[1].conn = l.conn
               PROVE  q[1].n < l.n
    BY <1>1 DEF Precedes
  <2> Range(Tail(q)) = {Tail(q)[i] : i \in 1 .. Len(Tail(q))}
    BY <1>1, RangeEquality
  <2>1. PICK i \in 1 .. Len(q) - 1 : l = Tail(q)[i]
    BY <1>1
  <2>2. i + 1 \in 1 .. Len(q) /\ 1 \in 1 .. Len(q) /\ 1 < i + 1 /\ l = q[i + 1]
    BY <1>1, <2>1
  <2>3. QED
    BY <2>2 DEF InOrder
<1>4. QED
  BY <1>2, <1>3
-------------------------------------------------------------------------------
(* Type correctness. *)

LEMMA InitType == Init => TypeOK
BY IngestAssumption DEF Init, TypeOK, Shards

LEMMA LimitNat == TypeOK => \A s \in Shards : DrainLimit(s) \in Nat
<1> SUFFICES ASSUME TypeOK, NEW s \in Shards PROVE DrainLimit(s) \in Nat
  OBVIOUS
<1>1. Len(queue[s]) \in Nat /\ Batch \in Nat
  BY IngestAssumption DEF TypeOK
<1>2. QED
  BY <1>1 DEF DrainLimit

LEMMA StepType == TypeOK /\ [Next]_vars => TypeOK'
<1> SUFFICES ASSUME TypeOK, [Next]_vars PROVE TypeOK'
  OBVIOUS
<1> USE IngestAssumption
<1>1. ASSUME NEW c \in Conns, ReadLine(c) PROVE TypeOK'
  <2> DEFINE line == [conn |-> c, n |-> sent[c] + 1]
             s == ShardOf[c]
  <2>1. line \in Line /\ s \in Shards /\ sent' \in [Conns -> 0 .. MaxLines]
    BY <1>1 DEF ReadLine, TypeOK, Line
  <2> HIDE DEF line, s
  <2>2. UNCHANGED <<hand, ingest, forwarding, running, mode, engine>>
    BY <1>1 DEF ReadLine
  <2>3. CASE Len(queue[s]) < QueueSize /\ queue' = [queue EXCEPT ![s] = Append(@, line)]
             /\ UNCHANGED dropped
    <3>1. Append(queue[s], line) \in Seq(Line) /\ Len(Append(queue[s], line)) = Len(queue[s]) + 1
      BY <2>1, AppendRange DEF TypeOK
    <3>2. Len(Append(queue[s], line)) <= QueueSize
      BY <2>1, <2>3, <3>1 DEF TypeOK
    <3>3. queue' \in [Shards -> Seq(Line)] /\ \A t \in Shards : Len(queue'[t]) <= QueueSize
      BY <2>1, <2>3, <3>1, <3>2 DEF TypeOK
    <3>4. QED
      BY <2>1, <2>2, <2>3, <3>3 DEF TypeOK, engine
  <2>4. CASE dropped' = dropped \cup {line} /\ UNCHANGED queue
    BY <2>1, <2>2, <2>4 DEF TypeOK, engine
  <2>5. QED
    BY <1>1, <2>3, <2>4 DEF ReadLine, line, s
<1>2. ASSUME NEW s \in Shards, ForwarderTake(s) PROVE TypeOK'
  <2>1. /\ Head(queue[s]) \in Line /\ Tail(queue[s]) \in Seq(Line)
        /\ Len(Tail(queue[s])) = Len(queue[s]) - 1 /\ Len(queue[s]) \in Nat
    BY <1>2, HeadTailRange, LenProperties DEF ForwarderTake, TypeOK
  <2>2. queue' \in [Shards -> Seq(Line)] /\ \A t \in Shards : Len(queue'[t]) <= QueueSize
    BY <1>2, <2>1 DEF ForwarderTake, TypeOK
  <2>3. hand' \in [Shards -> SUBSET Line] /\ \A t \in Shards : \A k, l \in hand'[t] : k = l
    BY <1>2, <2>1 DEF ForwarderTake, TypeOK
  <2>4. QED
    BY <1>2, <2>2, <2>3 DEF ForwarderTake, TypeOK, engine
<1>3. ASSUME NEW s \in Shards, ForwarderSend(s) PROVE TypeOK'
  <2>1. PICK line \in hand[s] : ingest' = Append(ingest, line)
    BY <1>3 DEF ForwarderSend
  <2>2. ingest' \in Seq(Line) /\ Len(ingest') = Len(ingest) + 1 /\ Len(ingest) \in Nat
    BY <2>1, AppendRange, LenProperties DEF TypeOK
  <2>3. Len(ingest') <= IngestSize
    BY <1>3, <2>2 DEF ForwarderSend
  <2>4. hand' \in [Shards -> SUBSET Line] /\ \A t \in Shards : \A k, l \in hand'[t] : k = l
    BY <1>3 DEF ForwarderSend, TypeOK
  <2>5. QED
    BY <1>3, <2>2, <2>3, <2>4 DEF ForwarderSend, TypeOK, engine
<1>4. ASSUME NEW s \in Shards, ForwarderStop(s) PROVE TypeOK'
  BY <1>4 DEF ForwarderStop, TypeOK, channels, engine
<1>5. ASSUME TakeIngested
      PROVE  /\ applied' \in Seq(Line) /\ ingest' \in Seq(Line)
             /\ Len(ingest') <= IngestSize /\ pendingLogs' \in Nat
  <2>1. /\ Head(ingest) \in Line /\ Tail(ingest) \in Seq(Line)
        /\ Len(Tail(ingest)) = Len(ingest) - 1 /\ Len(ingest) \in Nat
    BY <1>5, HeadTailRange, LenProperties DEF TakeIngested, TypeOK
  <2>2. applied' \in Seq(Line)
    BY <1>5, <2>1, AppendRange DEF TakeIngested, Apply, TypeOK
  <2>3. QED
    BY <1>5, <2>1, <2>2 DEF TakeIngested, TypeOK
<1>6. CASE Consume
  BY <1>5, <1>6 DEF Consume, TypeOK
<1>7. CASE BurstConsume
  BY <1>5, <1>7 DEF BurstConsume, TypeOK
<1>8. CASE BurstEnd
  BY <1>8 DEF BurstEnd, TypeOK, channels
<1>9. CASE TickAsync
  BY <1>9 DEF TickAsync, FlushPending, TypeOK, channels
<1>10. CASE TickSync
  <2>1. 1 \in Shards /\ DrainLimit(1) \in Nat
    BY LimitNat DEF Shards
  <2>2. QED
    BY <1>10, <2>1 DEF TickSync, TypeOK, channels
<1>11. CASE DrainConsume
  <2>1. /\ Head(queue[shard]) \in Line /\ Tail(queue[shard]) \in Seq(Line)
        /\ Len(Tail(queue[shard])) = Len(queue[shard]) - 1 /\ Len(queue[shard]) \in Nat
    BY <1>11, HeadTailRange, LenProperties DEF DrainConsume, TypeOK
  <2>2. queue' \in [Shards -> Seq(Line)] /\ \A t \in Shards : Len(queue'[t]) <= QueueSize
    BY <1>11, <2>1 DEF DrainConsume, TypeOK
  <2>3. applied' \in Seq(Line)
    BY <1>11, <2>1, AppendRange DEF DrainConsume, Apply, TypeOK
  <2>4. QED
    BY <1>11, <2>2, <2>3 DEF DrainConsume, TypeOK
<1>12. CASE DrainNextShard
  <2>1. shard + 1 \in Shards /\ DrainLimit(shard + 1) \in Nat
    BY <1>12, LimitNat DEF DrainNextShard, Shards, TypeOK
  <2>2. QED
    BY <1>12, <2>1 DEF DrainNextShard, TypeOK, channels
<1>13. CASE DrainEnd
  BY <1>13 DEF DrainEnd, FlushPending, TypeOK, channels, Shards
<1>14. CASE EngineStop
  BY <1>14 DEF EngineStop, TypeOK, channels
<1>15. CASE Cancel
  BY <1>15 DEF Cancel, TypeOK, channels, engine
<1>16. CASE UNCHANGED vars
  BY <1>16 DEF vars, TypeOK, channels, engine
<1>17. QED
  BY <1>1, <1>2, <1>3, <1>4, <1>6, <1>7, <1>8, <1>9, <1>10, <1>11, <1>12, <1>13,
     <1>14, <1>15, <1>16 DEF Next, Forwarder, Engine

(* The channels keep within their capacities and every counter its range. *)
THEOREM TypeCorrect == Spec => []TypeOK
BY InitType, StepType, PTL DEF Spec
-------------------------------------------------------------------------------
(* What each step that moves a line does to the sets the lines are in. *)

LEMMA InWaiting ==
  ASSUME NEW l
  PROVE  l \in Waiting <=> \/ l \in Range(ingest)
                           \/ \E s \in Shards : l \in Range(queue[s]) \/ l \in hand[s]
BY DEF Waiting

LEMMA RangesAreLines ==
  TypeOK => /\ Range(applied) \subseteq Line
            /\ Range(ingest) \subseteq Line
            /\ \A s \in Shards : Range(queue[s]) \subseteq Line /\ hand[s] \subseteq Line
            /\ Waiting \subseteq Line
<1> SUFFICES ASSUME TypeOK
             PROVE  /\ Range(applied) \subseteq Line
                    /\ Range(ingest) \subseteq Line
                    /\ \A s \in Shards : Range(queue[s]) \subseteq Line /\ hand[s] \subseteq Line
                    /\ Waiting \subseteq Line
  OBVIOUS
<1>1. applied \in Seq(Line) /\ ingest \in Seq(Line)
      /\ \A s \in Shards : queue[s] \in Seq(Line) /\ hand[s] \subseteq Line
  BY DEF TypeOK
<1>2. Range(applied) \subseteq Line /\ Range(ingest) \subseteq Line
  BY <1>1, RangeOfSeq
<1>3. \A s \in Shards : Range(queue[s]) \subseteq Line
  BY <1>1, RangeOfSeq
<1>4. QED
  BY <1>1, <1>2, <1>3 DEF Waiting

LEMMA NextLine ==
  ASSUME TypeOK, NEW c \in Conns, sent[c] < MaxLines
  PROVE  /\ sent[c] \in Nat
         /\ [conn |-> c, n |-> sent[c] + 1] \in Line
         /\ ShardOf[c] \in Shards
         /\ queue[ShardOf[c]] \in Seq(Line)
         /\ Len(queue[ShardOf[c]]) \in Nat
<1>1. sent[c] \in Nat /\ sent[c] + 1 \in 1 .. MaxLines
  BY IngestAssumption DEF TypeOK
<1>2. [conn |-> c, n |-> sent[c] + 1] \in Line
  BY <1>1 DEF Line
<1>3. ShardOf[c] \in Shards
  BY IngestAssumption
<1>4. queue[ShardOf[c]] \in Seq(Line)
  BY <1>3 DEF TypeOK
<1>5. QED
  BY <1>1, <1>2, <1>3, <1>4, LenProperties

LEMMA AcceptStep ==
  ASSUME Inv, NEW c \in Conns, ReadLine(c), dropped' = dropped
  PROVE  Routed' /\ Chain' /\ Delivery!Read(c)
<1> DEFINE line == [conn |-> c, n |-> sent[c] + 1]
           s == ShardOf[c]
<1>1. /\ line \in Line /\ s \in Shards /\ line.conn = c /\ line.n = sent[c] + 1
      /\ line.n > sent[c]
  <2>1. TypeOK /\ sent[c] < MaxLines
    BY DEF ReadLine, Inv
  <2>2. QED
    BY <2>1, NextLine
<1>2. /\ sent[c] < MaxLines /\ sent' = [sent EXCEPT ![c] = @ + 1]
      /\ UNCHANGED <<hand, ingest, applied>>
  BY DEF ReadLine, engine
<1>3. line \notin dropped \cup Waiting \cup Range(applied)
  BY <1>1 DEF Inv, TypeOK, ReadSoFar
<1>4. queue' = [queue EXCEPT ![s] = Append(@, line)]
  BY <1>3 DEF ReadLine
<1> HIDE DEF line, s
<1>5. /\ queue[s] \in Seq(Line)
      /\ queue'[s] = Append(queue[s], line)
      /\ \A t \in Shards \ {s} : queue'[t] = queue[t]
  BY <1>1, <1>4 DEF Inv, TypeOK
<1>6. Range(queue'[s]) = Range(queue[s]) \cup {line}
  BY <1>1, <1>5, AppendRange
<1>7. ASSUME NEW A, A \subseteq Waiting \cup Range(applied)
      PROVE  Precedes(A, {line})
  <2>1. ASSUME NEW k \in A, k.conn = c PROVE k.n \in Nat /\ k.n <= sent[c]
    BY <1>7, <2>1, RangesAreLines, IngestAssumption DEF Inv, ReadSoFar, Line
  <2>2. sent[c] \in Nat
    BY IngestAssumption DEF Inv, TypeOK
  <2>3. QED
    BY <1>1, <2>1, <2>2 DEF Precedes
<1>8. InOrder(queue'[s])
  <2>1. Range(queue[s]) \subseteq Waiting
    BY <1>1 DEF Waiting
  <2>2. InOrder(queue[s])
    BY <1>1 DEF Inv, Chain
  <2>3. QED
    BY <1>1, <1>5, <1>7, <2>1, <2>2, AppendInOrder
<1>9. Routed'
  BY <1>1, <1>2, <1>5, <1>6 DEF Inv, Routed, s
<1>10. Chain'
  <2>1. ASSUME NEW t \in Shards
        PROVE  /\ InOrder(queue'[t])
               /\ Precedes(Range(applied) \cup Range(ingest), Range(queue'[t]) \cup hand[t])
               /\ Precedes(hand[t], Range(queue'[t]))
    <3>1. CASE t # s
      BY <1>5, <3>1 DEF Inv, Chain
    <3>2. CASE t = s
      <4>1. Precedes(Range(applied) \cup Range(ingest), {line}) /\ Precedes(hand[s], {line})
        BY <1>1, <1>7 DEF Waiting
      <4>2. /\ Precedes(Range(applied) \cup Range(ingest), Range(queue[s]) \cup hand[s])
            /\ Precedes(hand[s], Range(queue[s]))
        BY <1>1 DEF Inv, Chain
      <4>3. QED
        BY <1>6, <1>8, <3>2, <4>1, <4>2 DEF Precedes
    <3>3. QED
      BY <3>1, <3>2
  <2>2. QED
    BY <1>2, <2>1 DEF Inv, Chain
<1>11. Waiting' = Waiting \cup {line}
  <2>1. Waiting' = Range(ingest) \cup UNION {Range(queue'[t]) \cup hand[t] : t \in Shards}
    BY <1>2 DEF Waiting
  <2>2. line \in Waiting'
    BY <1>1, <1>6, <2>1
  <2>3. \A t \in Shards : /\ Range(queue[t]) \subseteq Range(queue'[t])
                          /\ Range(queue'[t]) \subseteq Range(queue[t]) \cup {line}
    BY <1>5, <1>6
  <2>4. Waiting \subseteq Waiting'
    BY <2>1, <2>3 DEF Waiting
  <2>5. Waiting' \subseteq Waiting \cup {line}
    BY <2>1, <2>3 DEF Waiting
  <2>6. QED
    BY <2>2, <2>4, <2>5
<1>12. QED
  BY <1>2, <1>9, <1>10, <1>11 DEF Delivery!Read, line

LEMMA TakeStep ==
  ASSUME Inv, NEW s \in Shards, ForwarderTake(s)
  PROVE  Routed' /\ Chain' /\ UNCHANGED Delivery!vars
<1> DEFINE e == Head(queue[s])
<1>1. /\ queue[s] \in Seq(Line) /\ queue[s] # << >> /\ hand[s] = {}
      /\ queue'[s] = Tail(queue[s]) /\ hand'[s] = {e}
      /\ \A t \in Shards \ {s} : queue'[t] = queue[t] /\ hand'[t] = hand[t]
      /\ UNCHANGED <<ingest, applied, sent, dropped>>
  BY DEF Inv, TypeOK, ForwarderTake, engine
<1>2. Range(queue[s]) = {e} \cup Range(queue'[s])
  BY <1>1, HeadTailRange
<1>3. InOrder(queue'[s]) /\ Precedes({e}, Range(queue'[s]))
  BY <1>1, TailInOrder DEF Inv, Chain
<1>4. Routed'
  BY <1>1, <1>2 DEF Inv, Routed
<1>5. ASSUME NEW t \in Shards
      PROVE  /\ InOrder(queue'[t])
             /\ Precedes(Range(applied) \cup Range(ingest), Range(queue'[t]) \cup hand'[t])
             /\ Precedes(hand'[t], Range(queue'[t]))
  <2>1. CASE t # s
    BY <1>1, <2>1 DEF Inv, Chain
  <2>2. CASE t = s
    BY <1>1, <1>2, <1>3, <2>2 DEF Inv, Chain, Precedes
  <2>3. QED
    BY <2>1, <2>2
<1>6. Chain'
  BY <1>1, <1>5 DEF Inv, Chain
<1>7. Waiting' = Waiting
  <2>1. \A t \in Shards : Range(queue'[t]) \cup hand'[t] = Range(queue[t]) \cup hand[t]
    BY <1>1, <1>2
  <2>2. QED
    BY <1>1, <2>1 DEF Waiting
<1>8. QED
  BY <1>1, <1>4, <1>6, <1>7 DEF Delivery!vars

LEMMA SendStep ==
  ASSUME Inv, NEW s \in Shards, ForwarderSend(s)
  PROVE  Routed' /\ Chain' /\ UNCHANGED Delivery!vars
<1>1. PICK e \in hand[s] : ingest' = Append(ingest, e)
  BY DEF ForwarderSend
<1>2. /\ hand[s] = {e} /\ e \in Line /\ ingest \in Seq(Line)
      /\ hand'[s] = {} /\ \A t \in Shards \ {s} : hand'[t] = hand[t]
      /\ UNCHANGED <<queue, applied, sent, dropped>>
  BY <1>1 DEF Inv, TypeOK, ForwarderSend, engine
<1>3. Range(ingest') = Range(ingest) \cup {e}
  BY <1>1, <1>2, AppendRange
<1>4. /\ Precedes(Range(applied) \cup Range(ingest), Range(queue[s]) \cup {e})
      /\ Precedes({e}, Range(queue[s]))
  BY <1>2 DEF Inv, Chain
<1>5. InOrder(ingest')
  <2>1. Precedes(Range(ingest), {e})
    BY <1>4 DEF Precedes
  <2>2. QED
    BY <1>1, <1>2, <2>1, AppendInOrder DEF Inv, Chain
<1>6. Routed'
  BY <1>2 DEF Inv, Routed
<1>7. ASSUME NEW t \in Shards
      PROVE  /\ InOrder(queue'[t])
             /\ Precedes(Range(applied') \cup Range(ingest'), Range(queue'[t]) \cup hand'[t])
             /\ Precedes(hand'[t], Range(queue'[t]))
  <2>1. CASE t = s
    BY <1>2, <1>3, <1>4, <2>1 DEF Inv, Chain, Precedes
  <2>2. CASE t # s
    <3>1. Precedes({e}, Range(queue[t]) \cup hand[t])
      BY <1>2, <2>2 DEF Inv, Routed, Precedes
    <3>2. QED
      BY <1>2, <1>3, <2>2, <3>1 DEF Inv, Chain, Precedes
  <2>3. QED
    BY <2>1, <2>2
<1>8. Precedes(Range(applied'), Range(ingest'))
  BY <1>2, <1>3, <1>4 DEF Inv, Chain, Precedes
<1>9. Chain'
  BY <1>2, <1>5, <1>7, <1>8 DEF Inv, Chain
<1>10. Waiting' = Waiting
  BY <1>2, <1>3 DEF Waiting
<1>11. QED
  BY <1>2, <1>6, <1>9, <1>10 DEF Delivery!vars

LEMMA ConsumeStep ==
  ASSUME Inv, TakeIngested, UNCHANGED <<queue, hand, sent, dropped>>
  PROVE  Routed' /\ Chain' /\ Delivery!Deliver(Head(ingest))
<1> DEFINE e == Head(ingest)
<1>1. /\ ingest \in Seq(Line) /\ ingest # << >> /\ applied \in Seq(Line)
      /\ ingest' = Tail(ingest) /\ applied' = Append(applied, e)
  BY DEF Inv, TypeOK, TakeIngested, Apply
<1>2. /\ e \in Line
      /\ Range(ingest) = {e} \cup Range(ingest')
      /\ Range(applied') = Range(applied) \cup {e}
  BY <1>1, HeadTailRange, AppendRange
<1>3. InOrder(ingest') /\ Precedes({e}, Range(ingest'))
  BY <1>1, TailInOrder DEF Inv, Chain
<1>4. InOrder(applied')
  <2>1. Precedes(Range(applied), {e})
    BY <1>2 DEF Inv, Chain, Precedes
  <2>2. QED
    BY <1>1, <1>2, <2>1, AppendInOrder DEF Inv, Chain
<1>5. Precedes(Range(applied'), Range(ingest'))
  BY <1>2, <1>3 DEF Inv, Chain, Precedes
<1>6. ASSUME NEW t \in Shards
      PROVE  /\ InOrder(queue[t])
             /\ Precedes(Range(applied') \cup Range(ingest'), Range(queue[t]) \cup hand[t])
             /\ Precedes(hand[t], Range(queue[t]))
             /\ Precedes({e}, Range(queue[t]) \cup hand[t])
  <2>1. Range(applied') \cup Range(ingest') = Range(applied) \cup Range(ingest)
    BY <1>2
  <2>2. Precedes(Range(applied) \cup Range(ingest), Range(queue[t]) \cup hand[t])
    BY DEF Inv, Chain
  <2>3. Precedes({e}, Range(queue[t]) \cup hand[t])
    BY <1>2, <2>2 DEF Precedes
  <2>4. QED
    BY <2>1, <2>2, <2>3 DEF Inv, Chain
<1>7. Routed' /\ Chain'
  BY <1>3, <1>4, <1>5, <1>6 DEF Inv, Routed, Chain
<1> DEFINE Others == Range(ingest') \cup UNION {Range(queue[t]) \cup hand[t] : t \in Shards}
<1>8. Precedes({e}, Others)
  BY <1>3, <1>6 DEF Precedes
<1>9. Waiting' = Others /\ Waiting = {e} \cup Others
  BY <1>2 DEF Waiting
<1>10. e \notin Others
  BY <1>2, <1>8 DEF Precedes, Line
<1>11. \A k \in Waiting : k.conn = e.conn => e.n <= k.n
  BY <1>2, <1>8, <1>9, RangesAreLines DEF Inv, Precedes, Line
<1>12. QED
  BY <1>1, <1>7, <1>9, <1>10, <1>11 DEF Delivery!Deliver

LEMMA DrainStep ==
  ASSUME Inv, DrainConsume
  PROVE  Routed' /\ Chain' /\ Delivery!Deliver(Head(queue[shard]))
<1> DEFINE s == shard
           e == Head(queue[s])
<1>1. /\ s \in Shards /\ queue[s] \in Seq(Line) /\ queue[s] # << >> /\ applied \in Seq(Line)
      /\ queue'[s] = Tail(queue[s]) /\ \A t \in Shards \ {s} : queue'[t] = queue[t]
      /\ applied' = Append(applied, e)
      /\ UNCHANGED <<ingest, hand, sent, dropped>>
  BY DEF Inv, TypeOK, DrainConsume, Apply
<1>2. ingest = << >> /\ \A t \in Shards : hand[t] = {}
  BY DEF Inv, DrainConsume, SyncIsDirect, DrainIsSync
<1> HIDE DEF s
<1>3. /\ e \in Line
      /\ Range(queue[s]) = {e} \cup Range(queue'[s])
      /\ Range(applied') = Range(applied) \cup {e}
  BY <1>1, HeadTailRange, AppendRange
<1>4. InOrder(queue'[s]) /\ Precedes({e}, Range(queue'[s]))
  BY <1>1, TailInOrder DEF Inv, Chain
<1>5. ASSUME NEW t \in Shards, t # s PROVE Precedes({e}, Range(queue[t]))
  BY <1>1, <1>3, <1>5 DEF Inv, Routed, Precedes
<1>6. \A t \in Shards : Precedes(Range(applied), Range(queue[t]))
  BY DEF Inv, Chain, Precedes
<1>7. Range(ingest) = {}
  BY <1>2 DEF Range
<1>8. InOrder(applied')
  <2>1. Precedes(Range(applied), {e})
    BY <1>1, <1>3, <1>6 DEF Precedes
  <2>2. QED
    BY <1>1, <1>3, <2>1, AppendInOrder DEF Inv, Chain
<1>9. ASSUME NEW t \in Shards
      PROVE  /\ InOrder(queue'[t])
             /\ Precedes({e}, Range(queue'[t]))
             /\ Precedes(Range(applied') \cup Range(ingest'), Range(queue'[t]) \cup hand'[t])
             /\ Precedes(hand'[t], Range(queue'[t]))
  <2>1. InOrder(queue'[t]) /\ Precedes({e}, Range(queue'[t]))
    BY <1>1, <1>4, <1>5 DEF Inv, Chain
  <2>2. Precedes(Range(applied), Range(queue'[t]))
    BY <1>1, <1>3, <1>6 DEF Precedes
  <2>3. QED
    BY <1>1, <1>2, <1>3, <1>7, <2>1, <2>2 DEF Precedes
<1>10. Precedes(Range(applied'), Range(ingest')) /\ InOrder(ingest')
  BY <1>1, <1>7 DEF Inv, Chain, Precedes
<1>11. Routed' /\ Chain'
  BY <1>1, <1>3, <1>8, <1>9, <1>10 DEF Inv, Routed, Chain
<1> DEFINE Others == UNION {Range(queue'[t]) : t \in Shards}
<1>12. Waiting' = Others
  BY <1>1, <1>2, <1>7 DEF Waiting
<1>13. Waiting = {e} \cup Others
  <2>1. Waiting = UNION {Range(queue[t]) : t \in Shards}
    BY <1>2, <1>7 DEF Waiting
  <2>2. ASSUME NEW l \in Waiting PROVE l \in {e} \cup Others
    BY <1>1, <1>3, <2>1
  <2>3. ASSUME NEW l \in {e} \cup Others PROVE l \in Waiting
    BY <1>1, <1>3, <2>1
  <2>4. QED
    BY <2>2, <2>3
<1>14. Precedes({e}, Others)
  BY <1>9 DEF Precedes
<1>15. e \notin Others
  BY <1>3, <1>14 DEF Precedes, Line
<1>16. \A k \in Waiting : k.conn = e.conn => e.n <= k.n
  BY <1>3, <1>13, <1>14, RangesAreLines DEF Inv, Precedes, Line
<1>17. QED
  BY <1>1, <1>11, <1>12, <1>13, <1>15, <1>16 DEF Delivery!Deliver, s

LEMMA StillStep ==
  ASSUME Inv, UNCHANGED <<queue, hand, ingest, applied, sent, dropped>>
  PROVE  Routed' /\ Chain' /\ UNCHANGED Delivery!vars
BY DEF Inv, Routed, Chain, Delivery!vars, Waiting

LEMMA DropStep ==
  ASSUME Inv, NEW c \in Conns, ReadLine(c), UNCHANGED queue
  PROVE  Routed' /\ Chain' /\ Delivery!Read(c)
<1>1. /\ sent[c] < MaxLines /\ sent' = [sent EXCEPT ![c] = @ + 1]
      /\ UNCHANGED <<queue, hand, ingest, applied>>
  BY DEF ReadLine, engine
<1>2. Routed' /\ Chain' /\ Waiting' = Waiting
  BY <1>1 DEF Inv, Routed, Chain, Waiting
<1>3. dropped' = dropped \cup {[conn |-> c, n |-> sent[c] + 1]}
  <2> DEFINE q == queue[ShardOf[c]]
             line == [conn |-> c, n |-> sent[c] + 1]
  <2>1. ShardOf[c] \in Shards /\ line \in Line /\ q \in Seq(Line) /\ Len(q) \in Nat
    BY <1>1, NextLine DEF Inv
  <2>2. Len(Append(q, line)) # Len(q)
    BY <2>1, AppendRange
  <2>3. QED
    BY <1>1, <2>1, <2>2 DEF ReadLine, Inv, TypeOK
<1>4. QED
  BY <1>1, <1>2, <1>3 DEF Delivery!Read

(* Each step of the pipeline is a step of the delivery specification, or does
   nothing a connection can notice. *)
LEMMA MoveStep ==
  ASSUME Inv, [Next]_vars
  PROVE  Routed' /\ Chain' /\ [Delivery!Next]_(Delivery!vars)
<1>1. ASSUME NEW c \in Conns, ReadLine(c) PROVE Routed' /\ Chain' /\ Delivery!Read(c)
  <2>1. CASE UNCHANGED dropped
    BY <1>1, <2>1, AcceptStep
  <2>2. CASE UNCHANGED queue
    BY <1>1, <2>2, DropStep
  <2>3. QED
    BY <1>1, <2>1, <2>2 DEF ReadLine
<1>2. ASSUME NEW s \in Shards, Forwarder(s) PROVE Routed' /\ Chain' /\ UNCHANGED Delivery!vars
  <2>1. CASE ForwarderTake(s)
    BY <2>1, TakeStep
  <2>2. CASE ForwarderSend(s)
    BY <2>2, SendStep
  <2>3. CASE ForwarderStop(s)
    BY <2>3, StillStep DEF ForwarderStop, channels, engine
  <2>4. QED
    BY <1>2, <2>1, <2>2, <2>3 DEF Forwarder
<1>3. CASE Consume \/ BurstConsume
  <2>1. Head(ingest) \in Line
    BY <1>3, HeadTailRange DEF Consume, BurstConsume, TakeIngested, Inv, TypeOK
  <2>2. Routed' /\ Chain' /\ Delivery!Deliver(Head(ingest))
    BY <1>3, ConsumeStep DEF Consume, BurstConsume
  <2>3. QED
    BY <2>1, <2>2 DEF Delivery!Next, Delivery!Line, Line
<1>4. CASE DrainConsume
  <2>1. Head(queue[shard]) \in Line
    BY <1>4, HeadTailRange DEF DrainConsume, Inv, TypeOK
  <2>2. Routed' /\ Chain' /\ Delivery!Deliver(Head(queue[shard]))
    BY <1>4, DrainStep
  <2>3. QED
    BY <2>1, <2>2 DEF Delivery!Next, Delivery!Line, Line
<1>5. CASE \/ BurstEnd \/ TickAsync \/ TickSync \/ DrainNextShard \/ DrainEnd
           \/ EngineStop \/ Cancel \/ UNCHANGED vars
  <2>1. UNCHANGED <<queue, hand, ingest, applied, sent, dropped>>
    BY <1>5 DEF BurstEnd, TickAsync, TickSync, DrainNextShard, DrainEnd, EngineStop, Cancel,
                vars, channels, engine
  <2>2. QED
    BY <2>1, StillStep
<1>6. QED
  BY <1>1, <1>2, <1>3, <1>4, <1>5 DEF Next, Engine, Delivery!Next

LEMMA ModeStep ==
  ASSUME Inv, [Next]_vars
  PROVE  SyncIsDirect' /\ DrainIsSync'
<1>1. DrainIsSync'
  BY DEF Inv, DrainIsSync, Next, Forwarder, Engine, ReadLine, ForwarderTake, ForwarderSend,
         ForwarderStop, Consume, BurstConsume, BurstEnd, TickAsync, TickSync, DrainConsume,
         DrainNextShard, DrainEnd, EngineStop, Cancel, vars, engine
<1>2. SyncIsDirect'
  <2> SUFFICES ASSUME mode = "sync"
               PROVE  UNCHANGED <<ingest, forwarding, hand>>
    <3>1. mode' = mode
      BY DEF Next, Forwarder, Engine, ReadLine, ForwarderTake, ForwarderSend, ForwarderStop,
           Consume, BurstConsume, BurstEnd, TickAsync, TickSync, DrainConsume, TakeIngested,
           DrainNextShard, DrainEnd, EngineStop, Cancel, vars, channels, engine
    <3>2. QED
      BY <3>1 DEF Inv, SyncIsDirect
  <2>1. ingest = << >> /\ forwarding = {} /\ \A s \in Shards : hand[s] = {}
    BY DEF Inv, SyncIsDirect
  <2>2. QED
    BY <2>1 DEF Next, Forwarder, Engine, ReadLine, ForwarderTake, ForwarderSend, ForwarderStop,
         Consume, BurstConsume, BurstEnd, TickAsync, TickSync, DrainConsume, TakeIngested,
         DrainNextShard, DrainEnd, EngineStop, Cancel, vars, channels, engine
<1>3. QED
  BY <1>1, <1>2

(* A step of the delivery specification keeps the account of the lines. *)
LEMMA AccountStep ==
  ASSUME Inv, [Delivery!Next]_(Delivery!vars)
  PROVE  ReadSoFar' /\ DroppedForGood'
<1>1. ASSUME NEW c \in Conns, Delivery!Read(c) PROVE ReadSoFar' /\ DroppedForGood'
  <2> DEFINE line == [conn |-> c, n |-> sent[c] + 1]
  <2>1. /\ sent \in [Conns -> 0 .. MaxLines] /\ sent' = [sent EXCEPT ![c] = @ + 1]
        /\ line \in Line /\ line.n = sent[c] + 1 /\ line.conn = c /\ applied' = applied
    BY <1>1, IngestAssumption DEF Inv, TypeOK, Delivery!Read, Line
  <2>2. ASSUME NEW l \in Line
        PROVE  l.n <= sent'[l.conn] <=> l.n <= sent[l.conn] \/ l = line
    <3>1. l.n \in Nat /\ sent[l.conn] \in Nat /\ l.conn \in Conns
      BY <2>1, IngestAssumption DEF Line
    <3>2. l = line <=> l.conn = c /\ l.n = sent[c] + 1
      BY DEF Line
    <3>3. QED
      BY <2>1, <3>1, <3>2
  <2>3. line \notin dropped \cup Waiting \cup Range(applied)
    BY <2>1, IngestAssumption DEF Inv, ReadSoFar, TypeOK
  <2> HIDE DEF line
  <2>4. \/ Waiting' = Waiting \cup {line} /\ dropped' = dropped
        \/ dropped' = dropped \cup {line} /\ Waiting' = Waiting
    BY <1>1 DEF Delivery!Read, line
  <2>5. dropped' \cup Waiting' \cup Range(applied') = (dropped \cup Waiting \cup Range(applied)) \cup {line}
    BY <2>1, <2>4
  <2>6. ReadSoFar'
    BY <2>2, <2>5 DEF Inv, ReadSoFar
  <2>7. DroppedForGood'
    BY <2>1, <2>3, <2>4 DEF Inv, DroppedForGood
  <2>8. QED
    BY <2>6, <2>7
<1>2. ASSUME NEW l \in Line, Delivery!Deliver(l) PROVE ReadSoFar' /\ DroppedForGood'
  <2>1. /\ Waiting' = Waiting \ {l} /\ l \in Waiting /\ applied' = Append(applied, l)
        /\ UNCHANGED <<sent, dropped>>
    BY <1>2 DEF Delivery!Deliver
  <2>2. Range(applied') = Range(applied) \cup {l}
    BY <2>1, AppendRange DEF Inv, TypeOK
  <2>3. QED
    BY <2>1, <2>2 DEF Inv, ReadSoFar, DroppedForGood
<1>3. CASE UNCHANGED Delivery!vars
  BY <1>3 DEF Delivery!vars, Inv, ReadSoFar, DroppedForGood
<1>4. QED
  BY <1>1, <1>2, <1>3 DEF Delivery!Next, Delivery!Line, Line

LEMMA InitInv == Init => Inv /\ Delivery!Init
<1> SUFFICES ASSUME Init PROVE Inv /\ Delivery!Init
  OBVIOUS
<1>1. Range(<< >>) = {}
  BY DEF Range
<1>2. /\ applied = << >> /\ ingest = << >> /\ dropped = {}
      /\ \A s \in Shards : queue[s] = << >> /\ hand[s] = {}
      /\ \A c \in Conns : sent[c] = 0
  BY DEF Init
<1>3. Waiting = {}
  BY <1>1, <1>2 DEF Waiting
<1>4. Routed /\ Chain
  BY <1>1, <1>2 DEF Routed, Chain, InOrder, Precedes
<1>5. ReadSoFar /\ DroppedForGood
  BY <1>1, <1>2, <1>3, IngestAssumption DEF ReadSoFar, DroppedForGood, Line
<1>6. SyncIsDirect /\ DrainIsSync
  BY DEF Init, SyncIsDirect, DrainIsSync
<1>7. QED
  BY <1>3, <1>4, <1>5, <1>6, InitType DEF Inv, Init, Delivery!Init

LEMMA StepInv == Inv /\ [Next]_vars => Inv' /\ [Delivery!Next]_(Delivery!vars)
<1> SUFFICES ASSUME Inv, [Next]_vars PROVE Inv' /\ [Delivery!Next]_(Delivery!vars)
  OBVIOUS
<1>1. Routed' /\ Chain' /\ [Delivery!Next]_(Delivery!vars)
  BY MoveStep
<1>2. ReadSoFar' /\ DroppedForGood'
  BY <1>1, AccountStep
<1>3. TypeOK' /\ SyncIsDirect' /\ DrainIsSync'
  BY StepType, ModeStep DEF Inv
<1>4. QED
  BY <1>1, <1>2, <1>3 DEF Inv

LEMMA InvHolds == Spec => []Inv
BY InitInv, StepInv, PTL DEF Spec

-------------------------------------------------------------------------------
(* The two channels and the forwarders implement the delivery specification:
   per connection, each accepted line is delivered at most once and in order. *)
THEOREM ImplementsDelivery == Spec => DeliversPerConnection
BY InitInv, StepInv, InvHolds, PTL DEF Spec, DeliversPerConnection, Delivery!Spec

(* Every line read is in exactly one place. *)
THEOREM NothingVanishes == Spec => []EveryLineAccounted
<1>1. Inv => EveryLineAccounted
  <2> SUFFICES ASSUME Inv, NEW c \in Conns, NEW n \in 1 .. sent[c]
               PROVE  LET l == [conn |-> c, n |-> n] IN
                      /\ l \in Range(applied) \cup dropped \cup Waiting
                      /\ l \notin dropped \cap (Range(applied) \cup Waiting)
                      /\ l \notin Range(applied) \cap Waiting
    BY DEF EveryLineAccounted
  <2> DEFINE l == [conn |-> c, n |-> n]
  <2>1. l \in Line /\ l.n = n /\ l.conn = c /\ n \in Nat
    BY IngestAssumption DEF Inv, TypeOK, Line
  <2>2. l \in Range(applied) \cup dropped \cup Waiting
    BY <2>1 DEF Inv, ReadSoFar
  <2>3. l \notin dropped \cap (Range(applied) \cup Waiting)
    BY DEF Inv, DroppedForGood
  <2>4. Precedes(Range(applied), Waiting)
    BY DEF Inv, Chain, Precedes, Waiting
  <2>5. l \notin Range(applied) \cap Waiting
    BY <2>1, <2>4 DEF Precedes
  <2>6. QED
    BY <2>2, <2>3, <2>5
<1>2. QED
  BY <1>1, InvHolds, PTL

(* Lines of a connection enter the buffers in the order they were read, and no
   applied line has an older one of its connection behind it. *)
THEOREM OrderIsKept == Spec => []AppliedInOrder
<1>1. Inv => OlderFirst
  BY DEF Inv, Chain, InOrder, OlderFirst
<1>2. Inv => NoGap
  <2> SUFFICES ASSUME Inv, NEW l \in Range(applied), NEW n \in 1 .. l.n - 1
               PROVE  [conn |-> l.conn, n |-> n] \in Range(applied) \cup dropped
    BY DEF NoGap
  <2> DEFINE k == [conn |-> l.conn, n |-> n]
  <2>1. /\ l \in Line /\ l.n \in Nat /\ n < l.n /\ n \in Nat
        /\ k \in Line /\ k.n = n /\ k.conn = l.conn
    BY RangesAreLines, IngestAssumption DEF Inv, Line
  <2>2. l.n <= sent[l.conn] /\ sent[l.conn] \in Nat
    BY <2>1, IngestAssumption DEF Inv, ReadSoFar, TypeOK, Line
  <2>3. k \in dropped \cup Waiting \cup Range(applied)
    BY <2>1, <2>2 DEF Inv, ReadSoFar
  <2>4. Precedes(Range(applied), Waiting)
    BY DEF Inv, Chain, Precedes, Waiting
  <2>5. k \notin Waiting
    BY <2>1, <2>4 DEF Precedes
  <2>6. QED
    BY <2>3, <2>5
<1>3. Inv => AppliedInOrder
  BY <1>1, <1>2 DEF AppliedInOrder
<1>4. QED
  BY <1>3, InvHolds, PTL

(* The rate counter and its pending part add up to the lines applied. *)
THEOREM RateIsExact == Spec => []RateAccounts
<1>1. Init => RateAccounts
  BY DEF Init, RateAccounts
<1>2. TypeOK /\ RateAccounts /\ [Next]_vars => RateAccounts'
  <2> SUFFICES ASSUME TypeOK, RateAccounts, [Next]_vars PROVE RateAccounts'
    OBVIOUS
  <2>1. applied \in Seq(Line) /\ Len(applied) \in Nat /\ counted \in Nat /\ pendingLogs \in Nat
    BY LenProperties DEF TypeOK
  <2>2. ASSUME NEW l \in Line, Apply(l), pendingLogs' = pendingLogs + 1, UNCHANGED counted
        PROVE  RateAccounts'
    <3>1. Len(applied') = Len(applied) + 1
      BY <2>1, <2>2, AppendRange DEF Apply
    <3>2. QED
      BY <2>1, <2>2, <3>1 DEF RateAccounts
  <2>3. CASE Consume \/ BurstConsume
    <3>1. Head(ingest) \in Line
      BY <2>3, HeadTailRange DEF Consume, BurstConsume, TakeIngested, TypeOK
    <3>2. QED
      BY <2>2, <2>3, <3>1 DEF Consume, BurstConsume, TakeIngested
  <2>4. CASE DrainConsume
    <3>1. Head(queue[shard]) \in Line
      BY <2>4, HeadTailRange DEF DrainConsume, TypeOK
    <3>2. QED
      BY <2>2, <2>4, <3>1 DEF DrainConsume
  <2>5. CASE TickAsync \/ DrainEnd
    BY <2>1, <2>5 DEF TickAsync, DrainEnd, FlushPending, RateAccounts
  <2>6. CASE UNCHANGED <<applied, pendingLogs, counted>>
    BY <2>6 DEF RateAccounts
  <2>7. QED
    BY <2>3, <2>4, <2>5, <2>6 DEF Next, Forwarder, Engine, ReadLine, ForwarderTake, ForwarderSend,
       ForwarderStop, BurstEnd, TickSync, DrainNextShard, EngineStop, Cancel, vars, engine
<1>3. QED
  BY <1>1, <1>2, TypeCorrect, PTL DEF Spec
===============================================================================

---------------------------- MODULE LiveViewProofs ----------------------------
(***************************************************************************)
(* Proofs about LiveView: types; that a screen which missed no frame has the  *)
(* content of the snapshot its number stands for; and that after a calm full  *)
(* period every screen which still handles frames shows the engine's state.   *)
(* For every number of browsers and connections, every size of the buffers    *)
(* and every interleaving of the hub's tick with the handlers of new          *)
(* connections.                                                              *)
(***************************************************************************)
EXTENDS LiveView, FiniteSetTheorems, TLAPS

-------------------------------------------------------------------------------
(* Sequences. *)

(* Elements passing a filter are elements, and no more than there were: the places
   they are at are numbered from one without a gap.  What has each element once
   still has. *)
LEMMA PassingIsSequence ==
  ASSUME NEW S, NEW s \in Seq(S), NEW T
  PROVE  /\ Passing(s, T) \in Seq(S) /\ Len(Passing(s, T)) <= Len(s)
         /\ ToSet(Passing(s, T)) = ToSet(s) \cap T
         /\ Lists(s, ToSet(s)) => Lists(Passing(s, T), ToSet(s) \cap T)
<1> DEFINE at == {i \in DOMAIN s : s[i] \in T}
           upTo(i) == {j \in at : j <= i}
           rank == [i \in at |-> Cardinality(upTo(i))]
           N == Cardinality(at)
           Nth(n) == CHOOSE i \in at : Cardinality({j \in at : j <= i}) = n
<1>1. DOMAIN s = 1 .. Len(s) /\ Len(s) \in Nat
  OBVIOUS
<1>2. IsFiniteSet(1 .. Len(s)) /\ Cardinality(1 .. Len(s)) = Len(s)
  BY <1>1, FS_Interval
<1>3. IsFiniteSet(at) /\ N <= Len(s) /\ N \in Nat
  BY <1>1, <1>2, FS_Subset, FS_CardinalityType
<1>4. ASSUME NEW i \in at
      PROVE  IsFiniteSet(upTo(i)) /\ rank[i] \in 1 .. N
  <2>1. upTo(i) \subseteq at
    OBVIOUS
  <2>2. IsFiniteSet(upTo(i)) /\ Cardinality(upTo(i)) <= N /\ Cardinality(upTo(i)) \in Nat
    BY <1>3, <2>1, FS_Subset, FS_CardinalityType
  <2>3. i \in upTo(i)
    BY <1>1
  <2>4. Cardinality(upTo(i)) # 0
    BY <2>2, <2>3, FS_EmptySet
  <2> QED
    BY <2>2, <2>4
<1>5. ASSUME NEW i \in at, NEW j \in at, i < j
      PROVE  rank[i] # rank[j]
  <2>1. upTo(i) \subseteq upTo(j) /\ j \in upTo(j) /\ j \notin upTo(i)
    BY <1>1, <1>5
  <2>2. IsFiniteSet(upTo(j))
    BY <1>4
  <2>3. Cardinality(upTo(i)) # Cardinality(upTo(j))
    BY <2>1, <2>2, FS_Subset
  <2> QED
    BY <2>3
<1>6. at \subseteq Int /\ rank \in [at -> 1 .. N]
  <2>1. at \subseteq Int
    BY <1>1
  <2>2. rank = [i \in at |-> rank[i]]
    OBVIOUS
  <2>3. \A i \in at : rank[i] \in 1 .. N
    BY <1>4
  <2> HIDE DEF at, rank, N
  <2> QED
    BY <2>1, <2>2, <2>3
<1>7. \A i, j \in at : i < j => rank[i] # rank[j]
  BY <1>5
<1>8. \A n \in 1 .. N : \E i \in at : rank[i] = n
  <2> HIDE DEF at, rank, N
  <2>1. \A i, j \in at : rank[i] = rank[j] => i = j
    BY <1>6, <1>7
  <2>2. rank \in Injection(at, 1 .. N)
    BY <1>6, <2>1 DEF Injection, IsInjective
  <2>3. IsFiniteSet(1 .. N) /\ Cardinality(1 .. N) = N
    BY <1>3, FS_Interval
  <2>4. Cardinality(at) = N
    BY DEF N
  <2>5. rank \in Surjection(at, 1 .. N)
    BY <2>2, <2>3, <2>4, FS_Injection
  <2> QED
    BY <2>5 DEF Surjection
<1>9. \A n \in 1 .. N : Nth(n) \in at
  <2>1. \A n \in 1 .. N : \E i \in at : Cardinality({j \in at : j <= i}) = n
    BY <1>8
  <2> QED
    BY <2>1
<1>10. Passing(s, T) = [n \in 1 .. N |-> s[Nth(n)]]
  BY DEF Passing
<1>11. \A n \in 1 .. N : s[Nth(n)] \in S
  <2>1. \A i \in at : s[i] \in S
    BY <1>1
  <2> HIDE DEF at, N, Nth
  <2> QED
    BY <1>9, <2>1
<1>12. \A n \in 1 .. N : rank[Nth(n)] = n
  <2>1. \A n \in 1 .. N : \E i \in at : Cardinality({j \in at : j <= i}) = n
    BY <1>8
  <2> QED
    BY <1>9, <2>1
<1>13. \A i \in at : rank[i] \in 1 .. N /\ Nth(rank[i]) = i
  <2> HIDE DEF at, rank, N, Nth
  <2>1. \A i, j \in at : rank[i] = rank[j] => i = j
    BY <1>6, <1>7
  <2> QED
    BY <1>6, <1>9, <1>12, <2>1
<1>14. \A i \in DOMAIN s : i \in at <=> s[i] \in T
  OBVIOUS
<1>15. at \subseteq DOMAIN s
  OBVIOUS
<1> HIDE DEF at, N, Nth, rank
<1>16. ToSet(Passing(s, T)) = ToSet(s) \cap T
  <2>1. ToSet(Passing(s, T)) = {s[Nth(n)] : n \in 1 .. N}
    BY <1>10 DEF ToSet
  <2>2. \A n \in 1 .. N : s[Nth(n)] \in ToSet(s) \cap T
    BY <1>9, <1>14, <1>15 DEF ToSet
  <2>3. ASSUME NEW x \in ToSet(s) \cap T PROVE \E n \in 1 .. N : s[Nth(n)] = x
    <3>1. PICK i \in DOMAIN s : s[i] = x
      BY DEF ToSet
    <3> QED
      BY <1>13, <1>14, <3>1
  <2> QED
    BY <2>1, <2>2, <2>3
<1>17. ASSUME Lists(s, ToSet(s)) PROVE Lists(Passing(s, T), ToSet(s) \cap T)
  <2>1. \A i, j \in DOMAIN s : s[i] = s[j] => i = j
    BY <1>17 DEF Lists
  <2>2. \A n, k \in 1 .. N : Nth(n) = Nth(k) => n = k
    BY <1>12
  <2>3. \A n, k \in 1 .. N : s[Nth(n)] = s[Nth(k)] => n = k
    BY <1>9, <1>15, <2>1, <2>2
  <2> QED
    BY <1>10, <1>16, <2>3 DEF Lists
<1> QED
  BY <1>3, <1>10, <1>11, <1>16, <1>17

(* Two lists of different rows, one behind the other. *)
LEMMA ListsOfTwo ==
  ASSUME NEW S, NEW s \in Seq(S), NEW t \in Seq(S), NEW R, NEW Q,
         Lists(s, R), Lists(t, Q), R \cap Q = {}
  PROVE  s \o t \in Seq(S) /\ Lists(s \o t, R \cup Q)
<1> DEFINE u == s \o t
<1>1. /\ Len(s) \in Nat /\ Len(t) \in Nat
      /\ DOMAIN s = 1 .. Len(s) /\ DOMAIN t = 1 .. Len(t)
  OBVIOUS
<1>2. /\ u \in Seq(S) /\ Len(u) = Len(s) + Len(t) /\ DOMAIN u = 1 .. Len(u)
      /\ \A i \in 1 .. Len(s) : u[i] = s[i]
      /\ \A i \in 1 .. Len(t) : u[Len(s) + i] = t[i]
  OBVIOUS
<1> HIDE DEF u
<1>3. ASSUME NEW i \in DOMAIN u
      PROVE  \/ i \in DOMAIN s /\ u[i] = s[i] /\ u[i] \in R
             \/ /\ i - Len(s) \in DOMAIN t /\ i \in Int
                /\ u[i] = t[i - Len(s)] /\ u[i] \in Q
  <2>1. CASE i <= Len(s)
    <3>1. i \in DOMAIN s
      BY <1>1, <1>2, <2>1
    <3> QED
      BY <1>1, <1>2, <3>1 DEF Lists, ToSet
  <2>2. CASE ~(i <= Len(s))
    <3>1. i - Len(s) \in DOMAIN t /\ i = Len(s) + (i - Len(s)) /\ i \in Int
      BY <1>1, <1>2, <2>2
    <3>2. u[Len(s) + (i - Len(s))] = t[i - Len(s)]
      BY <1>1, <1>2, <3>1
    <3> QED
      BY <3>1, <3>2 DEF Lists, ToSet
  <2> QED
    BY <2>1, <2>2
<1>4. ASSUME NEW i \in DOMAIN u, NEW j \in DOMAIN u, u[i] = u[j]
      PROVE  i = j
  <2>1. CASE i \in DOMAIN s /\ u[i] = s[i] /\ u[i] \in R
    <3>1. u[j] \notin Q
      BY <1>4, <2>1
    <3>2. j \in DOMAIN s /\ u[j] = s[j]
      BY <1>3, <3>1
    <3> QED
      BY <1>4, <2>1, <3>2 DEF Lists
  <2>2. CASE /\ i - Len(s) \in DOMAIN t /\ i \in Int
             /\ u[i] = t[i - Len(s)] /\ u[i] \in Q
    <3>1. u[j] \notin R
      BY <1>4, <2>2
    <3>2. j - Len(s) \in DOMAIN t /\ j \in Int /\ u[j] = t[j - Len(s)]
      BY <1>3, <3>1
    <3>3. i - Len(s) = j - Len(s)
      BY <1>4, <2>2, <3>2 DEF Lists
    <3> QED
      BY <1>1, <2>2, <3>2, <3>3
  <2> QED
    BY <1>3, <2>1, <2>2
<1>5. \A x \in R : \E i \in DOMAIN u : u[i] = x
  <2>1. ASSUME NEW x \in R PROVE \E i \in DOMAIN u : u[i] = x
    <3>1. PICK i \in DOMAIN s : s[i] = x
      BY DEF Lists, ToSet
    <3>2. i \in DOMAIN u
      BY <1>1, <1>2
    <3> QED
      BY <1>1, <1>2, <3>1, <3>2
  <2> QED
    BY <2>1
<1>6. \A x \in Q : \E i \in DOMAIN u : u[i] = x
  <2>1. ASSUME NEW x \in Q PROVE \E i \in DOMAIN u : u[i] = x
    <3>1. PICK i \in DOMAIN t : t[i] = x
      BY DEF Lists, ToSet
    <3>2. Len(s) + i \in DOMAIN u
      BY <1>1, <1>2
    <3> QED
      BY <1>1, <1>2, <3>1, <3>2
  <2> QED
    BY <2>1
<1>7. ToSet(u) = R \cup Q
  BY <1>3, <1>5, <1>6 DEF ToSet
<1> QED
  BY <1>2, <1>4, <1>7 DEF Lists, u

(* The last m elements of a sequence. *)
LEMMA LastOfSequence ==
  ASSUME NEW S, NEW s \in Seq(S), NEW m \in Nat
  PROVE  /\ LastOf(s, m) \in Seq(S)
         /\ Len(LastOf(s, m)) = IF Len(s) > m THEN m ELSE Len(s)
         /\ \A i \in 1 .. Len(LastOf(s, m)) :
              LastOf(s, m)[i] = s[Len(s) - Len(LastOf(s, m)) + i]
<1>1. Len(s) \in Nat
  OBVIOUS
<1>2. CASE Len(s) > m
  <2>1. LastOf(s, m) = SubSeq(s, Len(s) - m + 1, Len(s))
    BY <1>2 DEF LastOf
  <2>2. /\ SubSeq(s, Len(s) - m + 1, Len(s)) \in Seq(S)
        /\ Len(SubSeq(s, Len(s) - m + 1, Len(s))) = m
        /\ \A i \in 1 .. m : SubSeq(s, Len(s) - m + 1, Len(s))[i] = s[Len(s) - m + i]
    BY <1>1, <1>2
  <2> QED
    BY <1>2, <2>1, <2>2
<1>3. CASE ~(Len(s) > m)
  BY <1>1, <1>3 DEF LastOf
<1> QED
  BY <1>2, <1>3

LEMMA SequencesAreEqual ==
  ASSUME NEW S, NEW s \in Seq(S), NEW t \in Seq(S), Len(s) = Len(t),
         \A i \in 1 .. Len(s) : s[i] = t[i]
  PROVE  s = t
OBVIOUS

(* Cutting before lines are added changes nothing once it is cut after. *)
LEMMA LastOfLastOf ==
  ASSUME NEW S, NEW s \in Seq(S), NEW t \in Seq(S), NEW m \in Nat
  PROVE  LastOf(LastOf(s, m) \o t, m) = LastOf(s \o t, m)
<1> DEFINE r == LastOf(s, m)
           u == r \o t
           v == s \o t
<1>1. /\ r \in Seq(S) /\ Len(r) = IF Len(s) > m THEN m ELSE Len(s)
      /\ \A i \in 1 .. Len(r) : r[i] = s[Len(s) - Len(r) + i]
  BY LastOfSequence
<1> HIDE DEF r
<1>2. Len(s) \in Nat /\ Len(t) \in Nat /\ Len(r) \in Nat
  BY <1>1
<1>3. /\ u \in Seq(S) /\ Len(u) = Len(r) + Len(t)
      /\ \A i \in 1 .. Len(r) : u[i] = r[i]
      /\ \A i \in 1 .. Len(t) : u[Len(r) + i] = t[i]
  BY <1>1
<1>4. /\ v \in Seq(S) /\ Len(v) = Len(s) + Len(t)
      /\ \A i \in 1 .. Len(s) : v[i] = s[i]
      /\ \A i \in 1 .. Len(t) : v[Len(s) + i] = t[i]
  OBVIOUS
<1> HIDE DEF u, v
<1>5. /\ LastOf(u, m) \in Seq(S)
      /\ Len(LastOf(u, m)) = IF Len(u) > m THEN m ELSE Len(u)
      /\ \A i \in 1 .. Len(LastOf(u, m)) :
           LastOf(u, m)[i] = u[Len(u) - Len(LastOf(u, m)) + i]
  BY <1>3, LastOfSequence
<1>6. /\ LastOf(v, m) \in Seq(S)
      /\ Len(LastOf(v, m)) = IF Len(v) > m THEN m ELSE Len(v)
      /\ \A i \in 1 .. Len(LastOf(v, m)) :
           LastOf(v, m)[i] = v[Len(v) - Len(LastOf(v, m)) + i]
  BY <1>4, LastOfSequence
<1>7. \A i \in 1 .. Len(u) : u[i] = v[Len(v) - Len(u) + i]
  <2> SUFFICES ASSUME NEW i \in 1 .. Len(u) PROVE u[i] = v[Len(v) - Len(u) + i]
    OBVIOUS
  <2>1. CASE i <= Len(r)
    <3>1. Len(s) - Len(r) + i \in 1 .. Len(s) /\ i \in 1 .. Len(r)
      BY <1>1, <1>2, <2>1
    <3>2. u[i] = s[Len(s) - Len(r) + i] /\ v[Len(s) - Len(r) + i] = s[Len(s) - Len(r) + i]
      BY <1>1, <1>3, <1>4, <3>1
    <3>3. Len(v) - Len(u) + i = Len(s) - Len(r) + i
      BY <1>2, <1>3, <1>4
    <3> QED
      BY <3>2, <3>3
  <2>2. CASE ~(i <= Len(r))
    <3>1. i - Len(r) \in 1 .. Len(t) /\ i = Len(r) + (i - Len(r))
      BY <1>2, <1>3, <2>2
    <3>2. Len(v) - Len(u) + i = Len(s) + (i - Len(r))
      BY <1>2, <1>3, <1>4
    <3>3. u[Len(r) + (i - Len(r))] = t[i - Len(r)] /\ v[Len(s) + (i - Len(r))] = t[i - Len(r)]
      BY <1>3, <1>4, <3>1
    <3> QED
      BY <3>1, <3>2, <3>3
  <2> QED
    BY <2>1, <2>2
<1>8. Len(LastOf(u, m)) = Len(LastOf(v, m)) /\ Len(LastOf(u, m)) <= Len(u)
  BY <1>1, <1>2, <1>3, <1>4, <1>5, <1>6
<1>9. ASSUME NEW i \in 1 .. Len(LastOf(u, m))
      PROVE  LastOf(u, m)[i] = LastOf(v, m)[i]
  <2> DEFINE n == Len(LastOf(u, m))
  <2>1. n \in Nat /\ n <= Len(u) /\ Len(u) \in Nat /\ Len(v) \in Nat
    BY <1>2, <1>3, <1>4, <1>5, <1>8
  <2>2. Len(u) - n + i \in 1 .. Len(u)
    BY <2>1
  <2>3. LastOf(u, m)[i] = u[Len(u) - n + i]
    BY <1>5
  <2>4. u[Len(u) - n + i] = v[Len(v) - Len(u) + (Len(u) - n + i)]
    BY <1>7, <2>2
  <2>5. Len(v) - Len(u) + (Len(u) - n + i) = Len(v) - n + i
    BY <2>1
  <2>6. LastOf(v, m)[i] = v[Len(v) - n + i]
    BY <1>6, <1>8
  <2> QED
    BY <2>3, <2>4, <2>5, <2>6
<1>10. LastOf(u, m) = LastOf(v, m)
  BY <1>5, <1>6, <1>8, <1>9, SequencesAreEqual
<1> QED
  BY <1>10 DEF u, v, r

-------------------------------------------------------------------------------
(* Snapshots and deltas. *)

LEMMA LinesAreSequences ==
  ASSUME NEW s
  PROVE  s \in Lines <=> s \in Seq(Text) /\ Len(s) <= Capacity
<1> USE LiveViewAssumption
<1>1. ASSUME s \in Lines PROVE s \in Seq(Text) /\ Len(s) <= Capacity
  <2>1. PICK n \in 0 .. Capacity : s \in [1 .. n -> Text]
    BY <1>1 DEF Lines
  <2>2. s \in Seq(Text) /\ Len(s) = n
    BY <2>1
  <2> QED
    BY <2>2
<1>2. ASSUME s \in Seq(Text), Len(s) <= Capacity PROVE s \in Lines
  <2>1. Len(s) \in 0 .. Capacity /\ s \in [1 .. Len(s) -> Text]
    BY <1>2
  <2> QED
    BY <2>1 DEF Lines
<1> QED
  BY <1>1, <1>2

LEMMA RowTablesAreFunctions ==
  ASSUME NEW f
  PROVE  f \in RowTables <=> f \in [DOMAIN f -> 0 .. 1] /\ DOMAIN f \subseteq Rows
BY DEF RowTables

LEMMA SnapshotFields ==
  ASSUME NEW s \in Snapshots
  PROVE  /\ s.lines \in Seq(Text) /\ Len(s.lines) <= Capacity
         /\ s.rows \in [DOMAIN s.rows -> 0 .. 1] /\ DOMAIN s.rows \subseteq Rows
         /\ s.stats \in 0 .. MaxStats
         /\ s.order \in Seq(Rows) /\ Lists(s.order, DOMAIN s.rows)
         /\ Content(Kept(s)) = Kept(Content(s))
         /\ Kept(s).rows = s.rows /\ Kept(s).order = s.order /\ Kept(s).stats = s.stats
         /\ Kept(s).lines = LastOf(s.lines, MaxClientLines)
<1>1. s.lines \in Lines /\ s.rows \in RowTables /\ s.stats \in 0 .. MaxStats
  BY DEF Snapshots
<1>2. s.order \in Seq(Rows) /\ Lists(s.order, DOMAIN s.rows)
  BY DEF Snapshots, Listings
<1>3. /\ Kept(s).rows = s.rows /\ Kept(s).order = s.order /\ Kept(s).stats = s.stats
      /\ Kept(s).lines = LastOf(s.lines, MaxClientLines)
  BY DEF Snapshots, Kept
<1>4. Content(Kept(s)) = Kept(Content(s))
  BY <1>3 DEF Content, Kept
<1> QED
  BY <1>1, <1>2, <1>3, <1>4, LinesAreSequences, RowTablesAreFunctions

LEMMA AddedLines ==
  ASSUME NEW S, NEW s \in Seq(S), NEW t \in Seq(S)
  PROVE  /\ SubSeq(t, Len(s) + 1, Len(t)) \in Seq(S)
         /\ Len(SubSeq(t, Len(s) + 1, Len(t))) <= Len(t)
         /\ IsPrefix(s, t) => s \o SubSeq(t, Len(s) + 1, Len(t)) = t
<1> DEFINE a == SubSeq(t, Len(s) + 1, Len(t))
<1>1. Len(s) \in Nat /\ Len(t) \in Nat
  OBVIOUS
<1>2. /\ a \in Seq(S)
      /\ Len(a) = IF Len(s) < Len(t) THEN Len(t) - Len(s) ELSE 0
      /\ \A i \in 1 .. Len(a) : a[i] = t[Len(s) + i]
  BY <1>1
<1> HIDE DEF a
<1>3. ASSUME IsPrefix(s, t)
      PROVE  s \o a = t
  <2>1. Len(s) <= Len(t) /\ SubSeq(s, 1, Len(s)) = SubSeq(t, 1, Len(s))
    BY <1>3 DEF IsPrefix
  <2>2. \A i \in 1 .. Len(s) : SubSeq(s, 1, Len(s))[i] = s[i] /\ SubSeq(t, 1, Len(s))[i] = t[i]
    BY <1>1, <2>1
  <2>3. \A i \in 1 .. Len(s) : s[i] = t[i]
    BY <2>1, <2>2
  <2>4. /\ s \o a \in Seq(S) /\ Len(s \o a) = Len(s) + Len(a)
        /\ \A i \in 1 .. Len(s) : (s \o a)[i] = s[i]
        /\ \A i \in 1 .. Len(a) : (s \o a)[Len(s) + i] = a[i]
    BY <1>2
  <2>5. Len(s \o a) = Len(t)
    BY <1>1, <1>2, <2>1, <2>4
  <2>6. ASSUME NEW i \in 1 .. Len(s \o a)
        PROVE  (s \o a)[i] = t[i]
    <3>1. CASE i <= Len(s)
      BY <1>1, <2>3, <2>4, <3>1
    <3>2. CASE ~(i <= Len(s))
      <4>1. i - Len(s) \in 1 .. Len(a) /\ i = Len(s) + (i - Len(s))
        BY <1>1, <1>2, <2>4, <3>2
      <4> QED
        BY <1>2, <2>4, <4>1
    <3> QED
      BY <3>1, <3>2
  <2> QED
    BY <2>4, <2>5, <2>6, SequencesAreEqual
<1>4. Len(a) <= Len(t)
  BY <1>1, <1>2
<1> QED
  BY <1>2, <1>3, <1>4 DEF a

LEMMA NewLogsAreLines ==
  ASSUME NEW P \in Snapshots, NEW C \in Snapshots
  PROVE  /\ Added(P, C) \in Seq(Text) /\ Len(Added(P, C)) <= Capacity
         /\ NewLogs(P, C) \in Lines
         /\ ~Truncated(P, C) => NewLogs(P, C) = Added(P, C)
<1> USE DeltaAssumption, LiveViewAssumption
<1>1. /\ P.lines \in Seq(Text) /\ C.lines \in Seq(Text)
      /\ Len(C.lines) <= Capacity
  BY SnapshotFields
<1>2. Added(P, C) \in Seq(Text) /\ Len(Added(P, C)) <= Len(C.lines)
  BY <1>1, AddedLines DEF Added
<1>3. Added(P, C) \in Seq(Text) /\ Len(Added(P, C)) <= Capacity
  BY <1>1, <1>2
<1>4. NewLogs(P, C) \in Seq(Text) /\ Len(NewLogs(P, C)) <= Len(Added(P, C))
  <2>1. /\ NewLogs(P, C) \in Seq(Text)
        /\ Len(NewLogs(P, C)) =
             IF Len(Added(P, C)) > MaxLogBatch THEN MaxLogBatch ELSE Len(Added(P, C))
    BY <1>3, LastOfSequence DEF NewLogs
  <2> QED
    BY <1>3, <2>1
<1>5. NewLogs(P, C) \in Lines
  BY <1>3, <1>4, LinesAreSequences
<1>6. ~Truncated(P, C) => NewLogs(P, C) = Added(P, C)
  BY DEF Truncated, NewLogs, LastOf
<1> QED
  BY <1>3, <1>5, <1>6

LEMMA PatchesAreRows ==
  ASSUME NEW P \in Snapshots, NEW C \in Snapshots
  PROVE  Patches(P, C) \in RowTables
<1>1. C.rows \in [DOMAIN C.rows -> 0 .. 1] /\ DOMAIN C.rows \subseteq Rows
  BY SnapshotFields
<1>2. /\ DOMAIN Patches(P, C) \subseteq DOMAIN C.rows
      /\ Patches(P, C) \in [DOMAIN Patches(P, C) -> 0 .. 1]
  BY <1>1 DEF Patches
<1> QED
  BY <1>1, <1>2, RowTablesAreFunctions

LEMMA PatchesAreListed ==
  ASSUME NEW P \in Snapshots, NEW C \in Snapshots
  PROVE  /\ PatchOrder(P, C) \in Seq(Rows)
         /\ Lists(PatchOrder(P, C), DOMAIN Patches(P, C))
<1>1. C.order \in Seq(Rows) /\ Lists(C.order, DOMAIN C.rows)
  BY SnapshotFields
<1>2. ToSet(C.order) = DOMAIN C.rows /\ Lists(C.order, ToSet(C.order))
  BY <1>1 DEF Lists
<1>3. ToSet(C.order) \cap DOMAIN Patches(P, C) = DOMAIN Patches(P, C)
  BY <1>2 DEF Patches
<1> QED
  BY <1>1, <1>2, <1>3, PassingIsSequence DEF PatchOrder

(* A screen with a list of its rows has one of them after a delta that lists its
   patches. *)
LEMMA PatchedIsListed ==
  ASSUME NEW x, x.order \in Seq(Rows), Lists(x.order, DOMAIN x.rows),
         NEW d, d.order \in Seq(Rows), Lists(d.order, DOMAIN d.patches)
  PROVE  /\ Patched(x, d).order \in Seq(Rows)
         /\ Lists(Patched(x, d).order, DOMAIN Patched(x, d).rows)
<1> DEFINE new == DOMAIN d.patches \ DOMAIN x.rows
<1>1. Patched(x, d).order = x.order \o Passing(d.order, new)
  BY DEF Patched
<1>2. DOMAIN Patched(x, d).rows = DOMAIN x.rows \cup new
  BY DEF Patched
<1>3. ToSet(d.order) = DOMAIN d.patches /\ Lists(d.order, ToSet(d.order))
  BY DEF Lists
<1>4. ToSet(d.order) \cap new = new
  BY <1>3
<1>5. Passing(d.order, new) \in Seq(Rows) /\ Lists(Passing(d.order, new), new)
  BY <1>3, <1>4, PassingIsSequence
<1>6. DOMAIN x.rows \cap new = {}
  OBVIOUS
<1> HIDE DEF new
<1> QED
  BY <1>1, <1>2, <1>5, <1>6, ListsOfTwo

(* The screen of a snapshot and a delta from it that was not cut: the screen of
   the snapshot the delta leads to, but for the order, provided the delta was one to
   send. *)
LEMMA DeltaIsExact ==
  ASSUME NEW P \in Snapshots, NEW C \in Snapshots, NEW m, NEW n, NEW x,
         Content(x) = Kept(Content(P)),
         AppendOnly(P, C), ~Truncated(P, C), DOMAIN P.rows \subseteq DOMAIN C.rows
  PROVE  Content(Patched(x, DeltaFrame(P, m, C, n))) = Kept(Content(C))
<1> USE DeltaAssumption
<1> DEFINE d == DeltaFrame(P, m, C, n)
<1>1. d.newLogs = NewLogs(P, C) /\ d.patches = Patches(P, C) /\ d.stats = C.stats
  BY DEF DeltaFrame
<1> HIDE DEF d
<1>2. /\ P.lines \in Seq(Text) /\ C.lines \in Seq(Text)
      /\ P.rows \in [DOMAIN P.rows -> 0 .. 1]
      /\ C.rows \in [DOMAIN C.rows -> 0 .. 1]
  BY SnapshotFields
<1>0. x.lines = LastOf(P.lines, MaxClientLines) /\ x.rows = P.rows
  BY DEF Content, Kept
<1>3. LastOf(x.lines \o d.newLogs, MaxClientLines) = LastOf(C.lines, MaxClientLines)
  <2>1. NewLogs(P, C) = Added(P, C) /\ Added(P, C) \in Seq(Text)
    BY NewLogsAreLines
  <2>2. P.lines \o Added(P, C) = C.lines
    BY <1>2, AddedLines DEF Added, AppendOnly
  <2>4. LastOf(LastOf(P.lines, MaxClientLines) \o Added(P, C), MaxClientLines)
          = LastOf(P.lines \o Added(P, C), MaxClientLines)
    BY <1>2, <2>1, LastOfLastOf
  <2> QED
    BY <1>0, <1>1, <2>1, <2>2, <2>4
<1>4. [r \in DOMAIN x.rows \cup DOMAIN d.patches |->
         IF r \in DOMAIN d.patches THEN d.patches[r] ELSE x.rows[r]] = C.rows
  <2>2. /\ DOMAIN Patches(P, C) = {r \in DOMAIN C.rows : r \in DOMAIN P.rows => P.rows[r] # C.rows[r]}
        /\ \A r \in DOMAIN Patches(P, C) : Patches(P, C)[r] = C.rows[r]
    BY DEF Patches
  <2>3. DOMAIN P.rows \cup DOMAIN Patches(P, C) = DOMAIN C.rows
    BY <2>2
  <2>4. \A r \in DOMAIN C.rows :
          (IF r \in DOMAIN Patches(P, C) THEN Patches(P, C)[r] ELSE P.rows[r]) = C.rows[r]
    BY <2>2
  <2>5. C.rows = [r \in DOMAIN C.rows |-> C.rows[r]]
    BY <1>2
  <2> QED
    BY <1>0, <1>1, <2>3, <2>4, <2>5
<1>5. /\ Patched(x, d).lines = LastOf(x.lines \o d.newLogs, MaxClientLines)
      /\ Patched(x, d).rows = [r \in DOMAIN x.rows \cup DOMAIN d.patches |->
           IF r \in DOMAIN d.patches THEN d.patches[r] ELSE x.rows[r]]
      /\ Patched(x, d).stats = d.stats
  BY DEF Patched
<1>6. Kept(Content(C)) =
        [lines |-> LastOf(C.lines, MaxClientLines), rows |-> C.rows, stats |-> C.stats]
  BY DEF Kept, Content
<1> QED
  BY <1>1, <1>3, <1>4, <1>5, <1>6 DEF Content, d

-------------------------------------------------------------------------------
(* The inductive invariant.  There is a history H of the snapshots that were given
   a number: whatever is kept of a snapshot together with a number, in the hub, in
   a handler, in a frame or by a browser, agrees with it. *)

PairOK(H, n, p) == p = None \/ \E i \in 1 .. n : p = [snap |-> H[i], seq |-> i]

(* A delta leads from one snapshot of the history to another of which it was right
   to send it. *)
SentOK(H, n, f) ==
  \/ \E i \in 1 .. n : f = SnapshotFrame(H[i], i)
  \/ \E i, j \in 1 .. n :
       /\ f = DeltaFrame(H[i], i, H[j], j)
       /\ AppendOnly(H[i], H[j])
       /\ DOMAIN H[i].rows \subseteq DOMAIN H[j].rows

FramesOf(H, n) == {f \in Frames : f = HelloFrame \/ SentOK(H, n, f)}

(* A snapshot taken since the rows were all in the table t. *)
Taken(s, t) == s \in Snapshots /\ DOMAIN s.rows \subseteq DOMAIN t

TickOK(H, n, t, v) ==
  \/ v = Idle
  \/ \E p, full :
       /\ PairOK(H, n, p) /\ (p = None => full)
       /\ v = [at |-> "snapshot", prev |-> p, full |-> full]
  \/ \E p, full, s :
       /\ PairOK(H, n, p) /\ (p = None => full)
       /\ Taken(s, t) /\ (p # None => DOMAIN p.snap.rows \subseteq DOMAIN s.rows)
       /\ v = [at |-> "number", prev |-> p, full |-> full, snap |-> s]
  \/ \E p, f : SentOK(H, n, f) /\ v = [at |-> "publish", prev |-> p, frame |-> f]
  \/ \E f, to, again :
       /\ SentOK(H, n, f)
       /\ v = [at |-> "enqueue", frame |-> f, to |-> to, again |-> again]

ServeOK(H, n, t, v) ==
  \/ v = Idle
  \/ \E again : v = [at |-> "hello", again |-> again]
  \/ v = [at |-> "snapshot"]
  \/ \E s : Taken(s, t) /\ v = [at |-> "number", snap |-> s]
  \/ \E i \in 1 .. n : v = [at |-> "publish", snap |-> H[i], seq |-> i]
  \/ \E i \in 1 .. n : \E again :
       v = [at |-> "initial", again |-> again, snap |-> H[i], seq |-> i]

EngineInv ==
  /\ log \in Seq(Text) /\ Len(log) <= Capacity
  /\ rows \in RowTables
  /\ stats \in 0 .. MaxStats

HistoryInv(H) ==
  /\ H \in [Nat -> Snapshots]
  /\ seq \in 0 .. MaxSeq
  /\ \A n \in 1 .. seq : DOMAIN H[n].rows \subseteq DOMAIN rows

HubInv(H) ==
  /\ age \in 0 .. FullEvery
  /\ PairOK(H, seq, last)
  /\ TickOK(H, seq, rows, tick)

ServeInv(H) ==
  /\ serve = [k \in Conns |-> serve[k]]
  /\ \A k \in Conns : ServeOK(H, seq, rows, serve[k])

LinksOK(F, st, sl, wi) ==
  /\ st \in [Conns -> {"new", "open", "closed"}]
  /\ sl \in [Conns -> Seq(F)] /\ wi \in [Conns -> Seq(F)]
  /\ \A k \in Conns : Len(sl[k]) <= 1 /\ Len(wi[k]) <= WireSize
  /\ \A k \in Conns : st[k] # "open" => sl[k] = << >> /\ wi[k] = << >>

LinksInv(H) == LinksOK(FramesOf(H, seq), status, slot, wire)

ScreenLines == {s \in Seq(Text) : Len(s) <= MaxClientLines}

Screens ==
  {x \in [lines : ScreenLines, rows : RowTables, order : Seq(Rows), stats : 0 .. MaxStats] :
     Lists(x.order, DOMAIN x.rows)}

(* x shows what there is in the snapshot z. *)
StandsFor(x, z) == x # None /\ Content(x) = Kept(Content(z))

Fetched == {Asked} \cup [at : {"answered"}, snap : Snapshots]

BrowserInv ==
  /\ attempt \in [Browsers -> 0 .. Attempts]
  /\ shown \in [Browsers -> {None} \cup Screens]
  /\ shownSeq \in [Browsers -> Nat]
  /\ standsFor \in [Browsers -> {None} \cup Snapshots]
  /\ fetches \in [Browsers -> Seq(Fetched)]
  /\ \A b \in Browsers : standsFor[b] # None => StandsFor(shown[b], standsFor[b])

(* The number of a screen that stands for a snapshot is that snapshot's. *)
AgreesWith(H, b) == shownSeq[b] \in 1 .. seq /\ standsFor[b] = H[shownSeq[b]]

TabInv(H) == \A b \in Browsers : Connected(b) /\ standsFor[b] # None => AgreesWith(H, b)

Consistent(H) ==
  /\ EngineInv /\ BrowserInv
  /\ HistoryInv(H) /\ HubInv(H) /\ ServeInv(H) /\ LinksInv(H) /\ TabInv(H)

LiveInv == \E H : Consistent(H)

-------------------------------------------------------------------------------
(* What stays true of a value as the history and the tables grow. *)

LEMMA HistoryGrows ==
  ASSUME NEW H, NEW n \in Nat, NEW G, NEW m \in Nat, n <= m,
         \A i \in 1 .. n : G[i] = H[i],
         NEW t, NEW u, DOMAIN t \subseteq DOMAIN u
  PROVE  /\ \A p : PairOK(H, n, p) => PairOK(G, m, p)
         /\ \A f : SentOK(H, n, f) => SentOK(G, m, f)
         /\ \A v : TickOK(H, n, t, v) => TickOK(G, m, u, v)
         /\ \A v : ServeOK(H, n, t, v) => ServeOK(G, m, u, v)
         /\ FramesOf(H, n) \subseteq FramesOf(G, m)
<1>1. \A i \in 1 .. n : i \in 1 .. m /\ G[i] = H[i]
  OBVIOUS
<1>2. ASSUME NEW p, PairOK(H, n, p) PROVE PairOK(G, m, p)
  BY <1>1, <1>2 DEF PairOK
<1>3. ASSUME NEW f, SentOK(H, n, f) PROVE SentOK(G, m, f)
  <2>1. CASE \E i \in 1 .. n : f = SnapshotFrame(H[i], i)
    BY <1>1, <2>1 DEF SentOK
  <2>2. CASE \E i, j \in 1 .. n :
               /\ f = DeltaFrame(H[i], i, H[j], j)
               /\ AppendOnly(H[i], H[j])
               /\ DOMAIN H[i].rows \subseteq DOMAIN H[j].rows
    BY <1>1, <2>2 DEF SentOK
  <2> QED
    BY <1>3, <2>1, <2>2 DEF SentOK
<1>4. \A s : Taken(s, t) => Taken(s, u)
  BY DEF Taken
<1>5. ASSUME NEW v, TickOK(H, n, t, v) PROVE TickOK(G, m, u, v)
  BY <1>2, <1>3, <1>4, <1>5 DEF TickOK
<1>6. ASSUME NEW v, ServeOK(H, n, t, v) PROVE ServeOK(G, m, u, v)
  BY <1>1, <1>4, <1>6 DEF ServeOK
<1>7. FramesOf(H, n) \subseteq FramesOf(G, m)
  BY <1>3 DEF FramesOf
<1> QED
  BY <1>2, <1>3, <1>5, <1>6, <1>7

LEMMA SentIsFrame ==
  ASSUME NEW H \in [Nat -> Snapshots], NEW n \in 0 .. MaxSeq, NEW f
  PROVE  /\ SentOK(H, n, f) => f \in FramesOf(H, n)
         /\ HelloFrame \in FramesOf(H, n)
<1> USE LiveViewAssumption
<1>1. \A i \in 1 .. n : i \in 1 .. MaxSeq /\ H[i] \in Snapshots
  OBVIOUS
<1>2. ASSUME NEW i \in 1 .. n PROVE SnapshotFrame(H[i], i) \in Frames
  BY <1>1 DEF SnapshotFrame, Frames
<1>3. ASSUME NEW i \in 1 .. n, NEW j \in 1 .. n PROVE DeltaFrame(H[i], i, H[j], j) \in Frames
  <2>1. NewLogs(H[i], H[j]) \in Lines /\ Patches(H[i], H[j]) \in RowTables
    BY <1>1, NewLogsAreLines, PatchesAreRows
  <2>2. Truncated(H[i], H[j]) \in BOOLEAN
    BY DEF Truncated
  <2>3. H[j].stats \in 0 .. MaxStats
    BY <1>1, SnapshotFields
  <2>4. PatchOrder(H[i], H[j]) \in Listings
    BY <1>1, PatchesAreListed DEF Listings
  <2> QED
    BY <1>1, <2>1, <2>2, <2>3, <2>4 DEF DeltaFrame, Frames
<1>4. SentOK(H, n, f) => f \in Frames
  BY <1>2, <1>3 DEF SentOK
<1>5. HelloFrame \in Frames
  BY DEF Frames
<1> QED
  BY <1>4, <1>5 DEF FramesOf

(* Whatever the order of its lists, a snapshot taken now has the content there is. *)
LEMMA SnapshotNow ==
  ASSUME EngineInv, NEW s \in SnapshotsNow
  PROVE  s \in Snapshots /\ s.rows = rows /\ Content(s) = Visible
<1>1. Passing(log, filter) \in Seq(Text) /\ Len(Passing(log, filter)) <= Len(log)
  BY PassingIsSequence DEF EngineInv
<1>2. Passing(log, filter) \in Seq(Text) /\ Len(Passing(log, filter)) <= Capacity
  <2>1. Len(log) \in Nat /\ Len(Passing(log, filter)) \in Nat /\ Capacity \in Nat
    BY <1>1, LiveViewAssumption DEF EngineInv
  <2> QED
    BY <1>1, <2>1 DEF EngineInv
<1>3. Passing(log, filter) \in Lines
  BY <1>2, LinesAreSequences
<1>4. PICK o \in Orders : s = Built(o)
  BY DEF SnapshotsNow
<1>5. o \in Seq(Rows) /\ Lists(o, DOMAIN rows)
  <2>1. /\ o \in [1 .. Cardinality(DOMAIN rows) -> DOMAIN rows]
        /\ DOMAIN rows \subseteq Rows /\ Lists(o, DOMAIN rows)
    BY RowTablesAreFunctions DEF Orders, EngineInv
  <2>2. Cardinality(DOMAIN rows) \in Nat
    BY <2>1, FS_Subset, FS_CardinalityType, LiveViewAssumption
  <2> QED
    BY <2>1, <2>2
<1>6. s = [lines |-> Passing(log, filter), rows |-> rows, order |-> o, stats |-> stats]
  BY <1>4 DEF Built, Visible
<1>7. s \in Snapshots
  BY <1>3, <1>5, <1>6 DEF Snapshots, Listings, EngineInv
<1> QED
  BY <1>6, <1>7 DEF Content, Visible

-------------------------------------------------------------------------------
(* The steps. *)

LEMMA EngineStep ==
  EngineInv /\ [Next]_vars =>
    EngineInv' /\ (~Restart => DOMAIN rows \subseteq DOMAIN rows')
<1> SUFFICES ASSUME EngineInv, [Next]_vars
             PROVE  EngineInv' /\ (~Restart => DOMAIN rows \subseteq DOMAIN rows')
  OBVIOUS
<1> USE LiveViewAssumption
<1>1. ASSUME NEW t \in Text, AppendLine(t)
      PROVE  EngineInv' /\ DOMAIN rows \subseteq DOMAIN rows'
  <2>1. log' = LastOf(Append(log, t), Capacity) /\ UNCHANGED <<rows, stats>>
    BY <1>1 DEF AppendLine
  <2>2. Append(log, t) \in Seq(Text)
    BY DEF EngineInv
  <2>3. /\ LastOf(Append(log, t), Capacity) \in Seq(Text)
        /\ Len(LastOf(Append(log, t), Capacity))
             = IF Len(Append(log, t)) > Capacity THEN Capacity ELSE Len(Append(log, t))
    BY <2>2, LastOfSequence
  <2>4. Len(Append(log, t)) \in Nat
    BY <2>2
  <2>5. log' \in Seq(Text) /\ Len(log') <= Capacity
    BY <2>1, <2>3, <2>4
  <2> QED
    BY <2>1, <2>5 DEF EngineInv
<1>2. ASSUME NEW r \in Rows, ChangeRow(r)
      PROVE  EngineInv' /\ DOMAIN rows \subseteq DOMAIN rows'
  <2>1. /\ rows' = [q \in DOMAIN rows \cup {r} |->
                      IF q \notin DOMAIN rows THEN 0 ELSE IF q = r THEN 1 - rows[q] ELSE rows[q]]
        /\ UNCHANGED <<log, stats>>
    BY <1>2 DEF ChangeRow
  <2>2. rows \in [DOMAIN rows -> 0 .. 1] /\ DOMAIN rows \subseteq Rows
    BY RowTablesAreFunctions DEF EngineInv
  <2>3. DOMAIN rows' = DOMAIN rows \cup {r}
    BY <2>1
  <2>4. \A q \in DOMAIN rows' : rows'[q] \in 0 .. 1
    BY <2>1, <2>2
  <2>5. rows' \in [DOMAIN rows' -> 0 .. 1]
    BY <2>1, <2>3, <2>4
  <2>6. rows' \in RowTables
    BY <2>2, <2>3, <2>5, RowTablesAreFunctions
  <2> QED
    BY <2>1, <2>3, <2>6 DEF EngineInv
<1>3. CASE ChangeStats
  BY <1>3 DEF ChangeStats, EngineInv
<1>4. CASE Restart
  <2>1. << >> \in [{} -> 0 .. 1]
    OBVIOUS
  <2>2. << >> \in RowTables
    BY <2>1 DEF RowTables
  <2> QED
    BY <1>4, <2>2 DEF Restart, EngineInv
<1>5. CASE UNCHANGED <<log, rows, stats>>
  BY <1>5 DEF EngineInv
<1>6. ASSUME ~(\E t \in Text : AppendLine(t)), ~(\E r \in Rows : ChangeRow(r)),
             ~ChangeStats, ~Restart
      PROVE  UNCHANGED <<log, rows, stats>>
  <2>1. ASSUME NEW f \in Filters, SetFilter(f) PROVE UNCHANGED <<log, rows, stats>>
    BY <2>1 DEF SetFilter
  <2>2. CASE BroadcastTick
    BY <2>2 DEF BroadcastTick, TickSkip, TickBegin, TickSnapshot, TickNumber, TickPublish,
                TickOffer, TickOfferAgain, backend
  <2>3. ASSUME NEW k \in Conns, ServeWS(k) \/ Write(k) \/ Break(k)
        PROVE  UNCHANGED <<log, rows, stats>>
    BY <2>3 DEF ServeWS, ServeOffer, ServeOfferAgain, ServeSnapshot, ServeNumber, ServePublish,
                Write, Break, backend
  <2>4. ASSUME NEW b \in Browsers, Browser(b)
        PROVE  UNCHANGED <<log, rows, stats>>
    BY <2>4 DEF Browser, Connect, Handle, Refresh, Answer, Refreshed, backend
  <2>5. CASE UNCHANGED vars
    BY <2>5 DEF vars, backend
  <2> QED
    BY <1>6, <2>1, <2>2, <2>3, <2>4, <2>5 DEF Next, Engine
<1> QED
  BY <1>1, <1>2, <1>3, <1>4, <1>5, <1>6

(* What a step that is no restart makes of the history. *)
Follows(G, H) ==
  /\ G \in [Nat -> Snapshots]
  /\ seq' \in 0 .. MaxSeq /\ seq <= seq'
  /\ \A i \in 1 .. seq : G[i] = H[i]
  /\ DOMAIN rows \subseteq DOMAIN rows'
  /\ \A n \in 1 .. seq' : DOMAIN G[n].rows \subseteq DOMAIN rows'
  /\ TickNumber => seq' = seq + 1 /\ G[seq'] = tick.snap
  /\ \A k \in Conns : ServeNumber(k) => seq' = seq + 1 /\ G[seq'] = serve[k].snap

LEMMA WhoNumbers ==
  ASSUME [Next]_vars, ~Restart, ~TickNumber, \A k \in Conns : ~ServeNumber(k)
  PROVE  UNCHANGED seq
<1>1. CASE Engine
  BY <1>1 DEF Engine, AppendLine, SetFilter, ChangeRow, ChangeStats, hub
<1>2. CASE BroadcastTick
  BY <1>2 DEF BroadcastTick, TickSkip, TickBegin, TickSnapshot, TickPublish,
              TickOffer, TickOfferAgain
<1>3. ASSUME NEW k \in Conns, ServeWS(k) \/ Write(k) \/ Break(k)
      PROVE  UNCHANGED seq
  BY <1>3 DEF ServeWS, ServeOffer, ServeOfferAgain, ServeSnapshot, ServePublish, Write, Break, hub
<1>4. ASSUME NEW b \in Browsers, Browser(b)
      PROVE  UNCHANGED seq
  BY <1>4 DEF Browser, Connect, Handle, Refresh, Answer, Refreshed, hub
<1>5. CASE UNCHANGED vars
  BY <1>5 DEF vars, hub
<1> QED
  BY <1>1, <1>2, <1>3, <1>4, <1>5 DEF Next

(* Numbering a snapshot that was taken of the tables there are. *)
LEMMA HistoryExtended ==
  ASSUME NEW H, EngineInv, HistoryInv(H), seq < MaxSeq, seq' = seq + 1,
         DOMAIN rows \subseteq DOMAIN rows', NEW s, Taken(s, rows)
  PROVE  \E G : /\ G \in [Nat -> Snapshots]
                /\ seq' \in 0 .. MaxSeq /\ seq <= seq'
                /\ \A i \in 1 .. seq : G[i] = H[i]
                /\ \A n \in 1 .. seq' : DOMAIN G[n].rows \subseteq DOMAIN rows'
                /\ G[seq'] = s
<1> USE LiveViewAssumption
<1>1. seq \in Nat /\ seq + 1 \in Nat /\ seq + 1 \in 0 .. MaxSeq /\ s \in Snapshots
  BY DEF HistoryInv, Taken
<1>2. PICK G : G = [H EXCEPT ![seq + 1] = s]
  OBVIOUS
<1>3. G \in [Nat -> Snapshots] /\ G[seq + 1] = s
  BY <1>1, <1>2 DEF HistoryInv
<1>4. \A i \in 1 .. seq : G[i] = H[i]
  BY <1>1, <1>2 DEF HistoryInv
<1>5. \A n \in 1 .. seq + 1 : n \in 1 .. seq \/ n = seq + 1
  BY <1>1
<1>6. DOMAIN s.rows \subseteq DOMAIN rows'
  BY DEF Taken
<1>7. \A n \in 1 .. seq + 1 : DOMAIN G[n].rows \subseteq DOMAIN rows'
  BY <1>3, <1>4, <1>5, <1>6 DEF HistoryInv
<1> QED
  BY <1>1, <1>3, <1>4, <1>7

LEMMA TickNumbering ==
  ASSUME NEW H, TickOK(H, seq, rows, tick), tick.at = "number"
  PROVE  \E p, full, s :
           /\ PairOK(H, seq, p) /\ (p = None => full)
           /\ Taken(s, rows) /\ (p # None => DOMAIN p.snap.rows \subseteq DOMAIN s.rows)
           /\ tick = [at |-> "number", prev |-> p, full |-> full, snap |-> s]
BY DEF TickOK, Idle

(* What the handler of a connection holds, by where it is. *)
LEMMA ServeStates ==
  ASSUME NEW H, NEW n, NEW t, NEW v, ServeOK(H, n, t, v)
  PROVE  /\ v.at = "hello" => \E again : v = [at |-> "hello", again |-> again]
         /\ v.at = "number" => \E s : Taken(s, t) /\ v = [at |-> "number", snap |-> s]
         /\ v.at = "publish" =>
              \E i \in 1 .. n : v = [at |-> "publish", snap |-> H[i], seq |-> i]
         /\ v.at = "initial" =>
              \E i \in 1 .. n : \E again :
                v = [at |-> "initial", again |-> again, snap |-> H[i], seq |-> i]
<1>1. CASE v = Idle
  BY <1>1 DEF Idle
<1>2. CASE \E again : v = [at |-> "hello", again |-> again]
  <2>1. PICK again : v = [at |-> "hello", again |-> again]
    BY <1>2
  <2>2. v.at = "hello"
    BY <2>1
  <2> QED
    BY <1>2, <2>2
<1>3. CASE v = [at |-> "snapshot"]
  BY <1>3
<1>4. CASE \E s : Taken(s, t) /\ v = [at |-> "number", snap |-> s]
  <2>1. PICK s : Taken(s, t) /\ v = [at |-> "number", snap |-> s]
    BY <1>4
  <2>2. v.at = "number"
    BY <2>1
  <2> QED
    BY <2>1, <2>2
<1>5. CASE \E i \in 1 .. n : v = [at |-> "publish", snap |-> H[i], seq |-> i]
  <2>1. PICK i \in 1 .. n : v = [at |-> "publish", snap |-> H[i], seq |-> i]
    BY <1>5
  <2>2. v.at = "publish"
    BY <2>1
  <2> QED
    BY <2>1, <2>2
<1>6. CASE \E i \in 1 .. n : \E again :
             v = [at |-> "initial", again |-> again, snap |-> H[i], seq |-> i]
  <2>1. PICK i \in 1 .. n : \E again :
          v = [at |-> "initial", again |-> again, snap |-> H[i], seq |-> i]
    BY <1>6
  <2>2. v.at = "initial"
    BY <2>1
  <2> QED
    BY <2>1, <2>2
<1> QED
  BY <1>1, <1>2, <1>3, <1>4, <1>5, <1>6 DEF ServeOK

LEMMA ServeNumbering ==
  ASSUME NEW H, ServeInv(H), NEW k \in Conns, serve[k].at = "number"
  PROVE  Taken(serve[k].snap, rows)
<1>1. ServeOK(H, seq, rows, serve[k])
  BY DEF ServeInv
<1>2. PICK s : Taken(s, rows) /\ serve[k] = [at |-> "number", snap |-> s]
  BY <1>1, ServeStates
<1>3. serve[k].snap = s
  BY <1>2
<1> QED
  BY <1>2, <1>3

LEMMA ServePending ==
  ASSUME NEW H, ServeInv(H), NEW k \in Conns, serve[k].at = "initial"
  PROVE  \E i \in 1 .. seq : \E again :
           serve[k] = [at |-> "initial", again |-> again, snap |-> H[i], seq |-> i]
<1>1. PICK v : v = serve[k]
  OBVIOUS
<1>2. ServeOK(H, seq, rows, v) /\ v.at = "initial"
  BY <1>1 DEF ServeInv
<1>3. \E i \in 1 .. seq : \E again :
        v = [at |-> "initial", again |-> again, snap |-> H[i], seq |-> i]
  BY <1>2, ServeStates
<1> QED
  BY <1>1, <1>3

LEMMA HistoryStep ==
  ASSUME NEW H, Consistent(H), [Next]_vars, ~Restart
  PROVE  \E G : Follows(G, H)
<1> USE LiveViewAssumption
<1>1. DOMAIN rows \subseteq DOMAIN rows'
  BY EngineStep DEF Consistent
<1>2. CASE TickNumber
  <2>1. /\ tick.at = "number" /\ seq < MaxSeq /\ seq' = seq + 1
        /\ tick' = IF Silent(tick) THEN Idle
                   ELSE [at |-> "publish", prev |-> tick.prev, frame |-> TickFrame(tick, seq')]
    BY <1>2 DEF TickNumber
  <2>2. Taken(tick.snap, rows)
    BY <2>1, TickNumbering DEF Consistent, HubInv
  <2>3. PICK G : /\ G \in [Nat -> Snapshots]
                 /\ seq' \in 0 .. MaxSeq /\ seq <= seq'
                 /\ \A i \in 1 .. seq : G[i] = H[i]
                 /\ \A n \in 1 .. seq' : DOMAIN G[n].rows \subseteq DOMAIN rows'
                 /\ G[seq'] = tick.snap
    BY <1>1, <2>1, <2>2, HistoryExtended DEF Consistent
  <2>4. tick' # tick
    <3>1. tick'.at \in {"idle", "publish"}
      BY <2>1 DEF Idle
    <3> QED
      BY <2>1, <3>1
  <2>5. \A k \in Conns : ~ServeNumber(k)
    BY <2>4 DEF ServeNumber
  <2> QED
    BY <1>1, <2>1, <2>3, <2>5 DEF Follows
<1>3. ASSUME NEW k \in Conns, ServeNumber(k)
      PROVE  \E G : Follows(G, H)
  <2>1. /\ serve[k].at = "number" /\ seq < MaxSeq /\ seq' = seq + 1 /\ tick' = tick
        /\ serve' = [serve EXCEPT ![k] = [at |-> "publish", snap |-> @.snap, seq |-> seq']]
    BY <1>3 DEF ServeNumber
  <2>2. Taken(serve[k].snap, rows)
    BY <2>1, ServeNumbering DEF Consistent
  <2>3. PICK G : /\ G \in [Nat -> Snapshots]
                 /\ seq' \in 0 .. MaxSeq /\ seq <= seq'
                 /\ \A i \in 1 .. seq : G[i] = H[i]
                 /\ \A n \in 1 .. seq' : DOMAIN G[n].rows \subseteq DOMAIN rows'
                 /\ G[seq'] = serve[k].snap
    BY <1>1, <2>1, <2>2, HistoryExtended DEF Consistent
  <2>4. ASSUME NEW j \in Conns, j # k PROVE ~ServeNumber(j)
    <3>1. serve'[j] = serve[j]
      BY <2>1, <2>4 DEF Consistent, ServeInv
    <3>2. ServeNumber(j) => serve[j].at = "number" /\ serve'[j].at = "publish"
      BY DEF ServeNumber, Consistent, ServeInv
    <3> QED
      BY <3>1, <3>2
  <2>5. ~TickNumber
    <3>1. TickNumber => tick.at = "number" /\ tick'.at \in {"idle", "publish"}
      BY DEF TickNumber, Idle
    <3> QED
      BY <2>1, <3>1
  <2>6. \A j \in Conns : ServeNumber(j) => j = k
    BY <2>4
  <2> QED
    BY <1>1, <2>1, <2>3, <2>5, <2>6 DEF Follows
<1>4. ASSUME ~TickNumber, \A k \in Conns : ~ServeNumber(k)
      PROVE  Follows(H, H)
  <2>1. UNCHANGED seq
    BY <1>4, WhoNumbers
  <2>2. seq \in 0 .. MaxSeq /\ seq <= seq
    BY DEF Consistent, HistoryInv
  <2> QED
    BY <1>1, <1>4, <2>1, <2>2 DEF Follows, Consistent, HistoryInv
<1> QED
  BY <1>2, <1>3, <1>4

-------------------------------------------------------------------------------
(* The hub's goroutine. *)

LEMMA TickStates ==
  ASSUME NEW H, NEW n, NEW t, NEW v, TickOK(H, n, t, v)
  PROVE  /\ v.at = "snapshot" =>
              \E p, full :
                /\ PairOK(H, n, p) /\ (p = None => full)
                /\ v = [at |-> "snapshot", prev |-> p, full |-> full]
         /\ v.at = "publish" =>
              \E p, f : SentOK(H, n, f) /\ v = [at |-> "publish", prev |-> p, frame |-> f]
         /\ v.at = "enqueue" =>
              \E f, to, again :
                /\ SentOK(H, n, f)
                /\ v = [at |-> "enqueue", frame |-> f, to |-> to, again |-> again]
<1>1. CASE v = Idle
  BY <1>1 DEF Idle
<1>2. CASE \E p, full :
             /\ PairOK(H, n, p) /\ (p = None => full)
             /\ v = [at |-> "snapshot", prev |-> p, full |-> full]
  <2>1. v.at = "snapshot"
    BY <1>2
  <2> QED
    BY <1>2, <2>1
<1>3. CASE \E p, full, s :
             /\ PairOK(H, n, p) /\ (p = None => full)
             /\ Taken(s, t) /\ (p # None => DOMAIN p.snap.rows \subseteq DOMAIN s.rows)
             /\ v = [at |-> "number", prev |-> p, full |-> full, snap |-> s]
  <2>1. v.at = "number"
    BY <1>3
  <2> QED
    BY <2>1
<1>4. CASE \E p, f : SentOK(H, n, f) /\ v = [at |-> "publish", prev |-> p, frame |-> f]
  <2>1. v.at = "publish"
    BY <1>4
  <2> QED
    BY <1>4, <2>1
<1>5. CASE \E f, to, again :
             /\ SentOK(H, n, f)
             /\ v = [at |-> "enqueue", frame |-> f, to |-> to, again |-> again]
  <2>1. v.at = "enqueue"
    BY <1>5
  <2> QED
    BY <1>5, <2>1
<1> QED
  BY <1>1, <1>2, <1>3, <1>4, <1>5 DEF TickOK

LEMMA SentFields ==
  ASSUME NEW H \in [Nat -> Snapshots], NEW n \in Nat, NEW f, SentOK(H, n, f)
  PROVE  /\ f.type \in {"snapshot", "delta"} /\ f.seq \in 1 .. n /\ f.of = H[f.seq]
BY DEF SentOK, SnapshotFrame, DeltaFrame

(* The frame of a tick that has a number is one to send. *)
LEMMA TickFrameIsRight ==
  ASSUME NEW G \in [Nat -> Snapshots], NEW n \in Nat, NEW p, NEW full, NEW s,
         PairOK(G, n, p), p = None => full, G[n + 1] = s,
         p # None => DOMAIN p.snap.rows \subseteq DOMAIN s.rows,
         NEW t, t = [at |-> "number", prev |-> p, full |-> full, snap |-> s]
  PROVE  SentOK(G, n + 1, TickFrame(t, n + 1))
<1>1. t.prev = p /\ t.full = full /\ t.snap = s
  OBVIOUS
<1>2. n + 1 \in 1 .. n + 1
  OBVIOUS
<1>3. CASE full \/ ~AppendOnly(p.snap, s)
  BY <1>1, <1>2, <1>3 DEF TickFrame, SentOK
<1>4. CASE ~(full \/ ~AppendOnly(p.snap, s))
  <2>1. p # None
    BY <1>4
  <2>2. PICK i \in 1 .. n : p = [snap |-> G[i], seq |-> i]
    BY <2>1 DEF PairOK
  <2>3. i \in 1 .. n + 1 /\ p.snap = G[i] /\ p.seq = i
    BY <2>2
  <2>4. TickFrame(t, n + 1) = DeltaFrame(G[i], i, G[n + 1], n + 1)
    BY <1>1, <1>4, <2>3 DEF TickFrame
  <2>5. AppendOnly(G[i], G[n + 1]) /\ DOMAIN G[i].rows \subseteq DOMAIN G[n + 1].rows
    BY <1>4, <2>1, <2>3
  <2> QED
    BY <1>2, <2>3, <2>4, <2>5 DEF SentOK
<1> QED
  BY <1>3, <1>4

LEMMA EnqueueingOK ==
  ASSUME NEW H, NEW n, NEW t, NEW f, SentOK(H, n, f), NEW to
  PROVE  TickOK(H, n, t, Enqueueing(f, to))
BY DEF TickOK, Enqueueing

LEMMA WhoTicks ==
  ASSUME [Next]_vars, ~Restart,
         ~BroadcastTick, \A k \in Conns : ~ServePublish(k)
  PROVE  UNCHANGED <<last, age, tick>>
<1>1. CASE Engine
  BY <1>1 DEF Engine, AppendLine, SetFilter, ChangeRow, ChangeStats, hub
<1>2. ASSUME NEW k \in Conns, ServeWS(k) \/ Write(k) \/ Break(k)
      PROVE  UNCHANGED <<last, age, tick>>
  BY <1>2 DEF ServeWS, ServeOffer, ServeOfferAgain, ServeSnapshot, ServeNumber, Write, Break, hub
<1>3. ASSUME NEW b \in Browsers, Browser(b)
      PROVE  UNCHANGED <<last, age, tick>>
  BY <1>3 DEF Browser, Connect, Handle, Refresh, Answer, Refreshed, hub
<1>4. CASE UNCHANGED vars
  BY <1>4 DEF vars, hub
<1> QED
  BY <1>1, <1>2, <1>3, <1>4 DEF Next

LEMMA HubStep ==
  ASSUME NEW H, Consistent(H), [Next]_vars, ~Restart, NEW G, Follows(G, H)
  PROVE  age' \in 0 .. FullEvery /\ PairOK(G, seq', last') /\ TickOK(G, seq', rows', tick')
<1> USE LiveViewAssumption
<1> DEFINE Goal == /\ age' \in 0 .. FullEvery /\ PairOK(G, seq', last')
                   /\ TickOK(G, seq', rows', tick')
<1>1. /\ H \in [Nat -> Snapshots] /\ seq \in Nat /\ age \in 0 .. FullEvery
      /\ PairOK(H, seq, last) /\ TickOK(H, seq, rows, tick)
  BY DEF Consistent, HistoryInv, HubInv
<1>2. G \in [Nat -> Snapshots] /\ seq' \in Nat /\ seq' \in 0 .. MaxSeq
  BY DEF Follows
<1>3. /\ \A p : PairOK(H, seq, p) => PairOK(G, seq', p)
      /\ \A f : SentOK(H, seq, f) => SentOK(G, seq', f)
      /\ \A v : TickOK(H, seq, rows, v) => TickOK(G, seq', rows', v)
      /\ \A v : ServeOK(H, seq, rows, v) => ServeOK(G, seq', rows', v)
  BY <1>1, <1>2, HistoryGrows DEF Follows
<1>4. TimePasses => age' \in 0 .. FullEvery
  BY DEF TimePasses
<1>5. CASE TickSkip
  BY <1>1, <1>3, <1>4, <1>5 DEF TickSkip
<1>6. CASE TickBegin
  <2>1. /\ TimePasses /\ last' = last
        /\ tick' = [at |-> "snapshot", prev |-> last, full |-> last = None \/ age' = FullEvery]
    BY <1>6 DEF TickBegin
  <2>2. last = None => (last = None \/ age' = FullEvery)
    OBVIOUS
  <2>3. TickOK(G, seq', rows', tick')
    BY <1>1, <1>3, <2>1, <2>2 DEF TickOK
  <2> QED
    BY <1>1, <1>3, <1>4, <2>1, <2>3
<1>7. CASE TickSnapshot
  <2>1. /\ tick.at = "snapshot" /\ UNCHANGED <<last, age>>
        /\ UNCHANGED <<seq, rows>>
    BY <1>7 DEF TickSnapshot, backend
  <2>0. PICK snap \in SnapshotsNow :
          tick' = [at |-> "number", prev |-> tick.prev, full |-> tick.full, snap |-> snap]
    BY <1>7 DEF TickSnapshot
  <2>2. PICK p, full : /\ PairOK(H, seq, p) /\ (p = None => full)
                       /\ tick = [at |-> "snapshot", prev |-> p, full |-> full]
    BY <1>1, <2>1, TickStates
  <2>3. snap \in Snapshots /\ snap.rows = rows
    BY <2>0, SnapshotNow DEF Consistent
  <2>4. tick.prev = p /\ tick.full = full
    BY <2>2
  <2>5. p # None => DOMAIN p.snap.rows \subseteq DOMAIN rows
    <3>1. ASSUME NEW i \in 1 .. seq, p = [snap |-> H[i], seq |-> i]
          PROVE  DOMAIN p.snap.rows \subseteq DOMAIN rows
      <4>1. p.snap = H[i]
        BY <3>1
      <4> QED
        BY <4>1 DEF Consistent, HistoryInv
    <3> QED
      BY <2>2, <3>1 DEF PairOK
  <2>6. Taken(snap, rows')
    BY <2>1, <2>3 DEF Taken
  <2>7. PairOK(G, seq', p)
    BY <1>3, <2>2
  <2>8. TickOK(G, seq', rows', tick')
    BY <2>0, <2>2, <2>3, <2>4, <2>5, <2>6, <2>7 DEF TickOK
  <2> QED
    BY <1>1, <1>3, <2>1, <2>8
<1>8. CASE TickNumber
  <2>1. /\ tick.at = "number" /\ UNCHANGED <<last, age>>
        /\ tick' = IF Silent(tick) THEN Idle
                   ELSE [at |-> "publish", prev |-> tick.prev, frame |-> TickFrame(tick, seq')]
    BY <1>8 DEF TickNumber
  <2>2. PICK p, full, s :
          /\ PairOK(H, seq, p) /\ (p = None => full)
          /\ Taken(s, rows) /\ (p # None => DOMAIN p.snap.rows \subseteq DOMAIN s.rows)
          /\ tick = [at |-> "number", prev |-> p, full |-> full, snap |-> s]
    BY <1>1, <2>1, TickNumbering
  <2>3. seq' = seq + 1 /\ G[seq + 1] = s
    BY <1>8, <2>2 DEF Follows
  <2>4. PairOK(G, seq, p)
    BY <2>2 DEF PairOK, Follows
  <2>5. SentOK(G, seq + 1, TickFrame(tick, seq + 1))
    BY <1>1, <1>2, <2>2, <2>3, <2>4, TickFrameIsRight
  <2>6. TickOK(G, seq', rows', tick')
    BY <2>1, <2>3, <2>5 DEF TickOK
  <2> QED
    BY <1>1, <1>3, <2>1, <2>6
<1>9. CASE TickPublish
  <2>1. /\ tick.at = "publish"
        /\ last' = [snap |-> tick.frame.of, seq |-> tick.frame.seq]
        /\ age' = IF tick.frame.type = "snapshot" THEN 0 ELSE age
        /\ tick' = Enqueueing(tick.frame, Clients)
    BY <1>9 DEF TickPublish
  <2>2. PICK p, f : SentOK(H, seq, f) /\ tick = [at |-> "publish", prev |-> p, frame |-> f]
    BY <1>1, <2>1, TickStates
  <2>3. tick.frame = f
    BY <2>2
  <2>4. f.seq \in 1 .. seq /\ f.of = H[f.seq]
    BY <1>1, <2>2, SentFields
  <2>5. PairOK(H, seq, last')
    BY <2>1, <2>3, <2>4 DEF PairOK
  <2>6. TickOK(G, seq', rows', tick')
    BY <1>3, <2>1, <2>2, <2>3, EnqueueingOK
  <2>7. age' \in 0 .. FullEvery
    BY <1>1, <2>1
  <2> QED
    BY <1>3, <2>5, <2>6, <2>7
<1>10. ASSUME NEW k \in Conns, TickOffer(k) \/ TickOfferAgain(k)
       PROVE  Goal
  <2>2. UNCHANGED <<last, age>>
    BY <1>10 DEF TickOffer, TickOfferAgain
  <2>3. tick.at = "enqueue"
    BY <1>10 DEF TickOffer, TickOfferAgain
  <2>4. PICK f, to, again :
          /\ SentOK(H, seq, f)
          /\ tick = [at |-> "enqueue", frame |-> f, to |-> to, again |-> again]
    BY <1>1, <2>3, TickStates
  <2>5. tick.frame = f
    BY <2>4
  <2>6. SentOK(G, seq', f)
    BY <1>3, <2>4
  <2>7. CASE tick' = [tick EXCEPT !.again = {k}]
    <3>1. tick' = [at |-> "enqueue", frame |-> f, to |-> to, again |-> {k}]
      BY <2>4, <2>7
    <3>2. TickOK(G, seq', rows', tick')
      BY <2>6, <3>1 DEF TickOK
    <3> QED
      BY <1>1, <1>3, <2>2, <3>2
  <2>8. CASE tick' = Enqueueing(tick.frame, tick.to \ {k})
    <3>1. TickOK(G, seq', rows', tick')
      BY <2>5, <2>6, <2>8, EnqueueingOK
    <3> QED
      BY <1>1, <1>3, <2>2, <3>1
  <2> QED
    BY <1>10, <2>7, <2>8 DEF TickOffer, TickOfferAgain
<1>11. ASSUME NEW k \in Conns, ServePublish(k)
       PROVE  Goal
  <2>1. /\ serve[k].at = "publish"
        /\ last' = [snap |-> serve[k].snap, seq |-> serve[k].seq]
        /\ age' = 0 /\ UNCHANGED tick
    BY <1>11 DEF ServePublish
  <2>2. ServeOK(H, seq, rows, serve[k])
    BY DEF Consistent, ServeInv
  <2>3. PICK i \in 1 .. seq : serve[k] = [at |-> "publish", snap |-> H[i], seq |-> i]
    BY <2>1, <2>2, ServeStates
  <2>4. last' = [snap |-> H[i], seq |-> i]
    BY <2>1, <2>3
  <2>5. PairOK(H, seq, last')
    BY <2>4 DEF PairOK
  <2>6. age' \in 0 .. FullEvery
    BY <2>1
  <2> QED
    BY <1>1, <1>3, <2>1, <2>5, <2>6
<1>12. CASE UNCHANGED <<last, age, tick>>
  BY <1>1, <1>3, <1>12
<1>13. ASSUME ~BroadcastTick, \A k \in Conns : ~ServePublish(k)
       PROVE  UNCHANGED <<last, age, tick>>
  BY <1>13, WhoTicks
<1>14. CASE BroadcastTick
  BY <1>5, <1>6, <1>7, <1>8, <1>9, <1>10, <1>14 DEF BroadcastTick
<1> QED
  BY <1>11, <1>12, <1>13, <1>14

-------------------------------------------------------------------------------
(* The handlers of new connections. *)

LEMMA WhoServes ==
  ASSUME [Next]_vars, ~Restart,
         \A k \in Conns : ~ServeWS(k), \A b \in Browsers : ~Connect(b)
  PROVE  UNCHANGED serve
<1>1. CASE Engine
  BY <1>1 DEF Engine, AppendLine, SetFilter, ChangeRow, ChangeStats, links
<1>2. CASE BroadcastTick
  BY <1>2 DEF BroadcastTick, TickSkip, TickBegin, TickSnapshot, TickNumber, TickPublish,
              TickOffer, TickOfferAgain, links
<1>3. ASSUME NEW k \in Conns, Write(k) \/ Break(k)
      PROVE  UNCHANGED serve
  BY <1>3 DEF Write, Break
<1>4. ASSUME NEW b \in Browsers, Browser(b)
      PROVE  UNCHANGED serve
  BY <1>4 DEF Browser, Handle, Refresh, Answer, Refreshed, links
<1>5. CASE UNCHANGED vars
  BY <1>5 DEF vars, links
<1> QED
  BY <1>1, <1>2, <1>3, <1>4, <1>5 DEF Next

LEMMA TryAgain ==
  ASSUME NEW a, NEW r, NEW x, NEW i, NEW y
  PROVE  /\ r = [at |-> "hello", again |-> a]
              => [r EXCEPT !.again = y] = [at |-> "hello", again |-> y]
         /\ r = [at |-> "initial", again |-> a, snap |-> x, seq |-> i]
              => [r EXCEPT !.again = y]
                   = [at |-> "initial", again |-> y, snap |-> x, seq |-> i]
OBVIOUS

LEMMA ServeStep ==
  ASSUME NEW H, Consistent(H), [Next]_vars, ~Restart, NEW G, Follows(G, H)
  PROVE  ServeInv(G)'
<1> USE LiveViewAssumption
<1>1. /\ H \in [Nat -> Snapshots] /\ seq \in Nat
      /\ serve = [k \in Conns |-> serve[k]]
      /\ \A k \in Conns : ServeOK(H, seq, rows, serve[k])
  BY DEF Consistent, HistoryInv, ServeInv
<1>2. G \in [Nat -> Snapshots] /\ seq' \in Nat
  BY DEF Follows
<1>3. \A v : ServeOK(H, seq, rows, v) => ServeOK(G, seq', rows', v)
  BY <1>1, <1>2, HistoryGrows DEF Follows
<1>4. ASSUME NEW k, NEW v, serve' = [serve EXCEPT ![k] = v],
             ServeOK(G, seq', rows', v)
      PROVE  ServeInv(G)'
  <2>1. serve' = [j \in Conns |-> serve'[j]]
    BY <1>1, <1>4
  <2>2. \A j \in Conns : serve'[j] = v \/ serve'[j] = serve[j]
    BY <1>1, <1>4
  <2>3. \A j \in Conns : ServeOK(G, seq', rows', serve'[j])
    BY <1>1, <1>3, <1>4, <2>2
  <2> QED
    BY <2>1, <2>3 DEF ServeInv
<1>5. ASSUME NEW b \in Browsers, Connect(b)
      PROVE  ServeInv(G)'
  <2>1. PICK k : serve' = [serve EXCEPT ![k] = [at |-> "hello", again |-> FALSE]]
    BY <1>5 DEF Connect
  <2>2. ServeOK(G, seq', rows', [at |-> "hello", again |-> FALSE])
    BY DEF ServeOK
  <2> QED
    BY <1>4, <2>1, <2>2
<1>6. ASSUME NEW k \in Conns, ServeOffer(k) \/ ServeOfferAgain(k)
      PROVE  ServeInv(G)'
  <2>1. ServeOK(G, seq', rows', Served(k))
    BY DEF ServeOK, Served
  <2>2. CASE serve' = [serve EXCEPT ![k] = Served(k)]
    BY <1>4, <2>1, <2>2
  <2>3. CASE serve' = [serve EXCEPT ![k] = [@ EXCEPT !.again = TRUE]]
    <3> PICK yes : serve' = [serve EXCEPT ![k] = [@ EXCEPT !.again = yes]]
      BY <2>3
    <3>1. PICK v : v = [serve[k] EXCEPT !.again = yes]
      OBVIOUS
    <3>2. serve' = [serve EXCEPT ![k] = v]
      BY <3>1
    <3>3. serve[k].at \in {"hello", "initial"}
      BY <1>6 DEF ServeOffer, ServeOfferAgain
    <3>4. CASE serve[k].at = "hello"
      <4>1. PICK again : serve[k] = [at |-> "hello", again |-> again]
        BY <1>1, <3>4, ServeStates
      <4>2. v = [at |-> "hello", again |-> yes]
        BY <3>1, <4>1, TryAgain
      <4>3. ServeOK(G, seq', rows', v)
        BY <4>2 DEF ServeOK
      <4> QED
        BY <1>4, <3>2, <4>3
    <3>5. CASE serve[k].at = "initial"
      <4>1. PICK i \in 1 .. seq : \E again :
              serve[k] = [at |-> "initial", again |-> again, snap |-> H[i], seq |-> i]
        BY <1>1, <3>5, ServeStates
      <4>2. v = [at |-> "initial", again |-> yes, snap |-> H[i], seq |-> i]
        BY <3>1, <4>1, TryAgain
      <4>3. ServeOK(H, seq, rows, v)
        BY <4>2 DEF ServeOK
      <4> QED
        BY <1>3, <1>4, <3>2, <4>3
    <3> QED
      BY <3>3, <3>4, <3>5
  <2> QED
    BY <1>6, <2>2, <2>3 DEF ServeOffer, ServeOfferAgain
<1>7. ASSUME NEW k \in Conns, ServeSnapshot(k)
      PROVE  ServeInv(G)'
  <2>1. UNCHANGED rows
    BY <1>7 DEF ServeSnapshot, backend
  <2>0. PICK snap \in SnapshotsNow : serve' = [serve EXCEPT ![k] = [at |-> "number", snap |-> snap]]
    BY <1>7 DEF ServeSnapshot
  <2>2. Taken(snap, rows')
    BY <2>1, SnapshotNow DEF Consistent, Taken
  <2>3. PICK v : v = [at |-> "number", snap |-> snap]
    OBVIOUS
  <2>4. ServeOK(G, seq', rows', v)
    BY <2>2, <2>3 DEF ServeOK
  <2> QED
    BY <1>4, <2>0, <2>3, <2>4
<1>8. ASSUME NEW k \in Conns, ServeNumber(k)
      PROVE  ServeInv(G)'
  <2>1. serve' = [serve EXCEPT ![k] = [at |-> "publish", snap |-> @.snap, seq |-> seq']]
    BY <1>8 DEF ServeNumber
  <2>2. seq' = seq + 1 /\ G[seq'] = serve[k].snap /\ seq' \in 1 .. seq'
    BY <1>1, <1>8 DEF Follows
  <2>3. PICK v : v = [at |-> "publish", snap |-> G[seq'], seq |-> seq']
    OBVIOUS
  <2>4. ServeOK(G, seq', rows', v)
    BY <2>2, <2>3 DEF ServeOK
  <2>5. serve' = [serve EXCEPT ![k] = v]
    BY <2>1, <2>2, <2>3
  <2> QED
    BY <1>4, <2>4, <2>5
<1>9. ASSUME NEW k \in Conns, ServePublish(k)
      PROVE  ServeInv(G)'
  <2>1. /\ serve[k].at = "publish"
        /\ serve' = [serve EXCEPT ![k] =
             [at |-> "initial", again |-> FALSE, snap |-> @.snap, seq |-> @.seq]]
    BY <1>9 DEF ServePublish
  <2>2. PICK i \in 1 .. seq : serve[k] = [at |-> "publish", snap |-> H[i], seq |-> i]
    BY <1>1, <2>1, ServeStates
  <2>3. PICK v : v = [at |-> "initial", again |-> FALSE, snap |-> H[i], seq |-> i]
    OBVIOUS
  <2>4. ServeOK(H, seq, rows, v)
    BY <2>3 DEF ServeOK
  <2>5. serve' = [serve EXCEPT ![k] = v]
    BY <2>1, <2>2, <2>3
  <2> QED
    BY <1>3, <1>4, <2>4, <2>5
<1>10. CASE UNCHANGED serve
  BY <1>1, <1>3, <1>10 DEF ServeInv
<1> QED
  BY <1>5, <1>6, <1>7, <1>8, <1>9, <1>10, WhoServes DEF ServeWS

-------------------------------------------------------------------------------
(* The connections. *)

LEMMA LinksGrow ==
  ASSUME NEW F, NEW E, F \subseteq E, NEW st, NEW sl, NEW wi, LinksOK(F, st, sl, wi)
  PROVE  LinksOK(E, st, sl, wi)
<1>1. \A q : q \in Seq(F) => q \in Seq(E)
  OBVIOUS
<1>2. sl \in [Conns -> Seq(E)] /\ wi \in [Conns -> Seq(E)]
  BY <1>1 DEF LinksOK
<1> QED
  BY <1>2 DEF LinksOK

LEMMA PutStep ==
  ASSUME NEW F, LinksOK(F, status, slot, wire), NEW k, NEW f \in F,
         Put(k, f), UNCHANGED <<status, wire>>
  PROVE  LinksOK(F, status', slot', wire')
<1>1. <<f>> \in Seq(F) /\ Len(<<f>>) = 1
  OBVIOUS
<1>2. CASE slot' = slot
  BY <1>2 DEF LinksOK
<1>3. CASE status[k] = "open" /\ slot' = [slot EXCEPT ![k] = <<f>>]
  <2>1. slot' \in [Conns -> Seq(F)]
    BY <1>1, <1>3 DEF LinksOK
  <2>2. \A j \in Conns : slot'[j] = IF j = k THEN <<f>> ELSE slot[j]
    BY <1>3 DEF LinksOK
  <2>3. \A j \in Conns : Len(slot'[j]) <= 1
    <3>1. PICK q : q = <<f>>
      OBVIOUS
    <3>2. Len(q) <= 1 /\ \A j \in Conns : slot'[j] = q \/ slot'[j] = slot[j]
      BY <2>2, <3>1
    <3>3. \A j \in Conns : Len(slot[j]) <= 1
      BY DEF LinksOK
    <3> QED
      BY <3>2, <3>3
  <2>4. \A j \in Conns : status[j] # "open" => slot'[j] = << >> /\ wire[j] = << >>
    BY <1>3, <2>2 DEF LinksOK
  <2> QED
    BY <2>1, <2>3, <2>4 DEF LinksOK
<1> QED
  BY <1>2, <1>3 DEF Put

LEMMA TakeOutStep ==
  ASSUME NEW F, LinksOK(F, status, slot, wire), NEW k,
         TakeOut(k), UNCHANGED <<status, wire>>
  PROVE  LinksOK(F, status', slot', wire')
<1>1. << >> \in Seq(F) /\ Len(<< >>) = 0
  OBVIOUS
<1>2. slot' = [slot EXCEPT ![k] = << >>]
  BY DEF TakeOut
<1>3. slot' \in [Conns -> Seq(F)]
  BY <1>1, <1>2 DEF LinksOK
<1>4. \A j \in Conns : slot'[j] = << >> \/ slot'[j] = slot[j]
  BY <1>2 DEF LinksOK
<1> QED
  BY <1>1, <1>3, <1>4 DEF LinksOK

LEMMA CloseStep ==
  ASSUME NEW F, LinksOK(F, status, slot, wire), NEW k, Close(k)
  PROVE  LinksOK(F, status', slot', wire')
<1>1. << >> \in Seq(F) /\ Len(<< >>) = 0 /\ 0 <= WireSize
  BY LiveViewAssumption
<1>2. /\ slot' = [slot EXCEPT ![k] = << >>] /\ wire' = [wire EXCEPT ![k] = << >>]
      /\ status' = [status EXCEPT ![k] = "closed"]
  BY DEF Close
<1>3. /\ slot' \in [Conns -> Seq(F)] /\ wire' \in [Conns -> Seq(F)]
      /\ status' \in [Conns -> {"new", "open", "closed"}]
  BY <1>1, <1>2 DEF LinksOK
<1>4. \A j \in Conns :
        \/ slot'[j] = << >> /\ wire'[j] = << >>
        \/ slot'[j] = slot[j] /\ wire'[j] = wire[j] /\ status'[j] = status[j]
  BY <1>2 DEF LinksOK
<1> QED
  BY <1>1, <1>3, <1>4 DEF LinksOK

LEMMA OfferStep ==
  ASSUME NEW F, LinksOK(F, status, slot, wire), NEW k, NEW f \in F,
         (Offer(k, f) /\ UNCHANGED <<status, wire>>) \/ OfferAgain(k, f)
  PROVE  LinksOK(F, status', slot', wire')
BY PutStep, TakeOutStep, CloseStep DEF Offer, OfferAgain

LEMMA OneMoreFits ==
  ASSUME NEW a \in Nat, NEW b \in Nat, NEW c \in Nat, a < c, b <= 1
  PROVE  a + b <= c
OBVIOUS

LEMMA WriteStep ==
  ASSUME NEW F, LinksOK(F, status, slot, wire), NEW k \in Conns, Write(k)
  PROVE  LinksOK(F, status', slot', wire')
<1> USE LiveViewAssumption
<1>1. /\ status[k] = "open" /\ status' = status /\ Len(wire[k]) < WireSize
      /\ wire' = [wire EXCEPT ![k] = @ \o slot[k]]
      /\ slot' = [slot EXCEPT ![k] = << >>]
  BY DEF Write
<1>2. << >> \in Seq(F) /\ Len(<< >>) = 0
  OBVIOUS
<1>3. wire[k] \in Seq(F) /\ slot[k] \in Seq(F) /\ Len(slot[k]) <= 1
  BY DEF LinksOK
<1>4. PICK w : w = wire[k] \o slot[k]
  OBVIOUS
<1>5. w \in Seq(F) /\ Len(w) = Len(wire[k]) + Len(slot[k])
  BY <1>3, <1>4
<1>6. Len(w) <= WireSize
  <2>1. Len(wire[k]) \in Nat /\ Len(slot[k]) \in Nat
    BY <1>3
  <2>2. WireSize \in Nat /\ Len(wire[k]) < WireSize
    BY <1>1
  <2>3. Len(w) = Len(wire[k]) + Len(slot[k]) /\ Len(slot[k]) <= 1
    BY <1>3, <1>5
  <2> QED
    BY <2>1, <2>2, <2>3, OneMoreFits
<1>7. slot' \in [Conns -> Seq(F)] /\ wire' \in [Conns -> Seq(F)]
  BY <1>1, <1>2, <1>4, <1>5 DEF LinksOK
<1>8. /\ \A j \in Conns : slot'[j] = << >> \/ slot'[j] = slot[j]
      /\ \A j \in Conns : (j = k /\ wire'[j] = w) \/ (j # k /\ wire'[j] = wire[j])
  BY <1>1, <1>4 DEF LinksOK
<1>9. \A j \in Conns : Len(slot'[j]) <= 1 /\ Len(wire'[j]) <= WireSize
  <2>1. PICK q : q = << >>
    OBVIOUS
  <2>2. Len(q) <= 1 /\ \A j \in Conns : slot'[j] = q \/ slot'[j] = slot[j]
    BY <1>8, <2>1
  <2>3. \A j \in Conns : Len(slot[j]) <= 1 /\ Len(wire[j]) <= WireSize
    BY DEF LinksOK
  <2>4. \A j \in Conns : wire'[j] = w \/ wire'[j] = wire[j]
    BY <1>8
  <2> QED
    BY <1>6, <2>2, <2>3, <2>4
<1>10. \A j \in Conns : status'[j] # "open" => slot'[j] = << >> /\ wire'[j] = << >>
  BY <1>1, <1>8 DEF LinksOK
<1> QED
  BY <1>1, <1>7, <1>9, <1>10 DEF LinksOK

LEMMA HandledStep ==
  ASSUME NEW F, LinksOK(F, status, slot, wire), NEW k \in Conns, wire[k] # << >>,
         wire' = [wire EXCEPT ![k] = Tail(@)], UNCHANGED <<status, slot>>
  PROVE  LinksOK(F, status', slot', wire')
<1> USE LiveViewAssumption
<1>1. PICK w : w = Tail(wire[k])
  OBVIOUS
<1>2. wire[k] \in Seq(F) /\ Len(wire[k]) <= WireSize
  BY DEF LinksOK
<1>3. w \in Seq(F) /\ Len(w) = Len(wire[k]) - 1 /\ Len(wire[k]) \in Nat
  BY <1>1, <1>2
<1>4. Len(w) <= WireSize
  <2>1. WireSize \in Nat
    OBVIOUS
  <2> QED
    BY <1>2, <1>3, <2>1
<1>5. wire' \in [Conns -> Seq(F)]
  BY <1>1, <1>3 DEF LinksOK
<1>6. \A j \in Conns : (j = k /\ wire'[j] = w) \/ (j # k /\ wire'[j] = wire[j])
  BY <1>1 DEF LinksOK
<1>7. \A j \in Conns : Len(wire'[j]) <= WireSize
  BY <1>4, <1>6 DEF LinksOK
<1>8. status[k] = "open"
  BY DEF LinksOK
<1>9. \A j \in Conns : status'[j] # "open" => slot'[j] = << >> /\ wire'[j] = << >>
  BY <1>6, <1>8 DEF LinksOK
<1> QED
  BY <1>5, <1>7, <1>9 DEF LinksOK

LEMMA WhoLinks ==
  ASSUME [Next]_vars, ~Restart,
         \A k \in Conns : /\ ~TickOffer(k) /\ ~TickOfferAgain(k)
                          /\ ~ServeOffer(k) /\ ~ServeOfferAgain(k)
                          /\ ~Write(k) /\ ~Break(k),
         \A b \in Browsers : ~Connect(b) /\ ~Handle(b)
  PROVE  UNCHANGED <<status, slot, wire>>
<1>1. CASE Engine
  BY <1>1 DEF Engine, AppendLine, SetFilter, ChangeRow, ChangeStats, links
<1>2. CASE BroadcastTick
  BY <1>2 DEF BroadcastTick, TickSkip, TickBegin, TickSnapshot, TickNumber, TickPublish, links
<1>3. ASSUME NEW k \in Conns, ServeWS(k)
      PROVE  UNCHANGED <<status, slot, wire>>
  BY <1>3 DEF ServeWS, ServeSnapshot, ServeNumber, ServePublish
<1>4. ASSUME NEW b \in Browsers, Browser(b)
      PROVE  UNCHANGED <<status, slot, wire>>
  BY <1>4 DEF Browser, Refresh, Answer, Refreshed, links
<1>5. CASE UNCHANGED vars
  BY <1>5 DEF vars, links
<1> QED
  BY <1>1, <1>2, <1>3, <1>4, <1>5 DEF Next

LEMMA LinksStep ==
  ASSUME NEW H, Consistent(H), [Next]_vars, ~Restart, NEW G, Follows(G, H)
  PROVE  LinksInv(G)'
<1> USE LiveViewAssumption
<1> DEFINE F == FramesOf(H, seq)
<1>1. /\ H \in [Nat -> Snapshots] /\ seq \in 0 .. MaxSeq /\ seq \in Nat
      /\ LinksOK(F, status, slot, wire)
  BY DEF Consistent, HistoryInv, LinksInv
<1>2. FramesOf(H, seq) \subseteq FramesOf(G, seq')
  BY <1>1, HistoryGrows DEF Follows
<1>3. \A f : SentOK(H, seq, f) \/ f = HelloFrame => f \in F
  BY <1>1, SentIsFrame
<1> HIDE DEF F
<1>4. ASSUME NEW k \in Conns, TickOffer(k) \/ TickOfferAgain(k)
      PROVE  LinksOK(F, status', slot', wire')
  <2>1. tick.at = "enqueue"
    BY <1>4 DEF TickOffer, TickOfferAgain
  <2>2. TickOK(H, seq, rows, tick)
    BY DEF Consistent, HubInv
  <2>3. PICK f, to, again :
          /\ SentOK(H, seq, f)
          /\ tick = [at |-> "enqueue", frame |-> f, to |-> to, again |-> again]
    BY <2>1, <2>2, TickStates
  <2>4. tick.frame \in F
    BY <1>3, <2>3
  <2>5. \/ Offer(k, tick.frame) /\ UNCHANGED <<status, wire>>
        \/ OfferAgain(k, tick.frame)
    BY <1>4 DEF TickOffer, TickOfferAgain
  <2> QED
    BY <1>1, <2>4, <2>5, OfferStep
<1>5. ASSUME NEW k \in Conns, ServeOffer(k) \/ ServeOfferAgain(k)
      PROVE  LinksOK(F, status', slot', wire')
  <2>1. serve[k].at \in {"hello", "initial"}
    BY <1>5 DEF ServeOffer, ServeOfferAgain
  <2>2. ServeOK(H, seq, rows, serve[k])
    BY DEF Consistent, ServeInv
  <2>3. Serving(k) \in F
    <3>1. CASE serve[k].at = "hello"
      BY <1>3, <3>1 DEF Serving
    <3>2. CASE serve[k].at = "initial"
      <4>1. \E i \in 1 .. seq : \E again :
              serve[k] = [at |-> "initial", again |-> again, snap |-> H[i], seq |-> i]
        BY <3>2, ServePending DEF Consistent
      <4> PICK i \in 1 .. seq : \E again :
            serve[k] = [at |-> "initial", again |-> again, snap |-> H[i], seq |-> i]
        BY <4>1
      <4>2. Serving(k) = SnapshotFrame(H[i], i)
        BY <3>2, <4>1 DEF Serving
      <4>3. SentOK(H, seq, Serving(k))
        BY <4>2 DEF SentOK
      <4> QED
        BY <1>3, <4>3
    <3> QED
      BY <2>1, <3>1, <3>2
  <2>4. \/ Offer(k, Serving(k)) /\ UNCHANGED <<status, wire>>
        \/ OfferAgain(k, Serving(k))
    BY <1>5 DEF ServeOffer, ServeOfferAgain
  <2> QED
    BY <1>1, <2>3, <2>4, OfferStep
<1>6. ASSUME NEW k \in Conns, Write(k) \/ Break(k)
      PROVE  LinksOK(F, status', slot', wire')
  BY <1>1, <1>6, WriteStep, CloseStep DEF Break
<1>7. ASSUME NEW b \in Browsers, Connect(b)
      PROVE  LinksOK(F, status', slot', wire')
  <2>1. PICK k : status' = [status EXCEPT ![k] = "open"]
    BY <1>7 DEF Connect
  <2>2. UNCHANGED <<slot, wire>>
    BY <1>7 DEF Connect
  <2>3. status' \in [Conns -> {"new", "open", "closed"}]
    BY <1>1, <2>1 DEF LinksOK
  <2>4. \A j \in Conns : status'[j] = "open" \/ status'[j] = status[j]
    BY <1>1, <2>1 DEF LinksOK
  <2> QED
    BY <1>1, <2>2, <2>3, <2>4 DEF LinksOK
<1>8. ASSUME NEW b \in Browsers, Handle(b)
      PROVE  LinksOK(F, status', slot', wire')
  <2>1. /\ Current(b) \in Conns /\ wire[Current(b)] # << >>
        /\ wire' = [wire EXCEPT ![Current(b)] = Tail(@)]
        /\ UNCHANGED <<status, slot>>
    BY <1>8 DEF Handle, Connected, Clients
  <2> QED
    BY <1>1, <2>1, HandledStep
<1>9. ASSUME UNCHANGED <<status, slot, wire>>
      PROVE  LinksOK(F, status', slot', wire')
  <2>1. status' = status /\ slot' = slot /\ wire' = wire
    BY <1>9
  <2> QED
    BY <1>1, <2>1 DEF LinksOK
<1>10. LinksOK(F, status', slot', wire')
  BY <1>4, <1>5, <1>6, <1>7, <1>8, <1>9, WhoLinks
<1> QED
  BY <1>2, <1>10, LinksGrow DEF LinksInv, F

-------------------------------------------------------------------------------
(* The browsers' screens. *)

LEMMA KeptIsScreen ==
  ASSUME NEW s \in Snapshots
  PROVE  Kept(s) \in Snapshots /\ Kept(s) \in Screens /\ StandsFor(Kept(s), s)
<1> USE DeltaAssumption, LiveViewAssumption
<1>1. /\ s.lines \in Seq(Text) /\ Len(s.lines) <= Capacity
      /\ s.rows \in [DOMAIN s.rows -> 0 .. 1] /\ DOMAIN s.rows \subseteq Rows
      /\ s.stats \in 0 .. MaxStats
      /\ s.order \in Seq(Rows) /\ Lists(s.order, DOMAIN s.rows)
      /\ Content(Kept(s)) = Kept(Content(s))
  BY SnapshotFields
<1>2. s.rows \in RowTables
  BY <1>1, RowTablesAreFunctions
<1> DEFINE l == LastOf(s.lines, MaxClientLines)
<1>3. /\ l \in Seq(Text)
      /\ Len(l) = IF Len(s.lines) > MaxClientLines THEN MaxClientLines ELSE Len(s.lines)
  BY <1>1, LastOfSequence
<1> HIDE DEF l
<1>4. Len(l) <= MaxClientLines /\ Len(l) <= Capacity
  <2>1. Len(s.lines) \in Nat
    BY <1>1
  <2>2. MaxClientLines \in Nat /\ Capacity \in Nat
    OBVIOUS
  <2> QED
    BY <1>1, <1>3, <2>1, <2>2
<1>5. l \in Lines /\ l \in ScreenLines
  BY <1>3, <1>4, LinesAreSequences DEF ScreenLines
<1>6. Kept(s) = [lines |-> l, rows |-> s.rows, order |-> s.order, stats |-> s.stats]
  BY DEF Kept, Snapshots, l
<1>7. Kept(s) \in Snapshots /\ Kept(s) \in Screens
  BY <1>1, <1>2, <1>5, <1>6 DEF Snapshots, Screens, Listings
<1> QED
  BY <1>1, <1>7, NoneAssumption DEF StandsFor

(* A screen with the content of a snapshot is none that is empty. *)
LEMMA ContentIsShown ==
  ASSUME NEW x \in Screens, NEW s \in Snapshots, Content(x) = Kept(Content(s))
  PROVE  StandsFor(x, s)
<1>1. /\ Kept(s) \in Snapshots /\ Content(Kept(s)) = Kept(Content(s))
  <2>1. Content(Kept(s)) = Kept(Content(s))
    BY SnapshotFields
  <2> QED
    BY <2>1, KeptIsScreen
<1>2. x.lines = Kept(s).lines /\ x.rows = Kept(s).rows /\ x.stats = Kept(s).stats
  BY <1>1 DEF Content
<1>3. x.lines \in Lines /\ x.rows \in RowTables /\ x.stats \in 0 .. MaxStats
  BY <1>1, <1>2 DEF Snapshots
<1>4. /\ x = [lines |-> x.lines, rows |-> x.rows, order |-> x.order, stats |-> x.stats]
      /\ x.order \in Seq(Rows) /\ Lists(x.order, DOMAIN x.rows)
  BY DEF Screens
<1>5. x \in Snapshots
  BY <1>3, <1>4 DEF Snapshots, Listings
<1> QED
  BY <1>5, NoneAssumption DEF StandsFor

LEMMA PatchedIsScreen ==
  ASSUME NEW x \in Screens, NEW f, f.newLogs \in Lines, f.patches \in RowTables,
         f.stats \in 0 .. MaxStats, f.order \in Seq(Rows), Lists(f.order, DOMAIN f.patches)
  PROVE  Patched(x, f) \in Screens
<1> USE DeltaAssumption, LiveViewAssumption
<1>1. x.lines \in Seq(Text) /\ x.rows \in RowTables
  BY DEF Screens, ScreenLines
<1>2. f.newLogs \in Seq(Text)
  BY LinesAreSequences
<1>3. PICK u : u = x.lines \o f.newLogs
  OBVIOUS
<1>4. u \in Seq(Text)
  BY <1>1, <1>2, <1>3
<1> DEFINE l == LastOf(u, MaxClientLines)
<1>5. /\ l \in Seq(Text)
      /\ Len(l) = IF Len(u) > MaxClientLines THEN MaxClientLines ELSE Len(u)
  BY <1>4, LastOfSequence
<1> HIDE DEF l
<1>6. l \in ScreenLines
  <2>1. Len(u) \in Nat
    BY <1>4
  <2>2. MaxClientLines \in Nat
    OBVIOUS
  <2>3. Len(l) <= MaxClientLines
    BY <1>5, <2>1, <2>2
  <2> QED
    BY <1>5, <2>3 DEF ScreenLines
<1> DEFINE t == [r \in DOMAIN x.rows \cup DOMAIN f.patches |->
                   IF r \in DOMAIN f.patches THEN f.patches[r] ELSE x.rows[r]]
<1>7. t \in RowTables
  <2>1. /\ x.rows \in [DOMAIN x.rows -> 0 .. 1] /\ DOMAIN x.rows \subseteq Rows
        /\ f.patches \in [DOMAIN f.patches -> 0 .. 1] /\ DOMAIN f.patches \subseteq Rows
    BY <1>1, RowTablesAreFunctions
  <2>2. DOMAIN t \subseteq Rows /\ t \in [DOMAIN t -> 0 .. 1]
    BY <2>1
  <2> QED
    BY <2>2, RowTablesAreFunctions
<1>8. PICK o : o = x.order \o Passing(f.order, DOMAIN f.patches \ DOMAIN x.rows)
  OBVIOUS
<1>9. Patched(x, f) = [lines |-> l, rows |-> t, order |-> o, stats |-> f.stats]
  BY <1>3, <1>8 DEF Patched, l
<1>10. x.order \in Seq(Rows) /\ Lists(x.order, DOMAIN x.rows)
  BY DEF Screens
<1>11. Patched(x, f).order \in Seq(Rows) /\ Lists(Patched(x, f).order, DOMAIN Patched(x, f).rows)
  BY <1>10, PatchedIsListed
<1> HIDE DEF t
<1>12. o \in Seq(Rows) /\ Lists(o, DOMAIN t)
  BY <1>9, <1>11
<1> QED
  BY <1>6, <1>7, <1>9, <1>12 DEF Screens

(* One browser shows something else. *)
LEMMA ScreenStep ==
  ASSUME BrowserInv, NEW b, NEW x \in {None} \cup Screens, NEW n \in Nat,
         NEW z \in {None} \cup Snapshots, z # None => StandsFor(x, z),
         shown' = [shown EXCEPT ![b] = x], shownSeq' = [shownSeq EXCEPT ![b] = n],
         standsFor' = [standsFor EXCEPT ![b] = z],
         fetches' \in [Browsers -> Seq(Fetched)], UNCHANGED attempt
  PROVE  BrowserInv'
<1>1. /\ shown' \in [Browsers -> {None} \cup Screens]
      /\ shownSeq' \in [Browsers -> Nat]
      /\ standsFor' \in [Browsers -> {None} \cup Snapshots]
      /\ attempt' \in [Browsers -> 0 .. Attempts]
  BY DEF BrowserInv
<1>2. \A c \in Browsers :
        \/ c = b /\ standsFor'[c] = z /\ shown'[c] = x
        \/ standsFor'[c] = standsFor[c] /\ shown'[c] = shown[c]
  BY DEF BrowserInv
<1>3. \A c \in Browsers : standsFor'[c] # None => StandsFor(shown'[c], standsFor'[c])
  BY <1>2 DEF BrowserInv
<1> QED
  BY <1>1, <1>3 DEF BrowserInv

LEMMA FetchesStep ==
  ASSUME BrowserInv, NEW b \in Browsers, NEW q \in Seq(Fetched),
         fetches' = [fetches EXCEPT ![b] = q]
  PROVE  fetches' \in [Browsers -> Seq(Fetched)]
BY DEF BrowserInv

(* What is taken off a connection is a frame that was right to send. *)
LEMMA FrameAtHand ==
  ASSUME NEW H, LinksInv(H), NEW k \in Conns, wire[k] # << >>
  PROVE  Head(wire[k]) \in FramesOf(H, seq)
<1>1. wire[k] \in Seq(FramesOf(H, seq))
  BY DEF LinksInv, LinksOK
<1> QED
  BY <1>1

(* What browser b shows, its number, and the snapshot it should stand for are set. *)
Shows(b, x, n, z) ==
  /\ x \in {None} \cup Screens /\ n \in Nat /\ z \in {None} \cup Snapshots
  /\ z # None => StandsFor(x, z)
  /\ shown' = [shown EXCEPT ![b] = x]
  /\ shownSeq' = [shownSeq EXCEPT ![b] = n]
  /\ standsFor' = [standsFor EXCEPT ![b] = z]

LEMMA ShowsTheSame ==
  ASSUME BrowserInv, NEW b \in Browsers, UNCHANGED <<shown, shownSeq, standsFor>>
  PROVE  Shows(b, shown[b], shownSeq[b], standsFor[b])
<1>1. /\ shown[b] \in {None} \cup Screens /\ shownSeq[b] \in Nat
      /\ standsFor[b] \in {None} \cup Snapshots
      /\ standsFor[b] # None => StandsFor(shown[b], standsFor[b])
  BY DEF BrowserInv
<1>2. /\ shown' = [shown EXCEPT ![b] = shown[b]]
      /\ shownSeq' = [shownSeq EXCEPT ![b] = shownSeq[b]]
      /\ standsFor' = [standsFor EXCEPT ![b] = standsFor[b]]
  BY DEF BrowserInv
<1> QED
  BY <1>1, <1>2 DEF Shows

LEMMA HandleStep ==
  ASSUME NEW H, Consistent(H), NEW b \in Browsers, Handle(b)
  PROVE  /\ UNCHANGED <<attempt, status, seq>> /\ fetches' \in [Browsers -> Seq(Fetched)]
         /\ \E x, n, z : Shows(b, x, n, z) /\ (z # None => n \in 1 .. seq /\ z = H[n])
<1> DEFINE k == Current(b)
           Agreed == \E x, n, z :
                       Shows(b, x, n, z) /\ (z # None => n \in 1 .. seq /\ z = H[n])
<1>1. /\ H \in [Nat -> Snapshots] /\ seq \in 0 .. MaxSeq /\ MaxSeq \in Nat
      /\ BrowserInv /\ LinksInv(H) /\ TabInv(H)
  BY LiveViewAssumption DEF Consistent, HistoryInv
<1>2. /\ Connected(b) /\ k \in Conns /\ wire[k] # << >>
      /\ UNCHANGED <<attempt, status, seq>>
  BY DEF Handle, hub, Connected, Clients
<1>3. PICK frame : frame = Head(wire[k])
  OBVIOUS
<1>4. /\ frame.type = "hello" => UNCHANGED browser
      /\ frame.type = "snapshot" => ApplySnapshot(b, frame)
      /\ frame.type = "delta" => ApplyDelta(b, frame)
  BY <1>3 DEF Handle
<1>5. frame \in FramesOf(H, seq)
  BY <1>1, <1>2, <1>3, FrameAtHand
<1>6. fetches \in [Browsers -> Seq(Fetched)]
  BY <1>1 DEF BrowserInv
<1>7. ASSUME UNCHANGED browser
      PROVE  fetches' \in [Browsers -> Seq(Fetched)] /\ Agreed
  <2>1. UNCHANGED <<shown, shownSeq, standsFor, fetches>>
    BY <1>7 DEF browser
  <2>2. Shows(b, shown[b], shownSeq[b], standsFor[b])
    BY <1>1, <2>1, ShowsTheSame
  <2>3. standsFor[b] # None => shownSeq[b] \in 1 .. seq /\ standsFor[b] = H[shownSeq[b]]
    BY <1>1, <1>2 DEF TabInv, AgreesWith
  <2> QED
    BY <1>6, <2>1, <2>2, <2>3
<1>8. CASE frame = HelloFrame
  <2>1. frame.type = "hello"
    BY <1>8 DEF HelloFrame
  <2> QED
    BY <1>2, <1>4, <1>7, <2>1
<1>9. ASSUME NEW i \in 1 .. seq, frame = SnapshotFrame(H[i], i)
      PROVE  fetches' \in [Browsers -> Seq(Fetched)] /\ Agreed
  <2>1. frame.type = "snapshot" /\ frame.seq = i /\ frame.of = H[i]
    BY <1>9 DEF SnapshotFrame
  <2>2. CASE frame.seq > shownSeq[b] /\ ~UNCHANGED browser
    <3>1. /\ shown' = [shown EXCEPT ![b] = Kept(frame.of)]
          /\ shownSeq' = [shownSeq EXCEPT ![b] = frame.seq]
          /\ standsFor' = [standsFor EXCEPT ![b] = frame.of]
          /\ UNCHANGED fetches
      BY <1>4, <2>1, <2>2 DEF ApplySnapshot
    <3>2. H[i] \in Snapshots /\ i \in Nat /\ Kept(H[i]) \in Screens /\ StandsFor(Kept(H[i]), H[i])
      BY <1>1, KeptIsScreen
    <3>3. Shows(b, Kept(H[i]), i, H[i])
      BY <2>1, <3>1, <3>2 DEF Shows
    <3> QED
      BY <1>6, <3>1, <3>3
  <2> QED
    BY <1>4, <1>7, <2>1, <2>2 DEF ApplySnapshot
<1>10. ASSUME NEW i \in 1 .. seq, NEW j \in 1 .. seq,
              frame = DeltaFrame(H[i], i, H[j], j), AppendOnly(H[i], H[j]),
              DOMAIN H[i].rows \subseteq DOMAIN H[j].rows
       PROVE  fetches' \in [Browsers -> Seq(Fetched)] /\ Agreed
  <2>1. /\ frame.type = "delta" /\ frame.seq = j /\ frame.of = H[j] /\ frame.from = i
        /\ frame.truncated = Truncated(H[i], H[j])
        /\ frame.newLogs = NewLogs(H[i], H[j]) /\ frame.patches = Patches(H[i], H[j])
        /\ frame.order = PatchOrder(H[i], H[j]) /\ frame.stats = H[j].stats
    BY <1>10 DEF DeltaFrame
  <2>2. H[i] \in Snapshots /\ H[j] \in Snapshots /\ j \in Nat
    BY <1>1
  <2>3. CASE shown[b] = None /\ frame.seq > shownSeq[b] /\ ~UNCHANGED browser
    <3>1. /\ shownSeq' = [shownSeq EXCEPT ![b] = frame.seq]
          /\ fetches' = [fetches EXCEPT ![b] = Append(@, Asked)]
          /\ UNCHANGED <<shown, standsFor>>
      BY <1>4, <2>1, <2>3 DEF ApplyDelta
    <3>2. standsFor[b] = None
      BY <1>1, <2>3 DEF BrowserInv, StandsFor
    <3>3. Shows(b, None, j, None)
      <4>1. shown' = [shown EXCEPT ![b] = None] /\ standsFor' = [standsFor EXCEPT ![b] = None]
        BY <1>1, <2>3, <3>1, <3>2 DEF BrowserInv
      <4> QED
        BY <2>1, <2>2, <3>1, <4>1 DEF Shows
    <3>4. Append(fetches[b], Asked) \in Seq(Fetched)
      BY <1>6 DEF Fetched
    <3>5. fetches' \in [Browsers -> Seq(Fetched)]
      BY <1>1, <3>1, <3>4, FetchesStep
    <3> QED
      BY <3>3, <3>5
  <2>4. CASE shown[b] # None /\ frame.seq > shownSeq[b] /\ ~UNCHANGED browser
    <3> DEFINE right == standsFor[b] # None /\ frame.from = shownSeq[b] /\ ~frame.truncated
    <3>1. /\ shown' = [shown EXCEPT ![b] = Patched(@, frame)]
          /\ shownSeq' = [shownSeq EXCEPT ![b] = frame.seq]
          /\ standsFor' = [standsFor EXCEPT ![b] =
               IF @ # None /\ frame.from = shownSeq[b] /\ ~frame.truncated
               THEN frame.of ELSE None]
          /\ UNCHANGED fetches
      BY <1>4, <2>1, <2>4 DEF ApplyDelta
    <3>2. Patched(shown[b], frame) \in Screens
      <4>1. shown[b] \in Screens
        BY <1>1, <2>4 DEF BrowserInv
      <4>2. /\ frame.newLogs \in Lines /\ frame.patches \in RowTables
            /\ frame.stats \in 0 .. MaxStats
            /\ frame.order \in Seq(Rows) /\ Lists(frame.order, DOMAIN frame.patches)
        BY <2>1, <2>2, NewLogsAreLines, PatchesAreRows, PatchesAreListed, SnapshotFields
      <4> QED
        BY <4>1, <4>2, PatchedIsScreen
    <3>3. CASE right
      <4>1. standsFor[b] = H[i]
        BY <1>1, <1>2, <2>1, <3>3 DEF TabInv, AgreesWith
      <4>2. Content(shown[b]) = Kept(Content(H[i]))
        BY <1>1, <3>3, <4>1 DEF BrowserInv, StandsFor
      <4>3. ~Truncated(H[i], H[j])
        BY <2>1, <3>3
      <4>4. Content(Patched(shown[b], frame)) = Kept(Content(H[j]))
        BY <1>10, <2>2, <4>2, <4>3, DeltaIsExact
      <4>5. StandsFor(Patched(shown[b], frame), H[j])
        BY <2>2, <3>2, <4>4, ContentIsShown
      <4>6. /\ shown' = [shown EXCEPT ![b] = Patched(shown[b], frame)]
            /\ standsFor' = [standsFor EXCEPT ![b] = H[j]]
        BY <2>1, <3>1, <3>3
      <4>7. Shows(b, Patched(shown[b], frame), j, H[j])
        BY <2>1, <2>2, <3>1, <3>2, <4>5, <4>6 DEF Shows
      <4> QED
        BY <1>6, <3>1, <4>7
    <3>4. CASE ~right
      <4>1. standsFor' = [standsFor EXCEPT ![b] = None]
        BY <3>1, <3>4
      <4>2. Shows(b, Patched(shown[b], frame), j, None)
        BY <2>1, <2>2, <3>1, <3>2, <4>1 DEF Shows
      <4> QED
        BY <1>6, <3>1, <4>2
    <3> QED
      BY <3>3, <3>4
  <2> QED
    BY <1>4, <1>7, <2>1, <2>3, <2>4 DEF ApplyDelta
<1> QED
  BY <1>2, <1>5, <1>8, <1>9, <1>10 DEF FramesOf, SentOK

LEMMA WhoConnects ==
  ASSUME [Next]_vars, ~Restart, \A b \in Browsers : ~Connect(b)
  PROVE  /\ UNCHANGED attempt
         /\ UNCHANGED status \/ \E k : status' = [status EXCEPT ![k] = "closed"]
<1>1. CASE Engine
  BY <1>1 DEF Engine, AppendLine, SetFilter, ChangeRow, ChangeStats, links
<1>2. CASE BroadcastTick
  <2>1. CASE TickSkip \/ TickBegin \/ TickSnapshot \/ TickNumber \/ TickPublish
    BY <2>1 DEF TickSkip, TickBegin, TickSnapshot, TickNumber, TickPublish, links
  <2>2. ASSUME NEW k \in Conns, TickOffer(k) \/ TickOfferAgain(k)
        PROVE  /\ UNCHANGED attempt
               /\ UNCHANGED status \/ \E j : status' = [status EXCEPT ![j] = "closed"]
    BY <2>2 DEF TickOffer, TickOfferAgain, OfferAgain, Close
  <2> QED
    BY <1>2, <2>1, <2>2 DEF BroadcastTick
<1>3. ASSUME NEW k \in Conns, ServeWS(k) \/ Write(k) \/ Break(k)
      PROVE  /\ UNCHANGED attempt
             /\ UNCHANGED status \/ \E j : status' = [status EXCEPT ![j] = "closed"]
  BY <1>3 DEF ServeWS, ServeOffer, ServeOfferAgain, ServeSnapshot, ServeNumber, ServePublish,
              Write, Break, OfferAgain, Close
<1>4. ASSUME NEW b \in Browsers, Browser(b)
      PROVE  /\ UNCHANGED attempt
             /\ UNCHANGED status \/ \E j : status' = [status EXCEPT ![j] = "closed"]
  BY <1>4 DEF Browser, Handle, Refresh, Answer, Refreshed, links
<1>5. CASE UNCHANGED vars
  BY <1>5 DEF vars, links
<1> QED
  BY <1>1, <1>2, <1>3, <1>4, <1>5 DEF Next

(* A browser is connected because it was or because it has just opened a connection. *)
LEMMA WasConnected ==
  ASSUME NEW H, Consistent(H), [Next]_vars, ~Restart,
         NEW b \in Browsers, ~Connect(b), Connected(b)'
  PROVE  Connected(b)
<1>1. /\ status \in [Conns -> {"new", "open", "closed"}]
      /\ attempt \in [Browsers -> 0 .. Attempts]
  BY DEF Consistent, LinksInv, LinksOK, BrowserInv
<1>2. <<b, attempt'[b]>> \in Conns /\ status'[<<b, attempt'[b]>>] = "open"
  BY DEF Connected, Clients, Current
<1>3. attempt'[b] = attempt[b] /\ status[<<b, attempt[b]>>] = "open"
  <2>1. CASE \E c \in Browsers : Connect(c)
    <3>1. PICK c \in Browsers : Connect(c)
      BY <2>1
    <3>2. /\ c # b
          /\ attempt' = [attempt EXCEPT ![c] = @ + 1]
          /\ status' = [status EXCEPT ![<<c, attempt'[c]>>] = "open"]
      BY <3>1 DEF Connect, Current
    <3>3. attempt'[b] = attempt[b]
      BY <1>1, <3>2
    <3>4. <<b, attempt[b]>> # <<c, attempt'[c]>>
      BY <3>2
    <3> QED
      BY <1>1, <1>2, <3>2, <3>3, <3>4
  <2>2. CASE ~\E c \in Browsers : Connect(c)
    <3>1. UNCHANGED attempt
      BY <2>2, WhoConnects
    <3>2. UNCHANGED status \/ \E k : status' = [status EXCEPT ![k] = "closed"]
      BY <2>2, WhoConnects
    <3>3. status[<<b, attempt[b]>>] = "open"
      BY <1>1, <1>2, <3>1, <3>2
    <3> QED
      BY <3>1, <3>3
  <2> QED
    BY <2>1, <2>2
<1> QED
  BY <1>2, <1>3 DEF Connected, Clients, Current

LEMMA WhoShows ==
  ASSUME [Next]_vars, ~Restart,
         \A b \in Browsers :
           /\ ~Connect(b) /\ ~Handle(b) /\ ~Refresh(b)
           /\ \A i \in DOMAIN fetches[b] : ~Answer(b, i) /\ ~Refreshed(b, i)
  PROVE  UNCHANGED <<attempt, shown, shownSeq, standsFor, fetches>>
<1>1. CASE Engine
  BY <1>1 DEF Engine, AppendLine, SetFilter, ChangeRow, ChangeStats, links, browser
<1>2. CASE BroadcastTick
  BY <1>2 DEF BroadcastTick, TickSkip, TickBegin, TickSnapshot, TickNumber, TickPublish,
              TickOffer, TickOfferAgain, links, browser
<1>3. ASSUME NEW k \in Conns, ServeWS(k) \/ Write(k) \/ Break(k)
      PROVE  UNCHANGED <<attempt, shown, shownSeq, standsFor, fetches>>
  BY <1>3 DEF ServeWS, ServeOffer, ServeOfferAgain, ServeSnapshot, ServeNumber, ServePublish,
              Write, Break, browser
<1>4. CASE UNCHANGED vars
  BY <1>4 DEF vars, links, browser
<1> QED
  BY <1>1, <1>2, <1>3, <1>4 DEF Next, Browser

LEMMA BrowserStep ==
  ASSUME NEW H, Consistent(H), [Next]_vars, ~Restart, NEW G, Follows(G, H)
  PROVE  BrowserInv' /\ TabInv(G)'
<1>1. /\ seq \in Nat /\ EngineInv /\ BrowserInv /\ TabInv(H)
      /\ \A i \in 1 .. seq : i \in 1 .. seq' /\ G[i] = H[i]
  BY LiveViewAssumption DEF Consistent, HistoryInv, Follows
<1>2. /\ shown \in [Browsers -> {None} \cup Screens]
      /\ shownSeq \in [Browsers -> Nat]
      /\ standsFor \in [Browsers -> {None} \cup Snapshots]
      /\ fetches \in [Browsers -> Seq(Fetched)]
      /\ attempt \in [Browsers -> 0 .. Attempts]
  BY <1>1 DEF BrowserInv
(* A browser that shows what it did. *)
<1>3. ASSUME NEW c \in Browsers, ~Connect(c), Connected(c)', standsFor'[c] # None,
             standsFor'[c] = standsFor[c], shownSeq'[c] = shownSeq[c]
      PROVE  AgreesWith(G, c)'
  <2>1. Connected(c)
    BY <1>3, WasConnected
  <2>2. shownSeq[c] \in 1 .. seq /\ standsFor[c] = H[shownSeq[c]]
    BY <1>1, <1>3, <2>1 DEF TabInv, AgreesWith
  <2> QED
    BY <1>1, <1>3, <2>2 DEF AgreesWith
<1>4. ASSUME NEW b \in Browsers, NEW x, NEW n, NEW z, Shows(b, x, n, z),
             fetches' \in [Browsers -> Seq(Fetched)], UNCHANGED attempt,
             z # None /\ Connected(b) => n \in 1 .. seq /\ z = H[n],
             \A c \in Browsers : ~Connect(c)
      PROVE  BrowserInv' /\ TabInv(G)'
  <2>1. BrowserInv'
    BY <1>1, <1>4, ScreenStep DEF Shows
  <2>2. ASSUME NEW c \in Browsers, Connected(c)', standsFor'[c] # None
        PROVE  AgreesWith(G, c)'
    <3>1. CASE c = b
      <4>1. standsFor'[b] = z /\ shownSeq'[b] = n
        BY <1>2, <1>4 DEF Shows
      <4>2. Connected(b)
        BY <1>4, <2>2, <3>1, WasConnected
      <4>3. n \in 1 .. seq /\ z = H[n]
        BY <1>4, <2>2, <3>1, <4>1, <4>2
      <4> QED
        BY <1>1, <3>1, <4>1, <4>3 DEF AgreesWith
    <3>2. CASE c # b
      <4>1. standsFor'[c] = standsFor[c] /\ shownSeq'[c] = shownSeq[c]
        BY <1>2, <1>4, <3>2 DEF Shows
      <4> QED
        BY <1>3, <1>4, <2>2, <4>1
    <3> QED
      BY <3>1, <3>2
  <2> QED
    BY <2>1, <2>2 DEF TabInv
<1>5. ASSUME UNCHANGED <<attempt, shown, shownSeq, standsFor>>,
             fetches' \in [Browsers -> Seq(Fetched)],
             \A c \in Browsers : ~Connect(c)
      PROVE  BrowserInv' /\ TabInv(G)'
  <2>1. BrowserInv'
    BY <1>1, <1>5 DEF BrowserInv
  <2>2. ASSUME NEW c \in Browsers, Connected(c)', standsFor'[c] # None
        PROVE  AgreesWith(G, c)'
    BY <1>3, <1>5, <2>2
  <2> QED
    BY <2>1, <2>2 DEF TabInv
<1>6. ASSUME NEW b \in Browsers, Connect(b)
      PROVE  BrowserInv' /\ TabInv(G)'
  <2>1. /\ attempt[b] < Attempts /\ attempt' = [attempt EXCEPT ![b] = @ + 1]
        /\ standsFor' = [standsFor EXCEPT ![b] = None]
        /\ UNCHANGED <<shown, shownSeq, fetches>>
    BY <1>6 DEF Connect
  <2>2. attempt' \in [Browsers -> 0 .. Attempts]
    <3>1. attempt[b] + 1 \in 0 .. Attempts
      BY <1>2, <2>1, LiveViewAssumption
    <3> QED
      BY <1>2, <2>1, <3>1
  <2>3. \A c \in Browsers : standsFor'[c] = standsFor[c] \/ standsFor'[c] = None
    BY <1>2, <2>1
  <2>4. standsFor' \in [Browsers -> {None} \cup Snapshots]
    BY <1>2, <2>1
  <2>5. BrowserInv'
    BY <1>1, <2>1, <2>2, <2>3, <2>4 DEF BrowserInv
  <2>6. ASSUME NEW c \in Browsers, Connected(c)', standsFor'[c] # None
        PROVE  AgreesWith(G, c)'
    <3>1. c # b
      BY <1>2, <2>1, <2>6
    <3>2. standsFor'[c] = standsFor[c] /\ attempt'[c] = attempt[c]
      BY <1>2, <2>1, <3>1
    <3>3. ~Connect(c)
      <4>1. Connect(c) => attempt' = [attempt EXCEPT ![c] = @ + 1]
        BY DEF Connect
      <4>2. attempt[c] \in Nat
        BY <1>2
      <4> QED
        BY <1>2, <3>2, <4>1, <4>2
    <3> QED
      BY <1>3, <2>1, <2>6, <3>2, <3>3
  <2> QED
    BY <2>5, <2>6 DEF TabInv
<1>7. ASSUME NEW b \in Browsers, Handle(b)
      PROVE  BrowserInv' /\ TabInv(G)'
  <2>1. /\ UNCHANGED <<attempt, status, seq>> /\ fetches' \in [Browsers -> Seq(Fetched)]
        /\ \E x, n, z : Shows(b, x, n, z) /\ (z # None => n \in 1 .. seq /\ z = H[n])
    BY <1>7, HandleStep
  <2>2. PICK x, n, z : Shows(b, x, n, z) /\ (z # None => n \in 1 .. seq /\ z = H[n])
    BY <2>1
  <2>3. \A c \in Browsers : ~Connect(c)
    <3>1. \A c \in Browsers : Connect(c) => attempt' = [attempt EXCEPT ![c] = @ + 1]
      BY DEF Connect
    <3>2. \A c \in Browsers : attempt[c] \in Nat
      BY <1>2
    <3> QED
      BY <1>2, <2>1, <3>1, <3>2
  <2> QED
    BY <1>4, <2>1, <2>2, <2>3
<1>8. ASSUME NEW b \in Browsers,
             \/ Refresh(b)
             \/ \E i \in DOMAIN fetches[b] : Answer(b, i) \/ Refreshed(b, i)
      PROVE  UNCHANGED attempt /\ \A c \in Browsers : ~Connect(c)
  <2>1. UNCHANGED attempt
    BY <1>8 DEF Refresh, Answer, Refreshed, links
  <2>2. \A c \in Browsers : Connect(c) => attempt' = [attempt EXCEPT ![c] = @ + 1]
    BY DEF Connect
  <2>3. \A c \in Browsers : attempt[c] \in Nat
    BY <1>2
  <2> QED
    BY <1>2, <2>1, <2>2, <2>3
<1>9. ASSUME NEW b \in Browsers, Refresh(b)
      PROVE  BrowserInv' /\ TabInv(G)'
  <2>1. /\ fetches' = [fetches EXCEPT ![b] = Append(@, Asked)]
        /\ UNCHANGED <<shown, shownSeq, standsFor>>
    BY <1>9 DEF Refresh
  <2>2. Append(fetches[b], Asked) \in Seq(Fetched)
    BY <1>2 DEF Fetched
  <2>3. fetches' \in [Browsers -> Seq(Fetched)]
    BY <1>1, <2>1, <2>2, FetchesStep
  <2> QED
    BY <1>5, <1>8, <1>9, <2>1, <2>3
<1>10. ASSUME NEW b \in Browsers, NEW i \in DOMAIN fetches[b], Answer(b, i)
       PROVE  BrowserInv' /\ TabInv(G)'
  <2>0. PICK snap \in SnapshotsNow :
          fetches' = [fetches EXCEPT ![b][i] = [at |-> "answered", snap |-> snap]]
    BY <1>10 DEF Answer
  <2>1. UNCHANGED <<shown, shownSeq, standsFor>>
    BY <1>10 DEF Answer
  <2>2. PICK v : v = [at |-> "answered", snap |-> snap]
    OBVIOUS
  <2>3. v \in Fetched
    BY <1>1, <2>2, SnapshotNow DEF Fetched
  <2>4. PICK q : q = [fetches[b] EXCEPT ![i] = v]
    OBVIOUS
  <2>5. q \in Seq(Fetched)
    BY <1>2, <2>3, <2>4
  <2>6. fetches' = [fetches EXCEPT ![b] = q]
    BY <2>0, <2>2, <2>4
  <2>7. fetches' \in [Browsers -> Seq(Fetched)]
    BY <1>1, <2>5, <2>6, FetchesStep
  <2> QED
    BY <1>5, <1>8, <1>10, <2>1, <2>7
<1>11. ASSUME NEW b \in Browsers, NEW i \in DOMAIN fetches[b], Refreshed(b, i)
       PROVE  BrowserInv' /\ TabInv(G)'
  <2>1. /\ fetches[b][i].at = "answered"
        /\ shown' = [shown EXCEPT ![b] = Kept(fetches[b][i].snap)]
        /\ shownSeq' = [shownSeq EXCEPT ![b] = @ + 1]
        /\ fetches' = [fetches EXCEPT ![b] = RemoveAt(@, i)]
        /\ standsFor' = [standsFor EXCEPT ![b] = None]
    BY <1>11 DEF Refreshed
  <2>2. /\ fetches[b] \in Seq(Fetched) /\ i \in 1 .. Len(fetches[b])
        /\ fetches[b][i] \in Fetched
    BY <1>2
  <2>3. fetches[b][i].snap \in Snapshots
    <3>1. PICK v \in Fetched : v = fetches[b][i]
      BY <2>2
    <3>2. v # Asked
      BY <2>1, <3>1 DEF Asked
    <3> QED
      BY <3>1, <3>2 DEF Fetched
  <2>4. Shows(b, Kept(fetches[b][i].snap), shownSeq[b] + 1, None)
    <3>1. shownSeq[b] + 1 \in Nat
      BY <1>2
    <3> QED
      BY <2>1, <2>3, <3>1, KeptIsScreen DEF Shows
  <2>5. RemoveAt(fetches[b], i) \in Seq(Fetched)
    BY <2>2 DEF RemoveAt
  <2>6. fetches' \in [Browsers -> Seq(Fetched)]
    BY <1>1, <2>1, <2>5, FetchesStep
  <2> QED
    BY <1>4, <1>8, <1>11, <2>4, <2>6
<1>12. ASSUME UNCHANGED <<attempt, shown, shownSeq, standsFor, fetches>>,
              \A c \in Browsers : ~Connect(c)
       PROVE  BrowserInv' /\ TabInv(G)'
  BY <1>2, <1>5, <1>12
<1> QED
  BY <1>6, <1>7, <1>9, <1>10, <1>11, <1>12, WhoShows

-------------------------------------------------------------------------------
(* The program starts, and starts again. *)

LEMMA EmptyLinks ==
  ASSUME NEW F, NEW st, NEW sl, NEW wi,
         st \in [Conns -> {"new", "open", "closed"}],
         sl = [k \in Conns |-> << >>], wi = [k \in Conns |-> << >>]
  PROVE  LinksOK(F, st, sl, wi)
<1>1. << >> \in Seq(F) /\ Len(<< >>) = 0
  OBVIOUS
<1>2. 0 <= 1 /\ 0 <= WireSize
  BY LiveViewAssumption
<1>3. sl \in [Conns -> Seq(F)] /\ wi \in [Conns -> Seq(F)]
  BY <1>1
<1>4. \A k \in Conns : sl[k] = << >> /\ wi[k] = << >>
  OBVIOUS
<1>5. \A k \in Conns : Len(sl[k]) <= 1 /\ Len(wi[k]) <= WireSize
  BY <1>1, <1>2, <1>4
<1> QED
  BY <1>3, <1>4, <1>5 DEF LinksOK

LEMMA NoNumbers ==
  ASSUME NEW H, NEW t
  PROVE  /\ PairOK(H, 0, None) /\ TickOK(H, 0, t, Idle) /\ ServeOK(H, 0, t, Idle)
         /\ \A n \in 1 .. 0 : FALSE
BY DEF PairOK, TickOK, ServeOK

LEMMA InitLive == Init => LiveInv
<1> SUFFICES ASSUME Init PROVE LiveInv
  OBVIOUS
<1> USE LiveViewAssumption
<1>1. EngineInv
  <2>1. << >> \in [{} -> 0 .. 1] /\ << >> \in Seq(Text) /\ Len(<< >>) = 0
    OBVIOUS
  <2>2. << >> \in RowTables
    BY <2>1 DEF RowTables
  <2> QED
    BY <2>1, <2>2 DEF Init, EngineInv
<1>2. PICK H : H = [n \in Nat |-> [lines |-> << >>, rows |-> << >>, order |-> << >>, stats |-> 0]]
  OBVIOUS
<1>3. H \in [Nat -> Snapshots]
  <2>1. PICK s : s = [lines |-> << >>, rows |-> << >>, order |-> << >>, stats |-> 0]
    OBVIOUS
  <2>2. << >> \in RowTables /\ << >> \in Seq(Text) /\ Len(<< >>) = 0
    BY <1>1 DEF EngineInv, Init
  <2>3. << >> \in Lines /\ 0 \in 0 .. MaxStats
    <3>1. MaxStats \in Nat /\ Capacity \in Nat /\ 0 <= Capacity
      OBVIOUS
    <3>2. 0 \in 0 .. MaxStats
      BY <3>1
    <3>3. << >> \in Lines
      BY <2>2, <3>1, LinesAreSequences
    <3> QED
      BY <3>2, <3>3
  <2>4. << >> \in Seq(Rows) /\ DOMAIN << >> = {} /\ ToSet(<< >>) = {}
    BY DEF ToSet
  <2>5. s \in Snapshots
    BY <2>1, <2>2, <2>3, <2>4 DEF Snapshots, Listings, Lists
  <2> QED
    BY <1>2, <2>1, <2>5
<1>4. HistoryInv(H)
  BY <1>3, NoNumbers DEF Init, HistoryInv
<1>5. HubInv(H)
  BY NoNumbers DEF Init, HubInv
<1>6. ServeInv(H)
  <2>1. serve = [k \in Conns |-> Idle] /\ seq = 0
    BY DEF Init
  <2> QED
    BY <2>1, NoNumbers DEF ServeInv
<1>7. LinksInv(H)
  <2>1. /\ status \in [Conns -> {"new", "open", "closed"}]
        /\ slot = [k \in Conns |-> << >>] /\ wire = [k \in Conns |-> << >>]
    BY DEF Init
  <2> QED
    BY <2>1, EmptyLinks DEF LinksInv
<1>8. BrowserInv
  <2>1. << >> \in Seq(Fetched)
    OBVIOUS
  <2> QED
    BY <2>1 DEF Init, BrowserInv
<1>9. TabInv(H)
  BY DEF Init, TabInv
<1> QED
  BY <1>1, <1>4, <1>5, <1>6, <1>7, <1>8, <1>9 DEF LiveInv, Consistent

(* With the numbers at zero again no snapshot has one, whatever the tabs show. *)
LEMMA RestartStep == ASSUME NEW H, Consistent(H), Restart PROVE Consistent(H)'
<1> USE LiveViewAssumption
<1>1. EngineInv'
  BY EngineStep DEF Consistent, Next
<1>2. /\ seq' = 0 /\ last' = None /\ age' = FullEvery /\ tick' = Idle
      /\ status' = [k \in Conns |-> IF status[k] = "new" THEN "new" ELSE "closed"]
      /\ serve' = [k \in Conns |-> Idle]
      /\ slot' = [k \in Conns |-> << >>] /\ wire' = [k \in Conns |-> << >>]
      /\ fetches' = [b \in Browsers |-> << >>]
      /\ UNCHANGED <<attempt, shown, shownSeq, standsFor>>
  BY DEF Restart
<1>3. HistoryInv(H)'
  BY <1>2, NoNumbers DEF Consistent, HistoryInv
<1>4. HubInv(H)'
  BY <1>2, NoNumbers DEF HubInv
<1>5. ServeInv(H)'
  BY <1>2, NoNumbers DEF ServeInv
<1>6. LinksInv(H)'
  <2>1. status' \in [Conns -> {"new", "open", "closed"}]
    BY <1>2
  <2> QED
    BY <1>2, <2>1, EmptyLinks DEF LinksInv
<1>7. BrowserInv'
  <2>1. << >> \in Seq(Fetched)
    OBVIOUS
  <2>2. fetches' \in [Browsers -> Seq(Fetched)]
    BY <1>2, <2>1
  <2> QED
    BY <1>2, <2>2 DEF Consistent, BrowserInv
<1>8. \A b \in Browsers : ~Connected(b)'
  BY <1>2 DEF Connected, Clients
<1>9. TabInv(H)'
  BY <1>8 DEF TabInv
<1> QED
  BY <1>1, <1>3, <1>4, <1>5, <1>6, <1>7, <1>9 DEF Consistent

LEMMA LiveStep == LiveInv /\ [Next]_vars => LiveInv'
<1> SUFFICES ASSUME LiveInv, [Next]_vars PROVE LiveInv'
  OBVIOUS
<1>1. PICK H : Consistent(H)
  BY DEF LiveInv
<1>2. CASE Restart
  BY <1>1, <1>2, RestartStep DEF LiveInv
<1>3. CASE ~Restart
  <2>1. PICK G : Follows(G, H)
    BY <1>1, <1>3, HistoryStep
  <2>2. EngineInv'
    BY <1>1, EngineStep DEF Consistent
  <2>3. HistoryInv(G)'
    BY <2>1 DEF Follows, HistoryInv
  <2>4. HubInv(G)'
    BY <1>1, <1>3, <2>1, HubStep DEF HubInv
  <2>5. ServeInv(G)' /\ LinksInv(G)' /\ BrowserInv' /\ TabInv(G)'
    BY <1>1, <1>3, <2>1, ServeStep, LinksStep, BrowserStep
  <2>6. Consistent(G)'
    BY <2>2, <2>3, <2>4, <2>5 DEF Consistent
  <2> QED
    BY <2>6 DEF LiveInv
<1> QED
  BY <1>2, <1>3

LEMMA LiveInvHolds == Spec => []LiveInv
<1> QED
  BY InitLive, LiveStep, PTL DEF Spec

(* The engine's snapshot, the numbers, and every frame in a client's channel or on
   its connection are of their types; a channel holds one frame at most, a closed
   client none, and a browser keeps no more lines than it should (hub.go:91-151,
   262-296; store.ts:142-207). *)
THEOREM TypeCorrect == Spec => []TypeOK
<1>1. LiveInv => TypeOK
  <2> SUFFICES ASSUME NEW H, Consistent(H) PROVE TypeOK
    BY DEF LiveInv
  <2>1. SnapshotsNow \subseteq Snapshots
    BY SnapshotNow DEF Consistent
  <2>2. seq \in 0 .. MaxSeq /\ age \in 0 .. FullEvery
    BY DEF Consistent, HistoryInv, HubInv
  <2>3. last # None => last.seq \in 1 .. seq
    BY DEF Consistent, HubInv, PairOK
  <2>4. LinksOK(FramesOf(H, seq), status, slot, wire)
    BY DEF Consistent, LinksInv
  <2>5. ASSUME NEW k \in Conns
        PROVE  ToSet(slot[k]) \cup ToSet(wire[k]) \subseteq Frames
    <3>1. FramesOf(H, seq) \subseteq Frames
      BY DEF FramesOf
    <3>2. slot[k] \in Seq(FramesOf(H, seq)) /\ wire[k] \in Seq(FramesOf(H, seq))
      BY <2>4 DEF LinksOK
    <3> QED
      BY <3>1, <3>2 DEF ToSet
  <2>6. attempt \in [Browsers -> 0 .. Attempts]
    BY DEF Consistent, BrowserInv
  <2>7. ASSUME NEW b \in Browsers, shown[b] # None
        PROVE  Len(shown[b].lines) <= MaxClientLines
    <3>1. shown[b] \in Screens
      BY <2>7 DEF Consistent, BrowserInv
    <3> QED
      BY <3>1 DEF Screens, ScreenLines
  <2> QED
    BY <2>1, <2>2, <2>3, <2>4, <2>5, <2>6, <2>7 DEF TypeOK, LinksOK
<1> QED
  BY <1>1, LiveInvHolds, PTL

(* A browser that got a full snapshot and since then only deltas starting at the
   number it was at, none of them cut, shows the lines, the counters and the rows of
   the snapshot its number stands for, and lists each of these rows once, in whatever
   order, however the tick and the handlers of new connections interleaved, whatever
   frames were replaced in the channels, and over restarts of the program
   (hub.go:91-134, 187-296; delta.go:15-133; store.ts:142-236). *)
THEOREM ExactWithoutGaps == Spec => []GapFreeIsExact
<1>1. LiveInv => GapFreeIsExact
  <2> SUFFICES ASSUME NEW H, Consistent(H), NEW b \in Browsers, standsFor[b] # None
               PROVE  /\ Content(shown[b]) = Kept(Content(standsFor[b]))
                      /\ Lists(shown[b].order, DOMAIN shown[b].rows)
    BY DEF LiveInv, GapFreeIsExact
  <2>1. StandsFor(shown[b], standsFor[b]) /\ shown[b] \in {None} \cup Screens
    BY DEF Consistent, BrowserInv
  <2>2. shown[b] \in Screens
    BY <2>1 DEF StandsFor
  <2> QED
    BY <2>1, <2>2 DEF StandsFor, Screens
<1> QED
  BY <1>1, LiveInvHolds, PTL

-------------------------------------------------------------------------------
(* Convergence.  What is on its way to browser b, oldest first. *)
Underway(b) == wire[Current(b)] \o slot[Current(b)]

(* How far above the hub's numbers the snapshots b fetched itself may have put it. *)
Shift(b) == refreshes[b] - Len(fetches[b])

Older(f, n) == f.type = "hello" \/ f.seq < n

(* A frame that leaves a screen showing v, or makes it show v. *)
Renews(f, v) == f.type = "hello" \/ (f.type = "snapshot" /\ Content(f.of) = v)

(* A tab that shows x at number s and is sent q will show v: it does and nothing
   under way changes that, or a snapshot it will not discard is under way. *)
GoodTab(q, x, s, v) ==
  \/ x # None /\ Content(x) = Kept(v) /\ \A i \in 1 .. Len(q) : Renews(q[i], v)
  \/ \E p \in 1 .. Len(q) :
       /\ q[p].type = "snapshot" /\ Content(q[p].of) = v /\ s < q[p].seq
       /\ \A i \in 1 .. Len(q) :
            (i < p => Older(q[i], q[p].seq)) /\ (i > p => Renews(q[i], v))

(* What a tab that shows x at number s becomes when it handles f. *)
Handled(f, x, s, y, t) ==
  \/ (f.type = "hello" \/ f.seq <= s) /\ y = x /\ t = s
  \/ /\ f.type = "snapshot" /\ s < f.seq /\ t = f.seq
     /\ y # None /\ Content(y) = Kept(Content(f.of))
  \/ f.type = "delta" /\ s < f.seq /\ t = f.seq

FramesOnly(F) ==
  \A f \in F : f.type = "hello" \/ (f.type \in {"snapshot", "delta"} /\ f.seq \in Nat)

LEMMA TailOfSequence ==
  ASSUME NEW F, NEW q \in Seq(F), q # << >>
  PROVE  /\ Tail(q) \in Seq(F) /\ Len(q) \in Nat /\ Len(q) >= 1 /\ Len(Tail(q)) = Len(q) - 1
         /\ Head(q) = q[1] /\ \A i \in 1 .. Len(q) : q[i] \in F
         /\ \A i \in 1 .. Len(q) - 1 : Tail(q)[i] = q[i + 1]
OBVIOUS

LEMMA GoodTail ==
  ASSUME NEW F, FramesOnly(F), NEW q \in Seq(F), q # << >>, NEW f, f = Head(q),
         NEW x, NEW s \in Nat, NEW y, NEW t, NEW v,
         Handled(f, x, s, y, t), GoodTab(q, x, s, v)
  PROVE  GoodTab(Tail(q), y, t, v)
<1>1. PICK r : r = Tail(q)
  OBVIOUS
<1>2. /\ Len(q) \in Nat /\ Len(q) >= 1 /\ Len(r) = Len(q) - 1 /\ f = q[1]
      /\ \A i \in 1 .. Len(q) : q[i] \in F
      /\ \A i \in 1 .. Len(q) - 1 : r[i] = q[i + 1]
  BY <1>1, TailOfSequence
<1>3. PICK n \in Nat : n = Len(q) /\ n >= 1 /\ Len(r) = n - 1
  BY <1>2
<1>4. /\ \A i \in 1 .. n : q[i] \in F
      /\ \A i \in 1 .. n - 1 : r[i] = q[i + 1] /\ i + 1 \in 1 .. n
  BY <1>2, <1>3
<1>5. CASE x # None /\ Content(x) = Kept(v) /\ \A i \in 1 .. n : Renews(q[i], v)
  <2>1. Renews(f, v)
    BY <1>2, <1>3, <1>5
  <2>2. y # None /\ Content(y) = Kept(v)
    BY <1>5, <2>1 DEF Handled, Renews
  <2>3. \A i \in 1 .. n - 1 : Renews(r[i], v)
    BY <1>4, <1>5
  <2> QED
    BY <1>1, <1>3, <2>2, <2>3 DEF GoodTab
<1>6. ASSUME NEW p \in 1 .. n,
             q[p].type = "snapshot", Content(q[p].of) = v, s < q[p].seq,
             \A i \in 1 .. n : (i < p => Older(q[i], q[p].seq)) /\ (i > p => Renews(q[i], v))
      PROVE  GoodTab(r, y, t, v)
  <2>1. CASE p = 1
    <3>1. y # None /\ Content(y) = Kept(v)
      <4>1. f.type = "snapshot" /\ Content(f.of) = v /\ s < f.seq
        BY <1>2, <1>6, <2>1
      <4>2. f.seq \in Nat
        BY <1>2, <1>4, <1>6, <2>1, <4>1 DEF FramesOnly
      <4> QED
        BY <4>1, <4>2 DEF Handled
    <3>2. \A i \in 1 .. n - 1 : Renews(r[i], v)
      BY <1>3, <1>4, <1>6, <2>1
    <3> QED
      BY <1>3, <3>1, <3>2 DEF GoodTab
  <2>2. CASE p > 1
    <3>1. PICK m \in 1 .. n - 1 : p = m + 1 /\ r[m] = q[p]
      <4>1. p - 1 \in 1 .. n - 1
        BY <1>3, <1>6, <2>2
      <4> QED
        BY <1>4, <4>1
    <3>2. q[p].seq \in Nat
      BY <1>4, <1>6 DEF FramesOnly
    <3>3. t < r[m].seq
      <4>1. 1 \in 1 .. n
        BY <1>3
      <4>2. Older(f, q[p].seq)
        BY <1>2, <1>6, <2>2, <4>1
      <4> QED
        BY <1>6, <3>1, <4>2 DEF Handled, Older
    <3>4. \A i \in 1 .. n - 1 : (i < m => i + 1 < p) /\ (i > m => i + 1 > p)
      BY <3>1
    <3>5. \A i \in 1 .. n - 1 :
            (i < m => Older(r[i], r[m].seq)) /\ (i > m => Renews(r[i], v))
      BY <1>4, <1>6, <3>1, <3>4
    <3> QED
      BY <1>3, <1>6, <3>1, <3>3, <3>5 DEF GoodTab
  <2> QED
    BY <1>6, <2>1, <2>2
<1> QED
  BY <1>1, <1>3, <1>5, <1>6 DEF GoodTab

LEMMA OneMoreFrame ==
  ASSUME NEW F, NEW q \in Seq(F), NEW f \in F
  PROVE  /\ q \o <<f>> \in Seq(F) /\ Len(q \o <<f>>) = Len(q) + 1 /\ Len(q) \in Nat
         /\ (q \o <<f>>)[Len(q) + 1] = f
         /\ \A i \in 1 .. Len(q) : (q \o <<f>>)[i] = q[i]
OBVIOUS

(* A snapshot sent after the others. *)
LEMMA GoodAppend ==
  ASSUME NEW F, NEW q \in Seq(F), NEW f \in F, NEW v, f.type = "snapshot", Content(f.of) = v,
         NEW x, NEW s,
         \/ GoodTab(q, x, s, v)
         \/ s < f.seq /\ \A i \in 1 .. Len(q) : Older(q[i], f.seq)
  PROVE  GoodTab(q \o <<f>>, x, s, v)
<1>1. PICK r : r = q \o <<f>>
  OBVIOUS
<1>2. PICK n \in Nat : n = Len(q) /\ Len(r) = n + 1 /\ r[n + 1] = f
  BY <1>1, OneMoreFrame
<1>3. \A i \in 1 .. n : r[i] = q[i]
  BY <1>1, <1>2, OneMoreFrame
<1>4. Renews(r[n + 1], v)
  BY <1>2 DEF Renews
<1>5. \A i \in 1 .. n + 1 : i \in 1 .. n \/ i = n + 1
  OBVIOUS
<1>6. CASE x # None /\ Content(x) = Kept(v) /\ \A i \in 1 .. n : Renews(q[i], v)
  <2>1. \A i \in 1 .. n + 1 : Renews(r[i], v)
    BY <1>3, <1>4, <1>5, <1>6
  <2> QED
    BY <1>1, <1>2, <1>6, <2>1 DEF GoodTab
<1>7. ASSUME NEW p \in 1 .. n,
             q[p].type = "snapshot", Content(q[p].of) = v, s < q[p].seq,
             \A i \in 1 .. n : (i < p => Older(q[i], q[p].seq)) /\ (i > p => Renews(q[i], v))
      PROVE  GoodTab(r, x, s, v)
  <2>1. p \in 1 .. n + 1 /\ ~(n + 1 < p) /\ r[p] = q[p]
    BY <1>3, <1>7
  <2>2. \A i \in 1 .. n + 1 :
          (i < p => Older(r[i], r[p].seq)) /\ (i > p => Renews(r[i], v))
    BY <1>3, <1>4, <1>5, <1>7, <2>1
  <2> QED
    BY <1>2, <1>7, <2>1, <2>2 DEF GoodTab
<1>8. CASE s < f.seq /\ \A i \in 1 .. n : Older(q[i], f.seq)
  <2>1. \A i \in 1 .. n + 1 : (i < n + 1 => Older(r[i], f.seq)) /\ ~(i > n + 1)
    BY <1>3, <1>5, <1>8
  <2>2. PICK p : p = n + 1
    OBVIOUS
  <2>3. p \in 1 .. Len(r) /\ r[p] = f
    BY <1>2, <2>2
  <2>4. \A i \in 1 .. Len(r) : (i < p => Older(r[i], r[p].seq)) /\ (i > p => Renews(r[i], v))
    BY <1>2, <2>1, <2>2, <2>3
  <2> QED
    BY <1>1, <1>8, <2>3, <2>4 DEF GoodTab
<1> QED
  BY <1>1, <1>2, <1>6, <1>7, <1>8 DEF GoodTab

-------------------------------------------------------------------------------
(* While the program has not been restarted, a tab's number is above the hub's by no
   more than its refreshes.  Once a tick has begun since the last disturbance, the
   hub's last snapshot, or the one a tick is sending, is the engine's; and a connected
   tab either will show it, and no tick changes that, or is pending: the ticks since
   the disturbance are still fewer than its full period. *)

ShiftInv ==
  /\ refreshes \in [Browsers -> Nat]
  /\ \A b \in Browsers : Len(fetches[b]) <= refreshes[b] /\ shownSeq[b] <= seq + Shift(b)

CalmTick ==
  \/ tick.at = "idle" /\ (last # None => Content(last.snap) = Visible)
  \/ tick.at = "snapshot" /\ tick.prev = last
  \/ tick.at = "number" /\ tick.prev = last /\ Content(tick.snap) = Visible
  \/ tick.at = "publish" /\ Content(tick.frame.of) = Visible /\ tick.frame.seq = seq
  \/ /\ tick.at = "enqueue" /\ Content(tick.frame.of) = Visible /\ tick.frame.seq = seq
     /\ last # None => Content(last.snap) = Visible

(* The tick sends nothing, or a full snapshot. *)
SettledTick ==
  \/ tick.at = "idle"
  \/ /\ tick.at \in {"snapshot", "number"}
     /\ tick.full \/ (tick.prev # None /\ Content(tick.prev.snap) = Visible)
  \/ tick.at \in {"publish", "enqueue"} /\ tick.frame.type = "snapshot"

(* The next full snapshot is due before the period of b is over. *)
FullIsDue(b) == calm <= Shift(b) + age /\ age < FullEvery

Sending(b) == tick.at = "publish" \/ (tick.at = "enqueue" /\ Current(b) \in tick.to)

(* Each tick that numbers a frame brings the hub closer to the number of the tab. *)
PendingTab(b) ==
  \/ /\ tick.at = "idle" \/ (tick.at = "enqueue" /\ ~Sending(b))
     /\ FullIsDue(b)
     /\ shownSeq[b] <= seq \/ shownSeq[b] + calm <= seq + Shift(b)
  \/ /\ tick.at \in {"snapshot", "number"}
     /\ ~tick.full => FullIsDue(b)
     /\ shownSeq[b] <= seq \/ shownSeq[b] + calm <= seq + 1 + Shift(b)
  \/ /\ Sending(b)
     /\ \A i \in 1 .. Len(Underway(b)) : Older(Underway(b)[i], seq)
     /\ tick.frame.type = "delta" => FullIsDue(b)
     /\ tick.at = "enqueue" /\ tick.frame.type = "snapshot" => age = 0
     /\ shownSeq[b] < seq \/ shownSeq[b] + calm <= seq + Shift(b)

SettledTab(b) == SettledTick /\ GoodTab(Underway(b), shown[b], shownSeq[b], Visible)

CalmTabs == \A b \in Browsers : Connected(b) => PendingTab(b) \/ SettledTab(b)

CalmInv ==
  /\ restarts \in Nat /\ calm \in Nat /\ refreshes \in [Browsers -> Nat]
  /\ restarts = 0 => ShiftInv /\ (calm > 0 => CalmTick /\ CalmTabs)

LEMMA InitCalm == Init => CalmInv
<1> SUFFICES ASSUME Init PROVE CalmInv
  OBVIOUS
<1>1. /\ restarts = 0 /\ calm = 0 /\ seq = 0
      /\ shownSeq = [b \in Browsers |-> 0] /\ refreshes = [b \in Browsers |-> 0]
      /\ fetches = [b \in Browsers |-> << >>]
  BY DEF Init
<1>2. \A b \in Browsers : Len(fetches[b]) = 0 /\ refreshes[b] = 0 /\ shownSeq[b] = 0
  BY <1>1
<1>3. ShiftInv
  BY <1>1, <1>2 DEF ShiftInv, Shift
<1> QED
  BY <1>1, <1>3 DEF CalmInv

LEMMA Numbers ==
  ASSUME NEW H, Consistent(H), refreshes \in [Browsers -> Nat], NEW b \in Browsers
  PROVE  /\ seq \in Nat /\ age \in Nat /\ FullEvery \in Nat /\ FullEvery >= 1
         /\ refreshes[b] \in Nat /\ shownSeq[b] \in Nat
         /\ fetches[b] \in Seq(Fetched) /\ Len(fetches[b]) \in Nat
<1>1. seq \in Nat /\ age \in Nat /\ FullEvery \in Nat /\ FullEvery >= 1
  BY LiveViewAssumption DEF Consistent, HistoryInv, HubInv
<1>2. shownSeq[b] \in Nat /\ fetches[b] \in Seq(Fetched)
  BY DEF Consistent, BrowserInv
<1> QED
  BY <1>1, <1>2

LEMMA FrameFields ==
  ASSUME NEW H \in [Nat -> Snapshots], NEW n \in Nat, NEW f \in FramesOf(H, n)
  PROVE  f.type = "hello" \/ (f.type \in {"snapshot", "delta"} /\ f.seq \in 1 .. n)
<1>1. CASE f = HelloFrame
  BY <1>1 DEF HelloFrame
<1>2. CASE SentOK(H, n, f)
  BY <1>2, SentFields
<1> QED
  BY <1>1, <1>2 DEF FramesOf

(* What handling a frame does to a tab. *)
Takes(b, f, y, t) ==
  /\ Handled(f, shown[b], shownSeq[b], y, t)
  /\ shown' = [shown EXCEPT ![b] = y]
  /\ shownSeq' = [shownSeq EXCEPT ![b] = t]

LEMMA HandleTakes ==
  ASSUME NEW H, Consistent(H), refreshes \in [Browsers -> Nat], NEW b \in Browsers, Handle(b)
  PROVE  /\ \E f \in FramesOf(H, seq) :
              /\ f = Head(wire[Current(b)])
              /\ \E y, t : Takes(b, f, y, t)
         /\ refreshes' \in [Browsers -> Nat]
         /\ \A c \in Browsers :
              \/ refreshes'[c] = refreshes[c] /\ fetches'[c] = fetches[c]
              \/ refreshes'[c] = refreshes[c] + 1 /\ fetches'[c] = Append(fetches[c], Asked)
<1>1. Connected(b) /\ Current(b) \in Conns /\ wire[Current(b)] # << >>
  BY DEF Handle, Connected, Clients
<1>2. PICK f : f = Head(wire[Current(b)])
  OBVIOUS
<1>3. f \in FramesOf(H, seq)
  BY <1>1, <1>2, FrameAtHand DEF Consistent
<1>4. H \in [Nat -> Snapshots] /\ seq \in Nat
  BY LiveViewAssumption DEF Consistent, HistoryInv
<1>5. f.type = "hello" \/ (f.type \in {"snapshot", "delta"} /\ f.seq \in 1 .. seq)
  BY <1>3, <1>4, FrameFields
<1>6. /\ f.type = "hello" => UNCHANGED browser
      /\ f.type = "snapshot" => ApplySnapshot(b, f)
      /\ f.type = "delta" => ApplyDelta(b, f)
  BY <1>2 DEF Handle
<1>7. /\ shown \in [Browsers -> {None} \cup Screens] /\ shownSeq \in [Browsers -> Nat]
      /\ fetches \in [Browsers -> Seq(Fetched)]
  BY DEF Consistent, BrowserInv
<1>8. CASE UNCHANGED browser /\ (f.type = "hello" \/ f.seq <= shownSeq[b])
  <2>1. UNCHANGED <<shown, shownSeq, fetches, refreshes>>
    BY <1>8 DEF browser
  <2>2. Takes(b, f, shown[b], shownSeq[b])
    BY <1>7, <1>8, <2>1 DEF Takes, Handled
  <2> QED
    BY <1>2, <1>3, <2>1, <2>2
<1>9. CASE f.type = "snapshot" /\ f.seq > shownSeq[b]
  <2>1. /\ shown' = [shown EXCEPT ![b] = Kept(f.of)]
        /\ shownSeq' = [shownSeq EXCEPT ![b] = f.seq]
        /\ UNCHANGED <<fetches, refreshes>>
    BY <1>5, <1>6, <1>7, <1>9 DEF ApplySnapshot
  <2>2. Takes(b, f, Kept(f.of), f.seq)
    <3>1. f.of = H[f.seq] /\ f.seq \in 1 .. seq
      BY <1>3, <1>4, <1>9, SentFields DEF FramesOf, HelloFrame
    <3>2. f.of \in Snapshots
      BY <1>4, <3>1
    <3>3. Content(Kept(f.of)) = Kept(Content(f.of))
      BY <3>2, SnapshotFields
    <3>4. Kept(f.of) # None
      BY <3>2, KeptIsScreen DEF StandsFor
    <3> QED
      BY <1>5, <1>7, <1>9, <2>1, <3>3, <3>4 DEF Takes, Handled
  <2> QED
    BY <1>2, <1>3, <2>1, <2>2
<1>10. CASE f.type = "delta" /\ f.seq > shownSeq[b]
  <2>1. shownSeq' = [shownSeq EXCEPT ![b] = f.seq]
    BY <1>5, <1>6, <1>7, <1>10 DEF ApplyDelta
  <2>2. \E y : shown' = [shown EXCEPT ![b] = y]
    <3>1. UNCHANGED shown => shown' = [shown EXCEPT ![b] = shown[b]]
      BY <1>7
    <3> QED
      BY <1>5, <1>6, <1>7, <1>10, <3>1 DEF ApplyDelta
  <2>3. PICK y : Takes(b, f, y, f.seq)
    BY <1>5, <1>7, <1>10, <2>1, <2>2 DEF Takes, Handled
  <2>4. \/ UNCHANGED <<fetches, refreshes>>
        \/ /\ refreshes' = [refreshes EXCEPT ![b] = @ + 1]
           /\ fetches' = [fetches EXCEPT ![b] = Append(@, Asked)]
    BY <1>5, <1>6, <1>7, <1>10 DEF ApplyDelta
  <2>5. /\ refreshes' \in [Browsers -> Nat]
        /\ \A c \in Browsers :
             \/ refreshes'[c] = refreshes[c] /\ fetches'[c] = fetches[c]
             \/ refreshes'[c] = refreshes[c] + 1 /\ fetches'[c] = Append(fetches[c], Asked)
    <3>1. CASE UNCHANGED <<fetches, refreshes>>
      BY <3>1
    <3>2. CASE /\ refreshes' = [refreshes EXCEPT ![b] = @ + 1]
               /\ fetches' = [fetches EXCEPT ![b] = Append(@, Asked)]
      <4>1. PICK n \in Nat : n = refreshes[b] + 1
        OBVIOUS
      <4>2. refreshes' = [refreshes EXCEPT ![b] = n]
        BY <3>2, <4>1
      <4>3. PICK q : q = Append(fetches[b], Asked)
        OBVIOUS
      <4>4. fetches' = [fetches EXCEPT ![b] = q]
        BY <3>2, <4>3
      <4>5. \A c \in Browsers :
              /\ refreshes'[c] = IF c = b THEN n ELSE refreshes[c]
              /\ fetches'[c] = IF c = b THEN q ELSE fetches[c]
        BY <1>7, <4>2, <4>4
      <4>6. refreshes' \in [Browsers -> Nat]
        BY <4>2
      <4> QED
        BY <4>1, <4>3, <4>5, <4>6
    <3> QED
      BY <2>4, <3>1, <3>2
  <2> QED
    BY <1>2, <1>3, <2>3, <2>5
<1> QED
  BY <1>5, <1>6, <1>7, <1>8, <1>9, <1>10 DEF ApplySnapshot, ApplyDelta

LEMMA WhoRefreshes ==
  ASSUME [Next]_vars, ~Restart
  PROVE  /\ UNCHANGED restarts
         /\ (\A b \in Browsers : ~Handle(b) /\ ~Refresh(b)) => UNCHANGED refreshes
<1>1. CASE Engine
  BY <1>1 DEF Engine, AppendLine, SetFilter, ChangeRow, ChangeStats, Trouble, browser
<1>2. CASE BroadcastTick
  BY <1>2 DEF BroadcastTick, TickSkip, TickBegin, TickSnapshot, TickNumber, TickPublish,
              TickOffer, TickOfferAgain, browser, program
<1>3. ASSUME NEW k \in Conns, ServeWS(k) \/ Write(k) \/ Break(k)
      PROVE  UNCHANGED <<refreshes, restarts>>
  BY <1>3 DEF ServeWS, ServeOffer, ServeOfferAgain, ServeSnapshot, ServeNumber, ServePublish,
              Write, Break, browser, program
<1>4. ASSUME NEW b \in Browsers, Browser(b)
      PROVE  /\ UNCHANGED restarts
             /\ ~Handle(b) /\ ~Refresh(b) => UNCHANGED refreshes
  BY <1>4 DEF Browser, Connect, Handle, Refresh, Answer, Refreshed, program
<1>5. CASE UNCHANGED vars
  BY <1>5 DEF vars, browser, program
<1> QED
  BY <1>1, <1>2, <1>3, <1>4, <1>5 DEF Next

LEMMA RemovedLength ==
  ASSUME NEW S, NEW q \in Seq(S), NEW i \in 1 .. Len(q)
  PROVE  Len(RemoveAt(q, i)) = Len(q) - 1 /\ Len(q) \in Nat
<1>1. PICK n \in Nat : n = Len(q) /\ i \in 1 .. n
  OBVIOUS
<1>2. SubSeq(q, 1, i - 1) \in Seq(S) /\ Len(SubSeq(q, 1, i - 1)) = i - 1
  BY <1>1
<1>3. SubSeq(q, i + 1, n) \in Seq(S) /\ Len(SubSeq(q, i + 1, n)) = n - i
  BY <1>1
<1>4. Len(SubSeq(q, 1, i - 1) \o SubSeq(q, i + 1, n)) = (i - 1) + (n - i)
  BY <1>2, <1>3
<1>5. RemoveAt(q, i) = SubSeq(q, 1, i - 1) \o SubSeq(q, i + 1, n)
  BY <1>1 DEF RemoveAt
<1>6. (i - 1) + (n - i) = n - 1
  OBVIOUS
<1> QED
  BY <1>1, <1>4, <1>5, <1>6

(* A number stays within the refreshes, whatever else moves. *)
LEMMA ShiftStep ==
  ASSUME NEW H, Consistent(H), CalmInv, [Next]_vars, ~Restart
  PROVE  /\ restarts' = restarts /\ refreshes' \in [Browsers -> Nat]
         /\ restarts = 0 => ShiftInv'
<1>1. UNCHANGED restarts /\ refreshes \in [Browsers -> Nat]
  BY WhoRefreshes DEF CalmInv
<1>2. seq \in Nat /\ seq' \in Nat /\ seq <= seq'
  <2>1. PICK G : Follows(G, H)
    BY HistoryStep
  <2> QED
    BY <2>1, LiveViewAssumption DEF Follows, Consistent, HistoryInv
<1>3. /\ shownSeq \in [Browsers -> Nat] /\ fetches \in [Browsers -> Seq(Fetched)]
      /\ \A c \in Browsers :
           /\ shownSeq[c] \in Nat /\ refreshes[c] \in Nat
           /\ fetches[c] \in Seq(Fetched) /\ Len(fetches[c]) \in Nat
  BY <1>1, Numbers DEF Consistent, BrowserInv
<1>4. restarts = 0 =>
        \A c \in Browsers :
          /\ Len(fetches[c]) <= refreshes[c]
          /\ shownSeq[c] <= seq + (refreshes[c] - Len(fetches[c]))
  BY DEF CalmInv, ShiftInv, Shift
<1>5. ASSUME refreshes' \in [Browsers -> Nat],
             \A c \in Browsers :
               \E n \in Nat, m \in Nat, s \in Nat :
                 /\ refreshes'[c] = n /\ Len(fetches'[c]) = m /\ shownSeq'[c] = s
                 /\ restarts = 0 => m <= n /\ s <= seq' + (n - m)
      PROVE  /\ restarts' = restarts /\ refreshes' \in [Browsers -> Nat]
             /\ restarts = 0 => ShiftInv'
  <2>1. ASSUME NEW c \in Browsers, restarts = 0
        PROVE  Len(fetches'[c]) <= refreshes'[c]
                 /\ shownSeq'[c] <= seq' + (refreshes'[c] - Len(fetches'[c]))
    BY <1>5, <2>1
  <2> QED
    BY <1>1, <1>5, <2>1 DEF ShiftInv, Shift
<1>6. ASSUME NEW b \in Browsers, Handle(b) PROVE restarts = 0 => ShiftInv'
  <2>1. PICK f \in FramesOf(H, seq) : \E y, t : Takes(b, f, y, t)
    BY <1>1, <1>6, HandleTakes
  <2>2. PICK y, t : Takes(b, f, y, t)
    BY <2>1
  <2>3. f.type = "hello" \/ (f.type \in {"snapshot", "delta"} /\ f.seq \in 1 .. seq)
    BY <1>2, FrameFields DEF Consistent, HistoryInv
  <2>4. t = shownSeq[b] \/ t \in 1 .. seq
    BY <2>2, <2>3 DEF Takes, Handled
  <2>5. /\ refreshes' \in [Browsers -> Nat]
        /\ \A c \in Browsers :
             \/ refreshes'[c] = refreshes[c] /\ fetches'[c] = fetches[c]
             \/ refreshes'[c] = refreshes[c] + 1 /\ fetches'[c] = Append(fetches[c], Asked)
    BY <1>1, <1>6, HandleTakes
  <2>6. ASSUME NEW c \in Browsers
        PROVE  \E n \in Nat, m \in Nat, s \in Nat :
                 /\ refreshes'[c] = n /\ Len(fetches'[c]) = m /\ shownSeq'[c] = s
                 /\ restarts = 0 => m <= n /\ s <= seq' + (n - m)
    <3>1. PICK s \in Nat : s = shownSeq'[c] /\ (s = shownSeq[c] \/ s <= seq)
      <4>1. shownSeq'[c] = IF c = b THEN t ELSE shownSeq[c]
        BY <1>3, <2>2 DEF Takes
      <4> QED
        BY <1>2, <1>3, <2>4, <4>1
    <3>2. \E d \in {0, 1} : /\ refreshes'[c] = refreshes[c] + d
                            /\ Len(fetches'[c]) = Len(fetches[c]) + d
      <4>1. Len(Append(fetches[c], Asked)) = Len(fetches[c]) + 1
        BY <1>3
      <4> QED
        BY <1>3, <2>5, <4>1
    <3>3. PICK d \in {0, 1} : /\ refreshes'[c] = refreshes[c] + d
                              /\ Len(fetches'[c]) = Len(fetches[c]) + d
      BY <3>2
    <3>4. PICK n \in Nat, m \in Nat : n = refreshes[c] /\ m = Len(fetches[c])
      BY <1>3
    <3>5. n + d \in Nat /\ m + d \in Nat
      OBVIOUS
    <3>6. restarts = 0 => m + d <= n + d /\ s <= seq' + ((n + d) - (m + d))
      <4>1. restarts = 0 => m <= n /\ shownSeq[c] <= seq + (n - m)
        BY <1>4, <3>4
      <4>2. shownSeq[c] \in Nat
        BY <1>3
      <4> QED
        BY <1>2, <3>1, <4>1, <4>2
    <3> QED
      BY <3>1, <3>3, <3>4, <3>5, <3>6
  <2> QED
    BY <1>5, <2>5, <2>6
<1>7. ASSUME NEW b \in Browsers, Refresh(b) PROVE restarts = 0 => ShiftInv'
  <2>1. /\ fetches' = [fetches EXCEPT ![b] = Append(@, Asked)]
        /\ refreshes' = [refreshes EXCEPT ![b] = @ + 1] /\ UNCHANGED shownSeq
    BY <1>7 DEF Refresh
  <2>2. PICK m \in Nat, n \in Nat : m = Len(fetches[b]) /\ n = refreshes[b]
    BY <1>3
  <2>3. PICK q : q = Append(fetches[b], Asked)
    OBVIOUS
  <2>4. Len(q) = m + 1
    BY <1>3, <2>2, <2>3
  <2>5. refreshes' = [refreshes EXCEPT ![b] = n + 1] /\ refreshes' \in [Browsers -> Nat]
    BY <1>1, <2>1, <2>2
  <2>6. fetches' = [fetches EXCEPT ![b] = q]
    BY <2>1, <2>3
  <2>7. \A c \in Browsers :
          /\ refreshes'[c] = IF c = b THEN n + 1 ELSE refreshes[c]
          /\ fetches'[c] = IF c = b THEN q ELSE fetches[c]
    BY <1>1, <1>3, <2>5, <2>6
  <2>8. ASSUME NEW c \in Browsers
        PROVE  \E n2 \in Nat, m2 \in Nat, s \in Nat :
                 /\ refreshes'[c] = n2 /\ Len(fetches'[c]) = m2 /\ shownSeq'[c] = s
                 /\ restarts = 0 => m2 <= n2 /\ s <= seq' + (n2 - m2)
    <3>1. PICK s \in Nat : s = shownSeq[c] /\ s = shownSeq'[c]
      BY <1>3, <2>1
    <3>2. CASE c = b
      <4>1. restarts = 0 => m <= n /\ s <= seq + (n - m)
        BY <1>4, <2>2, <3>1, <3>2
      <4>2. restarts = 0 => m + 1 <= n + 1 /\ s <= seq' + ((n + 1) - (m + 1))
        BY <1>2, <2>2, <3>1, <4>1
      <4>3. n + 1 \in Nat /\ m + 1 \in Nat
        OBVIOUS
      <4> QED
        BY <2>4, <2>7, <3>1, <3>2, <4>2, <4>3
    <3>3. CASE c # b
      <4>1. PICK n2 \in Nat, m2 \in Nat : n2 = refreshes[c] /\ m2 = Len(fetches[c])
        BY <1>3
      <4>2. restarts = 0 => m2 <= n2 /\ s <= seq + (n2 - m2)
        BY <1>4, <3>1, <4>1
      <4>3. restarts = 0 => m2 <= n2 /\ s <= seq' + (n2 - m2)
        BY <1>2, <3>1, <4>1, <4>2
      <4> QED
        BY <2>7, <3>1, <3>3, <4>1, <4>3
    <3> QED
      BY <3>2, <3>3
  <2> QED
    BY <1>5, <2>5, <2>8
<1>8. ASSUME UNCHANGED <<shownSeq, refreshes>>,
             \A c \in Browsers : Len(fetches'[c]) = Len(fetches[c])
      PROVE  restarts = 0 => ShiftInv'
  <2>1. ASSUME NEW c \in Browsers
        PROVE  \E n \in Nat, m \in Nat, s \in Nat :
                 /\ refreshes'[c] = n /\ Len(fetches'[c]) = m /\ shownSeq'[c] = s
                 /\ restarts = 0 => m <= n /\ s <= seq' + (n - m)
    <3>1. PICK n \in Nat, m \in Nat, s \in Nat :
            n = refreshes[c] /\ m = Len(fetches[c]) /\ s = shownSeq[c]
      BY <1>3
    <3>2. restarts = 0 => m <= n /\ s <= seq + (n - m)
      BY <1>4, <3>1
    <3>3. restarts = 0 => m <= n /\ s <= seq' + (n - m)
      BY <1>2, <3>1, <3>2
    <3> QED
      BY <1>8, <3>1, <3>3
  <2> QED
    BY <1>1, <1>5, <1>8, <2>1
<1>9. ASSUME NEW b \in Browsers, NEW i \in DOMAIN fetches[b], Answer(b, i)
      PROVE  restarts = 0 => ShiftInv'
  <2>1. UNCHANGED <<shownSeq, refreshes>>
    BY <1>9 DEF Answer
  <2>2. PICK a : fetches' = [fetches EXCEPT ![b][i] = a]
    BY <1>9 DEF Answer
  <2>3. PICK q : q = [fetches[b] EXCEPT ![i] = a]
    OBVIOUS
  <2>4. Len(q) = Len(fetches[b])
    BY <1>3, <2>3
  <2>5. fetches' = [fetches EXCEPT ![b] = q]
    BY <2>2, <2>3
  <2>6. \A c \in Browsers : fetches'[c] = IF c = b THEN q ELSE fetches[c]
    BY <1>3, <2>5
  <2>7. \A c \in Browsers : Len(fetches'[c]) = Len(fetches[c])
    BY <2>4, <2>6
  <2> QED
    BY <1>8, <2>1, <2>7
<1>10. ASSUME NEW b \in Browsers, NEW i \in DOMAIN fetches[b], Refreshed(b, i)
       PROVE  restarts = 0 => ShiftInv'
  <2>1. /\ fetches' = [fetches EXCEPT ![b] = RemoveAt(@, i)]
        /\ shownSeq' = [shownSeq EXCEPT ![b] = @ + 1] /\ UNCHANGED refreshes
    BY <1>10 DEF Refreshed
  <2>2. i \in 1 .. Len(fetches[b])
    BY <1>3
  <2>3. PICK q : q = RemoveAt(fetches[b], i)
    OBVIOUS
  <2>4. PICK m \in Nat, s \in Nat : m = Len(fetches[b]) /\ s = shownSeq[b]
    BY <1>3
  <2>5. Len(q) = m - 1 /\ m - 1 \in Nat
    <3>1. Len(q) = m - 1
      BY <1>3, <2>2, <2>3, <2>4, RemovedLength
    <3>2. 1 <= m
      BY <2>2, <2>4
    <3> QED
      BY <3>1, <3>2
  <2>6. fetches' = [fetches EXCEPT ![b] = q] /\ shownSeq' = [shownSeq EXCEPT ![b] = s + 1]
    BY <2>1, <2>3, <2>4
  <2>7. \A c \in Browsers :
          /\ fetches'[c] = IF c = b THEN q ELSE fetches[c]
          /\ shownSeq'[c] = IF c = b THEN s + 1 ELSE shownSeq[c]
    BY <1>3, <2>6
  <2>8. ASSUME NEW c \in Browsers
        PROVE  \E n \in Nat, m2 \in Nat, s2 \in Nat :
                 /\ refreshes'[c] = n /\ Len(fetches'[c]) = m2 /\ shownSeq'[c] = s2
                 /\ restarts = 0 => m2 <= n /\ s2 <= seq' + (n - m2)
    <3>1. PICK n \in Nat : n = refreshes[c] /\ n = refreshes'[c]
      BY <1>3, <2>1
    <3>2. CASE c = b
      <4>1. restarts = 0 => m <= n /\ s <= seq + (n - m)
        BY <1>4, <2>4, <3>1, <3>2
      <4>2. restarts = 0 => m - 1 <= n /\ s + 1 <= seq' + (n - (m - 1))
        BY <1>2, <2>4, <3>1, <4>1
      <4>3. s + 1 \in Nat
        OBVIOUS
      <4> QED
        BY <2>5, <2>7, <3>1, <3>2, <4>2, <4>3
    <3>3. CASE c # b
      <4>1. PICK m2 \in Nat, s2 \in Nat : m2 = Len(fetches[c]) /\ s2 = shownSeq[c]
        BY <1>3
      <4>2. restarts = 0 => m2 <= n /\ s2 <= seq + (n - m2)
        BY <1>4, <3>1, <4>1
      <4>3. restarts = 0 => m2 <= n /\ s2 <= seq' + (n - m2)
        BY <1>2, <3>1, <4>1, <4>2
      <4> QED
        BY <2>7, <3>1, <3>3, <4>1, <4>3
    <3> QED
      BY <3>2, <3>3
  <2> QED
    BY <1>1, <1>5, <2>1, <2>8
<1>11. ASSUME \A b \in Browsers :
                /\ ~Handle(b) /\ ~Refresh(b)
                /\ \A i \in DOMAIN fetches[b] : ~Answer(b, i) /\ ~Refreshed(b, i)
       PROVE  restarts = 0 => ShiftInv'
  <2>1. UNCHANGED refreshes
    BY <1>11, WhoRefreshes
  <2>2. UNCHANGED <<shownSeq, fetches>>
    <3>1. CASE \E b \in Browsers : Connect(b)
      BY <3>1 DEF Connect
    <3>2. CASE ~\E b \in Browsers : Connect(b)
      BY <1>11, <3>2, WhoShows
    <3> QED
      BY <3>1, <3>2
  <2>3. \A c \in Browsers : Len(fetches'[c]) = Len(fetches[c])
    BY <2>2
  <2>4. UNCHANGED <<shownSeq, refreshes>>
    BY <2>1, <2>2
  <2> QED
    BY <1>8, <2>3, <2>4
<1>12. refreshes' \in [Browsers -> Nat]
  <2>1. ASSUME NEW b \in Browsers, Handle(b) PROVE refreshes' \in [Browsers -> Nat]
    BY <1>1, <2>1, HandleTakes
  <2>2. ASSUME NEW b \in Browsers, Refresh(b) PROVE refreshes' \in [Browsers -> Nat]
    <3>1. refreshes' = [refreshes EXCEPT ![b] = @ + 1] /\ refreshes[b] + 1 \in Nat
      BY <1>3, <2>2 DEF Refresh
    <3> QED
      BY <1>1, <3>1
  <2> QED
    BY <1>1, <2>1, <2>2, WhoRefreshes
<1> QED
  BY <1>1, <1>6, <1>7, <1>9, <1>10, <1>11, <1>12

LEMMA WhoKeepsCalm ==
  ASSUME [Next]_vars, calm' # 0
  PROVE  \/ TickSkip \/ TickBegin \/ TickSnapshot \/ TickNumber \/ TickPublish
         \/ \E k \in Conns : TickOffer(k) \/ Write(k)
         \/ \E b \in Browsers : Handle(b) \/ \E i \in DOMAIN fetches[b] : Answer(b, i)
         \/ UNCHANGED vars
<1>1. ~Engine /\ ~Restart
  BY DEF Engine, AppendLine, SetFilter, ChangeRow, ChangeStats, Restart, Trouble, Disturbed
<1>2. \A k \in Conns : ~ServeWS(k) /\ ~Break(k) /\ ~TickOfferAgain(k)
  BY DEF ServeWS, ServeOffer, ServeOfferAgain, ServeSnapshot, ServeNumber, ServePublish,
         Break, TickOfferAgain, Trouble, Disturbed
<1>3. \A b \in Browsers :
        /\ ~Connect(b) /\ ~Refresh(b)
        /\ \A i \in DOMAIN fetches[b] : ~Refreshed(b, i)
  BY DEF Connect, Refresh, Refreshed, Trouble, Disturbed
<1> QED
  BY <1>1, <1>2, <1>3 DEF Next, BroadcastTick, Browser

LEMMA UnchangedIsSame ==
  ASSUME NEW p \in Snapshots, NEW s \in Snapshots
  PROVE  /\ Unchanged(p, s) /\ DOMAIN p.rows \subseteq DOMAIN s.rows => Content(p) = Content(s)
         /\ Content(p) = Content(s) => Unchanged(p, s)
<1>1. /\ p.rows = [r \in DOMAIN p.rows |-> p.rows[r]]
      /\ s.rows = [r \in DOMAIN s.rows |-> s.rows[r]]
  BY RowTablesAreFunctions, SnapshotFields
<1>2. ASSUME Unchanged(p, s), DOMAIN p.rows \subseteq DOMAIN s.rows
      PROVE  Content(p) = Content(s)
  <2>1. \A r \in DOMAIN s.rows : r \in DOMAIN p.rows /\ p.rows[r] = s.rows[r]
    BY <1>2 DEF Unchanged, Patches
  <2>2. p.rows = s.rows
    BY <1>1, <1>2, <2>1
  <2> QED
    BY <1>2, <2>2 DEF Unchanged, Content
<1>3. ASSUME Content(p) = Content(s)
      PROVE  Unchanged(p, s)
  <2>1. p.lines = s.lines /\ p.rows = s.rows /\ p.stats = s.stats
    BY <1>3 DEF Content
  <2>2. DOMAIN Patches(p, s) = {}
    BY <2>1 DEF Patches
  <2> QED
    BY <2>1, <2>2 DEF Unchanged
<1> QED
  BY <1>2, <1>3

(* What a tick carries, by where it is. *)
LEMMA TickFields ==
  ASSUME NEW H, Consistent(H)
  PROVE  /\ tick.at \in {"idle", "snapshot", "number", "publish", "enqueue"}
         /\ tick.at \in {"snapshot", "number"} => (tick.prev = None => tick.full)
         /\ tick.at = "number" /\ tick.prev # None =>
              /\ tick.prev.snap \in Snapshots /\ tick.snap \in Snapshots
              /\ DOMAIN tick.prev.snap.rows \subseteq DOMAIN tick.snap.rows
         /\ tick.at \in {"publish", "enqueue"} => tick.frame.type \in {"snapshot", "delta"}
<1> USE LiveViewAssumption
<1>1. H \in [Nat -> Snapshots] /\ seq \in Nat /\ TickOK(H, seq, rows, tick)
  BY DEF Consistent, HistoryInv, HubInv
<1>2. CASE tick = Idle
  BY <1>2 DEF Idle
<1>3. ASSUME NEW p, NEW full, p = None => full,
             tick = [at |-> "snapshot", prev |-> p, full |-> full]
      PROVE  tick.at = "snapshot" /\ (tick.prev = None => tick.full)
  BY <1>3
<1>4. ASSUME NEW p, NEW full, NEW s, PairOK(H, seq, p), p = None => full, Taken(s, rows),
             p # None => DOMAIN p.snap.rows \subseteq DOMAIN s.rows,
             tick = [at |-> "number", prev |-> p, full |-> full, snap |-> s]
      PROVE  /\ tick.at = "number" /\ (tick.prev = None => tick.full)
             /\ tick.prev # None =>
                  /\ tick.prev.snap \in Snapshots /\ tick.snap \in Snapshots
                  /\ DOMAIN tick.prev.snap.rows \subseteq DOMAIN tick.snap.rows
  <2>1. tick.at = "number" /\ tick.prev = p /\ tick.full = full /\ tick.snap = s
    BY <1>4
  <2>2. p # None => p.snap \in Snapshots
    BY <1>1, <1>4 DEF PairOK
  <2> QED
    BY <1>4, <2>1, <2>2 DEF Taken
<1>5. ASSUME NEW p, NEW f, SentOK(H, seq, f),
             tick = [at |-> "publish", prev |-> p, frame |-> f]
      PROVE  tick.at = "publish" /\ tick.frame.type \in {"snapshot", "delta"}
  BY <1>1, <1>5, SentFields
<1>6. ASSUME NEW f, NEW to, NEW again, SentOK(H, seq, f),
             tick = [at |-> "enqueue", frame |-> f, to |-> to, again |-> again]
      PROVE  tick.at = "enqueue" /\ tick.frame.type \in {"snapshot", "delta"}
  BY <1>1, <1>6, SentFields
<1> QED
  BY <1>1, <1>2, <1>3, <1>4, <1>5, <1>6 DEF TickOK, Idle

LEMMA UnderwayOfFrames ==
  ASSUME NEW H, Consistent(H), NEW b \in Browsers, Connected(b)
  PROVE  /\ Underway(b) \in Seq(FramesOf(H, seq)) /\ FramesOnly(FramesOf(H, seq))
         /\ \A i \in 1 .. Len(Underway(b)) : Older(Underway(b)[i], seq + 1)
<1>1. H \in [Nat -> Snapshots] /\ seq \in Nat
  BY LiveViewAssumption DEF Consistent, HistoryInv
<1>2. PICK F : F = FramesOf(H, seq)
  OBVIOUS
<1>3. \A f \in F : f.type = "hello" \/ (f.type \in {"snapshot", "delta"} /\ f.seq \in 1 .. seq)
  BY <1>1, <1>2, FrameFields
<1>4. Current(b) \in Conns
  BY DEF Connected, Clients
<1>5. wire[Current(b)] \in Seq(F) /\ slot[Current(b)] \in Seq(F)
  BY <1>2, <1>4 DEF Consistent, LinksInv, LinksOK
<1>6. PICK q : q = Underway(b)
  OBVIOUS
<1>7. q \in Seq(F)
  BY <1>5, <1>6 DEF Underway
<1>8. \A i \in 1 .. Len(q) : q[i] \in F
  BY <1>7
<1>9. \A i \in 1 .. Len(q) : Older(q[i], seq + 1)
  BY <1>1, <1>3, <1>8 DEF Older
<1>10. FramesOnly(F)
  BY <1>1, <1>3 DEF FramesOnly
<1> QED
  BY <1>2, <1>6, <1>7, <1>9, <1>10

(* A tab that nothing concerns. *)
LEMMA SameTab ==
  ASSUME NEW b \in Browsers,
         UNCHANGED <<log, filter, rows, stats, seq, age, tick, attempt, calm>>,
         Underway(b)' = Underway(b), shown'[b] = shown[b], shownSeq'[b] = shownSeq[b],
         Shift(b)' = Shift(b), PendingTab(b) \/ SettledTab(b)
  PROVE  PendingTab(b)' \/ SettledTab(b)'
<1>1. Visible' = Visible /\ Current(b)' = Current(b)
  BY DEF Visible, Current
<1>2. Sending(b)' = Sending(b) /\ SettledTick' = SettledTick
  BY <1>1 DEF Sending, SettledTick
<1>3. PendingTab(b) => PendingTab(b)'
  BY <1>2 DEF PendingTab, FullIsDue
<1>4. SettledTab(b) => SettledTab(b)'
  BY <1>1, <1>2 DEF SettledTab
<1> QED
  BY <1>3, <1>4

LEMMA SameTick ==
  ASSUME UNCHANGED <<log, filter, rows, stats, seq, last, tick>>, CalmTick
  PROVE  CalmTick'
<1>1. Visible' = Visible
  BY DEF Visible
<1> QED
  BY <1>1 DEF CalmTick

LEMMA StillConnected ==
  ASSUME NEW b \in Browsers, UNCHANGED <<status, attempt>>
  PROVE  Connected(b)' = Connected(b) /\ Current(b)' = Current(b)
BY DEF Connected, Clients, Current

LEMMA ShiftIsNumber ==
  ASSUME NEW H, Consistent(H), ShiftInv, NEW b \in Browsers
  PROVE  /\ Shift(b) \in Nat /\ Shift(b) <= refreshes[b] /\ shownSeq[b] <= seq + Shift(b)
<1>1. /\ refreshes[b] \in Nat /\ Len(fetches[b]) \in Nat
      /\ Len(fetches[b]) <= refreshes[b] /\ shownSeq[b] <= seq + Shift(b)
  BY Numbers DEF ShiftInv
<1> QED
  BY <1>1 DEF Shift

(* A tick begins: one more since the disturbance, and the full snapshot is closer by
   one tick at least. *)
LEMMA BeginCalm ==
  ASSUME NEW H, Consistent(H), CalmInv, restarts = 0, TickBegin, calm' > 0
  PROVE  CalmTick' /\ CalmTabs'
<1>1. /\ tick = Idle /\ age' \in {n \in 1 .. FullEvery : n > age \/ n = FullEvery}
      /\ tick' = [at |-> "snapshot", prev |-> last, full |-> last = None \/ age' = FullEvery]
      /\ calm' = IF \E b \in Browsers : calm < Period(b) THEN calm + 1 ELSE calm
      /\ UNCHANGED <<log, filter, rows, stats, seq, last, status, attempt, slot, wire,
                     shown, shownSeq, fetches, refreshes>>
  BY DEF TickBegin, TimePasses, backend, links, browser
<1>2. /\ tick'.at = "snapshot" /\ tick'.prev = last
      /\ tick'.full = (last = None \/ age' = FullEvery)
  BY <1>1
<1>3. tick.at = "idle"
  BY <1>1 DEF Idle
<1>4. CalmTick'
  BY <1>1, <1>2 DEF CalmTick
<1>5. calm \in Nat /\ (calm > 0 => CalmTick /\ CalmTabs) /\ ShiftInv
  BY DEF CalmInv
<1>6. ASSUME NEW b \in Browsers, Connected(b)' PROVE PendingTab(b)' \/ SettledTab(b)'
  <2>1. Connected(b)
    BY <1>1, <1>6, StillConnected
  <2>2. Underway(b)' = Underway(b) /\ Shift(b)' = Shift(b) /\ Visible' = Visible
    BY <1>1 DEF Underway, Current, Shift, Visible
  <2>3. CASE calm > 0 /\ SettledTab(b)
    <3>1. last # None => Content(last.snap) = Visible
      BY <1>3, <1>5, <2>3 DEF CalmTick
    <3>2. SettledTick'
      BY <1>2, <2>2, <3>1 DEF SettledTick
    <3> QED
      BY <1>1, <2>2, <2>3, <3>2 DEF SettledTab
  <2>4. PICK d \in Nat, s \in Nat :
          /\ d = Shift(b) /\ s = shownSeq[b]
          /\ d <= refreshes[b] /\ s <= seq + d
    BY <1>5, ShiftIsNumber, Numbers DEF CalmInv
  <2>5. /\ seq \in Nat /\ age \in Nat /\ FullEvery \in Nat /\ refreshes[b] \in Nat
    BY Numbers DEF CalmInv
  <2>6. age' \in Nat /\ 1 <= age' /\ (age' # FullEvery => age + 1 <= age' /\ age' < FullEvery)
    BY <1>1, <2>5
  <2>7. CASE calm = 0
    <3>1. calm' = 1
      BY <1>1, <2>7
    <3>2. s + calm' <= seq + 1 + d
      BY <2>4, <2>5, <3>1
    <3>3. age' # FullEvery => calm' <= d + age' /\ age' < FullEvery
      BY <2>4, <2>6, <3>1
    <3> QED
      BY <1>1, <1>2, <2>2, <2>4, <3>2, <3>3 DEF PendingTab, FullIsDue
  <2>8. CASE calm > 0 /\ PendingTab(b)
    <3>1. /\ calm <= d + age /\ age < FullEvery
          /\ s <= seq \/ s + calm <= seq + d
      BY <1>3, <2>4, <2>8 DEF PendingTab, FullIsDue, Sending
    <3>2. calm < Period(b)
      BY <1>5, <2>4, <2>5, <3>1 DEF Period
    <3>3. calm' = calm + 1
      BY <1>1, <3>2
    <3>4. age' # FullEvery => calm' <= d + age' /\ age' < FullEvery
      BY <1>5, <2>4, <2>5, <2>6, <3>1, <3>3
    <3>5. s <= seq \/ s + calm' <= seq + 1 + d
      BY <1>5, <2>4, <2>5, <3>1, <3>3
    <3> QED
      BY <1>1, <1>2, <2>2, <2>4, <3>4, <3>5 DEF PendingTab, FullIsDue
  <2> QED
    BY <1>5, <2>1, <2>3, <2>7, <2>8 DEF CalmTabs
<1> QED
  BY <1>4, <1>6 DEF CalmTabs

(* The tick's snapshot is the engine's. *)
LEMMA SnapshotCalm ==
  ASSUME NEW H, Consistent(H), CalmInv, restarts = 0, TickSnapshot, calm' > 0
  PROVE  CalmTick' /\ CalmTabs'
<1>1. /\ tick.at = "snapshot"
      /\ \E s \in SnapshotsNow :
           tick' = [at |-> "number", prev |-> tick.prev, full |-> tick.full, snap |-> s]
      /\ UNCHANGED <<log, filter, rows, stats, seq, last, age, calm, status, attempt,
                     slot, wire, shown, shownSeq, fetches, refreshes>>
  BY DEF TickSnapshot, backend, links, browser
<1>2. Visible' = Visible
  BY <1>1 DEF Visible
<1>3. /\ tick'.at = "number" /\ tick'.prev = tick.prev /\ tick'.full = tick.full
      /\ Content(tick'.snap) = Visible
  <2>1. PICK s \in SnapshotsNow :
          tick' = [at |-> "number", prev |-> tick.prev, full |-> tick.full, snap |-> s]
    BY <1>1
  <2>2. Content(s) = Visible
    BY SnapshotNow DEF Consistent
  <2> QED
    BY <2>1, <2>2
<1>4. CalmTick /\ CalmTabs
  BY <1>1 DEF CalmInv
<1>5. CalmTick'
  BY <1>1, <1>2, <1>3, <1>4 DEF CalmTick
<1>6. ASSUME NEW b \in Browsers, Connected(b)' PROVE PendingTab(b)' \/ SettledTab(b)'
  <2>1. Connected(b)
    BY <1>1, <1>6, StillConnected
  <2>2. Underway(b)' = Underway(b) /\ Shift(b)' = Shift(b)
    BY <1>1 DEF Underway, Current, Shift
  <2>3. CASE SettledTab(b)
    <3>1. SettledTick'
      BY <1>1, <1>2, <1>3, <2>3 DEF SettledTab, SettledTick
    <3> QED
      BY <1>1, <1>2, <2>2, <2>3, <3>1 DEF SettledTab
  <2>4. CASE PendingTab(b)
    <3>1. /\ ~tick.full => FullIsDue(b)
          /\ shownSeq[b] <= seq \/ shownSeq[b] + calm <= seq + 1 + Shift(b)
      BY <1>1, <2>4 DEF PendingTab, Sending
    <3>2. FullIsDue(b)' = FullIsDue(b)
      BY <1>1, <2>2 DEF FullIsDue
    <3> QED
      BY <1>1, <1>3, <2>2, <3>1, <3>2 DEF PendingTab
  <2> QED
    BY <1>4, <2>1, <2>3, <2>4 DEF CalmTabs
<1> QED
  BY <1>5, <1>6 DEF CalmTabs

(* The tick's number is above every number under way; nothing is sent only when the
   last snapshot is the engine's already. *)
LEMMA NumberCalm ==
  ASSUME NEW H, Consistent(H), CalmInv, restarts = 0, TickNumber, calm' > 0
  PROVE  CalmTick' /\ CalmTabs'
<1>1. /\ tick.at = "number" /\ seq' = seq + 1
      /\ tick' = IF Silent(tick) THEN Idle
                 ELSE [at |-> "publish", prev |-> tick.prev, frame |-> TickFrame(tick, seq')]
      /\ UNCHANGED <<log, filter, rows, stats, last, age, calm, status, attempt,
                     slot, wire, shown, shownSeq, fetches, refreshes>>
  BY DEF TickNumber, backend, links, browser
<1>2. Visible' = Visible
  BY <1>1 DEF Visible
<1>3. CalmTick /\ CalmTabs /\ ShiftInv /\ calm \in Nat
  BY <1>1 DEF CalmInv
<1>4. tick.prev = last /\ Content(tick.snap) = Visible
  BY <1>1, <1>3 DEF CalmTick
<1>5. /\ tick.prev = None => tick.full
      /\ tick.prev # None =>
           /\ tick.prev.snap \in Snapshots /\ tick.snap \in Snapshots
           /\ DOMAIN tick.prev.snap.rows \subseteq DOMAIN tick.snap.rows
  BY <1>1, TickFields
<1>6. CASE Silent(tick)
  <2>1. ~tick.full /\ tick.prev # None /\ Content(tick.prev.snap) = Content(tick.snap)
    BY <1>5, <1>6, UnchangedIsSame DEF Silent
  <2>2. tick'.at = "idle"
    BY <1>1, <1>6 DEF Idle
  <2>3. CalmTick'
    BY <1>1, <1>2, <1>4, <2>1, <2>2 DEF CalmTick
  <2>4. ASSUME NEW b \in Browsers, Connected(b)' PROVE PendingTab(b)' \/ SettledTab(b)'
    <3>1. Connected(b)
      BY <1>1, <2>4, StillConnected
    <3>2. Underway(b)' = Underway(b) /\ Shift(b)' = Shift(b)
      BY <1>1 DEF Underway, Current, Shift
    <3>3. CASE SettledTab(b)
      BY <1>1, <1>2, <2>2, <3>2, <3>3 DEF SettledTab, SettledTick
    <3>4. CASE PendingTab(b)
      <4>1. /\ FullIsDue(b)
            /\ shownSeq[b] <= seq \/ shownSeq[b] + calm <= seq + 1 + Shift(b)
        BY <1>1, <2>1, <3>4 DEF PendingTab, Sending
      <4>2. FullIsDue(b)'
        BY <1>1, <3>2, <4>1 DEF FullIsDue
      <4>3. shownSeq'[b] <= seq' \/ shownSeq'[b] + calm' <= seq' + Shift(b)'
        <5>1. seq \in Nat /\ shownSeq[b] \in Nat
          BY Numbers DEF CalmInv
        <5> QED
          BY <1>1, <3>2, <4>1, <5>1
      <4> QED
        BY <2>2, <4>2, <4>3 DEF PendingTab
    <3> QED
      BY <1>3, <3>1, <3>3, <3>4 DEF CalmTabs
  <2> QED
    BY <2>3, <2>4 DEF CalmTabs
<1>7. CASE ~Silent(tick)
  <2>1. PICK f : f = TickFrame(tick, seq')
    OBVIOUS
  <2>2. /\ tick' = [at |-> "publish", prev |-> tick.prev, frame |-> f]
        /\ tick'.at = "publish" /\ tick'.frame = f
    BY <1>1, <1>7, <2>1
  <2>3. f.of = tick.snap /\ f.seq = seq' /\ (tick.full => f.type = "snapshot")
    BY <2>1 DEF TickFrame, SnapshotFrame, DeltaFrame
  <2>4. f.type = "delta" => ~tick.full
    BY <2>3
  <2>5. CalmTick'
    BY <1>2, <1>4, <2>2, <2>3 DEF CalmTick
  <2>6. ASSUME NEW b \in Browsers, Connected(b)' PROVE PendingTab(b)' \/ SettledTab(b)'
    <3>1. Connected(b)
      BY <1>1, <2>6, StillConnected
    <3>2. Underway(b)' = Underway(b) /\ Shift(b)' = Shift(b)
      BY <1>1 DEF Underway, Current, Shift
    <3>3. CASE SettledTab(b)
      <4>1. tick.full
        <5>1. CASE tick.prev # None /\ Content(tick.prev.snap) = Visible
          <6>1. Unchanged(tick.prev.snap, tick.snap)
            BY <1>4, <1>5, <5>1, UnchangedIsSame
          <6> QED
            BY <1>7, <6>1 DEF Silent
        <5> QED
          BY <1>1, <3>3, <5>1 DEF SettledTab, SettledTick
      <4>2. SettledTick'
        BY <2>2, <2>3, <4>1 DEF SettledTick
      <4> QED
        BY <1>1, <1>2, <3>2, <3>3, <4>2 DEF SettledTab
    <3>4. CASE PendingTab(b)
      <4>1. /\ ~tick.full => FullIsDue(b)
            /\ shownSeq[b] <= seq \/ shownSeq[b] + calm <= seq + 1 + Shift(b)
        BY <1>1, <3>4 DEF PendingTab, Sending
      <4>2. tick'.frame.type = "delta" => FullIsDue(b)'
        BY <1>1, <2>2, <2>4, <3>2, <4>1 DEF FullIsDue
      <4>3. shownSeq'[b] < seq' \/ shownSeq'[b] + calm' <= seq' + Shift(b)'
        <5>1. seq \in Nat /\ shownSeq[b] \in Nat
          BY Numbers DEF CalmInv
        <5> QED
          BY <1>1, <3>2, <4>1, <5>1
      <4>4. \A i \in 1 .. Len(Underway(b)) : Older(Underway(b)[i], seq + 1)
        BY <3>1, UnderwayOfFrames
      <4>5. Sending(b)' /\ tick'.at # "enqueue"
        BY <2>2 DEF Sending
      <4>6. PICK q : q = Underway(b) /\ q = Underway(b)'
        BY <3>2
      <4>7. \A i \in 1 .. Len(q) : Older(q[i], seq')
        BY <1>1, <4>4, <4>6
      <4> QED
        BY <4>2, <4>3, <4>5, <4>6, <4>7 DEF PendingTab
    <3> QED
      BY <1>3, <3>1, <3>3, <3>4 DEF CalmTabs
  <2> QED
    BY <2>5, <2>6 DEF CalmTabs
<1> QED
  BY <1>6, <1>7

LEMMA EnqueueingFields ==
  ASSUME NEW f, NEW to, NEW t, t = Enqueueing(f, to)
  PROVE  /\ to = {} => t.at = "idle"
         /\ to # {} => t.at = "enqueue" /\ t.frame = f /\ t.to = to
BY DEF Enqueueing, Idle

(* The last snapshot is the engine's; a full one starts the age anew. *)
LEMMA PublishCalm ==
  ASSUME NEW H, Consistent(H), CalmInv, restarts = 0, TickPublish, calm' > 0
  PROVE  CalmTick' /\ CalmTabs'
<1>1. /\ tick.at = "publish" /\ tick' = Enqueueing(tick.frame, Clients)
      /\ last' = [snap |-> tick.frame.of, seq |-> tick.frame.seq]
      /\ age' = IF tick.frame.type = "snapshot" THEN 0 ELSE age
      /\ UNCHANGED <<log, filter, rows, stats, seq, calm, status, attempt,
                     slot, wire, shown, shownSeq, fetches, refreshes>>
  BY DEF TickPublish, backend, links, browser
<1>2. Visible' = Visible
  BY <1>1 DEF Visible
<1>3. CalmTick /\ CalmTabs
  BY <1>1 DEF CalmInv
<1>4. Content(tick.frame.of) = Visible /\ tick.frame.seq = seq
  BY <1>1, <1>3 DEF CalmTick
<1>5. Content(last'.snap) = Visible
  BY <1>1, <1>4
<1>6. /\ Clients = {} => tick'.at = "idle"
      /\ Clients # {} => tick'.at = "enqueue" /\ tick'.frame = tick.frame /\ tick'.to = Clients
  BY <1>1, EnqueueingFields
<1>7. CalmTick'
  BY <1>1, <1>2, <1>4, <1>5, <1>6 DEF CalmTick
<1>8. ASSUME NEW b \in Browsers, Connected(b)' PROVE PendingTab(b)' \/ SettledTab(b)'
  <2>1. Connected(b) /\ Current(b)' = Current(b)
    BY <1>1, <1>8, StillConnected
  <2>2. Underway(b)' = Underway(b) /\ Shift(b)' = Shift(b)
    BY <1>1 DEF Underway, Current, Shift
  <2>3. /\ tick'.at = "enqueue" /\ tick'.frame = tick.frame /\ tick'.to = Clients
        /\ Current(b) \in Clients
    BY <1>6, <2>1 DEF Connected
  <2>4. CASE SettledTab(b)
    <3>1. SettledTick'
      BY <1>1, <2>3, <2>4 DEF SettledTab, SettledTick
    <3> QED
      BY <1>1, <1>2, <2>2, <2>4, <3>1 DEF SettledTab
  <2>5. CASE PendingTab(b)
    <3>1. /\ \A i \in 1 .. Len(Underway(b)) : Older(Underway(b)[i], seq)
          /\ tick.frame.type = "delta" => FullIsDue(b)
          /\ shownSeq[b] < seq \/ shownSeq[b] + calm <= seq + Shift(b)
      BY <1>1, <2>5 DEF PendingTab, Sending
    <3>2. Sending(b)'
      BY <2>1, <2>3 DEF Sending
    <3>3. tick'.frame.type = "delta" => FullIsDue(b)'
      BY <1>1, <2>2, <2>3, <3>1 DEF FullIsDue
    <3>4. tick'.frame.type = "snapshot" => age' = 0
      BY <1>1, <2>3
    <3>5. PICK q : q = Underway(b) /\ q = Underway(b)'
      BY <2>2
    <3>6. \A i \in 1 .. Len(q) : Older(q[i], seq')
      BY <1>1, <3>1, <3>5
    <3> QED
      BY <1>1, <2>2, <3>1, <3>2, <3>3, <3>4, <3>5, <3>6 DEF PendingTab
  <2> QED
    BY <1>3, <2>1, <2>4, <2>5 DEF CalmTabs
<1> QED
  BY <1>7, <1>8 DEF CalmTabs

(* The frame goes into the empty channel of a client.  A full snapshot of the engine
   settles the tab whose number is below it; the number of any other is too high by
   less than its refreshes, and a next full snapshot follows. *)
LEMMA OfferCalm ==
  ASSUME NEW H, Consistent(H), CalmInv, restarts = 0, NEW k \in Conns, TickOffer(k), calm' > 0
  PROVE  CalmTick' /\ CalmTabs'
<1>1. PICK f, to : f = tick.frame /\ to = tick.to \ {k}
  OBVIOUS
<1>2. /\ tick.at = "enqueue" /\ k \in tick.to /\ ~Crowded(k) /\ Put(k, f)
      /\ tick' = Enqueueing(f, to)
      /\ UNCHANGED <<log, filter, rows, stats, seq, last, age, calm, status, attempt,
                     wire, shown, shownSeq, fetches, refreshes>>
  BY <1>1 DEF TickOffer, Offer, Disturbed, backend, browser
<1>3. Visible' = Visible
  BY <1>2 DEF Visible
<1>4. CalmTick /\ CalmTabs /\ ShiftInv /\ calm \in Nat
  BY <1>2 DEF CalmInv
<1>5. Content(f.of) = Visible /\ f.seq = seq /\ (last # None => Content(last.snap) = Visible)
  BY <1>1, <1>2, <1>4 DEF CalmTick
<1>6. f.type \in {"snapshot", "delta"} /\ f \in FramesOf(H, seq)
  <2>1. f.type \in {"snapshot", "delta"}
    BY <1>1, <1>2, TickFields
  <2>2. SentOK(H, seq, f)
    BY <1>1, <1>2, TickStates DEF Consistent, HubInv
  <2> QED
    BY <2>1, <2>2, SentIsFrame DEF Consistent, HistoryInv
<1>7. /\ to = {} => tick'.at = "idle"
      /\ to # {} => tick'.at = "enqueue" /\ tick'.frame = f /\ tick'.to = to
  BY <1>2, EnqueueingFields
<1>8. CalmTick'
  BY <1>2, <1>3, <1>5, <1>7 DEF CalmTick
<1>9. ASSUME NEW b \in Browsers, Connected(b)' PROVE PendingTab(b)' \/ SettledTab(b)'
  <2>1. Connected(b) /\ Current(b)' = Current(b) /\ Current(b) \in Conns
    BY <1>2, <1>9, StillConnected DEF Connected, Clients
  <2>2. Shift(b)' = Shift(b)
    BY <1>2 DEF Shift
  <2>3. /\ slot \in [Conns -> Seq(FramesOf(H, seq))]
        /\ wire \in [Conns -> Seq(FramesOf(H, seq))]
    BY DEF Consistent, LinksInv, LinksOK
  <2>4. PendingTab(b) \/ SettledTab(b)
    BY <1>4, <2>1 DEF CalmTabs
  <2>5. SettledTab(b) => f.type = "snapshot"
    BY <1>1, <1>2 DEF SettledTab, SettledTick
  <2>6. f.type = "snapshot" => SettledTick'
    BY <1>7 DEF SettledTick
  <2>7. CASE Current(b) # k
    <3>1. Underway(b)' = Underway(b)
      <4>1. slot'[Current(b)] = slot[Current(b)]
        BY <1>2, <2>1, <2>3, <2>7 DEF Put
      <4> QED
        BY <1>2, <2>1, <4>1 DEF Underway
    <3>2. Sending(b)' = Sending(b)
      BY <1>1, <1>2, <1>7, <2>1, <2>7 DEF Sending
    <3>3. tick'.at = "idle" \/ (tick'.at = "enqueue" /\ tick'.frame = f)
      BY <1>7
    <3>4. CASE SettledTab(b)
      BY <1>2, <1>3, <2>5, <2>6, <3>1, <3>4 DEF SettledTab
    <3>5. CASE PendingTab(b)
      <4>1. FullIsDue(b)' = FullIsDue(b)
        BY <1>2, <2>2 DEF FullIsDue
      <4>2. CASE Sending(b)
        <5>1. /\ \A i \in 1 .. Len(Underway(b)) : Older(Underway(b)[i], seq)
              /\ f.type = "delta" => FullIsDue(b)
              /\ f.type = "snapshot" => age = 0
              /\ shownSeq[b] < seq \/ shownSeq[b] + calm <= seq + Shift(b)
          BY <1>1, <1>2, <3>5, <4>2 DEF PendingTab
        <5>2. tick'.at = "enqueue" /\ tick'.frame = f
          BY <1>2, <3>2, <3>3, <4>2 DEF Sending
        <5>3. PICK q : q = Underway(b) /\ q = Underway(b)'
          BY <3>1
        <5>4. \A i \in 1 .. Len(q) : Older(q[i], seq')
          BY <1>2, <5>1, <5>3
        <5> QED
          BY <1>2, <2>2, <3>2, <4>1, <4>2, <5>1, <5>2, <5>3, <5>4 DEF PendingTab
      <4>3. CASE ~Sending(b)
        <5>1. /\ FullIsDue(b)
              /\ shownSeq[b] <= seq \/ shownSeq[b] + calm <= seq + Shift(b)
          BY <1>2, <3>5, <4>3 DEF PendingTab
        <5> QED
          BY <1>2, <2>2, <3>2, <3>3, <4>1, <4>3, <5>1 DEF PendingTab
      <4> QED
        BY <4>2, <4>3
    <3> QED
      BY <2>4, <3>4, <3>5
  <2>8. CASE Current(b) = k
    <3>1. status[k] = "open" /\ slot[k] = << >>
      BY <1>2, <2>1, <2>8 DEF Connected, Clients, Crowded
    <3>2. PICK q : q = wire[k]
      OBVIOUS
    <3>3. q \in Seq(FramesOf(H, seq)) /\ q = Underway(b)
      BY <2>1, <2>3, <2>8, <3>1, <3>2 DEF Underway
    <3>4. Underway(b)' = q \o <<f>>
      <4>1. slot'[k] = <<f>>
        BY <1>2, <2>1, <2>3, <2>8, <3>1 DEF Put
      <4> QED
        BY <1>2, <2>1, <2>8, <3>2, <4>1 DEF Underway
    <3>5. ~Sending(b)' /\ (tick'.at = "idle" \/ tick'.at = "enqueue")
      BY <1>1, <1>7, <2>1, <2>8 DEF Sending
    <3>6. CASE SettledTab(b)
      <4>1. GoodTab(q \o <<f>>, shown[b], shownSeq[b], Visible)
        BY <1>5, <1>6, <2>5, <3>3, <3>6, GoodAppend DEF SettledTab
      <4> QED
        BY <1>2, <1>3, <2>5, <2>6, <3>4, <3>6, <4>1 DEF SettledTab
    <3>7. CASE PendingTab(b)
      <4>1. Sending(b)
        BY <1>2, <2>8 DEF Sending
      <4>2. /\ \A i \in 1 .. Len(q) : Older(q[i], seq)
            /\ f.type = "delta" => FullIsDue(b)
            /\ f.type = "snapshot" => age = 0
            /\ shownSeq[b] < seq \/ shownSeq[b] + calm <= seq + Shift(b)
        BY <1>1, <1>2, <3>3, <3>7, <4>1 DEF PendingTab
      <4>3. PICK s \in Nat, n \in Nat, d \in Nat :
              s = shownSeq[b] /\ n = seq /\ d = Shift(b)
        BY <1>4, Numbers, ShiftIsNumber DEF CalmInv
      <4>4. CASE f.type = "snapshot" /\ s < n
        <5>1. GoodTab(q \o <<f>>, shown[b], shownSeq[b], Visible)
          BY <1>5, <1>6, <3>3, <4>2, <4>3, <4>4, GoodAppend
        <5> QED
          BY <1>2, <1>3, <2>6, <3>4, <4>4, <5>1 DEF SettledTab
      <4>5. CASE FullIsDue(b) /\ (s <= n \/ s + calm <= n + d)
        <5>1. FullIsDue(b)'
          BY <1>2, <2>2, <4>5 DEF FullIsDue
        <5> QED
          BY <1>2, <2>2, <3>5, <4>3, <4>5, <5>1 DEF PendingTab
      <4>6. CASE f.type = "snapshot" /\ ~(s < n)
        <5>1. s + calm <= n + d
          BY <4>2, <4>3, <4>6
        <5>2. calm <= d + 0
          BY <1>4, <4>3, <4>6, <5>1
        <5>3. FullIsDue(b)
          BY <4>2, <4>3, <4>6, <5>2, LiveViewAssumption DEF FullIsDue
        <5> QED
          BY <4>5, <5>1, <5>3
      <4>7. CASE f.type = "delta"
        BY <4>2, <4>3, <4>5, <4>7
      <4> QED
        BY <1>6, <4>4, <4>6, <4>7
    <3> QED
      BY <2>4, <3>6, <3>7
  <2> QED
    BY <2>7, <2>8
<1> QED
  BY <1>8, <1>9 DEF CalmTabs

(* A written frame is under way as before. *)
LEMMA WriteCalm ==
  ASSUME NEW H, Consistent(H), CalmInv, restarts = 0, NEW k \in Conns, Write(k), calm' > 0
  PROVE  CalmTick' /\ CalmTabs'
<1>1. /\ wire' = [wire EXCEPT ![k] = @ \o slot[k]] /\ slot' = [slot EXCEPT ![k] = << >>]
      /\ UNCHANGED <<log, filter, rows, stats, seq, last, age, tick, calm, status, attempt,
                     shown, shownSeq, fetches, refreshes>>
  BY DEF Write, backend, hub, browser
<1>2. CalmTick /\ CalmTabs
  BY <1>1 DEF CalmInv
<1>3. ASSUME NEW b \in Browsers, Connected(b)' PROVE PendingTab(b)' \/ SettledTab(b)'
  <2>1. Connected(b) /\ Current(b)' = Current(b) /\ Current(b) \in Conns
    BY <1>1, <1>3, StillConnected DEF Connected, Clients
  <2>2. PICK F : /\ wire \in [Conns -> Seq(F)] /\ slot \in [Conns -> Seq(F)]
    BY DEF Consistent, LinksInv, LinksOK
  <2>3. PICK c \in Conns : c = Current(b)
    BY <2>1
  <2>4. Underway(b)' = Underway(b)
    <3>1. CASE c = k
      <4>1. PICK q : q = wire[k] \o slot[k]
        OBVIOUS
      <4>2. q \in Seq(F) /\ q \o << >> = q
        BY <2>2, <4>1
      <4>3. wire'[k] = q /\ slot'[k] = << >>
        BY <1>1, <2>2, <4>1
      <4> QED
        BY <2>1, <2>3, <3>1, <4>1, <4>2, <4>3 DEF Underway
    <3>2. CASE c # k
      <4>1. wire'[c] = wire[c] /\ slot'[c] = slot[c]
        BY <1>1, <2>2, <3>2
      <4> QED
        BY <2>1, <2>3, <4>1 DEF Underway
    <3> QED
      BY <3>1, <3>2
  <2>5. Shift(b)' = Shift(b)
    BY <1>1 DEF Shift
  <2> QED
    BY <1>1, <1>2, <2>1, <2>4, <2>5, SameTab DEF CalmTabs
<1> QED
  BY <1>1, <1>2, <1>3, SameTick DEF CalmTabs

(* The engine's answer to a refresh waits to be used. *)
LEMMA AnswerCalm ==
  ASSUME NEW H, Consistent(H), CalmInv, restarts = 0,
         NEW c \in Browsers, NEW i \in DOMAIN fetches[c], Answer(c, i), calm' > 0
  PROVE  CalmTick' /\ CalmTabs'
<1>1. UNCHANGED <<log, filter, rows, stats, seq, last, age, tick, calm, status, attempt,
                slot, wire, shown, shownSeq, refreshes>>
  BY DEF Answer, backend, hub, links
<1>2. CalmTick /\ CalmTabs
  BY <1>1 DEF CalmInv
<1>3. fetches \in [Browsers -> Seq(Fetched)]
  BY DEF Consistent, BrowserInv
<1>4. PICK a : fetches' = [fetches EXCEPT ![c][i] = a]
  BY DEF Answer
<1>5. PICK q : q = [fetches[c] EXCEPT ![i] = a]
  OBVIOUS
<1>6. Len(q) = Len(fetches[c])
  BY <1>3, <1>5
<1>7. fetches' = [fetches EXCEPT ![c] = q]
  BY <1>4, <1>5
<1>8. ASSUME NEW b \in Browsers, Connected(b)' PROVE PendingTab(b)' \/ SettledTab(b)'
  <2>1. Connected(b)
    BY <1>1, <1>8, StillConnected
  <2>2. fetches'[b] = IF b = c THEN q ELSE fetches[b]
    BY <1>3, <1>7
  <2>3. Shift(b)' = Shift(b)
    BY <1>1, <1>6, <2>2 DEF Shift
  <2>4. Underway(b)' = Underway(b)
    BY <1>1 DEF Underway, Current
  <2> QED
    BY <1>1, <1>2, <2>1, <2>3, <2>4, SameTab DEF CalmTabs
<1> QED
  BY <1>1, <1>2, <1>8, SameTick DEF CalmTabs

LEMMA SkipCalm ==
  ASSUME CalmInv, restarts = 0, TickSkip, calm' > 0
  PROVE  CalmTick' /\ CalmTabs'
<1>1. /\ Clients = {}
      /\ UNCHANGED <<log, filter, rows, stats, seq, last, tick, calm, status, attempt>>
  BY DEF TickSkip, backend, links
<1>2. CalmTick
  BY <1>1 DEF CalmInv
<1>3. \A b \in Browsers : ~Connected(b)'
  BY <1>1, StillConnected DEF Connected
<1> QED
  BY <1>1, <1>2, <1>3, SameTick DEF CalmTabs

(* The tab handles a frame: the numbers under way are not above the hub's. *)
LEMMA HandleCalm ==
  ASSUME NEW H, Consistent(H), CalmInv, restarts = 0, NEW c \in Browsers, Handle(c), calm' > 0
  PROVE  CalmTick' /\ CalmTabs'
<1>1. /\ Connected(c) /\ wire[Current(c)] # << >>
      /\ wire' = [wire EXCEPT ![Current(c)] = Tail(@)]
      /\ UNCHANGED <<log, filter, rows, stats, seq, last, age, tick, calm, status, attempt, slot>>
  BY DEF Handle, backend, hub
<1>2. CalmTick /\ CalmTabs /\ ShiftInv /\ refreshes \in [Browsers -> Nat]
  BY <1>1 DEF CalmInv
<1>3. Visible' = Visible
  BY <1>1 DEF Visible
<1>4. PICK F : F = FramesOf(H, seq)
  OBVIOUS
<1>5. /\ wire \in [Conns -> Seq(F)] /\ slot \in [Conns -> Seq(F)]
      /\ shown \in [Browsers -> {None} \cup Screens] /\ shownSeq \in [Browsers -> Nat]
      /\ fetches \in [Browsers -> Seq(Fetched)]
  BY <1>4 DEF Consistent, LinksInv, LinksOK, BrowserInv
<1>6. PICK f \in F : /\ f = Head(wire[Current(c)])
                     /\ \E y, t : Takes(c, f, y, t)
  BY <1>2, <1>4, HandleTakes
<1>7. PICK y, t : Takes(c, f, y, t)
  BY <1>6
<1>8. /\ Handled(f, shown[c], shownSeq[c], y, t)
      /\ \A b \in Browsers : /\ shown'[b] = IF b = c THEN y ELSE shown[b]
                             /\ shownSeq'[b] = IF b = c THEN t ELSE shownSeq[b]
  BY <1>5, <1>7 DEF Takes
<1>9. ASSUME NEW b \in Browsers PROVE Shift(b)' = Shift(b)
  <2>1. \/ refreshes'[b] = refreshes[b] /\ fetches'[b] = fetches[b]
        \/ refreshes'[b] = refreshes[b] + 1 /\ fetches'[b] = Append(fetches[b], Asked)
    BY <1>2, HandleTakes
  <2>2. Len(Append(fetches[b], Asked)) = Len(fetches[b]) + 1 /\ Len(fetches[b]) \in Nat
    BY <1>5
  <2>3. refreshes[b] \in Nat
    BY <1>2
  <2> QED
    BY <2>1, <2>2, <2>3 DEF Shift
<1>10. Current(c) \in Conns
  BY <1>1 DEF Connected, Clients
<1>11. ASSUME NEW b \in Browsers, Connected(b)', b # c PROVE PendingTab(b)' \/ SettledTab(b)'
  <2>1. Connected(b) /\ Current(b)' = Current(b) /\ Current(b) \in Conns
    BY <1>1, <1>11, StillConnected DEF Connected, Clients
  <2>2. Current(b) # Current(c)
    BY <1>11 DEF Current
  <2>3. Underway(b)' = Underway(b)
    <3>1. wire'[Current(b)] = wire[Current(b)]
      BY <1>1, <1>5, <2>1, <2>2
    <3> QED
      BY <1>1, <2>1, <3>1 DEF Underway
  <2> QED
    BY <1>1, <1>2, <1>8, <1>9, <1>11, <2>1, <2>3, SameTab DEF CalmTabs
<1>12. PendingTab(c)' \/ SettledTab(c)'
  <2>1. Current(c)' = Current(c)
    BY <1>1 DEF Current
  <2>2. PICK w, z : w = wire[Current(c)] /\ z = slot[Current(c)]
    OBVIOUS
  <2>3. w \in Seq(F) /\ z \in Seq(F) /\ w # << >>
    BY <1>1, <1>5, <1>10, <2>2
  <2>4. PICK q : q = Underway(c)
    OBVIOUS
  <2>5. q \in Seq(F) /\ q # << >> /\ f = Head(q) /\ Tail(q) = Tail(w) \o z
    <3>1. q = w \o z
      BY <2>2, <2>4 DEF Underway
    <3>2. w \o z \in Seq(F) /\ w \o z # << >>
      BY <2>3
    <3>3. Head(w \o z) = Head(w)
      BY <2>3
    <3>4. Tail(w \o z) = Tail(w) \o z
      BY <2>3
    <3> QED
      BY <1>6, <2>2, <3>1, <3>2, <3>3, <3>4
  <2>6. Underway(c)' = Tail(q)
    <3>1. wire'[Current(c)] = Tail(w)
      BY <1>1, <1>5, <1>10, <2>2
    <3> QED
      BY <1>1, <2>1, <2>2, <2>5, <3>1 DEF Underway
  <2>7. FramesOnly(F)
    BY <1>1, <1>4, UnderwayOfFrames
  <2>8. CASE SettledTab(c)
    <3>1. shownSeq[c] \in Nat /\ GoodTab(q, shown[c], shownSeq[c], Visible)
      BY <1>5, <2>4, <2>8 DEF SettledTab
    <3>2. GoodTab(Tail(q), y, t, Visible)
      BY <1>8, <2>5, <2>7, <3>1, GoodTail
    <3>3. SettledTick'
      BY <1>1, <1>3, <2>8 DEF SettledTab, SettledTick
    <3> QED
      BY <1>3, <1>8, <2>6, <3>2, <3>3 DEF SettledTab
  <2>9. CASE PendingTab(c)
    <3>1. PICK n \in Nat, s \in Nat : n = seq /\ s = shownSeq[c]
      BY <1>2, Numbers
    <3>2. f.type = "hello" \/ f.seq \in 1 .. n
      BY <1>4, <3>1, FrameFields DEF Consistent, HistoryInv
    <3>3. t = s \/ (t = f.seq /\ f.type # "hello" /\ t <= n)
      BY <1>8, <3>1, <3>2 DEF Handled
    <3>4. FullIsDue(c)' = FullIsDue(c)
      BY <1>1, <1>9 DEF FullIsDue
    <3>5. Sending(c)' = Sending(c)
      BY <1>1, <2>1 DEF Sending
    <3>6. shownSeq'[c] = t /\ Shift(c)' = Shift(c) /\ seq' = n
      BY <1>1, <1>8, <1>9, <3>1
    <3>7. CASE /\ tick.at = "idle" \/ (tick.at = "enqueue" /\ ~Sending(c))
               /\ FullIsDue(c)
               /\ s <= n \/ s + calm <= n + Shift(c)
      <4>1. t <= n \/ t + calm <= n + Shift(c)
        BY <3>3, <3>7
      <4> QED
        BY <1>1, <3>4, <3>5, <3>6, <3>7, <4>1 DEF PendingTab
    <3>8. CASE /\ tick.at \in {"snapshot", "number"}
               /\ ~tick.full => FullIsDue(c)
               /\ s <= n \/ s + calm <= n + 1 + Shift(c)
      <4>1. t <= n \/ t + calm <= n + 1 + Shift(c)
        BY <3>3, <3>8
      <4> QED
        BY <1>1, <3>4, <3>6, <3>8, <4>1 DEF PendingTab
    <3>9. CASE /\ Sending(c)
               /\ \A i \in 1 .. Len(q) : Older(q[i], n)
               /\ tick.frame.type = "delta" => FullIsDue(c)
               /\ tick.at = "enqueue" /\ tick.frame.type = "snapshot" => age = 0
               /\ s < n \/ s + calm <= n + Shift(c)
      <4>1. PICK r : r = Tail(q)
        OBVIOUS
      <4>2. /\ Len(q) \in Nat /\ Len(q) >= 1 /\ Len(r) = Len(q) - 1 /\ f = q[1]
            /\ \A i \in 1 .. Len(q) - 1 : r[i] = q[i + 1]
        BY <2>5, <4>1, TailOfSequence
      <4>3. Older(f, n)
        BY <3>9, <4>2
      <4>4. t < n \/ t + calm <= n + Shift(c)
        BY <3>1, <3>2, <3>3, <3>9, <4>3 DEF Older
      <4>5. \A i \in 1 .. Len(r) : Older(r[i], n)
        <5>1. \A i \in 1 .. Len(q) - 1 : i + 1 \in 1 .. Len(q)
          BY <4>2
        <5> QED
          BY <3>9, <4>2, <5>1
      <4>6. \A i \in 1 .. Len(Underway(c)') : Older(Underway(c)'[i], seq')
        BY <2>6, <3>6, <4>1, <4>5
      <4> QED
        BY <1>1, <3>4, <3>5, <3>6, <3>9, <4>4, <4>6 DEF PendingTab
    <3> QED
      BY <2>4, <2>9, <3>1, <3>7, <3>8, <3>9 DEF PendingTab
  <2> QED
    BY <1>1, <1>2, <2>8, <2>9 DEF CalmTabs
<1> QED
  BY <1>1, <1>2, <1>11, <1>12, SameTick DEF CalmTabs

LEMMA CalmStep == LiveInv /\ CalmInv /\ [Next]_vars => CalmInv'
<1> SUFFICES ASSUME LiveInv, CalmInv, [Next]_vars PROVE CalmInv'
  OBVIOUS
<1>1. PICK H : Consistent(H)
  BY DEF LiveInv
<1>2. restarts \in Nat /\ calm \in Nat /\ refreshes \in [Browsers -> Nat]
  BY DEF CalmInv
<1>3. CASE Restart
  <2>1. calm' = 0 /\ restarts' = restarts + 1 /\ UNCHANGED refreshes
    BY <1>3 DEF Restart, Trouble, Disturbed
  <2> QED
    BY <1>2, <2>1 DEF CalmInv
<1>4. CASE ~Restart
  <2>1. /\ restarts' = restarts /\ refreshes' \in [Browsers -> Nat]
        /\ restarts = 0 => ShiftInv'
    BY <1>1, <1>4, ShiftStep
  <2>2. CASE calm' = 0
    BY <1>2, <2>1, <2>2 DEF CalmInv
  <2>3. CASE calm' # 0
    <3>1. calm' \in Nat
      <4>1. TickBegin => calm' \in {calm, calm + 1}
        BY DEF TickBegin
      <4>2. ~TickBegin => UNCHANGED calm
        <5>1. CASE TickSkip \/ TickSnapshot \/ TickNumber \/ TickPublish
          BY <5>1 DEF TickSkip, TickSnapshot, TickNumber, TickPublish
        <5>2. ASSUME NEW k \in Conns, TickOffer(k) \/ Write(k) PROVE UNCHANGED calm
          BY <2>3, <5>2 DEF TickOffer, Write, Disturbed
        <5>3. ASSUME NEW b \in Browsers, Handle(b) PROVE UNCHANGED calm
          BY <5>3 DEF Handle
        <5>4. ASSUME NEW b \in Browsers, NEW i \in DOMAIN fetches[b], Answer(b, i)
              PROVE  UNCHANGED calm
          BY <5>4 DEF Answer
        <5>5. CASE UNCHANGED vars
          BY <5>5 DEF vars
        <5> QED
          BY <2>3, <5>1, <5>2, <5>3, <5>4, <5>5, WhoKeepsCalm
      <4> QED
        BY <1>2, <4>1, <4>2
    <3>2. calm' > 0
      BY <2>3, <3>1
    <3>3. ASSUME restarts = 0 PROVE CalmTick' /\ CalmTabs'
      <4>1. CASE TickSkip
        BY <3>2, <3>3, <4>1, SkipCalm
      <4>2. CASE TickBegin
        BY <1>1, <3>2, <3>3, <4>2, BeginCalm
      <4>3. CASE TickSnapshot
        BY <1>1, <3>2, <3>3, <4>3, SnapshotCalm
      <4>4. CASE TickNumber
        BY <1>1, <3>2, <3>3, <4>4, NumberCalm
      <4>5. CASE TickPublish
        BY <1>1, <3>2, <3>3, <4>5, PublishCalm
      <4>6. ASSUME NEW k \in Conns, TickOffer(k) PROVE CalmTick' /\ CalmTabs'
        BY <1>1, <3>2, <3>3, <4>6, OfferCalm
      <4>7. ASSUME NEW k \in Conns, Write(k) PROVE CalmTick' /\ CalmTabs'
        BY <1>1, <3>2, <3>3, <4>7, WriteCalm
      <4>8. ASSUME NEW b \in Browsers, Handle(b) PROVE CalmTick' /\ CalmTabs'
        BY <1>1, <3>2, <3>3, <4>8, HandleCalm
      <4>9. ASSUME NEW b \in Browsers, NEW i \in DOMAIN fetches[b], Answer(b, i)
            PROVE  CalmTick' /\ CalmTabs'
        BY <1>1, <3>2, <3>3, <4>9, AnswerCalm
      <4>10. CASE UNCHANGED vars
        <5>1. UNCHANGED <<log, filter, rows, stats, seq, last, age, tick, calm, status, attempt,
                          slot, wire, shown, shownSeq, fetches, refreshes>>
          BY <4>10 DEF vars, backend, hub, links, browser
        <5>2. CalmTick /\ CalmTabs
          BY <3>2, <3>3, <5>1 DEF CalmInv
        <5>3. ASSUME NEW b \in Browsers, Connected(b)' PROVE PendingTab(b)' \/ SettledTab(b)'
          <6>1. Connected(b)
            BY <5>1, <5>3, StillConnected
          <6>2. Underway(b)' = Underway(b) /\ Shift(b)' = Shift(b)
            BY <5>1 DEF Underway, Current, Shift
          <6> QED
            BY <5>1, <5>2, <6>1, <6>2, SameTab DEF CalmTabs
        <5> QED
          BY <5>1, <5>2, <5>3, SameTick DEF CalmTabs
      <4> QED
        BY <2>3, <4>1, <4>2, <4>3, <4>4, <4>5, <4>6, <4>7, <4>8, <4>9, <4>10, WhoKeepsCalm
    <3> QED
      BY <1>2, <2>1, <3>1, <3>3 DEF CalmInv
  <2> QED
    BY <2>2, <2>3
<1> QED
  BY <1>3, <1>4

LEMMA CalmIsConvergence == LiveInv /\ CalmInv => ConvergesWhenCalm
<1> SUFFICES ASSUME LiveInv, CalmInv, restarts = 0, NEW b \in Browsers,
                    Connected(b), tick = Idle, slot[Current(b)] = << >>,
                    wire[Current(b)] = << >>, calm >= Period(b)
             PROVE  shown[b] # None /\ Content(shown[b]) = Kept(Visible)
  BY DEF ConvergesWhenCalm, UpToDate
<1>1. PICK H : Consistent(H)
  BY DEF LiveInv
<1>2. /\ calm \in Nat /\ ShiftInv /\ refreshes \in [Browsers -> Nat]
      /\ calm > 0 => CalmTick /\ CalmTabs
  BY DEF CalmInv
<1>3. /\ age \in Nat /\ FullEvery \in Nat /\ FullEvery >= 1 /\ refreshes[b] \in Nat
      /\ Shift(b) \in Nat /\ Shift(b) <= refreshes[b]
  BY <1>1, <1>2, Numbers, ShiftIsNumber
<1>4. calm >= FullEvery + refreshes[b] /\ calm > 0
  BY <1>2, <1>3 DEF Period
<1>5. tick.at = "idle" /\ ~Sending(b)
  BY DEF Idle, Sending
<1>6. ~PendingTab(b)
  <2>1. ~FullIsDue(b)
    BY <1>2, <1>3, <1>4 DEF FullIsDue
  <2> QED
    BY <1>5, <2>1 DEF PendingTab
<1>7. GoodTab(Underway(b), shown[b], shownSeq[b], Visible)
  BY <1>2, <1>4, <1>6 DEF CalmTabs, SettledTab
<1>8. Underway(b) = << >> /\ Len(Underway(b)) = 0
  BY DEF Underway
<1> QED
  BY <1>7, <1>8 DEF GoodTab

(* Whatever frames were replaced in the channels, lost with a connection, overtaken
   or discarded for their number before: when nothing has changed for a full period
   (and one tick more for each snapshot a tab fetched by itself, which put its number
   above the hub's), a connected tab that has handled what was sent to it shows the
   engine's lines, counters and rows, as long as the program has not been restarted
   (hub.go:185-296, 91-134; store.ts:142-236). *)
THEOREM CalmConverges == Spec => []ConvergesWhenCalm
<1>1. Init => LiveInv /\ CalmInv
  BY InitLive, InitCalm
<1>2. LiveInv /\ CalmInv /\ [Next]_vars => (LiveInv /\ CalmInv)'
  BY LiveStep, CalmStep
<1> QED
  BY <1>1, <1>2, CalmIsConvergence, PTL DEF Spec
===============================================================================

---------------------------- MODULE DropStatsProofs -----------------------------
(***************************************************************************)
(* Proofs about DropStats: every dropped line is accounted for, and what     *)
(* snapshots show of drops never falls, for every number of listeners and    *)
(* connections, every capacity of the channel and every number of drops.     *)
(***************************************************************************)
EXTENDS DropStats, FiniteSetTheorems, TLAPS

Steps == {"new", "top", "reading", "source", "emit", "closed"}

-------------------------------------------------------------------------------
(* Sets of indices and sets of lines, and how they grow and shrink by one. *)

LEMMA OneMore ==
  ASSUME NEW S, IsFiniteSet(S), NEW T, NEW c, c \notin S, T = S \cup {c}
  PROVE  IsFiniteSet(T) /\ Cardinality(T) = Cardinality(S) + 1
BY FS_AddElement

LEMMA OneLess ==
  ASSUME NEW S, IsFiniteSet(S), NEW T, NEW c, c \in S, T = S \ {c}
  PROVE  IsFiniteSet(T) /\ Cardinality(T) = Cardinality(S) - 1
BY FS_RemoveElement

(* The places of a sequence that hold a member of C. *)
Places(s, C) == {i \in 1 .. Len(s) : s[i] \in C}

HowMany(s, C) == Cardinality(Places(s, C))

One(c, C) == IF c \in C THEN 1 ELSE 0

LEMMA PlacesAreFinite ==
  ASSUME NEW S, NEW s \in Seq(S), NEW C
  PROVE  IsFiniteSet(Places(s, C)) /\ HowMany(s, C) \in Nat
<1>1. Len(s) \in Nat
  OBVIOUS
<1>2. IsFiniteSet(1 .. Len(s))
  BY <1>1, FS_Interval
<1>3. IsFiniteSet(Places(s, C))
  BY <1>2, FS_Subset DEF Places
<1> QED
  BY <1>3, FS_CardinalityType DEF HowMany

LEMMA NoneInEmpty == ASSUME NEW C PROVE HowMany(<< >>, C) = 0
<1>1. Places(<< >>, C) = {}
  BY DEF Places
<1> QED
  BY <1>1, FS_EmptySet DEF HowMany

LEMMA OneAppended ==
  ASSUME NEW S, NEW s \in Seq(S), NEW e \in S, NEW C
  PROVE  HowMany(Append(s, e), C) = HowMany(s, C) + One(e, C)
<1> DEFINE t == Append(s, e)
<1>1. /\ Len(t) = Len(s) + 1 /\ Len(s) \in Nat
      /\ \A i \in 1 .. Len(s) : t[i] = s[i]
      /\ t[Len(s) + 1] = e
  OBVIOUS
<1> HIDE DEF t
<1>2. 1 .. Len(t) = (1 .. Len(s)) \cup {Len(s) + 1} /\ Len(s) + 1 \notin 1 .. Len(s)
  BY <1>1
<1>3. CASE e \in C
  <2>1. Places(t, C) = Places(s, C) \cup {Len(s) + 1} /\ Len(s) + 1 \notin Places(s, C)
    BY <1>1, <1>2, <1>3 DEF Places
  <2> QED
    BY <1>3, <2>1, PlacesAreFinite, OneMore DEF HowMany, One, t
<1>4. CASE e \notin C
  <2>1. Places(t, C) = Places(s, C)
    BY <1>1, <1>2, <1>4 DEF Places
  <2>2. HowMany(s, C) \in Nat
    BY PlacesAreFinite
  <2> QED
    BY <1>4, <2>1, <2>2 DEF HowMany, One, t
<1> QED
  BY <1>3, <1>4

(* A place moves one to the front when the first is taken. *)
LEMMA OneTaken ==
  ASSUME NEW S, NEW s \in Seq(S), s # << >>, NEW C
  PROVE  HowMany(Tail(s), C) = HowMany(s, C) - One(Head(s), C)
<1> DEFINE t == Tail(s)
           P == Places(s, C)
           Q == Places(t, C)
           R == P \ {1}
<1>1. /\ Len(t) = Len(s) - 1 /\ Len(s) \in Nat \ {0} /\ Head(s) = s[1] /\ t \in Seq(S)
      /\ \A i \in 1 .. Len(t) : t[i] = s[i + 1]
  OBVIOUS
<1>2. IsFiniteSet(P) /\ IsFiniteSet(Q) /\ Cardinality(P) \in Nat
  BY <1>1, PlacesAreFinite DEF HowMany
<1> HIDE DEF t
<1>3. Cardinality(Q) = Cardinality(R)
  <2> DEFINE f == [i \in Q |-> i + 1]
  <2>1. \A i \in Q : i + 1 \in R
    BY <1>1 DEF Places
  <2>2. \A j \in R : j - 1 \in Q /\ j = (j - 1) + 1
    BY <1>1 DEF Places
  <2>3. \A i, j \in Q : i + 1 = j + 1 => i = j
    BY DEF Places
  <2>4. f \in Bijection(Q, R)
    <3>1. f \in [Q -> R]
      BY <2>1
    <3>2. f \in Injection(Q, R)
      BY <2>3, <3>1 DEF Injection, IsInjective
    <3>3. f \in Surjection(Q, R)
      BY <2>2, <3>1 DEF Surjection
    <3> QED
      BY <3>2, <3>3 DEF Bijection
  <2>5. ExistsBijection(Q, R)
    BY <2>4 DEF ExistsBijection
  <2> QED
    BY <1>2, <2>5, FS_Bijection
<1>4. CASE Head(s) \in C
  <2>1. 1 \in P
    BY <1>1, <1>4 DEF Places
  <2>2. Cardinality(R) = Cardinality(P) - 1
    BY <1>2, <2>1, OneLess
  <2> QED
    BY <1>3, <1>4, <2>2 DEF HowMany, One, t
<1>5. CASE Head(s) \notin C
  <2>1. R = P
    <3>1. 1 \notin P
      BY <1>1, <1>5 DEF Places
    <3> QED
      BY <3>1
  <2>2. Cardinality(R) = Cardinality(P)
    BY <2>1
  <2> QED
    BY <1>2, <1>3, <1>5, <2>2 DEF HowMany, One, t
<1> QED
  BY <1>4, <1>5

(* The lines a counter counts, as pairs of a connection and a number. *)
Lines(f, C) == {n \in C \X (1 .. MaxDrops) : n[2] <= f[n[1]]}

LEMMA LinesAreFinite ==
  ASSUME NEW C \in SUBSET Conns, NEW f
  PROVE  IsFiniteSet(Lines(f, C)) /\ Total(f, C) \in Nat
<1>1. IsFiniteSet(C) /\ IsFiniteSet(1 .. MaxDrops)
  BY DropStatsAssumption, FS_Subset, FS_Interval
<1>2. IsFiniteSet(C \X (1 .. MaxDrops))
  BY <1>1, FS_Product
<1>3. IsFiniteSet(Lines(f, C))
  BY <1>2, FS_Subset DEF Lines
<1> QED
  BY <1>3, FS_CardinalityType DEF Total, Lines

LEMMA OneMoreLine ==
  ASSUME NEW C \in SUBSET Conns, NEW f \in [Conns -> Nat], NEW c \in Conns, f[c] < MaxDrops,
         NEW g, g = [f EXCEPT ![c] = f[c] + 1]
  PROVE  Total(g, C) = Total(f, C) + One(c, C)
<1>1. MaxDrops \in Nat
  BY DropStatsAssumption
<1>2. CASE c \in C
  <2> DEFINE n == <<c, f[c] + 1>>
  <2>1. n \notin Lines(f, C)
    BY DEF Lines
  <2>2. n \in C \X (1 .. MaxDrops) /\ n[1] = c /\ n[2] = f[c] + 1
    BY <1>1, <1>2
  <2>3. \A m \in C \X (1 .. MaxDrops) : m[2] <= g[m[1]] <=> m[2] <= f[m[1]] \/ m = n
    <3> SUFFICES ASSUME NEW d \in C, NEW k \in 1 .. MaxDrops
                 PROVE  k <= g[d] <=> k <= f[d] \/ (d = c /\ k = f[c] + 1)
      OBVIOUS
    <3>1. CASE d = c
      BY <1>1, <3>1
    <3>2. CASE d # c
      BY <1>1, <3>2
    <3> QED
      BY <3>1, <3>2
  <2>4. Lines(g, C) = Lines(f, C) \cup {n}
    BY <2>2, <2>3 DEF Lines
  <2> HIDE DEF n
  <2>5. Cardinality(Lines(g, C)) = Cardinality(Lines(f, C)) + 1
    BY <2>1, <2>4, LinesAreFinite, OneMore
  <2> QED
    BY <1>2, <2>5 DEF Total, Lines, One
<1>3. CASE c \notin C
  <2>1. \A d \in C : g[d] = f[d]
    BY <1>3
  <2>2. Lines(g, C) = Lines(f, C)
    BY <2>1 DEF Lines
  <2>3. Total(f, C) \in Nat
    BY LinesAreFinite
  <2>4. Total(g, C) = Total(f, C)
    BY <2>2 DEF Total, Lines
  <2> QED
    BY <1>3, <2>3, <2>4 DEF One
<1> QED
  BY <1>2, <1>3

(* The bound on all lines is a bound on those of one connection. *)
LEMMA BoundOfOne ==
  ASSUME NEW f \in [Conns -> Nat], Total(f, Conns) < MaxDrops, NEW c \in Conns
  PROVE  f[c] < MaxDrops
<1> SUFFICES ASSUME f[c] >= MaxDrops PROVE FALSE
  BY DropStatsAssumption
<1> DEFINE S == {c} \X (1 .. MaxDrops)
<1>1. MaxDrops \in Nat
  BY DropStatsAssumption
<1>2. S \subseteq Lines(f, Conns)
  BY <1>1 DEF Lines
<1>3. /\ IsFiniteSet({c}) /\ Cardinality({c}) = 1
      /\ IsFiniteSet(1 .. MaxDrops) /\ Cardinality(1 .. MaxDrops) = MaxDrops
  <2>1. IsFiniteSet({c}) /\ Cardinality({c}) = 1
    BY FS_Singleton
  <2>2. /\ IsFiniteSet(1 .. MaxDrops)
        /\ Cardinality(1 .. MaxDrops) = IF 1 > MaxDrops THEN 0 ELSE MaxDrops - 1 + 1
    BY <1>1, FS_Interval
  <2> QED
    BY <1>1, <2>1, <2>2
<1>4. Cardinality(S) = 1 * MaxDrops
  BY <1>3, FS_Product
<1> HIDE DEF S
<1>5. Cardinality(S) <= Cardinality(Lines(f, Conns))
  BY <1>2, LinesAreFinite, FS_Subset
<1>6. Total(f, Conns) = Cardinality(Lines(f, Conns)) /\ Total(f, Conns) \in Nat
  BY LinesAreFinite DEF Total, Lines
<1> QED
  BY <1>1, <1>4, <1>5, <1>6

-------------------------------------------------------------------------------
(* The lines, their updates, and where they are. *)

InHand(C) == {c \in C : pc[c] \in {"source", "emit"}}

Flow ==
  /\ pc \in [Conns -> Steps]
  /\ drops \in [Conns -> Nat] /\ lost \in [Conns -> Nat]
  /\ \A c \in Conns :
       /\ drops[c] <= MaxDrops /\ lost[c] <= drops[c]
       /\ pc[c] \in {"source", "emit"} => lost[c] < drops[c]
  /\ dropUpdates \in Seq(Conns) /\ batch \in Seq(Conns)
  /\ Len(dropUpdates) <= QueueSize

LEMMA FlowStep == Flow /\ [Next]_vars => Flow'
<1> SUFFICES ASSUME Flow, [Next]_vars PROVE Flow'
  OBVIOUS
<1> USE DropStatsAssumption DEF Flow, Steps
<1>1. ASSUME NEW c \in Conns, Open(c) \/ NextLine(c) \/ CountSource(c) \/ EndOfInput(c)
      PROVE  Flow'
  <2>1. UNCHANGED <<drops, lost, dropUpdates, batch>>
    BY <1>1 DEF Open, OpenFor, NextLine, CountSource, EndOfInput, channel, ghosts
  <2>2. PICK p \in Steps : /\ pc' = [pc EXCEPT ![c] = p]
                           /\ p \in {"source", "emit"} => pc[c] \in {"source", "emit"}
    BY <1>1 DEF Open, OpenFor, NextLine, CountSource, EndOfInput
  <2> QED
    BY <2>1, <2>2
<1>2. ASSUME NEW c \in Conns, DropLine(c)
      PROVE  Flow'
  <2>1. /\ drops' = [drops EXCEPT ![c] = drops[c] + 1]
        /\ pc' = [pc EXCEPT ![c] = "source"]
        /\ UNCHANGED <<lost, dropUpdates, batch>>
    BY <1>2 DEF DropLine, channel
  <2>2. drops[c] < MaxDrops
    BY <1>2, BoundOfOne DEF DropLine
  <2> QED
    BY <2>1, <2>2
<1>3. ASSUME NEW c \in Conns, EmitDrop(c)
      PROVE  Flow'
  <2>1. /\ pc[c] = "emit" /\ pc' = [pc EXCEPT ![c] = "top"]
        /\ UNCHANGED <<drops, batch>>
    BY <1>3 DEF EmitDrop, EmitInto
  <2>2. CASE Len(dropUpdates) < QueueSize
    <3>1. dropUpdates' = Append(dropUpdates, c) /\ UNCHANGED lost
      BY <1>3, <2>2 DEF EmitDrop, EmitInto
    <3>2. dropUpdates' \in Seq(Conns) /\ Len(dropUpdates') <= QueueSize
      BY <2>2, <3>1
    <3> QED
      BY <2>1, <3>1, <3>2
  <2>3. CASE ~(Len(dropUpdates) < QueueSize)
    <3>1. lost' = [lost EXCEPT ![c] = lost[c] + 1] /\ UNCHANGED dropUpdates
      BY <1>3, <2>3 DEF EmitDrop, EmitInto
    <3> QED
      BY <2>1, <3>1
  <2> QED
    BY <2>2, <2>3
<1>4. CASE Collect
  BY <1>4 DEF Collect, reading, ghosts
<1>5. CASE FlushStats
  BY <1>5 DEF FlushStats, reading, ghosts
<1>6. ASSUME UNCHANGED <<reading, channel, ghosts>>
      PROVE  Flow'
  BY <1>6 DEF reading, channel, ghosts
<1>7. ASSUME NEW c \in Conns, ApplyError(c)
      PROVE  Flow'
  BY <1>6, <1>7 DEF ApplyError
<1>8. CASE \E l \in Listeners : StartListener(l) \/ StopListener(l)
  BY <1>6, <1>8 DEF StartListener, StopListener
<1>9. CASE ReadListenerStats \/ BuildSnapshot \/ UNCHANGED vars
  BY <1>6, <1>9 DEF ReadListenerStats, BuildSnapshot, vars
<1> QED
  BY <1>1, <1>2, <1>3, <1>4, <1>5, <1>7, <1>8, <1>9 DEF Next, ReadLoop

(* What the engine's counters should have counted of the connections in C. *)
Owed(C) ==
  Total(drops, C) - Total(lost, C) - HowMany(dropUpdates, C) - HowMany(batch, C)
    - Cardinality(InHand(C))

(* Its parts are numbers. *)
LEMMA OwedParts ==
  ASSUME Flow, NEW C \in SUBSET Conns
  PROVE  /\ Total(drops, C) \in Nat /\ Total(lost, C) \in Nat
         /\ HowMany(dropUpdates, C) \in Nat /\ HowMany(batch, C) \in Nat
         /\ IsFiniteSet(InHand(C)) /\ Cardinality(InHand(C)) \in Nat
<1>1. IsFiniteSet(InHand(C)) /\ Cardinality(InHand(C)) \in Nat
  BY FS_Subset, FS_CardinalityType, DropStatsAssumption DEF InHand
<1> QED
  BY <1>1, LinesAreFinite, PlacesAreFinite DEF Flow

(* A connection takes a line into its hand, or lets it go. *)
LEMMA TakenInHand ==
  ASSUME Flow, NEW C \in SUBSET Conns, NEW c \in Conns, pc[c] \notin {"source", "emit"},
         NEW p \in {"source", "emit"}, pc' = [pc EXCEPT ![c] = p]
  PROVE  Cardinality(InHand(C))' = Cardinality(InHand(C)) + One(c, C)
<1>1. IsFiniteSet(InHand(C)) /\ Cardinality(InHand(C)) \in Nat
  BY OwedParts
<1>2. CASE c \in C
  <2>1. c \notin InHand(C) /\ InHand(C)' = InHand(C) \cup {c}
    BY <1>2 DEF InHand, Flow
  <2> QED
    BY <1>1, <1>2, <2>1, OneMore DEF One
<1>3. CASE c \notin C
  <2>1. InHand(C)' = InHand(C)
    BY <1>3 DEF InHand, Flow
  <2> QED
    BY <1>1, <1>3, <2>1 DEF One
<1> QED
  BY <1>2, <1>3

LEMMA LetGo ==
  ASSUME Flow, NEW C \in SUBSET Conns, NEW c \in Conns, pc[c] \in {"source", "emit"},
         NEW p, p \notin {"source", "emit"}, pc' = [pc EXCEPT ![c] = p]
  PROVE  Cardinality(InHand(C))' = Cardinality(InHand(C)) - One(c, C)
<1>1. IsFiniteSet(InHand(C)) /\ Cardinality(InHand(C)) \in Nat
  BY OwedParts
<1>2. CASE c \in C
  <2>1. c \in InHand(C) /\ InHand(C)' = InHand(C) \ {c}
    BY <1>2 DEF InHand, Flow
  <2> QED
    BY <1>1, <1>2, <2>1, OneLess DEF One
<1>3. CASE c \notin C
  <2>1. InHand(C)' = InHand(C)
    BY <1>3 DEF InHand, Flow
  <2> QED
    BY <1>1, <1>3, <2>1 DEF One
<1> QED
  BY <1>2, <1>3

(* Lines and places are counted in the next state as they are in this one. *)
LEMMA OwedNext ==
  ASSUME NEW C
  PROVE  Owed(C)' = Total(drops', C) - Total(lost', C) - HowMany(dropUpdates', C)
                      - HowMany(batch', C) - Cardinality(InHand(C))'
<1>1. Total(drops, C)' = Total(drops', C) /\ Total(lost, C)' = Total(lost', C)
  BY DEF Total
<1>2. /\ HowMany(dropUpdates, C)' = HowMany(dropUpdates', C)
      /\ HowMany(batch, C)' = HowMany(batch', C)
  BY DEF HowMany, Places
<1> QED
  BY <1>1, <1>2 DEF Owed

(* No other step than the flush changes what is owed. *)
LEMMA OwedStays ==
  ASSUME Flow, [Next]_vars, ~FlushStats, NEW C \in SUBSET Conns
  PROVE  Owed(C)' = Owed(C)
<1> USE DropStatsAssumption DEF Flow, Steps
<1>0. /\ Total(drops, C) \in Nat /\ Total(lost, C) \in Nat
      /\ HowMany(dropUpdates, C) \in Nat /\ HowMany(batch, C) \in Nat
      /\ Cardinality(InHand(C)) \in Nat
      /\ \A c : One(c, C) \in {0, 1}
  BY OwedParts DEF One
<1>1. ASSUME NEW c \in Conns, Open(c) \/ NextLine(c) \/ CountSource(c) \/ EndOfInput(c)
      PROVE  Owed(C)' = Owed(C)
  <2>1. UNCHANGED <<drops, lost, dropUpdates, batch>>
    BY <1>1 DEF Open, OpenFor, NextLine, CountSource, EndOfInput, channel, ghosts
  <2>2. PICK p \in Steps : /\ pc' = [pc EXCEPT ![c] = p]
                           /\ p \in {"source", "emit"} <=> pc[c] \in {"source", "emit"}
    BY <1>1 DEF Open, OpenFor, NextLine, CountSource, EndOfInput
  <2>3. InHand(C)' = InHand(C)
    BY <2>2 DEF InHand
  <2> QED
    BY <2>1, <2>3, OwedNext DEF Owed
<1>2. ASSUME NEW c \in Conns, DropLine(c)
      PROVE  Owed(C)' = Owed(C)
  <2>1. /\ drops' = [drops EXCEPT ![c] = drops[c] + 1]
        /\ pc[c] = "reading" /\ pc' = [pc EXCEPT ![c] = "source"]
        /\ UNCHANGED <<lost, dropUpdates, batch>>
    BY <1>2 DEF DropLine, channel
  <2>2. drops[c] < MaxDrops
    BY <1>2, BoundOfOne DEF DropLine
  <2>3. Total(drops', C) = Total(drops, C) + One(c, C)
    BY <2>1, <2>2, OneMoreLine
  <2>4. Cardinality(InHand(C))' = Cardinality(InHand(C)) + One(c, C)
    BY <2>1, TakenInHand
  <2>5. UNCHANGED <<lost, dropUpdates, batch>>
    BY <2>1
  <2> HIDE DEF Flow
  <2> QED
    BY <1>0, <2>3, <2>4, <2>5, OwedNext DEF Owed
<1>3. ASSUME NEW c \in Conns, EmitDrop(c)
      PROVE  Owed(C)' = Owed(C)
  <2>1. /\ pc[c] = "emit" /\ pc' = [pc EXCEPT ![c] = "top"]
        /\ UNCHANGED <<drops, batch>>
    BY <1>3 DEF EmitDrop, EmitInto
  <2>2. Cardinality(InHand(C))' = Cardinality(InHand(C)) - One(c, C)
    BY <2>1, LetGo
  <2>3. CASE Len(dropUpdates) < QueueSize
    <3>1. dropUpdates' = Append(dropUpdates, c) /\ UNCHANGED lost
      BY <1>3, <2>3 DEF EmitDrop, EmitInto
    <3>2. HowMany(dropUpdates', C) = HowMany(dropUpdates, C) + One(c, C)
      BY <3>1, OneAppended
    <3>3. UNCHANGED <<drops, lost, batch>>
      BY <2>1, <3>1
    <3> HIDE DEF Flow
    <3> QED
      BY <1>0, <2>2, <3>2, <3>3, OwedNext DEF Owed
  <2>4. CASE ~(Len(dropUpdates) < QueueSize)
    <3>1. lost' = [lost EXCEPT ![c] = lost[c] + 1] /\ UNCHANGED dropUpdates
      BY <1>3, <2>4 DEF EmitDrop, EmitInto
    <3>2. lost[c] < MaxDrops
      BY <2>1
    <3>3. Total(lost', C) = Total(lost, C) + One(c, C)
      BY <3>1, <3>2, OneMoreLine
    <3>4. UNCHANGED <<drops, dropUpdates, batch>>
      BY <2>1, <3>1
    <3> HIDE DEF Flow
    <3> QED
      BY <1>0, <2>2, <3>3, <3>4, OwedNext DEF Owed
  <2> QED
    BY <2>3, <2>4
<1>4. CASE Collect
  <2>1. /\ dropUpdates # << >>
        /\ batch' = Append(batch, Head(dropUpdates))
        /\ dropUpdates' = Tail(dropUpdates)
        /\ UNCHANGED <<pc, drops, lost>>
    BY <1>4 DEF Collect, reading, ghosts
  <2>2. Head(dropUpdates) \in Conns
    BY <2>1
  <2>3. HowMany(dropUpdates', C) = HowMany(dropUpdates, C) - One(Head(dropUpdates), C)
    BY <2>1, OneTaken
  <2>4. HowMany(batch', C) = HowMany(batch, C) + One(Head(dropUpdates), C)
    BY <2>1, <2>2, OneAppended
  <2>5. InHand(C)' = InHand(C)
    BY <2>1 DEF InHand
  <2>6. UNCHANGED <<drops, lost>>
    BY <2>1
  <2>7. One(Head(dropUpdates), C) \in {0, 1}
    BY <1>0
  <2> HIDE DEF Flow
  <2> QED
    BY <1>0, <2>3, <2>4, <2>5, <2>6, <2>7, OwedNext DEF Owed
<1>5. ASSUME UNCHANGED <<reading, channel, ghosts>>
      PROVE  Owed(C)' = Owed(C)
  BY <1>5 DEF Owed, InHand, reading, channel, ghosts
<1>6. ASSUME NEW c \in Conns, ApplyError(c)
      PROVE  Owed(C)' = Owed(C)
  BY <1>5, <1>6 DEF ApplyError
<1>7. CASE \E l \in Listeners : StartListener(l) \/ StopListener(l)
  BY <1>5, <1>7 DEF StartListener, StopListener
<1>8. CASE ReadListenerStats \/ BuildSnapshot \/ UNCHANGED vars
  BY <1>5, <1>8 DEF ReadListenerStats, BuildSnapshot, vars
<1> QED
  BY <1>1, <1>2, <1>3, <1>4, <1>6, <1>7, <1>8 DEF Next, ReadLoop

LEMMA OwedByFlush ==
  ASSUME Flow, FlushStats, NEW C \in SUBSET Conns
  PROVE  Owed(C)' = Owed(C) + HowMany(batch, C)
<1>1. batch' = << >> /\ UNCHANGED <<pc, drops, lost, dropUpdates>>
  BY DEF FlushStats, reading, ghosts
<1>2. HowMany(batch', C) = 0
  BY <1>1, NoneInEmpty
<1>3. InHand(C)' = InHand(C)
  BY <1>1 DEF InHand
<1> QED
  BY <1>1, <1>2, <1>3, OwedParts, OwedNext DEF Owed

-------------------------------------------------------------------------------
(* The engine's counters. *)

LEMMA TallyAt ==
  ASSUME NEW f, NEW s, NEW k
  PROVE  At(Tally(f, s), k) = At(f, k) + Cardinality({i \in DOMAIN s : s[i] = k})
<1> DEFINE n == Cardinality({i \in DOMAIN s : s[i] = k})
<1>1. CASE k \in Range(s) \/ k \in DOMAIN f
  BY <1>1 DEF At, Tally
<1>2. CASE k \notin Range(s) /\ k \notin DOMAIN f
  <2>1. {i \in DOMAIN s : s[i] = k} = {}
    BY <1>2 DEF Range
  <2>2. n = 0
    BY <2>1, FS_EmptySet
  <2>3. At(Tally(f, s), k) = 0 /\ At(f, k) = 0
    BY <1>2 DEF At, Tally
  <2> QED
    BY <2>2, <2>3
<1> QED
  BY <1>1, <1>2

(* What the flush adds for one key: the updates of the connections it stands for. *)
LEMMA TallyOfBatch ==
  ASSUME NEW f, NEW g, NEW k, NEW s \in Seq(Conns)
  PROVE  At(Tally(f, Mapped(g, s)), k) = At(f, k) + HowMany(s, {c \in Conns : g[c] = k})
<1> DEFINE t == Mapped(g, s)
<1>1. DOMAIN t = 1 .. Len(s) /\ \A i \in 1 .. Len(s) : t[i] = g[s[i]] /\ s[i] \in Conns
  BY DEF Mapped
<1> HIDE DEF t
<1>2. {i \in DOMAIN t : t[i] = k} = Places(s, {c \in Conns : g[c] = k})
  BY <1>1 DEF Places
<1> QED
  BY <1>2, TallyAt DEF HowMany, t

OfListener(l) == {c \in Conns : ListenerOf[c] = l}
OfSource(k) == {c \in Conns : SourceOf[c] = k}
OfShard(n) == {c \in Conns : ShardOf[SourceOf[c]] = n}

AccountInv ==
  /\ Flow
  /\ dropped = Owed(Conns)
  /\ \A l : At(listenerDrops, l) = Owed(OfListener(l))
  /\ \A k : At(sourceDrops, k) = Owed(OfSource(k))
  /\ \A n : At(shardDrops, n) = Owed(OfShard(n))

LEMMA InitFlow == Init => Flow
BY DropStatsAssumption DEF Init, Flow, Steps

LEMMA InitAccountInv == Init => AccountInv
<1> SUFFICES ASSUME Init PROVE AccountInv
  OBVIOUS
<1>1. ASSUME NEW C \in SUBSET Conns
      PROVE  Owed(C) = 0
  <2>1. \A f : (f = [c \in Conns |-> 0]) => Lines(f, C) = {}
    BY DropStatsAssumption DEF Lines
  <2>2. Total(drops, C) = 0 /\ Total(lost, C) = 0
    BY <2>1, FS_EmptySet DEF Init, Total, Lines
  <2>3. InHand(C) = {}
    BY DEF Init, InHand
  <2>4. Cardinality(InHand(C)) = 0
    BY <2>3, FS_EmptySet
  <2>5. HowMany(dropUpdates, C) = 0 /\ HowMany(batch, C) = 0
    BY NoneInEmpty DEF Init
  <2> QED
    BY <2>2, <2>4, <2>5 DEF Owed
<1>2. /\ \A l : OfListener(l) \in SUBSET Conns /\ OfSource(l) \in SUBSET Conns
      /\ \A n : OfShard(n) \in SUBSET Conns
  BY DEF OfListener, OfSource, OfShard
<1>3. \A k : At(listenerDrops, k) = 0 /\ At(sourceDrops, k) = 0 /\ At(shardDrops, k) = 0
  BY DEF Init, At
<1> QED
  BY <1>1, <1>2, <1>3, InitFlow DEF AccountInv, Init

LEMMA AccountStep == AccountInv /\ [Next]_vars => AccountInv'
<1> SUFFICES ASSUME AccountInv, [Next]_vars PROVE AccountInv'
  OBVIOUS
<1>1. Flow /\ Flow'
  BY FlowStep DEF AccountInv
<1>2. \A l : OfListener(l) \in SUBSET Conns /\ OfSource(l) \in SUBSET Conns /\ OfShard(l) \in SUBSET Conns
  BY DEF OfListener, OfSource, OfShard
<1>3. CASE ~FlushStats
  <2>1. UNCHANGED counts
    BY <1>3 DEF Next, ReadLoop, StartListener, StopListener, Open, OpenFor, NextLine, DropLine,
                CountSource, EmitDrop, EmitInto, EndOfInput, ApplyError, Collect,
                ReadListenerStats, BuildSnapshot, vars
  <2>2. \A C \in SUBSET Conns : Owed(C)' = Owed(C)
    BY <1>1, <1>3, OwedStays
  <2>3. dropped' = Owed(Conns)'
    BY <2>1, <2>2 DEF AccountInv, counts
  <2>4. \A l : At(listenerDrops', l) = Owed(OfListener(l))'
    BY <1>2, <2>1, <2>2 DEF AccountInv, counts
  <2>5. \A k : At(sourceDrops', k) = Owed(OfSource(k))'
    BY <1>2, <2>1, <2>2 DEF AccountInv, counts
  <2>6. \A n : At(shardDrops', n) = Owed(OfShard(n))'
    BY <1>2, <2>1, <2>2 DEF AccountInv, counts
  <2> QED
    BY <1>1, <2>3, <2>4, <2>5, <2>6 DEF AccountInv, At
<1>4. CASE FlushStats
  <2>1. /\ dropped' = dropped + Len(batch)
        /\ listenerDrops' = Tally(listenerDrops, Mapped(ListenerOf, batch))
        /\ sourceDrops' = Tally(sourceDrops, Mapped(SourceOf, batch))
        /\ shardDrops' = Tally(shardDrops, Mapped(ShardOf, Mapped(SourceOf, batch)))
    BY <1>4 DEF FlushStats, CountBatch
  <2>2. \A C \in SUBSET Conns : Owed(C)' = Owed(C) + HowMany(batch, C)
    BY <1>1, <1>4, OwedByFlush
  <2>3. dropped' = Owed(Conns)'
    <3>1. Places(batch, Conns) = 1 .. Len(batch) /\ Len(batch) \in Nat
      BY <1>1 DEF Flow, Places
    <3>2. HowMany(batch, Conns) = Len(batch)
      <4>1. Cardinality(1 .. Len(batch)) = IF 1 > Len(batch) THEN 0 ELSE Len(batch) - 1 + 1
        BY <3>1, FS_Interval
      <4> QED
        BY <3>1, <4>1 DEF HowMany
    <3> QED
      BY <2>1, <2>2, <3>2 DEF AccountInv
  <2>4. \A l : At(listenerDrops', l) = Owed(OfListener(l))'
    <3>1. \A l : At(listenerDrops', l) = At(listenerDrops, l) + HowMany(batch, OfListener(l))
      BY <1>1, <2>1, TallyOfBatch DEF Flow, OfListener
    <3> QED
      BY <1>2, <2>2, <3>1 DEF AccountInv
  <2>5. \A k : At(sourceDrops', k) = Owed(OfSource(k))'
    <3>1. \A k : At(sourceDrops', k) = At(sourceDrops, k) + HowMany(batch, OfSource(k))
      BY <1>1, <2>1, TallyOfBatch DEF Flow, OfSource
    <3> QED
      BY <1>2, <2>2, <3>1 DEF AccountInv
  <2>6. \A n : At(shardDrops', n) = Owed(OfShard(n))'
    <3> DEFINE h == [c \in Conns |-> ShardOf[SourceOf[c]]]
    <3>1. Mapped(ShardOf, Mapped(SourceOf, batch)) = Mapped(h, batch)
      <4>1. DOMAIN batch = 1 .. Len(batch) /\ \A i \in 1 .. Len(batch) : batch[i] \in Conns
        BY <1>1 DEF Flow
      <4> QED
        BY <4>1 DEF Mapped
    <3>2. \A n : {c \in Conns : h[c] = n} = OfShard(n)
      BY DEF OfShard
    <3> HIDE DEF h
    <3>3. \A n : At(shardDrops', n) = At(shardDrops, n) + HowMany(batch, {c \in Conns : h[c] = n})
      BY <1>1, <2>1, <3>1, TallyOfBatch DEF Flow
    <3>4. \A n : At(shardDrops', n) = At(shardDrops, n) + HowMany(batch, OfShard(n))
      BY <3>2, <3>3
    <3> QED
      BY <1>2, <2>2, <3>4 DEF AccountInv
  <2> QED
    BY <1>1, <2>3, <2>4, <2>5, <2>6 DEF AccountInv, At
<1> QED
  BY <1>3, <1>4

LEMMA AccountInvHolds == Spec => []AccountInv
BY InitAccountInv, AccountStep, PTL DEF Spec

(* Every line that a read loop dropped is counted once in each of the engine's
   four counters, or its update is on its way there, or the update was lost with
   a full channel, whatever the engine does in between (server.go:161-167,
   engine.go:147-157, stats.go:49-66). *)
THEOREM DropsAccounted == Spec => []EveryDropAccounted
<1>1. AccountInv => EveryDropAccounted
  <2> SUFFICES ASSUME AccountInv PROVE EveryDropAccounted
    OBVIOUS
  <2>1. DOMAIN dropUpdates = 1 .. Len(dropUpdates) /\ DOMAIN batch = 1 .. Len(batch)
    BY DEF AccountInv, Flow
  <2>2. ASSUME NEW C \in SUBSET Conns, NEW n, n = Owed(C)
        PROVE  Accounts(n, C)
    <3>1. Underway(C) = HowMany(dropUpdates, C) + HowMany(batch, C) + Cardinality(InHand(C))
      BY <2>1 DEF Underway, HowMany, Places, InHand
    <3> QED
      BY <2>2, <3>1, OwedParts DEF AccountInv, Owed, Accounts
  <2> QED
    BY <2>2 DEF AccountInv, EveryDropAccounted, OfListener, OfSource, OfShard
<1> QED
  BY <1>1, AccountInvHolds, PTL

-------------------------------------------------------------------------------
(* The tables.  What one counts never falls, and no key leaves it. *)

Numbers(f) == \A k \in DOMAIN f : f[k] \in Nat

Grows(f, g) == DOMAIN f \subseteq DOMAIN g /\ \A k : At(f, k) <= At(g, k)

LEMMA AtIsNumber == ASSUME NEW f, Numbers(f), NEW k PROVE At(f, k) \in Nat
BY DEF Numbers, At

LEMMA GrowsByNothing == ASSUME NEW f, Numbers(f) PROVE Grows(f, f)
BY AtIsNumber DEF Grows

LEMMA TallyGrows ==
  ASSUME NEW f, Numbers(f), NEW s, IsFiniteSet(DOMAIN s)
  PROVE  /\ Numbers(Tally(f, s)) /\ Grows(f, Tally(f, s))
         /\ DOMAIN Tally(f, s) = DOMAIN f \cup Range(s)
<1> DEFINE t == Tally(f, s)
           n(k) == Cardinality({i \in DOMAIN s : s[i] = k})
<1>1. ASSUME NEW k
      PROVE  At(f, k) \in Nat /\ n(k) \in Nat
  <2>1. IsFiniteSet({i \in DOMAIN s : s[i] = k})
    BY FS_Subset
  <2> QED
    BY <2>1, FS_CardinalityType, AtIsNumber
<1>2. DOMAIN t = DOMAIN f \cup Range(s)
  BY DEF Tally
<1>3. \A k \in DOMAIN t : t[k] = At(f, k) + n(k)
  BY DEF Tally
<1>4. \A k : At(t, k) = At(f, k) + n(k)
  BY TallyAt
<1> HIDE DEF t, n
<1>5. \A k \in DOMAIN t : t[k] \in Nat
  BY <1>1, <1>3
<1>6. \A k : At(f, k) <= At(t, k)
  BY <1>1, <1>4
<1> QED
  BY <1>2, <1>5, <1>6 DEF Grows, Numbers, t

LEMMA OneKey == ASSUME NEW k PROVE IsFiniteSet(DOMAIN <<k>>) /\ Range(<<k>>) = {k}
<1>1. DOMAIN <<k>> = 1 .. 1
  OBVIOUS
<1>2. IsFiniteSet(1 .. 1)
  <2>1. 1 .. 1 = {1}
    OBVIOUS
  <2> QED
    BY <2>1, FS_Singleton
<1>3. Range(<<k>>) = {k}
  BY DEF Range
<1> QED
  BY <1>1, <1>2, <1>3

Opened == {SourceOf[c] : c \in {d \in Conns : pc[d] # "new"}}

(* Who listens, and which sources have been seen. *)
Tables ==
  /\ starts \in [Listeners -> 0 .. MaxStarts]
  /\ current \in [Listeners -> Nat]
  /\ \A l \in Listeners : current[l] \in {0, starts[l]}
  /\ of \in [Conns -> 0 .. MaxStarts]
  /\ \A c \in Conns : pc[c] # "new" => of[c] # 0
  /\ DOMAIN listenerDropped \subseteq Listeners \X (1 .. MaxStarts)
  /\ Numbers(listenerDropped)
  /\ sourceDropped \in [Opened -> Nat]

Keys ==
  /\ \A i \in 1 .. Len(dropUpdates) : pc[dropUpdates[i]] # "new"
  /\ \A i \in 1 .. Len(batch) : pc[batch[i]] # "new"
  /\ Numbers(listenerDrops) /\ Numbers(sourceDrops)
  /\ Numbers(listenerErrors) /\ Numbers(sourceErrors)
  /\ DOMAIN listenerDrops \cup DOMAIN listenerErrors \subseteq Listeners
  /\ DOMAIN sourceDrops \cup DOMAIN sourceErrors \subseteq Opened

LEMMA TablesStep == Flow /\ Tables /\ [Next]_vars => Tables' /\ Opened \subseteq Opened'
<1> SUFFICES ASSUME Flow, Tables, [Next]_vars PROVE Tables' /\ Opened \subseteq Opened'
  OBVIOUS
<1> USE DropStatsAssumption
<1>0. pc \in [Conns -> Steps]
  BY DEF Flow
<1>1. ASSUME NEW l \in Listeners, StartListener(l)
      PROVE  Tables' /\ Opened \subseteq Opened'
  <2>1. /\ starts[l] < MaxStarts
        /\ starts' = [starts EXCEPT ![l] = starts[l] + 1]
        /\ current' = [current EXCEPT ![l] = starts[l] + 1] /\ current[l] = 0
        /\ UNCHANGED <<pc, of, listenerDropped, sourceDropped>>
    BY <1>1 DEF StartListener, reading, server
  <2> QED
    BY <2>1 DEF Tables, Opened
<1>2. ASSUME NEW l \in Listeners, StopListener(l)
      PROVE  Tables' /\ Opened \subseteq Opened'
  <2>1. /\ current' = [current EXCEPT ![l] = 0]
        /\ UNCHANGED <<starts, pc, of, listenerDropped, sourceDropped>>
    BY <1>2 DEF StopListener, reading, server
  <2> QED
    BY <2>1 DEF Tables, Opened
<1>3. ASSUME NEW c \in Conns, Open(c)
      PROVE  Tables' /\ Opened \subseteq Opened'
  <2> DEFINE n == current[ListenerOf[c]]
  <2>1. /\ n # 0
        /\ of' = [of EXCEPT ![c] = n]
        /\ pc' = [pc EXCEPT ![c] = "top"]
        /\ sourceDropped' = [k \in DOMAIN sourceDropped \cup {SourceOf[c]} |-> At(sourceDropped, k)]
        /\ UNCHANGED <<listenerDropped, starts, current>>
    BY <1>3 DEF Open, OpenFor, listening
  <2>2. n \in 1 .. MaxStarts
    BY <2>1 DEF Tables
  <2> HIDE DEF n
  <2>3. \A d \in Conns : pc'[d] # "new" <=> (pc[d] # "new" \/ d = c)
    BY <1>0, <2>1
  <2>4. Opened' = Opened \cup {SourceOf[c]}
    BY <2>3 DEF Opened
  <2>5. sourceDropped' \in [Opened' -> Nat]
    <3>1. Numbers(sourceDropped) /\ DOMAIN sourceDropped = Opened
      BY DEF Tables, Numbers
    <3>2. \A k : At(sourceDropped, k) \in Nat
      BY <3>1, AtIsNumber
    <3> QED
      BY <2>1, <2>4, <3>1, <3>2
  <2>6. of' \in [Conns -> 0 .. MaxStarts] /\ \A d \in Conns : pc'[d] # "new" => of'[d] # 0
    BY <2>1, <2>2, <2>3 DEF Tables
  <2> QED
    BY <2>1, <2>4, <2>5, <2>6 DEF Tables
<1>4. ASSUME NEW c \in Conns, pc[c] # "new", NEW p \in Steps \ {"new"}, pc' = [pc EXCEPT ![c] = p]
      PROVE  /\ Opened' = Opened
             /\ \A d \in Conns : pc'[d] # "new" <=> pc[d] # "new"
  BY <1>0, <1>4 DEF Opened
<1>5. ASSUME NEW c \in Conns, NextLine(c) \/ EndOfInput(c) \/ EmitDrop(c)
      PROVE  Tables' /\ Opened \subseteq Opened'
  <2>1. UNCHANGED <<of, starts, current, listenerDropped, sourceDropped>>
    BY <1>5 DEF NextLine, EndOfInput, EmitDrop, EmitInto, listening, server
  <2>2. pc[c] # "new" /\ \E p \in Steps \ {"new"} : pc' = [pc EXCEPT ![c] = p]
    BY <1>5 DEF NextLine, EndOfInput, EmitDrop, EmitInto, Steps
  <2> QED
    BY <1>4, <2>1, <2>2 DEF Tables
<1>6. ASSUME NEW c \in Conns, DropLine(c)
      PROVE  Tables' /\ Opened \subseteq Opened'
  <2> DEFINE k == <<ListenerOf[c], of[c]>>
  <2>1. /\ pc[c] = "reading" /\ pc' = [pc EXCEPT ![c] = "source"]
        /\ listenerDropped' = Tally(listenerDropped, <<k>>)
        /\ UNCHANGED <<of, starts, current, sourceDropped>>
    BY <1>6 DEF DropLine, listening
  <2>2. k \in Listeners \X (1 .. MaxStarts)
    BY <2>1 DEF Tables
  <2> HIDE DEF k
  <2>3. IsFiniteSet(DOMAIN <<k>>) /\ Range(<<k>>) = {k}
    BY OneKey
  <2>4. /\ Numbers(listenerDropped')
        /\ DOMAIN listenerDropped' = DOMAIN listenerDropped \cup {k}
    <3>1. /\ Numbers(Tally(listenerDropped, <<k>>))
          /\ DOMAIN Tally(listenerDropped, <<k>>) = DOMAIN listenerDropped \cup Range(<<k>>)
      BY <2>3, TallyGrows DEF Tables
    <3> QED
      BY <2>1, <2>3, <3>1
  <2>5. Opened' = Opened /\ \A d \in Conns : pc'[d] # "new" <=> pc[d] # "new"
    BY <1>4, <2>1 DEF Steps
  <2>6. Numbers(listenerDropped)'
    BY <2>4 DEF Numbers
  <2> QED
    BY <2>1, <2>2, <2>4, <2>5, <2>6 DEF Tables
<1>7. ASSUME NEW c \in Conns, CountSource(c)
      PROVE  Tables' /\ Opened \subseteq Opened'
  <2>1. /\ pc[c] = "source" /\ pc' = [pc EXCEPT ![c] = "emit"]
        /\ sourceDropped' = [sourceDropped EXCEPT ![SourceOf[c]] = @ + 1]
        /\ UNCHANGED <<of, starts, current, listenerDropped>>
    BY <1>7 DEF CountSource, listening
  <2>2. SourceOf[c] \in Opened
    BY <2>1 DEF Opened
  <2>3. sourceDropped' \in [Opened -> Nat]
    BY <2>1, <2>2 DEF Tables
  <2>4. Opened' = Opened /\ \A d \in Conns : pc'[d] # "new" <=> pc[d] # "new"
    BY <1>4, <2>1 DEF Steps
  <2> QED
    BY <2>1, <2>3, <2>4 DEF Tables
<1>8. ASSUME UNCHANGED <<starts, current, reading, server>>
      PROVE  Tables' /\ Opened \subseteq Opened'
  BY <1>8 DEF Tables, Opened, Numbers, reading, server
<1>9. CASE \/ \E c \in Conns : ApplyError(c)
           \/ Collect \/ FlushStats \/ ReadListenerStats \/ BuildSnapshot \/ UNCHANGED vars
  BY <1>8, <1>9 DEF ApplyError, Collect, FlushStats, ReadListenerStats, BuildSnapshot, vars, listening
<1> QED
  BY <1>1, <1>2, <1>3, <1>5, <1>6, <1>7, <1>9 DEF Next, ReadLoop

(* The keys of the tables that the flush and the errors write. *)
LEMMA FlushKeys ==
  ASSUME Flow, Keys, FlushStats
  PROVE  /\ Numbers(listenerDrops') /\ Grows(listenerDrops, listenerDrops')
         /\ Numbers(sourceDrops') /\ Grows(sourceDrops, sourceDrops')
         /\ DOMAIN listenerDrops' \subseteq Listeners
         /\ DOMAIN sourceDrops' \subseteq Opened
<1> DEFINE s == Mapped(ListenerOf, batch)
           t == Mapped(SourceOf, batch)
<1>1. listenerDrops' = Tally(listenerDrops, s) /\ sourceDrops' = Tally(sourceDrops, t)
  BY DEF FlushStats, CountBatch
<1>2. DOMAIN batch = 1 .. Len(batch) /\ Len(batch) \in Nat /\ \A i \in 1 .. Len(batch) : batch[i] \in Conns
  BY DEF Flow
<1>3. DOMAIN s = 1 .. Len(batch) /\ DOMAIN t = 1 .. Len(batch)
  BY <1>2 DEF Mapped
<1>4. IsFiniteSet(DOMAIN s) /\ IsFiniteSet(DOMAIN t)
  BY <1>2, <1>3, FS_Interval
<1>5. Range(s) \subseteq Listeners /\ Range(t) \subseteq Opened
  <2>1. \A i \in 1 .. Len(batch) : s[i] \in Listeners /\ t[i] \in Opened
    BY <1>2, DropStatsAssumption DEF Mapped, Keys, Opened
  <2> QED
    BY <1>3, <2>1 DEF Range
<1> HIDE DEF s, t
<1>6. /\ Numbers(Tally(listenerDrops, s)) /\ Grows(listenerDrops, Tally(listenerDrops, s))
      /\ DOMAIN Tally(listenerDrops, s) = DOMAIN listenerDrops \cup Range(s)
  BY <1>4, TallyGrows DEF Keys
<1>7. /\ Numbers(Tally(sourceDrops, t)) /\ Grows(sourceDrops, Tally(sourceDrops, t))
      /\ DOMAIN Tally(sourceDrops, t) = DOMAIN sourceDrops \cup Range(t)
  BY <1>4, TallyGrows DEF Keys
<1> QED
  BY <1>1, <1>5, <1>6, <1>7 DEF Keys

LEMMA ErrorKeys ==
  ASSUME Keys, NEW c \in Conns, ApplyError(c)
  PROVE  /\ Numbers(listenerErrors') /\ Grows(listenerErrors, listenerErrors')
         /\ Numbers(sourceErrors') /\ Grows(sourceErrors, sourceErrors')
         /\ DOMAIN listenerErrors' \subseteq Listeners
         /\ DOMAIN sourceErrors' \subseteq Opened
<1> DEFINE l == ListenerOf[c]
           k == SourceOf[c]
<1>1. /\ sourceErrors' = Tally(sourceErrors, <<k>>)
      /\ listenerErrors' = Tally(listenerErrors, <<l>>)
      /\ pc[c] # "new"
  BY DEF ApplyError
<1>2. l \in Listeners /\ k \in Opened
  BY <1>1, DropStatsAssumption DEF Opened
<1> HIDE DEF l, k
<1>3. /\ Numbers(Tally(listenerErrors, <<l>>)) /\ Grows(listenerErrors, Tally(listenerErrors, <<l>>))
      /\ DOMAIN Tally(listenerErrors, <<l>>) = DOMAIN listenerErrors \cup {l}
  BY OneKey, TallyGrows DEF Keys
<1>4. /\ Numbers(Tally(sourceErrors, <<k>>)) /\ Grows(sourceErrors, Tally(sourceErrors, <<k>>))
      /\ DOMAIN Tally(sourceErrors, <<k>>) = DOMAIN sourceErrors \cup {k}
  BY OneKey, TallyGrows DEF Keys
<1> QED
  BY <1>1, <1>2, <1>3, <1>4 DEF Keys

(* Nothing else writes them. *)
LEMMA KeysGrow ==
  Flow /\ Keys /\ [Next]_vars =>
    /\ Grows(listenerDrops, listenerDrops') /\ Grows(sourceDrops, sourceDrops')
    /\ Grows(listenerErrors, listenerErrors') /\ Grows(sourceErrors, sourceErrors')
    /\ Numbers(listenerDrops') /\ Numbers(sourceDrops')
    /\ Numbers(listenerErrors') /\ Numbers(sourceErrors')
    /\ DOMAIN listenerDrops' \cup DOMAIN listenerErrors' \subseteq Listeners
    /\ DOMAIN sourceDrops' \cup DOMAIN sourceErrors' \subseteq Opened
<1> SUFFICES ASSUME Flow, Keys, [Next]_vars
             PROVE  /\ Grows(listenerDrops, listenerDrops') /\ Grows(sourceDrops, sourceDrops')
                    /\ Grows(listenerErrors, listenerErrors') /\ Grows(sourceErrors, sourceErrors')
                    /\ Numbers(listenerDrops') /\ Numbers(sourceDrops')
                    /\ Numbers(listenerErrors') /\ Numbers(sourceErrors')
                    /\ DOMAIN listenerDrops' \cup DOMAIN listenerErrors' \subseteq Listeners
                    /\ DOMAIN sourceDrops' \cup DOMAIN sourceErrors' \subseteq Opened
  OBVIOUS
<1>1. /\ Grows(listenerDrops, listenerDrops) /\ Grows(sourceDrops, sourceDrops)
      /\ Grows(listenerErrors, listenerErrors) /\ Grows(sourceErrors, sourceErrors)
  BY GrowsByNothing DEF Keys
<1>2. CASE FlushStats
  <2>1. UNCHANGED errors
    BY <1>2 DEF FlushStats
  <2> QED
    BY <1>1, <1>2, <2>1, FlushKeys DEF Keys, errors
<1>3. ASSUME NEW c \in Conns, ApplyError(c)
      PROVE  /\ Grows(listenerDrops, listenerDrops') /\ Grows(sourceDrops, sourceDrops')
             /\ Grows(listenerErrors, listenerErrors') /\ Grows(sourceErrors, sourceErrors')
             /\ Numbers(listenerDrops') /\ Numbers(sourceDrops')
             /\ Numbers(listenerErrors') /\ Numbers(sourceErrors')
             /\ DOMAIN listenerDrops' \cup DOMAIN listenerErrors' \subseteq Listeners
             /\ DOMAIN sourceDrops' \cup DOMAIN sourceErrors' \subseteq Opened
  <2>1. UNCHANGED counts
    BY <1>3 DEF ApplyError
  <2> QED
    BY <1>1, <1>3, <2>1, ErrorKeys DEF Keys, counts
<1>4. CASE UNCHANGED <<counts, errors>>
  BY <1>1, <1>4 DEF Keys, counts, errors
<1>5. ASSUME ~FlushStats, ~\E c \in Conns : ApplyError(c)
      PROVE  UNCHANGED <<counts, errors>>
  BY <1>5 DEF Next, ReadLoop, StartListener, StopListener, Open, OpenFor, NextLine, DropLine,
              CountSource, EmitDrop, EmitInto, EndOfInput, Collect, ReadListenerStats,
              BuildSnapshot, vars
<1> QED
  BY <1>2, <1>3, <1>4, <1>5

(* What was in a sequence is in it still, and one element more. *)
LEMMA AfterAppend ==
  ASSUME NEW S, NEW s \in Seq(S), NEW e \in S, NEW t, t = Append(s, e)
  PROVE  \A i \in 1 .. Len(t) : t[i] = e \/ (i \in 1 .. Len(s) /\ t[i] = s[i])
OBVIOUS

LEMMA KeysStep == Flow /\ Tables /\ Keys /\ [Next]_vars => Keys'
<1> SUFFICES ASSUME Flow, Tables, Keys, [Next]_vars PROVE Keys'
  OBVIOUS
<1>1. \A c \in Conns : pc[c] # "new" => pc'[c] # "new"
  <2> USE DEF Flow, Steps
  <2>1. CASE UNCHANGED pc
    BY <2>1
  <2>2. ASSUME NEW c \in Conns, ReadLoop(c)
        PROVE  \E p \in Steps \ {"new"} : pc' = [pc EXCEPT ![c] = p]
    BY <2>2 DEF ReadLoop, Open, OpenFor, NextLine, DropLine, CountSource, EmitDrop, EmitInto, EndOfInput
  <2>3. ASSUME NEW c \in Conns, ReadLoop(c)
        PROVE  \A d \in Conns : pc[d] # "new" => pc'[d] # "new"
    BY <2>2, <2>3
  <2>4. ASSUME ~\E c \in Conns : ReadLoop(c)
        PROVE  UNCHANGED pc
    BY <2>4 DEF Next, StartListener, StopListener, ApplyError, Collect, FlushStats,
                ReadListenerStats, BuildSnapshot, vars, reading
  <2> QED
    BY <2>1, <2>3, <2>4
<1>2. /\ \A i \in 1 .. Len(dropUpdates') : pc'[dropUpdates'[i]] # "new"
      /\ \A i \in 1 .. Len(batch') : pc'[batch'[i]] # "new"
  <2> USE DEF Flow, Keys
  <2>1. CASE UNCHANGED channel
    BY <1>1, <2>1 DEF channel
  <2>2. ASSUME NEW c \in Conns, EmitDrop(c)
        PROVE  /\ \A i \in 1 .. Len(dropUpdates') : pc'[dropUpdates'[i]] # "new"
               /\ \A i \in 1 .. Len(batch') : pc'[batch'[i]] # "new"
    <3>1. UNCHANGED batch /\ pc[c] # "new"
      BY <2>2 DEF EmitDrop, EmitInto
    <3>2. CASE UNCHANGED dropUpdates
      BY <1>1, <3>1, <3>2
    <3>3. CASE dropUpdates' = Append(dropUpdates, c)
      <4>1. \A i \in 1 .. Len(dropUpdates') :
              dropUpdates'[i] = c \/ (i \in 1 .. Len(dropUpdates) /\ dropUpdates'[i] = dropUpdates[i])
        BY <3>3, AfterAppend
      <4>2. \A i \in 1 .. Len(dropUpdates) : dropUpdates[i] \in Conns /\ pc'[dropUpdates[i]] # "new"
        BY <1>1
      <4>3. \A i \in 1 .. Len(batch) : batch[i] \in Conns /\ pc'[batch[i]] # "new"
        BY <1>1
      <4> QED
        BY <1>1, <3>1, <4>1, <4>2, <4>3
    <3> QED
      BY <2>2, <3>2, <3>3 DEF EmitDrop, EmitInto
  <2>3. CASE Collect
    <3>1. /\ dropUpdates # << >>
          /\ batch' = Append(batch, Head(dropUpdates))
          /\ dropUpdates' = Tail(dropUpdates)
      BY <2>3 DEF Collect
    <3>2. Head(dropUpdates) \in Conns /\ pc[Head(dropUpdates)] # "new"
      BY <3>1
    <3>3. \A i \in 1 .. Len(dropUpdates') :
            i + 1 \in 1 .. Len(dropUpdates) /\ dropUpdates'[i] = dropUpdates[i + 1]
      BY <3>1
    <3>4. \A i \in 1 .. Len(batch') :
            batch'[i] = Head(dropUpdates) \/ (i \in 1 .. Len(batch) /\ batch'[i] = batch[i])
      BY <3>1, <3>2, AfterAppend
    <3>5. \A i \in 1 .. Len(dropUpdates) : dropUpdates[i] \in Conns /\ pc'[dropUpdates[i]] # "new"
      BY <1>1
    <3>6. \A i \in 1 .. Len(batch) : batch[i] \in Conns /\ pc'[batch[i]] # "new"
      BY <1>1
    <3>7. pc'[Head(dropUpdates)] # "new"
      BY <1>1, <3>2
    <3> HIDE DEF Flow, Keys
    <3> QED
      BY <3>3, <3>4, <3>5, <3>6, <3>7
  <2>4. CASE FlushStats
    BY <1>1, <2>4 DEF FlushStats
  <2>5. ASSUME ~(\E c \in Conns : EmitDrop(c)), ~Collect, ~FlushStats
        PROVE  UNCHANGED channel
    BY <2>5 DEF Next, ReadLoop, StartListener, StopListener, Open, OpenFor, NextLine, DropLine,
                CountSource, EndOfInput, ApplyError, ReadListenerStats, BuildSnapshot, vars
  <2> QED
    BY <2>1, <2>2, <2>3, <2>4, <2>5
<1>3. Opened \subseteq Opened'
  BY TablesStep
<1> QED
  BY <1>2, <1>3, KeysGrow DEF Keys, Numbers

-------------------------------------------------------------------------------
(* What the server's tables say of the listeners there are, and what a snapshot
   has read of it. *)

Current ==
  [l \in {k \in Listeners : current[k] # 0} |-> At(listenerDropped, <<l, current[l]>>)]

Reading ==
  /\ at \in {"select", "sources"}
  /\ at = "select" => read = << >>
  /\ at = "sources" => DOMAIN read = DOMAIN Current /\ Numbers(read) /\ Grows(read, Current)

Now == IF at = "select" THEN Current ELSE read

(* A snapshot shows no more than the tables hold by now. *)
Behind(part, base, counted, wrong) ==
  \A k \in DOMAIN part :
    /\ part[k].dropped \in Nat
    /\ k \in DOMAIN base \cup DOMAIN counted \cup DOMAIN wrong
    /\ part[k].dropped <= At(base, k) + At(counted, k)

StillThere == [l \in DOMAIN shown.listeners \ stopped |-> shown.listeners[l]]

ShownInv ==
  shown # None =>
    /\ Behind(shown.sources, sourceDropped, sourceDrops, sourceErrors)
    /\ Behind(StillThere, Now, listenerDrops, listenerErrors)

LEMMA ServerGrows ==
  Flow /\ Tables /\ [Next]_vars =>
    Grows(sourceDropped, sourceDropped') /\ Grows(listenerDropped, listenerDropped')
<1> SUFFICES ASSUME Flow, Tables, [Next]_vars
             PROVE  Grows(sourceDropped, sourceDropped') /\ Grows(listenerDropped, listenerDropped')
  OBVIOUS
<1>1. Numbers(sourceDropped) /\ Numbers(listenerDropped)
  BY DEF Tables, Numbers
<1>2. Grows(sourceDropped, sourceDropped) /\ Grows(listenerDropped, listenerDropped)
  BY <1>1, GrowsByNothing
<1>3. CASE UNCHANGED server
  BY <1>2, <1>3 DEF server
<1>4. ASSUME NEW c \in Conns, Open(c)
      PROVE  Grows(sourceDropped, sourceDropped') /\ Grows(listenerDropped, listenerDropped')
  <2>1. /\ sourceDropped' = [k \in DOMAIN sourceDropped \cup {SourceOf[c]} |-> At(sourceDropped, k)]
        /\ UNCHANGED listenerDropped
    BY <1>4 DEF Open, OpenFor
  <2>2. \A k : At(sourceDropped, k) \in Nat
    BY <1>1, AtIsNumber
  <2> QED
    BY <1>2, <2>1, <2>2 DEF Grows, At
<1>5. ASSUME NEW c \in Conns, DropLine(c)
      PROVE  Grows(sourceDropped, sourceDropped') /\ Grows(listenerDropped, listenerDropped')
  <2>1. /\ listenerDropped' = Tally(listenerDropped, << <<ListenerOf[c], of[c]>> >>)
        /\ UNCHANGED sourceDropped
    BY <1>5 DEF DropLine
  <2>2. IsFiniteSet(DOMAIN << <<ListenerOf[c], of[c]>> >>)
    BY OneKey
  <2> QED
    BY <1>1, <1>2, <2>1, <2>2, TallyGrows
<1>6. ASSUME NEW c \in Conns, CountSource(c)
      PROVE  Grows(sourceDropped, sourceDropped') /\ Grows(listenerDropped, listenerDropped')
  <2>1. /\ sourceDropped' = [sourceDropped EXCEPT ![SourceOf[c]] = @ + 1]
        /\ UNCHANGED listenerDropped
    BY <1>6 DEF CountSource
  <2>2. DOMAIN sourceDropped' = DOMAIN sourceDropped
    BY <2>1
  <2>3. ASSUME NEW k
        PROVE  At(sourceDropped, k) <= At(sourceDropped', k)
    <3>1. CASE k \in DOMAIN sourceDropped
      BY <1>1, <2>1, <2>2, <3>1 DEF At, Numbers
    <3>2. CASE k \notin DOMAIN sourceDropped
      BY <2>2, <3>2 DEF At
    <3> QED
      BY <3>1, <3>2
  <2> QED
    BY <1>2, <2>1, <2>2, <2>3 DEF Grows
<1>7. ASSUME ~\E c \in Conns : Open(c) \/ DropLine(c) \/ CountSource(c)
      PROVE  UNCHANGED server
  BY <1>7 DEF Next, ReadLoop, StartListener, StopListener, NextLine, EmitDrop, EmitInto,
              EndOfInput, ApplyError, Collect, FlushStats, ReadListenerStats, BuildSnapshot, vars
<1> QED
  BY <1>3, <1>4, <1>5, <1>6, <1>7

LEMMA CurrentIsNumbers == ASSUME Tables PROVE Numbers(Current)
<1>1. \A k : At(listenerDropped, k) \in Nat
  BY AtIsNumber DEF Tables
<1> QED
  BY <1>1 DEF Numbers, Current

(* As long as no listener starts or stops, the counters read only grow. *)
LEMMA CurrentGrows ==
  ASSUME Tables, Tables', Grows(listenerDropped, listenerDropped'), UNCHANGED current
  PROVE  DOMAIN Current' = DOMAIN Current /\ Grows(Current, Current')
<1>1. DOMAIN Current' = DOMAIN Current
  BY DEF Current
<1>2. ASSUME NEW l
      PROVE  At(Current, l) <= At(Current', l)
  <2>1. CASE l \in DOMAIN Current
    <3>1. At(Current, l) = At(listenerDropped, <<l, current[l]>>)
      BY <2>1 DEF At, Current
    <3>2. At(Current', l) = At(listenerDropped', <<l, current[l]>>)
      BY <1>1, <2>1 DEF At, Current
    <3> QED
      BY <3>1, <3>2 DEF Grows
  <2>2. CASE l \notin DOMAIN Current
    BY <1>1, <2>2 DEF At
  <2> QED
    BY <2>1, <2>2
<1> QED
  BY <1>1, <1>2 DEF Grows

LEMMA GrowsOn ==
  ASSUME NEW f, NEW g, NEW h, Numbers(f), Numbers(g), Numbers(h), Grows(f, g), Grows(g, h)
  PROVE  Grows(f, h)
<1>1. \A k : At(f, k) \in Nat /\ At(g, k) \in Nat /\ At(h, k) \in Nat
  BY AtIsNumber
<1> QED
  BY <1>1 DEF Grows

LEMMA ReadingStep == Flow /\ Tables /\ Reading /\ [Next]_vars => Reading'
<1> SUFFICES ASSUME Flow, Tables, Reading, [Next]_vars PROVE Reading'
  OBVIOUS
<1>1. Tables' /\ Grows(listenerDropped, listenerDropped')
  BY TablesStep, ServerGrows
<1>2. Numbers(Current) /\ Numbers(Current')
  <2>1. \A k : At(listenerDropped', k) \in Nat
    BY <1>1, AtIsNumber DEF Tables, Numbers
  <2>2. Numbers(Current')
    BY <2>1 DEF Numbers, Current, At
  <2> QED
    BY <2>2, CurrentIsNumbers
<1>3. CASE ReadListenerStats
  <2>1. at' = "sources" /\ read' = Current /\ UNCHANGED <<current, listenerDropped>>
    BY <1>3 DEF ReadListenerStats, Current, listening, server
  <2>2. Current' = Current
    BY <2>1 DEF Current
  <2>3. Numbers(read') /\ Grows(read', Current') /\ DOMAIN read' = DOMAIN Current'
    BY <1>2, <2>1, <2>2, GrowsByNothing
  <2> QED
    BY <2>1, <2>3 DEF Reading, Numbers, Grows
<1>4. CASE BuildSnapshot
  BY <1>4 DEF BuildSnapshot, Reading
<1>5. CASE UNCHANGED <<at, read>> /\ at = "select"
  BY <1>5 DEF Reading
<1>6. CASE UNCHANGED <<at, read, current>>
  <2>1. CASE at = "select"
    BY <1>6, <2>1 DEF Reading
  <2>2. CASE at = "sources"
    <3>1. DOMAIN Current' = DOMAIN Current /\ Grows(Current, Current')
      BY <1>1, <1>6, CurrentGrows
    <3>2. Grows(read, Current')
      BY <1>2, <2>2, <3>1, GrowsOn DEF Reading
    <3> QED
      BY <1>6, <2>2, <3>1, <3>2 DEF Reading, Numbers, Grows
  <2> QED
    BY <2>1, <2>2 DEF Reading
<1>7. ASSUME ~ReadListenerStats, ~BuildSnapshot
      PROVE  UNCHANGED <<at, read>> /\ (at = "select" \/ UNCHANGED current)
  BY <1>7 DEF Next, ReadLoop, StartListener, StopListener, Open, OpenFor, NextLine, DropLine,
              CountSource, EmitDrop, EmitInto, EndOfInput, ApplyError, Collect, FlushStats,
              vars, snapshot, listening
<1> QED
  BY <1>3, <1>4, <1>5, <1>6, <1>7

-------------------------------------------------------------------------------
(* What holds initially. *)

LEMMA InitTables == Init => Tables /\ Keys /\ Reading /\ ShownInv
<1> SUFFICES ASSUME Init PROVE Tables /\ Keys /\ Reading /\ ShownInv
  OBVIOUS
<1>1. DOMAIN << >> = {} /\ Len(<< >>) = 0
  OBVIOUS
<1>2. Opened = {}
  BY DEF Init, Opened
<1>3. Tables
  BY <1>1, <1>2, DropStatsAssumption DEF Init, Tables, Numbers, Opened
<1>4. Keys
  BY <1>1 DEF Init, Keys, Numbers
<1>5. Reading
  BY DEF Init, Reading
<1>6. ShownInv
  BY DEF Init, ShownInv
<1> QED
  BY <1>3, <1>4, <1>5, <1>6

-------------------------------------------------------------------------------
(* A snapshot stays behind the tables until the next one is built from them. *)

(* Without a listener's stop, what there is to read of it only grows. *)
LEMMA NowGrows ==
  Flow /\ Tables /\ Reading /\ [Next]_vars /\ ~BuildSnapshot =>
    /\ stopped \subseteq stopped'
    /\ \A l : l \notin stopped' =>
         (l \in DOMAIN Now => l \in DOMAIN Now') /\ At(Now, l) <= At(Now', l)
<1> SUFFICES ASSUME Flow, Tables, Reading, [Next]_vars, ~BuildSnapshot
             PROVE  /\ stopped \subseteq stopped'
                    /\ \A l : l \notin stopped' =>
                         (l \in DOMAIN Now => l \in DOMAIN Now') /\ At(Now, l) <= At(Now', l)
  OBVIOUS
<1> DEFINE Goal == /\ stopped \subseteq stopped'
                   /\ \A l : l \notin stopped' =>
                        (l \in DOMAIN Now => l \in DOMAIN Now') /\ At(Now, l) <= At(Now', l)
<1>1. Tables' /\ Grows(listenerDropped, listenerDropped')
  BY TablesStep, ServerGrows
<1>2. Numbers(Current)
  BY CurrentIsNumbers
<1>3. \A k : At(listenerDropped, k) \in Nat /\ At(listenerDropped', k) \in Nat
  BY <1>1, AtIsNumber DEF Tables, Numbers
<1>4. \A l : At(Current, l) \in Nat
  BY <1>2, AtIsNumber
<1>5. CASE ReadListenerStats
  <2>1. /\ at = "select" /\ at' = "sources" /\ read' = Current /\ stopped' = stopped
    BY <1>5 DEF ReadListenerStats, Current, listening
  <2>2. Now = Current /\ Now' = Current
    BY <2>1 DEF Now
  <2> QED
    BY <1>4, <2>1, <2>2
<1>6. ASSUME NEW k \in Listeners, StartListener(k)
      PROVE  Goal
  <2>1. /\ at = "select" /\ at' = "select" /\ stopped' = stopped
        /\ current[k] = 0 /\ starts[k] \in Nat
        /\ current' = [current EXCEPT ![k] = starts[k] + 1]
        /\ UNCHANGED listenerDropped
    BY <1>6, DropStatsAssumption DEF StartListener, snapshot, server, Tables
  <2>2. Now = Current /\ Now' = Current'
    BY <2>1 DEF Now
  <2>3. DOMAIN Current \subseteq Listeners \ {k} /\ DOMAIN Current \subseteq DOMAIN Current'
    BY <2>1 DEF Current, Tables
  <2>4. \A l \in DOMAIN Current : Current'[l] = Current[l]
    BY <2>1, <2>3 DEF Current, Tables
  <2>5. \A l : At(Current, l) <= At(Current', l)
    <3>1. \A l \in DOMAIN Current : At(Current', l) = At(Current, l)
      BY <2>3, <2>4 DEF At
    <3>2. \A l : l \notin DOMAIN Current => At(Current, l) = 0
      BY DEF At
    <3>3. \A l : At(Current', l) \in Nat
      BY <1>3 DEF At, Current
    <3> QED
      BY <1>4, <3>1, <3>2, <3>3
  <2> QED
    BY <2>1, <2>2, <2>3, <2>5
<1>7. ASSUME NEW k \in Listeners, StopListener(k)
      PROVE  Goal
  <2>1. /\ at = "select" /\ at' = "select" /\ stopped' = stopped \cup {k}
        /\ current' = [current EXCEPT ![k] = 0]
        /\ UNCHANGED listenerDropped
    BY <1>7 DEF StopListener, snapshot, server
  <2>2. Now = Current /\ Now' = Current'
    BY <2>1 DEF Now
  <2>3. DOMAIN Current' = DOMAIN Current \ {k}
    BY <2>1 DEF Current, Tables
  <2>4. \A l \in DOMAIN Current' : Current'[l] = Current[l]
    BY <2>1, <2>3 DEF Current, Tables
  <2>5. \A l : l # k => At(Current', l) = At(Current, l)
    BY <2>3, <2>4 DEF At
  <2> QED
    BY <1>4, <2>1, <2>2, <2>3, <2>5
<1>8. CASE UNCHANGED <<at, read, current, stopped>>
  <2>1. CASE at = "select"
    <3>1. Now = Current /\ Now' = Current'
      BY <1>8, <2>1 DEF Now
    <3>2. DOMAIN Current' = DOMAIN Current /\ Grows(Current, Current')
      BY <1>1, <1>8, CurrentGrows
    <3> QED
      BY <1>8, <3>1, <3>2 DEF Grows
  <2>2. CASE at = "sources"
    <3>1. Now = read /\ Now' = read
      BY <1>8, <2>2 DEF Now
    <3>2. \A l : At(read, l) \in Nat
      BY <2>2, AtIsNumber DEF Reading
    <3> QED
      BY <1>8, <3>1, <3>2
  <2> QED
    BY <2>1, <2>2 DEF Reading
<1>9. ASSUME ~ReadListenerStats, ~\E k \in Listeners : StartListener(k) \/ StopListener(k)
      PROVE  UNCHANGED <<at, read, current, stopped>>
  BY <1>9 DEF Next, ReadLoop, Open, OpenFor, NextLine, DropLine, CountSource, EmitDrop, EmitInto,
              EndOfInput, ApplyError, Collect, FlushStats, vars, snapshot, listening
<1> QED
  BY <1>5, <1>6, <1>7, <1>8, <1>9

LEMMA MergedIsBehind ==
  ASSUME NEW base, NEW later, NEW counted, NEW wrong,
         Numbers(base), Numbers(later), Numbers(counted), Grows(base, later)
  PROVE  Behind(Merged(base, counted, wrong), later, counted, wrong)
<1>1. \A k : At(base, k) \in Nat /\ At(later, k) \in Nat /\ At(counted, k) \in Nat
  BY AtIsNumber
<1> DEFINE part == Merged(base, counted, wrong)
<1>2. DOMAIN part = DOMAIN base \cup DOMAIN counted \cup DOMAIN wrong
  BY DEF Merged
<1>3. \A k \in DOMAIN part : part[k].dropped = At(base, k) + At(counted, k)
  BY DEF Merged
<1>4. DOMAIN base \subseteq DOMAIN later /\ \A k : At(base, k) <= At(later, k)
  BY DEF Grows
<1> HIDE DEF part
<1> SUFFICES ASSUME NEW k \in DOMAIN part
             PROVE  /\ part[k].dropped \in Nat
                    /\ k \in DOMAIN later \cup DOMAIN counted \cup DOMAIN wrong
                    /\ part[k].dropped <= At(later, k) + At(counted, k)
  BY DEF Behind, part
<1>5. k \in DOMAIN later \cup DOMAIN counted \cup DOMAIN wrong
  BY <1>2, <1>4
<1>6. /\ part[k].dropped = At(base, k) + At(counted, k) /\ At(base, k) <= At(later, k)
      /\ At(base, k) \in Nat /\ At(later, k) \in Nat /\ At(counted, k) \in Nat
  BY <1>1, <1>3, <1>4
<1> QED
  BY <1>5, <1>6

LEMMA StaysBehind ==
  ASSUME NEW part, NEW rest, NEW base, NEW later, NEW counted, NEW next, NEW wrong, NEW worse,
         Behind(part, base, counted, wrong),
         DOMAIN rest \subseteq DOMAIN part, \A k \in DOMAIN rest : rest[k] = part[k],
         Numbers(base), Numbers(later), Numbers(counted), Grows(counted, next), Numbers(next),
         DOMAIN wrong \subseteq DOMAIN worse,
         \A k \in DOMAIN rest :
           (k \in DOMAIN base => k \in DOMAIN later) /\ At(base, k) <= At(later, k)
  PROVE  Behind(rest, later, next, worse)
<1>1. \A k : /\ At(base, k) \in Nat /\ At(later, k) \in Nat
             /\ At(counted, k) \in Nat /\ At(next, k) \in Nat
  BY AtIsNumber
<1>2. DOMAIN counted \subseteq DOMAIN next /\ \A k : At(counted, k) <= At(next, k)
  BY DEF Grows
<1> SUFFICES ASSUME NEW k \in DOMAIN rest
             PROVE  /\ rest[k].dropped \in Nat
                    /\ k \in DOMAIN later \cup DOMAIN next \cup DOMAIN worse
                    /\ rest[k].dropped <= At(later, k) + At(next, k)
  BY DEF Behind
<1>3. /\ rest[k].dropped \in Nat
      /\ k \in DOMAIN base \cup DOMAIN counted \cup DOMAIN wrong
      /\ rest[k].dropped <= At(base, k) + At(counted, k)
  BY DEF Behind
<1>4. /\ At(base, k) <= At(later, k) /\ At(counted, k) <= At(next, k)
      /\ At(base, k) \in Nat /\ At(later, k) \in Nat
      /\ At(counted, k) \in Nat /\ At(next, k) \in Nat
  BY <1>1, <1>2
<1>5. k \in DOMAIN later \cup DOMAIN next \cup DOMAIN worse
  BY <1>2, <1>3
<1> QED
  BY <1>3, <1>4, <1>5

LEMMA NowIsNumbers == ASSUME Tables, Reading PROVE Numbers(Now)
BY CurrentIsNumbers DEF Now, Reading

LEMMA ShownStep ==
  Flow /\ Tables /\ Keys /\ Reading /\ ShownInv /\ [Next]_vars => ShownInv'
<1> SUFFICES ASSUME Flow, Tables, Keys, Reading, ShownInv, [Next]_vars, shown' # None
             PROVE  /\ Behind(shown'.sources, sourceDropped', sourceDrops', sourceErrors')
                    /\ Behind(StillThere', Now', listenerDrops', listenerErrors')
  BY DEF ShownInv, Behind, At
<1>1. /\ Numbers(sourceDropped) /\ Numbers(listenerDropped)
      /\ Numbers(listenerDrops) /\ Numbers(sourceDrops)
  BY DEF Tables, Keys, Numbers
<1>2. /\ Grows(sourceDropped, sourceDropped')
      /\ Grows(listenerDrops, listenerDrops') /\ Grows(sourceDrops, sourceDrops')
      /\ Grows(listenerErrors, listenerErrors') /\ Grows(sourceErrors, sourceErrors')
      /\ Numbers(listenerDrops') /\ Numbers(sourceDrops')
  BY ServerGrows, KeysGrow
<1>3. Tables' /\ Reading'
  BY TablesStep, ReadingStep
<1>4. Numbers(sourceDropped')
  BY <1>3 DEF Tables, Numbers
<1>5. Numbers(Now) /\ Numbers(Now')
  <2>1. Numbers(Current')
    <3>1. \A k : At(listenerDropped', k) \in Nat
      BY <1>3, AtIsNumber DEF Tables, Numbers
    <3> QED
      BY <3>1 DEF Numbers, Current, At
  <2>2. at' = "sources" => Numbers(read')
    BY <1>3 DEF Reading, Numbers
  <2>3. Now' = IF at' = "select" THEN Current' ELSE read'
    BY DEF Now
  <2>4. at' \in {"select", "sources"}
    BY <1>3 DEF Reading
  <2> QED
    BY <2>1, <2>2, <2>3, <2>4, NowIsNumbers
<1>6. CASE BuildSnapshot
  <2>1. /\ at = "sources" /\ at' = "select" /\ stopped' = {}
        /\ shown'.sources = Merged(sourceDropped, sourceDrops, sourceErrors)
        /\ shown'.listeners = Merged(read, listenerDrops, listenerErrors)
        /\ UNCHANGED <<current, listenerDropped, sourceDropped, listenerDrops, sourceDrops,
                       listenerErrors, sourceErrors>>
    BY <1>6 DEF BuildSnapshot, server, counts, errors
  <2>2. Behind(Merged(sourceDropped, sourceDrops, sourceErrors),
               sourceDropped, sourceDrops, sourceErrors)
    BY <1>1, GrowsByNothing, MergedIsBehind
  <2>3. Behind(Merged(read, listenerDrops, listenerErrors), Current, listenerDrops, listenerErrors)
    BY <1>1, <2>1, CurrentIsNumbers, MergedIsBehind DEF Reading
  <2>4. Now' = Current
    BY <2>1 DEF Now, Current
  <2>5. /\ DOMAIN StillThere' = DOMAIN shown'.listeners
        /\ \A k \in DOMAIN StillThere' : StillThere'[k] = shown'.listeners[k]
    BY <2>1 DEF StillThere
  <2>6. Behind(StillThere', Current, listenerDrops, listenerErrors)
    BY <2>1, <2>3, <2>5 DEF Behind
  <2> QED
    BY <2>1, <2>2, <2>4, <2>6
<1>7. CASE ~BuildSnapshot
  <2>1. shown' = shown
    BY <1>7 DEF Next, ReadLoop, StartListener, StopListener, Open, OpenFor, NextLine, DropLine,
                CountSource, EmitDrop, EmitInto, EndOfInput, ApplyError, Collect, FlushStats,
                ReadListenerStats, vars, snapshot
  <2>2. /\ Behind(shown.sources, sourceDropped, sourceDrops, sourceErrors)
        /\ Behind(StillThere, Now, listenerDrops, listenerErrors)
    BY <2>1 DEF ShownInv
  <2>3. Behind(shown.sources, sourceDropped', sourceDrops', sourceErrors')
    <3>1. \A k \in DOMAIN shown.sources :
            (k \in DOMAIN sourceDropped => k \in DOMAIN sourceDropped')
              /\ At(sourceDropped, k) <= At(sourceDropped', k)
      BY <1>2 DEF Grows
    <3>2. DOMAIN sourceErrors \subseteq DOMAIN sourceErrors'
      BY <1>2 DEF Grows
    <3> QED
      BY <1>1, <1>2, <1>4, <2>2, <3>1, <3>2, StaysBehind
  <2>4. /\ stopped \subseteq stopped'
        /\ \A l : l \notin stopped' =>
             (l \in DOMAIN Now => l \in DOMAIN Now') /\ At(Now, l) <= At(Now', l)
    BY <1>7, NowGrows
  <2>5. /\ DOMAIN StillThere' \subseteq DOMAIN StillThere
        /\ \A k \in DOMAIN StillThere' : StillThere'[k] = StillThere[k] /\ k \notin stopped'
    BY <2>1, <2>4 DEF StillThere
  <2>6. Behind(StillThere', Now', listenerDrops', listenerErrors')
    <3>1. \A k \in DOMAIN StillThere' :
            (k \in DOMAIN Now => k \in DOMAIN Now') /\ At(Now, k) <= At(Now', k)
      BY <2>4, <2>5
    <3>2. DOMAIN listenerErrors \subseteq DOMAIN listenerErrors'
      BY <1>2 DEF Grows
    <3> QED
      BY <1>1, <1>2, <1>5, <2>2, <2>5, <3>1, <3>2, StaysBehind
  <2> QED
    BY <2>1, <2>3, <2>6
<1> QED
  BY <1>6, <1>7

(* The inductive invariant of the tables and the snapshots. *)
ShowInv == Flow /\ Tables /\ Keys /\ Reading /\ ShownInv

LEMMA ShowInvHolds == Spec => []ShowInv
<1>1. Init => ShowInv
  BY InitFlow, InitTables DEF ShowInv
<1>2. ShowInv /\ [Next]_vars => ShowInv'
  BY FlowStep, TablesStep, KeysStep, ReadingStep, ShownStep DEF ShowInv
<1> QED
  BY <1>1, <1>2, PTL DEF Spec

(* Every start, counter and queue stays within its type, the channel of drop
   updates within its capacity; a source has an entry in the server's table once a
   connection of it was opened, and in the engine's only then (server.go:96-167,
   engine.go:147-157). *)
THEOREM TypeCorrect == Spec => []TypeOK
<1>1. ShowInv => TypeOK
  <2> SUFFICES ASSUME ShowInv PROVE TypeOK
    OBVIOUS
  <2> USE DEF ShowInv
  <2>1. pc \in [Conns -> {"new", "top", "reading", "source", "emit", "closed"}]
    BY DEF Flow, Steps
  <2>2. DOMAIN sourceDropped = {SourceOf[c] : c \in {d \in Conns : pc[d] # "new"}}
    BY DEF Tables, Opened
  <2>3. Len(dropUpdates) <= QueueSize
    BY DEF Flow
  <2>4. Range(dropUpdates) \cup Range(batch) \subseteq Conns
    BY DEF Flow, Range
  <2>5. DOMAIN listenerErrors \cup DOMAIN listenerDrops \cup DOMAIN read \subseteq Listeners
    <3>1. DOMAIN << >> = {}
      OBVIOUS
    <3>2. DOMAIN read \subseteq Listeners
      BY <3>1 DEF Reading, Current
    <3> QED
      BY <3>2 DEF Keys
  <2>6. DOMAIN sourceErrors \cup DOMAIN sourceDrops \subseteq DOMAIN sourceDropped
    BY DEF Keys, Tables
  <2> QED
    BY <2>1, <2>2, <2>3, <2>4, <2>5, <2>6 DEF TypeOK, Tables, Reading
<1> QED
  BY <1>1, ShowInvHolds, PTL

(* From one snapshot to the next the drops a source or a listener is shown with never
   fall, whichever connections and listeners come and go; only a listener that was
   stopped in between begins again (server.go:199-262; snapshot.go:119-159). *)
THEOREM ShownHolds == Spec => ShownNeverFalls
<1> DEFINE Mono == shown # None =>
                     /\ NeverFalls(shown.sources, shown'.sources)
                     /\ NeverFalls([l \in DOMAIN shown.listeners \ stopped |-> shown.listeners[l]],
                                   shown'.listeners)
<1>1. ShowInv /\ [Next]_vars => [Mono]_vars
  <2> SUFFICES ASSUME ShowInv, Next, shown # None
               PROVE  /\ NeverFalls(shown.sources, shown'.sources)
                      /\ NeverFalls(StillThere, shown'.listeners)
    BY DEF StillThere
  <2>1. /\ Behind(shown.sources, sourceDropped, sourceDrops, sourceErrors)
        /\ Behind(StillThere, Now, listenerDrops, listenerErrors)
    BY DEF ShowInv, ShownInv
  <2>2. CASE BuildSnapshot
    <3>1. /\ Now = read
          /\ shown'.sources = Merged(sourceDropped, sourceDrops, sourceErrors)
          /\ shown'.listeners = Merged(read, listenerDrops, listenerErrors)
      BY <2>2 DEF BuildSnapshot, Now
    <3>2. ASSUME NEW part, NEW base, NEW counted, NEW wrong, Behind(part, base, counted, wrong)
          PROVE  NeverFalls(part, Merged(base, counted, wrong))
      <4>1. \A k \in DOMAIN part : part[k].dropped <= At(base, k) + At(counted, k)
        BY <3>2 DEF Behind
      <4>2. \A k \in DOMAIN part : k \in DOMAIN Merged(base, counted, wrong)
        BY <3>2 DEF Behind, Merged
      <4>3. \A k \in DOMAIN Merged(base, counted, wrong) :
              Merged(base, counted, wrong)[k].dropped = At(base, k) + At(counted, k)
        BY DEF Merged
      <4>4. ASSUME NEW k \in DOMAIN part
            PROVE  Merged(base, counted, wrong)[k].dropped >= part[k].dropped
        BY <4>1, <4>2, <4>3
      <4> QED
        BY <4>2, <4>4 DEF NeverFalls
    <3> QED
      BY <2>1, <3>1, <3>2
  <2>3. CASE ~BuildSnapshot
    <3>1. shown' = shown
      BY <2>3 DEF Next, ReadLoop, StartListener, StopListener, Open, OpenFor, NextLine, DropLine,
                  CountSource, EmitDrop, EmitInto, EndOfInput, ApplyError, Collect, FlushStats,
                  ReadListenerStats, snapshot
    <3>2. \A k \in DOMAIN shown.sources : shown.sources[k].dropped \in Nat
      BY <2>1 DEF Behind
    <3>3. \A k \in DOMAIN StillThere :
            /\ StillThere[k].dropped \in Nat
            /\ k \in DOMAIN shown.listeners /\ shown.listeners[k] = StillThere[k]
      BY <2>1 DEF Behind, StillThere
    <3> QED
      BY <3>1, <3>2, <3>3 DEF NeverFalls
  <2> QED
    BY <2>2, <2>3
<1> QED
  BY <1>1, ShowInvHolds, PTL DEF Spec, ShownNeverFalls
===============================================================================

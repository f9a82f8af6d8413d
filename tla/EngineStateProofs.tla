--------------------------- MODULE EngineStateProofs ---------------------------
(***************************************************************************)
(* Proofs about EngineState: the cache, the bound on the sources, types, the *)
(* settings of a source, the two copies of a line, and that the engine's      *)
(* buffers are bounded logs, for every set of hosts, lines and filters and    *)
(* every limit.                                                              *)
(***************************************************************************)
EXTENDS EngineState, FiniteSetTheorems, TLAPS

(* The buffers count versions, and the filter in use is one a user can set. *)
Versioned ==
  /\ globalBuf.version \in Nat
  /\ \A k \in DOMAIN perSource : perSource[k].version \in Nat
  /\ filters \in Filters

(* The cache was made from its filter's buffer as it is, or as it was at a lower
   version. *)
CacheOf(f) ==
  /\ cache.version \in Nat
  /\ cache.version <= BufferOf(f).version
  /\ cache.version = BufferOf(f).version => cache.lines = Filtered(BufferOf(f).lines, f)

CacheInv == cache.filters # None => CacheOf(cache.filters)

(* Every step either leaves a buffer alone or increases its version. *)
Grows(f) ==
  /\ BufferOf(f).version \in Nat
  /\ BufferOf(f)'.version \in Nat
  /\ BufferOf(f)' = BufferOf(f) \/ BufferOf(f).version < BufferOf(f)'.version

-------------------------------------------------------------------------------
LEMMA AppendGrows ==
  ASSUME Versioned, NEW k, NEW line, AppendLine(k, line), NEW f
  PROVE  Grows(f) /\ globalBuf'.version \in Nat
         /\ \A j \in DOMAIN perSource' : perSource'[j].version \in Nat
<1>1. globalBuf'.version = globalBuf.version + 1
  BY DEF AppendLine, Appended
<1>2. Buffer(k).version \in Nat
  BY DEF Versioned, Buffer, EmptyBuffer
<1>3. /\ DOMAIN perSource' = DOMAIN perSource \cup {k}
      /\ perSource'[k].version = Buffer(k).version + 1
      /\ \A j \in DOMAIN perSource \ {k} : perSource'[j] = perSource[j]
  BY DEF AppendLine, Appended, With
<1>4. \A j \in DOMAIN perSource' : perSource'[j].version \in Nat
  BY <1>2, <1>3 DEF Versioned
<1>5. CASE f.source = AnySource
  BY <1>1, <1>4, <1>5 DEF Grows, BufferOf, Versioned
<1>6. CASE f.source # AnySource /\ f.source = k
  BY <1>1, <1>2, <1>3, <1>4, <1>6 DEF Grows, BufferOf, Buffer, Versioned
<1>7. CASE f.source # AnySource /\ f.source # k
  BY <1>1, <1>3, <1>4, <1>7 DEF Grows, BufferOf, Buffer, Versioned, EmptyBuffer
<1> QED
  BY <1>1, <1>4, <1>5, <1>6, <1>7 DEF Versioned

LEMMA ClearGrows ==
  ASSUME Versioned, NEW k, ClearSource(k), NEW f
  PROVE  Grows(f) /\ \A j \in DOMAIN perSource' : perSource'[j].version \in Nat
<1>1. /\ DOMAIN perSource' = DOMAIN perSource
      /\ k \in DOMAIN perSource
      /\ perSource'[k].version = perSource[k].version + 1
      /\ \A j \in DOMAIN perSource \ {k} : perSource'[j] = perSource[j]
      /\ globalBuf' = globalBuf
  BY DEF ClearSource
<1> QED
  BY <1>1 DEF Grows, BufferOf, Buffer, Versioned, EmptyBuffer

LEMMA CacheSurvives ==
  ASSUME CacheInv, UNCHANGED cache, \A f : Grows(f)
  PROVE  CacheInv'
<1>1. SUFFICES ASSUME cache.filters # None PROVE CacheOf(cache.filters)'
  BY DEF CacheInv
<1>2. Grows(cache.filters) /\ CacheOf(cache.filters)
  BY <1>1 DEF CacheInv
<1> QED
  BY <1>2 DEF CacheOf, Grows, BufferOf, Buffer

LEMMA CacheStep == Versioned /\ CacheInv /\ [Next]_vars => (Versioned /\ CacheInv)'
<1> SUFFICES ASSUME Versioned, CacheInv, [Next]_vars
             PROVE  Versioned' /\ CacheInv'
  OBVIOUS
<1> USE EngineStateAssumption
<1>1. ASSUME NEW k \in Keys, NEW line \in Lines, ApplyEvent(k, line)
      PROVE  Versioned' /\ CacheInv'
  <2>1. PICK j : AppendLine(j, line)
    BY <1>1 DEF ApplyEvent, Seen, Overflows
  <2>2. UNCHANGED <<filters, cache>>
    BY <1>1 DEF ApplyEvent
  <2>3. Versioned'
    BY <2>1, <2>2, AppendGrows DEF Versioned
  <2>4. CacheInv'
    BY <2>1, <2>2, AppendGrows, CacheSurvives
  <2> QED
    BY <2>3, <2>4
<1>2. ASSUME NEW f \in Filters, SetFilters(f)
      PROVE  Versioned' /\ CacheInv'
  <2>1. UNCHANGED <<perSource, globalBuf, cache>> /\ filters' \in Filters
    BY <1>2 DEF SetFilters, buffers
  <2>2. \A g : Grows(g)
    BY <2>1 DEF Grows, BufferOf, Buffer, EmptyBuffer, Versioned
  <2> QED
    BY <2>1, <2>2, CacheSurvives DEF Versioned
<1>3. ASSUME UNCHANGED <<perSource, globalBuf, filters, cache>>
      PROVE  Versioned' /\ CacheInv'
  <2>1. \A g : Grows(g)
    BY <1>3 DEF Grows, BufferOf, Buffer, EmptyBuffer, Versioned
  <2> QED
    BY <1>3, <2>1, CacheSurvives DEF Versioned
<1>4. ASSUME NEW k \in Places, ClearSource(k)
      PROVE  Versioned' /\ CacheInv'
  <2>1. UNCHANGED <<globalBuf, filters, cache>>
    BY <1>4 DEF ClearSource
  <2>2. Versioned'
    BY <1>4, <2>1, ClearGrows DEF Versioned
  <2> QED
    BY <1>4, <2>1, <2>2, ClearGrows, CacheSurvives
<1>5. ASSUME BuildSnapshot
      PROVE  Versioned' /\ CacheInv'
  <2>1. /\ cache' = [version |-> Selected.version, filters |-> filters,
                     lines |-> IF CacheHits THEN cache.lines
                               ELSE Filtered(Selected.lines, filters)]
        /\ UNCHANGED <<perSource, globalBuf, filters>>
    BY <1>5 DEF BuildSnapshot, buffers
  <2>2. filters # None
    BY DEF Versioned
  <2>3. CacheHits => cache.lines = Filtered(Selected.lines, filters)
    BY <2>2 DEF CacheHits, CacheInv, CacheOf, Selected
  <2>4. cache'.filters = filters /\ cache'.version = Selected.version
        /\ cache'.lines = Filtered(Selected.lines, filters)
    BY <2>1, <2>3
  <2>5. Selected = BufferOf(filters)
    BY DEF Selected
  <2>6. BufferOf(filters).version \in Nat
    BY DEF BufferOf, Buffer, EmptyBuffer, Versioned
  <2>7. BufferOf(cache.filters)' = BufferOf(filters)
    BY <2>1, <2>4 DEF BufferOf, Buffer
  <2>8. CacheOf(cache.filters)'
    BY <2>1, <2>4, <2>5, <2>6, <2>7 DEF CacheOf
  <2> QED
    BY <2>1, <2>8 DEF CacheInv, Versioned
<1>6. CASE \E k \in Places : ToggleMuteSource(k) \/ \E name \in Names : RenameSource(k, name)
  BY <1>3, <1>6 DEF RenameSource, ToggleMuteSource, buffers
<1>7. CASE UNCHANGED vars
  BY <1>3, <1>7 DEF vars, buffers
<1> QED
  BY <1>1, <1>2, <1>4, <1>5, <1>6, <1>7 DEF Next

(* For every host, line, filter and limit: when the cache is used, its lines are
   those that pass the filter now. *)
THEOREM CacheIsSound == Spec => []SnapshotIsFresh
<1>1. Init => Versioned /\ CacheInv
  BY EngineStateAssumption DEF Init, Versioned, CacheInv, EmptyBuffer, Filters
<1>2. Versioned /\ CacheInv => SnapshotIsFresh
  BY EngineStateAssumption DEF Versioned, CacheInv, CacheOf, SnapshotIsFresh, CacheHits, Selected
<1> QED
  BY <1>1, <1>2, CacheStep, PTL DEF Spec

-------------------------------------------------------------------------------
(* The sources. *)

SourcesInv == IsFiniteSet(DOMAIN sources) /\ SourcesBounded

LEMMA NoMoreSources ==
  ASSUME SourcesInv, UNCHANGED <<sources, perSource>>
  PROVE  SourcesInv'
BY DEF SourcesInv, SourcesBounded

LEMMA OneMoreSource ==
  ASSUME SourcesInv, NEW k, HasRoomFor(k) \/ k = Overflow,
         DOMAIN sources' = DOMAIN sources \cup {k},
         DOMAIN perSource' = DOMAIN perSource \cup {k}
  PROVE  SourcesInv'
<1> DEFINE Own == DOMAIN sources \ {Overflow}
<1>1. IsFiniteSet(DOMAIN sources')
  BY FS_AddElement DEF SourcesInv
<1>2. /\ IsFiniteSet(Own) /\ Cardinality(Own) \in Nat /\ Cardinality(DOMAIN sources) \in Nat
      /\ Cardinality(Own) <= Cardinality(DOMAIN sources)
  BY FS_Subset, FS_CardinalityType DEF SourcesInv
<1>3. CASE k = Overflow \/ k \in DOMAIN sources
  <2>1. (DOMAIN sources \ {Overflow})' = Own
    BY <1>3
  <2> QED
    BY <1>1, <2>1 DEF SourcesInv, SourcesBounded
<1>4. CASE k # Overflow /\ k \notin DOMAIN sources
  <2>1. (DOMAIN sources \ {Overflow})' = Own \cup {k}
    BY <1>4
  <2>2. Cardinality(Own \cup {k}) = Cardinality(Own) + 1
    BY <1>2, <1>4, FS_AddElement
  <2>3. Cardinality(DOMAIN sources) < MaxSources
    BY <1>4 DEF HasRoomFor
  <2>4. MaxSources \in Nat
    BY EngineStateAssumption
  <2> QED
    BY <1>1, <1>2, <2>1, <2>2, <2>3, <2>4 DEF SourcesInv, SourcesBounded
<1> QED
  BY <1>3, <1>4

LEMMA SourcesStep == SourcesInv /\ [Next]_vars => SourcesInv'
<1> SUFFICES ASSUME SourcesInv, [Next]_vars PROVE SourcesInv'
  OBVIOUS
<1>1. ASSUME NEW k \in Keys, NEW line \in Lines, ApplyEvent(k, line)
      PROVE  SourcesInv'
  <2>1. PICK j : /\ HasRoomFor(j) \/ j = Overflow
                 /\ DOMAIN sources' = DOMAIN sources \cup {j}
                 /\ AppendLine(j, line)
    BY <1>1 DEF ApplyEvent, Seen, Overflows, With
  <2>2. DOMAIN perSource' = DOMAIN perSource \cup {j}
    BY <2>1 DEF AppendLine, With
  <2> QED
    BY <2>1, <2>2, OneMoreSource
<1>2. ASSUME NEW k, ClearSource(k)
      PROVE  SourcesInv'
  BY <1>2 DEF ClearSource, SourcesInv, SourcesBounded, tables
<1>3. ASSUME NEW k, NEW name, RenameSource(k, name) \/ ToggleMuteSource(k)
      PROVE  SourcesInv'
  BY <1>3 DEF RenameSource, ToggleMuteSource, SourcesInv, SourcesBounded, buffers
<1>4. ASSUME NEW f, SetFilters(f)
      PROVE  SourcesInv'
  BY <1>4, NoMoreSources DEF SetFilters, tables, buffers
<1>5. CASE BuildSnapshot
  BY <1>5, NoMoreSources DEF BuildSnapshot, tables, buffers
<1>6. CASE UNCHANGED vars
  BY <1>6, NoMoreSources DEF vars, tables, buffers
<1> QED
  BY <1>1, <1>2, <1>3, <1>4, <1>5, <1>6 DEF Next

(* For every number of hosts and every limit, the sources the engine keeps are
   at most MaxSources besides the overflow source, with one buffer each. *)
THEOREM SourcesStayBounded == Spec => []SourcesBounded
<1>1. Init => SourcesInv
  <2>1. DOMAIN << >> = {}
    OBVIOUS
  <2> QED
    BY <2>1, FS_EmptySet, FS_Subset, EngineStateAssumption DEF Init, SourcesInv, SourcesBounded
<1>2. SourcesInv => SourcesBounded
  BY DEF SourcesInv
<1> QED
  BY <1>1, <1>2, SourcesStep, PTL DEF Spec

-------------------------------------------------------------------------------
(* Types.  What bounds a counter is the number of events and commands so far, so
   the invariant speaks of those and not of their limits. *)

IsSource(r, n) == r \in [name : Places \cup Names, muted : BOOLEAN, errors : 0 .. n]

IsBuffer(b, m, n) == b \in [lines : Seq(Lines), version : 0 .. n] /\ Len(b.lines) <= m

SourcesTyped ==
  /\ DOMAIN sources \subseteq Places
  /\ DOMAIN sources \subseteq DOMAIN perSource
  /\ \A k \in DOMAIN sources : IsSource(sources[k], events)
  /\ overflowSources \in 0 .. events

BuffersTyped ==
  /\ \A k \in DOMAIN perSource : IsBuffer(perSource[k], PerSourceLines, events + commands)
  /\ IsBuffer(globalBuf, GlobalLines, events + commands)
  /\ from \in Seq(Places)
  /\ Len(from) = Len(globalBuf.lines)

CountersTyped ==
  /\ events \in 0 .. MaxEvents
  /\ commands \in 0 .. MaxCommands
  /\ filters \in Filters

TypeInv == CountersTyped /\ SourcesTyped /\ BuffersTyped

(* What LastOf keeps of a sequence. *)
LEMMA LastOfSequence ==
  ASSUME NEW S, NEW s \in Seq(S), NEW m \in Nat
  PROVE  /\ LastOf(s, m) \in Seq(S)
         /\ Len(LastOf(s, m)) = IF Len(s) > m THEN m ELSE Len(s)
         /\ \A i \in 1 .. Len(LastOf(s, m)) :
              LastOf(s, m)[i] = s[Len(s) - Len(LastOf(s, m)) + i]
<1>1. Len(s) \in Nat
  OBVIOUS
<1>2. CASE Len(s) > m
  <2>1. LastOf(s, m) = SubSeq(s, Len(s) - m + 1, Len(s))
    BY <1>2 DEF LastOf
  <2>2. /\ SubSeq(s, Len(s) - m + 1, Len(s)) \in Seq(S)
        /\ Len(SubSeq(s, Len(s) - m + 1, Len(s))) = m
        /\ \A i \in 1 .. m : SubSeq(s, Len(s) - m + 1, Len(s))[i] = s[Len(s) - m + i]
    BY <1>1, <1>2
  <2> QED
    BY <1>2, <2>1, <2>2
<1>3. CASE ~(Len(s) > m)
  BY <1>1, <1>3 DEF LastOf
<1> QED
  BY <1>2, <1>3

LEMMA LengthOfAppend ==
  ASSUME NEW S, NEW s \in Seq(S), NEW x \in S, NEW m \in Nat \ {0}
  PROVE  /\ LastOf(Append(s, x), m) \in Seq(S)
         /\ Len(LastOf(Append(s, x), m)) = IF Len(s) < m THEN Len(s) + 1 ELSE m
<1>1. /\ Append(s, x) \in Seq(S) /\ Len(Append(s, x)) = Len(s) + 1
      /\ Len(s) \in Nat
  OBVIOUS
<1>2. /\ LastOf(Append(s, x), m) \in Seq(S)
      /\ Len(LastOf(Append(s, x), m)) =
           IF Len(Append(s, x)) > m THEN m ELSE Len(Append(s, x))
  BY <1>1, LastOfSequence
<1> QED
  BY <1>1, <1>2

(* The key of a line is kept for as long as the line. *)
LEMMA SameLength ==
  ASSUME NEW f \in Seq(Places), NEW g \in Seq(Lines), Len(f) = Len(g),
         NEW k \in Places, NEW line \in Lines, NEW m \in Nat \ {0}
  PROVE  /\ LastOf(Append(f, k), m) \in Seq(Places)
         /\ Len(LastOf(Append(f, k), m)) = Len(LastOf(Append(g, line), m))
<1>1. /\ LastOf(Append(f, k), m) \in Seq(Places)
      /\ Len(LastOf(Append(f, k), m)) = IF Len(f) < m THEN Len(f) + 1 ELSE m
  BY LengthOfAppend
<1>2. Len(LastOf(Append(g, line), m)) = IF Len(g) < m THEN Len(g) + 1 ELSE m
  BY LengthOfAppend
<1> QED
  BY <1>1, <1>2

LEMMA AppendedIsBuffer ==
  ASSUME NEW m \in Nat \ {0}, NEW n \in Nat, NEW b, IsBuffer(b, m, n), NEW line \in Lines
  PROVE  IsBuffer(Appended(b, line, m), m, n + 1)
<1>1. b.lines \in Seq(Lines) /\ b.version \in 0 .. n
  BY DEF IsBuffer
<1>2. /\ LastOf(Append(b.lines, line), m) \in Seq(Lines)
      /\ Len(LastOf(Append(b.lines, line), m)) \in 1 .. m
  <2>1. Len(b.lines) \in Nat
    BY <1>1
  <2>2. /\ LastOf(Append(b.lines, line), m) \in Seq(Lines)
        /\ Len(LastOf(Append(b.lines, line), m)) =
             IF Len(b.lines) < m THEN Len(b.lines) + 1 ELSE m
    BY <1>1, LengthOfAppend
  <2> QED
    BY <2>1, <2>2
<1>3. b.version + 1 \in 0 .. n + 1
  BY <1>1
<1> QED
  BY <1>2, <1>3 DEF IsBuffer, Appended

LEMMA LargerBound ==
  ASSUME NEW n \in Nat, NEW p \in Nat, n <= p
  PROVE  /\ \A b, m : IsBuffer(b, m, n) => IsBuffer(b, m, p)
         /\ \A r : IsSource(r, n) => IsSource(r, p)
<1>1. 0 .. n \subseteq 0 .. p
  OBVIOUS
<1> QED
  BY <1>1 DEF IsBuffer, IsSource

LEMMA AppendLineTyped ==
  ASSUME TypeInv, NEW k \in Places, NEW line \in Lines, AppendLine(k, line),
         events' = events + 1, UNCHANGED commands
  PROVE  BuffersTyped' /\ DOMAIN perSource' = DOMAIN perSource \cup {k}
<1>0. /\ PerSourceLines \in Nat \ {0} /\ GlobalLines \in Nat \ {0}
      /\ events \in Nat /\ commands \in Nat
  BY EngineStateAssumption DEF TypeInv, CountersTyped
<1>1. PICK n \in Nat : n = events + commands
  BY <1>0
<1>2. events' + commands' = n + 1
  BY <1>0, <1>1
<1>3. IsBuffer(Buffer(k), PerSourceLines, n)
  BY <1>0, <1>1 DEF TypeInv, BuffersTyped, Buffer, EmptyBuffer, IsBuffer
<1>4. IsBuffer(Appended(Buffer(k), line, PerSourceLines), PerSourceLines, n + 1)
  BY <1>0, <1>1, <1>3, AppendedIsBuffer
<1>5. /\ DOMAIN perSource' = DOMAIN perSource \cup {k}
      /\ perSource'[k] = Appended(Buffer(k), line, PerSourceLines)
      /\ \A j \in DOMAIN perSource \ {k} : perSource'[j] = perSource[j]
  BY DEF AppendLine, With
<1>6. \A j \in DOMAIN perSource : IsBuffer(perSource[j], PerSourceLines, n + 1)
  <2>1. \A j \in DOMAIN perSource : IsBuffer(perSource[j], PerSourceLines, n)
    BY <1>1 DEF TypeInv, BuffersTyped
  <2> QED
    BY <1>1, <2>1, LargerBound
<1>7. \A j \in DOMAIN perSource' : IsBuffer(perSource'[j], PerSourceLines, n + 1)
  BY <1>4, <1>5, <1>6
<1>8. /\ IsBuffer(globalBuf, GlobalLines, n)
      /\ from \in Seq(Places)
      /\ Len(from) = Len(globalBuf.lines)
  BY <1>1 DEF TypeInv, BuffersTyped
<1>9. /\ globalBuf' = Appended(globalBuf, line, GlobalLines)
      /\ from' = LastOf(Append(from, k), GlobalLines)
  BY DEF AppendLine
<1>10. IsBuffer(globalBuf', GlobalLines, n + 1)
  BY <1>0, <1>1, <1>8, <1>9, AppendedIsBuffer
<1>11. from' \in Seq(Places) /\ Len(from') = Len(globalBuf'.lines)
  <2>1. globalBuf.lines \in Seq(Lines)
    BY <1>8 DEF IsBuffer
  <2>2. globalBuf'.lines = LastOf(Append(globalBuf.lines, line), GlobalLines)
    BY <1>9 DEF Appended
  <2>3. PICK f, g : f = from /\ g = globalBuf.lines
    OBVIOUS
  <2>4. f \in Seq(Places) /\ g \in Seq(Lines) /\ Len(f) = Len(g)
    BY <1>8, <2>1, <2>3
  <2>5. /\ LastOf(Append(f, k), GlobalLines) \in Seq(Places)
        /\ Len(LastOf(Append(f, k), GlobalLines)) = Len(LastOf(Append(g, line), GlobalLines))
    BY <1>0, <2>4, SameLength
  <2> QED
    BY <1>9, <2>2, <2>3, <2>5
<1> QED
  BY <1>2, <1>5, <1>7, <1>10, <1>11 DEF BuffersTyped

LEMMA SourceOfEvent ==
  ASSUME TypeInv, NEW k \in Keys, NEW line \in Lines, ApplyEvent(k, line)
  PROVE  SourcesTyped'
<1> USE EngineStateAssumption
<1>1. PICK n \in Nat : n = events
  BY DEF TypeInv, CountersTyped
<1>2. events' = n + 1
  BY <1>1 DEF ApplyEvent
<1>3. \A j \in DOMAIN sources : IsSource(sources[j], n + 1)
  <2>1. \A j \in DOMAIN sources : IsSource(sources[j], n)
    BY <1>1 DEF TypeInv, SourcesTyped
  <2> QED
    BY <1>1, <2>1, LargerBound
<1>4. \A j \in Places : IsSource(NewSource(j), n)
  BY <1>1 DEF IsSource, NewSource
<1>5. /\ DOMAIN sources \subseteq Places /\ DOMAIN sources \subseteq DOMAIN perSource
      /\ overflowSources \in 0 .. n
  BY <1>1 DEF TypeInv, SourcesTyped
<1>6. CASE HasRoomFor(k)
  <2>1. Seen(k, line)
    BY <1>6 DEF ApplyEvent
  <2>2. PICK source : source = IF k \in DOMAIN sources THEN sources[k] ELSE NewSource(k)
    OBVIOUS
  <2>3. k \in Places
    BY DEF Places
  <2>4. IsSource(source, n)
    BY <1>1, <1>4, <2>2, <2>3 DEF TypeInv, SourcesTyped
  <2>5. PICK e : e = IF line.level = Error THEN source.errors + 1 ELSE source.errors
    OBVIOUS
  <2>6. e \in 0 .. n + 1
    BY <1>1, <2>4, <2>5 DEF IsSource
  <2>7. sources' = With(sources, k, [source EXCEPT !.errors = e])
    BY <2>1, <2>2, <2>5 DEF Seen
  <2>8. IsSource([source EXCEPT !.errors = e], n + 1)
    BY <2>4, <2>6 DEF IsSource
  <2>9. \A j \in DOMAIN sources' : IsSource(sources'[j], n + 1)
    BY <1>3, <2>7, <2>8 DEF With
  <2>10. DOMAIN sources' = DOMAIN sources \cup {k} /\ UNCHANGED overflowSources
    BY <2>1, <2>7 DEF Seen, With
  <2>11. DOMAIN perSource' = DOMAIN perSource \cup {k}
    BY <2>1 DEF Seen, AppendLine, With
  <2>12. overflowSources' \in 0 .. n + 1
    BY <1>1, <1>5, <2>10
  <2> QED
    BY <1>2, <1>5, <2>3, <2>9, <2>10, <2>11, <2>12 DEF SourcesTyped
<1>7. CASE ~HasRoomFor(k)
  <2>1. Overflows(k, line)
    BY <1>7 DEF ApplyEvent
  <2>2. /\ sources' = With(sources, Overflow, NewSource(Overflow))
        /\ overflowSources' = overflowSources + 1
    BY <2>1 DEF Overflows
  <2>3. DOMAIN perSource' = DOMAIN perSource \cup {Overflow}
    BY <2>1 DEF Overflows, AppendLine, With
  <2>4. Overflow \in Places
    BY DEF Places
  <2>5. IsSource(NewSource(Overflow), n + 1)
    BY <1>1, <1>4, <2>4, LargerBound
  <2>6. /\ DOMAIN sources' = DOMAIN sources \cup {Overflow}
        /\ \A j \in DOMAIN sources' : IsSource(sources'[j], n + 1)
    BY <1>3, <2>2, <2>5 DEF With
  <2>7. overflowSources' \in 0 .. n + 1
    BY <1>1, <1>5, <2>2
  <2> QED
    BY <1>2, <1>5, <2>3, <2>4, <2>6, <2>7 DEF SourcesTyped
<1> QED
  BY <1>6, <1>7

LEMMA CommandTyped ==
  ASSUME TypeInv, Command
  PROVE  /\ commands' \in 0 .. MaxCommands
         /\ commands' = commands + 1
         /\ events + commands \in Nat
         /\ UNCHANGED events => events' + commands' = events + commands + 1
BY EngineStateAssumption DEF Command, TypeInv, CountersTyped

(* The commands about a source: each changes a field of one source, or one buffer. *)
LEMMA SourceCommandsTyped ==
  ASSUME TypeInv, NEW k,
         ToggleMuteSource(k) \/ \E name \in Names : RenameSource(k, name)
  PROVE  SourcesTyped'
<1>1. PICK n : n = events
  OBVIOUS
<1>2. k \in DOMAIN sources /\ UNCHANGED <<overflowSources, perSource, events>>
  BY DEF RenameSource, ToggleMuteSource, buffers
<1>3. PICK source : source = sources[k]
  OBVIOUS
<1>4. /\ DOMAIN sources \subseteq Places /\ DOMAIN sources \subseteq DOMAIN perSource
      /\ overflowSources \in 0 .. n
      /\ \A j \in DOMAIN sources : IsSource(sources[j], n)
  BY <1>1 DEF TypeInv, SourcesTyped
<1>5. PICK w : /\ DOMAIN sources' = DOMAIN sources
               /\ \A j \in DOMAIN sources' : sources'[j] = IF j = k THEN w ELSE sources[j]
               /\ \/ \E name \in Names : w = [source EXCEPT !.name = name]
                  \/ w = [source EXCEPT !.muted = ~@]
  <2>1. CASE \E name \in Names : RenameSource(k, name)
    BY <1>2, <1>3, <2>1 DEF RenameSource
  <2>2. CASE ToggleMuteSource(k)
    BY <1>2, <1>3, <2>2 DEF ToggleMuteSource
  <2> QED
    BY <2>1, <2>2
<1>6. IsSource(source, n)
  BY <1>2, <1>3, <1>4
<1>7. IsSource(w, n)
  <2>1. CASE \E name \in Names : w = [source EXCEPT !.name = name]
    BY <1>6, <2>1 DEF IsSource
  <2>2. CASE w = [source EXCEPT !.muted = ~@]
    BY <1>6, <2>2 DEF IsSource
  <2> QED
    BY <1>5, <2>1, <2>2
<1> QED
  BY <1>1, <1>2, <1>4, <1>5, <1>7 DEF SourcesTyped

LEMMA BuffersKept ==
  ASSUME TypeInv, Command, UNCHANGED <<buffers, events>>
  PROVE  BuffersTyped'
<1>1. PICK n \in Nat : n = events + commands
  BY EngineStateAssumption DEF TypeInv, CountersTyped
<1>2. UNCHANGED <<perSource, globalBuf, from>> /\ events' + commands' = n + 1
  BY <1>1, CommandTyped DEF buffers
<1>3. /\ \A k \in DOMAIN perSource : IsBuffer(perSource[k], PerSourceLines, n)
      /\ IsBuffer(globalBuf, GlobalLines, n)
      /\ from \in Seq(Places) /\ Len(from) = Len(globalBuf.lines)
  BY <1>1 DEF TypeInv, BuffersTyped
<1>4. /\ \A k \in DOMAIN perSource : IsBuffer(perSource[k], PerSourceLines, n + 1)
      /\ IsBuffer(globalBuf, GlobalLines, n + 1)
  BY <1>1, <1>3, LargerBound
<1> QED
  BY <1>2, <1>3, <1>4 DEF BuffersTyped

LEMMA ClearTyped ==
  ASSUME TypeInv, NEW k, ClearSource(k)
  PROVE  BuffersTyped'
<1>1. PICK n \in Nat : n = events + commands
  BY EngineStateAssumption DEF TypeInv, CountersTyped
<1>2. events' + commands' = n + 1
  BY <1>1, CommandTyped DEF ClearSource
<1>3. PICK b : b = perSource[k]
  OBVIOUS
<1>4. /\ DOMAIN perSource' = DOMAIN perSource /\ k \in DOMAIN perSource
      /\ perSource'[k] = [lines |-> << >>, version |-> b.version + 1]
      /\ \A j \in DOMAIN perSource \ {k} : perSource'[j] = perSource[j]
      /\ UNCHANGED <<globalBuf, from>>
  BY <1>3 DEF ClearSource
<1>5. /\ \A j \in DOMAIN perSource : IsBuffer(perSource[j], PerSourceLines, n)
      /\ IsBuffer(globalBuf, GlobalLines, n)
      /\ from \in Seq(Places) /\ Len(from) = Len(globalBuf.lines)
  BY <1>1 DEF TypeInv, BuffersTyped
<1>6. /\ \A j \in DOMAIN perSource : IsBuffer(perSource[j], PerSourceLines, n + 1)
      /\ IsBuffer(globalBuf, GlobalLines, n + 1)
  BY <1>1, <1>5, LargerBound
<1>7. b.version + 1 \in 0 .. n + 1
  BY <1>1, <1>3, <1>4, <1>5 DEF IsBuffer
<1>8. IsBuffer(perSource'[k], PerSourceLines, n + 1)
  BY <1>4, <1>7, EngineStateAssumption DEF IsBuffer
<1> QED
  BY <1>2, <1>4, <1>5, <1>6, <1>8 DEF BuffersTyped

LEMMA TypeStep == TypeInv /\ [Next]_vars => TypeInv'
<1> SUFFICES ASSUME TypeInv, [Next]_vars PROVE TypeInv'
  OBVIOUS
<1> USE EngineStateAssumption
<1>1. ASSUME NEW k \in Keys, NEW line \in Lines, ApplyEvent(k, line)
      PROVE  TypeInv'
  <2>1. /\ events < MaxEvents /\ events' = events + 1
        /\ UNCHANGED <<filters, commands>>
    BY <1>1 DEF ApplyEvent
  <2>2. PICK j \in Places : AppendLine(j, line)
    BY <1>1 DEF ApplyEvent, Seen, Overflows, Places
  <2>3. CountersTyped'
    BY <2>1 DEF TypeInv, CountersTyped
  <2> QED
    BY <1>1, <2>1, <2>2, <2>3, AppendLineTyped, SourceOfEvent DEF TypeInv
<1>2. ASSUME NEW f \in Filters, SetFilters(f)
      PROVE  TypeInv'
  <2>1. Command /\ filters' = f /\ UNCHANGED <<tables, buffers, events>>
    BY <1>2 DEF SetFilters
  <2>2. CountersTyped'
    BY <2>1, CommandTyped DEF TypeInv, CountersTyped
  <2>3. SourcesTyped'
    BY <2>1 DEF TypeInv, SourcesTyped, tables, buffers
  <2>4. BuffersTyped'
    BY <2>1, BuffersKept
  <2> QED
    BY <2>2, <2>3, <2>4 DEF TypeInv
<1>3. ASSUME NEW k \in Places, NEW name \in Names, RenameSource(k, name)
      PROVE  TypeInv'
  <2>1. Command /\ UNCHANGED <<buffers, filters, events>>
    BY <1>3 DEF RenameSource
  <2>2. CountersTyped'
    BY <2>1, CommandTyped DEF TypeInv, CountersTyped
  <2>3. BuffersTyped'
    BY <2>1, BuffersKept
  <2> QED
    BY <1>3, <2>2, <2>3, SourceCommandsTyped DEF TypeInv
<1>4. ASSUME NEW k \in Places, ToggleMuteSource(k)
      PROVE  TypeInv'
  <2>1. Command /\ UNCHANGED <<buffers, filters, events>>
    BY <1>4 DEF ToggleMuteSource
  <2>2. CountersTyped'
    BY <2>1, CommandTyped DEF TypeInv, CountersTyped
  <2>3. BuffersTyped'
    BY <2>1, BuffersKept
  <2>4. SourcesTyped'
    BY <1>4, SourceCommandsTyped
  <2> QED
    BY <2>2, <2>3, <2>4 DEF TypeInv
<1>5. ASSUME NEW k \in Places, ClearSource(k)
      PROVE  TypeInv'
  <2>1. Command /\ UNCHANGED <<tables, filters, events>> /\ DOMAIN perSource' = DOMAIN perSource
    BY <1>5 DEF ClearSource
  <2>2. CountersTyped'
    BY <2>1, CommandTyped DEF TypeInv, CountersTyped
  <2>3. SourcesTyped'
    BY <2>1 DEF TypeInv, SourcesTyped, tables
  <2> QED
    BY <1>5, <2>2, <2>3, ClearTyped DEF TypeInv
<1>6. CASE BuildSnapshot
  BY <1>6 DEF BuildSnapshot, TypeInv, CountersTyped, SourcesTyped, BuffersTyped, tables, buffers
<1>7. CASE UNCHANGED vars
  BY <1>7 DEF vars, TypeInv, CountersTyped, SourcesTyped, BuffersTyped, tables, buffers
<1> QED
  BY <1>1, <1>2, <1>3, <1>4, <1>5, <1>6, <1>7 DEF Next

LEMMA TypeInit == Init => TypeInv
BY EngineStateAssumption
   DEF Init, TypeInv, CountersTyped, SourcesTyped, BuffersTyped, IsBuffer, EmptyBuffer, Filters

(* For every host, line, name, filter and limit: sources, buffers and counters
   stay what the engine's structures say they are, no buffer grows past its
   capacity, and every source has one. *)
THEOREM TypeCorrect == Spec => []TypeOK
<1>1. TypeInv => TypeOK
  <2> SUFFICES ASSUME TypeInv PROVE TypeOK
    OBVIOUS
  <2>1. PICK n \in Nat, p \in Nat : n = events /\ p = events + commands
    BY EngineStateAssumption DEF TypeInv, CountersTyped
  <2>2. n <= MaxEvents /\ p <= MaxEvents + MaxCommands
    BY <2>1, EngineStateAssumption DEF TypeInv, CountersTyped
  <2>3. \A r : IsSource(r, n) => IsSource(r, MaxEvents)
    BY <2>2, LargerBound, EngineStateAssumption
  <2>4. ASSUME NEW m \in Nat, NEW b, IsBuffer(b, m, p)
        PROVE  b \in Buffers(m)
    <3>1. IsBuffer(b, m, MaxEvents + MaxCommands)
      BY <2>2, <2>4, LargerBound, EngineStateAssumption
    <3>2. b.lines \in BoundedSeq(Lines, m)
      BY <3>1 DEF IsBuffer, BoundedSeq, SeqOf
    <3> QED
      BY <3>1, <3>2 DEF IsBuffer, Buffers
  <2>5. overflowSources \in 0 .. MaxEvents
    BY <2>1, <2>2, EngineStateAssumption DEF TypeInv, SourcesTyped
  <2>6. \A k \in DOMAIN sources :
          sources[k] \in [name : Places \cup Names, muted : BOOLEAN, errors : 0 .. MaxEvents]
    BY <2>1, <2>3 DEF TypeInv, SourcesTyped, IsSource
  <2>7. /\ \A k \in DOMAIN perSource : perSource[k] \in Buffers(PerSourceLines)
        /\ globalBuf \in Buffers(GlobalLines)
    BY <2>1, <2>4, EngineStateAssumption DEF TypeInv, BuffersTyped
  <2> QED
    BY <2>5, <2>6, <2>7 DEF TypeOK, TypeInv, CountersTyped, SourcesTyped, BuffersTyped
<1> QED
  BY <1>1, TypeInit, TypeStep, PTL DEF Spec

-------------------------------------------------------------------------------
(* Settings. *)

SettingsKept ==
  \A k \in DOMAIN sources \ {Overflow} :
    /\ k \in DOMAIN sources'
    /\ sources'[k].name # sources[k].name => \E name \in Names : RenameSource(k, name)
    /\ sources'[k].muted # sources[k].muted => ToggleMuteSource(k)

LEMMA EventKeepsSettings ==
  ASSUME TypeInv, NEW k \in Keys, NEW line \in Lines, ApplyEvent(k, line)
  PROVE  SettingsKept
<1>1. CASE HasRoomFor(k)
  <2>1. Seen(k, line)
    BY <1>1 DEF ApplyEvent
  <2>2. PICK source : source = IF k \in DOMAIN sources THEN sources[k] ELSE NewSource(k)
    OBVIOUS
  <2>3. PICK e : e = IF line.level = Error THEN source.errors + 1 ELSE source.errors
    OBVIOUS
  <2>4. sources' = With(sources, k, [source EXCEPT !.errors = e])
    BY <2>1, <2>2, <2>3 DEF Seen
  <2>5. ASSUME NEW j \in DOMAIN sources, j # k
        PROVE  j \in DOMAIN sources' /\ sources'[j] = sources[j]
    BY <2>4, <2>5 DEF With
  <2>6. ASSUME k \in DOMAIN sources
        PROVE  /\ k \in DOMAIN sources'
               /\ sources'[k].name = sources[k].name /\ sources'[k].muted = sources[k].muted
    <3>1. source = sources[k] /\ IsSource(source, events)
      BY <2>2, <2>6 DEF TypeInv, SourcesTyped
    <3>2. k \in DOMAIN sources' /\ sources'[k] = [source EXCEPT !.errors = e]
      BY <2>4 DEF With
    <3>3. /\ [source EXCEPT !.errors = e].name = source.name
          /\ [source EXCEPT !.errors = e].muted = source.muted
      BY <3>1 DEF IsSource
    <3> QED
      BY <3>1, <3>2, <3>3
  <2> QED
    BY <2>5, <2>6 DEF SettingsKept
<1>2. CASE ~HasRoomFor(k)
  BY <1>2 DEF ApplyEvent, Overflows, With, SettingsKept
<1> QED
  BY <1>1, <1>2

LEMMA SettingsStep == TypeInv /\ Next => SettingsKept
<1> SUFFICES ASSUME TypeInv, Next PROVE SettingsKept
  OBVIOUS
<1>1. CASE \E k \in Keys, line \in Lines : ApplyEvent(k, line)
  BY <1>1, EventKeepsSettings
<1>2. ASSUME NEW j \in Places, NEW name \in Names, RenameSource(j, name)
      PROVE  SettingsKept
  <2>1. j \in DOMAIN sources /\ sources' = [sources EXCEPT ![j].name = name]
    BY <1>2 DEF RenameSource
  <2>2. IsSource(sources[j], events)
    BY <2>1 DEF TypeInv, SourcesTyped
  <2>3. [sources[j] EXCEPT !.name = name].muted = sources[j].muted
    BY <2>2 DEF IsSource
  <2>4. /\ DOMAIN sources' = DOMAIN sources
        /\ \A k \in DOMAIN sources \ {j} : sources'[k] = sources[k]
        /\ sources'[j].muted = sources[j].muted
    BY <2>1, <2>3
  <2> QED
    BY <1>2, <2>4 DEF SettingsKept
<1>3. CASE \E f \in Filters : SetFilters(f)
  BY <1>3 DEF SetFilters, tables, SettingsKept
<1>4. ASSUME NEW j \in Places, ToggleMuteSource(j)
      PROVE  SettingsKept
  <2>1. j \in DOMAIN sources /\ sources' = [sources EXCEPT ![j].muted = ~@]
    BY <1>4 DEF ToggleMuteSource
  <2>2. IsSource(sources[j], events)
    BY <2>1 DEF TypeInv, SourcesTyped
  <2>3. [sources[j] EXCEPT !.muted = ~@].name = sources[j].name
    BY <2>2 DEF IsSource
  <2>4. /\ DOMAIN sources' = DOMAIN sources
        /\ \A k \in DOMAIN sources \ {j} : sources'[k] = sources[k]
        /\ sources'[j].name = sources[j].name
    BY <2>1, <2>3
  <2> QED
    BY <1>4, <2>4 DEF SettingsKept
<1>5. CASE \E k \in Places : ClearSource(k)
  BY <1>5 DEF ClearSource, tables, SettingsKept
<1>6. CASE BuildSnapshot
  BY <1>6 DEF BuildSnapshot, tables, SettingsKept
<1> QED
  BY <1>1, <1>2, <1>3, <1>4, <1>5, <1>6 DEF Next

(* For every traffic, every sequence of commands and every limit: a step that
   changes the name of a source is a rename of that source, one that changes whether
   it is muted a mute of that source, lines of any source, the overflow of the table,
   filters, clearings and commands about other sources included; and no step forgets
   a source (ingest.go:107-123, commands.go:129-182). *)
THEOREM SettingsHold == Spec => SettingsLast
<1>1. TypeInv /\ [Next]_vars => [SettingsKept]_vars
  BY SettingsStep
<1> QED
  BY <1>1, TypeInit, TypeStep, PTL DEF Spec, SettingsLast, SettingsKept

-------------------------------------------------------------------------------
(* The two copies of a line. *)

(* The place of s[i] among its equals in s, the latest of them first. *)
RankIn(s, i) == Cardinality({j \in i .. Len(s) : s[j] = s[i]})

(* The line g[i] of the key f[i] is where the key's own buffer has it, if it has. *)
SameLine(f, g, i, own) ==
  RankIn(f, i) <= Len(own) => own[Len(own) - RankIn(f, i) + 1] = g[i]

LEMMA RankIsPositive ==
  ASSUME NEW S, NEW s \in Seq(S), NEW i \in 1 .. Len(s)
  PROVE  RankIn(s, i) \in Nat \ {0}
<1> DEFINE E == {j \in i .. Len(s) : s[j] = s[i]}
<1>1. i \in Nat /\ Len(s) \in Nat /\ i <= Len(s)
  OBVIOUS
<1>2. IsFiniteSet(i .. Len(s)) /\ E \subseteq i .. Len(s)
  BY <1>1, FS_Interval
<1>3. IsFiniteSet(E)
  BY <1>2, FS_Subset
<1>4. i \in E
  BY <1>1
<1>5. Cardinality(E) \in Nat
  BY <1>3, FS_CardinalityType
<1>6. Cardinality(E) # 0
  BY <1>3, <1>4, FS_EmptySet
<1> QED
  BY <1>5, <1>6 DEF RankIn

(* Another line of the key is one more behind each of its lines, the first behind
   none. *)
LEMMA RankOfAppend ==
  ASSUME NEW S, NEW s \in Seq(S), NEW x \in S
  PROVE  LET t == Append(s, x) IN
         /\ RankIn(t, Len(s) + 1) = 1
         /\ \A i \in 1 .. Len(s) :
              RankIn(t, i) = IF s[i] = x THEN RankIn(s, i) + 1 ELSE RankIn(s, i)
<1> DEFINE n == Len(s)
           t == Append(s, x)
           E(i) == {j \in i .. n : s[j] = s[i]}
           F(i) == {j \in i .. Len(t) : t[j] = t[i]}
<1>1. /\ n \in Nat /\ Len(t) = n + 1 /\ t[n + 1] = x
      /\ \A i \in 1 .. n : t[i] = s[i]
  OBVIOUS
<1> HIDE DEF t, n
<1>2. RankIn(t, n + 1) = 1
  <2>1. F(n + 1) = {n + 1}
    BY <1>1
  <2> QED
    BY <2>1, FS_Singleton DEF RankIn
<1>3. ASSUME NEW i \in 1 .. n
      PROVE  RankIn(t, i) = IF s[i] = x THEN RankIn(s, i) + 1 ELSE RankIn(s, i)
  <2>1. IsFiniteSet(i .. n) /\ E(i) \subseteq i .. n
    BY <1>1, FS_Interval
  <2>2. IsFiniteSet(E(i)) /\ n + 1 \notin E(i)
    BY <1>1, <2>1, FS_Subset
  <2>3. CASE s[i] = x
    <3>1. F(i) = E(i) \cup {n + 1}
      BY <1>1, <2>3
    <3>2. Cardinality(E(i) \cup {n + 1}) = Cardinality(E(i)) + 1
      BY <2>2, FS_AddElement
    <3> QED
      BY <2>3, <3>1, <3>2 DEF RankIn, n
  <2>4. CASE s[i] # x
    <3>1. F(i) = E(i)
      BY <1>1, <2>4
    <3> QED
      BY <2>4, <3>1 DEF RankIn, n
  <2> QED
    BY <2>3, <2>4
<1> QED
  BY <1>2, <1>3 DEF t, n

(* t is s without its first d. *)
Without(s, d, t) == Len(s) = Len(t) + d /\ \A i \in 1 .. Len(t) : t[i] = s[i + d]

(* The lines that fall out are the oldest: they are nobody's later lines. *)
LEMMA RankOfSuffix ==
  ASSUME NEW S, NEW s \in Seq(S), NEW t \in Seq(S), NEW d \in Nat,
         Without(s, d, t), NEW i \in 1 .. Len(t)
  PROVE  RankIn(t, i) = RankIn(s, i + d)
<1> DEFINE E == {j \in i .. Len(t) : t[j] = t[i]}
           F == {j \in i + d .. Len(s) : s[j] = s[i + d]}
           shift == [j \in E |-> j + d]
<1>0. Len(s) = Len(t) + d /\ \A j \in 1 .. Len(t) : t[j] = s[j + d]
  BY DEF Without
<1>1. Len(t) \in Nat /\ Len(s) \in Nat /\ i \in Nat /\ 1 <= i
  OBVIOUS
<1>2. IsFiniteSet(i .. Len(t)) /\ E \subseteq i .. Len(t)
  BY <1>1, FS_Interval
<1>3. IsFiniteSet(E)
  BY <1>2, FS_Subset
<1>4. ASSUME NEW j \in E PROVE j + d \in F /\ j \in Nat
  <2>1. j \in 1 .. Len(t) /\ t[j] = t[i] /\ j \in i .. Len(t)
    BY <1>1
  <2>2. s[j + d] = t[j] /\ s[i + d] = t[i]
    BY <1>0, <2>1
  <2>3. j + d \in i + d .. Len(s)
    BY <1>0, <1>1, <2>1
  <2> QED
    BY <2>1, <2>2, <2>3
<1>5. ASSUME NEW j \in F PROVE j - d \in E /\ j - d + d = j
  <2>1. j \in i + d .. Len(s) /\ s[j] = s[i + d]
    OBVIOUS
  <2>2. j - d \in i .. Len(t) /\ j - d \in 1 .. Len(t) /\ j - d + d = j
    BY <1>0, <1>1, <2>1
  <2>3. t[j - d] = s[j] /\ t[i] = s[i + d]
    BY <1>0, <2>2
  <2> QED
    BY <2>1, <2>2, <2>3
<1> HIDE DEF E, F
<1>6. shift \in Bijection(E, F)
  <2>1. shift \in [E -> F]
    BY <1>4
  <2>2. \A a, b \in E : shift[a] = shift[b] => a = b
    BY <1>4
  <2>3. \A b \in F : \E a \in E : shift[a] = b
    BY <1>5
  <2> QED
    BY <2>1, <2>2, <2>3 DEF Bijection, Injection, Surjection, IsInjective
<1>7. Cardinality(F) = Cardinality(E)
  BY <1>3, <1>6, FS_Bijection DEF ExistsBijection
<1> QED
  BY <1>7 DEF RankIn, E, F

(* A line x added to s: what was there, less the d lines that fell out, and x. *)
Shifted(s, x, t, d) ==
  /\ Len(s) + 1 = Len(t) + d
  /\ t[Len(t)] = x
  /\ \A i \in 1 .. Len(t) - 1 : i + d \in 1 .. Len(s) /\ t[i] = s[i + d]

LEMMA AppendShifts ==
  ASSUME NEW S, NEW s \in Seq(S), NEW x \in S, NEW m \in Nat \ {0}
  PROVE  \E d \in Nat : Shifted(s, x, LastOf(Append(s, x), m), d)
<1>1. /\ Len(s) \in Nat /\ Append(s, x) \in Seq(S) /\ Len(Append(s, x)) = Len(s) + 1
      /\ Append(s, x)[Len(s) + 1] = x
      /\ \A i \in 1 .. Len(s) : Append(s, x)[i] = s[i]
  OBVIOUS
<1>2. PICK u : u = Append(s, x)
  OBVIOUS
<1>3. PICK t : t = LastOf(u, m)
  OBVIOUS
<1>4. /\ t \in Seq(S) /\ Len(t) = IF Len(u) > m THEN m ELSE Len(u)
      /\ \A i \in 1 .. Len(t) : t[i] = u[Len(u) - Len(t) + i]
  <2>1. u \in Seq(S)
    BY <1>1, <1>2
  <2> QED
    BY <1>3, <2>1, LastOfSequence
<1>5. PICK d \in Nat : Len(s) + 1 = Len(t) + d
  <2>1. Len(s) + 1 - Len(t) \in Nat
    BY <1>1, <1>2, <1>4
  <2>2. Len(s) + 1 = Len(t) + (Len(s) + 1 - Len(t))
    BY <1>1, <1>4
  <2> QED
    BY <2>1, <2>2
<1>6. Len(t) \in Nat \ {0} /\ Len(u) = Len(s) + 1
  BY <1>1, <1>2, <1>4
<1>7. \A i \in 1 .. Len(t) : t[i] = u[i + d]
  <2>1. \A i \in 1 .. Len(t) : Len(u) - Len(t) + i = i + d
    BY <1>1, <1>5, <1>6
  <2> QED
    BY <1>4, <2>1
<1>8. t[Len(t)] = x
  <2>1. Len(t) \in 1 .. Len(t) /\ Len(t) + d = Len(s) + 1
    BY <1>5, <1>6
  <2> QED
    BY <1>1, <1>2, <1>7, <2>1
<1>9. ASSUME NEW i \in 1 .. Len(t) - 1 PROVE i + d \in 1 .. Len(s) /\ t[i] = s[i + d]
  <2>1. i \in 1 .. Len(t) /\ i + d \in 1 .. Len(s)
    BY <1>1, <1>5, <1>6
  <2> QED
    BY <1>1, <1>2, <1>7, <2>1
<1>10. Shifted(s, x, t, d)
  BY <1>5, <1>8, <1>9 DEF Shifted
<1> QED
  BY <1>2, <1>3, <1>10

(* After a line of k: d lines fell out, the others are where they were among
   theirs, k's own one further back, and the line is the latest. *)
Pushed(f, g, k, line, u, v, d) ==
  /\ Len(u) = Len(v) /\ Len(u) \in Nat \ {0}
  /\ u[Len(u)] = k /\ v[Len(u)] = line /\ RankIn(u, Len(u)) = 1
  /\ \A i \in 1 .. Len(u) - 1 :
       /\ i + d \in 1 .. Len(f)
       /\ u[i] = f[i + d] /\ v[i] = g[i + d]
       /\ RankIn(u, i) = IF u[i] = k THEN RankIn(f, i + d) + 1 ELSE RankIn(f, i + d)

LEMMA PushedByAppend ==
  ASSUME NEW f \in Seq(Places), NEW g \in Seq(Lines), Len(f) = Len(g),
         NEW k \in Places, NEW line \in Lines, NEW m \in Nat \ {0}
  PROVE  \E d \in Nat :
           Pushed(f, g, k, line, LastOf(Append(f, k), m), LastOf(Append(g, line), m), d)
<1> DEFINE s == Append(f, k)
           n == Len(f)
<1>1. /\ s \in Seq(Places) /\ Len(s) = n + 1 /\ n \in Nat
      /\ s[n + 1] = k /\ \A i \in 1 .. n : s[i] = f[i]
  OBVIOUS
<1>2. /\ RankIn(s, n + 1) = 1
      /\ \A i \in 1 .. n : RankIn(s, i) = IF f[i] = k THEN RankIn(f, i) + 1 ELSE RankIn(f, i)
  BY RankOfAppend
<1>3. PICK u, v : u = LastOf(Append(f, k), m) /\ v = LastOf(Append(g, line), m)
  OBVIOUS
<1>4. PICK d \in Nat : Shifted(f, k, u, d)
  BY <1>3, AppendShifts
<1>5. PICK e \in Nat : Shifted(g, line, v, e)
  BY <1>3, AppendShifts
<1>6. u \in Seq(Places) /\ Len(u) = Len(v) /\ Len(u) \in Nat
  <2>1. /\ LastOf(Append(f, k), m) \in Seq(Places)
        /\ Len(LastOf(Append(f, k), m)) = Len(LastOf(Append(g, line), m))
    BY SameLength
  <2> QED
    BY <1>3, <2>1
<1> HIDE DEF s, n
<1>7. n + 1 = Len(u) + d /\ n + 1 = Len(u) + e
  BY <1>4, <1>5, <1>6 DEF Shifted, n
<1>8. d = e
  BY <1>1, <1>6, <1>7
<1>9. Len(u) \in Nat \ {0}
  <2>1. u = LastOf(s, m) /\ Len(u) = IF n < m THEN n + 1 ELSE m
    BY <1>3, LengthOfAppend DEF n, s
  <2> QED
    BY <1>1, <1>6, <2>1
<1>10. /\ u[Len(u)] = k /\ v[Len(u)] = line
       /\ \A i \in 1 .. Len(u) - 1 : i + d \in 1 .. n /\ u[i] = f[i + d] /\ v[i] = g[i + d]
  BY <1>4, <1>5, <1>6, <1>8 DEF Shifted, n
<1>11. ASSUME NEW i \in 1 .. Len(u) PROVE u[i] = s[i + d]
  <2>1. CASE i = Len(u)
    BY <1>1, <1>7, <1>10, <2>1
  <2>2. CASE i # Len(u)
    <3>1. i \in 1 .. Len(u) - 1
      BY <1>9, <2>2
    <3> QED
      BY <1>1, <1>10, <3>1
  <2> QED
    BY <2>1, <2>2
<1>12. ASSUME NEW i \in 1 .. Len(u) PROVE RankIn(u, i) = RankIn(s, i + d)
  <2>1. Len(s) = Len(u) + d
    BY <1>1, <1>7
  <2>2. Without(s, d, u)
    BY <1>11, <2>1 DEF Without
  <2>3. s \in Seq(Places)
    BY <1>1
  <2> QED
    BY <1>6, <2>2, <2>3, RankOfSuffix
<1>13. RankIn(u, Len(u)) = 1
  <2>1. Len(u) \in 1 .. Len(u) /\ Len(u) + d = n + 1
    BY <1>7, <1>9
  <2> QED
    BY <1>2, <1>12, <2>1
<1>14. ASSUME NEW i \in 1 .. Len(u) - 1
       PROVE  RankIn(u, i) = IF u[i] = k THEN RankIn(f, i + d) + 1 ELSE RankIn(f, i + d)
  <2>1. i \in 1 .. Len(u)
    BY <1>9
  <2>2. i + d \in 1 .. n /\ u[i] = f[i + d]
    BY <1>10
  <2> QED
    BY <1>2, <1>12, <2>1, <2>2
<1>15. Pushed(f, g, k, line, u, v, d)
  BY <1>6, <1>9, <1>10, <1>13, <1>14 DEF Pushed, n
<1> QED
  BY <1>3, <1>15

(* The key's own buffer, with the line. *)
LEMMA OwnCopyAgrees ==
  ASSUME NEW f \in Seq(Places), NEW g, NEW k, NEW line \in Lines,
         NEW u, NEW v, NEW d \in Nat, Pushed(f, g, k, line, u, v, d),
         NEW own \in Seq(Lines), NEW p \in Nat \ {0},
         \A i \in 1 .. Len(f) : f[i] = k => SameLine(f, g, i, own),
         NEW i \in 1 .. Len(u), u[i] = k
  PROVE  SameLine(u, v, i, LastOf(Append(own, line), p))
<1>0. PICK w : w = LastOf(Append(own, line), p)
  OBVIOUS
<1>1. PICK e \in Nat : Shifted(own, line, w, e)
  BY <1>0, AppendShifts
<1>2. Len(own) \in Nat /\ Len(w) \in Nat /\ Len(w) + e = Len(own) + 1
  <2>1. w \in Seq(Lines)
    BY <1>0, LengthOfAppend
  <2> QED
    BY <1>1, <2>1 DEF Shifted
<1>3. CASE i = Len(u)
  <2>1. RankIn(u, i) = 1 /\ v[i] = line
    BY <1>3 DEF Pushed
  <2>2. Len(w) - 1 + 1 = Len(w)
    BY <1>2
  <2> QED
    BY <1>0, <1>1, <2>1, <2>2 DEF SameLine, Shifted
<1>4. CASE i # Len(u)
  <2>1. i \in 1 .. Len(u) - 1
    BY <1>4 DEF Pushed
  <2>2. PICK r : r = RankIn(f, i + d)
    OBVIOUS
  <2>3. /\ i + d \in 1 .. Len(f) /\ f[i + d] = k /\ v[i] = g[i + d]
        /\ RankIn(u, i) = r + 1
    BY <2>1, <2>2 DEF Pushed
  <2>4. r \in Nat \ {0}
    BY <2>2, <2>3, RankIsPositive
  <2>5. ASSUME r + 1 <= Len(w)
        PROVE  w[Len(w) - (r + 1) + 1] = g[i + d]
    <3>1. r <= Len(own)
      BY <1>2, <2>4, <2>5
    <3>2. own[Len(own) - r + 1] = g[i + d]
      BY <2>2, <2>3, <3>1 DEF SameLine
    <3>3. /\ Len(w) - (r + 1) + 1 \in 1 .. Len(w) - 1
          /\ Len(w) - (r + 1) + 1 + e = Len(own) - r + 1
      BY <1>2, <2>4, <2>5, <3>1
    <3> QED
      BY <1>1, <3>2, <3>3 DEF Shifted
  <2> QED
    BY <1>0, <2>3, <2>5 DEF SameLine
<1> QED
  BY <1>3, <1>4

CopiesAgree ==
  \A i \in 1 .. Len(from) : SameLine(from, globalBuf.lines, i, Buffer(from[i]).lines)

LEMMA CopiesAreBuffers == TypeInv => (CopiesAgree <=> BuffersAgree)
<1> SUFFICES ASSUME TypeInv PROVE CopiesAgree <=> BuffersAgree
  OBVIOUS
<1>1. DOMAIN from = 1 .. Len(from)
  BY DEF TypeInv, BuffersTyped
<1>2. \A i : Rank(i) = RankIn(from, i)
  BY DEF Rank, RankIn
<1> QED
  BY <1>1, <1>2 DEF CopiesAgree, BuffersAgree, SameLine

LEMMA AppendLineAgrees ==
  ASSUME TypeInv, CopiesAgree, NEW k \in Places, NEW line \in Lines, AppendLine(k, line)
  PROVE  CopiesAgree'
<1>1. PICK f, g : f = from /\ g = globalBuf.lines
  OBVIOUS
<1>2. f \in Seq(Places) /\ g \in Seq(Lines) /\ Len(f) = Len(g)
  BY <1>1 DEF TypeInv, BuffersTyped, IsBuffer
<1>3. PICK u, v : /\ u = LastOf(Append(f, k), GlobalLines)
                  /\ v = LastOf(Append(g, line), GlobalLines)
  OBVIOUS
<1>4. from' = u /\ globalBuf'.lines = v
  BY <1>1, <1>3 DEF AppendLine, Appended
<1>5. GlobalLines \in Nat \ {0} /\ PerSourceLines \in Nat \ {0}
  BY EngineStateAssumption
<1>6. PICK d \in Nat : Pushed(f, g, k, line, u, v, d)
  BY <1>2, <1>3, <1>5, PushedByAppend
<1>7. PICK own : own = Buffer(k).lines
  OBVIOUS
<1>8. own \in Seq(Lines)
  BY <1>7 DEF TypeInv, BuffersTyped, IsBuffer, Buffer, EmptyBuffer
<1>9. \A i \in 1 .. Len(f) : f[i] = k => SameLine(f, g, i, own)
  BY <1>1, <1>7 DEF CopiesAgree
<1>10. /\ Buffer(k)'.lines = LastOf(Append(own, line), PerSourceLines)
       /\ \A j : j # k => Buffer(j)' = Buffer(j)
  BY <1>7 DEF AppendLine, With, Appended, Buffer
<1>11. ASSUME NEW i \in 1 .. Len(u)
       PROVE  SameLine(u, v, i, Buffer(u[i])'.lines)
  <2>1. CASE u[i] = k
    BY <1>2, <1>5, <1>6, <1>8, <1>9, <1>10, <2>1, OwnCopyAgrees
  <2>2. CASE u[i] # k
    <3>1. i \in 1 .. Len(u) - 1
      BY <1>6, <2>2 DEF Pushed
    <3>2. /\ i + d \in 1 .. Len(f) /\ u[i] = f[i + d] /\ v[i] = g[i + d]
          /\ RankIn(u, i) = RankIn(f, i + d)
      BY <1>6, <2>2, <3>1 DEF Pushed
    <3>3. SameLine(f, g, i + d, Buffer(f[i + d]).lines)
      BY <1>1, <3>2 DEF CopiesAgree
    <3>4. Buffer(u[i])' = Buffer(f[i + d])
      BY <1>10, <2>2, <3>2
    <3> QED
      BY <3>2, <3>3, <3>4 DEF SameLine
  <2> QED
    BY <2>1, <2>2
<1> QED
  BY <1>4, <1>11 DEF CopiesAgree

LEMMA ClearAgrees ==
  ASSUME TypeInv, CopiesAgree, NEW k, ClearSource(k)
  PROVE  CopiesAgree'
<1>1. /\ UNCHANGED <<globalBuf, from>>
      /\ Buffer(k)'.lines = << >>
      /\ \A j : j # k => Buffer(j)' = Buffer(j)
  BY DEF ClearSource, Buffer
<1>2. from \in Seq(Places)
  BY DEF TypeInv, BuffersTyped
<1>3. ASSUME NEW i \in 1 .. Len(from)
      PROVE  SameLine(from, globalBuf.lines, i, Buffer(from[i])'.lines)
  <2>1. CASE from[i] = k
    <3>1. RankIn(from, i) \in Nat \ {0}
      BY <1>2, RankIsPositive
    <3>2. ~ (RankIn(from, i) <= Len(<< >>))
      BY <3>1
    <3> QED
      BY <1>1, <2>1, <3>2 DEF SameLine
  <2>2. CASE from[i] # k
    BY <1>1, <2>2 DEF CopiesAgree
  <2> QED
    BY <2>1, <2>2
<1> QED
  BY <1>1, <1>3 DEF CopiesAgree

LEMMA AgreeStep == TypeInv /\ CopiesAgree /\ [Next]_vars => CopiesAgree'
<1> SUFFICES ASSUME TypeInv, CopiesAgree, [Next]_vars PROVE CopiesAgree'
  OBVIOUS
<1>1. ASSUME NEW k \in Keys, NEW line \in Lines, ApplyEvent(k, line)
      PROVE  CopiesAgree'
  <2>1. PICK j \in Places : AppendLine(j, line)
    BY <1>1 DEF ApplyEvent, Seen, Overflows, Places
  <2> QED
    BY <2>1, AppendLineAgrees
<1>2. CASE \E k \in Places : ClearSource(k)
  BY <1>2, ClearAgrees
<1>3. CASE UNCHANGED buffers
  BY <1>3 DEF buffers, CopiesAgree, Buffer
<1>4. CASE \/ \E f \in Filters : SetFilters(f)
           \/ \E k \in Places : \/ \E name \in Names : RenameSource(k, name)
                                \/ ToggleMuteSource(k)
           \/ BuildSnapshot
  BY <1>3, <1>4 DEF SetFilters, RenameSource, ToggleMuteSource, BuildSnapshot
<1>5. CASE UNCHANGED vars
  BY <1>3, <1>5 DEF vars
<1> QED
  BY <1>1, <1>2, <1>4, <1>5 DEF Next

(* For every traffic, every clear and every pair of capacities: the r-th latest
   line of a source in the global buffer is the r-th latest in its own buffer,
   whenever that buffer reaches so far (ingest.go:125-133, commands.go:165-174). *)
THEOREM CopiesHold == Spec => []BuffersAgree
<1>1. Init => CopiesAgree
  BY DEF Init, CopiesAgree
<1> QED
  BY <1>1, TypeInit, TypeStep, AgreeStep, CopiesAreBuffers, PTL DEF Spec

-------------------------------------------------------------------------------
(* The buffers as logs.  RingBuffer implements BoundedLog; here the engine uses
   its buffers as such logs, so that what this module shows of the lines it keeps
   holds of the arrays.  Buffer(k) is the buffer of source k, empty until the
   source has a line. *)
GlobalLog == INSTANCE BoundedLog
  WITH Entry <- Lines, Capacity <- GlobalLines, log <- globalBuf.lines

SourceLog(k) == INSTANCE BoundedLog
  WITH Entry <- Lines, Capacity <- PerSourceLines, log <- Buffer(k).lines

(* Of a sequence one too long, the last are all but the first. *)
LEMMA LastIsTail ==
  ASSUME NEW s \in Seq(Lines), NEW m \in Nat \ {0}, Len(s) <= m + 1
  PROVE  LastOf(s, m) = IF Len(s) > m THEN Tail(s) ELSE s
<1>1. Len(s) \in Nat
  OBVIOUS
<1>2. CASE Len(s) > m
  <2>1. Len(s) = m + 1
    BY <1>1, <1>2
  <2>2. Tail(s) = SubSeq(s, 2, Len(s))
    BY <1>2
  <2>3. Len(s) - m + 1 = 2
    BY <2>1
  <2> QED
    BY <1>2, <2>2, <2>3 DEF LastOf
<1> QED
  BY <1>2 DEF LastOf

LEMMA AppendedIsLatest ==
  ASSUME NEW m \in Nat \ {0}, NEW n, NEW b, IsBuffer(b, m, n), NEW line \in Lines
  PROVE  LET s == Append(b.lines, line)
         IN  Appended(b, line, m).lines = IF Len(s) > m THEN Tail(s) ELSE s
<1>1. /\ Append(b.lines, line) \in Seq(Lines)
      /\ Len(Append(b.lines, line)) <= m + 1
  BY DEF IsBuffer
<1> QED
  BY <1>1, LastIsTail DEF Appended

LEMMA LogStep ==
  ASSUME TypeInv, [Next]_vars
  PROVE  /\ [GlobalLog!Next]_(globalBuf.lines)
         /\ \A k \in Places : [SourceLog(k)!Next]_(Buffer(k).lines)
<1> USE EngineStateAssumption
<1>1. ASSUME NEW k \in Keys, NEW line \in Lines, ApplyEvent(k, line)
      PROVE  /\ GlobalLog!Next
             /\ \A j \in Places : [SourceLog(j)!Next]_(Buffer(j).lines)
  <2>1. PICK i \in Places : AppendLine(i, line)
    BY <1>1 DEF ApplyEvent, Seen, Overflows, Places
  <2>2. /\ globalBuf' = Appended(globalBuf, line, GlobalLines)
        /\ perSource' = With(perSource, i, Appended(Buffer(i), line, PerSourceLines))
    BY <2>1 DEF AppendLine
  <2>3. GlobalLog!AppendEntry(line)
    BY <2>2, AppendedIsLatest DEF GlobalLog!AppendEntry, GlobalLog!Latest, TypeInv, BuffersTyped
  <2>4. /\ Buffer(i)' = Appended(Buffer(i), line, PerSourceLines)
        /\ \A j : j # i => Buffer(j)' = Buffer(j)
    BY <2>2 DEF Buffer, With
  <2>5. IsBuffer(Buffer(i), PerSourceLines, events + commands)
    BY DEF TypeInv, BuffersTyped, CountersTyped, Buffer, EmptyBuffer, IsBuffer
  <2>6. SourceLog(i)!AppendEntry(line)
    BY <2>4, <2>5, AppendedIsLatest DEF SourceLog!AppendEntry, SourceLog!Latest
  <2> QED
    BY <2>3, <2>4, <2>6 DEF GlobalLog!Next, SourceLog!Next
<1>2. ASSUME NEW k \in Places, ClearSource(k)
      PROVE  /\ UNCHANGED globalBuf
             /\ \A j \in Places : [SourceLog(j)!Next]_(Buffer(j).lines)
  <2>1. /\ UNCHANGED globalBuf
        /\ Buffer(k)'.lines = << >>
        /\ \A j : j # k => Buffer(j)' = Buffer(j)
    BY <1>2 DEF ClearSource, Buffer
  <2> QED
    BY <2>1 DEF SourceLog!Next, SourceLog!Clear
<1>3. ASSUME UNCHANGED buffers
      PROVE  UNCHANGED globalBuf /\ \A k \in Places : UNCHANGED Buffer(k)
  BY <1>3 DEF buffers, Buffer
<1>4. CASE \/ \E f \in Filters : SetFilters(f)
           \/ \E k \in Places : \/ \E name \in Names : RenameSource(k, name)
                                \/ ToggleMuteSource(k)
           \/ BuildSnapshot
           \/ UNCHANGED vars
  BY <1>3, <1>4 DEF SetFilters, RenameSource, ToggleMuteSource, BuildSnapshot, vars
<1> QED
  BY <1>1, <1>2, <1>4 DEF Next

(* For every traffic, every sequence of commands and all capacities: the global
   buffer holds the latest lines of all sources, appended one at a time, and what
   each step does to it is an operation of the log (ingest.go:125-133). *)
THEOREM GlobalBufferIsLog == Spec => GlobalLog!Spec
<1>1. Init => GlobalLog!Init
  BY DEF Init, EmptyBuffer, GlobalLog!Init
<1>2. TypeInv /\ [Next]_vars => [GlobalLog!Next]_(globalBuf.lines)
  BY LogStep
<1> QED
  BY <1>1, <1>2, TypeInit, TypeStep, PTL DEF Spec, GlobalLog!Spec

(* So is the buffer of each source, from before its first line on: whichever
   sources events and commands are about, it is appended to, cleared or left
   alone (ingest.go:125-133, commands.go:165-174). *)
THEOREM SourceBuffersAreLogs ==
  ASSUME NEW k \in Places
  PROVE  Spec => SourceLog(k)!Spec
<1>1. Init => SourceLog(k)!Init
  BY DEF Init, Buffer, EmptyBuffer, SourceLog!Init
<1>2. TypeInv /\ [Next]_vars => [SourceLog(k)!Next]_(Buffer(k).lines)
  BY LogStep
<1> QED
  BY <1>1, <1>2, TypeInit, TypeStep, PTL DEF Spec, SourceLog!Spec
===============================================================================

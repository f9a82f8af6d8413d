------------------------------ MODULE EngineState ------------------------------
(***************************************************************************)
(* What the engine keeps and shows: sources and their settings, the line     *)
(* buffers, the filter and the cache of filtered lines (internal/engine:     *)
(* ingest.go applyEvent, commands.go, snapshot.go, filters.go).  Everything   *)
(* here runs inside the engine's goroutine, so an event, a command and a     *)
(* snapshot are one step each; module Ingest says how an event gets here,    *)
(* RingBuffer that a buffer is the log of its latest lines with a version    *)
(* that every change increases, and DropStats which errors a snapshot shows. *)
(***************************************************************************)
EXTENDS Integers, Sequences, FiniteSets, SequencesExt

CONSTANTS
  Keys,            (* source keys: hosts                                     *)
  Overflow,        (* the key "overflow"                                     *)
  Levels,          (* the levels a filter selects                            *)
  Error,           (* the level that is counted                              *)
  Unknown,         (* the level that every mask lets through                 *)
  Text,
  Masks,           (* the level masks that are used: sets of levels          *)
  Searches,        (* search texts that are used                             *)
  NoSearch,        (* the empty one                                          *)
  Matches,         (* the texts each of them is found in                     *)
  AnySource,       (* the empty source key of a filter                       *)
  Names,           (* names a user may give                                  *)
  MaxSources,
  PerSourceLines,  (* PerSourceBufferLines                                   *)
  GlobalLines,     (* GlobalBufferLines                                      *)
  MaxEvents,       (* bound on the events                                    *)
  MaxCommands,     (* bound on the commands                                  *)
  None             (* the filter of an empty cache                           *)

Places == Keys \cup {Overflow}

Filters == [source : Places \cup {AnySource}, mask : Masks, search : Searches]

ASSUME EngineStateAssumption ==
  /\ Overflow \notin Keys
  /\ AnySource \notin Places
  /\ Error \in Levels /\ Unknown \notin Levels
  /\ Levels \in Masks /\ Masks \subseteq SUBSET Levels
  /\ None \notin Filters
  /\ NoSearch \in Searches
  /\ Matches \in [Searches -> SUBSET Text] /\ Matches[NoSearch] = Text
  /\ {MaxSources, PerSourceLines, GlobalLines} \subseteq Nat \ {0}
  /\ {MaxEvents, MaxCommands} \subseteq Nat

VARIABLES
  sources,         (* name, muted and errors of each source there is         *)
  perSource,       (* the buffer of each source that ever had a line         *)
  globalBuf,
  overflowSources, (* events of sources there was no room for                *)
  filters,
  cache,           (* filterCache                                            *)
  events,          (* events so far                                          *)
  commands,        (* commands so far                                        *)
  from             (* for the properties: the key of each line in globalBuf  *)

tables == <<sources, overflowSources>>
buffers == <<perSource, globalBuf, from>>
vars == <<tables, buffers, filters, cache, events, commands>>

Lines == [text : Text, level : Levels \cup {Unknown}]

EmptyBuffer == [lines |-> << >>, version |-> 0]

(* The map f with v under k. *)
With(f, k, v) == [x \in DOMAIN f \cup {k} |-> IF x = k THEN v ELSE f[x]]

LastOf(s, n) == IF Len(s) > n THEN SubSeq(s, Len(s) - n + 1, Len(s)) ELSE s

Appended_Grows(buf, line, n) ==
  [lines |-> LastOf(Append(buf.lines, line), n + 1), version |-> buf.version + 1]

Appended(buf, line, n) ==
  [lines |-> LastOf(Append(buf.lines, line), n), version |-> buf.version + 1]

Init ==
  /\ sources = << >>
  /\ perSource = << >>
  /\ globalBuf = EmptyBuffer
  /\ overflowSources = 0
  /\ filters = [source |-> AnySource, mask |-> Levels, search |-> NoSearch]
  /\ cache = [version |-> 0, filters |-> None, lines |-> << >>]
  /\ events = 0
  /\ commands = 0
  /\ from = << >>

-------------------------------------------------------------------------------
(* Lines. *)

NewSource(k) == [name |-> k, muted |-> FALSE, errors |-> 0]

Buffer(k) == IF k \in DOMAIN perSource THEN perSource[k] ELSE EmptyBuffer

AppendLine_GlobalOnly(k, line) ==
  /\ IF k \in DOMAIN sources /\ sources[k].muted
     THEN UNCHANGED perSource
     ELSE perSource' = With(perSource, k, Appended(Buffer(k), line, PerSourceLines))
  /\ globalBuf' = Appended(globalBuf, line, GlobalLines)
  /\ from' = LastOf(Append(from, k), GlobalLines)

AppendLine(k, line) ==
  /\ perSource' = With(perSource, k, Appended(Buffer(k), line, PerSourceLines))
  /\ globalBuf' = Appended(globalBuf, line, GlobalLines)
  /\ from' = LastOf(Append(from, k), GlobalLines)

(* Of a source the engine knows, or has room for. *)
Seen_Recreates(k, line) ==
  /\ sources' = With(sources, k,
                      [NewSource(k) EXCEPT !.errors = IF line.level = Error THEN 1 ELSE 0])
  /\ AppendLine(k, line)
  /\ UNCHANGED overflowSources

Seen(k, line) ==
  LET source == IF k \in DOMAIN sources THEN sources[k] ELSE NewSource(k) IN
  /\ sources' = With(sources, k,
                      [source EXCEPT !.errors = IF line.level = Error THEN @ + 1 ELSE @])
  /\ AppendLine(k, line)
  /\ UNCHANGED overflowSources

(* Of one it has no room for: the line goes to the overflow source, which is
   made anew. *)
Overflows(k, line) ==
  /\ overflowSources' = overflowSources + 1
  /\ sources' = With(sources, Overflow, NewSource(Overflow))
  /\ AppendLine(Overflow, line)

HasRoomFor_OneMore(k) == k \in DOMAIN sources \/ Cardinality(DOMAIN sources) <= MaxSources

HasRoomFor(k) == k \in DOMAIN sources \/ Cardinality(DOMAIN sources) < MaxSources

ApplyEvent(k, line) ==
  /\ events < MaxEvents
  /\ events' = events + 1
  /\ IF HasRoomFor(k) THEN Seen(k, line) ELSE Overflows(k, line)
  /\ UNCHANGED <<filters, cache, commands>>

-------------------------------------------------------------------------------
(* Commands.  One about a source that does not exist changes nothing (it counts
   as an error of the engine, see module Commands). *)

Command == commands < MaxCommands /\ commands' = commands + 1

SetFilters(f) ==
  /\ Command
  /\ filters' = f
  /\ UNCHANGED <<tables, buffers, cache, events>>

RenameSource(k, name) ==
  /\ Command
  /\ k \in DOMAIN sources
  /\ sources' = [sources EXCEPT ![k].name = name]
  /\ UNCHANGED <<overflowSources, buffers, filters, cache, events>>

ToggleMuteSource(k) ==
  /\ Command
  /\ k \in DOMAIN sources
  /\ sources' = [sources EXCEPT ![k].muted = ~@]
  /\ UNCHANGED <<overflowSources, buffers, filters, cache, events>>

ClearSource_KeepsVersion(k) ==
  /\ Command
  /\ k \in DOMAIN perSource
  /\ perSource' = [perSource EXCEPT ![k].lines = << >>]
  /\ UNCHANGED <<tables, globalBuf, from, filters, cache, events>>

ClearSource(k) ==
  /\ Command
  /\ k \in DOMAIN perSource
  /\ perSource' = [perSource EXCEPT ![k] = [lines |-> << >>, version |-> @.version + 1]]
  /\ UNCHANGED <<tables, globalBuf, from, filters, cache, events>>

-------------------------------------------------------------------------------
(* Snapshots. *)

BufferOf(f) == IF f.source = AnySource THEN globalBuf ELSE Buffer(f.source)

Selected == BufferOf(filters)

(* By level and by text.  A line without a level passes every mask. *)
Filtered(lines, f) ==
  SelectSeq(lines, LAMBDA line : /\ line.text \in Matches[f.search]
                                 /\ line.level = Unknown \/ line.level \in f.mask)

CacheHits == cache.version = Selected.version /\ cache.filters = filters

BuildSnapshot ==
  /\ LET lines == IF CacheHits THEN cache.lines ELSE Filtered(Selected.lines, filters) IN
     cache' = [version |-> Selected.version, filters |-> filters, lines |-> lines]
  /\ UNCHANGED <<tables, buffers, filters, events, commands>>

-------------------------------------------------------------------------------
Next ==
  \/ \E k \in Keys, line \in Lines : ApplyEvent(k, line)
  \/ \E f \in Filters : SetFilters(f)
  \/ \E k \in Places :
       \/ \E name \in Names : RenameSource(k, name)
       \/ ToggleMuteSource(k)
       \/ ClearSource(k)
  \/ BuildSnapshot

Spec == Init /\ [][Next]_vars

-------------------------------------------------------------------------------
(* Type correctness. *)
Buffers(n) == [lines : BoundedSeq(Lines, n), version : 0 .. MaxEvents + MaxCommands]

TypeOK ==
  /\ DOMAIN sources \subseteq Places
  /\ \A k \in DOMAIN sources :
       sources[k] \in [name : Places \cup Names, muted : BOOLEAN, errors : 0 .. MaxEvents]
  /\ DOMAIN sources \subseteq DOMAIN perSource
  /\ \A k \in DOMAIN perSource : perSource[k] \in Buffers(PerSourceLines)
  /\ globalBuf \in Buffers(GlobalLines)
  /\ Len(from) = Len(globalBuf.lines)
  /\ overflowSources \in 0 .. MaxEvents
  /\ filters \in Filters

(* A snapshot always has the lines that pass the filter now, whichever source was
   selected, cleared, filled or created since the cache was made
   (snapshot.go:48-79). *)
SnapshotIsFresh ==
  CacheHits => cache.lines = Filtered(Selected.lines, filters)

(* However many hosts send, the engine keeps MaxSources sources besides the overflow
   source, and one buffer for each (ingest.go:107-117). *)
SourcesBounded ==
  /\ Cardinality(DOMAIN sources \ {Overflow}) <= MaxSources
  /\ DOMAIN perSource = DOMAIN sources

(* The place of the line globalBuf.lines[i] among its source's lines in the global
   buffer, the latest of them first. *)
Rank(i) == Cardinality({j \in i .. Len(from) : from[j] = from[i]})

(* The two copies of a line agree: the latest lines of a source in the global
   buffer and in its own are the same, in the same order (ingest.go:125-133). *)
BuffersAgree ==
  \A i \in DOMAIN from :
    LET own == Buffer(from[i]).lines
    IN Rank(i) <= Len(own) => own[Len(own) - Rank(i) + 1] = globalBuf.lines[i]

(* A user's settings of a source, its name and whether it is muted, change only by
   a rename or a mute of that very source: no line, no command about another source
   and no clearing or filter resets them, and the source is never forgotten; the
   overflow source excepted (ingest.go:112, commands.go:129-163). *)
SettingsLast ==
  [][\A k \in DOMAIN sources \ {Overflow} :
       /\ k \in DOMAIN sources'
       /\ sources'[k].name # sources[k].name =>
            \E name \in Names : RenameSource(k, name)
       /\ sources'[k].muted # sources[k].muted => ToggleMuteSource(k)]_vars
===============================================================================

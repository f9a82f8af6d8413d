------------------------------- MODULE DropStats -------------------------------
(***************************************************************************)
(* How dropped and erroneous lines are counted and shown.  A read loop that  *)
(* drops a line counts it in the server, for its listener and its source     *)
(* (internal/server/server.go), and tells the engine through a channel that  *)
(* loses what it has no room for (internal/engine/engine.go DropSink).  The  *)
(* engine collects those updates, adds them to counters of its own when a    *)
(* ticker fires (stats.go), and adds the server's counters to them in every  *)
(* snapshot (snapshot.go).  Updates with errors and no drops, which a        *)
(* rejected or ended connection sends, stop at internal/app/runtime.go:36.   *)
(***************************************************************************)
EXTENDS Integers, Sequences, FiniteSets, SequencesExt

CONSTANTS
  Listeners,    (* ids of listeners                                          *)
  Conns,        (* TCP connections                                           *)
  ListenerOf,   (* the listener each of them comes to                        *)
  SourceOf,     (* and the source it comes from                              *)
  ShardOf,      (* the shard of each source                                  *)
  QueueSize,    (* capacity of dropUpdates (1024)                            *)
  MaxStarts,    (* bound on the starts of a listener                         *)
  MaxDrops,     (* bound on the lines dropped                                *)
  MaxErrors,    (* bound on the error lines                                  *)
  None          (* no snapshot yet                                           *)

Sources == Range(SourceOf)

ASSUME DropStatsAssumption ==
  /\ IsFiniteSet(Conns)
  /\ ListenerOf \in [Conns -> Listeners]
  /\ DOMAIN SourceOf = Conns
  /\ DOMAIN ShardOf = Sources
  /\ QueueSize \in Nat \ {0}
  /\ {MaxStarts, MaxDrops, MaxErrors} \subseteq Nat

VARIABLES
  starts,         (* how often each listener was started                     *)
  current,        (* which start of it is in the server's table, 0: none     *)
  pc, of,         (* where a read loop is, and for which start               *)
  listenerDropped, sourceDropped,             (* the server's counters       *)
  dropUpdates,    (* the connections of the updates in the channel           *)
  batch,          (* statAgg.queue, likewise                                 *)
  dropped, listenerDrops, sourceDrops, shardDrops,   (* the engine's         *)
  listenerErrors, sourceErrors,
  at, read,       (* the engine in a snapshot, and what it has read          *)
  shown,          (* the latest snapshot                                     *)
  drops, lost,    (* for the properties: lines each connection had dropped,  *)
  stopped         (* updates lost, and listeners stopped since the snapshot  *)

listening == <<starts, current, stopped>>
reading == <<pc, of>>
server == <<listenerDropped, sourceDropped>>
channel == <<dropUpdates, batch>>
counts == <<dropped, listenerDrops, sourceDrops, shardDrops>>
errors == <<listenerErrors, sourceErrors>>
snapshot == <<at, read, shown>>
ghosts == <<drops, lost>>
vars == <<listening, reading, server, channel, counts, errors, snapshot, ghosts>>

(* A Go map: a missing key counts as zero. *)
At(f, k) == IF k \in DOMAIN f THEN f[k] ELSE 0

(* f with one more for each k in s. *)
Tally(f, s) ==
  [k \in DOMAIN f \cup Range(s) |-> At(f, k) + Cardinality({i \in DOMAIN s : s[i] = k})]

Mapped(g, s) == [i \in DOMAIN s |-> g[s[i]]]

(* The lines that f counts of the connections in C: the first f[c] of each c. *)
Total(f, C) == Cardinality({n \in C \X (1 .. MaxDrops) : n[2] <= f[n[1]]})

Init ==
  /\ starts = [l \in Listeners |-> 0]
  /\ current = [l \in Listeners |-> 0]
  /\ pc = [c \in Conns |-> "new"]
  /\ of = [c \in Conns |-> 0]
  /\ listenerDropped = << >> /\ sourceDropped = << >>
  /\ dropUpdates = << >> /\ batch = << >>
  /\ dropped = 0
  /\ listenerDrops = << >> /\ sourceDrops = << >> /\ shardDrops = << >>
  /\ listenerErrors = << >> /\ sourceErrors = << >>
  /\ at = "select" /\ read = << >> /\ shown = None
  /\ drops = [c \in Conns |-> 0] /\ lost = [c \in Conns |-> 0]
  /\ stopped = {}

-------------------------------------------------------------------------------
(* The engine starts and stops listeners between its other cases: never during
   a snapshot.  A listener that is started again has new counters. *)
StartListener(l) ==
  /\ at = "select"
  /\ current[l] = 0 /\ starts[l] < MaxStarts
  /\ starts' = [starts EXCEPT ![l] = @ + 1]
  /\ current' = [current EXCEPT ![l] = starts[l] + 1]
  /\ UNCHANGED <<stopped, reading, server, channel, counts, errors, snapshot, ghosts>>

StopListener(l) ==
  /\ at = "select"
  /\ current[l] # 0
  /\ current' = [current EXCEPT ![l] = 0]
  /\ stopped' = stopped \cup {l}
  /\ UNCHANGED <<starts, reading, server, channel, counts, errors, snapshot, ghosts>>

-------------------------------------------------------------------------------
(* The read loop of a connection. *)

OpenFor(c, table) ==
  /\ pc[c] = "new" /\ current[ListenerOf[c]] # 0
  /\ of' = [of EXCEPT ![c] = current[ListenerOf[c]]]
  /\ pc' = [pc EXCEPT ![c] = "top"]
  /\ sourceDropped' = table
  /\ UNCHANGED <<listenerDropped, listening, channel, counts, errors, snapshot, ghosts>>

Open_NewEntry(c) ==
  OpenFor(c, [k \in DOMAIN sourceDropped \cup {SourceOf[c]} |->
                IF k = SourceOf[c] THEN 0 ELSE sourceDropped[k]])

(* Connections of one source share its entry of the table. *)
Open(c) ==
  OpenFor(c, [k \in DOMAIN sourceDropped \cup {SourceOf[c]} |-> At(sourceDropped, k)])

(* Between two lines it looks whether the listener was stopped; the next line may
   arrive after that. *)
NextLine(c) ==
  /\ pc[c] = "top"
  /\ pc' = [pc EXCEPT ![c] = IF current[ListenerOf[c]] = of[c] THEN "reading" ELSE "closed"]
  /\ UNCHANGED <<of, listening, server, channel, counts, errors, snapshot, ghosts>>

(* The shard had no room (module Ingest says when). *)
DropLine(c) ==
  /\ pc[c] = "reading"
  /\ Total(drops, Conns) < MaxDrops
  /\ drops' = [drops EXCEPT ![c] = @ + 1]
  /\ listenerDropped' = Tally(listenerDropped, << <<ListenerOf[c], of[c]>> >>)
  /\ pc' = [pc EXCEPT ![c] = "source"]
  /\ UNCHANGED <<of, listening, sourceDropped, channel, counts, errors, snapshot, lost>>

CountSource(c) ==
  /\ pc[c] = "source"
  /\ sourceDropped' = [sourceDropped EXCEPT ![SourceOf[c]] = @ + 1]
  /\ pc' = [pc EXCEPT ![c] = "emit"]
  /\ UNCHANGED <<of, listening, listenerDropped, channel, counts, errors, snapshot, ghosts>>

EmitInto(c, room) ==
  /\ pc[c] = "emit"
  /\ IF room
     THEN dropUpdates' = Append(dropUpdates, c) /\ UNCHANGED lost
     ELSE lost' = [lost EXCEPT ![c] = @ + 1] /\ UNCHANGED dropUpdates
  /\ pc' = [pc EXCEPT ![c] = "top"]
  /\ UNCHANGED <<of, listening, server, batch, counts, errors, snapshot, drops>>

EmitDrop_OneTooMany(c) == EmitInto(c, Len(dropUpdates) <= QueueSize)

EmitDrop(c) == EmitInto(c, Len(dropUpdates) < QueueSize)

(* The peer closes: the update it causes has no drops and goes nowhere. *)
EndOfInput(c) ==
  /\ pc[c] = "reading"
  /\ pc' = [pc EXCEPT ![c] = "closed"]
  /\ UNCHANGED <<of, listening, server, channel, counts, errors, snapshot, ghosts>>

-------------------------------------------------------------------------------
(* The engine. *)

(* A line of level error is applied, at any time after it was read. *)
ApplyError(c) ==
  /\ at = "select"
  /\ pc[c] # "new"
  /\ SumFunction(sourceErrors) < MaxErrors
  /\ sourceErrors' = Tally(sourceErrors, <<SourceOf[c]>>)
  /\ listenerErrors' = Tally(listenerErrors, <<ListenerOf[c]>>)
  /\ UNCHANGED <<listening, reading, server, channel, counts, snapshot, ghosts>>

Collect ==
  /\ at = "select"
  /\ dropUpdates # << >>
  /\ batch' = Append(batch, Head(dropUpdates))
  /\ dropUpdates' = Tail(dropUpdates)
  /\ UNCHANGED <<listening, reading, server, counts, errors, snapshot, ghosts>>

CountBatch ==
  /\ dropped' = dropped + Len(batch)
  /\ listenerDrops' = Tally(listenerDrops, Mapped(ListenerOf, batch))
  /\ sourceDrops' = Tally(sourceDrops, Mapped(SourceOf, batch))
  /\ shardDrops' = Tally(shardDrops, Mapped(ShardOf, Mapped(SourceOf, batch)))

FlushStats_KeepsBatch ==
  /\ at = "select" /\ batch # << >> /\ dropped < MaxDrops
  /\ CountBatch
  /\ UNCHANGED <<batch, dropUpdates, listening, reading, server, errors, snapshot, ghosts>>

FlushStats_FullOnly ==
  /\ at = "select" /\ Len(batch) > QueueSize
  /\ CountBatch
  /\ batch' = << >>
  /\ UNCHANGED <<dropUpdates, listening, reading, server, errors, snapshot, ghosts>>

(* The ticker of the aggregator fires; with nothing collected it changes nothing. *)
FlushStats ==
  /\ at = "select" /\ batch # << >>
  /\ CountBatch
  /\ batch' = << >>
  /\ UNCHANGED <<dropUpdates, listening, reading, server, errors, snapshot, ghosts>>

(* A snapshot asks the server for its listeners first ... *)
ReadListenerStats ==
  /\ at = "select"
  /\ at' = "sources"
  /\ read' = [l \in {k \in Listeners : current[k] # 0} |->
                At(listenerDropped, <<l, current[l]>>)]
  /\ UNCHANGED <<shown, listening, reading, server, channel, counts, errors, ghosts>>

(* mergeListenerStats, mergeSourceStats: errors are added where an entry comes
   from the server's table or from the drops, and once more for every entry. *)
Merged(base, dropsOf, errorsOf) ==
  [k \in DOMAIN base \cup DOMAIN dropsOf \cup DOMAIN errorsOf |->
    [dropped |-> At(base, k) + At(dropsOf, k),
     errors  |-> IF k \in DOMAIN base \cup DOMAIN dropsOf
                 THEN 2 * At(errorsOf, k) ELSE errorsOf[k]]]

(* ... and then for its sources, while read loops go on counting. *)
BuildSnapshot ==
  /\ at = "sources"
  /\ shown' = [listeners |-> Merged(read, listenerDrops, listenerErrors),
               sources |-> Merged(sourceDropped, sourceDrops, sourceErrors)]
  /\ at' = "select" /\ read' = << >> /\ stopped' = {}
  /\ UNCHANGED <<starts, current, reading, server, channel, counts, errors, ghosts>>

-------------------------------------------------------------------------------
ReadLoop(c) ==
  \/ Open(c) \/ NextLine(c) \/ EndOfInput(c)
  \/ DropLine(c) \/ CountSource(c) \/ EmitDrop(c)

Next ==
  \/ \E l \in Listeners : StartListener(l) \/ StopListener(l)
  \/ \E c \in Conns : ReadLoop(c) \/ ApplyError(c)
  \/ Collect \/ FlushStats
  \/ ReadListenerStats \/ BuildSnapshot

Spec == Init /\ [][Next]_vars

(* The engine's loop turns: a snapshot that was begun ends, and a case of its select
   that is ready again and again is chosen in the end. *)
FairSpec == Spec /\ WF_vars(BuildSnapshot) /\ SF_vars(Collect) /\ SF_vars(FlushStats)

-------------------------------------------------------------------------------
(* Type correctness, the capacity of the channel included. *)
TypeOK ==
  /\ starts \in [Listeners -> 0 .. MaxStarts]
  /\ \A l \in Listeners : current[l] \in {0, starts[l]}
  /\ pc \in [Conns -> {"new", "top", "reading", "source", "emit", "closed"}]
  /\ of \in [Conns -> 0 .. MaxStarts]
  /\ DOMAIN listenerDropped \subseteq Listeners \X (1 .. MaxStarts)
  /\ DOMAIN sourceDropped = {SourceOf[c] : c \in {d \in Conns : pc[d] # "new"}}
  /\ Len(dropUpdates) <= QueueSize
  /\ Range(dropUpdates) \cup Range(batch) \subseteq Conns
  /\ DOMAIN listenerErrors \cup DOMAIN listenerDrops \cup DOMAIN read \subseteq Listeners
  /\ DOMAIN sourceErrors \cup DOMAIN sourceDrops \subseteq DOMAIN sourceDropped
  /\ at \in {"select", "sources"}

(* Updates of the connections in C that are on their way to the engine's counters. *)
Underway(C) ==
  Cardinality({i \in DOMAIN dropUpdates : dropUpdates[i] \in C})
    + Cardinality({i \in DOMAIN batch : batch[i] \in C})
    + Cardinality({c \in C : pc[c] \in {"source", "emit"}})

Accounts(counter, C) ==
  Total(drops, C) = counter + Underway(C) + Total(lost, C)

(* Every dropped line is in the engine's counters, or on its way to them, or was
   lost with a full channel, and that once: in the total, for its listener, for its
   source and for its shard (server.go:161-167, engine.go:147-157, stats.go:49-66). *)
EveryDropAccounted ==
  /\ Accounts(dropped, Conns)
  /\ \A l \in Listeners : Accounts(At(listenerDrops, l), {c \in Conns : ListenerOf[c] = l})
  /\ \A k \in Sources : Accounts(At(sourceDrops, k), {c \in Conns : SourceOf[c] = k})
  /\ \A s \in Range(ShardOf) :
       Accounts(At(shardDrops, s), {c \in Conns : ShardOf[SourceOf[c]] = s})

(* From one snapshot to the next the drops of a source never fall, whichever
   connections come and go, and those of a listener only when it was stopped in
   between (server.go:199-262; snapshot.go:119-159). *)
NeverFalls(before, after) ==
  \A k \in DOMAIN before : k \in DOMAIN after /\ after[k].dropped >= before[k].dropped

ShownNeverFalls ==
  [][shown # None =>
       /\ NeverFalls(shown.sources, shown'.sources)
       /\ NeverFalls([l \in DOMAIN shown.listeners \ stopped |-> shown.listeners[l]],
                     shown'.listeners)]_vars

(* Every update the channel took is counted in the end, although drops, snapshots
   and commands compete with it for the engine's loop (engine.go:180-184).  That the
   aggregator's ticker goes on firing is assumed: its period, and the Reset that
   changes it while the batch is full (stats.go:22-33), are left out. *)
AcceptedIsCounted ==
  \A n \in 1 .. MaxDrops :
    dropped + Len(dropUpdates) + Len(batch) >= n ~> dropped >= n

(* "Tracks listeners and source-level activity (connections, drops, errors)"
   (README.md:14): a snapshot shows no more drops than there were. *)
DropsShownOnce ==
  shown # None =>
    /\ \A l \in DOMAIN shown.listeners :
         shown.listeners[l].dropped
           <= Total(drops, {c \in Conns : ListenerOf[c] = l})
    /\ \A k \in DOMAIN shown.sources :
         shown.sources[k].dropped
           <= Total(drops, {c \in Conns : SourceOf[c] = k})
===============================================================================

-------------------------------- MODULE Ingest --------------------------------
(***************************************************************************)
(* The path of a log line from its TCP connection to the engine's buffers:  *)
(* one read loop per connection (internal/server/server.go), one bounded    *)
(* channel per shard, and then, in asynchronous mode, one forwarder per     *)
(* shard that moves lines into a second bounded channel which the engine's  *)
(* select loop empties, in synchronous mode a tick of that loop which       *)
(* drains the shards itself (internal/engine/ingest.go, engine.go).         *)
(* The other cases of the select loop leave this state alone.               *)
(***************************************************************************)
EXTENDS Integers, Sequences, Functions

CONSTANTS
  Conns,        (* TCP connections                                         *)
  NumShards,    (* Limits.ShardCount                                       *)
  ShardOf,      (* shard of each connection: a hash of its source          *)
  QueueSize,    (* Limits.QueueSizePerShard                                *)
  IngestSize,   (* capacity of ingestCh                                    *)
  Burst,        (* lines one turn of the loop takes beyond the first (32)  *)
  Batch,        (* Limits.DrainBatchSize                                   *)
  MaxLines      (* bound on the lines of a connection, for model checking  *)

Shards == 1 .. NumShards

ASSUME IngestAssumption ==
  /\ NumShards \in Nat \ {0}
  /\ ShardOf \in [Conns -> Shards]
  /\ QueueSize \in Nat \ {0}
  /\ IngestSize \in Nat \ {0}
  /\ Burst \in Nat
  /\ Batch \in Nat \ {0}
  /\ MaxLines \in Nat

VARIABLES
  sent,         (* lines read so far, per connection                       *)
  dropped,      (* lines refused by a full shard                           *)
  queue,        (* eventCh, per shard                                      *)
  hand,         (* the line a forwarder holds between its two channels     *)
  forwarding,   (* the forwarders still running                            *)
  ingest,       (* ingestCh                                                *)
  at,           (* where the engine goroutine is                           *)
  shard, left,  (* the loop variables of drainEvents and drainIngestBurst  *)
  applied,      (* the lines given to applyEvent, in order                 *)
  pendingLogs,  (* lines applied and not yet in the rate counter           *)
  counted,      (* sum of what was added to logsPerSec                     *)
  running,      (* the context has not been cancelled                      *)
  mode          (* Limits.AsyncIngest, a flag of the program                *)

channels == <<queue, hand, ingest>>
engine == <<at, shard, left, applied, pendingLogs, counted>>
vars == <<sent, dropped, forwarding, running, mode, channels, engine>>

Line == [conn : Conns, n : 1 .. MaxLines]

Init ==
  /\ sent = [c \in Conns |-> 0]
  /\ dropped = {}
  /\ queue = [s \in Shards |-> << >>]
  /\ hand = [s \in Shards |-> {}]
  /\ mode \in {"async", "sync"}
  /\ forwarding = IF mode = "async" THEN Shards ELSE {}
  /\ ingest = << >>
  /\ at = "select"
  /\ shard = 1
  /\ left = 0
  /\ applied = << >>
  /\ pendingLogs = 0
  /\ counted = 0
  /\ running = TRUE

-------------------------------------------------------------------------------
(* The read loop of a connection. *)

ReadLine_Oversized(c) ==
  LET line == [conn |-> c, n |-> sent[c] + 1]
      s == ShardOf[c]
  IN  /\ sent[c] < MaxLines
      /\ sent' = [sent EXCEPT ![c] = @ + 1]
      /\ \/ /\ Len(queue[s]) <= QueueSize
            /\ queue' = [queue EXCEPT ![s] = Append(@, line)]
            /\ UNCHANGED dropped
         \/ /\ Len(queue[s]) > QueueSize
            /\ dropped' = dropped \cup {line}
            /\ UNCHANGED queue
      /\ UNCHANGED <<hand, ingest, forwarding, running, mode, engine>>

ReadLine_AnyShard(c) ==
  LET line == [conn |-> c, n |-> sent[c] + 1]
      s == 1 + (sent[c] % NumShards)
  IN  /\ sent[c] < MaxLines
      /\ sent' = [sent EXCEPT ![c] = @ + 1]
      /\ \/ /\ Len(queue[s]) < QueueSize
            /\ queue' = [queue EXCEPT ![s] = Append(@, line)]
            /\ UNCHANGED dropped
         \/ /\ Len(queue[s]) >= QueueSize
            /\ dropped' = dropped \cup {line}
            /\ UNCHANGED queue
      /\ UNCHANGED <<hand, ingest, forwarding, running, mode, engine>>

ReadLine_EvictsOldest(c) ==
  LET line == [conn |-> c, n |-> sent[c] + 1]
      s == ShardOf[c]
      kept == IF Len(queue[s]) < QueueSize THEN queue[s] ELSE Tail(queue[s])
  IN  /\ sent[c] < MaxLines
      /\ sent' = [sent EXCEPT ![c] = @ + 1]
      /\ queue' = [queue EXCEPT ![s] = Append(kept, line)]
      /\ UNCHANGED <<dropped, hand, ingest, forwarding, running, mode, engine>>

(* A line goes to the shard of its source when there is room, and is dropped
   when there is none: the read loop never blocks. *)
ReadLine(c) ==
  LET line == [conn |-> c, n |-> sent[c] + 1]
      s == ShardOf[c]
  IN  /\ sent[c] < MaxLines
      /\ sent' = [sent EXCEPT ![c] = @ + 1]
      /\ \/ /\ Len(queue[s]) < QueueSize
            /\ queue' = [queue EXCEPT ![s] = Append(@, line)]
            /\ UNCHANGED dropped
         \/ /\ Len(queue[s]) >= QueueSize
            /\ dropped' = dropped \cup {line}
            /\ UNCHANGED queue
      /\ UNCHANGED <<hand, ingest, forwarding, running, mode, engine>>

-------------------------------------------------------------------------------
(* The forwarder of a shard. *)

ForwarderTake(s) ==
  /\ s \in forwarding
  /\ hand[s] = {}
  /\ queue[s] # << >>
  /\ hand' = [hand EXCEPT ![s] = {Head(queue[s])}]
  /\ queue' = [queue EXCEPT ![s] = Tail(@)]
  /\ UNCHANGED <<sent, dropped, ingest, forwarding, running, mode, engine>>

ForwarderSend(s) ==
  /\ s \in forwarding
  /\ Len(ingest) < IngestSize
  /\ \E line \in hand[s] : ingest' = Append(ingest, line)
  /\ hand' = [hand EXCEPT ![s] = {}]
  /\ UNCHANGED <<sent, dropped, queue, forwarding, running, mode, engine>>

(* Either select may choose the cancelled context; a line in hand stays there
   for good. *)
ForwarderStop(s) ==
  /\ ~running
  /\ s \in forwarding
  /\ forwarding' = forwarding \ {s}
  /\ UNCHANGED <<sent, dropped, running, mode, channels, engine>>

-------------------------------------------------------------------------------
(* The engine goroutine. *)

Apply(line) == applied' = Append(applied, line)

TakeIngested_Uncounted ==
  /\ ingest # << >>
  /\ Apply(Head(ingest))
  /\ ingest' = Tail(ingest)
  /\ UNCHANGED pendingLogs

(* consumeIngestEvent *)
TakeIngested ==
  /\ ingest # << >>
  /\ Apply(Head(ingest))
  /\ ingest' = Tail(ingest)
  /\ pendingLogs' = pendingLogs + 1

(* The select loop receives from ingestCh ... *)
Consume ==
  /\ at = "select"
  /\ TakeIngested
  /\ at' = "burst"
  /\ left' = Burst
  /\ UNCHANGED <<sent, dropped, queue, hand, forwarding, shard, counted, running, mode>>

(* ... and takes what else is there, up to the burst, before it selects again. *)
BurstConsume ==
  /\ at = "burst"
  /\ left > 0
  /\ TakeIngested
  /\ left' = left - 1
  /\ UNCHANGED <<sent, dropped, queue, hand, forwarding, at, shard, counted, running, mode>>

BurstEnd ==
  /\ at = "burst"
  /\ left = 0 \/ ingest = << >>
  /\ at' = "select"
  /\ left' = 0
  /\ UNCHANGED <<sent, dropped, forwarding, running, mode, channels, shard, applied, pendingLogs, counted>>

(* flushPendingLogs, and logsPerSec.Add(processed) *)
FlushPending ==
  /\ counted' = counted + pendingLogs
  /\ pendingLogs' = 0

TickAsync ==
  /\ mode = "async"
  /\ at = "select"
  /\ FlushPending
  /\ UNCHANGED <<sent, dropped, forwarding, running, mode, channels, at, shard, left, applied>>

(* How many lines drainEvents takes from a shard: its backlog, at least one
   batch of attempts and at most four batches. *)
DrainLimit(s) ==
  LET pending == Len(queue[s]) IN
  CASE pending <= Batch     -> Batch
    [] pending > 4 * Batch  -> 4 * Batch
    [] OTHER                -> pending

TickSync ==
  /\ mode = "sync"
  /\ at = "select"
  /\ at' = "drain"
  /\ shard' = 1
  /\ left' = DrainLimit(1)
  /\ UNCHANGED <<sent, dropped, forwarding, running, mode, channels, applied, pendingLogs, counted>>

DrainConsume_Newest ==
  /\ at = "drain"
  /\ left > 0
  /\ queue[shard] # << >>
  /\ Apply(queue[shard][Len(queue[shard])])
  /\ queue' = [queue EXCEPT ![shard] = SubSeq(@, 1, Len(@) - 1)]
  /\ pendingLogs' = pendingLogs + 1
  /\ left' = left - 1
  /\ UNCHANGED <<sent, dropped, hand, ingest, forwarding, running, mode, at, shard, counted>>

DrainConsume ==
  /\ at = "drain"
  /\ left > 0
  /\ queue[shard] # << >>
  /\ Apply(Head(queue[shard]))
  /\ queue' = [queue EXCEPT ![shard] = Tail(@)]
  /\ pendingLogs' = pendingLogs + 1
  /\ left' = left - 1
  /\ UNCHANGED <<sent, dropped, hand, ingest, forwarding, running, mode, at, shard, counted>>

DrainShardEnd == at = "drain" /\ (left = 0 \/ queue[shard] = << >>)

DrainNextShard ==
  /\ DrainShardEnd
  /\ shard < NumShards
  /\ shard' = shard + 1
  /\ left' = DrainLimit(shard + 1)
  /\ UNCHANGED <<sent, dropped, forwarding, running, mode, channels, at, applied, pendingLogs, counted>>

DrainEnd_FirstShardOnly ==
  /\ DrainShardEnd
  /\ at' = "select"
  /\ shard' = 1
  /\ left' = 0
  /\ FlushPending
  /\ UNCHANGED <<sent, dropped, forwarding, running, mode, channels, applied>>

DrainEnd ==
  /\ DrainShardEnd
  /\ shard = NumShards
  /\ at' = "select"
  /\ shard' = 1
  /\ left' = 0
  /\ FlushPending
  /\ UNCHANGED <<sent, dropped, forwarding, running, mode, channels, applied>>

EngineStop ==
  /\ ~running
  /\ at = "select"
  /\ at' = "stopped"
  /\ UNCHANGED <<sent, dropped, forwarding, running, mode, channels, shard, left, applied, pendingLogs, counted>>

Cancel ==
  /\ running
  /\ running' = FALSE
  /\ UNCHANGED <<sent, dropped, forwarding, mode, channels, engine>>

-------------------------------------------------------------------------------
Engine ==
  \/ Consume \/ BurstConsume \/ BurstEnd
  \/ TickAsync
  \/ TickSync \/ DrainConsume \/ DrainNextShard \/ DrainEnd
  \/ EngineStop

Forwarder(s) == ForwarderTake(s) \/ ForwarderSend(s) \/ ForwarderStop(s)

Next ==
  \/ \E c \in Conns : ReadLine(c)
  \/ \E s \in Shards : Forwarder(s)
  \/ Engine
  \/ Cancel

Spec == Init /\ [][Next]_vars

(* A goroutine that can run does.  A case of a select that is ready again and
   again is chosen again and again, for Go picks among the ready ones at random;
   and blocked senders of a channel are served in the order they arrived. *)
Fairness ==
  /\ \A s \in Shards : WF_vars(ForwarderTake(s)) /\ SF_vars(ForwarderSend(s))
  /\ SF_vars(Consume)
  /\ SF_vars(TickAsync)
  /\ SF_vars(TickSync)
  /\ WF_vars(BurstConsume \/ BurstEnd)
  /\ WF_vars(DrainConsume \/ DrainNextShard \/ DrainEnd)

FairSpec == Spec /\ Fairness

-------------------------------------------------------------------------------
Waiting ==
  Range(ingest) \cup UNION {Range(queue[s]) \cup hand[s] : s \in Shards}

(* Type correctness, the channel capacities included. *)
TypeOK ==
  /\ sent \in [Conns -> 0 .. MaxLines]
  /\ dropped \subseteq Line
  /\ queue \in [Shards -> Seq(Line)]
  /\ \A s \in Shards : Len(queue[s]) <= QueueSize
  /\ hand \in [Shards -> SUBSET Line]
  /\ \A s \in Shards : \A k, l \in hand[s] : k = l
  /\ forwarding \subseteq Shards
  /\ ingest \in Seq(Line)
  /\ Len(ingest) <= IngestSize
  /\ at \in {"select", "burst", "drain", "stopped"}
  /\ shard \in Shards
  /\ left \in Nat
  /\ applied \in Seq(Line)
  /\ pendingLogs \in Nat
  /\ counted \in Nat
  /\ running \in BOOLEAN
  /\ mode \in {"async", "sync"}

OlderFirst ==
  \A i, j \in 1 .. Len(applied) :
    i < j /\ applied[i].conn = applied[j].conn => applied[i].n < applied[j].n

NoGap ==
  \A l \in Range(applied) : \A n \in 1 .. l.n - 1 :
    [conn |-> l.conn, n |-> n] \in Range(applied) \cup dropped

(* Lines of a connection enter the buffers in the order they were read, each at
   most once, although they cross two channels and a forwarder's hand; and every
   earlier line of the connection was applied before or dropped, also when the
   context is cancelled while lines are in flight
   (server.go:128-172, ingest.go:12-30, :65-90). *)
AppliedInOrder == OlderFirst /\ NoGap

(* No line vanishes: each line read is applied, or was dropped by a full shard,
   or is still in exactly one of the channels and hands. *)
EveryLineAccounted ==
  \A c \in Conns : \A n \in 1 .. sent[c] :
    LET l == [conn |-> c, n |-> n] IN
    /\ l \in Range(applied) \cup dropped \cup Waiting
    /\ l \notin dropped \cap (Range(applied) \cup Waiting)
    /\ l \notin Range(applied) \cap Waiting

(* The rate counter misses no line and counts none twice: what has been added to
   logsPerSec and what is pending add up to the lines applied
   (ingest.go:32-35, :51-57; engine.go:190-193). *)
RateAccounts == counted + pendingLogs = Len(applied)

(* The channels and forwarders implement the delivery each connection expects. *)
Delivery == INSTANCE LineDelivery WITH waiting <- Waiting, delivered <- applied

DeliversPerConnection == Delivery!Spec

(* While the engine runs, an accepted line is eventually applied: no shard is
   starved by the others, by the burst limit or by a full channel. *)
AcceptedIsApplied ==
  \A l \in Line : l \in Waiting ~> (l \in Range(applied) \/ ~running)
===============================================================================

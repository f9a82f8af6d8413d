------------------------------ MODULE EngineLoop ------------------------------
(***************************************************************************)
(* The select loop of the engine (internal/engine/engine.go) under endless   *)
(* traffic, and the goroutines that meet it: the forwarders of the shards    *)
(* (ingest.go), the HTTP handlers that queue commands (internal/web/         *)
(* server.go) and the callers of Runtime.Snapshot (internal/app/runtime.go), *)
(* which are the hub and the HTTP handlers.  Lines and commands are          *)
(* anonymous here: what each of them does is in other modules.  The ticks,   *)
(* which only touch counters, are cases of the same select that leave this   *)
(* state alone.  The end of a forwarder after Cancel is in Ingest: nothing    *)
(* here is promised of traffic once the context is cancelled.  Who calls, who *)
(* cancels, and what is promised of it in the end is in module Program.       *)
(***************************************************************************)
EXTENDS Integers, Sequences, Functions

CONSTANTS
  Callers,       (* goroutines that call Runtime.Snapshot                   *)
  NoCaller,
  Shards,        (* the shards, each with its channel and its forwarder     *)
  QueueSize,     (* capacity of a shard's channel                           *)
  IngestSize,    (* capacity of ingestCh                                    *)
  Burst,         (* lines a turn may take beyond the first (32)             *)
  CommandSize,   (* capacity of uiCmdCh (64)                                *)
  RequestSize,   (* capacity of snapReqCh (16)                              *)
  ResponseSize   (* capacity of snapRespCh (16)                             *)

ASSUME EngineLoopAssumption ==
  /\ NoCaller \notin Callers
  /\ {QueueSize, IngestSize, CommandSize, RequestSize, ResponseSize} \subseteq Nat \ {0}
  /\ Burst \in Nat

VARIABLES
  running,       (* the context has not been cancelled                      *)
  at, left,      (* where the engine goroutine is, and its burst counter    *)
  queue,         (* lines in each shard's channel                           *)
  hand,          (* whether a forwarder holds a line                        *)
  ingest,        (* lines in ingestCh                                       *)
  commands,      (* commands in uiCmdCh                                     *)
  mutex,         (* who holds snapshotMu                                    *)
  pc,            (* where each caller of Snapshot is                        *)
  requests,      (* snapReqCh: who asked                                    *)
  building,      (* whose snapshot the engine has built and not yet sent    *)
  responses,     (* snapRespCh: whose snapshot each is                      *)
  got            (* whose snapshot each caller was last given               *)

traffic == <<queue, hand, ingest, commands>>
snapshot == <<mutex, pc, requests, building, responses, got>>
vars == <<running, at, left, traffic, snapshot>>

Init ==
  /\ running = TRUE
  /\ at = "select"
  /\ left = 0
  /\ queue = [s \in Shards |-> 0]
  /\ hand = [s \in Shards |-> FALSE]
  /\ ingest = 0
  /\ commands = 0
  /\ mutex = NoCaller
  /\ pc = [p \in Callers |-> "idle"]
  /\ requests = << >>
  /\ building = NoCaller
  /\ responses = << >>
  /\ got = [p \in Callers |-> NoCaller]

-------------------------------------------------------------------------------
(* Traffic. *)

LineArrives(s) ==
  /\ queue[s] < QueueSize
  /\ queue' = [queue EXCEPT ![s] = @ + 1]
  /\ UNCHANGED <<running, at, left, hand, ingest, commands, snapshot>>

ForwarderTake(s) ==
  /\ queue[s] > 0
  /\ ~hand[s]
  /\ queue' = [queue EXCEPT ![s] = @ - 1]
  /\ hand' = [hand EXCEPT ![s] = TRUE]
  /\ UNCHANGED <<running, at, left, ingest, commands, snapshot>>

ForwarderSend_NeverWaits(s) ==
  /\ hand[s]
  /\ ingest' = ingest + 1
  /\ hand' = [hand EXCEPT ![s] = FALSE]
  /\ UNCHANGED <<running, at, left, queue, commands, snapshot>>

ForwarderSend(s) ==
  /\ hand[s]
  /\ ingest < IngestSize
  /\ ingest' = ingest + 1
  /\ hand' = [hand EXCEPT ![s] = FALSE]
  /\ UNCHANGED <<running, at, left, queue, commands, snapshot>>

(* sendCommand, up to the channel. *)
CommandArrives ==
  /\ commands < CommandSize
  /\ commands' = commands + 1
  /\ UNCHANGED <<running, at, left, queue, hand, ingest, snapshot>>

Cancel ==
  /\ running
  /\ running' = FALSE
  /\ UNCHANGED <<at, left, traffic, snapshot>>

-------------------------------------------------------------------------------
(* Runtime.Snapshot: lock, ask, wait, unlock. *)

Call(p) ==
  /\ pc[p] = "idle"
  /\ pc' = [pc EXCEPT ![p] = "lock"]
  /\ UNCHANGED <<running, at, left, traffic, mutex, requests, building, responses, got>>

Lock_IgnoresHolder(p) ==
  /\ pc[p] = "lock"
  /\ mutex' = p
  /\ pc' = [pc EXCEPT ![p] = "request"]
  /\ UNCHANGED <<running, at, left, traffic, requests, building, responses, got>>

Lock(p) ==
  /\ pc[p] = "lock"
  /\ mutex = NoCaller
  /\ mutex' = p
  /\ pc' = [pc EXCEPT ![p] = "request"]
  /\ UNCHANGED <<running, at, left, traffic, requests, building, responses, got>>

Request_Unlocks(p) ==
  /\ pc[p] = "request"
  /\ Len(requests) < RequestSize
  /\ requests' = Append(requests, p)
  /\ pc' = [pc EXCEPT ![p] = "await"]
  /\ mutex' = NoCaller
  /\ UNCHANGED <<running, at, left, traffic, building, responses, got>>

Request(p) ==
  /\ pc[p] = "request"
  /\ Len(requests) < RequestSize
  /\ requests' = Append(requests, p)
  /\ pc' = [pc EXCEPT ![p] = "await"]
  /\ UNCHANGED <<running, at, left, traffic, mutex, building, responses, got>>

Receive_KeepsLock(p) ==
  /\ pc[p] = "await"
  /\ responses # << >>
  /\ got' = [got EXCEPT ![p] = Head(responses)]
  /\ responses' = Tail(responses)
  /\ pc' = [pc EXCEPT ![p] = "idle"]
  /\ UNCHANGED <<running, at, left, traffic, mutex, requests, building>>

Receive(p) ==
  /\ pc[p] = "await"
  /\ responses # << >>
  /\ got' = [got EXCEPT ![p] = Head(responses)]
  /\ responses' = Tail(responses)
  /\ pc' = [pc EXCEPT ![p] = "idle"]
  /\ mutex' = NoCaller
  /\ UNCHANGED <<running, at, left, traffic, requests, building>>

-------------------------------------------------------------------------------
(* The engine goroutine. *)

TakeIngested ==
  /\ ingest > 0
  /\ ingest' = ingest - 1

Consume ==
  /\ at = "select"
  /\ TakeIngested
  /\ at' = "burst"
  /\ left' = Burst
  /\ UNCHANGED <<running, queue, hand, commands, snapshot>>

BurstConsume ==
  /\ at = "burst"
  /\ left > 0
  /\ TakeIngested
  /\ left' = left - 1
  /\ UNCHANGED <<running, at, queue, hand, commands, snapshot>>

BurstEnd ==
  /\ at = "burst"
  /\ left = 0 \/ ingest = 0
  /\ at' = "select"
  /\ left' = 0
  /\ UNCHANGED <<running, traffic, snapshot>>

HandleCommand ==
  /\ at = "select"
  /\ commands > 0
  /\ commands' = commands - 1
  /\ UNCHANGED <<running, at, left, queue, hand, ingest, snapshot>>

BuildSnapshot ==
  /\ at = "select"
  /\ requests # << >>
  /\ building' = Head(requests)
  /\ requests' = Tail(requests)
  /\ at' = "respond"
  /\ UNCHANGED <<running, left, traffic, mutex, pc, responses, got>>

(* The send on snapRespCh is outside the select: while it blocks, so does the
   whole engine, the cancelled context included. *)
Respond ==
  /\ at = "respond"
  /\ Len(responses) < ResponseSize
  /\ responses' = Append(responses, building)
  /\ building' = NoCaller
  /\ at' = "select"
  /\ UNCHANGED <<running, left, traffic, mutex, pc, requests, got>>

EngineStop ==
  /\ ~running
  /\ at = "select"
  /\ at' = "stopped"
  /\ UNCHANGED <<running, left, traffic, snapshot>>

-------------------------------------------------------------------------------
Engine ==
  \/ Consume \/ BurstConsume \/ BurstEnd
  \/ HandleCommand
  \/ BuildSnapshot \/ Respond
  \/ EngineStop

Caller(p) == Call(p) \/ Lock(p) \/ Request(p) \/ Receive(p)

Next ==
  \/ \E s \in Shards : LineArrives(s) \/ ForwarderTake(s) \/ ForwarderSend(s)
  \/ CommandArrives
  \/ Cancel
  \/ \E p \in Callers : Caller(p)
  \/ Engine

-------------------------------------------------------------------------------
(* Type correctness, the channel capacities included: a send on a full channel
   of the engine waits (engine.go:70-72, :100-110). *)
TypeOK ==
  /\ running \in BOOLEAN
  /\ at \in {"select", "burst", "respond", "stopped"}
  /\ left \in 0 .. Burst
  /\ queue \in [Shards -> 0 .. QueueSize]
  /\ hand \in [Shards -> BOOLEAN]
  /\ ingest \in 0 .. IngestSize
  /\ commands \in 0 .. CommandSize
  /\ mutex \in Callers \cup {NoCaller}
  /\ pc \in [Callers -> {"idle", "lock", "request", "await"}]
  /\ requests \in Seq(Callers)
  /\ building \in Callers \cup {NoCaller}
  /\ responses \in Seq(Callers)
  /\ got \in [Callers -> Callers \cup {NoCaller}]

(* Concurrent callers share one request channel and one response channel that
   carry no identity; still nobody is given a snapshot built for another
   (runtime.go:107-116). *)
OwnAnswer == \A p \in Callers : got[p] \in {p, NoCaller}

(* The engine never waits for a caller: when it sends a snapshot there is room
   for it, so a slow reader cannot stop ingestion (engine.go:178-180). *)
NeverBlockedByCaller == at = "respond" => Len(responses) < ResponseSize
===============================================================================

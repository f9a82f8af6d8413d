-------------------------------- MODULE Program --------------------------------
(***************************************************************************)
(* The program around the engine: main (cmd/gelato/main.go) starts the       *)
(* runtime, the hub and the HTTP server, waits for the server to return,     *)
(* closes the runtime and ends, and with it ends whatever still runs.  The   *)
(* goroutines that call Runtime.Snapshot are the hub and the HTTP handlers;  *)
(* the one of a WebSocket leaves a client with a write loop behind           *)
(* (internal/web/server.go, hub.go).  Nobody waits for anybody: an interrupt *)
(* ends engine, hub, write loops and HTTP server in any order.               *)
(***************************************************************************)
EXTENDS EngineLoop

CONSTANT Hub     (* the hub's goroutine                                     *)

ASSUME ProgramAssumption == Hub \in Callers

VARIABLES
  main,          (* where the main goroutine is                             *)
  interrupted,   (* is the context of signal.NotifyContext done?            *)
  shut,          (* has httpServer.Shutdown been called?                    *)
  hub,           (* is the hub's loop running?                              *)
  client         (* the WebSocket client a handler left: "none" before,
                    "open", "closed"                                        *)

wiring == <<main, interrupted, shut, hub, client>>
state == <<vars, wiring>>

Handlers == Callers \ {Hub}

ProgramInit ==
  /\ Init
  /\ main = "binding"
  /\ interrupted = FALSE
  /\ shut = FALSE
  /\ hub = TRUE
  /\ client = [p \in Handlers |-> "none"]

Alive == main # "exited"

(* What goes on inside while the program lives. *)
Inside == Alive /\ UNCHANGED wiring

-------------------------------------------------------------------------------
(* main, after rt.Start and the start of the hub's goroutine and of the one
   that waits for the interrupt. *)

Bind ==
  /\ main = "binding"
  /\ ~shut
  /\ main' = "serving"
  /\ UNCHANGED <<vars, interrupted, shut, hub, client>>

(* ListenAndServe returns at once: the address is taken, or Shutdown was first. *)
BindFails ==
  /\ main = "binding"
  /\ main' = "failed"
  /\ UNCHANGED <<vars, interrupted, shut, hub, client>>

ServeReturns_Drains ==
  /\ main = "serving"
  /\ shut
  /\ \A p \in Handlers : pc[p] = "idle"
  /\ main' = "served"
  /\ UNCHANGED <<vars, interrupted, shut, hub, client>>

(* ListenAndServe returns as soon as Shutdown has been called. *)
ServeReturns ==
  /\ main = "serving"
  /\ shut
  /\ main' = "served"
  /\ UNCHANGED <<vars, interrupted, shut, hub, client>>

(* Runtime.Close cancels and looks for the engine's result without waiting. *)
CloseRuntime ==
  /\ main \in {"failed", "served"}
  /\ running' = FALSE
  /\ main' = "closed"
  /\ UNCHANGED <<at, left, traffic, snapshot, interrupted, shut, hub, client>>

Exit ==
  /\ main = "closed"
  /\ main' = "exited"
  /\ UNCHANGED <<vars, interrupted, shut, hub, client>>

-------------------------------------------------------------------------------
(* The interrupt, and those who wait for it.  The engine is one of them
   (EngineStop). *)

Interrupt ==
  /\ Alive
  /\ Cancel
  /\ interrupted' = TRUE
  /\ UNCHANGED <<main, shut, hub, client>>

Shutdown ==
  /\ Alive
  /\ interrupted
  /\ shut' = TRUE
  /\ UNCHANGED <<vars, main, interrupted, hub, client>>

Closed(clients) ==
  [p \in Handlers |-> IF p \in clients /\ client[p] = "open" THEN "closed" ELSE client[p]]

(* The hub's select may still choose its tick, and then meet an engine that has
   ended. *)
HubTick ==
  /\ hub
  /\ \E p \in Handlers : client[p] = "open"
  /\ Call(Hub)
  /\ Inside

HubStop ==
  /\ Alive
  /\ hub
  /\ pc[Hub] = "idle"
  /\ interrupted
  /\ hub' = FALSE
  /\ client' = Closed(Handlers)
  /\ UNCHANGED <<vars, main, interrupted, shut>>

(* A write loop ends with the hub's context, a failed write or a client that
   has gone. *)
WriterEnds(p) ==
  /\ Alive
  /\ client[p] = "open"
  /\ client' = Closed({p})
  /\ UNCHANGED <<vars, main, interrupted, shut, hub>>

-------------------------------------------------------------------------------
(* HTTP handlers: requests come while the server serves; on connections that it
   had accepted they come after Shutdown, too. *)

Reached == main \in {"serving", "served"}

HandleSnapshot(p) ==
  /\ Reached
  /\ Call(p)
  /\ Inside

HandleWS(p) ==
  /\ Reached
  /\ client[p] = "none"
  /\ client' = [client EXCEPT ![p] = "open"]
  /\ Call(p)
  /\ UNCHANGED <<main, interrupted, shut, hub>>

HandleCommands ==
  /\ Reached
  /\ CommandArrives
  /\ Inside

-------------------------------------------------------------------------------
Main == Bind \/ BindFails \/ ServeReturns \/ CloseRuntime \/ Exit

Hubs == HubTick \/ HubStop

Handler(p) == HandleSnapshot(p) \/ HandleWS(p) \/ WriterEnds(p)

ProgramNext ==
  \/ Main
  \/ Interrupt \/ Shutdown
  \/ Hubs
  \/ \E p \in Handlers : Handler(p)
  \/ HandleCommands
  \/ Inside /\ \/ \E s \in Shards : LineArrives(s) \/ ForwarderTake(s) \/ ForwarderSend(s)
               \/ \E p \in Callers : Lock(p) \/ Request(p) \/ Receive(p)
               \/ Engine

(* A goroutine that can run does; a select picks among its ready cases at
   random, so each case that stays ready at every turn is picked; goroutines
   blocked on a channel or on the mutex are served in the order they arrived.
   Nothing obliges lines, requests or an interrupt to come. *)
Fairness ==
  /\ WF_state(Main) /\ WF_state(Shutdown)
  /\ \A s \in Shards :
       WF_state(Inside /\ ForwarderTake(s)) /\ SF_state(Inside /\ ForwarderSend(s))
  /\ \A p \in Callers :
       /\ SF_state(Inside /\ Lock(p))
       /\ WF_state(Inside /\ Request(p))
       /\ WF_state(Inside /\ Receive(p))
  /\ SF_state(Inside /\ Consume)
  /\ SF_state(Inside /\ HandleCommand)
  /\ SF_state(Inside /\ BuildSnapshot)
  /\ WF_state(Inside /\ (BurstConsume \/ BurstEnd))
  /\ WF_state(Inside /\ Respond)

ProgramSpec == ProgramInit /\ [][ProgramNext]_state /\ Fairness

-------------------------------------------------------------------------------
(* Every call of Snapshot returns, however many callers compete for the mutex
   and however busy ingestion is, or the program ends: a caller that meets an
   engine that has ended keeps the mutex and waits (runtime.go:107-116), but
   never longer than the program lives. *)
SnapshotReturns ==
  \A p \in Callers : pc[p] # "idle" ~> (pc[p] = "idle" \/ main = "exited")

(* An interrupt, or an address that is taken, ends the program: with the hub or
   handlers waiting for an engine that has ended, with clients that stay, with
   listeners that go on filling the shards, nothing keeps main
   (main.go:62-67, web/server.go:94-105). *)
Exits == (interrupted \/ main = "failed") ~> (main = "exited")
===============================================================================

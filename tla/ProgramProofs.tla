----------------------------- MODULE ProgramProofs -----------------------------
(***************************************************************************)
(* Proofs about EngineLoop and Program, for every number of callers and      *)
(* shards and every capacity: Runtime.Snapshot pairs each request with its   *)
(* answer although the channels carry no identity.                           *)
(***************************************************************************)
EXTENDS Program, TLAPS

(* The context ends, and nothing else of the loop changes. *)
Ends == running' = FALSE /\ UNCHANGED <<at, left, traffic, snapshot>>

(* What a step of the program does to the loop and its channels. *)
LoopStep == [Next]_vars \/ Ends

(* Nothing of a snapshot is under way. *)
Quiet ==
  /\ requests = << >> /\ responses = << >> /\ at # "respond"
  /\ mutex # NoCaller => pc[mutex] = "request"

(* One thing is under way, the request, the snapshot being sent or the answer,
   and it is that of the caller who holds the mutex. *)
Waiting ==
  /\ mutex # NoCaller /\ pc[mutex] = "await"
  /\ \/ requests = <<mutex>> /\ responses = << >> /\ at # "respond"
     \/ requests = << >> /\ responses = << >> /\ at = "respond" /\ building = mutex
     \/ requests = << >> /\ responses = <<mutex>> /\ at # "respond"

Holds(p) == pc[p] \in {"request", "await"}

Rendezvous ==
  /\ mutex \in Callers \cup {NoCaller}
  /\ pc \in [Callers -> {"idle", "lock", "request", "await"}]
  /\ got \in [Callers -> Callers \cup {NoCaller}]
  /\ \A p \in Callers : Holds(p) <=> mutex = p
  /\ Quiet \/ Waiting
  /\ OwnAnswer

-------------------------------------------------------------------------------
LEMMA InitRendezvous == Init => Rendezvous
BY EngineLoopAssumption DEF Init, Rendezvous, Quiet, Holds, OwnAnswer

(* What touches neither the channels of snapshots nor the engine's place between
   building and sending. *)
LEMMA ElsewhereKeepsRendezvous ==
  ASSUME Rendezvous, UNCHANGED snapshot, at' = "respond" <=> at = "respond"
  PROVE  Rendezvous'
BY DEF Rendezvous, Quiet, Waiting, Holds, OwnAnswer, snapshot

LEMMA CallKeepsRendezvous ==
  ASSUME Rendezvous, NEW p \in Callers, Call(p)
  PROVE  Rendezvous'
<1>1. /\ pc[p] = "idle" /\ pc' = [pc EXCEPT ![p] = "lock"]
      /\ UNCHANGED <<at, mutex, requests, building, responses, got>>
  BY DEF Call
<1>2. mutex # p
  BY <1>1 DEF Rendezvous, Holds
<1>3. \A q \in Callers : Holds(q)' <=> mutex' = q
  BY <1>1, <1>2 DEF Rendezvous, Holds
<1>4. Quiet' \/ Waiting'
  BY <1>1, <1>2 DEF Rendezvous, Quiet, Waiting
<1> QED
  BY <1>1, <1>3, <1>4 DEF Rendezvous, OwnAnswer

LEMMA LockKeepsRendezvous ==
  ASSUME Rendezvous, NEW p \in Callers, Lock(p)
  PROVE  Rendezvous'
<1>1. /\ pc[p] = "lock" /\ pc' = [pc EXCEPT ![p] = "request"]
      /\ mutex = NoCaller /\ mutex' = p
      /\ UNCHANGED <<at, requests, building, responses, got>>
  BY DEF Lock
<1>2. \A q \in Callers : Holds(q)' <=> mutex' = q
  BY <1>1, EngineLoopAssumption DEF Rendezvous, Holds
<1>3. Quiet'
  BY <1>1 DEF Rendezvous, Quiet, Waiting
<1> QED
  BY <1>1, <1>2, <1>3 DEF Rendezvous, OwnAnswer

LEMMA RequestKeepsRendezvous ==
  ASSUME Rendezvous, NEW p \in Callers, Request(p)
  PROVE  Rendezvous'
<1>1. /\ pc[p] = "request" /\ pc' = [pc EXCEPT ![p] = "await"]
      /\ requests' = Append(requests, p)
      /\ UNCHANGED <<at, mutex, building, responses, got>>
  BY DEF Request
<1>2. mutex = p /\ Quiet
  BY <1>1 DEF Rendezvous, Holds, Waiting
<1>3. \A q \in Callers : Holds(q)' <=> mutex' = q
  BY <1>1, <1>2 DEF Rendezvous, Holds
<1>4. Waiting'
  BY <1>1, <1>2, EngineLoopAssumption DEF Rendezvous, Quiet, Waiting
<1> QED
  BY <1>1, <1>3, <1>4 DEF Rendezvous, OwnAnswer

LEMMA ReceiveKeepsRendezvous ==
  ASSUME Rendezvous, NEW p \in Callers, Receive(p)
  PROVE  Rendezvous'
<1>1. /\ pc[p] = "await" /\ pc' = [pc EXCEPT ![p] = "idle"]
      /\ responses # << >> /\ responses' = Tail(responses)
      /\ got' = [got EXCEPT ![p] = Head(responses)]
      /\ mutex' = NoCaller
      /\ UNCHANGED <<at, requests, building>>
  BY DEF Receive
<1>2. mutex = p
  BY <1>1 DEF Rendezvous, Holds
<1>3. responses = <<p>> /\ requests = << >> /\ at # "respond"
  BY <1>1, <1>2 DEF Rendezvous, Quiet, Waiting
<1>4. \A q \in Callers : Holds(q)' <=> mutex' = q
  BY <1>1, <1>2, EngineLoopAssumption DEF Rendezvous, Holds
<1>5. Quiet'
  BY <1>1, <1>3 DEF Quiet
<1>6. OwnAnswer' /\ got' \in [Callers -> Callers \cup {NoCaller}]
  BY <1>1, <1>3 DEF Rendezvous, OwnAnswer
<1> QED
  BY <1>1, <1>4, <1>5, <1>6 DEF Rendezvous

LEMMA BuildKeepsRendezvous ==
  ASSUME Rendezvous, BuildSnapshot
  PROVE  Rendezvous'
<1>1. /\ requests # << >> /\ requests' = Tail(requests)
      /\ building' = Head(requests) /\ at' = "respond"
      /\ UNCHANGED <<mutex, pc, responses, got>>
  BY DEF BuildSnapshot
<1>2. mutex # NoCaller /\ pc[mutex] = "await" /\ requests = <<mutex>> /\ responses = << >>
  BY <1>1 DEF Rendezvous, Quiet, Waiting
<1>3. Waiting'
  BY <1>1, <1>2 DEF Waiting
<1> QED
  BY <1>1, <1>3 DEF Rendezvous, Holds, OwnAnswer

LEMMA RespondKeepsRendezvous ==
  ASSUME Rendezvous, Respond
  PROVE  Rendezvous'
<1>1. /\ at = "respond" /\ at' = "select"
      /\ responses' = Append(responses, building)
      /\ UNCHANGED <<mutex, pc, requests, got>>
  BY DEF Respond
<1>2. mutex # NoCaller /\ pc[mutex] = "await" /\ requests = << >> /\ responses = << >> /\ building = mutex
  BY <1>1 DEF Rendezvous, Quiet, Waiting
<1>3. Waiting'
  BY <1>1, <1>2 DEF Waiting
<1> QED
  BY <1>1, <1>3 DEF Rendezvous, Holds, OwnAnswer

LEMMA RendezvousStep == Rendezvous /\ LoopStep => Rendezvous'
<1> SUFFICES ASSUME Rendezvous, LoopStep
             PROVE  Rendezvous'
  OBVIOUS
<1>1. CASE Ends
  BY <1>1, ElsewhereKeepsRendezvous DEF Ends
<1>2. CASE UNCHANGED vars
  BY <1>2, ElsewhereKeepsRendezvous DEF vars
<1>3. ASSUME NEW s \in Shards, LineArrives(s) \/ ForwarderTake(s) \/ ForwarderSend(s)
      PROVE  Rendezvous'
  BY <1>3, ElsewhereKeepsRendezvous DEF LineArrives, ForwarderTake, ForwarderSend
<1>4. CASE CommandArrives \/ Cancel
  BY <1>4, ElsewhereKeepsRendezvous DEF CommandArrives, Cancel
<1>5. ASSUME NEW p \in Callers, Caller(p)
      PROVE  Rendezvous'
  BY <1>5, CallKeepsRendezvous, LockKeepsRendezvous, RequestKeepsRendezvous, ReceiveKeepsRendezvous
     DEF Caller
<1>6. CASE Engine
  <2>1. CASE Consume \/ BurstConsume \/ BurstEnd \/ HandleCommand \/ EngineStop
    BY <2>1, ElsewhereKeepsRendezvous DEF Consume, BurstConsume, BurstEnd, HandleCommand, EngineStop
  <2>2. CASE BuildSnapshot \/ Respond
    BY <2>2, BuildKeepsRendezvous, RespondKeepsRendezvous
  <2> QED
    BY <1>6, <2>1, <2>2 DEF Engine
<1> QED
  BY <1>1, <1>2, <1>3, <1>4, <1>5, <1>6 DEF LoopStep, Next

-------------------------------------------------------------------------------
(* Whatever main, the hub, the handlers and the interrupt do, to the loop it is
   one of the loop's own steps or the end of its context. *)
LEMMA ProgramStepIsLoopStep == [ProgramNext]_state => LoopStep
<1> SUFFICES ASSUME [ProgramNext]_state
             PROVE  LoopStep
  OBVIOUS
<1>1. CASE UNCHANGED state
  BY <1>1 DEF state, LoopStep
<1>2. CASE Main
  <2>1. CASE CloseRuntime
    BY <2>1 DEF CloseRuntime, LoopStep, Ends
  <2>2. CASE Bind \/ BindFails \/ ServeReturns \/ Exit
    BY <2>2 DEF Bind, BindFails, ServeReturns, Exit, LoopStep
  <2> QED
    BY <1>2, <2>1, <2>2 DEF Main
<1>3. CASE Interrupt
  BY <1>3 DEF Interrupt, LoopStep, Next
<1>4. CASE Shutdown
  BY <1>4 DEF Shutdown, LoopStep
<1>5. CASE Hubs
  <2>1. CASE HubTick
    BY <2>1, ProgramAssumption DEF HubTick, LoopStep, Next, Caller
  <2>2. CASE HubStop
    BY <2>2 DEF HubStop, LoopStep
  <2> QED
    BY <1>5, <2>1, <2>2 DEF Hubs
<1>6. ASSUME NEW p \in Handlers, Handler(p)
      PROVE  LoopStep
  <2>1. CASE HandleSnapshot(p) \/ HandleWS(p)
    BY <2>1 DEF HandleSnapshot, HandleWS, Handlers, LoopStep, Next, Caller
  <2>2. CASE WriterEnds(p)
    BY <2>2 DEF WriterEnds, LoopStep
  <2> QED
    BY <1>6, <2>1, <2>2 DEF Handler
<1>7. CASE HandleCommands
  BY <1>7 DEF HandleCommands, LoopStep, Next
<1>8. CASE Inside /\ \/ \E s \in Shards : LineArrives(s) \/ ForwarderTake(s) \/ ForwarderSend(s)
                     \/ \E p \in Callers : Lock(p) \/ Request(p) \/ Receive(p)
                     \/ Engine
  BY <1>8 DEF LoopStep, Next, Caller
<1> QED
  BY <1>1, <1>2, <1>3, <1>4, <1>5, <1>6, <1>7, <1>8 DEF ProgramNext

(* At any time of the program at most one request, snapshot or answer is under
   way, and it is that of the caller who holds the mutex: the invariant from
   which the two theorems below follow (runtime.go:107-116). *)
THEOREM OneAtATime == ProgramSpec => []Rendezvous
<1>1. ProgramInit => Rendezvous
  BY InitRendezvous DEF ProgramInit
<1>2. Rendezvous /\ [ProgramNext]_state => Rendezvous'
  BY RendezvousStep, ProgramStepIsLoopStep
<1> QED
  BY <1>1, <1>2, PTL DEF ProgramSpec

(* Nobody is given a snapshot that was built for another caller, for any number
   of callers (runtime.go:107-116). *)
THEOREM AnswersArePaired == ProgramSpec => []OwnAnswer
<1>1. Rendezvous => OwnAnswer
  BY DEF Rendezvous
<1> QED
  BY <1>1, OneAtATime, PTL

(* When the engine sends a snapshot there is room for it, whatever the capacity
   of the channel, so no caller can stop ingestion (engine.go:178-180). *)
THEOREM EngineNeverBlocked == ProgramSpec => []NeverBlockedByCaller
<1>1. Rendezvous => NeverBlockedByCaller
  <2> SUFFICES ASSUME Rendezvous, at = "respond"
               PROVE  Len(responses) < ResponseSize
    BY DEF NeverBlockedByCaller
  <2>1. responses = << >>
    BY DEF Rendezvous, Quiet, Waiting
  <2>2. ResponseSize \in Nat \ {0}
    BY EngineLoopAssumption
  <2> QED
    BY <2>1, <2>2
<1> QED
  BY <1>1, OneAtATime, PTL

-------------------------------------------------------------------------------
(* That a snapshot is sent only while some caller waits for it comes from
   Rendezvous. *)
LEMMA TypeStep == TypeOK /\ Rendezvous /\ LoopStep => TypeOK'
<1> SUFFICES ASSUME TypeOK, Rendezvous, LoopStep
             PROVE  TypeOK'
  OBVIOUS
<1> USE EngineLoopAssumption
<1>1. CASE Ends \/ UNCHANGED vars
  BY <1>1 DEF Ends, vars, traffic, snapshot, TypeOK
<1>2. ASSUME NEW s \in Shards, LineArrives(s) \/ ForwarderTake(s) \/ ForwarderSend(s)
      PROVE  TypeOK'
  <2>1. CASE LineArrives(s)
    BY <2>1 DEF LineArrives, snapshot, TypeOK
  <2>2. CASE ForwarderTake(s)
    BY <2>2 DEF ForwarderTake, snapshot, TypeOK
  <2>3. CASE ForwarderSend(s)
    BY <2>3 DEF ForwarderSend, snapshot, TypeOK
  <2> QED
    BY <1>2, <2>1, <2>2, <2>3
<1>3. CASE CommandArrives \/ Cancel
  <2>1. CASE CommandArrives
    BY <2>1 DEF CommandArrives, snapshot, TypeOK
  <2>2. CASE Cancel
    BY <2>2 DEF Cancel, traffic, snapshot, TypeOK
  <2> QED
    BY <1>3, <2>1, <2>2
<1>4. ASSUME NEW p \in Callers, Caller(p)
      PROVE  TypeOK'
  <2>1. CASE Call(p) \/ Lock(p)
    BY <2>1 DEF Call, Lock, traffic, TypeOK
  <2>2. CASE Request(p)
    <3>1. requests' \in Seq(Callers)
      BY <2>2 DEF Request, TypeOK
    <3> QED
      BY <2>2, <3>1 DEF Request, traffic, TypeOK
  <2>3. CASE Receive(p)
    <3>1. responses' \in Seq(Callers) /\ Head(responses) \in Callers
      BY <2>3 DEF Receive, TypeOK
    <3> QED
      BY <2>3, <3>1 DEF Receive, traffic, TypeOK
  <2> QED
    BY <1>4, <2>1, <2>2, <2>3 DEF Caller
<1>5. CASE Engine
  <2>1. CASE Consume \/ BurstConsume \/ BurstEnd
    BY <2>1 DEF Consume, BurstConsume, BurstEnd, TakeIngested, traffic, snapshot, TypeOK
  <2>2. CASE HandleCommand \/ EngineStop
    BY <2>2 DEF HandleCommand, EngineStop, traffic, snapshot, TypeOK
  <2>3. CASE BuildSnapshot
    BY <2>3 DEF BuildSnapshot, traffic, TypeOK
  <2>4. CASE Respond
    <3>1. building \in Callers /\ responses = << >>
      BY <2>4 DEF Respond, Rendezvous, Quiet, Waiting
    <3>2. responses' = <<building>>
      BY <2>4, <3>1 DEF Respond
    <3> QED
      BY <2>4, <3>1, <3>2 DEF Respond, traffic, TypeOK
  <2> QED
    BY <1>5, <2>1, <2>2, <2>3, <2>4 DEF Engine
<1> QED
  BY <1>1, <1>2, <1>3, <1>4, <1>5 DEF LoopStep, Next

(* Types, and no channel of the engine beyond its capacity, whatever the numbers
   of shards and callers and the capacities are (engine.go:70-72, :100-110). *)
THEOREM TypeCorrect == ProgramSpec => []TypeOK
<1>1. ProgramInit => TypeOK
  BY EngineLoopAssumption DEF ProgramInit, Init, TypeOK
<1>2. TypeOK /\ Rendezvous /\ [ProgramNext]_state => TypeOK'
  BY TypeStep, ProgramStepIsLoopStep
<1> QED
  BY <1>1, <1>2, OneAtATime, PTL DEF ProgramSpec
===============================================================================

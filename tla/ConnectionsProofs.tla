--------------------------- MODULE ConnectionsProofs ---------------------------
(***************************************************************************)
(* Proofs about Connections: the two limits, the counters and what they say   *)
(* of the connections there are, the reasons of rejections, and the lines     *)
(* read after a stop, for every number of listeners, connections and hosts,   *)
(* and every value of the limits.                                             *)
(***************************************************************************)
EXTENDS Connections, FiniteSetTheorems, TLAPS

Steps == {"none", "accept", "global", "own", "total", "active", "ended"}

Counted ==
  /\ loop \in [Listeners -> Steps]
  /\ activeConns \in [Listeners -> Int]
  /\ totalConns \in Int

(* A loop that has passed its own test has left room for one more. *)
OwnRoom ==
  \A l \in Listeners :
    /\ activeConns[l] <= MaxConnsPerListener
    /\ loop[l] \in {"total", "active"} => activeConns[l] <= MaxConnsPerListener - 1

ListenerInv == Counted /\ OwnRoom

(* What a step does to one listener's counter and loop. *)
Moves(l) ==
  \/ /\ activeConns'[l] \in {activeConns[l], activeConns[l] - 1}
     /\ loop'[l] \in {"total", "active"} => loop[l] \in {"total", "active"}
  \/ /\ loop[l] = "own"
     /\ loop'[l] = "total"
     /\ activeConns[l] < MaxConnsPerListener
     /\ activeConns'[l] = activeConns[l]
  \/ /\ loop[l] = "active"
     /\ loop'[l] = "accept"
     /\ activeConns'[l] = activeConns[l] + 1

LEMMA CountedStep == Counted /\ [Next]_vars => Counted' /\ \A l \in Listeners : Moves(l)
<1> SUFFICES ASSUME Counted, [Next]_vars
             PROVE  Counted' /\ \A l \in Listeners : Moves(l)
  OBVIOUS
<1> USE DEF Counted, Moves, Steps
<1>1. ASSUME NEW l \in Listeners, Start(l)
      PROVE  Counted' /\ \A m \in Listeners : Moves(m)
  BY <1>1 DEF Start, counters
<1>2. ASSUME NEW l \in Listeners, Cancel(l) \/ CloseSocket(l)
      PROVE  Counted' /\ \A m \in Listeners : Moves(m)
  BY <1>2 DEF Cancel, CloseSocket, counters
<1>3. ASSUME NEW l \in Listeners, NEW c \in Conns, Dial(c, l)
      PROVE  Counted' /\ \A m \in Listeners : Moves(m)
  BY <1>3 DEF Dial, counters, acceptors
<1>4. ASSUME NEW l \in Listeners, AcceptLoop(l)
      PROVE  Counted' /\ \A m \in Listeners : Moves(m)
  <2>1. CASE Accept(l)
    BY <2>1 DEF Accept, counters
  <2>2. CASE AcceptFails(l)
    BY <2>2 DEF AcceptFails, counters
  <2>3. CASE CheckGlobal(l)
    BY <2>3 DEF CheckGlobal, Reject, counters
  <2>4. CASE CheckOwn(l)
    BY <2>4, ConnectionsAssumption DEF CheckOwn, Reject, counters
  <2>5. CASE CountTotal(l)
    BY <2>5 DEF CountTotal
  <2>6. CASE CountActive(l)
    BY <2>6 DEF CountActive
  <2> QED
    BY <1>4, <2>1, <2>2, <2>3, <2>4, <2>5, <2>6 DEF AcceptLoop
<1>5. ASSUME NEW c \in Conns, ReadLoop(c)
      PROVE  Counted' /\ \A m \in Listeners : Moves(m)
  <2>1. CASE CountSource(c) \/ CheckStopped(c) \/ ReadFails(c) \/ LeaveSource(c)
    BY <2>1 DEF CountSource, CheckStopped, ReadFails, LeaveSource, acceptors, counters
  <2>2. CASE \E last \in BOOLEAN : ReadLine(c, last)
    BY <2>2 DEF ReadLine, acceptors, counters
  <2>3. CASE LeaveTotal(c)
    BY <2>3 DEF LeaveTotal, acceptors
  <2>4. CASE LeaveActive(c)
    <3>1. /\ activeConns' = [activeConns EXCEPT ![to[c]] = @ - 1]
          /\ UNCHANGED <<loop, totalConns>>
      BY <2>4 DEF LeaveActive, acceptors
    <3>2. CASE to[c] \in Listeners
      BY <3>1, <3>2
    <3>3. CASE to[c] \notin Listeners
      <4>1. activeConns' = activeConns
        BY <3>1, <3>3
      <4> QED
        BY <3>1, <4>1
    <3> QED
      BY <3>2, <3>3
  <2> QED
    BY <1>5, <2>1, <2>2, <2>3, <2>4 DEF ReadLoop
<1>6. CASE UNCHANGED vars
  BY <1>6 DEF vars, acceptors, counters
<1> QED
  BY <1>1, <1>2, <1>3, <1>4, <1>5, <1>6 DEF Next

(* For every number of listeners and connections, a listener's counter never
   exceeds MaxConnsPerListener. *)
THEOREM ListenerLimitHolds == Spec => []WithinListenerLimit
<1>1. Init => ListenerInv
  BY ConnectionsAssumption DEF Init, ListenerInv, Counted, OwnRoom, Steps
<1>2. ListenerInv /\ [Next]_vars => ListenerInv'
  <2> SUFFICES ASSUME ListenerInv, [Next]_vars PROVE ListenerInv'
    OBVIOUS
  <2>1. Counted' /\ \A l \in Listeners : Moves(l)
    BY CountedStep DEF ListenerInv
  <2>2. OwnRoom'
    BY <2>1, ConnectionsAssumption DEF ListenerInv, Counted, OwnRoom, Moves
  <2> QED
    BY <2>1, <2>2 DEF ListenerInv
<1>3. ListenerInv => WithinListenerLimit
  BY DEF ListenerInv, OwnRoom, WithinListenerLimit
<1> QED
  BY <1>1, <1>2, <1>3, PTL DEF Spec

-------------------------------------------------------------------------------
(* The global limit. *)

Loops == {l \in Listeners : loop[l] # "none"}

(* The loops that have passed the global test and not yet counted. *)
Passed == {l \in Listeners : loop[l] \in {"own", "total"}}

Slack == IF Loops = {} THEN 0 ELSE Cardinality(Loops) - 1

(* What is counted and what is about to be: only the loops that passed the test
   at the same time can exceed the limit. *)
GlobalRoom ==
  /\ totalConns <= MaxConnsGlobal + Slack
  /\ Passed # {} => totalConns + Cardinality(Passed) <= MaxConnsGlobal + Slack

GlobalInv == Counted /\ GlobalRoom

LEMMA LoopSets ==
  ASSUME Counted
  PROVE  /\ IsFiniteSet(Loops) /\ IsFiniteSet(Passed)
         /\ Passed \subseteq Loops
         /\ Cardinality(Loops) \in Nat /\ Cardinality(Passed) \in Nat
         /\ Cardinality(Passed) <= Cardinality(Loops)
         /\ Loops # {} => Cardinality(Loops) >= 1
         /\ Slack \in Nat
<1>1. /\ IsFiniteSet(Loops) /\ IsFiniteSet(Passed) /\ Passed \subseteq Loops
  BY FS_Subset, ConnectionsAssumption DEF Loops, Passed
<1>2. /\ Cardinality(Loops) \in Nat /\ Cardinality(Passed) \in Nat
      /\ Cardinality(Passed) <= Cardinality(Loops)
  BY <1>1, FS_Subset, FS_CardinalityType
<1>3. Loops # {} => Cardinality(Loops) >= 1
  BY <1>1, <1>2, FS_EmptySet
<1> QED
  BY <1>1, <1>2, <1>3 DEF Slack

(* The arithmetic of a count that falls under a bound that rises. *)
LEMMA RoomGrows ==
  ASSUME NEW a \in Int, NEW b \in Int, NEW s \in Int, NEW t \in Int, NEW m \in Int,
         b <= a, a <= m + s, s <= t
  PROVE  b <= m + t
  OBVIOUS

(* A step that counts nothing and lets no loop pass keeps the room there is. *)
LEMMA RoomStays ==
  ASSUME GlobalInv, Counted', Loops \subseteq Loops', Passed' \subseteq Passed,
         totalConns' <= totalConns
  PROVE  GlobalRoom'
<1>1. /\ IsFiniteSet(Loops) /\ IsFiniteSet(Passed)
      /\ Cardinality(Loops) \in Nat /\ Cardinality(Passed) \in Nat
  BY LoopSets DEF GlobalInv
<1>2. IsFiniteSet(Loops') /\ IsFiniteSet(Passed')
  BY FS_Subset, ConnectionsAssumption DEF Loops, Passed
<1>3. /\ Cardinality(Loops') \in Nat /\ Cardinality(Passed') \in Nat
      /\ Cardinality(Loops) <= Cardinality(Loops')
      /\ Cardinality(Passed') <= Cardinality(Passed)
  BY <1>1, <1>2, FS_Subset, FS_CardinalityType
<1>4. Slack \in Nat /\ Slack' \in Nat /\ Slack <= Slack'
  <2>1. Loops' # {} => Cardinality(Loops') >= 1
    BY <1>2, <1>3, FS_EmptySet
  <2>2. Loops # {} => Cardinality(Loops) >= 1
    BY <1>1, FS_EmptySet
  <2> QED
    BY <1>1, <1>3, <2>1, <2>2 DEF Slack
<1>5. totalConns \in Int /\ totalConns' \in Int
  BY DEF GlobalInv, Counted
<1>6. totalConns' <= MaxConnsGlobal + Slack'
  <2>1. totalConns <= MaxConnsGlobal + Slack
    BY DEF GlobalInv, GlobalRoom
  <2>2. Slack \in Int /\ Slack' \in Int /\ MaxConnsGlobal \in Int
    BY <1>4, ConnectionsAssumption
  <2> QED
    BY <1>4, <1>5, <2>1, <2>2, RoomGrows
<1>7. ASSUME Passed' # {}
      PROVE  totalConns' + Cardinality(Passed') <= MaxConnsGlobal + Slack'
  <2>1. Passed # {}
    BY <1>7
  <2>2. totalConns + Cardinality(Passed) <= MaxConnsGlobal + Slack
    BY <2>1 DEF GlobalInv, GlobalRoom
  <2>3. Slack \in Int /\ Slack' \in Int /\ MaxConnsGlobal \in Int
    BY <1>4, ConnectionsAssumption
  <2>4. totalConns' + Cardinality(Passed') <= totalConns + Cardinality(Passed)
    BY <1>1, <1>3, <1>5
  <2>5. /\ totalConns + Cardinality(Passed) \in Int
        /\ totalConns' + Cardinality(Passed') \in Int
    BY <1>1, <1>3, <1>5
  <2> QED
    BY <1>4, <2>2, <2>3, <2>4, <2>5, RoomGrows
<1> QED
  BY <1>6, <1>7 DEF GlobalRoom

LEMMA GlobalStep == GlobalInv /\ [Next]_vars => GlobalInv'
<1> SUFFICES ASSUME GlobalInv, [Next]_vars PROVE GlobalInv'
  OBVIOUS
<1>1. Counted'
  BY CountedStep DEF GlobalInv
<1> SUFFICES GlobalRoom'
  BY <1>1 DEF GlobalInv
<1>2. loop \in [Listeners -> Steps] /\ totalConns \in Int
  BY DEF GlobalInv, Counted
<1>3. ASSUME UNCHANGED <<loop, totalConns>>
      PROVE  GlobalRoom'
  BY <1>1, <1>3, RoomStays, <1>2 DEF Loops, Passed
<1>4. ASSUME NEW l \in Listeners, Start(l)
      PROVE  GlobalRoom'
  <2>1. Loops \subseteq Loops' /\ Passed' \subseteq Passed /\ totalConns' = totalConns
    BY <1>2, <1>4 DEF Start, Loops, Passed, counters
  <2> QED
    BY <1>1, <1>2, <2>1, RoomStays
<1>5. ASSUME NEW l \in Listeners, Accept(l) \/ AcceptFails(l) \/ CheckOwn(l) \/ CountActive(l)
      PROVE  GlobalRoom'
  <2>1. Loops \subseteq Loops' /\ Passed' \subseteq Passed /\ totalConns' = totalConns
    BY <1>2, <1>5 DEF Accept, AcceptFails, CheckOwn, CountActive, Reject, Loops, Passed, counters
  <2> QED
    BY <1>1, <1>2, <2>1, RoomStays
<1>6. ASSUME NEW l \in Listeners, CheckGlobal(l)
      PROVE  GlobalRoom'
  <2>1. CASE totalConns >= MaxConnsGlobal
    <3>1. Loops \subseteq Loops' /\ Passed' \subseteq Passed /\ totalConns' = totalConns
      BY <1>2, <1>6, <2>1 DEF CheckGlobal, Reject, Loops, Passed, counters
    <3> QED
      BY <1>1, <1>2, <3>1, RoomStays
  <2>2. CASE ~(totalConns >= MaxConnsGlobal)
    <3>1. /\ totalConns' = totalConns
          /\ l \in Loops' /\ Passed' \subseteq Loops'
      BY <1>2, <1>6, <2>2 DEF CheckGlobal, Loops, Passed, counters
    <3>2. /\ IsFiniteSet(Loops') /\ IsFiniteSet(Passed')
      BY FS_Subset, ConnectionsAssumption DEF Loops, Passed
    <3>3. /\ Cardinality(Loops') \in Nat /\ Cardinality(Passed') \in Nat
          /\ Cardinality(Passed') <= Cardinality(Loops')
      BY <3>1, <3>2, FS_Subset, FS_CardinalityType
    <3>4. Slack' = Cardinality(Loops') - 1
      BY <3>1 DEF Slack
    <3>5. Cardinality(Loops') >= 1
      BY <3>1, <3>2, <3>3, FS_EmptySet
    <3>6. totalConns <= MaxConnsGlobal - 1
      BY <1>2, <2>2, ConnectionsAssumption
    <3> QED
      BY <1>2, <3>1, <3>3, <3>4, <3>5, <3>6, ConnectionsAssumption DEF GlobalRoom
  <2> QED
    BY <2>1, <2>2
<1>7. ASSUME NEW l \in Listeners, CountTotal(l)
      PROVE  GlobalRoom'
  <2>1. /\ l \in Passed /\ Passed' = Passed \ {l} /\ Loops' = Loops
        /\ totalConns' = totalConns + 1
    BY <1>2, <1>7 DEF CountTotal, Passed, Loops
  <2>2. IsFiniteSet(Passed) /\ Cardinality(Passed) \in Nat /\ Slack \in Nat
    BY LoopSets DEF GlobalInv
  <2>3. /\ Cardinality(Passed') = Cardinality(Passed) - 1
        /\ Cardinality(Passed') \in Nat
    BY <2>1, <2>2, FS_RemoveElement, FS_CardinalityType
  <2>4. Slack' = Slack
    BY <2>1 DEF Slack
  <2>5. totalConns + Cardinality(Passed) <= MaxConnsGlobal + Slack
    BY <2>1 DEF GlobalInv, GlobalRoom
  <2> QED
    BY <1>2, <2>1, <2>2, <2>3, <2>4, <2>5, ConnectionsAssumption DEF GlobalRoom
<1>8. ASSUME NEW c \in Conns, LeaveTotal(c)
      PROVE  GlobalRoom'
  <2>1. Loops \subseteq Loops' /\ Passed' \subseteq Passed /\ totalConns' = totalConns - 1
    BY <1>8 DEF LeaveTotal, Loops, Passed, acceptors
  <2> QED
    BY <1>1, <1>2, <2>1, RoomStays
<1>9. CASE \E l \in Listeners : Cancel(l) \/ CloseSocket(l) \/ \E c \in Conns : Dial(c, l)
  BY <1>3, <1>9 DEF Cancel, CloseSocket, Dial, counters, acceptors
<1>10. ASSUME NEW c \in Conns, ReadLoop(c), ~LeaveTotal(c)
       PROVE  GlobalRoom'
  BY <1>3, <1>10 DEF ReadLoop, CountSource, CheckStopped, ReadLine, ReadFails, LeaveActive,
                    LeaveSource, acceptors, counters
<1>11. CASE UNCHANGED vars
  BY <1>3, <1>11 DEF vars, acceptors, counters
<1> QED
  BY <1>4, <1>5, <1>6, <1>7, <1>8, <1>9, <1>10, <1>11 DEF Next, AcceptLoop, ReadLoop

(* For every number of listeners and connections, the limit all listeners share
   is exceeded by less than one connection for each listener started. *)
THEOREM GlobalLimitHolds == Spec => []WithinGlobalLimit
<1>1. Init => GlobalInv
  <2> SUFFICES ASSUME Init PROVE GlobalInv
    OBVIOUS
  <2>1. Counted
    BY DEF Init, Counted, Steps
  <2>2. Loops = {} /\ Passed = {} /\ totalConns = 0
    BY DEF Init, Loops, Passed
  <2> QED
    BY <2>1, <2>2, ConnectionsAssumption DEF GlobalInv, GlobalRoom, Slack
<1>2. GlobalInv => WithinGlobalLimit
  BY DEF GlobalInv, GlobalRoom, WithinGlobalLimit, Slack, Loops
<1> QED
  BY <1>1, <1>2, GlobalStep, PTL DEF Spec

-------------------------------------------------------------------------------
(* The three kinds of counters, as cardinalities of the connections that are at
   the places in between. *)

Busy == {"global", "own", "total", "active"}

(* A loop that is busy holds a connection that nobody else holds. *)
Held ==
  /\ \A l \in Listeners :
       /\ loop[l] \in Busy => held[l] \in Conns /\ at[held[l]] = "accepted" /\ to[held[l]] = l
       /\ loop[l] \notin Busy => held[l] = None
       /\ socket[l] = "none" => loop[l] = "none"
  /\ \A c \in Conns :
       /\ at[c] # "none" => to[c] \in Listeners
       /\ at[c] = "accepted" => loop[to[c]] \in Busy /\ held[to[c]] = c

Shape ==
  /\ socket \in [Listeners -> {"none", "open", "closed"}]
  /\ stopped \subseteq Listeners
  /\ loop \in [Listeners -> Steps]
  /\ held \in [Listeners -> Conns \cup {None}]
  /\ to \in [Conns -> Listeners \cup {None}]
  /\ at \in [Conns -> Places]
  /\ late \in [Conns -> 0 .. MaxLate]

(* The connections that each counter has counted and not yet forgotten. *)
InTotal ==
  {c \in Conns : \/ at[c] \in {"started", "check", "read", "leaveTotal"}
                 \/ at[c] = "accepted" /\ loop[to[c]] = "active"}

InActive(l) ==
  {c \in Conns : /\ at[c] \in {"started", "check", "read", "leaveTotal", "leaveActive"}
                 /\ to[c] = l}

InSource(s) ==
  {c \in Conns : /\ at[c] \in {"check", "read", "leaveTotal", "leaveActive", "leaveSource"}
                 /\ SourceOf[c] = s}

Counts ==
  /\ totalConns = Cardinality(InTotal)
  /\ activeConns = [l \in Listeners |-> Cardinality(InActive(l))]
  /\ sourceConns = [s \in Sources |-> Cardinality(InSource(s))]

CountInv == Shape /\ Held /\ Counts

LEMMA InitCountInv == Init => CountInv
<1> SUFFICES ASSUME Init PROVE CountInv
  OBVIOUS
<1>1. Shape /\ Held
  BY ConnectionsAssumption DEF Init, Shape, Held, Steps, Places, Busy
<1>2. /\ InTotal = {}
      /\ \A l : InActive(l) = {}
      /\ \A s : InSource(s) = {}
  BY DEF Init, InTotal, InActive, InSource
<1> QED
  BY <1>1, <1>2, FS_EmptySet DEF Init, Counts, CountInv

LEMMA ShapeStep == Shape /\ Held /\ [Next]_vars => Shape' /\ Held'
<1> SUFFICES ASSUME Shape, Held, [Next]_vars PROVE Shape' /\ Held'
  OBVIOUS
<1> USE ConnectionsAssumption DEF Shape, Held, Steps, Places, Busy
<1>1. ASSUME NEW l \in Listeners, Start(l)
      PROVE  Shape' /\ Held'
  BY <1>1 DEF Start
<1>2. ASSUME NEW l \in Listeners, Cancel(l)
      PROVE  Shape' /\ Held'
  BY <1>2 DEF Cancel
<1>3. ASSUME NEW l \in Listeners, CloseSocket(l)
      PROVE  Shape' /\ Held'
  BY <1>3 DEF CloseSocket
<1>4. ASSUME NEW l \in Listeners, NEW c \in Conns, Dial(c, l)
      PROVE  Shape' /\ Held'
  BY <1>4 DEF Dial, acceptors
<1>5. ASSUME NEW l \in Listeners, Accept(l)
      PROVE  Shape' /\ Held'
  <2>1. PICK c \in Conns : /\ at[c] = "waiting" /\ to[c] = l
                           /\ at' = [at EXCEPT ![c] = "accepted"]
                           /\ held' = [held EXCEPT ![l] = c]
    BY <1>5 DEF Accept
  <2>2. /\ loop[l] = "accept" /\ loop' = [loop EXCEPT ![l] = "global"]
        /\ UNCHANGED <<socket, stopped, to, late>>
    BY <1>5 DEF Accept
  <2>3. Shape'
    BY <2>1, <2>2
  <2>4. \A d \in Conns : at[d] = "accepted" => to[d] # l
    BY <2>2
  <2> QED
    BY <2>1, <2>2, <2>3, <2>4
<1>6. ASSUME NEW l \in Listeners, AcceptFails(l)
      PROVE  Shape' /\ Held'
  BY <1>6 DEF AcceptFails
<1>7. ASSUME NEW l \in Listeners, loop[l] \in Busy, Reject(l) \/ CountActive(l),
             UNCHANGED <<socket, stopped, to, late>>
      PROVE  Shape' /\ Held'
  <2>1. PICK c \in Conns : c = held[l] /\ at[c] = "accepted" /\ to[c] = l
    BY <1>7
  <2>2. PICK p \in {"done", "started"} : at' = [at EXCEPT ![c] = p]
    BY <1>7, <2>1 DEF Reject, CountActive
  <2>3. held' = [held EXCEPT ![l] = None] /\ loop' = [loop EXCEPT ![l] = "accept"]
    BY <1>7 DEF Reject, CountActive
  <2> QED
    BY <1>7, <2>1, <2>2, <2>3
<1>8. ASSUME NEW l \in Listeners, CheckGlobal(l) \/ CheckOwn(l) \/ CountTotal(l), ~Reject(l)
      PROVE  Shape' /\ Held'
  BY <1>8 DEF CheckGlobal, CheckOwn, CountTotal
<1>9. ASSUME NEW c \in Conns, ReadLoop(c)
      PROVE  Shape' /\ Held'
  <2>1. /\ at[c] \notin {"none", "accepted"}
        /\ \E p \in Places \ {"none", "accepted"} : at' = [at EXCEPT ![c] = p]
        /\ UNCHANGED <<acceptors, to>>
    BY <1>9 DEF ReadLoop, CountSource, CheckStopped, ReadLine, ReadFails, LeaveTotal,
                LeaveActive, LeaveSource
  <2>2. late' \in [Conns -> 0 .. MaxLate]
    <3>1. CASE \E last \in BOOLEAN : ReadLine(c, last)
      <4>1. late[c] \in 0 .. MaxLate /\ late[c] < MaxLate
        BY <3>1 DEF ReadLine
      <4>2. PICK n \in {late[c], late[c] + 1} : late' = [late EXCEPT ![c] = n]
        BY <3>1 DEF ReadLine
      <4>3. late[c] + 1 \in 0 .. MaxLate
        BY <4>1
      <4> QED
        BY <4>1, <4>2, <4>3
    <3>2. CASE UNCHANGED late
      BY <3>2
    <3> QED
      BY <1>9, <3>1, <3>2 DEF ReadLoop, CountSource, CheckStopped, ReadFails, LeaveTotal,
                              LeaveActive, LeaveSource
  <2>3. PICK p \in Places \ {"none", "accepted"} : at' = [at EXCEPT ![c] = p]
    BY <2>1
  <2>4. UNCHANGED <<socket, stopped, loop, held, to>>
    BY <2>1 DEF acceptors
  <2>5. Shape'
    BY <2>2, <2>3, <2>4
  <2>6. Held'
    BY <2>1, <2>3, <2>4
  <2> QED
    BY <2>5, <2>6
<1>10. CASE UNCHANGED vars
  BY <1>10 DEF vars, acceptors
<1>11. ASSUME NEW l \in Listeners, AcceptLoop(l)
       PROVE  Shape' /\ Held'
  <2>1. CASE CheckGlobal(l) \/ CheckOwn(l)
    BY <1>7, <1>8, <2>1 DEF CheckGlobal, CheckOwn
  <2>2. CASE CountTotal(l)
    BY <1>7, <1>8, <2>2 DEF CountTotal
  <2>3. CASE CountActive(l)
    BY <1>7, <2>3 DEF CountActive
  <2> QED
    BY <1>5, <1>6, <1>11, <2>1, <2>2, <2>3 DEF AcceptLoop
<1> QED
  BY <1>1, <1>2, <1>3, <1>4, <1>9, <1>10, <1>11 DEF Next

LEMMA CountedAreFinite ==
  /\ IsFiniteSet(InTotal)
  /\ \A l : IsFiniteSet(InActive(l))
  /\ \A s : IsFiniteSet(InSource(s))
<1>1. InTotal \subseteq Conns /\ \A l : InActive(l) \subseteq Conns
  BY DEF InTotal, InActive
<1>2. \A s : InSource(s) \subseteq Conns
  BY DEF InSource
<1> QED
  BY <1>1, <1>2, FS_Subset, ConnectionsAssumption

(* A step that counts nobody, and moves nobody across what a counter counts. *)
LEMMA CountsStay ==
  ASSUME Counts, UNCHANGED counters, InTotal' = InTotal,
         \A l \in Listeners : InActive(l)' = InActive(l),
         \A s \in Sources : InSource(s)' = InSource(s)
  PROVE  Counts'
BY DEF Counts, counters

(* The places of one connection change, none of them as far as a counter goes. *)
LEMMA MovesUncounted ==
  ASSUME CountInv, UNCHANGED counters, NEW c \in Conns, NEW p \in Places,
         at' = [at EXCEPT ![c] = p],
         at[c] # "none" => to'[c] = to[c],
         \A d \in Conns \ {c} : to'[d] = to[d],
         \A d \in Conns : at[d] = "accepted" /\ at'[d] = "accepted" =>
                            (loop'[to'[d]] = "active" <=> loop[to[d]] = "active"),
         {at[c], p} \subseteq {"none", "waiting", "accepted", "done"},
         at[c] = "accepted" => loop[to[c]] # "active",
         p = "accepted" => loop'[to'[c]] # "active"
  PROVE  Counts'
<1> USE DEF CountInv, Shape
<1>1. InTotal' = InTotal
  BY DEF InTotal
<1>2. \A l \in Listeners : InActive(l)' = InActive(l)
  BY DEF InActive
<1>3. \A s \in Sources : InSource(s)' = InSource(s)
  BY DEF InSource
<1> QED
  BY <1>1, <1>2, <1>3, CountsStay

LEMMA CountTotalKeepsCounts ==
  ASSUME CountInv, NEW l \in Listeners, CountTotal(l)
  PROVE  Counts'
<1> USE DEF CountInv, Shape, Held, Busy
<1>1. /\ loop[l] = "total" /\ loop' = [loop EXCEPT ![l] = "active"]
      /\ totalConns' = totalConns + 1
      /\ UNCHANGED <<held, to, at, activeConns, sourceConns>>
  BY DEF CountTotal
<1>2. PICK c \in Conns : c = held[l] /\ at[c] = "accepted" /\ to[c] = l
  BY <1>1
<1>3. c \notin InTotal /\ InTotal' = InTotal \cup {c}
  BY <1>1, <1>2 DEF InTotal
<1>4. Cardinality(InTotal') = Cardinality(InTotal) + 1
  BY <1>3, CountedAreFinite, FS_AddElement
<1>5. /\ \A m \in Listeners : InActive(m)' = InActive(m)
      /\ \A s \in Sources : InSource(s)' = InSource(s)
  BY <1>1 DEF InActive, InSource
<1> QED
  BY <1>1, <1>4, <1>5 DEF Counts

LEMMA OneMore ==
  ASSUME NEW S, IsFiniteSet(S), NEW T, NEW c, c \notin S, T = S \cup {c}
  PROVE  Cardinality(T) = Cardinality(S) + 1
BY FS_AddElement

LEMMA OneLess ==
  ASSUME NEW S, IsFiniteSet(S), NEW T, NEW c, c \in S, T = S \ {c}
  PROVE  Cardinality(T) = Cardinality(S) - 1
BY FS_RemoveElement

LEMMA CountActiveKeepsCounts ==
  ASSUME CountInv, NEW l \in Listeners, CountActive(l)
  PROVE  Counts'
<1> USE DEF CountInv, Shape, Held, Busy
<1>1. /\ loop[l] = "active" /\ loop' = [loop EXCEPT ![l] = "accept"]
      /\ at' = [at EXCEPT ![held[l]] = "started"]
      /\ activeConns' = [activeConns EXCEPT ![l] = @ + 1]
      /\ UNCHANGED <<to, totalConns, sourceConns>>
  BY DEF CountActive
<1>2. PICK c \in Conns : c = held[l] /\ at[c] = "accepted" /\ to[c] = l
  BY <1>1
<1>3. InTotal' = InTotal
  BY <1>1, <1>2 DEF InTotal
<1>4. c \notin InActive(l) /\ InActive(l)' = InActive(l) \cup {c}
  BY <1>1, <1>2 DEF InActive
<1>5. Cardinality(InActive(l)') = Cardinality(InActive(l)) + 1
  <2>1. IsFiniteSet(InActive(l))
    BY CountedAreFinite
  <2> QED
    BY <1>4, <2>1, OneMore
<1>6. \A m \in Listeners \ {l} : InActive(m)' = InActive(m)
  BY <1>1, <1>2 DEF InActive
<1>7. \A s \in Sources : InSource(s)' = InSource(s)
  BY <1>1, <1>2 DEF InSource
<1>8. activeConns' = [m \in Listeners |-> Cardinality(InActive(m))']
  <2>1. activeConns = [m \in Listeners |-> Cardinality(InActive(m))]
    BY DEF Counts
  <2>2. activeConns' = [m \in Listeners |-> IF m = l THEN activeConns[l] + 1 ELSE activeConns[m]]
    BY <1>1, <2>1
  <2>3. \A m \in Listeners : activeConns'[m] = Cardinality(InActive(m))'
    <3> SUFFICES ASSUME NEW m \in Listeners
                 PROVE  activeConns'[m] = Cardinality(InActive(m))'
      OBVIOUS
    <3>1. CASE m = l
      BY <1>5, <2>1, <2>2, <3>1
    <3>2. CASE m # l
      BY <1>6, <2>1, <2>2, <3>2
    <3> QED
      BY <3>1, <3>2
  <2> QED
    BY <2>2, <2>3
<1> QED
  BY <1>1, <1>3, <1>7, <1>8 DEF Counts

LEMMA CountSourceKeepsCounts ==
  ASSUME CountInv, NEW c \in Conns, CountSource(c)
  PROVE  Counts'
<1> USE ConnectionsAssumption DEF CountInv, Shape, Held
<1>1. /\ at[c] = "started" /\ at' = [at EXCEPT ![c] = "check"]
      /\ sourceConns' = [sourceConns EXCEPT ![SourceOf[c]] = @ + 1]
      /\ UNCHANGED <<loop, to, totalConns, activeConns>>
  BY DEF CountSource, acceptors
<1>2. InTotal' = InTotal
  BY <1>1 DEF InTotal
<1>3. \A l \in Listeners : InActive(l)' = InActive(l)
  BY <1>1 DEF InActive
<1> DEFINE h == SourceOf[c]
<1>4. c \notin InSource(h) /\ InSource(h)' = InSource(h) \cup {c}
  BY <1>1 DEF InSource
<1>5. Cardinality(InSource(h)') = Cardinality(InSource(h)) + 1
  <2>1. IsFiniteSet(InSource(h))
    BY CountedAreFinite
  <2> QED
    BY <1>4, <2>1, OneMore
<1>6. \A s \in Sources \ {h} : InSource(s)' = InSource(s)
  BY <1>1 DEF InSource
<1>7. sourceConns' = [s \in Sources |-> Cardinality(InSource(s))']
  <2>1. sourceConns = [s \in Sources |-> Cardinality(InSource(s))]
    BY DEF Counts
  <2>2. sourceConns' = [s \in Sources |-> IF s = h THEN sourceConns[h] + 1 ELSE sourceConns[s]]
    BY <1>1, <2>1
  <2>3. \A s \in Sources : sourceConns'[s] = Cardinality(InSource(s))'
    <3> SUFFICES ASSUME NEW s \in Sources
                 PROVE  sourceConns'[s] = Cardinality(InSource(s))'
      OBVIOUS
    <3>1. CASE s = h
      BY <1>5, <2>1, <2>2, <3>1
    <3>2. CASE s # h
      BY <1>6, <2>1, <2>2, <3>2
    <3> QED
      BY <3>1, <3>2
  <2> QED
    BY <2>2, <2>3
<1> QED
  BY <1>1, <1>2, <1>3, <1>7 DEF Counts

LEMMA LeaveTotalKeepsCounts ==
  ASSUME CountInv, NEW c \in Conns, LeaveTotal(c)
  PROVE  Counts'
<1> USE DEF CountInv, Shape, Held
<1>1. /\ at[c] = "leaveTotal" /\ at' = [at EXCEPT ![c] = "leaveActive"]
      /\ totalConns' = totalConns - 1
      /\ UNCHANGED <<loop, to, activeConns, sourceConns>>
  BY DEF LeaveTotal, acceptors
<1>2. c \in InTotal /\ InTotal' = InTotal \ {c}
  BY <1>1 DEF InTotal
<1>3. Cardinality(InTotal') = Cardinality(InTotal) - 1
  BY <1>2, CountedAreFinite, OneLess
<1>4. \A l \in Listeners : InActive(l)' = InActive(l)
  BY <1>1 DEF InActive
<1>5. \A s \in Sources : InSource(s)' = InSource(s)
  BY <1>1 DEF InSource
<1> QED
  BY <1>1, <1>3, <1>4, <1>5 DEF Counts

LEMMA LeaveActiveKeepsCounts ==
  ASSUME CountInv, NEW c \in Conns, LeaveActive(c)
  PROVE  Counts'
<1> USE DEF CountInv, Shape, Held
<1>0. PICK l \in Listeners : l = to[c]
  BY DEF LeaveActive
<1>1. /\ at[c] = "leaveActive" /\ at' = [at EXCEPT ![c] = "leaveSource"]
      /\ activeConns' = [activeConns EXCEPT ![l] = @ - 1]
      /\ UNCHANGED <<loop, to, totalConns, sourceConns>>
  BY <1>0 DEF LeaveActive, acceptors
<1>3. InTotal' = InTotal
  BY <1>1 DEF InTotal
<1>4. c \in InActive(l) /\ InActive(l)' = InActive(l) \ {c}
  BY <1>0, <1>1 DEF InActive
<1>5. Cardinality(InActive(l)') = Cardinality(InActive(l)) - 1
  <2>1. IsFiniteSet(InActive(l))
    BY CountedAreFinite
  <2> QED
    BY <1>4, <2>1, OneLess
<1>6. \A m \in Listeners \ {l} : InActive(m)' = InActive(m)
  BY <1>0, <1>1 DEF InActive
<1>7. \A s \in Sources : InSource(s)' = InSource(s)
  BY <1>1 DEF InSource
<1>8. activeConns' = [m \in Listeners |-> Cardinality(InActive(m))']
  <2>1. activeConns = [m \in Listeners |-> Cardinality(InActive(m))]
    BY DEF Counts
  <2>2. activeConns' = [m \in Listeners |-> IF m = l THEN activeConns[l] - 1 ELSE activeConns[m]]
    BY <1>1, <2>1
  <2>3. \A m \in Listeners : activeConns'[m] = Cardinality(InActive(m))'
    <3> SUFFICES ASSUME NEW m \in Listeners
                 PROVE  activeConns'[m] = Cardinality(InActive(m))'
      OBVIOUS
    <3>1. CASE m = l
      BY <1>5, <2>1, <2>2, <3>1
    <3>2. CASE m # l
      BY <1>6, <2>1, <2>2, <3>2
    <3> QED
      BY <3>1, <3>2
  <2> QED
    BY <2>2, <2>3
<1> QED
  BY <1>1, <1>3, <1>7, <1>8 DEF Counts

LEMMA LeaveSourceKeepsCounts ==
  ASSUME CountInv, NEW c \in Conns, LeaveSource(c)
  PROVE  Counts'
<1> USE ConnectionsAssumption DEF CountInv, Shape, Held
<1> DEFINE h == SourceOf[c]
<1>1. /\ at[c] = "leaveSource" /\ at' = [at EXCEPT ![c] = "done"]
      /\ sourceConns' = [sourceConns EXCEPT ![h] = @ - 1]
      /\ UNCHANGED <<loop, to, totalConns, activeConns>>
  BY DEF LeaveSource, acceptors
<1>2. InTotal' = InTotal
  BY <1>1 DEF InTotal
<1>3. \A l \in Listeners : InActive(l)' = InActive(l)
  BY <1>1 DEF InActive
<1>4. c \in InSource(h) /\ InSource(h)' = InSource(h) \ {c}
  BY <1>1 DEF InSource
<1>5. Cardinality(InSource(h)') = Cardinality(InSource(h)) - 1
  <2>1. IsFiniteSet(InSource(h))
    BY CountedAreFinite
  <2> QED
    BY <1>4, <2>1, OneLess
<1>6. \A s \in Sources \ {h} : InSource(s)' = InSource(s)
  BY <1>1 DEF InSource
<1>7. sourceConns' = [s \in Sources |-> Cardinality(InSource(s))']
  <2>1. sourceConns = [s \in Sources |-> Cardinality(InSource(s))]
    BY DEF Counts
  <2>2. sourceConns' = [s \in Sources |-> IF s = h THEN sourceConns[h] - 1 ELSE sourceConns[s]]
    BY <1>1, <2>1
  <2>3. \A s \in Sources : sourceConns'[s] = Cardinality(InSource(s))'
    <3> SUFFICES ASSUME NEW s \in Sources
                 PROVE  sourceConns'[s] = Cardinality(InSource(s))'
      OBVIOUS
    <3>1. CASE s = h
      BY <1>5, <2>1, <2>2, <3>1
    <3>2. CASE s # h
      BY <1>6, <2>1, <2>2, <3>2
    <3> QED
      BY <3>1, <3>2
  <2> QED
    BY <2>2, <2>3
<1> QED
  BY <1>1, <1>2, <1>3, <1>7 DEF Counts

(* Nobody changes place, and no loop comes to count or ceases to. *)
LEMMA NobodyMoves ==
  ASSUME CountInv, UNCHANGED <<counters, at, to>>,
         \A m \in Listeners : loop'[m] = "active" <=> loop[m] = "active"
  PROVE  Counts'
<1> USE DEF CountInv, Shape, Held
<1>1. InTotal' = InTotal
  BY DEF InTotal
<1>2. \A l \in Listeners : InActive(l)' = InActive(l)
  BY DEF InActive
<1>3. \A s \in Sources : InSource(s)' = InSource(s)
  BY DEF InSource
<1> QED
  BY <1>1, <1>2, <1>3, CountsStay

LEMMA CountStep == CountInv /\ [Next]_vars => CountInv'
<1> SUFFICES ASSUME CountInv, [Next]_vars PROVE Counts'
  BY ShapeStep DEF CountInv
<1> USE DEF CountInv, Shape, Held, Busy, Steps, Places
<1>1. ASSUME NEW l \in Listeners, Start(l) \/ Cancel(l) \/ AcceptFails(l)
      PROVE  Counts'
  BY <1>1, NobodyMoves DEF Start, Cancel, AcceptFails
<1>2. ASSUME NEW l \in Listeners, CloseSocket(l)
      PROVE  Counts'
  <2>1. /\ UNCHANGED <<loop, to, counters>>
        /\ at' = [c \in Conns |-> IF at[c] = "waiting" /\ to[c] = l THEN "done" ELSE at[c]]
    BY <1>2 DEF CloseSocket
  <2>2. InTotal' = InTotal
    BY <2>1 DEF InTotal
  <2>3. \A m \in Listeners : InActive(m)' = InActive(m)
    BY <2>1 DEF InActive
  <2>4. \A s \in Sources : InSource(s)' = InSource(s)
    BY <2>1 DEF InSource
  <2> QED
    BY <2>1, <2>2, <2>3, <2>4, CountsStay
<1>3. ASSUME NEW l \in Listeners, NEW c \in Conns, Dial(c, l)
      PROVE  Counts'
  <2>1. /\ at[c] = "none" /\ at' = [at EXCEPT ![c] = "waiting"]
        /\ to' = [to EXCEPT ![c] = l]
        /\ UNCHANGED <<loop, counters>>
    BY <1>3 DEF Dial, acceptors
  <2>2. \A d \in Conns \ {c} : to'[d] = to[d]
    BY <2>1
  <2>3. \A d \in Conns : at[d] = "accepted" => at'[d] = "accepted" /\ to'[d] = to[d]
    BY <2>1
  <2>4. "waiting" \in Places /\ {at[c], "waiting"} \subseteq {"none", "waiting", "accepted", "done"}
    BY <2>1
  <2> QED
    BY <2>1, <2>2, <2>3, <2>4, MovesUncounted
<1>4. ASSUME NEW l \in Listeners, Accept(l)
      PROVE  Counts'
  <2>1. PICK c \in Conns : at[c] = "waiting" /\ to[c] = l /\ at' = [at EXCEPT ![c] = "accepted"]
    BY <1>4 DEF Accept
  <2>2. /\ loop[l] = "accept" /\ loop' = [loop EXCEPT ![l] = "global"]
        /\ UNCHANGED <<to, counters>>
    BY <1>4 DEF Accept
  <2>3. \A d \in Conns : to'[d] = to[d]
    BY <2>2
  <2>4. \A d \in Conns : at[d] = "accepted" => to[d] # l
    BY <2>2
  <2>5. \A d \in Conns :
          at[d] = "accepted" /\ at'[d] = "accepted" =>
            (loop'[to'[d]] = "active" <=> loop[to[d]] = "active")
    BY <2>2, <2>3, <2>4
  <2>6. /\ "accepted" \in Places
        /\ {at[c], "accepted"} \subseteq {"none", "waiting", "accepted", "done"}
        /\ at[c] # "accepted" /\ loop'[to'[c]] # "active"
    BY <2>1, <2>2
  <2> QED
    BY <2>1, <2>2, <2>3, <2>5, <2>6, MovesUncounted
<1>5. ASSUME NEW l \in Listeners, CheckGlobal(l) \/ CheckOwn(l)
      PROVE  Counts'
  <2>1. loop[l] \in {"global", "own"} /\ UNCHANGED <<to, counters>>
    BY <1>5 DEF CheckGlobal, CheckOwn
  <2>2. CASE Reject(l)
    <3>1. PICK c \in Conns : c = held[l] /\ at[c] = "accepted" /\ to[c] = l
      BY <2>1
    <3>2. at' = [at EXCEPT ![c] = "done"] /\ loop' = [loop EXCEPT ![l] = "accept"]
      BY <2>2, <3>1 DEF Reject
    <3>3. \A d \in Conns : to'[d] = to[d]
      BY <2>1
    <3>4. \A d \in Conns : at[d] = "accepted" /\ at'[d] = "accepted" => to[d] # l
      BY <3>1, <3>2
    <3>5. \A d \in Conns :
            at[d] = "accepted" /\ at'[d] = "accepted" =>
              (loop'[to'[d]] = "active" <=> loop[to[d]] = "active")
      BY <3>2, <3>3, <3>4
    <3>6. /\ "done" \in Places
          /\ {at[c], "done"} \subseteq {"none", "waiting", "accepted", "done"}
          /\ loop[to[c]] # "active"
      BY <2>1, <3>1
    <3> QED
      BY <2>1, <3>1, <3>2, <3>3, <3>5, <3>6, MovesUncounted
  <2>3. CASE ~Reject(l)
    <3>1. PICK p \in {"own", "total"} : loop' = [loop EXCEPT ![l] = p]
      BY <1>5, <2>3 DEF CheckGlobal, CheckOwn
    <3>2. UNCHANGED at
      BY <1>5, <2>3 DEF CheckGlobal, CheckOwn
    <3> QED
      BY <2>1, <3>1, <3>2, NobodyMoves
  <2> QED
    BY <2>2, <2>3
<1>6. ASSUME NEW c \in Conns, CheckStopped(c) \/ ReadFails(c) \/ \E last \in BOOLEAN : ReadLine(c, last)
      PROVE  Counts'
  <2>1. /\ at[c] \in {"check", "read"}
        /\ \E p \in {"check", "read", "leaveTotal"} : at' = [at EXCEPT ![c] = p]
        /\ UNCHANGED <<loop, to, counters>>
    BY <1>6 DEF CheckStopped, ReadFails, ReadLine, acceptors
  <2>2. PICK p \in {"check", "read", "leaveTotal"} : at' = [at EXCEPT ![c] = p]
    BY <2>1
  <2>3. InTotal' = InTotal
    BY <2>1, <2>2 DEF InTotal
  <2>4. \A m \in Listeners : InActive(m)' = InActive(m)
    BY <2>1, <2>2 DEF InActive
  <2>5. \A s \in Sources : InSource(s)' = InSource(s)
    BY <2>1, <2>2 DEF InSource
  <2> QED
    BY <2>1, <2>3, <2>4, <2>5, CountsStay
<1>7. CASE UNCHANGED vars
  BY <1>7, NobodyMoves DEF vars, acceptors
<1>8. ASSUME NEW l \in Listeners, AcceptLoop(l)
      PROVE  Counts'
  BY <1>1, <1>4, <1>5, <1>8, CountTotalKeepsCounts, CountActiveKeepsCounts DEF AcceptLoop
<1>9. ASSUME NEW c \in Conns, ReadLoop(c)
      PROVE  Counts'
  BY <1>6, <1>9, CountSourceKeepsCounts, LeaveTotalKeepsCounts, LeaveActiveKeepsCounts,
     LeaveSourceKeepsCounts DEF ReadLoop
<1> QED
  BY <1>1, <1>2, <1>3, <1>7, <1>8, <1>9 DEF Next

(* The counters are what the connections at each place of the read loops add up to
   (server.go:122-138): the invariant the theorems below rest on. *)
THEOREM CountInvHolds == Spec => []CountInv
BY InitCountInv, CountStep, PTL DEF Spec

(* However listeners, accept loops and read loops interleave, no counter of the
   server is ever negative (server.go:122-137). *)
THEOREM TypeCorrect == Spec => []TypeOK
<1>1. CountInv => TypeOK
  <2> SUFFICES ASSUME CountInv PROVE TypeOK
    OBVIOUS
  <2>1. totalConns \in Nat
    BY CountedAreFinite, FS_CardinalityType DEF CountInv, Counts
  <2>2. activeConns \in [Listeners -> Nat]
    <3>1. \A l \in Listeners : Cardinality(InActive(l)) \in Nat
      BY CountedAreFinite, FS_CardinalityType
    <3> QED
      BY <3>1 DEF CountInv, Counts
  <2>3. sourceConns \in [Sources -> Nat]
    <3>1. \A s \in Sources : Cardinality(InSource(s)) \in Nat
      BY CountedAreFinite, FS_CardinalityType
    <3> QED
      BY <3>1 DEF CountInv, Counts
  <2> QED
    BY <2>1, <2>2, <2>3 DEF CountInv, Shape, TypeOK, Steps
<1> QED
  BY <1>1, CountInvHolds, PTL

(* Whenever no read loop is on its way in or out, the total, the counter of each
   listener and the counter of each host are exactly the connections being
   read from, whatever ended the others (server.go:122-138). *)
THEOREM CountersHold == Spec => []CountersAgree
<1>1. CountInv => CountersAgree
  <2> SUFFICES ASSUME CountInv,
                      \A c \in Conns : at[c] \in {"none", "waiting", "check", "read", "done"}
               PROVE  /\ totalConns = Cardinality(Served)
                      /\ \A l \in Listeners :
                           activeConns[l] = Cardinality({c \in Served : to[c] = l})
                      /\ \A s \in Sources :
                           sourceConns[s] = Cardinality({c \in Served : SourceOf[c] = s})
    BY DEF CountersAgree
  <2>1. InTotal = Served
    BY DEF InTotal, Served
  <2>2. \A l \in Listeners : InActive(l) = {c \in Served : to[c] = l}
    BY DEF InActive, Served
  <2>3. \A s \in Sources : InSource(s) = {c \in Served : SourceOf[c] = s}
    BY DEF InSource, Served
  <2>4. /\ totalConns = Cardinality(InTotal)
        /\ \A l \in Listeners : activeConns[l] = Cardinality(InActive(l))
        /\ \A s \in Sources : sourceConns[s] = Cardinality(InSource(s))
    BY DEF CountInv, Counts
  <2> QED
    BY <2>1, <2>2, <2>3, <2>4
<1> QED
  BY <1>1, CountInvHolds, PTL

(* The only step that turns an accepted connection away is the refusal by the
   loop that holds it. *)
LEMMA WhoRejects ==
  ASSUME CountInv, [Next]_vars, NEW c \in Conns, at[c] = "accepted", at'[c] = "done"
  PROVE  \E l \in Listeners :
           /\ to[c] = l /\ loop[l] \in {"global", "own"}
           /\ totalConns >= MaxConnsGlobal \/ activeConns[l] >= MaxConnsPerListener
<1> USE DEF CountInv, Shape, Held, Busy
<1>1. at'[c] # at[c]
  OBVIOUS
<1>2. ASSUME NEW l \in Listeners, Start(l) \/ Cancel(l) \/ CloseSocket(l)
      PROVE  FALSE
  BY <1>1, <1>2 DEF Start, Cancel, CloseSocket
<1>3. ASSUME NEW l \in Listeners, NEW d \in Conns, Dial(d, l)
      PROVE  FALSE
  BY <1>1, <1>3 DEF Dial
<1>4. ASSUME NEW d \in Conns, ReadLoop(d)
      PROVE  FALSE
  BY <1>1, <1>4 DEF ReadLoop, CountSource, CheckStopped, ReadLine, ReadFails, LeaveTotal,
                    LeaveActive, LeaveSource
<1>5. ASSUME UNCHANGED vars
      PROVE  FALSE
  BY <1>1, <1>5 DEF vars
<1>6. ASSUME NEW l \in Listeners, AcceptLoop(l)
      PROVE  (CheckGlobal(l) \/ CheckOwn(l)) /\ held[l] = c /\ Reject(l)
  <2>1. CASE Accept(l)
    BY <1>1, <2>1 DEF Accept
  <2>2. CASE AcceptFails(l) \/ CountTotal(l)
    BY <1>1, <2>2 DEF AcceptFails, CountTotal
  <2>3. CASE CountActive(l)
    BY <1>1, <2>3 DEF CountActive
  <2>4. CASE CheckGlobal(l) \/ CheckOwn(l)
    <3>1. Reject(l)
      BY <1>1, <2>4 DEF CheckGlobal, CheckOwn
    <3>2. at' = [at EXCEPT ![held[l]] = "done"]
      BY <3>1 DEF Reject
    <3> QED
      BY <1>1, <2>4, <3>1, <3>2
  <2> QED
    BY <1>6, <2>1, <2>2, <2>3, <2>4 DEF AcceptLoop
<1>7. PICK l \in Listeners : AcceptLoop(l)
  BY <1>2, <1>3, <1>4, <1>5 DEF Next
<1>8. (CheckGlobal(l) \/ CheckOwn(l)) /\ held[l] = c /\ Reject(l)
  BY <1>6, <1>7
<1>9. loop[l] \in {"global", "own"} /\ to[c] = l
  BY <1>8 DEF CheckGlobal, CheckOwn
<1>10. totalConns >= MaxConnsGlobal \/ activeConns[l] >= MaxConnsPerListener
  <2>1. CASE CheckGlobal(l)
    <3>1. loop'[l] = "accept"
      BY <1>8 DEF Reject
    <3> QED
      BY <2>1, <3>1 DEF CheckGlobal
  <2>2. CASE CheckOwn(l)
    <3>1. loop'[l] = "accept"
      BY <1>8 DEF Reject
    <3> QED
      BY <2>2, <3>1 DEF CheckOwn
  <2> QED
    BY <1>8, <2>1, <2>2
<1> QED
  BY <1>9, <1>10

(* A connection is closed unread only when as many others as one of the limits
   allows are being served or on their way in or out: no failure or disconnect
   leaves a counter behind that turns later clients away (server.go:110-121). *)
THEOREM RejectionsJustified == Spec => RejectsOnlyWhenFull
<1>1. ASSUME CountInv, [Next]_vars, NEW c \in Conns, at[c] = "accepted", at'[c] = "done"
      PROVE  \/ Cardinality(Present \ {c}) >= MaxConnsGlobal
             \/ Cardinality({d \in Present \ {c} : to[d] = to[c]}) >= MaxConnsPerListener
  <2>1. PICK l \in Listeners :
          /\ to[c] = l /\ loop[l] \in {"global", "own"}
          /\ totalConns >= MaxConnsGlobal \/ activeConns[l] >= MaxConnsPerListener
    BY <1>1, WhoRejects
  <2> DEFINE Others == Present \ {c}
             Here == {d \in Present \ {c} : to[d] = to[c]}
  <2>2. InTotal \subseteq Others /\ InActive(l) \subseteq Here
    BY <1>1, <2>1 DEF InTotal, InActive, Present
  <2>3. Others \subseteq Conns /\ Here \subseteq Conns
    BY DEF Present
  <2>4. IsFiniteSet(Others) /\ IsFiniteSet(Here)
    BY <2>3, FS_Subset, ConnectionsAssumption
  <2> HIDE DEF Others, Here
  <2>5. /\ Cardinality(InTotal) <= Cardinality(Others)
        /\ Cardinality(InActive(l)) <= Cardinality(Here)
    BY <2>2, <2>4, FS_Subset
  <2>6. totalConns = Cardinality(InTotal) /\ activeConns[l] = Cardinality(InActive(l))
    BY <1>1 DEF CountInv, Counts
  <2>7. /\ Cardinality(InTotal) \in Nat /\ Cardinality(Others) \in Nat
        /\ Cardinality(InActive(l)) \in Nat /\ Cardinality(Here) \in Nat
    BY <2>4, CountedAreFinite, FS_CardinalityType
  <2>8. Cardinality(Others) >= MaxConnsGlobal \/ Cardinality(Here) >= MaxConnsPerListener
    BY <2>1, <2>5, <2>6, <2>7, ConnectionsAssumption
  <2> QED
    BY <2>8 DEF Others, Here
<1>2. CountInv /\ [Next]_vars =>
        \A c \in Conns :
          at[c] = "accepted" /\ at'[c] = "done" =>
            \/ Cardinality(Present \ {c}) >= MaxConnsGlobal
            \/ Cardinality({d \in Present \ {c} : to[d] = to[c]}) >= MaxConnsPerListener
  BY <1>1
<1> QED
  BY <1>2, CountInvHolds, PTL DEF Spec, RejectsOnlyWhenFull

-------------------------------------------------------------------------------
(* The lines read after a listener was stopped. *)

(* A connection from which such a line was read waits for no other: it is at the
   test that ends it, or past it. *)
LateInv ==
  \A c \in Conns :
    \/ late[c] = 0
    \/ /\ late[c] = 1
       /\ to[c] \in stopped
       /\ at[c] \in {"check", "leaveTotal", "leaveActive", "leaveSource", "done"}

LEMMA LateStep == CountInv /\ LateInv /\ [Next]_vars => LateInv'
<1> SUFFICES ASSUME CountInv, LateInv, [Next]_vars PROVE LateInv'
  OBVIOUS
<1> USE DEF CountInv, Shape, LateInv
<1>1. ASSUME NEW l \in Listeners, Start(l) \/ Cancel(l) \/ CloseSocket(l)
      PROVE  LateInv'
  BY <1>1 DEF Start, Cancel, CloseSocket
<1>2. ASSUME NEW l \in Listeners, NEW c \in Conns, Dial(c, l)
      PROVE  LateInv'
  BY <1>2 DEF Dial, acceptors
<1>3. ASSUME NEW l \in Listeners, AcceptLoop(l)
      PROVE  LateInv'
  <2>1. UNCHANGED <<to, late, stopped>>
    BY <1>3 DEF AcceptLoop, Accept, AcceptFails, CheckGlobal, CheckOwn, CountTotal, CountActive
  <2>2. \A c \in Conns :
          at[c] \in {"check", "leaveTotal", "leaveActive", "leaveSource", "done"} => at'[c] = at[c]
    <3>1. CASE Accept(l)
      BY <3>1 DEF Accept
    <3>2. CASE AcceptFails(l) \/ CountTotal(l)
      BY <3>2 DEF AcceptFails, CountTotal
    <3>3. CASE loop[l] \in Busy /\ (Reject(l) \/ CountActive(l))
      BY <3>3 DEF Held, Busy, Reject, CountActive
    <3>4. CASE (CheckGlobal(l) \/ CheckOwn(l)) /\ ~Reject(l)
      BY <3>4 DEF CheckGlobal, CheckOwn
    <3> QED
      BY <1>3, <3>1, <3>2, <3>3, <3>4 DEF AcceptLoop, CheckGlobal, CheckOwn, CountActive, Busy
  <2> QED
    BY <2>1, <2>2
<1>4. ASSUME NEW c \in Conns, ReadLoop(c), ~\E last \in BOOLEAN : ReadLine(c, last)
      PROVE  LateInv'
  <2>1. UNCHANGED <<to, late, stopped>>
    BY <1>4 DEF ReadLoop, CountSource, CheckStopped, ReadFails, LeaveTotal, LeaveActive,
                LeaveSource, acceptors
  <2>2. PICK p \in Places : at' = [at EXCEPT ![c] = p]
    BY <1>4 DEF ReadLoop, CountSource, CheckStopped, ReadFails, LeaveTotal, LeaveActive,
                LeaveSource, Places
  <2>3. late[c] = 1 => p \in {"leaveTotal", "leaveActive", "leaveSource", "done"}
    BY <1>4, <2>2 DEF ReadLoop, CountSource, CheckStopped, ReadFails, LeaveTotal, LeaveActive,
                      LeaveSource, Places
  <2> QED
    BY <2>1, <2>2, <2>3
<1>5. ASSUME NEW c \in Conns, NEW last \in BOOLEAN, ReadLine(c, last)
      PROVE  LateInv'
  <2>1. at[c] = "read" /\ late[c] = 0 /\ UNCHANGED <<to, stopped>>
    BY <1>5 DEF ReadLine, acceptors
  <2>2. PICK n \in {0, 1} : /\ late' = [late EXCEPT ![c] = n]
                            /\ n = 1 => to[c] \in stopped
    <3>1. late' = [late EXCEPT ![c] = IF to[c] \in stopped THEN late[c] + 1 ELSE late[c]]
      BY <1>5 DEF ReadLine
    <3>2. CASE to[c] \in stopped
      BY <2>1, <3>1, <3>2
    <3>3. CASE to[c] \notin stopped
      BY <2>1, <3>1, <3>3
    <3> QED
      BY <3>2, <3>3
  <2>3. PICK p \in {"check", "leaveTotal"} : at' = [at EXCEPT ![c] = p]
    BY <1>5 DEF ReadLine
  <2> QED
    BY <2>1, <2>2, <2>3
<1>6. CASE UNCHANGED vars
  BY <1>6 DEF vars, acceptors
<1> QED
  BY <1>1, <1>2, <1>3, <1>4, <1>5, <1>6 DEF Next, ReadLoop

(* After Stop at most one more line is taken from each connection, namely the one
   its read loop was waiting for: the loop tests the context before it reads
   again (server.go:143-147). *)
THEOREM LateLinesBounded == Spec => []AtMostOneLateLine
<1>1. Init => LateInv
  BY DEF Init, LateInv
<1>2. LateInv => AtMostOneLateLine
  BY DEF LateInv, AtMostOneLateLine
<1> QED
  BY <1>1, <1>2, LateStep, CountInvHolds, PTL DEF Spec
===============================================================================

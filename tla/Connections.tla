------------------------------ MODULE Connections ------------------------------
(***************************************************************************)
(* The TCP server (internal/server/server.go): listeners that the engine     *)
(* starts and stops, the accept loop of each, the read loop of each          *)
(* connection, and the three kinds of counters they share.  The loops test   *)
(* and move the counters in separate atomic steps.  A member of Listeners is *)
(* one listenerState: starting an id again makes another.  What becomes of a *)
(* line is module Ingest's.                                                  *)
(***************************************************************************)
EXTENDS Integers, FiniteSets, FiniteSetsExt

CONSTANTS
  Listeners,
  Conns,                 (* what clients dial, each once                     *)
  Sources,               (* hosts the clients are on                         *)
  SourceOf,              (* the source key of each connection                *)
  MaxConnsGlobal,
  MaxConnsPerListener,
  MaxLate,               (* bound on the lines that are counted as late      *)
  None                   (* no connection                                    *)

ASSUME ConnectionsAssumption ==
  /\ IsFiniteSet(Listeners) /\ IsFiniteSet(Conns)
  /\ SourceOf \in [Conns -> Sources]
  /\ MaxConnsGlobal \in Nat \ {0}
  /\ MaxConnsPerListener \in Nat \ {0}
  /\ MaxLate \in Nat
  /\ None \notin Conns \cup Listeners

VARIABLES
  socket,        (* of each listener: "none", "open" or "closed"             *)
  stopped,       (* listeners whose context is cancelled                     *)
  loop,          (* where each accept loop is                                *)
  held,          (* the connection it has accepted and not yet passed on     *)
  to,            (* the listener each connection dialled                     *)
  at,            (* where each connection and its read loop are              *)
  totalConns,    (* Server.totalConns                                        *)
  activeConns,   (* listenerState.activeConns                                *)
  sourceConns,   (* sourceState.activeConns                                  *)
  late           (* for the properties: the lines read from each connection
                    after its listener was stopped                           *)

acceptors == <<socket, stopped, loop, held>>
counters == <<totalConns, activeConns, sourceConns>>
vars == <<acceptors, to, at, counters, late>>

Init ==
  /\ socket = [l \in Listeners |-> "none"]
  /\ stopped = {}
  /\ loop = [l \in Listeners |-> "none"]
  /\ held = [l \in Listeners |-> None]
  /\ to = [c \in Conns |-> None]
  /\ at = [c \in Conns |-> "none"]
  /\ totalConns = 0
  /\ activeConns = [l \in Listeners |-> 0]
  /\ sourceConns = [s \in Sources |-> 0]
  /\ late = [c \in Conns |-> 0]

-------------------------------------------------------------------------------
(* Start and Stop, called by the engine.  Stop cancels, then closes; the
   connections nobody has accepted by then are reset. *)

Start(l) ==
  /\ socket[l] = "none"
  /\ socket' = [socket EXCEPT ![l] = "open"]
  /\ loop' = [loop EXCEPT ![l] = "accept"]
  /\ UNCHANGED <<stopped, held, to, at, counters, late>>

Cancel(l) ==
  /\ socket[l] = "open"
  /\ l \notin stopped
  /\ stopped' = stopped \cup {l}
  /\ UNCHANGED <<socket, loop, held, to, at, counters, late>>

CloseSocket(l) ==
  /\ socket[l] = "open"
  /\ l \in stopped
  /\ socket' = [socket EXCEPT ![l] = "closed"]
  /\ at' = [c \in Conns |-> IF at[c] = "waiting" /\ to[c] = l THEN "done" ELSE at[c]]
  /\ UNCHANGED <<stopped, loop, held, to, counters, late>>

Dial(c, l) ==
  /\ at[c] = "none"
  /\ socket[l] = "open"
  /\ at' = [at EXCEPT ![c] = "waiting"]
  /\ to' = [to EXCEPT ![c] = l]
  /\ UNCHANGED <<acceptors, counters, late>>

-------------------------------------------------------------------------------
(* acceptLoop *)

Accept(l) ==
  /\ loop[l] = "accept"
  /\ socket[l] = "open"
  /\ \E c \in Conns :
       /\ at[c] = "waiting"
       /\ to[c] = l
       /\ at' = [at EXCEPT ![c] = "accepted"]
       /\ held' = [held EXCEPT ![l] = c]
  /\ loop' = [loop EXCEPT ![l] = "global"]
  /\ UNCHANGED <<socket, stopped, to, counters, late>>

(* Accept fails once the socket is closed; the loop ends when it was cancelled
   and calls Accept again otherwise. *)
AcceptFails_Again(l) ==
  /\ loop[l] = "accept"
  /\ socket[l] = "closed"
  /\ UNCHANGED vars

AcceptFails(l) ==
  /\ loop[l] = "accept"
  /\ socket[l] = "closed"
  /\ l \in stopped
  /\ loop' = [loop EXCEPT ![l] = "ended"]
  /\ UNCHANGED <<socket, stopped, held, to, at, counters, late>>

Reject(l) ==
  /\ at' = [at EXCEPT ![held[l]] = "done"]
  /\ held' = [held EXCEPT ![l] = None]
  /\ loop' = [loop EXCEPT ![l] = "accept"]

CheckGlobal_OneMore(l) ==
  /\ loop[l] = "global"
  /\ IF totalConns > MaxConnsGlobal
     THEN Reject(l)
     ELSE loop' = [loop EXCEPT ![l] = "own"] /\ UNCHANGED <<held, at>>
  /\ UNCHANGED <<socket, stopped, to, counters, late>>

CheckGlobal(l) ==
  /\ loop[l] = "global"
  /\ IF totalConns >= MaxConnsGlobal
     THEN Reject(l)
     ELSE loop' = [loop EXCEPT ![l] = "own"] /\ UNCHANGED <<held, at>>
  /\ UNCHANGED <<socket, stopped, to, counters, late>>

CheckOwn_OneMore(l) ==
  /\ loop[l] = "own"
  /\ IF activeConns[l] > MaxConnsPerListener
     THEN Reject(l)
     ELSE loop' = [loop EXCEPT ![l] = "total"] /\ UNCHANGED <<held, at>>
  /\ UNCHANGED <<socket, stopped, to, counters, late>>

CheckOwn(l) ==
  /\ loop[l] = "own"
  /\ IF activeConns[l] >= MaxConnsPerListener
     THEN Reject(l)
     ELSE loop' = [loop EXCEPT ![l] = "total"] /\ UNCHANGED <<held, at>>
  /\ UNCHANGED <<socket, stopped, to, counters, late>>

CountTotal(l) ==
  /\ loop[l] = "total"
  /\ totalConns' = totalConns + 1
  /\ loop' = [loop EXCEPT ![l] = "active"]
  /\ UNCHANGED <<socket, stopped, held, to, at, activeConns, sourceConns, late>>

CountActive(l) ==
  /\ loop[l] = "active"
  /\ activeConns' = [activeConns EXCEPT ![l] = @ + 1]
  /\ at' = [at EXCEPT ![held[l]] = "started"]
  /\ held' = [held EXCEPT ![l] = None]
  /\ loop' = [loop EXCEPT ![l] = "accept"]
  /\ UNCHANGED <<socket, stopped, to, totalConns, sourceConns, late>>

-------------------------------------------------------------------------------
(* readLoop *)

CountSource(c) ==
  /\ at[c] = "started"
  /\ sourceConns' = [sourceConns EXCEPT ![SourceOf[c]] = @ + 1]
  /\ at' = [at EXCEPT ![c] = "check"]
  /\ UNCHANGED <<acceptors, to, totalConns, activeConns, late>>

CheckStopped_Never(c) ==
  /\ at[c] = "check"
  /\ at' = [at EXCEPT ![c] = "read"]
  /\ UNCHANGED <<acceptors, to, counters, late>>

CheckStopped(c) ==
  /\ at[c] = "check"
  /\ at' = [at EXCEPT ![c] = IF to[c] \in stopped THEN "leaveTotal" ELSE "read"]
  /\ UNCHANGED <<acceptors, to, counters, late>>

(* A line, or the text before the end of the input. *)
ReadLine(c, last) ==
  /\ at[c] = "read"
  /\ late[c] < MaxLate
  /\ late' = [late EXCEPT ![c] = IF to[c] \in stopped THEN @ + 1 ELSE @]
  /\ at' = [at EXCEPT ![c] = IF last THEN "leaveTotal" ELSE "check"]
  /\ UNCHANGED <<acceptors, to, counters>>

ReadFails_Leaks(c) ==
  /\ at[c] = "read"
  /\ at' = [at EXCEPT ![c] = "leaveActive"]
  /\ UNCHANGED <<acceptors, to, counters, late>>

ReadFails(c) ==
  /\ at[c] = "read"
  /\ at' = [at EXCEPT ![c] = "leaveTotal"]
  /\ UNCHANGED <<acceptors, to, counters, late>>

(* The deferred function: the connection is closed, then the counters move. *)
LeaveTotal(c) ==
  /\ at[c] = "leaveTotal"
  /\ totalConns' = totalConns - 1
  /\ at' = [at EXCEPT ![c] = "leaveActive"]
  /\ UNCHANGED <<acceptors, to, activeConns, sourceConns, late>>

LeaveActive(c) ==
  /\ at[c] = "leaveActive"
  /\ activeConns' = [activeConns EXCEPT ![to[c]] = @ - 1]
  /\ at' = [at EXCEPT ![c] = "leaveSource"]
  /\ UNCHANGED <<acceptors, to, totalConns, sourceConns, late>>

LeaveSource_Twice(c) ==
  /\ at[c] = "leaveSource"
  /\ sourceConns' = [sourceConns EXCEPT ![SourceOf[c]] = @ - 2]
  /\ at' = [at EXCEPT ![c] = "done"]
  /\ UNCHANGED <<acceptors, to, totalConns, activeConns, late>>

LeaveSource(c) ==
  /\ at[c] = "leaveSource"
  /\ sourceConns' = [sourceConns EXCEPT ![SourceOf[c]] = @ - 1]
  /\ at' = [at EXCEPT ![c] = "done"]
  /\ UNCHANGED <<acceptors, to, totalConns, activeConns, late>>

-------------------------------------------------------------------------------
AcceptLoop(l) ==
  \/ Accept(l) \/ AcceptFails(l)
  \/ CheckGlobal(l) \/ CheckOwn(l) \/ CountTotal(l) \/ CountActive(l)

ReadLoop(c) ==
  \/ CountSource(c) \/ CheckStopped(c)
  \/ \E last \in BOOLEAN : ReadLine(c, last)
  \/ ReadFails(c)
  \/ LeaveTotal(c) \/ LeaveActive(c) \/ LeaveSource(c)

Next ==
  \/ \E l \in Listeners :
       \/ Start(l) \/ Cancel(l) \/ CloseSocket(l) \/ AcceptLoop(l)
       \/ \E c \in Conns : Dial(c, l)
  \/ \E c \in Conns : ReadLoop(c)

Spec == Init /\ [][Next]_vars

(* Goroutines that can run do run, and Stop goes on to its second half.  That a
   peer sends anything, or ever closes, is not assumed. *)
Fairness ==
  /\ \A l \in Listeners : WF_vars(AcceptLoop(l)) /\ WF_vars(CloseSocket(l))
  /\ \A c \in Conns :
       WF_vars(CountSource(c) \/ CheckStopped(c)
                 \/ LeaveTotal(c) \/ LeaveActive(c) \/ LeaveSource(c))

LiveSpec == Spec /\ Fairness

-------------------------------------------------------------------------------
Places == {"none", "waiting", "accepted", "started", "check", "read",
           "leaveTotal", "leaveActive", "leaveSource", "done"}

(* Type correctness: no counter is ever negative, and the loop that has passed
   a connection's checks holds that connection. *)
TypeOK ==
  /\ socket \in [Listeners -> {"none", "open", "closed"}]
  /\ stopped \subseteq Listeners
  /\ loop \in [Listeners -> {"none", "accept", "global", "own", "total", "active", "ended"}]
  /\ held \in [Listeners -> Conns \cup {None}]
  /\ to \in [Conns -> Listeners \cup {None}]
  /\ at \in [Conns -> Places]
  /\ totalConns \in Nat
  /\ activeConns \in [Listeners -> Nat]
  /\ sourceConns \in [Sources -> Nat]
  /\ late \in [Conns -> 0 .. MaxLate]

(* A listener never serves more than MaxConnsPerListener connections, although
   test and count are separate steps: only its own loop counts up
   (server.go:116-123). *)
WithinListenerLimit ==
  \A l \in Listeners : activeConns[l] <= MaxConnsPerListener

(* The global limit is shared by the loops, each of which tests before it
   counts: it is exceeded by at most one connection for each further listener
   (server.go:110-122). *)
WithinGlobalLimit ==
  LET Loops == {l \in Listeners : loop[l] # "none"} IN
  totalConns <= MaxConnsGlobal + IF Loops = {} THEN 0 ELSE Cardinality(Loops) - 1

(* Whenever every connection that was counted is being read from, the three
   kinds of counters agree with each other and with the connections there are,
   whatever ended the others (server.go:122-138). *)
Served == {c \in Conns : at[c] \in {"check", "read"}}

CountersAgree ==
  (/\ \A c \in Conns : at[c] \in {"none", "waiting", "check", "read", "done"}) =>
    /\ totalConns = Cardinality(Served)
    /\ \A l \in Listeners : activeConns[l] = Cardinality({c \in Served : to[c] = l})
    /\ \A s \in Sources : sourceConns[s] = Cardinality({c \in Served : SourceOf[c] = s})

(* A connection is turned away only when as many as a limit allows are being
   served or on their way in or out: no place is lost for good (server.go:110-121). *)
Present == {c \in Conns : at[c] \notin {"none", "waiting", "done"}}

RejectsOnlyWhenFull ==
  [][\A c \in Conns :
       at[c] = "accepted" /\ at'[c] = "done" =>
         \/ Cardinality(Present \ {c}) >= MaxConnsGlobal
         \/ Cardinality({d \in Present \ {c} : to[d] = to[c]}) >= MaxConnsPerListener]_vars

(* After Stop at most one more line is taken from each connection, and none from
   a connection whose read loop was not waiting for one (server.go:143-147). *)
AtMostOneLateLine == \A c \in Conns : late[c] <= 1

(* Stop ends the accept loop (server.go:95-108). *)
StopEndsLoop == \A l \in Listeners : l \in stopped ~> loop[l] = "ended"
===============================================================================

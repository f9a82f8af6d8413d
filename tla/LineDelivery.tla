----------------------------- MODULE LineDelivery -----------------------------
(***************************************************************************)
(* What the ingest pipeline promises for the lines of each TCP connection:  *)
(* a line read from a connection is dropped on the spot or waits, a waiting *)
(* line is delivered to the buffers at most once, and never before an older *)
(* waiting line of the same connection.  Lines of different connections may *)
(* be delivered in any order.  Ingest implements this specification.        *)
(***************************************************************************)
EXTENDS Integers, Sequences

CONSTANTS
  Conns,     (* TCP connections                       *)
  MaxLines   (* how many lines each connection sends  *)

VARIABLES
  sent,       (* lines read so far, per connection      *)
  dropped,    (* lines refused because a queue was full *)
  waiting,    (* lines accepted and not yet delivered   *)
  delivered   (* lines delivered, in delivery order     *)

vars == <<sent, dropped, waiting, delivered>>

(* The n-th line a connection sends. *)
Line == [conn : Conns, n : 1 .. MaxLines]

Init ==
  /\ sent = [c \in Conns |-> 0]
  /\ dropped = {}
  /\ waiting = {}
  /\ delivered = << >>

Read(c) ==
  /\ sent[c] < MaxLines
  /\ sent' = [sent EXCEPT ![c] = @ + 1]
  /\ \/ /\ waiting' = waiting \cup {[conn |-> c, n |-> sent[c] + 1]}
        /\ UNCHANGED dropped
     \/ /\ dropped' = dropped \cup {[conn |-> c, n |-> sent[c] + 1]}
        /\ UNCHANGED waiting
  /\ UNCHANGED delivered

Deliver(l) ==
  /\ l \in waiting
  /\ \A k \in waiting : k.conn = l.conn => l.n <= k.n
  /\ waiting' = waiting \ {l}
  /\ delivered' = Append(delivered, l)
  /\ UNCHANGED <<sent, dropped>>

Next == (\E c \in Conns : Read(c)) \/ (\E l \in Line : Deliver(l))

Spec == Init /\ [][Next]_vars
===============================================================================

----------------------------- MODULE MCConnections -----------------------------
(* Connections with three clients on two hosts. *)
EXTENDS Connections, TLC

CONSTANTS c1, c2, c3, hostA, hostB

MCConns == {c1, c2, c3}
MCSourceOf == c1 :> hostA @@ c2 :> hostA @@ c3 :> hostB
===============================================================================

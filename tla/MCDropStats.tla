------------------------------ MODULE MCDropStats ------------------------------
(* DropStats with one listener and two connections of one source. *)
EXTENDS DropStats

CONSTANTS l1, c1, c2, h1

MCListenerOf == [c \in {c1, c2} |-> l1]
MCSourceOf == [c \in {c1, c2} |-> h1]
MCShardOf == [k \in {h1} |-> 1]
===============================================================================

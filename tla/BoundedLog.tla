------------------------------ MODULE BoundedLog ------------------------------
(***************************************************************************)
(* What a line buffer of the store promises its readers: the most recent   *)
(* Capacity entries appended since the last clear, oldest first.  This is   *)
(* the abstract specification that RingBuffer implements, and the only      *)
(* thing the engine relies on.                                              *)
(***************************************************************************)
EXTENDS Integers, Sequences

CONSTANTS
  Entry,     (* what a slot can hold: a line with its level *)
  Capacity   (* how many entries are kept, at least one     *)

VARIABLE log

(* The entries kept of a sequence that has outgrown the buffer by at most one. *)
Latest(s) == IF Len(s) > Capacity THEN Tail(s) ELSE s

Init == log = << >>

AppendEntry(e) == log' = Latest(Append(log, e))

Clear == log' = << >>

Next == (\E e \in Entry : AppendEntry(e)) \/ Clear

Spec == Init /\ [][Next]_log
===============================================================================

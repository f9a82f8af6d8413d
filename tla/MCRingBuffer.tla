----------------------------- MODULE MCRingBuffer -----------------------------
(* RingBuffer with three values per slot; the capacity comes from the cfg. *)
EXTENDS RingBuffer
===============================================================================

------------------------------- MODULE MCProgram -------------------------------
(* Program with the hub and one HTTP handler as callers, and one shard. *)
EXTENDS Program
===============================================================================

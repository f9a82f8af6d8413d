------------------------------ MODULE MCCommands -------------------------------
(* Commands with two ids for one address. *)
EXTENDS Commands, TLC

CONSTANTS name, number, home

MCAddressOf == name :> home @@ number :> home
RequestSymmetry == Permutations(Requests)
===============================================================================

------------------------------ MODULE MCTerminalUI -----------------------------
(* TerminalUI with one listener, one source and one search text. *)
EXTENDS TerminalUI
===============================================================================

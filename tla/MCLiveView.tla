------------------------------ MODULE MCLiveView ------------------------------
(* LiveView with one tab, one text, which a filter may hide, and two rows, which
   a snapshot lists in either order. *)
EXTENDS LiveView

Symmetry == Permutations(Rows)

(* When its troubles are used up, a behaviour is followed with one handler under way
   and with either a second connection or a refresh, or neither if it has rows. *)
Followed ==
  troubles = MaxTroubles =>
    /\ Cardinality({k \in Conns : serve[k] # Idle}) <= 1
    /\ \A b \in Browsers : refreshes[b] + attempt[b] <= IF rows = << >> THEN 2 ELSE 1
===============================================================================

-------------------------------- MODULE Delta ---------------------------------
(***************************************************************************)
(* The data that travels from the engine to a browser: how the hub computes *)
(* a delta from two snapshots (internal/web/delta.go) and how the browser    *)
(* applies what it receives (web/src/lib/store.ts).  A snapshot has           *)
(*   lines  the visible ones, each standing for its text and level;          *)
(*   rows   what there is of each listener and source: its entry in the list *)
(*          and its statistics (rows are never removed);                     *)
(*   order  the list: the rows in the order in which it has them;            *)
(*   stats  the counters.                                                    *)
(* The statistics of a host that has not sent a line yet are left out: it has *)
(* no row, no delta brings them (delta.go:122) and no page reads them.        *)
(***************************************************************************)
EXTENDS Integers, Sequences, FiniteSets, SequencesExt

CONSTANTS
  MaxLogBatch,      (* lines in one delta (--ws-max-log-batch)   *)
  MaxClientLines    (* MAX_CLIENT_LINES, what a browser keeps    *)

ASSUME DeltaAssumption ==
  /\ MaxLogBatch \in Nat \ {0}
  /\ MaxClientLines \in Nat \ {0}

(* The elements of s that are in T, in their order. *)
Passing(s, T) ==
  LET at == {i \in DOMAIN s : s[i] \in T}
      Nth(n) == CHOOSE i \in at : Cardinality({j \in at : j <= i}) = n
  IN [n \in 1 .. Cardinality(at) |-> s[Nth(n)]]

LastOf(s, n) == IF Len(s) > n THEN SubSeq(s, Len(s) - n + 1, Len(s)) ELSE s

(* appendOnlyLogs: may the lines of curr be sent as an addition to prev? *)
AppendOnly(prev, curr) == IsPrefix(prev.lines, curr.lines)

Added(prev, curr) == SubSeq(curr.lines, Len(prev.lines) + 1, Len(curr.lines))

NewLogs(prev, curr) == LastOf(Added(prev, curr), MaxLogBatch)

Truncated(prev, curr) == Len(Added(prev, curr)) > MaxLogBatch

(* diffListeners and diffSources: the rows that are new or different.  A change of
   their order makes none. *)
Patches(prev, curr) ==
  [r \in {r \in DOMAIN curr.rows :
            r \in DOMAIN prev.rows => prev.rows[r] # curr.rows[r]} |-> curr.rows[r]]

(* They are sent in the order of the new list. *)
PatchOrder(prev, curr) == Passing(curr.order, DOMAIN Patches(prev, curr))

Unchanged(prev, curr) ==
  /\ prev.lines = curr.lines
  /\ DOMAIN Patches(prev, curr) = {}
  /\ prev.stats = curr.stats

(* What the browser keeps of a full snapshot. *)
Kept(snap) == [snap EXCEPT !.lines = LastOf(@, MaxClientLines)]

(* What the browser shows after a delta: the lines after those it has, the
   patched rows over its own and where they were, the new ones behind them, the
   delta's counters.  Neither fromSeq nor truncateHint is looked at. *)
Patched(shown, delta) ==
  [lines |-> LastOf(shown.lines \o delta.newLogs, MaxClientLines),
   rows  |-> [r \in DOMAIN shown.rows \cup DOMAIN delta.patches |->
                IF r \in DOMAIN delta.patches THEN delta.patches[r] ELSE shown.rows[r]],
   order |-> shown.order \o Passing(delta.order, DOMAIN delta.patches \ DOMAIN shown.rows),
   stats |-> delta.stats]

(* For the properties: what does not depend on the order of the lists. *)
Content(snap) == [lines |-> snap.lines, rows |-> snap.rows, stats |-> snap.stats]

(* Does the list have each row of R once? *)
Lists(order, R) ==
  /\ ToSet(order) = R
  /\ \A i, j \in DOMAIN order : order[i] = order[j] => i = j
===============================================================================

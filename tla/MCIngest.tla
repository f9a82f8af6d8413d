------------------------------- MODULE MCIngest -------------------------------
(* Ingest with two connections of one source on the second of two shards, and a
   third one that keeps the first shard busy, where the loop looks first. *)
EXTENDS Ingest

CONSTANTS a, b, c

MCShardOf == [k \in {a, b, c} |-> IF k = c THEN 1 ELSE 2]

(* The clients either fill the second shard, or keep both busy: nobody has to send
   a line, so what is followed are whole behaviours of fewer clients. *)
Traffic == sent[c] = 0 \/ (sent[a] + sent[b] <= 2 /\ sent[c] <= 2)
===============================================================================

----------------------------- MODULE MCEngineState -----------------------------
(* EngineState with two texts, one of which a search finds. *)
EXTENDS EngineState, TLC

CONSTANTS t1, t2, warn, error, empty, find

MCLevels == {warn, error}
MCMasks == {{warn, error}, {error}}
MCMatches == empty :> {t1, t2} @@ find :> {t1}
===============================================================================

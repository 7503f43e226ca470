------------------------------ MODULE MCRelayer -----------------------------
(* Small instances of Relayer. *)
EXTENDS Relayer

CONSTANTS i1, i2

TwoIntents == {i1, i2}

(* Distinct nonces. *)
OwnNonce == [i \in Intents |-> i]

OneRun == [i \in Intents |-> "r1"]

(* Each intent belongs to an experiment of its own. *)
TwoRuns == [i \in Intents |-> IF i = i1 THEN "r1" ELSE "r2"]
=============================================================================

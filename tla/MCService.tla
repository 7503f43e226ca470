------------------------------ MODULE MCService -----------------------------
(* A small instance of Service. *)
EXTENDS Service

CONSTANTS i1, i2, p1, p2

OneRun == [i \in Intents |-> "r1"]
OwnNonce == [i \in Intents |-> i]
=============================================================================

------------------------------ MODULE MCIntake ------------------------------
(* A small instance of Intake.  Intents i1 and i2 share a nonce, i3        *)
(* expires first, i4 was signed for the mock's domain.                     *)
EXTENDS Intake

CONSTANTS i1, i2, i3, i4

MCIntents == {i1, i2, i3, i4}
MCReserves == [i \in MCIntents |-> IF i = i2 THEN i1 ELSE i]
MCDeadline == [i \in MCIntents |-> IF i = i3 THEN 0 ELSE 1]

Chain == [chain |-> 31337, executor |-> "deployed"]
OtherChain == [chain |-> 1, executor |-> "deployed"]
Mock == [chain |-> 31337, executor |-> "placeholder"]
MCSignedFor == [i \in MCIntents |-> IF i = i4 THEN Mock ELSE Chain]
MCNodes == {Chain}

Body(i, label, faults) == [intent |-> i, label |-> label, faults |-> faults]
MCBodies ==
  {Body(i, "default", {}) : i \in MCIntents}
    \union {Body(i1, "other", {}), Body(i3, "no label", {"INVALID_RUN_ID"})}

(* Two settings on the chain, and one out of range; the mock; an executor  *)
(* that is not there, and the mock's in its place.                         *)
Size(n) == [batchSize |-> n, maxAttempts |-> 3, maxBroadcasts |-> 3]
Config(mode, domain, n) == [mode |-> mode, domain |-> domain, sender |-> mode, limits |-> Size(n)]
MCConfigs ==
  {Config("evm", Chain, 10), Config("evm", Chain, 1), Config("evm", Chain, 0),
   Config("mock", Mock, 10), Config("evm", OtherChain, 10), Config("evm", Mock, 10)}
=============================================================================

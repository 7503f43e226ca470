----------------------------- MODULE MCBenchmark ----------------------------
(* A small instance of Benchmark: two intents. *)
EXTENDS Benchmark, TLC

CONSTANTS i1, i2

TwoIntents == {i1, i2}
Symmetry == Permutations(TwoIntents)

(* Of another run, in which both intents were confirmed or none. *)
Other(size, samples, gas, commit, workload) ==
  [runId |-> "other", variant |-> Variant(size, 0), batchSize |-> size, maxWait |-> 0,
   commit |-> commit, workload |-> workload, chainId |-> 31337, kind |-> "workload-drain",
   samples |-> samples, unfinished |-> 0, start |-> 1, end |-> 3,
   throughput |-> <<samples, 2>>,
   p50 |-> IF samples = 0 THEN None ELSE 1, p95 |-> IF samples = 0 THEN None ELSE 2,
   failures |-> <<2 - samples, 2>>, gas |-> gas]

Baseline == Other(1, 2, 50000, Commit, Workload)

(* Beside this run: a baseline, also one that confirmed nothing; another   *)
(* run with batches; a baseline of an earlier commit, or of another        *)
(* workload; and a baseline with the directory of a run that was aborted.  *)
Others ==
  {{Baseline}, {Other(1, 0, None, Commit, Workload)}, {Other(2, 2, 35000, Commit, Workload)},
   {Other(1, 2, 50000, "older", Workload)}, {Other(1, 2, 50000, Commit, "steady")},
   {Baseline, NoRow}}
=============================================================================

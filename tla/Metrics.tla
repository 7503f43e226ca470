------------------------------- MODULE Metrics ------------------------------
(***************************************************************************)
(* What a measured run amounts to: the relayer's own figures (Store.       *)
(* metrics), those the experiment driver computes from the records it      *)
(* collected (benchmarks/metrics.ts), the summary it writes of several     *)
(* runs (summarize.ts), and the console's import and comparison of it      *)
(* (lib/benchmark.ts, lib/experiments.ts).                                 *)
(*                                                                         *)
(* `intents` maps ids to records [state, received, submitted, confirmed,   *)
(* attempts, event], as GET /intents/:intentId answers; `rows` is a sequence *)
(* of batch records [ids, count, receipt].  A ratio is a pair.             *)
(***************************************************************************)
EXTENDS Integers, FiniteSets, FiniteSetsExt

Never == 0              \* null for a time; clocks start at 1
None == -1              \* null for a figure

Final == {"CONFIRMED", "REJECTED", "EXPIRED", "FAILED"}

(* Faulty variants of a definition stand before it; nothing uses them.     *)

-----------------------------------------------------------------------------
(* Statistics                                                              *)

CeilDiv(a, b) == (a + b - 1) \div b

(* The k-th smallest value of f, each counted as often as it occurs. *)
Ranked(f, k) ==
  CHOOSE v \in {f[d] : d \in DOMAIN f} :
    /\ Cardinality({d \in DOMAIN f : f[d] < v}) < k
    /\ Cardinality({d \in DOMAIN f : f[d] <= v}) >= k

(* Nearest rank. *)
RoundsDown(f, percent) == Ranked(f, Max({1, (percent * Cardinality(DOMAIN f)) \div 100}))
Percentile(f, percent) ==
  IF DOMAIN f = {} THEN None
  ELSE Ranked(f, Max({1, CeilDiv(percent * Cardinality(DOMAIN f), 100)}))

Distribution(f) ==
  [samples |-> Cardinality(DOMAIN f), p50 |-> Percentile(f, 50), p95 |-> Percentile(f, 95)]

(* In ten-thousandths, half up: as metrics.ts and as check-experiments.ts. *)
DecimalRatio(n, d) == (n * 10000 * 2 + d) \div (d * 2)
RoundedGas(n, d) == (n * 10000 + d \div 2) \div d

-----------------------------------------------------------------------------
(* The records, counted.                                                   *)

In(intents, states) == {i \in DOMAIN intents : intents[i].state \in states}
Confirmed(intents) == In(intents, {"CONFIRMED"})
Attempted(intents) == {i \in DOMAIN intents : intents[i].attempts > 0}
Failures(intents) == In(intents, Final \ {"CONFIRMED"})
EveryFailure(intents) == Failures(intents)
FailedAfterAttempt(intents) == Attempted(intents) \intersect Failures(intents)
BeforeAttempt(intents, state) == In(intents, {state}) \ Attempted(intents)
Unfinished(intents) == DOMAIN intents \ In(intents, Final)

EndToEnd(intents) ==
  [i \in Confirmed(intents) |-> intents[i].confirmed - intents[i].received]
Queueing(intents) ==
  [i \in Attempted(intents) |-> intents[i].submitted - intents[i].received]
AfterBroadcast(intents) ==
  [i \in Confirmed(intents) |-> intents[i].confirmed - intents[i].submitted]

HavingReceipt(rows, kinds) == {k \in DOMAIN rows : rows[k].receipt \in kinds}
Received(rows) == HavingReceipt(rows, {"success", "reverted"})
Broadcast(rows) == {k \in DOMAIN rows : rows[k].count > 0}

(* A call costs a fixed part, and one for each intent it executes. *)
GasUsed(row) ==
  CASE row.receipt = "success" -> 3 + 2 * Cardinality(row.ids)
    [] row.receipt = "reverted" -> 3
Gas(rows) == SumFunction([k \in Received(rows) |-> GasUsed(rows[k])])

(* The part both reports have. *)
Figures(intents, rows) ==
  [accepted |-> Cardinality(DOMAIN intents),
   confirmed |-> Cardinality(Confirmed(intents)),
   attempted |-> Cardinality(Attempted(intents)),
   unfinished |-> Cardinality(Unfinished(intents)),
   endToEnd |-> Distribution(EndToEnd(intents)),
   queue |-> Distribution(Queueing(intents)),
   afterBroadcast |-> Distribution(AfterBroadcast(intents)),
   broadcast |-> Cardinality(Broadcast(rows)),
   receipts |-> Cardinality(Received(rows)),
   reverted |-> Cardinality(HavingReceipt(rows, {"reverted"})),
   gas |-> Gas(rows)]

(* GET /metrics *)
ServiceMetrics(intents, rows) ==
  [figures |-> Figures(intents, rows),
   failed |-> Cardinality(Failures(intents) \intersect Attempted(intents))]

-----------------------------------------------------------------------------
(* computeRunMetrics                                                       *)

(* The last entry of the record's state, unless it says when it confirmed. *)
FinalAt(r) ==
  IF r.state = "CONFIRMED" /\ r.confirmed # Never THEN r.confirmed
  ELSE r.event

WindowStart(intents) == Min({intents[i].received : i \in DOMAIN intents})
WindowEnd(intents, observedAt) ==
  IF Unfinished(intents) # {} THEN observedAt
  ELSE Max({FinalAt(intents[i]) : i \in DOMAIN intents})

(* It throws on an empty run and on a window without length. *)
Measurable(intents, observedAt) ==
  /\ DOMAIN intents # {}
  /\ WindowEnd(intents, observedAt) > WindowStart(intents)

PerAttempt(intents, rows) ==
  IF Attempted(intents) = {} THEN None
  ELSE DecimalRatio(Gas(rows), Max({1, Cardinality(Confirmed(intents))}))
PerSuccess(intents, rows) ==
  IF Confirmed(intents) = {} THEN None
  ELSE DecimalRatio(Gas(rows), Cardinality(Confirmed(intents)))

AllExpired(intents) == In(intents, {"EXPIRED"})
ExpiredEarly(intents) == BeforeAttempt(intents, "EXPIRED")

RunMetrics(intents, rows, observedAt) ==
  [figures |-> Figures(intents, rows),
   failed |-> Cardinality(FailedAfterAttempt(intents)),
   rejectedBeforeAttempt |-> Cardinality(BeforeAttempt(intents, "REJECTED")),
   expiredBeforeAttempt |-> Cardinality(ExpiredEarly(intents)),
   start |-> WindowStart(intents), end |-> WindowEnd(intents, observedAt),
   gasPerSuccess |-> PerSuccess(intents, rows)]

-----------------------------------------------------------------------------
(* summarize: one row per run, of what run.json says of it and of its      *)
(* metrics.  Every run is of the driver's own chain, and every window ends *)
(* with the drain.                                                         *)

Variant(size, wait) == IF size = 1 /\ wait = 0 THEN "baseline" ELSE "batch"

SummaryRow(run, m) ==
  [runId |-> run.runId, variant |-> Variant(run.batchSize, run.maxWait),
   batchSize |-> run.batchSize, maxWait |-> run.maxWait,
   commit |-> run.commit, workload |-> run.workload,
   chainId |-> 31337, kind |-> "workload-drain",
   samples |-> m.figures.endToEnd.samples, unfinished |-> m.figures.unfinished,
   start |-> m.start, end |-> m.end,
   throughput |-> <<m.figures.confirmed, m.end - m.start>>,
   p50 |-> m.figures.endToEnd.p50, p95 |-> m.figures.endToEnd.p95,
   failures |-> <<m.failed, m.figures.attempted>>, gas |-> m.gasPerSuccess]

(* parseBenchmark *)
ValidRow(r) ==
  /\ r.batchSize > 0 /\ r.maxWait >= 0 /\ r.unfinished >= 0 /\ r.samples >= 0
  /\ r.failures[1] <= r.failures[2]
  /\ IF r.samples = 0
     THEN r.p50 = None /\ r.p95 = None /\ r.gas = None /\ r.throughput[1] = 0
     ELSE r.p50 >= 0 /\ r.p95 >= r.p50 /\ r.gas >= 0
  /\ r.end > r.start
  /\ r.variant = "baseline" => r.batchSize = 1 /\ r.maxWait = 0

(* What the runs of a comparison must share. *)
Provenance(r) == <<r.commit, r.chainId, r.workload, r.kind>>

BothVariants(rows) == {r.variant : r \in rows} = {"baseline", "batch"}
OneProvenance(rows) == \A r, q \in rows : Provenance(r) = Provenance(q)

ValidSummary(rows) ==
  /\ Cardinality(rows) \in 2 .. 200
  /\ \A r \in rows : ValidRow(r) /\ \A q \in rows : q.runId = r.runId => q = r
  /\ BothVariants(rows) /\ OneProvenance(rows)

-----------------------------------------------------------------------------
(* The comparison by configuration: the table that summarize writes and    *)
(* the groups that the console draws.  A mean is <<sum, number>>.          *)

MeanGas(rows) ==
  LET with == {r \in rows : r.gas # None}
  IN <<MapThenSumSet(LAMBDA r : r.gas, with), Cardinality(with)>>

(* mean / baseline mean, as numerator and denominator; NoRatio without one *)
(* of the two.                                                             *)
NoRatio == <<0, 0>>
Over(mean, base) ==
  IF mean[2] = 0 \/ base[2] = 0 \/ base[1] = 0 THEN NoRatio
  ELSE <<mean[1] * base[2], mean[2] * base[1]>>

(* summarize: groups by size and wait, the baseline being 1/0. *)
TableGroup(rows, size, wait) == {r \in rows : r.batchSize = size /\ r.maxWait = wait}
TableRatio(rows, r) ==
  Over(MeanGas(TableGroup(rows, r.batchSize, r.maxWait)), MeanGas(TableGroup(rows, 1, 0)))

(* groupComparison: by variant, size and wait, the first baseline leading. *)
PageGroup(rows, r) ==
  {q \in rows : q.variant = r.variant /\ q.batchSize = r.batchSize /\ q.maxWait = r.maxWait}
AnyBaseline(rows) == CHOOSE r \in rows : r.variant = "baseline"
PageRatio(rows, r) == Over(MeanGas(PageGroup(rows, r)), MeanGas(PageGroup(rows, AnyBaseline(rows))))
=============================================================================

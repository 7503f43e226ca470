------------------------------ MODULE Benchmark -----------------------------
(***************************************************************************)
(* The experiment driver (benchmarks/run.ts) in its measurement: it hands  *)
(* signed intents to a relayer of its own, waits until they are terminal,  *)
(* collects the relayer's records request by request, compares them with   *)
(* the chain and writes them down; summarize.ts reads what it wrote.       *)
(*                                                                         *)
(* The relayer (module Records) keeps running during all of it.  Each      *)
(* request is one step of the relayer; every owner has one intent.  Setup  *)
(* and warm-up are over when the model begins.                             *)
(***************************************************************************)
EXTENDS Records

CONSTANTS
  Wait,          \* maxWaitMs
  Commit,        \* git describe
  Workload,      \* the run's arrival, intents, owners and block time
  MaxDrift,      \* bound on the store's transactions while the records are collected
  OtherRuns,     \* what other runs may have left in the directory: sets of rows
  NoRow          \* stands for files that are missing, or that nothing can be measured from

ASSUME SizesAssumption ==
  /\ IsFiniteSet(Intents) /\ Intents # {}
  /\ BatchSize \in Nat \ {0} /\ Wait \in Nat

(* Other runs in the directory: fewer than 200, each with an id of its     *)
(* own, of any commit and workload, since a comparison's directory may be  *)
(* used again (run.ts:61-63).  Of such a run nothing may be measurable;    *)
(* otherwise its row is by itself one that imports, as that of this run.   *)
ASSUME OtherRunsAssumption ==
  \A beside \in OtherRuns :
    /\ IsFiniteSet(beside) /\ Cardinality(beside) < 200
    /\ \A r \in beside \ {NoRow} :
         /\ ValidRow(r) /\ r.variant = Variant(r.batchSize, r.maxWait)
         /\ r.runId # "this" /\ \A q \in beside \ {NoRow} : q.runId = r.runId => q = r

VARIABLES
  phase,      \* what the driver is doing
  arriving,   \* submissions on their way to the relayer
  reply,      \* reply[i]: "pending", "accepted", "refused", "unknown"
  drained,    \* drain() saw every accepted intent terminal
  observedAt, \* when drain() ended
  listed,     \* listed[i]: the state of intent i in the listing
  intents,    \* intents.json, as far as collected
  sheets,     \* batches.json, as far as collected
  checks,     \* run.json: the chain checks
  drift,      \* transactions since drain() ended
  others      \* what the other runs left in the directory, when it is summarized

requestVars == <<arriving, reply>>
collected == <<drained, observedAt, listed, intents, sheets, checks>>
driverVars == <<phase, requestVars, collected, others>>
relayerVars == <<ledgerVars, recordVars, drift>>
benchVars == <<relayerVars, driverVars>>

Stages == {"measure", "list", "intents", "batches", "metrics", "chain", "done", "failed",
           "aborted", "summarized", "unreadable"}

(* When oneRun returns or throws, the relayer and the chain are stopped.   *)
Running == phase \notin {"done", "failed", "aborted", "summarized", "unreadable"}

BenchTypeOK ==
  /\ RecordsTypeOK
  /\ phase \in Stages
  /\ arriving \subseteq Intents
  /\ reply \in [Intents -> {"pending", "accepted", "refused", "unknown"}]
  /\ drained \in BOOLEAN /\ observedAt \in Nat
  /\ DOMAIN listed \subseteq Intents /\ DOMAIN intents \subseteq DOMAIN listed
  /\ Running => Len(sheets) <= Len(rows)
  /\ others \in OtherRuns \union {{}}

BenchInit ==
  /\ LedgerInit /\ RecordsInit
  /\ phase = "measure"
  /\ arriving = Intents /\ reply = [i \in Intents |-> "pending"]
  /\ drained = FALSE /\ observedAt = Never
  /\ listed = << >> /\ intents = << >> /\ sheets = << >>
  /\ checks = [receipts |-> FALSE, events |-> FALSE, nonces |-> FALSE]
  /\ drift = 0 /\ others = {}

-----------------------------------------------------------------------------
(* The relayer does not stand still while its records are read. *)
Drift ==
  /\ phase # "measure" => drift < MaxDrift
  /\ drift' = IF phase = "measure" THEN 0 ELSE drift + 1

(* POST /intents, each sent once at a time of its own: the relayer handles *)
(* it in time for the client or not.                                       *)

Handled(i, r) ==
  /\ arriving' = arriving \ {i}
  /\ reply' = [reply EXCEPT ![i] = IF @ = "pending" THEN r ELSE @]
  /\ UNCHANGED <<phase, collected, others>>

Store(i) ==
  /\ i \in arriving
  /\ Insert(i) /\ RecordInsert(i) /\ Drift
  /\ \E r \in {"accepted", "unknown"} : Handled(i, r)

Refuse(i) ==
  /\ i \in arriving
  /\ \E r \in {"refused", "unknown"} : Handled(i, r)
  /\ UNCHANGED relayerVars

(* The client's ten seconds are over, or the connection breaks: the        *)
(* request may arrive all the same.                                        *)
GivesUp(i) ==
  /\ reply[i] = "pending"
  /\ reply' = [reply EXCEPT ![i] = "unknown"]
  /\ arriving' \in {arriving, arriving \ {i}}
  /\ UNCHANGED <<relayerVars, phase, collected, others>>

-----------------------------------------------------------------------------
(* drain, when every submission has ended: until a listing shows the       *)
(* accepted intents, all terminal.                                         *)

Accepted == {i \in Intents : reply[i] = "accepted"}

AllAttempted == \A i \in Listed : attempts[i] > 0 \/ st[i] \in Terminal
AllTerminal == \A i \in Listed : st[i] \in Terminal
Drained == Cardinality(Listed) >= Cardinality(Accepted) /\ AllTerminal

DrainEnds(d) ==
  /\ phase = "measure" /\ \A i \in Intents : reply[i] # "pending"
  /\ drained' = d /\ observedAt' = clock /\ phase' = "list"
  /\ UNCHANGED <<relayerVars, requestVars, listed, intents, sheets, checks, others>>

DrainReturns == Drained /\ DrainEnds(TRUE)
DrainTimesOut == ~Drained /\ DrainEnds(FALSE)

-----------------------------------------------------------------------------
(* The records: the listing, each intent of it, the batches, the metrics.  *)

List ==
  /\ phase = "list"
  /\ listed' = [i \in Listed |-> st[i]] /\ phase' = "intents"
  /\ UNCHANGED <<relayerVars, requestVars, drained, observedAt, intents, sheets, checks, others>>

FetchIntent ==
  /\ phase \in {"intents", "batches", "metrics"}
  /\ \E i \in DOMAIN listed \ DOMAIN intents :
       /\ \A j \in DOMAIN listed \ DOMAIN intents : times[i].received <= times[j].received
       /\ intents' = [j \in DOMAIN intents \union {i} |-> IF j = i THEN Answer(i) ELSE intents[j]]
  /\ UNCHANGED <<relayerVars, phase, requestVars, drained, observedAt, listed, sheets, checks, others>>

(* Batches after intents. *)
BeforeIntents == TRUE
AfterIntents == DOMAIN intents = DOMAIN listed

ListBatches ==
  /\ phase = "intents" /\ AfterIntents
  /\ sheets' = rows /\ phase' = "batches"
  /\ UNCHANGED <<relayerVars, requestVars, drained, observedAt, listed, intents, checks, others>>

(* Each of these by itself: only the last one can still change meanwhile.  *)
FetchBatches ==
  /\ phase = "batches" /\ AfterIntents
  /\ sheets' = SubSeq(rows, 1, Len(sheets)) /\ phase' = "metrics"
  /\ UNCHANGED <<relayerVars, requestVars, drained, observedAt, listed, intents, checks, others>>

(* relayer-metrics.json: Reported, written down and not used again. *)
FetchMetrics ==
  /\ phase = "metrics" /\ DOMAIN intents = DOMAIN listed /\ phase' = "chain"
  /\ UNCHANGED <<relayerVars, requestVars, collected, others>>

-----------------------------------------------------------------------------
(* The chain: a receipt the relayer has is looked up; nonces and balances  *)
(* are those of the moment.                                                *)

Paid == UNION {rows[k].ids : k \in {n \in DOMAIN executed : executed[n]}}

ListedAs(s) == {i \in DOMAIN listed : listed[i] = s}

ReceiptsMatch ==
  \A k \in Received(sheets) :
    k <= Len(executed) /\ executed[k] = (sheets[k].receipt = "success")
ExecutedIn(r) == UNION {r[k].ids : k \in HavingReceipt(r, {"success"})}

Checked ==
  [receipts |-> ReceiptsMatch,
   events |-> ExecutedIn(sheets) = ListedAs("CONFIRMED"),
   nonces |-> Paid = ListedAs("CONFIRMED")]

(* The files are written whether the checks hold or not. *)
CheckChain ==
  /\ phase = "chain"
  /\ checks' = Checked
  /\ phase' = IF \A c \in DOMAIN checks' : checks'[c] THEN "done" ELSE "failed"
  /\ UNCHANGED <<relayerVars, requestVars, drained, observedAt, listed, intents, sheets, others>>

(* Nobody reads what relayer and chain held once both are stopped, nor the *)
(* answers to the submissions: the model forgets them.                     *)
Forget ==
  /\ st' = [i \in Intents |-> "ABSENT"] /\ attempts' = [i \in Intents |-> 0]
  /\ rows' = << >> /\ executed' = << >> /\ drift' = 0
  /\ clock' = 1 /\ times' = [i \in Intents |-> Unknown]
  /\ arriving' = {} /\ reply' = [i \in Intents |-> "refused"]

(* A request for the records fails: nothing is written.                    *)
Abort ==
  /\ phase \in {"measure", "list", "intents", "batches", "metrics", "chain"}
  /\ phase' = "aborted"
  /\ Forget
  /\ drained' = FALSE /\ observedAt' = Never
  /\ listed' = << >> /\ intents' = << >> /\ sheets' = << >>
  /\ UNCHANGED <<checks, others>>

-----------------------------------------------------------------------------
(* summarize reads every run directory: called by the driver when all runs *)
(* of an invocation passed their checks, and from the command line of      *)
(* whatever files there are, those of a failed run included.               *)

Measured == RunMetrics(intents, sheets, observedAt)
ThisRun ==
  [runId |-> "this", batchSize |-> BatchSize, maxWait |-> Wait,
   commit |-> Commit, workload |-> Workload]
Row == SummaryRow(ThisRun, Measured)
Summary == others \union {Row}

AllMeasured(beside) == NoRow \notin beside /\ Measurable(intents, observedAt)
Readable(beside) == AllMeasured(beside) /\ ValidSummary(beside \union {Row})

Summarize ==
  /\ phase \in {"done", "failed"}
  /\ others' \in OtherRuns
  /\ phase' = IF Readable(others') THEN "summarized" ELSE "unreadable"
  /\ Forget
  /\ UNCHANGED collected

-----------------------------------------------------------------------------
RelayerRuns == Running /\ Coordinate /\ RecordSteps /\ Drift /\ UNCHANGED driverVars

Submissions ==
  Running /\ \E i \in Intents : Store(i) \/ Refuse(i) \/ GivesUp(i)

Drive ==
  DrainReturns \/ DrainTimesOut \/ List \/ FetchIntent
    \/ ListBatches \/ FetchBatches \/ FetchMetrics \/ CheckChain \/ Abort \/ Summarize

BenchNext ==
  \/ Submissions \/ Drive
  \/ RelayerRuns
  \/ Running /\ TimePasses /\ UNCHANGED <<ledgerVars, drift, driverVars>>

BenchSpec == BenchInit /\ [][BenchNext]_benchVars

-----------------------------------------------------------------------------
(***************************************************************************)
(* Safety                                                                  *)
(***************************************************************************)

Answered == \A i \in Intents : reply[i] \in {"accepted", "refused"}

(* Everything is collected, and does not change any more. *)
Collected == phase = "chain"

(* The row of an intent tells one life of it, whatever was retried,        *)
(* rebroadcast or reverted in between: the attempted intents are those     *)
(* that have a first broadcast, which lies between the acceptance and the  *)
(* last event and stays the first one, and only a confirmed one says when  *)
(* that was (store.ts:55-61, 178, as check-experiments.ts:236-250 asserts  *)
(* of the archived runs).                                                  *)
Tells(r) ==
  /\ r.received <= r.event
  /\ (r.attempts > 0) = (r.submitted # Never)
  /\ r.attempts > 0 => r.received <= r.submitted /\ r.submitted <= r.event
  /\ r.confirmed = IF r.state = "CONFIRMED" THEN r.event ELSE Never

RecordsTell ==
  /\ [](BenchTypeOK /\ \A i \in Listed : Tells(Answer(i)))
  /\ [][\A i \in Listed \intersect Listed' :
          times[i].submitted # Never => times'[i].submitted = times[i].submitted]_times

(* Intents are fetched before batches: of an intent that the collected     *)
(* files call confirmed there is one batch with a successful receipt, of   *)
(* one they call attempted a batch that was broadcast, even when the drain *)
(* timed out and the relayer moved on meanwhile; no gas is missing from    *)
(* the figure per successful intent, and each intent counts under one      *)
(* outcome (run.ts:284-290, metrics.ts:79-110).                            *)
Outcomes(m) ==
  m.figures.confirmed + m.failed + m.rejectedBeforeAttempt + m.expiredBeforeAttempt
    + m.figures.unfinished

FilesAgree ==
  Collected =>
    /\ \A i \in Confirmed(intents) :
         Cardinality({k \in HavingReceipt(sheets, {"success"}) : i \in sheets[k].ids}) = 1
    /\ \A i \in Attempted(intents) : \E k \in Broadcast(sheets) : i \in sheets[k].ids
    /\ DOMAIN intents # {} => LET m == Measured IN Outcomes(m) = m.figures.accepted

(* What check-experiments.ts demands of an archived run: that it is        *)
(* complete, that its records, its receipts and the chain name the same    *)
(* intents, and that its figures are those of its records.                 *)
IsComplete == drained /\ Accepted = Intents /\ DOMAIN intents = Accepted

BalancesAgree == Paid = Confirmed(intents) /\ ExecutedIn(sheets) = Confirmed(intents)

Reviewed ==
  /\ IsComplete /\ BalancesAgree
  /\ \A i \in DOMAIN intents : Tells(intents[i])
  /\ Measured.end <= observedAt
  /\ \A k \in DOMAIN sheets : sheets[k].ids # {} /\ Cardinality(sheets[k].ids) <= BatchSize
  /\ SumFunction([k \in DOMAIN sheets |-> Cardinality(sheets[k].ids)]) = Cardinality(Confirmed(intents))
  /\ Measured.gasPerSuccess = RoundedGas(Measured.figures.gas, Measured.figures.confirmed)

(* A run that drained, every submission having been answered, agrees with  *)
(* the chain and goes on to the summary; one in which everything was       *)
(* accepted and confirmed without a revert also passes the later review    *)
(* (run.ts:160-170, 309-329).                                              *)
DrainedRunsReconcile ==
  drained /\ Answered =>
    /\ phase # "failed"
    /\ phase = "done" /\ Confirmed(intents) = Intents /\ HavingReceipt(sheets, {"reverted"}) = {} =>
         Reviewed

(* On such a run the relayer's /metrics and the driver's own figures,      *)
(* computed from records read one after the other, agree (store.ts:186-228).*)
(* Both are sums and percentiles of the same kind (Metrics, Figures): what *)
(* may differ is the moment each is taken of, and the count of failures,   *)
(* which the two decide by different states.                               *)
ReportsAgree ==
  [][FetchMetrics /\ drained /\ Answered /\ DOMAIN intents # {} =>
       Reported = [figures |-> Measured.figures, failed |-> Measured.failed]]_benchVars

(* However the run went, drained or not, checks passed or not, its row     *)
(* passes the import checks of the console unless nothing was accepted or  *)
(* the window has no length.  The summary of a directory in which all runs *)
(* can be measured is written, and loads, when they are of both variants   *)
(* and of one commit and workload; it is refused for no other reason.  And *)
(* the console compares gas as the table does (summarize.ts:62-64, 86-97,  *)
(* benchmark.ts:94-112).                                                   *)
SummaryLoads ==
  /\ phase \in {"summarized", "unreadable"} /\ Measurable(intents, observedAt) => ValidRow(Row)
  /\ phase = "unreadable" /\ AllMeasured(others) =>
       ~BothVariants(Summary) \/ ~OneProvenance(Summary)
  /\ phase = "summarized" => \A r \in Summary : TableRatio(Summary, r) = PageRatio(Summary, r)

(***************************************************************************)
(* The inductive invariant behind these.                                   *)
(***************************************************************************)
BatchRecords == [ids : SUBSET Intents, count : Nat, receipt : {"none", "success", "reverted"}]
InFlight == {"BATCHED", "SUBMITTED", "RECONCILING"}

TablesTyped ==
  /\ st \in [Intents -> {"ABSENT", "QUEUED"} \union InFlight \union Terminal]
  /\ attempts \in [Intents -> Nat]
  /\ rows \in Seq(BatchRecords) /\ executed \in Seq(BOOLEAN)

(* Batches are resolved one after the other, as the chain executed them.   *)
RowsFollowChain ==
  /\ Len(executed) <= Len(rows)
  /\ \A k \in DOMAIN rows :
       /\ rows[k].ids # {} /\ Cardinality(rows[k].ids) <= BatchSize
       /\ rows[k].receipt = "none" => k = Len(rows)
       /\ rows[k].receipt # "none" =>
            k <= Len(executed) /\ executed[k] = (rows[k].receipt = "success")
       /\ k <= Len(executed) => rows[k].count > 0

(* What an intent's row says, the batches it was in say too.               *)
StatesFollowRows ==
  /\ \A i \in Intents :
       /\ (st[i] \in InFlight) <=> (Unresolved /\ i \in Current.ids)
       /\ (st[i] = "CONFIRMED") <=> (\E k \in HavingReceipt(rows, {"success"}) : i \in rows[k].ids)
       /\ (attempts[i] > 0) <=> (\E k \in Broadcast(rows) : i \in rows[k].ids)
       /\ st[i] = "FAILED" => attempts[i] > 0
  /\ \A k \in DOMAIN rows : rows[k].ids \subseteq Listed
  /\ \A k, n \in HavingReceipt(rows, {"success"}) :
       rows[k].ids \intersect rows[n].ids # {} => k = n

TimesFollow == \A i \in Listed : Tells(Answer(i)) /\ times[i].event <= clock

LedgerInv == TablesTyped /\ RowsFollowChain /\ StatesFollowRows

(* Who was refused has no row, and whose submission is under way has none  *)
(* yet; when the drain is over every submission has ended.                 *)
RepliesFollow ==
  /\ \A i \in Intents :
       /\ i \in arriving => st[i] = "ABSENT"
       /\ reply[i] = "refused" => st[i] = "ABSENT"
       /\ reply[i] \in {"accepted", "refused"} => i \notin arriving
  /\ phase # "measure" => \A i \in Intents : reply[i] # "pending"

AnswerRecords ==
  [state : {"QUEUED"} \union InFlight \union Terminal, attempts : Nat,
   received : Nat, submitted : Nat, confirmed : Nat, event : Nat]

BeforeBatches == {"measure", "list", "intents"}
AfterBatches == {"batches", "metrics", "chain"}

(* The files are filled in order, with answers that told one life each.    *)
FilesFilled ==
  /\ phase \in {"measure", "list"} => listed = << >>
  /\ phase \in BeforeBatches => sheets = << >>
  /\ phase \notin BeforeBatches => DOMAIN intents = DOMAIN listed
  /\ intents \in [DOMAIN intents -> AnswerRecords]
  /\ \A i \in DOMAIN intents :
       Tells(intents[i]) /\ (intents[i].state = "FAILED" => intents[i].attempts > 0)
  /\ sheets \in Seq(BatchRecords)

(* The relayer never takes back what was read.                             *)
FilesStayTrue ==
  Running =>
    /\ DOMAIN listed \subseteq Listed
    /\ \A i \in DOMAIN intents :
         /\ intents[i].attempts > 0 => attempts[i] > 0
         /\ intents[i].state = "CONFIRMED" => st[i] = "CONFIRMED"
    /\ \A k \in DOMAIN sheets :
         /\ sheets[k].ids = rows[k].ids /\ sheets[k].count <= rows[k].count
         /\ sheets[k].receipt \in {"none", rows[k].receipt}

(* The batches were read after the intents they explain.                   *)
BatchesExplain ==
  phase \in AfterBatches =>
    /\ \A i \in Confirmed(intents) :
         \E k \in HavingReceipt(sheets, {"success"}) : i \in sheets[k].ids
    /\ \A i \in Attempted(intents) : \E k \in Broadcast(sheets) : i \in sheets[k].ids

(* When the drain saw everything terminal and nothing was under way, the   *)
(* relayer stands still and all of the files are of the same moment.       *)
StillAfterDrain ==
  /\ drained => phase \notin {"measure", "aborted"}
  /\ drained /\ Answered =>
       /\ phase # "failed"
       /\ Running \/ phase = "done" =>
            /\ \A i \in Listed : st[i] \in Terminal /\ times[i].event <= observedAt
            /\ phase # "list" => listed = [i \in Listed |-> st[i]]
            /\ \A i \in DOMAIN intents : intents[i] = Answer(i)
            /\ phase \notin BeforeBatches => sheets = rows

(* What became of the summary. *)
SummaryFollows ==
  /\ phase \in {"summarized", "unreadable"} => others \in OtherRuns
  /\ phase = "summarized" => Readable(others)
  /\ phase = "unreadable" => ~Readable(others)

BenchInv ==
  /\ BenchTypeOK /\ LedgerInv /\ TimesFollow /\ RepliesFollow
  /\ FilesFilled /\ FilesStayTrue /\ BatchesExplain /\ StillAfterDrain /\ SummaryFollows

(***************************************************************************)
(* A statement of the documentation that the code does not keep: "If the   *)
(* drain times out, it ends at the observation time and `unfinished > 0`"  *)
(* (benchmarks/README.md:68, of the window; metrics.ts:75-77 says the same).*)
(***************************************************************************)
TimeoutsStayVisible ==
  Collected /\ ~drained => Measured.figures.unfinished > 0 /\ Measured.end = observedAt
=============================================================================

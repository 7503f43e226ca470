# Agent payments: a TLA+ verification project

This directory specifies and verifies the agent payment system of this
repository: an owner authorizes a software agent on a contract, the agent signs
scheduled token transfers, and a relayer batches the signatures into
transactions. Money moves, processes crash, requests get lost, and three
parties (the agent's journal, the relayer's store, the contract) each keep their
own record of what has been paid. The modules model those records and every
step that changes them.

## The system

| Part | State it keeps | Operations | What it must never get wrong |
|---|---|---|---|
| `contracts/src/AgentIntentExecutor.sol` | policies with epoch and spent budget, consumed nonces, events | `configureAgent`, `revokeAgent`, `executeBatch` | replay, budgets, atomicity of a batch although token code runs inside it |
| `services/relayer` store, coordinator, API, process | SQLite inbox and outbox: intents, batches, runs | intake, `tick` (expire, select, preflight, prepare, broadcast, recover), crash and restart | a second transaction while one is unresolved; reporting a false outcome; losing an intent |
| `services/relayer/src/adapters` | the chain's view (EVM), or a ledger file (mock) | preflight, prepare, broadcast, receipt | the same signed bytes must be safe to send again |
| `sdk` agent, journal, policy check, client | SQLite journal: schedules, occurrences, signatures, nonce counters | `register`, `tick` (skip, sign, submit, refresh), crash and restart | signing twice, overspending the budget, reusing a nonce |
| `apps/web` | browser state: route, polled data, wallet, pending actions, imported comparison | polling, paging, connecting, owner actions, submitting, importing | stale data shown or acted upon; a record skipped between two pages |
| `benchmarks` | the driver's result files | submit, drain, collect, check, summarize | figures that do not fit together because the relayer moved on while they were read |
| `scripts` | none of their own | start the parts, run a demonstration | (tooling) |

They interact as follows. The owner configures the contract through the web
console. The agent reads the policy, signs an intent, stores it, and posts it to
the relayer's API. The coordinator, driven by a timer, takes queued intents of
one run, simulates growing prefixes of them, signs a transaction, commits it to
the outbox, and broadcasts it. Until a receipt is found nothing else is sent. A
reverted batch gives its intents back for another attempt. The agent polls the
relayer's API for the outcome; the console and the experiment driver page through
its listings. Anybody who holds a signature may also execute
it on the contract, without the relayer.

What is hard: the coordinator and the agent yield at every RPC call, and the
API, the clock, the chain and the owner move meanwhile; a crash may fall between
any two commits; a broadcast has an unknown outcome; a refused or abandoned
signature stays valid on the chain until its deadline. `PROJECT.json` lists
these hazards, each at its line.

## Modules

| Module | Models |
|---|---|
| `Settlement` | abstract: what a relayer promises (an intent is taken, then settled or abandoned, never both, and settled only if paid) |
| `Relayer` | `store.ts`, `coordinator.ts`, the intake of `api.ts`, start and crash of `main.ts`; the node, the chain and other forwarders as environment. Implements `Settlement` |
| `Intake` | the intake over the life of a database: the checks of `intent.ts` and `api.ts` in their order, insertion and rejections (`store.ts`), and what binds a database to its environment and a run to its settings (`config.ts`, `main.ts`, `evm.ts`) |
| `Ledger` | the relayer's two tables alone, one action per transaction of `store.ts`, without the ticks that decide when. `Relayer` implements it, and what is built on it need not repeat the coordinator |
| `SumTheorems` | lemmas about sums over finite sets, for the budgets of `Executor` and `Agent` and the figures of `Benchmark` |
| `RelayerProofs` | proofs about `Relayer` and the process around it: its invariant and promise; its queue and attempts, and that it implements `Ledger`; that `Service` implements it |
| `IntakeProofs`, `ExecutorProofs`, `AgentProofs`, `ConsoleProofs`, `PagesProofs`, `BenchmarkProofs` | proofs about the module each is named for |
| `Records` | `Ledger` with what the store keeps for readers: the times of a row, the events, the answers of the API |
| `Metrics` | operators: the relayer's `/metrics`, the driver's `metrics.ts` and `summarize.ts`, the console's import and comparison of a summary |
| `Benchmark` | `run.ts` in its measurement, over `Records`: submit, drain, collect record by record, check against the chain, summarize |
| `Mandate` | abstract: what the contract promises an owner (a batch is one step under the authorization in force; only the owner changes it) |
| `Executor` | `AgentIntentExecutor.sol`, with each transaction taken apart into checks, effects and token calls. Implements `Mandate` |
| `Agent` | `agent.ts`, `journal.ts`, `policy.ts`, the client's outcomes; the relayer's answers and the contract as environment |
| `Service` | `main.ts`, `lock.ts` and `adapters/mock.ts`: the process in mock mode around the store and coordinator of `Relayer`, which it implements |
| `Console` | `hooks.ts`, `wallet.ts` and the owner's actions of `Authorizations.tsx`; the wallet, the relayer's API and the chain as environment |
| `Pages` | the record pages: routes and run filter (`App.tsx`), listings and paging (`Intents.tsx`, `Batches.tsx`, `components.tsx`), the form for signed intents, the import of comparisons (`Performance.tsx`, `ExperimentComparison.tsx`), with the listing queries of `api.ts` and `store.ts` |
| `MCRelayer`, `MCIntake`, `MCExecutor`, `MCAgent`, `MCService`, `MCConsole`, `MCBenchmark`, `MCPages` | small instances, with the `.cfg` files of the runs |

In each module that models code, a few operators stand directly before the
definition they corrupt (`ForgetsCount` before `Noted`, say). No specification
uses them. They are plausible mistakes in the code, and `PROJECT.json`
("mutants") pairs each property with one that it detects.

### Relayer: state and steps

`st`, `attempts` and `earlier` are the intents table (state, `attemptCount`,
position in `ORDER BY received_at, rowid`); `batches` is the outbox, in creation
order. RECEIVED and VALIDATED never outlive the intake transaction, so an intent
is first seen as QUEUED. `pc`, `ready`, `cand`, `sel` and `cur` are the locals of
the tick in progress: lost in a crash, held across awaits. `pc = "note"` is the
gap between the commits of `prepareBatch` and `noteBroadcast`, where only a crash
can strike. The clock appears as what guards read of it: `window[i]` (before
`validAfter`, open, past `deadline`), `waited`, `quiet`. `wire`, `mempool` and
`chain` are the environment: requests may be lost, delivered late or twice,
pending transactions evicted, and a batch may revert for any reason.

A transaction is identified with its nonce and its intents: two preparations of
the same batch at the same nonce would differ in bytes, but the second can only
happen if nothing of the first was stored, hence nothing sent.

`Outcome` and `Rows` are the refinement mapping to `Ledger`: of a batch its
intents, its broadcast count and its receipt; of the chain, which transactions
succeeded. Choosing, simulating, sending and waiting are stutters of `Ledger`.

### Intake: state and steps

A request is handled without an await, so it is one step: `Accept` or `Refuse` by
`Verdict`, the first of `Checks` that fails. A body is its intent, its run label and
what is wrong with it (`faults`); what a check looks for in the text is left out, the
order of the checks is not. `rows`, `runs` and `rejections` are the tables, `identity`
the environment the database is bound to, `config` what the process was started with:
a start with another configuration may change the limits, never the environment.
`accepted` and `refused` record what clients were told. `Relayer` has the intake of
one life and settings that stay; `Intake` has many lives, and of the coordinator only
`Finalize`.

### Records, Metrics, Benchmark: state and steps

`times[i]` holds the columns `receivedAt`, `submittedAt`, `confirmedAt` and the time
of the last event of intent i, written in the same transaction as the row;
`RecordSteps` ties them to the steps of `Ledger`. `Benchmark` adds the driver:
`phase` is where `oneRun` stands, one value per kind of request; `arriving` and
`reply` are the submissions, each of which may be handled, refused, or given up on
and handled later; `listed`, `intents`, `sheets` and `checks` are the files as far
as they are collected. The relayer takes up to `MaxDrift` steps between the end of
the drain and the end of the collection; when a run has ended, what relayer and chain
held is forgotten (`Forget`). `Summarize` reads the row of this run, also when its
checks failed, since its files are written before that is reported, and whatever other
runs have left in the directory (`OtherRuns`): rows of any commit and workload, because
a directory named with `--comparison` may be used again, and `NoRow` for files that are
missing or that nothing can be measured from. Times are small integers and a ratio is a
pair, since only equality and order matter; gas is a function of the batch (`GasUsed`).

### Executor: state and steps

`world` is the contract and token state as running code sees it, `saved` what a
revert restores and what everybody else sees. `executeBatch` is `BeginBatch`, then
`Accept` (checks and effects) and `Transfer` (the token call) for each intent, then
`Commit`; `Revert` is possible at any point. Between `Accept` and `Transfer`, token
code may call `configureAgent`, `revokeAgent`, `approve` or `executeBatch`: the
reentrancy guard must stop the executor's own entry points.

### Agent: state and steps

`journal` is what the agent's connection sees, `disk` what a crash leaves. The two
differ only while `signNew` holds its transaction open across the signer's await.
`pc` says what the tick waits for; `tickNow` is the clock reading it took at its
start and `todo` the occurrences it still has to visit. Reading the policy is one
step with the decision based on it, which loses nothing: the decision depends on
the journal, which only the tick itself changes, and the chain may move before
and after. `late` holds requests the client gave up on, which may still arrive.
`sent` (every signature that left the process) only records history. `Grants` gives
for each epoch what the owner may authorize. A tick reads the clock once
(`agent.ts:51`), so a signature may be made after its window has ended, which
`sdk/README.md:37` excludes; `PaidInWindow` shows that it cannot pay then. LIVE stands
for the relayer's six unresolved states, ABANDONED for its three negative ones.

### Service: state and steps

`stage[p]` says how far `main` or `stop` of process p has come, one value per
await; `lock` is the content of the lock file, "blank" between `openSync` and
`writeFileSync`. `lastTick` records whether the promise in `active` is that of the
running tick or of one that the timer skipped. The store and the tick are
`Relayer`'s, and the mock gateway uses `Relayer`'s environment as its ledger:
`wire` is the broadcast call under way, `mempool` the ledger written to the
temporary file, `chain` the ledger, whose length is `nextNonce`. Where a step of
`Relayer` is nondeterministic (preflight, broadcast, receipt) `Service` says what
the mock does, and `IsARelayer` says that nothing else can happen. In mock mode a
tick runs as one turn of promise callbacks except where it awaits; the guard
`Yields` keeps other callbacks out of the synchronous parts. A clean stop is a
`Crash` of `Relayer` at a moment when no tick runs. Files do not fail, and the
second signal of `process.once` ends the process (`Kill`), as does one that
arrives before the handlers are installed.

### Console: state and steps

`poll` is the chain of requests of the current effect of `usePoll`, `dead` the
requests of effects that were cleaned up (`active` false). An effect is due
(`EffectDue`) when its key changed or `refresh` was called; React runs it before
the next render, so steps that change the key wait for it (`Renders`). What is
shown in between is the old data for one frame, which is why the properties
speak of states where no effect is due. `version[o]` counts the changes of an
owner's policies and stands for what `GET /agents` returns; the wallet and the
relayer see the same chain. `messages` holds the wallet's answers and events in
the order it sent them. `act` is one call of `act()`: token read, wallet check,
prompt, mining; `mine` is false once the page it belongs to was left.

### Pages: state and steps

`poll` is the effect of the page's `usePoll` and its request, `dead` the answers to
effects that were cleaned up; `data` is what is shown, with the key it was asked
for. A click, a submitted form and a new hash run their effects with the event,
as React flushes them; a `refresh()` called after an await leaves its effect `due`.
`at[i]` is `received_at` (`created_at` of a batch) in the relayer's milliseconds and
`Rank` the order of ids, which breaks ties: a listing is a slice of the rows in that
order. `posts` are submissions under way; one whose form is gone may still refresh
the listing behind it, one whose page is gone can only insert, as any client's.
`above` records which rows the reader saw on pages turned, for `NothingSkipped`.
Errors differ only in wording: a failed request leaves what is shown, a failed
import the comparison that was drawn.

## What is checked

| Run | Bounds | Shows |
|---|---|---|
| `relayer_safety` | 2 intents, batch size 2, 2 attempts, 2 broadcasts, 1 crash; one intent may be executed by somebody else | the tables, the tick and the chain fit together (`RelayerInv`, with `BatchesFit`: what a stored batch may hold); outbox before network, one unresolved transaction, true outcomes, attempt counts, no overtaking within a run, refinement of `Settlement` and of `Ledger` |
| `relayer_liveness` | 2 intents of 2 runs, one ahead of its window, both may expire, 1 attempt, 2 broadcasts, 1 crash | each accepted intent is resolved, or all broadcasts were lost; outcomes are final |
| `intake` | 4 intents (two share a nonce, one expires first, one is signed for the mock's domain), 6 bodies, 6 configurations (2 that fit the database), inbox for 1, a clock of 2 values, 2 starts | `IntakeInv`: one environment, uniform runs, nonces reserved for good, the inbox limit, rejections counted once, answers that hold for good |
| `executor` | 1 owner, 2 agents, 6 intents (two payloads with one nonce, a later epoch, an unsigned one), batches up to 3, 2 epochs | replay; budgets, `spent`, payments and balances agree after every batch (`BooksBalance`) and inside it (`BooksInv`); refinement of `Mandate` |
| `agent` | 2 occurrences with a window each, a grant too small for both and one that is enough, 2 epochs, 1 crash | journal, answers under way and chain fit together (`AgentInv`); one signature per occurrence and nonce, budget reservation, true and final outcomes, payment inside the window only, and every stored signature gets its outcome |
| `service` | 2 processes, 2 intents, 1 kill, 2 stops or crashes in all | one process owns the database, a lock left behind means a kill, a stop ends and never under a running tick, the mock is a chain |
| `console` | 2 owners, 1 account switch, 2 visits, 1 abandoned request, 1 change of each owner's policies | the page shows the inspected owner, never something older, and what it calls confirmed |
| `benchmark` | 2 intents, batches of 2, 2 attempts, a clock of 2 values, 1 broadcast, 1 relayer step while records are collected; beside the run a baseline, one without a success, another batch run, a baseline of another commit or workload, or one with an aborted run | what is collected fits together and reconciles; the driver's failures and the moment of its figures are the relayer's; every measurable run has a row that imports, a summary is refused only for what its runs do not share or lack, and table and console compare gas alike |
| `pages` | 2 intents of 2 runs, 1 row to a page, 2 milliseconds, 1 abandoned request, 1 submission at a time, 2 files | `PagesTellTheTruth`: own answers only, no outcome taken back, accepted intents listed, nothing skipped, a comparison to draw; and `ChangesAppear` |
| `agent_skips_unconfigured`, `agent_register_lost`, `benchmark_timeout` | as `agent` with overlapping windows; as `benchmark` | three statements of the documentation that the code does not keep (below) |

Intents expire in the liveness run and in `service`, whose every step is one of
`Relayer`; in `relayer_safety` they would double the states.

The bounds are the smallest at which the interesting cases meet: a batch of two
intents that reverts, is requeued and paid apart, with a rebroadcast and a crash
in between; a batch of three so that the last intent fails after two have paid,
with two of them sharing a budget or a nonce; an inbox for one, so that two intents
without anything else in common meet at its limit; two occurrences so that one
reservation limits the other. One relayer step during the collection is enough
to separate any two requests (rebroadcasts are left to the theorems there, which hold
for any `MaxBroadcasts`), and a row to a page makes every second intent turn
the page. In `pages` the batches, listed by the same query as intents over another
table, stay empty, and one of the intents never reaches an outcome. Two epochs let old signatures meet a new policy.
Two processes and one kill let a start, a stop and the removal of a stale lock
meet; one abandoned request and one change make an answer stale. In `console` the
owners and in `benchmark` the intents are symmetric: no definition tells them apart,
and no liveness property is checked there.
Deadlock is checked for the executor, where a step is always possible (a
transaction may end in a revert), and for the pages, which the user never runs out
of. It is not checked elsewhere: once every intent
or occurrence is resolved, all crashes are used and the clock has reached its
bound, these systems stop.

### Fairness

`Relayer`: a dead process is restarted (the operator removes a stale lock), the
interval timer keeps calling `tick`, an RPC call ends one way or the other (the
provider has a ten-second timeout), time passes, and what is in flight arrives or
is lost. A receipt lookup may throw any number of times, but not for ever
(strong fairness). Nothing says that a broadcast succeeds: this is why
`EventuallyResolved` allows for `Blocked`, the state in which the code waits for an
operator (`coordinator.ts:86-88`).

`Agent`: the host keeps calling `tick` and every call ends. The signer does not
fail for ever; requests about one occurrence are not lost for ever; the relayer
resolves what it accepted, which is what `EventuallyResolved` says of it. The clock
need not advance. A signer that fails for ever ends every tick at its occurrence and
starves those after it (`agent.ts:120`); this fairness assumes it away, and no property
speaks of it.

`Service`: processes are started again, starting does not fail for ever (strong
fairness of opening and listening), stale locks are removed, and calls on files
end.

`Pages`: effects and timers run, and a request made again and again is at last
answered and returns in time (strong fairness): polls may fail any number of times,
but not for ever. Nothing is assumed of the user, who may turn pages for ever;
`ChangesAppear` speaks of one who stays. `Console` and `Benchmark` are checked for
safety only.

### Findings

1. `agent_skips_unconfigured`: `docs/c-handoff.md:7` says SKIPPED means that the
   window passed without a signature, and that a blocked occurrence is tried
   again until the window ends. `open()` also stores SKIPPED when the policy's
   `validUntil` lies in the past, in particular when the owner has not configured
   the agent yet (`validUntil` 0): the occurrence is never tried again.
2. `agent_register_lost`: `register()` while a signature is awaited joins
   `signNew`'s open transaction and is undone with it when the signer fails.
3. `benchmark_timeout`: `benchmarks/README.md:68` says that a run whose drain timed
   out ends at the observation time with `unfinished > 0`. The records are collected
   after the timeout, while the relayer keeps working, and the figures are computed
   from them alone: when the last intent becomes terminal before it is fetched, intents,
   metrics and summary tell of a run that drained. Only `measurement.drained` in
   `run.json`, and the column of `summary.csv` made of it, still say that it did not.

Found in reading, without a run of its own: a tick may sign after the window
of its occurrence (above), and a row inserted in the same millisecond as one
already shown, with a smaller id, slips in behind a reader who turns pages
(`NothingSkipped` excepts it).

## What is proved

For every value of the constants, from the assumptions the modules name. An
invariant named `...Inv` below is the inductive one that the theorems beside it follow
from. The runs check it too; `BenchInv` and `PagesInv`, which are many times the size of
what follows from them, are not listed in a `.cfg`, but TLC finds them true on the
instances of their runs (1 068 418 and 273 652 states), the second also with three
items: add them as an `INVARIANT` to repeat that.

| Theorem | Says |
|---|---|
| `RelayerProofs!Invariance`, `QueueInvariance`, `RelayerInvariance` | `IInv`, `QInv` and with them `RelayerInv` are invariants |
| `RelayerProofs!BatchesAlwaysFit` | `BatchesFit`: each stored batch holds 1 to `BatchSize` intents of one run, and an intent is batched again only after a revert |
| `RelayerProofs!OutboxIsFirst`, `SenderIsAlone`, `OutcomesAreTrue`, `OutcomesAreFinal` | `OutboxFirst`, `NoCompetingTransaction`, `OutcomeIsTrue`, `TerminalIsFinal` |
| `RelayerProofs!AttemptsAreCounted`, `NobodyIsOvertaken`, `InboxIsBounded` | `AttemptsAreTransactions`, `NoOvertaking`, `InboxBounded` |
| `RelayerProofs!Refinement`, `RelayerProofs!LedgerIsKept` | `Relayer` implements `Settlement` and `Ledger` |
| `IntakeProofs!IntakeInvariance` | `IntakeInv` |
| `ExecutorProofs!Invariance`, `ReplayIsImpossible` | `IInv` and `NoReplay` |
| `ExecutorProofs!BooksInvariance`, `BooksAreKept` | `BooksInv` and `BooksBalance` |
| `ExecutorProofs!Refinement` | `Executor` implements `Mandate` |
| `AgentProofs!AgentInvariance` | `AgentInv` |
| `AgentProofs!SignedOnce`, `BudgetSuffices`, `ConfirmationsAreTrue` | `SignaturesAreUnique`, `SignaturesFitBudget`, `ConfirmedIsExecuted` |
| `AgentProofs!TerminalStays`, `PaidOnTime` | `TerminalIsFinal`, `PaidInWindow` |
| `RelayerProofs!ServiceInvariance` | `ServiceSpec => [](IInv /\ SInv)` |
| `RelayerProofs!OneProcessOwnsTheDatabase`, `StaleLockWasLeftByKill`, `StopWaitsForTheTick` | `OwnerHoldsLock`, `StaleMeansKilled`, `StopIsClean`, for any number of processes |
| `RelayerProofs!MockIsARelayer`, `MockOutcomesAreTrue` | `Service` implements `Relayer`; with it `OutcomeIsTrue` holds in mock mode |
| `ConsoleProofs!ConsoleInvariance` | `PInv` |
| `ConsoleProofs!ShownIsTheOwners`, `ConfirmationsAreShown`, `ConfirmationsConcernTheOwner`, `NothingOlderIsShown` | `ShownBelongsToOwner`, `ConfirmedIsShown`, `ConfirmedConcernsOwner`, `NeverShowsOlder` |
| `PagesProofs!PagesInvariance`, `PagesTell` | `PagesInv` and `PagesTellTheTruth` |
| `BenchmarkProofs!BenchInvariance` | `BenchInv` |
| `BenchmarkProofs!RecordsTellOneLife`, `FilesAlwaysAgree` | `RecordsTell`, `FilesAgree` |
| `BenchmarkProofs!ReportsAlwaysAgree`, `DrainedRunsAlwaysReconcile` | `ReportsAgree`, `DrainedRunsReconcile` |
| `BenchmarkProofs!SummariesAlwaysLoad` | `SummaryLoads` |
| `SumTheorems!SumOfParts`, `SumWithOneMore`, `SumOfPart` | how the sum over a finite set follows its parts |
| `SumTheorems!SumOfSizes` | the sizes of disjoint sets add up to that of their union |

**Relayer.** None of the safety properties is inductive. What carries them is that
batch k is the sender's k-th transaction (`BatchesFollowNonces`), that the chain is a
prefix of the outbox and everything in flight is in it (`ChainFollowsOutbox`), that
only a mined transaction resolves a batch (`ResolvedByReceipt`), that the two tables
agree (`TablesAgree`), and that a tick past its first check still holds what it saw
(`TickHoldsActive`): nothing but a tick creates or resolves batches. `IInv` is their
conjunction with `TypeOK`.

**Queue.** Every acceptance counts what is unresolved, and no other step adds to it,
since terminal states are final. A stored batch is what was selected (`BatchesFit`):
within the limit by `QInv`, of one run because a tick's candidates are, and without an
intent of an earlier batch that did not revert, because a queued intent is in no
unresolved batch and in no confirmed one (`TablesAgree`). That `Relayer` implements `Ledger` needs two facts
about the tick in progress on top of `IInv`, both in `QInv`: what it has selected,
with what it may still select, fits in a batch, which follows from the candidates
being the oldest `BatchSize` of a linear order; and a batch about to be broadcast has
not reached `MaxBroadcasts`. Nobody is overtaken because selected and candidate
intents are a prefix of their run among those found ready (`TickInOrder`): a preflight
that fails ends the selection, or rejects the oldest candidate if nothing is selected.
`attemptCount` is exact because it is raised in the commit that raises the broadcast
count from zero, and stays within the limit because only an intent with attempts left
is queued or stands in a batch never sent (`AttemptsLeft`).

**Intake.** The answers hold for good because what was told is still so
(`AnswersStand`): the accepted intents are exactly the rows, and every refusal but two
rests on a fault of the body, on the environment, on a deadline passed or on a nonce
taken, none of which goes away while the intent is not stored. A full inbox and a
closed run may open again (`MayChange`). A known digest is answered before
any other question is asked, or the second of two deliveries would be refused.

**Executor.** Inside a transaction, `world` is `saved` plus the effects of the first
intents of the batch, whose nonces are distinct and were unused
(`ChargedWereAllowed`), and the guard keeps everything but `spent` of the policies
unchanged (`OnlySpendingChanges`). A commit is then one `Execute` step of `Mandate`,
and every other step of the transaction a stutter. The books balance inside a
transaction too, with the payment that is charged and not yet made (`Due`); the
policy in force is the newest grant of its pair (`NewestGrantInForce`), so that what
was paid under an earlier epoch counts against that epoch's budget.

**Agent.** The stored signatures and the draft being signed together stay within
the grant (`GrantsKept`, `Drafted`). The step that needs an argument is the policy
check: the reservation counts every signature of the epoch that the journal does not
call CONFIRMED, and of the confirmed ones the larger of the journal's sum and the
chain's `spent` counts. Together they cover all that is signed, whichever of the two
records is behind. A request of an earlier life may be answered
late; its answer is about an occurrence whose row is already what it was sent for
(`Waiting`, `SignaturesStored`).

**Process.** Every step of `Service` is a step of `Relayer` or leaves its variables
alone, once it is known that the store is closed and the mock idle when a process
opens it, and that the transaction being written has the ledger's next nonce.
`LockFollowsStage` and `OneCall` say so. The stage of each process follows the lock
file, because only the one that created the file goes on, and the operator removes
it only after its process has stopped.

**Console.** A poll's answer is kept only by the effect that asked, so it is about the
owner shown (`PollFollowsEffect`), and it is no older than what was shown when it was
given (`AnswersAreFresh`); a confirmation makes a new effect due, whose poll asks after
the transaction was mined.
At most one call of `act()` belongs to the visit, and its signer is the owner it was
begun for (`CallsAreTheOwners`).

**Pages.** The four statements rest on one fact: what a page shows, or is about to
show, was true when it was answered and stays true (`RowsWereTrue`), since rows stay,
keep their place among those before them, and a terminal state is final; and only the
poll of the effect for the present route and filter can show it (`KeysFollow`). That
nothing is skipped needs a count. `OFFSET` counts rows while the reader remembers items,
and rows that arrive between two pages move what the offset means. `Covered` says that
each of the first `offset` rows was seen, or has the millisecond of one that was. It is
kept because a new row has the newest millisecond: if it takes a place among the first
rows, the one it displaces is as new as it is, and that one was covered. A page
continues what is covered before it (`PageFollows`), turning forward moves the offset by
no more than the rows shown, and turning back asks for less. For the form, a stored
intent of the listing is on the page, before it, or after a full page
(`AnswerLocates`); what an older poll shows does not count, since the refresh makes a
new effect due.

The listing is modelled as the place of each row, the number of rows before it in
`ORDER BY`: that each place is taken once, by a linear order with ties broken by the id,
is `PlacesFill`. The items are assumed finite, with distinct ids.

**Benchmark.** `BenchInv` has three layers. About the relayer: batches are resolved in
order, as the chain executed them, and the state of an intent is what the batches with
it say (`RowsFollowChain`, `StatesFollowRows`); times and events tell one life
(`TimesFollow`). About the driver: what it has read so far was true and the relayer
does not take it back (`FilesFilled`, `FilesStayTrue`), so that batches, which are read
after the intents, explain what the intents say (`BatchesExplain`); the opposite order
is the mutant of `FilesAgree`. And where they meet: if the drain saw everything
terminal and nothing was under way, the relayer stands still, and all files are of one
moment (`StillAfterDrain`). `ReportsAgree` and `DrainedRunsReconcile` then compare two
ways to compute figures: relayer and driver count failures by different states and read
at different moments, all else being the same sums and percentiles (`Figures`), while
`Reviewed` counts from the batches what the metrics count from the intents; `SumOfSizes` counts the
confirmed intents batch by batch. `SummaryLoads` needs the arithmetic of the figures:
no more failures than attempts, percentiles in order and none negative, an end after
the start; and that the table and the console pick the same rows for a mean. It
does not say that a summary is always written. `summarize` throws when a directory can
not be measured, when one of the two variants is missing, and when commit or workload
differ between runs (`benchmark.ts:94-112`); the theorem says that it throws for nothing
else, however the runs went. It assumes of the driver's settings that some intent is
submitted and that batches hold one or more (`SizesAssumption`); of the other runs in
the directory, that there are fewer than 200 (the import's limit), with ids of their
own, and that each row that can be measured imports by itself, which is what the theorem
says of the row of this run (`OtherRunsAssumption`).

Sums are functions folded over a finite set. An induction theorem that takes an
operator cannot be used with the provers at hand; `SumTheorems` states the
counterexamples of an induction as a set of numbers instead and takes its least
element. That is enough for how a sum follows its set, and for all budgets here.

Only model-checked:
- liveness, which the prover cannot handle with fairness (`ENABLED`):
  `EventuallyResolved`, `SignedIsResolved`, `StopFinishes`, `ChangesAppear`;
- the three runs that show a violation.

Every safety invariant and every action property that a run checks is a theorem.

## What is not modelled

- Cryptography, ABI and JSON encoding, integer parsing: an intent is identified
  with its digest, a signature with the fact that the agent made it.
- Wrong answers: that the relayer answers with another digest
  (`agent.ts:138-148` then stores FAILED) or the node with another transaction's
  receipt; a receipt that does not fit the call is modelled as an error, without the
  receipt that the row keeps of it, and a second error in RECONCILING does not move the
  event's time.
- Gas: preflight and mining may fail for any reason, which covers gas limits.
- Chain reorganizations beyond the configured confirmations: the code has no
  path back from CONFIRMED.
- How a configuration or a request is parsed, logging, and failures of the file
  system.
- Of the web console: the token view (a second `usePoll` on the same hook), the
  wallet's network (the checks of `chainId`), form values, the UI preview, the filter of loaded rows by state,
  what a detail page polls for, charts and formatting.
- Of the experiment driver: deployment, the schedule of arrivals, warm-up, the pages of
  a listing (one step), answers with an error status (a failed request ends the run
  here, where `http` may go on with the body), files half written and the 2 MB limit of
  a summary, and a baseline whose mean gas is zero.
- Scripts and demos: sequential tooling.

## Plan

1. Done: all modules above, model-checked; proofs of every safety property the runs
   check.
2. Next: a composition of agent, relayer and contract that justifies the environment
   `Agent` assumes; the wallet's network and the token view in `Console`.

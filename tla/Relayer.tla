------------------------------ MODULE Relayer -------------------------------
(***************************************************************************)
(* The relayer service: API intake (api.ts), the durable store (store.ts), *)
(* the coordinator (coordinator.ts), the process that runs them (main.ts)  *)
(* and, as their environment, the chain the gateway talks to.              *)
(*                                                                         *)
(* The process is one JavaScript thread: what it does between two awaits   *)
(* is one step.  API requests, the clock, the network and the chain move   *)
(* at the awaits.  A crash may also fall between the two transactions that *)
(* a tick commits back to back (prepareBatch, then noteBroadcast).         *)
(***************************************************************************)
EXTENDS Naturals, Sequences, FiniteSets

CONSTANTS
  Intents,         \* the signed intents agents may submit
  Run,             \* Run[i]: the run label intent i is submitted under
  NonceKey,        \* NonceKey[i]: its owner:agent:epoch:nonce
  Scheduled,       \* those submitted ahead of their validAfter
  Expiring,        \* those whose deadline may pass before they are resolved
  Shared,          \* those whose signature somebody else also holds
  BatchSize, MaxAttempts, MaxBroadcasts,     \* CoordinatorOptions
  Capacity,        \* limit of unresolved intents in the inbox (10 000)
  MaxCrashes       \* bound on process crashes

ASSUME IntentsAssumption == IsFiniteSet(Intents)
ASSUME LabelAssumption == DOMAIN Run = Intents /\ DOMAIN NonceKey = Intents
ASSUME LimitAssumption ==
  /\ BatchSize \in Nat \ {0} /\ MaxAttempts \in Nat \ {0}
  /\ MaxBroadcasts \in Nat \ {0} /\ Capacity \in Nat /\ MaxCrashes \in Nat

VARIABLES
  (* intents table *)
  st,         \* st[i]: IntentState, "ABSENT" before the row exists
  attempts,   \* st[i]: attemptCount
  earlier,    \* earlier[i]: the intents whose rows precede i's
  (* batches table *)
  batches,    \* the rows, in order of creation
  (* the tick in progress: locals of tick(), lost in a crash *)
  pc,         \* what the process is doing, "idle" when `running` is false
  ready, cand, sel,   \* ready; candidates not yet simulated; selected
  cur,        \* index of the batch at hand, 0 for none
  (* the clock, as far as a guard reads it *)
  window,     \* window[i]: now against validAfter and deadline
  waited,     \* intents received at least maxWaitMs ago
  quiet,      \* the active batch was last broadcast rebroadcastAfterMs ago
  (* network and chain *)
  wire,       \* transactions in flight from the process to the node
  mempool,    \* transactions the node holds, not yet mined
  chain,      \* the sender's mined transactions, in nonce order
  forwarded,  \* intents executed by somebody else's transaction
  crashes

storeVars == <<st, attempts, earlier, batches>>
tickVars == <<pc, ready, cand, sel, cur>>
timeVars == <<window, waited, quiet>>
chainVars == <<wire, mempool, chain, forwarded>>
vars == <<storeVars, tickVars, timeVars, chainVars, crashes>>

Terminal == {"CONFIRMED", "REJECTED", "EXPIRED", "FAILED"}
InBatch == {"BATCHED", "SUBMITTED", "RECONCILING"}
States == {"ABSENT", "QUEUED"} \union InBatch \union Terminal
ActiveStates == {"PREPARED", "SUBMITTED", "RECONCILING"}
Phases == {"down", "idle", "preflight", "prepare", "note", "broadcast", "receipt"}

Transactions == [nonce : Nat, ids : SUBSET Intents]
Batches == [tx : Transactions,
            state : ActiveStates \union {"CONFIRMED", "REVERTED"}, count : Nat]
Receipts == [tx : Transactions, ok : BOOLEAN]

TypeOK ==
  /\ st \in [Intents -> States]
  /\ attempts \in [Intents -> Nat]
  /\ earlier \in [Intents -> SUBSET Intents]
  /\ batches \in Seq(Batches)
  /\ pc \in Phases
  /\ ready \in SUBSET Intents /\ cand \in SUBSET Intents /\ sel \in SUBSET Intents
  /\ cur \in Nat
  /\ window \in [Intents -> {"early", "open", "late"}]
  /\ waited \in SUBSET Intents
  /\ quiet \in BOOLEAN
  /\ wire \in SUBSET Transactions /\ mempool \in SUBSET Transactions
  /\ chain \in Seq(Receipts)
  /\ forwarded \in SUBSET Intents
  /\ crashes \in Nat

-----------------------------------------------------------------------------
(* Reading the store and the chain.                                        *)
(*                                                                         *)
(* Before some definitions stands a faulty variant of them, named for what *)
(* it forgets.  No specification uses these: they show that the properties *)
(* below notice the mistake.                                               *)

Unresolved == {i \in Intents : st[i] \notin Terminal \union {"ABSENT"}}
Queued == {i \in Intents : st[i] = "QUEUED"}

(* What the inbox limit counts. *)
Outstanding == Unresolved

(* Store.activeBatch *)
ForgetsReconciling == {k \in DOMAIN batches : batches[k].state \in {"PREPARED", "SUBMITTED"}}
ForgetsPrepared == {k \in DOMAIN batches : batches[k].state \in {"SUBMITTED", "RECONCILING"}}
Active == {k \in DOMAIN batches : batches[k].state \in ActiveStates}
IsActiveBatch(k) == k \in Active /\ \A m \in Active : k <= m

(* First in ORDER BY received_at, rowid among the intents of S. *)
InAnyOrder(i, S) == i \in S
IsOldest(i, S) == i \in S /\ earlier[i] \intersect S = {}

Paid == UNION {r.tx.ids : r \in {chain[n] : n \in {m \in DOMAIN chain : chain[m].ok}}}
Executed == Paid \union forwarded

(* The receipt of batch k's transaction is on the chain. *)
Mined(k) ==
  /\ batches[k].tx.nonce < Len(chain)
  /\ chain[batches[k].tx.nonce + 1].tx = batches[k].tx
AnyReceiptIsSuccess(k) == TRUE
Succeeded(k) == chain[batches[k].tx.nonce + 1].ok

(* The states of the intents of S, all set to s in one transaction. *)
Set(S, s) == [i \in Intents |-> IF i \in S THEN s ELSE st[i]]

Init ==
  /\ st = [i \in Intents |-> "ABSENT"]
  /\ attempts = [i \in Intents |-> 0]
  /\ earlier = [i \in Intents |-> {}]
  /\ batches = << >>
  /\ pc = "idle" /\ ready = {} /\ cand = {} /\ sel = {} /\ cur = 0
  /\ window = [i \in Intents |-> IF i \in Scheduled THEN "early" ELSE "open"]
  /\ waited = {} /\ quiet = FALSE
  /\ wire = {} /\ mempool = {} /\ chain = << >> /\ forwarded = {}
  /\ crashes = 0

-----------------------------------------------------------------------------
(* POST /intents.  A known id is answered from its row, before the expiry  *)
(* check; that, and every refusal, leaves the inbox as it is.              *)

Submit(i) ==
  /\ pc \notin {"down", "note"}
  /\ st[i] = "ABSENT"
  /\ window[i] # "late"
  /\ \A j \in Intents : st[j] # "ABSENT" => NonceKey[j] # NonceKey[i]
  /\ Cardinality(Outstanding) < Capacity
  /\ st' = [st EXCEPT ![i] = "QUEUED"]
  /\ earlier' = [earlier EXCEPT ![i] = {j \in Intents : st[j] # "ABSENT"}]
  /\ UNCHANGED <<attempts, batches, tickVars, timeVars, chainVars, crashes>>

-----------------------------------------------------------------------------
(* Coordinator.tick *)

EndTick == pc' = "idle" /\ ready' = {} /\ cand' = {} /\ sel' = {} /\ cur' = 0

(* An unresolved transaction comes first: look for its receipt. *)
TickRecover ==
  /\ pc = "idle"
  /\ \E k \in Active : IsActiveBatch(k) /\ cur' = k
  /\ pc' = "receipt"
  /\ UNCHANGED <<storeVars, ready, cand, sel, timeVars, chainVars, crashes>>

AnyRowOverdue == {i \in Intents : st[i] # "ABSENT" /\ window[i] = "late"}
Overdue == {i \in Queued : window[i] = "late"}
Ready == {i \in Queued : window[i] = "open"}
SameRun(r) == {i \in Ready : Run[i] = Run[r]}
Candidates(r) ==
  {i \in SameRun(r) : Cardinality(SameRun(r) \intersect earlier[i]) < BatchSize}
Flush(r) == Cardinality(Candidates(r)) = BatchSize \/ r \in waited

ExpireOverdue ==
  /\ st' = Set(Overdue, "EXPIRED")
  /\ UNCHANGED <<attempts, earlier, batches>>

(* Nothing to send yet. *)
TickWait ==
  /\ pc = "idle" /\ Active = {}
  /\ \A r \in Ready : IsOldest(r, Ready) => ~Flush(r)
  /\ ExpireOverdue
  /\ UNCHANGED <<tickVars, timeVars, chainVars, crashes>>

TickDispatch ==
  /\ pc = "idle" /\ Active = {}
  /\ ExpireOverdue
  /\ \E r \in Ready : IsOldest(r, Ready) /\ Flush(r) /\ cand' = Candidates(r)
  /\ ready' = Ready /\ sel' = {} /\ pc' = "preflight"
  /\ UNCHANGED <<cur, timeVars, chainVars, crashes>>

(* The prefix selected so far, with the next candidate, simulates well. *)
PreflightOk ==
  /\ pc = "preflight"
  /\ \E i \in cand :
       /\ IsOldest(i, cand)
       /\ (sel \union {i}) \intersect Executed = {}
       /\ sel' = sel \union {i} /\ cand' = cand \ {i}
       /\ pc' = IF cand = {i} THEN "prepare" ELSE "preflight"
  /\ UNCHANGED <<storeVars, ready, cur, timeVars, chainVars, crashes>>

(* It does not, or needs too much gas: send the prefix there is. *)
PreflightStopsPrefix ==
  /\ pc = "preflight" /\ cand # {} /\ sel # {}
  /\ pc' = "prepare" /\ cand' = {}
  /\ UNCHANGED <<storeVars, ready, sel, cur, timeVars, chainVars, crashes>>

(* The first one fails by itself: it is terminal, the next one is tried. *)
PreflightRejects ==
  /\ pc = "preflight" /\ sel = {}
  /\ \E i \in cand :
       /\ IsOldest(i, cand)
       /\ st[i] = "QUEUED"
       /\ st' = Set({i}, IF attempts[i] > 0 THEN "FAILED" ELSE "REJECTED")
       /\ IF cand = {i} THEN EndTick
          ELSE cand' = cand \ {i} /\ UNCHANGED <<pc, ready, sel, cur>>
  /\ UNCHANGED <<attempts, earlier, batches, timeVars, chainVars, crashes>>

(* A failing simulation call, or a failing prepare: caught, nothing stored. *)
TickThrows ==
  /\ pc \in {"preflight", "prepare"}
  /\ EndTick
  /\ UNCHANGED <<storeVars, timeVars, chainVars, crashes>>

(* gateway.prepare signs with the sender's next nonce, provided the node   *)
(* holds nothing pending; Store.prepareBatch commits the outbox row.       *)
SignedBatch == [nonce |-> Len(chain), ids |-> sel]

PrepareBatch ==
  /\ pc = "prepare"
  /\ mempool = {}
  /\ Active = {}
  /\ sel # {} /\ \A i, j \in sel : Run[i] = Run[j]
  /\ \A i \in sel : st[i] = "QUEUED"
  /\ batches' = Append(batches, [tx |-> SignedBatch, state |-> "PREPARED", count |-> 0])
  /\ st' = Set(sel, "BATCHED")
  /\ pc' = "note" /\ cur' = Len(batches) + 1
  /\ ready' = {} /\ cand' = {} /\ sel' = {}
  /\ UNCHANGED <<attempts, earlier, timeVars, chainVars, crashes>>

(* What noteBroadcast makes of a batch's row. *)
ForgetsCount(b) == [b EXCEPT !.state = "SUBMITTED"]
Noted(b) == [b EXCEPT !.count = @ + 1, !.state = "SUBMITTED"]

(* A rebroadcast is no new attempt. *)
EveryBroadcast(b) == TRUE
FirstBroadcast(b) == b.count = 0

(* Store.noteBroadcast commits, then gateway.broadcast is called. *)
NoteBroadcast ==
  /\ pc = "note"
  /\ LET b == batches[cur] IN
       /\ batches' = [batches EXCEPT ![cur] = Noted(b)]
       /\ st' = Set(b.tx.ids, "SUBMITTED")
       /\ attempts' = [i \in Intents |->
            IF i \in b.tx.ids /\ FirstBroadcast(b) THEN attempts[i] + 1 ELSE attempts[i]]
       /\ wire' = wire \union {b.tx}
  /\ quiet' = FALSE
  /\ pc' = "broadcast"
  /\ UNCHANGED <<earlier, ready, cand, sel, cur, window, waited,
                 mempool, chain, forwarded, crashes>>

(* Store.reconcile *)
Reconcile(k) ==
  /\ batches' = [batches EXCEPT ![k] = [@ EXCEPT !.state = "RECONCILING"]]
  /\ st' = Set(batches[k].tx.ids, "RECONCILING")
  /\ UNCHANGED <<attempts, earlier>>

(* The broadcast call returns, or throws: neither says what the node did. *)
BroadcastReturns ==
  /\ pc = "broadcast"
  /\ EndTick
  /\ UNCHANGED <<storeVars, timeVars, chainVars, crashes>>

BroadcastThrows ==
  /\ pc = "broadcast"
  /\ Reconcile(cur)
  /\ EndTick
  /\ UNCHANGED <<timeVars, chainVars, crashes>>

-----------------------------------------------------------------------------
(* Coordinator.recover *)

(* The lookup throws, or the receipt does not prove the batch's intents. *)
ReceiptUnusable ==
  /\ pc = "receipt"
  /\ Reconcile(cur)
  /\ EndTick
  /\ UNCHANGED <<timeVars, chainVars, crashes>>

(* Store.finish on a reverted transaction: who gets another attempt. *)
AfterRevert(i) ==
  IF window[i] = "late" THEN "EXPIRED"
  ELSE IF attempts[i] >= MaxAttempts THEN "FAILED" ELSE "QUEUED"

Finish(k, ok) ==
  /\ batches' = [batches EXCEPT ![k] =
                   [@ EXCEPT !.state = IF ok THEN "CONFIRMED" ELSE "REVERTED"]]
  /\ st' = [i \in Intents |-> IF i \notin batches[k].tx.ids THEN st[i]
                              ELSE IF ok THEN "CONFIRMED" ELSE AfterRevert(i)]
  /\ UNCHANGED <<attempts, earlier>>

ReceiptFound ==
  /\ pc = "receipt"
  /\ Mined(cur)
  /\ Finish(cur, Succeeded(cur))
  /\ EndTick
  /\ quiet' = FALSE
  /\ UNCHANGED <<window, waited, chainVars, crashes>>

OnlyNeverSent(k) == batches[k].count = 0
DueForRebroadcast(k) == batches[k].count = 0 \/ quiet

(* At the broadcast limit the outcome is still not known. *)
GiveUp(k) == Finish(k, FALSE)
KeepWaiting(k) == Reconcile(k)

(* No receipt, or not enough confirmations: the outcome stays unknown. *)
ReceiptMissing ==
  /\ pc = "receipt"
  /\ \/ /\ batches[cur].count >= MaxBroadcasts
        /\ KeepWaiting(cur) /\ EndTick
     \/ /\ batches[cur].count < MaxBroadcasts
        /\ IF DueForRebroadcast(cur)
           THEN pc' = "note" /\ UNCHANGED <<ready, cand, sel, cur>>
           ELSE EndTick
        /\ UNCHANGED storeVars
  /\ UNCHANGED <<timeVars, chainVars, crashes>>

-----------------------------------------------------------------------------
(* The process *)

Crash ==
  /\ pc # "down" /\ crashes < MaxCrashes
  /\ pc' = "down" /\ ready' = {} /\ cand' = {} /\ sel' = {} /\ cur' = 0
  /\ crashes' = crashes + 1
  /\ UNCHANGED <<storeVars, timeVars, chainVars>>

Restart ==
  /\ pc = "down"
  /\ pc' = "idle"
  /\ UNCHANGED <<storeVars, ready, cand, sel, cur, timeVars, chainVars, crashes>>

-----------------------------------------------------------------------------
(* The clock *)

Opens(i) ==
  /\ window[i] = "early" /\ window' = [window EXCEPT ![i] = "open"]
  /\ UNCHANGED <<storeVars, tickVars, waited, quiet, chainVars, crashes>>

DeadlinePasses(i) ==
  /\ i \in Expiring /\ window[i] = "open" /\ window' = [window EXCEPT ![i] = "late"]
  /\ UNCHANGED <<storeVars, tickVars, waited, quiet, chainVars, crashes>>

WaitElapses(i) ==
  /\ st[i] = "QUEUED" /\ i \notin waited
  /\ waited' = waited \union {i}
  /\ UNCHANGED <<storeVars, tickVars, window, quiet, chainVars, crashes>>

QuietElapses ==
  /\ ~quiet /\ Active # {}
  /\ quiet' = TRUE
  /\ UNCHANGED <<storeVars, tickVars, window, waited, chainVars, crashes>>

-----------------------------------------------------------------------------
(* The network and the chain *)

(* A sent transaction reaches the node, which keeps it if it is unmined. *)
Deliver ==
  /\ \E tx \in wire :
       /\ wire' = wire \ {tx}
       /\ mempool' = IF tx.nonce >= Len(chain) THEN mempool \union {tx} ELSE mempool
  /\ UNCHANGED <<storeVars, tickVars, timeVars, chain, forwarded, crashes>>

(* A request that never arrives; a transaction the node evicts. *)
Lose ==
  /\ \/ \E tx \in wire : wire' = wire \ {tx} /\ UNCHANGED mempool
     \/ \E tx \in mempool : mempool' = mempool \ {tx} /\ UNCHANGED wire
  /\ UNCHANGED <<storeVars, tickVars, timeVars, chain, forwarded, crashes>>

(* The executor runs the batch: all of it or nothing.  It may revert for   *)
(* reasons outside this model (policy, budget, balance, block time), and   *)
(* it does when a nonce in the batch is consumed.                          *)
Mine ==
  /\ \E tx \in mempool, ok \in BOOLEAN :
       /\ tx.nonce = Len(chain)
       /\ ok => tx.ids \intersect Executed = {}
       /\ chain' = Append(chain, [tx |-> tx, ok |-> ok])
       /\ mempool' = {t \in mempool : t.nonce > tx.nonce}
  /\ UNCHANGED <<storeVars, tickVars, timeVars, wire, forwarded, crashes>>

(* executeBatch is permissionless: anybody holding the signature may use it. *)
Forward(i) ==
  /\ i \in Shared \ Executed
  /\ forwarded' = forwarded \union {i}
  /\ UNCHANGED <<storeVars, tickVars, timeVars, wire, mempool, chain, crashes>>

-----------------------------------------------------------------------------
Tick == TickRecover \/ TickWait \/ TickDispatch
PreflightAnswers == PreflightOk \/ PreflightStopsPrefix \/ PreflightRejects
ReceiptAnswers == ReceiptUnusable \/ ReceiptFound \/ ReceiptMissing
BroadcastEnds == BroadcastReturns \/ BroadcastThrows

Coordinate ==
  Tick \/ PreflightAnswers \/ TickThrows \/ PrepareBatch \/ NoteBroadcast
    \/ BroadcastEnds \/ ReceiptAnswers

Clock ==
  \/ \E i \in Intents : Opens(i) \/ DeadlinePasses(i) \/ WaitElapses(i)
  \/ QuietElapses

Chain == Deliver \/ Lose \/ Mine \/ (\E i \in Intents : Forward(i))

Next ==
  \/ \E i \in Intents : Submit(i)
  \/ Coordinate
  \/ Crash \/ Restart
  \/ Clock
  \/ Chain

Spec == Init /\ [][Next]_vars
-----------------------------------------------------------------------------
(***************************************************************************)
(* Safety                                                                  *)
(***************************************************************************)

CanStillBeMined == {tx \in wire \union mempool : tx.nonce >= Len(chain)}
Sent == wire \union mempool \union {chain[n].tx : n \in DOMAIN chain}

(* The outbox comes first: whatever left the process, at whatever point it *)
(* crashed, is the transaction of a stored batch whose broadcast was noted *)
(* (coordinator.ts:62, "Persist the broadcast intention before the network *)
(* call").                                                                 *)
OutboxFirst ==
  \A tx \in Sent : \E k \in DOMAIN batches : batches[k].tx = tx /\ batches[k].count > 0

(* The sender never competes with itself: no two batches share a sender    *)
(* nonce, and only the unresolved batch has a transaction that the chain   *)
(* could still mine (coordinator.ts:27-28, store.ts:126).                  *)
NoCompetingTransaction ==
  /\ \A k, m \in DOMAIN batches : batches[k].tx.nonce = batches[m].tx.nonce => k = m
  /\ \A tx \in CanStillBeMined : \E k \in Active : batches[k].tx = tx

(* An intent reported CONFIRMED was paid by the relayer, and one reported  *)
(* REJECTED, EXPIRED or FAILED was not, nor can any transaction of the     *)
(* relayer that is still around pay it (store.ts:165-184).                 *)
OutcomeIsTrue ==
  \A i \in Intents :
    /\ st[i] = "CONFIRMED" => i \in Paid
    /\ st[i] \in Terminal \ {"CONFIRMED"} =>
         i \notin Paid /\ \A tx \in CanStillBeMined : i \notin tx.ids

(* attemptCount is the number of distinct transactions that may have left  *)
(* with the intent, however often each was broadcast and whatever crashed  *)
(* in between; both limits hold (store.ts:143-148, README "Maximum         *)
(* distinct transaction attempts").                                        *)
SentWith(i) == {k \in DOMAIN batches : i \in batches[k].tx.ids /\ batches[k].count > 0}
AttemptsAreTransactions ==
  /\ \A i \in Intents : attempts[i] = Cardinality(SentWith(i)) /\ attempts[i] <= MaxAttempts
  /\ \A k \in DOMAIN batches : batches[k].count <= MaxBroadcasts

(* The inbox limit counts every unresolved intent, so a revert that gives  *)
(* a whole batch back to the queue cannot exceed it (store.ts:74-75).      *)
InboxBounded == Cardinality(Unresolved) <= Capacity

(* A stored batch holds at least one and at most BatchSize intents, all of *)
(* one run, although the queue is read, simulated and stored in separate   *)
(* steps; and an intent is put into a batch again only when every earlier  *)
(* one it was in has reverted (coordinator.ts:37-53, store.ts:126-141).    *)
BatchesFit ==
  /\ \A k \in DOMAIN batches :
       /\ batches[k].tx.ids # {} /\ Cardinality(batches[k].tx.ids) <= BatchSize
       /\ \A i, j \in batches[k].tx.ids : Run[i] = Run[j]
  /\ \A k, m \in DOMAIN batches :
       k < m /\ batches[k].tx.ids \intersect batches[m].tx.ids # {} =>
         batches[k].state = "REVERTED"

(* A batch never leaves an older intent of its run behind: of those ready  *)
(* when the tick began, what the batch skips has been rejected             *)
(* (store.ts:112, coordinator.ts:41-49).                                   *)
NoOvertaking ==
  [][PrepareBatch =>
       \A i \in sel, j \in ready \ sel :
         Run[i] = Run[j] /\ j \in earlier[i] => st[j] \in Terminal]_vars

(* A terminal state is final: a client that read one may stop polling      *)
(* (agent.ts:83 does).                                                     *)
TerminalIsFinal ==
  [][\A i \in Intents : st[i] \in Terminal => st'[i] = st[i]]_st

(***************************************************************************)
(* Why the above holds: how the tables, the tick in progress and the chain *)
(* fit together at every await and after every crash.                      *)
(***************************************************************************)

(* Batch k is the sender's k-th transaction, and only the last batch can   *)
(* be unresolved: each new one is signed after the previous was mined.     *)
BatchesFollowNonces ==
  \A k \in DOMAIN batches :
    /\ batches[k].tx.nonce + 1 = k
    /\ k \in Active => k = Len(batches)

(* The chain holds a prefix of the outbox, and what is in flight is in it. *)
ChainFollowsOutbox ==
  /\ Len(chain) <= Len(batches)
  /\ \A n \in 1 .. Len(chain) : chain[n].tx = batches[n].tx /\ batches[n].count > 0
  /\ \A tx \in wire \union mempool :
       \E k \in DOMAIN batches : batches[k].tx = tx /\ batches[k].count > 0

(* A batch is resolved only by the outcome of its mined transaction.       *)
ResolvedByReceipt ==
  \A k \in DOMAIN batches \ Active :
    k <= Len(chain) /\ (batches[k].state = "CONFIRMED" <=> chain[k].ok)

(* The intents table agrees with the batches table.                        *)
TablesAgree ==
  \A i \in Intents :
    /\ st[i] \in InBatch <=> \E k \in Active : i \in batches[k].tx.ids
    /\ st[i] = "CONFIRMED" <=>
         \E k \in DOMAIN batches : batches[k].state = "CONFIRMED" /\ i \in batches[k].tx.ids

(* A tick that assembles a batch does so with nothing unresolved, and one  *)
(* that handles a batch holds the unresolved one.                          *)
TickHoldsActive ==
  /\ pc \in {"note", "broadcast", "receipt"} => cur \in Active
  /\ pc \in {"preflight", "prepare"} => Active = {}

IInv ==
  /\ TypeOK /\ BatchesFollowNonces /\ ChainFollowsOutbox /\ ResolvedByReceipt
  /\ TablesAgree /\ TickHoldsActive

(* The intents whose rows exist are linearly ordered by `earlier`.         *)
Rest == {i \in Intents : st[i] # "ABSENT"}
RowsAreOrdered ==
  /\ \A i \in Rest :
       /\ i \notin earlier[i] /\ earlier[i] \subseteq Rest
       /\ \A j \in earlier[i] : earlier[j] \subseteq earlier[i]
  /\ \A i, j \in Rest : i = j \/ i \in earlier[j] \/ j \in earlier[i]

(* What a tick selects, with what it may still select, fits in a batch.    *)
SelectionFits == Cardinality(sel \union cand) <= BatchSize

(* A batch about to be broadcast has not reached the limit.                *)
NotesWithinLimit == pc = "note" => batches[cur].count < MaxBroadcasts

QInv == RowsAreOrdered /\ SelectionFits /\ NotesWithinLimit

(* An intent is queued, or signed for, only while it has attempts left.    *)
AttemptsLeft ==
  /\ \A i \in Intents : st[i] \in {"ABSENT", "QUEUED"} => attempts[i] < MaxAttempts
  /\ \A k \in Active : batches[k].count = 0 =>
       \A i \in batches[k].tx.ids : attempts[i] < MaxAttempts

(* Of the intents a tick found ready, those selected are older than the    *)
(* candidates left, and neither leave an older one of their run behind.    *)
TickInOrder ==
  /\ sel \union cand \subseteq ready /\ ready \subseteq Rest
  /\ \A i \in sel, j \in cand : j \notin earlier[i]
  /\ \A i \in sel \union cand, j \in ready \ (sel \union cand) :
       Run[i] = Run[j] /\ j \in earlier[i] => st[j] \in Terminal

RelayerInv == IInv /\ QInv /\ BatchesFit /\ AttemptsLeft /\ TickInOrder

(* The service keeps the promise of Settlement.                            *)
FateOf(s) ==
  CASE s = "ABSENT" -> "unknown"
    [] s = "CONFIRMED" -> "settled"
    [] s \in Terminal \ {"CONFIRMED"} -> "abandoned"
    [] OTHER -> "taken"

Fate == [i \in Intents |-> FateOf(st[i])]

Promise == INSTANCE Settlement WITH fate <- Fate, paid <- Paid
KeepsPromise == Promise!Spec

(* Its tables change as Ledger says, one store transaction at a time: what *)
(* the API's readers see is a history of whole batches, each handled, sent *)
(* and resolved after the one before, whatever crashed, threw or was       *)
(* answered late in between (store.ts:112-184).                            *)
Outcome(b) ==
  CASE b.state = "CONFIRMED" -> "success"
    [] b.state = "REVERTED" -> "reverted"
    [] OTHER -> "none"

Rows ==
  [k \in DOMAIN batches |->
     [ids |-> batches[k].tx.ids, count |-> batches[k].count, receipt |-> Outcome(batches[k])]]

History ==
  INSTANCE Ledger WITH rows <- Rows, executed <- [n \in DOMAIN chain |-> chain[n].ok]
KeepsLedger == History!LedgerSpec

-----------------------------------------------------------------------------
(***************************************************************************)
(* Liveness.  The process is restarted (removing a stale lock is the       *)
(* operator's part), the interval timer keeps calling tick, an RPC call    *)
(* ends one way or the other (it has a ten-second timeout), time passes,   *)
(* and what is on the wire or in the mempool gets through or is lost.  A   *)
(* receipt lookup may throw any number of times but not for ever.          *)
(***************************************************************************)
Fairness ==
  /\ WF_vars(Restart) /\ WF_vars(Tick)
  /\ WF_vars(PreflightAnswers \/ TickThrows) /\ WF_vars(PrepareBatch \/ TickThrows)
  /\ WF_vars(NoteBroadcast) /\ WF_vars(BroadcastEnds)
  /\ WF_vars(ReceiptAnswers)
  /\ SF_vars(ReceiptFound) /\ SF_vars(ReceiptMissing /\ ~Mined(cur))
  /\ WF_vars(QuietElapses)
  /\ \A i \in Intents :
       WF_vars(Opens(i)) /\ WF_vars(DeadlinePasses(i)) /\ WF_vars(WaitElapses(i))
  /\ WF_vars(Deliver \/ Lose) /\ WF_vars(Mine \/ Lose)

FairSpec == Spec /\ Fairness

(* Every broadcast the limit allows was lost: the sender stays blocked     *)
(* (coordinator.ts:86-88, "Sender stays blocked until a receipt is found").*)
Blocked ==
  \E k \in Active : batches[k].count = MaxBroadcasts /\ batches[k].tx \notin Sent

(* An accepted intent gets its outcome, unless the sender is blocked.      *)
EventuallyResolved ==
  \A i \in Intents : i \in Unresolved ~> (st[i] \in Terminal \/ Blocked)
=============================================================================

---------------------------- MODULE RelayerProofs ---------------------------
(***************************************************************************)
(* Theorems about Relayer, for every set of intents and every limit: its   *)
(* tables and the chain fit together and it keeps Settlement's promise;    *)
(* the inbox is bounded, batches fit, and the tables change as Ledger says.*)
(* And about Service, for every set of processes: the lock file keeps      *)
(* processes apart, and a relayer on the mock gateway is a Relayer.        *)
(***************************************************************************)
EXTENDS Service, SequenceTheorems, FiniteSetTheorems, TLAPS

(* Replacing one element of a sequence.                                    *)
LEMMA UpdateSeq ==
  ASSUME NEW S, NEW s \in Seq(S), NEW k \in DOMAIN s, NEW v \in S
  PROVE  /\ [s EXCEPT ![k] = v] \in Seq(S)
         /\ Len([s EXCEPT ![k] = v]) = Len(s)
         /\ DOMAIN [s EXCEPT ![k] = v] = DOMAIN s
         /\ \A j \in DOMAIN s : [s EXCEPT ![k] = v][j] = IF j = k THEN v ELSE s[j]
<1>1. DOMAIN s = 1 .. Len(s)
  BY LenProperties
<1>2. QED
  BY <1>1, ExceptSeq

(* Appending one element.                                                  *)
LEMMA AppendSeq ==
  ASSUME NEW S, NEW s \in Seq(S), NEW v \in S
  PROVE  /\ Append(s, v) \in Seq(S)
         /\ Len(Append(s, v)) = Len(s) + 1
         /\ DOMAIN Append(s, v) = DOMAIN s \union {Len(s) + 1}
         /\ \A j \in DOMAIN s : Append(s, v)[j] = s[j]
         /\ Append(s, v)[Len(s) + 1] = v
<1>1. DOMAIN s = 1 .. Len(s) /\ Len(s) \in Nat
  BY LenProperties
<1>2. Append(s, v) \in Seq(S) /\ Len(Append(s, v)) = Len(s) + 1
  OBVIOUS
<1>3. DOMAIN Append(s, v) = 1 .. Len(s) + 1
  BY <1>2, LenProperties
<1>4. QED
  BY <1>1, <1>2, <1>3

(* What the type invariant gives of a row of the batches table.            *)
LEMMA BatchTyped ==
  ASSUME TypeOK, NEW k \in DOMAIN batches
  PROVE  /\ batches[k] \in Batches
         /\ batches[k].tx \in Transactions
         /\ batches[k].tx.ids \in SUBSET Intents
         /\ k \in 1 .. Len(batches)
<1>1. batches[k] \in Batches /\ k \in 1 .. Len(batches)
  BY LenProperties, ElementOfSeq DEF TypeOK
<1>2. QED
  BY <1>1 DEF Batches, Transactions

(* Noting a broadcast keeps a row well typed.                              *)
LEMMA NotedBatchTyped ==
  ASSUME NEW b \in Batches
  PROVE  Noted(b) \in Batches
<1>1. b.count + 1 \in Nat
  BY DEF Batches
<1>2. [b EXCEPT !.count = @ + 1] \in Batches
  BY <1>1 DEF Batches
<1>3. QED
  BY <1>2 DEF Noted, Batches, ActiveStates

-----------------------------------------------------------------------------
(* Moving the intents of a set keeps the intents table well typed.         *)
LEMMA SetTyped ==
  ASSUME TypeOK, NEW S, NEW s \in States
  PROVE  Set(S, s) \in [Intents -> States]
BY DEF TypeOK, Set

(* Writing the state or the broadcast count of one batch keeps the         *)
(* batches table well typed.                                               *)
LEMMA WriteBatchTyped ==
  ASSUME TypeOK, NEW k \in DOMAIN batches, NEW b \in Batches
  PROVE  [batches EXCEPT ![k] = b] \in Seq(Batches)
BY UpdateSeq DEF TypeOK

(* Each step keeps every variable in its type.  The steps that handle a    *)
(* batch need TickHoldsActive, to know that the batch exists.              *)
LEMMA TypeOKStep == TypeOK /\ TickHoldsActive /\ [Next]_vars => TypeOK'
<1> SUFFICES ASSUME TypeOK, TickHoldsActive, [Next]_vars PROVE TypeOK'
  OBVIOUS
<1> USE DEF TypeOK
<1>a. ASSUME NEW i \in Intents, Submit(i) PROVE TypeOK'
  BY <1>a DEF Submit, States, storeVars, tickVars, timeVars, chainVars
<1>b. CASE TickRecover
  BY <1>b, LenProperties DEF TickRecover, Phases, Active, IsActiveBatch, storeVars, tickVars, timeVars, chainVars
<1>c. CASE TickWait
  <2>1. st' \in [Intents -> States]
    BY <1>c, SetTyped DEF TickWait, ExpireOverdue, States, Terminal
  <2>2. QED
    BY <1>c, <2>1 DEF TickWait, ExpireOverdue, tickVars, timeVars, chainVars
<1>d. CASE TickDispatch
  <2>1. st' \in [Intents -> States]
    BY <1>d, SetTyped DEF TickDispatch, ExpireOverdue, States, Terminal
  <2>2. ready' \in SUBSET Intents /\ cand' \in SUBSET Intents
    BY <1>d DEF TickDispatch, Ready, Queued, Candidates, SameRun
  <2>3. QED
    BY <1>d, <2>1, <2>2 DEF TickDispatch, ExpireOverdue, Phases, timeVars, chainVars
<1>e. CASE PreflightOk
  BY <1>e DEF PreflightOk, Phases, storeVars, timeVars, chainVars
<1>f. CASE PreflightStopsPrefix
  BY <1>f DEF PreflightStopsPrefix, Phases, storeVars, timeVars, chainVars
<1>g. CASE PreflightRejects
  <2>1. st' \in [Intents -> States]
    BY <1>g, SetTyped DEF PreflightRejects, States, Terminal
  <2>2. CASE EndTick
    BY <1>g, <2>1, <2>2 DEF PreflightRejects, EndTick, Phases, timeVars, chainVars
  <2>3. ASSUME NEW i \in cand, cand' = cand \ {i} /\ UNCHANGED <<pc, ready, sel, cur>>
        PROVE  TypeOK'
    BY <1>g, <2>1, <2>3 DEF PreflightRejects, timeVars, chainVars
  <2>4. QED
    BY <1>g, <2>2, <2>3 DEF PreflightRejects
<1>h. CASE TickThrows
  BY <1>h DEF TickThrows, EndTick, Phases, storeVars, timeVars, chainVars
<1>i. CASE PrepareBatch
  <2>1. [tx |-> [nonce |-> Len(chain), ids |-> sel], state |-> "PREPARED", count |-> 0] \in Batches
    BY LenProperties DEF Batches, Transactions, ActiveStates
  <2>2. batches' \in Seq(Batches) /\ cur' \in Nat
    BY <1>i, <2>1, AppendSeq, LenProperties DEF PrepareBatch, SignedBatch
  <2>3. st' \in [Intents -> States]
    BY <1>i, SetTyped DEF PrepareBatch, SignedBatch, States, InBatch
  <2>4. QED
    BY <1>i, <2>2, <2>3 DEF PrepareBatch, SignedBatch, Phases, timeVars, chainVars
<1>j. CASE NoteBroadcast
  <2> DEFINE b == batches[cur]
  <2>1. cur \in DOMAIN batches
    BY <1>j DEF NoteBroadcast, TickHoldsActive, Active
  <2>2. b \in Batches /\ b.tx \in Transactions
    BY <2>1, BatchTyped
  <2>3. Noted(b) \in Batches
    BY <2>2, NotedBatchTyped
  <2>4. batches' \in Seq(Batches)
    BY <1>j, <2>1, <2>3, WriteBatchTyped DEF NoteBroadcast
  <2>5. st' \in [Intents -> States]
    BY <1>j, SetTyped DEF NoteBroadcast, States, InBatch
  <2>6. attempts' \in [Intents -> Nat] /\ wire' \in SUBSET Transactions
    BY <1>j, <2>2 DEF NoteBroadcast
  <2>7. QED
    BY <1>j, <2>4, <2>5, <2>6 DEF NoteBroadcast, Phases
<1>k. ASSUME cur \in DOMAIN batches, Reconcile(cur)
      PROVE  batches' \in Seq(Batches) /\ st' \in [Intents -> States]
  <2>1. [batches[cur] EXCEPT !.state = "RECONCILING"] \in Batches
    BY <1>k, BatchTyped DEF Batches, ActiveStates
  <2>2. batches' \in Seq(Batches)
    BY <1>k, <2>1, WriteBatchTyped DEF Reconcile
  <2>3. QED
    BY <1>k, <2>2, SetTyped DEF Reconcile, States, InBatch
<1>l. CASE BroadcastReturns
  BY <1>l DEF BroadcastReturns, EndTick, Phases, storeVars, timeVars, chainVars
<1>m. CASE BroadcastThrows
  <2>1. cur \in DOMAIN batches /\ Reconcile(cur)
    BY <1>m DEF BroadcastThrows, TickHoldsActive, Active
  <2>2. QED
    BY <1>k, <1>m, <2>1 DEF BroadcastThrows, Reconcile, EndTick, Phases, timeVars, chainVars
<1>n. CASE ReceiptUnusable
  <2>1. cur \in DOMAIN batches /\ Reconcile(cur)
    BY <1>n DEF ReceiptUnusable, TickHoldsActive, Active
  <2>2. QED
    BY <1>k, <1>n, <2>1 DEF ReceiptUnusable, Reconcile, EndTick, Phases, timeVars, chainVars
<1>o. CASE ReceiptFound
  <2> DEFINE s == IF Succeeded(cur) THEN "CONFIRMED" ELSE "REVERTED"
  <2>1. cur \in DOMAIN batches
    BY <1>o DEF ReceiptFound, TickHoldsActive, Active
  <2>2. [batches[cur] EXCEPT !.state = s] \in Batches
    BY <2>1, BatchTyped DEF Batches
  <2>3. batches' \in Seq(Batches)
    BY <1>o, <2>1, <2>2, WriteBatchTyped DEF ReceiptFound, Finish
  <2>4. st' \in [Intents -> States]
    BY <1>o DEF ReceiptFound, Finish, AfterRevert, States, Terminal
  <2>5. QED
    BY <1>o, <2>3, <2>4 DEF ReceiptFound, Finish, EndTick, Phases, chainVars
<1>p. CASE ReceiptMissing
  <2>1. cur \in DOMAIN batches
    BY <1>p DEF ReceiptMissing, TickHoldsActive, Active
  <2>2. CASE Reconcile(cur) /\ EndTick
    BY <1>k, <1>p, <2>1, <2>2 DEF ReceiptMissing, Reconcile, EndTick, Phases, timeVars, chainVars
  <2>3. CASE UNCHANGED storeVars
    BY <1>p, <2>3 DEF ReceiptMissing, EndTick, Phases, storeVars, timeVars, chainVars
  <2>4. QED
    BY <1>p, <2>2, <2>3 DEF ReceiptMissing, KeepWaiting
<1>q. CASE Crash
  BY <1>q DEF Crash, Phases, storeVars, timeVars, chainVars
<1>r. CASE Restart
  BY <1>r DEF Restart, Phases, storeVars, timeVars, chainVars
<1>s. CASE Clock
  BY <1>s DEF Clock, Opens, DeadlinePasses, WaitElapses, QuietElapses, storeVars, tickVars, chainVars
<1>t. CASE Deliver \/ Lose \/ \E i \in Intents : Forward(i)
  BY <1>t DEF Deliver, Lose, Forward, storeVars, tickVars, timeVars
<1>u. CASE Mine
  <2>1. PICK tx \in mempool, ok \in BOOLEAN :
          /\ chain' = Append(chain, [tx |-> tx, ok |-> ok])
          /\ mempool' = {t \in mempool : t.nonce > tx.nonce}
    BY <1>u DEF Mine
  <2>2. [tx |-> tx, ok |-> ok] \in Receipts
    BY DEF Receipts
  <2>3. chain' \in Seq(Receipts)
    BY <2>1, <2>2, AppendSeq
  <2>4. QED
    BY <1>u, <2>1, <2>3 DEF Mine, storeVars, tickVars, timeVars
<1>v. CASE UNCHANGED vars
  BY <1>v DEF vars, storeVars, tickVars, timeVars, chainVars
<1>w. QED
  BY <1>a, <1>b, <1>c, <1>d, <1>e, <1>f, <1>g, <1>h, <1>i, <1>j, <1>l, <1>m, <1>n,
     <1>o, <1>p, <1>q, <1>r, <1>s, <1>t, <1>u, <1>v
     DEF Next, Coordinate, Tick, PreflightAnswers, BroadcastEnds, ReceiptAnswers, Chain

-----------------------------------------------------------------------------
(***************************************************************************)
(* The inductive invariant.  Tables gathers its conjuncts that do not      *)
(* mention the tick in progress.                                           *)
(***************************************************************************)
Tables ==
  /\ BatchesFollowNonces /\ ChainFollowsOutbox /\ ResolvedByReceipt /\ TablesAgree

(* A step that touches neither batches nor chain, sends nothing, and moves *)
(* intents only between states that no batch accounts for.                 *)
LEMMA FrameStep ==
  ASSUME IInv, UNCHANGED <<batches, chain>>,
         wire' \union mempool' \subseteq wire \union mempool,
         \A i \in Intents :
           \/ st'[i] = st[i]
           \/ /\ st[i] \notin InBatch \union {"CONFIRMED"}
              /\ st'[i] \notin InBatch \union {"CONFIRMED"}
  PROVE  Tables' /\ Active' = Active
<1>1. Active' = Active
  BY DEF Active
<1>2. BatchesFollowNonces' /\ ResolvedByReceipt'
  BY <1>1 DEF IInv, BatchesFollowNonces, ResolvedByReceipt
<1>3. ChainFollowsOutbox'
  BY DEF IInv, ChainFollowsOutbox
<1>4. TablesAgree'
  BY <1>1 DEF IInv, TablesAgree
<1>5. QED
  BY <1>1, <1>2, <1>3, <1>4 DEF Tables

(* A step that writes the unresolved batch, without resolving it, and the  *)
(* states of its intents; it may send the batch's transaction.             *)
LEMMA WriteActiveStep ==
  ASSUME IInv, NEW k \in Active, NEW b \in Batches, NEW s \in InBatch,
         b.tx = batches[k].tx, b.state \in ActiveStates, b.count >= batches[k].count,
         batches' = [batches EXCEPT ![k] = b], chain' = chain,
         st' = Set(b.tx.ids, s),
         wire' \union mempool' \subseteq wire \union mempool
            \union {tx \in {b.tx} : b.count > 0}
  PROVE  Tables' /\ Active' = Active
<1> USE DEF IInv
<1>1. k \in DOMAIN batches /\ batches \in Seq(Batches) /\ batches[k] \in Batches
  BY BatchTyped DEF Active, TypeOK
<1>2. /\ Len(batches') = Len(batches) /\ DOMAIN batches' = DOMAIN batches
      /\ \A j \in DOMAIN batches : batches'[j] = IF j = k THEN b ELSE batches[j]
  BY <1>1, UpdateSeq
<1>3. Active' = Active
  BY <1>2 DEF Active
<1>4. \A j \in DOMAIN batches :
        /\ batches'[j].tx = batches[j].tx
        /\ batches[j].count > 0 => batches'[j].count > 0
  BY <1>1, <1>2 DEF Batches
<1>5. BatchesFollowNonces'
  BY <1>2, <1>3, <1>4 DEF BatchesFollowNonces
<1>6. ChainFollowsOutbox'
  <2>1. \A n \in 1 .. Len(chain) : n \in DOMAIN batches
    BY LenProperties DEF ChainFollowsOutbox, TypeOK
  <2>2. \A tx \in wire' \union mempool' :
          \E j \in DOMAIN batches' : batches'[j].tx = tx /\ batches'[j].count > 0
    BY <1>1, <1>2, <1>4 DEF ChainFollowsOutbox
  <2>3. QED
    BY <1>2, <1>4, <2>1, <2>2 DEF ChainFollowsOutbox
<1>7. ResolvedByReceipt'
  BY <1>2, <1>3 DEF ResolvedByReceipt
<1>8. TablesAgree'
  <2> SUFFICES ASSUME NEW i \in Intents
               PROVE  /\ st'[i] \in InBatch <=> \E j \in Active : i \in batches[j].tx.ids
                      /\ st'[i] = "CONFIRMED" <=>
                           \E j \in DOMAIN batches :
                             batches'[j].state = "CONFIRMED" /\ i \in batches[j].tx.ids
    BY <1>2, <1>3, <1>4 DEF TablesAgree, Active
  <2>1. \A j \in DOMAIN batches : batches'[j].state = "CONFIRMED" <=> batches[j].state = "CONFIRMED"
    BY <1>2 DEF Active, ActiveStates
  <2>2. CASE i \in b.tx.ids
    <3>1. st[i] \in InBatch /\ st'[i] \in InBatch
      BY <2>2 DEF TablesAgree, Set
    <3>2. QED
      BY <2>1, <2>2, <3>1 DEF TablesAgree, InBatch
  <2>3. CASE i \notin b.tx.ids
    <3>1. st'[i] = st[i]
      BY <2>3 DEF Set
    <3>2. QED
      BY <2>1, <3>1 DEF TablesAgree
  <2>4. QED
    BY <2>2, <2>3
<1>9. QED
  BY <1>3, <1>5, <1>6, <1>7, <1>8 DEF Tables

(* A new batch is stored when everything before it is mined.               *)
LEMMA PrepareStep == IInv /\ PrepareBatch => Tables' /\ Active' = {cur'}
<1> SUFFICES ASSUME IInv, PrepareBatch PROVE Tables' /\ Active' = {cur'}
  OBVIOUS
<1> USE DEF IInv
<1> DEFINE k == Len(batches) + 1
           b == [tx |-> [nonce |-> Len(chain), ids |-> sel], state |-> "PREPARED", count |-> 0]
<1>1. b \in Batches /\ Len(chain) \in Nat /\ Len(batches) \in Nat
  BY LenProperties DEF Batches, Transactions, ActiveStates, TypeOK
<1>2. /\ Len(batches') = k /\ DOMAIN batches' = DOMAIN batches \union {k}
      /\ \A j \in DOMAIN batches : batches'[j] = batches[j]
      /\ batches'[k] = b
  BY <1>1, AppendSeq DEF PrepareBatch, SignedBatch, TypeOK
<1>3. k \notin DOMAIN batches /\ DOMAIN batches = 1 .. Len(batches)
  BY <1>1, LenProperties DEF TypeOK
<1>4. Active = {} /\ cur' = k
  BY DEF PrepareBatch, SignedBatch
<1>5. Active' = {k}
  BY <1>2, <1>3, <1>4 DEF Active, ActiveStates
<1>6. Len(chain) = Len(batches)
  <2>1. Len(batches) > 0 => Len(batches) \in DOMAIN batches \ Active
    BY <1>1, <1>3, <1>4
  <2>2. QED
    BY <1>1, <2>1 DEF ResolvedByReceipt, ChainFollowsOutbox
<1>7. BatchesFollowNonces'
  BY <1>1, <1>2, <1>4, <1>5, <1>6 DEF BatchesFollowNonces
<1>8. ChainFollowsOutbox'
  <2>1. UNCHANGED <<chain, wire, mempool>>
    BY DEF PrepareBatch, SignedBatch, chainVars
  <2>2. \A tx \in wire \union mempool :
          \E j \in DOMAIN batches' : batches'[j].tx = tx /\ batches'[j].count > 0
    BY <1>2 DEF ChainFollowsOutbox
  <2>3. QED
    BY <1>1, <1>2, <1>3, <1>6, <2>1, <2>2 DEF ChainFollowsOutbox
<1>9. ResolvedByReceipt'
  <2>1. chain' = chain
    BY DEF PrepareBatch, SignedBatch, chainVars
  <2>2. QED
    BY <1>2, <1>3, <1>4, <1>5, <2>1 DEF ResolvedByReceipt
<1>10. TablesAgree'
  <2> SUFFICES ASSUME NEW i \in Intents
               PROVE  /\ st'[i] \in InBatch <=> i \in sel
                      /\ st'[i] = "CONFIRMED" <=>
                           \E j \in DOMAIN batches :
                             batches[j].state = "CONFIRMED" /\ i \in batches[j].tx.ids
    BY <1>2, <1>5 DEF TablesAgree
  <2>1. st[i] \notin InBatch /\ (i \in sel => st[i] = "QUEUED")
    BY <1>4 DEF TablesAgree, PrepareBatch, SignedBatch
  <2>2. st'[i] = IF i \in sel THEN "BATCHED" ELSE st[i]
    BY DEF PrepareBatch, SignedBatch, Set
  <2>3. QED
    BY <2>1, <2>2 DEF TablesAgree, InBatch
<1>11. QED
  BY <1>4, <1>5, <1>7, <1>8, <1>9, <1>10 DEF Tables

(* A receipt resolves the batch, its intents leave it with its outcome.    *)
LEMMA FinishStep == IInv /\ ReceiptFound => Tables' /\ Active' = {}
<1> SUFFICES ASSUME IInv, ReceiptFound PROVE Tables' /\ Active' = {}
  OBVIOUS
<1> USE DEF IInv
<1> DEFINE ok == Succeeded(cur)
           b == [batches[cur] EXCEPT !.state = IF ok THEN "CONFIRMED" ELSE "REVERTED"]
<1>1. cur \in Active /\ cur \in DOMAIN batches /\ batches[cur] \in Batches /\ cur \in Nat
  BY BatchTyped DEF ReceiptFound, TickHoldsActive, Active, TypeOK
<1>2. b \in Batches /\ b.tx = batches[cur].tx /\ b.count = batches[cur].count
      /\ b.state = (IF ok THEN "CONFIRMED" ELSE "REVERTED")
  BY <1>1 DEF Batches
<1>3. /\ Len(batches') = Len(batches) /\ DOMAIN batches' = DOMAIN batches
      /\ \A j \in DOMAIN batches : batches'[j] = IF j = cur THEN b ELSE batches[j]
  BY <1>1, <1>2, UpdateSeq DEF ReceiptFound, Finish, TypeOK
<1> HIDE DEF b, ok
<1>4. \A j \in DOMAIN batches : batches'[j].tx = batches[j].tx /\ batches'[j].count = batches[j].count
  BY <1>2, <1>3
<1>5. Active = {cur}
  BY <1>1 DEF BatchesFollowNonces, Active
<1>6. Active' = {}
  BY <1>2, <1>3, <1>5 DEF Active, ActiveStates
<1>7. cur <= Len(chain) /\ ok = chain[cur].ok /\ ok \in BOOLEAN
  <2>1. batches[cur].tx.nonce + 1 = cur /\ batches[cur].tx.nonce \in Nat
    BY <1>1, BatchTyped DEF BatchesFollowNonces, Transactions
  <2>2. cur <= Len(chain) /\ Len(chain) \in Nat /\ cur \in 1 .. Len(chain)
    BY <1>1, <2>1, LenProperties DEF ReceiptFound, Mined, TypeOK
  <2>3. chain[cur] \in Receipts
    BY <2>2, ElementOfSeq DEF TypeOK
  <2>4. QED
    BY <2>1, <2>2, <2>3 DEF Succeeded, Receipts, ok
<1>8. chain' = chain /\ wire' = wire /\ mempool' = mempool
  BY DEF ReceiptFound, chainVars
<1>9. BatchesFollowNonces'
  BY <1>3, <1>4, <1>6 DEF BatchesFollowNonces
<1>10. ChainFollowsOutbox'
  <2>1. \A n \in 1 .. Len(chain) : n \in DOMAIN batches
    BY LenProperties DEF ChainFollowsOutbox, TypeOK
  <2>2. QED
    BY <1>3, <1>4, <1>8, <2>1 DEF ChainFollowsOutbox
<1>11. ResolvedByReceipt'
  BY <1>2, <1>3, <1>5, <1>6, <1>7, <1>8 DEF ResolvedByReceipt
<1>12. TablesAgree'
  <2> SUFFICES ASSUME NEW i \in Intents
               PROVE  /\ st'[i] \notin InBatch
                      /\ st'[i] = "CONFIRMED" <=>
                           \E j \in DOMAIN batches :
                             batches'[j].state = "CONFIRMED" /\ i \in batches[j].tx.ids
    BY <1>3, <1>4, <1>6 DEF TablesAgree
  <2>1. st'[i] = IF i \notin batches[cur].tx.ids THEN st[i]
                 ELSE IF ok THEN "CONFIRMED" ELSE AfterRevert(i)
    BY DEF ReceiptFound, Finish, ok
  <2>2. AfterRevert(i) \in {"EXPIRED", "FAILED", "QUEUED"}
    BY DEF AfterRevert
  <2>3. \A j \in DOMAIN batches \ {cur} : batches'[j].state = batches[j].state
    BY <1>3
  <2>4. batches'[cur].state = "CONFIRMED" <=> ok
    BY <1>1, <1>2, <1>3
  <2>5. batches[cur].state # "CONFIRMED"
    BY <1>1 DEF Active, ActiveStates
  <2>6. CASE i \in batches[cur].tx.ids
    <3>1. st[i] \in InBatch
      BY <1>1, <2>6 DEF TablesAgree
    <3>2. \A j \in DOMAIN batches \ {cur} :
            i \in batches[j].tx.ids => batches[j].state # "CONFIRMED"
      BY <3>1 DEF TablesAgree, InBatch
    <3>3. QED
      BY <1>1, <2>1, <2>2, <2>3, <2>4, <2>6, <3>2 DEF InBatch
  <2>7. CASE i \notin batches[cur].tx.ids
    <3>1. st'[i] = st[i] /\ st[i] \notin InBatch
      BY <1>5, <2>1, <2>7 DEF TablesAgree
    <3>2. QED
      BY <2>3, <2>5, <2>7, <3>1 DEF TablesAgree
  <2>8. QED
    BY <2>6, <2>7
<1>13. QED
  BY <1>6, <1>9, <1>10, <1>11, <1>12 DEF Tables

(* The chain mines the sender's transactions in the order of the outbox.   *)
LEMMA MineStep == IInv /\ Mine => Tables' /\ Active' = Active
<1> SUFFICES ASSUME IInv, Mine PROVE Tables' /\ Active' = Active
  OBVIOUS
<1> USE DEF IInv
<1>1. PICK tx \in mempool, ok \in BOOLEAN :
        /\ tx.nonce = Len(chain)
        /\ chain' = Append(chain, [tx |-> tx, ok |-> ok])
        /\ mempool' = {t \in mempool : t.nonce > tx.nonce}
  BY DEF Mine
<1>2. UNCHANGED <<st, batches, wire>>
  BY DEF Mine, storeVars
<1>3. Active' = Active
  BY <1>2 DEF Active
<1>4. Len(chain) \in Nat /\ Len(batches) \in Nat
      /\ DOMAIN chain = 1 .. Len(chain) /\ DOMAIN batches = 1 .. Len(batches)
  BY LenProperties DEF TypeOK
<1>5. [tx |-> tx, ok |-> ok] \in Receipts
  BY DEF Receipts, TypeOK
<1>6. /\ Len(chain') = Len(chain) + 1
      /\ \A n \in 1 .. Len(chain) : chain'[n] = chain[n]
      /\ chain'[Len(chain) + 1] = [tx |-> tx, ok |-> ok]
  BY <1>1, <1>4, <1>5, AppendSeq DEF TypeOK
<1>7. PICK k \in DOMAIN batches : batches[k].tx = tx /\ batches[k].count > 0
  BY DEF ChainFollowsOutbox
<1>8. k = Len(chain) + 1 /\ k <= Len(batches)
  BY <1>1, <1>4, <1>7 DEF BatchesFollowNonces
<1>9. BatchesFollowNonces'
  BY <1>2, <1>3 DEF BatchesFollowNonces
<1>10. ChainFollowsOutbox'
  <2>1. \A n \in 1 .. Len(chain') : chain'[n].tx = batches[n].tx /\ batches[n].count > 0
    BY <1>4, <1>6, <1>7, <1>8 DEF ChainFollowsOutbox
  <2>2. wire' \union mempool' \subseteq wire \union mempool
    BY <1>1, <1>2
  <2>3. QED
    BY <1>2, <1>4, <1>6, <1>8, <2>1, <2>2 DEF ChainFollowsOutbox
<1>11. ResolvedByReceipt'
  BY <1>2, <1>3, <1>4, <1>6 DEF ResolvedByReceipt
<1>12. TablesAgree'
  BY <1>2, <1>3 DEF TablesAgree
<1>13. QED
  BY <1>3, <1>9, <1>10, <1>11, <1>12 DEF Tables

-----------------------------------------------------------------------------
LEMMA InitIInv == Init => IInv
<1> SUFFICES ASSUME Init PROVE IInv
  OBVIOUS
<1> USE DEF Init
<1>1. TypeOK
  BY EmptySeq DEF TypeOK, States, Phases
<1>2. DOMAIN batches = {} /\ Len(chain) = 0 /\ Len(batches) = 0
  OBVIOUS
<1>3. Active = {}
  BY <1>2 DEF Active
<1>4. BatchesFollowNonces /\ ChainFollowsOutbox /\ ResolvedByReceipt /\ TickHoldsActive
  BY <1>2, <1>3 DEF BatchesFollowNonces, ChainFollowsOutbox, ResolvedByReceipt, TickHoldsActive
<1>5. TablesAgree
  BY <1>2, <1>3 DEF TablesAgree, InBatch
<1>6. QED
  BY <1>1, <1>4, <1>5 DEF IInv

(* Every step keeps the invariant: the steps of the tick that hold or      *)
(* write a batch one by one, the rest by FrameStep.                        *)
LEMMA IInvStep == IInv /\ [Next]_vars => IInv'
<1> SUFFICES ASSUME IInv, [Next]_vars PROVE IInv'
  OBVIOUS
<1>1. TypeOK'
  BY TypeOKStep DEF IInv
<1> SUFFICES Tables' /\ TickHoldsActive'
  BY <1>1 DEF IInv, Tables
<1> USE DEF TickHoldsActive
<1>a. ASSUME NEW i \in Intents, Submit(i) PROVE Tables' /\ TickHoldsActive'
  <2>1. Tables' /\ Active' = Active
    BY <1>a, FrameStep DEF Submit, chainVars, InBatch, IInv, TypeOK
  <2>2. QED
    BY <1>a, <2>1 DEF Submit, tickVars, IInv
<1>b. CASE TickRecover
  <2>1. Tables' /\ Active' = Active
    BY <1>b, FrameStep DEF TickRecover, storeVars, chainVars
  <2>2. QED
    BY <1>b, <2>1 DEF TickRecover, IsActiveBatch
<1>c. CASE TickWait \/ TickDispatch
  <2>1. \A i \in Intents : st'[i] = st[i] \/ (st[i] = "QUEUED" /\ st'[i] = "EXPIRED")
    BY <1>c DEF TickWait, TickDispatch, ExpireOverdue, Overdue, Queued, Set
  <2>2. Tables' /\ Active' = Active
    BY <1>c, <2>1, FrameStep DEF TickWait, TickDispatch, ExpireOverdue, chainVars, InBatch
  <2>3. QED
    BY <1>c, <2>2 DEF TickWait, TickDispatch, tickVars, IInv
<1>d. CASE PreflightOk \/ PreflightStopsPrefix
  <2>1. Tables' /\ Active' = Active
    BY <1>d, FrameStep DEF PreflightOk, PreflightStopsPrefix, storeVars, chainVars
  <2>2. QED
    BY <1>d, <2>1 DEF PreflightOk, PreflightStopsPrefix, IInv
<1>e. CASE PreflightRejects
  <2>1. \A i \in Intents :
          st'[i] = st[i] \/ (st[i] = "QUEUED" /\ st'[i] \in {"FAILED", "REJECTED"})
    BY <1>e DEF PreflightRejects, Set
  <2>2. Tables' /\ Active' = Active
    BY <1>e, <2>1, FrameStep DEF PreflightRejects, chainVars, InBatch
  <2>3. pc' \in {"idle", "preflight"} /\ Active = {}
    BY <1>e DEF PreflightRejects, EndTick, IInv
  <2>4. QED
    BY <2>2, <2>3
<1>f. CASE TickThrows \/ BroadcastReturns
  <2>1. Tables' /\ Active' = Active
    BY <1>f, FrameStep DEF TickThrows, BroadcastReturns, storeVars, chainVars
  <2>2. QED
    BY <1>f, <2>1 DEF TickThrows, BroadcastReturns, EndTick
<1>g. CASE PrepareBatch
  BY <1>g, PrepareStep DEF PrepareBatch, SignedBatch
<1>h. CASE NoteBroadcast
  <2> DEFINE b == Noted(batches[cur])
  <2>1. cur \in Active /\ batches[cur] \in Batches
    BY <1>h, BatchTyped DEF NoteBroadcast, Active, IInv
  <2>2. b \in Batches
    BY <2>1, NotedBatchTyped
  <2>3. b.tx = batches[cur].tx /\ b.state = "SUBMITTED" /\ b.count = batches[cur].count + 1
    BY <2>1 DEF Batches, Noted
  <2>4. /\ batches' = [batches EXCEPT ![cur] = b] /\ chain' = chain
        /\ st' = Set(batches[cur].tx.ids, "SUBMITTED")
        /\ wire' = wire \union {batches[cur].tx} /\ mempool' = mempool
    BY <1>h DEF NoteBroadcast
  <2> HIDE DEF b
  <2>5. b.count > 0 /\ b.count >= batches[cur].count
    BY <2>1, <2>3 DEF Batches
  <2>6. Tables' /\ Active' = Active
    BY <2>1, <2>2, <2>3, <2>4, <2>5, WriteActiveStep DEF InBatch, ActiveStates
  <2>7. QED
    BY <1>h, <2>1, <2>6 DEF NoteBroadcast
<1>i. ASSUME cur \in Active, Reconcile(cur), UNCHANGED chainVars, EndTick
      PROVE  Tables' /\ TickHoldsActive'
  <2> DEFINE b == [batches[cur] EXCEPT !.state = "RECONCILING"]
  <2>1. batches[cur] \in Batches
    BY <1>i, BatchTyped DEF Active, IInv
  <2>2. /\ b \in Batches /\ b.tx = batches[cur].tx /\ b.state = "RECONCILING"
        /\ b.count = batches[cur].count /\ b.count \in Nat
    BY <2>1 DEF Batches, ActiveStates
  <2>3. /\ batches' = [batches EXCEPT ![cur] = b] /\ chain' = chain
        /\ st' = Set(batches[cur].tx.ids, "RECONCILING")
        /\ wire' = wire /\ mempool' = mempool
    BY <1>i DEF Reconcile, chainVars
  <2> HIDE DEF b
  <2>4. b.count >= batches[cur].count
    BY <2>2
  <2>5. Tables'
    BY <1>i, <2>2, <2>3, <2>4, WriteActiveStep DEF InBatch, ActiveStates
  <2>6. QED
    BY <1>i, <2>5 DEF EndTick
<1>j. CASE BroadcastThrows \/ ReceiptUnusable
  BY <1>i, <1>j DEF BroadcastThrows, ReceiptUnusable, IInv
<1>k. CASE ReceiptFound
  BY <1>k, FinishStep DEF ReceiptFound, EndTick
<1>l. CASE ReceiptMissing
  <2>1. cur \in Active /\ UNCHANGED chainVars
    BY <1>l DEF ReceiptMissing, IInv
  <2>2. CASE Reconcile(cur) /\ EndTick
    BY <1>i, <2>1, <2>2
  <2>3. CASE UNCHANGED storeVars
    <3>1. Tables' /\ Active' = Active
      BY <2>1, <2>3, FrameStep DEF storeVars, chainVars
    <3>2. pc' = "idle" \/ (pc' = "note" /\ cur' = cur)
      BY <1>l, <2>3 DEF ReceiptMissing, EndTick
    <3>3. QED
      BY <2>1, <3>1, <3>2
  <2>4. QED
    BY <1>l, <2>2, <2>3 DEF ReceiptMissing, KeepWaiting
<1>m. CASE Crash \/ Restart
  <2>1. Tables' /\ Active' = Active
    BY <1>m, FrameStep DEF Crash, Restart, storeVars, chainVars
  <2>2. QED
    BY <1>m, <2>1 DEF Crash, Restart
<1>n. CASE Clock
  <2>1. UNCHANGED <<storeVars, tickVars, chainVars>>
    BY <1>n DEF Clock, Opens, DeadlinePasses, WaitElapses, QuietElapses
  <2>2. Tables' /\ Active' = Active
    BY <2>1, FrameStep DEF storeVars, chainVars
  <2>3. QED
    BY <2>1, <2>2 DEF tickVars, IInv
<1>o. CASE Deliver \/ Lose \/ \E i \in Intents : Forward(i)
  <2>1. UNCHANGED <<storeVars, tickVars, chain>> /\ wire' \union mempool' \subseteq wire \union mempool
    BY <1>o DEF Deliver, Lose, Forward
  <2>2. Tables' /\ Active' = Active
    BY <2>1, FrameStep DEF storeVars
  <2>3. QED
    BY <2>1, <2>2 DEF tickVars, IInv
<1>p. CASE Mine
  <2>1. Tables' /\ Active' = Active
    BY <1>p, MineStep
  <2>2. QED
    BY <1>p, <2>1 DEF Mine, tickVars, IInv
<1>q. CASE UNCHANGED vars
  <2>1. Tables' /\ Active' = Active
    BY <1>q, FrameStep DEF vars, storeVars, chainVars
  <2>2. QED
    BY <1>q, <2>1 DEF vars, tickVars, IInv
<1>r. QED
  BY <1>a, <1>b, <1>c, <1>d, <1>e, <1>f, <1>g, <1>h, <1>j, <1>k, <1>l, <1>m, <1>n, <1>o,
     <1>p, <1>q
     DEF Next, Coordinate, Tick, PreflightAnswers, BroadcastEnds, ReceiptAnswers, Chain

(* The outbox, the intents table, the tick in progress and the chain fit   *)
(* together in every reachable state.                                      *)
THEOREM Invariance == Spec => []IInv
<1>1. QED
  BY InitIInv, IInvStep, PTL DEF Spec

-----------------------------------------------------------------------------
(***************************************************************************)
(* Consequences                                                            *)
(***************************************************************************)

(* What the tables say of an intent that one of the relayer's transactions *)
(* has paid, and of one that a transaction could still pay.                *)
LEMMA ReadingTables ==
  ASSUME IInv
  PROVE  /\ \A i \in Paid : i \in Intents /\ st[i] \in InBatch \union {"CONFIRMED"}
         /\ \A i \in Intents : st[i] = "CONFIRMED" => i \in Paid
         /\ \A tx \in CanStillBeMined : \E k \in Active : batches[k].tx = tx
<1> USE DEF IInv
<1>1. /\ DOMAIN chain = 1 .. Len(chain) /\ DOMAIN batches = 1 .. Len(batches)
      /\ Len(chain) \in Nat /\ Len(batches) \in Nat
      /\ \A k \in DOMAIN batches : batches[k] \in Batches
  BY LenProperties, BatchTyped DEF TypeOK
<1>2. \A i : i \in Paid <=> \E n \in DOMAIN chain : chain[n].ok /\ i \in chain[n].tx.ids
  BY DEF Paid
<1>3. ASSUME NEW i \in Paid
      PROVE  i \in Intents /\ st[i] \in InBatch \union {"CONFIRMED"}
  <2>1. PICK n \in DOMAIN chain : chain[n].ok /\ i \in chain[n].tx.ids
    BY <1>2
  <2>2. n \in DOMAIN batches /\ i \in batches[n].tx.ids
    BY <1>1, <2>1 DEF ChainFollowsOutbox
  <2>3. i \in Intents
    BY <1>1, <2>2 DEF Batches, Transactions
  <2>4. CASE n \in Active
    BY <2>2, <2>3, <2>4 DEF TablesAgree
  <2>5. CASE n \notin Active
    BY <2>1, <2>2, <2>3, <2>5 DEF TablesAgree, ResolvedByReceipt
  <2>6. QED
    BY <2>3, <2>4, <2>5
<1>4. ASSUME NEW i \in Intents, st[i] = "CONFIRMED"
      PROVE  i \in Paid
  <2>1. PICK k \in DOMAIN batches : batches[k].state = "CONFIRMED" /\ i \in batches[k].tx.ids
    BY <1>4 DEF TablesAgree
  <2>2. k \in DOMAIN batches \ Active
    BY <2>1 DEF Active, ActiveStates
  <2>3. k \in DOMAIN chain /\ chain[k].ok
    BY <1>1, <2>1, <2>2 DEF ResolvedByReceipt
  <2>4. chain[k].tx = batches[k].tx
    BY <1>1, <2>3 DEF ChainFollowsOutbox
  <2>5. QED
    BY <1>2, <2>1, <2>3, <2>4
<1>5. ASSUME NEW tx \in CanStillBeMined
      PROVE  \E k \in Active : batches[k].tx = tx
  <2>1. tx \in wire \union mempool /\ tx.nonce >= Len(chain)
    BY DEF CanStillBeMined
  <2>2. PICK k \in DOMAIN batches : batches[k].tx = tx
    BY <2>1 DEF ChainFollowsOutbox
  <2>3. k > Len(chain)
    BY <1>1, <2>1, <2>2 DEF BatchesFollowNonces, Batches, Transactions
  <2>4. k \in Active
    BY <1>1, <2>2, <2>3 DEF ResolvedByReceipt
  <2>5. QED
    BY <2>2, <2>4
<1>6. QED
  BY <1>3, <1>4, <1>5

(* Whatever left the process belongs to a stored batch whose broadcast was *)
(* noted first, whenever the process crashes.                              *)
THEOREM OutboxIsFirst == Spec => []OutboxFirst
<1>1. IInv => OutboxFirst
  <2> SUFFICES ASSUME IInv, NEW tx \in Sent
               PROVE  \E k \in DOMAIN batches : batches[k].tx = tx /\ batches[k].count > 0
    BY DEF OutboxFirst
  <2>1. CASE tx \in wire \union mempool
    BY <2>1 DEF IInv, ChainFollowsOutbox
  <2>2. ASSUME NEW n \in DOMAIN chain, tx = chain[n].tx
        PROVE  \E k \in DOMAIN batches : batches[k].tx = tx /\ batches[k].count > 0
    <3>1. n \in 1 .. Len(chain) /\ n \in DOMAIN batches
      BY <2>2, LenProperties DEF IInv, TypeOK, ChainFollowsOutbox
    <3>2. QED
      BY <2>2, <3>1 DEF IInv, ChainFollowsOutbox
  <2>3. QED
    BY <2>1, <2>2 DEF Sent
<1>2. QED
  BY <1>1, Invariance, PTL

(* The sender never has two transactions that compete for one nonce.       *)
THEOREM SenderIsAlone == Spec => []NoCompetingTransaction
<1>1. IInv => NoCompetingTransaction
  <2> SUFFICES ASSUME IInv PROVE NoCompetingTransaction
    OBVIOUS
  <2>1. \A k \in DOMAIN batches : batches[k].tx.nonce + 1 = k
    BY DEF IInv, BatchesFollowNonces
  <2>2. QED
    BY <2>1, ReadingTables DEF NoCompetingTransaction
<1>2. QED
  BY <1>1, Invariance, PTL

(* A terminal state tells the truth about the chain, now and for ever.     *)
THEOREM OutcomesAreTrue == Spec => []OutcomeIsTrue
<1>1. IInv => OutcomeIsTrue
  <2> SUFFICES ASSUME IInv, NEW i \in Intents
               PROVE  /\ st[i] = "CONFIRMED" => i \in Paid
                      /\ st[i] \in Terminal \ {"CONFIRMED"} =>
                           i \notin Paid /\ \A tx \in CanStillBeMined : i \notin tx.ids
    BY DEF OutcomeIsTrue
  <2>1. Terminal \intersect InBatch = {}
    BY DEF Terminal, InBatch
  <2>2. ASSUME NEW tx \in CanStillBeMined, i \in tx.ids
        PROVE  st[i] \in InBatch
    BY <2>2, ReadingTables DEF IInv, TablesAgree
  <2>3. QED
    BY <2>1, <2>2, ReadingTables
<1>2. QED
  BY <1>1, Invariance, PTL

-----------------------------------------------------------------------------
(***************************************************************************)
(* Refinement: every step of the relayer is a step of Settlement, or is    *)
(* invisible to it.                                                        *)
(***************************************************************************)

(* FateOf, state by state.                                                 *)
LEMMA Fates ==
  /\ FateOf("ABSENT") = "unknown"
  /\ FateOf("CONFIRMED") = "settled"
  /\ \A s \in {"REJECTED", "EXPIRED", "FAILED"} : FateOf(s) = "abandoned"
  /\ \A s \in InBatch \union {"QUEUED"} : FateOf(s) = "taken"
BY DEF FateOf, Terminal, InBatch

(* Steps that move the intents of S to fate f, and leave the chain alone.  *)
LEMMA MoveStep ==
  ASSUME NEW S \in SUBSET Intents, NEW f,
         \A i \in Intents : FateOf(st'[i]) = IF i \in S THEN f ELSE FateOf(st[i])
  PROVE  Promise!Move(S, f)
<1>1. Fate' = [i \in Intents |-> IF i \in S THEN f ELSE Fate[i]]
  BY DEF Fate
<1>2. QED
  BY <1>1 DEF Promise!Move

(* Intents that leave the queue, or a batch, without being paid.           *)
LEMMA AbandonStep ==
  ASSUME UNCHANGED Paid, NEW S \in SUBSET Intents,
         \A i \in S : st[i] \in InBatch \union {"QUEUED"} /\ i \notin Paid
                        /\ st'[i] \in {"REJECTED", "EXPIRED", "FAILED"},
         \A i \in Intents \ S : FateOf(st'[i]) = FateOf(st[i])
  PROVE  Promise!Abandon
<1>1. Promise!Move(S, "abandoned")
  BY Fates, MoveStep
<1>2. S \in SUBSET (Promise!With("taken") \ Paid)
  BY Fates DEF Promise!With, Fate
<1>3. QED
  BY <1>1, <1>2 DEF Promise!Abandon

(* Each step of the relayer maps to a step of Settlement or a stutter.     *)
LEMMA PromiseStep == IInv /\ [Next]_vars => [Promise!Next]_Promise!vars
<1> SUFFICES ASSUME IInv, [Next]_vars PROVE [Promise!Next]_Promise!vars
  OBVIOUS
<1> USE DEF IInv
<1>1. \A i \in Intents : st[i] = "QUEUED" => i \notin Paid
  BY ReadingTables DEF InBatch
<1>2. ASSUME UNCHANGED chain PROVE UNCHANGED Paid
  BY <1>2 DEF Paid
<1>3. ASSUME UNCHANGED chain, \A i \in Intents : FateOf(st'[i]) = FateOf(st[i])
      PROVE  UNCHANGED Promise!vars
  BY <1>2, <1>3 DEF Promise!vars, Fate
<1>a. ASSUME NEW i \in Intents, Submit(i) PROVE Promise!Next
  <2>1. Promise!Move({i}, "taken") /\ i \in Promise!With("unknown")
    BY <1>a, Fates, MoveStep DEF Submit, TypeOK, Promise!With, Fate
  <2>2. UNCHANGED Paid
    BY <1>a, <1>2 DEF Submit, chainVars
  <2>3. QED
    BY <2>1, <2>2 DEF Promise!Next, Promise!Take
<1>b. CASE TickWait \/ TickDispatch
  <2>1. /\ UNCHANGED chain
        /\ \A i \in Overdue : st[i] = "QUEUED" /\ st'[i] = "EXPIRED"
        /\ \A i \in Intents \ Overdue : st'[i] = st[i]
    BY <1>b DEF TickWait, TickDispatch, ExpireOverdue, Overdue, Queued, Set, chainVars
  <2>2. Overdue \in SUBSET Intents
    BY DEF Overdue, Queued
  <2>3. \A i \in Overdue : i \notin Paid
    BY <1>1, <2>1, <2>2
  <2>4. UNCHANGED Paid
    BY <1>2, <2>1
  <2>5. Promise!Abandon
    <3>1. \A i \in Overdue : st[i] \in InBatch \union {"QUEUED"} /\ i \notin Paid
                            /\ st'[i] \in {"REJECTED", "EXPIRED", "FAILED"}
      BY <2>1, <2>3
    <3>2. \A i \in Intents \ Overdue : FateOf(st'[i]) = FateOf(st[i])
      BY <2>1
    <3>3. QED
      BY <2>2, <2>4, <3>1, <3>2, AbandonStep
  <2>6. QED
    BY <2>5 DEF Promise!Next
<1>c. CASE PreflightRejects
  <2>1. PICK i \in cand : st[i] = "QUEUED" /\ st' = Set({i}, IF attempts[i] > 0 THEN "FAILED" ELSE "REJECTED")
    BY <1>c DEF PreflightRejects
  <2>2. {i} \in SUBSET Intents /\ st'[i] \in {"FAILED", "REJECTED"}
        /\ \A j \in Intents \ {i} : st'[j] = st[j]
    BY <2>1 DEF Set, TypeOK
  <2>3. UNCHANGED chain
    BY <1>c DEF PreflightRejects, chainVars
  <2>4. QED
    BY <1>1, <1>2, <2>1, <2>2, <2>3, AbandonStep DEF Promise!Next
<1>d. CASE TickRecover \/ PreflightOk \/ PreflightStopsPrefix \/ TickThrows \/ BroadcastReturns
        \/ Crash \/ Restart \/ Clock \/ Deliver \/ Lose \/ \E i \in Intents : Forward(i)
  <2>1. UNCHANGED <<st, chain>>
    BY <1>d DEF TickRecover, PreflightOk, PreflightStopsPrefix, TickThrows, BroadcastReturns,
                Crash, Restart, Clock, Opens, DeadlinePasses, WaitElapses, QuietElapses,
                Deliver, Lose, Forward, storeVars, chainVars
  <2>2. QED
    BY <1>3, <2>1
<1>e. CASE PrepareBatch
  <2>1. \A i \in Intents : st'[i] = st[i] \/ (st[i] = "QUEUED" /\ st'[i] = "BATCHED")
    BY <1>e DEF PrepareBatch, SignedBatch, Set
  <2>2. QED
    BY <1>3, <1>e, <2>1, Fates DEF PrepareBatch, SignedBatch, chainVars, InBatch
<1>f. ASSUME UNCHANGED chain, cur \in Active, NEW s \in InBatch, st' = Set(batches[cur].tx.ids, s)
      PROVE  UNCHANGED Promise!vars
  <2>1. \A i \in Intents : st'[i] = st[i] \/ (st[i] \in InBatch /\ st'[i] \in InBatch)
    BY <1>f DEF Set, TablesAgree
  <2>2. QED
    BY <1>3, <1>f, <2>1, Fates
<1>g. CASE NoteBroadcast \/ BroadcastThrows \/ ReceiptUnusable
  <2>1. cur \in Active
    BY <1>g DEF NoteBroadcast, BroadcastThrows, ReceiptUnusable, TickHoldsActive
  <2>2. UNCHANGED chain
    BY <1>g DEF NoteBroadcast, BroadcastThrows, ReceiptUnusable, chainVars
  <2>3. st' = Set(batches[cur].tx.ids, "SUBMITTED") \/ st' = Set(batches[cur].tx.ids, "RECONCILING")
    BY <1>g DEF NoteBroadcast, BroadcastThrows, ReceiptUnusable, Reconcile
  <2>4. QED
    BY <1>f, <2>1, <2>2, <2>3 DEF InBatch
<1>h. CASE ReceiptMissing
  <2>1. cur \in Active /\ UNCHANGED chain
    BY <1>h DEF ReceiptMissing, TickHoldsActive, chainVars
  <2>2. st' = Set(batches[cur].tx.ids, "RECONCILING") \/ UNCHANGED st
    BY <1>h DEF ReceiptMissing, KeepWaiting, Reconcile, storeVars
  <2>3. QED
    BY <1>3, <1>f, <2>1, <2>2 DEF InBatch
<1>i. CASE ReceiptFound
  <2> DEFINE ids == batches[cur].tx.ids
             ok == Succeeded(cur)
  <2>1. cur \in Active /\ cur \in DOMAIN batches /\ ids \in SUBSET Intents /\ UNCHANGED chain
    BY <1>i, BatchTyped DEF ReceiptFound, TickHoldsActive, Active, chainVars
  <2>2. \A i \in ids : st[i] \in InBatch
    BY <2>1 DEF TablesAgree
  <2>3. \A i \in Intents : st'[i] = IF i \notin ids THEN st[i]
                                    ELSE IF ok THEN "CONFIRMED" ELSE AfterRevert(i)
    BY <1>i DEF ReceiptFound, Finish
  <2>4. \A i \in ids : ok <=> i \in Paid
    <3>1. batches[cur].tx.nonce + 1 = cur /\ batches[cur].tx.nonce \in Nat
      BY <2>1, BatchTyped DEF BatchesFollowNonces, Transactions
    <3>2. cur \in DOMAIN chain /\ chain[cur].tx = batches[cur].tx /\ ok = chain[cur].ok
      BY <1>i, <2>1, <3>1, LenProperties, BatchTyped DEF ReceiptFound, Mined, Succeeded, TypeOK
    <3>3. \A n \in DOMAIN chain : n = cur \/ ids \intersect chain[n].tx.ids = {} \/ ~chain[n].ok
      <4> SUFFICES ASSUME NEW n \in DOMAIN chain, n # cur, chain[n].ok, NEW i \in ids,
                          i \in chain[n].tx.ids
                   PROVE  FALSE
        OBVIOUS
      <4>1. n \in DOMAIN batches /\ n \in 1 .. Len(chain) /\ chain[n].tx = batches[n].tx
        BY LenProperties DEF TypeOK, ChainFollowsOutbox
      <4>2. n \notin Active
        BY <2>1, <4>1 DEF BatchesFollowNonces, Active
      <4>3. batches[n].state = "CONFIRMED"
        BY <4>1, <4>2 DEF ResolvedByReceipt
      <4>4. st[i] = "CONFIRMED"
        BY <2>1, <4>1, <4>3 DEF TablesAgree
      <4>5. QED
        BY <2>2, <4>4 DEF InBatch
    <3>4. QED
      BY <3>2, <3>3 DEF Paid
  <2> HIDE DEF ids, ok
  <2>5. CASE ok
    <3>1. Promise!Move(ids, "settled")
      BY <2>1, <2>3, <2>5, Fates, MoveStep
    <3>2. ids \in SUBSET (Promise!With("taken") \intersect Paid)
      BY <2>1, <2>2, <2>4, <2>5, Fates DEF Promise!With, Fate
    <3>3. QED
      BY <1>2, <2>1, <3>1, <3>2 DEF Promise!Next, Promise!Settle
  <2>6. CASE ~ok
    <3> DEFINE S == {i \in ids : AfterRevert(i) # "QUEUED"}
    <3>1. \A i \in S : AfterRevert(i) \in {"REJECTED", "EXPIRED", "FAILED"}
      BY DEF AfterRevert
    <3>2. \A i \in S : st[i] \in InBatch \union {"QUEUED"} /\ i \notin Paid
                         /\ st'[i] \in {"REJECTED", "EXPIRED", "FAILED"}
      BY <2>1, <2>2, <2>3, <2>4, <2>6, <3>1
    <3>3. \A i \in Intents \ S : FateOf(st'[i]) = FateOf(st[i])
      BY <2>2, <2>3, <2>6, Fates
    <3>4. S \in SUBSET Intents
      BY <2>1
    <3> HIDE DEF S
    <3>5. QED
      BY <1>2, <2>1, <3>2, <3>3, <3>4, AbandonStep DEF Promise!Next
  <2>7. QED
    BY <2>5, <2>6
<1>j. CASE Mine
  <2>1. PICK tx \in mempool, ok \in BOOLEAN :
          /\ tx.nonce = Len(chain)
          /\ ok => tx.ids \intersect Executed = {}
          /\ chain' = Append(chain, [tx |-> tx, ok |-> ok])
    BY <1>j DEF Mine
  <2>2. tx \in CanStillBeMined /\ tx \in Transactions
    BY <2>1, LenProperties DEF CanStillBeMined, TypeOK
  <2>3. \A i \in tx.ids : i \in Intents /\ st[i] \in InBatch
    BY <2>2, ReadingTables DEF TablesAgree, Transactions
  <2>4. UNCHANGED Fate
    BY <1>j DEF Mine, Fate, storeVars
  <2>5. [tx |-> tx, ok |-> ok] \in Receipts
    BY <2>2 DEF Receipts
  <2>6. /\ DOMAIN chain' = DOMAIN chain \union {Len(chain) + 1}
        /\ \A n \in DOMAIN chain : chain'[n] = chain[n]
        /\ chain'[Len(chain) + 1] = [tx |-> tx, ok |-> ok]
    BY <2>1, <2>5, AppendSeq DEF TypeOK
  <2>7. \A i : i \in Paid' <=> \E n \in DOMAIN chain' : chain'[n].ok /\ i \in chain'[n].tx.ids
    BY DEF Paid
  <2>8. \A i : i \in Paid <=> \E n \in DOMAIN chain : chain[n].ok /\ i \in chain[n].tx.ids
    BY DEF Paid
  <2>9. CASE ok
    <3>1. Paid' = Paid \union tx.ids
      BY <2>6, <2>7, <2>8, <2>9
    <3>2. tx.ids \in SUBSET (Promise!With("taken") \ Paid)
      BY <2>1, <2>3, <2>9, Fates DEF Promise!With, Fate, Executed
    <3>3. QED
      BY <2>4, <3>1, <3>2 DEF Promise!Next, Promise!Pay
  <2>10. CASE ~ok
    <3>1. ASSUME NEW n \in DOMAIN chain', chain'[n].ok
          PROVE  n \in DOMAIN chain /\ chain'[n] = chain[n]
      BY <2>6, <2>10, <3>1
    <3>2. \A i : i \in Paid' <=> i \in Paid
      BY <2>6, <2>7, <2>8, <3>1
    <3>3. Paid' = Paid
      BY <3>2
    <3>4. QED
      BY <2>4, <3>3 DEF Promise!vars
  <2>11. QED
    BY <2>9, <2>10
<1>k. CASE UNCHANGED vars
  BY <1>3, <1>k DEF vars, storeVars, chainVars
<1>l. QED
  BY <1>a, <1>b, <1>c, <1>d, <1>e, <1>g, <1>h, <1>i, <1>j, <1>k
     DEF Next, Coordinate, Tick, PreflightAnswers, BroadcastEnds, ReceiptAnswers, Chain

(* The relayer implements Settlement: paid intents are never abandoned,    *)
(* abandoned ones never paid, and every outcome is final.                  *)
THEOREM Refinement == Spec => KeepsPromise
<1>1. Init => Promise!Init
  <2> SUFFICES ASSUME Init PROVE Promise!Init
    OBVIOUS
  <2>1. Fate = [i \in Intents |-> "unknown"]
    BY Fates DEF Init, Fate
  <2>2. Paid = {}
    <3>1. DOMAIN chain = {}
      BY DEF Init
    <3>2. QED
      BY <3>1 DEF Paid
  <2>3. QED
    BY <2>1, <2>2 DEF Promise!Init
<1>2. QED
  BY <1>1, PromiseStep, Invariance, PTL DEF Spec, KeepsPromise, Promise!Spec

(* A terminal intent stays as it is, whatever happens next.                *)
LEMMA FinalStep == IInv /\ [Next]_vars => [\A i \in Intents : st[i] \in Terminal => st'[i] = st[i]]_st
<1> SUFFICES ASSUME IInv, [Next]_vars, NEW i \in Intents, st[i] \in Terminal
             PROVE  st'[i] = st[i]
  OBVIOUS
<1> USE DEF Terminal
<1>1. \A k \in Active : i \notin batches[k].tx.ids
  BY DEF IInv, TablesAgree, InBatch
<1>2. \A S, s : i \notin S => Set(S, s)[i] = st[i]
  BY DEF Set
<1>3. ASSUME NEW j \in Intents, Submit(j) PROVE st'[i] = st[i]
  BY <1>3 DEF Submit, IInv, TypeOK
<1>4. CASE TickWait \/ TickDispatch
  <2>1. i \notin Overdue /\ st' = Set(Overdue, "EXPIRED")
    BY <1>4 DEF TickWait, TickDispatch, ExpireOverdue, Overdue, Queued
  <2>2. QED
    BY <1>2, <2>1
<1>5. CASE PreflightRejects
  BY <1>2, <1>5 DEF PreflightRejects
<1>6. CASE PrepareBatch
  BY <1>2, <1>6 DEF PrepareBatch, SignedBatch
<1>7. ASSUME cur \in Active, Reconcile(cur) PROVE st'[i] = st[i]
  BY <1>1, <1>2, <1>7 DEF Reconcile
<1>8. CASE NoteBroadcast
  BY <1>1, <1>2, <1>8 DEF NoteBroadcast, IInv, TickHoldsActive
<1>9. CASE BroadcastThrows \/ ReceiptUnusable
  BY <1>7, <1>9 DEF BroadcastThrows, ReceiptUnusable, IInv, TickHoldsActive
<1>10. CASE ReceiptFound
  BY <1>1, <1>10 DEF ReceiptFound, Finish, IInv, TickHoldsActive
<1>11. CASE ReceiptMissing
  BY <1>7, <1>11 DEF ReceiptMissing, KeepWaiting, IInv, TickHoldsActive, storeVars
<1>12. CASE \/ TickRecover \/ PreflightOk \/ PreflightStopsPrefix \/ TickThrows
            \/ BroadcastReturns \/ Crash \/ Restart
  BY <1>12 DEF TickRecover, PreflightOk, PreflightStopsPrefix, TickThrows,
               BroadcastReturns, Crash, Restart, storeVars
<1>13. CASE Clock
  BY <1>13 DEF Clock, Opens, DeadlinePasses, WaitElapses, QuietElapses, storeVars
<1>14. CASE Chain
  BY <1>14 DEF Chain, Deliver, Lose, Mine, Forward, storeVars
<1>15. CASE UNCHANGED vars
  BY <1>15 DEF vars, storeVars
<1>16. QED
  BY <1>3, <1>4, <1>5, <1>6, <1>8, <1>9, <1>10, <1>11, <1>12, <1>13, <1>14, <1>15
     DEF Next, Coordinate, Tick, PreflightAnswers, BroadcastEnds, ReceiptAnswers

(* The outcome an agent reads is the outcome for good (agent.ts:83).       *)
THEOREM OutcomesAreFinal == Spec => TerminalIsFinal
BY FinalStep, Invariance, PTL DEF Spec, TerminalIsFinal

-----------------------------------------------------------------------------
(***************************************************************************)
(* The queue, the attempts and the tables as their readers see them.       *)
(***************************************************************************)

(* Any set of intents is finite.                                           *)
LEMMA FiniteIntents ==
  ASSUME NEW S \in SUBSET Intents
  PROVE  IsFiniteSet(S) /\ Cardinality(S) \in Nat
BY IntentsAssumption, FS_Subset, FS_CardinalityType

(* A step leaves the absent intents absent, but for the one it accepts.    *)
LEMMA AbsentStep ==
  IInv /\ [Next]_vars =>
    \/ \E i \in Intents : Submit(i)
    \/ /\ earlier' = earlier
       /\ \A i \in Intents : st'[i] = "ABSENT" <=> st[i] = "ABSENT"
<1> DEFINE Same == earlier' = earlier /\ \A i \in Intents : st'[i] = "ABSENT" <=> st[i] = "ABSENT"
<1> SUFFICES ASSUME IInv, [Next]_vars, ~\E i \in Intents : Submit(i) PROVE Same
  OBVIOUS
<1>1. \A S, s : \A i \in Intents : Set(S, s)[i] = IF i \in S THEN s ELSE st[i]
  BY DEF Set
<1>2. \A k \in Active : \A i \in Intents : i \in batches[k].tx.ids => st[i] \in InBatch
  BY DEF IInv, TablesAgree
<1>3. CASE TickWait \/ TickDispatch
  BY <1>1, <1>3 DEF TickWait, TickDispatch, ExpireOverdue, Overdue, Queued
<1>4. CASE PreflightRejects
  BY <1>1, <1>4 DEF PreflightRejects
<1>5. CASE PrepareBatch
  BY <1>1, <1>5 DEF PrepareBatch, SignedBatch
<1>6. ASSUME cur \in Active, Reconcile(cur)
      PROVE  Same
  BY <1>1, <1>2, <1>6 DEF Reconcile, InBatch
<1>7. CASE NoteBroadcast
  BY <1>1, <1>2, <1>7 DEF NoteBroadcast, InBatch, IInv, TickHoldsActive
<1>8. CASE BroadcastThrows \/ ReceiptUnusable
  BY <1>6, <1>8 DEF BroadcastThrows, ReceiptUnusable, IInv, TickHoldsActive
<1>9. CASE ReceiptFound
  BY <1>2, <1>9 DEF ReceiptFound, Finish, AfterRevert, InBatch, IInv, TickHoldsActive
<1>10. CASE ReceiptMissing
  BY <1>6, <1>10 DEF ReceiptMissing, KeepWaiting, IInv, TickHoldsActive, storeVars
<1>11. CASE \/ TickRecover \/ PreflightOk \/ PreflightStopsPrefix \/ TickThrows
            \/ BroadcastReturns \/ Crash \/ Restart
  BY <1>11 DEF TickRecover, PreflightOk, PreflightStopsPrefix, TickThrows,
               BroadcastReturns, Crash, Restart, storeVars
<1>12. CASE Clock
  BY <1>12 DEF Clock, Opens, DeadlinePasses, WaitElapses, QuietElapses, storeVars
<1>13. CASE Chain
  BY <1>13 DEF Chain, Deliver, Lose, Mine, Forward, storeVars
<1>14. CASE UNCHANGED vars
  BY <1>14 DEF vars, storeVars
<1>15. QED
  BY <1>3, <1>4, <1>5, <1>7, <1>8, <1>9, <1>10, <1>11, <1>12, <1>13, <1>14
     DEF Next, Coordinate, Tick, PreflightAnswers, BroadcastEnds, ReceiptAnswers

(* The inbox stays within its limit: only an acceptance adds to it, and    *)
(* it counts everything that is unresolved.                                *)
LEMMA InboxStep == IInv /\ InboxBounded /\ [Next]_vars => InboxBounded'
<1> SUFFICES ASSUME IInv, InboxBounded, [Next]_vars PROVE InboxBounded'
  OBVIOUS
<1>1. IsFiniteSet(Unresolved) /\ Cardinality(Unresolved) \in Nat
  BY FiniteIntents DEF Unresolved
<1>2. CASE \E i \in Intents : Submit(i)
  <2>1. PICK i \in Intents : Submit(i)
    BY <1>2
  <2>2. Unresolved' = Unresolved \union {i} /\ i \notin Unresolved
    BY <2>1 DEF Submit, Unresolved, Terminal, IInv, TypeOK
  <2>3. Cardinality(Unresolved) < Capacity
    BY <2>1 DEF Submit, Outstanding
  <2>4. Cardinality(Unresolved') = Cardinality(Unresolved) + 1
    BY <1>1, <2>2, FS_AddElement
  <2>5. QED
    BY <1>1, <2>3, <2>4, LimitAssumption DEF InboxBounded
<1>3. CASE \A i \in Intents : st'[i] = "ABSENT" <=> st[i] = "ABSENT"
  <2>1. \A i \in Intents : st[i] \in Terminal => st'[i] \in Terminal
    BY FinalStep
  <2>2. Unresolved' \in SUBSET Unresolved
    BY <1>3, <2>1 DEF Unresolved
  <2>3. Cardinality(Unresolved') <= Cardinality(Unresolved) /\ Cardinality(Unresolved') \in Nat
    BY <1>1, <2>2, FS_Subset, FS_CardinalityType
  <2>4. QED
    BY <1>1, <2>3, LimitAssumption DEF InboxBounded
<1>4. QED
  BY <1>2, <1>3, AbsentStep

(* Whatever is accepted, reverted and queued again, no more than Capacity  *)
(* intents are unresolved (store.ts:74-75).                                *)
THEOREM InboxIsBounded == Spec => []InboxBounded
<1>1. Init => InboxBounded
  <2> SUFFICES ASSUME Init PROVE InboxBounded
    OBVIOUS
  <2>1. Unresolved = {}
    BY DEF Init, Unresolved
  <2>2. QED
    BY <2>1, FS_EmptySet, LimitAssumption DEF InboxBounded
<1>2. QED
  BY <1>1, InboxStep, Invariance, PTL DEF Spec

-----------------------------------------------------------------------------
(* The rows are read in one order, so that at most BatchSize of them have  *)
(* fewer than BatchSize of their run before them.                          *)
LEMMA CandidatesFit ==
  ASSUME TypeOK, RowsAreOrdered, NEW r \in Intents
  PROVE  Cardinality(Candidates(r)) <= BatchSize
<1> DEFINE S == SameRun(r)
           C == Candidates(r)
           before == [i \in C |-> Cardinality(S \intersect earlier[i])]
<1>1. S \in SUBSET Rest /\ C \in SUBSET S
  BY DEF Candidates, SameRun, Ready, Queued, Rest
<1>2. \A i \in C : IsFiniteSet(S \intersect earlier[i]) /\ before[i] \in 0 .. BatchSize - 1
  <2> SUFFICES ASSUME NEW i \in C
               PROVE  IsFiniteSet(S \intersect earlier[i]) /\ before[i] \in 0 .. BatchSize - 1
    OBVIOUS
  <2>1. S \intersect earlier[i] \in SUBSET Intents
    BY <1>1 DEF Rest
  <2>2. Cardinality(S \intersect earlier[i]) < BatchSize
    BY DEF Candidates
  <2>3. QED
    BY <2>1, <2>2, FiniteIntents, LimitAssumption
<1>3. ASSUME NEW i \in C, NEW j \in C, j \in earlier[i] PROVE before[j] < before[i]
  <2>1. i \in Rest /\ j \in Rest /\ j \in S
    BY <1>1
  <2>2. earlier[j] \subseteq earlier[i] /\ j \notin earlier[j]
    BY <1>3, <2>1 DEF RowsAreOrdered
  <2>3. S \intersect earlier[j] \in SUBSET (S \intersect earlier[i])
        /\ S \intersect earlier[j] # S \intersect earlier[i]
    BY <1>3, <2>1, <2>2
  <2>4. /\ Cardinality(S \intersect earlier[j]) <= Cardinality(S \intersect earlier[i])
        /\ Cardinality(S \intersect earlier[j]) # Cardinality(S \intersect earlier[i])
    BY <1>2, <2>3, FS_Subset
  <2>5. QED
    BY <1>2, <2>4, LimitAssumption
<1>4. before \in [C -> 0 .. BatchSize - 1]
  BY <1>2
<1>5. \A i, j \in C : i \in earlier[j] \/ j \in earlier[i] \/ i = j
  BY <1>1 DEF RowsAreOrdered
<1> HIDE DEF before, C
<1>6. \A i, j \in C : before[i] = before[j] => i = j
  <2> SUFFICES ASSUME NEW i \in C, NEW j \in C, before[i] = before[j], i # j PROVE FALSE
    OBVIOUS
  <2>1. before[i] \in 0 .. BatchSize - 1 /\ before[j] \in 0 .. BatchSize - 1
    BY <1>4
  <2>2. before[i] < before[j] \/ before[j] < before[i]
    BY <1>3, <1>5
  <2>3. QED
    BY <2>1, <2>2, LimitAssumption
<1>7. before \in Injection(C, 0 .. BatchSize - 1)
  BY <1>4, <1>6 DEF Injection, IsInjective
<1>8. IsFiniteSet(0 .. BatchSize - 1) /\ Cardinality(0 .. BatchSize - 1) = BatchSize
  BY FS_Interval, LimitAssumption
<1>9. Cardinality(C) <= BatchSize
  BY <1>7, <1>8, FS_Injection
<1>10. QED
  BY <1>9 DEF C

(* The queue keeps its order, and the selection its size.                  *)
LEMMA QInvStep == IInv /\ QInv /\ [Next]_vars => QInv'
<1> SUFFICES ASSUME IInv, QInv, [Next]_vars PROVE QInv'
  OBVIOUS
<1>1. RowsAreOrdered'
  <2>1. CASE \E i \in Intents : Submit(i)
    <3>1. PICK i \in Intents : Submit(i)
      BY <2>1
    <3>2. /\ Rest' = Rest \union {i} /\ i \notin Rest
          /\ earlier' = [earlier EXCEPT ![i] = Rest]
      BY <3>1 DEF Submit, Rest, IInv, TypeOK
    <3>3. \A j \in Rest' : earlier'[j] = IF j = i THEN Rest ELSE earlier[j]
      BY <3>2 DEF Rest, IInv, TypeOK
    <3>4. \A j \in Rest : earlier[j] \subseteq Rest
      BY DEF QInv, RowsAreOrdered
    <3>5. \A j \in Rest' :
            /\ j \notin earlier'[j] /\ earlier'[j] \subseteq Rest'
            /\ \A m \in earlier'[j] : earlier'[m] \subseteq earlier'[j]
      <4> SUFFICES ASSUME NEW j \in Rest \union {i}
                   PROVE  /\ j \notin earlier'[j] /\ earlier'[j] \subseteq Rest \union {i}
                          /\ \A m \in earlier'[j] : earlier'[m] \subseteq earlier'[j]
        BY <3>2
      <4>1. \A m \in Rest : earlier'[m] = earlier[m]
        BY <3>2, <3>3
      <4>2. CASE j = i
        BY <3>2, <3>3, <3>4, <4>1, <4>2
      <4>3. CASE j # i
        <5>1. j \in Rest /\ earlier'[j] = earlier[j]
          BY <4>1, <4>3
        <5>2. j \notin earlier[j] /\ \A m \in earlier[j] : m \in Rest /\ earlier[m] \subseteq earlier[j]
          BY <5>1 DEF QInv, RowsAreOrdered
        <5>3. QED
          BY <3>4, <4>1, <5>1, <5>2
      <4>4. QED
        BY <4>2, <4>3
    <3>6. \A j, m \in Rest' : j = m \/ j \in earlier'[m] \/ m \in earlier'[j]
      BY <3>2, <3>3 DEF QInv, RowsAreOrdered
    <3>7. QED
      BY <3>5, <3>6 DEF RowsAreOrdered
  <2>2. CASE earlier' = earlier /\ \A i \in Intents : st'[i] = "ABSENT" <=> st[i] = "ABSENT"
    <3>1. Rest' = Rest
      BY <2>2 DEF Rest
    <3>2. QED
      BY <2>2, <3>1 DEF QInv, RowsAreOrdered
  <2>3. QED
    BY <2>1, <2>2, AbsentStep
<1>2. SelectionFits'
  <2>1. IsFiniteSet(sel \union cand) /\ Cardinality(sel \union cand) \in Nat
    BY FiniteIntents DEF IInv, TypeOK
  <2>2. ASSUME sel' \union cand' \in SUBSET (sel \union cand) PROVE SelectionFits'
    <3>1. Cardinality((sel \union cand)') \in Nat
          /\ Cardinality((sel \union cand)') <= Cardinality(sel \union cand)
      BY <2>1, <2>2, FS_Subset, FS_CardinalityType
    <3>2. QED
      BY <2>1, <3>1, LimitAssumption DEF QInv, SelectionFits
  <2>3. CASE TickDispatch
    <3>1. PICK r \in Ready : cand' = Candidates(r) /\ sel' = {}
      BY <2>3 DEF TickDispatch
    <3>2. r \in Intents
      BY <3>1 DEF Ready, Queued
    <3>3. Cardinality(Candidates(r)) <= BatchSize
      BY <3>2, CandidatesFit DEF IInv, QInv
    <3>4. sel' \union cand' = Candidates(r)
      BY <3>1
    <3>5. QED
      BY <3>3, <3>4 DEF SelectionFits
  <2>4. CASE PreflightOk \/ PreflightStopsPrefix
    BY <2>2, <2>4 DEF PreflightOk, PreflightStopsPrefix
  <2>5. CASE PreflightRejects
    BY <2>2, <2>5 DEF PreflightRejects, EndTick
  <2>6. CASE \/ TickThrows \/ BroadcastEnds \/ ReceiptUnusable \/ ReceiptFound \/ ReceiptMissing
             \/ Crash \/ PrepareBatch
    BY <2>2, <2>6 DEF TickThrows, BroadcastEnds, BroadcastReturns, BroadcastThrows, ReceiptUnusable,
         ReceiptFound, ReceiptMissing, Crash, PrepareBatch, SignedBatch, EndTick
  <2>7. CASE \/ TickRecover \/ TickWait \/ NoteBroadcast \/ Restart \/ Clock \/ Chain
             \/ UNCHANGED vars \/ \E i \in Intents : Submit(i)
    BY <2>2, <2>7 DEF TickRecover, TickWait, NoteBroadcast, Restart, Clock, Opens, DeadlinePasses,
         WaitElapses, QuietElapses, Chain, Deliver, Lose, Mine, Forward, vars, tickVars, Submit
  <2>8. QED
    BY <2>3, <2>4, <2>5, <2>6, <2>7 DEF Next, Coordinate, Tick, PreflightAnswers, ReceiptAnswers
<1>3. NotesWithinLimit'
  <2>1. CASE PrepareBatch
    <3> DEFINE b == [tx |-> [nonce |-> Len(chain), ids |-> sel], state |-> "PREPARED", count |-> 0]
    <3>1. b \in Batches
      BY LenProperties DEF Batches, Transactions, ActiveStates, IInv, TypeOK
    <3>2. batches' = Append(batches, b) /\ cur' = Len(batches) + 1
      BY <2>1 DEF PrepareBatch, SignedBatch
    <3>3. batches'[cur'] = b
      BY <3>1, <3>2, AppendSeq DEF IInv, TypeOK
    <3>4. QED
      BY <3>3, LimitAssumption DEF NotesWithinLimit
  <2>2. CASE ReceiptMissing
    BY <2>2 DEF ReceiptMissing, EndTick, KeepWaiting, NotesWithinLimit, storeVars
  <2>3. CASE \/ TickRecover \/ TickDispatch \/ PreflightOk \/ PreflightStopsPrefix \/ PreflightRejects
             \/ TickThrows \/ NoteBroadcast \/ BroadcastEnds \/ ReceiptUnusable \/ ReceiptFound
             \/ Crash \/ Restart
    BY <2>3 DEF TickRecover, TickDispatch, PreflightOk, PreflightStopsPrefix, PreflightRejects,
         TickThrows, NoteBroadcast, BroadcastEnds, BroadcastReturns, BroadcastThrows, ReceiptUnusable,
         ReceiptFound, Crash, Restart, EndTick, NotesWithinLimit
  <2>4. CASE TickWait \/ Clock \/ Chain \/ UNCHANGED vars \/ \E i \in Intents : Submit(i)
    BY <2>4 DEF TickWait, ExpireOverdue, Clock, Opens, DeadlinePasses, WaitElapses, QuietElapses,
         Chain, Deliver, Lose, Mine, Forward, Submit, vars, storeVars, tickVars, QInv, NotesWithinLimit
  <2>5. QED
    BY <2>1, <2>2, <2>3, <2>4 DEF Next, Coordinate, Tick, PreflightAnswers, ReceiptAnswers
<1>4. QED
  BY <1>1, <1>2, <1>3 DEF QInv

(* They hold throughout.                                                   *)
LEMMA QueueInvariance == Spec => []QInv
<1>1. Init => QInv
  <2> SUFFICES ASSUME Init PROVE QInv
    OBVIOUS
  <2>1. Rest = {} /\ sel \union cand = {}
    BY DEF Init, Rest
  <2>2. QED
    BY <2>1, FS_EmptySet, LimitAssumption DEF Init, QInv, RowsAreOrdered, SelectionFits, NotesWithinLimit
<1>2. QED
  BY <1>1, QInvStep, Invariance, PTL DEF Spec

(* A step that stores no batch keeps what the stored ones hold, and a      *)
(* reverted one reverted.                                                  *)
LEMMA BatchesKept ==
  ASSUME BatchesFit, DOMAIN batches' = DOMAIN batches,
         \A k \in DOMAIN batches :
           /\ batches'[k].tx = batches[k].tx
           /\ batches[k].state = "REVERTED" => batches'[k].state = "REVERTED"
  PROVE  BatchesFit'
<1>1. \A k \in DOMAIN batches' :
        /\ batches'[k].tx.ids # {} /\ Cardinality(batches'[k].tx.ids) <= BatchSize
        /\ \A i, j \in batches'[k].tx.ids : Run[i] = Run[j]
  BY DEF BatchesFit
<1>2. \A k, m \in DOMAIN batches' :
        k < m /\ batches'[k].tx.ids \intersect batches'[m].tx.ids # {} =>
          batches'[k].state = "REVERTED"
  BY DEF BatchesFit
<1>3. QED
  BY <1>1, <1>2 DEF BatchesFit

(* Writing the unresolved batch is such a step.                            *)
LEMMA ActiveWritten ==
  ASSUME IInv, BatchesFit, NEW k \in Active, NEW b,
         b.tx = batches[k].tx, batches' = [batches EXCEPT ![k] = b]
  PROVE  BatchesFit'
<1>1. k \in DOMAIN batches /\ batches[k].state # "REVERTED"
  BY DEF Active, ActiveStates
<1>2. DOMAIN batches' = DOMAIN batches
      /\ \A j \in DOMAIN batches : batches'[j] = IF j = k THEN b ELSE batches[j]
  OBVIOUS
<1>3. QED
  BY <1>1, <1>2, BatchesKept

(* A new batch is what was selected.  Its intents are queued, so that none *)
(* of the batches before it, all resolved, was confirmed with one of them. *)
LEMMA NewBatchFits == IInv /\ QInv /\ BatchesFit /\ PrepareBatch => BatchesFit'
<1> SUFFICES ASSUME IInv, QInv, BatchesFit, PrepareBatch PROVE BatchesFit'
  OBVIOUS
<1> DEFINE n == Len(batches) + 1
           b == [tx |-> [nonce |-> Len(chain), ids |-> sel], state |-> "PREPARED", count |-> 0]
<1>1. b \in Batches
  BY LenProperties DEF Batches, Transactions, ActiveStates, IInv, TypeOK
<1>2. /\ DOMAIN batches' = DOMAIN batches \union {n} /\ batches'[n] = b
      /\ \A k \in DOMAIN batches : batches'[k] = batches[k]
  BY <1>1, AppendSeq DEF PrepareBatch, SignedBatch, IInv, TypeOK
<1>3. \A k \in DOMAIN batches : k < n /\ k \in Nat
  BY LenProperties DEF IInv, TypeOK
<1>4. n \in Nat
  BY LenProperties DEF IInv, TypeOK
<1>5. b.tx.ids = sel
  OBVIOUS
<1> HIDE DEF b, n
<1>6. /\ sel # {} /\ Active = {}
      /\ \A i, j \in sel : Run[i] = Run[j]
      /\ \A i \in sel : i \in Intents /\ st[i] = "QUEUED"
  BY DEF PrepareBatch, IInv, TypeOK
<1>7. Cardinality(sel) <= BatchSize
  <2>1. sel \in SUBSET (sel \union cand) /\ IsFiniteSet(sel \union cand)
    BY FiniteIntents DEF IInv, TypeOK
  <2>2. /\ Cardinality(sel) <= Cardinality(sel \union cand)
        /\ Cardinality(sel) \in Nat /\ Cardinality(sel \union cand) \in Nat
    BY <2>1, FS_Subset, FS_CardinalityType
  <2>3. QED
    BY <2>2, LimitAssumption DEF QInv, SelectionFits
<1>8. ASSUME NEW k \in DOMAIN batches, batches[k].tx.ids \intersect sel # {}
      PROVE  batches[k].state = "REVERTED"
  <2>1. PICK i \in sel : i \in batches[k].tx.ids
    BY <1>8
  <2>2. batches[k].state # "CONFIRMED"
    BY <1>6, <2>1 DEF IInv, TablesAgree
  <2>3. batches[k].state \notin ActiveStates
    BY <1>6 DEF Active
  <2>4. batches[k].state \in ActiveStates \union {"CONFIRMED", "REVERTED"}
    BY BatchTyped DEF IInv, Batches
  <2>5. QED
    BY <2>2, <2>3, <2>4
<1>9. \A k \in DOMAIN batches' :
        /\ batches'[k].tx.ids # {} /\ Cardinality(batches'[k].tx.ids) <= BatchSize
        /\ \A i, j \in batches'[k].tx.ids : Run[i] = Run[j]
  BY <1>2, <1>5, <1>6, <1>7 DEF BatchesFit
<1>10. ASSUME NEW k \in DOMAIN batches', NEW m \in DOMAIN batches', k < m,
              batches'[k].tx.ids \intersect batches'[m].tx.ids # {}
       PROVE  batches'[k].state = "REVERTED"
  <2>1. k \in DOMAIN batches
    BY <1>2, <1>3, <1>4, <1>10
  <2>2. CASE m = n
    BY <1>2, <1>5, <1>8, <1>10, <2>1, <2>2
  <2>3. CASE m \in DOMAIN batches
    BY <1>2, <1>10, <2>1, <2>3 DEF BatchesFit
  <2>4. QED
    BY <1>2, <2>2, <2>3
<1>11. QED
  BY <1>9, <1>10 DEF BatchesFit

LEMMA BatchesStep == IInv /\ QInv /\ BatchesFit /\ [Next]_vars => BatchesFit'
<1> SUFFICES ASSUME IInv, QInv, BatchesFit, [Next]_vars PROVE BatchesFit'
  OBVIOUS
<1>1. batches' = batches => BatchesFit'
  BY DEF BatchesFit
<1>2. pc \in {"note", "broadcast", "receipt"} =>
        cur \in Active /\ cur \in DOMAIN batches /\ batches[cur] \in Batches
  BY BatchTyped DEF IInv, TickHoldsActive, Active
<1>3. CASE PrepareBatch
  BY <1>3, NewBatchFits
<1>4. CASE NoteBroadcast
  <2>1. batches' = [batches EXCEPT ![cur] = Noted(batches[cur])]
    BY <1>4 DEF NoteBroadcast
  <2>2. Noted(batches[cur]).tx = batches[cur].tx
    BY <1>2, <1>4 DEF NoteBroadcast, Noted, Batches
  <2>3. QED
    BY <1>2, <1>4, <2>1, <2>2, ActiveWritten DEF NoteBroadcast
<1>5. ASSUME cur \in Active, cur \in DOMAIN batches, batches[cur] \in Batches, NEW s,
             batches' = [batches EXCEPT ![cur] = [@ EXCEPT !.state = s]]
      PROVE  BatchesFit'
  <2>1. [batches[cur] EXCEPT !.state = s].tx = batches[cur].tx
    BY <1>5 DEF Batches
  <2>2. QED
    BY <1>5, <2>1, ActiveWritten
<1>6. CASE BroadcastThrows \/ ReceiptUnusable
  BY <1>2, <1>5, <1>6 DEF BroadcastThrows, ReceiptUnusable, Reconcile
<1>7. CASE ReceiptMissing
  BY <1>1, <1>2, <1>5, <1>7 DEF ReceiptMissing, KeepWaiting, Reconcile, storeVars
<1>8. CASE ReceiptFound
  BY <1>2, <1>5, <1>8 DEF ReceiptFound, Finish
<1>9. CASE \/ \E i \in Intents : Submit(i)
           \/ Tick \/ PreflightAnswers \/ TickThrows \/ BroadcastReturns \/ Crash \/ Restart
  BY <1>1, <1>9 DEF Submit, Tick, TickRecover, TickWait, TickDispatch, ExpireOverdue, PreflightAnswers,
       PreflightOk, PreflightStopsPrefix, PreflightRejects, TickThrows, BroadcastReturns, Crash,
       Restart, storeVars
<1>10. CASE Clock \/ Chain \/ UNCHANGED vars
  BY <1>1, <1>10 DEF Clock, Opens, DeadlinePasses, WaitElapses, QuietElapses, Chain, Deliver, Lose,
       Mine, Forward, vars, storeVars
<1>11. QED
  BY <1>3, <1>4, <1>6, <1>7, <1>8, <1>9, <1>10 DEF Next, Coordinate, BroadcastEnds, ReceiptAnswers

(* Whatever arrives while a tick simulates, and however often batches      *)
(* revert, a stored batch is never empty, too large or of several runs,    *)
(* and takes an intent again only after a revert (Relayer, BatchesFit).    *)
THEOREM BatchesAlwaysFit == Spec => []BatchesFit
<1>1. Init => BatchesFit
  BY DEF Init, BatchesFit
<1>2. QED
  BY <1>1, BatchesStep, Invariance, QueueInvariance, PTL DEF Spec

-----------------------------------------------------------------------------
(* What a reader sees of the outcomes on the chain.                        *)
Oks == [n \in DOMAIN chain |-> chain[n].ok]

(* Of the row of a batch, what its readers see.                            *)
Seen(b) == [ids |-> b.tx.ids, count |-> b.count, receipt |-> Outcome(b)]
SeenRows == [ids : SUBSET Intents, count : Nat, receipt : {"none", "success", "reverted"}]

(* The tables as sequences, and which batch is unresolved.                 *)
LEMMA ReadingRows ==
  ASSUME IInv
  PROVE  /\ Len(batches) \in Nat /\ DOMAIN batches = 1 .. Len(batches)
         /\ Rows \in Seq(SeenRows) /\ Len(Rows) = Len(batches)
         /\ DOMAIN Rows = DOMAIN batches
         /\ \A k \in DOMAIN batches : Rows[k] = Seen(batches[k]) /\ Rows[k] \in SeenRows
         /\ Oks \in Seq(BOOLEAN) /\ Len(Oks) = Len(chain) /\ Len(chain) \in Nat
         /\ Active = {} => ~History!Unresolved
         /\ \A k \in Active :
              k = Len(batches) /\ k \in DOMAIN batches /\ History!Unresolved
                /\ History!Current = Seen(batches[k])
<1> USE DEF IInv
<1>1. /\ Len(batches) \in Nat /\ DOMAIN batches = 1 .. Len(batches)
      /\ Len(chain) \in Nat /\ DOMAIN chain = 1 .. Len(chain)
  BY LenProperties DEF TypeOK
<1>2. \A k \in DOMAIN batches : Rows[k] = Seen(batches[k]) /\ Seen(batches[k]) \in SeenRows
  BY BatchTyped DEF Rows, Seen, SeenRows, Outcome, Batches
<1>3. Rows \in Seq(SeenRows) /\ Len(Rows) = Len(batches) /\ DOMAIN Rows = DOMAIN batches
  <2>1. DOMAIN Rows = 1 .. Len(batches)
    BY <1>1 DEF Rows
  <2>2. \A k \in 1 .. Len(batches) : Rows[k] \in SeenRows
    BY <1>1, <1>2
  <2>3. Rows \in [1 .. Len(batches) -> SeenRows]
    BY <2>1, <2>2 DEF Rows
  <2>4. QED
    BY <1>1, <2>1, <2>3, SeqDef, LenProperties
<1>4. Oks \in Seq(BOOLEAN) /\ Len(Oks) = Len(chain)
  <2>1. \A n \in 1 .. Len(chain) : chain[n].ok \in BOOLEAN
    <3>1. chain \in [1 .. Len(chain) -> Receipts]
      BY LenProperties DEF TypeOK
    <3>2. QED
      BY <3>1 DEF Receipts
  <2>2. Oks \in [1 .. Len(chain) -> BOOLEAN]
    BY <1>1, <2>1 DEF Oks
  <2>3. QED
    BY <1>1, <2>2, SeqDef, LenProperties
<1>5. \A k \in DOMAIN batches : Rows[k].receipt = "none" <=> k \in Active
  <2> SUFFICES ASSUME NEW k \in DOMAIN batches
               PROVE  Rows[k].receipt = "none" <=> k \in Active
    OBVIOUS
  <2>1. batches[k].state \in ActiveStates \union {"CONFIRMED", "REVERTED"}
    BY BatchTyped DEF Batches
  <2>2. Rows[k].receipt = Outcome(batches[k])
    <3>1. Rows[k] = Seen(batches[k])
      BY <1>2
    <3>2. Seen(batches[k]).receipt = Outcome(batches[k])
      BY DEF Seen
    <3>3. QED
      BY <3>1, <3>2
  <2>3. Outcome(batches[k]) = "none" <=> batches[k].state \in ActiveStates
    <3>1. CASE batches[k].state = "CONFIRMED"
      BY <3>1 DEF Outcome, ActiveStates
    <3>2. CASE batches[k].state = "REVERTED"
      BY <3>2 DEF Outcome, ActiveStates
    <3>3. CASE batches[k].state \in ActiveStates
      BY <3>3 DEF Outcome, ActiveStates
    <3>4. QED
      BY <2>1, <3>1, <3>2, <3>3
  <2>4. QED
    BY <2>2, <2>3 DEF Active
<1>6. ASSUME Active = {} PROVE ~History!Unresolved
  <2>1. CASE Rows = << >>
    BY <2>1 DEF History!Unresolved
  <2>2. CASE Rows # << >>
    <3>1. Len(Rows) \in DOMAIN batches
      BY <1>1, <1>3, <2>2, EmptySeq
    <3>2. QED
      BY <1>5, <1>6, <3>1 DEF History!Unresolved
  <2>3. QED
    BY <2>1, <2>2
<1>7. ASSUME NEW k \in Active
      PROVE  /\ k = Len(batches) /\ k \in DOMAIN batches /\ History!Unresolved
             /\ History!Current = Seen(batches[k])
  <2>1. k = Len(batches) /\ k \in DOMAIN batches
    BY <1>7 DEF Active, BatchesFollowNonces
  <2>2. Rows # << >>
    BY <1>3, <2>1
  <2>3. QED
    BY <1>2, <1>3, <1>5, <2>1, <2>2 DEF History!Unresolved, History!Current
<1>8. QED
  BY <1>1, <1>2, <1>3, <1>4, <1>6, <1>7

(* Writing the unresolved batch is writing the last row.                   *)
LEMMA WriteRow ==
  ASSUME IInv, NEW k \in Active, NEW b, batches' = [batches EXCEPT ![k] = b]
  PROVE  Rows' = [Rows EXCEPT ![k] = Seen(b)]
<1>1. k \in DOMAIN batches /\ DOMAIN batches' = DOMAIN batches
  BY DEF Active
<1>2. \A j \in DOMAIN batches : batches'[j] = IF j = k THEN b ELSE batches[j]
  BY <1>1
<1>3. Rows' = [j \in DOMAIN batches |-> Seen(batches'[j])]
  BY <1>1 DEF Rows, Seen, Outcome
<1>4. Rows = [j \in DOMAIN batches |-> Seen(batches[j])]
  BY DEF Rows, Seen, Outcome
<1>5. QED
  BY <1>1, <1>2, <1>3, <1>4

(* Appending a batch is appending its row.                                 *)
LEMMA AppendRow ==
  ASSUME IInv, NEW b \in Batches, batches' = Append(batches, b)
  PROVE  Rows' = Append(Rows, Seen(b))
<1> DEFINE n == Len(batches) + 1
<1>1. Seen(b) \in SeenRows
  BY DEF Seen, SeenRows, Outcome, Batches, Transactions
<1>2. /\ DOMAIN batches' = DOMAIN batches \union {n} /\ batches'[n] = b
      /\ \A k \in DOMAIN batches : batches'[k] = batches[k]
  BY AppendSeq DEF IInv, TypeOK
<1>3. /\ DOMAIN Append(Rows, Seen(b)) = DOMAIN batches \union {n} /\ Append(Rows, Seen(b))[n] = Seen(b)
      /\ \A k \in DOMAIN batches : Append(Rows, Seen(b))[k] = Seen(batches[k])
  BY <1>1, ReadingRows, AppendSeq
<1>4. Append(Rows, Seen(b)) = [k \in DOMAIN batches \union {n} |-> Append(Rows, Seen(b))[k]]
  BY <1>1, <1>3, ReadingRows, AppendSeq, LenProperties
<1>5. Rows' = [k \in DOMAIN batches \union {n} |-> Seen(batches'[k])]
  BY <1>2 DEF Rows, Seen, Outcome
<1>6. QED
  BY <1>2, <1>3, <1>4, <1>5

(* A step that reconciles the batch at hand changes no row of it.          *)
LEMMA DoubtStep ==
  ASSUME IInv, cur \in Active, Reconcile(cur), UNCHANGED chain
  PROVE  History!Doubt
<1> DEFINE b == [batches[cur] EXCEPT !.state = "RECONCILING"]
<1>1. cur \in DOMAIN batches /\ batches[cur] \in Batches /\ batches[cur].state \in ActiveStates
  BY BatchTyped DEF Active, IInv
<1>2. batches' = [batches EXCEPT ![cur] = b]
  BY DEF Reconcile
<1>3. Rows' = [Rows EXCEPT ![cur] = Seen(b)]
  BY <1>2, WriteRow
<1>4. Seen(b) = Rows[cur]
  BY <1>1, ReadingRows DEF Seen, Outcome, ActiveStates, Batches
<1>5. Rows' = Rows
  BY <1>3, <1>4, ReadingRows
<1>6. QED
  BY <1>5, ReadingRows DEF History!Doubt, History!Set, Set, Seen, Reconcile

(* Each step of the relayer is a step of Ledger or a stutter.              *)
LEMMA LedgerStep == IInv /\ QInv /\ [Next]_vars => [History!LedgerNext]_History!ledgerVars
<1> SUFFICES ASSUME IInv, QInv, [Next]_vars
             PROVE  History!LedgerNext \/ UNCHANGED <<st, attempts, Rows, Oks>>
  BY DEF History!ledgerVars, Oks
<1>1. UNCHANGED batches => UNCHANGED Rows
  BY DEF Rows
<1>2. UNCHANGED chain => UNCHANGED Oks
  BY DEF Oks
<1>a. ASSUME NEW i \in Intents, Submit(i) PROVE History!LedgerNext
  <2>1. st' = Set({i}, "QUEUED")
    BY <1>a DEF Submit, Set, IInv, TypeOK
  <2>2. QED
    BY <1>1, <1>2, <1>a, <2>1 DEF Submit, History!LedgerNext, History!Insert, History!Set, Set, chainVars, Oks
<1>b. CASE TickWait \/ TickDispatch
  <2>1. st' = Set(Overdue, "EXPIRED") /\ UNCHANGED <<attempts, batches, chain>>
    BY <1>b DEF TickWait, TickDispatch, ExpireOverdue, chainVars
  <2>2. CASE Overdue = {}
    <3>1. st' = st
      BY <2>1, <2>2 DEF Set, IInv, TypeOK
    <3>2. QED
      BY <1>1, <1>2, <2>1, <3>1
  <2>3. CASE Overdue # {}
    <3>1. Overdue \in (SUBSET History!Queued) \ {{}}
      BY <2>3 DEF Overdue, Queued, History!Queued
    <3>2. History!Expire
      BY <1>1, <1>2, <2>1, <3>1 DEF History!Expire, History!Set, Set, Oks
    <3>3. QED
      BY <3>2 DEF History!LedgerNext, History!Coordinate
  <2>4. QED
    BY <2>2, <2>3
<1>c. CASE PreflightRejects
  <2>1. PICK i \in cand : st[i] = "QUEUED" /\ st' = Set({i}, IF attempts[i] > 0 THEN "FAILED" ELSE "REJECTED")
    BY <1>c DEF PreflightRejects
  <2>2. i \in History!Queued /\ UNCHANGED <<attempts, batches, chain>>
    BY <1>c, <2>1 DEF PreflightRejects, History!Queued, IInv, TypeOK, chainVars
  <2>3. History!Reject
    BY <1>1, <1>2, <2>1, <2>2 DEF History!Reject, History!Set, Set, Oks
  <2>4. QED
    BY <2>3 DEF History!LedgerNext, History!Coordinate
<1>d. CASE TickRecover \/ PreflightOk \/ PreflightStopsPrefix \/ TickThrows \/ BroadcastReturns
        \/ Crash \/ Restart \/ Clock \/ Deliver \/ Lose \/ \E i \in Intents : Forward(i)
  <2>1. UNCHANGED <<st, attempts, batches, chain>>
    BY <1>d DEF TickRecover, PreflightOk, PreflightStopsPrefix, TickThrows, BroadcastReturns,
                Crash, Restart, Clock, Opens, DeadlinePasses, WaitElapses, QuietElapses,
                Deliver, Lose, Forward, storeVars, chainVars
  <2>2. QED
    BY <1>1, <1>2, <2>1
<1>e. CASE PrepareBatch
  <2> DEFINE b == [tx |-> [nonce |-> Len(chain), ids |-> sel], state |-> "PREPARED", count |-> 0]
  <2>1. b \in Batches
    BY LenProperties DEF Batches, Transactions, ActiveStates, IInv, TypeOK
  <2>2. Rows' = Append(Rows, [ids |-> sel, count |-> 0, receipt |-> "none"])
    <3>1. Rows' = Append(Rows, Seen(b))
      BY <1>e, <2>1, AppendRow DEF PrepareBatch, SignedBatch
    <3>2. Seen(b) = [ids |-> sel, count |-> 0, receipt |-> "none"]
      BY DEF Seen, Outcome
    <3>3. QED
      BY <3>1, <3>2
  <2>3. sel \in (SUBSET History!Queued) \ {{}}
    BY <1>e DEF PrepareBatch, SignedBatch, History!Queued, IInv, TypeOK
  <2>4. Cardinality(sel) <= BatchSize
    <3>1. IsFiniteSet(sel \union cand) /\ Cardinality(sel \union cand) \in Nat
      BY FiniteIntents DEF IInv, TypeOK
    <3>2. Cardinality(sel) <= Cardinality(sel \union cand) /\ Cardinality(sel) \in Nat
      BY <3>1, FS_Subset, FS_CardinalityType
    <3>3. QED
      BY <3>1, <3>2, LimitAssumption DEF QInv, SelectionFits
  <2>5. ~History!Unresolved
    BY <1>e, ReadingRows DEF PrepareBatch, SignedBatch
  <2>6. st' = History!Set(sel, "BATCHED") /\ UNCHANGED <<attempts, Oks>>
    BY <1>2, <1>e DEF PrepareBatch, SignedBatch, History!Set, Set, chainVars
  <2>7. History!Prepare
    <3>1. History!Cardinality(sel) = Cardinality(sel)
      BY DEF History!Cardinality, Cardinality
    <3>2. QED
      BY <2>2, <2>3, <2>4, <2>5, <2>6, <3>1 DEF History!Prepare, Oks
  <2>8. QED
    BY <2>7 DEF History!LedgerNext, History!Coordinate
<1>f. CASE NoteBroadcast
  <2> DEFINE b == batches[cur]
  <2>1. cur \in Active /\ b \in Batches /\ b.state \in ActiveStates
    BY <1>f, BatchTyped DEF NoteBroadcast, IInv, TickHoldsActive, Active
  <2>2. Rows' = [Rows EXCEPT ![cur] = Seen(Noted(b))]
    BY <1>f, <2>1, WriteRow DEF NoteBroadcast
  <2>3. Seen(Noted(b)) = [Seen(b) EXCEPT !.count = Seen(b).count + 1]
    BY <2>1 DEF Seen, Noted, Outcome, ActiveStates, Batches
  <2>4. /\ cur = Len(Rows) /\ History!Unresolved /\ History!Current = Seen(b)
        /\ Seen(b).count = b.count /\ Seen(b).ids = b.tx.ids
    BY <2>1, ReadingRows DEF Seen
  <2>5. History!SetRow([History!Current EXCEPT !.count = @ + 1])
    BY <2>2, <2>3, <2>4 DEF History!SetRow
  <2>6. History!Current.count < MaxBroadcasts
    BY <1>f, <2>4 DEF NoteBroadcast, QInv, NotesWithinLimit
  <2>7. /\ st' = History!Set(History!Current.ids, "SUBMITTED")
        /\ attempts' = [i \in Intents |->
              IF i \in History!Current.ids /\ History!Current.count = 0 THEN attempts[i] + 1
              ELSE attempts[i]]
    BY <1>f, <2>4 DEF NoteBroadcast, History!Set, Set, FirstBroadcast
  <2>8. UNCHANGED Oks
    BY <1>2, <1>f DEF NoteBroadcast
  <2>9. History!Note
    BY <2>4, <2>5, <2>6, <2>7, <2>8 DEF History!Note, Oks
  <2>10. QED
    BY <2>9 DEF History!LedgerNext, History!Coordinate
<1>g. CASE BroadcastThrows \/ ReceiptUnusable
  <2>1. cur \in Active /\ Reconcile(cur) /\ UNCHANGED chain
    BY <1>g DEF BroadcastThrows, ReceiptUnusable, IInv, TickHoldsActive, chainVars
  <2>2. QED
    BY <2>1, DoubtStep DEF History!LedgerNext, History!Coordinate
<1>h. CASE ReceiptMissing
  <2>1. cur \in Active /\ UNCHANGED chain
    BY <1>h DEF ReceiptMissing, IInv, TickHoldsActive, chainVars
  <2>2. CASE Reconcile(cur)
    BY <2>1, <2>2, DoubtStep DEF History!LedgerNext, History!Coordinate
  <2>3. CASE UNCHANGED storeVars
    BY <1>1, <1>2, <2>1, <2>3 DEF storeVars
  <2>4. QED
    BY <1>h, <2>2, <2>3 DEF ReceiptMissing, KeepWaiting
<1>i. CASE ReceiptFound
  <2> DEFINE b == batches[cur]
             ok == Succeeded(cur)
             s == IF ok THEN "CONFIRMED" ELSE "REVERTED"
             late == {i \in b.tx.ids : window[i] = "late"}
  <2>1. cur \in Active /\ b \in Batches /\ cur \in DOMAIN batches
    BY <1>i, BatchTyped DEF ReceiptFound, IInv, TickHoldsActive, Active
  <2>2. /\ cur = Len(Rows) /\ History!Unresolved /\ History!Current = Seen(b)
        /\ Seen(b).ids = b.tx.ids
    BY <2>1, ReadingRows DEF Seen
  <2>3. Len(chain) = Len(batches) /\ ok = chain[cur].ok /\ cur \in DOMAIN chain
    <3>1. b.tx.nonce + 1 = cur /\ b.tx.nonce \in Nat
      BY <2>1, BatchTyped DEF IInv, BatchesFollowNonces, Transactions
    <3>2. cur <= Len(chain) /\ ok = chain[cur].ok
      BY <1>i, <3>1, ReadingRows DEF ReceiptFound, Mined, Succeeded
    <3>3. Len(chain) <= Len(batches) /\ cur = Len(batches) /\ cur \in 1 .. Len(batches)
      BY <2>1, ReadingRows DEF IInv, ChainFollowsOutbox
    <3>4. DOMAIN chain = 1 .. Len(chain)
      BY LenProperties DEF IInv, TypeOK
    <3>5. Len(chain) \in Nat /\ Len(batches) \in Nat
      BY ReadingRows
    <3>6. Len(chain) = Len(batches)
      BY <3>2, <3>3, <3>5
    <3>7. QED
      BY <3>2, <3>3, <3>4, <3>6
  <2>4. Rows' = [Rows EXCEPT ![cur] = Seen([b EXCEPT !.state = s])]
    BY <1>i, <2>1, WriteRow DEF ReceiptFound, Finish
  <2>5. Seen([b EXCEPT !.state = s]) = [Seen(b) EXCEPT !.receipt = IF ok THEN "success" ELSE "reverted"]
    BY <2>1 DEF Seen, Outcome, Batches
  <2>6. Oks[Len(Rows)] = ok /\ Len(Oks) = Len(Rows) /\ UNCHANGED Oks
    BY <1>2, <1>i, <2>2, <2>3, ReadingRows DEF Oks, ReceiptFound, chainVars
  <2>7. st' = [i \in Intents |->
                 IF i \notin b.tx.ids THEN st[i]
                 ELSE IF ok THEN "CONFIRMED" ELSE History!AfterRevert(i, late)]
    BY <1>i DEF ReceiptFound, Finish, AfterRevert, History!AfterRevert
  <2> HIDE DEF b, ok, late
  <2>8. History!SetRow([History!Current EXCEPT !.receipt =
                          IF Oks[Len(Rows)] THEN "success" ELSE "reverted"])
    BY <2>2, <2>4, <2>5, <2>6 DEF History!SetRow
  <2>9. late \in SUBSET History!Current.ids /\ UNCHANGED attempts
    BY <1>i, <2>2 DEF late, ReceiptFound, Finish
  <2>10. History!Resolve
    BY <2>2, <2>6, <2>7, <2>8, <2>9 DEF History!Resolve, Oks
  <2>11. QED
    BY <2>10 DEF History!LedgerNext, History!Coordinate
<1>j. CASE Mine
  <2>1. PICK tx \in mempool, ok \in BOOLEAN :
          tx.nonce = Len(chain) /\ chain' = Append(chain, [tx |-> tx, ok |-> ok])
    BY <1>j DEF Mine
  <2>2. PICK k \in DOMAIN batches : batches[k].tx = tx /\ batches[k].count > 0
    BY <2>1 DEF IInv, ChainFollowsOutbox
  <2>3. k = Len(chain) + 1 /\ k \in Active
    <3>1. k = Len(chain) + 1
      BY <2>1, <2>2, ReadingRows DEF IInv, BatchesFollowNonces
    <3>2. k \in DOMAIN batches \ Active => k <= Len(chain)
      BY DEF IInv, ResolvedByReceipt
    <3>3. QED
      BY <3>1, <3>2, ReadingRows
  <2>4. Len(Oks) < Len(Rows) /\ History!Current.count > 0
    BY <2>2, <2>3, ReadingRows DEF Seen
  <2>5. Oks' = Append(Oks, ok)
    <3> DEFINE n == Len(chain) + 1
    <3>1. [tx |-> tx, ok |-> ok] \in Receipts
      BY DEF Receipts, IInv, TypeOK
    <3>2. /\ DOMAIN chain' = DOMAIN chain \union {n} /\ chain'[n].ok = ok
          /\ \A m \in DOMAIN chain : chain'[m] = chain[m]
      BY <2>1, <3>1, AppendSeq DEF IInv, TypeOK
    <3>3. /\ DOMAIN Append(Oks, ok) = DOMAIN chain \union {n} /\ Append(Oks, ok)[n] = ok
          /\ \A m \in DOMAIN chain : Append(Oks, ok)[m] = chain[m].ok
      BY ReadingRows, AppendSeq DEF Oks
    <3>4. Append(Oks, ok) = [m \in DOMAIN chain \union {n} |-> Append(Oks, ok)[m]]
      BY <3>3, ReadingRows, AppendSeq, LenProperties
    <3>5. Oks' = [m \in DOMAIN chain \union {n} |-> chain'[m].ok]
      BY <3>2 DEF Oks
    <3>6. QED
      BY <3>2, <3>3, <3>4, <3>5
  <2>6. UNCHANGED <<st, attempts, Rows>>
    BY <1>1, <1>j DEF Mine, storeVars
  <2>7. History!Execute
    BY <2>4, <2>5, <2>6 DEF History!Execute, Oks
  <2>8. QED
    BY <2>7 DEF History!LedgerNext, History!Coordinate
<1>k. CASE UNCHANGED vars
  BY <1>1, <1>2, <1>k DEF vars, storeVars, chainVars
<1>l. QED
  BY <1>a, <1>b, <1>c, <1>d, <1>e, <1>f, <1>g, <1>h, <1>i, <1>j, <1>k
     DEF Next, Coordinate, Tick, PreflightAnswers, BroadcastEnds, ReceiptAnswers, Chain

(* The relayer implements Ledger.                                          *)
THEOREM LedgerIsKept == Spec => KeepsLedger
<1>1. Init => History!LedgerInit
  <2> SUFFICES ASSUME Init PROVE History!LedgerInit
    OBVIOUS
  <2>1. Rows = << >> /\ Oks = << >>
    BY DEF Init, Rows, Oks
  <2>2. QED
    BY <2>1 DEF Init, History!LedgerInit, Oks
<1>2. QED
  BY <1>1, LedgerStep, Invariance, QueueInvariance, PTL DEF Spec, KeepsLedger, History!LedgerSpec

-----------------------------------------------------------------------------
(***************************************************************************)
(* Attempts and the order of the queue                                     *)
(***************************************************************************)

(* A step that neither adds a batch nor notes a broadcast, and queues only *)
(* intents with attempts left.                                             *)
LEMMA AttemptsKept ==
  ASSUME IInv, AttemptsAreTransactions, AttemptsLeft,
         attempts' = attempts, DOMAIN batches' = DOMAIN batches,
         \A k \in DOMAIN batches :
           batches'[k].tx = batches[k].tx /\ batches'[k].count = batches[k].count,
         Active' \subseteq Active,
         \A i \in Intents : st'[i] \in {"ABSENT", "QUEUED"} =>
           st[i] \in {"ABSENT", "QUEUED"} \/ attempts[i] < MaxAttempts
  PROVE  AttemptsAreTransactions' /\ AttemptsLeft'
<1>1. \A i \in Intents : SentWith(i)' = SentWith(i)
  BY DEF SentWith
<1>2. AttemptsAreTransactions'
  BY <1>1 DEF AttemptsAreTransactions
<1>3. \A k \in Active : k \in DOMAIN batches
  BY DEF Active
<1>4. AttemptsLeft'
  BY <1>3 DEF AttemptsLeft
<1>5. QED
  BY <1>2, <1>4

(* A step that writes the state of one batch only.                         *)
LEMMA StateWritten ==
  ASSUME IInv, NEW k \in DOMAIN batches, NEW s,
         batches' = [batches EXCEPT ![k] = [@ EXCEPT !.state = s]],
         s \in ActiveStates => k \in Active
  PROVE  /\ DOMAIN batches' = DOMAIN batches
         /\ \A j \in DOMAIN batches :
              batches'[j].tx = batches[j].tx /\ batches'[j].count = batches[j].count
         /\ Active' \subseteq Active
<1>1. batches[k] \in Batches
  BY BatchTyped DEF IInv
<1>2. DOMAIN batches' = DOMAIN batches
      /\ \A j \in DOMAIN batches :
           batches'[j] = IF j = k THEN [batches[k] EXCEPT !.state = s] ELSE batches[j]
  OBVIOUS
<1>3. \A j \in DOMAIN batches :
        batches'[j].tx = batches[j].tx /\ batches'[j].count = batches[j].count
  BY <1>1, <1>2 DEF Batches
<1>4. batches'[k].state = s
  BY <1>1, <1>2 DEF Batches
<1>5. Active' \subseteq Active
  BY <1>2, <1>4 DEF Active
<1>6. QED
  BY <1>2, <1>3, <1>5

(* The count of attempts: the first broadcast of a batch adds the batch to *)
(* those sent with each of its intents, and to their attempts.             *)
LEMMA AttemptsStep ==
  ASSUME IInv, QInv, AttemptsAreTransactions, AttemptsLeft, [Next]_vars
  PROVE  AttemptsAreTransactions' /\ AttemptsLeft'
<1> DEFINE Goal == AttemptsAreTransactions' /\ AttemptsLeft'
<1>1. \A S, s : \A i \in Intents : Set(S, s)[i] = IF i \in S THEN s ELSE st[i]
  BY DEF Set
<1>2. /\ attempts \in [Intents -> Nat] /\ batches \in Seq(Batches)
      /\ DOMAIN batches = 1 .. Len(batches) /\ Len(batches) \in Nat
  BY LenProperties DEF IInv, TypeOK
<1>3. ASSUME UNCHANGED <<attempts, batches>>,
             \A i \in Intents : st'[i] \in {"ABSENT", "QUEUED"} => st[i] \in {"ABSENT", "QUEUED"}
      PROVE  Goal
  BY <1>3, AttemptsKept DEF Active
<1>a. ASSUME NEW j \in Intents, Submit(j) PROVE Goal
  <2>1. \A i \in Intents : st'[i] \in {"ABSENT", "QUEUED"} => st[i] \in {"ABSENT", "QUEUED"}
    BY <1>a DEF Submit, IInv, TypeOK
  <2>2. QED
    BY <1>3, <1>a, <2>1 DEF Submit
<1>b. CASE TickWait \/ TickDispatch
  BY <1>1, <1>3, <1>b DEF TickWait, TickDispatch, ExpireOverdue
<1>c. CASE PreflightRejects
  BY <1>1, <1>3, <1>c DEF PreflightRejects
<1>d. CASE \/ TickRecover \/ PreflightOk \/ PreflightStopsPrefix \/ TickThrows
           \/ BroadcastReturns \/ Crash \/ Restart
  BY <1>3, <1>d DEF TickRecover, PreflightOk, PreflightStopsPrefix, TickThrows,
               BroadcastReturns, Crash, Restart, storeVars
<1>e. CASE Clock
  BY <1>3, <1>e DEF Clock, Opens, DeadlinePasses, WaitElapses, QuietElapses, storeVars
<1>f. CASE Chain
  BY <1>3, <1>f DEF Chain, Deliver, Lose, Mine, Forward, storeVars
<1>g. CASE UNCHANGED vars
  BY <1>3, <1>g DEF vars, storeVars
<1>h. ASSUME cur \in Active, Reconcile(cur) PROVE Goal
  <2>1. cur \in DOMAIN batches
    BY <1>h DEF Active
  <2>2. \A i \in Intents : st'[i] \in {"ABSENT", "QUEUED"} => st[i] \in {"ABSENT", "QUEUED"}
    BY <1>1, <1>h DEF Reconcile
  <2>3. /\ DOMAIN batches' = DOMAIN batches /\ Active' \subseteq Active
        /\ \A j \in DOMAIN batches :
             batches'[j].tx = batches[j].tx /\ batches'[j].count = batches[j].count
    BY <1>h, <2>1, StateWritten DEF Reconcile
  <2>4. QED
    BY <1>h, <2>2, <2>3, AttemptsKept DEF Reconcile
<1>i. CASE BroadcastThrows \/ ReceiptUnusable
  BY <1>h, <1>i DEF BroadcastThrows, ReceiptUnusable, IInv, TickHoldsActive
<1>j. CASE ReceiptMissing
  <2>1. cur \in Active
    BY <1>j DEF ReceiptMissing, IInv, TickHoldsActive
  <2>2. QED
    BY <1>3, <1>h, <1>j, <2>1 DEF ReceiptMissing, KeepWaiting, storeVars
<1>k. CASE ReceiptFound
  <2> DEFINE s == IF Succeeded(cur) THEN "CONFIRMED" ELSE "REVERTED"
  <2>1. cur \in DOMAIN batches
    BY <1>k DEF ReceiptFound, IInv, TickHoldsActive, Active
  <2>2. batches' = [batches EXCEPT ![cur] = [@ EXCEPT !.state = s]] /\ attempts' = attempts
    BY <1>k DEF ReceiptFound, Finish
  <2>3. s \notin ActiveStates
    BY DEF ActiveStates
  <2> HIDE DEF s
  <2>4. /\ DOMAIN batches' = DOMAIN batches /\ Active' \subseteq Active
        /\ \A j \in DOMAIN batches :
             batches'[j].tx = batches[j].tx /\ batches'[j].count = batches[j].count
    BY <2>1, <2>2, <2>3, StateWritten
  <2>5. \A i \in Intents : AfterRevert(i) = "QUEUED" => attempts[i] < MaxAttempts
    BY <1>2, LimitAssumption DEF AfterRevert
  <2>6. \A i \in Intents : AfterRevert(i) # "ABSENT"
    BY DEF AfterRevert
  <2>7. \A i \in Intents : st'[i] \in {"ABSENT", "QUEUED"} =>
          st[i] \in {"ABSENT", "QUEUED"} \/ attempts[i] < MaxAttempts
    BY <1>k, <2>5, <2>6 DEF ReceiptFound, Finish
  <2>8. QED
    BY <2>2, <2>4, <2>7, AttemptsKept
<1>l. CASE PrepareBatch
  <2> DEFINE n == Len(batches) + 1
             b == [tx |-> [nonce |-> Len(chain), ids |-> sel], state |-> "PREPARED", count |-> 0]
  <2>1. b \in Batches
    BY LenProperties DEF Batches, Transactions, ActiveStates, IInv, TypeOK
  <2>2. batches' = Append(batches, b) /\ attempts' = attempts /\ cur' = n
    BY <1>l DEF PrepareBatch, SignedBatch
  <2>3. /\ DOMAIN batches' = DOMAIN batches \union {n} /\ batches'[n] = b
        /\ \A k \in DOMAIN batches : batches'[k] = batches[k]
    BY <1>2, <2>1, <2>2, AppendSeq
  <2>4. b.tx.ids = sel /\ b.count = 0 /\ Active' = {n}
    BY <1>l, <2>2, PrepareStep
  <2> HIDE DEF b
  <2>5. \A i \in Intents : SentWith(i)' = SentWith(i)
    BY <2>3, <2>4 DEF SentWith
  <2>6. \A k \in DOMAIN batches' : batches'[k].count <= MaxBroadcasts
    BY <2>3, <2>4, LimitAssumption DEF AttemptsAreTransactions
  <2>7. AttemptsAreTransactions'
    BY <2>2, <2>5, <2>6 DEF AttemptsAreTransactions
  <2>8. \A i \in sel : i \in Intents /\ st[i] = "QUEUED"
    BY <1>l DEF PrepareBatch, SignedBatch, IInv, TypeOK
  <2>9. \A i \in Intents : st'[i] \in {"ABSENT", "QUEUED"} => st[i] \in {"ABSENT", "QUEUED"}
    BY <1>1, <1>l DEF PrepareBatch, SignedBatch
  <2>10. AttemptsLeft'
    BY <2>2, <2>3, <2>4, <2>8, <2>9 DEF AttemptsLeft
  <2>11. QED
    BY <2>7, <2>10
<1>m. CASE NoteBroadcast
  <2> DEFINE b == batches[cur]
             first == b.count = 0
  <2>1. cur \in Active /\ cur \in DOMAIN batches /\ b \in Batches /\ b.count \in Nat
        /\ b.count < MaxBroadcasts
    BY <1>m, BatchTyped DEF NoteBroadcast, IInv, TickHoldsActive, Active, Batches, QInv, NotesWithinLimit
  <2>2. Noted(b).tx = b.tx /\ Noted(b).count = b.count + 1 /\ Noted(b).state = "SUBMITTED"
    BY <2>1 DEF Noted, Batches
  <2>3. /\ DOMAIN batches' = DOMAIN batches
        /\ \A k \in DOMAIN batches : batches'[k] = IF k = cur THEN Noted(b) ELSE batches[k]
    BY <1>m, <2>1 DEF NoteBroadcast
  <2>4. \A i \in Intents :
          attempts'[i] = IF i \in b.tx.ids /\ first THEN attempts[i] + 1 ELSE attempts[i]
    BY <1>m DEF NoteBroadcast, FirstBroadcast
  <2>5. \A i \in Intents : st'[i] = IF i \in b.tx.ids THEN "SUBMITTED" ELSE st[i]
    BY <1>1, <1>m DEF NoteBroadcast
  <2>6. Active = {cur}
    BY <2>1 DEF Active, IInv, BatchesFollowNonces
  <2>7. \A i \in b.tx.ids : first => attempts[i] < MaxAttempts
    BY <2>1 DEF AttemptsLeft
  <2> HIDE DEF b, first
  <2>8. ASSUME NEW i \in Intents
        PROVE  attempts'[i] = Cardinality(SentWith(i)') /\ attempts'[i] <= MaxAttempts
    <3>1. /\ attempts[i] = Cardinality(SentWith(i)) /\ attempts[i] <= MaxAttempts
          /\ attempts[i] \in Nat
      BY <1>2 DEF AttemptsAreTransactions
    <3>2. CASE i \in b.tx.ids /\ first
      <4>1. SentWith(i)' = SentWith(i) \union {cur} /\ cur \notin SentWith(i)
        BY <2>1, <2>2, <2>3, <3>2 DEF SentWith, b, first
      <4>2. IsFiniteSet(SentWith(i))
        <5>1. IsFiniteSet(1 .. Len(batches))
          BY <1>2, FS_Interval
        <5>2. SentWith(i) \in SUBSET (1 .. Len(batches))
          BY <1>2 DEF SentWith
        <5>3. QED
          BY <5>1, <5>2, FS_Subset
      <4>3. Cardinality(SentWith(i)') = Cardinality(SentWith(i)) + 1
        BY <4>1, <4>2, FS_AddElement
      <4>4. attempts'[i] = attempts[i] + 1 /\ attempts[i] < MaxAttempts
        BY <2>4, <2>7, <3>2
      <4>5. QED
        BY <3>1, <4>3, <4>4, LimitAssumption
    <3>3. CASE i \notin b.tx.ids \/ ~first
      <4>1. SentWith(i)' = SentWith(i)
        BY <2>1, <2>2, <2>3, <3>3 DEF SentWith, b, first
      <4>2. QED
        BY <2>4, <3>1, <3>3, <4>1
    <3>4. QED
      BY <3>2, <3>3
  <2>9. \A k \in DOMAIN batches : batches'[k].count <= MaxBroadcasts
    BY <2>1, <2>2, <2>3, LimitAssumption DEF AttemptsAreTransactions
  <2>10. AttemptsAreTransactions'
    BY <2>3, <2>8, <2>9 DEF AttemptsAreTransactions
  <2>11. AttemptsLeft'
    <3>1. \A k \in Active' : k = cur
      BY <2>3, <2>6 DEF Active
    <3>2. batches'[cur].count # 0
      BY <2>1, <2>2, <2>3
    <3>3. \A i \in Intents : st'[i] \in {"ABSENT", "QUEUED"} => attempts'[i] < MaxAttempts
      BY <2>4, <2>5 DEF AttemptsLeft
    <3>4. QED
      BY <3>1, <3>2, <3>3 DEF AttemptsLeft
  <2>12. QED
    BY <2>10, <2>11
<1>n. QED
  BY <1>a, <1>b, <1>c, <1>d, <1>e, <1>f, <1>g, <1>i, <1>j, <1>k, <1>l, <1>m
     DEF Next, Coordinate, Tick, PreflightAnswers, BroadcastEnds, ReceiptAnswers

(* The queue: a tick takes the oldest ready intents of a run, in order.    *)
LEMMA OrderStep ==
  ASSUME IInv, QInv, TickInOrder, [Next]_vars
  PROVE  TickInOrder'
<1>1. \A i \in Intents : st[i] \in Terminal => st'[i] = st[i]
  BY FinalStep
<1>2. Rest \subseteq Rest' /\ \A i \in Rest : earlier'[i] = earlier[i]
  <2>1. CASE \E i \in Intents : Submit(i)
    BY <2>1 DEF Submit, Rest, IInv, TypeOK
  <2>2. QED
    BY <2>1, AbsentStep DEF Rest
<1>3. ready \subseteq Rest /\ sel \subseteq ready /\ cand \subseteq ready /\ Rest \subseteq Intents
  BY DEF TickInOrder, Rest
<1>4. CASE UNCHANGED <<ready, cand, sel>>
  BY <1>1, <1>2, <1>3, <1>4 DEF TickInOrder
<1>5. CASE ready' = {} /\ cand' = {} /\ sel' = {}
  BY <1>5 DEF TickInOrder
<1>6. CASE TickDispatch
  <2>1. PICK r \in Ready : cand' = Candidates(r)
    BY <1>6 DEF TickDispatch
  <2>2. ready' = Ready /\ sel' = {}
    BY <1>6 DEF TickDispatch
  <2>3. Candidates(r) \subseteq SameRun(r) /\ SameRun(r) \subseteq Ready /\ Ready \subseteq Rest
    BY DEF Candidates, SameRun, Ready, Queued, Rest
  <2>4. ASSUME NEW i \in Candidates(r), NEW j \in Ready \ Candidates(r),
               Run[i] = Run[j], j \in earlier[i]
        PROVE  FALSE
    <3>1. j \in SameRun(r) /\ i \in Rest
      BY <2>3, <2>4 DEF SameRun
    <3>2. earlier[j] \subseteq earlier[i]
      BY <2>4, <3>1 DEF QInv, RowsAreOrdered
    <3>3. SameRun(r) \intersect earlier[j] \in SUBSET (SameRun(r) \intersect earlier[i])
      BY <3>2
    <3>4. SameRun(r) \intersect earlier[i] \in SUBSET Intents
      BY <1>3, <2>3
    <3>5. /\ Cardinality(SameRun(r) \intersect earlier[j]) \in Nat
          /\ Cardinality(SameRun(r) \intersect earlier[i]) \in Nat
          /\ Cardinality(SameRun(r) \intersect earlier[j])
               <= Cardinality(SameRun(r) \intersect earlier[i])
      BY <3>3, <3>4, FiniteIntents, FS_Subset
    <3>6. Cardinality(SameRun(r) \intersect earlier[i]) < BatchSize
      BY DEF Candidates
    <3>7. Cardinality(SameRun(r) \intersect earlier[j]) < BatchSize
      BY <3>5, <3>6, LimitAssumption
    <3>8. QED
      BY <2>4, <3>1, <3>7 DEF Candidates
  <2>5. \A i \in Rest : earlier'[i] = earlier[i]
    BY <1>2
  <2>6. QED
    BY <1>2, <2>1, <2>2, <2>3, <2>4, <2>5 DEF TickInOrder
<1>7. CASE PreflightOk
  <2>1. PICK i \in cand : IsOldest(i, cand) /\ sel' = sel \union {i} /\ cand' = cand \ {i}
    BY <1>7 DEF PreflightOk
  <2>2. UNCHANGED <<ready, st, earlier>>
    BY <1>7 DEF PreflightOk, storeVars
  <2>3. sel' \union cand' = sel \union cand
    BY <2>1
  <2>4. \A j \in cand : j \notin earlier[i]
    BY <2>1 DEF IsOldest
  <2>5. \A k \in sel', j \in cand' : j \notin earlier[k]
    BY <2>1, <2>4 DEF TickInOrder
  <2>6. QED
    BY <1>2, <2>2, <2>3, <2>5 DEF TickInOrder
<1>8. CASE PreflightStopsPrefix
  <2>1. UNCHANGED <<ready, st, earlier, sel>> /\ cand' = {}
    BY <1>8 DEF PreflightStopsPrefix, storeVars
  <2>2. QED
    BY <1>2, <2>1 DEF TickInOrder
<1>9. CASE PreflightRejects
  <2>1. PICK i \in cand :
          /\ st' = Set({i}, IF attempts[i] > 0 THEN "FAILED" ELSE "REJECTED")
          /\ EndTick \/ (cand' = cand \ {i} /\ UNCHANGED <<ready, sel>>)
    BY <1>9 DEF PreflightRejects
  <2>2. sel = {} /\ earlier' = earlier
    BY <1>9 DEF PreflightRejects
  <2>3. st'[i] \in Terminal
    BY <1>3, <2>1 DEF Set, Terminal
  <2>4. CASE cand' = cand \ {i} /\ UNCHANGED <<ready, sel>>
    <3>1. \A k \in cand', j \in ready \ cand' :
            Run[k] = Run[j] /\ j \in earlier[k] => st'[j] \in Terminal
      BY <1>1, <1>3, <2>2, <2>3, <2>4 DEF TickInOrder
    <3>2. QED
      BY <1>2, <1>3, <2>2, <2>4, <3>1 DEF TickInOrder
  <2>5. QED
    BY <1>5, <2>1, <2>4 DEF EndTick
<1>10. CASE \/ TickThrows \/ PrepareBatch \/ BroadcastEnds \/ ReceiptUnusable \/ ReceiptFound
            \/ ReceiptMissing \/ Crash
  BY <1>4, <1>5, <1>10 DEF TickThrows, PrepareBatch, SignedBatch, BroadcastEnds, BroadcastReturns, BroadcastThrows,
       ReceiptUnusable, ReceiptFound, ReceiptMissing, Crash, EndTick
<1>11. CASE \/ TickRecover \/ TickWait \/ NoteBroadcast \/ Restart \/ Clock \/ Chain
            \/ UNCHANGED vars \/ \E i \in Intents : Submit(i)
  BY <1>4, <1>11 DEF TickRecover, TickWait, NoteBroadcast, Restart, Clock, Opens, DeadlinePasses,
       WaitElapses, QuietElapses, Chain, Deliver, Lose, Mine, Forward, vars, tickVars, Submit
<1>12. QED
  BY <1>6, <1>7, <1>8, <1>9, <1>10, <1>11
     DEF Next, Coordinate, Tick, PreflightAnswers, ReceiptAnswers

(* The invariant of the relayer, with what it needs of the queue and of    *)
(* the attempts.                                                           *)
LEMMA AllInvariants == Spec => [](RelayerInv /\ AttemptsAreTransactions)
<1>1. Init => AttemptsAreTransactions /\ AttemptsLeft /\ TickInOrder
  <2> SUFFICES ASSUME Init PROVE AttemptsAreTransactions /\ AttemptsLeft /\ TickInOrder
    OBVIOUS
  <2>1. DOMAIN batches = {} /\ Active = {}
    BY DEF Init, Active
  <2>2. \A i \in Intents : SentWith(i) = {}
    BY <2>1 DEF SentWith
  <2>3. AttemptsAreTransactions
    <3>1. \A i \in Intents : attempts[i] = Cardinality(SentWith(i))
      BY <2>2, FS_EmptySet DEF Init
    <3>2. \A i \in Intents : attempts[i] <= MaxAttempts
      BY LimitAssumption DEF Init
    <3>3. QED
      BY <2>1, <3>1, <3>2 DEF AttemptsAreTransactions
  <2>4. AttemptsLeft
    BY <2>1, LimitAssumption DEF Init, AttemptsLeft
  <2>5. QED
    BY <2>3, <2>4 DEF Init, TickInOrder
<1>2. AttemptsAreTransactions /\ AttemptsLeft /\ TickInOrder /\ IInv /\ QInv /\ [Next]_vars
        => (AttemptsAreTransactions /\ AttemptsLeft /\ TickInOrder)'
  BY AttemptsStep, OrderStep
<1>3. IInv /\ QInv /\ BatchesFit /\ AttemptsLeft /\ TickInOrder => RelayerInv
  BY DEF RelayerInv
<1>4. QED
  BY <1>1, <1>2, <1>3, Invariance, QueueInvariance, BatchesAlwaysFit, PTL DEF Spec

THEOREM RelayerInvariance == Spec => []RelayerInv
BY AllInvariants, PTL

(* Crashes, rebroadcasts and reverts never cost an intent an attempt that  *)
(* no transaction stands for, and never give it one too many.              *)
THEOREM AttemptsAreCounted == Spec => []AttemptsAreTransactions
BY AllInvariants, PTL

(* Whatever is rejected, requeued or accepted while a tick simulates, its  *)
(* batch leaves no older intent of its run behind.                         *)
THEOREM NobodyIsOvertaken == Spec => NoOvertaking
<1>1. RelayerInv /\ [Next]_vars =>
        [PrepareBatch =>
           \A i \in sel, j \in ready \ sel :
             Run[i] = Run[j] /\ j \in earlier[i] => st[j] \in Terminal]_vars
  <2> SUFFICES ASSUME RelayerInv, PrepareBatch, NEW i \in sel, NEW j \in ready \ sel,
                      Run[i] = Run[j], j \in earlier[i]
               PROVE  st[j] \in Terminal
    OBVIOUS
  <2>1. j \notin cand
    BY DEF RelayerInv, TickInOrder
  <2>2. QED
    BY <2>1 DEF RelayerInv, TickInOrder
<1>2. QED
  BY <1>1, RelayerInvariance, PTL DEF Spec, NoOvertaking

-----------------------------------------------------------------------------
(***************************************************************************)
(* The process around it, module Service.                                  *)
(***************************************************************************)

(* The mock gateway's steps are steps of the network and the chain.        *)
LEMMA MockCallMaps ==
  ASSUME TypeOK, OneCall, MockBroadcast
  PROVE  Chain
<1>1. CASE MockIgnores
  <2>1. PICK tx \in wire : wire' = {}
    BY <1>1 DEF MockIgnores
  <2>2. wire' = wire \ {tx}
    BY <2>1 DEF OneCall
  <2>3. Lose
    BY <1>1, <2>2 DEF MockIgnores, Lose
  <2>4. QED
    BY <2>3 DEF Chain
<1>2. CASE MockWrites
  <2>1. PICK tx \in wire : New(tx) /\ mempool' = {tx}
    BY <1>2 DEF MockWrites
  <2>2. wire' = wire \ {tx} /\ mempool \union {tx} = {tx}
    BY <1>2, <2>1 DEF MockWrites, OneCall
  <2>3. Len(chain) \in Nat /\ tx.nonce = Len(chain)
    BY <2>1, LenProperties DEF TypeOK, New, NextNonce
  <2>4. Deliver
    BY <1>2, <2>1, <2>2, <2>3 DEF MockWrites, Deliver
  <2>5. QED
    BY <2>4 DEF Chain
<1>3. CASE MockRenames
  <2>1. PICK tx \in mempool : chain' = Append(chain, [tx |-> tx, ok |-> Passes(tx.ids)])
    BY <1>3 DEF MockRenames
  <2>2. Len(chain) \in Nat /\ tx.nonce = Len(chain)
    BY <2>1, LenProperties DEF TypeOK, OneCall
  <2>3. mempool' = {t \in mempool : t.nonce > tx.nonce}
    BY <1>3, <2>2 DEF MockRenames, OneCall
  <2>4. Passes(tx.ids) \in BOOLEAN /\ (Passes(tx.ids) => tx.ids \intersect Executed = {})
    BY DEF Passes
  <2>5. Mine
    BY <1>3, <2>1, <2>2, <2>3, <2>4 DEF MockRenames, Mine
  <2>6. QED
    BY <2>5 DEF Chain
<1>4. QED
  BY <1>1, <1>2, <1>3 DEF MockBroadcast

(* So are the answers of preflight, broadcast and receipt.                 *)
LEMMA ProceedMaps ==
  ASSUME TypeOK, OneCall, Proceed
  PROVE  Coordinate \/ Chain
<1>1. CASE MockPreflight
  BY <1>1 DEF MockPreflight, Coordinate, PreflightAnswers
<1>2. CASE PrepareBatch \/ NoteBroadcast
  BY <1>2 DEF Coordinate
<1>3. CASE MockBroadcast
  BY <1>3, MockCallMaps
<1>4. CASE MockReturns
  BY <1>4 DEF MockReturns, Coordinate, BroadcastEnds
<1>5. CASE MockReceipt
  BY <1>5 DEF MockReceipt, Coordinate, ReceiptAnswers
<1>6. QED
  BY <1>1, <1>2, <1>3, <1>4, <1>5 DEF Proceed

(* Every step of the process is a step of Relayer or leaves it alone.      *)
LEMMA StepMaps ==
  ASSUME TypeOK, OneCall, [ServiceNext]_allVars
  PROVE  [Next]_vars
<1>1. ASSUME NEW p \in Procs, Start(p) PROVE [Next]_vars
  <2>1. CASE OpenLock(p) \/ WriteToken(p) \/ StartFails(p)
    BY <2>1 DEF OpenLock, WriteToken, StartFails
  <2>2. CASE OpenStore(p)
    BY <2>2 DEF OpenStore, Loaded, vars, chainVars
  <2>3. CASE Listen(p)
    BY <2>3 DEF Listen, Next
  <2>4. QED
    BY <1>1, <2>1, <2>2, <2>3 DEF Start
<1>2. ASSUME NEW p \in Procs, Signal(p) \/ Stop(p) PROVE [Next]_vars
  <2>1. CASE Signal(p) \/ ApiClosed(p) \/ ActiveSettled(p) \/ Unlock(p)
    BY <2>1 DEF Signal, ApiClosed, ActiveSettled, Unlock
  <2>2. CASE CloseStore(p)
    BY <2>2 DEF CloseStore, Next
  <2>3. QED
    BY <1>2, <2>1, <2>2 DEF Stop
<1>3. ASSUME NEW p \in Procs, Kill(p) PROVE [Next]_vars
  BY <1>3 DEF Kill, Next
<1>4. ASSUME NEW i \in Intents, ServeSubmit(i) PROVE [Next]_vars
  BY <1>4 DEF ServeSubmit, Next
<1>5. CASE StartTick
  BY <1>5 DEF StartTick, Next, Coordinate
<1>6. CASE Proceed
  BY <1>6, ProceedMaps DEF Next
<1>7. CASE SkipTick \/ RemoveStaleLock
  BY <1>7 DEF SkipTick, RemoveStaleLock
<1>8. CASE Discard \/ Time
  BY <1>8 DEF Discard, Time, Next, Chain
<1>9. CASE UNCHANGED allVars
  BY <1>9 DEF allVars
<1>10. QED
  BY <1>1, <1>2, <1>3, <1>4, <1>5, <1>6, <1>7, <1>8, <1>9 DEF ServiceNext

(* The shortest way: a step of Relayer keeps its invariant.                *)
LEMMA RelayerInvStep == IInv /\ OneCall /\ [ServiceNext]_allVars => IInv'
BY StepMaps, IInvStep DEF IInv

-----------------------------------------------------------------------------
(* Steps that leave lock and stages alone, while a process serves.         *)
LEMMA ServingKeepsLock ==
  ASSUME SInv, UNCHANGED <<lock, stage>>, pc # "down", pc' # "down"
  PROVE  OwnerHoldsLock' /\ LockFollowsStage'
<1>1. \A p \in Procs : stage[p] # "opened"
  BY DEF SInv, LockFollowsStage
<1>2. OwnerHoldsLock'
  BY DEF SInv, OwnerHoldsLock, HasStoreOpen
<1>3. LockFollowsStage'
  BY <1>1 DEF SInv, LockFollowsStage
<1>4. QED
  BY <1>2, <1>3

(* What a running tick does keeps the invariant.                           *)
LEMMA ProceedKeeps ==
  ASSUME IInv, SInv, Proceed
  PROVE  SInv'
<1> USE DEF IInv
<1>1. pc # "down" /\ pc' # "down"
  BY DEF Proceed, MockPreflight, PreflightOk, PreflightStopsPrefix, PreflightRejects, EndTick,
         PrepareBatch, SignedBatch, NoteBroadcast, MockBroadcast, MockIgnores, MockWrites, MockRenames,
         MockReturns, BroadcastReturns, BroadcastThrows, MockReceipt, ReceiptFound,
         ReceiptMissing, tickVars, storeVars
<1>2. UNCHANGED lifeVars
  BY DEF Proceed
<1>3. OwnerHoldsLock' /\ LockFollowsStage'
  BY <1>1, <1>2, ServingKeepsLock DEF lifeVars
<1>4. ServiceTypeOK'
  BY <1>2 DEF SInv, ServiceTypeOK, lifeVars
<1>5. OneCall'
  <2>1. CASE MockPreflight \/ PrepareBatch \/ MockReceipt
    <3>1. UNCHANGED chainVars /\ pc # "broadcast"
      BY <2>1 DEF MockPreflight, PreflightOk, PreflightStopsPrefix, PreflightRejects,
                  PrepareBatch, SignedBatch, MockReceipt, ReceiptFound, ReceiptMissing
    <3>2. QED
      BY <3>1, <1>1 DEF SInv, OneCall, chainVars
  <2>2. CASE NoteBroadcast
    <3>1. wire \union mempool = {}
      BY <2>2 DEF NoteBroadcast, SInv, OneCall
    <3>2. wire' = {batches[cur].tx} /\ mempool' = {} /\ pc' = "broadcast"
      BY <2>2, <3>1 DEF NoteBroadcast
    <3>3. QED
      BY <3>2 DEF OneCall
  <2>3. CASE MockBroadcast
    <3>1. pc' = "broadcast"
      BY <2>3 DEF MockBroadcast, MockIgnores, MockWrites, MockRenames, tickVars
    <3>2. CASE MockIgnores
      BY <3>1, <3>2 DEF MockIgnores, SInv, OneCall
    <3>3. CASE MockWrites
      BY <3>1, <3>3 DEF MockWrites, New, NextNonce, SInv, OneCall
    <3>4. CASE MockRenames
      BY <3>1, <3>4 DEF MockRenames, SInv, OneCall
    <3>5. QED
      BY <2>3, <3>2, <3>3, <3>4 DEF MockBroadcast
  <2>4. CASE MockReturns
    <3>1. UNCHANGED chainVars /\ wire = {} /\ mempool = {}
      BY <2>4 DEF MockReturns, CallOver, BroadcastReturns, BroadcastThrows
    <3>2. QED
      BY <3>1 DEF OneCall, chainVars
  <2>5. QED
    BY <2>1, <2>2, <2>3, <2>4 DEF Proceed
<1>6. QED
  BY <1>3, <1>4, <1>5 DEF SInv

(* Steps that touch neither process nor call.                              *)
LEMMA QuietKeeps ==
  ASSUME SInv, UNCHANGED <<lock, stage, kills, pc, wire, mempool, chain>>,
         lastTick' \in {"real", "skipped"}
  PROVE  SInv'
BY DEF SInv, ServiceTypeOK, OwnerHoldsLock, HasStoreOpen, LockFollowsStage, OneCall

(* The start of a process.                                                 *)
LEMMA StartKeeps ==
  ASSUME IInv, SInv, NEW p \in Procs, Start(p)
  PROVE  SInv'
<1> USE ProcsAssumption DEF SInv, ServiceTypeOK, Goes
<1>1. CASE OpenLock(p)
  <2>1. \A q \in Procs : stage[q] = "off"
    BY <1>1 DEF OpenLock, Free, LockFollowsStage
  <2>2. pc = "down"
    BY <2>1 DEF OwnerHoldsLock, HasStoreOpen, Stopping
  <2>3. UNCHANGED vars /\ lock' = "blank" /\ stage' = [stage EXCEPT ![p] = "locking"]
        /\ UNCHANGED <<lastTick, kills>>
    BY <1>1 DEF OpenLock
  <2>4. pc' = "down" /\ UNCHANGED <<wire, mempool, chain>>
    BY <2>2, <2>3 DEF vars, tickVars, chainVars
  <2>5. ServiceTypeOK'
    BY <2>3 DEF Stages, Starting
  <2>6. OwnerHoldsLock' /\ LockFollowsStage'
    BY <2>1, <2>3, <2>4 DEF OwnerHoldsLock, HasStoreOpen, Stopping, LockFollowsStage
  <2>7. OneCall'
    BY <2>2, <2>4 DEF OneCall
  <2>8. QED
    BY <2>5, <2>6, <2>7
<1>2. CASE WriteToken(p)
  <2>1. \A q \in Procs \ {p} : stage[q] = "off"
    BY <1>2 DEF WriteToken, LockFollowsStage
  <2>2. pc = "down"
    BY <1>2, <2>1 DEF WriteToken, OwnerHoldsLock, HasStoreOpen, Stopping
  <2>3. UNCHANGED vars /\ lock' = p /\ stage' = [stage EXCEPT ![p] = "locked"]
        /\ UNCHANGED <<lastTick, kills>>
    BY <1>2 DEF WriteToken
  <2>4. pc' = "down" /\ UNCHANGED <<wire, mempool, chain>>
    BY <2>2, <2>3 DEF vars, tickVars, chainVars
  <2>5. ServiceTypeOK'
    BY <2>3 DEF Stages, Starting
  <2>6. OwnerHoldsLock' /\ LockFollowsStage'
    BY <2>1, <2>3, <2>4 DEF OwnerHoldsLock, HasStoreOpen, Stopping, LockFollowsStage
  <2>7. OneCall'
    BY <2>2, <2>4 DEF OneCall
  <2>8. QED
    BY <2>5, <2>6, <2>7
<1>3. CASE OpenStore(p)
  <2>1. \A q \in Procs \ {p} : stage[q] = "off"
    BY <1>3 DEF OpenStore, LockFollowsStage
  <2>2. pc = "down"
    BY <1>3, <2>1 DEF OpenStore, OwnerHoldsLock, HasStoreOpen, Stopping
  <2>3. UNCHANGED vars /\ UNCHANGED lock /\ stage' = [stage EXCEPT ![p] = "opened"]
        /\ UNCHANGED <<lastTick, kills>> /\ wire = {} /\ mempool = {}
    BY <1>3 DEF OpenStore, Loaded, vars, chainVars
  <2>4. pc' = "down" /\ wire' = {} /\ mempool' = {} /\ lock = p
    BY <1>3, <2>2, <2>3 DEF OpenStore, LockFollowsStage, vars, tickVars, chainVars
  <2>5. ServiceTypeOK'
    BY <2>3 DEF Stages, Starting
  <2>6. OwnerHoldsLock' /\ LockFollowsStage'
    BY <2>1, <2>3, <2>4 DEF OwnerHoldsLock, HasStoreOpen, Stopping, LockFollowsStage
  <2>7. OneCall'
    BY <2>4 DEF OneCall
  <2>8. QED
    BY <2>5, <2>6, <2>7
<1>4. CASE StartFails(p)
  <2>1. lock = p /\ \A q \in Procs \ {p} : stage[q] = "off"
    BY <1>4 DEF StartFails, LockFollowsStage
  <2>2. pc = "down"
    BY <1>4, <2>1 DEF StartFails, LockFollowsStage, OwnerHoldsLock, HasStoreOpen, Stopping
  <2>3. UNCHANGED vars /\ lock' = "none" /\ stage' = [stage EXCEPT ![p] = "off"]
        /\ UNCHANGED <<lastTick, kills>>
    BY <1>4, <2>1 DEF StartFails, Released
  <2>4. pc' = "down" /\ UNCHANGED <<wire, mempool, chain>>
    BY <2>2, <2>3 DEF vars, tickVars, chainVars
  <2>5. ServiceTypeOK'
    BY <2>3 DEF Stages
  <2>6. OwnerHoldsLock' /\ LockFollowsStage'
    BY <2>1, <2>3, <2>4 DEF OwnerHoldsLock, HasStoreOpen, Stopping, LockFollowsStage
  <2>7. OneCall'
    BY <2>2, <2>4 DEF OneCall
  <2>8. QED
    BY <2>5, <2>6, <2>7
<1>5. CASE Listen(p)
  <2>1. lock = p /\ \A q \in Procs \ {p} : stage[q] = "off"
    BY <1>5 DEF Listen, LockFollowsStage
  <2>2. wire = {} /\ mempool = {}
    BY <1>5 DEF Listen, LockFollowsStage
  <2>3. UNCHANGED <<lock, kills, wire, mempool>> /\ stage' = [stage EXCEPT ![p] = "serving"]
        /\ lastTick' = "real"
    BY <1>5 DEF Listen, Restart, chainVars
  <2>4. ServiceTypeOK'
    BY <2>3 DEF Stages
  <2>5. OwnerHoldsLock' /\ LockFollowsStage'
    BY <2>1, <2>3 DEF OwnerHoldsLock, HasStoreOpen, Stopping, LockFollowsStage
  <2>6. OneCall'
    BY <2>2, <2>3 DEF OneCall
  <2>7. QED
    BY <2>4, <2>5, <2>6
<1>6. QED
  BY <1>1, <1>2, <1>3, <1>4, <1>5 DEF Start

(* Its end: by a signal ...                                                *)
LEMMA StopKeeps ==
  ASSUME IInv, SInv, NEW p \in Procs, Signal(p) \/ Stop(p)
  PROVE  SInv'
<1> USE ProcsAssumption DEF SInv, ServiceTypeOK, Goes
<1>1. CASE Signal(p) \/ ApiClosed(p) \/ ActiveSettled(p)
  <2>1. PICK s \in Stopping :
          UNCHANGED vars /\ UNCHANGED <<lock, lastTick, kills>>
            /\ stage' = [stage EXCEPT ![p] = s]
    BY <1>1 DEF Signal, ApiClosed, ActiveSettled, Stopping
  <2>2. HasStoreOpen(p) /\ stage[p] # "opened" /\ lock = p
    BY <1>1 DEF Signal, ApiClosed, ActiveSettled, HasStoreOpen, Stopping, LockFollowsStage
  <2>3. UNCHANGED <<pc, wire, mempool, chain>>
    BY <2>1 DEF vars, tickVars, chainVars
  <2>4. ServiceTypeOK' /\ OneCall'
    BY <2>1, <2>3 DEF Stages, Stopping, OneCall
  <2>5. OwnerHoldsLock' /\ LockFollowsStage'
    BY <2>1, <2>2, <2>3 DEF OwnerHoldsLock, HasStoreOpen, Stopping, LockFollowsStage
  <2>6. QED
    BY <2>4, <2>5
<1>2. CASE CloseStore(p)
  <2>1. lock = p /\ \A q \in Procs \ {p} : stage[q] = "off"
    BY <1>2 DEF CloseStore, LockFollowsStage
  <2>2. UNCHANGED <<lock, lastTick, kills>> /\ stage' = [stage EXCEPT ![p] = "unlocking"]
        /\ pc' = "down" /\ UNCHANGED <<wire, mempool, chain>>
    BY <1>2 DEF CloseStore, Crash, chainVars
  <2>3. ServiceTypeOK' /\ OneCall'
    BY <2>2 DEF Stages, OneCall
  <2>4. OwnerHoldsLock' /\ LockFollowsStage'
    BY <2>1, <2>2 DEF OwnerHoldsLock, HasStoreOpen, Stopping, LockFollowsStage
  <2>5. QED
    BY <2>3, <2>4
<1>3. CASE Unlock(p)
  <2>1. lock = p /\ \A q \in Procs \ {p} : stage[q] = "off"
    BY <1>3 DEF Unlock, LockFollowsStage
  <2>2. pc = "down"
    BY <1>3, <2>1 DEF Unlock, OwnerHoldsLock, HasStoreOpen, Stopping
  <2>3. UNCHANGED vars /\ lock' = "none" /\ stage' = [stage EXCEPT ![p] = "off"]
        /\ UNCHANGED <<lastTick, kills>>
    BY <1>3, <2>1 DEF Unlock, Released
  <2>4. pc' = "down" /\ UNCHANGED <<wire, mempool, chain>>
    BY <2>2, <2>3 DEF vars, tickVars, chainVars
  <2>5. ServiceTypeOK' /\ OneCall'
    BY <2>2, <2>3, <2>4 DEF Stages, OneCall
  <2>6. OwnerHoldsLock' /\ LockFollowsStage'
    BY <2>1, <2>3, <2>4 DEF OwnerHoldsLock, HasStoreOpen, Stopping, LockFollowsStage
  <2>7. QED
    BY <2>5, <2>6
<1>4. QED
  BY <1>1, <1>2, <1>3 DEF Stop

(* ... or at any point.                                                    *)
LEMMA KillKeeps ==
  ASSUME IInv, SInv, NEW p \in Procs, Kill(p)
  PROVE  SInv'
<1> USE ProcsAssumption DEF SInv, ServiceTypeOK
<1>1. UNCHANGED <<lock, lastTick, wire, mempool, chain>> /\ kills' = kills + 1
      /\ stage' = [stage EXCEPT ![p] = "off"]
      /\ pc' = IF HasStoreOpen(p) THEN "down" ELSE pc
  BY DEF Kill, Crash, vars, tickVars, chainVars
<1>2. ServiceTypeOK'
  BY <1>1 DEF Stages
<1>3. OneCall'
  BY <1>1 DEF OneCall
<1>4. LockFollowsStage'
  BY <1>1 DEF LockFollowsStage
<1>5. OwnerHoldsLock'
  <2>1. \A q \in Procs \ {p} : HasStoreOpen(q)' <=> HasStoreOpen(q)
    BY <1>1 DEF HasStoreOpen
  <2>2. ~HasStoreOpen(p)'
    BY <1>1 DEF HasStoreOpen, Stopping
  <2>3. \A q \in Procs : HasStoreOpen(q)' => lock' = q
    BY <1>1, <2>1, <2>2 DEF OwnerHoldsLock
  <2>4. ASSUME pc' # "down" PROVE \E q \in Procs : HasStoreOpen(q)'
    BY <1>1, <2>1, <2>4 DEF OwnerHoldsLock
  <2>5. QED
    BY <2>3, <2>4 DEF OwnerHoldsLock
<1>6. QED
  BY <1>2, <1>3, <1>4, <1>5

LEMMA SInvStep == IInv /\ SInv /\ [ServiceNext]_allVars => SInv'
<1> SUFFICES ASSUME IInv, SInv, [ServiceNext]_allVars PROVE SInv'
  OBVIOUS
<1>1. ASSUME NEW i \in Intents, ServeSubmit(i) PROVE SInv'
  BY <1>1, QuietKeeps
     DEF ServeSubmit, Submit, lifeVars, tickVars, chainVars, SInv, ServiceTypeOK
<1>2. CASE StartTick
  <2>1. UNCHANGED <<lock, stage, kills, wire, mempool, chain>> /\ lastTick' = "real"
        /\ pc = "idle" /\ pc' \in {"idle", "receipt", "preflight"}
    BY <1>2 DEF StartTick, Tick, TickRecover, TickWait, TickDispatch, tickVars, chainVars
  <2>2. OwnerHoldsLock' /\ LockFollowsStage'
    BY <2>1, ServingKeepsLock
  <2>3. ServiceTypeOK' /\ OneCall'
    BY <2>1 DEF SInv, ServiceTypeOK, OneCall
  <2>4. QED
    BY <2>2, <2>3 DEF SInv
<1>3. CASE SkipTick
  BY <1>3, QuietKeeps DEF SkipTick, vars, tickVars, chainVars
<1>4. CASE Discard
  <2>1. UNCHANGED <<lock, stage, lastTick, kills, pc, chain>>
        /\ wire' \subseteq wire /\ mempool' \subseteq mempool
    BY <1>4 DEF Discard, Lose, lifeVars, tickVars
  <2>2. QED
    BY <2>1 DEF SInv, ServiceTypeOK, OwnerHoldsLock, HasStoreOpen, LockFollowsStage, OneCall
<1>5. CASE RemoveStaleLock
  <2>1. UNCHANGED <<stage, lastTick, kills, pc, wire, mempool, chain>> /\ lock' = "none"
    BY <1>5 DEF RemoveStaleLock, vars, tickVars, chainVars
  <2>2. \A p \in Procs : stage[p] = "off"
    BY <1>5, ProcsAssumption DEF RemoveStaleLock, SInv, ServiceTypeOK, LockFollowsStage
  <2>3. QED
    BY <2>1, <2>2
       DEF SInv, ServiceTypeOK, OwnerHoldsLock, HasStoreOpen, Stopping, LockFollowsStage, OneCall
<1>6. CASE Time
  <2>1. UNCHANGED <<lifeVars, pc, wire, mempool, chain>>
    BY <1>6 DEF Time, Clock, Opens, DeadlinePasses, WaitElapses, QuietElapses, tickVars, chainVars
  <2>2. QED
    BY <2>1, QuietKeeps DEF lifeVars, SInv, ServiceTypeOK
<1>7. CASE UNCHANGED allVars
  BY <1>7, QuietKeeps DEF allVars, vars, lifeVars, tickVars, chainVars, SInv, ServiceTypeOK
<1>8. QED
  BY <1>1, <1>2, <1>3, <1>4, <1>5, <1>6, <1>7, StartKeeps, StopKeeps, KillKeeps, ProceedKeeps
     DEF ServiceNext

LEMMA ServiceStarts == ServiceInit => IInv /\ SInv
<1> SUFFICES ASSUME ServiceInit PROVE IInv /\ SInv
  OBVIOUS
<1>1. IInv
  BY InitIInv DEF ServiceInit
<1>2. PICK p \in Procs : lock = p /\ stage = [q \in Procs |-> IF q = p THEN "serving" ELSE "off"]
  BY DEF ServiceInit
<1>3. lastTick = "real" /\ kills = 0 /\ wire = {} /\ mempool = {}
  BY DEF ServiceInit, Init
<1>4. SInv
  BY <1>2, <1>3
     DEF SInv, ServiceTypeOK, Stages, OwnerHoldsLock, HasStoreOpen, Stopping, LockFollowsStage,
         OneCall
<1>5. QED
  BY <1>1, <1>4

(* The stages of the processes, the lock, the calls of the gateway and the *)
(* invariant of Relayer hold together (Service, SInv).                     *)
THEOREM ServiceInvariance == ServiceSpec => [](IInv /\ SInv)
<1>1. IInv /\ SInv /\ [ServiceNext]_allVars => (IInv /\ SInv)'
  BY RelayerInvStep, SInvStep DEF SInv
<1>2. QED
  BY <1>1, ServiceStarts, PTL DEF ServiceSpec

(* At most one process has the database open, the one the lock names.      *)
THEOREM OneProcessOwnsTheDatabase == ServiceSpec => []OwnerHoldsLock
<1>1. SInv => OwnerHoldsLock
  BY DEF SInv
<1>2. QED
  BY <1>1, ServiceInvariance, PTL

(* With the mock gateway, the process under main's life cycle implements   *)
(* Relayer (Service, IsARelayer).                                          *)
THEOREM MockIsARelayer == ServiceSpec => IsARelayer
<1>1. ServiceInit => Init
  BY DEF ServiceInit
<1>2. IInv /\ SInv /\ [ServiceNext]_allVars => [Next]_vars
  BY StepMaps DEF IInv, SInv
<1>3. QED
  BY <1>1, <1>2, ServiceInvariance, PTL DEF ServiceSpec, IsARelayer, Spec

(* So what is proved of Relayer holds of it: outcomes are true (Relayer,   *)
(* OutcomeIsTrue), whichever process is killed and restarted where.        *)
THEOREM MockOutcomesAreTrue == ServiceSpec => []OutcomeIsTrue
BY MockIsARelayer, OutcomesAreTrue, PTL DEF IsARelayer
-----------------------------------------------------------------------------
(* A stop and a failing start remove the lock they hold: what is left of   *)
(* one that nobody holds is a killed process's (Service, StaleMeansKilled).*)
THEOREM StaleLockWasLeftByKill == ServiceSpec => []StaleMeansKilled
<1>1. ServiceInit => StaleMeansKilled
  <2> SUFFICES ASSUME ServiceInit PROVE StaleMeansKilled
    OBVIOUS
  <2>1. PICK p \in Procs : stage = [q \in Procs |-> IF q = p THEN "serving" ELSE "off"]
    BY DEF ServiceInit
  <2>2. QED
    BY <2>1 DEF StaleMeansKilled
<1>2. SInv /\ StaleMeansKilled /\ [ServiceNext]_allVars => StaleMeansKilled'
  <2> SUFFICES ASSUME SInv, StaleMeansKilled, [ServiceNext]_allVars PROVE StaleMeansKilled'
    OBVIOUS
  <2> USE DEF SInv, ServiceTypeOK
  <2>1. CASE UNCHANGED <<lock, stage, kills>>
    BY <2>1 DEF StaleMeansKilled
  <2>2. ASSUME NEW p \in Procs, NEW s \in Stages \ {"off"}, stage' = [stage EXCEPT ![p] = s]
        PROVE  StaleMeansKilled'
    BY <2>2 DEF StaleMeansKilled
  <2>3. ASSUME NEW p \in Procs, Start(p) PROVE StaleMeansKilled'
    <3>1. CASE StartFails(p)
      <4>1. lock = p
        BY <3>1 DEF StartFails, LockFollowsStage
      <4>2. lock' = "none"
        BY <3>1, <4>1 DEF StartFails, Released
      <4>3. QED
        BY <4>2 DEF StaleMeansKilled
    <3>2. CASE OpenLock(p) \/ WriteToken(p) \/ OpenStore(p) \/ Listen(p)
      <4>1. \E s \in {"locking", "locked", "opened", "serving"} : stage' = [stage EXCEPT ![p] = s]
        BY <3>2 DEF OpenLock, WriteToken, OpenStore, Listen, Goes
      <4>2. QED
        BY <2>2, <4>1 DEF Stages, Starting
    <3>3. QED
      BY <2>3, <3>1, <3>2 DEF Start
  <2>4. ASSUME NEW p \in Procs, Signal(p) \/ Stop(p) PROVE StaleMeansKilled'
    <3>1. CASE Unlock(p)
      <4>1. lock = p
        BY <3>1 DEF Unlock, Goes, LockFollowsStage
      <4>2. lock' = "none"
        BY <3>1, <4>1 DEF Unlock, Released
      <4>3. QED
        BY <4>2 DEF StaleMeansKilled
    <3>2. CASE Signal(p) \/ ApiClosed(p) \/ ActiveSettled(p) \/ CloseStore(p)
      <4>1. \E s \in {"closing", "draining", "waiting", "unlocking"} :
              stage' = [stage EXCEPT ![p] = s]
        BY <3>2 DEF Signal, ApiClosed, ActiveSettled, CloseStore, Goes
      <4>2. QED
        BY <2>2, <4>1 DEF Stages, Stopping
    <3>3. QED
      BY <2>4, <3>1, <3>2 DEF Stop
  <2>5. ASSUME NEW p \in Procs, Kill(p) PROVE StaleMeansKilled'
    BY <2>5 DEF Kill, StaleMeansKilled
  <2>6. CASE RemoveStaleLock
    BY <2>6 DEF RemoveStaleLock, StaleMeansKilled
  <2>7. CASE \/ StartTick \/ SkipTick \/ Proceed \/ Discard \/ Time
             \/ UNCHANGED allVars \/ \E i \in Intents : ServeSubmit(i)
    BY <2>1, <2>7 DEF StartTick, SkipTick, Proceed, Discard, Time, ServeSubmit, lifeVars, allVars
  <2>8. QED
    BY <2>3, <2>4, <2>5, <2>6, <2>7 DEF ServiceNext
<1>3. QED
  BY <1>1, <1>2, ServiceInvariance, PTL DEF ServiceSpec

(* No step but CloseStore leads from waiting to unlocking, so that stop()  *)
(* never closes the store under a running tick (Service, StopIsClean).     *)
THEOREM StopWaitsForTheTick == ServiceSpec => StopIsClean
<1>1. SInv /\ [ServiceNext]_allVars =>
        [\A p \in Procs : stage[p] = "waiting" /\ stage'[p] = "unlocking" => ~Running]_allVars
  <2> SUFFICES ASSUME SInv, ServiceNext, NEW p \in Procs,
                      stage[p] = "waiting", stage'[p] = "unlocking"
               PROVE  ~Running
    OBVIOUS
  <2> USE DEF SInv, ServiceTypeOK
  <2>1. ASSUME NEW q \in Procs, Start(q)
        PROVE  FALSE
    <3>1. q # p /\ \E s : stage' = [stage EXCEPT ![q] = s]
      BY <2>1 DEF Start, OpenLock, WriteToken, OpenStore, StartFails, Listen, Goes
    <3>2. QED
      BY <3>1
  <2>2. ASSUME NEW q \in Procs, Signal(q) \/ ApiClosed(q) \/ ActiveSettled(q) \/ Unlock(q)
        PROVE  FALSE
    <3>1. \E s \in {"closing", "draining", "waiting", "off"} : stage' = [stage EXCEPT ![q] = s]
      BY <2>2 DEF Signal, ApiClosed, ActiveSettled, Unlock, Goes
    <3>2. QED
      BY <3>1
  <2>3. ASSUME NEW q \in Procs, CloseStore(q) PROVE ~Running
    BY <2>3 DEF CloseStore, Quiescent
  <2>4. ASSUME NEW q \in Procs, Kill(q) PROVE FALSE
    BY <2>4 DEF Kill
  <2>5. CASE \/ StartTick \/ SkipTick \/ Proceed \/ Discard \/ RemoveStaleLock \/ Time
             \/ \E i \in Intents : ServeSubmit(i)
    BY <2>5 DEF StartTick, SkipTick, Proceed, Discard, RemoveStaleLock, Time, ServeSubmit, lifeVars
  <2>6. QED
    BY <2>1, <2>2, <2>3, <2>4, <2>5 DEF ServiceNext, Stop
<1>2. QED
  BY <1>1, ServiceInvariance, PTL DEF ServiceSpec, StopIsClean
=============================================================================

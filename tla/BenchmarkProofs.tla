--------------------------- MODULE BenchmarkProofs --------------------------
(***************************************************************************)
(* Theorems about Benchmark, for every set of intents, every batch size    *)
(* and every limit: the records tell one life of an intent, the collected  *)
(* files agree with each other and with the chain, and the summary loads.  *)
(***************************************************************************)
EXTENDS Benchmark, SumTheorems, SequenceTheorems

-----------------------------------------------------------------------------
(***************************************************************************)
(* The tables.                                                             *)
(***************************************************************************)

(* A set that st is moved to.                                              *)
LEMMA SetMoves ==
  ASSUME TablesTyped, NEW S, NEW s
  PROVE  /\ DOMAIN Set(S, s) = Intents
         /\ \A i \in Intents : Set(S, s)[i] = IF i \in S THEN s ELSE st[i]
BY DEF Set

LEMMA RowTyped ==
  ASSUME TablesTyped, NEW k \in DOMAIN rows
  PROVE  /\ k \in 1 .. Len(rows) /\ Len(rows) \in Nat
         /\ rows[k] \in BatchRecords
         /\ rows[k].ids \in SUBSET Intents /\ rows[k].count \in Nat
         /\ rows[k].receipt \in {"none", "success", "reverted"}
<1>1. rows \in Seq(BatchRecords)
  BY DEF TablesTyped
<1>2. Len(rows) \in Nat /\ DOMAIN rows = 1 .. Len(rows) /\ rows[k] \in BatchRecords
  BY <1>1, LenProperties, ElementOfSeq
<1>3. QED
  BY <1>2 DEF BatchRecords

LEMMA LastRow ==
  ASSUME TablesTyped, Unresolved
  PROVE  /\ Len(rows) \in DOMAIN rows /\ Len(rows) \in Nat /\ DOMAIN rows = 1 .. Len(rows)
         /\ Current \in BatchRecords /\ Current.ids \in SUBSET Intents /\ Current.count \in Nat
         /\ Current.receipt = "none" /\ Current = rows[Len(rows)]
<1>1. rows \in Seq(BatchRecords) /\ rows # << >>
  BY DEF TablesTyped, Unresolved
<1>2. Len(rows) \in DOMAIN rows /\ DOMAIN rows = 1 .. Len(rows) /\ Len(rows) \in Nat
  BY <1>1, LenProperties, EmptySeq
<1>3. QED
  BY <1>2, RowTyped DEF Unresolved, Current

(* A row is appended, or the last one is written.                          *)
LEMMA AppendRow ==
  ASSUME NEW s \in Seq(BatchRecords), NEW b \in BatchRecords, NEW t, t = Append(s, b)
  PROVE  /\ t \in Seq(BatchRecords)
         /\ Len(t) = Len(s) + 1 /\ t # << >> /\ t[Len(t)] = b
         /\ DOMAIN t = DOMAIN s \union {Len(s) + 1} /\ Len(s) + 1 \notin DOMAIN s
         /\ \A k \in DOMAIN s : t[k] = s[k]
<1>1. Len(s) \in Nat /\ DOMAIN s = 1 .. Len(s)
  BY LenProperties
<1>2. /\ t \in Seq(BatchRecords) /\ t # << >> /\ Len(t) = Len(s) + 1
      /\ \A k \in 1 .. Len(s) : t[k] = s[k]
      /\ t[Len(s) + 1] = b
  BY AppendProperties
<1>3. DOMAIN t = 1 .. Len(s) + 1
  BY <1>2, LenProperties
<1>4. QED
  BY <1>1, <1>2, <1>3

LEMMA WriteRow ==
  ASSUME NEW s \in Seq(BatchRecords), s # << >>, NEW b \in BatchRecords,
         NEW t, t = [s EXCEPT ![Len(s)] = b]
  PROVE  /\ t \in Seq(BatchRecords)
         /\ Len(t) = Len(s) /\ t # << >> /\ t[Len(s)] = b
         /\ DOMAIN t = DOMAIN s
         /\ \A k \in DOMAIN s : k # Len(s) => t[k] = s[k]
<1>1. Len(s) \in 1 .. Len(s) /\ DOMAIN s = 1 .. Len(s) /\ Len(s) \in Nat
  BY LenProperties, EmptySeq
<1>2. t \in Seq(BatchRecords) /\ Len(t) = Len(s)
  BY <1>1, ExceptSeq
<1>3. t[Len(s)] = b /\ \A k \in DOMAIN s : k # Len(s) => t[k] = s[k]
  BY <1>1
<1>4. t # << >> /\ DOMAIN t = DOMAIN s
  BY <1>1, <1>2, LenProperties, EmptySeq
<1>5. QED
  BY <1>2, <1>3, <1>4

(* Intents that no batch holds change their state, or those of the batch   *)
(* in flight do and stay in flight: the rows know nothing of it.           *)
LEMMA StateMoves ==
  ASSUME LedgerInv, UNCHANGED <<attempts, rows, executed>>,
         st' \in [Intents -> {"ABSENT", "QUEUED"} \union InFlight \union Terminal],
         \A i \in Intents : st'[i] # st[i] =>
           /\ (st'[i] \in InFlight) <=> (st[i] \in InFlight)
           /\ st'[i] \notin {"ABSENT", "CONFIRMED"} /\ st[i] # "CONFIRMED"
           /\ st'[i] = "FAILED" => attempts[i] > 0
  PROVE  LedgerInv'
<1>1. TablesTyped'
  BY DEF LedgerInv, TablesTyped
<1>2. RowsFollowChain'
  BY DEF LedgerInv, RowsFollowChain
<1>3. StatesFollowRows'
  <2>1. Unresolved' = Unresolved /\ Current' = Current
    BY DEF Unresolved, Current
  <2>2. /\ HavingReceipt(rows, {"success"})' = HavingReceipt(rows, {"success"})
        /\ Broadcast(rows)' = Broadcast(rows)
    BY DEF HavingReceipt, Broadcast
  <2>3. \A i \in Intents :
          /\ (st'[i] \in InFlight) <=> (Unresolved /\ i \in Current.ids)
          /\ (st'[i] = "CONFIRMED") <=> (\E k \in HavingReceipt(rows, {"success"}) : i \in rows[k].ids)
          /\ (attempts[i] > 0) <=> (\E k \in Broadcast(rows) : i \in rows[k].ids)
          /\ st'[i] = "FAILED" => attempts[i] > 0
    BY DEF LedgerInv, StatesFollowRows
  <2>4. \A k \in DOMAIN rows : rows[k].ids \subseteq Listed'
    <3> SUFFICES ASSUME NEW k \in DOMAIN rows, NEW i \in rows[k].ids PROVE i \in Listed'
      OBVIOUS
    <3>1. i \in Listed
      BY DEF LedgerInv, StatesFollowRows
    <3>2. QED
      BY <3>1 DEF Listed
  <2>5. QED
    BY <2>1, <2>2, <2>3, <2>4 DEF LedgerInv, StatesFollowRows
<1>4. QED
  BY <1>1, <1>2, <1>3 DEF LedgerInv

LEMMA ExpireStep == LedgerInv /\ Expire => LedgerInv'
<1> SUFFICES ASSUME LedgerInv, Expire PROVE LedgerInv'
  OBVIOUS
<1>1. PICK S \in (SUBSET Queued) \ {{}} : st' = Set(S, "EXPIRED")
  BY DEF Expire
<1>2. /\ DOMAIN st' = Intents
      /\ \A i \in Intents : st'[i] = IF i \in S THEN "EXPIRED" ELSE st[i]
  BY <1>1, SetMoves DEF LedgerInv
<1>3. \A i \in S : i \in Intents /\ st[i] = "QUEUED"
  BY <1>1 DEF Queued
<1>4. st' \in [Intents -> {"ABSENT", "QUEUED"} \union InFlight \union Terminal]
  <2>1. st' = [i \in Intents |-> st'[i]]
    BY <1>1 DEF Set
  <2>2. \A i \in Intents : st'[i] \in {"ABSENT", "QUEUED"} \union InFlight \union Terminal
    BY <1>2 DEF LedgerInv, TablesTyped, Terminal
  <2>3. QED
    BY <2>1, <2>2
<1>5. UNCHANGED <<attempts, rows, executed>>
  BY DEF Expire
<1>6. QED
  BY <1>2, <1>3, <1>4, <1>5, StateMoves DEF InFlight

LEMMA RejectStep == LedgerInv /\ Reject => LedgerInv'
<1> SUFFICES ASSUME LedgerInv, Reject PROVE LedgerInv'
  OBVIOUS
<1>1. PICK i \in Queued : st' = Set({i}, IF attempts[i] > 0 THEN "FAILED" ELSE "REJECTED")
  BY DEF Reject
<1> DEFINE end == IF attempts[i] > 0 THEN "FAILED" ELSE "REJECTED"
<1>2. /\ DOMAIN st' = Intents
      /\ \A j \in Intents : st'[j] = IF j = i THEN end ELSE st[j]
  BY <1>1, SetMoves DEF LedgerInv
<1>3. i \in Intents /\ st[i] = "QUEUED"
  BY <1>1 DEF Queued
<1>4. st' \in [Intents -> {"ABSENT", "QUEUED"} \union InFlight \union Terminal]
  <2>1. st' = [j \in Intents |-> st'[j]]
    BY <1>1 DEF Set
  <2>2. \A j \in Intents : st'[j] \in {"ABSENT", "QUEUED"} \union InFlight \union Terminal
    BY <1>2 DEF LedgerInv, TablesTyped, Terminal
  <2>3. QED
    BY <2>1, <2>2
<1>5. UNCHANGED <<attempts, rows, executed>>
  BY DEF Reject
<1>6. QED
  BY <1>2, <1>3, <1>4, <1>5, StateMoves DEF InFlight

LEMMA InsertStep ==
  ASSUME LedgerInv, NEW i \in Intents, Insert(i)
  PROVE  LedgerInv'
<1>1. /\ DOMAIN st' = Intents
      /\ \A j \in Intents : st'[j] = IF j = i THEN "QUEUED" ELSE st[j]
  BY SetMoves DEF LedgerInv, Insert
<1>2. st' \in [Intents -> {"ABSENT", "QUEUED"} \union InFlight \union Terminal]
  <2>1. st' = [j \in Intents |-> st'[j]]
    BY DEF Insert, Set
  <2>2. \A j \in Intents : st'[j] \in {"ABSENT", "QUEUED"} \union InFlight \union Terminal
    BY <1>1 DEF LedgerInv, TablesTyped
  <2>3. QED
    BY <2>1, <2>2
<1>3. UNCHANGED <<attempts, rows, executed>> /\ st[i] = "ABSENT"
  BY DEF Insert
<1>4. QED
  BY <1>1, <1>2, <1>3, StateMoves DEF InFlight

LEMMA DoubtStep == LedgerInv /\ Doubt => LedgerInv'
<1> SUFFICES ASSUME LedgerInv, Doubt PROVE LedgerInv'
  OBVIOUS
<1>1. /\ DOMAIN st' = Intents
      /\ \A j \in Intents : st'[j] = IF j \in Current.ids THEN "RECONCILING" ELSE st[j]
  BY SetMoves DEF LedgerInv, Doubt
<1>2. st' \in [Intents -> {"ABSENT", "QUEUED"} \union InFlight \union Terminal]
  <2>1. st' = [j \in Intents |-> st'[j]]
    BY DEF Doubt, Set
  <2>2. \A j \in Intents : st'[j] \in {"ABSENT", "QUEUED"} \union InFlight \union Terminal
    BY <1>1 DEF LedgerInv, TablesTyped, InFlight
  <2>3. QED
    BY <2>1, <2>2
<1>3. UNCHANGED <<attempts, rows, executed>> /\ Unresolved
  BY DEF Doubt
<1>4. \A j \in Current.ids \intersect Intents : st[j] \in InFlight
  BY <1>3 DEF LedgerInv, StatesFollowRows
<1>5. QED
  BY <1>1, <1>2, <1>3, <1>4, StateMoves DEF InFlight

LEMMA ExecuteStep == LedgerInv /\ Execute => LedgerInv'
<1> SUFFICES ASSUME LedgerInv, Execute PROVE LedgerInv'
  OBVIOUS
<1>1. PICK ok \in BOOLEAN : executed' = Append(executed, ok)
  BY DEF Execute
<1>2. /\ Len(executed) \in Nat /\ Len(rows) \in Nat /\ DOMAIN rows = 1 .. Len(rows)
      /\ executed' \in Seq(BOOLEAN) /\ Len(executed') = Len(executed) + 1
      /\ \A k \in 1 .. Len(executed) : executed'[k] = executed[k]
  BY <1>1, LenProperties, AppendProperties DEF LedgerInv, TablesTyped
<1>3. UNCHANGED <<st, attempts, rows>> /\ Len(executed) < Len(rows) /\ Current.count > 0
  BY DEF Execute
<1>4. TablesTyped' /\ StatesFollowRows'
  BY <1>2, <1>3 DEF LedgerInv, TablesTyped, StatesFollowRows, Unresolved, Current, Listed,
     HavingReceipt, Broadcast
<1>5. RowsFollowChain'
  <2> SUFFICES ASSUME NEW k \in DOMAIN rows
               PROVE  /\ rows[k].receipt # "none" =>
                           k <= Len(executed') /\ executed'[k] = (rows[k].receipt = "success")
                      /\ k <= Len(executed') => rows[k].count > 0
    BY <1>2, <1>3 DEF LedgerInv, RowsFollowChain
  <2>1. /\ rows[k].receipt # "none" =>
             k <= Len(executed) /\ executed[k] = (rows[k].receipt = "success")
        /\ k <= Len(executed) => rows[k].count > 0
        /\ k \in Nat /\ k >= 1 /\ k <= Len(rows)
    BY <1>2 DEF LedgerInv, RowsFollowChain
  <2>2. rows[k].receipt # "none" =>
          k <= Len(executed') /\ executed'[k] = (rows[k].receipt = "success")
    BY <1>2, <2>1
  <2>3. ASSUME k <= Len(executed') PROVE rows[k].count > 0
    <3>1. CASE k <= Len(executed)
      BY <2>1, <3>1
    <3>2. CASE k > Len(executed)
      <4>1. k = Len(rows) \/ rows[k].receipt # "none"
        BY DEF LedgerInv, RowsFollowChain
      <4>2. k = Len(rows)
        BY <2>1, <3>2, <4>1, <1>2
      <4>3. QED
        BY <1>3, <4>2 DEF Current
    <3>3. QED
      BY <1>2, <2>1, <3>1, <3>2
  <2>4. QED
    BY <2>2, <2>3
<1>6. QED
  BY <1>4, <1>5 DEF LedgerInv

LEMMA PrepareStep == LedgerInv /\ Prepare => LedgerInv'
<1> SUFFICES ASSUME LedgerInv, Prepare PROVE LedgerInv'
  OBVIOUS
<1>1. PICK S \in (SUBSET Queued) \ {{}} :
        /\ Cardinality(S) <= BatchSize
        /\ rows' = Append(rows, [ids |-> S, count |-> 0, receipt |-> "none"])
        /\ st' = Set(S, "BATCHED")
  BY DEF Prepare
<1> DEFINE b == [ids |-> S, count |-> 0, receipt |-> "none"]
<1>2. ~Unresolved /\ UNCHANGED <<attempts, executed>>
  BY DEF Prepare
<1>3. S \in SUBSET Intents /\ S # {} /\ \A i \in S : st[i] = "QUEUED"
  BY <1>1 DEF Queued
<1>4. b \in BatchRecords
  BY <1>3 DEF BatchRecords
<1>5. /\ rows \in Seq(BatchRecords) /\ Len(rows) \in Nat /\ DOMAIN rows = 1 .. Len(rows)
      /\ executed \in Seq(BOOLEAN) /\ Len(executed) \in Nat
  BY LenProperties DEF LedgerInv, TablesTyped
<1>6. /\ rows' \in Seq(BatchRecords)
      /\ Len(rows') = Len(rows) + 1 /\ rows' # << >> /\ rows'[Len(rows')] = b
      /\ DOMAIN rows' = DOMAIN rows \union {Len(rows) + 1} /\ Len(rows) + 1 \notin DOMAIN rows
      /\ \A k \in DOMAIN rows : rows'[k] = rows[k]
  BY <1>1, <1>4, <1>5, AppendRow
<1>7. b.ids = S /\ b.count = 0 /\ b.receipt = "none"
  OBVIOUS
<1> HIDE DEF b
<1>8. \A k \in DOMAIN rows : rows[k].receipt # "none"
  <2> SUFFICES ASSUME NEW k \in DOMAIN rows, rows[k].receipt = "none" PROVE FALSE
    OBVIOUS
  <2>1. k = Len(rows) /\ rows # << >>
    BY <1>5, EmptySeq DEF LedgerInv, RowsFollowChain
  <2>2. QED
    BY <1>2, <2>1 DEF Unresolved
<1>9. /\ DOMAIN st' = Intents
      /\ \A i \in Intents : st'[i] = IF i \in S THEN "BATCHED" ELSE st[i]
  BY <1>1, SetMoves DEF LedgerInv
<1>10. TablesTyped'
  <2>1. st' = [i \in Intents |-> st'[i]]
    BY <1>1 DEF Set
  <2>2. \A i \in Intents : st'[i] \in {"ABSENT", "QUEUED"} \union InFlight \union Terminal
    BY <1>9 DEF LedgerInv, TablesTyped, InFlight
  <2>3. st' \in [Intents -> {"ABSENT", "QUEUED"} \union InFlight \union Terminal]
    BY <2>1, <2>2
  <2>4. QED
    BY <2>3, <1>2, <1>6 DEF LedgerInv, TablesTyped
<1>11. RowsFollowChain'
  <2>1. Len(executed') <= Len(rows')
    BY <1>2, <1>5, <1>6 DEF LedgerInv, RowsFollowChain
  <2>2. ASSUME NEW k \in DOMAIN rows'
        PROVE  /\ rows'[k].ids # {} /\ Cardinality(rows'[k].ids) <= BatchSize
               /\ rows'[k].receipt = "none" => k = Len(rows')
               /\ rows'[k].receipt # "none" =>
                    k <= Len(executed') /\ executed'[k] = (rows'[k].receipt = "success")
               /\ k <= Len(executed') => rows'[k].count > 0
    <3>1. CASE k \in DOMAIN rows
      BY <3>1, <1>2, <1>6, <1>8 DEF LedgerInv, RowsFollowChain
    <3>2. CASE k = Len(rows) + 1
      <4>1. rows'[k] = b /\ ~(k <= Len(executed')) /\ k = Len(rows')
        BY <3>2, <1>2, <1>5, <1>6 DEF LedgerInv, RowsFollowChain
      <4>2. QED
        BY <4>1, <1>1, <1>3, <1>7
    <3>3. QED
      BY <3>1, <3>2, <1>6
  <2>3. QED
    BY <2>1, <2>2 DEF RowsFollowChain
<1>12. StatesFollowRows'
  <2>1. Unresolved' /\ Current'.ids = S
    BY <1>6, <1>7 DEF Unresolved, Current
  <2>2. /\ HavingReceipt(rows, {"success"})' = HavingReceipt(rows, {"success"})
        /\ Broadcast(rows)' = Broadcast(rows)
        /\ \A k \in HavingReceipt(rows, {"success"}) \union Broadcast(rows) :
             k \in DOMAIN rows /\ rows'[k] = rows[k]
    <3>1. rows'[Len(rows) + 1] = b
      BY <1>6
    <3>2. QED
      BY <3>1, <1>6, <1>7 DEF HavingReceipt, Broadcast
  <2>3. \A i \in Intents : st[i] \notin InFlight
    BY <1>2 DEF LedgerInv, StatesFollowRows
  <2>4. ASSUME NEW i \in Intents
        PROVE  /\ (st'[i] \in InFlight) <=> (i \in S)
               /\ (st'[i] = "CONFIRMED") <=> (\E k \in HavingReceipt(rows, {"success"}) : i \in rows[k].ids)
               /\ (attempts[i] > 0) <=> (\E k \in Broadcast(rows) : i \in rows[k].ids)
               /\ st'[i] = "FAILED" => attempts[i] > 0
    <3>1. /\ (st[i] = "CONFIRMED") <=> (\E k \in HavingReceipt(rows, {"success"}) : i \in rows[k].ids)
          /\ (attempts[i] > 0) <=> (\E k \in Broadcast(rows) : i \in rows[k].ids)
          /\ st[i] = "FAILED" => attempts[i] > 0
      BY DEF LedgerInv, StatesFollowRows
    <3>2. /\ st'[i] = IF i \in S THEN "BATCHED" ELSE st[i]
          /\ i \in S => st[i] = "QUEUED"
      BY <1>3, <1>9
    <3>3. (st'[i] \in InFlight) <=> (i \in S)
      BY <3>2, <2>3 DEF InFlight
    <3>4. (st'[i] = "CONFIRMED") <=> (st[i] = "CONFIRMED")
      BY <3>2
    <3>5. st'[i] = "FAILED" => st[i] = "FAILED"
      BY <3>2
    <3>6. QED
      BY <3>1, <3>3, <3>4, <3>5
  <2>5. ASSUME NEW k \in DOMAIN rows' PROVE rows'[k].ids \subseteq Listed'
    <3>1. CASE k \in DOMAIN rows
      <4>1. rows'[k].ids \subseteq Listed
        BY <3>1, <1>6 DEF LedgerInv, StatesFollowRows
      <4>2. QED
        BY <4>1, <1>9 DEF Listed
    <3>2. CASE k = Len(rows) + 1
      <4>1. rows'[k].ids = S
        BY <3>2, <1>6, <1>7
      <4>2. QED
        BY <4>1, <1>3, <1>9 DEF Listed
    <3>3. QED
      BY <3>1, <3>2, <1>6
  <2>6. \A k, n \in HavingReceipt(rows, {"success"}) :
          rows'[k].ids \intersect rows'[n].ids # {} => k = n
    BY <2>2 DEF LedgerInv, StatesFollowRows
  <2>7. \A i \in Intents :
          /\ (\E k \in HavingReceipt(rows, {"success"}) : i \in rows'[k].ids)
               <=> (\E k \in HavingReceipt(rows, {"success"}) : i \in rows[k].ids)
          /\ (\E k \in Broadcast(rows) : i \in rows'[k].ids)
               <=> (\E k \in Broadcast(rows) : i \in rows[k].ids)
    BY <2>2
  <2>8. \A i \in Intents :
          /\ (st'[i] \in InFlight) <=> (Unresolved' /\ i \in Current'.ids)
          /\ (st'[i] = "CONFIRMED") <=> (\E k \in HavingReceipt(rows, {"success"})' : i \in rows'[k].ids)
          /\ (attempts'[i] > 0) <=> (\E k \in Broadcast(rows)' : i \in rows'[k].ids)
          /\ st'[i] = "FAILED" => attempts'[i] > 0
    BY <1>2, <2>1, <2>2, <2>4, <2>7
  <2>9. QED
    BY <2>2, <2>5, <2>6, <2>8 DEF StatesFollowRows
<1>13. QED
  BY <1>10, <1>11, <1>12 DEF LedgerInv

LEMMA NoteStep == LedgerInv /\ Note => LedgerInv'
<1> SUFFICES ASSUME LedgerInv, Note PROVE LedgerInv'
  OBVIOUS
<1> DEFINE L == Len(rows)
           b == [Current EXCEPT !.count = @ + 1]
<1>1. /\ Unresolved /\ rows' = [rows EXCEPT ![L] = b] /\ UNCHANGED executed
      /\ st' = Set(Current.ids, "SUBMITTED")
      /\ attempts' = [i \in Intents |->
           IF i \in Current.ids /\ Current.count = 0 THEN attempts[i] + 1 ELSE attempts[i]]
  BY DEF Note, SetRow
<1>2. /\ L \in DOMAIN rows /\ L \in Nat /\ DOMAIN rows = 1 .. L
      /\ Current \in BatchRecords /\ Current.ids \in SUBSET Intents /\ Current.count \in Nat
      /\ Current.receipt = "none" /\ Current = rows[L]
      /\ rows \in Seq(BatchRecords) /\ rows # << >>
  BY <1>1, LastRow DEF LedgerInv, TablesTyped, Unresolved
<1>3. /\ b \in BatchRecords /\ b.ids = Current.ids /\ b.count = Current.count + 1
      /\ b.receipt = "none" /\ b.count > 0
  BY <1>2 DEF BatchRecords
<1> HIDE DEF b
<1>4. /\ rows' \in Seq(BatchRecords) /\ Len(rows') = L /\ rows' # << >> /\ rows'[L] = b
      /\ DOMAIN rows' = DOMAIN rows
      /\ \A k \in DOMAIN rows : k # L => rows'[k] = rows[k]
  BY <1>1, <1>2, <1>3, WriteRow
<1>5. /\ DOMAIN st' = Intents
      /\ \A i \in Intents : st'[i] = IF i \in Current.ids THEN "SUBMITTED" ELSE st[i]
  BY <1>1, SetMoves DEF LedgerInv
<1>6. TablesTyped'
  <2>1. st' = [i \in Intents |-> st'[i]]
    BY <1>1 DEF Set
  <2>2. \A i \in Intents : st'[i] \in {"ABSENT", "QUEUED"} \union InFlight \union Terminal
    BY <1>5 DEF LedgerInv, TablesTyped, InFlight
  <2>3. st' \in [Intents -> {"ABSENT", "QUEUED"} \union InFlight \union Terminal]
    BY <2>1, <2>2
  <2>4. attempts' \in [Intents -> Nat]
    BY <1>1 DEF LedgerInv, TablesTyped
  <2>5. QED
    BY <2>3, <2>4, <1>1, <1>4 DEF LedgerInv, TablesTyped
<1>7. RowsFollowChain'
  <2>1. Len(executed') <= Len(rows')
    BY <1>1, <1>4 DEF LedgerInv, RowsFollowChain
  <2>2. ASSUME NEW k \in DOMAIN rows'
        PROVE  /\ rows'[k].ids # {} /\ Cardinality(rows'[k].ids) <= BatchSize
               /\ rows'[k].receipt = "none" => k = Len(rows')
               /\ rows'[k].receipt # "none" =>
                    k <= Len(executed') /\ executed'[k] = (rows'[k].receipt = "success")
               /\ k <= Len(executed') => rows'[k].count > 0
    <3>1. CASE k # L
      BY <3>1, <1>1, <1>4 DEF LedgerInv, RowsFollowChain
    <3>2. CASE k = L
      BY <3>2, <1>1, <1>2, <1>3, <1>4 DEF LedgerInv, RowsFollowChain
    <3>3. QED
      BY <3>1, <3>2
  <2>3. QED
    BY <2>1, <2>2 DEF RowsFollowChain
<1>8. StatesFollowRows'
  <2>1. Unresolved' /\ Current'.ids = Current.ids
    BY <1>3, <1>4 DEF Unresolved, Current
  <2>2. /\ HavingReceipt(rows, {"success"})' = HavingReceipt(rows, {"success"})
        /\ Broadcast(rows)' = Broadcast(rows) \union {L}
        /\ \A k \in DOMAIN rows : rows'[k].ids = rows[k].ids
    BY <1>2, <1>3, <1>4 DEF HavingReceipt, Broadcast
  <2>3. HavingReceipt(rows, {"success"}) \subseteq DOMAIN rows
    BY DEF HavingReceipt
  <2>4. ASSUME NEW i \in Intents
        PROVE  /\ (st'[i] \in InFlight) <=> (Unresolved' /\ i \in Current'.ids)
               /\ (st'[i] = "CONFIRMED") <=> (\E k \in HavingReceipt(rows, {"success"})' : i \in rows'[k].ids)
               /\ (attempts'[i] > 0) <=> (\E k \in Broadcast(rows)' : i \in rows'[k].ids)
               /\ st'[i] = "FAILED" => attempts'[i] > 0
    <3>1. /\ (st[i] \in InFlight) <=> (i \in Current.ids)
          /\ (st[i] = "CONFIRMED") <=> (\E k \in HavingReceipt(rows, {"success"}) : i \in rows[k].ids)
          /\ (attempts[i] > 0) <=> (\E k \in Broadcast(rows) : i \in rows[k].ids)
          /\ st[i] = "FAILED" => attempts[i] > 0
      BY <1>1 DEF LedgerInv, StatesFollowRows
    <3>2. (st'[i] \in InFlight) <=> (Unresolved' /\ i \in Current'.ids)
      BY <3>1, <1>5, <2>1 DEF InFlight
    <3>3. (st'[i] = "CONFIRMED") <=> (\E k \in HavingReceipt(rows, {"success"})' : i \in rows'[k].ids)
      <4>1. (st'[i] = "CONFIRMED") <=> (st[i] = "CONFIRMED")
        BY <3>1, <1>5 DEF InFlight
      <4>2. QED
        BY <4>1, <3>1, <2>2, <2>3
    <3>4. attempts[i] \in Nat
      BY DEF LedgerInv, TablesTyped
    <3>5. (attempts'[i] > 0) <=> (\E k \in Broadcast(rows)' : i \in rows'[k].ids)
      <4>1. CASE i \in Current.ids
        <5>1. \E k \in Broadcast(rows)' : i \in rows'[k].ids
          BY <4>1, <1>2, <2>2
        <5>2. attempts'[i] > 0
          <6>1. CASE Current.count = 0
            BY <6>1, <4>1, <1>1, <3>4
          <6>2. CASE Current.count # 0
            <7>1. L \in Broadcast(rows)
              BY <6>2, <1>2 DEF Broadcast
            <7>2. attempts[i] > 0
              BY <7>1, <3>1, <4>1, <1>2
            <7>3. QED
              BY <7>2, <6>2, <1>1
          <6>3. QED
            BY <6>1, <6>2
        <5>3. QED
          BY <5>1, <5>2
      <4>2. CASE i \notin Current.ids
        <5>1. attempts'[i] = attempts[i]
          BY <4>2, <1>1
        <5>2. i \notin rows'[L].ids
          BY <4>2, <1>2, <2>2
        <5>3. \A k \in Broadcast(rows) : rows'[k].ids = rows[k].ids
          BY <2>2 DEF Broadcast
        <5>4. QED
          BY <5>1, <5>2, <5>3, <2>2, <3>1
      <4>3. QED
        BY <4>1, <4>2
    <3>6. st'[i] = "FAILED" => attempts'[i] > 0
      <4>1. st'[i] = "FAILED" => st[i] = "FAILED" /\ i \notin Current.ids
        BY <1>5
      <4>2. i \notin Current.ids => attempts'[i] = attempts[i]
        BY <1>1
      <4>3. QED
        BY <4>1, <4>2, <3>1
    <3>7. QED
      BY <3>2, <3>3, <3>5, <3>6
  <2>5. ASSUME NEW k \in DOMAIN rows' PROVE rows'[k].ids \subseteq Listed'
    <3>1. rows'[k].ids \subseteq Listed
      BY <1>4, <2>2 DEF LedgerInv, StatesFollowRows
    <3>2. QED
      BY <3>1, <1>5 DEF Listed
  <2>6. \A k, n \in HavingReceipt(rows, {"success"})' :
          rows'[k].ids \intersect rows'[n].ids # {} => k = n
    BY <2>2, <2>3 DEF LedgerInv, StatesFollowRows
  <2>7. QED
    BY <2>4, <2>5, <2>6 DEF StatesFollowRows
<1>9. QED
  BY <1>6, <1>7, <1>8 DEF LedgerInv

LEMMA ResolveStep == LedgerInv /\ Resolve => LedgerInv'
<1> SUFFICES ASSUME LedgerInv, Resolve PROVE LedgerInv'
  OBVIOUS
<1> DEFINE L == Len(rows)
           ok == executed[L]
           b == [Current EXCEPT !.receipt = IF ok THEN "success" ELSE "reverted"]
<1>1. PICK late \in SUBSET Current.ids :
        /\ Unresolved /\ Len(executed) = L /\ rows' = [rows EXCEPT ![L] = b]
        /\ UNCHANGED <<attempts, executed>>
        /\ st' = [i \in Intents |->
                    IF i \notin Current.ids THEN st[i]
                    ELSE IF ok THEN "CONFIRMED" ELSE AfterRevert(i, late)]
  BY DEF Resolve, SetRow
<1>2. /\ L \in DOMAIN rows /\ L \in Nat /\ DOMAIN rows = 1 .. L
      /\ Current \in BatchRecords /\ Current.ids \in SUBSET Intents /\ Current.count \in Nat
      /\ Current.receipt = "none" /\ Current = rows[L]
      /\ rows \in Seq(BatchRecords) /\ rows # << >>
  BY <1>1, LastRow DEF LedgerInv, TablesTyped, Unresolved
<1>3. /\ ok \in BOOLEAN /\ Current.count > 0
      /\ \A i \in Current.ids : attempts[i] > 0 /\ attempts[i] \in Nat /\ st[i] \in InFlight
  <2>1. ok \in BOOLEAN
    BY <1>1, <1>2, ElementOfSeq DEF LedgerInv, TablesTyped
  <2>2. Current.count > 0
    BY <1>1, <1>2 DEF LedgerInv, RowsFollowChain
  <2>3. L \in Broadcast(rows)
    BY <2>2, <1>2 DEF Broadcast
  <2>4. \A i \in Current.ids : attempts[i] > 0 /\ attempts[i] \in Nat /\ st[i] \in InFlight
    BY <2>3, <1>1, <1>2 DEF LedgerInv, StatesFollowRows, TablesTyped
  <2>5. QED
    BY <2>1, <2>2, <2>4
<1>4. /\ b \in BatchRecords /\ b.ids = Current.ids /\ b.count = Current.count
      /\ b.receipt # "none" /\ (b.receipt = "success") = ok
  BY <1>2, <1>3 DEF BatchRecords
<1>5. \A i \in Current.ids :
        /\ AfterRevert(i, late) \in {"EXPIRED", "FAILED", "QUEUED"}
  BY DEF AfterRevert
<1>6. /\ DOMAIN st' = Intents
      /\ \A i \in Intents \ Current.ids : st'[i] = st[i]
      /\ \A i \in Current.ids :
           IF ok THEN st'[i] = "CONFIRMED" ELSE st'[i] \in {"EXPIRED", "FAILED", "QUEUED"}
  BY <1>1, <1>2, <1>5
<1> HIDE DEF b, ok
<1>7. /\ rows' \in Seq(BatchRecords) /\ Len(rows') = L /\ rows' # << >> /\ rows'[L] = b
      /\ DOMAIN rows' = DOMAIN rows
      /\ \A k \in DOMAIN rows : k # L => rows'[k] = rows[k]
  BY <1>1, <1>2, <1>4, WriteRow
<1>8. TablesTyped'
  <2>1. st' = [i \in Intents |-> st'[i]]
    BY <1>1
  <2>2. \A i \in Intents : st'[i] \in {"ABSENT", "QUEUED"} \union InFlight \union Terminal
    BY <1>3, <1>6 DEF LedgerInv, TablesTyped, Terminal
  <2>3. st' \in [Intents -> {"ABSENT", "QUEUED"} \union InFlight \union Terminal]
    BY <2>1, <2>2
  <2>4. QED
    BY <2>3, <1>1, <1>7 DEF LedgerInv, TablesTyped
<1>9. RowsFollowChain'
  <2>1. Len(executed') <= Len(rows')
    BY <1>1, <1>7 DEF LedgerInv, RowsFollowChain
  <2>2. ASSUME NEW k \in DOMAIN rows'
        PROVE  /\ rows'[k].ids # {} /\ Cardinality(rows'[k].ids) <= BatchSize
               /\ rows'[k].receipt = "none" => k = Len(rows')
               /\ rows'[k].receipt # "none" =>
                    k <= Len(executed') /\ executed'[k] = (rows'[k].receipt = "success")
               /\ k <= Len(executed') => rows'[k].count > 0
    <3>1. CASE k # L
      BY <3>1, <1>1, <1>7 DEF LedgerInv, RowsFollowChain
    <3>2. CASE k = L
      <4>1. rows'[k] = b /\ rows[k].ids # {} /\ Cardinality(rows[k].ids) <= BatchSize
        BY <3>2, <1>2, <1>7 DEF LedgerInv, RowsFollowChain
      <4>2. k <= Len(executed') /\ executed'[k] = ok
        BY <3>2, <1>1, <1>2 DEF ok
      <4>3. QED
        BY <3>2, <4>1, <4>2, <1>2, <1>3, <1>4
    <3>3. QED
      BY <3>1, <3>2
  <2>3. QED
    BY <2>1, <2>2 DEF RowsFollowChain
<1>10. StatesFollowRows'
  <2>1. ~Unresolved'
    BY <1>4, <1>7 DEF Unresolved
  <2>2. /\ HavingReceipt(rows, {"success"})' =
             HavingReceipt(rows, {"success"}) \union (IF ok THEN {L} ELSE {})
        /\ Broadcast(rows)' = Broadcast(rows)
        /\ \A k \in DOMAIN rows : rows'[k].ids = rows[k].ids
        /\ L \notin HavingReceipt(rows, {"success"})
    BY <1>2, <1>3, <1>4, <1>7 DEF HavingReceipt, Broadcast
  <2>3. HavingReceipt(rows, {"success"}) \subseteq DOMAIN rows /\ Broadcast(rows) \subseteq DOMAIN rows
    BY DEF HavingReceipt, Broadcast
  <2>4. ASSUME NEW i \in Intents
        PROVE  /\ st'[i] \notin InFlight
               /\ (st'[i] = "CONFIRMED") <=> (\E k \in HavingReceipt(rows, {"success"})' : i \in rows'[k].ids)
               /\ (attempts'[i] > 0) <=> (\E k \in Broadcast(rows)' : i \in rows'[k].ids)
               /\ st'[i] = "FAILED" => attempts'[i] > 0
    <3>1. /\ (st[i] \in InFlight) <=> (i \in Current.ids)
          /\ (st[i] = "CONFIRMED") <=> (\E k \in HavingReceipt(rows, {"success"}) : i \in rows[k].ids)
          /\ (attempts[i] > 0) <=> (\E k \in Broadcast(rows) : i \in rows[k].ids)
          /\ st[i] = "FAILED" => attempts[i] > 0
      BY <1>1 DEF LedgerInv, StatesFollowRows
    <3>2. st'[i] \notin InFlight
      BY <3>1, <1>3, <1>6 DEF InFlight
    <3>3. (st'[i] = "CONFIRMED") <=> (\E k \in HavingReceipt(rows, {"success"})' : i \in rows'[k].ids)
      <4>1. \A k \in HavingReceipt(rows, {"success"}) : rows'[k].ids = rows[k].ids
        BY <2>2, <2>3
      <4>2. rows'[L].ids = Current.ids
        BY <1>2, <2>2
      <4>3. CASE i \notin Current.ids
        <5>1. st'[i] = st[i]
          BY <4>3, <1>6
        <5>2. QED
          BY <4>1, <4>2, <4>3, <5>1, <3>1, <2>2
      <4>4. CASE i \in Current.ids /\ ok
        BY <4>2, <4>4, <1>6, <2>2
      <4>5. CASE i \in Current.ids /\ ~ok
        <5>1. st'[i] # "CONFIRMED" /\ st[i] # "CONFIRMED"
          BY <4>5, <1>6, <3>1 DEF InFlight
        <5>2. QED
          BY <4>1, <4>5, <5>1, <3>1, <2>2
      <4>6. QED
        BY <4>3, <4>4, <4>5, <1>3
    <3>4. (attempts'[i] > 0) <=> (\E k \in Broadcast(rows)' : i \in rows'[k].ids)
      BY <3>1, <1>1, <2>2, <2>3
    <3>5. st'[i] = "FAILED" => attempts'[i] > 0
      BY <3>1, <1>1, <1>3, <1>6
    <3>6. QED
      BY <3>2, <3>3, <3>4, <3>5
  <2>5. ASSUME NEW k \in DOMAIN rows' PROVE rows'[k].ids \subseteq Listed'
    <3>1. rows'[k].ids \subseteq Listed
      BY <1>7, <2>2 DEF LedgerInv, StatesFollowRows
    <3>2. QED
      BY <3>1, <1>6, <1>3 DEF Listed
  <2>6. ASSUME NEW k \in HavingReceipt(rows, {"success"})', NEW n \in HavingReceipt(rows, {"success"})',
               rows'[k].ids \intersect rows'[n].ids # {}
        PROVE  k = n
    <3>1. \A m \in HavingReceipt(rows, {"success"}) :
            rows[m].ids \intersect Current.ids = {}
      <4> SUFFICES ASSUME NEW m \in HavingReceipt(rows, {"success"}),
                          NEW i \in rows[m].ids \intersect Current.ids
                   PROVE  FALSE
        OBVIOUS
      <4>1. i \in Intents /\ st[i] \in InFlight
        BY <1>2, <1>3
      <4>2. st[i] = "CONFIRMED"
        BY <4>1 DEF LedgerInv, StatesFollowRows
      <4>3. QED
        BY <4>1, <4>2 DEF InFlight
    <3>2. rows'[k].ids = rows[k].ids /\ rows'[n].ids = rows[n].ids /\ rows[L].ids = Current.ids
      BY <1>2, <2>2, <2>3
    <3>3. CASE k # L /\ n # L
      <4>1. k \in HavingReceipt(rows, {"success"}) /\ n \in HavingReceipt(rows, {"success"})
        BY <3>3, <2>2
      <4>2. QED
        BY <4>1, <3>2, <2>6 DEF LedgerInv, StatesFollowRows
    <3>4. CASE k = L /\ n # L
      BY <3>4, <3>1, <3>2, <2>2, <2>6
    <3>5. CASE k # L /\ n = L
      BY <3>5, <3>1, <3>2, <2>2, <2>6
    <3>6. QED
      BY <3>3, <3>4, <3>5
  <2>7. QED
    BY <2>1, <2>4, <2>5, <2>6 DEF StatesFollowRows
<1>11. QED
  BY <1>8, <1>9, <1>10 DEF LedgerInv

LEMMA CoordinateStep == LedgerInv /\ Coordinate => LedgerInv'
BY ExpireStep, RejectStep, PrepareStep, NoteStep, DoubtStep, ExecuteStep, ResolveStep
   DEF Coordinate

-----------------------------------------------------------------------------
(***************************************************************************)
(* What a step of the coordinator changes: no intent comes or leaves, what *)
(* is terminal stays, an intent that is sent counts an attempt, and rows   *)
(* are completed, never taken back.                                        *)
(***************************************************************************)
Moves ==
  /\ Listed' = Listed
  /\ \A i \in Intents \ Transitioned : st'[i] = st[i] /\ attempts'[i] = attempts[i]
  /\ \A i \in Transitioned :
       /\ i \in Intents /\ st[i] \notin Terminal
       /\ st'[i] = "SUBMITTED" => attempts'[i] > 0
       /\ st'[i] # "SUBMITTED" => attempts'[i] = attempts[i]
  /\ \A i \in Intents : attempts[i] > 0 => attempts'[i] > 0

Grow ==
  /\ Len(rows) <= Len(rows')
  /\ \A k \in DOMAIN rows :
       /\ k \in DOMAIN rows' /\ rows'[k].ids = rows[k].ids
       /\ rows[k].count <= rows'[k].count /\ rows[k].receipt \in {"none", rows'[k].receipt}

(* Nothing is broadcast: the rows that are there stay.                     *)
LEMMA QuietMoves ==
  ASSUME LedgerInv, UNCHANGED attempts,
         \A k \in DOMAIN rows : rows'[k] = rows[k],
         \A i \in Intents : st'[i] # st[i] =>
           st[i] \in InFlight \union {"QUEUED"} /\ st'[i] \notin {"ABSENT", "SUBMITTED"}
  PROVE  Moves
<1>1. ~Noting
  <2> SUFFICES ASSUME Unresolved PROVE ~(rows'[Len(rows)].count > Current.count)
    BY DEF Noting
  <2>1. Len(rows) \in DOMAIN rows /\ Current.count \in Nat /\ Current = rows[Len(rows)]
    BY LastRow DEF LedgerInv
  <2>2. rows'[Len(rows)].count = Current.count
    BY <2>1
  <2>3. QED
    BY <2>1, <2>2
<1>2. Transitioned = {i \in Intents : st'[i] # st[i]}
  BY <1>1 DEF Transitioned
<1>3. Listed' = Listed
  BY DEF Listed, InFlight
<1>4. \A i \in Transitioned : i \in Intents /\ st[i] \notin Terminal /\ st'[i] # "SUBMITTED"
  BY <1>2 DEF InFlight, Terminal
<1>5. QED
  BY <1>2, <1>3, <1>4 DEF Moves

LEMMA SameRowsGrow ==
  ASSUME LedgerInv, UNCHANGED rows
  PROVE  Grow
<1>1. \A k \in DOMAIN rows : rows[k].count \in Nat /\ Len(rows) \in Nat
  BY RowTyped DEF LedgerInv
<1>2. Len(rows) \in Nat
  BY LenProperties DEF LedgerInv, TablesTyped
<1>3. QED
  BY <1>1, <1>2 DEF Grow

LEMMA StateMovesQuietly ==
  ASSUME LedgerInv, Expire \/ Reject \/ Doubt \/ Execute
  PROVE  Moves /\ Grow
<1>1. UNCHANGED <<attempts, rows>>
  BY DEF Expire, Reject, Doubt, Execute
<1>2. ASSUME NEW i \in Intents, st'[i] # st[i]
      PROVE  st[i] \in InFlight \union {"QUEUED"} /\ st'[i] \notin {"ABSENT", "SUBMITTED"}
  <2>1. CASE Expire
    <3>1. PICK S \in (SUBSET Queued) \ {{}} : st' = Set(S, "EXPIRED")
      BY <2>1 DEF Expire
    <3>2. i \in S /\ st'[i] = "EXPIRED"
      BY <1>2, <3>1, SetMoves DEF LedgerInv
    <3>3. QED
      BY <3>1, <3>2 DEF Queued
  <2>2. CASE Reject
    <3>1. PICK j \in Queued : st' = Set({j}, IF attempts[j] > 0 THEN "FAILED" ELSE "REJECTED")
      BY <2>2 DEF Reject
    <3>2. i = j /\ st'[i] \in {"FAILED", "REJECTED"}
      BY <1>2, <3>1, SetMoves DEF LedgerInv
    <3>3. QED
      BY <3>1, <3>2 DEF Queued
  <2>3. CASE Doubt
    <3>1. i \in Current.ids /\ st'[i] = "RECONCILING" /\ Unresolved
      BY <1>2, <2>3, SetMoves DEF LedgerInv, Doubt
    <3>2. QED
      BY <3>1 DEF LedgerInv, StatesFollowRows
  <2>4. CASE Execute
    BY <1>2, <2>4 DEF Execute
  <2>5. QED
    BY <2>1, <2>2, <2>3, <2>4
<1>3. QED
  BY <1>1, <1>2, QuietMoves, SameRowsGrow

LEMMA PrepareMoves ==
  ASSUME LedgerInv, Prepare
  PROVE  Moves /\ Grow
<1>1. PICK S \in (SUBSET Queued) \ {{}} :
        /\ rows' = Append(rows, [ids |-> S, count |-> 0, receipt |-> "none"])
        /\ st' = Set(S, "BATCHED")
  BY DEF Prepare
<1>2. [ids |-> S, count |-> 0, receipt |-> "none"] \in BatchRecords
  BY DEF BatchRecords, Queued
<1>3. /\ Len(rows') = Len(rows) + 1 /\ DOMAIN rows' = DOMAIN rows \union {Len(rows) + 1}
      /\ \A k \in DOMAIN rows : rows'[k] = rows[k]
  BY <1>1, <1>2, AppendRow DEF LedgerInv, TablesTyped
<1>4. Len(rows) \in Nat /\ \A k \in DOMAIN rows : rows[k].count \in Nat
  BY LenProperties, RowTyped DEF LedgerInv, TablesTyped
<1>5. Grow
  BY <1>3, <1>4 DEF Grow
<1>6. ASSUME NEW i \in Intents, st'[i] # st[i]
      PROVE  st[i] \in InFlight \union {"QUEUED"} /\ st'[i] \notin {"ABSENT", "SUBMITTED"}
  <2>1. i \in S /\ st'[i] = "BATCHED"
    BY <1>1, <1>6, SetMoves DEF LedgerInv
  <2>2. QED
    BY <2>1 DEF Queued
<1>7. UNCHANGED attempts
  BY DEF Prepare
<1>8. QED
  BY <1>3, <1>5, <1>6, <1>7, QuietMoves

LEMMA NoteMoves ==
  ASSUME LedgerInv, Note
  PROVE  Moves /\ Grow
<1> DEFINE L == Len(rows)
           b == [Current EXCEPT !.count = @ + 1]
<1>1. /\ Unresolved /\ rows' = [rows EXCEPT ![L] = b]
      /\ st' = Set(Current.ids, "SUBMITTED")
      /\ attempts' = [i \in Intents |->
           IF i \in Current.ids /\ Current.count = 0 THEN attempts[i] + 1 ELSE attempts[i]]
  BY DEF Note, SetRow
<1>2. /\ L \in DOMAIN rows /\ L \in Nat /\ DOMAIN rows = 1 .. L
      /\ Current \in BatchRecords /\ Current.ids \in SUBSET Intents /\ Current.count \in Nat
      /\ Current.receipt = "none" /\ Current = rows[L]
      /\ rows \in Seq(BatchRecords) /\ rows # << >>
  BY <1>1, LastRow DEF LedgerInv, TablesTyped, Unresolved
<1>3. /\ b \in BatchRecords /\ b.ids = Current.ids /\ b.count = Current.count + 1
      /\ b.receipt = "none"
  BY <1>2 DEF BatchRecords
<1> HIDE DEF b
<1>4. /\ Len(rows') = L /\ rows'[L] = b /\ DOMAIN rows' = DOMAIN rows
      /\ \A k \in DOMAIN rows : k # L => rows'[k] = rows[k]
  BY <1>1, <1>2, <1>3, WriteRow
<1>5. Grow
  <2>1. ASSUME NEW k \in DOMAIN rows
        PROVE  /\ k \in DOMAIN rows' /\ rows'[k].ids = rows[k].ids
               /\ rows[k].count <= rows'[k].count /\ rows[k].receipt \in {"none", rows'[k].receipt}
    <3>1. rows[k].count \in Nat
      BY RowTyped DEF LedgerInv
    <3>2. CASE k = L
      BY <3>1, <3>2, <1>2, <1>3, <1>4
    <3>3. CASE k # L
      BY <3>1, <3>3, <1>4
    <3>4. QED
      BY <3>2, <3>3
  <2>2. QED
    BY <2>1, <1>2, <1>4 DEF Grow
<1>6. Noting
  BY <1>1, <1>2, <1>3, <1>4 DEF Noting
<1>7. /\ DOMAIN st' = Intents
      /\ \A i \in Intents : st'[i] = IF i \in Current.ids THEN "SUBMITTED" ELSE st[i]
  BY <1>1, SetMoves DEF LedgerInv
<1>8. Transitioned = Current.ids
  BY <1>2, <1>6, <1>7 DEF Transitioned
<1>9. \A i \in Current.ids : i \in Intents /\ st[i] \in InFlight /\ attempts[i] \in Nat
  BY <1>1, <1>2 DEF LedgerInv, StatesFollowRows, TablesTyped
<1>10. \A i \in Current.ids : attempts'[i] > 0
  <2> SUFFICES ASSUME NEW i \in Current.ids PROVE attempts'[i] > 0
    OBVIOUS
  <2>1. CASE Current.count = 0
    BY <2>1, <1>1, <1>9
  <2>2. CASE Current.count # 0
    <3>1. L \in Broadcast(rows) /\ i \in rows[L].ids /\ i \in Intents
      BY <2>2, <1>2, <1>9 DEF Broadcast
    <3>2. attempts[i] > 0
      BY <3>1 DEF LedgerInv, StatesFollowRows
    <3>3. QED
      BY <3>1, <3>2, <2>2, <1>1
  <2>3. QED
    BY <2>1, <2>2
<1>11. Listed' = Listed
  BY <1>7, <1>9 DEF Listed, InFlight
<1>12. \A i \in Intents \ Current.ids : st'[i] = st[i] /\ attempts'[i] = attempts[i]
  BY <1>1, <1>7
<1>13. \A i \in Intents : attempts[i] > 0 => attempts'[i] > 0
  BY <1>10, <1>12
<1>14. \A i \in Current.ids : st[i] \notin Terminal /\ st'[i] = "SUBMITTED"
  BY <1>7, <1>9 DEF InFlight, Terminal
<1>15. QED
  BY <1>5, <1>8, <1>9, <1>10, <1>11, <1>12, <1>13, <1>14 DEF Moves

LEMMA ResolveMoves ==
  ASSUME LedgerInv, Resolve
  PROVE  Moves /\ Grow
<1> DEFINE L == Len(rows)
           ok == executed[L]
           b == [Current EXCEPT !.receipt = IF ok THEN "success" ELSE "reverted"]
<1>1. PICK late \in SUBSET Current.ids :
        /\ Unresolved /\ rows' = [rows EXCEPT ![L] = b] /\ UNCHANGED attempts
        /\ st' = [i \in Intents |->
                    IF i \notin Current.ids THEN st[i]
                    ELSE IF ok THEN "CONFIRMED" ELSE AfterRevert(i, late)]
  BY DEF Resolve, SetRow
<1>2. /\ L \in DOMAIN rows /\ L \in Nat /\ DOMAIN rows = 1 .. L
      /\ Current \in BatchRecords /\ Current.ids \in SUBSET Intents /\ Current.count \in Nat
      /\ Current.receipt = "none" /\ Current = rows[L]
      /\ rows \in Seq(BatchRecords) /\ rows # << >>
  BY <1>1, LastRow DEF LedgerInv, TablesTyped, Unresolved
<1>3. b \in BatchRecords /\ b.ids = Current.ids /\ b.count = Current.count
  BY <1>2 DEF BatchRecords
<1>4. \A i \in Current.ids : AfterRevert(i, late) \in {"EXPIRED", "FAILED", "QUEUED"}
  BY DEF AfterRevert
<1>5. /\ \A i \in Intents \ Current.ids : st'[i] = st[i]
      /\ \A i \in Current.ids : st'[i] \in {"CONFIRMED", "EXPIRED", "FAILED", "QUEUED"}
  BY <1>1, <1>2, <1>4
<1> HIDE DEF b, ok
<1>6. /\ Len(rows') = L /\ rows'[L] = b /\ DOMAIN rows' = DOMAIN rows
      /\ \A k \in DOMAIN rows : k # L => rows'[k] = rows[k]
  BY <1>1, <1>2, <1>3, WriteRow
<1>7. Grow
  <2>1. ASSUME NEW k \in DOMAIN rows
        PROVE  /\ k \in DOMAIN rows' /\ rows'[k].ids = rows[k].ids
               /\ rows[k].count <= rows'[k].count /\ rows[k].receipt \in {"none", rows'[k].receipt}
    <3>1. rows[k].count \in Nat
      BY RowTyped DEF LedgerInv
    <3>2. CASE k = L
      BY <3>1, <3>2, <1>2, <1>3, <1>6
    <3>3. CASE k # L
      BY <3>1, <3>3, <1>6
    <3>4. QED
      BY <3>2, <3>3
  <2>2. QED
    BY <2>1, <1>2, <1>6 DEF Grow
<1>8. ~Noting
  BY <1>2, <1>3, <1>6 DEF Noting
<1>9. \A i \in Current.ids : i \in Intents /\ st[i] \in InFlight
  BY <1>1, <1>2 DEF LedgerInv, StatesFollowRows
<1>10. Transitioned = Current.ids
  BY <1>2, <1>5, <1>8, <1>9 DEF Transitioned, InFlight
<1>11. Listed' = Listed
  BY <1>5, <1>9 DEF Listed, InFlight
<1>12. \A i \in Current.ids : st[i] \notin Terminal /\ st'[i] # "SUBMITTED"
  BY <1>5, <1>9 DEF InFlight, Terminal
<1>13. QED
  BY <1>1, <1>5, <1>7, <1>9, <1>10, <1>11, <1>12 DEF Moves

LEMMA CoordinateMoves == LedgerInv /\ Coordinate => Moves /\ Grow
BY StateMovesQuietly, PrepareMoves, NoteMoves, ResolveMoves DEF Coordinate

-----------------------------------------------------------------------------
(***************************************************************************)
(* The times.                                                              *)
(***************************************************************************)

(* What TimesFollow says of intent i, without the record Answer makes.     *)
TimesOf(i) ==
  /\ times[i].received <= times[i].event /\ times[i].event <= clock
  /\ (attempts[i] > 0) <=> (times[i].submitted # Never)
  /\ attempts[i] > 0 => times[i].received <= times[i].submitted /\ times[i].submitted <= times[i].event
  /\ times[i].confirmed = IF st[i] = "CONFIRMED" THEN times[i].event ELSE Never

LEMMA TimesRead == TimesFollow <=> \A i \in Listed : TimesOf(i)
BY DEF TimesFollow, TimesOf, Tells, Answer

LEMMA TimesTyped ==
  ASSUME RecordsTypeOK, NEW i \in Intents
  PROVE  /\ times[i].received \in Nat /\ times[i].submitted \in Nat
         /\ times[i].confirmed \in Nat /\ times[i].event \in Nat
         /\ times[i] = [received |-> times[i].received, submitted |-> times[i].submitted,
                        confirmed |-> times[i].confirmed, event |-> times[i].event]
         /\ clock \in Nat /\ clock > 0 /\ times[i] \in Times
BY ClockAssumption DEF RecordsTypeOK, Times

(* Of an intent that transitions: the event is now, and the first          *)
(* submission stays.                                                       *)
LEMMA RecordedTimes ==
  ASSUME RecordsTypeOK, RecordSteps, NEW i \in Intents
  PROVE  /\ clock' = clock
         /\ i \notin Transitioned => times'[i] = times[i]
         /\ i \in Transitioned =>
              /\ times'[i].received = times[i].received
              /\ times'[i].event = clock
              /\ times'[i].submitted =
                   IF st'[i] = "SUBMITTED" THEN FirstSubmission(i) ELSE times[i].submitted
              /\ times'[i].confirmed =
                   IF st'[i] = "CONFIRMED" THEN clock ELSE times[i].confirmed
         /\ times'[i] \in Times
<1>1. times[i] \in Times /\ clock \in Nat
  BY TimesTyped
<1>2. /\ clock' = clock
      /\ times'[i] =
           IF i \notin Transitioned THEN times[i]
           ELSE [times[i] EXCEPT !.event = clock,
                                 !.submitted = IF st'[i] = "SUBMITTED" THEN FirstSubmission(i) ELSE @,
                                 !.confirmed = IF st'[i] = "CONFIRMED" THEN clock ELSE @]
  BY DEF RecordSteps
<1>3. FirstSubmission(i) \in Nat
  BY <1>1 DEF FirstSubmission, Times
<1>4. QED
  BY <1>1, <1>2, <1>3 DEF Times

LEMMA TimesStep ==
  ASSUME RecordsTypeOK, LedgerInv, TimesFollow, Moves, RecordSteps
  PROVE  /\ RecordsTypeOK' /\ TimesFollow'
         /\ \A i \in Intents : times[i].submitted # Never => times'[i].submitted = times[i].submitted
<1>1. RecordsTypeOK'
  <2>1. times' = [i \in Intents |-> times'[i]] /\ clock' = clock
    BY DEF RecordSteps
  <2>2. \A i \in Intents : times'[i] \in Times
    BY RecordedTimes
  <2>3. times' \in [Intents -> Times]
    BY <2>1, <2>2
  <2>4. QED
    BY <2>1, <2>3 DEF RecordsTypeOK
<1>2. ASSUME NEW i \in Listed' PROVE TimesOf(i)'
  <2>1. i \in Listed /\ i \in Intents
    BY DEF Moves, Listed
  <2>2. TimesOf(i)
    BY <2>1, TimesRead
  <2>3. clock \in Nat /\ clock > 0 /\ clock' = clock /\ times[i].received \in Nat
        /\ times[i].event \in Nat /\ times[i].submitted \in Nat
    BY <2>1, TimesTyped, RecordedTimes
  <2>4. CASE i \notin Transitioned
    <3>1. st'[i] = st[i] /\ attempts'[i] = attempts[i] /\ times'[i] = times[i]
      BY <2>1, <2>4, RecordedTimes DEF Moves
    <3>2. QED
      BY <3>1, <2>2, <2>3 DEF TimesOf
  <2>5. CASE i \in Transitioned
    <3>1. /\ times'[i].received = times[i].received /\ times'[i].event = clock
          /\ times'[i].submitted =
               IF st'[i] = "SUBMITTED" THEN FirstSubmission(i) ELSE times[i].submitted
          /\ times'[i].confirmed =
               IF st'[i] = "CONFIRMED" THEN clock ELSE times[i].confirmed
      BY <2>1, <2>5, RecordedTimes
    <3>2. /\ st[i] \notin Terminal
          /\ st'[i] = "SUBMITTED" => attempts'[i] > 0
          /\ st'[i] # "SUBMITTED" => attempts'[i] = attempts[i]
      BY <2>5 DEF Moves
    <3>3. times[i].confirmed = Never
      BY <3>2, <2>2 DEF TimesOf, Terminal
    <3>4. times'[i].confirmed = IF st'[i] = "CONFIRMED" THEN times'[i].event ELSE Never
      BY <3>1, <3>3
    <3>5. times'[i].received <= times'[i].event /\ times'[i].event <= clock'
      BY <3>1, <2>2, <2>3 DEF TimesOf
    <3>6. CASE st'[i] = "SUBMITTED"
      <4>1. times'[i].submitted = FirstSubmission(i) /\ attempts'[i] > 0
        BY <3>1, <3>2, <3>6
      <4>2. CASE times[i].submitted = Never
        <5>1. times'[i].submitted = clock
          BY <4>1, <4>2 DEF FirstSubmission
        <5>2. times'[i].submitted # Never
          BY <5>1, <2>3 DEF Never
        <5>3. times'[i].received <= times'[i].submitted /\ times'[i].submitted <= times'[i].event
          BY <5>1, <3>1, <3>5, <2>3
        <5>4. QED
          BY <4>1, <5>2, <5>3, <3>4, <3>5 DEF TimesOf
      <4>3. CASE times[i].submitted # Never
        <5>1. times'[i].submitted = times[i].submitted
          BY <4>1, <4>3 DEF FirstSubmission
        <5>2. attempts[i] > 0 /\ times[i].received <= times[i].submitted
              /\ times[i].submitted <= times[i].event /\ times[i].event <= clock
          BY <4>3, <2>2 DEF TimesOf
        <5>3. QED
          BY <4>1, <4>3, <5>1, <5>2, <3>1, <3>4, <3>5, <2>3 DEF TimesOf
      <4>4. QED
        BY <4>2, <4>3
    <3>7. CASE st'[i] # "SUBMITTED"
      <4>1. times'[i].submitted = times[i].submitted /\ attempts'[i] = attempts[i]
        BY <3>1, <3>2, <3>7
      <4>2. QED
        BY <4>1, <3>1, <3>4, <3>5, <2>2, <2>3 DEF TimesOf
    <3>8. QED
      BY <3>6, <3>7
  <2>6. QED
    BY <2>4, <2>5
<1>3. TimesFollow'
  <2>1. TimesFollow' <=> \A i \in Listed' : TimesOf(i)'
    BY DEF TimesFollow, TimesOf, Tells, Answer
  <2>2. QED
    BY <2>1, <1>2
<1>4. \A i \in Intents : times[i].submitted # Never => times'[i].submitted = times[i].submitted
  BY RecordedTimes DEF FirstSubmission
<1>5. QED
  BY <1>1, <1>3, <1>4

(* A new row: received and last written now, never submitted.              *)
LEMMA InsertTimes ==
  ASSUME RecordsTypeOK, LedgerInv, TimesFollow, NEW i \in Intents, Insert(i), RecordInsert(i)
  PROVE  /\ RecordsTypeOK' /\ TimesFollow' /\ Listed' = Listed \union {i} /\ i \notin Listed
         /\ \A j \in Intents : j # i => times'[j] = times[j]
<1> DEFINE new == [Unknown EXCEPT !.received = clock, !.event = clock]
<1>1. times' = [times EXCEPT ![i] = new] /\ clock' = clock /\ clock \in Nat /\ clock > 0
  BY TimesTyped DEF RecordInsert
<1>2. /\ new \in Times /\ new.received = clock /\ new.event = clock
      /\ new.submitted = Never /\ new.confirmed = Never
  BY <1>1 DEF Unknown, Times, Never
<1> HIDE DEF new
<1>3. times'[i] = new /\ \A j \in Intents : j # i => times'[j] = times[j]
  BY <1>1 DEF RecordsTypeOK
<1>4. RecordsTypeOK'
  BY <1>1, <1>2 DEF RecordsTypeOK
<1>5. /\ \A j \in Intents : st'[j] = IF j = i THEN "QUEUED" ELSE st[j]
      /\ st[i] = "ABSENT" /\ attempts' = attempts
  BY SetMoves DEF Insert, LedgerInv
<1>6. Listed' = Listed \union {i} /\ i \notin Listed
  BY <1>5 DEF Listed
<1>7. ~(attempts[i] > 0)
  <2> SUFFICES ASSUME attempts[i] > 0 PROVE FALSE
    OBVIOUS
  <2>1. PICK k \in Broadcast(rows) : i \in rows[k].ids
    BY DEF LedgerInv, StatesFollowRows
  <2>2. k \in DOMAIN rows
    BY DEF Broadcast
  <2>3. i \in Listed
    BY <2>1, <2>2 DEF LedgerInv, StatesFollowRows
  <2>4. QED
    BY <2>3, <1>6
<1>8. ASSUME NEW j \in Listed' PROVE TimesOf(j)'
  <2>1. CASE j = i
    BY <2>1, <1>1, <1>2, <1>3, <1>5, <1>7 DEF TimesOf
  <2>2. CASE j # i
    <3>1. j \in Listed /\ j \in Intents
      BY <2>2, <1>6 DEF Listed
    <3>2. TimesOf(j)
      BY <3>1, TimesRead
    <3>3. QED
      BY <2>2, <3>1, <3>2, <1>1, <1>3, <1>5 DEF TimesOf
  <2>3. QED
    BY <2>1, <2>2
<1>9. TimesFollow' <=> \A j \in Listed' : TimesOf(j)'
  BY DEF TimesFollow, TimesOf, Tells, Answer
<1>10. QED
  BY <1>3, <1>4, <1>6, <1>8, <1>9

LEMMA ClockTimes ==
  ASSUME RecordsTypeOK, TimesFollow, TimePasses, UNCHANGED ledgerVars
  PROVE  RecordsTypeOK' /\ TimesFollow'
<1>1. clock \in Nat /\ clock' = clock + 1 /\ times' = times
  BY ClockAssumption DEF RecordsTypeOK, TimePasses
<1>2. RecordsTypeOK'
  BY <1>1, ClockAssumption DEF RecordsTypeOK, TimePasses
<1>3. ASSUME NEW i \in Listed' PROVE TimesOf(i)'
  <2>1. i \in Listed /\ i \in Intents /\ st' = st /\ attempts' = attempts
    BY DEF Listed, ledgerVars
  <2>2. TimesOf(i) /\ times[i].event \in Nat
    BY <2>1, TimesRead, TimesTyped
  <2>3. QED
    BY <1>1, <2>1, <2>2 DEF TimesOf
<1>4. TimesFollow' <=> \A i \in Listed' : TimesOf(i)'
  BY DEF TimesFollow, TimesOf, Tells, Answer
<1>5. QED
  BY <1>2, <1>3, <1>4

-----------------------------------------------------------------------------
(***************************************************************************)
(* The relayer's steps, and the submissions.                               *)
(***************************************************************************)

LEMMA RecordsStay ==
  ASSUME LedgerInv, TimesFollow, RecordsTypeOK, UNCHANGED <<ledgerVars, recordVars>>
  PROVE  LedgerInv' /\ TimesFollow' /\ RecordsTypeOK' /\ Listed' = Listed
BY DEF LedgerInv, TablesTyped, RowsFollowChain, StatesFollowRows, TimesFollow, RecordsTypeOK,
   ledgerVars, recordVars, Listed, Answer, Tells, Unresolved, Current, HavingReceipt, Broadcast

(* When all there is has ended, the relayer has nothing to do.             *)
LEMMA NothingLeft ==
  ASSUME LedgerInv, \A i \in Listed : st[i] \in Terminal
  PROVE  ~Coordinate /\ (rows # << >> => Len(executed) = Len(rows) /\ ~Unresolved)
<1>1. \A i \in Intents : st[i] \in {"ABSENT"} \union Terminal
  BY DEF Listed
<1>2. Queued = {}
  BY <1>1 DEF Queued, Terminal
<1>3. ~Unresolved
  <2> SUFFICES ASSUME Unresolved PROVE FALSE
    OBVIOUS
  <2>1. Len(rows) \in DOMAIN rows /\ Current = rows[Len(rows)] /\ Current.ids \in SUBSET Intents
    BY LastRow DEF LedgerInv
  <2>2. PICK i \in Current.ids : TRUE
    BY <2>1 DEF LedgerInv, RowsFollowChain
  <2>3. i \in Intents /\ st[i] \in InFlight
    BY <2>1, <2>2 DEF LedgerInv, StatesFollowRows
  <2>4. QED
    BY <2>3, <1>1 DEF InFlight, Terminal
<1>4. rows # << >> => Len(executed) = Len(rows)
  <2> SUFFICES ASSUME rows # << >> PROVE Len(executed) = Len(rows)
    OBVIOUS
  <2>1. /\ Len(rows) \in Nat /\ Len(executed) \in Nat /\ DOMAIN rows = 1 .. Len(rows)
        /\ Len(rows) # 0
    BY LenProperties, EmptySeq DEF LedgerInv, TablesTyped
  <2>2. Len(rows) \in DOMAIN rows
    BY <2>1
  <2>3. Len(rows) <= Len(executed)
    BY <1>3, <2>2 DEF Unresolved, LedgerInv, RowsFollowChain
  <2>4. QED
    BY <2>1, <2>3 DEF LedgerInv, RowsFollowChain
<1>5. ~Execute
  <2> SUFFICES ASSUME Execute PROVE FALSE
    OBVIOUS
  <2>1. Len(executed) < Len(rows) /\ Len(executed) \in Nat /\ Len(rows) \in Nat
    BY LenProperties DEF Execute, LedgerInv, TablesTyped
  <2>2. rows # << >>
    BY <2>1, EmptySeq
  <2>3. QED
    BY <2>1, <2>2, <1>4
<1>6. ~Expire /\ ~Reject /\ ~Prepare /\ ~Note /\ ~Doubt /\ ~Resolve
  BY <1>2, <1>3 DEF Expire, Reject, Prepare, Note, Doubt, Resolve
<1>7. QED
  BY <1>3, <1>4, <1>5, <1>6 DEF Coordinate

LEMMA SheetsTyped ==
  ASSUME BenchInv
  PROVE  /\ Len(sheets) \in Nat /\ DOMAIN sheets = 1 .. Len(sheets)
         /\ Len(rows) \in Nat /\ DOMAIN rows = 1 .. Len(rows)
         /\ Running => DOMAIN sheets \subseteq DOMAIN rows
<1>1. /\ Len(sheets) \in Nat /\ DOMAIN sheets = 1 .. Len(sheets)
      /\ Len(rows) \in Nat /\ DOMAIN rows = 1 .. Len(rows)
  BY LenProperties DEF BenchInv, FilesFilled, LedgerInv, TablesTyped
<1>2. Running => Len(sheets) <= Len(rows)
  BY DEF BenchInv, BenchTypeOK
<1>3. QED
  BY <1>1, <1>2

LEMMA RelayerRunsStep == BenchInv /\ RelayerRuns => BenchInv'
<1> SUFFICES ASSUME BenchInv, RelayerRuns PROVE BenchInv'
  OBVIOUS
<1>1. Running /\ Coordinate /\ RecordSteps /\ UNCHANGED driverVars
  BY DEF RelayerRuns
<1>2. LedgerInv /\ TimesFollow /\ RecordsTypeOK
  BY DEF BenchInv, BenchTypeOK
<1>3. LedgerInv' /\ Moves /\ Grow
  BY <1>1, <1>2, CoordinateStep, CoordinateMoves
<1>4. RecordsTypeOK' /\ TimesFollow'
  BY <1>1, <1>2, <1>3, TimesStep
<1>5. /\ phase' = phase /\ arriving' = arriving /\ reply' = reply /\ drained' = drained
      /\ observedAt' = observedAt /\ listed' = listed /\ intents' = intents
      /\ sheets' = sheets /\ checks' = checks /\ others' = others
  BY <1>1 DEF driverVars, requestVars, collected
<1>6. Running' /\ phase \notin {"summarized", "unreadable"}
  BY <1>1, <1>5 DEF Running
<1>7. BenchTypeOK'
  <2>1. Len(sheets) <= Len(rows')
    <3>1. Len(sheets) <= Len(rows) /\ Len(rows) <= Len(rows')
      BY <1>1, <1>3 DEF BenchInv, BenchTypeOK, Grow
    <3>2. Len(sheets) \in Nat /\ Len(rows) \in Nat
      BY SheetsTyped
    <3>3. Len(rows') \in Nat
      BY <1>3, LenProperties DEF LedgerInv, TablesTyped
    <3>4. QED
      BY <3>1, <3>2, <3>3
  <2>2. QED
    BY <2>1, <1>4, <1>5 DEF BenchInv, BenchTypeOK
<1>8. RepliesFollow'
  <2>1. \A i \in Intents : st[i] = "ABSENT" => st'[i] = "ABSENT"
    BY <1>3 DEF Moves, Listed
  <2>2. QED
    BY <2>1, <1>5 DEF BenchInv, RepliesFollow
<1>9. FilesFilled' /\ BatchesExplain' /\ SummaryFollows'
  BY <1>5, <1>6 DEF BenchInv, FilesFilled, BatchesExplain, SummaryFollows, Tells, Confirmed, In,
     Attempted, HavingReceipt, Broadcast
<1>10. FilesStayTrue'
  <2>1. DOMAIN listed \subseteq Listed'
    BY <1>1, <1>3 DEF BenchInv, FilesStayTrue, Moves
  <2>2. ASSUME NEW i \in DOMAIN intents
        PROVE  /\ intents[i].attempts > 0 => attempts'[i] > 0
               /\ intents[i].state = "CONFIRMED" => st'[i] = "CONFIRMED"
    <3>1. i \in Intents
      BY DEF BenchInv, BenchTypeOK
    <3>2. /\ intents[i].attempts > 0 => attempts[i] > 0
          /\ intents[i].state = "CONFIRMED" => st[i] = "CONFIRMED"
      BY <1>1 DEF BenchInv, FilesStayTrue
    <3>3. st[i] = "CONFIRMED" => st'[i] = "CONFIRMED"
      BY <1>3, <3>1 DEF Moves, Terminal
    <3>4. QED
      BY <1>3, <3>1, <3>2, <3>3 DEF Moves
  <2>3. ASSUME NEW k \in DOMAIN sheets
        PROVE  /\ sheets[k].ids = rows'[k].ids /\ sheets[k].count <= rows'[k].count
               /\ sheets[k].receipt \in {"none", rows'[k].receipt}
    <3>1. k \in DOMAIN rows /\ sheets[k] \in BatchRecords
      BY <1>1, SheetsTyped, ElementOfSeq DEF BenchInv, FilesFilled
    <3>2. /\ sheets[k].ids = rows[k].ids /\ sheets[k].count <= rows[k].count
          /\ sheets[k].receipt \in {"none", rows[k].receipt}
      BY <1>1 DEF BenchInv, FilesStayTrue
    <3>3. /\ k \in DOMAIN rows' /\ rows'[k].ids = rows[k].ids
          /\ rows[k].count <= rows'[k].count /\ rows[k].receipt \in {"none", rows'[k].receipt}
      BY <1>3, <3>1 DEF Grow
    <3>4. sheets[k].count \in Nat /\ rows[k].count \in Nat
      BY <1>2, <3>1, RowTyped DEF LedgerInv, BatchRecords
    <3>5. rows' \in Seq(BatchRecords)
      BY <1>3 DEF LedgerInv, TablesTyped
    <3>6. rows'[k] \in BatchRecords
      BY <3>3, <3>5, LenProperties, ElementOfSeq
    <3>7. rows'[k].count \in Nat
      BY <3>6 DEF BatchRecords
    <3>8. QED
      BY <3>2, <3>3, <3>4, <3>7
  <2>4. QED
    BY <2>1, <2>2, <2>3, <1>5 DEF FilesStayTrue
<1>11. StillAfterDrain'
  <2>1. ~(drained /\ Answered)
    BY <1>1, <1>2, NothingLeft DEF BenchInv, StillAfterDrain
  <2>2. Answered' <=> Answered
    BY <1>5 DEF Answered
  <2>3. QED
    BY <2>1, <2>2, <1>5 DEF BenchInv, StillAfterDrain
<1>12. QED
  BY <1>3, <1>4, <1>7, <1>8, <1>9, <1>10, <1>11 DEF BenchInv

(* Steps that leave the files, what is known of the drain and the summary. *)
LEMMA FilesStay ==
  ASSUME BenchInv, Running, UNCHANGED <<phase, collected, others>>
  PROVE  FilesFilled' /\ BatchesExplain' /\ SummaryFollows' /\ Running'
<1>1. /\ phase' = phase /\ drained' = drained /\ observedAt' = observedAt /\ listed' = listed
      /\ intents' = intents /\ sheets' = sheets /\ others' = others
  BY DEF collected
<1>2. Running' /\ phase \notin {"summarized", "unreadable"}
  BY <1>1 DEF Running
<1>3. QED
  BY <1>1, <1>2 DEF BenchInv, FilesFilled, BatchesExplain, SummaryFollows, Tells, Confirmed, In,
     Attempted, HavingReceipt, Broadcast

LEMMA StoreStep ==
  ASSUME BenchInv, Running, NEW i \in Intents, Store(i)
  PROVE  BenchInv'
<1>1. PICK r \in {"accepted", "unknown"} : Handled(i, r)
  BY DEF Store
<1>2. /\ i \in arriving /\ Insert(i) /\ RecordInsert(i)
      /\ arriving' = arriving \ {i}
      /\ reply' = [reply EXCEPT ![i] = IF @ = "pending" THEN r ELSE @]
      /\ UNCHANGED <<phase, collected, others>>
  BY <1>1 DEF Store, Handled
<1>3. LedgerInv /\ TimesFollow /\ RecordsTypeOK /\ BenchTypeOK
  BY DEF BenchInv, BenchTypeOK
<1>4. LedgerInv'
  BY <1>2, <1>3, InsertStep
<1>5. /\ RecordsTypeOK' /\ TimesFollow' /\ Listed' = Listed \union {i} /\ i \notin Listed
  BY <1>2, <1>3, InsertTimes
<1>6. FilesFilled' /\ BatchesExplain' /\ SummaryFollows' /\ Running'
  BY <1>2, FilesStay
<1>7. /\ phase' = phase /\ drained' = drained /\ observedAt' = observedAt /\ listed' = listed
      /\ intents' = intents /\ sheets' = sheets /\ others' = others
      /\ attempts' = attempts /\ rows' = rows
  BY <1>2 DEF collected, Insert
<1>8. /\ reply' \in [Intents -> {"pending", "accepted", "refused", "unknown"}]
      /\ \A j \in Intents : reply'[j] = IF j = i /\ reply[i] = "pending" THEN r ELSE reply[j]
  BY <1>2, <1>3 DEF BenchTypeOK
<1>9. BenchTypeOK'
  BY <1>2, <1>3, <1>5, <1>7, <1>8 DEF BenchTypeOK, Running
<1>10. \A j \in Intents : st'[j] = IF j = i THEN "QUEUED" ELSE st[j]
  BY <1>2, <1>3, SetMoves DEF Insert, LedgerInv
<1>11. RepliesFollow'
  <2>1. ASSUME NEW j \in Intents
        PROVE  /\ j \in arriving' => st'[j] = "ABSENT"
               /\ reply'[j] = "refused" => st'[j] = "ABSENT"
               /\ reply'[j] \in {"accepted", "refused"} => j \notin arriving'
    <3>1. /\ j \in arriving => st[j] = "ABSENT"
          /\ reply[j] = "refused" => st[j] = "ABSENT"
          /\ reply[j] \in {"accepted", "refused"} => j \notin arriving
      BY DEF BenchInv, RepliesFollow
    <3>2. CASE j = i
      BY <3>1, <3>2, <1>1, <1>2, <1>8
    <3>3. CASE j # i
      BY <3>1, <3>3, <1>2, <1>8, <1>10
    <3>4. QED
      BY <3>2, <3>3
  <2>2. phase' # "measure" => \A j \in Intents : reply'[j] # "pending"
    BY <1>7, <1>8 DEF BenchInv, RepliesFollow
  <2>3. QED
    BY <2>1, <2>2 DEF RepliesFollow
<1>12. FilesStayTrue'
  <2>1. DOMAIN listed \subseteq Listed /\ DOMAIN intents \subseteq DOMAIN listed
    BY <1>2, <1>3 DEF BenchInv, FilesStayTrue, BenchTypeOK, Running
  <2>2. \A j \in DOMAIN intents : j \in Intents /\ j # i
    BY <2>1, <1>5 DEF Listed
  <2>3. QED
    BY <2>1, <2>2, <1>5, <1>6, <1>7, <1>10 DEF BenchInv, FilesStayTrue, Running
<1>13. StillAfterDrain'
  <2>1. ASSUME drained, Answered' PROVE FALSE
    <3>1. phase # "measure"
      BY <2>1 DEF BenchInv, StillAfterDrain
    <3>2. reply[i] # "pending"
      BY <3>1 DEF BenchInv, RepliesFollow
    <3>3. reply[i] \in {"accepted", "refused"}
      BY <2>1, <3>2, <1>8 DEF Answered
    <3>4. QED
      BY <3>3, <1>2 DEF BenchInv, RepliesFollow
  <2>2. QED
    BY <2>1, <1>7 DEF BenchInv, StillAfterDrain
<1>14. QED
  BY <1>4, <1>5, <1>6, <1>9, <1>11, <1>12, <1>13 DEF BenchInv

(* A refusal, or the client gives up: the relayer does nothing.            *)
LEMMA UnheardStep ==
  ASSUME BenchInv, Running, NEW i \in Intents, Refuse(i) \/ GivesUp(i)
  PROVE  BenchInv'
<1>1. /\ UNCHANGED <<relayerVars, phase, collected, others>> /\ arriving' \subseteq arriving
      /\ \A j \in arriving : j # i => j \in arriving'
  BY DEF Refuse, GivesUp, Handled, relayerVars, collected
<1>2. /\ reply' \in [Intents -> {"pending", "accepted", "refused", "unknown"}]
      /\ \A j \in Intents \ {i} : reply'[j] = reply[j]
      /\ reply'[i] # reply[i] =>
           /\ reply[i] = "pending" /\ reply'[i] \in {"refused", "unknown"}
           /\ reply'[i] = "refused" => i \in arriving /\ i \notin arriving'
  <2>1. CASE Refuse(i)
    <3>1. PICK r \in {"refused", "unknown"} : Handled(i, r)
      BY <2>1 DEF Refuse
    <3>2. i \in arriving
      BY <2>1 DEF Refuse
    <3>3. QED
      BY <3>1, <3>2 DEF Handled, BenchInv, BenchTypeOK
  <2>2. CASE GivesUp(i)
    BY <2>2 DEF GivesUp, BenchInv, BenchTypeOK
  <2>3. QED
    BY <2>1, <2>2
<1>3. LedgerInv /\ TimesFollow /\ RecordsTypeOK /\ BenchTypeOK
  BY DEF BenchInv, BenchTypeOK
<1>4. UNCHANGED <<ledgerVars, recordVars>>
  BY <1>1 DEF relayerVars
<1>5. LedgerInv' /\ TimesFollow' /\ RecordsTypeOK' /\ Listed' = Listed
  BY <1>3, <1>4, RecordsStay
<1>6. FilesFilled' /\ BatchesExplain' /\ SummaryFollows' /\ Running'
  BY <1>1, FilesStay
<1>7. /\ phase' = phase /\ drained' = drained /\ observedAt' = observedAt /\ listed' = listed
      /\ intents' = intents /\ sheets' = sheets /\ others' = others
      /\ st' = st /\ attempts' = attempts /\ rows' = rows /\ times' = times
  BY <1>1, <1>4 DEF collected, ledgerVars, recordVars
<1>8. BenchTypeOK'
  BY <1>1, <1>2, <1>3, <1>5, <1>7 DEF BenchTypeOK, Running
<1>9. RepliesFollow'
  BY <1>1, <1>2, <1>7 DEF BenchInv, RepliesFollow
<1>10. FilesStayTrue'
  BY <1>5, <1>7 DEF BenchInv, FilesStayTrue, Running
<1>11. StillAfterDrain'
  <2>1. CASE drained /\ Answered'
    <3>1. reply[i] # "pending"
      BY <2>1 DEF BenchInv, StillAfterDrain, RepliesFollow
    <3>2. Answered
      BY <2>1, <3>1, <1>2 DEF Answered
    <3>3. QED
      BY <2>1, <3>2, <1>5, <1>7 DEF BenchInv, StillAfterDrain, Running, Answer
  <2>2. CASE ~(drained /\ Answered')
    BY <2>2, <1>7 DEF BenchInv, StillAfterDrain
  <2>3. QED
    BY <2>1, <2>2
<1>12. QED
  BY <1>5, <1>6, <1>8, <1>9, <1>10, <1>11 DEF BenchInv

LEMMA ClockStep ==
  ASSUME BenchInv, Running, TimePasses, UNCHANGED <<ledgerVars, drift, driverVars>>
  PROVE  BenchInv'
<1>1. LedgerInv /\ TimesFollow /\ RecordsTypeOK /\ BenchTypeOK
  BY DEF BenchInv, BenchTypeOK
<1>2. RecordsTypeOK' /\ TimesFollow'
  BY <1>1, ClockTimes
<1>3. LedgerInv' /\ Listed' = Listed
  BY <1>1 DEF LedgerInv, TablesTyped, RowsFollowChain, StatesFollowRows,
     ledgerVars, Listed, Unresolved, Current, HavingReceipt, Broadcast
<1>4. FilesFilled' /\ BatchesExplain' /\ SummaryFollows' /\ Running'
  BY FilesStay DEF driverVars
<1>5. /\ phase' = phase /\ drained' = drained /\ observedAt' = observedAt /\ listed' = listed
      /\ intents' = intents /\ sheets' = sheets /\ others' = others
      /\ arriving' = arriving /\ reply' = reply
      /\ st' = st /\ attempts' = attempts /\ rows' = rows /\ times' = times
  BY DEF collected, ledgerVars, driverVars, requestVars, TimePasses
<1>6. BenchTypeOK'
  BY <1>1, <1>2, <1>5 DEF BenchTypeOK, Running
<1>7. RepliesFollow' /\ FilesStayTrue'
  BY <1>3, <1>5 DEF BenchInv, RepliesFollow, FilesStayTrue, Running
<1>8. StillAfterDrain'
  BY <1>3, <1>5 DEF BenchInv, StillAfterDrain, Running, Answer, Answered
<1>9. QED
  BY <1>2, <1>3, <1>4, <1>6, <1>7, <1>8 DEF BenchInv

-----------------------------------------------------------------------------
(***************************************************************************)
(* The driver's steps.                                                     *)
(***************************************************************************)

(* The relayer stands still for a request of the driver.                   *)
LEMMA DriverStays ==
  ASSUME BenchInv, Running, UNCHANGED <<relayerVars, requestVars, others>>,
         phase' \notin {"measure", "summarized", "unreadable"},
         \A i \in Intents : reply[i] # "pending"
  PROVE  /\ LedgerInv' /\ TimesFollow' /\ RecordsTypeOK' /\ Listed' = Listed
         /\ RepliesFollow' /\ SummaryFollows' /\ (Answered' <=> Answered)
         /\ st' = st /\ attempts' = attempts /\ rows' = rows /\ times' = times
         /\ clock' = clock /\ executed' = executed
         /\ arriving' = arriving /\ reply' = reply /\ others' = others
<1>1. LedgerInv /\ TimesFollow /\ RecordsTypeOK
  BY DEF BenchInv, BenchTypeOK
<1>2. UNCHANGED <<ledgerVars, recordVars>>
  BY DEF relayerVars
<1>3. LedgerInv' /\ TimesFollow' /\ RecordsTypeOK' /\ Listed' = Listed
  BY <1>1, <1>2, RecordsStay
<1>4. /\ st' = st /\ attempts' = attempts /\ rows' = rows /\ times' = times
      /\ clock' = clock /\ executed' = executed /\ arriving' = arriving /\ reply' = reply
      /\ others' = others
  BY <1>2 DEF ledgerVars, recordVars, requestVars
<1>5. RepliesFollow' /\ SummaryFollows' /\ (Answered' <=> Answered)
  BY <1>4 DEF BenchInv, RepliesFollow, SummaryFollows, Answered
<1>6. QED
  BY <1>3, <1>4, <1>5

LEMMA NoneIsPending ==
  ASSUME BenchInv, phase # "measure"
  PROVE  \A i \in Intents : reply[i] # "pending"
BY DEF BenchInv, RepliesFollow

LEMMA DrainStep ==
  ASSUME BenchInv, DrainReturns \/ DrainTimesOut
  PROVE  BenchInv'
<1>1. PICK d \in BOOLEAN : DrainEnds(d) /\ (d => Drained)
  BY DEF DrainReturns, DrainTimesOut
<1>2. /\ phase = "measure" /\ phase' = "list" /\ drained' = d /\ observedAt' = clock
      /\ UNCHANGED <<relayerVars, requestVars, listed, intents, sheets, checks, others>>
      /\ \A i \in Intents : reply[i] # "pending"
  BY <1>1 DEF DrainEnds
<1>3. Running /\ Running'
  BY <1>2 DEF Running
<1>4. /\ LedgerInv' /\ TimesFollow' /\ RecordsTypeOK' /\ Listed' = Listed
      /\ RepliesFollow' /\ SummaryFollows' /\ (Answered' <=> Answered)
      /\ st' = st /\ attempts' = attempts /\ rows' = rows /\ times' = times
      /\ arriving' = arriving /\ reply' = reply /\ others' = others
  BY <1>2, <1>3, DriverStays
<1>5. BenchTypeOK'
  <2>1. clock \in Nat
    BY DEF BenchInv, BenchTypeOK, RecordsTypeOK
  <2>2. QED
    BY <1>2, <1>3, <1>4, <2>1 DEF BenchInv, BenchTypeOK, Stages
<1>6. FilesFilled' /\ FilesStayTrue' /\ BatchesExplain'
  BY <1>2, <1>3, <1>4 DEF BenchInv, FilesFilled, FilesStayTrue, BatchesExplain, BeforeBatches,
     AfterBatches, Tells
<1>7. StillAfterDrain'
  <2>1. DOMAIN intents = {}
    BY <1>2 DEF BenchInv, BenchTypeOK, FilesFilled
  <2>2. ASSUME d, NEW i \in Listed PROVE st[i] \in Terminal /\ times[i].event <= clock
    BY <1>1, <2>2 DEF Drained, AllTerminal, BenchInv, TimesFollow
  <2>3. QED
    BY <1>2, <1>4, <2>1, <2>2 DEF StillAfterDrain, BeforeBatches
<1>8. QED
  BY <1>4, <1>5, <1>6, <1>7 DEF BenchInv

LEMMA ListStep ==
  ASSUME BenchInv, List
  PROVE  BenchInv'
<1>1. /\ phase = "list" /\ phase' = "intents" /\ listed' = [i \in Listed |-> st[i]]
      /\ UNCHANGED <<relayerVars, requestVars, drained, observedAt, intents, sheets, checks, others>>
  BY DEF List
<1>2. Running /\ Running'
  BY <1>1 DEF Running
<1>3. /\ LedgerInv' /\ TimesFollow' /\ RecordsTypeOK' /\ Listed' = Listed
      /\ RepliesFollow' /\ SummaryFollows' /\ (Answered' <=> Answered)
      /\ st' = st /\ attempts' = attempts /\ rows' = rows /\ times' = times
      /\ arriving' = arriving /\ reply' = reply /\ others' = others
  BY <1>1, <1>2, DriverStays, NoneIsPending
<1>4. DOMAIN intents = {} /\ sheets = << >>
  <2>1. listed = << >> /\ sheets = << >> /\ DOMAIN intents \subseteq DOMAIN listed
    BY <1>1 DEF BenchInv, BenchTypeOK, FilesFilled, BeforeBatches
  <2>2. QED
    BY <2>1
<1>5. BenchTypeOK'
  BY <1>1, <1>2, <1>3, <1>4 DEF BenchInv, BenchTypeOK, Stages, Listed
<1>6. FilesFilled' /\ FilesStayTrue' /\ BatchesExplain'
  BY <1>1, <1>2, <1>3, <1>4 DEF BenchInv, FilesFilled, FilesStayTrue, BatchesExplain,
     BeforeBatches, AfterBatches, Tells
<1>7. StillAfterDrain'
  BY <1>1, <1>2, <1>3, <1>4 DEF BenchInv, StillAfterDrain, BeforeBatches
<1>8. QED
  BY <1>3, <1>5, <1>6, <1>7 DEF BenchInv

(* What the relayer answers about an intent.                               *)
LEMMA AnswerTells ==
  ASSUME BenchInv, NEW i \in Listed
  PROVE  /\ Answer(i) \in AnswerRecords /\ Tells(Answer(i))
         /\ Answer(i).state = st[i] /\ Answer(i).attempts = attempts[i]
         /\ Answer(i).state = "FAILED" => Answer(i).attempts > 0
<1>1. i \in Intents /\ st[i] # "ABSENT"
  BY DEF Listed
<1>2. st[i] \in {"QUEUED"} \union InFlight \union Terminal /\ attempts[i] \in Nat
  BY <1>1 DEF BenchInv, LedgerInv, TablesTyped
<1>3. /\ times[i].received \in Nat /\ times[i].submitted \in Nat
      /\ times[i].confirmed \in Nat /\ times[i].event \in Nat
  BY <1>1, TimesTyped DEF BenchInv, BenchTypeOK
<1>4. Answer(i) \in AnswerRecords
  BY <1>2, <1>3 DEF Answer, AnswerRecords
<1>5. Answer(i).state = st[i] /\ Answer(i).attempts = attempts[i]
  BY DEF Answer
<1>6. st[i] = "FAILED" => attempts[i] > 0
  BY <1>1 DEF BenchInv, LedgerInv, StatesFollowRows
<1>7. QED
  BY <1>4, <1>5, <1>6 DEF BenchInv, TimesFollow

LEMMA FetchIntentStep ==
  ASSUME BenchInv, FetchIntent
  PROVE  BenchInv'
<1>1. PICK i \in DOMAIN listed \ DOMAIN intents :
        intents' = [j \in DOMAIN intents \union {i} |-> IF j = i THEN Answer(i) ELSE intents[j]]
  BY DEF FetchIntent
<1>2. /\ phase = "intents" /\ phase' = phase
      /\ UNCHANGED <<relayerVars, requestVars, others>>
      /\ drained' = drained /\ observedAt' = observedAt /\ listed' = listed /\ sheets' = sheets
  BY <1>1 DEF FetchIntent, BenchInv, FilesFilled, BeforeBatches
<1>3. Running /\ Running'
  BY <1>2 DEF Running
<1>4. /\ LedgerInv' /\ TimesFollow' /\ RecordsTypeOK' /\ Listed' = Listed
      /\ RepliesFollow' /\ SummaryFollows' /\ (Answered' <=> Answered)
      /\ st' = st /\ attempts' = attempts /\ rows' = rows /\ times' = times
      /\ arriving' = arriving /\ reply' = reply /\ others' = others
  BY <1>2, <1>3, DriverStays, NoneIsPending
<1>5. i \in Listed /\ sheets = << >>
  BY <1>2, <1>3 DEF BenchInv, FilesStayTrue, FilesFilled, BeforeBatches
<1>6. /\ Answer(i) \in AnswerRecords /\ Tells(Answer(i))
      /\ Answer(i).state = st[i] /\ Answer(i).attempts = attempts[i]
      /\ Answer(i).state = "FAILED" => Answer(i).attempts > 0
  BY <1>5, AnswerTells
<1>7. /\ DOMAIN intents' = DOMAIN intents \union {i} /\ intents'[i] = Answer(i)
      /\ \A j \in DOMAIN intents : intents'[j] = intents[j]
      /\ intents' = [j \in DOMAIN intents' |-> intents'[j]]
  BY <1>1
<1>8. BenchTypeOK'
  BY <1>2, <1>3, <1>4, <1>7 DEF BenchInv, BenchTypeOK
<1>9. FilesFilled'
  <2>1. \A j \in DOMAIN intents' :
          /\ intents'[j] \in AnswerRecords /\ Tells(intents'[j])
          /\ intents'[j].state = "FAILED" => intents'[j].attempts > 0
    BY <1>6, <1>7 DEF BenchInv, FilesFilled
  <2>2. intents' \in [DOMAIN intents' -> AnswerRecords]
    BY <1>7, <2>1
  <2>3. QED
    BY <1>2, <2>1, <2>2 DEF BenchInv, FilesFilled, BeforeBatches, Tells
<1>10. FilesStayTrue'
  <2>1. \A j \in DOMAIN intents' :
          /\ intents'[j].attempts > 0 => attempts[j] > 0
          /\ intents'[j].state = "CONFIRMED" => st[j] = "CONFIRMED"
    BY <1>3, <1>6, <1>7 DEF BenchInv, FilesStayTrue
  <2>2. QED
    BY <2>1, <1>2, <1>3, <1>4 DEF BenchInv, FilesStayTrue
<1>11. BatchesExplain'
  BY <1>2 DEF BatchesExplain, AfterBatches
<1>12. StillAfterDrain'
  <2>1. Answer(i)' = Answer(i) /\ \A j \in DOMAIN intents : Answer(j)' = Answer(j)
    BY <1>4 DEF Answer
  <2>2. CASE drained /\ Answered
    <3>1. \A j \in DOMAIN intents' : intents'[j] = Answer(j)
      BY <2>2, <1>3, <1>7 DEF BenchInv, StillAfterDrain
    <3>2. \A j \in DOMAIN intents' : intents'[j] = Answer(j)'
      BY <3>1, <1>4 DEF Answer
    <3>3. QED
      BY <3>2, <2>2, <1>2, <1>3, <1>4 DEF BenchInv, StillAfterDrain, BeforeBatches
  <2>3. CASE ~(drained /\ Answered)
    BY <2>3, <1>2, <1>4 DEF BenchInv, StillAfterDrain
  <2>4. QED
    BY <2>2, <2>3
<1>13. QED
  BY <1>4, <1>8, <1>9, <1>10, <1>11, <1>12 DEF BenchInv

LEMMA ListBatchesStep ==
  ASSUME BenchInv, ListBatches
  PROVE  BenchInv'
<1>1. /\ phase = "intents" /\ phase' = "batches" /\ sheets' = rows
      /\ DOMAIN intents = DOMAIN listed
      /\ UNCHANGED <<relayerVars, requestVars, drained, observedAt, listed, intents, checks, others>>
  BY DEF ListBatches, AfterIntents
<1>2. Running /\ Running'
  BY <1>1 DEF Running
<1>3. /\ LedgerInv' /\ TimesFollow' /\ RecordsTypeOK' /\ Listed' = Listed
      /\ RepliesFollow' /\ SummaryFollows' /\ (Answered' <=> Answered)
      /\ st' = st /\ attempts' = attempts /\ rows' = rows /\ times' = times
      /\ arriving' = arriving /\ reply' = reply /\ others' = others
  BY <1>1, <1>2, DriverStays, NoneIsPending
<1>4. LedgerInv /\ Len(rows) \in Nat /\ rows \in Seq(BatchRecords)
  BY LenProperties DEF BenchInv, LedgerInv, TablesTyped
<1>5. BenchTypeOK'
  BY <1>1, <1>2, <1>3, <1>4 DEF BenchInv, BenchTypeOK, Stages
<1>6. FilesFilled'
  BY <1>1, <1>4 DEF BenchInv, FilesFilled, BeforeBatches, Tells
<1>7. FilesStayTrue'
  <2>1. \A k \in DOMAIN rows : rows[k].count <= rows[k].count
    BY <1>4, RowTyped DEF LedgerInv
  <2>2. QED
    BY <2>1, <1>1, <1>2, <1>3 DEF BenchInv, FilesStayTrue
<1>8. BatchesExplain'
  <2>1. ASSUME NEW i \in Confirmed(intents)
        PROVE  \E k \in HavingReceipt(rows, {"success"}) : i \in rows[k].ids
    <3>1. i \in Intents /\ st[i] = "CONFIRMED"
      BY <1>2 DEF Confirmed, In, BenchInv, BenchTypeOK, FilesStayTrue
    <3>2. QED
      BY <3>1, <1>4 DEF LedgerInv, StatesFollowRows
  <2>2. ASSUME NEW i \in Attempted(intents)
        PROVE  \E k \in Broadcast(rows) : i \in rows[k].ids
    <3>1. i \in Intents /\ attempts[i] > 0
      BY <1>2 DEF Attempted, BenchInv, BenchTypeOK, FilesStayTrue
    <3>2. QED
      BY <3>1, <1>4 DEF LedgerInv, StatesFollowRows
  <2>3. QED
    BY <2>1, <2>2, <1>1 DEF BatchesExplain, Confirmed, In, Attempted, HavingReceipt, Broadcast
<1>9. StillAfterDrain'
  BY <1>1, <1>2, <1>3 DEF BenchInv, StillAfterDrain, BeforeBatches, Answer
<1>10. QED
  BY <1>3, <1>5, <1>6, <1>7, <1>8, <1>9 DEF BenchInv

(* The batches again, those that were there before.                        *)
LEMMA Prefix ==
  ASSUME BenchInv, Running, NEW s, s = SubSeq(rows, 1, Len(sheets))
  PROVE  /\ s \in Seq(BatchRecords) /\ Len(s) = Len(sheets) /\ DOMAIN s = DOMAIN sheets
         /\ \A k \in DOMAIN s : k \in DOMAIN rows /\ s[k] = rows[k]
<1>1. /\ Len(sheets) \in Nat /\ DOMAIN sheets = 1 .. Len(sheets)
      /\ Len(rows) \in Nat /\ DOMAIN rows = 1 .. Len(rows)
      /\ DOMAIN sheets \subseteq DOMAIN rows
  BY SheetsTyped
<1>2. Len(sheets) <= Len(rows) /\ rows \in Seq(BatchRecords)
  BY DEF BenchInv, BenchTypeOK, LedgerInv, TablesTyped
<1>3. \A k \in 1 .. Len(sheets) : rows[k] \in BatchRecords
  BY <1>1, <1>2, ElementOfSeq
<1>4. s = [k \in 1 .. Len(sheets) |-> rows[k]]
  BY <1>1, <1>2
<1>5. s \in Seq(BatchRecords) /\ Len(s) = Len(sheets)
  BY <1>1, <1>3, <1>4, IsASeq
<1>6. QED
  BY <1>1, <1>4, <1>5

LEMMA FetchBatchesStep ==
  ASSUME BenchInv, FetchBatches
  PROVE  BenchInv'
<1>1. /\ phase = "batches" /\ phase' = "metrics" /\ sheets' = SubSeq(rows, 1, Len(sheets))
      /\ UNCHANGED <<relayerVars, requestVars, drained, observedAt, listed, intents, checks, others>>
  BY DEF FetchBatches
<1>2. Running /\ Running'
  BY <1>1 DEF Running
<1>3. /\ LedgerInv' /\ TimesFollow' /\ RecordsTypeOK' /\ Listed' = Listed
      /\ RepliesFollow' /\ SummaryFollows' /\ (Answered' <=> Answered)
      /\ st' = st /\ attempts' = attempts /\ rows' = rows /\ times' = times
      /\ arriving' = arriving /\ reply' = reply /\ others' = others
  BY <1>1, <1>2, DriverStays, NoneIsPending
<1>4. /\ sheets' \in Seq(BatchRecords) /\ Len(sheets') = Len(sheets)
      /\ DOMAIN sheets' = DOMAIN sheets
      /\ \A k \in DOMAIN sheets' : k \in DOMAIN rows /\ sheets'[k] = rows[k]
  <2>1. PICK s : s = SubSeq(rows, 1, Len(sheets))
    OBVIOUS
  <2>2. /\ s \in Seq(BatchRecords) /\ Len(s) = Len(sheets) /\ DOMAIN s = DOMAIN sheets
        /\ \A k \in DOMAIN s : k \in DOMAIN rows /\ s[k] = rows[k]
    BY <1>2, <2>1, Prefix
  <2>3. QED
    BY <1>1, <2>1, <2>2
<1>5. LedgerInv
  BY DEF BenchInv
<1>6. BenchTypeOK'
  BY <1>1, <1>2, <1>3, <1>4 DEF BenchInv, BenchTypeOK, Stages
<1>7. FilesFilled'
  BY <1>1, <1>4 DEF BenchInv, FilesFilled, BeforeBatches, Tells
<1>8. FilesStayTrue'
  <2>1. \A k \in DOMAIN rows : rows[k].count <= rows[k].count
    BY <1>5, RowTyped DEF LedgerInv
  <2>2. QED
    BY <2>1, <1>1, <1>2, <1>3, <1>4 DEF BenchInv, FilesStayTrue
<1>9. BatchesExplain'
  <2>1. \A k \in DOMAIN sheets :
          /\ sheets[k].receipt = "success" => sheets'[k].receipt = "success"
          /\ sheets[k].count > 0 => sheets'[k].count > 0
          /\ sheets'[k].ids = sheets[k].ids
    <3> SUFFICES ASSUME NEW k \in DOMAIN sheets
                 PROVE  /\ sheets[k].receipt = "success" => rows[k].receipt = "success"
                        /\ sheets[k].count > 0 => rows[k].count > 0
                        /\ sheets[k].ids = rows[k].ids
      BY <1>4
    <3>1. /\ sheets[k].ids = rows[k].ids /\ sheets[k].count <= rows[k].count
          /\ sheets[k].receipt \in {"none", rows[k].receipt}
      BY <1>2 DEF BenchInv, FilesStayTrue
    <3>2. rows[k].count \in Nat
      BY <1>4, <1>5, RowTyped DEF LedgerInv
    <3>3. sheets[k].count \in Nat
      <4>1. sheets[k] \in BatchRecords
        BY SheetsTyped, ElementOfSeq DEF BenchInv, FilesFilled
      <4>2. QED
        BY <4>1 DEF BatchRecords
    <3>4. QED
      BY <3>1, <3>2, <3>3
  <2>2. \A k \in HavingReceipt(sheets, {"success"}) :
          k \in HavingReceipt(sheets, {"success"})' /\ sheets'[k].ids = sheets[k].ids
    BY <2>1, <1>4 DEF HavingReceipt
  <2>3. \A k \in Broadcast(sheets) : k \in Broadcast(sheets)' /\ sheets'[k].ids = sheets[k].ids
    BY <2>1, <1>4 DEF Broadcast
  <2>4. Confirmed(intents)' = Confirmed(intents) /\ Attempted(intents)' = Attempted(intents)
    BY <1>1 DEF Confirmed, In, Attempted
  <2>5. /\ \A i \in Confirmed(intents) :
             \E k \in HavingReceipt(sheets, {"success"}) : i \in sheets[k].ids
        /\ \A i \in Attempted(intents) : \E k \in Broadcast(sheets) : i \in sheets[k].ids
    BY <1>1 DEF BenchInv, BatchesExplain, AfterBatches
  <2>6. ASSUME NEW i \in Confirmed(intents)'
        PROVE  \E k \in HavingReceipt(sheets, {"success"})' : i \in sheets'[k].ids
    <3>1. PICK k \in HavingReceipt(sheets, {"success"}) : i \in sheets[k].ids
      BY <2>4, <2>5
    <3>2. QED
      BY <3>1, <2>2
  <2>7. ASSUME NEW i \in Attempted(intents)'
        PROVE  \E k \in Broadcast(sheets)' : i \in sheets'[k].ids
    <3>1. PICK k \in Broadcast(sheets) : i \in sheets[k].ids
      BY <2>4, <2>5
    <3>2. QED
      BY <3>1, <2>3
  <2>8. QED
    BY <2>6, <2>7 DEF BatchesExplain
<1>10. StillAfterDrain'
  <2>1. CASE drained /\ Answered
    <3>1. sheets = rows
      BY <2>1, <1>1, <1>2 DEF BenchInv, StillAfterDrain, BeforeBatches
    <3>2. sheets' = rows
      <4>1. rows \in Seq(BatchRecords)
        BY <1>5 DEF LedgerInv, TablesTyped
      <4>2. Len(sheets') = Len(rows) /\ \A k \in 1 .. Len(rows) : sheets'[k] = rows[k]
        BY <1>4, <3>1, SheetsTyped
      <4>3. QED
        BY <4>1, <4>2, <1>4, SeqEqual
    <3>3. QED
      BY <2>1, <3>2, <1>1, <1>2, <1>3 DEF BenchInv, StillAfterDrain, BeforeBatches, Answer
  <2>2. CASE ~(drained /\ Answered)
    BY <2>2, <1>1, <1>3 DEF BenchInv, StillAfterDrain
  <2>3. QED
    BY <2>1, <2>2
<1>11. QED
  BY <1>3, <1>6, <1>7, <1>8, <1>9, <1>10 DEF BenchInv

LEMMA FetchMetricsStep ==
  ASSUME BenchInv, FetchMetrics
  PROVE  BenchInv'
<1>1. /\ phase = "metrics" /\ phase' = "chain"
      /\ UNCHANGED <<relayerVars, requestVars, collected, others>>
  BY DEF FetchMetrics
<1>2. Running /\ Running'
  BY <1>1 DEF Running
<1>3. /\ LedgerInv' /\ TimesFollow' /\ RecordsTypeOK' /\ Listed' = Listed
      /\ RepliesFollow' /\ SummaryFollows' /\ (Answered' <=> Answered)
      /\ st' = st /\ attempts' = attempts /\ rows' = rows /\ times' = times
      /\ arriving' = arriving /\ reply' = reply /\ others' = others
  BY <1>1, <1>2, DriverStays, NoneIsPending
<1>4. /\ drained' = drained /\ observedAt' = observedAt /\ listed' = listed
      /\ intents' = intents /\ sheets' = sheets
  BY <1>1 DEF collected
<1>5. BenchTypeOK'
  BY <1>1, <1>2, <1>3, <1>4 DEF BenchInv, BenchTypeOK, Stages
<1>6. FilesFilled' /\ FilesStayTrue'
  BY <1>1, <1>2, <1>3, <1>4 DEF BenchInv, FilesFilled, FilesStayTrue, BeforeBatches, Tells
<1>7. BatchesExplain'
  BY <1>1, <1>4 DEF BenchInv, BatchesExplain, AfterBatches, Confirmed, In, Attempted,
     HavingReceipt, Broadcast
<1>8. StillAfterDrain'
  BY <1>1, <1>2, <1>3, <1>4 DEF BenchInv, StillAfterDrain, BeforeBatches, Answer
<1>9. QED
  BY <1>3, <1>5, <1>6, <1>7, <1>8 DEF BenchInv

(* When the relayer has nothing left to do, its receipts, its confirmed    *)
(* intents and the chain name the same payments.                           *)
LEMMA ReceiptsAreTheChain ==
  ASSUME LedgerInv, \A i \in Listed : st[i] \in Terminal
  PROVE  /\ \A k \in DOMAIN rows : rows[k].receipt # "none"
         /\ \A k \in Received(rows) :
              k <= Len(executed) /\ executed[k] = (rows[k].receipt = "success")
         /\ ExecutedIn(rows) = {i \in Listed : st[i] = "CONFIRMED"}
         /\ Paid = {i \in Listed : st[i] = "CONFIRMED"}
<1>1. rows # << >> => Len(executed) = Len(rows) /\ ~Unresolved
  BY NothingLeft
<1>2. /\ Len(rows) \in Nat /\ DOMAIN rows = 1 .. Len(rows)
      /\ Len(executed) \in Nat /\ DOMAIN executed = 1 .. Len(executed)
      /\ executed \in Seq(BOOLEAN)
  BY LenProperties DEF LedgerInv, TablesTyped
<1>3. ASSUME NEW k \in DOMAIN rows PROVE rows[k].receipt # "none"
  <2>1. rows # << >>
    BY <1>3, EmptySeq
  <2>2. rows[k].receipt = "none" => k = Len(rows)
    BY DEF LedgerInv, RowsFollowChain
  <2>3. QED
    BY <2>1, <2>2, <1>1 DEF Unresolved
<1>4. \A k \in Received(rows) :
        k <= Len(executed) /\ executed[k] = (rows[k].receipt = "success")
  BY DEF Received, HavingReceipt, LedgerInv, RowsFollowChain
<1>5. \A i : (\E k \in HavingReceipt(rows, {"success"}) : i \in rows[k].ids)
               <=> (i \in Listed /\ st[i] = "CONFIRMED")
  <2>1. ASSUME NEW i, NEW k \in HavingReceipt(rows, {"success"}), i \in rows[k].ids
        PROVE  i \in Listed /\ st[i] = "CONFIRMED"
    <3>1. k \in DOMAIN rows
      BY DEF HavingReceipt
    <3>2. i \in Listed /\ i \in Intents
      BY <2>1, <3>1 DEF LedgerInv, StatesFollowRows, Listed
    <3>3. QED
      BY <2>1, <3>2 DEF LedgerInv, StatesFollowRows
  <2>2. ASSUME NEW i \in Listed, st[i] = "CONFIRMED"
        PROVE  \E k \in HavingReceipt(rows, {"success"}) : i \in rows[k].ids
    BY <2>2 DEF LedgerInv, StatesFollowRows, Listed
  <2>3. QED
    BY <2>1, <2>2
<1>6. ExecutedIn(rows) = {i \in Listed : st[i] = "CONFIRMED"}
  BY <1>5 DEF ExecutedIn
<1>7. {n \in DOMAIN executed : executed[n]} = HavingReceipt(rows, {"success"})
  <2>1. DOMAIN executed = DOMAIN rows
    <3>1. CASE rows = << >>
      <4>1. Len(rows) = 0 /\ Len(executed) <= Len(rows)
        BY <3>1, EmptySeq DEF LedgerInv, RowsFollowChain
      <4>2. QED
        BY <4>1, <1>2
    <3>2. CASE rows # << >>
      BY <3>2, <1>1, <1>2
    <3>3. QED
      BY <3>1, <3>2
  <2>2. \A k \in DOMAIN rows : executed[k] = (rows[k].receipt = "success")
    BY <1>3 DEF LedgerInv, RowsFollowChain
  <2>3. QED
    BY <2>1, <2>2 DEF HavingReceipt
<1>8. Paid = ExecutedIn(rows)
  BY <1>7 DEF Paid, ExecutedIn
<1>9. QED
  BY <1>3, <1>4, <1>6, <1>8

LEMMA StillChecks ==
  ASSUME BenchInv, drained, Answered, phase = "chain"
  PROVE  Checked = [receipts |-> TRUE, events |-> TRUE, nonces |-> TRUE]
<1>1. /\ \A i \in Listed : st[i] \in Terminal
      /\ listed = [i \in Listed |-> st[i]] /\ sheets = rows
  BY DEF BenchInv, StillAfterDrain, Running, BeforeBatches
<1>2. /\ \A k \in Received(rows) :
           k <= Len(executed) /\ executed[k] = (rows[k].receipt = "success")
      /\ ExecutedIn(rows) = {i \in Listed : st[i] = "CONFIRMED"}
      /\ Paid = {i \in Listed : st[i] = "CONFIRMED"}
  BY <1>1, ReceiptsAreTheChain DEF BenchInv
<1>3. ListedAs("CONFIRMED") = {i \in Listed : st[i] = "CONFIRMED"}
  BY <1>1 DEF ListedAs
<1>4. ReceiptsMatch
  BY <1>1, <1>2 DEF ReceiptsMatch
<1>5. QED
  BY <1>1, <1>2, <1>3, <1>4 DEF Checked, ReceiptsMatch

LEMMA CheckChainStep ==
  ASSUME BenchInv, CheckChain
  PROVE  BenchInv'
<1>1. /\ phase = "chain" /\ checks' = Checked /\ phase' \in {"done", "failed"}
      /\ phase' = "failed" => ~\A c \in DOMAIN Checked : Checked[c]
      /\ UNCHANGED <<relayerVars, requestVars, drained, observedAt, listed, intents, sheets, others>>
  BY DEF CheckChain
<1>2. Running /\ ~Running'
  BY <1>1 DEF Running
<1>3. /\ LedgerInv' /\ TimesFollow' /\ RecordsTypeOK' /\ Listed' = Listed
      /\ RepliesFollow' /\ SummaryFollows' /\ (Answered' <=> Answered)
      /\ st' = st /\ attempts' = attempts /\ rows' = rows /\ times' = times
      /\ arriving' = arriving /\ reply' = reply /\ others' = others
  BY <1>1, <1>2, DriverStays, NoneIsPending
<1>4. BenchTypeOK'
  BY <1>1, <1>2, <1>3 DEF BenchInv, BenchTypeOK, Stages
<1>5. FilesFilled' /\ FilesStayTrue' /\ BatchesExplain'
  BY <1>1, <1>2, <1>3 DEF BenchInv, FilesFilled, FilesStayTrue, BatchesExplain, BeforeBatches,
     AfterBatches, Tells
<1>6. StillAfterDrain'
  <2>1. CASE drained /\ Answered
    <3>1. phase' # "failed"
      BY <2>1, <1>1, StillChecks
    <3>2. QED
      BY <2>1, <3>1, <1>1, <1>2, <1>3 DEF BenchInv, StillAfterDrain, BeforeBatches, Answer
  <2>2. CASE ~(drained /\ Answered)
    BY <2>2, <1>1, <1>3 DEF BenchInv, StillAfterDrain
  <2>3. QED
    BY <2>1, <2>2
<1>7. QED
  BY <1>3, <1>4, <1>5, <1>6 DEF BenchInv

-----------------------------------------------------------------------------
(***************************************************************************)
(* The end of a run, and every step.                                       *)
(***************************************************************************)

(* An empty ledger: before the run, and when the model forgets it.         *)
NothingHappened ==
  /\ st = [i \in Intents |-> "ABSENT"] /\ attempts = [i \in Intents |-> 0]
  /\ rows = << >> /\ executed = << >> /\ clock = 1 /\ times = [i \in Intents |-> Unknown]

LEMMA EmptyLedger == NothingHappened => LedgerInv /\ TimesFollow /\ RecordsTypeOK /\ Listed = {}
<1> SUFFICES ASSUME st = [i \in Intents |-> "ABSENT"], attempts = [i \in Intents |-> 0],
                    rows = << >>, executed = << >>, clock = 1,
                    times = [i \in Intents |-> Unknown]
             PROVE  LedgerInv /\ TimesFollow /\ RecordsTypeOK /\ Listed = {}
  BY DEF NothingHappened
<1>1. Listed = {} /\ ~Unresolved /\ DOMAIN rows = {} /\ Len(rows) = 0 /\ Len(executed) = 0
  BY DEF Listed, Unresolved
<1>2. TablesTyped
  BY DEF TablesTyped
<1>3. RowsFollowChain
  BY <1>1 DEF RowsFollowChain
<1>4. StatesFollowRows
  <2>1. \A r : HavingReceipt(rows, r) = {} /\ Broadcast(rows) = {}
    BY <1>1 DEF HavingReceipt, Broadcast
  <2>2. QED
    BY <2>1, <1>1 DEF StatesFollowRows, InFlight
<1>5. TimesFollow
  BY <1>1 DEF TimesFollow
<1>6. RecordsTypeOK
  BY ClockAssumption DEF RecordsTypeOK, Unknown, Times, Never
<1>7. QED
  BY <1>1, <1>2, <1>3, <1>4, <1>5, <1>6 DEF LedgerInv

LEMMA Forgotten ==
  ASSUME Forget
  PROVE  LedgerInv' /\ TimesFollow' /\ RecordsTypeOK' /\ RepliesFollow' /\ arriving' = {}
<1>1. NothingHappened'
  BY DEF Forget, NothingHappened
<1>2. LedgerInv' /\ TimesFollow' /\ RecordsTypeOK'
  BY <1>1, EmptyLedger, PTL
<1>3. RepliesFollow'
  BY DEF Forget, RepliesFollow
<1>4. QED
  BY <1>2, <1>3 DEF Forget

LEMMA AbortStep ==
  ASSUME BenchInv, Abort
  PROVE  BenchInv'
<1>1. /\ phase' = "aborted" /\ Forget /\ drained' = FALSE /\ observedAt' = Never
      /\ listed' = << >> /\ intents' = << >> /\ sheets' = << >> /\ UNCHANGED <<checks, others>>
  BY DEF Abort
<1>2. ~Running'
  BY <1>1 DEF Running
<1>3. LedgerInv' /\ TimesFollow' /\ RecordsTypeOK' /\ RepliesFollow' /\ arriving' = {}
  BY <1>1, Forgotten
<1>4. reply' = [i \in Intents |-> "refused"]
  BY <1>1 DEF Forget
<1>5. BenchTypeOK'
  <2>1. DOMAIN listed' = {} /\ DOMAIN intents' = {}
    BY <1>1
  <2>2. phase' \in Stages /\ drained' \in BOOLEAN /\ observedAt' \in Nat
    BY <1>1 DEF Stages, Never
  <2>3. /\ arriving' \subseteq Intents /\ others' = others
        /\ reply' \in [Intents -> {"pending", "accepted", "refused", "unknown"}]
    BY <1>1, <1>3, <1>4
  <2>4. QED
    BY <2>1, <2>2, <2>3, <1>2, <1>3 DEF BenchInv, BenchTypeOK
<1>6. FilesFilled' /\ FilesStayTrue' /\ BatchesExplain'
  BY <1>1, <1>2 DEF FilesFilled, FilesStayTrue, BatchesExplain, BeforeBatches, AfterBatches
<1>7. StillAfterDrain' /\ SummaryFollows'
  BY <1>1 DEF StillAfterDrain, SummaryFollows
<1>8. QED
  BY <1>3, <1>5, <1>6, <1>7 DEF BenchInv

LEMMA SummarizeStep ==
  ASSUME BenchInv, Summarize
  PROVE  BenchInv'
<1>1. /\ phase \in {"done", "failed"} /\ others' \in OtherRuns /\ Forget /\ UNCHANGED collected
      /\ phase' = IF Readable(others') THEN "summarized" ELSE "unreadable"
  BY DEF Summarize
<1>2. /\ drained' = drained /\ observedAt' = observedAt /\ listed' = listed
      /\ intents' = intents /\ sheets' = sheets /\ phase' \in {"summarized", "unreadable"}
  BY <1>1 DEF collected
<1>3. ~Running'
  BY <1>2 DEF Running
<1>4. LedgerInv' /\ TimesFollow' /\ RecordsTypeOK' /\ RepliesFollow' /\ arriving' = {}
  BY <1>1, Forgotten
<1>5. reply' = [i \in Intents |-> "refused"]
  BY <1>1 DEF Forget
<1>6. BenchTypeOK'
  BY <1>1, <1>2, <1>3, <1>4, <1>5 DEF BenchInv, BenchTypeOK, Stages
<1>7. FilesFilled' /\ FilesStayTrue' /\ BatchesExplain'
  BY <1>1, <1>2, <1>3 DEF BenchInv, FilesFilled, FilesStayTrue, BatchesExplain, BeforeBatches,
     AfterBatches, Tells
<1>8. StillAfterDrain'
  BY <1>2, <1>3 DEF StillAfterDrain
<1>9. SummaryFollows'
  <2>1. Readable(others)' <=> Readable(others')
    BY <1>2 DEF Readable, AllMeasured, Measured, Row
  <2>2. QED
    BY <2>1, <1>1 DEF SummaryFollows
<1>10. QED
  BY <1>4, <1>6, <1>7, <1>8, <1>9 DEF BenchInv

LEMMA BenchInvStep == BenchInv /\ [BenchNext]_benchVars => BenchInv'
<1> SUFFICES ASSUME BenchInv, [BenchNext]_benchVars PROVE BenchInv'
  OBVIOUS
<1>1. CASE Submissions
  <2>1. PICK i \in Intents : Running /\ (Store(i) \/ Refuse(i) \/ GivesUp(i))
    BY <1>1 DEF Submissions
  <2>2. QED
    BY <2>1, StoreStep, UnheardStep
<1>2. CASE Drive
  BY <1>2, DrainStep, ListStep, FetchIntentStep, ListBatchesStep, FetchBatchesStep,
     FetchMetricsStep, CheckChainStep, AbortStep, SummarizeStep DEF Drive
<1>3. CASE RelayerRuns
  BY <1>3, RelayerRunsStep
<1>4. CASE Running /\ TimePasses /\ UNCHANGED <<ledgerVars, drift, driverVars>>
  BY <1>4, ClockStep
<1>5. CASE UNCHANGED benchVars
  <2>1. /\ UNCHANGED <<ledgerVars, recordVars>> /\ UNCHANGED driverVars
    BY <1>5 DEF benchVars, relayerVars
  <2>2. LedgerInv' /\ TimesFollow' /\ RecordsTypeOK' /\ Listed' = Listed
    BY <2>1, RecordsStay DEF BenchInv, BenchTypeOK
  <2>3. /\ phase' = phase /\ drained' = drained /\ observedAt' = observedAt /\ listed' = listed
        /\ intents' = intents /\ sheets' = sheets /\ others' = others
        /\ arriving' = arriving /\ reply' = reply
        /\ st' = st /\ attempts' = attempts /\ rows' = rows /\ times' = times
    BY <2>1 DEF collected, ledgerVars, recordVars, driverVars, requestVars
  <2>4. BenchTypeOK' /\ RepliesFollow' /\ FilesFilled' /\ FilesStayTrue'
    BY <2>2, <2>3 DEF BenchInv, BenchTypeOK, RepliesFollow, FilesFilled, FilesStayTrue, Running, Tells
  <2>5. BatchesExplain' /\ StillAfterDrain'
    BY <2>2, <2>3 DEF BenchInv, BatchesExplain, StillAfterDrain, Running, Answered, Answer,
       Confirmed, In, Attempted, HavingReceipt, Broadcast
  <2>6. SummaryFollows'
    <3>1. \A beside : Readable(beside)' <=> Readable(beside)
      BY <2>3 DEF Readable, AllMeasured, Measured, Row
    <3>2. QED
      BY <2>3, <3>1 DEF BenchInv, SummaryFollows, Readable, AllMeasured, Measured, Row
  <2>7. QED
    BY <2>2, <2>4, <2>5, <2>6 DEF BenchInv
<1>6. QED
  BY <1>1, <1>2, <1>3, <1>4, <1>5 DEF BenchNext

LEMMA BenchStarts == BenchInit => BenchInv
<1> SUFFICES ASSUME BenchInit PROVE BenchInv
  OBVIOUS
<1>1. LedgerInv /\ TimesFollow /\ RecordsTypeOK /\ Listed = {}
  BY EmptyLedger DEF NothingHappened, BenchInit, LedgerInit, RecordsInit
<1>2. /\ phase = "measure" /\ arriving = Intents /\ reply = [i \in Intents |-> "pending"]
      /\ drained = FALSE /\ observedAt = Never
      /\ listed = << >> /\ intents = << >> /\ sheets = << >> /\ others = {}
      /\ st = [i \in Intents |-> "ABSENT"] /\ rows = << >>
  BY DEF BenchInit, LedgerInit
<1>3. BenchTypeOK
  <2>1. DOMAIN listed = {} /\ DOMAIN intents = {} /\ Len(sheets) = 0 /\ Len(rows) = 0
    BY <1>2
  <2>2. phase \in Stages /\ drained \in BOOLEAN /\ observedAt \in Nat
    BY <1>2 DEF Stages, Never
  <2>3. /\ arriving \subseteq Intents /\ others = {}
        /\ reply \in [Intents -> {"pending", "accepted", "refused", "unknown"}]
    BY <1>2
  <2>4. QED
    BY <2>1, <2>2, <2>3, <1>1 DEF BenchTypeOK
<1>4. RepliesFollow
  BY <1>2 DEF RepliesFollow
<1>5. FilesFilled /\ FilesStayTrue /\ BatchesExplain
  BY <1>2 DEF FilesFilled, FilesStayTrue, BatchesExplain, BeforeBatches, AfterBatches
<1>6. StillAfterDrain /\ SummaryFollows
  BY <1>2 DEF StillAfterDrain, SummaryFollows
<1>7. QED
  BY <1>1, <1>3, <1>4, <1>5, <1>6 DEF BenchInv

(* The relayer's tables, the driver's files and the drain fit together     *)
(* after every request, whatever the relayer does between two of them      *)
(* (Benchmark, BenchInv).                                                  *)
THEOREM BenchInvariance == BenchSpec => []BenchInv
<1>1. QED
  BY BenchStarts, BenchInvStep, PTL DEF BenchSpec

-----------------------------------------------------------------------------
(***************************************************************************)
(* What the rows of the relayer tell.                                      *)
(***************************************************************************)

LEMMA FirstBroadcastStays ==
  ASSUME BenchInv, [BenchNext]_benchVars
  PROVE  [\A i \in Listed \intersect Listed' :
            times[i].submitted # Never => times'[i].submitted = times[i].submitted]_times
<1>1. LedgerInv /\ TimesFollow /\ RecordsTypeOK
  BY DEF BenchInv, BenchTypeOK
<1>2. CASE Submissions
  <2>1. PICK i \in Intents : Running /\ (Store(i) \/ Refuse(i) \/ GivesUp(i))
    BY <1>2 DEF Submissions
  <2>2. CASE Store(i)
    <3>1. Insert(i) /\ RecordInsert(i)
      BY <2>2 DEF Store
    <3>2. i \notin Listed /\ \A j \in Intents : j # i => times'[j] = times[j]
      BY <3>1, <1>1, InsertTimes
    <3>3. QED
      BY <3>2 DEF Listed
  <2>3. CASE Refuse(i) \/ GivesUp(i)
    BY <2>3 DEF Refuse, GivesUp, relayerVars, recordVars
  <2>4. QED
    BY <2>1, <2>2, <2>3
<1>3. CASE Drive
  <2>1. CASE Abort \/ Summarize
    <3>1. Forget
      BY <2>1 DEF Abort, Summarize
    <3>2. Listed' = {}
      BY <3>1 DEF Forget, Listed
    <3>3. QED
      BY <3>2
  <2>2. CASE ~(Abort \/ Summarize)
    <3>1. UNCHANGED relayerVars
      BY <2>2, <1>3 DEF Drive, DrainReturns, DrainTimesOut, DrainEnds, List, FetchIntent,
         ListBatches, FetchBatches, FetchMetrics, CheckChain
    <3>2. QED
      BY <3>1 DEF relayerVars, recordVars
  <2>3. QED
    BY <2>1, <2>2
<1>4. CASE RelayerRuns
  <2>1. Coordinate /\ RecordSteps
    BY <1>4 DEF RelayerRuns
  <2>2. Moves
    BY <2>1, <1>1, CoordinateMoves
  <2>3. \A i \in Intents : times[i].submitted # Never => times'[i].submitted = times[i].submitted
    BY <1>1, <2>1, <2>2, TimesStep
  <2>4. QED
    BY <2>3 DEF Listed
<1>5. CASE Running /\ TimePasses /\ UNCHANGED <<ledgerVars, drift, driverVars>>
  BY <1>5 DEF TimePasses
<1>6. CASE UNCHANGED benchVars
  BY <1>6 DEF benchVars, relayerVars, recordVars
<1>7. QED
  BY <1>2, <1>3, <1>4, <1>5, <1>6 DEF BenchNext

(* The row of an intent tells one life of it, and its first broadcast      *)
(* stays the first one, whatever the relayer retried and rebroadcast       *)
(* (Benchmark, RecordsTell).                                               *)
THEOREM RecordsTellOneLife == BenchSpec => RecordsTell
<1>1. BenchInv => BenchTypeOK /\ \A i \in Listed : Tells(Answer(i))
  BY DEF BenchInv, TimesFollow
<1>2. BenchInv /\ [BenchNext]_benchVars =>
        [\A i \in Listed \intersect Listed' :
           times[i].submitted # Never => times'[i].submitted = times[i].submitted]_times
  BY FirstBroadcastStays
<1>3. QED
  BY <1>1, <1>2, BenchInvariance, PTL DEF BenchSpec, RecordsTell

-----------------------------------------------------------------------------
(***************************************************************************)
(* The collected files agree with each other.                              *)
(***************************************************************************)

(* The receipts in the batches file are the relayer's own.                 *)
LEMMA SheetReceipts ==
  ASSUME BenchInv, Running
  PROVE  HavingReceipt(sheets, {"success"}) \subseteq HavingReceipt(rows, {"success"})
<1>1. SUFFICES ASSUME NEW k \in HavingReceipt(sheets, {"success"})
               PROVE  k \in HavingReceipt(rows, {"success"})
  OBVIOUS
<1>2. k \in DOMAIN sheets /\ sheets[k].receipt = "success"
  BY DEF HavingReceipt
<1>3. k \in DOMAIN rows /\ sheets[k].receipt \in {"none", rows[k].receipt}
  BY <1>2, SheetsTyped DEF BenchInv, FilesStayTrue
<1>4. QED
  BY <1>2, <1>3 DEF HavingReceipt

(* An intent succeeds in one batch at most.                                *)
LEMMA OneSuccess ==
  ASSUME BenchInv, Running, NEW i \in Confirmed(intents), phase \in AfterBatches
  PROVE  Cardinality({k \in HavingReceipt(sheets, {"success"}) : i \in sheets[k].ids}) = 1
<1> DEFINE K == {k \in HavingReceipt(sheets, {"success"}) : i \in sheets[k].ids}
<1>1. PICK n \in HavingReceipt(sheets, {"success"}) : i \in sheets[n].ids
  BY DEF BenchInv, BatchesExplain
<1>2. ASSUME NEW k \in K PROVE k = n
  <2>1. k \in HavingReceipt(rows, {"success"}) /\ n \in HavingReceipt(rows, {"success"})
    BY <1>1, SheetReceipts
  <2>2. sheets[k].ids = rows[k].ids /\ sheets[n].ids = rows[n].ids
    BY <1>1 DEF HavingReceipt, BenchInv, FilesStayTrue
  <2>3. i \in rows[k].ids \intersect rows[n].ids
    BY <1>1, <2>2
  <2>4. QED
    BY <2>1, <2>3 DEF BenchInv, LedgerInv, StatesFollowRows
<1>3. K = {n}
  BY <1>1, <1>2
<1>4. QED
  BY <1>3, FS_Singleton

LEMMA SizeOfDisjoint ==
  ASSUME NEW S, NEW T, IsFiniteSet(S), IsFiniteSet(T), S \intersect T = {}
  PROVE  /\ IsFiniteSet(S \union T) /\ Cardinality(S \union T) = Cardinality(S) + Cardinality(T)
         /\ Cardinality(S) \in Nat /\ Cardinality(T) \in Nat
<1>1. Cardinality(S \intersect T) = 0
  BY FS_EmptySet
<1>2. Cardinality(S) \in Nat /\ Cardinality(T) \in Nat
  BY FS_CardinalityType
<1>3. /\ IsFiniteSet(S \union T)
      /\ Cardinality(S \union T) = Cardinality(S) + Cardinality(T) - Cardinality(S \intersect T)
  BY FS_Union
<1>4. QED
  BY <1>1, <1>2, <1>3

(* Each intent counts under one outcome.                                   *)
LEMMA OutcomesPartition ==
  ASSUME BenchInv
  PROVE  Outcomes(Measured) = Measured.figures.accepted
<1> DEFINE D == DOMAIN intents
           C == Confirmed(intents)
           F == FailedAfterAttempt(intents)
           R == BeforeAttempt(intents, "REJECTED")
           X == ExpiredEarly(intents)
           U == Unfinished(intents)
<1>1. IsFiniteSet(D)
  BY SizesAssumption, FS_Subset DEF BenchInv, BenchTypeOK
<1>2. /\ C \in SUBSET D /\ F \in SUBSET D /\ R \in SUBSET D /\ X \in SUBSET D /\ U \in SUBSET D
  BY DEF Confirmed, In, FailedAfterAttempt, Attempted, BeforeAttempt, ExpiredEarly, Unfinished
<1>3. D = C \union F \union R \union X \union U
  <2>1. ASSUME NEW i \in D PROVE i \in C \/ i \in F \/ i \in R \/ i \in X \/ i \in U
    <3>1. /\ intents[i].state \in {"QUEUED"} \union InFlight \union Terminal
          /\ intents[i].state = "FAILED" => intents[i].attempts > 0
      BY DEF BenchInv, FilesFilled, AnswerRecords
    <3>2. QED
      BY <3>1 DEF Confirmed, In, FailedAfterAttempt, Attempted, Failures, BeforeAttempt,
         ExpiredEarly, Unfinished, InFlight, Terminal, Final
  <2>2. QED
    BY <2>1, <1>2
<1>4. /\ C \intersect F = {} /\ (C \union F) \intersect R = {}
      /\ (C \union F \union R) \intersect X = {} /\ (C \union F \union R \union X) \intersect U = {}
  BY DEF Confirmed, In, FailedAfterAttempt, Attempted, Failures, BeforeAttempt,
     ExpiredEarly, Unfinished, Final
<1> HIDE DEF D, C, F, R, X, U
<1>5. /\ IsFiniteSet(C) /\ IsFiniteSet(F) /\ IsFiniteSet(R) /\ IsFiniteSet(X) /\ IsFiniteSet(U)
  BY <1>1, <1>2, FS_Subset
<1>6. /\ IsFiniteSet(C \union F) /\ Cardinality(C \union F) = Cardinality(C) + Cardinality(F)
  BY <1>4, <1>5, SizeOfDisjoint
<1>7. /\ IsFiniteSet(C \union F \union R)
      /\ Cardinality(C \union F \union R) = Cardinality(C) + Cardinality(F) + Cardinality(R)
  BY <1>4, <1>5, <1>6, SizeOfDisjoint
<1>8. /\ IsFiniteSet(C \union F \union R \union X)
      /\ Cardinality(C \union F \union R \union X) =
           Cardinality(C) + Cardinality(F) + Cardinality(R) + Cardinality(X)
  BY <1>4, <1>5, <1>7, SizeOfDisjoint
<1>9. Cardinality(D) =
         Cardinality(C) + Cardinality(F) + Cardinality(R) + Cardinality(X) + Cardinality(U)
  BY <1>3, <1>4, <1>5, <1>8, SizeOfDisjoint
<1>10. /\ Measured.figures.accepted = Cardinality(D) /\ Measured.figures.confirmed = Cardinality(C)
       /\ Measured.failed = Cardinality(F) /\ Measured.rejectedBeforeAttempt = Cardinality(R)
       /\ Measured.expiredBeforeAttempt = Cardinality(X)
       /\ Measured.figures.unfinished = Cardinality(U)
  BY DEF Measured, RunMetrics, Figures, D, C, F, R, X, U
<1>11. QED
  BY <1>9, <1>10 DEF Outcomes

LEMMA FilesTell == BenchInv => FilesAgree
<1> SUFFICES ASSUME BenchInv, Collected PROVE
      /\ \A i \in Confirmed(intents) :
           Cardinality({k \in HavingReceipt(sheets, {"success"}) : i \in sheets[k].ids}) = 1
      /\ \A i \in Attempted(intents) : \E k \in Broadcast(sheets) : i \in sheets[k].ids
      /\ DOMAIN intents # {} => LET m == Measured IN Outcomes(m) = m.figures.accepted
  BY DEF FilesAgree
<1>1. Running /\ phase \in AfterBatches
  BY DEF Collected, Running, AfterBatches
<1>2. \A i \in Attempted(intents) : \E k \in Broadcast(sheets) : i \in sheets[k].ids
  BY <1>1 DEF BenchInv, BatchesExplain
<1>3. QED
  BY <1>1, <1>2, OneSuccess, OutcomesPartition

(* Whenever everything is collected the batches file explains the intents  *)
(* file, whatever the relayer did between the requests, and every intent   *)
(* counts under one outcome (Benchmark, FilesAgree).                       *)
THEOREM FilesAlwaysAgree == BenchSpec => []FilesAgree
<1>1. QED
  BY FilesTell, BenchInvariance, PTL

-----------------------------------------------------------------------------
(***************************************************************************)
(* The relayer's report and the driver's.                                  *)
(***************************************************************************)

LEMMA FetchedReportsAgree ==
  ASSUME BenchInv, FetchMetrics, drained, Answered
  PROVE  Reported = [figures |-> Measured.figures, failed |-> Measured.failed]
<1>1. phase = "metrics" /\ DOMAIN intents = DOMAIN listed
  BY DEF FetchMetrics
<1>2. Running /\ phase \notin BeforeBatches
  BY <1>1 DEF Running, BeforeBatches
<1>3. /\ listed = [i \in Listed |-> st[i]] /\ sheets = rows
      /\ \A i \in DOMAIN intents : intents[i] = Answer(i)
  BY <1>1, <1>2 DEF BenchInv, StillAfterDrain
<1>4. intents = [i \in DOMAIN intents |-> intents[i]]
  BY DEF BenchInv, FilesFilled
<1>5. DOMAIN listed = Listed
  BY <1>3
<1>6. intents = Answers
  BY <1>1, <1>3, <1>4, <1>5 DEF Answers
<1>7. Failures(intents) \intersect Attempted(intents) = FailedAfterAttempt(intents)
  BY DEF FailedAfterAttempt
<1>8. QED
  BY <1>3, <1>6, <1>7 DEF Reported, ServiceMetrics, Measured, RunMetrics

(* Of a run that drained, every submission having been answered, GET       *)
(* /metrics and the driver report the same (Benchmark, ReportsAgree).      *)
THEOREM ReportsAlwaysAgree == BenchSpec => ReportsAgree
<1>1. BenchInv /\ [BenchNext]_benchVars =>
        [FetchMetrics /\ drained /\ Answered /\ DOMAIN intents # {} =>
           Reported = [figures |-> Measured.figures, failed |-> Measured.failed]]_benchVars
  BY FetchedReportsAgree
<1>2. QED
  BY <1>1, BenchInvariance, PTL DEF BenchSpec, ReportsAgree

-----------------------------------------------------------------------------
(***************************************************************************)
(* The figures.                                                            *)
(***************************************************************************)

LEMMA MaxOfNaturals ==
  ASSUME NEW T, T \subseteq Nat, IsFiniteSet(T), T # {}
  PROVE  Max(T) \in T /\ \A n \in T : n <= Max(T)
<1>1. PICK m \in T : \A n \in T : n <= m
  BY GreatestNatural
<1>2. m \in T /\ \A n \in T : m >= n
  BY <1>1
<1>3. Max(T) \in T /\ \A n \in T : Max(T) >= n
  BY <1>2 DEF Max
<1>4. QED
  BY <1>3

LEMMA GasIsNatural ==
  ASSUME NEW r \in Seq(BatchRecords)
  PROVE  Gas(r) \in Nat
<1> DEFINE D == Received(r)
           f == [k \in D |-> GasUsed(r[k])]
<1>1. D \subseteq DOMAIN r /\ DOMAIN r = 1 .. Len(r) /\ Len(r) \in Nat
  BY LenProperties DEF Received, HavingReceipt
<1>2. IsFiniteSet(D)
  <2>1. IsFiniteSet(1 .. Len(r)) /\ D \in SUBSET (1 .. Len(r))
    BY <1>1, FS_Interval
  <2>2. QED
    BY <2>1, FS_Subset
<1>3. ASSUME NEW k \in D PROVE f[k] \in Nat
  <2>1. r[k] \in BatchRecords /\ r[k].receipt \in {"success", "reverted"}
    BY <1>1, ElementOfSeq DEF Received, HavingReceipt
  <2>2. IsFiniteSet(r[k].ids)
    BY <2>1, SizesAssumption, FS_Subset DEF BatchRecords
  <2>3. Cardinality(r[k].ids) \in Nat
    BY <2>2, FS_CardinalityType
  <2>4. GasUsed(r[k]) \in Nat
    BY <2>1, <2>3 DEF GasUsed
  <2>5. QED
    BY <2>4
<1>4. Gas(r) = SumFunctionOnSet(f, D)
  BY DEF Gas, SumFunction
<1> HIDE DEF f, D
<1>5. QED
  BY <1>2, <1>3, <1>4, SumIsNatural

(* One figure, two ways of rounding it half up.                            *)
LEMMA Quotient ==
  ASSUME NEW a \in Nat, NEW b \in Nat \ {0}
  PROVE  /\ a \div b \in Nat
         /\ b * (a \div b) <= a /\ a < b * (a \div b) + b
OBVIOUS

LEMMA QuotientIs ==
  ASSUME NEW a \in Nat, NEW b \in Nat \ {0}, NEW q \in Nat, b * q <= a, a < b * q + b
  PROVE  a \div b = q
OBVIOUS

LEMMA RoundedAlike ==
  ASSUME NEW n \in Nat, NEW d \in Nat \ {0}
  PROVE  DecimalRatio(n, d) = RoundedGas(n, d) /\ RoundedGas(n, d) \in Nat
<1> DEFINE m == n * 10000
           h == d \div 2
           q == (m + h) \div d
           p == d * q
<1>1. m \in Nat /\ h \in Nat /\ 2 * h <= d /\ d <= 2 * h + 1
  OBVIOUS
<1> HIDE DEF m, h
<1>2. q \in Nat /\ p <= m + h /\ m + h < p + d
  BY <1>1, Quotient
<1>3. p \in Nat /\ (d * 2) * q = 2 * p
  BY <1>2
<1> HIDE DEF p, q
<1>4. (d * 2) * q <= m * 2 + d /\ m * 2 + d < (d * 2) * q + d * 2
  BY <1>1, <1>2, <1>3
<1>5. (m * 2 + d) \div (d * 2) = q
  BY <1>1, <1>2, <1>4, QuotientIs
<1>6. QED
  BY <1>2, <1>5 DEF DecimalRatio, RoundedGas, m, h, q

-----------------------------------------------------------------------------
(***************************************************************************)
(* A run that drained.                                                     *)
(***************************************************************************)

(* What the later review finds of a complete, successful run.              *)
GoodRun ==
  /\ BenchInv /\ drained /\ Answered /\ phase = "done"
  /\ Confirmed(intents) = Intents /\ HavingReceipt(sheets, {"reverted"}) = {}

(* Its files are the relayer's tables of one moment.                       *)
LEMMA GoodRunStands ==
  ASSUME GoodRun
  PROVE  /\ \A i \in Listed : st[i] \in Terminal /\ times[i].event <= observedAt
         /\ DOMAIN intents = Intents /\ Listed = Intents
         /\ \A i \in Intents : intents[i] = Answer(i) /\ st[i] = "CONFIRMED"
         /\ sheets = rows /\ LedgerInv
<1>1. /\ BenchInv /\ drained /\ Answered /\ phase = "done" /\ Confirmed(intents) = Intents
  BY DEF GoodRun
<1>2. /\ \A i \in Listed : st[i] \in Terminal /\ times[i].event <= observedAt
      /\ listed = [i \in Listed |-> st[i]]
      /\ \A i \in DOMAIN intents : intents[i] = Answer(i)
      /\ sheets = rows
  BY <1>1 DEF BenchInv, StillAfterDrain, BeforeBatches
<1>3. DOMAIN intents = Intents
  BY <1>1 DEF BenchInv, BenchTypeOK, Confirmed, In
<1>4. DOMAIN listed = Listed /\ DOMAIN intents = DOMAIN listed
  BY <1>1, <1>2 DEF BenchInv, FilesFilled, BeforeBatches
<1>5. \A i \in Intents : intents[i].state = "CONFIRMED"
  BY <1>1 DEF Confirmed, In
<1>6. \A i \in Intents : st[i] = "CONFIRMED"
  BY <1>2, <1>3, <1>5 DEF Answer
<1>7. QED
  BY <1>1, <1>2, <1>3, <1>4, <1>6 DEF BenchInv

LEMMA GoodRunIsComplete ==
  ASSUME GoodRun
  PROVE  IsComplete /\ BalancesAgree
<1>1. /\ \A i \in Listed : st[i] \in Terminal
      /\ DOMAIN intents = Intents /\ Listed = Intents
      /\ \A i \in Intents : st[i] = "CONFIRMED"
      /\ sheets = rows /\ LedgerInv
  BY GoodRunStands
<1>2. BenchInv /\ drained /\ Answered /\ Confirmed(intents) = Intents
  BY DEF GoodRun
<1>3. Accepted = Intents
  <2>1. \A i \in Intents : reply[i] # "refused"
    BY <1>1, <1>2 DEF BenchInv, RepliesFollow
  <2>2. QED
    BY <2>1, <1>2 DEF Accepted, Answered
<1>4. /\ ExecutedIn(rows) = {i \in Listed : st[i] = "CONFIRMED"}
      /\ Paid = {i \in Listed : st[i] = "CONFIRMED"}
  BY <1>1, ReceiptsAreTheChain
<1>5. QED
  BY <1>1, <1>2, <1>3, <1>4 DEF IsComplete, BalancesAgree

(* The window ends with the last event the drain saw.                      *)
LEMMA GoodRunEnds ==
  ASSUME GoodRun, Intents # {}
  PROVE  Measured.end <= observedAt
<1>1. /\ \A i \in Listed : times[i].event <= observedAt
      /\ DOMAIN intents = Intents /\ Listed = Intents
      /\ \A i \in Intents : intents[i] = Answer(i) /\ st[i] = "CONFIRMED"
  BY GoodRunStands
<1>2. BenchInv
  BY DEF GoodRun
<1> DEFINE last == [i \in Intents |-> FinalAt(intents[i])]
           T == {last[i] : i \in Intents}
<1>3. ASSUME NEW i \in Intents PROVE last[i] \in Nat /\ last[i] <= observedAt
  <2>1. Tells(intents[i]) /\ intents[i].state = "CONFIRMED" /\ intents[i].event = times[i].event
    BY <1>1, <1>2 DEF BenchInv, FilesFilled, Answer
  <2>2. FinalAt(intents[i]) = times[i].event
    BY <2>1 DEF Tells, FinalAt
  <2>3. times[i].event \in Nat
    BY <1>2, TimesTyped DEF BenchInv, BenchTypeOK
  <2>4. QED
    BY <1>1, <2>2, <2>3
<1>4. Unfinished(intents) = {}
  BY <1>1 DEF Unfinished, In, Final, Answer
<1>5. Measured.end = Max(T)
  <2>1. {FinalAt(intents[i]) : i \in DOMAIN intents} = T
    BY <1>1
  <2> HIDE DEF T
  <2>2. QED
    BY <2>1, <1>4 DEF Measured, RunMetrics, WindowEnd
<1> HIDE DEF last
<1>6. T \subseteq Nat /\ T # {} /\ \A n \in T : n <= observedAt
  BY <1>3
<1>7. IsFiniteSet(T)
  BY SizesAssumption, FiniteImage
<1> HIDE DEF T
<1>8. Max(T) \in T
  BY <1>6, <1>7, MaxOfNaturals
<1>9. QED
  BY <1>5, <1>6, <1>8

(* Each intent was in one batch, and none of a batch was left out.         *)
LEMMA GoodRunAddsUp ==
  ASSUME GoodRun
  PROVE  SumFunction([k \in DOMAIN sheets |-> Cardinality(sheets[k].ids)])
           = Cardinality(Confirmed(intents))
<1>1. /\ \A i \in Listed : st[i] \in Terminal
      /\ Listed = Intents /\ \A i \in Intents : st[i] = "CONFIRMED"
      /\ sheets = rows /\ LedgerInv
  BY GoodRunStands
<1>2. Confirmed(intents) = Intents /\ HavingReceipt(sheets, {"reverted"}) = {}
  BY DEF GoodRun
<1> DEFINE D == DOMAIN rows
           f == [k \in D |-> rows[k].ids]
           sizes == [k \in D |-> Cardinality(rows[k].ids)]
<1>3. rows \in Seq(BatchRecords) /\ D = 1 .. Len(rows) /\ Len(rows) \in Nat
  BY <1>1, LenProperties DEF LedgerInv, TablesTyped
<1>4. \A k \in D : rows[k] \in BatchRecords /\ rows[k].receipt # "none"
  BY <1>1, <1>3, ReceiptsAreTheChain, ElementOfSeq
<1>5. HavingReceipt(rows, {"success"}) = D
  BY <1>1, <1>2, <1>4 DEF HavingReceipt, BatchRecords
<1>6. IsFiniteSet(D) /\ \A k \in D : IsFiniteSet(rows[k].ids)
  <2>1. IsFiniteSet(D)
    BY <1>3, FS_Interval
  <2>2. \A k \in D : rows[k].ids \in SUBSET Intents
    BY <1>4 DEF BatchRecords
  <2> HIDE DEF D
  <2>3. QED
    BY <2>1, <2>2, SizesAssumption, FS_Subset
<1>7. \A k, n \in D : rows[k].ids \intersect rows[n].ids # {} => k = n
  BY <1>1, <1>5 DEF LedgerInv, StatesFollowRows
<1>8. UNION {rows[k].ids : k \in D} = Intents
  BY <1>1, <1>4, <1>5 DEF LedgerInv, StatesFollowRows, BatchRecords
<1>9. SumFunctionOnSet(sizes, D) = Cardinality(UNION {f[k] : k \in D})
  <2>1. /\ \A k \in D : IsFiniteSet(f[k]) /\ sizes[k] = Cardinality(f[k])
        /\ \A k, n \in D : f[k] \intersect f[n] # {} => k = n
    BY <1>6, <1>7
  <2> HIDE DEF D, f, sizes
  <2>2. QED
    BY <2>1, <1>6, SumOfSizes
<1>10. UNION {f[k] : k \in D} = Intents
  BY <1>8
<1>11. SumFunction([k \in DOMAIN sheets |-> Cardinality(sheets[k].ids)]) = SumFunctionOnSet(sizes, D)
  BY <1>1 DEF SumFunction
<1> HIDE DEF f, sizes, D
<1>12. QED
  BY <1>2, <1>9, <1>10, <1>11

LEMMA GoodRunIsReviewed ==
  ASSUME GoodRun
  PROVE  Reviewed
<1>1. BenchInv /\ Confirmed(intents) = Intents
  BY DEF GoodRun
<1>2. \A i \in DOMAIN intents : Tells(intents[i])
  BY <1>1 DEF BenchInv, FilesFilled
<1>3. \A k \in DOMAIN sheets : sheets[k].ids # {} /\ Cardinality(sheets[k].ids) <= BatchSize
  BY GoodRunStands DEF LedgerInv, RowsFollowChain
<1>4. Measured.gasPerSuccess = RoundedGas(Measured.figures.gas, Measured.figures.confirmed)
  <2>1. Gas(sheets) \in Nat
    BY <1>1, GasIsNatural DEF BenchInv, FilesFilled
  <2>2. Cardinality(Intents) \in Nat \ {0}
    BY SizesAssumption, FS_CardinalityType, FS_EmptySet
  <2>3. /\ Measured.gasPerSuccess = DecimalRatio(Gas(sheets), Cardinality(Intents))
        /\ Measured.figures.gas = Gas(sheets) /\ Measured.figures.confirmed = Cardinality(Intents)
    BY <1>1, SizesAssumption DEF Measured, RunMetrics, Figures, PerSuccess
  <2>4. QED
    BY <2>1, <2>2, <2>3, RoundedAlike
<1>5. Measured.end <= observedAt
  BY SizesAssumption, GoodRunEnds
<1>6. QED
  BY <1>2, <1>3, <1>4, <1>5, GoodRunIsComplete, GoodRunAddsUp DEF Reviewed

LEMMA DrainedRunsTell == BenchInv => DrainedRunsReconcile
<1> SUFFICES ASSUME BenchInv, drained, Answered
             PROVE  /\ phase # "failed"
                    /\ (/\ phase = "done" /\ Confirmed(intents) = Intents
                        /\ HavingReceipt(sheets, {"reverted"}) = {}) => Reviewed
  BY DEF DrainedRunsReconcile
<1>1. phase # "failed"
  BY DEF BenchInv, StillAfterDrain
<1>2. QED
  BY <1>1, GoodRunIsReviewed DEF GoodRun

(* A run that drained, every submission having been answered, agrees with  *)
(* the chain, and a complete successful one passes the review of the       *)
(* archived runs (Benchmark, DrainedRunsReconcile).                        *)
THEOREM DrainedRunsAlwaysReconcile == BenchSpec => []DrainedRunsReconcile
<1>1. QED
  BY DrainedRunsTell, BenchInvariance, PTL

-----------------------------------------------------------------------------
(***************************************************************************)
(* The summary, and its import.                                            *)
(***************************************************************************)

(* Of n values the k-th smallest exists; it is one of them, fewer than k   *)
(* are below it and no fewer than k up to it.                              *)
LEMMA RankedExists ==
  ASSUME NEW D, IsFiniteSet(D), NEW f \in [D -> Nat], NEW k \in 1 .. Cardinality(D)
  PROVE  /\ Ranked(f, k) \in Nat
         /\ Cardinality({d \in D : f[d] < Ranked(f, k)}) < k
         /\ Cardinality({d \in D : f[d] <= Ranked(f, k)}) >= k
<1> DEFINE V == {f[d] : d \in D}
           Upto(v) == {d \in D : f[d] <= v}
           Below(v) == {d \in D : f[d] < v}
           R == {v \in Nat : Cardinality(Upto(v)) >= k}
<1>1. V \subseteq Nat /\ DOMAIN f = D
  OBVIOUS
<1>2. IsFiniteSet(V)
  BY FiniteImage
<1>3. D # {} /\ k \in Nat /\ k >= 1 /\ k <= Cardinality(D) /\ Cardinality(D) \in Nat
  BY FS_CardinalityType, FS_EmptySet
<1>4. V # {}
  BY <1>3
<1>5. R # {}
  <2>1. PICK m \in V : \A n \in V : n <= m
    <3> HIDE DEF V
    <3>1. QED
      BY <1>1, <1>2, <1>4, GreatestNatural
  <2>2. Upto(m) = D
    BY <2>1
  <2> HIDE DEF Upto
  <2>3. m \in R
    BY <1>1, <1>3, <2>1, <2>2
  <2>4. QED
    BY <2>3
<1>6. PICK v \in R : \A u \in R : v <= u
  <2>1. R \in SUBSET Nat
    OBVIOUS
  <2> HIDE DEF R
  <2>2. QED
    BY <1>5, <2>1, LeastNatural
<1>7. v \in Nat /\ Cardinality(Upto(v)) >= k
  OBVIOUS
<1>8. Cardinality(Below(v)) < k
  <2>1. CASE v = 0
    <3>1. Below(v) = {}
      BY <2>1
    <3> HIDE DEF Below
    <3>2. QED
      BY <3>1, <1>3, FS_EmptySet
  <2>2. CASE v # 0
    <3>1. v - 1 \in Nat /\ ~(v <= v - 1)
      BY <1>7, <2>2
    <3>2. v - 1 \notin R
      BY <1>6, <3>1
    <3>3. Below(v) = Upto(v - 1)
      <4>1. \A d \in D : f[d] < v <=> f[d] <= v - 1
        BY <1>7
      <4>2. QED
        BY <4>1
    <3>4. Cardinality(Upto(v - 1)) \in Nat
      BY FS_Subset, FS_CardinalityType
    <3> HIDE DEF Upto, Below
    <3>5. QED
      BY <1>3, <3>1, <3>2, <3>3, <3>4
  <2>3. QED
    BY <2>1, <2>2
<1>9. v \in V
  <2> SUFFICES ASSUME v \notin V PROVE FALSE
    OBVIOUS
  <2>1. Upto(v) = Below(v)
    <3>1. \A d \in D : f[d] # v /\ f[d] \in Nat
      OBVIOUS
    <3>2. QED
      BY <1>7, <3>1
  <2>2. Cardinality(Below(v)) \in Nat
    BY FS_Subset, FS_CardinalityType
  <2> HIDE DEF Upto, Below
  <2>3. QED
    BY <1>3, <1>7, <1>8, <2>1, <2>2
<1> DEFINE Rank(u) == /\ Cardinality({d \in DOMAIN f : f[d] < u}) < k
                      /\ Cardinality({d \in DOMAIN f : f[d] <= u}) >= k
<1>10. Rank(v)
  BY <1>1, <1>7, <1>8
<1>11. Ranked(f, k) = CHOOSE u \in V : Rank(u)
  BY <1>1 DEF Ranked
<1> HIDE DEF V, Rank
<1>12. Ranked(f, k) \in V /\ Rank(Ranked(f, k))
  BY <1>9, <1>10, <1>11
<1>13. QED
  BY <1>1, <1>12 DEF Rank

(* A higher rank is no smaller value.                                      *)
LEMMA RankedGrows ==
  ASSUME NEW D, IsFiniteSet(D), NEW f \in [D -> Nat],
         NEW k \in 1 .. Cardinality(D), NEW n \in 1 .. Cardinality(D), k <= n
  PROVE  Ranked(f, k) <= Ranked(f, n)
<1> DEFINE p == Ranked(f, k)
           q == Ranked(f, n)
           Below == {d \in D : f[d] < p}
           Upto == {d \in D : f[d] <= q}
<1>1. p \in Nat /\ q \in Nat /\ Cardinality(Below) < k /\ Cardinality(Upto) >= n
  BY RankedExists
<1>2. IsFiniteSet(Below) /\ IsFiniteSet(Upto)
  BY FS_Subset
<1>3. Cardinality(D) \in Nat /\ k \in Nat /\ n \in Nat
  BY FS_CardinalityType
<1> SUFFICES ASSUME q < p PROVE FALSE
  BY <1>1
<1> HIDE DEF p, q
<1>4. Upto \in SUBSET Below
  BY <1>1
<1> HIDE DEF Upto, Below
<1>5. Cardinality(Upto) <= Cardinality(Below) /\ Cardinality(Upto) \in Nat /\ Cardinality(Below) \in Nat
  BY <1>2, <1>4, FS_Subset, FS_CardinalityType
<1>6. QED
  BY <1>1, <1>3, <1>5

LEMMA PercentilesGrow ==
  ASSUME NEW D, IsFiniteSet(D), D # {}, NEW f \in [D -> Nat]
  PROVE  /\ Percentile(f, 50) \in Nat /\ Percentile(f, 95) \in Nat
         /\ Percentile(f, 50) <= Percentile(f, 95)
<1> DEFINE n == Cardinality(D)
           Rank(percent) == Max({1, CeilDiv(percent * n, 100)})
<1>1. n \in Nat /\ n >= 1
  BY FS_CardinalityType, FS_EmptySet
<1> HIDE DEF n
<1>2. ASSUME NEW x \in Nat, x >= 1 PROVE Max({1, x}) = x
  <2>1. {1, x} = {1} \union {x} /\ IsFiniteSet({1} \union {x})
    BY FS_Union, FS_Singleton
  <2>2. Max({1, x}) \in {1, x} /\ x <= Max({1, x})
    BY <2>1, MaxOfNaturals
  <2>3. QED
    BY <1>2, <2>2
<1>3. /\ CeilDiv(50 * n, 100) \in Nat /\ CeilDiv(50 * n, 100) >= 1
      /\ CeilDiv(95 * n, 100) \in Nat /\ CeilDiv(95 * n, 100) <= n
      /\ CeilDiv(50 * n, 100) <= CeilDiv(95 * n, 100)
  BY <1>1 DEF CeilDiv
<1>4. Rank(50) = CeilDiv(50 * n, 100) /\ Rank(95) = CeilDiv(95 * n, 100)
  BY <1>2, <1>3
<1>5. Rank(50) \in 1 .. n /\ Rank(95) \in 1 .. n /\ Rank(50) <= Rank(95)
  BY <1>1, <1>3, <1>4
<1>6. Percentile(f, 50) = Ranked(f, Rank(50)) /\ Percentile(f, 95) = Ranked(f, Rank(95))
  BY DEF Percentile, n
<1> DEFINE k == Rank(50)
           m == Rank(95)
<1>7. k \in 1 .. Cardinality(D) /\ m \in 1 .. Cardinality(D) /\ k <= m
  BY <1>5 DEF n
<1> HIDE DEF Rank, k, m
<1>8. Ranked(f, k) \in Nat /\ Ranked(f, m) \in Nat
  BY <1>7, RankedExists
<1>9. Ranked(f, k) <= Ranked(f, m)
  BY <1>7, RankedGrows
<1>10. QED
  BY <1>6, <1>8, <1>9 DEF k, m

(* What the row of a run is made of.                                       *)
LEMMA RowOf ==
  ASSUME NEW run, NEW m
  PROVE  LET row == SummaryRow(run, m) IN
         /\ row.samples = m.figures.endToEnd.samples /\ row.unfinished = m.figures.unfinished
         /\ row.p50 = m.figures.endToEnd.p50 /\ row.p95 = m.figures.endToEnd.p95
         /\ row.throughput[1] = m.figures.confirmed
         /\ row.failures[1] = m.failed /\ row.failures[2] = m.figures.attempted
         /\ row.gas = m.gasPerSuccess
BY DEF SummaryRow

(* The row of a run that has something to measure passes the import.       *)
LEMMA RowImports ==
  ASSUME BenchInv, Measurable(intents, observedAt)
  PROVE  ValidRow(Row)
<1> DEFINE C == Confirmed(intents)
           A == Attempted(intents)
           F == FailedAfterAttempt(intents)
           U == Unfinished(intents)
           f == EndToEnd(intents)
<1>1. IsFiniteSet(DOMAIN intents)
  BY SizesAssumption, FS_Subset DEF BenchInv, BenchTypeOK
<1>2. /\ C \in SUBSET DOMAIN intents /\ A \in SUBSET DOMAIN intents
      /\ F \in SUBSET A /\ U \in SUBSET DOMAIN intents
  BY DEF Confirmed, In, Attempted, FailedAfterAttempt, Unfinished
<1>3. f \in [C -> Nat]
  <2>1. ASSUME NEW i \in C PROVE intents[i].confirmed - intents[i].received \in Nat
    <3>1. /\ Tells(intents[i]) /\ intents[i] \in AnswerRecords /\ intents[i].state = "CONFIRMED"
      BY <1>2 DEF BenchInv, FilesFilled, Confirmed, In
    <3>2. /\ intents[i].received \in Nat /\ intents[i].event \in Nat
      BY <3>1 DEF AnswerRecords
    <3>3. intents[i].confirmed = intents[i].event /\ intents[i].received <= intents[i].event
      BY <3>1 DEF Tells
    <3>4. QED
      BY <3>2, <3>3
  <2> HIDE DEF C
  <2>2. [i \in C |-> intents[i].confirmed - intents[i].received] \in [C -> Nat]
    BY <2>1
  <2>3. QED
    BY <2>2 DEF EndToEnd, C
<1> HIDE DEF C, A, F, U, f
<1>4. IsFiniteSet(C) /\ IsFiniteSet(A) /\ IsFiniteSet(U)
  BY <1>1, <1>2, FS_Subset
<1>5. /\ Cardinality(C) \in Nat /\ Cardinality(A) \in Nat /\ Cardinality(U) \in Nat
      /\ Cardinality(F) <= Cardinality(A)
  BY <1>2, <1>4, FS_Subset, FS_CardinalityType
<1>6. DOMAIN f = C
  BY <1>3
<1>7. /\ Row.samples = Cardinality(C) /\ Row.throughput[1] = Cardinality(C)
      /\ Row.unfinished = Cardinality(U)
      /\ Row.p50 = Percentile(f, 50) /\ Row.p95 = Percentile(f, 95)
      /\ Row.failures[1] = Cardinality(F) /\ Row.failures[2] = Cardinality(A)
      /\ Row.gas = PerSuccess(intents, sheets)
  <2>1. Row = SummaryRow(ThisRun, Measured)
    BY DEF Row
  <2>2. /\ Row.samples = Measured.figures.endToEnd.samples
        /\ Row.throughput[1] = Measured.figures.confirmed
        /\ Row.unfinished = Measured.figures.unfinished
        /\ Row.p50 = Measured.figures.endToEnd.p50 /\ Row.p95 = Measured.figures.endToEnd.p95
        /\ Row.failures[1] = Measured.failed /\ Row.failures[2] = Measured.figures.attempted
        /\ Row.gas = Measured.gasPerSuccess
    BY <2>1, RowOf
  <2>3. /\ Measured.figures.endToEnd = Distribution(f)
        /\ Measured.figures.confirmed = Cardinality(C) /\ Measured.figures.attempted = Cardinality(A)
        /\ Measured.figures.unfinished = Cardinality(U) /\ Measured.failed = Cardinality(F)
        /\ Measured.gasPerSuccess = PerSuccess(intents, sheets)
    BY DEF Measured, RunMetrics, Figures, C, A, F, U, f
  <2>4. /\ Distribution(f).samples = Cardinality(C)
        /\ Distribution(f).p50 = Percentile(f, 50) /\ Distribution(f).p95 = Percentile(f, 95)
    BY <1>6 DEF Distribution
  <2>5. QED
    BY <2>2, <2>3, <2>4
<1>8. /\ Row.batchSize = BatchSize /\ Row.maxWait = Wait /\ Row.variant = Variant(BatchSize, Wait)
      /\ Row.start = WindowStart(intents) /\ Row.end = WindowEnd(intents, observedAt)
  BY DEF Row, SummaryRow, ThisRun, Measured, RunMetrics
<1>9. Row.end > Row.start
  BY <1>8 DEF Measurable
<1>10. Row.variant = "baseline" => Row.batchSize = 1 /\ Row.maxWait = 0
  BY <1>8 DEF Variant
<1>11. IF Row.samples = 0
       THEN Row.p50 = None /\ Row.p95 = None /\ Row.gas = None /\ Row.throughput[1] = 0
       ELSE Row.p50 >= 0 /\ Row.p95 >= Row.p50 /\ Row.gas >= 0
  <2>1. CASE C = {}
    <3>1. Cardinality(C) = 0
      BY <2>1, FS_EmptySet
    <3>2. Percentile(f, 50) = None /\ Percentile(f, 95) = None
      BY <2>1, <1>6 DEF Percentile
    <3>3. PerSuccess(intents, sheets) = None
      BY <2>1 DEF PerSuccess, C
    <3>4. QED
      BY <3>1, <3>2, <3>3, <1>7
  <2>2. CASE C # {}
    <3>1. Cardinality(C) \in Nat \ {0}
      BY <2>2, <1>4, <1>5, FS_EmptySet
    <3>2. /\ Percentile(f, 50) \in Nat /\ Percentile(f, 95) \in Nat
          /\ Percentile(f, 50) <= Percentile(f, 95)
      BY <2>2, <1>3, <1>4, PercentilesGrow
    <3>3. PerSuccess(intents, sheets) \in Nat
      <4>1. PerSuccess(intents, sheets) = DecimalRatio(Gas(sheets), Cardinality(C))
        BY <2>2 DEF PerSuccess, C
      <4>2. Gas(sheets) \in Nat
        BY GasIsNatural DEF BenchInv, FilesFilled
      <4>3. QED
        BY <3>1, <4>1, <4>2, RoundedAlike
    <3>4. QED
      BY <3>1, <3>2, <3>3, <1>7
  <2>3. QED
    BY <2>1, <2>2
<1>12. Row.batchSize > 0 /\ Row.maxWait >= 0
  BY <1>8, SizesAssumption
<1>13. Row.unfinished >= 0 /\ Row.samples >= 0 /\ Row.failures[1] <= Row.failures[2]
  BY <1>5, <1>7
<1> HIDE DEF Row
<1>14. QED
  BY <1>9, <1>10, <1>11, <1>12, <1>13 DEF ValidRow

LEMMA RowOfThisRun == Row.runId = "this" /\ Row.variant = Variant(Row.batchSize, Row.maxWait)
BY DEF Row, SummaryRow, ThisRun

(* Beside rows of the other variant, of one commit and workload with it,   *)
(* so does the whole summary.                                              *)
LEMMA SummaryImports ==
  ASSUME BenchInv, AllMeasured(others), others \in OtherRuns,
         BothVariants(Summary), OneProvenance(Summary)
  PROVE  ValidSummary(Summary)
<1> DEFINE this == Row
<1>1. /\ IsFiniteSet(others) /\ Cardinality(others) < 200
      /\ \A r \in others :
           /\ ValidRow(r) /\ r.runId # "this" /\ \A q \in others : q.runId = r.runId => q = r
  <2>1. others \ {NoRow} = others
    BY DEF AllMeasured
  <2>2. QED
    BY <2>1, OtherRunsAssumption
<1>2. ValidRow(this) /\ this.runId = "this" /\ Summary = others \union {this}
  BY RowImports, RowOfThisRun DEF Summary, AllMeasured
<1> HIDE DEF this
<1>3. this \notin others
  BY <1>1, <1>2
<1>4. others # {}
  <2> SUFFICES ASSUME others = {} PROVE FALSE
    OBVIOUS
  <2>1. {r.variant : r \in Summary} = {this.variant}
    BY <1>2
  <2>2. "baseline" = this.variant /\ "batch" = this.variant
    BY <2>1 DEF BothVariants
  <2>3. QED
    BY <2>2
<1>5. Cardinality(others) \in Nat /\ Cardinality(others) # 0
  BY <1>1, <1>4, FS_CardinalityType, FS_EmptySet
<1>6. Cardinality(Summary) = Cardinality(others) + 1
  BY <1>1, <1>2, <1>3, FS_AddElement
<1>7. Cardinality(Summary) \in 2 .. 200
  BY <1>1, <1>5, <1>6
<1>8. \A r \in Summary : ValidRow(r) /\ \A q \in Summary : q.runId = r.runId => q = r
  BY <1>1, <1>2
<1>9. QED
  BY <1>7, <1>8 DEF ValidSummary

(* A configuration belongs to one variant: the groups of the table and of  *)
(* the page are the same rows.                                             *)
LEMMA SameGroups ==
  ASSUME others \in OtherRuns, NoRow \notin others, ValidSummary(Summary), NEW r \in Summary
  PROVE  TableRatio(Summary, r) = PageRatio(Summary, r)
<1>1. \A q \in Summary : q.variant = Variant(q.batchSize, q.maxWait)
  BY OtherRunsAssumption, RowOfThisRun DEF Summary
<1> DEFINE S == Summary
           b == AnyBaseline(S)
<1>2. b \in S /\ b.variant = "baseline"
  <2>1. "baseline" \in {q.variant : q \in S}
    BY DEF ValidSummary, BothVariants
  <2>2. \E q \in S : q.variant = "baseline"
    BY <2>1
  <2> HIDE DEF S
  <2>3. QED
    BY <2>2 DEF AnyBaseline
<1> HIDE DEF b
<1>3. b.batchSize = 1 /\ b.maxWait = 0
  BY <1>1, <1>2 DEF Variant
<1>4. ASSUME NEW p \in S PROVE PageGroup(S, p) = TableGroup(S, p.batchSize, p.maxWait)
  BY <1>1 DEF PageGroup, TableGroup
<1>5. PageGroup(S, b) = TableGroup(S, 1, 0)
  BY <1>2, <1>3, <1>4
<1>6. PageGroup(S, r) = TableGroup(S, r.batchSize, r.maxWait)
  BY <1>4
<1> HIDE DEF S
<1>7. TableRatio(S, r) = PageRatio(S, r)
  BY <1>5, <1>6 DEF TableRatio, PageRatio, b
<1>8. QED
  BY <1>7 DEF S

LEMMA SummariesTell == BenchInv => SummaryLoads
<1> SUFFICES ASSUME BenchInv
             PROVE  /\ phase \in {"summarized", "unreadable"} /\ Measurable(intents, observedAt) =>
                         ValidRow(Row)
                    /\ phase = "unreadable" /\ AllMeasured(others) =>
                         ~BothVariants(Summary) \/ ~OneProvenance(Summary)
                    /\ phase = "summarized" =>
                         \A r \in Summary : TableRatio(Summary, r) = PageRatio(Summary, r)
  BY DEF SummaryLoads
<1>1. ASSUME phase = "unreadable", AllMeasured(others)
      PROVE  ~BothVariants(Summary) \/ ~OneProvenance(Summary)
  <2>1. others \in OtherRuns /\ ~ValidSummary(Summary)
    BY <1>1 DEF BenchInv, SummaryFollows, Readable, Summary
  <2>2. QED
    BY <1>1, <2>1, SummaryImports
<1>2. ASSUME phase = "summarized", NEW r \in Summary
      PROVE  TableRatio(Summary, r) = PageRatio(Summary, r)
  <2>1. others \in OtherRuns /\ NoRow \notin others /\ ValidSummary(Summary)
    BY <1>2 DEF BenchInv, SummaryFollows, Readable, AllMeasured, Summary
  <2>2. QED
    BY <2>1, SameGroups
<1>3. QED
  BY <1>1, <1>2, RowImports

(* However the run went, its row passes the import; the summary of the     *)
(* directory is refused only for runs that cannot be measured, of one      *)
(* variant, or of several commits or workloads; and the console compares   *)
(* gas as the table does (Benchmark, SummaryLoads).                        *)
THEOREM SummariesAlwaysLoad == BenchSpec => []SummaryLoads
<1>1. QED
  BY SummariesTell, BenchInvariance, PTL
=============================================================================

------------------------------- MODULE Ledger -------------------------------
(***************************************************************************)
(* The relayer's tables as a reader of the API sees them change, one store *)
(* transaction a step (store.ts), without the ticks, timers, signatures    *)
(* and network calls that decide when.  Module Relayer implements it.      *)
(***************************************************************************)
EXTENDS Naturals, Sequences, FiniteSets

CONSTANTS Intents, BatchSize, MaxAttempts, MaxBroadcasts

VARIABLES
  st,         \* st[i]: IntentState, "ABSENT" before the row exists
  attempts,   \* attempts[i]: attemptCount
  rows,       \* the batches: [ids, count, receipt]
  executed    \* executed[k]: whether batch k's transaction, mined, succeeded

ledgerVars == <<st, attempts, rows, executed>>

Terminal == {"CONFIRMED", "REJECTED", "EXPIRED", "FAILED"}

Queued == {i \in Intents : st[i] = "QUEUED"}
Set(S, s) == [i \in Intents |-> IF i \in S THEN s ELSE st[i]]

LedgerInit ==
  /\ st = [i \in Intents |-> "ABSENT"] /\ attempts = [i \in Intents |-> 0]
  /\ rows = << >> /\ executed = << >>

(* The batch that is unresolved, the last one. *)
Unresolved == rows # << >> /\ rows[Len(rows)].receipt = "none"
Current == rows[Len(rows)]
SetRow(r) == rows' = [rows EXCEPT ![Len(rows)] = r]

(* insertIntent *)
Insert(i) ==
  /\ st[i] = "ABSENT"
  /\ st' = Set({i}, "QUEUED")
  /\ UNCHANGED <<attempts, rows, executed>>

(* markTerminal, for what is overdue and for what cannot be simulated. *)
Expire ==
  /\ \E S \in (SUBSET Queued) \ {{}} : st' = Set(S, "EXPIRED")
  /\ UNCHANGED <<attempts, rows, executed>>

Reject ==
  /\ \E i \in Queued : st' = Set({i}, IF attempts[i] > 0 THEN "FAILED" ELSE "REJECTED")
  /\ UNCHANGED <<attempts, rows, executed>>

(* prepareBatch, possibly after overdue intents expired in the same tick's *)
(* earlier steps.                                                          *)
Prepare ==
  /\ ~Unresolved
  /\ \E S \in (SUBSET Queued) \ {{}} :
       /\ Cardinality(S) <= BatchSize
       /\ rows' = Append(rows, [ids |-> S, count |-> 0, receipt |-> "none"])
       /\ st' = Set(S, "BATCHED")
  /\ UNCHANGED <<attempts, executed>>

(* noteBroadcast *)
Note ==
  /\ Unresolved /\ Current.count < MaxBroadcasts
  /\ SetRow([Current EXCEPT !.count = @ + 1])
  /\ st' = Set(Current.ids, "SUBMITTED")
  /\ attempts' = [i \in Intents |->
       IF i \in Current.ids /\ Current.count = 0 THEN attempts[i] + 1 ELSE attempts[i]]
  /\ UNCHANGED executed

(* reconcile *)
Doubt ==
  /\ Unresolved
  /\ st' = Set(Current.ids, "RECONCILING")
  /\ UNCHANGED <<attempts, rows, executed>>

(* The chain executes the batch's transaction, once it was broadcast. *)
Execute ==
  /\ Len(executed) < Len(rows) /\ Current.count > 0
  /\ \E ok \in BOOLEAN : executed' = Append(executed, ok)
  /\ UNCHANGED <<st, attempts, rows>>

(* finish: the deadline of an intent may have passed. *)
AfterRevert(i, late) ==
  IF i \in late THEN "EXPIRED" ELSE IF attempts[i] >= MaxAttempts THEN "FAILED" ELSE "QUEUED"

Resolve ==
  /\ Unresolved /\ Len(executed) = Len(rows)
  /\ LET ok == executed[Len(rows)]
     IN /\ SetRow([Current EXCEPT !.receipt = IF ok THEN "success" ELSE "reverted"])
        /\ \E late \in SUBSET Current.ids :
             st' = [i \in Intents |->
                      IF i \notin Current.ids THEN st[i]
                      ELSE IF ok THEN "CONFIRMED" ELSE AfterRevert(i, late)]
  /\ UNCHANGED <<attempts, executed>>

Coordinate == Expire \/ Reject \/ Prepare \/ Note \/ Doubt \/ Execute \/ Resolve

LedgerNext == (\E i \in Intents : Insert(i)) \/ Coordinate

LedgerSpec == LedgerInit /\ [][LedgerNext]_ledgerVars
=============================================================================

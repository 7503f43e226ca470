------------------------------- MODULE Records ------------------------------
(***************************************************************************)
(* What the relayer's store keeps for its readers beside what decides      *)
(* anything (module Ledger): the times of an intent's row and the events  *)
(* table, and what the API answers from them.                              *)
(*                                                                         *)
(* Every transition writes the row and appends an event in one             *)
(* transaction.  Reconciling again with another error appends one more     *)
(* RECONCILING entry, which the log does not repeat.                       *)
(***************************************************************************)
EXTENDS Ledger, Metrics

CONSTANT MaxClock       \* bound on the wall clock

ASSUME ClockAssumption == MaxClock \in Nat \ {0}

VARIABLES
  clock,      \* the relayer's clock
  times       \* times[i]: receivedAt, submittedAt, confirmedAt (Never for null), and
              \* the time of the last event

recordVars == <<clock, times>>

Times == [received : Nat, submitted : Nat, confirmed : Nat, event : Nat]

RecordsTypeOK ==
  /\ clock \in 1 .. MaxClock
  /\ times \in [Intents -> Times]

Unknown == [received |-> Never, submitted |-> Never, confirmed |-> Never, event |-> Never]

RecordsInit ==
  /\ clock = 1
  /\ times = [i \in Intents |-> Unknown]

(* With Insert(i). *)
RecordInsert(i) ==
  /\ times' = [times EXCEPT ![i] = [Unknown EXCEPT !.received = clock, !.event = clock]]
  /\ UNCHANGED clock

(* The intents this step makes transition: noteBroadcast does so even with *)
(* those that are SUBMITTED already.                                       *)
Noting == Unresolved /\ rows'[Len(rows)].count > Current.count
Transitioned ==
  {i \in Intents : st'[i] # st[i]} \union (IF Noting THEN Current.ids ELSE {})

(* submittedAt is the time of the first broadcast. *)
LastSubmission(i) == clock
FirstSubmission(i) == IF times[i].submitted = Never THEN clock ELSE times[i].submitted

(* With any other step. *)
RecordSteps ==
  /\ times' = [i \in Intents |->
       IF i \notin Transitioned THEN times[i]
       ELSE [times[i] EXCEPT !.event = clock,
                             !.submitted = IF st'[i] = "SUBMITTED" THEN FirstSubmission(i) ELSE @,
                             !.confirmed = IF st'[i] = "CONFIRMED" THEN clock ELSE @]]
  /\ UNCHANGED clock

TimePasses == clock < MaxClock /\ clock' = clock + 1 /\ UNCHANGED times

-----------------------------------------------------------------------------
(* What the API answers.                                                   *)

Listed == {i \in Intents : st[i] # "ABSENT"}

(* GET /intents/:intentId, record and events, read together; of the events *)
(* the time of the last one.                                               *)
Answer(i) ==
  [state |-> st[i], attempts |-> attempts[i], received |-> times[i].received,
   submitted |-> times[i].submitted, confirmed |-> times[i].confirmed, event |-> times[i].event]
Answers == [i \in Listed |-> Answer(i)]

(* GET /metrics *)
Reported == ServiceMetrics(Answers, rows)
=============================================================================

----------------------------- MODULE Settlement -----------------------------
(***************************************************************************)
(* What a relayer promises the agents that hand it signed intents,         *)
(* independently of batches, transactions, retries and crashes.            *)
(*                                                                         *)
(* An intent is taken, and ends either settled or abandoned.  A settled    *)
(* intent has been paid by the relayer's own transactions; an abandoned    *)
(* one has not been paid by them and never will be.                        *)
(***************************************************************************)
CONSTANT Intents

VARIABLES
  fate,     \* fate[i]: what the relayer says of intent i
  paid      \* the intents executed by transactions the relayer sent

vars == <<fate, paid>>

Fates == {"unknown", "taken", "settled", "abandoned"}

TypeOK ==
  /\ fate \in [Intents -> Fates]
  /\ paid \subseteq Intents

With(f) == {i \in Intents : fate[i] = f}

Init ==
  /\ fate = [i \in Intents |-> "unknown"]
  /\ paid = {}

(* All the intents of S move to fate f together. *)
Move(S, f) == fate' = [i \in Intents |-> IF i \in S THEN f ELSE fate[i]]

Take == \E i \in With("unknown") : Move({i}, "taken") /\ UNCHANGED paid

(* One transaction executes: each intent of it is paid, for the first time. *)
Pay ==
  \E S \in SUBSET (With("taken") \ paid) :
    paid' = paid \union S /\ UNCHANGED fate

Settle ==
  \E S \in SUBSET (With("taken") \intersect paid) :
    Move(S, "settled") /\ UNCHANGED paid

Abandon ==
  \E S \in SUBSET (With("taken") \ paid) :
    Move(S, "abandoned") /\ UNCHANGED paid

Next == Take \/ Pay \/ Settle \/ Abandon

Spec == Init /\ [][Next]_vars

(***************************************************************************)
(* The promise, as invariants of the abstract system.                      *)
(***************************************************************************)
SettledIsPaid == With("settled") \subseteq paid
AbandonedIsNotPaid == With("abandoned") \intersect paid = {}
=============================================================================

------------------------------ MODULE Mandate -------------------------------
(***************************************************************************)
(* What the executor promises an owner who authorizes an agent: a batch of *)
(* signed intents runs as one indivisible step, under the authorization    *)
(* that was in force when it began, and nothing but the owner changes that *)
(* authorization meanwhile.                                                *)
(***************************************************************************)
EXTENDS Naturals, Sequences

CONSTANTS Pairs,      \* the <<owner, agent>> pairs
          Signed      \* the intents their agents signed

VARIABLES
  auth,     \* auth[p]: [active, epoch, spent, budget] of pair p
  log       \* the executed intents, in order

vars == <<auth, log>>

PairOf(i) == <<i.owner, i.agent>>
NonceOf(i) == <<i.owner, i.agent, i.epoch, i.nonce>>

Init ==
  /\ auth = [p \in Pairs |-> [active |-> FALSE, epoch |-> 0, spent |-> 0, budget |-> 0]]
  /\ log = << >>

(* A fresh epoch with nothing spent; every older signature is void. *)
Authorize(p) ==
  /\ auth' = [auth EXCEPT ![p] = [active |-> TRUE, epoch |-> @.epoch + 1,
                                   spent |-> 0, budget |-> auth'[p].budget]]
  /\ UNCHANGED log

Revoke(p) ==
  /\ auth' = [auth EXCEPT ![p] = [active |-> FALSE, epoch |-> @.epoch + 1,
                                   spent |-> @.spent, budget |-> @.budget]]
  /\ UNCHANGED log

(* The intents of b are distinct, not executed before, signed, and all of  *)
(* the epoch in force; the budget holds for all of them together.          *)
Execute(b) ==
  /\ b # << >>
  /\ \A n \in DOMAIN b :
       /\ b[n] \in Signed
       /\ auth[PairOf(b[n])].active
       /\ auth[PairOf(b[n])].epoch = b[n].epoch
       /\ \A m \in DOMAIN b : m # n => NonceOf(b[m]) # NonceOf(b[n])
       /\ \A m \in DOMAIN log : NonceOf(log[m]) # NonceOf(b[n])
  /\ log' = log \o b
  /\ auth' = [p \in Pairs |-> [auth[p] EXCEPT !.spent = auth'[p].spent]]
  /\ \A p \in Pairs : auth'[p].spent \in auth[p].spent .. auth[p].budget

(* The batch that the step appends to the log. *)
Appended == SubSeq(log', Len(log) + 1, Len(log'))

Next ==
  \/ \E p \in Pairs : Authorize(p) \/ Revoke(p)
  \/ Execute(Appended)

Spec == Init /\ [][Next]_vars
=============================================================================

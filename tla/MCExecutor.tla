----------------------------- MODULE MCExecutor -----------------------------
(* Small instances of Executor: one token, one recipient. *)
EXTENDS Executor

CONSTANTS o1, a1, a2, tok, shop

EveryAccount == {o1, shop}

Policy(max, total, until) ==
  [token |-> tok, recipient |-> shop, maxAmountPerIntent |-> max,
   totalBudget |-> total, validUntil |-> until]

(* Two payments of the largest amount exceed the budget. *)
TightPolicy == {Policy(2, 3, 1)}

Intent(a, amount, nonce, epoch, from, to) ==
  [owner |-> o1, agent |-> a, token |-> tok, recipient |-> shop, amount |-> amount,
   nonce |-> nonce, epoch |-> epoch, validAfter |-> from, deadline |-> to]

(* Two payloads for one nonce, a second nonce, and the next epoch; another *)
(* agent of the same owner, whose payments draw on the same balance.       *)
SignedIntents ==
  {Intent(a1, 1, 0, 1, 0, 1), Intent(a1, 2, 0, 1, 0, 1),
   Intent(a1, 2, 1, 1, 0, 0), Intent(a1, 2, 0, 2, 1, 1),
   Intent(a2, 2, 0, 1, 0, 1)}

(* And one nobody signed. *)
PresentedIntents == SignedIntents \union {Intent(a1, 1, 2, 1, 0, 1)}
=============================================================================

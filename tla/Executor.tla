------------------------------ MODULE Executor ------------------------------
(***************************************************************************)
(* The contract AgentIntentExecutor.  A transaction is atomic on the       *)
(* chain, but inside it executeBatch hands control to token code after     *)
(* each intent's effects, and that code may call back or fail; the model   *)
(* therefore takes a transaction apart into its checks, effects and token  *)
(* calls.  `saved` is the chain state the transaction started from: what   *)
(* the world sees until it commits, and what a revert restores.            *)
(***************************************************************************)
EXTENDS Naturals, Sequences, FiniteSets, FiniteSetsExt

CONSTANTS
  Owners, Agents, Tokens,
  Accounts,        \* holders of tokens: the owners and the recipients
  Policies,        \* the Policy structs owners pass to configureAgent
  Intents,         \* the TransferIntent structs somebody may present
  Signed,          \* those whose named agent signed them
  Supply,          \* what each owner holds of each token at the start
  Allowances,      \* the allowances an owner may set for the executor
  MaxBatch, MaxEpoch, MaxTime        \* bounds of the model

ASSUME AccountsAssumption == Owners \subseteq Accounts
ASSUME PoliciesAssumption ==
  Policies \subseteq [token : Tokens, recipient : Accounts, maxAmountPerIntent : Nat,
                      totalBudget : Nat, validUntil : Nat]
ASSUME IntentsAssumption ==
  /\ Intents \subseteq [owner : Owners, agent : Agents, token : Tokens, recipient : Accounts,
                        amount : Nat, nonce : Nat, epoch : Nat,
                        validAfter : Nat, deadline : Nat]
  /\ Signed \subseteq Intents
ASSUME BoundsAssumption ==
  /\ Supply \in Nat /\ Allowances \subseteq Nat
  /\ MaxBatch \in Nat /\ MaxEpoch \in Nat /\ MaxTime \in Nat

VARIABLES
  now,        \* block.timestamp
  world,      \* the state of the contracts, as the code running now sees it
  saved,      \* the state before the transaction in progress
  entered,    \* the reentrancy guard
  phase,      \* where executeBatch is: "none", "check" or "transfer"
  batch, at   \* intents; the index of the one at hand

vars == <<now, world, saved, entered, phase, batch, at>>

Pairs == Owners \X Agents
Batches == UNION {[1 .. n -> Intents] : n \in 1 .. MaxBatch}

NoAddress == "0x0"
Authorizations ==
  [token : Tokens \union {NoAddress}, recipient : Accounts \union {NoAddress},
   maxAmountPerIntent : Nat, totalBudget : Nat, spent : Nat, validUntil : Nat,
   active : BOOLEAN, epoch : Nat]

(* policies and consumed are the executor's storage, log and granted its   *)
(* events IntentExecuted and AgentConfigured; the rest is the tokens'.     *)
Worlds ==
  [policies : [Pairs -> Authorizations],
   consumed : SUBSET (Owners \X Agents \X Nat \X Nat),
   log : Seq(Intents),
   granted : SUBSET [owner : Owners, agent : Agents, epoch : Nat, policy : Policies],
   balance : [Tokens -> [Accounts -> Nat]],
   allowance : [Tokens -> [Owners -> Nat]]]

TypeOK ==
  /\ now \in Nat
  /\ world \in Worlds /\ saved \in Worlds
  /\ entered \in BOOLEAN
  /\ phase \in {"none", "check", "transfer"}
  /\ batch \in Seq(Intents) /\ at \in Nat

Unconfigured ==
  [token |-> NoAddress, recipient |-> NoAddress, maxAmountPerIntent |-> 0,
   totalBudget |-> 0, spent |-> 0, validUntil |-> 0, active |-> FALSE, epoch |-> 0]

Genesis ==
  [policies |-> [p \in Pairs |-> Unconfigured],
   consumed |-> {}, log |-> << >>, granted |-> {},
   balance |-> [t \in Tokens |-> [a \in Accounts |-> IF a \in Owners THEN Supply ELSE 0]],
   allowance |-> [t \in Tokens |-> [o \in Owners |-> 0]]]

Init ==
  /\ now = 0
  /\ world = Genesis /\ saved = Genesis
  /\ entered = FALSE /\ phase = "none" /\ batch = << >> /\ at = 0

-----------------------------------------------------------------------------
(* A call arrives as a transaction of its own, or from inside token code.  *)
CanCall == phase \in {"none", "transfer"}

(* A call that returns: its effects are final if it is the transaction.    *)
Becomes(w) ==
  /\ world' = w
  /\ saved' = IF phase = "none" THEN w ELSE saved

(* Faulty variants of a definition stand before it, named for what they    *)
(* forget; no specification uses them.                                     *)
Reentrant == TRUE
NonReentrant == ~entered

ConfigureAgent(o, a, p) ==
  LET e == world.policies[<<o, a>>].epoch + 1 IN
  /\ CanCall /\ NonReentrant
  /\ p.maxAmountPerIntent > 0 /\ p.totalBudget >= p.maxAmountPerIntent
  /\ p.validUntil > now
  /\ e <= MaxEpoch
  /\ Becomes([world EXCEPT
       !.policies[<<o, a>>] =
          [token |-> p.token, recipient |-> p.recipient,
           maxAmountPerIntent |-> p.maxAmountPerIntent, totalBudget |-> p.totalBudget,
           spent |-> 0, validUntil |-> p.validUntil, active |-> TRUE, epoch |-> e],
       !.granted = @ \union {[owner |-> o, agent |-> a, epoch |-> e, policy |-> p]}])
  /\ UNCHANGED <<now, entered, phase, batch, at>>

SameEpoch(policy) == [policy EXCEPT !.active = FALSE]
Revoked(policy) == [policy EXCEPT !.active = FALSE, !.epoch = @ + 1]

RevokeAgent(o, a) ==
  /\ CanCall /\ NonReentrant
  /\ world.policies[<<o, a>>].epoch < MaxEpoch
  /\ Becomes([world EXCEPT !.policies[<<o, a>>] = Revoked(@)])
  /\ UNCHANGED <<now, entered, phase, batch, at>>

-----------------------------------------------------------------------------
(* executeBatch, one intent at a time.                                     *)

PolicyOf(i) == world.policies[<<i.owner, i.agent>>]
Key(i) == <<i.owner, i.agent, i.epoch, i.nonce>>

AnyEpoch(i) == TRUE
CurrentEpoch(i) == i.epoch = PolicyOf(i).epoch

InForce(i) == PolicyOf(i).active /\ now <= PolicyOf(i).validUntil
InWindow(i) == i.validAfter <= now /\ now <= i.deadline
WithinPolicy(i) ==
  /\ i.token = PolicyOf(i).token /\ i.recipient = PolicyOf(i).recipient
  /\ i.amount > 0 /\ i.amount <= PolicyOf(i).maxAmountPerIntent

WithinBudget(i) == i.amount <= PolicyOf(i).totalBudget - PolicyOf(i).spent

ChecksEarlierBatchesOnly(i) == Key(i) \notin saved.consumed
Unconsumed(i) == Key(i) \notin world.consumed

(* ECDSA.recover yields the named agent. *)
SignedByAgent(i) == i \in Signed

BeginBatch(b) ==
  /\ phase = "none" /\ NonReentrant
  /\ entered' = TRUE /\ phase' = "check" /\ batch' = b /\ at' = 1
  /\ UNCHANGED <<now, world, saved>>

(* The checks pass; the nonce and the budget are used up before the call   *)
(* to the token.                                                           *)
Accept ==
  /\ phase = "check" /\ at <= Len(batch)
  /\ LET i == batch[at] IN
       /\ InForce(i) /\ CurrentEpoch(i) /\ InWindow(i) /\ WithinPolicy(i)
       /\ WithinBudget(i) /\ Unconsumed(i) /\ SignedByAgent(i)
       /\ world' = [world EXCEPT
            !.consumed = @ \union {Key(i)},
            !.policies[<<i.owner, i.agent>>].spent = @ + i.amount]
  /\ phase' = "transfer"
  /\ UNCHANGED <<now, saved, entered, batch, at>>

(* A standard token moves `amount` from one account to another.            *)
Moved(bal, from, to, amount) ==
  IF from = to THEN bal
  ELSE [bal EXCEPT ![from] = @ - amount, ![to] = @ + amount]

(* transferFrom succeeds and IntentExecuted is emitted. *)
Transfer ==
  /\ phase = "transfer"
  /\ LET i == batch[at] IN
       /\ world.allowance[i.token][i.owner] >= i.amount
       /\ world.balance[i.token][i.owner] >= i.amount
       /\ world' = [world EXCEPT
            !.balance[i.token] = Moved(@, i.owner, i.recipient, i.amount),
            !.allowance[i.token][i.owner] = @ - i.amount,
            !.log = Append(@, i)]
  /\ phase' = "check" /\ at' = at + 1
  /\ UNCHANGED <<now, saved, entered, batch>>

EndTransaction == entered' = FALSE /\ phase' = "none" /\ batch' = << >> /\ at' = 0

Commit ==
  /\ phase = "check" /\ at = Len(batch) + 1
  /\ saved' = world
  /\ EndTransaction
  /\ UNCHANGED <<now, world>>

(* A check fails, the token call fails, or the gas runs out: the whole     *)
(* transaction is undone.                                                  *)
KeepsSpending == [saved EXCEPT !.policies = world.policies]
KeepsTransfers == [saved EXCEPT !.balance = world.balance]
Undone == saved

Revert ==
  /\ phase # "none"
  /\ world' = Undone
  /\ saved' = Undone
  /\ EndTransaction
  /\ UNCHANGED now

-----------------------------------------------------------------------------
(* The owner's allowance to the executor; token code may also change it    *)
(* while the executor waits for it.                                        *)
Approve(o, t, n) ==
  /\ CanCall
  /\ Becomes([world EXCEPT !.allowance[t][o] = n])
  /\ UNCHANGED <<now, entered, phase, batch, at>>

NextBlock ==
  /\ phase = "none" /\ now < MaxTime
  /\ now' = now + 1
  /\ UNCHANGED <<world, saved, entered, phase, batch, at>>

Owner(o) ==
  \/ \E a \in Agents : (\E p \in Policies : ConfigureAgent(o, a, p)) \/ RevokeAgent(o, a)
  \/ \E t \in Tokens, n \in Allowances : Approve(o, t, n)

ExecuteBatch ==
  (\E b \in Batches : BeginBatch(b)) \/ Accept \/ Transfer \/ Commit \/ Revert

Next == (\E o \in Owners : Owner(o)) \/ ExecuteBatch \/ NextBlock

Spec == Init /\ [][Next]_vars

-----------------------------------------------------------------------------
(***************************************************************************)
(* Safety                                                                  *)
(***************************************************************************)

(* The total amount of the intents of S in a log.                          *)
Total(log, S) ==
  SumFunctionOnSet([n \in DOMAIN log |-> log[n].amount], {n \in DOMAIN log : log[n] \in S})

UnderEpoch(p, e) == {i \in Intents : <<i.owner, i.agent>> = p /\ i.epoch = e}
PaidBy(t, a) == {i \in Intents : i.token = t /\ i.owner = a}
PaidTo(t, a) == {i \in Intents : i.token = t /\ i.recipient = a}

(* Replay protection: no (owner, agent, epoch, nonce) executes twice, in   *)
(* one batch or in two, whatever payload it signs (AgentIntentExecutor     *)
(* .sol:123, docs/decisions.md D-003).                                     *)
NoReplay ==
  \A m, n \in DOMAIN world.log : Key(world.log[m]) = Key(world.log[n]) => m = n

(* Every payment is covered by what its owner granted under that epoch,    *)
(* and the payments under one grant never exceed its total budget, over    *)
(* any sequence of batches, reverts and re-authorizations (.sol:114-122).  *)
Covers(g, i) ==
  /\ g.owner = i.owner /\ g.agent = i.agent /\ g.epoch = i.epoch
  /\ g.policy.token = i.token /\ g.policy.recipient = i.recipient
  /\ i.amount <= g.policy.maxAmountPerIntent

PaymentsWithinGrants(w) ==
  /\ \A n \in DOMAIN w.log : \E g \in w.granted : Covers(g, w.log[n])
  /\ \A g \in w.granted :
       Total(w.log, UnderEpoch(<<g.owner, g.agent>>, g.epoch)) <= g.policy.totalBudget

(* `spent`, which the SDK and the relayer read, is the sum of the payments *)
(* of the epoch in force, and of those that are `due` (.sol:128, D-005).   *)
SpentIsPaid(w, due) ==
  \A p \in Pairs : w.policies[p].active =>
    w.policies[p].spent = Total(w.log, UnderEpoch(p, w.policies[p].epoch)) + due[p]

NothingDue == [p \in Pairs |-> 0]

(* Tokens move exactly as the IntentExecuted events say, so an indexer can *)
(* rebuild every balance from them (.sol:129-130, docs/protocol.md).       *)
TokensFollowEvents(w) ==
  \A t \in Tokens, a \in Accounts :
    w.balance[t][a] + Total(w.log, PaidBy(t, a))
      = Genesis.balance[t][a] + Total(w.log, PaidTo(t, a))

(* The books balance: over any sequence of batches, reverts and            *)
(* re-authorizations, what was granted, what `spent` says, what the events *)
(* say and what the tokens did are one account, and a reverted batch       *)
(* leaves nothing behind in it.                                            *)
BooksBalance ==
  PaymentsWithinGrants(saved) /\ SpentIsPaid(saved, NothingDue) /\ TokensFollowEvents(saved)

(***************************************************************************)
(* Why the above holds: inside a transaction, the world is what it was at  *)
(* the start plus the effects of the first intents of the batch.           *)
(***************************************************************************)

(* How many intents of the batch have paid so far. *)
Done == IF phase = "none" THEN 0 ELSE at - 1

(* How many have used up their nonce and budget. *)
Charged == IF phase = "transfer" THEN at ELSE Done

ConsumedCoversLog ==
  \A n \in DOMAIN world.log : Key(world.log[n]) \in world.consumed

SpentWithinBudget == \A p \in Pairs :
  /\ world.policies[p].spent <= world.policies[p].totalBudget
  /\ saved.policies[p].spent <= world.policies[p].spent

GuardHeld == entered <=> phase # "none"

BatchInProgress ==
  /\ phase = "none" => world = saved
  /\ phase # "none" => batch # << >> /\ at \in 1 .. Len(batch) + 1
  /\ phase = "transfer" => at <= Len(batch)
  /\ Len(world.log) = Len(saved.log) + Done
  /\ \A n \in 1 .. Len(saved.log) : world.log[n] = saved.log[n]
  /\ \A n \in 1 .. Done : world.log[Len(saved.log) + n] = batch[n]

OnlySpendingChanges ==
  \A p \in Pairs : world.policies[p] = [saved.policies[p] EXCEPT !.spent = world.policies[p].spent]

ChargedWereAllowed ==
  /\ \A n \in 1 .. Charged :
       /\ batch[n] \in Signed
       /\ saved.policies[<<batch[n].owner, batch[n].agent>>].active
       /\ saved.policies[<<batch[n].owner, batch[n].agent>>].epoch = batch[n].epoch
       /\ Key(batch[n]) \notin saved.consumed /\ Key(batch[n]) \in world.consumed
       /\ \A m \in 1 .. Charged : m # n => Key(batch[m]) # Key(batch[n])
  /\ saved.consumed \subseteq world.consumed
  /\ \A n \in DOMAIN saved.log : Key(saved.log[n]) \in saved.consumed

IInv ==
  /\ TypeOK /\ GuardHeld /\ BatchInProgress /\ OnlySpendingChanges
  /\ ChargedWereAllowed /\ SpentWithinBudget /\ ConsumedCoversLog /\ NoReplay

(* Why the books balance: inside a transaction they do so too, with the    *)
(* payment that is charged and not made yet; ...                           *)
Due ==
  [p \in Pairs |->
     IF phase = "transfer" /\ <<batch[at].owner, batch[at].agent>> = p
     THEN batch[at].amount ELSE 0]

BooksInProgress ==
  PaymentsWithinGrants(world) /\ SpentIsPaid(world, Due) /\ TokensFollowEvents(world)

(* ... a policy in force is the newest grant of its pair, and nothing is   *)
(* granted or paid under a later epoch.                                    *)
IsPolicyOf(policy, g) ==
  /\ policy.active
  /\ policy.token = g.policy.token /\ policy.recipient = g.policy.recipient
  /\ policy.maxAmountPerIntent = g.policy.maxAmountPerIntent
  /\ policy.totalBudget = g.policy.totalBudget

NewestGrantInForce(w) ==
  /\ \A p \in Pairs : w.policies[p].active =>
       \E g \in w.granted : <<g.owner, g.agent>> = p /\ g.epoch = w.policies[p].epoch
  /\ \A g \in w.granted :
       LET policy == w.policies[<<g.owner, g.agent>>] IN
       g.epoch <= policy.epoch /\ (g.epoch = policy.epoch => IsPolicyOf(policy, g))
  /\ \A n \in DOMAIN w.log :
       w.log[n].epoch <= w.policies[<<w.log[n].owner, w.log[n].agent>>].epoch

ChargedConforms ==
  phase = "transfer" =>
    LET i == batch[at] IN
    PolicyOf(i).active /\ CurrentEpoch(i) /\ WithinPolicy(i)

BooksInv ==
  /\ IInv /\ BooksBalance /\ BooksInProgress
  /\ NewestGrantInForce(world) /\ NewestGrantInForce(saved) /\ ChargedConforms

(* Owners get what Mandate promises: atomic batches, under the epoch in    *)
(* force when they began, that nothing interferes with (D-002, D-005).     *)
Auth == [p \in Pairs |->
  [active |-> saved.policies[p].active, epoch |-> saved.policies[p].epoch,
   spent |-> saved.policies[p].spent, budget |-> saved.policies[p].totalBudget]]

M == INSTANCE Mandate WITH auth <- Auth, log <- saved.log
KeepsMandate == M!Spec
=============================================================================

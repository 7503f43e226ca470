--------------------------- MODULE ExecutorProofs ---------------------------
(***************************************************************************)
(* Theorems about Executor, for all owners, agents, policies and intents.  *)
(***************************************************************************)
EXTENDS Executor, SequenceTheorems, SumTheorems, TLAPS

(* What TypeOK says of the contracts' state.                               *)
LEMMA WorldTyped ==
  ASSUME NEW w \in Worlds
  PROVE  /\ w.policies \in [Pairs -> Authorizations]
         /\ w.consumed \in SUBSET (Owners \X Agents \X Nat \X Nat)
         /\ w.log \in Seq(Intents)
         /\ \A p \in Pairs : /\ w.policies[p] \in Authorizations
                             /\ w.policies[p].spent \in Nat
                             /\ w.policies[p].totalBudget \in Nat
                             /\ w.policies[p].epoch \in Nat
                             /\ w.policies[p].active \in BOOLEAN
BY DEF Worlds, Authorizations

(* What the assumption on intents says of the one at hand.                 *)
LEMMA IntentTyped ==
  ASSUME NEW i \in Intents
  PROVE  /\ i.owner \in Owners /\ i.agent \in Agents
         /\ <<i.owner, i.agent>> \in Pairs
         /\ i.amount \in Nat /\ i.epoch \in Nat
         /\ Key(i) \in Owners \X Agents \X Nat \X Nat
BY IntentsAssumption DEF Pairs, Key

(* The elements of a sequence.                                             *)
LEMMA SeqElement ==
  ASSUME NEW S, NEW s \in Seq(S)
  PROVE  /\ Len(s) \in Nat /\ DOMAIN s = 1 .. Len(s)
         /\ \A n \in 1 .. Len(s) : s[n] \in S
BY LenProperties, ElementOfSeq

(* Between transactions, what matters is that the committed state is       *)
(* lawful: budgets hold, and the log has no replay.                        *)
LEMMA AtRest ==
  ASSUME TypeOK', phase' = "none", entered' = FALSE, world' = saved',
         \A p \in Pairs : world'.policies[p].spent <= world'.policies[p].totalBudget,
         ConsumedCoversLog', NoReplay'
  PROVE  IInv'
<1> USE DEF TypeOK
<1>1. world' \in Worlds /\ world' = saved'
  OBVIOUS
<1>2. Done' = 0 /\ Charged' = 0
  BY DEF Done, Charged
<1>3. GuardHeld'
  BY DEF GuardHeld
<1>4. BatchInProgress'
  <2>1. Len(world.log)' \in Nat
    BY <1>1, WorldTyped, SeqElement
  <2>2. QED
    BY <1>1, <1>2, <2>1 DEF BatchInProgress
<1>5. OnlySpendingChanges'
  BY <1>1, WorldTyped DEF OnlySpendingChanges, Authorizations
<1>6. ChargedWereAllowed'
  BY <1>1, <1>2 DEF ChargedWereAllowed, ConsumedCoversLog
<1>7. SpentWithinBudget'
  BY <1>1, WorldTyped DEF SpentWithinBudget
<1>8. QED
  BY <1>3, <1>4, <1>5, <1>6, <1>7 DEF IInv

(* The invariant does not mention the clock, balances or allowances.       *)
LEMMA Frame ==
  ASSUME IInv, TypeOK', UNCHANGED <<entered, phase, batch, at>>,
         world'.policies = world.policies, world'.consumed = world.consumed,
         world'.log = world.log,
         saved'.policies = saved.policies, saved'.consumed = saved.consumed,
         saved'.log = saved.log,
         phase = "none" => world' = saved'
  PROVE  IInv'
<1>1. Done' = Done /\ Charged' = Charged
  BY DEF Done, Charged
<1>2. GuardHeld' /\ ConsumedCoversLog' /\ NoReplay'
  BY DEF IInv, GuardHeld, ConsumedCoversLog, NoReplay, Key
<1>3. OnlySpendingChanges' /\ SpentWithinBudget'
  BY DEF IInv, OnlySpendingChanges, SpentWithinBudget
<1>4. BatchInProgress'
  BY <1>1 DEF IInv, BatchInProgress
<1>5. ChargedWereAllowed'
  BY <1>1 DEF IInv, ChargedWereAllowed, Key
<1>6. QED
  BY <1>2, <1>3, <1>4, <1>5 DEF IInv

-----------------------------------------------------------------------------
(* Rewriting one policy keeps the contracts' state well typed.             *)
LEMMA PolicyTyped ==
  ASSUME NEW w \in Worlds, NEW v \in Worlds, NEW p \in Pairs, NEW q \in Authorizations,
         v.policies = [w.policies EXCEPT ![p] = q]
  PROVE  \A r \in Pairs : v.policies[r] = IF r = p THEN q ELSE w.policies[r]
BY WorldTyped

LEMMA ConfigureStep ==
  ASSUME IInv, NEW o \in Owners, NEW a \in Agents, NEW p \in Policies, ConfigureAgent(o, a, p)
  PROVE  IInv'
<1> DEFINE e == world.policies[<<o, a>>].epoch + 1
           q == [token |-> p.token, recipient |-> p.recipient,
                 maxAmountPerIntent |-> p.maxAmountPerIntent, totalBudget |-> p.totalBudget,
                 spent |-> 0, validUntil |-> p.validUntil, active |-> TRUE, epoch |-> e]
           g == [owner |-> o, agent |-> a, epoch |-> e, policy |-> p]
<1>1. phase = "none" /\ phase' = "none" /\ entered' = FALSE
  BY DEF IInv, GuardHeld, ConfigureAgent, NonReentrant
<1>2. world \in Worlds /\ <<o, a>> \in Pairs
  BY DEF IInv, TypeOK, Pairs
<1>3. e \in Nat
  BY <1>2, WorldTyped
<1>4. q \in Authorizations /\ q.spent = 0 /\ q.totalBudget \in Nat
  BY <1>3, PoliciesAssumption DEF Authorizations
<1>5. world' = [world EXCEPT !.policies[<<o, a>>] = q, !.granted = @ \union {g}]
  BY DEF ConfigureAgent, Becomes
<1>6. world' = saved'
  BY <1>1 DEF ConfigureAgent, Becomes
<1> HIDE DEF q, e
<1>7. g \in [owner : Owners, agent : Agents, epoch : Nat, policy : Policies]
  BY <1>3
<1> HIDE DEF g
<1>8. /\ world' \in Worlds
      /\ world'.policies = [world.policies EXCEPT ![<<o, a>>] = q]
      /\ world'.log = world.log /\ world'.consumed = world.consumed
  BY <1>2, <1>4, <1>5, <1>7 DEF Worlds
<1>9. \A r \in Pairs : world'.policies[r].spent <= world'.policies[r].totalBudget
  BY <1>2, <1>4, <1>8, PolicyTyped DEF IInv, SpentWithinBudget
<1>10. TypeOK'
  BY <1>6, <1>8 DEF IInv, TypeOK, ConfigureAgent
<1>11. ConsumedCoversLog' /\ NoReplay'
  BY <1>8 DEF IInv, ConsumedCoversLog, NoReplay, Key
<1>12. QED
  BY <1>1, <1>6, <1>9, <1>10, <1>11, AtRest

LEMMA RevokedTyped ==
  ASSUME NEW r \in Authorizations
  PROVE  Revoked(r) \in Authorizations /\ Revoked(r).spent = r.spent
         /\ Revoked(r).totalBudget = r.totalBudget
<1>1. r.epoch + 1 \in Nat
  BY DEF Authorizations
<1> DEFINE u == [r EXCEPT !.active = FALSE]
<1>2. u \in Authorizations /\ u.spent = r.spent /\ u.totalBudget = r.totalBudget /\ u.epoch = r.epoch
  BY DEF Authorizations
<1>3. Revoked(r) = [u EXCEPT !.epoch = u.epoch + 1]
  BY DEF Revoked, Authorizations
<1> HIDE DEF u
<1>4. QED
  BY <1>1, <1>2, <1>3 DEF Authorizations

LEMMA RevokeStep ==
  ASSUME IInv, NEW o \in Owners, NEW a \in Agents, RevokeAgent(o, a)
  PROVE  IInv'
<1> DEFINE q == Revoked(world.policies[<<o, a>>])
<1>1. phase = "none" /\ phase' = "none" /\ entered' = FALSE
  BY DEF IInv, GuardHeld, RevokeAgent, NonReentrant
<1>2. world \in Worlds /\ <<o, a>> \in Pairs
  BY DEF IInv, TypeOK, Pairs
<1>3. /\ q \in Authorizations /\ q.spent = world.policies[<<o, a>>].spent
      /\ q.totalBudget = world.policies[<<o, a>>].totalBudget
  BY <1>2, WorldTyped, RevokedTyped
<1>4. world' = [world EXCEPT !.policies[<<o, a>>] = q]
  BY DEF RevokeAgent, Becomes
<1>5. world' = saved'
  BY <1>1 DEF RevokeAgent, Becomes
<1> HIDE DEF q
<1>6. /\ world' \in Worlds
      /\ world'.policies = [world.policies EXCEPT ![<<o, a>>] = q]
      /\ world'.log = world.log /\ world'.consumed = world.consumed
  BY <1>2, <1>3, <1>4 DEF Worlds
<1>7. \A r \in Pairs : world'.policies[r].spent <= world'.policies[r].totalBudget
  BY <1>2, <1>3, <1>6, PolicyTyped DEF IInv, SpentWithinBudget
<1>8. TypeOK'
  BY <1>5, <1>6 DEF IInv, TypeOK, RevokeAgent
<1>9. ConsumedCoversLog' /\ NoReplay'
  BY <1>6 DEF IInv, ConsumedCoversLog, NoReplay, Key
<1>10. QED
  BY <1>1, <1>5, <1>7, <1>8, <1>9, AtRest

LEMMA ApproveStep ==
  ASSUME IInv, NEW o \in Owners, NEW t \in Tokens, NEW n \in Allowances, Approve(o, t, n)
  PROVE  IInv'
<1>1. world \in Worlds /\ n \in Nat
  BY BoundsAssumption DEF IInv, TypeOK
<1>2. world' = [world EXCEPT !.allowance[t][o] = n]
  BY DEF Approve, Becomes
<1>3. /\ world' \in Worlds /\ world'.policies = world.policies
      /\ world'.consumed = world.consumed /\ world'.log = world.log
  BY <1>1, <1>2 DEF Worlds
<1>4. \/ saved' = world' /\ saved = world
      \/ saved' = saved /\ phase # "none"
  <2> DEFINE w == [world EXCEPT !.allowance[t][o] = n]
  <2>1. world' = w /\ saved' = IF phase = "none" THEN w ELSE saved
    BY DEF Approve, Becomes
  <2> HIDE DEF w
  <2>2. phase = "none" => world = saved
    BY DEF IInv, BatchInProgress
  <2>3. QED
    BY <2>1, <2>2
<1>5. TypeOK'
  BY <1>3, <1>4 DEF Approve, IInv, TypeOK
<1>6. QED
  BY <1>3, <1>4, <1>5, Frame DEF Approve

-----------------------------------------------------------------------------
LEMMA BeginStep ==
  ASSUME IInv, NEW b \in Batches, BeginBatch(b)
  PROVE  IInv'
<1>1. PICK n \in 1 .. MaxBatch : b \in [1 .. n -> Intents]
  BY DEF Batches
<1>2. n \in Nat /\ b \in Seq(Intents) /\ Len(b) = n
  BY <1>1, BoundsAssumption
<1>3. b # << >> /\ 1 \in 1 .. Len(b) + 1
  BY <1>1, <1>2
<1>4. TypeOK'
  BY <1>2 DEF BeginBatch, IInv, TypeOK
<1>5. Done = 0 /\ Charged = 0 /\ Done' = 0 /\ Charged' = 0
  BY DEF BeginBatch, Done, Charged
<1>6. GuardHeld' /\ ConsumedCoversLog' /\ NoReplay'
  BY DEF BeginBatch, IInv, GuardHeld, ConsumedCoversLog, NoReplay, Key
<1>7. OnlySpendingChanges' /\ SpentWithinBudget'
  BY DEF BeginBatch, IInv, OnlySpendingChanges, SpentWithinBudget
<1>8. BatchInProgress'
  BY <1>3, <1>5 DEF BeginBatch, IInv, BatchInProgress
<1>9. ChargedWereAllowed'
  BY <1>5 DEF BeginBatch, IInv, ChargedWereAllowed, Key
<1>10. QED
  BY <1>4, <1>6, <1>7, <1>8, <1>9 DEF IInv

(* Charging an amount to a policy leaves the rest of it as it was.         *)
LEMMA SpentTyped ==
  ASSUME NEW r \in Authorizations, NEW s \in Authorizations, NEW n \in Nat,
         r = [s EXCEPT !.spent = r.spent]
  PROVE  /\ [r EXCEPT !.spent = n] \in Authorizations
         /\ [r EXCEPT !.spent = n].spent = n
         /\ [r EXCEPT !.spent = n].totalBudget = r.totalBudget
         /\ [r EXCEPT !.spent = n] = [s EXCEPT !.spent = n]
BY DEF Authorizations

(* What charging an intent changes.                                        *)
LEMMA AcceptEffect ==
  ASSUME IInv, Accept
  PROVE  LET i == batch[at]
             p == <<i.owner, i.agent>>
             q == [world.policies[p] EXCEPT !.spent = world.policies[p].spent + i.amount]
         IN
         /\ phase = "check" /\ phase' = "transfer" /\ at \in 1 .. Len(batch)
         /\ UNCHANGED <<now, saved, entered, batch, at>>
         /\ i \in Intents /\ p \in Pairs /\ world \in Worlds /\ world' \in Worlds
         /\ q \in Authorizations /\ q.spent = world.policies[p].spent + i.amount
         /\ q.totalBudget = world.policies[p].totalBudget
         /\ q = [saved.policies[p] EXCEPT !.spent = q.spent]
         /\ world'.policies = [world.policies EXCEPT ![p] = q]
         /\ world'.consumed = world.consumed \union {Key(i)} /\ world'.log = world.log
         /\ world'.granted = world.granted /\ world'.balance = world.balance
<1> DEFINE i == batch[at]
           p == <<i.owner, i.agent>>
           q == [world.policies[p] EXCEPT !.spent = world.policies[p].spent + i.amount]
<1>1. /\ phase = "check" /\ phase' = "transfer" /\ at \in 1 .. Len(batch)
      /\ UNCHANGED <<now, saved, entered, batch, at>>
  BY DEF Accept, IInv, BatchInProgress, TypeOK
<1>2. world \in Worlds /\ saved \in Worlds /\ Len(batch) \in Nat /\ i \in Intents
  BY <1>1, SeqElement DEF IInv, TypeOK
<1>3. p \in Pairs /\ i.amount \in Nat /\ Key(i) \in Owners \X Agents \X Nat \X Nat
  BY <1>2, IntentTyped
<1>4. i.amount <= world.policies[p].totalBudget - world.policies[p].spent
  BY DEF Accept, WithinBudget, PolicyOf
<1>5. world.policies[p].spent \in Nat /\ world.policies[p].totalBudget \in Nat
  BY <1>2, <1>3, WorldTyped
<1>6. /\ q \in Authorizations /\ q.spent = world.policies[p].spent + i.amount
      /\ q.totalBudget = world.policies[p].totalBudget
      /\ q = [saved.policies[p] EXCEPT !.spent = q.spent]
  <2>1. world.policies[p] \in Authorizations /\ saved.policies[p] \in Authorizations
    BY <1>2, <1>3, WorldTyped
  <2>2. world.policies[p] = [saved.policies[p] EXCEPT !.spent = world.policies[p].spent]
    BY <1>3 DEF IInv, OnlySpendingChanges
  <2>3. world.policies[p].spent + i.amount \in Nat
    BY <1>3, <1>5
  <2>4. QED
    BY <2>1, <2>2, <2>3, SpentTyped
<1> DEFINE u == [world EXCEPT !.consumed = @ \union {Key(i)}]
<1>7. world' = [u EXCEPT !.policies[p] = q]
  <2>1. u.policies = world.policies
    BY <1>2 DEF Worlds
  <2>2. world' = [u EXCEPT !.policies[p].spent = u.policies[p].spent + i.amount]
    BY DEF Accept
  <2>3. QED
    BY <2>1, <2>2
<1> HIDE DEF q
<1>8. /\ world' \in Worlds
      /\ world'.policies = [world.policies EXCEPT ![p] = q]
      /\ world'.consumed = world.consumed \union {Key(i)} /\ world'.log = world.log
      /\ world'.granted = world.granted /\ world'.balance = world.balance
  <2>1. /\ u \in Worlds /\ u.policies = world.policies
        /\ u.consumed = world.consumed \union {Key(i)} /\ u.log = world.log
        /\ u.granted = world.granted /\ u.balance = world.balance
    BY <1>2, <1>3 DEF Worlds
  <2> HIDE DEF u
  <2>2. QED
    BY <1>3, <1>6, <1>7, <2>1 DEF Worlds
<1>9. QED
  BY <1>1, <1>2, <1>3, <1>6, <1>8 DEF q

LEMMA AcceptStep == IInv /\ Accept => IInv'
<1> SUFFICES ASSUME IInv, Accept PROVE IInv'
  OBVIOUS
<1> DEFINE i == batch[at]
           p == <<i.owner, i.agent>>
           q == [world.policies[p] EXCEPT !.spent = world.policies[p].spent + i.amount]
<1>1. /\ phase = "check" /\ phase' = "transfer" /\ at \in 1 .. Len(batch)
      /\ UNCHANGED <<now, saved, entered, batch, at>>
  BY AcceptEffect
<1>2. world \in Worlds /\ saved \in Worlds /\ Len(batch) \in Nat /\ i \in Intents
  BY <1>1, SeqElement DEF IInv, TypeOK
<1>3. p \in Pairs /\ i.amount \in Nat
  BY <1>2, IntentTyped
<1>4. i.amount <= world.policies[p].totalBudget - world.policies[p].spent
  BY DEF Accept, WithinBudget, PolicyOf
<1>5. world.policies[p].spent \in Nat /\ world.policies[p].totalBudget \in Nat
  BY <1>2, <1>3, WorldTyped
<1>6. /\ q.spent = world.policies[p].spent + i.amount
      /\ q.totalBudget = world.policies[p].totalBudget
      /\ q = [saved.policies[p] EXCEPT !.spent = q.spent]
  BY AcceptEffect
<1>7. /\ world' \in Worlds
      /\ world'.policies = [world.policies EXCEPT ![p] = q]
      /\ world'.consumed = world.consumed \union {Key(i)} /\ world'.log = world.log
  BY AcceptEffect
<1> HIDE DEF q
<1>8. \A r \in Pairs : world'.policies[r] = IF r = p THEN q ELSE world.policies[r]
  <2>1. world.policies \in [Pairs -> Authorizations]
    BY <1>2, WorldTyped
  <2>2. QED
    BY <1>3, <1>7, <2>1
<1>9. TypeOK' /\ GuardHeld'
  BY <1>1, <1>7 DEF IInv, TypeOK, GuardHeld
<1>10. Done' = Done /\ Charged = at - 1 /\ Charged' = at
  BY <1>1 DEF Done, Charged
<1>11. BatchInProgress'
  BY <1>1, <1>7, <1>10 DEF IInv, BatchInProgress
<1>12. OnlySpendingChanges'
  BY <1>1, <1>6, <1>8 DEF IInv, OnlySpendingChanges
<1>13. SpentWithinBudget'
  <2>1. \A r \in Pairs : saved.policies[r].spent \in Nat /\ saved.policies[r].spent <= world.policies[r].spent
                           /\ world.policies[r].spent <= world.policies[r].totalBudget
    BY <1>2, WorldTyped DEF IInv, SpentWithinBudget
  <2>2. q.spent <= q.totalBudget /\ saved.policies[p].spent <= q.spent
    BY <1>3, <1>4, <1>5, <1>6, <2>1
  <2>3. QED
    BY <1>1, <1>8, <2>1, <2>2 DEF SpentWithinBudget
<1>14. ConsumedCoversLog' /\ NoReplay'
  BY <1>7 DEF IInv, ConsumedCoversLog, NoReplay, Key
<1>15. ChargedWereAllowed'
  <2>1. Key(i) \notin world.consumed /\ i \in Signed
    BY DEF Accept, Unconsumed, SignedByAgent
  <2>2. saved.policies[p].active /\ saved.policies[p].epoch = i.epoch
    <3>1. world.policies[p].active /\ world.policies[p].epoch = i.epoch
      BY DEF Accept, InForce, CurrentEpoch, PolicyOf
    <3>2. saved.policies[p] \in Authorizations
      BY <1>2, <1>3, WorldTyped
    <3>3. world.policies[p] = [saved.policies[p] EXCEPT !.spent = world.policies[p].spent]
      BY <1>3 DEF IInv, OnlySpendingChanges
    <3>4. QED
      BY <3>1, <3>2, <3>3 DEF Authorizations
  <2>3. 1 .. at = (1 .. at - 1) \union {at}
    BY <1>1, <1>2
  <2>4. /\ saved.consumed \subseteq world.consumed
        /\ \A n \in 1 .. at - 1 : Key(batch[n]) \in world.consumed
    BY <1>10 DEF IInv, ChargedWereAllowed
  <2>5. \A n \in 1 .. at - 1 : n # at /\ Key(batch[n]) # Key(i)
    BY <1>1, <1>2, <2>1, <2>4
  <2>6. Key(i) \notin saved.consumed
    BY <2>1, <2>4
  <2> HIDE DEF p
  <2>7. \A n \in 1 .. at :
          /\ batch[n] \in Signed
          /\ saved.policies[<<batch[n].owner, batch[n].agent>>].active
          /\ saved.policies[<<batch[n].owner, batch[n].agent>>].epoch = batch[n].epoch
          /\ Key(batch[n]) \notin saved.consumed /\ Key(batch[n]) \in world'.consumed
          /\ \A m \in 1 .. at : m # n => Key(batch[m]) # Key(batch[n])
    BY <1>7, <1>10, <2>1, <2>2, <2>3, <2>4, <2>5, <2>6 DEF p, IInv, ChargedWereAllowed
  <2>8. QED
    BY <1>1, <1>7, <1>10, <2>4, <2>7 DEF IInv, ChargedWereAllowed, Key
<1>16. QED
  BY <1>9, <1>11, <1>12, <1>13, <1>14, <1>15 DEF IInv

(* A payment that the balance covers leaves no balance below zero.         *)
LEMMA MovedTyped ==
  ASSUME NEW b \in [Accounts -> Nat], NEW from \in Accounts, NEW to \in Accounts,
         NEW n \in Nat, b[from] >= n
  PROVE  Moved(b, from, to, n) \in [Accounts -> Nat]
<1>1. CASE from = to
  BY <1>1 DEF Moved
<1>2. CASE from # to
  <2>1. b[from] - n \in Nat /\ b[to] + n \in Nat
    OBVIOUS
  <2>2. QED
    BY <1>2, <2>1 DEF Moved
<1>3. QED
  BY <1>1, <1>2

(* What a payment changes.                                                 *)
LEMMA TransferEffect ==
  ASSUME IInv, Transfer
  PROVE  LET i == batch[at] IN
         /\ phase = "transfer" /\ phase' = "check" /\ at \in 1 .. Len(batch) /\ at' = at + 1
         /\ UNCHANGED <<now, saved, entered, batch>>
         /\ i \in Intents /\ world \in Worlds /\ world' \in Worlds
         /\ world'.log = Append(world.log, i)
         /\ world'.policies = world.policies /\ world'.consumed = world.consumed
         /\ world'.granted = world.granted
         /\ world.balance[i.token][i.owner] >= i.amount
         /\ world'.balance = [world.balance EXCEPT ![i.token] =
                                Moved(world.balance[i.token], i.owner, i.recipient, i.amount)]
<1> DEFINE i == batch[at]
           bal == [world.balance EXCEPT ![i.token] =
                     Moved(world.balance[i.token], i.owner, i.recipient, i.amount)]
           alw == [world.allowance EXCEPT ![i.token] =
                     [world.allowance[i.token] EXCEPT ![i.owner] = @ - i.amount]]
<1>1. /\ phase = "transfer" /\ phase' = "check" /\ at \in 1 .. Len(batch) /\ at' = at + 1
      /\ UNCHANGED <<now, saved, entered, batch>>
  BY DEF Transfer, IInv, BatchInProgress, TypeOK
<1>2. world \in Worlds /\ saved \in Worlds /\ Len(batch) \in Nat /\ i \in Intents
  BY <1>1, SeqElement DEF IInv, TypeOK
<1>3. /\ i.owner \in Owners /\ i.owner \in Accounts /\ i.recipient \in Accounts
      /\ i.token \in Tokens /\ i.amount \in Nat
  BY <1>2, IntentsAssumption, AccountsAssumption
<1>4. world.allowance[i.token][i.owner] >= i.amount /\ world.balance[i.token][i.owner] >= i.amount
  BY DEF Transfer
<1>5. bal \in [Tokens -> [Accounts -> Nat]]
  <2>1. world.balance \in [Tokens -> [Accounts -> Nat]]
    BY <1>2 DEF Worlds
  <2>2. Moved(world.balance[i.token], i.owner, i.recipient, i.amount) \in [Accounts -> Nat]
    BY <1>3, <1>4, <2>1, MovedTyped
  <2>3. QED
    BY <2>1, <2>2
<1>6. alw \in [Tokens -> [Owners -> Nat]]
  BY <1>2, <1>3, <1>4 DEF Worlds
<1>7. world' = [[[world EXCEPT !.balance = bal] EXCEPT !.allowance = alw]
                  EXCEPT !.log = Append(world.log, i)]
  <2> DEFINE u == [world EXCEPT !.balance = bal]
             v == [u EXCEPT !.allowance = alw]
  <2>1. u.allowance = world.allowance /\ v.log = world.log
    BY <1>2 DEF Worlds
  <2>2. world' = [[u EXCEPT !.allowance[i.token][i.owner] = u.allowance[i.token][i.owner] - i.amount]
                    EXCEPT !.log = Append([u EXCEPT !.allowance[i.token][i.owner] =
                             u.allowance[i.token][i.owner] - i.amount].log, i)]
    BY DEF Transfer
  <2>3. QED
    BY <2>1, <2>2
<1> HIDE DEF bal, alw
<1>8. /\ world' \in Worlds /\ world'.log = Append(world.log, i)
      /\ world'.policies = world.policies /\ world'.consumed = world.consumed
      /\ world'.granted = world.granted /\ world'.balance = bal
  <2> DEFINE u == [world EXCEPT !.balance = bal]
             v == [u EXCEPT !.allowance = alw]
  <2>1. /\ u \in Worlds /\ u.log = world.log
        /\ u.policies = world.policies /\ u.consumed = world.consumed
        /\ u.granted = world.granted /\ u.balance = bal
    BY <1>2, <1>5 DEF Worlds
  <2> HIDE DEF u
  <2>2. /\ v \in Worlds /\ v.log = world.log
        /\ v.policies = world.policies /\ v.consumed = world.consumed
        /\ v.granted = world.granted /\ v.balance = bal
    BY <1>6, <2>1 DEF Worlds
  <2>3. world' = [v EXCEPT !.log = Append(world.log, i)]
    BY <1>7 DEF u
  <2>4. Append(world.log, i) \in Seq(Intents)
    BY <1>2, WorldTyped
  <2> HIDE DEF v
  <2>5. QED
    BY <2>2, <2>3, <2>4 DEF Worlds
<1>9. QED
  BY <1>1, <1>2, <1>4, <1>8 DEF bal

LEMMA TransferStep == IInv /\ Transfer => IInv'
<1> SUFFICES ASSUME IInv, Transfer PROVE IInv'
  OBVIOUS
<1> DEFINE i == batch[at]
           L == Len(world.log)
<1>1. /\ phase = "transfer" /\ phase' = "check" /\ at \in 1 .. Len(batch) /\ at' = at + 1
      /\ UNCHANGED <<now, saved, entered, batch>>
  BY TransferEffect
<1>2. world \in Worlds /\ saved \in Worlds /\ Len(batch) \in Nat /\ i \in Intents
  BY <1>1, SeqElement DEF IInv, TypeOK
<1>3. /\ world' \in Worlds /\ world'.log = Append(world.log, i)
      /\ world'.policies = world.policies /\ world'.consumed = world.consumed
  BY TransferEffect
<1>4. /\ L \in Nat /\ Len(world'.log) = L + 1 /\ world'.log[L + 1] = i
      /\ \A n \in 1 .. L : world'.log[n] = world.log[n]
      /\ DOMAIN world.log = 1 .. L /\ DOMAIN world'.log = 1 .. L + 1
  BY <1>2, <1>3, WorldTyped, SeqElement
<1>5. TypeOK' /\ GuardHeld'
  BY <1>1, <1>2, <1>3 DEF IInv, TypeOK, GuardHeld
<1>6. Done = at - 1 /\ Charged = at /\ Done' = at /\ Charged' = at
  BY <1>1 DEF Done, Charged
<1>7. OnlySpendingChanges' /\ SpentWithinBudget'
  BY <1>1, <1>3 DEF IInv, OnlySpendingChanges, SpentWithinBudget
<1>8. /\ Len(saved.log) \in Nat /\ L = Len(saved.log) + (at - 1)
       /\ \A n \in 1 .. Len(saved.log) : world.log[n] = saved.log[n]
  BY <1>2, <1>6, WorldTyped, SeqElement DEF IInv, BatchInProgress
<1>8a. \A n \in 1 .. at - 1 : world.log[Len(saved.log) + n] = batch[n]
  BY <1>6 DEF IInv, BatchInProgress
<1> HIDE DEF L
<1>9. BatchInProgress'
  <2>1. \A n \in 1 .. at : world'.log[Len(saved.log) + n] = batch[n]
    <3> SUFFICES ASSUME NEW n \in 1 .. at PROVE world'.log[Len(saved.log) + n] = batch[n]
      OBVIOUS
    <3>1. CASE n = at
      BY <1>1, <1>4, <1>8, <3>1
    <3>2. CASE n # at
      <4>1. n \in 1 .. at - 1 /\ Len(saved.log) + n \in 1 .. L
        BY <1>1, <1>2, <1>8, <3>2
      <4>2. world.log[Len(saved.log) + n] = batch[n]
        BY <1>8a, <4>1
      <4>3. QED
        BY <1>4, <4>1, <4>2
    <3>3. QED
      BY <3>1, <3>2
  <2>2. \A n \in 1 .. Len(saved.log) : world'.log[n] = saved.log[n]
    BY <1>1, <1>4, <1>8
  <2>3. Len(world'.log) = Len(saved.log) + at
    BY <1>1, <1>4, <1>8
  <2>4. batch # << >> /\ at + 1 \in 1 .. Len(batch) + 1
    BY <1>1, <1>2 DEF IInv, BatchInProgress
  <2>5. QED
    BY <1>1, <1>6, <2>1, <2>2, <2>3, <2>4 DEF BatchInProgress
<1>10. ChargedWereAllowed'
  BY <1>1, <1>3, <1>6 DEF IInv, ChargedWereAllowed, Key
<1>11. Key(i) \notin saved.consumed /\ Key(i) \in world.consumed
  <2>1. at \in 1 .. Charged
    BY <1>1, <1>6
  <2>2. QED
    BY <2>1 DEF IInv, ChargedWereAllowed
<1>12. \A n \in 1 .. L : Key(world.log[n]) # Key(i)
  <2> SUFFICES ASSUME NEW n \in 1 .. L PROVE Key(world.log[n]) # Key(i)
    OBVIOUS
  <2>1. CASE n <= Len(saved.log)
    <3>1. n \in 1 .. Len(saved.log) /\ n \in DOMAIN saved.log
      BY <1>2, <1>4, <2>1, WorldTyped, SeqElement
    <3>2. Key(saved.log[n]) \in saved.consumed /\ Key(i) \notin saved.consumed
      BY <1>11, <3>1 DEF IInv, ChargedWereAllowed
    <3>3. QED
      BY <1>8, <3>1, <3>2
  <2>2. CASE n > Len(saved.log)
    <3> DEFINE m == n - Len(saved.log)
    <3>1. m \in 1 .. at - 1 /\ n = Len(saved.log) + m
      <4>1. at \in Nat /\ n \in Nat
        BY <1>1, <1>2, <1>4
      <4>2. QED
        BY <1>4, <1>8, <2>2, <4>1
    <3>2. world.log[n] = batch[m]
      <4> HIDE DEF m
      <4>1. world.log[Len(saved.log) + m] = batch[m]
        BY <1>8a, <3>1
      <4>2. QED
        BY <3>1, <4>1
    <3>3. m \in 1 .. at /\ m # at /\ at \in 1 .. at
      BY <1>1, <3>1
    <3> HIDE DEF m
    <3>4. Key(batch[m]) # Key(i)
      BY <1>6, <3>3 DEF IInv, ChargedWereAllowed
    <3>5. QED
      BY <3>2, <3>4
  <2>3. QED
    BY <1>4, <1>8, <2>1, <2>2
<1>13. ConsumedCoversLog'
  <2>1. 1 .. L + 1 = (1 .. L) \union {L + 1}
    BY <1>4
  <2>2. \A n \in 1 .. L : Key(world.log[n]) \in world.consumed
    BY <1>4 DEF IInv, ConsumedCoversLog
  <2> HIDE DEF i, L
  <2>3. \A n \in 1 .. L + 1 : Key(world'.log[n]) \in world.consumed
    BY <1>4, <1>11, <2>1, <2>2
  <2>4. QED
    BY <1>3, <1>4, <2>3 DEF ConsumedCoversLog, Key
<1>14. NoReplay'
  <2>1. \A m, n \in 1 .. L : Key(world.log[m]) = Key(world.log[n]) => m = n
    BY <1>4 DEF IInv, NoReplay
  <2>2. 1 .. L + 1 = (1 .. L) \union {L + 1}
    BY <1>4
  <2> HIDE DEF i, L
  <2>3. \A m, n \in 1 .. L + 1 : Key(world'.log[m]) = Key(world'.log[n]) => m = n
    BY <1>4, <1>12, <2>1, <2>2
  <2>4. QED
    BY <1>4, <2>3 DEF NoReplay, Key
<1>15. QED
  BY <1>5, <1>7, <1>9, <1>10, <1>13, <1>14 DEF IInv

-----------------------------------------------------------------------------
LEMMA CommitStep == IInv /\ Commit => IInv'
<1> SUFFICES ASSUME IInv, Commit PROVE IInv'
  OBVIOUS
<1>1. TypeOK'
  <2>1. << >> \in Seq(Intents)
    OBVIOUS
  <2>2. QED
    BY <2>1 DEF Commit, EndTransaction, IInv, TypeOK
<1>2. phase' = "none" /\ entered' = FALSE /\ world' = world /\ saved' = world
  BY DEF Commit, EndTransaction
<1>3. ConsumedCoversLog' /\ NoReplay'
  BY <1>2 DEF IInv, ConsumedCoversLog, NoReplay, Key
<1>4. \A p \in Pairs : world'.policies[p].spent <= world'.policies[p].totalBudget
  BY <1>2 DEF IInv, SpentWithinBudget
<1>5. QED
  BY <1>1, <1>2, <1>3, <1>4, AtRest

(* A reverted transaction goes back to a lawful state.                     *)
LEMMA RevertStep == IInv /\ Revert => IInv'
<1> SUFFICES ASSUME IInv, Revert PROVE IInv'
  OBVIOUS
<1>1. phase' = "none" /\ entered' = FALSE /\ world' = saved /\ saved' = saved
  BY DEF Revert, EndTransaction, Undone
<1>2. TypeOK'
  <2>1. << >> \in Seq(Intents)
    OBVIOUS
  <2>2. QED
    BY <1>1, <2>1 DEF Revert, EndTransaction, IInv, TypeOK
<1>3. world \in Worlds /\ saved \in Worlds
  BY DEF IInv, TypeOK
<1>4. ASSUME NEW p \in Pairs
      PROVE  world'.policies[p].spent <= world'.policies[p].totalBudget
  <2>1. /\ world.policies[p].spent <= world.policies[p].totalBudget
        /\ saved.policies[p].spent <= world.policies[p].spent
    BY DEF IInv, SpentWithinBudget
  <2>2. world.policies[p] = [saved.policies[p] EXCEPT !.spent = world.policies[p].spent]
    BY DEF IInv, OnlySpendingChanges
  <2>3. saved.policies[p] \in Authorizations
    BY <1>3, WorldTyped
  <2>4. world.policies[p].totalBudget = saved.policies[p].totalBudget
    BY <2>2, <2>3 DEF Authorizations
  <2>5. QED
    BY <1>1, <1>3, <2>1, <2>4, WorldTyped
<1>5. ConsumedCoversLog'
  BY <1>1 DEF IInv, ChargedWereAllowed, ConsumedCoversLog, Key
<1>6. NoReplay'
  <2>1. /\ DOMAIN saved.log = 1 .. Len(saved.log) /\ DOMAIN world.log = 1 .. Len(world.log)
        /\ Len(saved.log) \in Nat /\ Len(world.log) \in Nat
    BY <1>3, WorldTyped, SeqElement
  <2>2. Done \in Nat
    BY DEF Done, IInv, BatchInProgress, TypeOK
  <2>3. \A n \in DOMAIN saved.log : n \in DOMAIN world.log /\ world.log[n] = saved.log[n]
    BY <2>1, <2>2 DEF IInv, BatchInProgress
  <2>4. \A m, n \in DOMAIN saved.log : Key(saved.log[m]) = Key(saved.log[n]) => m = n
    BY <2>3 DEF IInv, NoReplay
  <2>5. QED
    BY <1>1, <2>4 DEF NoReplay, Key
<1>7. QED
  BY <1>1, <1>2, <1>4, <1>5, <1>6, AtRest

LEMMA InitIInv == Init => IInv
<1> SUFFICES ASSUME Init PROVE IInv
  OBVIOUS
<1>1. Unconfigured \in Authorizations
  BY DEF Unconfigured, Authorizations
<1>2. Genesis \in Worlds
  <2>1. /\ [p \in Pairs |-> Unconfigured] \in [Pairs -> Authorizations]
        /\ [t \in Tokens |-> [a \in Accounts |-> IF a \in Owners THEN Supply ELSE 0]]
              \in [Tokens -> [Accounts -> Nat]]
        /\ [t \in Tokens |-> [o \in Owners |-> 0]] \in [Tokens -> [Owners -> Nat]]
        /\ << >> \in Seq(Intents)
    BY <1>1, BoundsAssumption
  <2>2. QED
    BY <2>1 DEF Genesis, Worlds
<1>3. TypeOK
  <2>1. << >> \in Seq(Intents)
    OBVIOUS
  <2>2. QED
    BY <1>2, <2>1 DEF Init, TypeOK
<1>4. Done = 0 /\ Charged = 0
  BY DEF Init, Done, Charged
<1>5. /\ world.log = << >> /\ saved = world /\ saved.log = << >>
      /\ \A p \in Pairs : world.policies[p] = Unconfigured
  BY DEF Init, Genesis
<1>6. GuardHeld /\ BatchInProgress /\ ChargedWereAllowed /\ ConsumedCoversLog /\ NoReplay
  BY <1>4, <1>5 DEF Init, GuardHeld, BatchInProgress, ChargedWereAllowed, ConsumedCoversLog, NoReplay
<1>7. OnlySpendingChanges /\ SpentWithinBudget
  BY <1>1, <1>5 DEF OnlySpendingChanges, SpentWithinBudget, Unconfigured
<1>8. QED
  BY <1>3, <1>6, <1>7 DEF IInv

LEMMA IInvStep == IInv /\ [Next]_vars => IInv'
<1> SUFFICES ASSUME IInv, [Next]_vars PROVE IInv'
  OBVIOUS
<1>1. ASSUME NEW o \in Owners, Owner(o) PROVE IInv'
  BY <1>1, ConfigureStep, RevokeStep, ApproveStep DEF Owner
<1>2. CASE ExecuteBatch
  BY <1>2, BeginStep, AcceptStep, TransferStep, CommitStep, RevertStep DEF ExecuteBatch
<1>3. CASE NextBlock \/ UNCHANGED vars
  <2>1. /\ TypeOK' /\ UNCHANGED <<entered, phase, batch, at>>
        /\ world' = world /\ saved' = saved
    BY <1>3 DEF NextBlock, vars, IInv, TypeOK
  <2>2. phase = "none" => world' = saved'
    BY <2>1 DEF IInv, BatchInProgress
  <2>3. QED
    BY <2>1, <2>2, Frame
<1>4. QED
  BY <1>1, <1>2, <1>3 DEF Next

(* The inductive invariant holds.                                          *)
THEOREM Invariance == Spec => []IInv
BY InitIInv, IInvStep, PTL DEF Spec

(* No authorization nonce is ever executed twice (D-003).                  *)
THEOREM ReplayIsImpossible == Spec => []NoReplay
<1>1. IInv => NoReplay
  BY DEF IInv
<1>2. QED
  BY <1>1, Invariance, PTL

-----------------------------------------------------------------------------
(* Refinement of Mandate.                                                  *)

(* The abstract authorizations are read off the committed state.           *)
LEMMA AuthFields ==
  ASSUME NEW p \in Pairs
  PROVE  /\ Auth[p].active = saved.policies[p].active
         /\ Auth[p].epoch = saved.policies[p].epoch
         /\ Auth[p].spent = saved.policies[p].spent
         /\ Auth[p].budget = saved.policies[p].totalBudget
BY DEF Auth

LEMMA UnchangedCommitted == UNCHANGED saved => UNCHANGED M!vars
BY DEF Auth, M!vars

LEMMA ConfigureRefines ==
  ASSUME IInv, NEW o \in Owners, NEW a \in Agents, NEW p \in Policies, ConfigureAgent(o, a, p)
  PROVE  M!Authorize(<<o, a>>)
<1> DEFINE k == <<o, a>>
           e == world.policies[k].epoch + 1
           q == [token |-> p.token, recipient |-> p.recipient,
                 maxAmountPerIntent |-> p.maxAmountPerIntent, totalBudget |-> p.totalBudget,
                 spent |-> 0, validUntil |-> p.validUntil, active |-> TRUE, epoch |-> e]
           g == [owner |-> o, agent |-> a, epoch |-> e, policy |-> p]
<1>1. phase = "none" /\ world = saved /\ world \in Worlds /\ k \in Pairs
  BY DEF IInv, GuardHeld, BatchInProgress, TypeOK, ConfigureAgent, NonReentrant, Pairs
<1>2. saved' = [world EXCEPT !.policies[k] = q, !.granted = @ \union {g}]
  BY <1>1 DEF ConfigureAgent, Becomes
<1>3. /\ q.active = TRUE /\ q.epoch = saved.policies[k].epoch + 1
      /\ q.spent = 0 /\ q.totalBudget = p.totalBudget
  BY <1>1
<1> HIDE DEF q, g
<1>4. saved'.policies = [saved.policies EXCEPT ![k] = q] /\ saved'.log = saved.log
  BY <1>1, <1>2 DEF Worlds
<1>5. saved.policies \in [Pairs -> Authorizations]
  BY <1>1, WorldTyped
<1>6. Auth' = [Auth EXCEPT ![k] = [active |-> TRUE, epoch |-> @.epoch + 1,
                                   spent |-> 0, budget |-> q.totalBudget]]
  BY <1>1, <1>3, <1>4, <1>5 DEF Auth
<1>7. Auth'[k].budget = q.totalBudget
  BY <1>1, <1>6 DEF Auth
<1>8. QED
  BY <1>4, <1>6, <1>7 DEF M!Authorize

LEMMA RevokeRefines ==
  ASSUME IInv, NEW o \in Owners, NEW a \in Agents, RevokeAgent(o, a)
  PROVE  M!Revoke(<<o, a>>)
<1> DEFINE k == <<o, a>>
           q == Revoked(world.policies[k])
<1>1. phase = "none" /\ world = saved /\ world \in Worlds /\ k \in Pairs
  BY DEF IInv, GuardHeld, BatchInProgress, TypeOK, RevokeAgent, NonReentrant, Pairs
<1>2. saved' = [world EXCEPT !.policies[k] = q]
  BY <1>1 DEF RevokeAgent, Becomes
<1>3. saved.policies \in [Pairs -> Authorizations]
  BY <1>1, WorldTyped
<1>4. /\ q.active = FALSE /\ q.epoch = saved.policies[k].epoch + 1
      /\ q.spent = saved.policies[k].spent /\ q.totalBudget = saved.policies[k].totalBudget
  <2>1. world.policies[k] = saved.policies[k] /\ saved.policies[k] \in Authorizations
    BY <1>1, <1>3
  <2>2. QED
    BY <2>1 DEF Revoked, Authorizations
<1> HIDE DEF q
<1>5. saved'.policies = [saved.policies EXCEPT ![k] = q] /\ saved'.log = saved.log
  BY <1>1, <1>2 DEF Worlds
<1>6. Auth' = [Auth EXCEPT ![k] = [active |-> FALSE, epoch |-> @.epoch + 1,
                                   spent |-> @.spent, budget |-> @.budget]]
  BY <1>1, <1>3, <1>4, <1>5 DEF Auth
<1>7. QED
  BY <1>5, <1>6 DEF M!Revoke

LEMMA ApproveRefines ==
  ASSUME IInv, NEW o \in Owners, NEW t \in Tokens, NEW n \in Allowances, Approve(o, t, n)
  PROVE  UNCHANGED M!vars
<1>1. world \in Worlds
  BY DEF IInv, TypeOK
<1>2. CASE phase = "none"
  <2>1. world = saved /\ saved' = [world EXCEPT !.allowance[t][o] = n]
    BY <1>2 DEF Approve, Becomes, IInv, BatchInProgress
  <2>2. saved'.policies = saved.policies /\ saved'.log = saved.log
    BY <1>1, <2>1 DEF Worlds
  <2>3. QED
    BY <2>2 DEF Auth, M!vars
<1>3. CASE phase # "none"
  BY <1>3, UnchangedCommitted DEF Approve, Becomes
<1>4. QED
  BY <1>2, <1>3

(* The transaction that commits appends exactly its batch to the log.      *)
LEMMA CommittedLog ==
  ASSUME IInv, Commit
  PROVE  /\ M!Appended = batch
         /\ saved'.log = saved.log \o batch
<1> DEFINE L == Len(saved.log)
           K == Len(batch)
<1>1. /\ saved.log \in Seq(Intents) /\ world.log \in Seq(Intents) /\ batch \in Seq(Intents)
      /\ L \in Nat /\ K \in Nat /\ Len(world.log) \in Nat
  BY WorldTyped, SeqElement DEF IInv, TypeOK
<1>2. Done = K /\ saved' = world
  BY <1>1 DEF Commit, Done
<1>3. /\ Len(world.log) = L + K
      /\ \A n \in 1 .. L : world.log[n] = saved.log[n]
      /\ \A n \in 1 .. K : world.log[L + n] = batch[n]
  BY <1>2 DEF IInv, BatchInProgress
<1>4. world.log = saved.log \o batch
  <2>1. /\ saved.log \o batch \in Seq(Intents)
        /\ Len(saved.log \o batch) = L + K
        /\ \A n \in 1 .. L + K : (saved.log \o batch)[n] =
              IF n <= L THEN saved.log[n] ELSE batch[n - L]
    BY <1>1, ConcatProperties
  <2>2. ASSUME NEW n \in 1 .. L + K PROVE world.log[n] = (saved.log \o batch)[n]
    <3>1. CASE n <= L
      BY <1>1, <1>3, <2>1, <3>1
    <3>2. CASE n > L
      <4>1. n - L \in 1 .. K /\ n = L + (n - L)
        BY <1>1, <3>2
      <4>2. world.log[n] = batch[n - L]
        BY <1>3, <4>1
      <4>3. QED
        BY <1>1, <2>1, <3>2, <4>2
    <3>3. QED
      BY <1>1, <3>1, <3>2
  <2>3. QED
    BY <1>1, <1>3, <2>1, <2>2, SeqEqual
<1>5. SubSeq(world.log, L + 1, L + K) = batch
  <2> DEFINE t == SubSeq(world.log, L + 1, L + K)
  <2>1. K > 0
    BY <1>1, EmptySeq DEF IInv, BatchInProgress, Commit
  <2>2. \A n \in L + 1 .. L + K : world.log[n] \in Intents
    BY <1>1, <1>3, SeqElement
  <2>3. t \in Seq(Intents) /\ Len(t) = K /\ \A n \in 1 .. K : t[n] = world.log[L + n]
    <3>1. /\ t \in Seq(Intents)
          /\ Len(t) = IF L + 1 <= L + K THEN (L + K) - (L + 1) + 1 ELSE 0
          /\ \A n \in 1 .. (L + K) - (L + 1) + 1 : t[n] = world.log[(L + 1) + n - 1]
      BY <1>1, <2>2, SubSeqProperties
    <3> HIDE DEF t
    <3>2. QED
      BY <1>1, <2>1, <3>1
  <2> HIDE DEF t
  <2>4. \A n \in 1 .. Len(t) : t[n] = batch[n]
    BY <1>3, <2>3
  <2>5. QED
    BY <1>1, <2>3, <2>4, SeqEqual DEF t
<1>6. QED
  BY <1>2, <1>3, <1>4, <1>5 DEF M!Appended

LEMMA CommitRefines ==
  ASSUME IInv, Commit
  PROVE  M!Execute(batch)
<1>1. saved' = world /\ world \in Worlds /\ saved \in Worlds
  BY DEF Commit, IInv, TypeOK
<1>2. batch # << >> /\ Charged = Len(batch) /\ DOMAIN batch = 1 .. Charged
  <2>1. batch \in Seq(Intents) /\ phase = "check" /\ at = Len(batch) + 1
    BY DEF Commit, IInv, TypeOK
  <2>2. QED
    BY <2>1, SeqElement DEF Charged, Done, IInv, BatchInProgress
<1>3. ASSUME NEW n \in DOMAIN batch
      PROVE  /\ batch[n] \in Signed
             /\ Auth[M!PairOf(batch[n])].active
             /\ Auth[M!PairOf(batch[n])].epoch = batch[n].epoch
             /\ \A m \in DOMAIN batch : m # n => M!NonceOf(batch[m]) # M!NonceOf(batch[n])
             /\ \A m \in DOMAIN saved.log : M!NonceOf(saved.log[m]) # M!NonceOf(batch[n])
  <2>1. /\ batch[n] \in Signed
        /\ saved.policies[<<batch[n].owner, batch[n].agent>>].active
        /\ saved.policies[<<batch[n].owner, batch[n].agent>>].epoch = batch[n].epoch
        /\ Key(batch[n]) \notin saved.consumed
        /\ \A m \in DOMAIN batch : m # n => Key(batch[m]) # Key(batch[n])
    BY <1>2 DEF IInv, ChargedWereAllowed
  <2>2. \A m \in DOMAIN saved.log : Key(saved.log[m]) \in saved.consumed
    BY DEF IInv, ChargedWereAllowed
  <2>3. <<batch[n].owner, batch[n].agent>> \in Pairs
    BY <2>1, IntentTyped, IntentsAssumption
  <2>4. QED
    BY <2>1, <2>2, <2>3, AuthFields DEF Key, M!NonceOf, M!PairOf
<1>4. saved'.log = saved.log \o batch
  BY CommittedLog
<1>5. ASSUME NEW p \in Pairs
      PROVE  /\ Auth'[p] = [Auth[p] EXCEPT !.spent = Auth'[p].spent]
             /\ Auth'[p].spent \in Auth[p].spent .. Auth[p].budget
  <2>1. /\ world.policies[p] = [saved.policies[p] EXCEPT !.spent = world.policies[p].spent]
        /\ world.policies[p] \in Authorizations /\ saved.policies[p] \in Authorizations
    BY <1>1, WorldTyped DEF IInv, OnlySpendingChanges
  <2>2. /\ world.policies[p].active = saved.policies[p].active
        /\ world.policies[p].epoch = saved.policies[p].epoch
        /\ world.policies[p].totalBudget = saved.policies[p].totalBudget
    BY <2>1 DEF Authorizations
  <2>3. Auth'[p] = [active |-> saved.policies[p].active, epoch |-> saved.policies[p].epoch,
                    spent |-> world.policies[p].spent, budget |-> saved.policies[p].totalBudget]
    BY <1>1, <2>2 DEF Auth
  <2>4. /\ world.policies[p].spent <= world.policies[p].totalBudget
        /\ saved.policies[p].spent <= world.policies[p].spent
    BY DEF IInv, SpentWithinBudget
  <2>5. world.policies[p].spent \in saved.policies[p].spent .. saved.policies[p].totalBudget
    BY <1>1, <2>2, <2>4, WorldTyped
  <2>6. QED
    BY <2>3, <2>5 DEF Auth
<1>6. Auth' = [p \in Pairs |-> [Auth[p] EXCEPT !.spent = Auth'[p].spent]]
  <2>1. Auth' = [p \in Pairs |-> Auth'[p]]
    BY DEF Auth
  <2>2. QED
    BY <1>5, <2>1
<1>7. QED
  BY <1>2, <1>3, <1>4, <1>5, <1>6 DEF M!Execute

LEMMA MandateStep == IInv /\ [Next]_vars => [M!Next]_M!vars
<1> SUFFICES ASSUME IInv, [Next]_vars PROVE M!Next \/ UNCHANGED M!vars
  OBVIOUS
<1>1. ASSUME NEW o \in Owners, Owner(o) PROVE M!Next \/ UNCHANGED M!vars
  <2>1. ASSUME NEW a \in Agents, (\E p \in Policies : ConfigureAgent(o, a, p)) \/ RevokeAgent(o, a)
        PROVE  M!Next
    <3>1. <<o, a>> \in Pairs
      BY DEF Pairs
    <3>2. M!Authorize(<<o, a>>) \/ M!Revoke(<<o, a>>)
      BY <2>1, ConfigureRefines, RevokeRefines
    <3>3. QED
      BY <3>1, <3>2 DEF M!Next
  <2>2. QED
    BY <1>1, <2>1, ApproveRefines DEF Owner
<1>2. CASE Commit
  BY <1>2, CommittedLog, CommitRefines DEF M!Next
<1>3. CASE \/ \E b \in Batches : BeginBatch(b)
           \/ Accept \/ Transfer \/ Revert \/ NextBlock \/ UNCHANGED vars
  <2>1. UNCHANGED saved
    BY <1>3 DEF BeginBatch, Accept, Transfer, Revert, Undone, NextBlock, vars
  <2>2. QED
    BY <2>1, UnchangedCommitted
<1>4. QED
  BY <1>1, <1>2, <1>3 DEF Next, ExecuteBatch

(* The contract keeps its mandate: what it commits is whole batches, under *)
(* the authorization in force when they began, within budget (D-002, D-005).*)
THEOREM Refinement == Spec => KeepsMandate
<1>1. Init => M!Init
  <2> SUFFICES ASSUME Init PROVE M!Init
    OBVIOUS
  <2>1. saved.log = << >> /\ \A p \in Pairs : saved.policies[p] = Unconfigured
    BY DEF Init, Genesis
  <2>2. Auth = [p \in Pairs |-> [active |-> FALSE, epoch |-> 0, spent |-> 0, budget |-> 0]]
    <3>1. /\ Unconfigured.active = FALSE /\ Unconfigured.epoch = 0
          /\ Unconfigured.spent = 0 /\ Unconfigured.totalBudget = 0
      BY DEF Unconfigured
    <3>2. QED
      BY <2>1, <3>1 DEF Auth
  <2>3. QED
    BY <2>1, <2>2 DEF M!Init
<1>2. QED
  BY <1>1, MandateStep, Invariance, PTL DEF Spec, KeepsMandate, M!Spec

-----------------------------------------------------------------------------
(***************************************************************************)
(* The contract's books balance, for all owners, agents, policies, intents *)
(* and sequences of transactions.                                          *)
(***************************************************************************)

(* Sums over the log.                                                      *)

LEMMA TotalTyped ==
  ASSUME NEW log \in Seq(Intents), NEW S
  PROVE  Total(log, S) \in Nat
<1> DEFINE f == [n \in DOMAIN log |-> log[n].amount]
           N == {n \in DOMAIN log : log[n] \in S}
<1>1. IsFiniteSet(N)
  <2>1. IsFiniteSet(1 .. Len(log)) /\ DOMAIN log = 1 .. Len(log)
    BY SeqElement, FS_Interval
  <2>2. QED
    BY <2>1, FS_Subset
<1>2. \A n \in N : f[n] \in Nat
  BY SeqElement, IntentTyped
<1> HIDE DEF f, N
<1>3. SumFunctionOnSet(f, N) \in Nat
  BY <1>1, <1>2, SumIsNatural
<1>4. QED
  BY <1>3 DEF Total, f, N

(* Nothing of S in the log: nothing to count.                              *)
LEMMA TotalOfNone ==
  ASSUME NEW log, NEW S, \A n \in DOMAIN log : log[n] \notin S
  PROVE  Total(log, S) = 0
<1>1. {n \in DOMAIN log : log[n] \in S} = {}
  OBVIOUS
<1>2. QED
  BY <1>1, SumOfNone DEF Total

(* One more entry of the log counts when it is in S.                       *)
LEMMA TotalAppended ==
  ASSUME NEW log \in Seq(Intents), NEW i \in Intents, NEW S
  PROVE  Total(Append(log, i), S) = Total(log, S) + (IF i \in S THEN i.amount ELSE 0)
<1> DEFINE L == Append(log, i)
           f == [n \in DOMAIN log |-> log[n].amount]
           g == [n \in DOMAIN L |-> L[n].amount]
           N == {n \in DOMAIN log : log[n] \in S}
           M2 == {n \in DOMAIN L : L[n] \in S}
           k == Len(log) + 1
<1>1. /\ Len(log) \in Nat /\ DOMAIN log = 1 .. Len(log) /\ DOMAIN L = 1 .. k
      /\ \A n \in DOMAIN log : L[n] = log[n]
      /\ L[k] = i
      /\ \A n \in DOMAIN log : log[n] \in Intents
  BY AppendProperties, SeqElement
<1> HIDE DEF L
<1>2. IsFiniteSet(N)
  <2>1. IsFiniteSet(1 .. Len(log)) /\ N \subseteq 1 .. Len(log)
    BY <1>1, FS_Interval
  <2>2. QED
    BY <2>1, FS_Subset
<1>3. N \subseteq DOMAIN L /\ k \notin N /\ M2 = IF i \in S THEN N \union {k} ELSE N
  BY <1>1
<1>4. (\A n \in N : g[n] = f[n] /\ g[n] \in Nat) /\ g[k] = i.amount /\ i.amount \in Nat
  <2>1. ASSUME NEW n \in N PROVE g[n] = f[n] /\ g[n] \in Nat
    <3>1. n \in DOMAIN log /\ n \in DOMAIN L /\ L[n] = log[n] /\ log[n] \in Intents
      BY <1>1, <1>3
    <3>2. QED
      BY <3>1, IntentTyped
  <2>2. g[k] = i.amount /\ i.amount \in Nat
    <3>1. k \in DOMAIN L
      BY <1>1
    <3> HIDE DEF k
    <3>2. QED
      BY <1>1, <3>1, IntentTyped
  <2>3. QED
    BY <2>1, <2>2
<1>5. Total(log, S) = SumFunctionOnSet(f, N) /\ Total(L, S) = SumFunctionOnSet(g, M2)
  BY DEF Total
<1> HIDE DEF f, g, N, M2, k
<1>6. SumFunctionOnSet(g, N) = SumFunctionOnSet(f, N) /\ SumFunctionOnSet(g, N) \in Nat
  BY <1>2, <1>4, SumOfEqual, SumIsNatural
<1>7. SumFunctionOnSet(g, N \union {k}) = SumFunctionOnSet(g, N) + g[k]
  BY <1>2, <1>3, <1>4, SumWithOneMore
<1>8. QED
  BY <1>3, <1>4, <1>5, <1>6, <1>7 DEF L

-----------------------------------------------------------------------------
(* What holds of the contracts' state between any two steps.               *)
Lawful(w) == PaymentsWithinGrants(w) /\ TokensFollowEvents(w) /\ NewestGrantInForce(w)

LEMMA BooksParts ==
  BooksInv <=> /\ IInv /\ ChargedConforms
               /\ Lawful(saved) /\ SpentIsPaid(saved, NothingDue)
               /\ Lawful(world) /\ SpentIsPaid(world, Due)
BY DEF BooksInv, BooksBalance, BooksInProgress, Lawful

(* At rest the two states are one, and nothing is due.                     *)
LEMMA RestingBooks ==
  ASSUME IInv', phase' = "none", Lawful(world'), SpentIsPaid(world', NothingDue)
  PROVE  BooksInv'
<1>1. world' = saved' /\ Due' = NothingDue /\ ChargedConforms'
  BY DEF IInv, BatchInProgress, Due, NothingDue, ChargedConforms
<1>2. QED
  BY <1>1 DEF BooksInv, BooksBalance, BooksInProgress, Lawful

(* The parts of the state that the books read.                             *)
LEMMA BooksFrame ==
  ASSUME NEW w, NEW v, NEW due,
         v.policies = w.policies, v.granted = w.granted, v.log = w.log, v.balance = w.balance
  PROVE  /\ Lawful(w) => Lawful(v)
         /\ SpentIsPaid(w, due) => SpentIsPaid(v, due)
BY DEF Lawful, PaymentsWithinGrants, TokensFollowEvents, NewestGrantInForce, SpentIsPaid

-----------------------------------------------------------------------------
(* Steps between transactions.                                             *)

(* A grant is typed, and so is what it says.                               *)
LEMMA GrantTyped ==
  ASSUME NEW w \in Worlds, NEW g \in w.granted
  PROVE  /\ <<g.owner, g.agent>> \in Pairs /\ g.epoch \in Nat
         /\ g.policy.totalBudget \in Nat /\ g.policy.maxAmountPerIntent \in Nat
<1>1. g \in [owner : Owners, agent : Agents, epoch : Nat, policy : Policies]
  BY DEF Worlds
<1>2. QED
  BY <1>1, PoliciesAssumption DEF Pairs

(* Nothing has been paid under an epoch later than the one in force.       *)
LEMMA NothingPaidLater ==
  ASSUME NEW w \in Worlds, NewestGrantInForce(w), NEW k \in Pairs, NEW e \in Nat,
         e > w.policies[k].epoch
  PROVE  Total(w.log, UnderEpoch(k, e)) = 0
<1>1. ASSUME NEW n \in DOMAIN w.log PROVE w.log[n] \notin UnderEpoch(k, e)
  <2>1. w.log[n].epoch <= w.policies[<<w.log[n].owner, w.log[n].agent>>].epoch
    BY DEF NewestGrantInForce
  <2>2. w.policies[k].epoch \in Nat
    BY WorldTyped
  <2>3. QED
    BY <2>1, <2>2 DEF UnderEpoch
<1>2. QED
  BY <1>1, TotalOfNone

LEMMA ConfigureBooks ==
  ASSUME BooksInv, NEW o \in Owners, NEW a \in Agents, NEW p \in Policies, ConfigureAgent(o, a, p)
  PROVE  BooksInv'
<1> DEFINE k == <<o, a>>
           e == world.policies[k].epoch + 1
           q == [token |-> p.token, recipient |-> p.recipient,
                 maxAmountPerIntent |-> p.maxAmountPerIntent, totalBudget |-> p.totalBudget,
                 spent |-> 0, validUntil |-> p.validUntil, active |-> TRUE, epoch |-> e]
           g == [owner |-> o, agent |-> a, epoch |-> e, policy |-> p]
<1>1. IInv /\ IInv' /\ phase = "none" /\ phase' = "none" /\ world = saved
  BY ConfigureStep DEF BooksInv, IInv, GuardHeld, BatchInProgress, ConfigureAgent, NonReentrant
<1>2. world \in Worlds /\ k \in Pairs
  BY <1>1 DEF IInv, TypeOK, Pairs
<1>3. Lawful(world) /\ SpentIsPaid(world, NothingDue)
  BY <1>1, BooksParts
<1>4. world.policies[k].epoch \in Nat /\ e \in Nat /\ e > world.policies[k].epoch
  BY <1>2, WorldTyped
<1>5. world' = [world EXCEPT !.policies[k] = q, !.granted = @ \union {g}]
  BY DEF ConfigureAgent, Becomes
<1>6. /\ q.spent = 0 /\ q.active = TRUE /\ q.epoch = e /\ IsPolicyOf(q, g)
      /\ <<g.owner, g.agent>> = k /\ g.epoch = e /\ g.policy.totalBudget \in Nat
  BY PoliciesAssumption DEF IsPolicyOf
<1> HIDE DEF q, g, e
<1>7. /\ world'.policies = [world.policies EXCEPT ![k] = q]
      /\ world'.granted = world.granted \union {g}
      /\ world'.log = world.log /\ world'.balance = world.balance
  BY <1>2, <1>5 DEF Worlds
<1>8. \A r \in Pairs : world'.policies[r] = IF r = k THEN q ELSE world.policies[r]
  BY <1>2, <1>7, WorldTyped
<1>9. Total(world.log, UnderEpoch(k, e)) = 0
  BY <1>2, <1>3, <1>4, NothingPaidLater DEF Lawful
<1>10. PaymentsWithinGrants(world')
  <2>1. PaymentsWithinGrants(world)
    BY <1>3 DEF Lawful
  <2>2. QED
    BY <1>6, <1>7, <1>9, <2>1 DEF PaymentsWithinGrants
<1>11. TokensFollowEvents(world')
  BY <1>3, <1>7 DEF Lawful, TokensFollowEvents
<1>12. SpentIsPaid(world', NothingDue)
  BY <1>3, <1>6, <1>7, <1>8, <1>9 DEF SpentIsPaid, NothingDue
<1>13. NewestGrantInForce(world')
  <2>1. NewestGrantInForce(world)
    BY <1>3 DEF Lawful
  <2>2. ASSUME NEW r \in Pairs, world'.policies[r].active
        PROVE  \E h \in world'.granted :
                  <<h.owner, h.agent>> = r /\ h.epoch = world'.policies[r].epoch
    BY <1>6, <1>7, <1>8, <2>1, <2>2 DEF NewestGrantInForce
  <2>3. ASSUME NEW h \in world'.granted
        PROVE  LET policy == world'.policies[<<h.owner, h.agent>>] IN
               h.epoch <= policy.epoch /\ (h.epoch = policy.epoch => IsPolicyOf(policy, h))
    <3>1. CASE h = g
      BY <1>2, <1>4, <1>6, <1>8, <3>1
    <3>2. CASE h # g
      <4>1. h \in world.granted /\ <<h.owner, h.agent>> \in Pairs /\ h.epoch \in Nat
        BY <1>2, <1>7, <3>2, GrantTyped
      <4>2. LET policy == world.policies[<<h.owner, h.agent>>] IN
            h.epoch <= policy.epoch /\ (h.epoch = policy.epoch => IsPolicyOf(policy, h))
        BY <2>1, <4>1 DEF NewestGrantInForce
      <4>3. CASE <<h.owner, h.agent>> = k
        BY <1>4, <1>6, <1>8, <4>1, <4>2, <4>3
      <4>4. CASE <<h.owner, h.agent>> # k
        BY <1>8, <4>1, <4>2, <4>4
      <4>5. QED
        BY <4>3, <4>4
    <3>3. QED
      BY <3>1, <3>2
  <2>4. ASSUME NEW n \in DOMAIN world'.log
        PROVE  world'.log[n].epoch
                 <= world'.policies[<<world'.log[n].owner, world'.log[n].agent>>].epoch
    <3> DEFINE i == world.log[n]
    <3>1. i \in Intents /\ <<i.owner, i.agent>> \in Pairs /\ i.epoch \in Nat
      BY <1>2, <1>7, WorldTyped, SeqElement, IntentTyped
    <3>2. i.epoch <= world.policies[<<i.owner, i.agent>>].epoch
      BY <1>7, <2>1 DEF NewestGrantInForce
    <3> HIDE DEF i
    <3>3. i.epoch <= world'.policies[<<i.owner, i.agent>>].epoch
      BY <1>4, <1>6, <1>8, <3>1, <3>2
    <3>4. QED
      BY <1>7, <3>3 DEF i
  <2>5. QED
    BY <2>2, <2>3, <2>4 DEF NewestGrantInForce
<1>14. QED
  BY <1>1, <1>10, <1>11, <1>12, <1>13, RestingBooks DEF Lawful

LEMMA RevokeBooks ==
  ASSUME BooksInv, NEW o \in Owners, NEW a \in Agents, RevokeAgent(o, a)
  PROVE  BooksInv'
<1> DEFINE k == <<o, a>>
           q == Revoked(world.policies[k])
<1>1. IInv /\ IInv' /\ phase = "none" /\ phase' = "none" /\ world = saved
  BY RevokeStep DEF BooksInv, IInv, GuardHeld, BatchInProgress, RevokeAgent, NonReentrant
<1>2. world \in Worlds /\ k \in Pairs
  BY <1>1 DEF IInv, TypeOK, Pairs
<1>3. Lawful(world) /\ SpentIsPaid(world, NothingDue)
  BY <1>1, BooksParts
<1>4. world.policies[k].epoch \in Nat /\ q.active = FALSE /\ q.epoch = world.policies[k].epoch + 1
  <2>1. world.policies[k] \in Authorizations
    BY <1>2, WorldTyped
  <2>2. QED
    BY <2>1 DEF Revoked, Authorizations
<1>5. world' = [world EXCEPT !.policies[k] = q]
  BY DEF RevokeAgent, Becomes
<1> HIDE DEF q
<1>6. /\ world'.policies = [world.policies EXCEPT ![k] = q]
      /\ world'.granted = world.granted
      /\ world'.log = world.log /\ world'.balance = world.balance
  BY <1>2, <1>5 DEF Worlds
<1>7. \A r \in Pairs : world'.policies[r] = IF r = k THEN q ELSE world.policies[r]
  BY <1>2, <1>6, WorldTyped
<1>8. PaymentsWithinGrants(world') /\ TokensFollowEvents(world')
  BY <1>3, <1>6 DEF Lawful, PaymentsWithinGrants, TokensFollowEvents
<1>9. SpentIsPaid(world', NothingDue)
  BY <1>3, <1>4, <1>6, <1>7 DEF SpentIsPaid, NothingDue
<1>10. NewestGrantInForce(world')
  <2>1. NewestGrantInForce(world)
    BY <1>3 DEF Lawful
  <2>2. ASSUME NEW r \in Pairs, world'.policies[r].active
        PROVE  \E h \in world'.granted :
                  <<h.owner, h.agent>> = r /\ h.epoch = world'.policies[r].epoch
    BY <1>4, <1>6, <1>7, <2>1, <2>2 DEF NewestGrantInForce
  <2>3. ASSUME NEW h \in world'.granted
        PROVE  LET policy == world'.policies[<<h.owner, h.agent>>] IN
               h.epoch <= policy.epoch /\ (h.epoch = policy.epoch => IsPolicyOf(policy, h))
    <3>1. h \in world.granted /\ <<h.owner, h.agent>> \in Pairs /\ h.epoch \in Nat
      BY <1>2, <1>6, GrantTyped
    <3>2. LET policy == world.policies[<<h.owner, h.agent>>] IN
          h.epoch <= policy.epoch /\ (h.epoch = policy.epoch => IsPolicyOf(policy, h))
      BY <2>1, <3>1 DEF NewestGrantInForce
    <3>3. CASE <<h.owner, h.agent>> = k
      BY <1>4, <1>7, <3>1, <3>2, <3>3
    <3>4. CASE <<h.owner, h.agent>> # k
      BY <1>7, <3>1, <3>2, <3>4
    <3>5. QED
      BY <3>3, <3>4
  <2>4. ASSUME NEW n \in DOMAIN world'.log
        PROVE  world'.log[n].epoch
                 <= world'.policies[<<world'.log[n].owner, world'.log[n].agent>>].epoch
    <3> DEFINE i == world.log[n]
    <3>1. i \in Intents /\ <<i.owner, i.agent>> \in Pairs /\ i.epoch \in Nat
      BY <1>2, <1>6, WorldTyped, SeqElement, IntentTyped
    <3>2. i.epoch <= world.policies[<<i.owner, i.agent>>].epoch
      BY <1>6, <2>1 DEF NewestGrantInForce
    <3> HIDE DEF i
    <3>3. i.epoch <= world'.policies[<<i.owner, i.agent>>].epoch
      BY <1>4, <1>7, <3>1, <3>2
    <3>4. QED
      BY <1>6, <3>3 DEF i
  <2>5. QED
    BY <2>2, <2>3, <2>4 DEF NewestGrantInForce
<1>11. QED
  BY <1>1, <1>8, <1>9, <1>10, RestingBooks DEF Lawful

(* A step that changes nothing the books read.                             *)
LEMMA BooksUnread ==
  ASSUME BooksInv, IInv', Due' = Due, ChargedConforms',
         world'.policies = world.policies, world'.granted = world.granted,
         world'.log = world.log, world'.balance = world.balance,
         saved'.policies = saved.policies, saved'.granted = saved.granted,
         saved'.log = saved.log, saved'.balance = saved.balance
  PROVE  BooksInv'
<1>1. /\ Lawful(world) /\ SpentIsPaid(world, Due)
      /\ Lawful(saved) /\ SpentIsPaid(saved, NothingDue)
  BY BooksParts
<1>2. Lawful(world') /\ SpentIsPaid(world', Due)
  BY <1>1, BooksFrame
<1>3. Lawful(saved') /\ SpentIsPaid(saved', NothingDue)
  BY <1>1, BooksFrame
<1>4. QED
  BY <1>2, <1>3 DEF BooksInv, BooksBalance, BooksInProgress, Lawful

LEMMA ApproveBooks ==
  ASSUME BooksInv, NEW o \in Owners, NEW t \in Tokens, NEW n \in Allowances, Approve(o, t, n)
  PROVE  BooksInv'
<1>1. IInv /\ IInv'
  BY ApproveStep DEF BooksInv
<1>2. world \in Worlds /\ (phase = "none" => world = saved)
  BY <1>1 DEF IInv, TypeOK, BatchInProgress
<1> DEFINE w == [world EXCEPT !.allowance[t][o] = n]
<1>3. world' = w /\ saved' = (IF phase = "none" THEN w ELSE saved) /\ UNCHANGED <<phase, batch, at>>
  BY DEF Approve, Becomes
<1>4. /\ w.policies = world.policies /\ w.granted = world.granted
      /\ w.log = world.log /\ w.balance = world.balance
  BY <1>2 DEF Worlds
<1> HIDE DEF w
<1>5. Due' = Due
  BY <1>3 DEF Due
<1>6. ChargedConforms'
  BY <1>3, <1>4 DEF BooksInv, ChargedConforms, PolicyOf, CurrentEpoch, WithinPolicy
<1>7. QED
  BY <1>1, <1>2, <1>3, <1>4, <1>5, <1>6, BooksUnread

LEMMA BeginBooks ==
  ASSUME BooksInv, NEW b \in Batches, BeginBatch(b)
  PROVE  BooksInv'
<1>1. IInv' /\ UNCHANGED <<world, saved>>
  BY BeginStep DEF BooksInv, BeginBatch
<1>2. Due' = Due /\ ChargedConforms'
  BY DEF BeginBatch, Due, ChargedConforms
<1>3. QED
  BY <1>1, <1>2, BooksUnread

(* Only `spent` of a policy changes while a batch executes.                *)
LEMMA ChargedPolicy ==
  ASSUME NEW r \in Authorizations, NEW n,  NEW u, u = [r EXCEPT !.spent = n]
  PROVE  /\ u.active = r.active /\ u.epoch = r.epoch /\ u.token = r.token
         /\ u.recipient = r.recipient /\ u.maxAmountPerIntent = r.maxAmountPerIntent
         /\ u.totalBudget = r.totalBudget /\ u.spent = n
BY DEF Authorizations

LEMMA SamePolicies ==
  ASSUME NEW w \in Worlds, NEW v, v.granted = w.granted, v.log = w.log,
         \A r \in Pairs : /\ v.policies[r].active = w.policies[r].active
                          /\ v.policies[r].epoch = w.policies[r].epoch
                          /\ v.policies[r].token = w.policies[r].token
                          /\ v.policies[r].recipient = w.policies[r].recipient
                          /\ v.policies[r].maxAmountPerIntent = w.policies[r].maxAmountPerIntent
                          /\ v.policies[r].totalBudget = w.policies[r].totalBudget,
         NewestGrantInForce(w)
  PROVE  NewestGrantInForce(v)
<1>1. \A r \in Pairs : v.policies[r].active =>
        \E g \in v.granted : <<g.owner, g.agent>> = r /\ g.epoch = v.policies[r].epoch
  BY DEF NewestGrantInForce
<1>2. ASSUME NEW g \in v.granted
      PROVE  LET policy == v.policies[<<g.owner, g.agent>>] IN
             g.epoch <= policy.epoch /\ (g.epoch = policy.epoch => IsPolicyOf(policy, g))
  <2>1. <<g.owner, g.agent>> \in Pairs
    BY GrantTyped
  <2>2. LET policy == w.policies[<<g.owner, g.agent>>] IN
        g.epoch <= policy.epoch /\ (g.epoch = policy.epoch => IsPolicyOf(policy, g))
    BY DEF NewestGrantInForce
  <2>3. QED
    BY <2>1, <2>2 DEF IsPolicyOf
<1>3. ASSUME NEW n \in DOMAIN v.log
      PROVE  v.log[n].epoch <= v.policies[<<v.log[n].owner, v.log[n].agent>>].epoch
  <2>1. w.log[n] \in Intents
    BY WorldTyped, SeqElement
  <2>2. <<w.log[n].owner, w.log[n].agent>> \in Pairs
    BY <2>1, IntentTyped
  <2>3. QED
    BY <2>2 DEF NewestGrantInForce
<1>4. QED
  BY <1>1, <1>2, <1>3 DEF NewestGrantInForce

(* Charging an intent: `spent` is ahead of the log by what is due.         *)
LEMMA AcceptBooks == BooksInv /\ Accept => BooksInv'
<1> SUFFICES ASSUME BooksInv, Accept PROVE BooksInv'
  OBVIOUS
<1> DEFINE i == batch[at]
           p == <<i.owner, i.agent>>
           q == [world.policies[p] EXCEPT !.spent = world.policies[p].spent + i.amount]
<1>1. IInv /\ IInv'
  BY AcceptStep DEF BooksInv
<1>2. /\ phase = "check" /\ phase' = "transfer" /\ UNCHANGED <<saved, batch, at>>
      /\ i \in Intents /\ p \in Pairs /\ world \in Worlds
      /\ world'.policies = [world.policies EXCEPT ![p] = q]
      /\ world'.granted = world.granted /\ world'.log = world.log
      /\ world'.balance = world.balance
  BY <1>1, AcceptEffect
<1>3. InForce(i) /\ CurrentEpoch(i) /\ WithinPolicy(i)
  BY DEF Accept
<1>4. /\ Lawful(world) /\ SpentIsPaid(world, NothingDue)
      /\ Lawful(saved) /\ SpentIsPaid(saved, NothingDue)
  <2>1. Due = NothingDue
    BY <1>2 DEF Due, NothingDue
  <2>2. QED
    BY <2>1, BooksParts
<1>5. world.policies[p] \in Authorizations /\ world.policies[p].spent \in Nat
  BY <1>2, WorldTyped
<1>6. /\ q.active = world.policies[p].active /\ q.epoch = world.policies[p].epoch
      /\ q.token = world.policies[p].token /\ q.recipient = world.policies[p].recipient
      /\ q.maxAmountPerIntent = world.policies[p].maxAmountPerIntent
      /\ q.totalBudget = world.policies[p].totalBudget
      /\ q.spent = world.policies[p].spent + i.amount
  BY <1>5, ChargedPolicy
<1> HIDE DEF q
<1>7. \A r \in Pairs : world'.policies[r] = IF r = p THEN q ELSE world.policies[r]
  BY <1>2, WorldTyped
<1>8. \A r \in Pairs :
        /\ world'.policies[r].active = world.policies[r].active
        /\ world'.policies[r].epoch = world.policies[r].epoch
        /\ world'.policies[r].token = world.policies[r].token
        /\ world'.policies[r].recipient = world.policies[r].recipient
        /\ world'.policies[r].maxAmountPerIntent = world.policies[r].maxAmountPerIntent
        /\ world'.policies[r].totalBudget = world.policies[r].totalBudget
  BY <1>6, <1>7
<1>9. Lawful(world')
  <2>1. PaymentsWithinGrants(world') /\ TokensFollowEvents(world')
    BY <1>2, <1>4 DEF Lawful, PaymentsWithinGrants, TokensFollowEvents
  <2>2. NewestGrantInForce(world')
    BY <1>2, <1>4, <1>8, SamePolicies DEF Lawful
  <2>3. QED
    BY <2>1, <2>2 DEF Lawful
<1>10. SpentIsPaid(world', Due')
  <2> SUFFICES ASSUME NEW r \in Pairs, world'.policies[r].active
               PROVE  world'.policies[r].spent =
                        Total(world.log, UnderEpoch(r, world.policies[r].epoch)) + Due'[r]
    BY <1>2, <1>8 DEF SpentIsPaid
  <2>1. world.policies[r].spent = Total(world.log, UnderEpoch(r, world.policies[r].epoch)) + 0
    BY <1>4, <1>8 DEF SpentIsPaid, NothingDue
  <2>2. Due'[r] = IF p = r THEN i.amount ELSE 0
    BY <1>2 DEF Due
  <2>3. Total(world.log, UnderEpoch(r, world.policies[r].epoch)) \in Nat /\ i.amount \in Nat
    BY <1>2, WorldTyped, TotalTyped, IntentTyped
  <2> HIDE DEF i
  <2>4. QED
    BY <1>6, <1>7, <2>1, <2>2, <2>3
<1>11. ChargedConforms'
  <2>1. /\ PolicyOf(i)'.active = PolicyOf(i).active /\ PolicyOf(i)'.epoch = PolicyOf(i).epoch
        /\ PolicyOf(i)'.token = PolicyOf(i).token
        /\ PolicyOf(i)'.recipient = PolicyOf(i).recipient
        /\ PolicyOf(i)'.maxAmountPerIntent = PolicyOf(i).maxAmountPerIntent
        /\ i' = i
    BY <1>2, <1>8 DEF PolicyOf
  <2>2. QED
    BY <1>3, <2>1 DEF ChargedConforms, InForce, CurrentEpoch, WithinPolicy
<1>12. QED
  BY <1>1, <1>2, <1>4, <1>9, <1>10, <1>11 DEF BooksInv, BooksBalance, BooksInProgress, Lawful

LEMMA CommitBooks == BooksInv /\ Commit => BooksInv'
<1> SUFFICES ASSUME BooksInv, Commit PROVE BooksInv'
  OBVIOUS
<1>1. IInv' /\ phase = "check" /\ phase' = "none" /\ world' = world
  BY CommitStep DEF BooksInv, Commit, EndTransaction
<1>2. Due = NothingDue
  BY <1>1 DEF Due, NothingDue
<1>3. QED
  BY <1>1, <1>2, BooksParts, RestingBooks

(* A reverted transaction takes the books back to where they balanced.     *)
LEMMA RevertBooks == BooksInv /\ Revert => BooksInv'
<1> SUFFICES ASSUME BooksInv, Revert PROVE BooksInv'
  OBVIOUS
<1>1. IInv' /\ phase' = "none" /\ world' = saved
  BY RevertStep DEF BooksInv, Revert, EndTransaction, Undone
<1>2. QED
  BY <1>1, BooksParts, RestingBooks

-----------------------------------------------------------------------------
(* A payment.                                                              *)

(* A transfer takes from one account what it gives to the other.           *)
LEMMA MovedBalance ==
  ASSUME NEW b \in [Accounts -> Nat], NEW from \in Accounts, NEW to \in Accounts,
         NEW n \in Nat, n <= b[from], NEW a \in Accounts
  PROVE  Moved(b, from, to, n)[a] + (IF a = from THEN n ELSE 0)
           = b[a] + (IF a = to THEN n ELSE 0)
<1>1. CASE from = to
  BY <1>1 DEF Moved
<1>2. CASE from # to
  <2> DEFINE c == [b EXCEPT ![from] = b[from] - n]
  <2>1. c \in [Accounts -> Int] /\ \A x \in Accounts : c[x] = IF x = from THEN b[from] - n ELSE b[x]
    OBVIOUS
  <2>2. Moved(b, from, to, n) = [c EXCEPT ![to] = c[to] + n]
    BY <1>2 DEF Moved
  <2> HIDE DEF c
  <2>3. Moved(b, from, to, n)[a] = IF a = to THEN c[to] + n ELSE c[a]
    BY <2>1, <2>2
  <2>4. b[a] \in Nat /\ b[to] \in Nat /\ b[from] \in Nat
    OBVIOUS
  <2>5. QED
    BY <1>2, <2>1, <2>3, <2>4
<1>3. QED
  BY <1>1, <1>2

LEMMA TransferBooks == BooksInv /\ Transfer => BooksInv'
<1> SUFFICES ASSUME BooksInv, Transfer PROVE BooksInv'
  OBVIOUS
<1> DEFINE i == batch[at]
           p == <<i.owner, i.agent>>
           policy == world.policies[p]
           L == world.log
<1>1. IInv /\ IInv'
  BY TransferStep DEF BooksInv
<1>2. /\ phase = "transfer" /\ phase' = "check" /\ UNCHANGED <<saved, batch>>
      /\ i \in Intents /\ world \in Worlds
      /\ world'.log = Append(L, i)
      /\ world'.policies = world.policies /\ world'.granted = world.granted
      /\ world.balance[i.token][i.owner] >= i.amount
      /\ world'.balance = [world.balance EXCEPT ![i.token] =
                             Moved(world.balance[i.token], i.owner, i.recipient, i.amount)]
  BY <1>1, TransferEffect
<1>3. /\ Lawful(world) /\ SpentIsPaid(world, Due)
      /\ Lawful(saved) /\ SpentIsPaid(saved, NothingDue)
  BY BooksParts
<1>4. Due' = NothingDue /\ ChargedConforms'
  BY <1>2 DEF Due, NothingDue, ChargedConforms
<1>5. \A r \in Pairs : Due[r] = IF r = p THEN i.amount ELSE 0
  BY <1>2 DEF Due
<1>6. /\ policy.active /\ i.epoch = policy.epoch
      /\ i.token = policy.token /\ i.recipient = policy.recipient
      /\ i.amount <= policy.maxAmountPerIntent
  BY <1>2 DEF BooksInv, ChargedConforms, PolicyOf, CurrentEpoch, WithinPolicy
<1>7. /\ p \in Pairs /\ i.amount \in Nat /\ i.epoch \in Nat
      /\ i.token \in Tokens /\ i.owner \in Accounts /\ i.recipient \in Accounts
  BY <1>2, IntentTyped, IntentsAssumption, AccountsAssumption
<1>8. L \in Seq(Intents) /\ Len(L) \in Nat /\ DOMAIN L = 1 .. Len(L)
  BY <1>2, WorldTyped, SeqElement
<1>9. /\ DOMAIN world'.log = 1 .. Len(L) + 1
      /\ world'.log[Len(L) + 1] = i
      /\ \A n \in 1 .. Len(L) : world'.log[n] = L[n]
  BY <1>2, <1>8
<1>10. \A S : /\ Total(world'.log, S) = Total(L, S) + (IF i \in S THEN i.amount ELSE 0)
              /\ Total(L, S) \in Nat
  BY <1>2, <1>8, TotalAppended, TotalTyped
<1> HIDE DEF i, policy, L
<1>11. PaymentsWithinGrants(world')
  <2>1. PaymentsWithinGrants(world) /\ NewestGrantInForce(world)
    BY <1>3 DEF Lawful
  <2>2. ASSUME NEW n \in DOMAIN world'.log
        PROVE  \E g \in world'.granted : Covers(g, world'.log[n])
    <3>1. CASE n = Len(L) + 1
      <4>1. PICK g \in world.granted : <<g.owner, g.agent>> = p /\ g.epoch = policy.epoch
        BY <1>6, <1>7, <2>1 DEF NewestGrantInForce, policy
      <4>2. IsPolicyOf(policy, g)
        BY <2>1, <4>1 DEF NewestGrantInForce, policy
      <4>3. Covers(g, i)
        BY <1>6, <4>1, <4>2 DEF Covers, IsPolicyOf
      <4>4. QED
        BY <1>2, <1>9, <3>1, <4>3
    <3>2. CASE n # Len(L) + 1
      <4>1. n \in DOMAIN L /\ world'.log[n] = L[n]
        BY <1>8, <1>9, <3>2
      <4>2. QED
        BY <1>2, <2>1, <4>1 DEF PaymentsWithinGrants, L
    <3>3. QED
      BY <3>1, <3>2
  <2>3. ASSUME NEW g \in world'.granted
        PROVE  Total(world'.log, UnderEpoch(<<g.owner, g.agent>>, g.epoch)) <= g.policy.totalBudget
    <3> DEFINE S == UnderEpoch(<<g.owner, g.agent>>, g.epoch)
    <3>1. g \in world.granted /\ g.policy.totalBudget \in Nat
      BY <1>2, GrantTyped
    <3>2. Total(L, S) <= g.policy.totalBudget
      BY <2>1, <3>1 DEF PaymentsWithinGrants, L
    <3>3. CASE i \in S
      <4>1. <<g.owner, g.agent>> = p /\ g.epoch = policy.epoch
        BY <1>6, <3>3 DEF UnderEpoch
      <4>2. g.policy.totalBudget = policy.totalBudget
        BY <2>1, <3>1, <4>1 DEF NewestGrantInForce, IsPolicyOf, policy
      <4>3. policy.spent = Total(L, S) + i.amount
        BY <1>3, <1>5, <1>6, <1>7, <4>1 DEF SpentIsPaid, policy, L
      <4>4. policy.spent <= policy.totalBudget
        BY <1>1, <1>7 DEF IInv, SpentWithinBudget, policy
      <4> HIDE DEF S
      <4>5. QED
        BY <1>10, <3>3, <4>2, <4>3, <4>4 DEF S
    <3>4. CASE i \notin S
      <4> HIDE DEF S
      <4>1. Total(world'.log, S) = Total(L, S)
        BY <1>10, <3>4
      <4>2. QED
        BY <3>2, <4>1 DEF S
    <3>5. QED
      BY <3>3, <3>4
  <2>4. QED
    BY <2>2, <2>3 DEF PaymentsWithinGrants
<1>12. SpentIsPaid(world', NothingDue)
  <2> SUFFICES ASSUME NEW r \in Pairs, world.policies[r].active
               PROVE  world.policies[r].spent =
                        Total(world'.log, UnderEpoch(r, world.policies[r].epoch)) + 0
    BY <1>2 DEF SpentIsPaid, NothingDue
  <2> DEFINE S == UnderEpoch(r, world.policies[r].epoch)
  <2>1. world.policies[r].spent = Total(L, S) + Due[r]
    BY <1>3 DEF SpentIsPaid, L
  <2>2. i \in S <=> r = p
    BY <1>2, <1>6 DEF UnderEpoch, policy
  <2> HIDE DEF S
  <2>3. Total(world'.log, S) = Total(L, S) + Due[r] /\ Total(L, S) \in Nat
    BY <1>5, <1>10, <2>2
  <2>4. Due[r] \in Nat
    BY <1>5, <1>7
  <2>5. QED
    BY <2>1, <2>3, <2>4 DEF S
<1>13. TokensFollowEvents(world')
  <2> SUFFICES ASSUME NEW t \in Tokens, NEW a \in Accounts
               PROVE  world'.balance[t][a] + Total(world'.log, PaidBy(t, a))
                        = Genesis.balance[t][a] + Total(world'.log, PaidTo(t, a))
    BY DEF TokensFollowEvents
  <2> DEFINE out == IF i \in PaidBy(t, a) THEN i.amount ELSE 0
             in == IF i \in PaidTo(t, a) THEN i.amount ELSE 0
  <2>1. /\ world.balance[t] \in [Accounts -> Nat] /\ world.balance[i.token] \in [Accounts -> Nat]
        /\ world.balance \in [Tokens -> [Accounts -> Nat]]
    BY <1>2, <1>7 DEF Worlds
  <2>2. world'.balance[t][a] + out = world.balance[t][a] + in
    <3>1. CASE t = i.token
      <4>1. world'.balance[t] = Moved(world.balance[t], i.owner, i.recipient, i.amount)
        BY <1>2, <1>7, <2>1, <3>1
      <4>2. i.amount <= world.balance[t][i.owner]
        BY <1>2, <1>7, <2>1, <3>1
      <4>3. world'.balance[t][a] + (IF a = i.owner THEN i.amount ELSE 0)
              = world.balance[t][a] + (IF a = i.recipient THEN i.amount ELSE 0)
        BY <1>7, <2>1, <4>1, <4>2, MovedBalance
      <4>4. (i \in PaidBy(t, a) <=> a = i.owner) /\ (i \in PaidTo(t, a) <=> a = i.recipient)
        BY <1>2, <3>1 DEF PaidBy, PaidTo
      <4>5. QED
        BY <4>3, <4>4
    <3>2. CASE t # i.token
      <4>1. world'.balance[t] = world.balance[t]
        BY <1>2, <2>1, <3>2
      <4>2. i \notin PaidBy(t, a) /\ i \notin PaidTo(t, a)
        BY <3>2 DEF PaidBy, PaidTo
      <4>3. QED
        BY <4>1, <4>2
    <3>3. QED
      BY <3>1, <3>2
  <2>3. world.balance[t][a] + Total(L, PaidBy(t, a)) = Genesis.balance[t][a] + Total(L, PaidTo(t, a))
    BY <1>3 DEF Lawful, TokensFollowEvents, L
  <2>4. /\ Total(world'.log, PaidBy(t, a)) = Total(L, PaidBy(t, a)) + out
        /\ Total(world'.log, PaidTo(t, a)) = Total(L, PaidTo(t, a)) + in
        /\ Total(L, PaidBy(t, a)) \in Nat /\ Total(L, PaidTo(t, a)) \in Nat
    BY <1>10
  <2>5. /\ out \in Nat /\ in \in Nat
        /\ world.balance[t][a] \in Nat /\ world'.balance[t][a] \in Nat
        /\ Genesis.balance[t][a] \in Nat
    <3>1. world'.balance \in [Tokens -> [Accounts -> Nat]]
      BY <1>1 DEF IInv, TypeOK, Worlds
    <3>2. Genesis.balance[t][a] \in Nat
      BY BoundsAssumption DEF Genesis
    <3>3. QED
      BY <1>7, <2>1, <3>1, <3>2
  <2> HIDE DEF out, in
  <2>6. QED
    BY <2>2, <2>3, <2>4, <2>5
<1>14. NewestGrantInForce(world')
  <2>1. NewestGrantInForce(world)
    BY <1>3 DEF Lawful
  <2>2. ASSUME NEW n \in DOMAIN world'.log
        PROVE  world'.log[n].epoch
                 <= world.policies[<<world'.log[n].owner, world'.log[n].agent>>].epoch
    <3>1. CASE n = Len(L) + 1
      BY <1>6, <1>7, <1>9, <3>1 DEF policy
    <3>2. CASE n # Len(L) + 1
      <4>1. n \in DOMAIN L /\ world'.log[n] = L[n]
        BY <1>8, <1>9, <3>2
      <4>2. QED
        BY <2>1, <4>1 DEF NewestGrantInForce, L
    <3>3. QED
      BY <3>1, <3>2
  <2>3. \A r \in Pairs : world'.policies[r].active =>
          \E g \in world'.granted : <<g.owner, g.agent>> = r /\ g.epoch = world'.policies[r].epoch
    BY <1>2, <2>1 DEF NewestGrantInForce
  <2>4. \A g \in world'.granted :
          LET entry == world'.policies[<<g.owner, g.agent>>] IN
          g.epoch <= entry.epoch /\ (g.epoch = entry.epoch => IsPolicyOf(entry, g))
    BY <1>2, <2>1 DEF NewestGrantInForce
  <2>5. \A n \in DOMAIN world'.log :
          world'.log[n].epoch <= world'.policies[<<world'.log[n].owner, world'.log[n].agent>>].epoch
    BY <1>2, <2>2
  <2>6. QED
    BY <2>3, <2>4, <2>5 DEF NewestGrantInForce
<1>15. QED
  BY <1>1, <1>2, <1>3, <1>4, <1>11, <1>12, <1>13, <1>14
     DEF BooksInv, BooksBalance, BooksInProgress, Lawful

-----------------------------------------------------------------------------
(* The contract starts with nothing granted, spent or paid.                *)
LEMMA InitBooks == Init => BooksInv
<1> SUFFICES ASSUME Init PROVE BooksInv
  OBVIOUS
<1>1. IInv /\ phase = "none" /\ world = Genesis /\ saved = Genesis
  BY InitIInv DEF Init
<1>2. /\ Genesis.log = << >> /\ Genesis.granted = {}
      /\ \A p \in Pairs : Genesis.policies[p].active = FALSE
  BY DEF Genesis, Unconfigured
<1>3. \A S : Total(Genesis.log, S) = 0
  BY <1>2, TotalOfNone
<1>4. Lawful(Genesis) /\ SpentIsPaid(Genesis, NothingDue)
  <2>1. PaymentsWithinGrants(Genesis) /\ NewestGrantInForce(Genesis) /\ TokensFollowEvents(Genesis)
    BY <1>2, <1>3 DEF PaymentsWithinGrants, NewestGrantInForce, TokensFollowEvents
  <2>2. QED
    BY <1>2, <2>1 DEF Lawful, SpentIsPaid
<1>5. Due = NothingDue /\ ChargedConforms
  BY <1>1 DEF Due, NothingDue, ChargedConforms
<1>6. QED
  BY <1>1, <1>4, <1>5, BooksParts

LEMMA BooksStep == BooksInv /\ [Next]_vars => BooksInv'
<1> SUFFICES ASSUME BooksInv, [Next]_vars PROVE BooksInv'
  OBVIOUS
<1>1. ASSUME NEW o \in Owners, Owner(o) PROVE BooksInv'
  BY <1>1, ConfigureBooks, RevokeBooks, ApproveBooks DEF Owner
<1>2. CASE ExecuteBatch
  BY <1>2, BeginBooks, AcceptBooks, TransferBooks, CommitBooks, RevertBooks DEF ExecuteBatch
<1>3. CASE NextBlock \/ UNCHANGED vars
  <2>1. UNCHANGED <<world, saved, phase, batch, at>>
    BY <1>3 DEF NextBlock, vars
  <2>2. IInv'
    BY IInvStep DEF BooksInv
  <2>3. Due' = Due /\ ChargedConforms'
    BY <2>1 DEF BooksInv, Due, ChargedConforms, PolicyOf, CurrentEpoch, WithinPolicy
  <2>4. QED
    BY <2>1, <2>2, <2>3, BooksUnread
<1>4. QED
  BY <1>1, <1>2, <1>3 DEF Next

(* The strengthened invariant holds: inside a transaction the books are    *)
(* balanced too, but for the one payment that is charged and not made yet. *)
THEOREM BooksInvariance == Spec => []BooksInv
BY InitBooks, BooksStep, PTL DEF Spec

(* Over any sequence of batches, reverts and re-authorizations, every      *)
(* payment was granted, no grant is exceeded, `spent` is what was paid,    *)
(* and the tokens moved as the events say (.sol:114-130, D-005).           *)
THEOREM BooksAreKept == Spec => []BooksBalance
<1>1. BooksInv => BooksBalance
  BY DEF BooksInv
<1>2. QED
  BY <1>1, BooksInvariance, PTL
=============================================================================

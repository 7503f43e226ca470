---------------------------- MODULE ConsoleProofs ---------------------------
(***************************************************************************)
(* Theorems about Console, for any accounts, any number of calls under way *)
(* and any bound: what the Authorizations page shows, and when.            *)
(***************************************************************************)
EXTENDS Console, SequenceTheorems, TLAPS

(* The stages of poll, of calls, and what a request holds, spelled out.    *)
Polls == [at : {"off", "asking", "answered", "timer"}, owner : Owners, version : Nat]
Calls == [stage : {"idle", "token", "contracts", "prompt", "mining", "mined"},
          owner : Owners, signer : Owners, version : Nat, mine : BOOLEAN]

LEMMA Literals ==
  /\ Idle \in Calls /\ Off \in Polls /\ NoOperation \in [stage : Said, owner : Owners, version : Nat]
  /\ Idle.stage = "idle" /\ Idle.mine = FALSE /\ Off.at = "off"
  /\ NoOperation.stage = "none"
  /\ Rearmed(TRUE) \in Polls /\ Rearmed(TRUE).at = "timer"
  /\ Rearmed(FALSE) \in Polls /\ Rearmed(FALSE).at = "timer"
BY DEF Idle, Off, NoOperation, Calls, Polls, Said, UnderWay, Owners, Nobody, Rearmed

(* A request that is sent.                                                 *)
LEMMA AskedTyped ==
  ASSUME TypeOK
  PROVE  /\ Asked \in Polls /\ Asked.at = "asking"
         /\ Asked.owner = IF online THEN viewOwner ELSE Nobody
BY DEF Asked, TypeOK, Polls, Owners

(* Requests whose effect is gone stay requests.                            *)
LEMMA AbandonedTyped ==
  ASSUME TypeOK
  PROVE  Abandoned \subseteq [at : {"asking", "answered"}, owner : Owners, version : Nat]
BY DEF Abandoned, TypeOK

-----------------------------------------------------------------------------
(* The steps of usePoll.                                                   *)
LEMMA PollKeeps ==
  ASSUME PInv, Poll
  PROVE  PInv'
<1> USE DEF PInv
<1>1. UNCHANGED <<pageVars, op, walletVars, act, version>>
  BY DEF Poll, RunEffect, TimerFires, ApiAnswers, PollReturns, PollReturnsNull, PollThrows, DeadReturns
<1>2. CallsAreTheOwners'
  BY <1>1 DEF CallsAreTheOwners, Busy, InFlight, pageVars
<1>3. poll \in Polls /\ (poll.owner # Nobody => poll.owner \in Accounts)
  BY DEF TypeOK, Polls, Owners
<1>4. CASE RunEffect
  <2>1. UNCHANGED seen /\ ran' = Key /\ refreshed' = FALSE /\ data' = Nothing /\ poll' = Asked
        /\ dead' = Abandoned /\ mounted
    BY <1>4 DEF RunEffect, EffectDue
  <2>2. TypeOK'
    BY <1>1, <2>1, AskedTyped, AbandonedTyped DEF TypeOK, Polls, Key, Owners, pageVars, walletVars
  <2>3. PollFollowsEffect' /\ AnswersAreFresh'
    BY <1>1, <2>1, AskedTyped DEF PollFollowsEffect, AnswersAreFresh, pageVars
  <2>4. QED
    BY <1>2, <2>2, <2>3
<1>5. CASE TimerFires
  <2>1. UNCHANGED <<ran, refreshed, dead, data, seen>> /\ poll' = Asked /\ poll.at = "timer"
    BY <1>5 DEF TimerFires
  <2>2. TypeOK'
    BY <1>1, <2>1, AskedTyped DEF TypeOK, Polls, pageVars, walletVars
  <2>3. PollFollowsEffect' /\ AnswersAreFresh'
    BY <1>1, <2>1, AskedTyped DEF PollFollowsEffect, AnswersAreFresh, pageVars
  <2>4. QED
    BY <1>2, <2>2, <2>3
<1>6. CASE ApiAnswers
  <2>1. UNCHANGED <<ran, refreshed, dead, data, seen>> /\ poll.at = "asking"
        /\ poll.owner \in Accounts /\ poll' = WithAnswer(poll)
    BY <1>3, <1>6 DEF ApiAnswers
  <2>2. poll' \in Polls /\ poll'.at = "answered" /\ poll'.owner = poll.owner
        /\ poll'.version = version[poll.owner]
    BY <1>3, <2>1 DEF WithAnswer, Polls, TypeOK
  <2>3. TypeOK'
    BY <1>1, <2>1, <2>2 DEF TypeOK, Polls, pageVars, walletVars
  <2>4. PollFollowsEffect'
    BY <1>1, <2>1, <2>2 DEF PollFollowsEffect, EffectDue, Key, pageVars
  <2>5. AnswersAreFresh'
    <3>1. op.stage = "confirmed" => op.version <= version[op.owner]
      BY DEF CallsAreTheOwners
    <3>2. QED
      BY <1>1, <2>1, <2>2, <3>1 DEF AnswersAreFresh, TypeOK
  <2>6. QED
    BY <1>2, <2>3, <2>4, <2>5
<1>7. CASE PollReturns \/ PollReturnsNull \/ PollThrows
  <2>1. UNCHANGED <<ran, refreshed, dead>> /\ poll.at # "off"
        /\ poll' \in Polls /\ poll'.at = "timer"
    BY <1>7, Literals DEF PollReturns, PollReturnsNull, PollThrows
  <2>2. PollFollowsEffect'
    BY <1>1, <2>1 DEF PollFollowsEffect, pageVars
  <2>3. CASE PollReturns
    <3>1. poll.at = "answered" /\ poll.owner \in Accounts /\ poll.version \in Nat
          /\ poll.version <= version[poll.owner]
      BY <1>3, <2>3 DEF PollReturns, AnswersAreFresh, Polls
    <3>2. data' \in Views
      BY <2>3, <3>1 DEF PollReturns, Show, Views
    <3>3. seen' = [seen EXCEPT ![poll.owner] =
                     IF poll.version > seen[poll.owner] THEN poll.version ELSE seen[poll.owner]]
      BY <2>3 DEF PollReturns, Show
    <3>4. seen' \in [Accounts -> Nat] /\ \A o \in Accounts : seen'[o] <= version[o]
      BY <3>1, <3>3 DEF AnswersAreFresh, TypeOK
    <3>5. TypeOK'
      BY <1>1, <2>1, <3>2, <3>4 DEF TypeOK, Polls, pageVars, walletVars
    <3>6. AnswersAreFresh'
      BY <1>1, <2>1, <3>4 DEF AnswersAreFresh
    <3>7. QED
      BY <1>2, <2>2, <3>5, <3>6
  <2>4. CASE PollReturnsNull \/ PollThrows
    <3>1. UNCHANGED seen /\ (data' = data \/ data' = Nothing)
      BY <2>4 DEF PollReturnsNull, PollThrows
    <3>2. TypeOK'
      BY <1>1, <2>1, <3>1 DEF TypeOK, Polls, pageVars, walletVars
    <3>3. AnswersAreFresh'
      BY <1>1, <2>1, <3>1 DEF AnswersAreFresh
    <3>4. QED
      BY <1>2, <2>2, <3>2, <3>3
  <2>5. QED
    BY <1>7, <2>3, <2>4
<1>8. CASE DeadReturns
  <2>1. UNCHANGED <<ran, refreshed, poll, data, seen>> /\ dead' \subseteq dead
    BY <1>8 DEF DeadReturns, Drop
  <2>2. TypeOK'
    BY <1>1, <2>1 DEF TypeOK, pageVars, walletVars
  <2>3. PollFollowsEffect' /\ AnswersAreFresh'
    BY <1>1, <2>1 DEF PollFollowsEffect, AnswersAreFresh, EffectDue, Key, pageVars
  <2>4. QED
    BY <1>2, <2>2, <2>3
<1>9. QED
  BY <1>4, <1>5, <1>6, <1>7, <1>8 DEF Poll

-----------------------------------------------------------------------------
(* A step after which, if the page is shown and no effect is due, neither  *)
(* was one before, and the key is the one the effect ran for.              *)
LEMMA PageKeeps ==
  ASSUME PInv, UNCHANGED <<poll, op, act, version, seen>>, mounted' = mounted,
         ran' = ran, refreshed' = refreshed,
         Renders \/ UNCHANGED <<viewOwner, online>>
  PROVE  PollFollowsEffect' /\ AnswersAreFresh' /\ CallsAreTheOwners'
<1> USE DEF PInv
<1>1. mounted' /\ ~EffectDue' => ~EffectDue /\ UNCHANGED <<viewOwner, online>>
  BY DEF EffectDue, Key, Renders
<1>2. PollFollowsEffect'
  BY <1>1 DEF PollFollowsEffect
<1>3. AnswersAreFresh'
  BY <1>1 DEF AnswersAreFresh, PollFollowsEffect
<1>4. CallsAreTheOwners'
  BY DEF CallsAreTheOwners, Busy, InFlight
<1>5. QED
  BY <1>2, <1>3, <1>4

LEMMA InspectKeeps ==
  ASSUME PInv, Inspect \/ ToggleOnline \/ Switch \/ Deliver
  PROVE  PInv'
<1> USE DEF PInv
<1>1. /\ UNCHANGED <<op, hookVars, act, version, mounted>>
      /\ Renders \/ UNCHANGED <<viewOwner, online>>
  BY DEF Inspect, ToggleOnline, Switch, Deliver, pageVars
<1>2. PollFollowsEffect' /\ AnswersAreFresh' /\ CallsAreTheOwners'
  BY <1>1, PageKeeps DEF hookVars
<1>3. viewOwner' \in Owners /\ online' \in BOOLEAN /\ account' \in Owners /\ shown' \in Owners
      /\ messages' \in Seq(Owners)
  <2>1. CASE Inspect \/ ToggleOnline
    BY <2>1 DEF Inspect, ToggleOnline, walletVars, TypeOK, Owners
  <2>2. CASE Switch
    BY <2>2 DEF Switch, pageVars, TypeOK, Owners
  <2>3. CASE Deliver
    <3>1. Head(messages) \in Owners /\ Tail(messages) \in Seq(Owners)
      BY <2>3, HeadTailProperties DEF Deliver, TypeOK
    <3>2. QED
      BY <2>3, <3>1 DEF Deliver, Follows, TypeOK
  <2>4. QED
    BY <2>1, <2>2, <2>3
<1>4. TypeOK'
  BY <1>1, <1>3 DEF TypeOK, hookVars
<1>5. QED
  BY <1>2, <1>4

LEMMA VisitKeeps ==
  ASSUME PInv, Visit
  PROVE  PInv'
<1> USE DEF PInv
<1>1. UNCHANGED <<online, op, ran, poll, dead, data, seen, walletVars, act, version>>
      /\ mounted' = TRUE /\ viewOwner' = shown /\ refreshed' = TRUE /\ ~mounted
  BY DEF Visit
<1>2. TypeOK'
  BY <1>1 DEF TypeOK, walletVars
<1>3. EffectDue' /\ poll'.at = "off"
  BY <1>1 DEF EffectDue, PollFollowsEffect, TypeOK
<1>4. PollFollowsEffect' /\ AnswersAreFresh'
  BY <1>1, <1>3 DEF PollFollowsEffect, AnswersAreFresh
<1>5. CallsAreTheOwners'
  BY <1>1 DEF CallsAreTheOwners, Busy, InFlight
<1>6. QED
  BY <1>2, <1>4, <1>5

LEMMA LeaveKeeps ==
  ASSUME PInv, Leave
  PROVE  PInv'
<1> USE DEF PInv
<1>1. /\ UNCHANGED <<online, seen, walletVars, version>> /\ dead' = Abandoned
      /\ mounted' = FALSE /\ viewOwner' = Nobody /\ op' = NoOperation
      /\ ran' = <<Nobody, FALSE>> /\ refreshed' = FALSE /\ poll' = Off /\ data' = Nothing
      /\ act' = [a \in Acts |-> [act[a] EXCEPT !.mine = FALSE]]
  BY DEF Leave
<1>2. \A a \in Acts :
        /\ act'[a] \in Calls /\ act'[a].stage = act[a].stage /\ act'[a].owner = act[a].owner
        /\ act'[a].signer = act[a].signer /\ act'[a].version = act[a].version
        /\ act'[a].mine = FALSE
  BY <1>1 DEF TypeOK, Calls
<1>3. act' \in [Acts -> Calls]
  BY <1>1, <1>2
<1>4. TypeOK'
  BY <1>1, <1>3, Literals, AbandonedTyped DEF TypeOK, Calls, Polls, Owners, walletVars
<1>5. PollFollowsEffect' /\ AnswersAreFresh'
  BY <1>1, Literals DEF PollFollowsEffect, AnswersAreFresh
<1>6. CallsAreTheOwners'
  <2>1. ~Busy' /\ ~InFlight' /\ op'.stage # "confirmed"
    BY <1>1, <1>2, Literals DEF Busy, InFlight, UnderWay
  <2>2. UNCHANGED version
    BY <1>1
  <2>3. QED
    BY <1>2, <2>1, <2>2 DEF CallsAreTheOwners
<1>7. QED
  BY <1>4, <1>5, <1>6

-----------------------------------------------------------------------------
(* The calls of act().                                                     *)

(* A step of call a, which stays the same owner's.                         *)
LEMMA ActFrame ==
  ASSUME PInv, NEW a \in Acts, NEW c \in Calls, act' = [act EXCEPT ![a] = c]
  PROVE  /\ act' \in [Acts -> Calls] /\ act'[a] = c
         /\ \A b \in Acts \ {a} : act'[b] = act[b]
BY DEF PInv, TypeOK, Calls

(* What is confirmed stays so in a step that writes neither.               *)
LEMMA ActPage ==
  ASSUME PInv, UNCHANGED <<pageVars, hookVars, version>>, 
         op' = op \/ op'.stage # "confirmed"
  PROVE  PollFollowsEffect' /\ AnswersAreFresh'
BY DEF PInv, PollFollowsEffect, AnswersAreFresh, EffectDue, Key, pageVars, hookVars

LEMMA BeginKeeps ==
  ASSUME PInv, NEW a \in Acts, Begin(a)
  PROVE  PInv'
<1> USE DEF PInv
<1>1. PICK s \in {"token", "contracts"} :
        /\ act' = [act EXCEPT ![a] = [Idle EXCEPT !.stage = s, !.owner = viewOwner, !.mine = TRUE]]
        /\ op' = [stage |-> IF s = "token" THEN "Checking chain" ELSE "Confirm in wallet",
                  owner |-> viewOwner, version |-> 0]
  BY DEF Begin
<1> DEFINE c == [Idle EXCEPT !.stage = s, !.owner = viewOwner, !.mine = TRUE]
<1>2. UNCHANGED <<pageVars, hookVars, walletVars, version>> /\ mounted /\ ~InFlight
      /\ viewOwner \in Accounts
  BY DEF Begin, CanWrite, TypeOK, Owners
<1>3. c \in Calls /\ c.stage = s /\ c.owner = viewOwner /\ c.mine = TRUE
  BY <1>2 DEF Idle, Calls, Owners, Nobody
<1>4. op' \in [stage : Said, owner : Owners, version : Nat] /\ op'.stage \in UnderWay
      /\ op'.owner = viewOwner
  BY <1>1, <1>2 DEF Said, UnderWay, Owners
<1>5. act' = [act EXCEPT ![a] = c]
  BY <1>1
<1> HIDE DEF c
<1>6. act' \in [Acts -> Calls] /\ act'[a] = c /\ \A b \in Acts \ {a} : act'[b] = act[b]
  BY <1>3, <1>5, ActFrame
<1>7. TypeOK'
  BY <1>2, <1>4, <1>6 DEF TypeOK, Calls, pageVars, hookVars, walletVars
<1>8. PollFollowsEffect' /\ AnswersAreFresh'
  BY <1>2, <1>4, ActPage DEF UnderWay
<1>9. CallsAreTheOwners'
  <2>1. \A b \in Acts : act'[b].mine => b = a
    BY <1>2, <1>6 DEF InFlight, TypeOK
  <2>2. Busy' /\ InFlight'
    BY <1>3, <1>4, <1>6 DEF Busy, InFlight
  <2>3. op'.stage # "confirmed"
    BY <1>4 DEF UnderWay
  <2>4. mounted' /\ UNCHANGED version
    BY <1>2 DEF pageVars
  <2>5. \A b \in Acts \ {a} : ~act[b].mine
    BY <1>2 DEF InFlight
  <2>6. QED
    BY <1>2, <1>3, <1>4, <1>6, <2>1, <2>2, <2>3, <2>4, <2>5 DEF CallsAreTheOwners
<1>10. QED
  BY <1>7, <1>8, <1>9

(* A call that goes on: the page says so if the call is this visit's.      *)
LEMMA GoesOn ==
  ASSUME PInv, NEW a \in Acts, NEW c \in Calls,
         UNCHANGED <<pageVars, hookVars, walletVars, version>>,
         act' = [act EXCEPT ![a] = c], act[a].stage # "idle",
         c.stage # "idle", c.owner = act[a].owner, c.mine = act[a].mine,
         c.stage \in {"prompt", "mining", "mined"} => c.signer = c.owner,
         c.stage # "mined",
         \/ op' = op
         \/ act[a].mine /\ \E s \in UnderWay : op' = [op EXCEPT !.stage = s]
  PROVE  PInv'
<1> USE DEF PInv
<1>1. act' \in [Acts -> Calls] /\ act'[a] = c /\ \A b \in Acts \ {a} : act'[b] = act[b]
  BY ActFrame
<1>2. \A b \in Acts : act'[b].mine = act[b].mine
  BY <1>1
<1>3. op \in [stage : Said, owner : Owners, version : Nat]
  BY DEF TypeOK
<1>4. op' \in [stage : Said, owner : Owners, version : Nat] /\ op'.owner = op.owner
      /\ (op' = op \/ (act[a].mine /\ op'.stage \in UnderWay))
  BY <1>3 DEF Said
<1>5. TypeOK'
  BY <1>1, <1>4 DEF TypeOK, Calls, pageVars, hookVars, walletVars
<1>6. PollFollowsEffect' /\ AnswersAreFresh'
  BY <1>4, ActPage DEF UnderWay
<1>7. Busy' <=> InFlight'
  BY <1>2, <1>4 DEF CallsAreTheOwners, Busy, InFlight
<1>8. op'.stage = "confirmed" => op' = op
  BY <1>4 DEF UnderWay
<1>9. CallsAreTheOwners'
  BY <1>1, <1>2, <1>4, <1>7, <1>8 DEF CallsAreTheOwners, pageVars
<1>10. QED
  BY <1>5, <1>6, <1>9

LEMMA AdvanceKeeps ==
  ASSUME PInv, NEW a \in Acts, TokenRead(a) \/ WalletContracts(a) \/ Send(a)
  PROVE  PInv'
<1> USE DEF PInv
<1>1. act[a] \in Calls /\ UNCHANGED <<pageVars, hookVars, walletVars, version>>
  BY DEF TypeOK, Calls, TokenRead, WalletContracts, Send
<1>2. CASE TokenRead(a)
  <2> DEFINE c == [act[a] EXCEPT !.stage = "contracts"]
  <2>1. c \in Calls /\ c.stage = "contracts" /\ c.owner = act[a].owner /\ c.mine = act[a].mine
    BY <1>1 DEF Calls
  <2>2. act' = [act EXCEPT ![a] = c] /\ act[a].stage # "idle"
    BY <1>2 DEF TokenRead
  <2>3. op' = op \/ (act[a].mine /\ \E s \in UnderWay : op' = [op EXCEPT !.stage = s])
    BY <1>2 DEF TokenRead, Says, UnderWay
  <2> HIDE DEF c
  <2>4. QED
    BY <1>1, <2>1, <2>2, <2>3, GoesOn
<1>3. CASE WalletContracts(a)
  <2> DEFINE c == [act[a] EXCEPT !.stage = "prompt", !.signer = account]
  <2>1. act[a].owner = account /\ account \in Owners
    BY <1>3 DEF WalletContracts, MaySign, TypeOK
  <2>2. c \in Calls /\ c.stage = "prompt" /\ c.owner = act[a].owner /\ c.mine = act[a].mine
        /\ c.signer = c.owner
    BY <1>1, <2>1 DEF Calls
  <2>3. act' = [act EXCEPT ![a] = c] /\ act[a].stage # "idle" /\ op' = op
    BY <1>3, <1>1 DEF WalletContracts, TypeOK
  <2> HIDE DEF c
  <2>4. QED
    BY <1>1, <2>2, <2>3, GoesOn
<1>4. CASE Send(a)
  <2> DEFINE c == [act[a] EXCEPT !.stage = "mining"]
  <2>1. act[a].signer = act[a].owner
    BY <1>4 DEF Send, CallsAreTheOwners
  <2>2. c \in Calls /\ c.stage = "mining" /\ c.owner = act[a].owner /\ c.mine = act[a].mine
        /\ c.signer = c.owner
    BY <1>1, <2>1 DEF Calls
  <2>3. act' = [act EXCEPT ![a] = c] /\ act[a].stage # "idle"
    BY <1>4 DEF Send
  <2>4. op' = op \/ (act[a].mine /\ \E s \in UnderWay : op' = [op EXCEPT !.stage = s])
    BY <1>4 DEF Send, Says, UnderWay
  <2> HIDE DEF c
  <2>5. QED
    BY <1>1, <2>2, <2>3, <2>4, GoesOn
<1>5. QED
  BY <1>2, <1>3, <1>4

(* The version of an owner grows.                                          *)
LEMMA VersionGrows ==
  ASSUME PInv, NEW o \in Accounts, version' = [version EXCEPT ![o] = @ + 1]
  PROVE  /\ version' \in [Accounts -> Nat] /\ version'[o] = version[o] + 1
         /\ \A x \in Accounts : version[x] <= version'[x]
BY DEF PInv, TypeOK

LEMMA MinedKeeps ==
  ASSUME PInv, NEW a \in Acts, Mined(a)
  PROVE  PInv'
<1> USE DEF PInv
<1> DEFINE o == act[a].signer
           c == [act[a] EXCEPT !.stage = "mined", !.version = version[o] + 1]
<1>1. UNCHANGED <<pageVars, op, hookVars, walletVars>> /\ act[a].stage = "mining"
      /\ version' = [version EXCEPT ![o] = @ + 1]
  BY DEF Mined
<1>2. act[a] \in Calls /\ o = act[a].owner /\ o \in Accounts
  BY <1>1 DEF TypeOK, Calls, CallsAreTheOwners
<1>3. version[o] \in Nat /\ version[o] + 1 \in Nat
  BY <1>2 DEF TypeOK
<1>4. c \in Calls /\ c.stage = "mined" /\ c.owner = act[a].owner /\ c.mine = act[a].mine
      /\ c.signer = o /\ c.version = version[o] + 1
  BY <1>2, <1>3 DEF Calls
<1>5. act' = [act EXCEPT ![a] = c]
  BY <1>2 DEF Mined, TypeOK
<1> HIDE DEF c, o
<1>6. act' \in [Acts -> Calls] /\ act'[a] = c /\ \A b \in Acts \ {a} : act'[b] = act[b]
  BY <1>4, <1>5, ActFrame
<1>7. /\ version' \in [Accounts -> Nat] /\ version'[o] = version[o] + 1
      /\ \A x \in Accounts : version[x] <= version'[x]
  BY <1>1, <1>2, VersionGrows
<1>8. TypeOK'
  BY <1>1, <1>6, <1>7 DEF TypeOK, Calls, pageVars, hookVars, walletVars
<1>9. PollFollowsEffect'
  BY <1>1 DEF PollFollowsEffect, EffectDue, Key, pageVars, hookVars
<1>10. AnswersAreFresh'
  <2>1. \A x \in Accounts : seen[x] \in Nat /\ version[x] \in Nat /\ version'[x] \in Nat
    BY <1>7 DEF TypeOK
  <2>2. \A x \in Accounts : seen'[x] <= version'[x]
    BY <1>1, <1>7, <2>1 DEF AnswersAreFresh, hookVars
  <2>3. poll.at = "answered" => poll.version <= version'[poll.owner]
    BY <1>7, <2>1 DEF AnswersAreFresh, TypeOK
  <2>4. QED
    BY <1>1, <2>2, <2>3 DEF AnswersAreFresh, EffectDue, Key, pageVars, hookVars
<1>11. CallsAreTheOwners'
  <2>1. \A b \in Acts : act'[b].mine = act[b].mine
    BY <1>4, <1>6
  <2>2. Busy' <=> InFlight'
    BY <1>1, <2>1 DEF CallsAreTheOwners, Busy, InFlight
  <2>3. \A b \in Acts : /\ act'[b].stage # "idle" => act'[b].owner \in Accounts
                        /\ act'[b].stage \in {"prompt", "mining", "mined"} =>
                             act'[b].signer = act'[b].owner
    BY <1>2, <1>4, <1>6 DEF CallsAreTheOwners
  <2>4. \A b \in Acts : act'[b].stage = "mined" => act'[b].version <= version'[act'[b].signer]
    <3> SUFFICES ASSUME NEW b \in Acts, act'[b].stage = "mined"
                 PROVE  act'[b].version <= version'[act'[b].signer]
      OBVIOUS
    <3>1. CASE b = a
      BY <1>3, <1>4, <1>6, <1>7, <3>1
    <3>2. CASE b # a
      <4>1. act'[b] = act[b] /\ act[b].signer \in Accounts
        BY <1>6, <2>3, <3>2
      <4>2. act[b].version <= version[act[b].signer] /\ act[b].version \in Nat
        BY <4>1 DEF CallsAreTheOwners, TypeOK
      <4>3. version[act[b].signer] <= version'[act[b].signer]
            /\ version[act[b].signer] \in Nat /\ version'[act[b].signer] \in Nat
        BY <1>7, <4>1 DEF TypeOK
      <4>4. QED
        BY <4>1, <4>2, <4>3
    <3>3. QED
      BY <3>1, <3>2
  <2>5. \A b \in Acts :
          act'[b].mine => mounted' /\ act'[b].stage # "idle" /\ op'.owner = act'[b].owner
    BY <1>1, <1>4, <1>6 DEF CallsAreTheOwners, pageVars
  <2>6. op.stage = "confirmed" => op.owner \in Accounts /\ op.version <= version'[op.owner]
    <3> SUFFICES ASSUME op.stage = "confirmed"
                 PROVE  op.owner \in Accounts /\ op.version <= version'[op.owner]
      OBVIOUS
    <3>1. op.owner \in Accounts /\ op.version <= version[op.owner] /\ op.version \in Nat
      BY DEF CallsAreTheOwners, TypeOK
    <3>2. version[op.owner] \in Nat /\ version'[op.owner] \in Nat
          /\ version[op.owner] <= version'[op.owner]
      BY <1>7, <3>1 DEF TypeOK
    <3>3. QED
      BY <3>1, <3>2
  <2>7. QED
    BY <1>1, <2>1, <2>2, <2>3, <2>4, <2>5, <2>6 DEF CallsAreTheOwners
<1>12. QED
  BY <1>8, <1>9, <1>10, <1>11

(* The end of a call: what it leaves on the page if it is this visit's.    *)
LEMMA EndsCall ==
  ASSUME PInv, NEW a \in Acts, act' = [act EXCEPT ![a] = Idle],
         UNCHANGED <<mounted, version>>,
         op'.stage = "confirmed" => op'.owner \in Accounts /\ op'.version <= version[op'.owner],
         IF act[a].mine THEN op'.stage \notin UnderWay ELSE op' = op
  PROVE  act' \in [Acts -> Calls] /\ CallsAreTheOwners'
<1> USE DEF PInv
<1>1. act' \in [Acts -> Calls] /\ act'[a] = Idle /\ \A b \in Acts \ {a} : act'[b] = act[b]
  BY Literals, ActFrame
<1>2. Idle.stage = "idle" /\ Idle.mine = FALSE
  BY Literals
<1>3. CASE act[a].mine
  <2>1. \A b \in Acts : ~act'[b].mine
    BY <1>1, <1>2, <1>3 DEF CallsAreTheOwners
  <2>2. QED
    BY <1>1, <1>2, <1>3, <2>1 DEF CallsAreTheOwners, Busy, InFlight
<1>4. CASE ~act[a].mine
  <2>1. \A b \in Acts : act'[b].mine => b # a
    BY <1>1, <1>2
  <2>2. \A b \in Acts : act'[b].mine <=> act[b].mine
    BY <1>1, <1>2, <1>4
  <2>3. Busy' <=> InFlight'
    BY <1>4, <2>2 DEF CallsAreTheOwners, Busy, InFlight
  <2>4. QED
    BY <1>1, <1>2, <1>4, <2>1, <2>2, <2>3 DEF CallsAreTheOwners
<1>5. QED
  BY <1>1, <1>3, <1>4

LEMMA ConfirmKeeps ==
  ASSUME PInv, NEW a \in Acts, Confirm(a)
  PROVE  PInv'
<1> USE DEF PInv
<1>1. UNCHANGED <<pageVars, ran, poll, dead, data, seen, walletVars, version>>
      /\ act' = [act EXCEPT ![a] = Idle] /\ act[a].stage = "mined"
  BY DEF Confirm
<1>2. act[a] \in Calls /\ op \in [stage : Said, owner : Owners, version : Nat]
  BY DEF TypeOK, Calls
<1>3. CASE act[a].mine
  <2>1. op' = [op EXCEPT !.stage = "confirmed", !.version = act[a].version] /\ refreshed' = TRUE
    BY <1>3 DEF Confirm, Refreshed
  <2>2. op' \in [stage : Said, owner : Owners, version : Nat] /\ op'.stage = "confirmed"
        /\ op'.owner = op.owner /\ op'.version = act[a].version
    BY <1>2, <2>1 DEF Said, Calls
  <2>3. mounted /\ op.owner \in Accounts /\ act[a].version <= version[op.owner]
    BY <1>1, <1>3 DEF CallsAreTheOwners
  <2>4. act' \in [Acts -> Calls] /\ CallsAreTheOwners'
    BY <1>1, <1>3, <2>2, <2>3, EndsCall DEF UnderWay, pageVars
  <2>5. EffectDue'
    BY <1>1, <2>1, <2>3 DEF EffectDue, pageVars
  <2>6. TypeOK'
    BY <1>1, <2>1, <2>2, <2>4 DEF TypeOK, Calls, pageVars, walletVars
  <2>7. PollFollowsEffect' /\ AnswersAreFresh'
    BY <1>1, <2>1, <2>5 DEF PollFollowsEffect, AnswersAreFresh, pageVars
  <2>8. QED
    BY <2>4, <2>6, <2>7
<1>4. CASE ~act[a].mine
  <2>1. UNCHANGED <<op, refreshed>>
    BY <1>4 DEF Confirm
  <2>2. op.stage = "confirmed" => op.owner \in Accounts /\ op.version <= version[op.owner]
    BY DEF CallsAreTheOwners
  <2>3. act' \in [Acts -> Calls] /\ CallsAreTheOwners'
    BY <1>1, <1>4, <2>1, <2>2, EndsCall DEF pageVars
  <2>4. TypeOK'
    BY <1>1, <2>1, <2>3 DEF TypeOK, Calls, pageVars, walletVars
  <2>5. PollFollowsEffect' /\ AnswersAreFresh'
    BY <1>1, <2>1, ActPage DEF hookVars
  <2>6. QED
    BY <2>3, <2>4, <2>5
<1>5. QED
  BY <1>3, <1>4

LEMMA FailKeeps ==
  ASSUME PInv, NEW a \in Acts, Fail(a)
  PROVE  PInv'
<1> USE DEF PInv
<1>1. UNCHANGED <<pageVars, hookVars, walletVars, version>> /\ act' = [act EXCEPT ![a] = Idle]
      /\ op' = IF act[a].mine THEN AfterFailure(a) ELSE op
  BY DEF Fail
<1>2. op \in [stage : Said, owner : Owners, version : Nat]
  BY DEF TypeOK
<1>3. AfterFailure(a) \in [stage : Said, owner : Owners, version : Nat]
      /\ AfterFailure(a).stage \in {"none", "not confirmed"}
  <2>1. [op EXCEPT !.stage = "not confirmed"] \in [stage : Said, owner : Owners, version : Nat]
        /\ [op EXCEPT !.stage = "not confirmed"].stage = "not confirmed"
    BY <1>2 DEF Said
  <2>2. QED
    BY <2>1, Literals DEF AfterFailure
<1>4. op' = op \/ op'.stage # "confirmed"
  BY <1>1, <1>3
<1>5. op'.stage = "confirmed" => op'.owner \in Accounts /\ op'.version <= version[op'.owner]
  BY <1>4 DEF CallsAreTheOwners
<1>6. IF act[a].mine THEN op'.stage \notin UnderWay ELSE op' = op
  BY <1>1, <1>3 DEF UnderWay
<1>7. act' \in [Acts -> Calls] /\ CallsAreTheOwners'
  BY <1>1, <1>5, <1>6, EndsCall DEF pageVars
<1>8. TypeOK'
  BY <1>1, <1>2, <1>3, <1>7 DEF TypeOK, Calls, pageVars, hookVars, walletVars
<1>9. PollFollowsEffect' /\ AnswersAreFresh'
  BY <1>1, <1>4, ActPage
<1>10. QED
  BY <1>7, <1>8, <1>9

LEMMA ChainKeeps ==
  ASSUME PInv, ChainChanges
  PROVE  PInv'
<1> USE DEF PInv
<1>1. PICK o \in Accounts : version' = [version EXCEPT ![o] = @ + 1]
  BY DEF ChainChanges
<1>2. UNCHANGED <<pageVars, op, hookVars, walletVars, act>>
  BY DEF ChainChanges
<1>3. version' \in [Accounts -> Nat] /\ \A x \in Accounts : version[x] <= version'[x]
  BY <1>1, VersionGrows
<1>4. TypeOK'
  BY <1>2, <1>3 DEF TypeOK, pageVars, hookVars, walletVars
<1>5. \A x \in Accounts : seen[x] \in Nat /\ version[x] \in Nat /\ version'[x] \in Nat
  BY <1>3 DEF TypeOK
<1>6. PollFollowsEffect'
  BY <1>2 DEF PollFollowsEffect, EffectDue, Key, pageVars, hookVars
<1>7. AnswersAreFresh'
  <2>1. \A x \in Accounts : seen'[x] <= version'[x]
    BY <1>2, <1>3, <1>5 DEF AnswersAreFresh, hookVars
  <2>2. poll.at = "answered" => poll.version <= version'[poll.owner]
    BY <1>3, <1>5 DEF AnswersAreFresh, TypeOK
  <2>3. QED
    BY <1>2, <2>1, <2>2 DEF AnswersAreFresh, EffectDue, Key, pageVars, hookVars
<1>8. CallsAreTheOwners'
  <2>1. \A b \in Acts : act[b].stage = "mined" => act[b].version <= version'[act[b].signer]
    <3> SUFFICES ASSUME NEW b \in Acts, act[b].stage = "mined"
                 PROVE  act[b].version <= version'[act[b].signer]
      OBVIOUS
    <3>1. act[b].signer \in Accounts /\ act[b].version <= version[act[b].signer]
          /\ act[b].version \in Nat
      BY DEF CallsAreTheOwners, TypeOK
    <3>2. QED
      BY <1>3, <1>5, <3>1
  <2>2. op.stage = "confirmed" => op.version <= version'[op.owner]
    <3> SUFFICES ASSUME op.stage = "confirmed" PROVE op.version <= version'[op.owner]
      OBVIOUS
    <3>1. op.owner \in Accounts /\ op.version <= version[op.owner] /\ op.version \in Nat
      BY DEF CallsAreTheOwners, TypeOK
    <3>2. QED
      BY <1>3, <1>5, <3>1
  <2>3. QED
    BY <1>2, <2>1, <2>2 DEF CallsAreTheOwners, Busy, InFlight, pageVars
<1>9. QED
  BY <1>4, <1>6, <1>7, <1>8

-----------------------------------------------------------------------------
LEMMA InitPInv == Init => PInv
<1> SUFFICES ASSUME Init PROVE PInv
  OBVIOUS
<1> USE DEF Init
<1>1. <<account>> \in Seq(Owners)
  BY DEF Owners
<1>2. TypeOK
  BY <1>1, Literals DEF TypeOK, Owners, Nobody, Calls, Polls
<1>3. PollFollowsEffect /\ AnswersAreFresh
  BY Literals DEF PollFollowsEffect, AnswersAreFresh
<1>4. CallsAreTheOwners
  BY Literals DEF CallsAreTheOwners, Busy, InFlight, UnderWay
<1>5. QED
  BY <1>2, <1>3, <1>4 DEF PInv

LEMMA PInvStep == PInv /\ [Next]_vars => PInv'
<1> SUFFICES ASSUME PInv, [Next]_vars PROVE PInv'
  OBVIOUS
<1>1. ASSUME NEW a \in Acts, Act(a) PROVE PInv'
  BY <1>1, BeginKeeps, AdvanceKeeps, MinedKeeps, ConfirmKeeps, FailKeeps DEF Act
<1>2. CASE UNCHANGED vars
  BY <1>2 DEF vars, pageVars, hookVars, walletVars, PInv, TypeOK, PollFollowsEffect,
              AnswersAreFresh, CallsAreTheOwners, EffectDue, Key, Busy, InFlight
<1>3. QED
  BY <1>1, <1>2, PollKeeps, InspectKeeps, VisitKeeps, LeaveKeeps, ChainKeeps DEF Next

(* The hook, the page and the calls under way fit together (Console, PInv).*)
THEOREM ConsoleInvariance == Spec => []PInv
BY InitPInv, PInvStep, PTL DEF Spec
-----------------------------------------------------------------------------
(* What is shown is the inspected owner's: a request of another owner's is *)
(* never shown (Console, ShownBelongsToOwner; hooks.ts, `active`).         *)
THEOREM ShownIsTheOwners == Spec => []ShownBelongsToOwner
<1>1. Init => ShownBelongsToOwner
  BY DEF Init, ShownBelongsToOwner
<1>2. PInv /\ ShownBelongsToOwner /\ [Next]_vars => ShownBelongsToOwner'
  <2> SUFFICES ASSUME PInv, ShownBelongsToOwner, [Next]_vars PROVE ShownBelongsToOwner'
    OBVIOUS
  <2> USE DEF ShownBelongsToOwner
  <2>1. CASE data' = Nothing
    BY <2>1
  <2>2. CASE EffectDue'
    BY <2>2
  <2>3. ASSUME UNCHANGED <<data, ran, refreshed, mounted>>,
               Renders \/ UNCHANGED <<viewOwner, online>>
        PROVE  ShownBelongsToOwner'
    BY <2>3 DEF EffectDue, Key, Renders
  <2>4. CASE PollReturns
    <3>1. data'.owner = poll.owner /\ poll.owner \in Accounts /\ mounted
          /\ UNCHANGED <<ran, refreshed, mounted, viewOwner, online>>
      BY <2>4 DEF PollReturns, Show, pageVars, PInv, AnswersAreFresh, PollFollowsEffect
    <3>2. ~EffectDue => poll.owner = viewOwner
      BY <2>4, <3>1, AccountsAssumption DEF PollReturns, PInv, PollFollowsEffect, Nobody
    <3>3. QED
      BY <3>1, <3>2 DEF EffectDue, Key
  <2>5. CASE Visit
    BY <2>2, <2>5 DEF Visit, EffectDue
  <2>6. CASE RunEffect \/ PollReturnsNull \/ Leave
    BY <2>1, <2>6 DEF RunEffect, PollReturnsNull, Leave
  <2>7. CASE TimerFires \/ ApiAnswers \/ PollThrows \/ DeadReturns \/ ChainChanges \/ UNCHANGED vars
    BY <2>3, <2>7 DEF TimerFires, ApiAnswers, PollThrows, DeadReturns, Drop, ChainChanges, vars,
                      pageVars, hookVars
  <2>8. CASE Inspect \/ ToggleOnline \/ Switch \/ Deliver
    BY <2>3, <2>8 DEF Inspect, ToggleOnline, Switch, Deliver, pageVars, hookVars
  <2>9. ASSUME NEW a \in Acts, Act(a) PROVE ShownBelongsToOwner'
    <3>1. CASE Confirm(a)
      <4>1. UNCHANGED <<data, ran, pageVars>> /\ (refreshed' = TRUE \/ refreshed' = refreshed)
        BY <3>1 DEF Confirm, Refreshed
      <4>2. QED
        BY <4>1 DEF EffectDue, Key, pageVars
    <3>2. CASE Begin(a) \/ TokenRead(a) \/ WalletContracts(a) \/ Send(a) \/ Mined(a) \/ Fail(a)
      BY <2>3, <3>2 DEF Begin, TokenRead, WalletContracts, Send, Mined, Fail, pageVars, hookVars
    <3>3. QED
      BY <2>9, <3>1, <3>2 DEF Act
  <2>10. QED
    BY <2>4, <2>5, <2>6, <2>7, <2>8, <2>9 DEF Next, Poll
<1>3. QED
  BY <1>1, <1>2, ConsoleInvariance, PTL DEF Spec

(* A confirmation names the owner whose policies it changed, whatever the  *)
(* wallet has selected meanwhile (Console, ConfirmedConcernsOwner).        *)
THEOREM ConfirmationsConcernTheOwner == Spec => []ConfirmedConcernsOwner
<1>1. PInv => ConfirmedConcernsOwner
  <2> SUFFICES ASSUME PInv, op.stage = "confirmed" PROVE version[op.owner] >= op.version
    BY DEF ConfirmedConcernsOwner
  <2>1. op.owner \in Accounts /\ op.version <= version[op.owner]
    BY DEF PInv, CallsAreTheOwners
  <2>2. op.version \in Nat /\ version[op.owner] \in Nat
    BY <2>1 DEF PInv, TypeOK
  <2>3. QED
    BY <2>1, <2>2
<1>2. QED
  BY <1>1, ConsoleInvariance, PTL
(* While a confirmation is displayed, the owner's policies are never shown *)
(* as they were before it: the answer that was under way is discarded, and *)
(* the next one is newer (Console, ConfirmedIsShown).                      *)
THEOREM ConfirmationsAreShown == Spec => []ConfirmedIsShown
<1>1. Init => ConfirmedIsShown
  BY DEF Init, ConfirmedIsShown
<1>2. PInv /\ ConfirmedIsShown /\ [Next]_vars => ConfirmedIsShown'
  <2> SUFFICES ASSUME PInv, ConfirmedIsShown, [Next]_vars PROVE ConfirmedIsShown'
    OBVIOUS
  <2> USE DEF ConfirmedIsShown
  <2>1. CASE data' = Nothing
    BY <2>1
  <2>2. CASE EffectDue'
    BY <2>2
  <2>3. ASSUME UNCHANGED <<data, ran, refreshed, mounted>>, op' = op \/ op'.stage # "confirmed",
               Renders \/ UNCHANGED <<viewOwner, online>>
        PROVE  ConfirmedIsShown'
    BY <2>3 DEF EffectDue, Key, Renders
  <2>4. CASE PollReturns
    <3>1. data'.owner = poll.owner /\ data'.version = poll.version /\ poll.at = "answered"
          /\ UNCHANGED <<op, ran, refreshed, mounted, viewOwner, online>>
      BY <2>4 DEF PollReturns, Show, pageVars
    <3>2. poll.version \in Nat /\ op.version \in Nat
      BY DEF PInv, TypeOK
    <3>3. op.stage = "confirmed" /\ ~EffectDue /\ poll.owner = op.owner => op.version <= poll.version
      BY <3>1 DEF PInv, AnswersAreFresh
    <3>4. EffectDue' <=> EffectDue
      BY <3>1 DEF EffectDue, Key
    <3>5. QED
      BY <3>1, <3>2, <3>3, <3>4
  <2>5. CASE Visit
    BY <2>2, <2>5 DEF Visit, EffectDue
  <2>6. CASE RunEffect \/ PollReturnsNull \/ Leave
    BY <2>1, <2>6 DEF RunEffect, PollReturnsNull, Leave
  <2>7. CASE TimerFires \/ ApiAnswers \/ PollThrows \/ DeadReturns \/ ChainChanges \/ UNCHANGED vars
    BY <2>3, <2>7 DEF TimerFires, ApiAnswers, PollThrows, DeadReturns, Drop, ChainChanges, vars,
                      pageVars, hookVars
  <2>8. CASE Inspect \/ ToggleOnline \/ Switch \/ Deliver
    BY <2>3, <2>8 DEF Inspect, ToggleOnline, Switch, Deliver, pageVars, hookVars
  <2>9. ASSUME NEW a \in Acts, Act(a) PROVE ConfirmedIsShown'
    <3>1. CASE Confirm(a)
      <4>1. CASE act[a].mine
        <5>1. mounted /\ mounted' = mounted /\ refreshed' = TRUE
          BY <3>1, <4>1 DEF Confirm, Refreshed, pageVars, PInv, CallsAreTheOwners
        <5>2. QED
          BY <2>2, <5>1 DEF EffectDue
      <4>2. CASE ~act[a].mine
        BY <2>3, <3>1, <4>2 DEF Confirm, pageVars
      <4>3. QED
        BY <4>1, <4>2
    <3>2. CASE Fail(a)
      <4>1. op \in [stage : Said, owner : Owners, version : Nat]
        BY DEF PInv, TypeOK
      <4>2. op' = op \/ op' = NoOperation \/ op' = [op EXCEPT !.stage = "not confirmed"]
        BY <3>2 DEF Fail, AfterFailure
      <4>3. op' = op \/ op'.stage # "confirmed"
        BY <4>1, <4>2, Literals
      <4>4. QED
        BY <2>3, <3>2, <4>3 DEF Fail, pageVars, hookVars
    <3>3. CASE TokenRead(a) \/ WalletContracts(a) \/ Send(a) \/ Mined(a)
      <4>1. op \in [stage : Said, owner : Owners, version : Nat]
        BY DEF PInv, TypeOK
      <4>2. op' = op \/ op' = [op EXCEPT !.stage = "Confirm in wallet"]
              \/ op' = [op EXCEPT !.stage = "Waiting for confirmation"]
        BY <3>3 DEF TokenRead, WalletContracts, Send, Mined, Says
      <4>3. op' = op \/ op'.stage # "confirmed"
        BY <4>1, <4>2
      <4>4. QED
        BY <2>3, <3>3, <4>3 DEF TokenRead, WalletContracts, Send, Mined, pageVars, hookVars
    <3>4. CASE Begin(a)
      <4>1. op'.stage # "confirmed"
        <5>1. PICK s \in {"token", "contracts"} :
                op' = [stage |-> IF s = "token" THEN "Checking chain" ELSE "Confirm in wallet",
                       owner |-> viewOwner, version |-> 0]
          BY <3>4 DEF Begin
        <5>2. QED
          BY <5>1
      <4>2. QED
        BY <4>1
    <3>5. QED
      BY <2>9, <3>1, <3>2, <3>3, <3>4 DEF Act
  <2>10. QED
    BY <2>4, <2>5, <2>6, <2>7, <2>8, <2>9 DEF Next, Poll
<1>3. QED
  BY <1>1, <1>2, ConsoleInvariance, PTL DEF Spec

(* An answer that arrives late never takes the page back to an older state *)
(* of an owner's policies (Console, NeverShowsOlder).                      *)
THEOREM NothingOlderIsShown == Spec => NeverShowsOlder
<1>1. PInv /\ [Next]_vars =>
        [data' # data /\ data' # Nothing => data'.version >= seen[data'.owner]]_vars
  <2> SUFFICES ASSUME PInv, Next, data' # data, data' # Nothing
               PROVE  data'.version >= seen[data'.owner]
    OBVIOUS
  <2>1. CASE PollReturns
    <3>1. data'.owner = poll.owner /\ data'.version = poll.version /\ poll.at = "answered"
      BY <2>1 DEF PollReturns, Show
    <3>2. poll.owner \in Accounts /\ seen[poll.owner] <= poll.version
      BY <3>1 DEF PInv, AnswersAreFresh
    <3>3. poll.version \in Nat /\ seen[poll.owner] \in Nat
      BY <3>2 DEF PInv, TypeOK
    <3>4. QED
      BY <3>1, <3>2, <3>3
  <2>2. CASE \/ RunEffect \/ TimerFires \/ ApiAnswers \/ PollReturnsNull \/ PollThrows
             \/ DeadReturns \/ Inspect \/ ToggleOnline \/ Leave \/ Visit \/ Switch \/ Deliver
             \/ ChainChanges
    BY <2>2 DEF RunEffect, TimerFires, ApiAnswers, PollReturnsNull, PollThrows, DeadReturns, Drop,
         Inspect, ToggleOnline, Leave, Visit, Switch, Deliver, ChainChanges, hookVars
  <2>3. ASSUME NEW a \in Acts, Act(a) PROVE FALSE
    BY <2>3 DEF Act, Begin, TokenRead, WalletContracts, Send, Mined, Confirm, Fail, hookVars
  <2>4. QED
    BY <2>1, <2>2, <2>3 DEF Next, Poll
<1>2. QED
  BY <1>1, ConsoleInvariance, PTL DEF Spec, NeverShowsOlder
=============================================================================

------------------------------- MODULE Console ------------------------------
(***************************************************************************)
(* The Authorizations page of the web console: usePoll (hooks.ts), which   *)
(* keeps the shown policies up to date, useWallet and walletContracts      *)
(* (wallet.ts), and the owner's actions (Authorizations.tsx, act).         *)
(*                                                                         *)
(* One thread: a step is what runs between two awaits.  React renders and  *)
(* runs the effects of one render before the next render; `latest.current` *)
(* follows the render, a poll's `active` flag the effect.  The wallet, the *)
(* relayer's API and the chain are the environment.                        *)
(***************************************************************************)
EXTENDS Naturals, Sequences, FiniteSets

CONSTANTS
  Accounts,      \* accounts of the wallet, each an owner one may inspect
  Acts,          \* calls of act() that may be under way, be it of an earlier visit
  MaxChanges,    \* bound on changes of an owner's policies
  MaxSwitches,   \* bound on account switches in the wallet
  MaxVisits,     \* bound on visits to the page
  MaxDead        \* bound on requests under way whose effect is gone

ASSUME AccountsAssumption == "none" \notin Accounts
ASSUME BoundAssumption ==
  MaxChanges \in Nat /\ MaxSwitches \in Nat /\ MaxVisits \in Nat /\ MaxDead \in Nat

VARIABLES
  (* the page *)
  visits,      \* visits to the page so far
  mounted,     \* the page is shown
  online,      \* App has the relayer's info (props.info)
  viewOwner,   \* the inspected owner, "none" at first
  op,          \* what the page says of its last action
  (* usePoll *)
  ran,         \* the key its effect last ran for
  refreshed,   \* refresh() was called since
  poll,        \* the effect's chain of polls
  dead,        \* requests under way of effects that were cleaned up
  data,        \* what is shown
  (* the wallet *)
  account,     \* the account the wallet has selected for this site
  messages,    \* answers and events on their way to the page, in order
  shown,       \* useWallet's account
  switches,
  (* calls of act() *)
  act,
  (* chain, and what was shown before *)
  version,     \* version[o]: how often o's policies and allowance changed
  seen         \* seen[o]: the newest version the page has shown

hookVars == <<ran, refreshed, poll, dead, data, seen>>
walletVars == <<account, messages, shown, switches>>
pageVars == <<visits, mounted, online, viewOwner>>
vars == <<pageVars, op, hookVars, walletVars, act, version>>

Nobody == "none"
Owners == Accounts \union {Nobody}
Views == [owner : Accounts, version : Nat]
Nothing == [owner |-> Nobody, version |-> 0]
NoOperation == [stage |-> "none", owner |-> Nobody, version |-> 0]
Idle == [stage |-> "idle", owner |-> Nobody, signer |-> Nobody, version |-> 0, mine |-> FALSE]
Off == [at |-> "off", owner |-> Nobody, version |-> 0]

UnderWay == {"Checking chain", "Confirm in wallet", "Waiting for confirmation"}
Said == UnderWay \union {"none", "confirmed", "not confirmed"}
Busy == op.stage \in UnderWay

TypeOK ==
  /\ mounted \in BOOLEAN /\ online \in BOOLEAN /\ refreshed \in BOOLEAN
  /\ viewOwner \in Owners /\ account \in Owners /\ shown \in Owners
  /\ messages \in Seq(Owners)
  /\ ran \in Owners \X BOOLEAN
  /\ data \in Views \union {Nothing}
  /\ op \in [stage : Said, owner : Owners, version : Nat]
  /\ poll \in [at : {"off", "asking", "answered", "timer"}, owner : Owners, version : Nat]
  /\ dead \subseteq [at : {"asking", "answered"}, owner : Owners, version : Nat]
  /\ act \in [Acts -> [stage : {"idle", "token", "contracts", "prompt", "mining", "mined"},
                       owner : Owners, signer : Owners, version : Nat, mine : BOOLEAN]]
  /\ version \in [Accounts -> Nat] /\ seen \in [Accounts -> Nat]

(* The wallet answers eth_accounts, asked when the app starts, first.      *)
Init ==
  /\ visits = 1 /\ mounted = TRUE /\ online \in BOOLEAN /\ viewOwner = Nobody
  /\ op = NoOperation
  /\ ran = <<Nobody, FALSE>> /\ refreshed = TRUE /\ poll = Off /\ dead = {} /\ data = Nothing
  /\ account \in Owners /\ messages = <<account>> /\ shown = Nobody /\ switches = 0
  /\ act = [a \in Acts |-> Idle]
  /\ version = [o \in Accounts |-> 0] /\ seen = [o \in Accounts |-> 0]

-----------------------------------------------------------------------------
(* usePoll                                                                 *)

Key == <<viewOwner, online>>
EffectDue == mounted /\ (refreshed \/ ran # Key)

(* A request asks for the inspected owner; without one, or without info,   *)
(* the loader answers null by itself.                                      *)
Asked == [at |-> "asking", version |-> 0, owner |-> IF online THEN viewOwner ELSE Nobody]

(* What becomes of the request of an effect that is cleaned up.            *)
Abandoned ==
  IF poll.at \in {"asking", "answered"} THEN dead \union {poll} ELSE dead

(* The cleanup of the old effect, then the new one: forget what is shown,  *)
(* and ask.                                                                *)
RunEffect ==
  /\ EffectDue
  /\ Cardinality(Abandoned) <= MaxDead /\ dead' = Abandoned
  /\ ran' = Key /\ refreshed' = FALSE /\ data' = Nothing /\ poll' = Asked
  /\ UNCHANGED <<pageVars, op, walletVars, act, version, seen>>

TimerFires ==
  /\ poll.at = "timer" /\ poll' = Asked
  /\ UNCHANGED <<pageVars, op, ran, refreshed, dead, data, seen, walletVars, act, version>>

(* The relayer reads the chain, at a moment of its own.                    *)
WithAnswer(p) == [p EXCEPT !.at = "answered", !.version = version[p.owner]]

ApiAnswers ==
  /\ poll.at = "asking" /\ poll.owner # Nobody
  /\ poll' = WithAnswer(poll)
  /\ UNCHANGED <<pageVars, op, ran, refreshed, dead, data, seen, walletVars, act, version>>

(* The request returns: its answer is shown, or its failure, and the next  *)
(* one is scheduled.                                                       *)
OnSuccessOnly(ok) == [Off EXCEPT !.at = IF ok THEN "timer" ELSE "off"]
Rearmed(ok) == [Off EXCEPT !.at = "timer"]

Show(p) ==
  /\ data' = [owner |-> p.owner, version |-> p.version]
  /\ seen' = [seen EXCEPT ![p.owner] = IF p.version > @ THEN p.version ELSE @]

PollReturns ==
  /\ poll.at = "answered"
  /\ Show(poll) /\ poll' = Rearmed(TRUE)
  /\ UNCHANGED <<pageVars, op, ran, refreshed, dead, walletVars, act, version>>

PollReturnsNull ==
  /\ poll.at = "asking" /\ poll.owner = Nobody
  /\ data' = Nothing /\ poll' = Rearmed(TRUE)
  /\ UNCHANGED <<pageVars, op, ran, refreshed, dead, seen, walletVars, act, version>>

PollThrows ==
  /\ poll.at \in {"asking", "answered"} /\ poll.owner # Nobody
  /\ poll' = Rearmed(FALSE)
  /\ UNCHANGED <<pageVars, op, ran, refreshed, dead, data, seen, walletVars, act, version>>

(* The request of an effect that is gone returns, perhaps answered only    *)
(* now: `active` is false.                                                 *)
IgnoresActive(p) ==
  IF p.owner = Nobody THEN UNCHANGED <<data, seen>>
  ELSE Show(IF p.at = "answered" THEN p ELSE WithAnswer(p))
Drop(p) == UNCHANGED <<data, seen>>

DeadReturns ==
  /\ \E p \in dead : Drop(p) /\ dead' = dead \ {p}
  /\ UNCHANGED <<pageVars, op, ran, refreshed, poll, walletVars, act, version>>

-----------------------------------------------------------------------------
(* What changes the key: the page, the wallet, the owner form.  Each       *)
(* renders, so the effects of the render before it have run.               *)

Renders == ~EffectDue

Inspect ==
  /\ Renders /\ mounted
  /\ viewOwner' \in Accounts
  /\ UNCHANGED <<visits, mounted, online, op, hookVars, walletVars, act, version>>

ToggleOnline ==
  /\ Renders /\ online' = ~online
  /\ UNCHANGED <<visits, mounted, viewOwner, op, hookVars, walletVars, act, version>>

(* Leaving the page drops its state; what it awaits goes on.               *)
Leave ==
  /\ Renders /\ mounted /\ visits < MaxVisits
  /\ Cardinality(Abandoned) <= MaxDead /\ dead' = Abandoned
  /\ mounted' = FALSE /\ viewOwner' = Nobody /\ op' = NoOperation
  /\ ran' = <<Nobody, FALSE>> /\ refreshed' = FALSE /\ poll' = Off /\ data' = Nothing
  /\ act' = [a \in Acts |-> [act[a] EXCEPT !.mine = FALSE]]
  /\ UNCHANGED <<visits, online, seen, walletVars, version>>

Visit ==
  /\ ~mounted /\ mounted' = TRUE /\ visits' = visits + 1
  /\ viewOwner' = shown /\ refreshed' = TRUE
  /\ UNCHANGED <<online, op, ran, poll, dead, data, seen, walletVars, act, version>>

(* The wallet: the owner selects another account, or disconnects the site. *)
Switch ==
  /\ switches < MaxSwitches /\ switches' = switches + 1
  /\ account' \in Owners \ {account}
  /\ messages' = Append(messages, account')
  /\ UNCHANGED <<pageVars, op, hookVars, shown, act, version>>

(* eth_accounts' answer, accountsChanged, disconnect, connect's answer; a  *)
(* new account is inspected.                                               *)
Follows(o) == IF mounted /\ o \notin {Nobody, shown} THEN o ELSE viewOwner

Deliver ==
  /\ Renders /\ messages # <<>>
  /\ messages' = Tail(messages) /\ shown' = Head(messages)
  /\ viewOwner' = Follows(Head(messages))
  /\ UNCHANGED <<visits, mounted, online, op, hookVars, account, switches, act, version>>

-----------------------------------------------------------------------------
(* act                                                                     *)

InFlight == \E a \in Acts : act[a].mine
CanWrite == online /\ viewOwner # Nobody /\ shown = viewOwner /\ ~Busy

Says(a, stage) ==
  IF act[a].mine THEN op' = [op EXCEPT !.stage = stage] ELSE UNCHANGED op

(* Revoking reads no token.                                                *)
Begin(a) ==
  /\ Renders /\ mounted /\ CanWrite /\ ~InFlight /\ act[a] = Idle
  /\ \E s \in {"token", "contracts"} :
       /\ act' = [act EXCEPT ![a] = [Idle EXCEPT !.stage = s, !.owner = viewOwner, !.mine = TRUE]]
       /\ op' = [stage |-> IF s = "token" THEN "Checking chain" ELSE "Confirm in wallet",
                 owner |-> viewOwner, version |-> 0]
  /\ UNCHANGED <<pageVars, hookVars, walletVars, version>>

TokenRead(a) ==
  /\ act[a].stage = "token" /\ act' = [act EXCEPT ![a].stage = "contracts"]
  /\ Says(a, "Confirm in wallet")
  /\ UNCHANGED <<pageVars, hookVars, walletVars, version>>

(* The signer is the account the wallet has selected now.                  *)
AnySigner(owner, signer) == signer # Nobody
MaySign(owner, signer) == signer = owner

WalletContracts(a) ==
  /\ act[a].stage = "contracts" /\ MaySign(act[a].owner, account)
  /\ act' = [act EXCEPT ![a].stage = "prompt", ![a].signer = account]
  /\ UNCHANGED <<pageVars, op, hookVars, walletVars, version>>

Send(a) ==
  /\ act[a].stage = "prompt" /\ act' = [act EXCEPT ![a].stage = "mining"]
  /\ Says(a, "Waiting for confirmation")
  /\ UNCHANGED <<pageVars, hookVars, walletVars, version>>

(* The transaction changes its signer's policies or allowance.             *)
Mined(a) ==
  /\ act[a].stage = "mining" /\ version[act[a].signer] < MaxChanges
  /\ version' = [version EXCEPT ![act[a].signer] = @ + 1]
  /\ act' = [act EXCEPT ![a].stage = "mined", ![a].version = version[act[a].signer] + 1]
  /\ UNCHANGED <<pageVars, op, hookVars, walletVars>>

(* The receipt arrives; the page asks again.                               *)
NoRefresh == refreshed
Refreshed == TRUE

Confirm(a) ==
  /\ act[a].stage = "mined" /\ act' = [act EXCEPT ![a] = Idle]
  /\ IF act[a].mine
       THEN /\ op' = [op EXCEPT !.stage = "confirmed", !.version = act[a].version]
            /\ refreshed' = Refreshed
       ELSE UNCHANGED <<op, refreshed>>
  /\ UNCHANGED <<pageVars, ran, poll, dead, data, seen, walletVars, version>>

(* A check, the wallet, the node or the transaction fails.                 *)
Sent(a) == act[a].stage \in {"mining", "mined"}
KeepsUnsent(a) == IF Sent(a) THEN [op EXCEPT !.stage = "not confirmed"] ELSE op
AfterFailure(a) == IF Sent(a) THEN [op EXCEPT !.stage = "not confirmed"] ELSE NoOperation

Fail(a) ==
  /\ act[a].stage # "idle" /\ act' = [act EXCEPT ![a] = Idle]
  /\ op' = IF act[a].mine THEN AfterFailure(a) ELSE op
  /\ UNCHANGED <<pageVars, hookVars, walletVars, version>>

Act(a) ==
  \/ Begin(a) \/ TokenRead(a) \/ WalletContracts(a) \/ Send(a)
  \/ Mined(a) \/ Confirm(a) \/ Fail(a)

(* Anybody's transaction, the executor's among them, changes a policy.     *)
ChainChanges ==
  /\ \E o \in Accounts : version[o] < MaxChanges /\ version' = [version EXCEPT ![o] = @ + 1]
  /\ UNCHANGED <<pageVars, op, hookVars, walletVars, act>>

Poll ==
  \/ RunEffect \/ TimerFires \/ ApiAnswers
  \/ PollReturns \/ PollReturnsNull \/ PollThrows \/ DeadReturns

Next ==
  \/ Poll \/ Inspect \/ ToggleOnline \/ Leave \/ Visit \/ Switch \/ Deliver
  \/ \E a \in Acts : Act(a)
  \/ ChainChanges

Spec == Init /\ [][Next]_vars

-----------------------------------------------------------------------------
(* Properties                                                              *)

(* What the hook relies on: its chain of polls ends only with the effect,  *)
(* and asks for the owner the effect last ran for; ...                     *)
PollFollowsEffect ==
  /\ poll.at # "off" => mounted
  /\ mounted /\ ~refreshed => poll.at # "off"
  /\ poll.at \in {"asking", "answered"} /\ ~EffectDue =>
       poll.owner = IF online THEN viewOwner ELSE Nobody

(* ... an answer is no older than what was shown before it was given, nor, *)
(* while a confirmation is displayed, than the transaction confirmed.      *)
AnswersAreFresh ==
  /\ \A o \in Accounts : seen[o] <= version[o]
  /\ poll.at = "answered" =>
       /\ poll.owner \in Accounts
       /\ seen[poll.owner] <= poll.version /\ poll.version <= version[poll.owner]
       /\ op.stage = "confirmed" /\ ~EffectDue /\ poll.owner = op.owner =>
            op.version <= poll.version

(* And act: at most one call belongs to this visit, it is the one the page *)
(* tells about, and its signer is the owner it was begun for.              *)
CallsAreTheOwners ==
  /\ \A a, b \in Acts : act[a].mine /\ act[b].mine => a = b
  /\ Busy <=> InFlight
  /\ op.stage = "confirmed" => op.owner \in Accounts /\ op.version <= version[op.owner]
  /\ \A a \in Acts :
       /\ act[a].stage # "idle" => act[a].owner \in Accounts
       /\ act[a].stage \in {"prompt", "mining", "mined"} => act[a].signer = act[a].owner
       /\ act[a].stage = "mined" => act[a].version <= version[act[a].signer]
       /\ act[a].mine => mounted /\ act[a].stage # "idle" /\ op.owner = act[a].owner

PInv == TypeOK /\ PollFollowsEffect /\ AnswersAreFresh /\ CallsAreTheOwners

(* The policies shown are those of the owner inspected, however requests,  *)
(* account switches and visits overlap: usePoll's `active` flag.           *)
ShownBelongsToOwner ==
  ~EffectDue /\ data # Nothing => mounted /\ data.owner = viewOwner

(* The page never goes back to an older state of an owner's policies, even *)
(* when a slow answer arrives after a newer one was shown.                 *)
NeverShowsOlder ==
  [][data' # data /\ data' # Nothing => data'.version >= seen[data'.owner]]_vars

(* apps/web README.md:51, "updates after the receipt": while the page says that an  *)
(* owner's transaction is confirmed, it never shows that owner's policies  *)
(* as they were before it.                                                 *)
ConfirmedIsShown ==
  op.stage = "confirmed" /\ ~EffectDue /\ data # Nothing /\ data.owner = op.owner =>
    data.version >= op.version

(* What the page calls confirmed did change the policies of the owner it   *)
(* names, although the wallet may select another account after the button  *)
(* was pressed and before the page hears of it: the check of               *)
(* walletContracts.                                                        *)
ConfirmedConcernsOwner ==
  op.stage = "confirmed" => version[op.owner] >= op.version
=============================================================================

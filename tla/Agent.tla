-------------------------------- MODULE Agent -------------------------------
(***************************************************************************)
(* The agent SDK: ScheduledTransferAgent (agent.ts) over its SQLite        *)
(* journal (journal.ts), the policy check (policy.ts) and the HTTP client  *)
(* (relayer-client.ts).  The relayer's inbox, the contract and the owner   *)
(* are the environment, seen only through the answers they give.           *)
(*                                                                         *)
(* One thread: what the agent does between two awaits is one step, or, in  *)
(* the loop over the occurrences, one step per occurrence.  `journal` is   *)
(* what the agent's database connection sees, `disk` what a crash leaves;  *)
(* they differ only while signNew holds its transaction open.              *)
(***************************************************************************)
EXTENDS Integers, Sequences, FiniteSets, FiniteSetsExt

CONSTANTS
  Schedules,       \* a sequence of schedules, in the order of their ids
  Owners,
  Grants,          \* Grants[e]: the [budget, max, validUntil] an owner may configure for epoch e
  MaxEpoch, MaxTime, MaxCrashes      \* bounds of the model

(* What normalizeSchedule lets through. *)
ValidSchedules ==
  [owner : Owners, amount : Nat \ {0}, startAt : Nat,
   intervalSec : Nat \ {0}, count : Nat \ {0}, windowSec : Nat \ {0}]

ASSUME SchedulesAssumption == Schedules \in Seq(ValidSchedules)
ASSUME GrantsAssumption ==
  Grants \in [1 .. MaxEpoch -> SUBSET [budget : Nat, max : Nat, validUntil : Nat]]
ASSUME BoundsAssumption == MaxEpoch \in Nat /\ MaxTime \in Nat /\ MaxCrashes \in Nat

(* Occurrence <<s, k>> is the k-th of schedule s. *)
Occurrences == UNION {{s} \X (0 .. Schedules[s].count - 1) : s \in DOMAIN Schedules}
Of(o) == Schedules[o[1]]
Due(o) == Of(o).startAt + o[2] * Of(o).intervalSec
WindowEnd(o) == Due(o) + Of(o).windowSec

(* A signed intent, together with the occurrence it was signed for; token  *)
(* and recipient are those of the schedule.                                *)
Intents == [for : Occurrences, owner : Owners, epoch : Nat, nonce : Nat, amount : Nat,
            deadline : Nat]
NoIntent == [for |-> <<0, 0>>]

VARIABLES
  (* the agent *)
  journal,    \* [schedules, state, signed, next] as the agent sees it
  disk,       \* the same, as committed
  pc,         \* what tick() waits for: "sign", "submit", "status"; "next" in its loop
  todo,       \* the occurrences this tick still has to consider
  tickNow,    \* the time the tick read when it began
  draft,      \* the intent about to be signed
  (* its environment *)
  now,        \* the clock
  answer,     \* the relayer's answer on its way back, "none" before
  late,       \* submissions the client gave up on, still on their way
  inbox,      \* inbox[x]: what the relayer says of intent x
  policy,     \* policy[w]: the contract's policy for owner w
  granted,    \* granted[w][e]: the budget of owner w's epoch e
  executed,   \* the intents executed on the chain
  sent,       \* every signed intent that ever left the process
  crashes

journalVars == <<journal, disk>>
tickVars == <<pc, todo, tickNow, draft>>
chainVars == <<policy, granted, executed>>
outside == <<now, late, inbox, chainVars>>
vars == <<journalVars, tickVars, answer, outside, sent, crashes>>

(* LIVE stands for the relayer's states from RECEIVED to RECONCILING, and  *)
(* ABANDONED for REJECTED and EXPIRED, and for FAILED when it is the       *)
(* relayer's word.                                                         *)
Reported == {"LIVE", "CONFIRMED", "ABANDONED"}
Terminal == {"CONFIRMED", "ABANDONED", "FAILED", "SKIPPED"}
States == {"NONE", "SIGNED"} \union Reported \union Terminal
Replies == Reported \union {"refused", "unavailable"}

Policies == [active : BOOLEAN, epoch : Nat, spent : Nat, budget : Nat, max : Nat,
             validUntil : Nat]
Journals == [schedules : SUBSET DOMAIN Schedules,
             state : [Occurrences -> States],
             signed : [Occurrences -> Intents \union {NoIntent}],
             next : [Owners -> [0 .. MaxEpoch -> Nat]]]

TypeOK ==
  /\ journal \in Journals /\ disk \in Journals
  /\ pc \in {"idle", "next", "sign", "submit", "status"}
  /\ todo \subseteq Occurrences
  /\ draft \in Intents \union {NoIntent}
  /\ now \in Nat /\ tickNow \in Nat /\ crashes \in Nat
  /\ answer \in Replies \union {"none"}
  /\ sent \subseteq Intents /\ late \subseteq sent /\ executed \subseteq sent
  /\ DOMAIN inbox \subseteq sent /\ inbox \in [DOMAIN inbox -> Reported]
  /\ policy \in [Owners -> Policies]
  /\ granted \in [Owners -> [0 .. MaxEpoch -> Nat]]

Unconfigured == [active |-> FALSE, epoch |-> 0, spent |-> 0, budget |-> 0, max |-> 0,
                 validUntil |-> 0]

Init ==
  /\ journal = [schedules |-> {}, state |-> [o \in Occurrences |-> "NONE"],
                signed |-> [o \in Occurrences |-> NoIntent],
                next |-> [w \in Owners |-> [e \in 0 .. MaxEpoch |-> 0]]]
  /\ disk = journal
  /\ pc = "idle" /\ todo = {} /\ tickNow = 0 /\ draft = NoIntent
  /\ now = 0 /\ answer = "none" /\ late = {} /\ inbox = [x \in {} |-> "LIVE"]
  /\ policy = [w \in Owners |-> Unconfigured]
  /\ granted = [w \in Owners |-> [e \in 0 .. MaxEpoch |-> 0]]
  /\ executed = {} /\ sent = {} /\ crashes = 0

-----------------------------------------------------------------------------
(* The journal.                                                            *)
(*                                                                         *)
(* Faulty variants of a definition stand before it, named for what they    *)
(* forget; no specification uses them.                                     *)

(* A statement commits by itself, unless it runs while signNew waits for   *)
(* the signer between BEGIN and COMMIT.                                    *)
Write(j) ==
  /\ journal' = j
  /\ disk' = IF pc = "sign" THEN disk ELSE j

(* What was written since BEGIN becomes durable. *)
NeverCommits(j) == journal' = j /\ UNCHANGED disk
Commit(j) == journal' = j /\ disk' = j

(* Registering a schedule again changes nothing. *)
Register(s) ==
  /\ s \notin journal.schedules
  /\ Write([journal EXCEPT !.schedules = @ \union {s}])
  /\ UNCHANGED <<tickVars, answer, outside, sent, crashes>>

(* markSkipped, on an occurrence without a row. *)
Skipped(o) == [journal EXCEPT !.state[o] = "SKIPPED"]

(* setState: a terminal occurrence keeps its state. *)
WithState(o, s) ==
  IF journal.state[o] \in Terminal THEN journal ELSE [journal EXCEPT !.state[o] = s]

(* spend: what the signatures of an epoch stand for. *)
Signatures(w, e) ==
  {x \in {journal.signed[o] : o \in Occurrences} \ {NoIntent} : x.owner = w /\ x.epoch = e}
Sum(S) == SumFunctionOnSet([x \in S |-> x.amount], S)
ConfirmedSpend(w, e) ==
  Sum({x \in Signatures(w, e) : journal.state[x.for] = "CONFIRMED"})
OnlyLiveReserved(w, e) ==
  Sum({x \in Signatures(w, e) : journal.state[x.for] \notin Terminal})
ReservedSpend(w, e) ==
  Sum({x \in Signatures(w, e) : journal.state[x.for] # "CONFIRMED"})

-----------------------------------------------------------------------------
(* tick *)

EndTick == pc' = "idle" /\ todo' = {} /\ tickNow' = 0 /\ draft' = NoIntent

BeginTick ==
  /\ pc = "idle"
  /\ pc' = "next" /\ tickNow' = now
  /\ todo' = {o \in Occurrences : o[1] \in journal.schedules}
  /\ UNCHANGED <<journalVars, draft, answer, outside, sent, crashes>>

TickDone ==
  /\ pc = "next" /\ todo = {}
  /\ EndTick
  /\ UNCHANGED <<journalVars, answer, outside, sent, crashes>>

(* By schedule id, then by index. *)
Precedes(o, p) == o[1] < p[1] \/ (o[1] = p[1] /\ o[2] <= p[2])
At == CHOOSE o \in todo : \A p \in todo : Precedes(o, p)

Considers == pc = "next" /\ todo # {}
GoOn == pc' = "next" /\ todo' = todo \ {At} /\ draft' = NoIntent /\ UNCHANGED tickNow

(* An occurrence without a row, one to submit, one the relayer has. *)
RetriesFailed(o) == journal.state[o] \in {"NONE", "FAILED"}
Unopened(o) == journal.state[o] = "NONE"
SubmitsInWindowOnly(o) == journal.state[o] = "SIGNED" /\ tickNow <= WindowEnd(o)
Stored(o) == journal.state[o] = "SIGNED"
Accepted(o) == journal.state[o] = "LIVE"

NothingToDo ==
  /\ Considers
  /\ \/ Unopened(At) /\ tickNow < Due(At)
     \/ journal.state[At] \in Terminal
  /\ GoOn
  /\ UNCHANGED <<journalVars, answer, outside, sent, crashes>>

SkipMissed ==
  /\ Considers
  /\ Unopened(At) /\ tickNow > WindowEnd(At)
  /\ Write(Skipped(At))
  /\ GoOn
  /\ UNCHANGED <<answer, outside, sent, crashes>>

(* open: the policy is read, at a moment of its own between two steps of   *)
(* the chain, and the agent skips, blocks or begins to sign.               *)
Opens == Considers /\ Unopened(At) /\ tickNow \in Due(At) .. WindowEnd(At)
Read == policy[Of(At).owner]

(* cappedDeadline *)
PolicyDeadline == Read.validUntil
Deadline == IF WindowEnd(At) < Read.validUntil THEN WindowEnd(At) ELSE Read.validUntil
NoTimeLeft == Deadline < Due(At) \/ Deadline < tickNow

(* assertIntentAllowed, with the signatures not yet spent on the chain. *)
Pending ==
  LET w == Of(At).owner
      confirmed == ConfirmedSpend(w, Read.epoch)
  IN ReservedSpend(w, Read.epoch)
       + IF confirmed > Read.spent THEN confirmed - Read.spent ELSE 0

WithinBudget == Of(At).amount <= Read.budget - Read.spent - Pending

Allowed ==
  /\ Read.active /\ tickNow <= Read.validUntil
  /\ Of(At).amount <= Read.max
  /\ WithinBudget

SkipForGood ==
  /\ Opens /\ NoTimeLeft
  /\ Write(Skipped(At))
  /\ GoOn
  /\ UNCHANGED <<answer, outside, sent, crashes>>

(* Not allowed now, or the policy cannot be read: nothing is stored. *)
Block ==
  /\ Opens
  /\ GoOn
  /\ UNCHANGED <<journalVars, answer, outside, sent, crashes>>

(* signNew: BEGIN, the next nonce of the epoch, and the signer is asked. *)
BeginSigning ==
  /\ Opens /\ ~NoTimeLeft /\ Allowed
  /\ draft' = [for |-> At, owner |-> Of(At).owner, epoch |-> Read.epoch,
               nonce |-> journal.next[Of(At).owner][Read.epoch],
               amount |-> Of(At).amount, deadline |-> Deadline]
  /\ pc' = "sign"
  /\ UNCHANGED <<journalVars, todo, tickNow, answer, outside, sent, crashes>>

NonceKept == journal.next
NonceTaken == [journal.next EXCEPT ![draft.owner][draft.epoch] = draft.nonce + 1]

(* The signature arrives and is stored with its nonce.  The loop then      *)
(* finds the occurrence SIGNED and submits it.                             *)
SignReturns ==
  /\ pc = "sign"
  /\ Commit([journal EXCEPT !.state[At] = "SIGNED", !.signed[At] = draft,
                            !.next = NonceTaken])
  /\ pc' = "next" /\ draft' = NoIntent
  /\ UNCHANGED <<todo, tickNow, answer, outside, sent, crashes>>

(* The signer fails: ROLLBACK, and the error ends the tick. *)
SignThrows ==
  /\ pc = "sign"
  /\ journal' = disk /\ UNCHANGED disk
  /\ EndTick
  /\ UNCHANGED <<answer, outside, sent, crashes>>

(* submitStored, for this tick's signature or an earlier run's. *)
Submit ==
  /\ Considers /\ Stored(At)
  /\ sent' = sent \union {journal.signed[At]}
  /\ pc' = "submit"
  /\ UNCHANGED <<journalVars, todo, tickNow, draft, answer, outside, crashes>>

(* refresh *)
AskStatus ==
  /\ Considers /\ Accepted(At)
  /\ pc' = "status"
  /\ UNCHANGED <<journalVars, todo, tickNow, draft, answer, outside, sent, crashes>>

(* What an answer makes of the occurrence: a 4xx to a submission ends it,  *)
(* a 5xx, or any error to a status request, leaves it for another tick.    *)
KeepsRefusal(reply) == reply
AcceptedIsConfirmed(reply) == IF reply = "refused" THEN "FAILED" ELSE "CONFIRMED"
Result(reply) == IF reply = "refused" THEN "FAILED" ELSE reply

Answered ==
  /\ pc \in {"submit", "status"} /\ answer # "none"
  /\ IF answer = "unavailable" \/ (answer = "refused" /\ pc = "status")
     THEN UNCHANGED journalVars
     ELSE Write(WithState(At, Result(answer)))
  /\ GoOn /\ answer' = "none"
  /\ UNCHANGED <<outside, sent, crashes>>

(* The request under way may still reach the relayer when the client has   *)
(* given up on it.                                                         *)
MayArriveLate ==
  \/ UNCHANGED late
  \/ pc = "submit" /\ answer = "none" /\ late' = late \union {journal.signed[At]}

(* The call fails before its answer arrives. *)
Unreachable ==
  /\ pc \in {"submit", "status"}
  /\ GoOn /\ answer' = "none" /\ MayArriveLate
  /\ UNCHANGED <<journalVars, now, inbox, chainVars, sent, crashes>>

(* The process dies, and an open transaction with it; it starts again. *)
Crash ==
  /\ crashes < MaxCrashes /\ crashes' = crashes + 1
  /\ journal' = disk /\ UNCHANGED disk
  /\ EndTick /\ answer' = "none" /\ MayArriveLate
  /\ UNCHANGED <<now, inbox, chainVars, sent>>

-----------------------------------------------------------------------------
(* The relayer's API, as services/relayer/src/api.ts answers it.           *)

NonceReserved(x) ==
  \E y \in DOMAIN inbox : y.owner = x.owner /\ y.epoch = x.epoch /\ y.nonce = x.nonce

(* POST /intents: a known id is answered from its row; a new one may be    *)
(* refused for more reasons than the two that are modelled.                *)
Handles(x, reply) ==
  \/ x \in DOMAIN inbox /\ reply = inbox[x] /\ UNCHANGED inbox
  \/ x \notin DOMAIN inbox /\ reply \in {"refused", "unavailable"} /\ UNCHANGED inbox
  \/ /\ x \notin DOMAIN inbox /\ x.deadline >= now /\ ~NonceReserved(x)
     /\ reply = "LIVE"
     /\ inbox' = [y \in DOMAIN inbox \union {x} |-> IF y = x THEN "LIVE" ELSE inbox[y]]

HandleSubmission ==
  /\ pc = "submit" /\ answer = "none"
  /\ \E r \in Replies : Handles(journal.signed[At], r) /\ answer' = r
  /\ UNCHANGED <<journalVars, tickVars, now, late, chainVars, sent, crashes>>

HandleLate ==
  /\ \E x \in late : late' = late \ {x} /\ \E r \in Replies : Handles(x, r)
  /\ UNCHANGED <<journalVars, tickVars, answer, now, chainVars, sent, crashes>>

(* GET /intents/:intentId *)
HandleStatus ==
  /\ pc = "status" /\ answer = "none"
  /\ answer' = IF journal.signed[At] \in DOMAIN inbox THEN inbox[journal.signed[At]]
               ELSE "refused"
  /\ UNCHANGED <<journalVars, tickVars, outside, sent, crashes>>

(* The relayer reports CONFIRMED only for what is paid, and may give up on *)
(* anything else (module Settlement).                                      *)
Settle(x) ==
  /\ inbox[x] = "LIVE"
  /\ \/ x \in executed /\ inbox' = [inbox EXCEPT ![x] = "CONFIRMED"]
     \/ inbox' = [inbox EXCEPT ![x] = "ABANDONED"]
  /\ UNCHANGED <<journalVars, tickVars, answer, now, late, chainVars, sent, crashes>>

-----------------------------------------------------------------------------
(* The contract and the owner (module Executor).                           *)

inside == <<journalVars, tickVars, answer, late, inbox, sent, crashes>>

(* Anybody who holds a signature may have it executed. *)
Execute(x) ==
  /\ x \notin executed
  /\ policy[x.owner].active /\ policy[x.owner].epoch = x.epoch
  /\ now <= x.deadline /\ now <= policy[x.owner].validUntil
  /\ x.amount <= policy[x.owner].budget - policy[x.owner].spent
  /\ \A y \in executed : <<y.owner, y.epoch, y.nonce>> # <<x.owner, x.epoch, x.nonce>>
  /\ executed' = executed \union {x}
  /\ policy' = [policy EXCEPT ![x.owner].spent = @ + x.amount]
  /\ UNCHANGED <<inside, now, granted>>

Configure(w) ==
  /\ policy[w].epoch < MaxEpoch
  /\ \E g \in Grants[policy[w].epoch + 1] :
       /\ g.validUntil > now
       /\ policy' = [policy EXCEPT ![w] =
            [active |-> TRUE, epoch |-> @.epoch + 1, spent |-> 0, budget |-> g.budget,
             max |-> g.max, validUntil |-> g.validUntil]]
       /\ granted' = [granted EXCEPT ![w][policy[w].epoch + 1] = g.budget]
  /\ UNCHANGED <<inside, now, executed>>

Revoke(w) ==
  /\ policy[w].epoch < MaxEpoch
  /\ policy' = [policy EXCEPT ![w].active = FALSE, ![w].epoch = @ + 1]
  /\ UNCHANGED <<inside, now, granted, executed>>

ClockTicks ==
  /\ now < MaxTime /\ now' = now + 1
  /\ UNCHANGED <<inside, chainVars>>

-----------------------------------------------------------------------------
Consider ==
  NothingToDo \/ SkipMissed \/ SkipForGood \/ Block \/ BeginSigning \/ Submit \/ AskStatus
Tick == BeginTick \/ Consider \/ TickDone
Signer == SignReturns \/ SignThrows
Relayer == HandleSubmission \/ HandleLate \/ HandleStatus \/ \E x \in DOMAIN inbox : Settle(x)
Chain ==
  \/ \E x \in sent : Execute(x)
  \/ \E w \in Owners : Revoke(w) \/ Configure(w)

Next ==
  \/ \E s \in DOMAIN Schedules : Register(s)
  \/ Tick \/ Signer \/ Answered \/ Unreachable
  \/ Crash
  \/ Relayer \/ Chain \/ ClockTicks

Spec == Init /\ [][Next]_vars

-----------------------------------------------------------------------------
(***************************************************************************)
(* Safety                                                                  *)
(***************************************************************************)

(* What left the process is in the journal for good, as the one signature  *)
(* of its occurrence: whatever crashes or answers are lost in between, an  *)
(* occurrence is never signed twice and a skipped one never at all         *)
(* (agent.ts:23-26, "Signs each schedule occurrence at most once").        *)
OneSignaturePerOccurrence ==
  \A x \in sent : disk.signed[x.for] = x /\ disk.state[x.for] # "SKIPPED"

(* Nor do two of them share a nonce of one epoch, so the contract never    *)
(* refuses one because of the other (journal.ts:75).                       *)
NoncesAreDistinct ==
  \A x, y \in sent :
    x.owner = y.owner /\ x.epoch = y.epoch /\ x.nonce = y.nonce => x = y

(* What was signed is told apart, by the agent and by the contract.        *)
SignaturesAreUnique == OneSignaturePerOccurrence /\ NoncesAreDistinct

(* Whoever executes whichever of the signatures, in whatever order, they   *)
(* never ask for more than the budget of their epoch, though the agent     *)
(* reads `spent` at a moment of its own (journal.ts:125-128, agent.ts:111-113). *)
SignaturesFitBudget ==
  \A w \in Owners, e \in 0 .. MaxEpoch :
    Sum({x \in sent : x.owner = w /\ x.epoch = e}) <= granted[w][e]

(* The journal says CONFIRMED only of what the chain has executed.         *)
ConfirmedIsExecuted ==
  \A o \in Occurrences :
    disk.state[o] = "CONFIRMED" => disk.signed[o] \in executed

(* A terminal occurrence stays as it is, across crashes and answers to     *)
(* requests of an earlier life (journal.ts:196).                           *)
TerminalIsFinal ==
  [][\A o \in Occurrences : disk.state[o] \in Terminal => disk'.state[o] = disk.state[o]]_disk

(* Nothing is paid outside the window of the occurrence it was signed for: *)
(* the tick reads the clock once and signs by that reading after awaits of *)
(* any length, a restart resubmits whatever the time, and anybody may      *)
(* execute what it finds, but the deadline bounds them all (agent.ts:51,   *)
(* 95-98; sdk/README.md:37, "not signed late").                            *)
PaidInWindow ==
  [][\A x \in executed' \ executed : now \in Due(x.for) .. WindowEnd(x.for)]_executed

(***************************************************************************)
(* Why the above holds.                                                    *)
(***************************************************************************)

(* Only a registration can be waiting for signNew's COMMIT.                *)
JournalKept ==
  /\ disk.state = journal.state /\ disk.signed = journal.signed /\ disk.next = journal.next
  /\ pc # "sign" => disk = journal

(* An occurrence has a signature once it is neither new nor skipped, and   *)
(* the signature is for it, not before its time and not beyond its window. *)
IsFor(x, o) ==
  /\ x \in Intents
  /\ x.for = o /\ x.owner = Of(o).owner /\ x.epoch <= policy[x.owner].epoch
  /\ x.deadline <= WindowEnd(o) /\ Due(o) <= now

SignaturesStored ==
  \A o \in Occurrences :
    LET x == disk.signed[o] IN
    IF disk.state[o] \in {"NONE", "SKIPPED"} THEN x = NoIntent
    ELSE IsFor(x, o) /\ x.nonce < disk.next[x.owner][x.epoch]

NoncesStored ==
  \A o, p \in Occurrences :
    LET x == disk.signed[o]
        y == disk.signed[p]
    IN x # NoIntent /\ y # NoIntent /\ x.owner = y.owner /\ x.epoch = y.epoch /\ x.nonce = y.nonce
         => o = p

(* The occurrence the tick waits for is as the tick left it.               *)
Waiting ==
  /\ pc \in {"sign", "submit", "status"} => todo # {}
  /\ pc = "submit" => disk.state[At] = "SIGNED" /\ disk.signed[At] \in sent
  /\ pc = "status" => disk.state[At] = "LIVE"
  /\ answer # "none" => pc \in {"submit", "status"}
  /\ tickNow <= now

Drafted ==
  pc = "sign" =>
    /\ disk.state[At] = "NONE" /\ IsFor(draft, At)
    /\ draft.nonce = disk.next[draft.owner][draft.epoch]
    /\ Sum(Signatures(draft.owner, draft.epoch)) + draft.amount
         <= granted[draft.owner][draft.epoch]

ConfirmedIsPaid ==
  /\ \A x \in DOMAIN inbox : inbox[x] = "CONFIRMED" => x \in executed
  /\ answer = "CONFIRMED" => disk.signed[At] \in executed

(* All that is signed under an epoch, sent or not, was granted.            *)
GrantsKept ==
  /\ \A w \in Owners : /\ policy[w].epoch <= MaxEpoch
                       /\ policy[w].active => policy[w].budget = granted[w][policy[w].epoch]
  /\ \A w \in Owners, e \in 0 .. MaxEpoch : Sum(Signatures(w, e)) <= granted[w][e]

AgentInv ==
  /\ TypeOK /\ JournalKept /\ SignaturesStored /\ NoncesStored /\ OneSignaturePerOccurrence
  /\ Waiting /\ Drafted /\ ConfirmedIsPaid /\ ConfirmedIsExecuted /\ GrantsKept

(***************************************************************************)
(* Two statements of the documentation that the code does not keep.      *)
(***************************************************************************)

(* "plus local SKIPPED when the window passed with no signature"           *)
(* (docs/c-handoff.md:7).                                                  *)
SkippedMeansMissed ==
  \A o \in Occurrences : journal.state[o] = "SKIPPED" => now > WindowEnd(o)

(* "Durable schedule journal" (journal.ts:74): a schedule that register    *)
(* accepted stays registered.                                              *)
RegisteredIsDurable ==
  [][journal.schedules \subseteq journal'.schedules]_journal

(***************************************************************************)
(* Liveness.  The host keeps calling tick and a call ends one way or the   *)
(* other.  The signer does not fail for ever, nor is a request about one   *)
(* occurrence lost or answered with a 5xx for ever, and the relayer        *)
(* resolves what it accepted (module Relayer, EventuallyResolved).         *)
(***************************************************************************)
Handled == (HandleSubmission /\ answer' # "unavailable") \/ HandleStatus

Fairness ==
  /\ WF_vars(Tick \/ Signer \/ HandleSubmission \/ HandleStatus \/ Answered \/ Unreachable)
  /\ SF_vars(SignReturns)
  /\ \A o \in Occurrences :
       /\ SF_vars(Handled /\ At = o)
       /\ SF_vars(Answered /\ At = o /\ answer # "unavailable")
  /\ WF_vars(\E x \in DOMAIN inbox : Settle(x))

FairSpec == Spec /\ Fairness

(* A stored signature gets its outcome or is refused for good, whatever is *)
(* lost and whenever the process crashes; the window of its occurrence may *)
(* be over by then (agent.ts:24-25, "a restart resubmits that same         *)
(* signature").                                                            *)
SignedIsResolved ==
  \A o \in Occurrences : disk.state[o] = "SIGNED" ~> disk.state[o] \in Terminal
=============================================================================

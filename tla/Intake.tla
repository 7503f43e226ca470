------------------------------- MODULE Intake -------------------------------
(***************************************************************************)
(* The relayer's intake over the life of its database: POST /intents       *)
(* (api.ts), the checks of a submission (intent.ts), Store.insertIntent    *)
(* and recordRejection (store.ts), with what binds a database to its       *)
(* environment: the configuration a process starts with (config.ts,        *)
(* main.ts), the probe of the chain (evm.ts) and the store's identity.     *)
(*                                                                         *)
(* A handler runs without an await, so a request is one step; any request  *)
(* may come at any time, whatever its client sent before and however long  *)
(* it was under way.  A request that finds no process changes nothing.     *)
(* The coordinator appears as Finalize (module Relayer has it), the lock   *)
(* file and the signals not at all (module Service).                       *)
(***************************************************************************)
EXTENDS Integers, Sequences, FiniteSets, FiniteSetsExt

CONSTANTS
  Intents,     \* signed intents, by their digest
  Reserves,    \* Reserves[i]: owner, agent, epoch and nonce of intent i
  Deadline,    \* Deadline[i]
  SignedFor,   \* SignedFor[i]: the domain its agent signed it for
  Bodies,      \* the request bodies that clients send
  Configs,     \* the configurations a process may be started with
  Placeholder, \* the executor address of a mock domain
  Nodes,       \* the domains with an executor on the chain behind the RPC
  Capacity,    \* 10,000 in the store
  MaxTime, MaxStarts      \* bounds of the model

-----------------------------------------------------------------------------
(* Requests.                                                               *)

(* The checks of normalizeSubmission, then those of the handler and of     *)
(* insertIntent, in their order.                                           *)
Checks ==
  <<"INVALID_SCHEMA", "INVALID_ADDRESS", "INVALID_INTEGER", "INVALID_AMOUNT",
    "INVALID_TIME_WINDOW", "INVALID_RUN_ID", "INVALID_SIGNATURE",
    "INTENT_EXPIRED", "NONCE_CONFLICT", "QUEUE_FULL", "RUN_CONFIG_CHANGED">>
Form == {Checks[n] : n \in 1 .. 7}
Codes == {Checks[n] : n \in DOMAIN Checks}

Status(code) ==
  IF code \in {"NONCE_CONFLICT", "RUN_CONFIG_CHANGED"} THEN 409
  ELSE IF code = "QUEUE_FULL" THEN 503 ELSE 400

(* A body: the intent it carries, its run label, what is wrong with it.    *)
Labels == {b.label : b \in Bodies} \union {"default"}
IsBody(b) == b.intent \in Intents /\ b.faults \subseteq Form

(* A rejection is counted under the label of its body if that is one.      *)
Counted(b) == IF "INVALID_RUN_ID" \in b.faults THEN "default" ELSE b.label

-----------------------------------------------------------------------------
(* Configurations.                                                         *)

Limits == [batchSize : 1 .. 100, maxAttempts : 1 .. 10, maxBroadcasts : 1 .. 10]

(* loadConfig refuses values out of range, and a mock domain on a chain.   *)
Loads(c) ==
  /\ c.mode \in {"mock", "evm"} /\ c.limits \in Limits
  /\ c.mode = "evm" => c.domain.executor # Placeholder

(* initialize finds the configured chain and an executor on it.            *)
Ready(c) == c.mode = "evm" => c.domain \in Nodes

(* What must not change over the life of a database, and what must not     *)
(* change over an experiment.                                              *)
Identity(c) == [mode |-> c.mode, domain |-> c.domain, sender |-> c.sender]
Metadata(c) == [identity |-> Identity(c), limits |-> c.limits]

ASSUME RequestsAssumption ==
  /\ \A b \in Bodies : IsBody(b)
  /\ Deadline \in [Intents -> Nat]
  /\ DOMAIN Reserves = Intents /\ DOMAIN SignedFor = Intents
ASSUME BoundsAssumption ==
  Capacity \in Nat \ {0} /\ MaxTime \in Nat /\ MaxStarts \in Nat

None == [mode |-> "none"]
Nothing == [body |-> None, code |-> "none"]
NoRow == [run |-> "none", metadata |-> None, open |-> FALSE]

VARIABLES
  config,      \* the configuration of the process, None while there is none
  identity,    \* of the database, None before its first process
  rows,        \* rows[i]: run, open until terminal, and what the process that
               \* inserted it was configured with; NoRow before
  runs,        \* runs[l]: the metadata stored with run l, None before
  rejections,  \* rows [body, run, code], one for a body and a run
  now,         \* the clock
  starts,
  (* what clients were told *)
  reply,       \* the last answer
  accepted,    \* the intents answered with 200 or 202
  refused      \* the bodies answered with another code, each with the codes

tables == <<identity, rows, runs, rejections>>
vars == <<config, tables, now, starts, reply, accepted, refused>>

Rows == [run : Labels, metadata : {Metadata(c) : c \in Configs}, open : BOOLEAN]

TypeOK ==
  /\ config \in {c \in Configs : Loads(c)} \union {None}
  /\ identity \in {Identity(c) : c \in Configs} \union {None}
  /\ rows \in [Intents -> Rows \union {NoRow}]
  /\ runs \in [Labels -> {Metadata(c) : c \in Configs} \union {None}]
  /\ \A r \in rejections : r.body \in Bodies /\ r.run \in Labels /\ r.code \in Codes
  /\ now \in 0 .. MaxTime /\ starts \in 0 .. MaxStarts
  /\ accepted \subseteq Intents /\ refused \subseteq Bodies \X Codes

Init ==
  /\ config = None /\ identity = None
  /\ rows = [i \in Intents |-> NoRow] /\ runs = [l \in Labels |-> None]
  /\ rejections = {}
  /\ now = 0 /\ starts = 0
  /\ reply = Nothing /\ accepted = {} /\ refused = {}

-----------------------------------------------------------------------------
(* The process.                                                            *)
(*                                                                         *)
(* Faulty variants of a definition stand before it, named for what they    *)
(* forget; no specification uses them.                                     *)

(* A database belongs to one environment. *)
AnyIdentity(c) == TRUE
BelongsTo(c) == identity \in {None, Identity(c)}

(* A start that fails leaves the database as it was.                       *)
Start(c) ==
  /\ config = None /\ starts < MaxStarts /\ starts' = starts + 1
  /\ Loads(c) /\ Ready(c) /\ BelongsTo(c)
  /\ config' = c /\ identity' = Identity(c)
  /\ UNCHANGED <<rows, runs, rejections, now, reply, accepted, refused>>

Stop ==
  /\ config # None /\ config' = None
  /\ UNCHANGED <<tables, now, starts, reply, accepted, refused>>

-----------------------------------------------------------------------------
(* POST /intents                                                           *)

Stored == {i \in Intents : rows[i] # NoRow}
Unresolved == {i \in Stored : rows[i].open}

UnresolvedOnly(i) == \E j \in Unresolved : Reserves[j] = Reserves[i]
NonceTaken(i) == \E j \in Stored : Reserves[j] = Reserves[i]

AtMost == Cardinality(Unresolved) > Capacity
Full == Cardinality(Unresolved) >= Capacity

(* A run goes on under the settings it began with. *)
AnyRun(l) == FALSE
RunClosed(l) == runs[l] \notin {None, Metadata(config)}

(* What speaks against a new intent. *)
Refuses(code, b) ==
  \/ code = "INTENT_EXPIRED" /\ Deadline[b.intent] < now
  \/ code = "NONCE_CONFLICT" /\ NonceTaken(b.intent)
  \/ code = "QUEUE_FULL" /\ Full
  \/ code = "RUN_CONFIG_CHANGED" /\ RunClosed(b.label)

(* normalizeSubmission: what is wrong with the body, for this domain.      *)
Malformed(code, b) ==
  code \in b.faults \/ (code = "INVALID_SIGNATURE" /\ SignedFor[b.intent] # config.domain)

(* A known digest is answered from its row before anything else is asked.  *)
ExpiryFirst(code, b) == b.intent \notin Stored \/ code = "INTENT_EXPIRED"
Asks(code, b) == b.intent \notin Stored

Obstacles(b) ==
  {n \in DOMAIN Checks :
     Malformed(Checks[n], b) \/ (Asks(Checks[n], b) /\ Refuses(Checks[n], b))}

(* The first check that fails decides. *)
Verdict(b) ==
  LET failing == Obstacles(b)
  IN  IF failing = {} THEN "ACCEPTED" ELSE Checks[Min(failing)]

(* INSERT OR IGNORE INTO runs, INSERT INTO intents *)
RunKept(b) == [runs EXCEPT ![b.label] = IF @ = None THEN Metadata(config) ELSE @]
Inserted(b) ==
  [rows EXCEPT ![b.intent] = [run |-> b.label, metadata |-> Metadata(config), open |-> TRUE]]

Accept(b) ==
  /\ config # None /\ Obstacles(b) = {}
  /\ reply' = [body |-> b, code |-> "ACCEPTED"]
  /\ accepted' = accepted \union {b.intent}
  /\ IF b.intent \in Stored THEN UNCHANGED <<rows, runs>>
     ELSE rows' = Inserted(b) /\ runs' = RunKept(b)
  /\ UNCHANGED <<config, identity, rejections, now, starts, refused>>

(* recordRejection: INSERT OR IGNORE, by run and body. *)
Recorded(b, code) ==
  IF \E r \in rejections : r.body = b /\ r.run = Counted(b) THEN rejections
  ELSE rejections \union {[body |-> b, run |-> Counted(b), code |-> code]}

EveryRefusal(code) == TRUE
IsRejection(code) == Status(code) < 500

Refuse(b) ==
  LET code == Verdict(b) IN
  /\ config # None /\ code # "ACCEPTED"
  /\ reply' = [body |-> b, code |-> code]
  /\ refused' = refused \union {<<b, code>>}
  /\ rejections' = IF IsRejection(code) THEN Recorded(b, code) ELSE rejections
  /\ UNCHANGED <<config, identity, rows, runs, now, starts, accepted>>

-----------------------------------------------------------------------------
(* The coordinator brings an intent to its end; time passes.               *)
Finalize(i) ==
  /\ config # None /\ i \in Unresolved
  /\ rows' = [rows EXCEPT ![i].open = FALSE]
  /\ UNCHANGED <<config, identity, runs, rejections, now, starts, reply, accepted, refused>>

Tick ==
  /\ now < MaxTime /\ now' = now + 1
  /\ UNCHANGED <<config, tables, starts, reply, accepted, refused>>

Next ==
  \/ \E c \in Configs : Start(c)
  \/ Stop
  \/ \E b \in Bodies : Accept(b) \/ Refuse(b)
  \/ \E i \in Intents : Finalize(i)
  \/ Tick

Spec == Init /\ [][Next]_vars

-----------------------------------------------------------------------------
(* Properties.                                                             *)

(* Every intent of a database was signed for the domain of every process   *)
(* that has it open, so that none is sent to another executor by a restart *)
(* (store.ts:37, "prevent accidental replay after changing environments"). *)
OneEnvironment ==
  /\ config # None => identity = Identity(config)
  /\ \A i \in Stored : identity # None /\ SignedFor[i] = identity.domain

(* The intents of a run were accepted under the settings stored with the   *)
(* run, which /metrics reports (README.md:172, "The store rejects reuse of *)
(* an experiment label under different metadata").                         *)
RunsAreUniform == \A i \in Stored : runs[rows[i].run] = rows[i].metadata

(* A nonce is reserved for good: no two rows share one (api.ts:27).        *)
NoncesAreReserved == \A i, j \in Stored : Reserves[i] = Reserves[j] => i = j

InboxWithinLimit == Cardinality(Unresolved) <= Capacity

(* apiRejectedUniquePayloads counts the bodies that were ever refused with *)
(* a status below 500, each once and with a code it was answered with; a   *)
(* body only refused for a full inbox is not among them                    *)
(* (README.md:170, store.ts:106-110).                                      *)
Rejected == {b \in Bodies : \E code \in Codes : Status(code) < 500 /\ <<b, code>> \in refused}
RejectionsTell ==
  /\ \A r \in rejections : r.body \in Rejected /\ <<r.body, r.code>> \in refused
  /\ \A b \in Rejected : \E r \in rejections : r.body = b /\ r.run = Counted(b)
  /\ \A r, s \in rejections : r.body = s.body => r = s

(* An answer holds for good.  An intent once accepted is accepted whenever *)
(* it is submitted again, after its deadline, to a full inbox, under other *)
(* settings, by another label (README.md:100, intent.ts:66).               *)
AcceptedForGood ==
  reply.code \in Codes /\ reply.body.faults = {} => reply.body.intent \notin accepted

(* An intent refused because it had expired or because its nonce was taken *)
(* is never accepted, nor is a body that was wrong: the client may give it *)
(* up for good.                                                            *)
MayChange == {"QUEUE_FULL", "RUN_CONFIG_CHANGED"}
RefusedForGood ==
  /\ \A r \in refused :
       r[2] \in {"INTENT_EXPIRED", "NONCE_CONFLICT"} => r[1].intent \notin accepted
  /\ \A r \in refused : reply = [body |-> r[1], code |-> "ACCEPTED"] => r[2] \in MayChange

(* Why the two above hold: what was said is still so.                      *)
StillSo(r) ==
  LET b == r[1]  code == r[2] IN
  \/ code \in b.faults
  \/ code = "INVALID_SIGNATURE" /\ SignedFor[b.intent] # identity.domain
  \/ code = "INTENT_EXPIRED" /\ b.intent \notin Stored /\ Deadline[b.intent] < now
  \/ code = "NONCE_CONFLICT" /\ b.intent \notin Stored /\ NonceTaken(b.intent)
  \/ code \in MayChange

AnswersStand ==
  /\ accepted = Stored
  /\ \A r \in refused : identity # None /\ StillSo(r)
  /\ reply.code = "ACCEPTED" => reply.body.intent \in accepted /\ reply.body.faults = {}
  /\ \A r \in rejections : r.run = Counted(r.body)
  /\ IsFiniteSet(Unresolved)

IntakeInv ==
  /\ TypeOK
  /\ OneEnvironment /\ RunsAreUniform /\ NoncesAreReserved /\ InboxWithinLimit
  /\ RejectionsTell /\ AcceptedForGood /\ RefusedForGood
  /\ AnswersStand
=============================================================================

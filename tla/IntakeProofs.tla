---------------------------- MODULE IntakeProofs ----------------------------
(***************************************************************************)
(* Theorems about Intake, for all intents, bodies, configurations, limits  *)
(* and numbers of starts.                                                  *)
(***************************************************************************)
EXTENDS Intake, SumTheorems, TLAPS

-----------------------------------------------------------------------------
(* The codes and the verdict.                                              *)

FormCodes == {"INVALID_SCHEMA", "INVALID_ADDRESS", "INVALID_INTEGER", "INVALID_AMOUNT",
              "INVALID_TIME_WINDOW", "INVALID_RUN_ID", "INVALID_SIGNATURE"}
StandingCodes == {"INTENT_EXPIRED", "NONCE_CONFLICT", "QUEUE_FULL", "RUN_CONFIG_CHANGED"}

LEMMA TheCodes ==
  /\ Form = FormCodes /\ Codes = FormCodes \union StandingCodes
  /\ DOMAIN Checks = 1 .. 11
<1>1. DOMAIN Checks = 1 .. 11
  BY DEF Checks
<1>2. /\ 1 .. 7 = {1, 2, 3, 4, 5, 6, 7}
      /\ 1 .. 11 = {1, 2, 3, 4, 5, 6, 7, 8, 9, 10, 11}
  OBVIOUS
<1>3. /\ Form = {Checks[1], Checks[2], Checks[3], Checks[4], Checks[5], Checks[6], Checks[7]}
      /\ Codes = Form \union {Checks[8], Checks[9], Checks[10], Checks[11]}
  BY <1>1, <1>2 DEF Form, Codes
<1>4. Form = FormCodes
  BY <1>3 DEF Checks, FormCodes
<1>5. /\ Checks[8] = "INTENT_EXPIRED" /\ Checks[9] = "NONCE_CONFLICT"
      /\ Checks[10] = "QUEUE_FULL" /\ Checks[11] = "RUN_CONFIG_CHANGED"
  BY DEF Checks
<1>6. QED
  BY <1>1, <1>3, <1>4, <1>5 DEF StandingCodes

(* The first check that fails is one that fails.                           *)
LEMMA VerdictIsObstacle ==
  ASSUME NEW b, Verdict(b) # "ACCEPTED"
  PROVE  \E n \in Obstacles(b) : Verdict(b) = Checks[n]
<1> DEFINE S == Obstacles(b)
<1>1. S # {} /\ Verdict(b) = Checks[Min(S)]
  BY DEF Verdict
<1>2. S \in SUBSET Nat
  BY TheCodes DEF Obstacles
<1> HIDE DEF S
<1>3. \E n \in S : \A m \in S : n <= m
  BY <1>1, <1>2, LeastNatural
<1>4. Min(S) \in S
  BY <1>3 DEF Min
<1>5. QED
  BY <1>1, <1>4 DEF S

LEMMA WhatARefusalSays ==
  ASSUME NEW b, Verdict(b) # "ACCEPTED"
  PROVE  /\ Verdict(b) \in Codes
         /\ \/ Malformed(Verdict(b), b)
            \/ b.intent \notin Stored /\ Refuses(Verdict(b), b)
<1>1. PICK n \in Obstacles(b) : Verdict(b) = Checks[n]
  BY VerdictIsObstacle
<1>2. /\ n \in DOMAIN Checks
      /\ Malformed(Checks[n], b) \/ (Asks(Checks[n], b) /\ Refuses(Checks[n], b))
  BY DEF Obstacles
<1>3. QED
  BY <1>1, <1>2 DEF Codes, Asks

LEMMA WhatAnAcceptanceSays ==
  ASSUME NEW b, Obstacles(b) = {}
  PROVE  \A code \in Codes :
           ~Malformed(code, b) /\ (b.intent \notin Stored => ~Refuses(code, b))
BY DEF Obstacles, Codes, Asks

-----------------------------------------------------------------------------
(* Records.                                                                *)

LEMMA LoadedIsReal ==
  ASSUME NEW c, Loads(c)
  PROVE  c # None /\ Identity(c) # None
<1>1. c.mode # "none" /\ Identity(c).mode = c.mode /\ None.mode = "none"
  BY DEF Loads, Identity, None
<1>2. QED
  BY <1>1

LEMMA MetadataIsReal ==
  ASSUME NEW c
  PROVE  Metadata(c) # None
<1>1. DOMAIN Metadata(c) = {"identity", "limits"} /\ DOMAIN None = {"mode"}
  BY DEF Metadata, None
<1>2. QED
  BY <1>1

-----------------------------------------------------------------------------
(* The first state.                                                        *)

LEMMA InitHolds == Init => IntakeInv
<1> SUFFICES ASSUME Init PROVE IntakeInv
  OBVIOUS
<1>1. \A i \in Intents : rows[i] = NoRow
  BY DEF Init
<1>2. Stored = {} /\ Unresolved = {}
  BY <1>1 DEF Stored, Unresolved
<1>3. TypeOK
  BY <1>1, BoundsAssumption DEF Init, TypeOK
<1>4. OneEnvironment /\ RunsAreUniform /\ NoncesAreReserved
  BY <1>2 DEF Init, OneEnvironment, RunsAreUniform, NoncesAreReserved
<1>5. InboxWithinLimit
  BY <1>2, FS_EmptySet, BoundsAssumption DEF InboxWithinLimit
<1>6. RejectionsTell /\ RefusedForGood
  BY DEF Init, RejectionsTell, Rejected, RefusedForGood
<1>7. reply.code = "none" /\ "none" \notin Codes
  BY TheCodes DEF Init, Nothing, FormCodes, StandingCodes
<1>8. AcceptedForGood
  BY <1>7 DEF AcceptedForGood
<1>9. AnswersStand
  BY <1>2, <1>7, FS_EmptySet DEF Init, AnswersStand
<1>10. QED
  BY <1>3, <1>4, <1>5, <1>6, <1>8, <1>9 DEF IntakeInv

-----------------------------------------------------------------------------
(* What was stored depends on the rows alone.                              *)
LEMMA SameRows ==
  ASSUME UNCHANGED rows
  PROVE  Stored' = Stored /\ Unresolved' = Unresolved /\ \A i : NonceTaken(i)' = NonceTaken(i)
<1>1. Stored' = Stored
  BY DEF Stored
<1>2. QED
  BY <1>1 DEF Unresolved, NonceTaken

(* A reason for a refusal lasts while the intent is not stored, and time   *)
(* only passes.                                                            *)
LEMMA ReasonsLast ==
  ASSUME NEW r, StillSo(r), identity' = identity, UNCHANGED rows \/ Stored \subseteq Stored',
         r[1].intent \in Intents,
         Stored' \intersect {r[1].intent} \subseteq Stored,
         now \in Nat, now' \in Nat, now <= now'
  PROVE  StillSo(r)'
<1> DEFINE i == r[1].intent
<1>1. i \notin Stored => i \notin Stored'
  OBVIOUS
<1>2. Stored \subseteq Stored'
  BY SameRows
<1>3. NonceTaken(i) => NonceTaken(i)'
  BY <1>2 DEF NonceTaken
<1>4. Deadline[i] < now => Deadline[i] < now'
  BY RequestsAssumption
<1>5. QED
  BY <1>1, <1>3, <1>4 DEF StillSo

-----------------------------------------------------------------------------
(* The process and the clock.                                              *)

(* The conjuncts that these steps leave as they are.                       *)
LEMMA AnswersUndisturbed ==
  ASSUME UNCHANGED <<rows, runs, rejections, reply, accepted, refused>>
  PROVE  /\ RunsAreUniform => RunsAreUniform'
         /\ NoncesAreReserved => NoncesAreReserved'
         /\ InboxWithinLimit => InboxWithinLimit'
         /\ RejectionsTell => RejectionsTell'
         /\ AcceptedForGood => AcceptedForGood'
         /\ RefusedForGood => RefusedForGood'
<1>1. Stored' = Stored /\ Unresolved' = Unresolved
  BY SameRows
<1>2. Rejected' = Rejected
  BY DEF Rejected
<1>3. QED
  BY <1>1, <1>2 DEF RunsAreUniform, NoncesAreReserved, InboxWithinLimit, RejectionsTell,
                    AcceptedForGood, RefusedForGood

(* What an answer says of its body holds as long as the identity does.     *)
LEMMA AnswersStandOn ==
  ASSUME IntakeInv, UNCHANGED <<rows, rejections, reply, accepted, refused>>,
         identity # None => identity' = identity, now' \in Nat, now <= now'
  PROVE  AnswersStand'
<1>1. Stored' = Stored /\ Unresolved' = Unresolved
  BY SameRows
<1>2. ASSUME NEW r \in refused PROVE identity' # None /\ StillSo(r)'
  <2>1. identity # None /\ StillSo(r) /\ identity' = identity
    BY <1>2 DEF IntakeInv, AnswersStand
  <2>2. r[1].intent \in Intents
    BY <1>2, RequestsAssumption DEF IntakeInv, TypeOK, IsBody
  <2>3. now \in Nat
    BY BoundsAssumption DEF IntakeInv, TypeOK
  <2>4. QED
    BY <1>1, <2>1, <2>2, <2>3, ReasonsLast
<1>3. QED
  BY <1>1, <1>2 DEF IntakeInv, AnswersStand

LEMMA StartStep ==
  ASSUME IntakeInv, NEW c \in Configs, Start(c)
  PROVE  IntakeInv'
<1>1. /\ UNCHANGED <<rows, runs, rejections, reply, accepted, refused, now>>
      /\ config' = c /\ Loads(c) /\ identity' = Identity(c) /\ identity \in {None, Identity(c)}
  BY DEF Start, BelongsTo
<1>2. now \in Nat /\ MaxStarts \in Nat /\ starts' \in 0 .. MaxStarts
  BY BoundsAssumption DEF IntakeInv, TypeOK, Start
<1>3. TypeOK'
  BY <1>1, <1>2 DEF IntakeInv, TypeOK
<1>4. OneEnvironment'
  BY <1>1, SameRows, LoadedIsReal DEF IntakeInv, OneEnvironment
<1>5. AnswersStand'
  BY <1>1, <1>2, AnswersStandOn
<1>6. QED
  BY <1>1, <1>3, <1>4, <1>5, AnswersUndisturbed DEF IntakeInv

LEMMA StopStep ==
  ASSUME IntakeInv, Stop
  PROVE  IntakeInv'
<1>1. UNCHANGED <<tables, reply, accepted, refused, now, starts>> /\ config' = None
  BY DEF Stop
<1>2. now \in Nat
  BY BoundsAssumption DEF IntakeInv, TypeOK
<1>3. TypeOK'
  BY <1>1 DEF IntakeInv, TypeOK, tables
<1>4. OneEnvironment'
  BY <1>1, SameRows DEF IntakeInv, OneEnvironment, tables
<1>5. AnswersStand'
  BY <1>1, <1>2, AnswersStandOn DEF tables
<1>6. QED
  BY <1>1, <1>3, <1>4, <1>5, AnswersUndisturbed DEF IntakeInv, tables

LEMMA TickStep ==
  ASSUME IntakeInv, Tick
  PROVE  IntakeInv'
<1>1. /\ UNCHANGED <<config, tables, starts, reply, accepted, refused>>
      /\ now' = now + 1 /\ now < MaxTime
  BY DEF Tick
<1>2. now \in Nat /\ now' \in 0 .. MaxTime /\ now <= now'
  BY <1>1, BoundsAssumption DEF IntakeInv, TypeOK
<1>3. TypeOK'
  BY <1>1, <1>2 DEF IntakeInv, TypeOK, tables
<1>4. OneEnvironment'
  BY <1>1, SameRows DEF IntakeInv, OneEnvironment, tables
<1>5. AnswersStand'
  BY <1>1, <1>2, AnswersStandOn DEF tables
<1>6. QED
  BY <1>1, <1>3, <1>4, <1>5, AnswersUndisturbed DEF IntakeInv, tables

LEMMA Stutter ==
  ASSUME IntakeInv, UNCHANGED vars
  PROVE  IntakeInv'
<1>1. UNCHANGED <<config, tables, starts, reply, accepted, refused, now>>
  BY DEF vars
<1>2. now \in Nat
  BY BoundsAssumption DEF IntakeInv, TypeOK
<1>3. TypeOK'
  BY <1>1 DEF IntakeInv, TypeOK, tables
<1>4. OneEnvironment'
  BY <1>1, SameRows DEF IntakeInv, OneEnvironment, tables
<1>5. AnswersStand'
  BY <1>1, <1>2, AnswersStandOn DEF tables
<1>6. QED
  BY <1>1, <1>3, <1>4, <1>5, AnswersUndisturbed DEF IntakeInv, tables

-----------------------------------------------------------------------------
(* The coordinator.                                                        *)

LEMMA RowIsReal ==
  ASSUME NEW row \in Rows
  PROVE  row # NoRow /\ row.run \in Labels /\ row.metadata # None
<1>1. row.run \in Labels /\ row.metadata \in {Metadata(c) : c \in Configs}
  BY DEF Rows
<1>2. row.metadata # None /\ NoRow.metadata = None
  BY <1>1, MetadataIsReal DEF NoRow
<1>3. QED
  BY <1>1, <1>2

LEMMA FinalizeStep ==
  ASSUME IntakeInv, NEW i \in Intents, Finalize(i)
  PROVE  IntakeInv'
<1>1. /\ UNCHANGED <<config, identity, runs, rejections, now, starts, reply, accepted, refused>>
      /\ i \in Unresolved /\ rows' = [rows EXCEPT ![i].open = FALSE]
      /\ TypeOK /\ OneEnvironment /\ RunsAreUniform /\ NoncesAreReserved /\ InboxWithinLimit
      /\ RejectionsTell /\ AcceptedForGood /\ RefusedForGood /\ AnswersStand
  BY DEF Finalize, IntakeInv
<1>2. rows[i] \in Rows /\ DOMAIN rows = Intents
  BY <1>1 DEF Unresolved, Stored, TypeOK
<1>3. /\ rows'[i] = [rows[i] EXCEPT !.open = FALSE]
      /\ \A j \in Intents : j # i => rows'[j] = rows[j]
  BY <1>1, <1>2
<1>4. /\ rows'[i] \in Rows /\ rows'[i].run = rows[i].run /\ rows'[i].metadata = rows[i].metadata
      /\ ~rows'[i].open
  BY <1>2, <1>3 DEF Rows
<1>5. TypeOK'
  BY <1>1, <1>3, <1>4 DEF TypeOK, Rows
<1>6. Stored' = Stored
  <2>1. Stored = {j \in Intents : rows[j] \in Rows}
    BY <1>1, RowIsReal DEF Stored, TypeOK
  <2>2. Stored' = {j \in Intents : rows'[j] \in Rows}
    BY <1>5, RowIsReal DEF Stored, TypeOK
  <2>3. QED
    BY <1>2, <1>3, <1>4, <2>1, <2>2
<1>7. \A j \in Stored : rows'[j].run = rows[j].run /\ rows'[j].metadata = rows[j].metadata
  BY <1>3, <1>4 DEF Stored
<1>8. Unresolved' = Unresolved \ {i}
  BY <1>1, <1>3, <1>4, <1>6 DEF Unresolved, Stored
<1>9. OneEnvironment' /\ NoncesAreReserved'
  BY <1>1, <1>6 DEF OneEnvironment, NoncesAreReserved
<1>10. RunsAreUniform'
  BY <1>1, <1>6, <1>7 DEF RunsAreUniform
<1>11. InboxWithinLimit' /\ IsFiniteSet(Unresolved')
  <2>1. IsFiniteSet(Unresolved) /\ Unresolved' \subseteq Unresolved
    BY <1>1, <1>8 DEF AnswersStand
  <2>2. /\ IsFiniteSet(Unresolved') /\ Cardinality(Unresolved') <= Cardinality(Unresolved)
        /\ Cardinality(Unresolved) \in Nat /\ Cardinality(Unresolved') \in Nat
    BY <2>1, FS_Subset, FS_CardinalityType
  <2>3. QED
    BY <1>1, <2>2, BoundsAssumption DEF InboxWithinLimit
<1>12. RejectionsTell' /\ AcceptedForGood' /\ RefusedForGood'
  BY <1>1 DEF RejectionsTell, Rejected, AcceptedForGood, RefusedForGood
<1>13. AnswersStand'
  <2>1. ASSUME NEW r \in refused PROVE identity' # None /\ StillSo(r)'
    <3>1. identity # None /\ StillSo(r) /\ r[1].intent \in Intents
      BY <1>1, <2>1, RequestsAssumption DEF AnswersStand, TypeOK, IsBody
    <3>2. now \in Nat /\ now' = now
      BY <1>1, BoundsAssumption DEF TypeOK
    <3>3. QED
      BY <1>1, <1>6, <3>1, <3>2, ReasonsLast
  <2>2. QED
    BY <1>1, <1>6, <1>11, <2>1 DEF AnswersStand
<1>14. QED
  BY <1>5, <1>9, <1>10, <1>11, <1>12, <1>13 DEF IntakeInv

-----------------------------------------------------------------------------
(* POST /intents                                                           *)

LEMMA BodyTyped ==
  ASSUME NEW b \in Bodies
  PROVE  /\ b.intent \in Intents /\ b.faults \subseteq FormCodes
         /\ b.label \in Labels /\ Counted(b) \in Labels
BY RequestsAssumption, TheCodes DEF IsBody, Labels, Counted

LEMMA EnvironmentOfProcess ==
  ASSUME TypeOK, OneEnvironment, config # None
  PROVE  /\ config \in Configs /\ Loads(config) /\ identity # None
         /\ identity = Identity(config) /\ identity.domain = config.domain
<1>1. config \in Configs /\ Loads(config) /\ identity = Identity(config)
  BY DEF TypeOK, OneEnvironment
<1>2. QED
  BY <1>1, LoadedIsReal DEF Identity

(* What was refused for a reason that lasts is not what is accepted now.   *)
LEMMA AcceptedWasFree ==
  ASSUME IntakeInv, NEW b \in Bodies, Accept(b)
  PROVE  /\ b.faults = {} /\ SignedFor[b.intent] = identity.domain
         /\ \A r \in refused : r[1].intent = b.intent =>
              /\ \/ r[2] \in r[1].faults
                 \/ r[2] = "INVALID_SIGNATURE" /\ SignedFor[b.intent] # identity.domain
                 \/ r[2] \in MayChange
              /\ r[2] \notin {"INTENT_EXPIRED", "NONCE_CONFLICT"}
<1>1. Obstacles(b) = {} /\ identity.domain = config.domain
  BY EnvironmentOfProcess DEF Accept, IntakeInv
<1>2. \A code \in FormCodes \union StandingCodes :
        ~Malformed(code, b) /\ (b.intent \notin Stored => ~Refuses(code, b))
  BY <1>1, WhatAnAcceptanceSays, TheCodes
<1>3. b.faults = {}
  BY <1>2, BodyTyped DEF Malformed
<1>4. SignedFor[b.intent] = identity.domain
  <2>1. "INVALID_SIGNATURE" \in FormCodes
    BY DEF FormCodes
  <2>2. QED
    BY <1>1, <1>2, <2>1 DEF Malformed
<1>5. b.intent \notin Stored => ~(Deadline[b.intent] < now) /\ ~NonceTaken(b.intent)
  BY <1>2 DEF Refuses, StandingCodes
<1>6. ASSUME NEW r \in refused, r[1].intent = b.intent
      PROVE  /\ \/ r[2] \in r[1].faults
                \/ r[2] = "INVALID_SIGNATURE" /\ SignedFor[b.intent] # identity.domain
                \/ r[2] \in MayChange
             /\ r[2] \notin {"INTENT_EXPIRED", "NONCE_CONFLICT"}
  <2>1. StillSo(r) /\ r[1].faults \subseteq FormCodes
    BY <1>6, BodyTyped DEF IntakeInv, AnswersStand, TypeOK
  <2>2. \/ r[2] \in r[1].faults
        \/ r[2] = "INVALID_SIGNATURE" /\ SignedFor[b.intent] # identity.domain
        \/ r[2] \in MayChange
    BY <1>5, <1>6, <2>1 DEF StillSo
  <2>3. QED
    BY <2>1, <2>2 DEF FormCodes, MayChange
<1>7. QED
  BY <1>3, <1>4, <1>6

LEMMA AcceptedIsStored ==
  ASSUME IntakeInv, NEW b \in Bodies, Accept(b)
  PROVE  /\ TypeOK' /\ OneEnvironment' /\ RunsAreUniform' /\ NoncesAreReserved'
         /\ InboxWithinLimit' /\ IsFiniteSet(Unresolved')
         /\ Stored' = Stored \union {b.intent} /\ accepted' = Stored'
<1> DEFINE i == b.intent
<1>1. /\ UNCHANGED <<config, identity, rejections, now, starts, refused>>
      /\ config # None /\ Obstacles(b) = {}
      /\ reply' = [body |-> b, code |-> "ACCEPTED"] /\ accepted' = accepted \union {i}
      /\ TypeOK /\ OneEnvironment /\ RunsAreUniform /\ NoncesAreReserved /\ InboxWithinLimit
      /\ RejectionsTell /\ AcceptedForGood /\ RefusedForGood /\ AnswersStand
  BY DEF Accept, IntakeInv
<1>2. /\ i \in Intents /\ b.label \in Labels
      /\ config \in Configs /\ identity # None /\ now \in Nat
  BY <1>1, BodyTyped, EnvironmentOfProcess, BoundsAssumption DEF TypeOK
<1>3. SignedFor[i] = identity.domain
  BY AcceptedWasFree
<1>4. CASE i \in Stored
  <2>1. UNCHANGED <<rows, runs>> /\ accepted' = accepted
    BY <1>1, <1>4 DEF Accept, AnswersStand
  <2>2. Stored' = Stored /\ Unresolved' = Unresolved
    BY <2>1, SameRows
  <2>3. TypeOK' /\ IsFiniteSet(Unresolved')
    BY <1>1, <2>1, <2>2 DEF TypeOK, AnswersStand
  <2>4. /\ OneEnvironment' /\ RunsAreUniform' /\ NoncesAreReserved' /\ InboxWithinLimit'
        /\ Stored' = accepted'
    BY <1>1, <2>1, <2>2
    DEF OneEnvironment, RunsAreUniform, NoncesAreReserved, InboxWithinLimit, AnswersStand
  <2>5. QED
    BY <1>4, <2>2, <2>3, <2>4
<1>5. CASE i \notin Stored
  <2> DEFINE row == [run |-> b.label, metadata |-> Metadata(config), open |-> TRUE]
  <2>1. rows' = [rows EXCEPT ![i] = row] /\ runs' = RunKept(b)
    BY <1>1, <1>5 DEF Accept, Inserted
  <2>2. ~NonceTaken(i) /\ ~Full /\ runs[b.label] \in {None, Metadata(config)}
    BY <1>1, <1>5, WhatAnAcceptanceSays, TheCodes DEF StandingCodes, Refuses, RunClosed
  <2>3. row \in Rows
    BY <1>2 DEF Rows
  <2> HIDE DEF row
  <2>4. rows'[i] = row /\ \A j \in Intents : j # i => rows'[j] = rows[j]
    BY <1>1, <1>2, <2>1 DEF TypeOK
  <2>5. Stored' = Stored \union {i}
    BY <1>2, <2>3, <2>4, RowIsReal DEF Stored
  <2>6. runs'[b.label] = Metadata(config) /\ \A l \in Labels : l # b.label => runs'[l] = runs[l]
    BY <1>1, <1>2, <2>1, <2>2 DEF RunKept, TypeOK
  <2>7. TypeOK'
    <3>1. rows' \in [Intents -> Rows \union {NoRow}]
      BY <1>1, <2>1, <2>3 DEF TypeOK
    <3>2. runs' \in [Labels -> {Metadata(c) : c \in Configs} \union {None}]
      BY <1>1, <1>2, <2>1 DEF TypeOK, RunKept
    <3>3. QED
      BY <1>1, <1>2, <3>1, <3>2 DEF TypeOK
  <2>8. OneEnvironment'
    BY <1>1, <1>2, <1>3, <2>5 DEF OneEnvironment
  <2>9. RunsAreUniform'
    <3>1. rows'[i].run = b.label /\ rows'[i].metadata = Metadata(config)
      BY <2>4 DEF row
    <3>2. ASSUME NEW j \in Stored PROVE runs'[rows'[j].run] = rows'[j].metadata
      <4>1. rows'[j] = rows[j] /\ rows[j] \in Rows /\ runs[rows[j].run] = rows[j].metadata
        BY <1>1, <1>5, <2>4 DEF Stored, TypeOK, RunsAreUniform
      <4>2. rows[j].run \in Labels /\ rows[j].metadata # None
        BY <4>1, RowIsReal
      <4>3. QED
        BY <2>2, <2>6, <4>1, <4>2
    <3>3. QED
      BY <2>5, <2>6, <3>1, <3>2 DEF RunsAreUniform
  <2>10. NoncesAreReserved'
    BY <1>1, <2>2, <2>5 DEF NoncesAreReserved, NonceTaken
  <2>11. InboxWithinLimit' /\ IsFiniteSet(Unresolved')
    <3>1. Unresolved' = Unresolved \union {i} /\ i \notin Unresolved
      <4>1. rows'[i].open
        BY <2>4 DEF row
      <4>2. QED
        BY <1>5, <2>4, <2>5, <4>1 DEF Unresolved, Stored
    <3>2. IsFiniteSet(Unresolved) /\ Cardinality(Unresolved) \in Nat
      BY <1>1, FS_CardinalityType DEF AnswersStand
    <3>3. IsFiniteSet(Unresolved') /\ Cardinality(Unresolved') = Cardinality(Unresolved) + 1
      BY <3>1, <3>2, FS_AddElement
    <3>4. QED
      BY <2>2, <3>2, <3>3, BoundsAssumption DEF Full, InboxWithinLimit
  <2>12. accepted' = Stored'
    BY <1>1, <2>5 DEF AnswersStand
  <2>13. QED
    BY <2>5, <2>7, <2>8, <2>9, <2>10, <2>11, <2>12
<1>6. QED
  BY <1>4, <1>5

LEMMA AcceptStep ==
  ASSUME IntakeInv, NEW b \in Bodies, Accept(b)
  PROVE  IntakeInv'
<1> DEFINE i == b.intent
<1>1. /\ UNCHANGED <<config, identity, rejections, now, starts, refused>>
      /\ config # None /\ Obstacles(b) = {}
      /\ reply' = [body |-> b, code |-> "ACCEPTED"] /\ accepted' = accepted \union {i}
      /\ TypeOK /\ OneEnvironment /\ RunsAreUniform /\ NoncesAreReserved /\ InboxWithinLimit
      /\ RejectionsTell /\ AcceptedForGood /\ RefusedForGood /\ AnswersStand
  BY DEF Accept, IntakeInv
<1>2. /\ i \in Intents /\ b.label \in Labels
      /\ config \in Configs /\ identity # None /\ now \in Nat
  BY <1>1, BodyTyped, EnvironmentOfProcess, BoundsAssumption DEF TypeOK
<1>3. /\ b.faults = {} /\ SignedFor[i] = identity.domain
      /\ \A r \in refused : r[1].intent = i =>
           /\ \/ r[2] \in r[1].faults
              \/ r[2] = "INVALID_SIGNATURE" /\ SignedFor[i] # identity.domain
              \/ r[2] \in MayChange
           /\ r[2] \notin {"INTENT_EXPIRED", "NONCE_CONFLICT"}
  BY AcceptedWasFree
<1>6. /\ TypeOK' /\ OneEnvironment' /\ RunsAreUniform' /\ NoncesAreReserved' /\ InboxWithinLimit'
      /\ IsFiniteSet(Unresolved') /\ Stored' = Stored \union {i} /\ accepted' = Stored'
  BY AcceptedIsStored
<1>7. RejectionsTell'
  BY <1>1 DEF RejectionsTell, Rejected
<1>8. AcceptedForGood'
  BY <1>1, TheCodes DEF AcceptedForGood, FormCodes, StandingCodes
<1>9. RefusedForGood'
  <2>1. ASSUME NEW r \in refused, r[2] \in {"INTENT_EXPIRED", "NONCE_CONFLICT"}
        PROVE  r[1].intent \notin accepted'
    BY <1>1, <1>3, <2>1 DEF RefusedForGood
  <2>2. ASSUME NEW r \in refused, reply' = [body |-> r[1], code |-> "ACCEPTED"]
        PROVE  r[2] \in MayChange
    <3>1. r[1] = b
      BY <1>1, <2>2
    <3>2. QED
      BY <1>3, <2>2, <3>1
  <2>3. QED
    BY <1>1, <2>1, <2>2 DEF RefusedForGood
<1>10. AnswersStand'
  <2>1. ASSUME NEW r \in refused PROVE identity' # None /\ StillSo(r)'
    <3>1. StillSo(r) /\ r[1].intent \in Intents /\ identity' = identity /\ now' = now
      BY <1>1, <2>1, BodyTyped DEF AnswersStand, TypeOK
    <3>2. CASE r[1].intent = i
      BY <1>2, <1>3, <2>1, <3>1, <3>2 DEF StillSo
    <3>3. CASE r[1].intent # i
      BY <1>2, <1>6, <3>1, <3>3, ReasonsLast
    <3>4. QED
      BY <1>1, <1>2, <3>2, <3>3
  <2>2. QED
    BY <1>1, <1>3, <1>6, <2>1 DEF AnswersStand
<1>11. QED
  BY <1>6, <1>7, <1>8, <1>9, <1>10 DEF IntakeInv

LEMMA RefuseStep ==
  ASSUME IntakeInv, NEW b \in Bodies, Refuse(b)
  PROVE  IntakeInv'
<1> DEFINE i == b.intent
           code == Verdict(b)
<1>1. /\ UNCHANGED <<config, identity, rows, runs, now, starts, accepted>>
      /\ config # None /\ code # "ACCEPTED"
      /\ reply' = [body |-> b, code |-> code] /\ refused' = refused \union {<<b, code>>}
      /\ rejections' = IF IsRejection(code) THEN Recorded(b, code) ELSE rejections
      /\ TypeOK /\ OneEnvironment /\ RunsAreUniform /\ NoncesAreReserved /\ InboxWithinLimit
      /\ RejectionsTell /\ AcceptedForGood /\ RefusedForGood /\ AnswersStand
  BY DEF Refuse, IntakeInv
<1>2. code \in Codes /\ (Malformed(code, b) \/ (i \notin Stored /\ Refuses(code, b)))
  BY <1>1, WhatARefusalSays
<1>3. /\ i \in Intents /\ b.faults \subseteq FormCodes /\ Counted(b) \in Labels
      /\ identity # None /\ identity.domain = config.domain /\ now \in Nat
  BY <1>1, BodyTyped, EnvironmentOfProcess, BoundsAssumption DEF TypeOK
<1> HIDE DEF code
<1>4. Stored' = Stored /\ Unresolved' = Unresolved /\ NonceTaken(i)' = NonceTaken(i)
  BY <1>1, SameRows
<1>5. \A r \in rejections' : r \in rejections \/ r = [body |-> b, run |-> Counted(b), code |-> code]
  BY <1>1 DEF Recorded
<1>6. TypeOK'
  BY <1>1, <1>2, <1>3, <1>5 DEF TypeOK
<1>7. OneEnvironment' /\ RunsAreUniform' /\ NoncesAreReserved' /\ InboxWithinLimit'
  BY <1>1, <1>4 DEF OneEnvironment, RunsAreUniform, NoncesAreReserved, InboxWithinLimit
<1>8. AcceptedForGood'
  <2>1. ASSUME b.faults = {}, i \in Stored PROVE FALSE
    BY <1>1, <1>2, <1>3, <2>1 DEF Malformed, OneEnvironment
  <2>2. QED
    BY <1>1, <2>1 DEF AcceptedForGood, AnswersStand
<1>9. RefusedForGood'
  <2>1. code \in {"INTENT_EXPIRED", "NONCE_CONFLICT"} => i \notin accepted
    BY <1>1, <1>2, <1>3 DEF Malformed, FormCodes, AnswersStand
  <2>2. QED
    BY <1>1, <2>1 DEF RefusedForGood
<1>10. RejectionsTell'
  <2>1. /\ Rejected \subseteq Rejected'
        /\ \A x \in Rejected' : x \in Rejected \/ (x = b /\ Status(code) < 500)
        /\ Status(code) < 500 => b \in Rejected'
    BY <1>1, <1>2 DEF Rejected
  <2>2. CASE rejections' = rejections
    <3>1. Status(code) < 500 => \E r \in rejections : r.body = b /\ r.run = Counted(b)
      <4>1. SUFFICES ASSUME Status(code) < 500,
                            ~\E r \in rejections : r.body = b /\ r.run = Counted(b)
                     PROVE  FALSE
        OBVIOUS
      <4>2. [body |-> b, run |-> Counted(b), code |-> code] \in rejections'
        BY <1>1, <4>1 DEF IsRejection, Recorded
      <4>3. QED
        BY <2>2, <4>1, <4>2
    <3>2. QED
      BY <1>1, <2>1, <2>2, <3>1 DEF RejectionsTell
  <2>3. CASE rejections' # rejections
    <3> DEFINE new == [body |-> b, run |-> Counted(b), code |-> code]
    <3>1. /\ Status(code) < 500 /\ ~\E r \in rejections : r.body = b /\ r.run = Counted(b)
          /\ rejections' = rejections \union {new}
      BY <1>1, <2>3 DEF IsRejection, Recorded
    <3>2. \A r \in rejections : r.body # b
      BY <1>1, <3>1 DEF AnswersStand
    <3>3. new.body = b /\ new.run = Counted(b) /\ new.code = code
      OBVIOUS
    <3> HIDE DEF new
    <3>4. \A r \in rejections' : r.body \in Rejected' /\ <<r.body, r.code>> \in refused'
      BY <1>1, <2>1, <3>1, <3>3 DEF RejectionsTell
    <3>5. \A x \in Rejected' : \E r \in rejections' : r.body = x /\ r.run = Counted(x)
      BY <1>1, <2>1, <3>1, <3>3 DEF RejectionsTell
    <3>6. \A r, s \in rejections' : r.body = s.body => r = s
      BY <1>1, <3>1, <3>2, <3>3 DEF RejectionsTell
    <3>7. QED
      BY <3>4, <3>5, <3>6 DEF RejectionsTell
  <2>4. QED
    BY <2>2, <2>3
<1>11. AnswersStand'
  <2>1. ASSUME NEW r \in refused PROVE identity' # None /\ StillSo(r)'
    <3>1. StillSo(r) /\ r[1].intent \in Intents /\ identity' = identity /\ now' = now
      BY <1>1, <2>1, BodyTyped DEF AnswersStand, TypeOK
    <3>2. QED
      BY <1>1, <1>3, <1>4, <3>1, ReasonsLast
  <2>2. ASSUME NEW r, r = <<b, code>> PROVE identity' # None /\ StillSo(r)'
    <3>1. identity' # None
      BY <1>1, <1>3
    <3>2. r[1] = b /\ r[2] = code /\ identity' = identity /\ now' = now
      BY <1>1, <2>2
    <3>3. CASE Malformed(code, b)
      BY <1>3, <3>2, <3>3 DEF Malformed, StillSo
    <3>4. CASE i \notin Stored /\ Refuses(code, b)
      BY <1>4, <3>1, <3>2, <3>4 DEF Refuses, StillSo, MayChange
    <3>5. QED
      BY <1>2, <3>1, <3>3, <3>4
  <2>3. \A r \in rejections' : r.run = Counted(r.body)
    BY <1>1, <1>5 DEF AnswersStand
  <2>4. reply'.code # "ACCEPTED"
    BY <1>1
  <2>5. \A r \in refused' : identity' # None /\ StillSo(r)'
    BY <1>1, <2>1, <2>2
  <2>6. QED
    BY <1>1, <1>4, <2>3, <2>4, <2>5 DEF AnswersStand
<1>12. QED
  BY <1>6, <1>7, <1>8, <1>9, <1>10, <1>11 DEF IntakeInv

-----------------------------------------------------------------------------
(* Over the whole life of a database, whatever is submitted, in whatever   *)
(* order and under whatever configurations: one environment, uniform runs, *)
(* nonces and the inbox limit kept, rejections counted once, and answers   *)
(* that hold for good (api.ts:114-132, store.ts:23-110, config.ts:8-36).   *)
THEOREM IntakeInvariance == Spec => []IntakeInv
<1>1. IntakeInv /\ [Next]_vars => IntakeInv'
  BY StartStep, StopStep, AcceptStep, RefuseStep, FinalizeStep, TickStep, Stutter DEF Next
<1>2. QED
  BY InitHolds, <1>1, PTL DEF Spec
=============================================================================

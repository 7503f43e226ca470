----------------------------- MODULE AgentProofs -----------------------------
(***************************************************************************)
(* Theorems about Agent, for all schedules, owners, grants, and any number *)
(* of crashes.                                                             *)
(***************************************************************************)
EXTENDS Agent, SumTheorems, SequenceTheorems

-----------------------------------------------------------------------------
(* Occurrences and intents.                                                *)

(* What the assumption on schedules says of each, and of an occurrence.    *)
LEMMA ScheduleTyped ==
  /\ Len(Schedules) \in Nat /\ DOMAIN Schedules = 1 .. Len(Schedules)
  /\ \A s \in DOMAIN Schedules :
       /\ Schedules[s].owner \in Owners /\ Schedules[s].amount \in Nat
       /\ Schedules[s].startAt \in Nat /\ Schedules[s].intervalSec \in Nat
       /\ Schedules[s].count \in Nat /\ Schedules[s].windowSec \in Nat
<1> DEFINE S == [owner : Owners, amount : Nat \ {0}, startAt : Nat,
                 intervalSec : Nat \ {0}, count : Nat \ {0}, windowSec : Nat \ {0}]
<1>1. Schedules \in Seq(S)
  BY SchedulesAssumption DEF ValidSchedules
<1> HIDE DEF S
<1>2. /\ Len(Schedules) \in Nat /\ DOMAIN Schedules = 1 .. Len(Schedules)
      /\ \A s \in 1 .. Len(Schedules) : Schedules[s] \in S
  BY <1>1, LenProperties, ElementOfSeq
<1>3. QED
  BY <1>2 DEF S

LEMMA OccurrenceTyped ==
  ASSUME NEW o \in Occurrences
  PROVE  /\ o[1] \in DOMAIN Schedules /\ o[1] \in Nat \ {0} /\ o[2] \in Nat
         /\ o = <<o[1], o[2]>>
         /\ Of(o).owner \in Owners /\ Of(o).amount \in Nat
         /\ Due(o) \in Nat /\ WindowEnd(o) \in Nat
<1>1. PICK s \in DOMAIN Schedules : o \in {s} \X (0 .. Schedules[s].count - 1)
  BY DEF Occurrences
<1>2. /\ Schedules[s].owner \in Owners /\ Schedules[s].amount \in Nat
      /\ Schedules[s].startAt \in Nat /\ Schedules[s].intervalSec \in Nat
      /\ Schedules[s].count \in Nat /\ Schedules[s].windowSec \in Nat
  BY ScheduleTyped
<1>3. o[1] = s /\ o[2] \in Nat /\ o = <<o[1], o[2]>> /\ s \in Nat \ {0}
  BY <1>1, <1>2, ScheduleTyped
<1>4. \A m, n \in Nat : m * n \in Nat
  OBVIOUS
<1>5. Due(o) \in Nat
  BY <1>2, <1>3, <1>4 DEF Due, Of
<1>6. QED
  BY <1>1, <1>2, <1>3, <1>5 DEF WindowEnd, Of

LEMMA OccurrencesFinite == IsFiniteSet(Occurrences)
<1> DEFINE f == [s \in DOMAIN Schedules |-> {s} \X (0 .. Schedules[s].count - 1)]
           F == {f[s] : s \in DOMAIN Schedules}
<1>1. IsFiniteSet(DOMAIN Schedules)
  BY ScheduleTyped, FS_Interval
<1>2. \A s \in DOMAIN Schedules : IsFiniteSet(f[s])
  <2> TAKE s \in DOMAIN Schedules
  <2>1. Schedules[s].count - 1 \in Int
    BY ScheduleTyped
  <2>2. IsFiniteSet({s}) /\ IsFiniteSet(0 .. Schedules[s].count - 1)
    <3>1. IsFiniteSet({s})
      BY FS_Singleton, Zenon
    <3>2. \A c \in Int : IsFiniteSet(0 .. c)
      BY FS_Interval
    <3>3. QED
      BY <2>1, <3>1, <3>2
  <2>3. QED
    BY <2>2, FS_Product
<1>3. Occurrences = UNION F
  BY DEF Occurrences
<1> HIDE DEF f
<1>4. IsFiniteSet(F)
  BY <1>1, FiniteImage
<1>5. QED
  BY <1>2, <1>3, <1>4, FS_UNION

(* NoIntent is told from every intent.                                     *)
LEMMA NoIntentIsNone == NoIntent \notin Intents
<1> SUFFICES ASSUME NoIntent \in Intents PROVE FALSE
  OBVIOUS
<1>1. <<0, 0>> \in Occurrences
  BY DEF NoIntent, Intents
<1>2. QED
  BY <1>1, OccurrenceTyped

LEMMA IntentTyped ==
  ASSUME NEW x \in Intents
  PROVE  /\ x.for \in Occurrences /\ x.owner \in Owners /\ x.epoch \in Nat /\ x.nonce \in Nat
         /\ x.amount \in Nat /\ x.deadline \in Nat /\ x # NoIntent
BY NoIntentIsNone DEF Intents

(* The tick always has a next occurrence: `todo` has a least element.      *)
LEMMA AtChosen ==
  ASSUME NEW S \in SUBSET Occurrences, S # {}
  PROVE  (CHOOSE o \in S : \A p \in S : Precedes(o, p)) \in S
<1> DEFINE T == {o[1] : o \in S}
<1>1. T \in SUBSET Nat /\ T # {}
  BY OccurrenceTyped
<1> HIDE DEF T
<1>2. PICK s \in T : \A t \in T : s <= t
  BY <1>1, LeastNatural
<1> DEFINE K == {o[2] : o \in {p \in S : p[1] = s}}
<1>3. K \in SUBSET Nat /\ K # {}
  BY <1>2, OccurrenceTyped DEF T
<1> HIDE DEF K
<1>4. PICK k \in K : \A m \in K : k <= m
  BY <1>3, LeastNatural
<1>5. PICK o \in S : o[1] = s /\ o[2] = k
  BY <1>4 DEF K
<1>6. ASSUME NEW p \in S PROVE Precedes(o, p)
  <2>1. p[1] \in T /\ p[1] \in Nat /\ o[1] \in Nat /\ o[1] <= p[1]
    BY <1>2, <1>5, OccurrenceTyped DEF T
  <2>2. CASE p[1] = s
    <3>1. p[2] \in K
      BY <2>2 DEF K
    <3>2. QED
      BY <1>4, <1>5, <2>2, <3>1 DEF Precedes
  <2>3. CASE p[1] # s
    BY <1>5, <2>1, <2>3 DEF Precedes
  <2>4. QED
    BY <2>2, <2>3
<1>7. QED
  BY <1>5, <1>6

-----------------------------------------------------------------------------
(* The journal, and the sums over its signatures.                          *)

LEMMA JournalTyped ==
  ASSUME NEW j \in Journals
  PROVE  /\ j.schedules \in SUBSET DOMAIN Schedules
         /\ j.state \in [Occurrences -> States]
         /\ j.signed \in [Occurrences -> Intents \union {NoIntent}]
         /\ j.next \in [Owners -> [0 .. MaxEpoch -> Nat]]
BY DEF Journals

LEMMA SignaturesTyped ==
  ASSUME journal \in Journals, NEW w, NEW e
  PROVE  IsFiniteSet(Signatures(w, e)) /\ Signatures(w, e) \subseteq Intents
<1> DEFINE f == journal.signed
           T == {f[o] : o \in Occurrences}
<1>1. f \in [Occurrences -> Intents \union {NoIntent}]
  BY JournalTyped
<1>2. Signatures(w, e) = {x \in T \ {NoIntent} : x.owner = w /\ x.epoch = e}
  BY DEF Signatures
<1> HIDE DEF f
<1>3. IsFiniteSet(T)
  BY OccurrencesFinite, FiniteImage
<1>4. T \subseteq Intents \union {NoIntent}
  BY <1>1
<1> HIDE DEF T
<1>5. Signatures(w, e) \subseteq T /\ Signatures(w, e) \subseteq Intents
  BY <1>2, <1>4
<1>6. QED
  BY <1>3, <1>5, FS_Subset

(* The sum of a set of intents, and what adding one does to it.            *)
LEMMA SumTyped ==
  ASSUME NEW S \in SUBSET Intents, IsFiniteSet(S)
  PROVE  Sum(S) \in Nat
<1> DEFINE f == [x \in S |-> x.amount]
<1>1. \A x \in S : f[x] \in Nat
  BY IntentTyped
<1> HIDE DEF f
<1>2. SumFunctionOnSet(f, S) \in Nat
  BY <1>1, SumIsNatural
<1>3. QED
  BY <1>2 DEF Sum, f

LEMMA SumOfMore ==
  ASSUME NEW S \in SUBSET Intents, IsFiniteSet(S), NEW x \in Intents, x \notin S
  PROVE  Sum(S \union {x}) = Sum(S) + x.amount
<1> DEFINE T == S \union {x}
           f == [y \in S |-> y.amount]
           g == [y \in T |-> y.amount]
<1>1. (\A y \in T : g[y] \in Nat) /\ (\A y \in S : g[y] = f[y]) /\ g[x] = x.amount
  BY IntentTyped
<1>2. Sum(S) = SumFunctionOnSet(f, S) /\ Sum(T) = SumFunctionOnSet(g, T)
  BY DEF Sum
<1> HIDE DEF f, g
<1>3. SumFunctionOnSet(g, T) = SumFunctionOnSet(g, S) + g[x]
  BY <1>1, SumWithOneMore
<1>4. SumFunctionOnSet(g, S) = SumFunctionOnSet(f, S)
  BY <1>1, SumOfEqual
<1>5. QED
  BY <1>1, <1>2, <1>3, <1>4

LEMMA SumOfTwo ==
  ASSUME NEW S \in SUBSET Intents, IsFiniteSet(S), NEW T \in SUBSET S
  PROVE  Sum(S) = Sum(T) + Sum(S \ T) /\ Sum(T) <= Sum(S)
<1> DEFINE f == [y \in S |-> y.amount]
           g == [y \in T |-> y.amount]
           h == [y \in S \ T |-> y.amount]
<1>1. \A y \in S : f[y] \in Nat
  BY IntentTyped
<1>2. (\A y \in T : f[y] = g[y]) /\ (\A y \in S \ T : f[y] = h[y])
  OBVIOUS
<1>3. /\ Sum(S) = SumFunctionOnSet(f, S) /\ Sum(T) = SumFunctionOnSet(g, T)
      /\ Sum(S \ T) = SumFunctionOnSet(h, S \ T)
  BY DEF Sum
<1> HIDE DEF f, g, h
<1>4. IsFiniteSet(T) /\ IsFiniteSet(S \ T)
  BY FS_Subset
<1>5. /\ SumFunctionOnSet(f, T) = SumFunctionOnSet(g, T)
      /\ SumFunctionOnSet(f, S \ T) = SumFunctionOnSet(h, S \ T)
  BY <1>2, <1>4, SumOfEqual
<1>6. SumFunctionOnSet(f, S) = SumFunctionOnSet(f, T) + SumFunctionOnSet(f, S \ T)
  BY <1>1, SumOfParts
<1>7. Sum(T) \in Nat /\ Sum(S \ T) \in Nat
  BY <1>4, SumTyped
<1>8. QED
  BY <1>3, <1>5, <1>6, <1>7

LEMMA SameSignatures ==
  ASSUME journal'.signed = journal.signed, NEW w, NEW e
  PROVE  Sum(Signatures(w, e))' = Sum(Signatures(w, e))
BY DEF Signatures, Sum

(* What is signed under an epoch, whatever the journal says has become of  *)
(* it, is what the policy check counts.                                    *)
LEMMA CountedSignatures ==
  ASSUME journal \in Journals, NEW w, NEW e
  PROVE  /\ Sum(Signatures(w, e)) = ConfirmedSpend(w, e) + ReservedSpend(w, e)
         /\ ConfirmedSpend(w, e) \in Nat /\ ReservedSpend(w, e) \in Nat
<1> DEFINE S == Signatures(w, e)
           T == {x \in S : journal.state[x.for] = "CONFIRMED"}
<1>1. IsFiniteSet(S) /\ S \in SUBSET Intents
  BY SignaturesTyped
<1>2. /\ S \ T = {x \in S : journal.state[x.for] # "CONFIRMED"}
      /\ T \in SUBSET S
  OBVIOUS
<1>3. ConfirmedSpend(w, e) = Sum(T) /\ ReservedSpend(w, e) = Sum(S \ T)
  BY <1>2 DEF ConfirmedSpend, ReservedSpend
<1> HIDE DEF S, T
<1>4. Sum(S) = Sum(T) + Sum(S \ T)
  BY <1>1, <1>2, SumOfTwo
<1>5. T \in SUBSET Intents /\ S \ T \in SUBSET Intents /\ IsFiniteSet(T) /\ IsFiniteSet(S \ T)
  BY <1>1, <1>2, FS_Subset
<1>6. Sum(T) \in Nat /\ Sum(S \ T) \in Nat
  BY <1>5, SumTyped
<1>7. QED
  BY <1>3, <1>4, <1>6 DEF S

-----------------------------------------------------------------------------
(* Steps that leave what is stored alone.                                  *)

(* The occurrence at hand is one of those still to do.                     *)
LEMMA AtTodo ==
  ASSUME todo \subseteq Occurrences, todo # {}
  PROVE  At \in todo /\ At \in Occurrences
BY AtChosen DEF At

(* The rows and signatures are as they were, and so are the promises about *)
(* them.                                                                   *)
SameRows ==
  disk'.state = disk.state /\ disk'.signed = disk.signed /\ disk'.next = disk.next

LEMMA StoredKept ==
  ASSUME AgentInv, JournalKept', SameRows, UNCHANGED <<now, policy, granted, sent, executed>>
  PROVE  /\ SignaturesStored' /\ NoncesStored' /\ OneSignaturePerOccurrence'
         /\ ConfirmedIsExecuted' /\ GrantsKept'
<1>1. journal'.signed = journal.signed
  BY DEF AgentInv, JournalKept, SameRows
<1>2. SignaturesStored' /\ NoncesStored' /\ OneSignaturePerOccurrence' /\ ConfirmedIsExecuted'
  BY DEF AgentInv, SameRows, SignaturesStored, IsFor, NoncesStored,
         OneSignaturePerOccurrence, ConfirmedIsExecuted
<1>3. GrantsKept'
  BY <1>1, SameSignatures DEF AgentInv, GrantsKept
<1>4. QED
  BY <1>2, <1>3

(* A step after which the tick waits for nothing.                          *)
LEMMA Quiet ==
  ASSUME AgentInv, UNCHANGED <<disk, now, inbox, policy, granted, executed, sent>>,
         journal' = disk, pc' \in {"idle", "next"}, todo' \subseteq Occurrences,
         draft' \in {draft, NoIntent}, tickNow' \in Nat, tickNow' <= now, answer' = "none",
         late' \subseteq sent, crashes' \in Nat
  PROVE  AgentInv'
<1>1. TypeOK'
  BY DEF AgentInv, TypeOK
<1>2. JournalKept' /\ SameRows
  BY DEF JournalKept, SameRows
<1>3. Waiting' /\ Drafted'
  BY DEF Waiting, Drafted
<1>4. ConfirmedIsPaid'
  BY DEF AgentInv, ConfirmedIsPaid
<1>5. QED
  BY <1>1, <1>2, <1>3, <1>4, StoredKept DEF AgentInv

LEMMA BeginTickStep == AgentInv /\ BeginTick => AgentInv'
<1> SUFFICES ASSUME AgentInv, BeginTick PROVE AgentInv'
  OBVIOUS
<1>1. pc = "idle" /\ answer = "none" /\ disk = journal
  BY DEF BeginTick, AgentInv, Waiting, JournalKept
<1>2. now \in Nat /\ crashes \in Nat /\ late \subseteq sent
  BY DEF AgentInv, TypeOK
<1>3. todo' \subseteq Occurrences /\ tickNow' \in Nat /\ tickNow' <= now
  BY <1>2 DEF BeginTick
<1>4. QED
  BY <1>1, <1>2, <1>3, Quiet DEF BeginTick, journalVars, outside, chainVars

LEMMA LoopTyped ==
  ASSUME AgentInv
  PROVE  /\ now \in Nat /\ tickNow \in Nat /\ tickNow <= now /\ crashes \in Nat
         /\ todo \subseteq Occurrences /\ late \subseteq sent /\ 0 \in Nat /\ 0 <= now
         /\ journal \in Journals /\ disk \in Journals
         /\ pc = "next" => answer = "none" /\ disk = journal
BY DEF AgentInv, TypeOK, Waiting, JournalKept

LEMMA TickDoneStep == AgentInv /\ TickDone => AgentInv'
<1> SUFFICES ASSUME AgentInv, TickDone PROVE AgentInv'
  OBVIOUS
<1>1. pc = "next" /\ {} \subseteq Occurrences
  BY DEF TickDone
<1>2. QED
  BY <1>1, LoopTyped, Quiet DEF TickDone, EndTick, journalVars, outside, chainVars

LEMMA GoOnQuietly ==
  ASSUME AgentInv, Considers, GoOn, UNCHANGED <<journalVars, answer, outside, sent, crashes>>
  PROVE  AgentInv'
<1>1. todo \ {At} \subseteq Occurrences /\ pc = "next"
  BY LoopTyped DEF Considers
<1>2. QED
  BY <1>1, LoopTyped, Quiet DEF GoOn, journalVars, outside, chainVars

LEMMA NothingToDoStep == AgentInv /\ NothingToDo => AgentInv'
BY GoOnQuietly DEF NothingToDo

LEMMA BlockStep == AgentInv /\ Block => AgentInv'
BY GoOnQuietly DEF Block, Opens

LEMMA SignThrowsStep == AgentInv /\ SignThrows => AgentInv'
<1> SUFFICES ASSUME AgentInv, SignThrows PROVE AgentInv'
  OBVIOUS
<1>1. answer = "none" /\ {} \subseteq Occurrences
  BY DEF SignThrows, AgentInv, Waiting
<1>2. QED
  BY <1>1, LoopTyped, Quiet DEF SignThrows, EndTick, outside, chainVars

LEMMA LateTyped ==
  ASSUME AgentInv, MayArriveLate
  PROVE  late' \subseteq sent
<1>1. late \subseteq sent
  BY LoopTyped
<1>2. CASE UNCHANGED late
  BY <1>1, <1>2
<1>3. CASE pc = "submit" /\ late' = late \union {journal.signed[At]}
  <2>1. journal.signed[At] \in sent
    BY <1>3 DEF AgentInv, Waiting, JournalKept
  <2>2. QED
    BY <1>1, <1>3, <2>1
<1>4. QED
  BY <1>2, <1>3 DEF MayArriveLate

LEMMA UnreachableStep == AgentInv /\ Unreachable => AgentInv'
<1> SUFFICES ASSUME AgentInv, Unreachable PROVE AgentInv'
  OBVIOUS
<1>1. todo \ {At} \subseteq Occurrences /\ disk = journal
  BY LoopTyped DEF Unreachable, AgentInv, JournalKept
<1>2. late' \subseteq sent
  BY LateTyped DEF Unreachable
<1>3. QED
  BY <1>1, <1>2, LoopTyped, Quiet DEF Unreachable, GoOn, journalVars, chainVars

(* What a crash leaves is what the promises are about.                     *)
LEMMA CrashStep == AgentInv /\ Crash => AgentInv'
<1> SUFFICES ASSUME AgentInv, Crash PROVE AgentInv'
  OBVIOUS
<1>1. late' \subseteq sent /\ crashes' \in Nat /\ {} \subseteq Occurrences
  BY LateTyped, LoopTyped DEF Crash
<1>2. QED
  BY <1>1, LoopTyped, Quiet DEF Crash, EndTick, chainVars

LEMMA RegisterStep ==
  ASSUME AgentInv, NEW s \in DOMAIN Schedules, Register(s)
  PROVE  AgentInv'
<1> DEFINE j == [journal EXCEPT !.schedules = @ \union {s}]
<1>1. /\ journal' = j /\ disk' = (IF pc = "sign" THEN disk ELSE j)
      /\ UNCHANGED <<tickVars, answer, outside, sent, crashes>>
  BY DEF Register, Write
<1>2. journal \in Journals /\ disk \in Journals
  BY LoopTyped
<1>3. /\ j \in Journals /\ j.state = journal.state /\ j.signed = journal.signed
      /\ j.next = journal.next
  BY <1>2 DEF Journals
<1> HIDE DEF j
<1>4. TypeOK'
  BY <1>1, <1>2, <1>3 DEF AgentInv, TypeOK, tickVars, outside, chainVars
<1>5. JournalKept' /\ SameRows
  BY <1>1, <1>3 DEF AgentInv, JournalKept, SameRows, tickVars
<1>6. At' = At /\ UNCHANGED <<pc, todo, tickNow, draft, answer, now, sent, inbox, executed, policy, granted>>
  BY <1>1 DEF At, tickVars, outside, chainVars
<1>7. Waiting' /\ ConfirmedIsPaid'
  BY <1>5, <1>6 DEF AgentInv, Waiting, ConfirmedIsPaid, SameRows
<1>8. Drafted'
  <2>1. Sum(Signatures(draft.owner, draft.epoch))' = Sum(Signatures(draft.owner, draft.epoch))
    BY <1>1, <1>3, <1>6, SameSignatures
  <2>2. QED
    BY <1>5, <1>6, <2>1 DEF AgentInv, Drafted, IsFor, SameRows
<1>9. QED
  BY <1>4, <1>5, <1>6, <1>7, <1>8, StoredKept DEF AgentInv

-----------------------------------------------------------------------------
(* Requests, and the relayer's answers.                                    *)

LEMMA StoredIntent ==
  ASSUME AgentInv, NEW o \in Occurrences, disk.state[o] \notin {"NONE", "SKIPPED"}
  PROVE  /\ disk.signed[o] \in Intents /\ disk.signed[o].for = o
         /\ journal.signed[o] = disk.signed[o] /\ journal.state[o] = disk.state[o]
BY DEF AgentInv, SignaturesStored, IsFor, JournalKept

LEMMA SubmitStep == AgentInv /\ Submit => AgentInv'
<1> SUFFICES ASSUME AgentInv, Submit PROVE AgentInv'
  OBVIOUS
<1>1. /\ pc = "next" /\ pc' = "submit" /\ todo # {} /\ disk = journal /\ answer = "none"
      /\ At \in Occurrences /\ disk.state[At] = "SIGNED"
      /\ UNCHANGED <<journalVars, todo, tickNow, draft, answer, outside, crashes>>
  BY LoopTyped, AtTodo DEF Submit, Considers, Stored
<1> DEFINE x == disk.signed[At]
<1>2. x \in Intents /\ x.for = At /\ sent' = sent \union {x}
  BY <1>1, StoredIntent DEF Submit
<1>3. At' = At
  BY <1>1 DEF At
<1> HIDE DEF x
<1>4. TypeOK'
  BY <1>1, <1>2 DEF AgentInv, TypeOK, journalVars, outside, chainVars
<1>5. JournalKept' /\ SignaturesStored' /\ NoncesStored' /\ ConfirmedIsExecuted'
  BY <1>1 DEF AgentInv, JournalKept, SignaturesStored, IsFor, NoncesStored, ConfirmedIsExecuted,
              journalVars, outside, chainVars
<1>6. OneSignaturePerOccurrence'
  BY <1>1, <1>2 DEF AgentInv, OneSignaturePerOccurrence, journalVars, x
<1>7. Waiting' /\ Drafted'
  BY <1>1, <1>2, <1>3 DEF AgentInv, Waiting, Drafted, journalVars, outside, x
<1>8. ConfirmedIsPaid'
  BY <1>1, <1>3 DEF AgentInv, ConfirmedIsPaid, journalVars, outside, chainVars
<1>9. GrantsKept'
  BY <1>1, SameSignatures DEF AgentInv, GrantsKept, journalVars, outside, chainVars
<1>10. QED
  BY <1>4, <1>5, <1>6, <1>7, <1>8, <1>9 DEF AgentInv

(* Whatever the relayer says, the agent's own state stays.                 *)
LEMMA RelayerKept ==
  ASSUME AgentInv, UNCHANGED <<journalVars, todo, tickNow, draft, now, chainVars, sent, crashes>>,
         pc' = pc \/ (pc = "next" /\ pc' = "status" /\ todo # {} /\ disk.state[At] = "LIVE"),
         DOMAIN inbox' \subseteq sent, inbox' \in [DOMAIN inbox' -> Reported],
         answer' \in Replies \union {"none"}, late' \subseteq sent,
         answer' # "none" => pc' \in {"submit", "status"}, ConfirmedIsPaid'
  PROVE  AgentInv'
<1>1. TypeOK'
  BY DEF AgentInv, TypeOK, journalVars, chainVars
<1>2. At' = At
  BY DEF At
<1>3. JournalKept' /\ SameRows /\ UNCHANGED <<policy, granted, executed>>
  BY DEF AgentInv, JournalKept, SameRows, journalVars, chainVars
<1>4. Waiting'
  BY <1>2 DEF AgentInv, Waiting, journalVars
<1>5. Drafted'
  <2>1. pc' = "sign" => pc = "sign"
    OBVIOUS
  <2>2. Sum(Signatures(draft.owner, draft.epoch))' = Sum(Signatures(draft.owner, draft.epoch))
    BY SameSignatures DEF journalVars
  <2>3. QED
    BY <1>2, <2>1, <2>2 DEF AgentInv, Drafted, IsFor, journalVars, chainVars
<1>6. QED
  BY <1>1, <1>3, <1>4, <1>5, StoredKept DEF AgentInv

LEMMA InboxTyped ==
  ASSUME AgentInv
  PROVE  /\ DOMAIN inbox \subseteq sent /\ inbox \in [DOMAIN inbox -> Reported]
         /\ sent \subseteq Intents /\ executed \subseteq sent /\ late \subseteq sent
         /\ answer \in Replies \union {"none"}
BY DEF AgentInv, TypeOK

LEMMA AskStatusStep == AgentInv /\ AskStatus => AgentInv'
<1> SUFFICES ASSUME AgentInv, AskStatus PROVE AgentInv'
  OBVIOUS
<1>1. /\ pc = "next" /\ pc' = "status" /\ todo # {} /\ disk.state[At] = "LIVE" /\ answer = "none"
      /\ UNCHANGED <<journalVars, todo, tickNow, draft, answer, outside, sent, crashes>>
  BY LoopTyped DEF AskStatus, Considers, Accepted
<1>2. ConfirmedIsPaid'
  BY <1>1 DEF AgentInv, ConfirmedIsPaid, At, journalVars, outside, chainVars
<1>3. QED
  BY <1>1, <1>2, InboxTyped, RelayerKept DEF outside

(* An intake answers from the row it has, or makes a live one.             *)
LEMMA HandlesTyped ==
  ASSUME AgentInv, NEW x \in sent, NEW r \in Replies, Handles(x, r)
  PROVE  /\ DOMAIN inbox' \subseteq sent /\ inbox' \in [DOMAIN inbox' -> Reported]
         /\ \A y \in DOMAIN inbox' : inbox'[y] = "CONFIRMED" => y \in executed
         /\ r = "CONFIRMED" => x \in executed
<1>1. /\ DOMAIN inbox \subseteq sent /\ inbox \in [DOMAIN inbox -> Reported]
      /\ \A y \in DOMAIN inbox : inbox[y] = "CONFIRMED" => y \in executed
  BY InboxTyped DEF AgentInv, ConfirmedIsPaid
<1>2. CASE /\ UNCHANGED inbox
           /\ \/ x \in DOMAIN inbox /\ r = inbox[x]
              \/ r \in {"refused", "unavailable"}
  BY <1>1, <1>2
<1>3. CASE /\ r = "LIVE"
           /\ inbox' = [y \in DOMAIN inbox \union {x} |-> IF y = x THEN "LIVE" ELSE inbox[y]]
  <2>1. DOMAIN inbox' = DOMAIN inbox \union {x}
    BY <1>3
  <2>2. \A y \in DOMAIN inbox' : inbox'[y] = IF y = x THEN "LIVE" ELSE inbox[y]
    BY <1>3
  <2>3. \A y \in DOMAIN inbox' : inbox'[y] \in Reported
    BY <1>1, <2>1, <2>2 DEF Reported
  <2>4. inbox' = [y \in DOMAIN inbox' |-> inbox'[y]]
    BY <1>3
  <2>5. QED
    BY <1>1, <1>3, <2>1, <2>2, <2>3, <2>4
<1>4. QED
  BY <1>2, <1>3 DEF Handles

LEMMA HandleSubmissionStep == AgentInv /\ HandleSubmission => AgentInv'
<1> SUFFICES ASSUME AgentInv, HandleSubmission PROVE AgentInv'
  OBVIOUS
<1>1. PICK r \in Replies : Handles(journal.signed[At], r) /\ answer' = r
  BY DEF HandleSubmission
<1>2. journal.signed[At] \in sent /\ journal.signed = disk.signed
  BY DEF HandleSubmission, AgentInv, Waiting, JournalKept
<1>3. /\ DOMAIN inbox' \subseteq sent /\ inbox' \in [DOMAIN inbox' -> Reported]
      /\ \A y \in DOMAIN inbox' : inbox'[y] = "CONFIRMED" => y \in executed
      /\ r = "CONFIRMED" => journal.signed[At] \in executed
  BY <1>1, <1>2, HandlesTyped
<1>4. /\ pc = "submit" /\ UNCHANGED <<disk, todo, executed, late, pc>>
      /\ UNCHANGED <<journalVars, todo, tickNow, draft, now, chainVars, sent, crashes>>
  BY DEF HandleSubmission, journalVars, tickVars, chainVars
<1>5. ConfirmedIsPaid'
  BY <1>1, <1>2, <1>3, <1>4 DEF ConfirmedIsPaid, At
<1>6. QED
  BY <1>1, <1>3, <1>4, <1>5, InboxTyped, RelayerKept

LEMMA HandleLateStep == AgentInv /\ HandleLate => AgentInv'
<1> SUFFICES ASSUME AgentInv, HandleLate PROVE AgentInv'
  OBVIOUS
<1>1. PICK x \in late : late' = late \ {x} /\ \E r \in Replies : Handles(x, r)
  BY DEF HandleLate
<1>2. PICK r \in Replies : Handles(x, r)
  BY <1>1
<1>3. x \in sent /\ late' \subseteq sent
  BY <1>1, InboxTyped
<1>4. /\ DOMAIN inbox' \subseteq sent /\ inbox' \in [DOMAIN inbox' -> Reported]
      /\ \A y \in DOMAIN inbox' : inbox'[y] = "CONFIRMED" => y \in executed
  BY <1>2, <1>3, HandlesTyped
<1>5. /\ UNCHANGED <<disk, todo, executed, answer, pc>>
      /\ UNCHANGED <<journalVars, todo, tickNow, draft, now, chainVars, sent, crashes>>
  BY DEF HandleLate, journalVars, tickVars, chainVars
<1>6. ConfirmedIsPaid'
  BY <1>4, <1>5 DEF AgentInv, ConfirmedIsPaid, At
<1>7. answer' # "none" => pc' \in {"submit", "status"}
  BY <1>5 DEF AgentInv, Waiting
<1>8. QED
  BY <1>3, <1>4, <1>5, <1>6, <1>7, InboxTyped, RelayerKept

LEMMA HandleStatusStep == AgentInv /\ HandleStatus => AgentInv'
<1> SUFFICES ASSUME AgentInv, HandleStatus PROVE AgentInv'
  OBVIOUS
<1>1. /\ pc = "status" /\ UNCHANGED <<pc, inbox, late, executed, disk, todo>>
      /\ UNCHANGED <<journalVars, todo, tickNow, draft, now, chainVars, sent, crashes>>
      /\ journal.signed = disk.signed
  BY DEF HandleStatus, AgentInv, JournalKept, journalVars, tickVars, outside, chainVars
<1>2. answer' \in Replies /\ (answer' = "CONFIRMED" => disk.signed[At] \in executed)
  BY <1>1, InboxTyped DEF HandleStatus, AgentInv, ConfirmedIsPaid, Replies
<1>3. ConfirmedIsPaid'
  BY <1>1, <1>2 DEF AgentInv, ConfirmedIsPaid, At
<1>4. QED
  BY <1>1, <1>2, <1>3, InboxTyped, RelayerKept

LEMMA SettleStep ==
  ASSUME AgentInv, NEW x \in DOMAIN inbox, Settle(x)
  PROVE  AgentInv'
<1>1. /\ UNCHANGED <<pc, answer, late, executed, disk, todo>>
      /\ UNCHANGED <<journalVars, todo, tickNow, draft, now, chainVars, sent, crashes>>
  BY DEF Settle, journalVars, tickVars, chainVars
<1>2. /\ DOMAIN inbox \subseteq sent /\ inbox \in [DOMAIN inbox -> Reported]
      /\ \A y \in DOMAIN inbox : inbox[y] = "CONFIRMED" => y \in executed
  BY InboxTyped DEF AgentInv, ConfirmedIsPaid
<1>3. PICK s \in {"CONFIRMED", "ABANDONED"} :
        inbox' = [inbox EXCEPT ![x] = s] /\ (s = "CONFIRMED" => x \in executed)
  BY DEF Settle
<1>4. /\ DOMAIN inbox' \subseteq sent /\ inbox' \in [DOMAIN inbox' -> Reported]
      /\ \A y \in DOMAIN inbox' : inbox'[y] = "CONFIRMED" => y \in executed
  BY <1>2, <1>3 DEF Reported
<1>5. ConfirmedIsPaid'
  BY <1>1, <1>4 DEF AgentInv, ConfirmedIsPaid, At
<1>6. answer' # "none" => pc' \in {"submit", "status"}
  BY <1>1 DEF AgentInv, Waiting
<1>7. QED
  BY <1>1, <1>4, <1>5, <1>6, InboxTyped, RelayerKept

-----------------------------------------------------------------------------
(* The chain and the clock.                                                *)

(* No signature is ahead of the contract's epoch.                          *)
LEMMA NoneSignedAhead ==
  ASSUME AgentInv, NEW w \in Owners, NEW e \in Nat, e > policy[w].epoch
  PROVE  Sum(Signatures(w, e)) = 0
<1>1. ASSUME NEW x \in Signatures(w, e) PROVE FALSE
  <2>1. PICK o \in Occurrences : x = journal.signed[o] /\ x # NoIntent /\ x.owner = w /\ x.epoch = e
    BY DEF Signatures
  <2>2. x = disk.signed[o] /\ IsFor(x, o)
    BY <2>1 DEF AgentInv, JournalKept, SignaturesStored
  <2>3. policy[w].epoch \in Nat
    BY DEF AgentInv, TypeOK, Policies
  <2>4. QED
    BY <2>1, <2>2, <2>3 DEF IsFor
<1>2. Signatures(w, e) = {}
  BY <1>1
<1>3. QED
  BY <1>2, SumOfNone DEF Sum

(* Time passes, epochs go up, and what was granted or paid stays so.       *)
LEMMA ChainKept ==
  ASSUME AgentInv, UNCHANGED inside, now' \in Nat, now <= now',
         executed \subseteq executed', executed' \subseteq sent,
         policy' \in [Owners -> Policies], granted' \in [Owners -> [0 .. MaxEpoch -> Nat]],
         \A w \in Owners :
           /\ policy[w].epoch <= policy'[w].epoch /\ policy'[w].epoch <= MaxEpoch
           /\ policy'[w].active => policy'[w].budget = granted'[w][policy'[w].epoch]
           /\ \A e \in 0 .. MaxEpoch : e <= policy[w].epoch => granted'[w][e] = granted[w][e]
  PROVE  AgentInv'
<1>1. /\ UNCHANGED <<journal, disk, pc, todo, tickNow, draft, answer, late, inbox, sent, crashes>>
      /\ At' = At
  BY DEF inside, journalVars, tickVars, At
<1>2. TypeOK'
  BY <1>1 DEF AgentInv, TypeOK
<1>3. JournalKept' /\ NoncesStored' /\ OneSignaturePerOccurrence' /\ ConfirmedIsExecuted'
  BY <1>1 DEF AgentInv, JournalKept, NoncesStored, OneSignaturePerOccurrence, ConfirmedIsExecuted
<1>4. /\ \A w \in Owners : policy[w].epoch \in Nat /\ policy'[w].epoch \in Nat
      /\ now \in Nat /\ tickNow \in Nat /\ MaxEpoch \in Nat
  BY BoundsAssumption DEF AgentInv, TypeOK, Policies
<1>5. ASSUME NEW x, NEW o \in Occurrences, IsFor(x, o) PROVE IsFor(x, o)'
  <2>1. x \in Intents /\ Due(o) \in Nat
    BY <1>5, OccurrenceTyped DEF IsFor
  <2>2. x.owner \in Owners /\ x.epoch \in Nat
    BY <2>1, IntentTyped
  <2>3. QED
    BY <1>4, <1>5, <2>1, <2>2 DEF IsFor
<1>6. SignaturesStored'
  BY <1>1, <1>5 DEF AgentInv, SignaturesStored
<1>7. Waiting'
  BY <1>1, <1>4 DEF AgentInv, Waiting
<1>8. ConfirmedIsPaid'
  BY <1>1 DEF AgentInv, ConfirmedIsPaid
<1>9. \A w, e : Sum(Signatures(w, e))' = Sum(Signatures(w, e))
  BY <1>1, SameSignatures
<1>10. Drafted'
  <2> SUFFICES ASSUME pc = "sign" PROVE Drafted'
    BY <1>1 DEF Drafted
  <2>1. /\ disk.state[At] = "NONE" /\ IsFor(draft, At)
        /\ draft.nonce = disk.next[draft.owner][draft.epoch]
        /\ Sum(Signatures(draft.owner, draft.epoch)) + draft.amount
             <= granted[draft.owner][draft.epoch]
    BY DEF AgentInv, Drafted
  <2>2. At \in Occurrences
    BY AtTodo DEF AgentInv, TypeOK, Waiting
  <2>3. IsFor(draft, At)'
    <3> DEFINE o == At
    <3>1. o \in Occurrences /\ IsFor(draft, o) /\ o' = o /\ draft' = draft
      BY <1>1, <2>1, <2>2
    <3> HIDE DEF o
    <3>2. \A x : IsFor(x, o) => /\ x \in Intents
                                /\ x.for = o /\ x.owner = Of(o).owner /\ x.epoch <= policy'[x.owner].epoch
                                /\ x.deadline <= WindowEnd(o) /\ Due(o) <= now'
      BY <1>5, <3>1 DEF IsFor
    <3>3. QED
      BY <1>1, <3>1, <3>2 DEF IsFor, o
  <2>4. draft.owner \in Owners /\ draft.epoch \in 0 .. MaxEpoch /\ draft.epoch <= policy[draft.owner].epoch
    <3>1. draft \in Intents /\ draft.epoch <= policy[draft.owner].epoch
      BY <2>1 DEF IsFor
    <3>2. draft.owner \in Owners /\ draft.epoch \in Nat
      BY <3>1, IntentTyped
    <3>3. policy[draft.owner].epoch <= MaxEpoch
      BY <3>2 DEF AgentInv, GrantsKept
    <3>4. QED
      BY <1>4, <3>1, <3>2, <3>3
  <2>5. granted'[draft.owner][draft.epoch] = granted[draft.owner][draft.epoch]
    BY <2>4
  <2>6. QED
    BY <1>1, <1>9, <2>1, <2>3, <2>5 DEF Drafted
<1>11. GrantsKept'
  <2>1. ASSUME NEW w \in Owners, NEW e \in 0 .. MaxEpoch
        PROVE  Sum(Signatures(w, e)) <= granted'[w][e]
    <3>1. CASE e <= policy[w].epoch
      BY <3>1 DEF AgentInv, GrantsKept
    <3>2. CASE ~(e <= policy[w].epoch)
      <4>1. Sum(Signatures(w, e)) = 0
        BY <1>4, <3>2, NoneSignedAhead
      <4>2. granted'[w][e] \in Nat
        OBVIOUS
      <4>3. QED
        BY <4>1, <4>2
    <3>3. QED
      BY <3>1, <3>2
  <2>2. QED
    BY <1>9, <2>1 DEF GrantsKept
<1>12. QED
  BY <1>2, <1>3, <1>6, <1>7, <1>8, <1>10, <1>11 DEF AgentInv

LEMMA ChainTyped ==
  ASSUME AgentInv
  PROVE  /\ now \in Nat /\ policy \in [Owners -> Policies] /\ MaxEpoch \in Nat
         /\ granted \in [Owners -> [0 .. MaxEpoch -> Nat]]
         /\ executed \subseteq sent /\ sent \subseteq Intents
         /\ \A w \in Owners :
              /\ policy[w].epoch \in Nat /\ policy[w].epoch <= MaxEpoch
              /\ policy[w].active => policy[w].budget = granted[w][policy[w].epoch]
BY BoundsAssumption DEF AgentInv, TypeOK, Policies, GrantsKept

LEMMA ExecuteStep ==
  ASSUME AgentInv, NEW x \in sent, Execute(x)
  PROVE  AgentInv'
<1> DEFINE w == x.owner
           q == [policy[w] EXCEPT !.spent = policy[w].spent + x.amount]
<1>1. /\ UNCHANGED <<inside, now, granted>> /\ executed' = executed \union {x}
      /\ policy' = [policy EXCEPT ![w].spent = policy[w].spent + x.amount]
  BY DEF Execute
<1>2. x \in Intents /\ w \in Owners /\ x.amount \in Nat
  BY ChainTyped, IntentTyped
<1>3. policy[w] \in Policies /\ policy[w].spent + x.amount \in Nat
  BY <1>2, ChainTyped DEF Policies
<1>4. /\ q \in Policies /\ q.epoch = policy[w].epoch /\ q.active = policy[w].active
      /\ q.budget = policy[w].budget
  BY <1>3 DEF Policies
<1>5. policy' = [policy EXCEPT ![w] = q]
  BY <1>1
<1> HIDE DEF q, w
<1>6. /\ policy' \in [Owners -> Policies]
      /\ \A v \in Owners : policy'[v] = IF v = w THEN q ELSE policy[v]
  BY <1>2, <1>4, <1>5, ChainTyped
<1>7. \A v \in Owners : /\ policy'[v].epoch = policy[v].epoch
                        /\ policy'[v].active = policy[v].active
                        /\ policy'[v].budget = policy[v].budget
  BY <1>4, <1>6
<1>8. QED
  BY <1>1, <1>6, <1>7, ChainTyped, ChainKept

LEMMA ConfigureStep ==
  ASSUME AgentInv, NEW w \in Owners, Configure(w)
  PROVE  AgentInv'
<1> DEFINE k == policy[w].epoch + 1
<1>1. PICK g \in Grants[k] :
        /\ policy' = [policy EXCEPT ![w] =
             [active |-> TRUE, epoch |-> k, spent |-> 0, budget |-> g.budget,
              max |-> g.max, validUntil |-> g.validUntil]]
        /\ granted' = [granted EXCEPT ![w][k] = g.budget]
  BY DEF Configure
<1> DEFINE q == [active |-> TRUE, epoch |-> k, spent |-> 0, budget |-> g.budget,
                 max |-> g.max, validUntil |-> g.validUntil]
<1>2. policy[w].epoch < MaxEpoch /\ UNCHANGED <<inside, now, executed>>
  BY DEF Configure
<1>3. k \in 1 .. MaxEpoch /\ k \in Nat /\ k > policy[w].epoch
  BY <1>2, ChainTyped
<1>4. g.budget \in Nat /\ g.max \in Nat /\ g.validUntil \in Nat
  BY <1>3, GrantsAssumption
<1>5. q \in Policies /\ q.epoch = k /\ q.budget = g.budget
  BY <1>3, <1>4 DEF Policies
<1>6. policy' = [policy EXCEPT ![w] = q]
  BY <1>1
<1> HIDE DEF q, k
<1>7. /\ policy' \in [Owners -> Policies]
      /\ \A v \in Owners : policy'[v] = IF v = w THEN q ELSE policy[v]
  BY <1>5, <1>6, ChainTyped
<1>8. /\ granted' \in [Owners -> [0 .. MaxEpoch -> Nat]]
      /\ \A v \in Owners, e \in 0 .. MaxEpoch :
           granted'[v][e] = IF v = w /\ e = k THEN g.budget ELSE granted[v][e]
  BY <1>1, <1>3, <1>4, ChainTyped
<1>9. ASSUME NEW v \in Owners
      PROVE  /\ policy[v].epoch <= policy'[v].epoch /\ policy'[v].epoch <= MaxEpoch
             /\ policy'[v].active => policy'[v].budget = granted'[v][policy'[v].epoch]
             /\ \A e \in 0 .. MaxEpoch : e <= policy[v].epoch => granted'[v][e] = granted[v][e]
  <2>1. k \in 0 .. MaxEpoch /\ policy[v].epoch \in 0 .. MaxEpoch
    BY <1>3, ChainTyped
  <2>2. CASE v = w
    BY <1>3, <1>5, <1>7, <1>8, <2>1, <2>2, ChainTyped
  <2>3. CASE v # w
    BY <1>7, <1>8, <2>1, <2>3, ChainTyped
  <2>4. QED
    BY <2>2, <2>3
<1>10. QED
  BY <1>2, <1>7, <1>8, <1>9, ChainTyped, ChainKept

LEMMA RevokeStep ==
  ASSUME AgentInv, NEW w \in Owners, Revoke(w)
  PROVE  AgentInv'
<1> DEFINE q == [policy[w] EXCEPT !.active = FALSE, !.epoch = @ + 1]
<1>1. /\ UNCHANGED <<inside, now, granted, executed>> /\ policy[w].epoch < MaxEpoch
      /\ policy' = [policy EXCEPT ![w].active = FALSE, ![w].epoch = @ + 1]
  BY DEF Revoke
<1>2. policy[w] \in Policies /\ policy[w].epoch + 1 \in Nat
  BY ChainTyped
<1>3. q \in Policies /\ q.active = FALSE /\ q.epoch = policy[w].epoch + 1
  BY <1>2 DEF Policies
<1>4. policy' = [policy EXCEPT ![w] = q]
  BY <1>1, <1>2, ChainTyped DEF Policies
<1> HIDE DEF q
<1>5. /\ policy' \in [Owners -> Policies]
      /\ \A v \in Owners : policy'[v] = IF v = w THEN q ELSE policy[v]
  BY <1>3, <1>4, ChainTyped
<1>6. ASSUME NEW v \in Owners
      PROVE  /\ policy[v].epoch <= policy'[v].epoch /\ policy'[v].epoch <= MaxEpoch
             /\ policy'[v].active => policy'[v].budget = granted[v][policy'[v].epoch]
  BY <1>1, <1>3, <1>5, ChainTyped
<1>7. QED
  BY <1>1, <1>5, <1>6, ChainTyped, ChainKept

LEMMA ClockStep == AgentInv /\ ClockTicks => AgentInv'
<1> SUFFICES ASSUME AgentInv, ClockTicks PROVE AgentInv'
  OBVIOUS
<1>1. now' \in Nat /\ now <= now'
  BY ChainTyped DEF ClockTicks
<1>2. UNCHANGED <<inside, policy, granted, executed>>
  BY DEF ClockTicks, chainVars
<1>3. QED
  BY <1>1, <1>2, ChainTyped, ChainKept

-----------------------------------------------------------------------------
(* Steps that write to the journal.                                        *)

(* The state of one occurrence changes: a new one is skipped, or a signed  *)
(* one has an outcome, which is CONFIRMED only if it is paid.              *)
LEMMA StateStep ==
  ASSUME AgentInv, NEW o \in Occurrences, NEW s \in States, disk = journal,
         journal' = [journal EXCEPT !.state[o] = s], disk' = journal',
         UNCHANGED <<outside, sent, crashes, tickNow>>,
         pc' = "next", todo' \subseteq Occurrences, draft' = NoIntent, answer' = "none",
         \/ s = "SKIPPED" /\ journal.state[o] = "NONE"
         \/ s \notin {"NONE", "SKIPPED"} /\ journal.state[o] \notin {"NONE", "SKIPPED"},
         s = "CONFIRMED" => journal.signed[o] \in executed
  PROVE  AgentInv'
<1>1. journal \in Journals
  BY LoopTyped
<1>2. /\ journal' \in Journals /\ disk'.signed = disk.signed /\ disk'.next = disk.next
      /\ journal'.signed = journal.signed
      /\ \A p \in Occurrences : disk'.state[p] = IF p = o THEN s ELSE disk.state[p]
  BY <1>1 DEF Journals
<1>3. UNCHANGED <<now, late, inbox, policy, granted, executed>>
  BY DEF outside, chainVars
<1>4. TypeOK' /\ JournalKept'
  BY <1>2, <1>3 DEF AgentInv, TypeOK, JournalKept
<1>5. SignaturesStored' /\ NoncesStored'
  BY <1>2, <1>3 DEF AgentInv, SignaturesStored, IsFor, NoncesStored
<1>6. OneSignaturePerOccurrence'
  <2> SUFFICES ASSUME NEW x \in sent
               PROVE  disk'.signed[x.for] = x /\ disk'.state[x.for] # "SKIPPED"
    BY DEF OneSignaturePerOccurrence
  <2>1. disk.signed[x.for] = x /\ disk.state[x.for] # "SKIPPED"
    BY DEF AgentInv, OneSignaturePerOccurrence
  <2>2. x \in Intents /\ x.for \in Occurrences /\ x # NoIntent
    BY InboxTyped, IntentTyped
  <2>3. disk.state[x.for] # "NONE"
    BY <2>1, <2>2 DEF AgentInv, SignaturesStored
  <2>4. QED
    BY <1>2, <2>1, <2>2, <2>3
<1>7. ConfirmedIsExecuted'
  BY <1>2, <1>3 DEF AgentInv, ConfirmedIsExecuted
<1>8. Waiting' /\ Drafted' /\ ConfirmedIsPaid'
  BY <1>3 DEF AgentInv, Waiting, Drafted, ConfirmedIsPaid
<1>9. GrantsKept'
  BY <1>2, <1>3, SameSignatures DEF AgentInv, GrantsKept
<1>10. QED
  BY <1>4, <1>5, <1>6, <1>7, <1>8, <1>9 DEF AgentInv

LEMMA SkipStep ==
  ASSUME AgentInv, Considers, Unopened(At), Write(Skipped(At)), GoOn,
         UNCHANGED <<answer, outside, sent, crashes>>
  PROVE  AgentInv'
<1>1. pc = "next" /\ disk = journal /\ answer = "none" /\ At \in Occurrences
  BY LoopTyped, AtTodo DEF Considers
<1>2. journal' = [journal EXCEPT !.state[At] = "SKIPPED"] /\ disk' = journal'
  BY <1>1 DEF Write, Skipped
<1>3. todo' \subseteq Occurrences /\ "SKIPPED" \in States
  BY LoopTyped DEF GoOn, States, Terminal
<1>4. journal.state[At] = "NONE"
  BY DEF Unopened
<1> DEFINE o == At
<1>5. QED
  BY <1>1, <1>2, <1>3, <1>4, StateStep DEF GoOn

LEMMA AnsweredStep == AgentInv /\ Answered => AgentInv'
<1> SUFFICES ASSUME AgentInv, Answered PROVE AgentInv'
  OBVIOUS
<1>1. /\ pc \in {"submit", "status"} /\ answer # "none" /\ answer' = "none"
      /\ disk = journal /\ todo # {} /\ At \in Occurrences
      /\ UNCHANGED <<outside, sent, crashes>>
  BY LoopTyped, AtTodo DEF Answered, AgentInv, Waiting, JournalKept
<1>2. pc' = "next" /\ todo' \subseteq Occurrences /\ draft' = NoIntent /\ UNCHANGED tickNow
  BY LoopTyped DEF Answered, GoOn
<1>3. CASE UNCHANGED journalVars
  BY <1>1, <1>2, <1>3, LoopTyped, Quiet DEF journalVars, outside, chainVars
<1>4. CASE Write(WithState(At, Result(answer)))
  <2>1. journal.state[At] \in {"SIGNED", "LIVE"} /\ disk.state[At] \in {"SIGNED", "LIVE"}
    BY <1>1 DEF AgentInv, Waiting
  <2>2. WithState(At, Result(answer)) = [journal EXCEPT !.state[At] = Result(answer)]
    BY <2>1 DEF WithState, Terminal
  <2>3. journal' = [journal EXCEPT !.state[At] = Result(answer)] /\ disk' = journal'
    BY <1>1, <1>4, <2>2 DEF Write
  <2>4. CASE answer = "unavailable"
    <3>1. UNCHANGED journalVars
      BY <2>4 DEF Answered
    <3>2. QED
      BY <1>3, <3>1
  <2>5. CASE answer # "unavailable"
    <3>1. Result(answer) \in {"FAILED"} \union Reported /\ (Result(answer) = "CONFIRMED" => answer = "CONFIRMED")
      BY <1>1, <2>5, InboxTyped DEF Result, Replies, Reported
    <3>2. Result(answer) = "CONFIRMED" => journal.signed[At] \in executed
      BY <1>1, <3>1 DEF AgentInv, ConfirmedIsPaid
    <3>3. /\ Result(answer) \in States
          /\ Result(answer) \notin {"NONE", "SKIPPED"} /\ journal.state[At] \notin {"NONE", "SKIPPED"}
      BY <2>1, <3>1 DEF States, Reported, Terminal
    <3>4. QED
      BY <1>1, <1>2, <2>3, <3>2, <3>3, StateStep
  <2>6. QED
    BY <2>4, <2>5
<1>5. QED
  BY <1>3, <1>4 DEF Answered

(* The policy check leaves room for the signature in the grant: what the   *)
(* chain has spent and what is pending together cover all that is signed.  *)
LEMMA RoomInBudget ==
  ASSUME AgentInv, Considers, Allowed
  PROVE  LET w == Of(At).owner IN
         /\ w \in Owners /\ Of(At).amount \in Nat /\ Read \in Policies
         /\ Read.epoch \in 0 .. MaxEpoch
         /\ Sum(Signatures(w, Read.epoch)) + Of(At).amount <= granted[w][Read.epoch]
<1> DEFINE w == Of(At).owner
           confirmed == ConfirmedSpend(w, Read.epoch)
           reserved == ReservedSpend(w, Read.epoch)
<1>1. At \in Occurrences
  BY LoopTyped, AtTodo DEF Considers
<1>2. w \in Owners /\ Of(At).amount \in Nat
  BY <1>1, OccurrenceTyped
<1>3. Read \in Policies /\ Read = policy[w] /\ Read.epoch \in 0 .. MaxEpoch
  BY <1>2, ChainTyped DEF Read
<1>4. Read.spent \in Nat /\ Read.budget \in Nat
  BY <1>3 DEF Policies
<1>5. Read.budget = granted[w][Read.epoch]
  BY <1>2, <1>3, ChainTyped DEF Allowed
<1>6. /\ Sum(Signatures(w, Read.epoch)) = confirmed + reserved
      /\ confirmed \in Nat /\ reserved \in Nat
  BY LoopTyped, CountedSignatures
<1>7. Of(At).amount <= Read.budget - Read.spent
        - (reserved + IF confirmed > Read.spent THEN confirmed - Read.spent ELSE 0)
  BY DEF Allowed, WithinBudget, Pending
<1> HIDE DEF confirmed, reserved
<1>8. confirmed + reserved + Of(At).amount <= Read.budget
  BY <1>2, <1>4, <1>6, <1>7
<1>9. QED
  BY <1>2, <1>3, <1>5, <1>6, <1>8

LEMMA BeginSigningStep == AgentInv /\ BeginSigning => AgentInv'
<1> SUFFICES ASSUME AgentInv, BeginSigning PROVE AgentInv'
  OBVIOUS
<1> DEFINE w == Of(At).owner
           e == Read.epoch
<1>1. /\ Considers /\ Unopened(At) /\ tickNow \in Due(At) .. WindowEnd(At) /\ ~NoTimeLeft /\ Allowed
      /\ pc = "next" /\ pc' = "sign" /\ answer = "none" /\ disk = journal /\ todo # {}
      /\ UNCHANGED <<journalVars, todo, tickNow, answer, outside, sent, crashes>>
  BY LoopTyped DEF BeginSigning, Opens, Considers
<1>2. /\ At \in Occurrences /\ At' = At /\ disk.state[At] = "NONE"
      /\ Due(At) \in Nat /\ WindowEnd(At) \in Nat
  BY <1>1, LoopTyped, AtTodo, OccurrenceTyped DEF At, Unopened
<1>3. /\ w \in Owners /\ Of(At).amount \in Nat /\ Read \in Policies /\ e \in 0 .. MaxEpoch
      /\ Sum(Signatures(w, e)) + Of(At).amount <= granted[w][e]
  BY <1>1, RoomInBudget
<1>4. Deadline \in Nat /\ Deadline <= WindowEnd(At)
  <2>1. Read.validUntil \in Nat
    BY <1>3 DEF Policies
  <2>2. QED
    BY <1>2, <2>1 DEF Deadline
<1>5. journal.next[w][e] \in Nat
  <2>1. journal.next \in [Owners -> [0 .. MaxEpoch -> Nat]]
    BY LoopTyped, JournalTyped
  <2> HIDE DEF w, e
  <2>2. QED
    BY <1>3, <2>1
<1>6. draft' = [for |-> At, owner |-> w, epoch |-> e, nonce |-> journal.next[w][e],
                amount |-> Of(At).amount, deadline |-> Deadline]
  BY DEF BeginSigning
<1>7. Due(At) <= now
  BY <1>1, <1>2, LoopTyped
<1>8. e <= policy[w].epoch /\ e \in Nat
  <2>1. Read = policy[w]
    BY DEF Read
  <2>2. QED
    BY <1>3, <2>1
<1>9. IsFor(draft', At) /\ draft' \in Intents
  <2>1. draft' \in Intents
    BY <1>2, <1>3, <1>4, <1>5, <1>6, <1>8 DEF Intents
  <2>2. QED
    BY <1>4, <1>6, <1>7, <1>8, <2>1 DEF IsFor
<1>10. TypeOK' /\ JournalKept' /\ SameRows
  BY <1>1, <1>9 DEF AgentInv, TypeOK, JournalKept, SameRows, journalVars, outside, chainVars
<1>11. Waiting' /\ ConfirmedIsPaid'
  BY <1>1 DEF AgentInv, Waiting, ConfirmedIsPaid, journalVars, outside, chainVars
<1>12. Drafted'
  <2> DEFINE v == w
             k == e
             o == At
  <2>1. /\ draft'.owner = v /\ draft'.epoch = k /\ draft'.nonce = journal.next[v][k]
        /\ draft'.amount = Of(o).amount
    BY <1>6
  <2>2. UNCHANGED <<disk, journal, granted, policy, now>>
    BY <1>1 DEF journalVars, outside, chainVars
  <2>3. Signatures(draft.owner, draft.epoch)' = Signatures(v, k)
    BY <2>1, <2>2 DEF Signatures
  <2>4. Sum(Signatures(v, k)) + draft'.amount <= granted'[v][k]
    BY <1>3, <2>1, <2>2
  <2>5. IsFor(draft, At)'
    BY <1>2, <1>9, <2>2 DEF IsFor
  <2>6. disk'.state[At'] = "NONE" /\ draft'.nonce = disk'.next[draft'.owner][draft'.epoch]
    BY <1>1, <1>2, <2>1, <2>2
  <2> HIDE DEF v, k, o
  <2>7. Sum(Signatures(draft.owner, draft.epoch))' + draft'.amount <= granted'[draft'.owner][draft'.epoch]
    BY <2>1, <2>3, <2>4 DEF Sum
  <2>8. QED
    BY <2>5, <2>6, <2>7 DEF Drafted
<1>13. QED
  BY <1>1, <1>10, <1>11, <1>12, StoredKept DEF AgentInv, outside, chainVars

(* Replacing one entry of a table.                                         *)
LEMMA EntryReplaced ==
  ASSUME NEW A, NEW B, NEW f \in [A -> [B -> Nat]], NEW a \in A, NEW b \in B, NEW m \in Nat
  PROVE  LET g == [f EXCEPT ![a][b] = m] IN
         /\ g \in [A -> [B -> Nat]]
         /\ \A x \in A, y \in B : g[x][y] = IF x = a /\ y = b THEN m ELSE f[x][y]
OBVIOUS

(* The signature is stored with its nonce: it is the only one of its       *)
(* occurrence, no other has its nonce, and the grant has room for it.      *)
LEMMA SignReturnsStep == AgentInv /\ SignReturns => AgentInv'
<1> SUFFICES ASSUME AgentInv, SignReturns PROVE AgentInv'
  OBVIOUS
<1> DEFINE o == At
           d == draft
           w == draft.owner
           e == draft.epoch
<1>1. /\ pc = "sign" /\ pc' = "next" /\ draft' = NoIntent /\ todo' = todo /\ tickNow' = tickNow
      /\ answer = "none" /\ answer' = "none"
      /\ UNCHANGED <<sent, crashes, now, late, inbox, policy, granted, executed>>
  BY DEF SignReturns, AgentInv, Waiting, outside, chainVars
<1>2. /\ o \in Occurrences /\ journal \in Journals /\ disk \in Journals
      /\ disk.state = journal.state /\ disk.signed = journal.signed /\ disk.next = journal.next
  BY <1>1, LoopTyped, AtTodo DEF AgentInv, Waiting, JournalKept
<1>3. /\ disk.state[o] = "NONE" /\ IsFor(d, o) /\ d.nonce = disk.next[w][e]
      /\ Sum(Signatures(w, e)) + d.amount <= granted[w][e]
  BY <1>1 DEF AgentInv, Drafted
<1>4. d \in Intents /\ d.for = o /\ w \in Owners /\ e \in 0 .. MaxEpoch /\ d.nonce \in Nat
  <2>1. d \in Intents /\ d.for = o /\ e <= policy[w].epoch
    BY <1>3 DEF IsFor
  <2>2. w \in Owners /\ e \in Nat /\ d.nonce \in Nat
    BY <2>1, IntentTyped
  <2>3. QED
    BY <2>1, <2>2, ChainTyped
<1>5. disk.signed[o] = NoIntent
  BY <1>2, <1>3 DEF AgentInv, SignaturesStored
<1> DEFINE n == [journal.next EXCEPT ![w][e] = d.nonce + 1]
<1>6. /\ n \in [Owners -> [0 .. MaxEpoch -> Nat]]
      /\ \A v \in Owners, k \in 0 .. MaxEpoch :
           n[v][k] = IF v = w /\ k = e THEN d.nonce + 1 ELSE journal.next[v][k]
  <2>1. journal.next \in [Owners -> [0 .. MaxEpoch -> Nat]]
    BY <1>2, JournalTyped
  <2> DEFINE B == 0 .. MaxEpoch
             m == d.nonce + 1
             f == journal.next
  <2>2. m \in Nat /\ w \in Owners /\ e \in B /\ f \in [Owners -> [B -> Nat]]
    BY <1>4, <2>1
  <2> HIDE DEF w, e, B, m, f
  <2>3. /\ [f EXCEPT ![w][e] = m] \in [Owners -> [B -> Nat]]
        /\ \A v \in Owners, k \in B :
             [f EXCEPT ![w][e] = m][v][k] = IF v = w /\ k = e THEN m ELSE f[v][k]
    BY <2>2, EntryReplaced
  <2>4. QED
    BY <2>3 DEF B, m, f
<1>7. /\ journal' = [journal EXCEPT !.state[o] = "SIGNED", !.signed[o] = d, !.next = n]
      /\ disk' = journal'
  BY DEF SignReturns, Commit, NonceTaken
<1> HIDE DEF n
<1>8. /\ journal' \in Journals /\ disk' = journal' /\ disk'.next = n
      /\ \A p \in Occurrences : disk'.state[p] = IF p = o THEN "SIGNED" ELSE disk.state[p]
      /\ \A p \in Occurrences : disk'.signed[p] = IF p = o THEN d ELSE disk.signed[p]
  <2> HIDE DEF d, o
  <2>1. "SIGNED" \in States
    BY DEF States
  <2>2. QED
    BY <1>2, <1>4, <1>6, <1>7, <2>1 DEF Journals
<1>9. TypeOK' /\ JournalKept'
  <2>1. NoIntent \in Intents \union {NoIntent} /\ "next" \in {"idle", "next", "sign", "submit", "status"}
    OBVIOUS
  <2>2. QED
    BY <1>1, <1>8, <2>1 DEF AgentInv, TypeOK, JournalKept
<1>10. ASSUME NEW p \in Occurrences, p # o, disk.signed[p] # NoIntent
       PROVE  LET x == disk.signed[p] IN
              /\ x \in Intents /\ x.for = p /\ x.nonce < disk.next[x.owner][x.epoch] /\ IsFor(x, p)
              /\ x.owner \in Owners /\ x.epoch \in 0 .. MaxEpoch /\ x.nonce \in Nat
              /\ disk.state[p] \notin {"NONE", "SKIPPED"}
  <2> DEFINE x == disk.signed[p]
  <2>1. IsFor(x, p) /\ x.nonce < disk.next[x.owner][x.epoch] /\ disk.state[p] \notin {"NONE", "SKIPPED"}
    BY <1>10 DEF AgentInv, SignaturesStored
  <2>2. x \in Intents /\ x.for = p /\ x.epoch <= policy[x.owner].epoch
    BY <2>1 DEF IsFor
  <2> HIDE DEF x
  <2>3. x.owner \in Owners /\ x.epoch \in 0 .. MaxEpoch /\ x.nonce \in Nat
    BY <2>2, IntentTyped, ChainTyped
  <2>4. QED
    BY <2>1, <2>2, <2>3 DEF x
<1>11. SignaturesStored'
  <2> SUFFICES ASSUME NEW p \in Occurrences
               PROVE  LET x == disk'.signed[p] IN
                      IF disk'.state[p] \in {"NONE", "SKIPPED"} THEN x = NoIntent
                      ELSE IsFor(x, p) /\ x.nonce < disk'.next[x.owner][x.epoch]
    BY <1>1 DEF SignaturesStored, IsFor
  <2>1. CASE p = o
    <3>1. disk'.state[p] = "SIGNED" /\ disk'.signed[p] = d /\ disk'.next[w][e] = d.nonce + 1
      BY <1>4, <1>6, <1>8, <2>1
    <3>2. IsFor(d, p)
      BY <1>3, <2>1
    <3> HIDE DEF d, o, w, e
    <3>3. d.nonce < disk'.next[d.owner][d.epoch]
      BY <1>4, <3>1 DEF d, w, e
    <3>4. QED
      BY <3>1, <3>2, <3>3
  <2>2. CASE p # o /\ disk.signed[p] # NoIntent
    <3> DEFINE x == disk.signed[p]
    <3>1. /\ x.nonce < disk.next[x.owner][x.epoch] /\ IsFor(x, p)
          /\ x.owner \in Owners /\ x.epoch \in 0 .. MaxEpoch /\ x.nonce \in Nat
          /\ disk.state[p] \notin {"NONE", "SKIPPED"}
      BY <1>10, <2>2
    <3>2. disk'.state[p] = disk.state[p] /\ disk'.signed[p] = x
      BY <1>8, <2>2
    <3> HIDE DEF x
    <3>3. disk'.next[x.owner][x.epoch] =
            IF x.owner = w /\ x.epoch = e THEN d.nonce + 1 ELSE disk.next[x.owner][x.epoch]
      BY <1>2, <1>6, <1>8, <3>1
    <3> HIDE DEF d, w, e
    <3>4. x.nonce < disk'.next[x.owner][x.epoch]
      BY <1>3, <1>4, <3>1, <3>3
    <3>5. QED
      BY <3>1, <3>2, <3>4
  <2>3. CASE p # o /\ disk.signed[p] = NoIntent
    <3>1. disk'.state[p] = disk.state[p] /\ disk'.signed[p] = NoIntent
      BY <1>8, <2>3
    <3>2. disk.state[p] \in {"NONE", "SKIPPED"}
      BY <2>3, NoIntentIsNone DEF AgentInv, SignaturesStored, IsFor
    <3>3. QED
      BY <3>1, <3>2
  <2>4. QED
    BY <2>1, <2>2, <2>3
<1>12. NoncesStored'
  <2>1. ASSUME NEW p \in Occurrences, p # o, disk.signed[p] # NoIntent,
               disk.signed[p].owner = w, disk.signed[p].epoch = e
        PROVE  disk.signed[p].nonce # d.nonce
    BY <1>3, <1>4, <1>10, <2>1
  <2>2. \A p, q \in Occurrences :
          LET x == disk.signed[p]
              y == disk.signed[q]
          IN x # NoIntent /\ y # NoIntent /\ x.owner = y.owner /\ x.epoch = y.epoch /\ x.nonce = y.nonce
               => p = q
    BY DEF AgentInv, NoncesStored
  <2>3. \A p \in Occurrences : disk'.signed[p] = IF p = o THEN d ELSE disk.signed[p]
    BY <1>8
  <2>4. ASSUME NEW p \in Occurrences, NEW q \in Occurrences,
               disk'.signed[p] # NoIntent, disk'.signed[q] # NoIntent,
               disk'.signed[p].owner = disk'.signed[q].owner,
               disk'.signed[p].epoch = disk'.signed[q].epoch,
               disk'.signed[p].nonce = disk'.signed[q].nonce
        PROVE  p = q
    <3> HIDE DEF d, w, e, o
    <3>1. d.owner = w /\ d.epoch = e
      BY DEF d, w, e
    <3>2. CASE p = o /\ q # o
      BY <2>1, <2>3, <2>4, <3>1, <3>2
    <3>3. CASE p # o /\ q = o
      BY <2>1, <2>3, <2>4, <3>1, <3>3
    <3>4. CASE p # o /\ q # o
      BY <2>2, <2>3, <2>4, <3>4
    <3>5. QED
      BY <3>2, <3>3, <3>4
  <2>5. QED
    BY <2>4 DEF NoncesStored
<1>13. OneSignaturePerOccurrence'
  <2> SUFFICES ASSUME NEW x \in sent
               PROVE  disk'.signed[x.for] = x /\ disk'.state[x.for] # "SKIPPED"
    BY <1>1 DEF OneSignaturePerOccurrence
  <2>1. /\ disk.signed[x.for] = x /\ disk.state[x.for] # "SKIPPED"
        /\ x.for \in Occurrences /\ x # NoIntent
    BY InboxTyped, IntentTyped DEF AgentInv, OneSignaturePerOccurrence
  <2>2. x.for # o
    BY <1>5, <2>1
  <2>3. QED
    BY <1>8, <2>1, <2>2
<1>14. ConfirmedIsExecuted'
  BY <1>1, <1>8 DEF AgentInv, ConfirmedIsExecuted
<1>15. Waiting' /\ Drafted' /\ ConfirmedIsPaid'
  BY <1>1 DEF AgentInv, Waiting, Drafted, ConfirmedIsPaid
<1>16. GrantsKept'
  <2>1. ASSUME NEW v \in Owners, NEW k \in 0 .. MaxEpoch
        PROVE  Sum(Signatures(v, k)') <= granted[v][k]
    <3>1. Sum(Signatures(v, k)) <= granted[v][k]
      BY DEF AgentInv, GrantsKept
    <3>2. /\ Signatures(v, k) = {x \in {disk.signed[p] : p \in Occurrences} \ {NoIntent} :
                                   x.owner = v /\ x.epoch = k}
          /\ Signatures(v, k)' = {x \in {disk'.signed[p] : p \in Occurrences} \ {NoIntent} :
                                    x.owner = v /\ x.epoch = k}
      BY <1>2, <1>8 DEF Signatures
    <3>3. {disk'.signed[p] : p \in Occurrences} \ {NoIntent}
            = ({disk.signed[p] : p \in Occurrences} \ {NoIntent}) \union {d}
      <4>1. d # NoIntent
        BY <1>4, IntentTyped
      <4> HIDE DEF d, o
      <4>2. QED
        BY <1>2, <1>5, <1>8, <4>1
    <3>4. CASE v = w /\ k = e
      <4>1. Signatures(v, k)' = Signatures(v, k) \union {d}
        BY <3>2, <3>3, <3>4
      <4>2. d \notin Signatures(v, k)
        <5> SUFFICES ASSUME d \in Signatures(v, k) PROVE FALSE
          OBVIOUS
        <5>1. PICK p \in Occurrences : d = disk.signed[p] /\ d # NoIntent
          BY <3>2
        <5>2. p # o
          BY <1>5, <5>1
        <5>3. d.for = p
          BY <1>10, <5>1, <5>2
        <5>4. QED
          BY <1>4, <5>2, <5>3
      <4>3. Signatures(v, k) \in SUBSET Intents /\ IsFiniteSet(Signatures(v, k))
        BY <1>2, SignaturesTyped
      <4> HIDE DEF d
      <4>4. Sum(Signatures(v, k) \union {d}) = Sum(Signatures(v, k)) + d.amount
        BY <1>4, <4>2, <4>3, SumOfMore
      <4>5. QED
        BY <1>3, <3>4, <4>1, <4>4
    <3>5. CASE ~(v = w /\ k = e)
      <4>1. Signatures(v, k)' = Signatures(v, k)
        BY <3>2, <3>3, <3>5
      <4>2. QED
        BY <3>1, <4>1
    <3>6. QED
      BY <3>4, <3>5
  <2>2. \A v \in Owners, k \in 0 .. MaxEpoch : Sum(Signatures(v, k))' <= granted'[v][k]
    BY <1>1, <2>1 DEF Sum
  <2>3. QED
    BY <1>1, <2>2 DEF AgentInv, GrantsKept
<1>17. QED
  BY <1>9, <1>11, <1>12, <1>13, <1>14, <1>15, <1>16 DEF AgentInv

-----------------------------------------------------------------------------
(* The agent starts with an empty journal.                                 *)
LEMMA InitAgentInv == Init => AgentInv
<1> SUFFICES ASSUME Init PROVE AgentInv
  OBVIOUS
<1>1. journal \in Journals
  <2>1. "NONE" \in States
    BY DEF States
  <2>2. [w \in Owners |-> [e \in 0 .. MaxEpoch |-> 0]] \in [Owners -> [0 .. MaxEpoch -> Nat]]
    OBVIOUS
  <2>3. QED
    BY <2>1, <2>2 DEF Init, Journals
<1>2. Unconfigured \in Policies /\ Unconfigured.epoch = 0 /\ Unconfigured.active = FALSE
  BY DEF Unconfigured, Policies
<1>3. TypeOK
  <2>1. DOMAIN inbox = {} /\ inbox \in [{} -> Reported]
    BY DEF Init
  <2>2. granted \in [Owners -> [0 .. MaxEpoch -> Nat]] /\ policy \in [Owners -> Policies]
    BY <1>2 DEF Init
  <2>3. QED
    BY <1>1, <2>1, <2>2 DEF Init, TypeOK
<1>4. /\ journal.state = [o \in Occurrences |-> "NONE"] /\ disk = journal
      /\ journal.signed = [o \in Occurrences |-> NoIntent]
  BY DEF Init
<1>5. JournalKept /\ SignaturesStored /\ NoncesStored /\ OneSignaturePerOccurrence /\ ConfirmedIsExecuted
  BY <1>4 DEF Init, JournalKept, SignaturesStored, NoncesStored, OneSignaturePerOccurrence,
              ConfirmedIsExecuted
<1>6. Waiting /\ Drafted /\ ConfirmedIsPaid
  BY DEF Init, Waiting, Drafted, ConfirmedIsPaid
<1>7. GrantsKept
  <2>1. \A w, e : Signatures(w, e) = {}
    BY <1>4 DEF Signatures
  <2>2. \A w, e : Sum(Signatures(w, e)) = 0
    BY <2>1, SumOfNone DEF Sum
  <2>3. /\ \A w \in Owners : policy[w] = Unconfigured
        /\ \A w \in Owners, e \in 0 .. MaxEpoch : granted[w][e] = 0
    BY DEF Init
  <2>4. QED
    BY <1>2, <2>2, <2>3, BoundsAssumption DEF GrantsKept
<1>8. QED
  BY <1>3, <1>5, <1>6, <1>7 DEF AgentInv

LEMMA StutterStep == AgentInv /\ UNCHANGED vars => AgentInv'
<1> SUFFICES ASSUME AgentInv, UNCHANGED vars PROVE AgentInv'
  OBVIOUS
<1>1. UNCHANGED inside /\ UNCHANGED <<now, policy, granted, executed>>
  BY DEF vars, inside, journalVars, tickVars, outside, chainVars
<1>2. QED
  BY <1>1, ChainTyped, ChainKept

LEMMA AgentStep == AgentInv /\ [Next]_vars => AgentInv'
<1> SUFFICES ASSUME AgentInv, [Next]_vars PROVE AgentInv'
  OBVIOUS
<1>1. ASSUME NEW s \in DOMAIN Schedules, Register(s) PROVE AgentInv'
  BY <1>1, RegisterStep
<1>2. CASE Tick
  <2>1. CASE SkipMissed \/ SkipForGood
    BY <2>1, SkipStep DEF SkipMissed, SkipForGood, Opens
  <2>2. QED
    BY <1>2, <2>1, BeginTickStep, TickDoneStep, NothingToDoStep, BlockStep, BeginSigningStep,
       SubmitStep, AskStatusStep DEF Tick, Consider
<1>3. CASE Signer \/ Answered \/ Unreachable \/ Crash
  BY <1>3, SignReturnsStep, SignThrowsStep, AnsweredStep, UnreachableStep, CrashStep DEF Signer
<1>4. CASE Relayer
  BY <1>4, HandleSubmissionStep, HandleLateStep, HandleStatusStep, SettleStep DEF Relayer
<1>5. CASE Chain \/ ClockTicks \/ UNCHANGED vars
  BY <1>5, ExecuteStep, ConfigureStep, RevokeStep, ClockStep, StutterStep DEF Chain
<1>6. QED
  BY <1>1, <1>2, <1>3, <1>4, <1>5 DEF Next

(* The inductive invariant holds across crashes, lost answers and          *)
(* whatever the owner and the relayer do meanwhile.                        *)
THEOREM AgentInvariance == Spec => []AgentInv
BY InitAgentInv, AgentStep, PTL DEF Spec

(* What leaves the process is in the journal, once per occurrence, under a *)
(* nonce of its own, and never for an occurrence that was skipped          *)
(* (agent.ts:23-26, journal.ts:75).                                        *)
THEOREM SignedOnce == Spec => []SignaturesAreUnique
<1>1. ASSUME AgentInv PROVE SignaturesAreUnique
  <2>1. ASSUME NEW x \in sent, NEW y \in sent,
               x.owner = y.owner, x.epoch = y.epoch, x.nonce = y.nonce
        PROVE  x = y
    <3>1. /\ x.for \in Occurrences /\ y.for \in Occurrences /\ x # NoIntent /\ y # NoIntent
      BY <1>1, InboxTyped, IntentTyped
    <3>2. disk.signed[x.for] = x /\ disk.signed[y.for] = y
      BY <1>1 DEF AgentInv, OneSignaturePerOccurrence
    <3>3. x.for = y.for
      BY <1>1, <2>1, <3>1, <3>2 DEF AgentInv, NoncesStored
    <3>4. QED
      BY <3>2, <3>3
  <2>2. QED
    BY <1>1, <2>1 DEF AgentInv, SignaturesAreUnique, NoncesAreDistinct
<1>2. QED
  BY <1>1, AgentInvariance, PTL

(* Whoever executes whichever of the signatures, they never ask for more   *)
(* than their epoch granted (journal.ts:125-128, agent.ts:111-113).        *)
THEOREM BudgetSuffices == Spec => []SignaturesFitBudget
<1>1. ASSUME AgentInv PROVE SignaturesFitBudget
  <2> SUFFICES ASSUME NEW w \in Owners, NEW e \in 0 .. MaxEpoch
               PROVE  Sum({x \in sent : x.owner = w /\ x.epoch = e}) <= granted[w][e]
    BY DEF SignaturesFitBudget
  <2> DEFINE T == {x \in sent : x.owner = w /\ x.epoch = e}
             S == Signatures(w, e)
  <2>1. T \in SUBSET S
    <3> SUFFICES ASSUME NEW x \in T PROVE x \in S
      OBVIOUS
    <3>1. x \in sent /\ x.for \in Occurrences /\ x # NoIntent
      BY <1>1, InboxTyped, IntentTyped
    <3>2. journal.signed[x.for] = x
      BY <1>1, <3>1 DEF AgentInv, OneSignaturePerOccurrence, JournalKept
    <3>3. QED
      BY <3>1, <3>2 DEF Signatures
  <2>2. S \in SUBSET Intents /\ IsFiniteSet(S)
    BY <1>1, LoopTyped, SignaturesTyped
  <2>3. Sum(S) <= granted[w][e] /\ granted[w][e] \in Nat
    BY <1>1, ChainTyped DEF AgentInv, GrantsKept
  <2> HIDE DEF S, T
  <2>4. T \in SUBSET Intents /\ IsFiniteSet(T)
    BY <2>1, <2>2, FS_Subset
  <2>5. Sum(T) <= Sum(S) /\ Sum(S) \in Nat /\ Sum(T) \in Nat
    BY <2>1, <2>2, <2>4, SumOfTwo, SumTyped
  <2>6. Sum(T) <= granted[w][e]
    BY <2>3, <2>5
  <2>7. QED
    BY <2>6 DEF T
<1>2. QED
  BY <1>1, AgentInvariance, PTL

(* The journal says CONFIRMED only of what the chain has executed.         *)
THEOREM ConfirmationsAreTrue == Spec => []ConfirmedIsExecuted
<1>1. AgentInv => ConfirmedIsExecuted
  BY DEF AgentInv
<1>2. QED
  BY <1>1, AgentInvariance, PTL

-----------------------------------------------------------------------------
(* What a step never does.                                                 *)

LEMMA TerminalStep ==
  ASSUME AgentInv, [Next]_vars, NEW o \in Occurrences, disk.state[o] \in Terminal
  PROVE  disk'.state[o] = disk.state[o]
<1>0. journal \in Journals /\ disk.state = journal.state /\ journal.state[o] \in Terminal
  BY LoopTyped DEF AgentInv, JournalKept
<1>1. CASE UNCHANGED disk
  BY <1>1
<1>2. ASSUME NEW s \in DOMAIN Schedules, Register(s) PROVE disk'.state = disk.state
  BY <1>0, <1>2 DEF Register, Write, Journals
<1>3. ASSUME Considers, Unopened(At), Write(Skipped(At)) PROVE disk'.state[o] = disk.state[o]
  <2>1. At # o /\ At \in Occurrences /\ pc = "next"
    BY <1>0, <1>3, LoopTyped, AtTodo DEF Unopened, Terminal, Considers
  <2>2. disk' = [journal EXCEPT !.state[At] = "SKIPPED"]
    BY <1>3, <2>1 DEF Write, Skipped
  <2>3. QED
    BY <1>0, <2>1, <2>2 DEF Journals
<1>4. CASE SignReturns
  <2>1. At # o /\ At \in Occurrences
    BY <1>0, <1>4, LoopTyped, AtTodo DEF SignReturns, AgentInv, Drafted, Waiting, Terminal
  <2>2. disk' = [journal EXCEPT !.state[At] = "SIGNED", !.signed[At] = draft, !.next = NonceTaken]
    BY <1>4 DEF SignReturns, Commit
  <2> HIDE DEF NonceTaken
  <2>3. disk'.state[o] = journal.state[o]
    BY <1>0, <2>1, <2>2 DEF Journals
  <2>4. QED
    BY <1>0, <2>3
<1>5. CASE Answered
  <2>1. CASE Write(WithState(At, Result(answer)))
    <3>1. At # o /\ pc # "sign" /\ At \in Occurrences
      BY <1>0, <1>5, LoopTyped, AtTodo DEF Answered, AgentInv, Waiting, Terminal
    <3>2. disk' = journal \/ disk' = [journal EXCEPT !.state[At] = Result(answer)]
      BY <2>1, <3>1 DEF Write, WithState
    <3>3. QED
      BY <1>0, <3>1, <3>2 DEF Journals
  <2>2. QED
    BY <1>1, <1>5, <2>1 DEF Answered, journalVars
<1>6. CASE BeginTick \/ TickDone \/ NothingToDo \/ Block \/ BeginSigning \/ Submit \/ AskStatus
           \/ SignThrows \/ Unreachable \/ Crash \/ Relayer \/ Chain \/ ClockTicks \/ UNCHANGED vars
  BY <1>1, <1>6 DEF BeginTick, TickDone, NothingToDo, Block, BeginSigning, Submit, AskStatus,
     SignThrows, Unreachable, Crash, Relayer, HandleSubmission, HandleLate, HandleStatus, Settle,
     Chain, Execute, Configure, Revoke, ClockTicks, inside, journalVars, vars
<1>7. QED
  BY <1>1, <1>2, <1>3, <1>4, <1>5, <1>6
     DEF Next, Tick, Consider, Signer, SkipMissed, SkipForGood, Opens

(* A terminal occurrence stays as it is, across crashes and answers to     *)
(* requests of an earlier life (journal.ts:196).                           *)
THEOREM TerminalStays == Spec => TerminalIsFinal
<1>1. AgentInv /\ [Next]_vars =>
        [\A o \in Occurrences : disk.state[o] \in Terminal => disk'.state[o] = disk.state[o]]_disk
  BY TerminalStep
<1>2. QED
  BY <1>1, AgentInvariance, PTL DEF Spec, TerminalIsFinal

LEMMA PaymentStep ==
  ASSUME AgentInv, [Next]_vars, NEW x \in executed', x \notin executed
  PROVE  now \in Due(x.for) .. WindowEnd(x.for)
<1>1. CASE UNCHANGED executed
  BY <1>1
<1>2. ASSUME NEW y \in sent, Execute(y) PROVE now \in Due(x.for) .. WindowEnd(x.for)
  <2>1. x = y /\ now <= x.deadline /\ x \in sent
    BY <1>2 DEF Execute
  <2>2. x \in Intents /\ x.for \in Occurrences /\ x # NoIntent /\ x.deadline \in Nat
    BY <2>1, InboxTyped, IntentTyped
  <2>3. disk.signed[x.for] = x
    BY <2>1 DEF AgentInv, OneSignaturePerOccurrence
  <2>4. IsFor(x, x.for)
    BY <2>2, <2>3 DEF AgentInv, SignaturesStored
  <2>5. Due(x.for) \in Nat /\ WindowEnd(x.for) \in Nat /\ now \in Nat
    BY <2>2, OccurrenceTyped, ChainTyped
  <2>6. QED
    BY <2>1, <2>2, <2>4, <2>5 DEF IsFor
<1>3. CASE ~(\E y \in sent : Execute(y))
  <2>1. UNCHANGED executed
    BY <1>3 DEF Next, Register, Tick, BeginTick, TickDone, Consider, NothingToDo, SkipMissed,
       SkipForGood, Block, BeginSigning, Submit, AskStatus, Signer, SignReturns, SignThrows,
       Answered, Unreachable, Crash, Relayer, HandleSubmission, HandleLate, HandleStatus, Settle,
       Chain, Configure, Revoke, ClockTicks, chainVars, outside, vars
  <2>2. QED
    BY <1>1, <2>1
<1>4. QED
  BY <1>2, <1>3

(* Nothing is paid outside the window of its occurrence, however long the  *)
(* awaits, and whenever the process restarts (agent.ts:51, 95-98).         *)
THEOREM PaidOnTime == Spec => PaidInWindow
<1>1. AgentInv /\ [Next]_vars =>
        [\A x \in executed' \ executed : now \in Due(x.for) .. WindowEnd(x.for)]_executed
  BY PaymentStep
<1>2. QED
  BY <1>1, AgentInvariance, PTL DEF Spec, PaidInWindow
=============================================================================

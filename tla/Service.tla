------------------------------- MODULE Service ------------------------------
(***************************************************************************)
(* The relayer as a process in mock mode: start, timer, signals and end    *)
(* (main.ts), the lock file (lock.ts) and the MockGateway (mock.ts), around *)
(* the store and the coordinator of module Relayer.                        *)
(*                                                                         *)
(* The mock gateway takes the place of Relayer's network and chain: `wire` *)
(* is the broadcast call under way, `mempool` the ledger written to its    *)
(* temporary file but not yet renamed, `chain` the ledger: its length is   *)
(* nextNonce, its entries are the receipts, and Paid what is consumed.     *)
(***************************************************************************)
EXTENDS Relayer

CONSTANTS
  Procs,       \* processes started on the same database and ledger
  MaxKills     \* bound on processes that end without cleaning up

ASSUME ProcsAssumption == Procs # {} /\ "none" \notin Procs /\ "blank" \notin Procs
ASSUME KillsAssumption == MaxKills \in Nat

VARIABLES
  lock,       \* .lock.pid: "none", "blank" before the token is written, or its writer
  stage,      \* stage[p]: how far main() or stop() of process p has come
  lastTick,   \* what `active` promises: the "real" tick, or a "skipped" one
  kills

lifeVars == <<lock, stage, lastTick, kills>>
allVars == <<vars, lifeVars>>

Starting == {"locking", "locked", "opened"}
Stopping == {"closing", "draining", "waiting"}
Stages == {"off", "serving", "unlocking"} \union Starting \union Stopping

HasStoreOpen(p) == stage[p] \in {"opened", "serving"} \union Stopping
Running == pc \notin {"idle", "down"}

(* No other callback runs between two commits or two file operations.      *)
Yields == pc # "note" /\ mempool = {}

ServiceTypeOK ==
  /\ lock \in {"none", "blank"} \union Procs
  /\ stage \in [Procs -> Stages]
  /\ lastTick \in {"real", "skipped"}
  /\ kills \in Nat

(* The first process has come as far as app.listen. *)
ServiceInit ==
  /\ Init
  /\ \E p \in Procs :
       /\ lock = p
       /\ stage = [q \in Procs |-> IF q = p THEN "serving" ELSE "off"]
  /\ lastTick = "real" /\ kills = 0

-----------------------------------------------------------------------------
(* main: acquireLock, open ledger and database, listen.                    *)

Goes(p, from, to) == stage[p] = from /\ stage' = [stage EXCEPT ![p] = to]

StealsBlank == lock \in {"none", "blank"}
Free == lock = "none"

OpenLock(p) ==
  /\ Goes(p, "off", "locking")
  /\ Free /\ lock' = "blank"
  /\ UNCHANGED <<vars, lastTick, kills>>

WriteToken(p) ==
  /\ Goes(p, "locking", "locked")
  /\ lock' = p
  /\ UNCHANGED <<vars, lastTick, kills>>

(* The gateway reads the ledger; an unrenamed temporary file is not read.  *)
StartsEmpty == << >>
Loaded == chain

OpenStore(p) ==
  /\ Goes(p, "locked", "opened")
  /\ wire = {} /\ mempool = {}
  /\ chain' = Loaded
  /\ UNCHANGED <<storeVars, tickVars, timeVars, wire, mempool, forwarded, crashes>>
  /\ UNCHANGED <<lock, lastTick, kills>>

KeepsLock(p) == lock
Released(p) == IF lock = p THEN "none" ELSE lock

(* A wrong configuration, a port in use: what was opened is closed again.  *)
StartFails(p) ==
  /\ stage[p] \in {"locked", "opened"}
  /\ stage' = [stage EXCEPT ![p] = "off"] /\ lock' = Released(p)
  /\ UNCHANGED <<vars, lastTick, kills>>

Listen(p) ==
  /\ Goes(p, "opened", "serving")
  /\ Restart
  /\ lastTick' = "real" /\ UNCHANGED <<lock, kills>>

-----------------------------------------------------------------------------
(* While it serves: requests and the timer.                                *)

ServeSubmit(i) ==
  /\ \E p \in Procs : stage[p] \in {"serving", "closing"}
  /\ Yields /\ Submit(i)
  /\ UNCHANGED lifeVars

TimerOn(p) == stage[p] = "serving"

StartTick ==
  /\ \E p \in Procs : TimerOn(p)
  /\ Tick
  /\ lastTick' = "real" /\ UNCHANGED <<lock, stage, kills>>

(* The timer fires while a tick runs: tick() returns at once, and its      *)
(* promise takes the place of the running one's.                           *)
SkipTick ==
  /\ \E p \in Procs : TimerOn(p)
  /\ Running /\ Yields
  /\ lastTick' = "skipped" /\ UNCHANGED <<vars, lock, stage, kills>>

-----------------------------------------------------------------------------
(* MockGateway, as the running tick calls it.                              *)

(* MockGateway.preflight: neither consumed nor outside their window.       *)
Passes(S) == S \intersect Executed = {} /\ \A i \in S : window[i] = "open"

MockPreflight ==
  \E i \in cand :
    /\ IsOldest(i, cand)
    /\ IF Passes(sel \union {i}) THEN PreflightOk
       ELSE IF sel # {} THEN PreflightStopsPrefix ELSE PreflightRejects

NextNonce == Len(chain)

(* broadcast: a known transaction returns, one with a wrong nonce throws,  *)
(* and the new one is written to the temporary file, which becomes the     *)
(* ledger.  Nothing reads the clock in between, so that time which passes  *)
(* between the two counts as time before them.                             *)
New(tx) == tx.nonce = NextNonce /\ \A n \in DOMAIN chain : chain[n].tx # tx

MockIgnores ==
  /\ \E tx \in wire : ~New(tx)
  /\ wire' = {}
  /\ UNCHANGED <<storeVars, tickVars, timeVars, mempool, chain, forwarded, crashes>>

MockWrites ==
  /\ \E tx \in wire : New(tx) /\ mempool' = {tx}
  /\ wire' = {}
  /\ UNCHANGED <<storeVars, tickVars, timeVars, chain, forwarded, crashes>>

MockRenames ==
  /\ \E tx \in mempool :
       chain' = Append(chain, [tx |-> tx, ok |-> Passes(tx.ids)])
  /\ mempool' = {}
  /\ UNCHANGED <<storeVars, tickVars, timeVars, wire, forwarded, crashes>>

MockBroadcast ==
  /\ pc = "broadcast"
  /\ MockIgnores \/ MockWrites \/ MockRenames

NotAwaited == TRUE
CallOver == wire = {} /\ mempool = {}

MockReturns ==
  /\ pc = "broadcast" /\ CallOver
  /\ IF \E n \in DOMAIN chain : chain[n].tx = batches[cur].tx
     THEN BroadcastReturns ELSE BroadcastThrows

(* A receipt is found or not: reading the ledger does not fail.            *)
MockReceipt ==
  /\ pc = "receipt"
  /\ IF Mined(cur) THEN ReceiptFound ELSE ReceiptMissing

Proceed ==
  /\ \/ MockPreflight \/ PrepareBatch \/ NoteBroadcast
     \/ MockBroadcast \/ MockReturns \/ MockReceipt
  /\ UNCHANGED lifeVars

-----------------------------------------------------------------------------
(* stop, on the first signal: clear the timer, close the API, wait for     *)
(* `active`, then for the running tick; close the store, remove the lock.  *)

Signal(p) ==
  /\ Goes(p, "serving", "closing") /\ Yields
  /\ crashes < MaxCrashes
  /\ UNCHANGED <<vars, lock, lastTick, kills>>

ApiClosed(p) ==
  /\ Goes(p, "closing", "draining") /\ Yields
  /\ UNCHANGED <<vars, lock, lastTick, kills>>

ActiveSettled(p) ==
  /\ Goes(p, "draining", "waiting") /\ Yields
  /\ lastTick = "skipped" \/ ~Running
  /\ UNCHANGED <<vars, lock, lastTick, kills>>

ActiveIsAll == Yields
WaitsForOutbox == ~Running /\ Active = {}
Quiescent == ~Running

CloseStore(p) ==
  /\ Goes(p, "waiting", "unlocking")
  /\ Quiescent
  /\ Crash                          \* the store as after a crash, at rest
  /\ UNCHANGED <<lock, lastTick, kills>>

Unlock(p) ==
  /\ Goes(p, "unlocking", "off")
  /\ lock' = Released(p)
  /\ UNCHANGED <<vars, lastTick, kills>>

-----------------------------------------------------------------------------
(* Outside: the process dies, be it of a signal while it starts or of one  *)
(* that comes again; the operator removes a lock whose process is known to *)
(* have stopped.                                                           *)

Kill(p) ==
  /\ stage[p] # "off" /\ stage' = [stage EXCEPT ![p] = "off"]
  /\ kills < MaxKills /\ kills' = kills + 1
  /\ IF HasStoreOpen(p) /\ pc # "down" THEN Crash ELSE UNCHANGED vars
  /\ UNCHANGED <<lock, lastTick>>

(* What the dead process had called, or written and not renamed, is gone.  *)
Discard ==
  /\ pc = "down" /\ wire \union mempool # {}
  /\ Lose
  /\ UNCHANGED lifeVars

RemoveStaleLock ==
  /\ lock # "none"
  /\ IF lock = "blank" THEN \A p \in Procs : stage[p] = "off" ELSE stage[lock] = "off"
  /\ lock' = "none"
  /\ UNCHANGED <<vars, stage, lastTick, kills>>

Time == Clock /\ UNCHANGED lifeVars

-----------------------------------------------------------------------------
Start(p) == OpenLock(p) \/ WriteToken(p) \/ OpenStore(p) \/ StartFails(p) \/ Listen(p)
Stop(p) == ApiClosed(p) \/ ActiveSettled(p) \/ CloseStore(p) \/ Unlock(p)

ServiceNext ==
  \/ \E p \in Procs : Start(p) \/ Signal(p) \/ Stop(p) \/ Kill(p)
  \/ \E i \in Intents : ServeSubmit(i)
  \/ StartTick \/ SkipTick \/ Proceed
  \/ Discard \/ RemoveStaleLock
  \/ Time

ServiceSpec == ServiceInit /\ [][ServiceNext]_allVars

-----------------------------------------------------------------------------
(* The process that has the database open is the one the lock names, so    *)
(* there is never a second one, whatever was killed and cleaned up before  *)
(* (store.ts:18, "One process owns this database (see main's PID lock)").  *)
OwnerHoldsLock ==
  /\ \A p \in Procs : HasStoreOpen(p) => lock = p
  /\ pc # "down" => \E p \in Procs : HasStoreOpen(p)

(* A lock nobody holds was left by a process that was killed: a stop and a *)
(* failing start remove theirs (README.md:152, main.ts:36, 43).            *)
StaleMeansKilled == lock # "none" /\ (\A p \in Procs : stage[p] = "off") => kills > 0

(* stop() never closes the store under a running tick, though the promise  *)
(* it awaits may be that of a tick the timer skipped (main.ts:34).         *)
StopIsClean ==
  [][\A p \in Procs : stage[p] = "waiting" /\ stage'[p] = "unlocking" => ~Running]_allVars

(* Why the above holds, and the mock gateway is a chain: the lock file     *)
(* follows the stages of the one process that is under way, ...            *)
LockFollowsStage ==
  \A p \in Procs :
    /\ stage[p] = "locking" => lock = "blank" /\ \A q \in Procs \ {p} : stage[q] = "off"
    /\ stage[p] \notin {"off", "locking"} => lock = p
    /\ stage[p] = "opened" => pc = "down" /\ wire \union mempool = {}

(* ... and there is one broadcast call at most, whose transaction, when it *)
(* is being written, is the next one of the ledger.                        *)
OneCall ==
  /\ \A tx, other \in wire \union mempool : tx = other
  /\ wire \union mempool # {} => pc \in {"broadcast", "down"}
  /\ \A tx \in mempool : tx.nonce = Len(chain)

SInv == ServiceTypeOK /\ OwnerHoldsLock /\ LockFollowsStage /\ OneCall

(* Killed and restarted anywhere, a relayer on the mock gateway does only  *)
(* what Relayer allows one on a real chain: its guarantees hold here too.  *)
IsARelayer == Spec

(***************************************************************************)
(* Liveness.  Processes are started and do not fail to start for ever,     *)
(* stale locks are removed, the timer fires, file operations end.          *)
(***************************************************************************)
ServiceFairness ==
  /\ \A p \in Procs : WF_allVars(Start(p)) /\ WF_allVars(Stop(p))
  /\ SF_allVars(\E p \in Procs : OpenStore(p)) /\ SF_allVars(\E p \in Procs : Listen(p))
  /\ WF_allVars(RemoveStaleLock) /\ WF_allVars(Discard)
  /\ WF_allVars(StartTick) /\ WF_allVars(Proceed)
  /\ WF_allVars(QuietElapses /\ UNCHANGED lifeVars)
  /\ \A i \in Intents :
       WF_allVars((Opens(i) \/ WaitElapses(i)) /\ UNCHANGED lifeVars)

FairService == ServiceSpec /\ ServiceFairness

(* A signal ends the process, whatever its tick is waiting for and though  *)
(* a batch may be unresolved.                                              *)
StopFinishes == \A p \in Procs : stage[p] = "closing" ~> stage[p] = "off"
=============================================================================

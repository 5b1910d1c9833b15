-------------------------- MODULE SandboxLifecycle ---------------------------
(***************************************************************************)
(* The life of HyperBox sandboxes: the SQLite registry row, the            *)
(* per-sandbox file lock and the engine's container, worked on at once by  *)
(* tool-call threads, CLI processes and one garbage-collector thread per   *)
(* server process.  A step is one registry statement, one lock             *)
(* acquisition with the read that follows it, or one engine request; a     *)
(* step that only releases a lock is joined to the one before it.          *)
(*                                                                         *)
(* Time: the clock values the code compares are kept as the distance to    *)
(* the comparison, so the state stays finite.  left[i] is how many ticks   *)
(* remain before expires_at, age[i] how many have passed since the         *)
(* container's Created, saturating where the comparison changes.           *)
(***************************************************************************)
EXTENDS Naturals

CONSTANTS
    Ids,           \* sandbox ids a behaviour may issue
    NoId,          \* "working on no sandbox"
    Callers,       \* threads running create/run/logs/destroy, or `hyperbox rm`
    Collectors,    \* the GC threads
    Processes,     \* operating-system processes
    Home,          \* the process each thread lives in
    Free,          \* the owner of a lock nobody holds
    CreatingTtl,   \* policy.CREATING_TTL_SECONDS, in ticks
    DefaultTtl,    \* policy.DEFAULT_TTL_SECONDS, in ticks
    Grace,         \* policy.GC_GRACE_SECONDS, in ticks
    TimelyCreates, \* assume a create ends before its reservation expires
    TimelySweeps,  \* assume an engine sweep ends within the grace period
    MaxCrashes     \* bound on the number of process deaths

Threads == Callers \cup Collectors

ASSUME IdsAssumption == NoId \notin Ids
ASSUME ThreadsAssumption ==
    /\ Callers \cap Collectors = {}
    /\ Free \notin Threads
    /\ Home \in [Threads -> Processes]
ASSUME TimeAssumption ==
    /\ DefaultTtl \in Nat
    /\ Grace \in Nat \ {0}
    /\ CreatingTtl \in Nat
    /\ CreatingTtl > 2 * Grace          \* the assert at policy.py:488
ASSUME BoundsAssumption ==
    /\ TimelyCreates \in BOOLEAN
    /\ TimelySweeps \in BOOLEAN
    /\ MaxCrashes \in Nat

VARIABLES
    fresh,   \* ids no create has drawn yet
    row,     \* registry row: "none", "creating" (empty ref) or "ready"
    left,    \* ticks until the row's expires_at; 0 is expired
    lock,    \* holder of the sandbox's FileLock
    box,     \* container: "none", "partial" (create still on it), "complete"
    age,     \* ticks since the container's Created, up to Grace
    call,    \* what each caller is doing
    gc,      \* what each collector is doing
    crashes

vars == <<fresh, row, left, lock, box, age, call, gc, crashes>>

-----------------------------------------------------------------------------

CreatePlaces == {"reserved", "building", "cleanup", "failed", "made"}
UsePlaces == {"using", "used"}
RmPlaces == {"removing", "confirmed", "unreferenced"}
CallPlaces ==
    {"idle", "wantUse", "wantRm"} \cup CreatePlaces \cup UsePlaces \cup RmPlaces

\* Collector places at which it holds the lock of gc[s].id.
HoldingPlaces == {"reclaiming", "forgetting", "dropping"}
EnginePlaces == {"listing", "sweeping"}
GcPlaces == {"asleep", "expired", "stale"} \cup HoldingPlaces \cup EnginePlaces

At(place, i) == [at |-> place, id |-> i, abandoned |-> FALSE]
Idle == At("idle", NoId)
Asleep ==
    [at |-> "asleep", id |-> NoId, todo |-> {}, known |-> {}, since |-> 0]

CallState ==
    [at : CallPlaces, id : Ids \cup {NoId}, abandoned : BOOLEAN]
GcState ==
    [at : GcPlaces, id : Ids \cup {NoId}, todo : SUBSET Ids,
     known : SUBSET Ids, since : 0..Grace]

RowStates == {"none", "creating", "ready"}
BoxStates == {"none", "partial", "complete"}

TypeOK ==
    /\ fresh \in SUBSET Ids
    /\ row \in [Ids -> RowStates]
    /\ left \in [Ids -> Nat]
    /\ lock \in [Ids -> Threads \cup {Free}]
    /\ box \in [Ids -> BoxStates]
    /\ age \in [Ids -> 0..Grace]
    /\ call \in [Callers -> CallState]
    /\ gc \in [Collectors -> GcState]
    /\ crashes \in 0..MaxCrashes

Init ==
    /\ fresh = Ids
    /\ row = [i \in Ids |-> "none"]
    /\ left = [i \in Ids |-> 0]
    /\ lock = [i \in Ids |-> Free]
    /\ box = [i \in Ids |-> "none"]
    /\ age = [i \in Ids |-> 0]
    /\ call = [p \in Callers |-> Idle]
    /\ gc = [s \in Collectors |-> Asleep]
    /\ crashes = 0

\* Registry.expired_records / stale_reservations, and SandboxRecord.expired.
Expired(i) == left[i] = 0
ExpiredReady(i) == row[i] = "ready" /\ Expired(i)
\* Fault: expiry forgotten in the query and in the re-check.
StaleReservationUndated(i) == row[i] = "creating"
StaleReservation(i) == row[i] = "creating" /\ Expired(i)

\* sandbox_ops.too_young.
TooYoung(i) == age[i] < Grace

\* The caller still waiting for the create of i, if there is one.
InFlight(i) ==
    \E p \in Callers :
        call[p].at \in CreatePlaces /\ call[p].id = i /\ ~call[p].abandoned

-----------------------------------------------------------------------------
\* Registry statements.

\* Fault: finalize() stores a state that no query asks for.
WriteRowUnknownState(i, state, ttl) ==
    /\ row' = [row EXCEPT ![i] = IF state = "ready" THEN "active" ELSE state]
    /\ left' = [left EXCEPT ![i] = ttl]

WriteRow(i, state, ttl) ==
    /\ row' = [row EXCEPT ![i] = state]
    /\ left' = [left EXCEPT ![i] = ttl]

DeleteRow(i) == WriteRow(i, "none", 0)

\* Fault: an upsert, which brings back a row somebody deleted.
UpdateRowUpsert(i, state, ttl) == WriteRow(i, state, ttl)

\* UPDATE ... WHERE sandbox_id = ?: no row, no effect.
UpdateRow(i, state, ttl) ==
    IF row[i] = "none" THEN UNCHANGED <<row, left>> ELSE WriteRow(i, state, ttl)

\* Engine requests: the container is removed, or the request had no effect.
RemoveBox(i) ==
    /\ box' = [box EXCEPT ![i] = "none"]
    /\ age' = [age EXCEPT ![i] = 0]

MayRemoveBox(i) == RemoveBox(i) \/ UNCHANGED <<box, age>>

Acquire(t, i) == lock[i] = Free /\ lock' = [lock EXCEPT ![i] = t]
Release(i) == lock' = [lock EXCEPT ![i] = Free]

Goto(p, place) == call' = [call EXCEPT ![p] = [@ EXCEPT !.at = place]]
Finish(p) == call' = [call EXCEPT ![p] = Idle]

-----------------------------------------------------------------------------
\* create_sandbox.  None of its registry writes is made under the lock.

\* A new id is drawn and its row written before any engine work.
Reserve(p, i) ==
    /\ call[p].at = "idle"
    /\ i \in fresh
    /\ fresh' = fresh \ {i}
    /\ WriteRow(i, "creating", CreatingTtl)
    /\ call' = [call EXCEPT ![p] = At("reserved", i)]
    /\ UNCHANGED <<lock, box, age, gc, crashes>>

\* The worker thread has ended in an error.  The coroutine that called it
\* drops the reservation next, unless the client cancelled it meanwhile.
WorkerRaised(p) == IF call[p].abandoned THEN Finish(p) ELSE Goto(p, "failed")

\* Slot wait, image check, pull or create_container failed: nothing was made.
CreateRefused(p) ==
    /\ call[p].at = "reserved"
    /\ WorkerRaised(p)
    /\ UNCHANGED <<fresh, row, left, lock, box, age, gc, crashes>>

\* The engine made the container; its answer may still be lost on the way.
MakeContainer(p) ==
    /\ call[p].at = "reserved"
    /\ box' = [box EXCEPT ![call[p].id] = "partial"]
    /\ age' = [age EXCEPT ![call[p].id] = 0]
    /\ Goto(p, "building") \/ WorkerRaised(p)
    /\ UNCHANGED <<fresh, row, left, lock, gc, crashes>>

\* Start, policy read-back, directories, setup, sync, packages, seal, probe.
FinishBuild(p) ==
    /\ call[p].at = "building"
    /\ box[call[p].id] # "none"
    /\ box' = [box EXCEPT ![call[p].id] = "complete"]
    /\ IF call[p].abandoned THEN Finish(p) ELSE Goto(p, "made")
    /\ UNCHANGED <<fresh, row, left, lock, age, gc, crashes>>

\* Fault: a setup step's exit code is not looked at.
BuildFailsUnnoticed(p) ==
    /\ call[p].at = "building"
    /\ Goto(p, "made")
    /\ UNCHANGED <<fresh, row, left, lock, box, age, gc, crashes>>

BuildFails(p) ==
    /\ call[p].at = "building"
    /\ Goto(p, "cleanup")
    /\ UNCHANGED <<fresh, row, left, lock, box, age, gc, crashes>>

\* except BaseException: remove the container, best effort, and re-raise.
Cleanup(p) ==
    /\ call[p].at = "cleanup"
    /\ MayRemoveBox(call[p].id)
    /\ WorkerRaised(p)
    /\ UNCHANGED <<fresh, row, left, lock, gc, crashes>>

Unreserve(p) ==
    /\ call[p].at = "failed"
    /\ DeleteRow(call[p].id)
    /\ Finish(p)
    /\ UNCHANGED <<fresh, lock, box, age, gc, crashes>>

Finalize(p) ==
    /\ call[p].at = "made"
    /\ UpdateRow(call[p].id, "ready", DefaultTtl)
    /\ Finish(p)
    /\ UNCHANGED <<fresh, lock, box, age, gc, crashes>>

\* The client cancels the request: CancelledError leaves the coroutine at its
\* await, past every `except Exception`.  A worker thread that has not ended
\* runs on; of one that has, nobody takes the result any more.
Abandon(p) ==
    /\ call[p].at \in CreatePlaces
    /\ ~call[p].abandoned
    /\ IF call[p].at \in {"failed", "made"}
       THEN Finish(p)
       ELSE call' = [call EXCEPT ![p] = [@ EXCEPT !.abandoned = TRUE]]
    /\ UNCHANGED <<fresh, row, left, lock, box, age, gc, crashes>>

CreateStep(p) ==
    \/ CreateRefused(p) \/ MakeContainer(p) \/ FinishBuild(p) \/ BuildFails(p)
    \/ Cleanup(p) \/ Unreserve(p) \/ Finalize(p)

-----------------------------------------------------------------------------
\* run (foreground and background) and get_process_logs: lock, re-read, work
\* inside the container, touch.

Ask(p, i, place) ==
    /\ call[p].at = "idle"
    /\ i \in Ids \ fresh
    /\ call' = [call EXCEPT ![p] = At(place, i)]
    /\ UNCHANGED <<fresh, row, left, lock, box, age, gc, crashes>>

AskUse(p, i) == Ask(p, i, "wantUse")
AskRm(p, i) == Ask(p, i, "wantRm")

\* Fault: a blocking flock, which has no deadline.
LockTimeoutNever(p) == FALSE /\ UNCHANGED vars

\* FileLock's deadline passed while another thread held the lock.
LockTimeout(p) ==
    /\ call[p].at \in {"wantUse", "wantRm"}
    /\ lock[call[p].id] # Free
    /\ Finish(p)
    /\ UNCHANGED <<fresh, row, left, lock, box, age, gc, crashes>>

\* Fault: the row is checked and the work begun without waiting for the lock.
EnterUseUnlocked(p) ==
    /\ call[p].at = "wantUse"
    /\ row[call[p].id] = "ready"
    /\ Goto(p, "using")
    /\ UNCHANGED <<fresh, row, left, lock, box, age, gc, crashes>>

EnterUse(p) ==
    /\ call[p].at = "wantUse"
    /\ lock[call[p].id] = Free
    /\ IF row[call[p].id] = "ready"
       THEN Acquire(p, call[p].id) /\ Goto(p, "using")
       ELSE Finish(p) /\ UNCHANGED lock
    /\ UNCHANGED <<fresh, row, left, box, age, gc, crashes>>

UseReturns(p) ==
    /\ call[p].at = "using"
    /\ box[call[p].id] # "none"
    /\ Goto(p, "used")
    /\ UNCHANGED <<fresh, row, left, lock, box, age, gc, crashes>>

UseFails(p) ==
    /\ call[p].at = "using"
    /\ Release(call[p].id)
    /\ Finish(p)
    /\ UNCHANGED <<fresh, row, left, box, age, gc, crashes>>

Touch(p) ==
    /\ call[p].at = "used"
    /\ UpdateRow(call[p].id, row[call[p].id], DefaultTtl)
    /\ Release(call[p].id)
    /\ Finish(p)
    /\ UNCHANGED <<fresh, box, age, gc, crashes>>

UseStep(p) == EnterUse(p) \/ UseReturns(p) \/ UseFails(p) \/ Touch(p)

-----------------------------------------------------------------------------
\* destroy_sandbox and `hyperbox rm`: any row will do, ready or creating.

\* A creating row has no container_ref: destroy() takes the ContainerGoneError
\* of _ref for absence and alive() for "not running", so the engine is never
\* asked.
EnterRm(p) ==
    /\ call[p].at = "wantRm"
    /\ lock[call[p].id] = Free
    /\ \/ row[call[p].id] = "none" /\ Finish(p) /\ UNCHANGED lock
       \/ /\ row[call[p].id] = "creating"
          /\ Acquire(p, call[p].id)
          /\ Goto(p, "unreferenced")
       \/ /\ row[call[p].id] = "ready"
          /\ Acquire(p, call[p].id)
          /\ Goto(p, "removing")
    /\ UNCHANGED <<fresh, row, left, box, age, gc, crashes>>

RmConfirmed(p) ==
    /\ call[p].at = "removing"
    /\ RemoveBox(call[p].id)
    /\ Goto(p, "confirmed")
    /\ UNCHANGED <<fresh, row, left, lock, gc, crashes>>

\* destroy() or alive() raised: the row is kept.
RmFails(p) ==
    /\ call[p].at = "removing"
    /\ MayRemoveBox(call[p].id)
    /\ Release(call[p].id)
    /\ Finish(p)
    /\ UNCHANGED <<fresh, row, left, gc, crashes>>

RmRow(p) ==
    /\ call[p].at \in {"confirmed", "unreferenced"}
    /\ DeleteRow(call[p].id)
    /\ Release(call[p].id)
    /\ Finish(p)
    /\ UNCHANGED <<fresh, box, age, gc, crashes>>

RmStep(p) == EnterRm(p) \/ RmConfirmed(p) \/ RmFails(p) \/ RmRow(p)

-----------------------------------------------------------------------------
\* collect_garbage, in three passes.

StartPass(s, pass, todo, known) ==
    gc' = [gc EXCEPT ![s] = [Asleep EXCEPT
              !.at = pass, !.todo = todo, !.known = known]]

\* The candidate is done with, or passed over.
Strike(s, i) ==
    gc' = [gc EXCEPT ![s] = [@ EXCEPT !.todo = gc[s].todo \ {i}]]

\* Pass 1: ready sandboxes past their TTL.
StartSweep(s) ==
    /\ gc[s].at = "asleep"
    /\ StartPass(s, "expired", {i \in Ids : ExpiredReady(i)}, {})
    /\ UNCHANGED <<fresh, row, left, lock, box, age, call, crashes>>

\* Take the lock of the next candidate and look again at its row.
Recheck(s, i, pass, still, place) ==
    /\ gc[s].at = pass
    /\ i \in gc[s].todo
    /\ lock[i] = Free
    /\ IF still
       THEN /\ Acquire(s, i)
            /\ gc' = [gc EXCEPT ![s] = [@ EXCEPT
                         !.at = place, !.id = i, !.todo = gc[s].todo \ {i}]]
       ELSE /\ Strike(s, i)
            /\ UNCHANGED lock
    /\ UNCHANGED <<fresh, row, left, box, age, call, crashes>>

\* Fault: the row is looked at again, its expiry is not.
RecheckExpiredUndated(s, i) ==
    Recheck(s, i, "expired", row[i] = "ready", "reclaiming")

RecheckExpired(s, i) ==
    Recheck(s, i, "expired", ExpiredReady(i), "reclaiming")

\* A lock that cannot be taken is not fatal: the candidate is passed over.
PassOver(s, i) ==
    /\ gc[s].at \in {"expired", "stale"}
    /\ i \in gc[s].todo
    /\ lock[i] # Free
    /\ Strike(s, i)
    /\ UNCHANGED <<fresh, row, left, lock, box, age, call, crashes>>

Move(s, place, i) ==
    gc' = [gc EXCEPT ![s] = [@ EXCEPT !.at = place, !.id = i]]

Reclaim(s) ==
    /\ gc[s].at = "reclaiming"
    /\ RemoveBox(gc[s].id)
    /\ Move(s, "forgetting", gc[s].id)
    /\ UNCHANGED <<fresh, row, left, lock, call, crashes>>

\* EngineUnavailableError: the row stays.
ReclaimUnreachable(s) ==
    /\ gc[s].at = "reclaiming"
    /\ Release(gc[s].id)
    /\ Move(s, "expired", NoId)
    /\ UNCHANGED <<fresh, row, left, box, age, call, crashes>>

\* Any other exception is passed over and the row goes all the same: an answer
\* of refusal, or the raw OSError of a client whose engine has since gone.
ReclaimFails(s) ==
    /\ gc[s].at = "reclaiming"
    /\ MayRemoveBox(gc[s].id)
    /\ Move(s, "forgetting", gc[s].id)
    /\ UNCHANGED <<fresh, row, left, lock, call, crashes>>

Forget(s) ==
    /\ gc[s].at = "forgetting"
    /\ DeleteRow(gc[s].id)
    /\ Release(gc[s].id)
    /\ Move(s, "expired", NoId)
    /\ UNCHANGED <<fresh, box, age, call, crashes>>

\* Fault: the second pass is missing.
ListStaleNothing(s) ==
    /\ gc[s].at = "expired"
    /\ gc[s].todo = {}
    /\ StartPass(s, "stale", {}, {})
    /\ UNCHANGED <<fresh, row, left, lock, box, age, call, crashes>>

\* Pass 2: reservations past theirs.
ListStale(s) ==
    /\ gc[s].at = "expired"
    /\ gc[s].todo = {}
    /\ StartPass(s, "stale", {i \in Ids : StaleReservation(i)}, {})
    /\ UNCHANGED <<fresh, row, left, lock, box, age, call, crashes>>

RecheckStale(s, i) ==
    Recheck(s, i, "stale", StaleReservation(i), "dropping")

DropStale(s) ==
    /\ gc[s].at = "dropping"
    /\ DeleteRow(gc[s].id)
    /\ Release(gc[s].id)
    /\ Move(s, "stale", NoId)
    /\ UNCHANGED <<fresh, box, age, call, crashes>>

\* Fault: known_ids() leaves reservations out.
SnapshotReadyOnly(s) ==
    /\ gc[s].at = "stale"
    /\ gc[s].todo = {}
    /\ StartPass(s, "listing", {}, {i \in Ids : row[i] = "ready"})
    /\ UNCHANGED <<fresh, row, left, lock, box, age, call, crashes>>

\* Pass 3: containers the registry does not know.  known_ids() is read first,
\* then the engine is found and asked, then each answer is acted on.
Snapshot(s) ==
    /\ gc[s].at = "stale"
    /\ gc[s].todo = {}
    /\ StartPass(s, "listing", {}, {i \in Ids : row[i] # "none"})
    /\ UNCHANGED <<fresh, row, left, lock, box, age, call, crashes>>

ListManaged(s) ==
    /\ gc[s].at = "listing"
    /\ gc' = [gc EXCEPT ![s] = [@ EXCEPT
                 !.at = "sweeping", !.todo = {i \in Ids : box[i] # "none"}]]
    /\ UNCHANGED <<fresh, row, left, lock, box, age, call, crashes>>

ListFails(s) ==
    /\ gc[s].at = "listing"
    /\ gc' = [gc EXCEPT ![s] = Asleep]
    /\ UNCHANGED <<fresh, row, left, lock, box, age, call, crashes>>

\* collect_orphans' two skips.
Spared(s, i) == i \in gc[s].known \/ TooYoung(i)

NextListed(s, i) ==
    /\ gc[s].at = "sweeping"
    /\ i \in gc[s].todo
    /\ Strike(s, i)

Spare(s, i) ==
    /\ NextListed(s, i)
    /\ Spared(s, i)
    /\ UNCHANGED <<fresh, row, left, lock, box, age, call, crashes>>

RemoveOrphan(s, i) ==
    /\ NextListed(s, i)
    /\ ~Spared(s, i)
    /\ RemoveBox(i)
    /\ UNCHANGED <<fresh, row, left, lock, call, crashes>>

OrphanKept(s, i) ==
    /\ NextListed(s, i)
    /\ ~Spared(s, i)
    /\ UNCHANGED <<fresh, row, left, lock, box, age, call, crashes>>

EndSweep(s) ==
    /\ gc[s].at = "sweeping"
    /\ gc[s].todo = {}
    /\ gc' = [gc EXCEPT ![s] = Asleep]
    /\ UNCHANGED <<fresh, row, left, lock, box, age, call, crashes>>

CollectStep(s) ==
    \/ StartSweep(s) \/ Reclaim(s) \/ ReclaimUnreachable(s) \/ ReclaimFails(s)
    \/ Forget(s) \/ ListStale(s) \/ DropStale(s) \/ Snapshot(s)
    \/ ListManaged(s) \/ ListFails(s) \/ EndSweep(s)

CandidateStep(s, i) ==
    \/ RecheckExpired(s, i) \/ RecheckStale(s, i) \/ PassOver(s, i)
    \/ Spare(s, i) \/ RemoveOrphan(s, i) \/ OrphanKept(s, i)

-----------------------------------------------------------------------------
\* The environment: a process dies, taking its threads and (through the OS)
\* their locks, or a tick of time passes.

\* Fault: a lock that outlives its holder, as a lock file's existence would.
CrashKeepsLocks(q) ==
    /\ crashes < MaxCrashes
    /\ crashes' = crashes + 1
    /\ call' = [p \in Callers |-> IF Home[p] = q THEN Idle ELSE call[p]]
    /\ gc' = [s \in Collectors |-> IF Home[s] = q THEN Asleep ELSE gc[s]]
    /\ UNCHANGED <<fresh, row, left, lock, box, age>>

Crash(q) ==
    /\ crashes < MaxCrashes
    /\ crashes' = crashes + 1
    /\ call' = [p \in Callers |-> IF Home[p] = q THEN Idle ELSE call[p]]
    /\ gc' = [s \in Collectors |-> IF Home[s] = q THEN Asleep ELSE gc[s]]
    /\ lock' = [i \in Ids |->
          IF lock[i] # Free /\ Home[lock[i]] = q THEN Free ELSE lock[i]]
    /\ UNCHANGED <<fresh, row, left, box, age>>

\* The two timing assumptions, each of which the constants may withdraw.
CreatesOnTime ==
    \A i \in Ids : InFlight(i) /\ row[i] # "none" => left[i] > 1
SweepsOnTime ==
    \A s \in Collectors : gc[s].at \in EnginePlaces => gc[s].since + 1 < Grace

Tick ==
    /\ \E i \in Ids : left[i] > 0 \/ (box[i] # "none" /\ age[i] < Grace)
    /\ TimelyCreates => CreatesOnTime
    /\ TimelySweeps => SweepsOnTime
    /\ left' = [i \in Ids |-> IF left[i] > 0 THEN left[i] - 1 ELSE 0]
    /\ age' = [i \in Ids |->
          IF box[i] # "none" /\ age[i] < Grace THEN age[i] + 1 ELSE age[i]]
    /\ gc' = [s \in Collectors |->
          IF gc[s].at \in EnginePlaces /\ gc[s].since < Grace
          THEN [gc[s] EXCEPT !.since = @ + 1] ELSE gc[s]]
    /\ UNCHANGED <<fresh, row, lock, box, call, crashes>>

-----------------------------------------------------------------------------

CallStep(p) == CreateStep(p) \/ UseStep(p) \/ RmStep(p) \/ LockTimeout(p)

Next ==
    \/ \E p \in Callers : CallStep(p) \/ Abandon(p)
    \/ \E p \in Callers, i \in Ids : Reserve(p, i) \/ AskUse(p, i) \/ AskRm(p, i)
    \/ \E s \in Collectors : CollectStep(s)
    \/ \E s \in Collectors, i \in Ids : CandidateStep(s, i)
    \/ \E q \in Processes : Crash(q)
    \/ Tick

Spec == Init /\ [][Next]_vars

-----------------------------------------------------------------------------
\* Correctness.

\* The sandbox a thread holds the lock of, or NoId.
WorksOn(t) ==
    IF t \in Callers
    THEN IF call[t].at \in UsePlaces \cup RmPlaces THEN call[t].id ELSE NoId
    ELSE IF gc[t].at \in HoldingPlaces THEN gc[t].id ELSE NoId

\* "An in-use sandbox must never be collected" and "two processes cannot drive
\* one container concurrently": while run or get_process_logs works in a
\* sandbox its row stays ready and no other thread is destroying, reclaiming,
\* dropping or using it.  registry.py's lock-then-re-read discipline.
UseIsExclusive ==
    \A p \in Callers : call[p].at \in UsePlaces =>
        /\ row[call[p].id] = "ready"
        /\ \A t \in Threads \ {p} : WorksOn(t) # call[p].id

\* "a `run` in another process may have touched the record between the query
\* and the lock" (collect_garbage's docstring): a sandbox whose container the collector is
\* about to remove, or whose row it is about to delete, has expired now and
\* not only when the query listed it, and stays so to the end, although touch,
\* finalize, remove and the clock belong to other threads and processes.
FreshIsSpared ==
    \A s \in Collectors :
        gc[s].at \in {"reclaiming", "forgetting"} => ExpiredReady(gc[s].id)

\* A sandbox on file as ready was built to the end: create() never leaves a
\* half-configured container behind a ready row, whichever steps failed.
ReadyIsComplete ==
    \A i \in Ids : row[i] = "ready" => box[i] # "partial"

\* Collector s would remove the container of i at its next step.
Doomed(s, i) ==
    /\ gc[s].at = "sweeping"
    /\ i \in gc[s].todo
    /\ box[i] # "none"
    /\ ~Spared(s, i)

\* What known_ids() says: an id on file, reservations included, is what the
\* sweep must not touch.  The sweep goes by a snapshot, so this relates the
\* row as it is when the container is removed to the snapshot taken before the
\* engines were asked; it needs the sweep to end within the grace period.
SweepSparesRegistered ==
    \A s \in Collectors, i \in Ids : Doomed(s, i) => row[i] = "none"

\* A reservation somebody still waits on is not dropped by the collector,
\* although finalize() does not take the lock the collector drops it under; it
\* needs creates to end within CREATING_TTL_SECONDS.
ReservationOutlivesCreate ==
    \A s \in Collectors : gc[s].at = "dropping" => ~InFlight(gc[s].id)

\* The contract the registry promises, for the stages a row goes through.
StageOf(i) ==
    IF i \in fresh THEN "unborn"
    ELSE IF row[i] = "none" THEN "gone"
    ELSE IF row[i] = "creating" THEN "reserved" ELSE "ready"

UsersOf(i) == {p \in Callers : call[p].at \in UsePlaces /\ call[p].id = i}

Contract == INSTANCE SandboxContract WITH
                stage <- [i \in Ids |-> StageOf(i)],
                users <- [i \in Ids |-> UsersOf(i)]

\* Every step is a step of the contract or invisible to it: no id is issued
\* twice, finalize() never revives an id whose row is gone, nothing in use is
\* retired, whatever the timing and however processes die.
MeetsContract == Contract!ContractSpec

-----------------------------------------------------------------------------
\* Liveness.  Every thread that runs keeps running (weak fairness), the
\* collector's interval passes and so does time, and an engine that is asked
\* again and again sometimes answers (strong fairness of the successes).
\* Clients owe nothing: no fairness on Reserve, AskUse, AskRm or Abandon.

CollectorStep(s) == CollectStep(s) \/ \E i \in Ids : CandidateStep(s, i)

Fairness ==
    /\ \A p \in Callers : WF_vars(CallStep(p))
    /\ \A s \in Collectors :
          /\ WF_vars(CollectorStep(s))
          /\ SF_vars(Reclaim(s))
          /\ SF_vars(ListManaged(s))
          /\ SF_vars(\E i \in Ids : RemoveOrphan(s, i))
    /\ WF_vars(Tick)

FairSpec == Spec /\ Fairness

\* A tool call comes back, with a result or an error: a lock another thread
\* keeps taking ends in a timeout, never in silence.
CallsReturn == \A p \in Callers : call[p].at # "idle" ~> call[p].at = "idle"

\* No sandbox is wedged: its lock is free again and again, even when its
\* holder is killed.
LocksComeFree == \A i \in Ids : []<>(lock[i] = Free)

Quiet == \A p \in Callers : call[p].at = "idle"
NothingLeft ==
    \A i \in Ids : row[i] = "none" /\ box[i] = "none" /\ lock[i] = Free

\* Garbage collection is complete: once the clients are gone for good, every
\* row, container and lock they left goes too, whatever died or failed when.
EverythingReclaimed == <>[]Quiet => <>[]NothingLeft
==============================================================================

-------------------------- MODULE SandboxLocks_proofs --------------------------
(***************************************************************************)
(* Proofs of the safety half of the liveness of SandboxLifecycle: no lock  *)
(* outlives the work it was taken for, and every thread that is given      *)
(* steps comes to the end of its call or its sweep.                        *)
(***************************************************************************)
EXTENDS SandboxLifecycle_proofs

-----------------------------------------------------------------------------
\* What is left of a call and of a sweep.

\* Steps that a caller has still to take, at most; it holds a lock for the
\* last two of them.
CallLeft(p) ==
    CASE call[p].at = "reserved" -> 4
      [] call[p].at \in {"building", "wantUse", "wantRm"} -> 3
      [] call[p].at \in {"cleanup", "using", "removing"} -> 2
      [] call[p].at \in {"failed", "made", "used", "confirmed", "unreferenced"} -> 1
      [] call[p].at = "idle" -> 0

\* Passes that a sweep has still to make, and the steps it holds a lock for.
PassesLeft(s) ==
    CASE gc[s].at \in {"expired", "reclaiming", "forgetting"} -> 4
      [] gc[s].at \in {"stale", "dropping"} -> 3
      [] gc[s].at = "listing" -> 2
      [] gc[s].at = "sweeping" -> 1
      [] gc[s].at = "asleep" -> 0

HoldLeft(s) ==
    CASE gc[s].at = "reclaiming" -> 2
      [] gc[s].at \in {"forgetting", "dropping"} -> 1
      [] gc[s].at \in GcPlaces \ HoldingPlaces -> 0

\* The sweep goes on to a later pass, to fewer candidates in this one, or one
\* step further with the candidate it has locked.
Onward(s) ==
    \/ PassesLeft(s)' < PassesLeft(s)
    \/ /\ PassesLeft(s)' = PassesLeft(s)
       /\ \/ gc'[s].todo # gc[s].todo /\ gc'[s].todo \subseteq gc[s].todo
          \/ gc'[s].todo = gc[s].todo /\ HoldLeft(s)' < HoldLeft(s)

LEMMA LeftCounted ==
    TypeInv => /\ \A p \in Callers : CallLeft(p) \in 0..4
               /\ \A s \in Collectors : PassesLeft(s) \in 0..4 /\ HoldLeft(s) \in 0..2
<1> SUFFICES ASSUME TypeInv
             PROVE  /\ \A p \in Callers : CallLeft(p) \in 0..4
                    /\ \A s \in Collectors : PassesLeft(s) \in 0..4 /\ HoldLeft(s) \in 0..2
    OBVIOUS
<1>1. \A p \in Callers : call[p].at \in CallPlaces
    BY TypeFacts DEF CallState
<1>2. \A s \in Collectors : gc[s].at \in GcPlaces
    BY TypeFacts DEF GcState
<1>3. \A p \in Callers : CallLeft(p) \in 0..4
    BY <1>1 DEF CallLeft, CallPlaces, CreatePlaces, UsePlaces, RmPlaces
<1>4. \A s \in Collectors : PassesLeft(s) \in 0..4 /\ HoldLeft(s) \in 0..2
    BY <1>2 DEF PassesLeft, HoldLeft, GcPlaces, HoldingPlaces, EnginePlaces
<1> QED BY <1>3, <1>4

-----------------------------------------------------------------------------
\* One step of a caller.

LEMMA CallerMoves ==
    ASSUME TypeInv, NEW p \in Callers
    PROVE  /\ \A place \in CallPlaces : Goto(p, place) =>
                 /\ call'[p].at = place /\ call'[p].id = call[p].id
                 /\ \A o \in Callers \ {p} : call'[o] = call[o]
           /\ Finish(p) =>
                 /\ call'[p].at = "idle"
                 /\ \A o \in Callers \ {p} : call'[o] = call[o]
<1>1. ASSUME NEW place \in CallPlaces, Goto(p, place)
      PROVE  /\ call'[p].at = place /\ call'[p].id = call[p].id
             /\ \A o \in Callers \ {p} : call'[o] = call[o]
    BY <1>1, TypeFacts DEF Goto, CallState, TypeInv, TypeOK
<1>2. ASSUME Finish(p)
      PROVE  /\ call'[p].at = "idle"
             /\ \A o \in Callers \ {p} : call'[o] = call[o]
    BY <1>2, PlacesApart DEF Finish, TypeInv, TypeOK
<1> QED BY <1>1, <1>2

\* The lock follows the work: taken with it, kept through it, given up with it.
LockFollows(p) ==
    \/ /\ UNCHANGED lock
       /\ call[p].at \notin WorkPlaces /\ call'[p].at \notin WorkPlaces
    \/ /\ UNCHANGED lock
       /\ call[p].at \in WorkPlaces /\ call'[p].at \in WorkPlaces
       /\ call'[p].id = call[p].id
    \/ /\ Acquire(p, call[p].id) /\ call[p].id \in Ids
       /\ call[p].at \notin WorkPlaces /\ call'[p].at \in WorkPlaces
       /\ call'[p].id = call[p].id
    \/ /\ Release(call[p].id) /\ call[p].id \in Ids
       /\ call[p].at \in WorkPlaces /\ call'[p].at \notin WorkPlaces

Alone(p) == UNCHANGED gc /\ \A o \in Callers \ {p} : call'[o] = call[o]

LEMMA CreateSteps ==
    ASSUME TypeInv, NEW p \in Callers, CreateStep(p)
    PROVE  Alone(p) /\ LockFollows(p) /\ CallLeft(p)' < CallLeft(p)
<1> USE CallerMoves DEF Alone, LockFollows, CallLeft, WorkPlaces, CallPlaces,
        CreatePlaces, UsePlaces, RmPlaces
<1>1. CASE CreateRefused(p) \/ MakeContainer(p) \/ Cleanup(p)
    BY <1>1 DEF CreateRefused, MakeContainer, Cleanup, WorkerRaised
<1>2. CASE FinishBuild(p) \/ BuildFails(p)
    BY <1>2 DEF FinishBuild, BuildFails
<1>3. CASE Unreserve(p) \/ Finalize(p)
    BY <1>3 DEF Unreserve, Finalize
<1> QED BY <1>1, <1>2, <1>3 DEF CreateStep

LEMMA UseSteps ==
    ASSUME TypeInv, NEW p \in Callers, UseStep(p) \/ RmStep(p) \/ LockTimeout(p)
    PROVE  Alone(p) /\ LockFollows(p) /\ CallLeft(p)' < CallLeft(p)
<1> USE CallerMoves, TypeFacts DEF Alone, LockFollows, CallLeft, WorkPlaces,
        CallPlaces, CreatePlaces, UsePlaces, RmPlaces
<1>1. CASE EnterUse(p)
    BY <1>1 DEF EnterUse
<1>2. CASE UseReturns(p) \/ UseFails(p)
    BY <1>2 DEF UseReturns, UseFails
<1>3. CASE Touch(p)
    BY <1>3 DEF Touch
<1>4. CASE EnterRm(p)
    BY <1>4 DEF EnterRm
<1>5. CASE RmConfirmed(p) \/ RmFails(p) \/ RmRow(p)
    BY <1>5 DEF RmConfirmed, RmFails, RmRow
<1>6. CASE LockTimeout(p)
    BY <1>6 DEF LockTimeout
<1> QED BY <1>1, <1>2, <1>3, <1>4, <1>5, <1>6 DEF UseStep, RmStep

\* A cancelled request leaves the step it is at to its worker.
LEMMA AbandonSteps ==
    ASSUME TypeInv, NEW p \in Callers, Abandon(p)
    PROVE  Alone(p) /\ LockFollows(p) /\ CallLeft(p)' <= CallLeft(p)
<1> USE DEF Alone, LockFollows, WorkPlaces, CreatePlaces, UsePlaces, RmPlaces
<1>1. CASE Finish(p)
    <2>1. CallLeft(p)' = 0 /\ CallLeft(p) \in 0..4
        BY <1>1, CallerMoves, LeftCounted DEF CallLeft
    <2> QED BY <1>1, <2>1, CallerMoves DEF Abandon
<1>2. CASE call' = [call EXCEPT ![p] = [@ EXCEPT !.abandoned = TRUE]]
    <2>1. /\ call'[p].at = call[p].at
          /\ \A o \in Callers \ {p} : call'[o] = call[o]
        BY <1>2, TypeFacts DEF CallState, TypeInv, TypeOK
    <2>2. CallLeft(p)' = CallLeft(p) /\ CallLeft(p) \in 0..4
        BY <2>1, LeftCounted DEF CallLeft
    <2> QED BY <2>1, <2>2 DEF Abandon
<1> QED BY <1>1, <1>2 DEF Abandon

-----------------------------------------------------------------------------
\* One step of a collector.

LEMMA CollectorMoves ==
    ASSUME TypeInv, NEW s \in Collectors
    PROVE  /\ \A place \in GcPlaces, i \in Ids \cup {NoId} : Move(s, place, i) =>
                 /\ gc'[s].at = place /\ gc'[s].id = i /\ gc'[s].todo = gc[s].todo
                 /\ \A t \in Collectors \ {s} : gc'[t] = gc[t]
           /\ \A i \in Ids : Strike(s, i) =>
                 /\ gc'[s].at = gc[s].at /\ gc'[s].id = gc[s].id
                 /\ gc'[s].todo = gc[s].todo \ {i}
                 /\ \A t \in Collectors \ {s} : gc'[t] = gc[t]
           /\ \A pass \in GcPlaces, todo \in SUBSET Ids, known \in SUBSET Ids :
                 StartPass(s, pass, todo, known) =>
                    /\ gc'[s].at = pass
                    /\ \A t \in Collectors \ {s} : gc'[t] = gc[t]
           /\ gc' = [gc EXCEPT ![s] = Asleep] =>
                 /\ gc'[s].at = "asleep"
                 /\ \A t \in Collectors \ {s} : gc'[t] = gc[t]
<1> USE TypeFacts DEF TypeInv, TypeOK
<1>1. ASSUME NEW place \in GcPlaces, NEW i \in Ids \cup {NoId}, Move(s, place, i)
      PROVE  /\ gc'[s].at = place /\ gc'[s].id = i /\ gc'[s].todo = gc[s].todo
             /\ \A t \in Collectors \ {s} : gc'[t] = gc[t]
    BY <1>1 DEF Move, GcState
<1>2. ASSUME NEW i \in Ids, Strike(s, i)
      PROVE  /\ gc'[s].at = gc[s].at /\ gc'[s].id = gc[s].id
             /\ gc'[s].todo = gc[s].todo \ {i}
             /\ \A t \in Collectors \ {s} : gc'[t] = gc[t]
    BY <1>2 DEF Strike, GcState
<1>3. ASSUME NEW pass \in GcPlaces, NEW todo \in SUBSET Ids, NEW known \in SUBSET Ids,
             StartPass(s, pass, todo, known)
      PROVE  gc'[s].at = pass /\ \A t \in Collectors \ {s} : gc'[t] = gc[t]
    BY <1>3 DEF StartPass, Asleep
<1>4. ASSUME gc' = [gc EXCEPT ![s] = Asleep]
      PROVE  gc'[s].at = "asleep" /\ \A t \in Collectors \ {s} : gc'[t] = gc[t]
    BY <1>4 DEF Asleep
<1> QED BY <1>1, <1>2, <1>3, <1>4

\* The same for a collector and the candidate it works on.
SweepFollows(s) ==
    \/ /\ UNCHANGED lock
       /\ gc[s].at \notin HoldingPlaces /\ gc'[s].at \notin HoldingPlaces
    \/ /\ UNCHANGED lock
       /\ gc[s].at \in HoldingPlaces /\ gc'[s].at \in HoldingPlaces
       /\ gc'[s].id = gc[s].id
    \/ /\ gc'[s].id \in Ids /\ Acquire(s, gc'[s].id)
       /\ gc[s].at \notin HoldingPlaces /\ gc'[s].at \in HoldingPlaces
    \/ /\ Release(gc[s].id) /\ gc[s].id \in Ids
       /\ gc[s].at \in HoldingPlaces /\ gc'[s].at \notin HoldingPlaces

Only(s) == UNCHANGED call /\ \A t \in Collectors \ {s} : gc'[t] = gc[t]

LEMMA ListMoves ==
    ASSUME TypeInv, NEW s \in Collectors, ListManaged(s)
    PROVE  gc'[s].at = "sweeping" /\ \A t \in Collectors \ {s} : gc'[t] = gc[t]
<1> DEFINE listed == [gc[s] EXCEPT
                          !.at = "sweeping", !.todo = {i \in Ids : box[i] # "none"}]
<1>1. listed.at = "sweeping"
    BY TypeFacts DEF GcState
<1>2. gc' = [gc EXCEPT ![s] = listed]
    BY DEF ListManaged
<1> HIDE DEF listed
<1> QED BY <1>1, <1>2 DEF TypeInv, TypeOK

LEMMA CollectSteps ==
    ASSUME TypeInv, NEW s \in Collectors, CollectStep(s)
    PROVE  /\ Only(s) /\ SweepFollows(s)
           /\ gc[s].at # "asleep" => Onward(s)
<1> USE CollectorMoves, TypeFacts
    DEF Only, SweepFollows, Onward, PassesLeft, HoldLeft, GcPlaces, HoldingPlaces,
        EnginePlaces
<1>1. CASE StartSweep(s)
    BY <1>1 DEF StartSweep
<1>2. CASE ListStale(s)
    BY <1>2 DEF ListStale
<1>3. CASE Snapshot(s)
    BY <1>3 DEF Snapshot
<1>4. CASE Reclaim(s) \/ ReclaimFails(s)
    BY <1>4 DEF Reclaim, ReclaimFails
<1>5. CASE ReclaimUnreachable(s) \/ Forget(s)
    BY <1>5 DEF ReclaimUnreachable, Forget
<1>6. CASE DropStale(s)
    BY <1>6 DEF DropStale
<1>7. CASE ListManaged(s)
    <2>1. gc[s].at = "listing" /\ UNCHANGED <<lock, call>>
        BY <1>7 DEF ListManaged
    <2>2. gc'[s].at = "sweeping" /\ \A t \in Collectors \ {s} : gc'[t] = gc[t]
        BY <1>7, ListMoves
    <2> QED BY <2>1, <2>2
<1>8. CASE ListFails(s) \/ EndSweep(s)
    BY <1>8 DEF ListFails, EndSweep
<1> QED BY <1>1, <1>2, <1>3, <1>4, <1>5, <1>6, <1>7, <1>8 DEF CollectStep

\* The candidate is locked, and off the list.
LEMMA TakeMoves ==
    ASSUME TypeInv, NEW s \in Collectors, NEW i \in Ids,
           NEW place \in {"reclaiming", "dropping"},
           gc' = [gc EXCEPT ![s] = [@ EXCEPT
                      !.at = place, !.id = i, !.todo = gc[s].todo \ {i}]]
    PROVE  /\ gc'[s].at = place /\ gc'[s].id = i /\ gc'[s].todo = gc[s].todo \ {i}
           /\ \A t \in Collectors \ {s} : gc'[t] = gc[t]
<1> DEFINE taken == [gc[s] EXCEPT !.at = place, !.id = i, !.todo = gc[s].todo \ {i}]
<1>1. taken.at = place /\ taken.id = i /\ taken.todo = gc[s].todo \ {i}
    BY TypeFacts DEF GcState
<1>2. gc' = [gc EXCEPT ![s] = taken]
    OBVIOUS
<1> HIDE DEF taken
<1> QED BY <1>1, <1>2 DEF TypeInv, TypeOK

LEMMA CandidateSteps ==
    ASSUME TypeInv, NEW s \in Collectors, NEW i \in Ids, CandidateStep(s, i)
    PROVE  /\ Only(s) /\ SweepFollows(s)
           /\ gc[s].at # "asleep" => Onward(s)
<1> USE TypeFacts
    DEF Only, SweepFollows, Onward, PassesLeft, HoldLeft, GcPlaces, HoldingPlaces,
        EnginePlaces
<1>1. ASSUME Strike(s, i), i \in gc[s].todo,
             gc[s].at \in {"expired", "stale", "sweeping"}, UNCHANGED <<lock, call>>
      PROVE  Only(s) /\ SweepFollows(s) /\ Onward(s)
    BY <1>1, CollectorMoves
<1>2. ASSUME NEW place \in {"reclaiming", "dropping"}, i \in gc[s].todo,
             gc[s].at = IF place = "reclaiming" THEN "expired" ELSE "stale",
             Acquire(s, i), UNCHANGED call,
             gc' = [gc EXCEPT ![s] = [@ EXCEPT
                        !.at = place, !.id = i, !.todo = gc[s].todo \ {i}]]
      PROVE  Only(s) /\ SweepFollows(s) /\ Onward(s)
    <2>1. /\ i \in gc[s].todo /\ Acquire(s, i) /\ UNCHANGED call
          /\ gc[s].at = IF place = "reclaiming" THEN "expired" ELSE "stale"
        BY <1>2
    <2>2. /\ gc'[s].at = place /\ gc'[s].id = i /\ gc'[s].todo = gc[s].todo \ {i}
          /\ \A t \in Collectors \ {s} : gc'[t] = gc[t]
        BY <1>2, TakeMoves
    <2> QED BY <2>1, <2>2
<1>3. ASSUME NEW still, NEW place \in {"reclaiming", "dropping"},
             Recheck(s, i, IF place = "reclaiming" THEN "expired" ELSE "stale",
                     still, place)
      PROVE  Only(s) /\ SweepFollows(s) /\ Onward(s)
    <2>1. CASE still
        BY <1>2, <1>3, <2>1 DEF Recheck
    <2>2. CASE ~still
        BY <1>1, <1>3, <2>2 DEF Recheck
    <2> QED BY <2>1, <2>2
<1>4. CASE RecheckExpired(s, i)
    BY <1>3, <1>4 DEF RecheckExpired
<1>5. CASE RecheckStale(s, i)
    BY <1>3, <1>5 DEF RecheckStale
<1>6. CASE PassOver(s, i) \/ Spare(s, i) \/ RemoveOrphan(s, i) \/ OrphanKept(s, i)
    BY <1>1, <1>6 DEF PassOver, Spare, RemoveOrphan, OrphanKept, NextListed
<1> QED BY <1>4, <1>5, <1>6 DEF CandidateStep

-----------------------------------------------------------------------------
\* No lock is left behind.

\* A lock that is held is held by a thread that works on that sandbox.
HeldInv ==
    \A i \in Ids :
        /\ \A p \in Callers :
              lock[i] = p => call[p].at \in WorkPlaces /\ call[p].id = i
        /\ \A s \in Collectors :
              lock[i] = s => gc[s].at \in HoldingPlaces /\ gc[s].id = i

LEMMA HeldByCallers ==
    ASSUME TypeInv, LockInv, HeldInv, NEW p \in Callers, Alone(p), LockFollows(p)
    PROVE  /\ HeldInv'
           /\ \A i \in Ids : lock[i] # Free => lock'[i] \in {Free, lock[i]}
<1> USE ThreadsAssumption DEF TypeInv, TypeOK, Alone, HeldInv, Threads
<1>1. CASE UNCHANGED lock
    BY <1>1 DEF LockFollows, Acquire, Release
<1>2. CASE /\ Acquire(p, call[p].id) /\ call[p].id \in Ids
           /\ call[p].at \notin WorkPlaces /\ call'[p].at \in WorkPlaces
           /\ call'[p].id = call[p].id
    BY <1>2 DEF Acquire
<1>3. CASE /\ Release(call[p].id) /\ call[p].id \in Ids
           /\ call[p].at \in WorkPlaces /\ call'[p].at \notin WorkPlaces
    BY <1>3 DEF Release, LockInv
<1> QED BY <1>1, <1>2, <1>3 DEF LockFollows

LEMMA HeldByCollectors ==
    ASSUME TypeInv, LockInv, HeldInv, NEW s \in Collectors, Only(s), SweepFollows(s)
    PROVE  /\ HeldInv'
           /\ \A i \in Ids : lock[i] # Free => lock'[i] \in {Free, lock[i]}
<1> USE ThreadsAssumption DEF TypeInv, TypeOK, Only, HeldInv, Threads
<1>1. CASE UNCHANGED lock
    BY <1>1 DEF SweepFollows, Acquire, Release
<1>2. CASE /\ gc'[s].id \in Ids /\ Acquire(s, gc'[s].id)
           /\ gc[s].at \notin HoldingPlaces /\ gc'[s].at \in HoldingPlaces
    BY <1>2 DEF Acquire
<1>3. CASE /\ Release(gc[s].id) /\ gc[s].id \in Ids
           /\ gc[s].at \in HoldingPlaces /\ gc'[s].at \notin HoldingPlaces
    BY <1>3 DEF Release, LockInv
<1> QED BY <1>1, <1>2, <1>3 DEF SweepFollows

LEMMA CrashHeld ==
    ASSUME TypeInv, HeldInv, NEW q \in Processes, Crash(q)
    PROVE  /\ HeldInv'
           /\ \A i \in Ids : lock[i] # Free => lock'[i] \in {Free, lock[i]}
BY ThreadsAssumption DEF Crash, HeldInv, TypeInv, TypeOK, Threads

LEMMA TickHeld ==
    ASSUME TypeInv, HeldInv, Tick
    PROVE  HeldInv' /\ UNCHANGED lock
<1>1. UNCHANGED lock /\ UNCHANGED call
    BY DEF Tick
<1>2. \A s \in Collectors : gc'[s].at = gc[s].at /\ gc'[s].id = gc[s].id
    BY TypeFacts DEF Tick, GcState
<1> QED BY <1>1, <1>2 DEF HeldInv

LEMMA RequestHeld ==
    ASSUME TypeInv, HeldInv, NEW p \in Callers, NEW i \in Ids,
           Reserve(p, i) \/ AskUse(p, i) \/ AskRm(p, i)
    PROVE  HeldInv' /\ UNCHANGED lock
<1>1. UNCHANGED lock /\ UNCHANGED gc
    BY DEF Reserve, AskUse, AskRm, Ask
<1>2. call[p].at = "idle" /\ \A o \in Callers \ {p} : call'[o] = call[o]
    BY DEF Reserve, AskUse, AskRm, Ask, TypeInv, TypeOK
<1> QED BY <1>1, <1>2, PlacesApart DEF HeldInv

-----------------------------------------------------------------------------
\* What one step does to every lock, call and sweep.

\* A lock is freed before another thread has it.
HandedOver == \A i \in Ids : lock[i] # Free => lock'[i] \in {Free, lock[i]}

\* A step of p takes its call nearer to the end, and none takes it back.
CallNearer(p) ==
    /\ CallStep(p) => CallLeft(p)' < CallLeft(p)
    /\ call[p].at # "idle" => CallLeft(p)' <= CallLeft(p)

\* The same for a sweep of s, which nothing else moves.
SweepNearer(s) ==
    gc[s].at # "asleep" =>
        /\ CollectorStep(s) => Onward(s)
        /\ \/ Onward(s)
           \/ gc'[s].at = gc[s].at /\ gc'[s].id = gc[s].id /\ gc'[s].todo = gc[s].todo

Advance ==
    /\ HandedOver
    /\ \A p \in Callers : CallNearer(p)
    /\ \A s \in Collectors : SweepNearer(s)

LEMMA LeftAfter == TypeInv' => \A p \in Callers : CallLeft(p)' \in 0..4
<1>1. TypeInv => \A p \in Callers : CallLeft(p) \in 0..4
    BY LeftCounted
<1>2. TypeInv' => (\A p \in Callers : CallLeft(p) \in 0..4)'
    BY <1>1, PTL
<1> QED BY <1>2

\* A call that stays where it is, or ends, and a sweep that does.
LEMMA StayOrEnd ==
    ASSUME TypeInv
    PROVE  /\ \A p \in Callers :
                 call'[p].at \in {call[p].at, "idle"} => CallLeft(p)' <= CallLeft(p)
           /\ \A s \in Collectors :
                 gc'[s].at = "asleep" /\ gc[s].at # "asleep" => Onward(s)
<1>1. ASSUME NEW p \in Callers, call'[p].at \in {call[p].at, "idle"}
      PROVE  CallLeft(p)' <= CallLeft(p)
    <2>1. CallLeft(p) \in 0..4
        BY LeftCounted
    <2>2. CallLeft(p)' \in {CallLeft(p), 0}
        BY <1>1 DEF CallLeft
    <2> QED BY <2>1, <2>2
<1>2. ASSUME NEW s \in Collectors, gc'[s].at = "asleep", gc[s].at # "asleep"
      PROVE  Onward(s)
    <2>1. gc[s].at \in GcPlaces
        BY TypeFacts DEF GcState
    <2>2. PassesLeft(s)' = 0 /\ PassesLeft(s) > 0
        BY <1>2, <2>1 DEF PassesLeft, GcPlaces, HoldingPlaces, EnginePlaces
    <2> QED BY <2>2 DEF Onward
<1> QED BY <1>1, <1>2

\* What a thread's own step does not touch.
Kept(p) == call'[p].at \in {call[p].at, "idle"}
KeptSweep(s) ==
    \/ gc'[s].at = "asleep"
    \/ gc'[s].at = gc[s].at /\ gc'[s].id = gc[s].id /\ gc'[s].todo = gc[s].todo

LEMMA StepKeeps ==
    ASSUME ExclusionInv, HeldInv, [Next]_vars
    PROVE  /\ HeldInv' /\ HandedOver
           /\ \A p \in Callers : call[p].at = "idle" \/ Kept(p) \/ CallStep(p) \/ Abandon(p)
           /\ \A s \in Collectors : KeptSweep(s) \/ CollectorStep(s)
<1> DEFINE Held == HeldInv' /\ HandedOver
           Calls == \A p \in Callers : call[p].at = "idle" \/ Kept(p) \/ CallStep(p) \/ Abandon(p)
           Sweeps == \A s \in Collectors : KeptSweep(s) \/ CollectorStep(s)
<1> USE DEF ExclusionInv, HandedOver
<1>1. ASSUME NEW p \in Callers, CallStep(p) \/ Abandon(p) PROVE Held /\ Calls /\ Sweeps
    <2>1. Alone(p) /\ LockFollows(p)
        BY <1>1, CreateSteps, UseSteps, AbandonSteps DEF CallStep
    <2>2. Held
        BY <2>1, HeldByCallers
    <2>3. Calls /\ Sweeps
        BY <1>1, <2>1 DEF Alone, Kept, KeptSweep
    <2> QED BY <2>2, <2>3
<1>2. ASSUME NEW s \in Collectors, CollectorStep(s) PROVE Held /\ Calls /\ Sweeps
    <2>1. Only(s) /\ SweepFollows(s)
        BY <1>2, CollectSteps, CandidateSteps DEF CollectorStep
    <2>2. Held
        BY <2>1, HeldByCollectors
    <2>3. Calls /\ Sweeps
        BY <1>2, <2>1 DEF Only, Kept, KeptSweep
    <2> QED BY <2>2, <2>3
<1>3. ASSUME NEW q \in Processes, Crash(q) PROVE Held /\ Calls /\ Sweeps
    <2>1. Held
        BY <1>3, CrashHeld
    <2>2. \A p \in Callers : call'[p] \in {call[p], Idle}
        BY <1>3 DEF Crash
    <2>3. \A s \in Collectors : gc'[s] \in {gc[s], Asleep}
        BY <1>3 DEF Crash
    <2> QED BY <2>1, <2>2, <2>3, PlacesApart DEF Kept, KeptSweep, Asleep
<1>4. ASSUME NEW p \in Callers, NEW i \in Ids,
             Reserve(p, i) \/ AskUse(p, i) \/ AskRm(p, i)
      PROVE  Held /\ Calls /\ Sweeps
    <2>1. UNCHANGED gc /\ Held
        BY <1>4, RequestHeld DEF Reserve, AskUse, AskRm, Ask
    <2>2. call[p].at = "idle" /\ \A o \in Callers \ {p} : call'[o] = call[o]
        BY <1>4 DEF Reserve, AskUse, AskRm, Ask, TypeInv, TypeOK
    <2> QED BY <2>1, <2>2 DEF Kept, KeptSweep
<1>5. CASE Tick
    <2>1. UNCHANGED call /\ Held
        BY <1>5, TickHeld DEF Tick
    <2>2. \A s \in Collectors : /\ gc'[s].at = gc[s].at /\ gc'[s].id = gc[s].id
                                /\ gc'[s].todo = gc[s].todo
        BY <1>5, TypeFacts DEF Tick, GcState
    <2> QED BY <2>1, <2>2 DEF Kept, KeptSweep
<1>6. CASE UNCHANGED vars
    BY <1>6 DEF vars, HeldInv, Kept, KeptSweep
<1> QED BY <1>1, <1>2, <1>3, <1>4, <1>5, <1>6 DEF Next, CollectorStep

LEMMA StepAdvances ==
    ASSUME ExclusionInv, HeldInv, [Next]_vars
    PROVE  Advance
<1> USE DEF ExclusionInv
<1>1. ASSUME NEW p \in Callers PROVE CallNearer(p)
    <2>1. /\ CallStep(p) => CallLeft(p)' < CallLeft(p)
          /\ Abandon(p) => CallLeft(p)' <= CallLeft(p)
        BY CreateSteps, UseSteps, AbandonSteps DEF CallStep
    <2>2. Kept(p) => CallLeft(p)' <= CallLeft(p)
        BY StayOrEnd DEF Kept
    <2>3. call[p].at = "idle" \/ Kept(p) \/ CallStep(p) \/ Abandon(p)
        BY StepKeeps
    <2>4. CallLeft(p) \in Nat /\ CallLeft(p)' \in Nat
        BY TypeStep, LeftCounted, LeftAfter
    <2> QED BY <2>1, <2>2, <2>3, <2>4 DEF CallNearer
<1>2. ASSUME NEW s \in Collectors PROVE SweepNearer(s)
    <2>1. CollectorStep(s) /\ gc[s].at # "asleep" => Onward(s)
        BY CollectSteps, CandidateSteps DEF CollectorStep
    <2>2. KeptSweep(s) \/ CollectorStep(s)
        BY StepKeeps
    <2> QED BY <2>1, <2>2, StayOrEnd DEF SweepNearer, KeptSweep
<1> QED BY <1>1, <1>2, StepKeeps DEF Advance

\* THEOREM LocksFollowWork: a lock that is held is held by a thread that is at
\* work on that very sandbox: none survives its call, its sweep or its process,
\* whatever fails, and none goes to another thread before it is given up.
THEOREM LocksFollowWork ==
    Spec => /\ [](\A i \in Ids : lock[i] # Free => WorksOn(lock[i]) = i)
            /\ [][HandedOver]_vars
<1>1. Init => HeldInv
    BY ThreadsAssumption DEF Init, HeldInv, Threads
<1>2. ExclusionInv /\ HeldInv /\ [Next]_vars => HeldInv' /\ [HandedOver]_vars
    BY StepKeeps
<1>3. ExclusionInv /\ HeldInv => \A i \in Ids : lock[i] # Free => WorksOn(lock[i]) = i
    BY ThreadsAssumption
    DEF ExclusionInv, TypeInv, TypeOK, HeldInv, WorksOn, WorkPlaces, Threads
<1> QED BY <1>1, <1>2, <1>3, ExclusionInit, ExclusionStep, PTL DEF Spec

\* THEOREM ThreadsAdvance: every step of a call or of a sweep takes it nearer to
\* its end and nothing takes it back, so that a call returns after four steps of
\* its own at most, a lock is held for two, and a sweep ends once it has gone
\* through the candidates its three passes have listed.
THEOREM ThreadsAdvance ==
    Spec => /\ [](\A p \in Callers : CallLeft(p) \in 0..4)
            /\ [][Advance]_vars
<1>1. Init => HeldInv
    BY ThreadsAssumption DEF Init, HeldInv, Threads
<1>2. ExclusionInv /\ HeldInv /\ [Next]_vars => HeldInv' /\ [Advance]_vars
    BY StepKeeps, StepAdvances
<1>3. ExclusionInv => \A p \in Callers : CallLeft(p) \in 0..4
    BY LeftCounted DEF ExclusionInv
<1> QED BY <1>1, <1>2, <1>3, ExclusionInit, ExclusionStep, PTL DEF Spec
==============================================================================

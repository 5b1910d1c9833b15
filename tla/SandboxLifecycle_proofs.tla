------------------------ MODULE SandboxLifecycle_proofs ------------------------
(***************************************************************************)
(* Proofs about SandboxLifecycle, for any ids, threads, processes and      *)
(* durations.                                                              *)
(***************************************************************************)
EXTENDS SandboxLifecycle, TLAPS

-----------------------------------------------------------------------------
\* Type correctness.

LEMMA RecordsTyped ==
    /\ Idle \in CallState
    /\ \A i \in Ids : \A place \in CallPlaces : At(place, i) \in CallState
    /\ Asleep \in GcState
<1>1. Idle \in CallState
  BY DEF Idle, At, CallState, CallPlaces
<1>2. \A i \in Ids : \A place \in CallPlaces : At(place, i) \in CallState
  BY DEF At, CallState
<1>3. Asleep \in GcState
  BY TimeAssumption DEF Asleep, GcState, GcPlaces
<1> QED BY <1>1, <1>2, <1>3

\* The operators that write part of the state keep its type.
LEMMA RowWritesTyped ==
    ASSUME TypeOK, NEW i \in Ids, NEW state \in RowStates, NEW ttl \in Nat,
           WriteRow(i, state, ttl) \/ UpdateRow(i, state, ttl)
    PROVE  row' \in [Ids -> RowStates] /\ left' \in [Ids -> Nat]
BY DEF TypeOK, WriteRow, UpdateRow

LEMMA BoxWritesTyped ==
    ASSUME TypeOK, NEW i \in Ids, RemoveBox(i) \/ MayRemoveBox(i)
    PROVE  box' \in [Ids -> BoxStates] /\ age' \in [Ids -> 0..Grace]
BY TimeAssumption DEF TypeOK, RemoveBox, MayRemoveBox, BoxStates

LEMMA LockWritesTyped ==
    ASSUME TypeOK, NEW i \in Ids, NEW t \in Threads, Acquire(t, i) \/ Release(i)
    PROVE  lock' \in [Ids -> Threads \cup {Free}]
BY DEF TypeOK, Acquire, Release

LEMMA CallWritesTyped ==
    ASSUME TypeOK, NEW p \in Callers, NEW place \in CallPlaces,
           Goto(p, place) \/ Finish(p)
    PROVE  call' \in [Callers -> CallState]
<1>1. CASE Goto(p, place)
  BY <1>1 DEF TypeOK, Goto, CallState
<1>2. CASE Finish(p)
  BY <1>2, RecordsTyped DEF TypeOK, Finish
<1> QED BY <1>1, <1>2

LEMMA GcWritesTyped ==
    ASSUME TypeOK, NEW s \in Collectors, NEW place \in GcPlaces,
           NEW i \in Ids \cup {NoId}, Move(s, place, i)
    PROVE  gc' \in [Collectors -> GcState]
BY DEF TypeOK, Move, GcState

\* Somebody who is working on a sandbox is working on one that exists.
PlacesInv ==
    /\ \A p \in Callers : call[p].at # "idle" => call[p].id \in Ids \ fresh
    /\ \A s \in Collectors : gc[s].at \in HoldingPlaces => gc[s].id \in Ids

TypeInv == TypeOK /\ PlacesInv

\* The facts every action's step below rests on.
LEMMA TypeFacts ==
    ASSUME TypeInv
    PROVE  /\ \A p \in Callers :
                 /\ call[p] \in CallState
                 /\ call[p].at # "idle" => call[p].id \in Ids
           /\ \A s \in Collectors :
                 /\ gc[s] \in GcState
                 /\ gc[s].at \in HoldingPlaces => gc[s].id \in Ids
           /\ CreatingTtl \in Nat /\ DefaultTtl \in Nat /\ 0 \in Nat
BY TimeAssumption DEF TypeInv, TypeOK, PlacesInv

\* PlacesInv survives a step that moves one caller to a place with its id, or
\* to idle, and takes at most that caller's id out of fresh.
LEMMA CallerPlaces ==
    ASSUME TypeInv, NEW p \in Callers, NEW state \in CallState,
           call' = [call EXCEPT ![p] = state],
           state.at # "idle" => state.id \in Ids \ fresh',
           fresh' \subseteq fresh, UNCHANGED gc
    PROVE  PlacesInv'
BY DEF TypeInv, TypeOK, PlacesInv

LEMMA MovesTyped ==
    ASSUME TypeInv, NEW p \in Callers, NEW place \in CallPlaces,
           call[p].at # "idle", Goto(p, place) \/ Finish(p),
           UNCHANGED <<fresh, gc>>
    PROVE  PlacesInv' /\ call' \in [Callers -> CallState]
<1>1. call' \in [Callers -> CallState]
  BY CallWritesTyped DEF TypeInv
<1>2. fresh' = fresh /\ gc' = gc
  OBVIOUS
<1>3. CASE Goto(p, place)
  <2> DEFINE moved == [call[p] EXCEPT !.at = place]
  <2>1. moved \in CallState /\ moved.id = call[p].id
    BY TypeFacts DEF CallState
  <2>2. moved.id \in Ids \ fresh'
    BY <1>2, <2>1 DEF TypeInv, PlacesInv
  <2>3. call' = [call EXCEPT ![p] = moved]
    BY <1>3 DEF Goto
  <2> HIDE DEF moved
  <2> QED BY <1>1, <1>2, <2>1, <2>2, <2>3, CallerPlaces
<1>4. CASE Finish(p)
  <2>1. Idle.at = "idle"
    BY DEF Idle, At
  <2> QED BY <1>1, <1>2, <1>4, <2>1, RecordsTyped, CallerPlaces DEF Finish
<1> QED BY <1>1, <1>3, <1>4

LEMMA CreateTyped ==
    ASSUME TypeInv, NEW p \in Callers, CreateStep(p)
    PROVE  TypeInv'
<1> USE TypeFacts DEF TypeInv
<1>1. CASE CreateRefused(p)
  BY <1>1, MovesTyped DEF CreateRefused, WorkerRaised, TypeOK, CallPlaces, CreatePlaces
<1>2. CASE MakeContainer(p)
  <2>1. PlacesInv' /\ call' \in [Callers -> CallState]
    BY <1>2, MovesTyped DEF MakeContainer, WorkerRaised, CallPlaces, CreatePlaces
  <2>2. box' \in [Ids -> BoxStates] /\ age' \in [Ids -> 0..Grace]
    BY <1>2, TimeAssumption DEF MakeContainer, TypeOK, BoxStates
  <2> QED BY <1>2, <2>1, <2>2 DEF MakeContainer, TypeOK
<1>3. CASE FinishBuild(p)
  <2>1. PlacesInv' /\ call' \in [Callers -> CallState]
    BY <1>3, MovesTyped DEF FinishBuild, CallPlaces, CreatePlaces
  <2>2. box' \in [Ids -> BoxStates]
    BY <1>3 DEF FinishBuild, TypeOK, BoxStates
  <2> QED BY <1>3, <2>1, <2>2 DEF FinishBuild, TypeOK
<1>4. CASE BuildFails(p)
  BY <1>4, MovesTyped DEF BuildFails, TypeOK, CallPlaces, CreatePlaces
<1>5. CASE Cleanup(p)
  <2>1. PlacesInv' /\ call' \in [Callers -> CallState]
    BY <1>5, MovesTyped DEF Cleanup, WorkerRaised, CallPlaces, CreatePlaces
  <2>2. box' \in [Ids -> BoxStates] /\ age' \in [Ids -> 0..Grace]
    BY <1>5, BoxWritesTyped DEF Cleanup
  <2> QED BY <1>5, <2>1, <2>2 DEF Cleanup, TypeOK
<1>6. CASE Unreserve(p)
  <2>1. PlacesInv' /\ call' \in [Callers -> CallState]
    BY <1>6, MovesTyped DEF Unreserve, CallPlaces
  <2>2. row' \in [Ids -> RowStates] /\ left' \in [Ids -> Nat]
    BY <1>6, RowWritesTyped DEF Unreserve, DeleteRow, RowStates
  <2> QED BY <1>6, <2>1, <2>2 DEF Unreserve, TypeOK
<1>7. CASE Finalize(p)
  <2>1. PlacesInv' /\ call' \in [Callers -> CallState]
    BY <1>7, MovesTyped DEF Finalize, CallPlaces
  <2>2. row' \in [Ids -> RowStates] /\ left' \in [Ids -> Nat]
    BY <1>7, RowWritesTyped DEF Finalize, RowStates
  <2> QED BY <1>7, <2>1, <2>2 DEF Finalize, TypeOK
<1> QED BY <1>1, <1>2, <1>3, <1>4, <1>5, <1>6, <1>7 DEF CreateStep

LEMMA UseTyped ==
    ASSUME TypeInv, NEW p \in Callers, UseStep(p) \/ LockTimeout(p)
    PROVE  TypeInv'
<1> USE TypeFacts DEF TypeInv
<1>1. CASE EnterUse(p)
  <2>1. PlacesInv' /\ call' \in [Callers -> CallState]
    BY <1>1, MovesTyped DEF EnterUse, CallPlaces, UsePlaces
  <2>2. lock' \in [Ids -> Threads \cup {Free}]
    BY <1>1, LockWritesTyped DEF EnterUse, Threads, TypeOK
  <2> QED BY <1>1, <2>1, <2>2 DEF EnterUse, TypeOK
<1>2. CASE UseReturns(p)
  BY <1>2, MovesTyped DEF UseReturns, TypeOK, CallPlaces, UsePlaces
<1>3. CASE UseFails(p)
  <2>1. PlacesInv' /\ call' \in [Callers -> CallState]
    BY <1>3, MovesTyped DEF UseFails, CallPlaces
  <2>2. lock' \in [Ids -> Threads \cup {Free}]
    BY <1>3 DEF UseFails, Release, TypeOK
  <2> QED BY <1>3, <2>1, <2>2 DEF UseFails, TypeOK
<1>4. CASE Touch(p)
  <2>1. PlacesInv' /\ call' \in [Callers -> CallState]
    BY <1>4, MovesTyped DEF Touch, CallPlaces
  <2>2. lock' \in [Ids -> Threads \cup {Free}]
    BY <1>4 DEF Touch, Release, TypeOK
  <2>3. row[call[p].id] \in RowStates
    BY <1>4 DEF Touch, TypeOK
  <2>4. row' \in [Ids -> RowStates] /\ left' \in [Ids -> Nat]
    BY <1>4, <2>3, RowWritesTyped DEF Touch
  <2> QED BY <1>4, <2>1, <2>2, <2>4 DEF Touch, TypeOK
<1>5. CASE LockTimeout(p)
  BY <1>5, MovesTyped DEF LockTimeout, TypeOK, CallPlaces
<1> QED BY <1>1, <1>2, <1>3, <1>4, <1>5 DEF UseStep

LEMMA RmTyped ==
    ASSUME TypeInv, NEW p \in Callers, RmStep(p)
    PROVE  TypeInv'
<1> USE TypeFacts DEF TypeInv
<1>1. CASE EnterRm(p)
  <2>1. PlacesInv' /\ call' \in [Callers -> CallState]
    BY <1>1, MovesTyped DEF EnterRm, CallPlaces, RmPlaces
  <2>2. lock' \in [Ids -> Threads \cup {Free}]
    BY <1>1, LockWritesTyped DEF EnterRm, Threads, TypeOK
  <2> QED BY <1>1, <2>1, <2>2 DEF EnterRm, TypeOK
<1>2. CASE RmConfirmed(p)
  <2>1. PlacesInv' /\ call' \in [Callers -> CallState]
    BY <1>2, MovesTyped DEF RmConfirmed, CallPlaces, RmPlaces
  <2>2. box' \in [Ids -> BoxStates] /\ age' \in [Ids -> 0..Grace]
    BY <1>2, BoxWritesTyped DEF RmConfirmed
  <2> QED BY <1>2, <2>1, <2>2 DEF RmConfirmed, TypeOK
<1>3. CASE RmFails(p)
  <2>1. PlacesInv' /\ call' \in [Callers -> CallState]
    BY <1>3, MovesTyped DEF RmFails, CallPlaces
  <2>2. box' \in [Ids -> BoxStates] /\ age' \in [Ids -> 0..Grace]
    BY <1>3, BoxWritesTyped DEF RmFails
  <2>3. lock' \in [Ids -> Threads \cup {Free}]
    BY <1>3 DEF RmFails, Release, TypeOK
  <2> QED BY <1>3, <2>1, <2>2, <2>3 DEF RmFails, TypeOK
<1>4. CASE RmRow(p)
  <2>1. PlacesInv' /\ call' \in [Callers -> CallState]
    BY <1>4, MovesTyped DEF RmRow, CallPlaces
  <2>2. row' \in [Ids -> RowStates] /\ left' \in [Ids -> Nat]
    BY <1>4, RowWritesTyped DEF RmRow, DeleteRow, RowStates
  <2>3. lock' \in [Ids -> Threads \cup {Free}]
    BY <1>4 DEF RmRow, Release, TypeOK
  <2> QED BY <1>4, <2>1, <2>2, <2>3 DEF RmRow, TypeOK
<1> QED BY <1>1, <1>2, <1>3, <1>4 DEF RmStep

LEMMA RequestTyped ==
    ASSUME TypeInv, NEW p \in Callers, NEW i \in Ids,
           Reserve(p, i) \/ AskUse(p, i) \/ AskRm(p, i) \/ Abandon(p)
    PROVE  TypeInv'
<1> USE DEF TypeInv
<1>1. CASE Reserve(p, i)
  <2>1. At("reserved", i) \in CallState /\ At("reserved", i).id = i
    BY RecordsTyped DEF CallPlaces, CreatePlaces, At
  <2>2. PlacesInv' /\ call' \in [Callers -> CallState]
    BY <1>1, <2>1, CallerPlaces DEF Reserve, TypeOK
  <2>3. row' \in [Ids -> RowStates] /\ left' \in [Ids -> Nat]
    BY <1>1, TypeFacts, RowWritesTyped DEF Reserve, RowStates
  <2> QED BY <1>1, <2>2, <2>3 DEF Reserve, TypeOK
<1>2. ASSUME NEW place \in {"wantUse", "wantRm"}, Ask(p, i, place)
      PROVE  TypeInv'
  <2>1. At(place, i) \in CallState /\ At(place, i).id = i
    BY RecordsTyped DEF CallPlaces, At
  <2>2. PlacesInv' /\ call' \in [Callers -> CallState]
    BY <1>2, <2>1, CallerPlaces DEF Ask, TypeOK
  <2> QED BY <1>2, <2>2 DEF Ask, TypeOK
<1>3. CASE Abandon(p)
  <2> DEFINE alone == [call[p] EXCEPT !.abandoned = TRUE]
  <2>1. alone \in CallState /\ alone.id = call[p].id /\ alone.at = call[p].at
    BY TypeFacts DEF CallState
  <2>2. call[p].id \in Ids \ fresh
    BY <1>3 DEF Abandon, PlacesInv, CreatePlaces
  <2>3. call' = [call EXCEPT ![p] = alone] \/ Finish(p)
    BY <1>3 DEF Abandon
  <2> HIDE DEF alone
  <2>4. CASE call' = [call EXCEPT ![p] = alone]
    <3>1. PlacesInv' /\ call' \in [Callers -> CallState]
      BY <1>3, <2>1, <2>2, <2>4, CallerPlaces DEF Abandon, TypeOK
    <3> QED BY <1>3, <3>1 DEF Abandon, TypeOK
  <2>5. CASE Finish(p)
    <3>1. PlacesInv' /\ call' \in [Callers -> CallState]
      BY <1>3, <2>5, MovesTyped DEF Abandon, CallPlaces, CreatePlaces
    <3> QED BY <1>3, <3>1 DEF Abandon, TypeOK
  <2> QED BY <2>3, <2>4, <2>5
<1> QED BY <1>1, <1>2, <1>3 DEF AskUse, AskRm

\* A collector's step that changes its own record and, with it, nothing that
\* callers' places depend on.
LEMMA CollectorPlaces ==
    ASSUME TypeInv, NEW s \in Collectors, NEW state \in GcState,
           gc' = [gc EXCEPT ![s] = state],
           state.at \in HoldingPlaces => state.id \in Ids,
           UNCHANGED <<fresh, call>>
    PROVE  PlacesInv' /\ gc' \in [Collectors -> GcState]
BY DEF TypeInv, TypeOK, PlacesInv

LEMMA CollectTyped ==
    ASSUME TypeInv, NEW s \in Collectors, CollectStep(s)
    PROVE  TypeInv'
<1> USE TypeFacts DEF TypeInv
<1>1. ASSUME NEW place \in GcPlaces, NEW i \in Ids \cup {NoId},
             place \in HoldingPlaces => i \in Ids,
             Move(s, place, i), UNCHANGED <<fresh, call>>
      PROVE  PlacesInv' /\ gc' \in [Collectors -> GcState]
  <2> DEFINE moved == [gc[s] EXCEPT !.at = place, !.id = i]
  <2>1. moved \in GcState /\ moved.at = place /\ moved.id = i
    BY DEF GcState
  <2>2. gc' = [gc EXCEPT ![s] = moved]
    BY <1>1 DEF Move
  <2> HIDE DEF moved
  <2> QED BY <1>1, <2>1, <2>2, CollectorPlaces
<1>2. ASSUME NEW pass \in GcPlaces \ HoldingPlaces,
             NEW todo \in SUBSET Ids, NEW known \in SUBSET Ids,
             StartPass(s, pass, todo, known), UNCHANGED <<fresh, call>>
      PROVE  PlacesInv' /\ gc' \in [Collectors -> GcState]
  <2> DEFINE begun == [Asleep EXCEPT
                          !.at = pass, !.todo = todo, !.known = known]
  <2>1. begun \in GcState /\ begun.at = pass
    BY RecordsTyped DEF GcState
  <2>2. gc' = [gc EXCEPT ![s] = begun]
    BY <1>2 DEF StartPass
  <2> HIDE DEF begun
  <2> QED BY <1>2, <2>1, <2>2, CollectorPlaces
<1>3. Asleep.at = "asleep"
  BY DEF Asleep
<1>4. CASE StartSweep(s) \/ ListStale(s) \/ Snapshot(s)
  <2>1. {"expired", "stale", "listing"} \subseteq GcPlaces \ HoldingPlaces
    BY DEF GcPlaces, HoldingPlaces, EnginePlaces
  <2>2. PlacesInv' /\ gc' \in [Collectors -> GcState]
    BY <1>2, <1>4, <2>1 DEF StartSweep, ListStale, Snapshot
  <2> QED BY <1>4, <2>2 DEF StartSweep, ListStale, Snapshot, TypeOK
<1>5. CASE Reclaim(s) \/ ReclaimFails(s)
  <2>1. PlacesInv' /\ gc' \in [Collectors -> GcState]
    BY <1>1, <1>5 DEF Reclaim, ReclaimFails, GcPlaces, HoldingPlaces
  <2>2. gc[s].id \in Ids
    BY <1>5 DEF Reclaim, ReclaimFails, HoldingPlaces
  <2>3. box' \in [Ids -> BoxStates] /\ age' \in [Ids -> 0..Grace]
    BY <1>5, <2>2, BoxWritesTyped DEF Reclaim, ReclaimFails
  <2> QED BY <1>5, <2>1, <2>3 DEF Reclaim, ReclaimFails, TypeOK
<1>6. CASE ReclaimUnreachable(s)
  <2>1. PlacesInv' /\ gc' \in [Collectors -> GcState]
    BY <1>1, <1>6 DEF ReclaimUnreachable, GcPlaces, HoldingPlaces
  <2>2. lock' \in [Ids -> Threads \cup {Free}]
    BY <1>6 DEF ReclaimUnreachable, Release, TypeOK
  <2> QED BY <1>6, <2>1, <2>2 DEF ReclaimUnreachable, TypeOK
<1>7. CASE Forget(s) \/ DropStale(s)
  <2>1. PlacesInv' /\ gc' \in [Collectors -> GcState]
    BY <1>1, <1>7 DEF Forget, DropStale, GcPlaces, HoldingPlaces
  <2>2. gc[s].id \in Ids
    BY <1>7 DEF Forget, DropStale, HoldingPlaces
  <2>3. row' \in [Ids -> RowStates] /\ left' \in [Ids -> Nat]
    BY <1>7, <2>2, RowWritesTyped DEF Forget, DropStale, DeleteRow, RowStates
  <2>4. lock' \in [Ids -> Threads \cup {Free}]
    BY <1>7 DEF Forget, DropStale, Release, TypeOK
  <2> QED BY <1>7, <2>1, <2>3, <2>4 DEF Forget, DropStale, TypeOK
<1>8. CASE ListManaged(s)
  <2> DEFINE listed == [gc[s] EXCEPT
                 !.at = "sweeping", !.todo = {i \in Ids : box[i] # "none"}]
  <2>1. listed \in GcState /\ listed.at = "sweeping"
    BY DEF GcState, GcPlaces, EnginePlaces
  <2>2. gc' = [gc EXCEPT ![s] = listed]
    BY <1>8 DEF ListManaged
  <2> HIDE DEF listed
  <2>3. PlacesInv' /\ gc' \in [Collectors -> GcState]
    BY <1>8, <2>1, <2>2, CollectorPlaces DEF ListManaged, HoldingPlaces
  <2> QED BY <1>8, <2>3 DEF ListManaged, TypeOK
<1>9. CASE ListFails(s) \/ EndSweep(s)
  <2>1. PlacesInv' /\ gc' \in [Collectors -> GcState]
    BY <1>3, <1>9, RecordsTyped, CollectorPlaces
    DEF ListFails, EndSweep, HoldingPlaces
  <2> QED BY <1>9, <2>1 DEF ListFails, EndSweep, TypeOK
<1> QED
  BY <1>4, <1>5, <1>6, <1>7, <1>8, <1>9
  DEF CollectStep

LEMMA CandidateTyped ==
    ASSUME TypeInv, NEW s \in Collectors, NEW i \in Ids, CandidateStep(s, i)
    PROVE  TypeInv'
<1> USE TypeFacts DEF TypeInv
\* The candidate leaves todo; the collector stays where it is ...
<1>1. ASSUME Strike(s, i), UNCHANGED <<fresh, call>>
      PROVE  PlacesInv' /\ gc' \in [Collectors -> GcState]
  <2> DEFINE less == [gc[s] EXCEPT !.todo = gc[s].todo \ {i}]
  <2>1. less \in GcState /\ less.at = gc[s].at /\ less.id = gc[s].id
    BY DEF GcState
  <2>2. gc' = [gc EXCEPT ![s] = less]
    BY <1>1 DEF Strike
  <2> HIDE DEF less
  <2> QED BY <1>1, <2>1, <2>2, CollectorPlaces
\* ... or goes on to a place at which it holds the candidate's lock.
<1>2. ASSUME NEW place \in HoldingPlaces,
             gc' = [gc EXCEPT ![s] = [@ EXCEPT
                       !.at = place, !.id = i, !.todo = gc[s].todo \ {i}]],
             UNCHANGED <<fresh, call>>
      PROVE  PlacesInv' /\ gc' \in [Collectors -> GcState]
  <2> DEFINE taken == [gc[s] EXCEPT
                 !.at = place, !.id = i, !.todo = gc[s].todo \ {i}]
  <2>1. taken \in GcState /\ taken.id = i
    BY DEF GcState, GcPlaces
  <2>2. gc' = [gc EXCEPT ![s] = taken]
    BY <1>2
  <2> HIDE DEF taken
  <2> QED BY <1>2, <2>1, <2>2, CollectorPlaces
<1>3. ASSUME NEW place \in HoldingPlaces, NEW pass, NEW still,
             Recheck(s, i, pass, still, place)
      PROVE  TypeInv'
  <2>1. PlacesInv' /\ gc' \in [Collectors -> GcState]
    BY <1>1, <1>2, <1>3 DEF Recheck
  <2>2. lock' \in [Ids -> Threads \cup {Free}]
    BY <1>3, LockWritesTyped DEF Recheck, Threads, TypeOK
  <2> QED BY <1>3, <2>1, <2>2 DEF Recheck, TypeOK
<1>4. CASE RecheckExpired(s, i) \/ RecheckStale(s, i)
  BY <1>3, <1>4 DEF RecheckExpired, RecheckStale, HoldingPlaces
<1>5. CASE PassOver(s, i)
  BY <1>1, <1>5 DEF PassOver, TypeOK
<1>6. CASE Spare(s, i) \/ OrphanKept(s, i)
  BY <1>1, <1>6 DEF Spare, OrphanKept, NextListed, TypeOK
<1>7. CASE RemoveOrphan(s, i)
  <2>1. PlacesInv' /\ gc' \in [Collectors -> GcState]
    BY <1>1, <1>7 DEF RemoveOrphan, NextListed
  <2>2. box' \in [Ids -> BoxStates] /\ age' \in [Ids -> 0..Grace]
    BY <1>7, BoxWritesTyped DEF RemoveOrphan
  <2> QED BY <1>7, <2>1, <2>2 DEF RemoveOrphan, TypeOK
<1> QED BY <1>4, <1>5, <1>6, <1>7 DEF CandidateStep

LEMMA CrashTyped ==
    ASSUME TypeInv, NEW q \in Processes, Crash(q)
    PROVE  TypeInv'
<1> USE DEF TypeInv, TypeOK
<1>1. Idle.at = "idle" /\ Asleep.at \notin HoldingPlaces
  BY DEF Idle, At, Asleep, HoldingPlaces
<1>2. call' \in [Callers -> CallState] /\ gc' \in [Collectors -> GcState]
  BY RecordsTyped DEF Crash
<1>3. lock' \in [Ids -> Threads \cup {Free}]
  BY DEF Crash
<1>4. crashes' \in 0..MaxCrashes
  BY BoundsAssumption DEF Crash
<1>5. PlacesInv'
  BY <1>1 DEF Crash, PlacesInv
<1> QED BY <1>2, <1>3, <1>4, <1>5 DEF Crash

LEMMA TickTyped ==
    ASSUME TypeInv, Tick
    PROVE  TypeInv'
<1> USE TimeAssumption DEF TypeInv
<1>1. left' \in [Ids -> Nat] /\ age' \in [Ids -> 0..Grace]
  BY DEF Tick, TypeOK
<1>2. ASSUME NEW s \in Collectors
      PROVE  /\ gc'[s] \in GcState
             /\ gc'[s].at = gc[s].at /\ gc'[s].id = gc[s].id
  BY TypeFacts DEF Tick, GcState
<1>3. gc' \in [Collectors -> GcState]
  BY <1>2 DEF Tick
<1>4. PlacesInv'
  BY <1>2 DEF PlacesInv, Tick
<1> QED BY <1>1, <1>3, <1>4 DEF Tick, TypeOK

LEMMA TypeInit == Init => TypeInv
<1>1. Idle.at = "idle" /\ Asleep.at \notin HoldingPlaces
  BY DEF Idle, At, Asleep, HoldingPlaces
<1> QED
  BY <1>1, RecordsTyped, TimeAssumption, BoundsAssumption
  DEF Init, TypeInv, TypeOK, PlacesInv, RowStates, BoxStates

LEMMA TypeStep == TypeInv /\ [Next]_vars => TypeInv'
<1> SUFFICES ASSUME TypeInv, [Next]_vars PROVE TypeInv'
  OBVIOUS
<1>1. CASE UNCHANGED vars
  BY <1>1 DEF vars, TypeInv, TypeOK, PlacesInv
<1>2. ASSUME NEW p \in Callers, CallStep(p) \/ Abandon(p)
      PROVE  TypeInv'
  <2>1. CASE Abandon(p)
    <3>1. call[p].id \in Ids
      BY <2>1, TypeFacts DEF Abandon, CreatePlaces
    <3> QED BY <2>1, <3>1, RequestTyped
  <2> QED BY <1>2, <2>1, CreateTyped, UseTyped, RmTyped DEF CallStep
<1> QED
  BY <1>1, <1>2, RequestTyped, CollectTyped, CandidateTyped, CrashTyped,
     TickTyped DEF Next

\* Every value a variable ever takes is of its type, and whoever works on a
\* sandbox works on one that create_sandbox has issued.
THEOREM TypeCorrect == Spec => [](TypeOK /\ PlacesInv)
BY TypeInit, TypeStep, PTL DEF Spec, TypeInv

-----------------------------------------------------------------------------
\* Exclusion.  UseIsExclusive is not inductive: that nobody else is in the
\* sandbox needs the lock, and that its row stays ready needs to know that the
\* only deleter without the lock, a failed create, never deletes a ready row.

WorkPlaces == UsePlaces \cup RmPlaces

\* Whoever works on a sandbox holds its lock.
LockInv ==
    /\ \A p \in Callers : call[p].at \in WorkPlaces => lock[call[p].id] = p
    /\ \A s \in Collectors : gc[s].at \in HoldingPlaces => lock[gc[s].id] = s

\* An id belongs to one create, has no ready row while that create is on it,
\* and has no row before.
CreateInv ==
    /\ \A i \in fresh : row[i] = "none"
    /\ \A p \in Callers :
          call[p].at \in CreatePlaces =>
             /\ row[call[p].id] # "ready"
             /\ \A o \in Callers \ {p} :
                   call[o].at \in CreatePlaces => call[o].id # call[p].id

UseInv ==
    \A p \in Callers : call[p].at \in UsePlaces => row[call[p].id] = "ready"

ExclusionInv == TypeInv /\ LockInv /\ CreateInv /\ UseInv

LEMMA PlacesApart ==
    /\ "idle" \notin CreatePlaces \cup WorkPlaces
    /\ WorkPlaces \cap (CreatePlaces \cup {"wantUse", "wantRm"}) = {}
    /\ UsePlaces \subseteq WorkPlaces /\ RmPlaces \subseteq WorkPlaces
    /\ UsePlaces \cap CreatePlaces = {} /\ UsePlaces \cap RmPlaces = {}
    /\ CreatePlaces \cap {"wantUse", "wantRm"} = {}
    /\ Idle.at = "idle"
    /\ Asleep.at \notin HoldingPlaces
BY DEF CreatePlaces, WorkPlaces, UsePlaces, RmPlaces, Idle, At, Asleep,
       HoldingPlaces

\* One caller moves.  The lock stays as it is and the caller starts no work,
\* or it is taken for the sandbox worked on, or given up with the work.
LEMMA CallerLocks ==
    ASSUME TypeInv, LockInv, NEW p \in Callers, NEW state \in CallState,
           call' = [call EXCEPT ![p] = state], UNCHANGED gc,
           \/ /\ UNCHANGED lock
              /\ state.at \in WorkPlaces =>
                    call[p].at \in WorkPlaces /\ state.id = call[p].id
           \/ state.id \in Ids /\ Acquire(p, state.id)
           \/ /\ call[p].at \in WorkPlaces
              /\ Release(call[p].id)
              /\ state.at \notin WorkPlaces
    PROVE  LockInv'
<1> USE PlacesApart, ThreadsAssumption DEF TypeInv, TypeOK, PlacesInv, LockInv
<1>1. ASSUME NEW o \in Callers, call'[o].at \in WorkPlaces
      PROVE  lock'[call'[o].id] = o
  <2>1. CASE o = p
    BY <1>1, <2>1 DEF Acquire
  <2>2. CASE o # p
    <3>1. call'[o] = call[o] /\ lock[call[o].id] = o /\ o \in Threads
      BY <1>1, <2>2 DEF Threads
    <3>2. call[o].id \in Ids
      BY <1>1, <3>1, TypeFacts
    <3>3. Acquire(p, state.id) => state.id # call[o].id
      BY <3>1 DEF Acquire
    <3>4. call[p].at \in WorkPlaces /\ Release(call[p].id)
             => call[p].id # call[o].id
      BY <2>2, <3>1
    <3> QED BY <3>1, <3>2, <3>3, <3>4 DEF Acquire, Release
  <2> QED BY <2>1, <2>2
<1>2. ASSUME NEW s \in Collectors, gc'[s].at \in HoldingPlaces
      PROVE  lock'[gc'[s].id] = s
  <2>1. gc'[s] = gc[s] /\ lock[gc[s].id] = s /\ gc[s].id \in Ids
    BY <1>2
  <2>2. s \in Threads /\ s # p
    BY DEF Threads
  <2>3. Acquire(p, state.id) => state.id # gc[s].id
    BY <2>1, <2>2 DEF Acquire
  <2>4. call[p].at \in WorkPlaces /\ Release(call[p].id)
           => call[p].id # gc[s].id
    BY <2>1, <2>2
  <2> QED BY <2>1, <2>3, <2>4 DEF Acquire, Release
<1> QED BY <1>1, <1>2

\* The same for one collector.
LEMMA CollectorLocks ==
    ASSUME TypeInv, LockInv, NEW s \in Collectors, NEW state \in GcState,
           gc' = [gc EXCEPT ![s] = state], UNCHANGED call,
           \/ /\ UNCHANGED lock
              /\ state.at \in HoldingPlaces =>
                    gc[s].at \in HoldingPlaces /\ state.id = gc[s].id
           \/ state.id \in Ids /\ Acquire(s, state.id)
           \/ /\ gc[s].at \in HoldingPlaces
              /\ Release(gc[s].id)
              /\ state.at \notin HoldingPlaces
    PROVE  LockInv'
<1> USE PlacesApart, ThreadsAssumption DEF TypeInv, TypeOK, PlacesInv, LockInv
<1>1. ASSUME NEW o \in Callers, call'[o].at \in WorkPlaces
      PROVE  lock'[call'[o].id] = o
  <2>1. call'[o] = call[o] /\ lock[call[o].id] = o
    BY <1>1
  <2>2. o \in Threads /\ s # o
    BY DEF Threads
  <2>3. call[o].id \in Ids
    BY <1>1, <2>1, TypeFacts
  <2>4. Acquire(s, state.id) => state.id # call[o].id
    BY <2>1, <2>2 DEF Acquire
  <2>5. gc[s].at \in HoldingPlaces /\ Release(gc[s].id)
           => gc[s].id # call[o].id
    BY <2>1, <2>2
  <2> QED BY <2>1, <2>3, <2>4, <2>5 DEF Acquire, Release
<1>2. ASSUME NEW t \in Collectors, gc'[t].at \in HoldingPlaces
      PROVE  lock'[gc'[t].id] = t
  <2>1. CASE t = s
    BY <1>2, <2>1 DEF Acquire
  <2>2. CASE t # s
    <3>1. gc'[t] = gc[t] /\ lock[gc[t].id] = t /\ gc[t].id \in Ids
      BY <1>2, <2>2
    <3>2. t \in Threads
      BY DEF Threads
    <3>3. Acquire(s, state.id) => state.id # gc[t].id
      BY <3>1, <3>2 DEF Acquire
    <3>4. gc[s].at \in HoldingPlaces /\ Release(gc[s].id)
             => gc[s].id # gc[t].id
      BY <2>2, <3>1
    <3> QED BY <3>1, <3>3, <3>4 DEF Acquire, Release
  <2> QED BY <2>1, <2>2
<1> QED BY <1>1, <1>2

\* A step that leaves the registry alone and moves one caller.
LEMMA CallerRows ==
    ASSUME TypeInv, CreateInv, UseInv, NEW p \in Callers,
           NEW state \in CallState, call' = [call EXCEPT ![p] = state],
           UNCHANGED <<fresh, row>>,
           state.at \in CreatePlaces =>
              call[p].at \in CreatePlaces /\ state.id = call[p].id,
           state.at \in UsePlaces => row[state.id] = "ready"
    PROVE  CreateInv' /\ UseInv'
<1>1. CreateInv'
  BY DEF TypeInv, TypeOK, CreateInv
<1>2. UseInv'
  BY DEF TypeInv, TypeOK, UseInv
<1> QED BY <1>1, <1>2

\* A step that deletes a row nobody works behind.
LEMMA DeleteRows ==
    ASSUME TypeInv, CreateInv, UseInv, NEW i \in Ids, DeleteRow(i),
           UNCHANGED fresh,
           \A p \in Callers :
              \/ call'[p] = call[p]
              \/ call'[p].at = "idle",
           \A p \in Callers : call'[p].at \in UsePlaces => call[p].id # i
    PROVE  CreateInv' /\ UseInv'
<1> USE PlacesApart
<1>1. \A j \in Ids : row'[j] = IF j = i THEN "none" ELSE row[j]
  BY DEF DeleteRow, WriteRow, TypeInv, TypeOK
<1>2. \A p \in Callers : call'[p].at # "idle" =>
         call'[p] = call[p] /\ call[p].id \in Ids
  BY TypeFacts
<1>3. CreateInv'
  BY <1>1, <1>2 DEF CreateInv, TypeInv, TypeOK
<1>4. UseInv'
  BY <1>1, <1>2 DEF UseInv
<1> QED BY <1>3, <1>4

\* A caller that moves keeps its id; one that finishes is idle.
LEMMA MovedState ==
    ASSUME TypeInv, NEW p \in Callers, NEW place \in CallPlaces,
           Goto(p, place) \/ Finish(p)
    PROVE  \E state \in CallState :
              /\ call' = [call EXCEPT ![p] = state]
              /\ \/ state.at = place /\ state.id = call[p].id
                 \/ state.at = "idle"
              /\ Finish(p) => state.at = "idle"
              /\ ~Finish(p) => state.at = place /\ state.id = call[p].id
<1>1. CASE Finish(p)
  BY <1>1, RecordsTyped, PlacesApart DEF Finish
<1>2. CASE ~Finish(p)
  <2> DEFINE moved == [call[p] EXCEPT !.at = place]
  <2>1. moved \in CallState /\ moved.at = place /\ moved.id = call[p].id
    BY TypeFacts DEF CallState
  <2>2. call' = [call EXCEPT ![p] = moved]
    BY <1>2 DEF Goto
  <2> HIDE DEF moved
  <2> QED BY <1>2, <2>1, <2>2
<1> QED BY <1>1, <1>2

LEMMA CreateExclusion ==
    ASSUME ExclusionInv, NEW p \in Callers, CreateStep(p) \/ Abandon(p)
    PROVE  LockInv' /\ CreateInv' /\ UseInv'
<1> USE PlacesApart DEF ExclusionInv
<1>1. CreatePlaces \subseteq CallPlaces
  BY DEF CallPlaces
\* From one step of the create to the next, or out of it.
<1>2. ASSUME call[p].at \in CreatePlaces, NEW place \in CreatePlaces,
             Goto(p, place) \/ Finish(p), UNCHANGED <<fresh, row, lock, gc>>
      PROVE  LockInv' /\ CreateInv' /\ UseInv'
  <2>1. PICK state \in CallState :
           /\ call' = [call EXCEPT ![p] = state]
           /\ (state.at = place /\ state.id = call[p].id) \/ state.at = "idle"
    BY <1>1, <1>2, MovedState
  <2>2. LockInv'
    BY <1>2, <2>1, CallerLocks
  <2>3. CreateInv' /\ UseInv'
    BY <1>2, <2>1, CallerRows
  <2> QED BY <2>2, <2>3
<1>3. CASE CreateRefused(p) \/ MakeContainer(p) \/ FinishBuild(p)
           \/ BuildFails(p) \/ Cleanup(p)
  BY <1>2, <1>3
  DEF CreateRefused, MakeContainer, FinishBuild, BuildFails, Cleanup,
      WorkerRaised, CreatePlaces
<1>4. CASE Abandon(p)
  <2> DEFINE alone == [call[p] EXCEPT !.abandoned = TRUE]
  <2>1. alone \in CallState /\ alone.id = call[p].id /\ alone.at = call[p].at
    BY TypeFacts DEF CallState
  <2>2. call' = [call EXCEPT ![p] = alone] \/ Finish(p)
    BY <1>4 DEF Abandon
  <2>3. call[p].at \in CreatePlaces
    BY <1>4 DEF Abandon
  <2>4. UNCHANGED <<fresh, row, lock, gc>>
    BY <1>4 DEF Abandon
  <2> HIDE DEF alone
  <2>5. CASE call' = [call EXCEPT ![p] = alone]
    <3>1. LockInv'
      BY <2>1, <2>3, <2>4, <2>5, CallerLocks
    <3>2. CreateInv' /\ UseInv'
      BY <2>1, <2>3, <2>4, <2>5, CallerRows
    <3> QED BY <3>1, <3>2
  <2>6. CASE Finish(p)
    BY <1>2, <2>3, <2>4, <2>6
  <2> QED BY <2>2, <2>5, <2>6
<1>5. CASE Unreserve(p)
  <2>1. LockInv'
    BY <1>5, CallerLocks, RecordsTyped DEF Unreserve, Finish
  <2>2. call[p].id \in Ids /\ call[p].at \in CreatePlaces
    BY <1>5, TypeFacts DEF Unreserve, CreatePlaces
  <2>3. \A o \in Callers : call'[o] = call[o] \/ call'[o].at = "idle"
    BY <1>5 DEF Unreserve, Finish, TypeInv, TypeOK
  <2>4. \A o \in Callers : call'[o].at \in UsePlaces => call[o].id # call[p].id
    BY <2>2, <2>3 DEF CreateInv, UseInv
  <2>5. CreateInv' /\ UseInv'
    BY <1>5, <2>2, <2>3, <2>4, DeleteRows DEF Unreserve
  <2> QED BY <2>1, <2>5
<1>6. CASE Finalize(p)
  <2>1. LockInv'
    BY <1>6, CallerLocks, RecordsTyped DEF Finalize, Finish
  <2>2. call[p].id \in Ids \ fresh /\ call[p].at \in CreatePlaces
    BY <1>6 DEF Finalize, CreatePlaces, TypeInv, PlacesInv
  <2>3. \A o \in Callers :
           call'[o] = IF o = p THEN Idle ELSE call[o]
    BY <1>6 DEF Finalize, Finish, TypeInv, TypeOK
  <2>4. \A i \in Ids :
           \/ row'[i] = row[i]
           \/ i = call[p].id /\ row'[i] = "ready"
    BY <1>6, <2>2 DEF Finalize, UpdateRow, WriteRow, TypeInv, TypeOK
  <2>5. CreateInv'
    <3>1. \A i \in fresh' : row'[i] = "none"
      BY <1>6, <2>2, <2>4 DEF Finalize, CreateInv, TypeInv, TypeOK
    <3>2. ASSUME NEW o \in Callers, call'[o].at \in CreatePlaces
          PROVE  /\ row'[call'[o].id] # "ready"
                 /\ \A n \in Callers \ {o} :
                       call'[n].at \in CreatePlaces => call'[n].id # call'[o].id
      <4>1. o # p /\ call'[o] = call[o] /\ call[o].id \in Ids
        BY <2>3, <3>2, TypeFacts
      <4>2. call[o].id # call[p].id /\ row[call[o].id] # "ready"
        BY <2>2, <3>2, <4>1 DEF CreateInv
      <4> QED BY <2>3, <2>4, <3>2, <4>1, <4>2 DEF CreateInv
    <3> QED BY <3>1, <3>2 DEF CreateInv
  <2>6. UseInv'
    BY <2>3, <2>4, TypeFacts DEF UseInv
  <2> QED BY <2>1, <2>5, <2>6
<1> QED BY <1>3, <1>4, <1>5, <1>6 DEF CreateStep

LEMMA RequestExclusion ==
    ASSUME ExclusionInv, NEW p \in Callers, NEW i \in Ids,
           Reserve(p, i) \/ AskUse(p, i) \/ AskRm(p, i)
    PROVE  LockInv' /\ CreateInv' /\ UseInv'
<1> USE PlacesApart DEF ExclusionInv
<1>1. CASE Reserve(p, i)
  <2>1. At("reserved", i) \in CallState
        /\ At("reserved", i).at = "reserved" /\ At("reserved", i).id = i
    BY RecordsTyped DEF CallPlaces, CreatePlaces, At
  <2>2. "reserved" \in CreatePlaces
    BY DEF CreatePlaces
  <2>3. LockInv'
    BY <1>1, <2>1, <2>2, CallerLocks DEF Reserve
  <2>4. \A j \in Ids : row'[j] = IF j = i THEN "creating" ELSE row[j]
    BY <1>1 DEF Reserve, WriteRow, TypeInv, TypeOK
  <2>5. /\ \A o \in Callers :
              call'[o] = IF o = p THEN At("reserved", i) ELSE call[o]
        /\ fresh' = fresh \ {i} /\ i \in fresh
    BY <1>1 DEF Reserve, TypeInv, TypeOK
  <2>6. \A o \in Callers : call[o].at # "idle" =>
           call[o].id \in Ids /\ call[o].id # i
    BY <2>5 DEF TypeInv, PlacesInv
  <2>7. CreateInv'
    BY <2>1, <2>2, <2>4, <2>5, <2>6 DEF CreateInv, TypeInv, TypeOK
  <2>8. UseInv'
    BY <2>1, <2>2, <2>4, <2>5, <2>6 DEF UseInv
  <2> QED BY <2>3, <2>7, <2>8
<1>2. ASSUME NEW place \in {"wantUse", "wantRm"}, Ask(p, i, place)
      PROVE  LockInv' /\ CreateInv' /\ UseInv'
  <2>1. At(place, i) \in CallState /\ At(place, i).at = place
    BY RecordsTyped DEF CallPlaces, At
  <2>2. LockInv'
    BY <1>2, <2>1, CallerLocks DEF Ask
  <2>3. CreateInv' /\ UseInv'
    BY <1>2, <2>1, CallerRows DEF Ask
  <2> QED BY <2>2, <2>3
<1> QED BY <1>1, <1>2 DEF AskUse, AskRm

\* The three ways a worker changes place: it takes the lock on the way in, it
\* goes on under it, or it gives it back and is idle.
LEMMA WorkerExclusion ==
    ASSUME ExclusionInv, NEW p \in Callers, call[p].at # "idle",
           UNCHANGED <<fresh, row, gc>>,
           \/ UNCHANGED lock /\ Finish(p)
           \/ \E place \in RmPlaces :
                 Acquire(p, call[p].id) /\ Goto(p, place) /\ ~Finish(p)
           \/ /\ row[call[p].id] = "ready"
              /\ Acquire(p, call[p].id) /\ Goto(p, "using") /\ ~Finish(p)
           \/ \E place \in RmPlaces :
                 call[p].at \in RmPlaces /\ Goto(p, place) /\ UNCHANGED lock
           \/ call[p].at \in UsePlaces /\ Goto(p, "used") /\ UNCHANGED lock
           \/ call[p].at \in WorkPlaces /\ Release(call[p].id) /\ Finish(p)
    PROVE  LockInv' /\ CreateInv' /\ UseInv'
<1> USE PlacesApart DEF ExclusionInv
<1>1. /\ RmPlaces \subseteq CallPlaces /\ UsePlaces \subseteq CallPlaces
      /\ "using" \in UsePlaces /\ "used" \in UsePlaces
      /\ UsePlaces \cap CreatePlaces = {} /\ RmPlaces \cap CreatePlaces = {}
  BY DEF CallPlaces, CreatePlaces, RmPlaces, UsePlaces
<1>2. call[p].id \in Ids
  BY TypeFacts
<1>3. PICK state \in CallState :
         /\ call' = [call EXCEPT ![p] = state]
         /\ \/ state.at = "idle"
            \/ state.id = call[p].id /\ state.at \in RmPlaces
            \/ state.id = call[p].id /\ state.at \in UsePlaces
                  /\ row[call[p].id] = "ready"
         /\ \/ UNCHANGED lock
                  /\ (state.at \in WorkPlaces => call[p].at \in WorkPlaces)
            \/ Acquire(p, call[p].id) /\ state.id = call[p].id
            \/ /\ call[p].at \in WorkPlaces /\ Release(call[p].id)
               /\ state.at = "idle"
  <2>1. CASE Finish(p) /\ (UNCHANGED lock \/ (call[p].at \in WorkPlaces /\ Release(call[p].id)))
    BY <2>1, RecordsTyped DEF Finish
  <2>2. CASE \E place \in RmPlaces :
                 Acquire(p, call[p].id) /\ Goto(p, place) /\ ~Finish(p)
    BY <1>1, <2>2, MovedState
  <2>3. CASE /\ row[call[p].id] = "ready"
             /\ Acquire(p, call[p].id) /\ Goto(p, "using") /\ ~Finish(p)
    BY <1>1, <2>3, MovedState
  <2>4. CASE \E place \in RmPlaces :
                 call[p].at \in RmPlaces /\ Goto(p, place) /\ UNCHANGED lock
    BY <1>1, <2>4, MovedState
  <2>5. CASE call[p].at \in UsePlaces /\ Goto(p, "used") /\ UNCHANGED lock
    <3>1. row[call[p].id] = "ready"
      BY <2>5 DEF UseInv
    <3> QED BY <1>1, <2>5, <3>1, MovedState
  <2> QED BY <2>1, <2>2, <2>3, <2>4, <2>5
<1>4. LockInv'
  BY <1>2, <1>3, CallerLocks
<1>5. CreateInv' /\ UseInv'
  BY <1>1, <1>3, CallerRows
<1> QED BY <1>4, <1>5

LEMMA UseExclusion ==
    ASSUME ExclusionInv, NEW p \in Callers, UseStep(p) \/ LockTimeout(p)
    PROVE  LockInv' /\ CreateInv' /\ UseInv'
<1> USE PlacesApart DEF ExclusionInv
<1>1. CASE EnterUse(p)
  <2>1. CASE Finish(p) /\ UNCHANGED lock
    BY <1>1, <2>1, WorkerExclusion DEF EnterUse
  <2>2. CASE row[call[p].id] = "ready" /\ Acquire(p, call[p].id) /\ Goto(p, "using")
    <3>1. call' # [call EXCEPT ![p] = Idle]
      <4>1. call'[p].at = "using"
        BY <2>2, TypeFacts DEF Goto, CallState, TypeInv, TypeOK
      <4> QED BY <4>1 DEF TypeInv, TypeOK
    <3> QED BY <1>1, <2>2, <3>1, WorkerExclusion DEF EnterUse, Finish
  <2> QED BY <1>1, <2>1, <2>2 DEF EnterUse
<1>2. CASE UseReturns(p)
  BY <1>2, WorkerExclusion DEF UseReturns, UsePlaces
<1>3. CASE UseFails(p)
  BY <1>3, WorkerExclusion DEF UseFails, UsePlaces
<1>4. CASE Touch(p)
  <2>1. call[p].id \in Ids /\ call[p].at \in WorkPlaces
    BY <1>4, TypeFacts DEF Touch, UsePlaces
  <2>2. UNCHANGED <<fresh, row, gc>>
    BY <1>4, <2>1 DEF Touch, UpdateRow, WriteRow, TypeInv, TypeOK
  <2> QED BY <1>4, <2>1, <2>2, WorkerExclusion DEF Touch
<1>5. CASE LockTimeout(p)
  BY <1>5, WorkerExclusion DEF LockTimeout
<1> QED BY <1>1, <1>2, <1>3, <1>4, <1>5 DEF UseStep

LEMMA RmExclusion ==
    ASSUME ExclusionInv, NEW p \in Callers, RmStep(p)
    PROVE  LockInv' /\ CreateInv' /\ UseInv'
<1> USE PlacesApart DEF ExclusionInv
<1>1. CASE EnterRm(p)
  <2>1. CASE Finish(p) /\ UNCHANGED lock
    BY <1>1, <2>1, WorkerExclusion DEF EnterRm
  <2>2. ASSUME NEW place \in {"removing", "unreferenced"},
               Acquire(p, call[p].id), Goto(p, place)
        PROVE  LockInv' /\ CreateInv' /\ UseInv'
    <3>1. call' # [call EXCEPT ![p] = Idle]
      <4>1. call'[p].at = place
        BY <2>2, TypeFacts DEF Goto, CallState, TypeInv, TypeOK
      <4> QED BY <4>1 DEF TypeInv, TypeOK
    <3>2. place \in RmPlaces
      BY DEF RmPlaces
    <3> QED BY <1>1, <2>2, <3>1, <3>2, WorkerExclusion DEF EnterRm, Finish
  <2> QED BY <1>1, <2>1, <2>2 DEF EnterRm
<1>2. CASE RmConfirmed(p)
  BY <1>2, WorkerExclusion DEF RmConfirmed, RmPlaces
<1>3. CASE RmFails(p)
  BY <1>3, WorkerExclusion DEF RmFails, RmPlaces
<1>4. CASE RmRow(p)
  <2>1. call[p].at \in RmPlaces /\ call[p].id \in Ids
    BY <1>4, TypeFacts DEF RmRow, RmPlaces
  <2>2. LockInv'
    BY <1>4, <2>1, CallerLocks, RecordsTyped DEF RmRow, Finish
  <2>3. \A o \in Callers : call'[o] = IF o = p THEN Idle ELSE call[o]
    BY <1>4 DEF RmRow, Finish, TypeInv, TypeOK
  <2>4. \A o \in Callers : call'[o].at \in UsePlaces => call[o].id # call[p].id
    BY <2>1, <2>3 DEF LockInv
  <2>5. CreateInv' /\ UseInv'
    BY <1>4, <2>1, <2>3, <2>4, DeleteRows DEF RmRow
  <2> QED BY <2>2, <2>5
<1> QED BY <1>1, <1>2, <1>3, <1>4 DEF RmStep

LEMMA CollectExclusion ==
    ASSUME ExclusionInv, NEW s \in Collectors, CollectStep(s)
    PROVE  LockInv' /\ CreateInv' /\ UseInv'
<1> USE PlacesApart DEF ExclusionInv
<1>1. ASSUME UNCHANGED <<fresh, row, call>>
      PROVE  CreateInv' /\ UseInv'
  BY <1>1 DEF CreateInv, UseInv
<1>2. ASSUME NEW pass \in GcPlaces \ HoldingPlaces,
             NEW todo \in SUBSET Ids, NEW known \in SUBSET Ids,
             StartPass(s, pass, todo, known), UNCHANGED <<lock, call>>
      PROVE  LockInv'
  <2> DEFINE begun == [Asleep EXCEPT
                          !.at = pass, !.todo = todo, !.known = known]
  <2>1. begun \in GcState /\ begun.at = pass
    BY RecordsTyped DEF GcState
  <2>2. gc' = [gc EXCEPT ![s] = begun]
    BY <1>2 DEF StartPass
  <2> HIDE DEF begun
  <2> QED BY <1>2, <2>1, <2>2, CollectorLocks
\* A move under the lock, or one that gives it back.
<1>3. ASSUME NEW place \in GcPlaces, NEW i \in Ids \cup {NoId},
             Move(s, place, i), UNCHANGED call, gc[s].at \in HoldingPlaces,
             \/ UNCHANGED lock /\ i = gc[s].id
             \/ Release(gc[s].id) /\ place \notin HoldingPlaces
      PROVE  LockInv'
  <2> DEFINE moved == [gc[s] EXCEPT !.at = place, !.id = i]
  <2>1. moved \in GcState /\ moved.at = place /\ moved.id = i
    BY TypeFacts DEF GcState
  <2>2. gc' = [gc EXCEPT ![s] = moved]
    BY <1>3 DEF Move
  <2> HIDE DEF moved
  <2> QED BY <1>3, <2>1, <2>2, CollectorLocks
<1>4. CASE StartSweep(s) \/ ListStale(s) \/ Snapshot(s)
  <2>1. {"expired", "stale", "listing"} \subseteq GcPlaces \ HoldingPlaces
    BY DEF GcPlaces, HoldingPlaces, EnginePlaces
  <2> QED BY <1>1, <1>2, <1>4, <2>1 DEF StartSweep, ListStale, Snapshot
<1>5. CASE Reclaim(s) \/ ReclaimFails(s)
  <2>1. gc[s].at \in HoldingPlaces /\ gc[s].id \in Ids
    BY <1>5, TypeFacts DEF Reclaim, ReclaimFails, HoldingPlaces
  <2> QED BY <1>1, <1>3, <1>5, <2>1 DEF Reclaim, ReclaimFails, GcPlaces, HoldingPlaces
<1>6. CASE ReclaimUnreachable(s)
  <2>1. LockInv'
    BY <1>3, <1>6 DEF ReclaimUnreachable, GcPlaces, HoldingPlaces
  <2> QED BY <1>1, <1>6, <2>1 DEF ReclaimUnreachable
<1>7. CASE Forget(s) \/ DropStale(s)
  <2>1. LockInv'
    BY <1>3, <1>7 DEF Forget, DropStale, GcPlaces, HoldingPlaces
  <2>2. gc[s].at \in HoldingPlaces /\ gc[s].id \in Ids
    BY <1>7, TypeFacts DEF Forget, DropStale, HoldingPlaces
  <2>3. ASSUME NEW p \in Callers, call[p].at \in UsePlaces
        PROVE  call[p].id # gc[s].id
    BY <2>2, <2>3, ThreadsAssumption DEF LockInv
  <2>4. CreateInv' /\ UseInv'
    BY <1>7, <2>2, <2>3, DeleteRows DEF Forget, DropStale
  <2> QED BY <2>1, <2>4
<1>8. CASE ListManaged(s)
  <2> DEFINE listed == [gc[s] EXCEPT
                 !.at = "sweeping", !.todo = {i \in Ids : box[i] # "none"}]
  <2>1. listed \in GcState /\ listed.at = "sweeping"
    BY TypeFacts DEF GcState, GcPlaces, EnginePlaces
  <2>2. gc' = [gc EXCEPT ![s] = listed]
    BY <1>8 DEF ListManaged
  <2> HIDE DEF listed
  <2>3. LockInv'
    BY <1>8, <2>1, <2>2, CollectorLocks DEF ListManaged, HoldingPlaces
  <2> QED BY <1>1, <1>8, <2>3 DEF ListManaged
<1>9. CASE ListFails(s) \/ EndSweep(s)
  <2>1. LockInv'
    BY <1>9, CollectorLocks, RecordsTyped DEF ListFails, EndSweep
  <2> QED BY <1>1, <1>9, <2>1 DEF ListFails, EndSweep
<1> QED BY <1>4, <1>5, <1>6, <1>7, <1>8, <1>9 DEF CollectStep

LEMMA CandidateExclusion ==
    ASSUME ExclusionInv, NEW s \in Collectors, NEW i \in Ids,
           CandidateStep(s, i)
    PROVE  LockInv' /\ CreateInv' /\ UseInv'
<1> USE PlacesApart DEF ExclusionInv
<1>1. UNCHANGED <<fresh, row, call>>
  BY DEF CandidateStep, RecheckExpired, RecheckStale, Recheck, PassOver,
         Spare, OrphanKept, RemoveOrphan
<1>2. CreateInv' /\ UseInv'
  BY <1>1 DEF CreateInv, UseInv
<1>3. ASSUME Strike(s, i), UNCHANGED lock
      PROVE  LockInv'
  <2> DEFINE less == [gc[s] EXCEPT !.todo = gc[s].todo \ {i}]
  <2>1. less \in GcState /\ less.at = gc[s].at /\ less.id = gc[s].id
    BY TypeFacts DEF GcState
  <2>2. gc' = [gc EXCEPT ![s] = less]
    BY <1>3 DEF Strike
  <2> HIDE DEF less
  <2> QED BY <1>1, <1>3, <2>1, <2>2, CollectorLocks
<1>4. ASSUME NEW place \in HoldingPlaces, NEW pass, NEW still,
             Recheck(s, i, pass, still, place)
      PROVE  LockInv'
  <2> DEFINE taken == [gc[s] EXCEPT
                 !.at = place, !.id = i, !.todo = gc[s].todo \ {i}]
  <2>1. taken \in GcState /\ taken.id = i
    BY TypeFacts DEF GcState, GcPlaces
  <2>2. \/ Strike(s, i) /\ UNCHANGED lock
        \/ gc' = [gc EXCEPT ![s] = taken] /\ Acquire(s, i)
    BY <1>4 DEF Recheck
  <2> HIDE DEF taken
  <2> QED BY <1>1, <1>3, <2>1, <2>2, CollectorLocks
<1>5. CASE RecheckExpired(s, i) \/ RecheckStale(s, i)
  BY <1>2, <1>4, <1>5 DEF RecheckExpired, RecheckStale, HoldingPlaces
<1>6. CASE PassOver(s, i) \/ Spare(s, i) \/ OrphanKept(s, i)
           \/ RemoveOrphan(s, i)
  BY <1>2, <1>3, <1>6
  DEF PassOver, Spare, OrphanKept, RemoveOrphan, NextListed
<1> QED BY <1>5, <1>6 DEF CandidateStep

LEMMA CrashExclusion ==
    ASSUME ExclusionInv, NEW q \in Processes, Crash(q)
    PROVE  LockInv' /\ CreateInv' /\ UseInv'
<1> USE PlacesApart DEF ExclusionInv
<1>1. \A p \in Callers : call'[p].at # "idle" =>
         call'[p] = call[p] /\ Home[p] # q /\ call[p].id \in Ids
  BY TypeFacts DEF Crash
<1>2. \A s \in Collectors : gc'[s].at \in HoldingPlaces =>
         gc'[s] = gc[s] /\ Home[s] # q /\ gc[s].id \in Ids
  BY TypeFacts DEF Crash
<1>3. \A i \in Ids : lock[i] # Free /\ Home[lock[i]] # q => lock'[i] = lock[i]
  BY DEF Crash
<1>4. \A t \in Threads : t # Free
  BY ThreadsAssumption
<1>5. LockInv'
  BY <1>1, <1>2, <1>3, <1>4 DEF LockInv, Threads
<1>6. UNCHANGED <<fresh, row>>
  BY DEF Crash
<1>7. CreateInv'
  BY <1>1, <1>6 DEF CreateInv
<1>8. UseInv'
  BY <1>1, <1>6 DEF UseInv
<1> QED BY <1>5, <1>7, <1>8

LEMMA TickExclusion ==
    ASSUME ExclusionInv, Tick
    PROVE  LockInv' /\ CreateInv' /\ UseInv'
<1> USE DEF ExclusionInv
<1>1. \A s \in Collectors : gc'[s].at = gc[s].at /\ gc'[s].id = gc[s].id
  BY TypeFacts DEF Tick, GcState
<1>2. UNCHANGED <<fresh, row, lock, call>>
  BY DEF Tick
<1> QED BY <1>1, <1>2 DEF LockInv, CreateInv, UseInv

LEMMA ExclusionStep == ExclusionInv /\ [Next]_vars => ExclusionInv'
<1> SUFFICES ASSUME ExclusionInv, [Next]_vars PROVE ExclusionInv'
  OBVIOUS
<1>1. TypeInv'
  BY TypeStep DEF ExclusionInv
<1>2. LockInv' /\ CreateInv' /\ UseInv'
  <2>1. CASE UNCHANGED vars
    BY <2>1 DEF vars, ExclusionInv, LockInv, CreateInv, UseInv
  <2>2. ASSUME NEW p \in Callers, CallStep(p) \/ Abandon(p)
        PROVE  LockInv' /\ CreateInv' /\ UseInv'
    BY <2>2, CreateExclusion, UseExclusion, RmExclusion DEF CallStep
  <2> QED
    BY <2>1, <2>2, RequestExclusion, CollectExclusion, CandidateExclusion,
       CrashExclusion, TickExclusion DEF Next
<1> QED BY <1>1, <1>2 DEF ExclusionInv

LEMMA ExclusionInit == Init => ExclusionInv
BY PlacesApart, TypeInit DEF Init, ExclusionInv, LockInv, CreateInv, UseInv

\* While run or get_process_logs works in a sandbox, its row is ready and no
\* other thread works on it: the discipline of lock, re-read, act, in every
\* interleaving of any number of threads and processes, and however they die.
THEOREM Exclusive == Spec => []UseIsExclusive
<1>1. ExclusionInv => UseIsExclusive
  <2> SUFFICES ASSUME ExclusionInv, NEW p \in Callers, call[p].at \in UsePlaces
               PROVE  /\ row[call[p].id] = "ready"
                      /\ \A t \in Threads \ {p} : WorksOn(t) # call[p].id
    BY DEF UseIsExclusive
  <2>1. row[call[p].id] = "ready" /\ lock[call[p].id] = p
    BY PlacesApart DEF ExclusionInv, UseInv, LockInv
  <2>2. call[p].id \in Ids
    BY PlacesApart, TypeFacts DEF ExclusionInv
  <2>3. \A t \in Threads : WorksOn(t) # NoId => lock[WorksOn(t)] = t
    BY DEF ExclusionInv, LockInv, WorksOn, WorkPlaces, Threads
  <2>4. \A t \in Threads : WorksOn(t) = call[p].id => lock[call[p].id] = t
    BY <2>2, <2>3, IdsAssumption
  <2> QED BY <2>1, <2>4
<1> QED BY <1>1, ExclusionInit, ExclusionStep, PTL DEF Spec

-----------------------------------------------------------------------------
\* Refinement of SandboxContract, from the same invariant.

LEMMA StageSame ==
    ASSUME UNCHANGED <<fresh, row>>
    PROVE  [i \in Ids |-> StageOf(i)]' = [i \in Ids |-> StageOf(i)]
BY DEF StageOf

\* Nobody enters or leaves a use.
LEMMA UsersSame ==
    ASSUME TypeInv,
           \A p \in Callers :
              /\ call'[p].at \in UsePlaces <=> call[p].at \in UsePlaces
              /\ call[p].at \in UsePlaces => call'[p].id = call[p].id
    PROVE  [i \in Ids |-> UsersOf(i)]' = [i \in Ids |-> UsersOf(i)]
BY DEF UsersOf

LEMMA UsersLeave ==
    ASSUME NEW P \in SUBSET Callers, UNCHANGED <<fresh, row>>,
           \A p \in Callers :
              IF p \in P THEN call'[p].at \notin UsePlaces
                         ELSE call'[p] = call[p]
    PROVE  Contract!ContractNext
<1>1. [i \in Ids |-> UsersOf(i)]' = [i \in Ids |-> UsersOf(i) \ P]
  BY DEF UsersOf
<1>2. \A i \in Ids : [j \in Ids |-> UsersOf(j)][i] = UsersOf(i)
  OBVIOUS
<1>3. Contract!Leave(P)
  BY <1>1, <1>2, StageSame DEF Contract!Leave
<1> QED BY <1>3 DEF Contract!ContractNext

\* Deleting a row of an issued id retires it, or changes nothing.
LEMMA RowRetires ==
    ASSUME TypeInv, NEW i \in Ids \ fresh, DeleteRow(i), UNCHANGED fresh,
           [j \in Ids |-> UsersOf(j)]' = [j \in Ids |-> UsersOf(j)],
           UsersOf(i) = {}
    PROVE  [Contract!ContractNext]_(Contract!contractVars)
<1> DEFINE stages == [j \in Ids |-> StageOf(j)]
<1>1. \A j \in Ids : row'[j] = IF j = i THEN "none" ELSE row[j]
  BY DEF DeleteRow, WriteRow, TypeInv, TypeOK
<1>2. \A j \in Ids : stages'[j] = IF j = i THEN "gone" ELSE stages[j]
  BY <1>1 DEF StageOf
<1>3. stages' = [stages EXCEPT ![i] = "gone"]
  BY <1>2
<1>4. CASE row[i] = "none"
  <2>1. stages' = stages
    BY <1>2, <1>4 DEF StageOf
  <2> QED BY <2>1 DEF Contract!contractVars
<1>5. CASE row[i] # "none"
  <2>1. stages[i] \in {"reserved", "ready"}
    BY <1>5 DEF StageOf, TypeInv, TypeOK, RowStates
  <2>2. Contract!Retire(i)
    BY <1>3, <2>1 DEF Contract!Retire, Contract!Advance
  <2> QED BY <2>2 DEF Contract!ContractNext
<1> QED BY <1>4, <1>5

\* A caller goes from one place outside a use to another.
LEMMA CallerInvisible ==
    ASSUME TypeInv, NEW p \in Callers, NEW place \in CallPlaces \ UsePlaces,
           call[p].at \notin UsePlaces, Goto(p, place) \/ Finish(p)
    PROVE  [i \in Ids |-> UsersOf(i)]' = [i \in Ids |-> UsersOf(i)]
<1>1. PICK state \in CallState :
         /\ call' = [call EXCEPT ![p] = state]
         /\ state.at = place \/ state.at = "idle"
  BY MovedState
<1>2. "idle" \notin UsePlaces
  BY DEF UsePlaces
<1>3. \A o \in Callers :
         call'[o] = IF o = p THEN state ELSE call[o]
  BY <1>1 DEF TypeInv, TypeOK
<1> QED BY <1>1, <1>2, <1>3, UsersSame

LEMMA CreateRefines ==
    ASSUME ExclusionInv, NEW p \in Callers, CreateStep(p) \/ Abandon(p)
    PROVE  [Contract!ContractNext]_(Contract!contractVars)
<1> USE PlacesApart DEF ExclusionInv
<1>1. CreatePlaces \subseteq CallPlaces \ UsePlaces
  BY DEF CallPlaces
<1>2. CASE CreateRefused(p) \/ MakeContainer(p) \/ FinishBuild(p)
           \/ BuildFails(p) \/ Cleanup(p)
  <2>1. PICK place \in CreatePlaces : Goto(p, place) \/ Finish(p)
    BY <1>2 DEF CreateRefused, MakeContainer, FinishBuild, BuildFails,
                Cleanup, WorkerRaised, CreatePlaces
  <2>2. call[p].at \in CreatePlaces /\ UNCHANGED <<fresh, row>>
    BY <1>2 DEF CreateRefused, MakeContainer, FinishBuild, BuildFails,
                Cleanup, CreatePlaces
  <2> QED
    BY <1>1, <2>1, <2>2, CallerInvisible, StageSame DEF Contract!contractVars
<1>3. CASE Abandon(p)
  <2>1. UNCHANGED <<fresh, row>> /\ call[p].at \in CreatePlaces
    BY <1>3 DEF Abandon
  <2>2. CASE Finish(p)
    BY <1>1, <2>1, <2>2, CallerInvisible, StageSame DEF Contract!contractVars
  <2>3. CASE ~Finish(p)
    <3>1. \A o \in Callers :
             call'[o].at = call[o].at /\ call'[o].id = call[o].id
      BY <1>3, <2>3, TypeFacts DEF Abandon, TypeInv, TypeOK, CallState
    <3> QED BY <2>1, <3>1, UsersSame, StageSame DEF Contract!contractVars
  <2> QED BY <2>2, <2>3
<1>4. ASSUME call[p].at \in {"failed", "made"}, Finish(p)
      PROVE  /\ [i \in Ids |-> UsersOf(i)]' = [i \in Ids |-> UsersOf(i)]
             /\ UsersOf(call[p].id) = {}
             /\ call[p].id \in Ids \ fresh
             /\ row[call[p].id] # "ready"
  <2>1. call[p].at \in CreatePlaces
    BY <1>4 DEF CreatePlaces
  <2>2. row[call[p].id] # "ready"
    BY <2>1 DEF CreateInv
  <2>3. UsersOf(call[p].id) = {}
    BY <2>2 DEF UsersOf, UseInv
  <2> QED
    BY <1>1, <1>4, <2>1, <2>2, <2>3, CallerInvisible DEF TypeInv, PlacesInv
<1>5. CASE Unreserve(p)
  BY <1>4, <1>5, RowRetires DEF Unreserve
<1>6. CASE Finalize(p)
  <2> DEFINE stages == [j \in Ids |-> StageOf(j)]
             i == call[p].id
  <2>1. /\ [j \in Ids |-> UsersOf(j)]' = [j \in Ids |-> UsersOf(j)]
        /\ i \in Ids \ fresh /\ row[i] # "ready"
    BY <1>4, <1>6 DEF Finalize
  <2>2. CASE row[i] = "none"
    <3>1. UNCHANGED <<fresh, row>>
      BY <1>6, <2>2 DEF Finalize, UpdateRow
    <3> QED BY <2>1, <3>1, StageSame DEF Contract!contractVars
  <2>3. CASE row[i] = "creating"
    <3>1. \A j \in Ids : row'[j] = IF j = i THEN "ready" ELSE row[j]
      BY <1>6, <2>3 DEF Finalize, UpdateRow, WriteRow, TypeInv, TypeOK
    <3>2. UNCHANGED fresh
      BY <1>6 DEF Finalize
    <3>3. stages' = [stages EXCEPT ![i] = "ready"]
      BY <2>1, <3>1, <3>2 DEF StageOf
    <3>4. stages[i] = "reserved"
      BY <2>1, <2>3 DEF StageOf
    <3>5. Contract!Publish(i)
      BY <2>1, <3>3, <3>4 DEF Contract!Publish, Contract!Advance
    <3> QED BY <2>1, <3>5 DEF Contract!ContractNext
  <2> QED BY <2>1, <2>2, <2>3 DEF TypeInv, TypeOK, RowStates
<1> QED BY <1>2, <1>3, <1>5, <1>6 DEF CreateStep

LEMMA RequestRefines ==
    ASSUME ExclusionInv, NEW p \in Callers, NEW i \in Ids,
           Reserve(p, i) \/ AskUse(p, i) \/ AskRm(p, i)
    PROVE  [Contract!ContractNext]_(Contract!contractVars)
<1> USE PlacesApart DEF ExclusionInv
<1>1. ASSUME NEW place \in {"reserved", "wantUse", "wantRm"},
             call[p].at = "idle", call' = [call EXCEPT ![p] = At(place, i)]
      PROVE  [j \in Ids |-> UsersOf(j)]' = [j \in Ids |-> UsersOf(j)]
  <2>1. At(place, i).at = place /\ place \notin UsePlaces
    BY DEF At, UsePlaces
  <2>2. "idle" \notin UsePlaces
    BY DEF UsePlaces
  <2>3. \A o \in Callers : call'[o] = IF o = p THEN At(place, i) ELSE call[o]
    BY <1>1 DEF TypeInv, TypeOK
  <2> QED BY <1>1, <2>1, <2>2, <2>3, UsersSame
<1>2. CASE Reserve(p, i)
  <2> DEFINE stages == [j \in Ids |-> StageOf(j)]
  <2>1. \A j \in Ids : row'[j] = IF j = i THEN "creating" ELSE row[j]
    BY <1>2 DEF Reserve, WriteRow, TypeInv, TypeOK
  <2>2. i \in fresh /\ fresh' = fresh \ {i}
    BY <1>2 DEF Reserve
  <2>3. stages' = [stages EXCEPT ![i] = "reserved"] /\ stages[i] = "unborn"
    BY <2>1, <2>2 DEF StageOf
  <2>4. [j \in Ids |-> UsersOf(j)]' = [j \in Ids |-> UsersOf(j)]
    BY <1>1, <1>2 DEF Reserve
  <2>5. Contract!Claim(i)
    BY <2>3, <2>4 DEF Contract!Claim, Contract!Advance
  <2> QED BY <2>5 DEF Contract!ContractNext
<1>3. CASE AskUse(p, i) \/ AskRm(p, i)
  BY <1>1, <1>3, StageSame DEF AskUse, AskRm, Ask, Contract!contractVars
<1> QED BY <1>2, <1>3

\* A sandbox whose lock is free, or is held by a thread that is not using it,
\* has no users.
LEMMA NoUsers ==
    ASSUME ExclusionInv, NEW i \in Ids,
           \A p \in Callers : lock[i] = p => call[p].at \notin UsePlaces
    PROVE  UsersOf(i) = {}
BY PlacesApart DEF UsersOf, ExclusionInv, LockInv

\* Leaving alone.
LEMMA CallerLeaves ==
    ASSUME TypeInv, NEW p \in Callers, Finish(p), UNCHANGED <<fresh, row>>
    PROVE  Contract!ContractNext
<1>1. \A o \in Callers :
         IF o \in {p} THEN call'[o].at \notin UsePlaces ELSE call'[o] = call[o]
  BY DEF Finish, Idle, At, UsePlaces, TypeInv, TypeOK
<1> QED BY <1>1, UsersLeave

LEMMA UseRefines ==
    ASSUME ExclusionInv, NEW p \in Callers, UseStep(p) \/ LockTimeout(p)
    PROVE  [Contract!ContractNext]_(Contract!contractVars)
<1> USE PlacesApart DEF ExclusionInv
<1>1. CASE UseFails(p) \/ Touch(p) \/ LockTimeout(p)
  <2>1. UNCHANGED <<fresh, row>>
    <3>1. CASE Touch(p)
      BY <3>1, TypeFacts DEF Touch, UpdateRow, WriteRow, TypeInv, TypeOK
    <3> QED BY <1>1, <3>1 DEF UseFails, LockTimeout
  <2> QED BY <1>1, <2>1, CallerLeaves DEF UseFails, Touch, LockTimeout
<1>2. CASE UseReturns(p)
  <2>1. /\ \A o \in Callers : o # p => call'[o] = call[o]
        /\ call'[p].at = "used" /\ call'[p].id = call[p].id
        /\ call[p].at \in UsePlaces /\ "used" \in UsePlaces
    BY <1>2, TypeFacts
    DEF UseReturns, Goto, UsePlaces, CallState, TypeInv, TypeOK
  <2>2. UNCHANGED <<fresh, row>>
    BY <1>2 DEF UseReturns
  <2> QED BY <2>1, <2>2, UsersSame, StageSame DEF Contract!contractVars
<1>3. CASE EnterUse(p)
  <2> DEFINE i == call[p].id
             users == [j \in Ids |-> UsersOf(j)]
  <2>1. UNCHANGED <<fresh, row>>
    BY <1>3 DEF EnterUse
  <2>2. CASE Finish(p)
    BY <2>1, <2>2, CallerLeaves
  <2>3. CASE row[i] = "ready" /\ Acquire(p, i) /\ Goto(p, "using")
    <3>1. i \in Ids \ fresh /\ call[p].at \notin UsePlaces
      BY <1>3 DEF EnterUse, UsePlaces, TypeInv, PlacesInv
    <3>2. UsersOf(i) = {}
      BY <2>3, <3>1, NoUsers, ThreadsAssumption DEF Acquire, Threads
    <3>3. /\ \A o \in Callers : o # p => call'[o] = call[o]
          /\ call'[p].at \in UsePlaces /\ call'[p].id = i
      BY <2>3, TypeFacts DEF Goto, UsePlaces, CallState, TypeInv, TypeOK
    <3>4. \A j \in Ids : UsersOf(j)' = IF j = i THEN {p} ELSE UsersOf(j)
      BY <3>1, <3>2, <3>3 DEF UsersOf
    <3>5. users' = [users EXCEPT ![i] = {p}] /\ users[i] = {}
      BY <3>1, <3>2, <3>4
    <3>6. [j \in Ids |-> StageOf(j)][i] = "ready"
      BY <2>3, <3>1 DEF StageOf
    <3>7. Contract!Begin(i, p)
      BY <2>1, <3>5, <3>6, StageSame DEF Contract!Begin
    <3> QED BY <3>1, <3>7 DEF Contract!ContractNext
  <2> QED BY <1>3, <2>2, <2>3 DEF EnterUse
<1> QED BY <1>1, <1>2, <1>3 DEF UseStep

LEMMA RmRefines ==
    ASSUME ExclusionInv, NEW p \in Callers, RmStep(p)
    PROVE  [Contract!ContractNext]_(Contract!contractVars)
<1> USE PlacesApart DEF ExclusionInv
<1>1. RmPlaces \subseteq CallPlaces \ UsePlaces
      /\ "wantRm" \notin UsePlaces
  BY DEF CallPlaces, UsePlaces
<1>2. CASE EnterRm(p) \/ RmConfirmed(p) \/ RmFails(p)
  <2>1. PICK place \in RmPlaces : Goto(p, place) \/ Finish(p)
    BY <1>2 DEF EnterRm, RmConfirmed, RmFails, RmPlaces
  <2>2. call[p].at \notin UsePlaces /\ UNCHANGED <<fresh, row>>
    BY <1>1, <1>2 DEF EnterRm, RmConfirmed, RmFails, RmPlaces
  <2> QED
    BY <1>1, <2>1, <2>2, CallerInvisible, StageSame DEF Contract!contractVars
<1>3. CASE RmRow(p)
  <2>1. call[p].at \in RmPlaces /\ call[p].id \in Ids \ fresh
    BY <1>3 DEF RmRow, RmPlaces, TypeInv, PlacesInv
  <2>2. lock[call[p].id] = p
    BY <2>1 DEF LockInv
  <2>3. UsersOf(call[p].id) = {}
    BY <1>1, <2>1, <2>2, NoUsers
  <2>4. [j \in Ids |-> UsersOf(j)]' = [j \in Ids |-> UsersOf(j)]
    BY <1>1, <1>3, <2>1, CallerInvisible DEF RmRow
  <2> QED BY <1>3, <2>1, <2>3, <2>4, RowRetires DEF RmRow
<1> QED BY <1>2, <1>3 DEF RmStep

LEMMA CollectorRefines ==
    ASSUME ExclusionInv, NEW s \in Collectors,
           CollectStep(s) \/ \E i \in Ids : CandidateStep(s, i)
    PROVE  [Contract!ContractNext]_(Contract!contractVars)
<1> USE PlacesApart DEF ExclusionInv
<1>1. [j \in Ids |-> UsersOf(j)]' = [j \in Ids |-> UsersOf(j)]
  <2>1. UNCHANGED call
    BY DEF CollectStep, StartSweep, Reclaim, ReclaimUnreachable, ReclaimFails,
           Forget, ListStale, DropStale, Snapshot, ListManaged, ListFails,
           EndSweep, CandidateStep, RecheckExpired, RecheckStale, Recheck,
           PassOver, Spare, OrphanKept, RemoveOrphan
  <2> QED BY <2>1, UsersSame
<1>2. CASE Forget(s) \/ DropStale(s)
  <2>1. gc[s].at \in HoldingPlaces /\ gc[s].id \in Ids
    BY <1>2, TypeFacts DEF Forget, DropStale, HoldingPlaces
  <2>2. lock[gc[s].id] = s
    BY <2>1 DEF LockInv
  <2>3. UsersOf(gc[s].id) = {}
    BY <2>1, <2>2, NoUsers, ThreadsAssumption
  <2>4. CASE gc[s].id \in fresh
    <3>1. row[gc[s].id] = "none"
      BY <2>4 DEF CreateInv
    <3>2. UNCHANGED <<fresh, row>>
      BY <1>2, <2>1, <3>1
      DEF Forget, DropStale, DeleteRow, WriteRow, TypeInv, TypeOK
    <3> QED BY <1>1, <3>2, StageSame DEF Contract!contractVars
  <2>5. CASE gc[s].id \notin fresh
    BY <1>1, <1>2, <2>1, <2>3, <2>5, RowRetires DEF Forget, DropStale
  <2> QED BY <2>4, <2>5
<1>3. CASE ~(Forget(s) \/ DropStale(s))
  <2>1. UNCHANGED <<fresh, row>>
    BY <1>3
    DEF CollectStep, StartSweep, Reclaim, ReclaimUnreachable, ReclaimFails,
        ListStale, Snapshot, ListManaged, ListFails, EndSweep, CandidateStep,
        RecheckExpired, RecheckStale, Recheck, PassOver, Spare, OrphanKept,
        RemoveOrphan
  <2> QED BY <1>1, <2>1, StageSame DEF Contract!contractVars
<1> QED BY <1>2, <1>3

LEMMA CrashRefines ==
    ASSUME ExclusionInv, NEW q \in Processes, Crash(q)
    PROVE  Contract!ContractNext
<1>1. Idle.at \notin UsePlaces
  BY PlacesApart DEF UsePlaces
<1>2. \A p \in Callers :
         IF p \in {o \in Callers : Home[o] = q}
         THEN call'[p].at \notin UsePlaces ELSE call'[p] = call[p]
  BY <1>1 DEF Crash
<1>3. UNCHANGED <<fresh, row>>
  BY DEF Crash
<1> QED BY <1>2, <1>3, UsersLeave

LEMMA RefinesStep ==
    ExclusionInv /\ [Next]_vars => [Contract!ContractNext]_(Contract!contractVars)
<1> SUFFICES ASSUME ExclusionInv, [Next]_vars
             PROVE  [Contract!ContractNext]_(Contract!contractVars)
  OBVIOUS
<1>1. CASE Tick \/ UNCHANGED vars
  <2>1. UNCHANGED <<fresh, row, call>>
    BY <1>1 DEF Tick, vars
  <2> QED BY <2>1, StageSame, UsersSame DEF Contract!contractVars, ExclusionInv
<1>2. ASSUME NEW p \in Callers, CallStep(p) \/ Abandon(p)
      PROVE  [Contract!ContractNext]_(Contract!contractVars)
  BY <1>2, CreateRefines, UseRefines, RmRefines DEF CallStep
<1> QED
  BY <1>1, <1>2, RequestRefines, CollectorRefines, CrashRefines DEF Next

LEMMA RefinesInit == Init => Contract!ContractInit
<1> SUFFICES ASSUME Init PROVE Contract!ContractInit
  OBVIOUS
<1>1. \A i \in Ids : StageOf(i) = "unborn"
  BY DEF Init, StageOf
<1>2. \A i \in Ids : UsersOf(i) = {}
  BY DEF Init, UsersOf, UsePlaces, Idle, At
<1> QED BY <1>1, <1>2 DEF Contract!ContractInit

\* The rows, locks, threads and collectors together keep the contract: an id
\* is reserved once, published at most once and never revived, used by one
\* caller at a time, and retired only while nobody uses it.
THEOREM Refines == Spec => MeetsContract
<1>1. Spec => []ExclusionInv
  BY ExclusionInit, ExclusionStep, PTL DEF Spec
<1>2. []ExclusionInv /\ [][Next]_vars
         => [][Contract!ContractNext]_(Contract!contractVars)
  BY RefinesStep, PTL
<1> QED
  BY <1>1, <1>2, RefinesInit, PTL
  DEF Spec, MeetsContract, Contract!ContractSpec
==============================================================================

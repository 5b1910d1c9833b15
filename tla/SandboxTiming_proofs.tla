--------------------------- MODULE SandboxTiming_proofs ---------------------------
(***************************************************************************)
(* Proofs of the properties of SandboxLifecycle that relate rows,          *)
(* containers and time.  Four lemmas say how one caller, one row, one      *)
(* container and one collector may change in a step; each invariant        *)
(* follows from those.                                                     *)
(***************************************************************************)
EXTENDS SandboxLifecycle_proofs

-----------------------------------------------------------------------------

\* How caller o may change.
LEMMA CallMoves ==
    ASSUME TypeInv, Next, NEW o \in Callers
    PROVE  \/ call'[o] = call[o]
           \/ call'[o].at \notin CreatePlaces
           \/ \E i \in Ids : Reserve(o, i) /\ call'[o] = At("reserved", i)
           \/ /\ call[o].at \in CreatePlaces
              /\ call'[o].id = call[o].id
              /\ ~call'[o].abandoned => ~call[o].abandoned
              /\ call'[o].at = "made" => call[o].at = "made" \/ FinishBuild(o)
<1> DEFINE Moved ==
             \/ call'[o] = call[o]
             \/ call'[o].at \notin CreatePlaces
             \/ \E i \in Ids : Reserve(o, i) /\ call'[o] = At("reserved", i)
             \/ /\ call[o].at \in CreatePlaces
                /\ call'[o].id = call[o].id
                /\ ~call'[o].abandoned => ~call[o].abandoned
                /\ call'[o].at = "made" => call[o].at = "made" \/ FinishBuild(o)
<1> USE PlacesApart, TypeFacts DEF TypeInv, TypeOK
<1>1. ASSUME NEW p \in Callers, CreateStep(p)
      PROVE  Moved
  <2>1. ASSUME NEW place \in CreatePlaces, call[p].at \in CreatePlaces,
               Goto(p, place) \/ Finish(p),
               place = "made" => FinishBuild(p)
        PROVE  Moved
    BY <2>1 DEF Goto, Finish, CallState
  <2>2. {"building", "cleanup", "failed", "made"} \subseteq CreatePlaces
        /\ "reserved" \in CreatePlaces
    BY DEF CreatePlaces
  <2> HIDE DEF Moved
  <2>3. CASE CreateRefused(p)
    BY <2>1, <2>2, <2>3 DEF CreateRefused, WorkerRaised
  <2>4. CASE MakeContainer(p)
    BY <2>1, <2>2, <2>4 DEF MakeContainer, WorkerRaised
  <2>5. CASE FinishBuild(p)
    BY <2>1, <2>2, <2>5 DEF FinishBuild
  <2>6. CASE BuildFails(p)
    BY <2>1, <2>2, <2>6 DEF BuildFails
  <2>7. CASE Cleanup(p)
    BY <2>1, <2>2, <2>7 DEF Cleanup, WorkerRaised
  <2>8. CASE Unreserve(p) \/ Finalize(p)
    BY <2>1, <2>2, <2>8 DEF Unreserve, Finalize
  <2> QED BY <1>1, <2>3, <2>4, <2>5, <2>6, <2>7, <2>8 DEF CreateStep
<1>2. ASSUME NEW p \in Callers, UseStep(p) \/ RmStep(p) \/ LockTimeout(p)
      PROVE  Moved
  <2>1. UsePlaces \cup RmPlaces \subseteq CallPlaces
        /\ RmPlaces \cap CreatePlaces = {}
    BY DEF CallPlaces, RmPlaces, CreatePlaces
  <2>2. PICK place \in UsePlaces \cup RmPlaces : Goto(p, place) \/ Finish(p)
    BY <1>2
    DEF UseStep, EnterUse, UseReturns, UseFails, Touch, RmStep, EnterRm,
        RmConfirmed, RmFails, RmRow, LockTimeout, UsePlaces, RmPlaces
  <2> QED BY <2>1, <2>2 DEF Goto, Finish, CallState
<1>3. ASSUME NEW p \in Callers, Abandon(p)
      PROVE  Moved
  BY <1>3 DEF Abandon, Finish, CallState
<1>4. ASSUME NEW p \in Callers, NEW i \in Ids,
             Reserve(p, i) \/ AskUse(p, i) \/ AskRm(p, i)
      PROVE  Moved
  <2>1. CASE Reserve(p, i)
    BY <2>1 DEF Reserve
  <2>2. CASE AskUse(p, i) \/ AskRm(p, i)
    BY <2>2 DEF AskUse, AskRm, Ask, At
  <2> QED BY <1>4, <2>1, <2>2
<1>5. ASSUME NEW s \in Collectors,
             CollectStep(s) \/ \E i \in Ids : CandidateStep(s, i)
      PROVE  UNCHANGED call
  BY <1>5
  DEF CollectStep, StartSweep, Reclaim, ReclaimUnreachable, ReclaimFails,
      Forget, ListStale, DropStale, Snapshot, ListManaged, ListFails,
      EndSweep, CandidateStep, RecheckExpired, RecheckStale, Recheck,
      PassOver, Spare, OrphanKept, RemoveOrphan
<1>6. ASSUME NEW q \in Processes, Crash(q)
      PROVE  Moved
  BY <1>6 DEF Crash
<1>7. CASE Tick
  BY <1>7 DEF Tick
<1> QED BY <1>1, <1>2, <1>3, <1>4, <1>5, <1>6, <1>7 DEF Next, CallStep

\* How the row of k may change.
LEMMA RowMoves ==
    ASSUME ExclusionInv, Next, NEW k \in Ids
    PROVE  /\ fresh' \subseteq fresh
           /\ \/ row'[k] = row[k] /\ left'[k] = left[k]
              \/ row'[k] = "none"
              \/ /\ \E p \in Callers : Reserve(p, k)
                 /\ row'[k] = "creating" /\ left'[k] = CreatingTtl
              \/ row[k] = "ready"
              \/ \E p \in Callers : Finalize(p) /\ call[p].id = k
              \/ row'[k] = row[k] /\ Tick
<1> DEFINE Moved ==
             /\ fresh' \subseteq fresh
             /\ \/ row'[k] = row[k] /\ left'[k] = left[k]
                \/ row'[k] = "none"
                \/ /\ \E p \in Callers : Reserve(p, k)
                   /\ row'[k] = "creating" /\ left'[k] = CreatingTtl
                \/ row[k] = "ready"
                \/ \E p \in Callers : Finalize(p) /\ call[p].id = k
                \/ row'[k] = row[k] /\ Tick
<1> USE TypeFacts DEF ExclusionInv, TypeInv, TypeOK
<1>1. ASSUME UNCHANGED <<fresh, row, left>> PROVE Moved
  BY <1>1
<1>2. ASSUME NEW j \in Ids, DeleteRow(j), UNCHANGED fresh PROVE Moved
  BY <1>2 DEF DeleteRow, WriteRow
<1>3. ASSUME NEW p \in Callers, Finalize(p) PROVE Moved
  BY <1>3 DEF Finalize, UpdateRow, WriteRow
<1>4. ASSUME NEW p \in Callers, Touch(p) PROVE Moved
  <2>1. row[call[p].id] = "ready" /\ call[p].id \in Ids
    BY <1>4 DEF Touch, UseInv, UsePlaces
  <2> QED BY <1>4, <2>1 DEF Touch, UpdateRow, WriteRow
<1>5. ASSUME NEW p \in Callers, NEW j \in Ids, Reserve(p, j) PROVE Moved
  BY <1>5 DEF Reserve, WriteRow
<1>6. ASSUME Tick PROVE Moved
  BY <1>6 DEF Tick
<1> HIDE DEF Moved
<1>7. ASSUME NEW p \in Callers, CallStep(p) \/ Abandon(p) PROVE Moved
  <2>1. CASE Unreserve(p)
    BY <1>2, <2>1 DEF Unreserve
  <2>2. CASE RmRow(p)
    BY <1>2, <2>2 DEF RmRow
  <2> QED
    BY <1>1, <1>3, <1>4, <1>7, <2>1, <2>2
    DEF CallStep, CreateStep, CreateRefused, MakeContainer, FinishBuild,
        BuildFails, Cleanup, UseStep, EnterUse, UseReturns, UseFails, RmStep,
        EnterRm, RmConfirmed, RmFails, LockTimeout, Abandon
<1>8. ASSUME NEW p \in Callers, NEW j \in Ids, AskUse(p, j) \/ AskRm(p, j)
      PROVE  Moved
  BY <1>1, <1>8 DEF AskUse, AskRm, Ask
<1>9. ASSUME NEW s \in Collectors,
             CollectStep(s) \/ \E j \in Ids : CandidateStep(s, j)
      PROVE  Moved
  <2>1. CASE Forget(s) \/ DropStale(s)
    <3>1. gc[s].id \in Ids
      BY <2>1 DEF Forget, DropStale, HoldingPlaces
    <3> QED BY <1>2, <2>1, <3>1 DEF Forget, DropStale
  <2> QED
    BY <1>1, <1>9, <2>1
    DEF CollectStep, StartSweep, Reclaim, ReclaimUnreachable, ReclaimFails,
        ListStale, Snapshot, ListManaged, ListFails, EndSweep, CandidateStep,
        RecheckExpired, RecheckStale, Recheck, PassOver, Spare, OrphanKept,
        RemoveOrphan
<1>10. ASSUME NEW q \in Processes, Crash(q) PROVE Moved
  BY <1>1, <1>10 DEF Crash
<1>11. Moved
  BY <1>5, <1>6, <1>7, <1>8, <1>9, <1>10 DEF Next
<1> QED BY <1>11 DEF Moved

\* How the container of k may change.
LEMMA BoxMoves ==
    ASSUME TypeInv, Next, NEW k \in Ids
    PROVE  \/ box'[k] = box[k] /\ age'[k] = age[k]
           \/ box'[k] = "none"
           \/ \E p \in Callers :
                 /\ MakeContainer(p) /\ call[p].id = k
                 /\ box'[k] = "partial" /\ age'[k] = 0
           \/ \E p \in Callers :
                 /\ FinishBuild(p) /\ call[p].id = k
                 /\ box[k] # "none"
                 /\ box'[k] = "complete" /\ age'[k] = age[k]
           \/ Tick /\ box'[k] = box[k] /\ age'[k] <= age[k] + 1
<1> DEFINE Moved ==
             \/ box'[k] = box[k] /\ age'[k] = age[k]
             \/ box'[k] = "none"
             \/ \E p \in Callers :
                   /\ MakeContainer(p) /\ call[p].id = k
                   /\ box'[k] = "partial" /\ age'[k] = 0
             \/ \E p \in Callers :
                   /\ FinishBuild(p) /\ call[p].id = k
                   /\ box[k] # "none"
                   /\ box'[k] = "complete" /\ age'[k] = age[k]
             \/ Tick /\ box'[k] = box[k] /\ age'[k] <= age[k] + 1
<1> USE TypeFacts, TimeAssumption DEF TypeInv, TypeOK
<1>1. ASSUME UNCHANGED <<box, age>> PROVE Moved
  BY <1>1
<1>2. ASSUME NEW j \in Ids, RemoveBox(j) \/ MayRemoveBox(j) PROVE Moved
  BY <1>2 DEF RemoveBox, MayRemoveBox
<1>3. ASSUME NEW p \in Callers, MakeContainer(p) PROVE Moved
  BY <1>3 DEF MakeContainer
<1>4. ASSUME NEW p \in Callers, FinishBuild(p) PROVE Moved
  BY <1>4 DEF FinishBuild
<1>5. ASSUME Tick PROVE Moved
  BY <1>5 DEF Tick
<1> HIDE DEF Moved
<1>6. ASSUME NEW p \in Callers, CallStep(p) \/ Abandon(p) PROVE Moved
  <2>1. CASE Cleanup(p) \/ RmConfirmed(p) \/ RmFails(p)
    BY <1>2, <2>1 DEF Cleanup, RmConfirmed, RmFails
  <2> QED
    BY <1>1, <1>3, <1>4, <1>6, <2>1
    DEF CallStep, CreateStep, CreateRefused, BuildFails, Unreserve, Finalize,
        UseStep, EnterUse, UseReturns, UseFails, Touch, RmStep, EnterRm,
        RmRow, LockTimeout, Abandon
<1>7. ASSUME NEW p \in Callers, NEW j \in Ids,
             Reserve(p, j) \/ AskUse(p, j) \/ AskRm(p, j)
      PROVE  Moved
  BY <1>1, <1>7 DEF Reserve, AskUse, AskRm, Ask
<1>8. ASSUME NEW s \in Collectors, CollectStep(s) PROVE Moved
  <2>1. CASE Reclaim(s) \/ ReclaimFails(s)
    <3>1. gc[s].id \in Ids
      BY <2>1 DEF Reclaim, ReclaimFails, HoldingPlaces
    <3> QED BY <1>2, <2>1, <3>1 DEF Reclaim, ReclaimFails
  <2> QED
    BY <1>1, <1>8, <2>1
    DEF CollectStep, StartSweep, ReclaimUnreachable, Forget, ListStale,
        DropStale, Snapshot, ListManaged, ListFails, EndSweep
<1>9. ASSUME NEW s \in Collectors, NEW j \in Ids, CandidateStep(s, j)
      PROVE  Moved
  BY <1>1, <1>2, <1>9
  DEF CandidateStep, RecheckExpired, RecheckStale, Recheck, PassOver, Spare,
      OrphanKept, RemoveOrphan
<1>10. ASSUME NEW q \in Processes, Crash(q) PROVE Moved
  BY <1>1, <1>10 DEF Crash
<1>11. Moved
  BY <1>5, <1>6, <1>7, <1>8, <1>9, <1>10 DEF Next
<1> QED BY <1>11 DEF Moved

\* How collector s may change, time aside, as far as its engine sweep and the
\* dropping of reservations go.
LEMMA GcMoves ==
    ASSUME TypeInv, Next, ~Tick, NEW s \in Collectors
    PROVE  \/ gc'[s] = gc[s]
           \/ gc'[s].at \notin EnginePlaces \cup {"dropping"}
           \/ /\ gc'[s].at = "listing" /\ gc'[s].since = 0
              /\ gc'[s].known = {i \in Ids : row[i] # "none"}
              /\ UNCHANGED <<row, box, age>>
           \/ /\ gc'[s].at = "dropping"
              /\ StaleReservation(gc'[s].id)
              /\ gc'[s].id \in Ids
              /\ UNCHANGED <<row, left, call>>
           \/ /\ gc[s].at \in EnginePlaces /\ gc'[s].at \in EnginePlaces
              /\ gc'[s].known = gc[s].known /\ gc'[s].since = gc[s].since
<1> DEFINE Moved ==
             \/ gc'[s] = gc[s]
             \/ gc'[s].at \notin EnginePlaces \cup {"dropping"}
             \/ /\ gc'[s].at = "listing" /\ gc'[s].since = 0
                /\ gc'[s].known = {i \in Ids : row[i] # "none"}
                /\ UNCHANGED <<row, box, age>>
             \/ /\ gc'[s].at = "dropping"
                /\ StaleReservation(gc'[s].id)
                /\ gc'[s].id \in Ids
                /\ UNCHANGED <<row, left, call>>
             \/ /\ gc[s].at \in EnginePlaces /\ gc'[s].at \in EnginePlaces
                /\ gc'[s].known = gc[s].known /\ gc'[s].since = gc[s].since
<1> USE TypeFacts, PlacesApart DEF TypeInv, TypeOK
<1>1. ASSUME UNCHANGED gc PROVE Moved
  BY <1>1
<1>2. ASSUME NEW t \in Collectors, NEW place \in GcPlaces,
             NEW i \in Ids \cup {NoId}, Move(t, place, i),
             place \notin EnginePlaces \cup {"dropping"}
      PROVE  Moved
  BY <1>2 DEF Move, GcState
<1>3. ASSUME NEW t \in Collectors, NEW i \in Ids, Strike(t, i)
      PROVE  \/ gc'[s] = gc[s]
             \/ /\ s = t
                /\ gc'[s].at = gc[s].at /\ gc'[s].id = gc[s].id
                /\ gc'[s].known = gc[s].known /\ gc'[s].since = gc[s].since
  BY <1>3 DEF Strike, GcState
<1>4. ASSUME NEW t \in Collectors, NEW pass \in GcPlaces,
             NEW todo \in SUBSET Ids, NEW known \in SUBSET Ids,
             StartPass(t, pass, todo, known)
      PROVE  \/ gc'[s] = gc[s]
             \/ /\ s = t
                /\ gc'[s].at = pass /\ gc'[s].known = known
                /\ gc'[s].since = 0
  BY <1>4 DEF StartPass, Asleep
<1>5. {"asleep", "expired", "stale", "forgetting", "listing"} \subseteq GcPlaces
      /\ {"asleep", "expired", "stale", "forgetting", "reclaiming"}
            \cap (EnginePlaces \cup {"dropping"}) = {}
      /\ {"listing", "sweeping"} = EnginePlaces
  BY DEF GcPlaces, EnginePlaces, HoldingPlaces
<1>6. ASSUME NEW t \in Collectors, CollectStep(t)
      PROVE  Moved
  <2>1. CASE StartSweep(t) \/ ListStale(t)
    <3>1. gc'[s] = gc[s] \/ gc'[s].at \in {"expired", "stale"}
      BY <1>4, <1>5, <2>1 DEF StartSweep, ListStale
    <3> QED BY <1>5, <3>1
  <2>2. CASE Snapshot(t)
    <3>1. UNCHANGED <<row, box, age>>
      BY <2>2 DEF Snapshot
    <3>2. \/ gc'[s] = gc[s]
          \/ /\ gc'[s].at = "listing" /\ gc'[s].since = 0
             /\ gc'[s].known = {i \in Ids : row[i] # "none"}
      BY <1>4, <1>5, <2>2 DEF Snapshot
    <3> QED BY <3>1, <3>2
  <2>3. CASE ListManaged(t)
    <3>1. /\ gc[t].at = "listing" /\ gc[t] \in GcState
          /\ gc' = [gc EXCEPT ![t] = [gc[t] EXCEPT
                 !.at = "sweeping", !.todo = {i \in Ids : box[i] # "none"}]]
      BY <2>3 DEF ListManaged
    <3>2. \/ gc'[s] = gc[s]
          \/ /\ s = t
             /\ gc'[s].at = "sweeping"
             /\ gc'[s].known = gc[s].known /\ gc'[s].since = gc[s].since
      BY <3>1 DEF GcState
    <3> QED BY <1>5, <3>1, <3>2
  <2>4. CASE ListFails(t) \/ EndSweep(t)
    <3>1. gc'[s] = gc[s] \/ gc'[s].at = "asleep"
      BY <2>4 DEF ListFails, EndSweep, Asleep
    <3> QED BY <1>5, <3>1
  <2>5. CASE Reclaim(t) \/ ReclaimFails(t)
    <3>1. gc[t].id \in Ids
      BY <2>5 DEF Reclaim, ReclaimFails, HoldingPlaces
    <3>2. Move(t, "forgetting", gc[t].id)
      BY <2>5 DEF Reclaim, ReclaimFails
    <3> QED BY <1>2, <1>5, <3>1, <3>2
  <2>6. CASE ReclaimUnreachable(t) \/ Forget(t) \/ DropStale(t)
    <3>1. Move(t, "expired", NoId) \/ Move(t, "stale", NoId)
      BY <2>6 DEF ReclaimUnreachable, Forget, DropStale
    <3> QED BY <1>2, <1>5, <3>1
  <2> QED
    BY <1>6, <2>1, <2>2, <2>3, <2>4, <2>5, <2>6 DEF CollectStep
<1>7. ASSUME NEW t \in Collectors, NEW i \in Ids, CandidateStep(t, i)
      PROVE  Moved
  <2>1. CASE Strike(t, i) /\ gc[t].at \in {"expired", "stale", "sweeping"}
    BY <1>3, <1>5, <2>1
  <2>2. ASSUME NEW place \in {"reclaiming", "dropping"},
               gc' = [gc EXCEPT ![t] = [@ EXCEPT
                         !.at = place, !.id = i, !.todo = gc[t].todo \ {i}]],
               place = "dropping" =>
                  StaleReservation(i) /\ UNCHANGED <<row, left, call>>
        PROVE  Moved
    <3>1. \/ gc'[s] = gc[s]
          \/ s = t /\ gc'[s].at = place /\ gc'[s].id = i
      BY <2>2 DEF GcState
    <3> QED BY <1>5, <2>2, <3>1
  <2>3. CASE RecheckExpired(t, i)
    BY <2>1, <2>2, <2>3 DEF RecheckExpired, Recheck
  <2>4. CASE RecheckStale(t, i)
    BY <2>1, <2>2, <2>4 DEF RecheckStale, Recheck
  <2>5. CASE PassOver(t, i) \/ Spare(t, i) \/ OrphanKept(t, i)
             \/ RemoveOrphan(t, i)
    BY <2>1, <2>5 DEF PassOver, Spare, OrphanKept, RemoveOrphan, NextListed
  <2> QED BY <1>7, <2>3, <2>4, <2>5 DEF CandidateStep
<1>8. ASSUME NEW q \in Processes, Crash(q)
      PROVE  Moved
  <2>1. gc'[s] = gc[s] \/ gc'[s].at = "asleep"
    BY <1>8 DEF Crash, Asleep
  <2> QED BY <1>5, <2>1
<1>9. ASSUME NEW p \in Callers, CallStep(p) \/ Abandon(p)
      PROVE  UNCHANGED gc
  BY <1>9
  DEF CallStep, CreateStep, CreateRefused, MakeContainer, FinishBuild,
      BuildFails, Cleanup, Unreserve, Finalize, UseStep, EnterUse, UseReturns,
      UseFails, Touch, RmStep, EnterRm, RmConfirmed, RmFails, RmRow,
      LockTimeout, Abandon
<1>10. ASSUME NEW p \in Callers, NEW i \in Ids,
              Reserve(p, i) \/ AskUse(p, i) \/ AskRm(p, i)
       PROVE  UNCHANGED gc
  BY <1>10 DEF Reserve, AskUse, AskRm, Ask
<1> HIDE DEF Moved
<1>11. Moved
  BY <1>1, <1>6, <1>7, <1>8, <1>9, <1>10 DEF Next
<1> QED BY <1>11 DEF Moved

-----------------------------------------------------------------------------
\* A ready row means a finished container.

\* An id not issued has no container, and a create that is about to publish
\* has left no half-made one behind.
BuiltInv ==
    /\ \A i \in fresh : box[i] = "none"
    /\ ReadyIsComplete
    /\ \A p \in Callers : call[p].at = "made" => box[call[p].id] # "partial"

LEMMA BuiltStep ==
    ASSUME ExclusionInv, BuiltInv, [Next]_vars
    PROVE  BuiltInv'
<1> USE PlacesApart, TypeFacts DEF ExclusionInv
<1>1. CASE UNCHANGED vars
  BY <1>1 DEF vars, BuiltInv, ReadyIsComplete
<1>2. CASE Next
  <2> USE <1>2
  <2>0. {"building", "reserved", "made"} \subseteq CreatePlaces
    BY DEF CreatePlaces
  <2>1. ASSUME NEW i \in fresh' PROVE box'[i] = "none"
    <3>0. i \in Ids
      BY <2>1, TypeStep DEF TypeInv, TypeOK
    <3>1. i \in fresh /\ i \in Ids
      BY <2>1, <3>0, RowMoves
    <3>2. \A p \in Callers : MakeContainer(p) \/ FinishBuild(p) => call[p].id # i
      BY <3>1 DEF MakeContainer, FinishBuild, TypeInv, PlacesInv
    <3> QED BY <3>1, <3>2, BoxMoves DEF BuiltInv
  <2>2. ASSUME NEW i \in Ids, row'[i] = "ready" PROVE box'[i] # "partial"
    <3>1. CASE row[i] = "ready"
      <4>1. \A p \in Callers : MakeContainer(p) => call[p].id # i
        BY <2>0, <3>1 DEF MakeContainer, CreateInv
      <4> QED BY <3>1, <4>1, BoxMoves DEF BuiltInv, ReadyIsComplete
    <3>2. CASE row[i] # "ready"
      <4>1. PICK p \in Callers : Finalize(p) /\ call[p].id = i
        BY <2>2, <3>2, RowMoves
      <4>2. box[i] # "partial" /\ box' = box
        BY <4>1 DEF Finalize, BuiltInv
      <4> QED BY <4>2
    <3> QED BY <3>1, <3>2
  <2>3. ASSUME NEW p \in Callers, call'[p].at = "made"
        PROVE  box'[call'[p].id] # "partial"
    <3>1. At("reserved", NoId).at # "made"
          /\ \A i \in Ids : At("reserved", i).at # "made"
      BY DEF At
    <3>2. /\ call[p].at \in CreatePlaces /\ call'[p].id = call[p].id
          /\ call[p].at = "made" \/ FinishBuild(p)
      BY <2>0, <2>3, <3>1, CallMoves
    <3>3. call[p].id \in Ids
      BY <3>2
    <3>4. CASE FinishBuild(p)
      BY <3>2, <3>3, <3>4 DEF FinishBuild, TypeInv, TypeOK
    <3>5. CASE call[p].at = "made"
      <4>1. \A o \in Callers : MakeContainer(o) => call[o].id # call[p].id
        BY <2>0, <3>5 DEF MakeContainer, CreateInv
      <4>2. box[call[p].id] # "partial"
        BY <3>5 DEF BuiltInv
      <4> QED BY <3>2, <3>3, <4>1, <4>2, BoxMoves
    <3> QED BY <3>2, <3>4, <3>5
  <2> QED BY <2>1, <2>2, <2>3 DEF BuiltInv, ReadyIsComplete
<1> QED BY <1>1, <1>2

\* create() never leaves a half-configured container behind a ready row,
\* whichever of its steps failed, was cancelled or died.
THEOREM ReadyComplete == Spec => []ReadyIsComplete
<1>1. Init => BuiltInv
  BY PlacesApart DEF Init, BuiltInv, ReadyIsComplete, Idle, At
<1>2. BuiltInv => ReadyIsComplete
  BY DEF BuiltInv
<1>3. ExclusionInv /\ BuiltInv /\ [Next]_vars => ExclusionInv' /\ BuiltInv'
  BY BuiltStep, ExclusionStep
<1> QED BY <1>1, <1>2, <1>3, ExclusionInit, PTL DEF Spec

-----------------------------------------------------------------------------
\* The sweep.  Whatever a snapshot does not know and is on file now was
\* reserved after it, so its container is no older than the snapshot.

SweepInv ==
    \A s \in Collectors : gc[s].at \in EnginePlaces =>
        /\ gc[s].since < Grace
        /\ \A i \in Ids :
              i \notin gc[s].known /\ row[i] # "none" =>
                 box[i] = "none" \/ age[i] <= gc[s].since

LEMMA SweepStep ==
    ASSUME TimelySweeps, ExclusionInv, BuiltInv, SweepInv, [Next]_vars
    PROVE  SweepInv'
<1> USE PlacesApart, TypeFacts, TimeAssumption DEF ExclusionInv
<1>1. CASE UNCHANGED vars
  BY <1>1 DEF vars, SweepInv
<1>2. CASE Next
  <2> SUFFICES ASSUME NEW s \in Collectors, gc'[s].at \in EnginePlaces
               PROVE  /\ gc'[s].since < Grace
                      /\ \A i \in Ids :
                            i \notin gc'[s].known /\ row'[i] # "none" =>
                               box'[i] = "none" \/ age'[i] <= gc'[s].since
    BY DEF SweepInv
  <2> USE <1>2
  <2>1. gc[s].since \in 0..Grace /\ gc[s] \in GcState
    BY DEF GcState
  <2>2. CASE Tick
    <3>1. gc[s].at \in EnginePlaces /\ gc[s].since + 1 < Grace
          /\ gc'[s].since = gc[s].since + 1 /\ gc'[s].known = gc[s].known
      BY <2>1, <2>2 DEF Tick, SweepsOnTime, GcState
    <3>2. \A i \in Ids :
             /\ age[i] \in Nat /\ age'[i] \in Nat
             /\ age'[i] <= age[i] + 1
      BY <2>2 DEF Tick, TypeInv, TypeOK
    <3>3. UNCHANGED <<row, box>>
      BY <2>2 DEF Tick
    <3>4. ASSUME NEW i \in Ids, i \notin gc'[s].known, row'[i] # "none"
          PROVE  box'[i] = "none" \/ age'[i] <= gc'[s].since
      <4>1. box[i] = "none" \/ age[i] <= gc[s].since
        BY <3>1, <3>3, <3>4 DEF SweepInv
      <4> QED BY <2>1, <3>1, <3>2, <3>3, <4>1
    <3>5. gc'[s].since < Grace
      BY <3>1
    <3> QED BY <3>4, <3>5
  <2>3. CASE ~Tick
    <3>1. CASE /\ gc'[s].since = 0
               /\ gc'[s].known = {i \in Ids : row[i] # "none"}
               /\ UNCHANGED <<row, box, age>>
      BY <3>1
    <3>2. CASE /\ gc[s].at \in EnginePlaces
               /\ gc'[s].known = gc[s].known /\ gc'[s].since = gc[s].since
      <4>1. gc'[s].since < Grace
        BY <3>2 DEF SweepInv
      <4>2. ASSUME NEW i \in Ids, i \notin gc'[s].known, row'[i] # "none"
            PROVE  box'[i] = "none" \/ age'[i] <= gc'[s].since
        <5>1. CASE row[i] = "none"
          <6>1. PICK p \in Callers : Reserve(p, i)
            <7>1. \A p \in Callers : Finalize(p) /\ call[p].id = i
                     => row'[i] = row[i]
              BY <5>1 DEF Finalize, UpdateRow
            <7> QED BY <2>3, <4>2, <5>1, <7>1, RowMoves
          <6>2. box'[i] = "none"
            BY <6>1 DEF Reserve, BuiltInv
          <6> QED BY <6>2
        <5>2. CASE row[i] # "none"
          <6>1. box[i] = "none" \/ age[i] <= gc[s].since
            BY <3>2, <4>2, <5>2 DEF SweepInv
          <6> QED BY <2>1, <2>3, <3>2, <6>1, BoxMoves
        <5> QED BY <5>1, <5>2
      <4> QED BY <4>1, <4>2
    <3>3. "dropping" \notin EnginePlaces
      BY DEF EnginePlaces
    <3> QED BY <2>3, <3>1, <3>2, <3>3, GcMoves
  <2> QED BY <2>2, <2>3
<1> QED BY <1>1, <1>2

\* If a sweep ends within the grace period, no collector removes the container
\* of an id that is on file, though it goes by an old list of ids.
THEOREM SweepSafe == TimelySweeps => (Spec => []SweepSparesRegistered)
<1> SUFFICES ASSUME TimelySweeps PROVE Spec => []SweepSparesRegistered
  OBVIOUS
<1> DEFINE Inv == ExclusionInv /\ BuiltInv /\ SweepInv
<1>1. Init => Inv
  <2>1. Init => BuiltInv
    BY PlacesApart DEF Init, BuiltInv, ReadyIsComplete, Idle, At
  <2>2. Init => SweepInv
    BY DEF Init, SweepInv, Asleep, EnginePlaces
  <2> QED BY <2>1, <2>2, ExclusionInit
<1>2. Inv /\ [Next]_vars => Inv'
  BY ExclusionStep, BuiltStep, SweepStep
<1>3. Inv => SweepSparesRegistered
  <2> SUFFICES ASSUME Inv, NEW s \in Collectors, NEW i \in Ids, Doomed(s, i)
               PROVE  row[i] = "none"
    BY DEF SweepSparesRegistered
  <2>1. gc[s].since \in 0..Grace /\ age[i] \in 0..Grace
    BY TypeFacts DEF ExclusionInv, GcState, TypeInv, TypeOK
  <2> QED
    BY <2>1, TimeAssumption
    DEF Doomed, Spared, TooYoung, SweepInv, EnginePlaces
<1> HIDE DEF Inv
<1> QED BY <1>1, <1>2, <1>3, PTL DEF Spec

-----------------------------------------------------------------------------
\* Reservations.

\* A create somebody waits for has not outlived its reservation.
DeadlineInv ==
    \A i \in Ids : InFlight(i) /\ row[i] # "none" => left[i] > 0

\* A collector drops only ids that were issued and that nobody waits for.
DropInv ==
    \A s \in Collectors, i \in Ids :
        gc[s].at = "dropping" /\ gc[s].id = i => i \notin fresh /\ ~InFlight(i)

LEMMA InFlightMoves ==
    ASSUME ExclusionInv, Next, NEW i \in Ids, InFlight(i)'
    PROVE  InFlight(i) \/ \E p \in Callers : Reserve(p, i)
<1> USE PlacesApart, TypeFacts DEF ExclusionInv
<1>1. PICK p \in Callers :
         call'[p].at \in CreatePlaces /\ call'[p].id = i /\ ~call'[p].abandoned
  BY DEF InFlight
<1>2. \A j \in Ids : At("reserved", j).id = j
  BY DEF At
<1> QED BY <1>1, <1>2, CallMoves DEF InFlight

LEMMA DeadlineStep ==
    ASSUME TimelyCreates, ExclusionInv, DeadlineInv, [Next]_vars
    PROVE  DeadlineInv'
<1> USE PlacesApart, TypeFacts, TimeAssumption DEF ExclusionInv
<1>1. CASE UNCHANGED vars
  BY <1>1 DEF vars, DeadlineInv, InFlight
<1>2. CASE Next
  <2> SUFFICES ASSUME NEW i \in Ids, InFlight(i)', row'[i] # "none"
               PROVE  left'[i] > 0
    BY DEF DeadlineInv
  <2> USE <1>2
  <2>1. CASE \E p \in Callers : Reserve(p, i)
    BY <2>1 DEF Reserve, WriteRow, TypeInv, TypeOK
  <2>2. CASE InFlight(i) /\ ~\E p \in Callers : Reserve(p, i)
    <3>1. row[i] # "ready"
      BY <2>2 DEF InFlight, CreateInv
    <3>2. ASSUME NEW p \in Callers, Finalize(p), call[p].id = i
          PROVE  FALSE
      <4>1. PICK o \in Callers : call'[o].at \in CreatePlaces /\ call'[o].id = i
        BY DEF InFlight
      <4>2. o # p /\ call'[o] = call[o]
        BY <3>2, <4>1 DEF Finalize, Finish, TypeInv, TypeOK
      <4>3. call[p].at \in CreatePlaces
        BY <3>2 DEF Finalize, CreatePlaces
      <4> QED BY <3>2, <4>1, <4>2, <4>3 DEF CreateInv
    <3>3. CASE Tick
      <4>1. InFlight(i) /\ row[i] # "none" /\ left[i] \in Nat
        BY <2>2, <3>3 DEF Tick, TypeInv, TypeOK
      <4>2. left[i] > 1
        BY <3>3, <4>1 DEF Tick, CreatesOnTime
      <4> QED BY <3>3, <4>1, <4>2 DEF Tick
    <3>4. CASE row'[i] = row[i] /\ left'[i] = left[i]
      BY <2>2, <3>4 DEF DeadlineInv
    <3> QED BY <2>2, <3>1, <3>2, <3>3, <3>4, RowMoves
  <2> QED BY <2>1, <2>2, InFlightMoves
<1> QED BY <1>1, <1>2

LEMMA DropStep ==
    ASSUME TimelyCreates, ExclusionInv, DeadlineInv, DropInv, [Next]_vars
    PROVE  DropInv'
<1> USE PlacesApart, TypeFacts DEF ExclusionInv
<1>1. CASE UNCHANGED vars
  BY <1>1 DEF vars, DropInv, InFlight
<1>2. CASE Next
  <2> SUFFICES ASSUME NEW s \in Collectors, NEW i \in Ids,
                      gc'[s].at = "dropping", gc'[s].id = i
               PROVE  i \notin fresh' /\ ~InFlight(i)'
    BY DEF DropInv
  <2> USE <1>2
  <2>1. i \notin fresh /\ ~InFlight(i) => i \notin fresh' /\ ~InFlight(i)'
    BY RowMoves, InFlightMoves DEF Reserve
  <2>2. CASE gc'[s].at = gc[s].at /\ gc'[s].id = gc[s].id
    BY <2>1, <2>2 DEF DropInv
  <2>3. CASE StaleReservation(i) /\ UNCHANGED <<row, left, call>>
    <3>1. row[i] = "creating" /\ left[i] = 0
      BY <2>3 DEF StaleReservation, Expired
    <3>2. i \notin fresh
      BY <3>1 DEF CreateInv
    <3>3. ~InFlight(i)
      BY <3>1 DEF DeadlineInv
    <3> QED BY <2>1, <3>2, <3>3
  <2>4. CASE Tick
    BY <2>2, <2>4 DEF Tick, GcState
  <2>5. CASE ~Tick
    <3>1. "dropping" \notin EnginePlaces
      BY DEF EnginePlaces
    <3> QED BY <2>2, <2>3, <2>5, <3>1, GcMoves
  <2> QED BY <2>4, <2>5
<1> QED BY <1>1, <1>2

\* If a create ends before its reservation expires, the collector never drops
\* the reservation of a create somebody waits for, whose row finalize() would
\* then look for in vain.
THEOREM ReservationSafe == TimelyCreates => (Spec => []ReservationOutlivesCreate)
<1> SUFFICES ASSUME TimelyCreates PROVE Spec => []ReservationOutlivesCreate
  OBVIOUS
<1> DEFINE Inv == ExclusionInv /\ DeadlineInv /\ DropInv
<1>1. Init => Inv
  <2>1. Init => DeadlineInv /\ DropInv
    BY DEF Init, DeadlineInv, DropInv, Asleep
  <2> QED BY <2>1, ExclusionInit
<1>2. Inv /\ [Next]_vars => Inv'
  BY ExclusionStep, DeadlineStep, DropStep
<1>3. Inv => ReservationOutlivesCreate
  <2>1. ExclusionInv =>
           \A s \in Collectors : gc[s].at = "dropping" => gc[s].id \in Ids
    BY TypeFacts DEF ExclusionInv, HoldingPlaces
  <2> QED BY <2>1 DEF DropInv, ReservationOutlivesCreate
<1> HIDE DEF Inv
<1> QED BY <1>1, <1>2, <1>3, PTL DEF Spec

-----------------------------------------------------------------------------
\* Expiry.

Sparing == {"reclaiming", "forgetting"}

\* The row of a sandbox a collector is about to remove is written by nobody
\* else: who writes rows holds the lock, or has a create's row that is not
\* ready, or an id that was never issued.
LEMMA HeldRow ==
    ASSUME ExclusionInv, Next, NEW s \in Collectors, gc[s].at \in Sparing,
           ExpiredReady(gc[s].id), ~Forget(s)
    PROVE  row'[gc[s].id] = "ready" /\ left'[gc[s].id] = 0
<1> DEFINE k == gc[s].id
           Kept == row'[k] = "ready" /\ left'[k] = 0
<1> USE TypeFacts, PlacesApart, ThreadsAssumption
    DEF ExclusionInv, TypeInv, TypeOK, Threads
<1>1. /\ k \in Ids /\ lock[k] = s
      /\ row[k] = "ready" /\ left[k] = 0
  BY DEF Sparing, HoldingPlaces, LockInv, ExpiredReady, Expired
<1>2. /\ k \notin fresh
      /\ \A p \in Callers : call[p].at \in CreatePlaces \cup WorkPlaces
            => call[p].id # k
  BY <1>1 DEF CreateInv, LockInv
<1>3. \A t \in Collectors : gc[t].at \in HoldingPlaces /\ t # s => gc[t].id # k
  BY <1>1 DEF LockInv
<1> HIDE DEF k
<1>4. ASSUME UNCHANGED <<row, left>> PROVE Kept
  BY <1>1, <1>4
<1>5. ASSUME NEW j \in Ids, j # k, NEW state, NEW ttl,
             WriteRow(j, state, ttl) \/ UpdateRow(j, state, ttl)
      PROVE  Kept
  BY <1>1, <1>5 DEF WriteRow, UpdateRow
<1>6. ASSUME Tick PROVE Kept
  BY <1>1, <1>6 DEF Tick
<1> HIDE DEF Kept
<1>7. ASSUME NEW p \in Callers, CallStep(p) \/ Abandon(p) PROVE Kept
  <2>1. {"failed", "made"} \subseteq CreatePlaces
        /\ {"used", "confirmed", "unreferenced"} \subseteq WorkPlaces
    BY DEF CreatePlaces, WorkPlaces, UsePlaces, RmPlaces
  <2>2. CASE Unreserve(p) \/ Finalize(p)
    BY <1>2, <1>5, <2>1, <2>2 DEF Unreserve, Finalize, DeleteRow
  <2>3. CASE Touch(p) \/ RmRow(p)
    BY <1>2, <1>5, <2>1, <2>3 DEF Touch, RmRow, DeleteRow
  <2> QED
    BY <1>4, <1>7, <2>2, <2>3
    DEF CallStep, CreateStep, CreateRefused, MakeContainer, FinishBuild,
        BuildFails, Cleanup, UseStep, EnterUse, UseReturns, UseFails, RmStep,
        EnterRm, RmConfirmed, RmFails, LockTimeout, Abandon
<1>8. ASSUME NEW p \in Callers, NEW j \in Ids,
             Reserve(p, j) \/ AskUse(p, j) \/ AskRm(p, j)
      PROVE  Kept
  <2>1. CASE Reserve(p, j)
    BY <1>2, <1>5, <2>1 DEF Reserve
  <2> QED BY <1>4, <1>8, <2>1 DEF AskUse, AskRm, Ask
<1>9. ASSUME NEW t \in Collectors,
             CollectStep(t) \/ \E j \in Ids : CandidateStep(t, j)
      PROVE  Kept
  <2>1. CASE Forget(t) \/ DropStale(t)
    <3>1. gc[t].at \in HoldingPlaces /\ t # s
      BY <2>1 DEF Forget, DropStale, HoldingPlaces, Sparing
    <3> QED BY <1>3, <1>5, <2>1, <3>1 DEF Forget, DropStale, DeleteRow
  <2> QED
    BY <1>4, <1>9, <2>1
    DEF CollectStep, StartSweep, Reclaim, ReclaimUnreachable, ReclaimFails,
        ListStale, Snapshot, ListManaged, ListFails, EndSweep, CandidateStep,
        RecheckExpired, RecheckStale, Recheck, PassOver, Spare, OrphanKept,
        RemoveOrphan
<1>10. ASSUME NEW q \in Processes, Crash(q) PROVE Kept
  BY <1>4, <1>10 DEF Crash
<1>11. Kept
  BY <1>6, <1>7, <1>8, <1>9, <1>10 DEF Next
<1> QED BY <1>11 DEF Kept, k

\* A collector comes to a sandbox through the re-check under its lock, and
\* deletes the row of the one it removed.
LEMMA SpareMoves ==
    ASSUME TypeInv, Next, NEW s \in Collectors, gc'[s].at \in Sparing
    PROVE  \/ /\ gc[s].at \in Sparing /\ gc'[s].id = gc[s].id
              /\ ~Forget(s)
           \/ ExpiredReady(gc'[s].id) /\ UNCHANGED <<row, left>>
<1> DEFINE Moved ==
             \/ gc'[s].at \notin Sparing
             \/ /\ gc[s].at \in Sparing /\ gc'[s].id = gc[s].id
                /\ ~Forget(s)
             \/ ExpiredReady(gc'[s].id) /\ UNCHANGED <<row, left>>
<1> USE TypeFacts DEF TypeInv, TypeOK
<1>1. ASSUME gc'[s].at = gc[s].at, gc'[s].id = gc[s].id PROVE Moved
  <2>1. gc'[s].at \in Sparing => ~Forget(s)
    <3>1. Forget(s) => gc'[s].at = "expired"
      BY DEF Forget, Move, GcState
    <3> QED BY <3>1 DEF Sparing
  <2> QED BY <1>1, <2>1
<1>2. "asleep" \notin Sparing /\ "expired" \notin Sparing
      /\ "stale" \notin Sparing /\ "listing" \notin Sparing
      /\ "sweeping" \notin Sparing /\ "dropping" \notin Sparing
  BY DEF Sparing
<1>3. ASSUME NEW t \in Collectors, CollectStep(t) PROVE Moved
  <2>1. CASE s # t
    <3>1. gc'[s] = gc[s]
      BY <1>3, <2>1
      DEF CollectStep, StartSweep, Reclaim, ReclaimUnreachable, ReclaimFails,
          Forget, ListStale, DropStale, Snapshot, ListManaged, ListFails,
          EndSweep, StartPass, Move
    <3> QED BY <1>1, <3>1
  <2>2. CASE s = t /\ (Reclaim(t) \/ ReclaimFails(t))
    <3>1. gc[s].at = "reclaiming" /\ gc'[s].id = gc[s].id
      BY <2>2 DEF Reclaim, ReclaimFails, Move, GcState
    <3> QED BY <3>1 DEF Sparing, Forget
  <2>3. CASE s = t /\ ~(Reclaim(t) \/ ReclaimFails(t))
    <3> DEFINE elsewhere ==
                 {"asleep", "expired", "stale", "listing", "sweeping"}
    <3>1. CASE StartSweep(s) \/ ListStale(s) \/ Snapshot(s)
      <4>1. gc'[s].at \in elsewhere
        BY <3>1 DEF StartSweep, ListStale, Snapshot, StartPass, Asleep
      <4> QED BY <1>2, <4>1
    <3>2. CASE ReclaimUnreachable(s) \/ Forget(s) \/ DropStale(s)
      <4>1. gc'[s].at \in elsewhere
        BY <3>2 DEF ReclaimUnreachable, Forget, DropStale, Move, GcState
      <4> QED BY <1>2, <4>1
    <3>3. CASE ListManaged(s)
      <4>1. gc'[s].at \in elsewhere
        BY <3>3 DEF ListManaged, GcState
      <4> QED BY <1>2, <4>1
    <3>4. CASE ListFails(s) \/ EndSweep(s)
      <4>1. gc'[s].at \in elsewhere
        BY <3>4 DEF ListFails, EndSweep, Asleep
      <4> QED BY <1>2, <4>1
    <3> HIDE DEF Moved
    <3> QED BY <1>3, <2>3, <3>1, <3>2, <3>3, <3>4 DEF CollectStep
  <2> QED BY <2>1, <2>2, <2>3
<1>4. ASSUME NEW t \in Collectors, NEW i \in Ids, CandidateStep(t, i)
      PROVE  Moved
  <2>1. ASSUME Strike(t, i) PROVE Moved
    <3>1. gc'[s].at = gc[s].at /\ gc'[s].id = gc[s].id
      BY <2>1 DEF Strike, GcState
    <3> QED BY <1>1, <3>1
  <2>2. ASSUME NEW place \in {"reclaiming", "dropping"},
               gc' = [gc EXCEPT ![t] = [@ EXCEPT
                         !.at = place, !.id = i, !.todo = gc[t].todo \ {i}]],
               place = "reclaiming" =>
                  ExpiredReady(i) /\ UNCHANGED <<row, left>>
        PROVE  Moved
    <3>1. \/ gc'[s] = gc[s]
          \/ gc'[s].at = place /\ gc'[s].id = i
      BY <2>2 DEF GcState
    <3>2. CASE gc'[s] = gc[s]
      BY <1>1, <3>2
    <3>3. CASE gc'[s].at = place /\ gc'[s].id = i
      BY <1>2, <2>2, <3>3
    <3> QED BY <3>1, <3>2, <3>3
  <2> HIDE DEF Moved
  <2>3. CASE RecheckExpired(t, i)
    BY <2>1, <2>2, <2>3 DEF RecheckExpired, Recheck
  <2>4. CASE RecheckStale(t, i)
    BY <2>1, <2>2, <2>4 DEF RecheckStale, Recheck
  <2> QED
    BY <1>4, <2>1, <2>3, <2>4
    DEF CandidateStep, PassOver, Spare, OrphanKept, RemoveOrphan, NextListed
<1>5. ASSUME NEW q \in Processes, Crash(q) PROVE Moved
  <2>1. gc'[s] = gc[s] \/ gc'[s].at = "asleep"
    BY <1>5 DEF Crash, Asleep
  <2> QED BY <1>1, <1>2, <2>1
<1>6. ASSUME UNCHANGED gc PROVE Moved
  BY <1>1, <1>6
<1>7. ASSUME Tick PROVE Moved
  <2>1. gc'[s].at = gc[s].at /\ gc'[s].id = gc[s].id
    BY <1>7 DEF Tick, GcState
  <2> QED BY <1>1, <2>1
<1>8. ASSUME NEW p \in Callers, CallStep(p) \/ Abandon(p) PROVE UNCHANGED gc
  BY <1>8
  DEF CallStep, CreateStep, CreateRefused, MakeContainer, FinishBuild,
      BuildFails, Cleanup, Unreserve, Finalize, UseStep, EnterUse, UseReturns,
      UseFails, Touch, RmStep, EnterRm, RmConfirmed, RmFails, RmRow,
      LockTimeout, Abandon
<1>9. ASSUME NEW p \in Callers, NEW i \in Ids,
             Reserve(p, i) \/ AskUse(p, i) \/ AskRm(p, i)
      PROVE  UNCHANGED gc
  BY <1>9 DEF Reserve, AskUse, AskRm, Ask
<1> HIDE DEF Moved
<1>10. Moved
  BY <1>3, <1>4, <1>5, <1>6, <1>7, <1>8, <1>9 DEF Next
<1> QED BY <1>10 DEF Moved

\* What the collector destroys has expired when it is destroyed and when its
\* row goes, although the list it works from was made without any lock and a
\* run of another process may have refreshed the sandbox since.
THEOREM FreshSpared == Spec => []FreshIsSpared
<1>1. Init => FreshIsSpared
  BY DEF Init, FreshIsSpared, Asleep
<1>2. ASSUME ExclusionInv, FreshIsSpared, [Next]_vars
      PROVE  FreshIsSpared'
  <2>1. CASE UNCHANGED vars
    BY <1>2, <2>1 DEF vars, FreshIsSpared, ExpiredReady, Expired
  <2>2. CASE Next
    <3> SUFFICES ASSUME NEW s \in Collectors, gc'[s].at \in Sparing
                 PROVE  row'[gc'[s].id] = "ready" /\ left'[gc'[s].id] = 0
      BY DEF FreshIsSpared, Sparing, ExpiredReady, Expired
    <3>1. CASE gc[s].at \in Sparing /\ gc'[s].id = gc[s].id /\ ~Forget(s)
      <4>1. ExpiredReady(gc[s].id)
        BY <1>2, <3>1 DEF FreshIsSpared, Sparing
      <4> QED BY <1>2, <2>2, <3>1, <4>1, HeldRow
    <3>2. CASE ExpiredReady(gc'[s].id) /\ UNCHANGED <<row, left>>
      BY <3>2 DEF ExpiredReady, Expired
    <3> QED BY <1>2, <2>2, <3>1, <3>2, SpareMoves DEF ExclusionInv
  <2> QED BY <1>2, <2>1, <2>2
<1> QED BY <1>1, <1>2, ExclusionInit, ExclusionStep, PTL DEF Spec
==============================================================================

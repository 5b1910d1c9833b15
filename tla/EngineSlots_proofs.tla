-------------------------- MODULE EngineSlots_proofs --------------------------
(***************************************************************************)
(* EngineSlots for every number of slots, callers and processes: types,    *)
(* that the locks agree with the callers' places, and, by counting, that   *)
(* no more blocks run than there are slots.                                *)
(***************************************************************************)
EXTENDS EngineSlots, FunctionTheorems, FiniteSetTheorems, TLAPS

USE SlotsAssumption, CallersAssumption, CrashesAssumption

SlotInv == TypeOK /\ OneSlotEach

\* The types alone, one case per action.
LEMMA TypeStep == TypeOK /\ [Next]_vars => TypeOK'
<1> SUFFICES ASSUME TypeOK, [Next]_vars PROVE TypeOK'
    OBVIOUS
<1> USE DEF TypeOK, Places, HoldingPlaces, AskingPlaces
<1>1. ASSUME NEW c \in Callers, Ask(c) PROVE TypeOK'
    BY <1>1 DEF Ask, Goto, ScanAll
<1>2. ASSUME NEW c \in Callers, NEW s \in Slots, TakeSlot(c, s) PROVE TypeOK'
    BY <1>2 DEF TakeSlot, Goto, Tried, Lock
<1>3. ASSUME NEW c \in Callers, NEW s \in Slots,
             SkipSlot(c, s) \/ CountTaken(c, s)
      PROVE  TypeOK'
    BY <1>3 DEF SkipSlot, CountTaken, Tried
<1>4. ASSUME NEW c \in Callers, WorkEnds(c) \/ Thrown(c) \/ Busy(c)
      PROVE  TypeOK'
    BY <1>4 DEF WorkEnds, Thrown, Busy, Leave, Goto, Unlock
<1>5. ASSUME NEW c \in Callers, WorkRaisesOSError(c) PROVE TypeOK'
    BY <1>5 DEF WorkRaisesOSError, Goto, Unlock
<1>6. ASSUME NEW c \in Callers, BackOff(c) \/ Retry(c) \/ StartCount(c)
      PROVE  TypeOK'
    BY <1>6 DEF BackOff, Retry, StartCount, Goto, ScanAll
<1>11. ASSUME NEW c \in Callers, Late(c) PROVE TypeOK'
  <2>1. late' \in [Callers -> BOOLEAN]
      BY <1>11 DEF Late
  <2> QED BY <1>11, <2>1 DEF Late
<1>7. ASSUME NEW c \in Callers, NEW s \in Slots, Probe(c, s) PROVE TypeOK'
    BY <1>7 DEF Probe, Goto, Tried, Lock
<1>8. ASSUME NEW c \in Callers, EndProbe(c) PROVE TypeOK'
    BY <1>8 DEF EndProbe, Goto, Unlock
<1>9. ASSUME NEW q \in Processes, Crash(q) PROVE TypeOK'
    BY <1>9 DEF Crash, Unlock
<1>10. CASE UNCHANGED vars
    BY <1>10 DEF vars
<1> QED
    BY <1>1, <1>2, <1>3, <1>4, <1>5, <1>6, <1>7, <1>8, <1>9, <1>10, <1>11
    DEF Next, CallerStep, ScanStep, CountStep, WorkStep

\* THEOREM TypeCorrect: the variables keep their types.
THEOREM TypeCorrect == Spec => []TypeOK
<1>1. Init => TypeOK
    BY DEF Init, TypeOK, Places
<1> QED
    BY <1>1, TypeStep, PTL DEF Spec

-----------------------------------------------------------------------------
\* The locks move in three ways.  A caller takes a free slot and goes from a
\* place without one to a place with one; callers give up whatever they hold
\* and go to places without a slot; or nothing about the locks changes, and
\* neither does it whether a caller is at a holding place.

Takes(c, s) ==
    /\ at[c] \notin HoldingPlaces /\ at'[c] \in HoldingPlaces
    /\ \A d \in Callers \ {c} : at'[d] = at[d]
    /\ Lock(c, s)

GiveUp(leaving) ==
    /\ leaving \subseteq Callers
    /\ \A c \in leaving : at'[c] \notin HoldingPlaces
    /\ \A c \in Callers \ leaving : at'[c] = at[c]
    /\ Unlock(leaving)

Keeps ==
    /\ \A c \in Callers : at'[c] \in HoldingPlaces <=> at[c] \in HoldingPlaces
    /\ UNCHANGED owner

LEMMA LockMoves ==
    ASSUME TypeOK, [Next]_vars
    PROVE  \/ \E c \in Callers, s \in Slots : Takes(c, s)
           \/ \E leaving \in SUBSET Callers : GiveUp(leaving)
           \/ Keeps
<1> DEFINE Moved == \/ \E c \in Callers, s \in Slots : Takes(c, s)
                    \/ \E leaving \in SUBSET Callers : GiveUp(leaving)
                    \/ Keeps
<1> USE DEF TypeOK, HoldingPlaces
<1>1. ASSUME NEW c \in Callers, NEW s \in Slots, TakeSlot(c, s) \/ Probe(c, s)
      PROVE  Moved
  <2>1. Takes(c, s)
      BY <1>1 DEF TakeSlot, Probe, Takes, Goto
  <2> QED BY <2>1
<1>2. ASSUME NEW c \in Callers,
             WorkEnds(c) \/ Thrown(c) \/ WorkRaisesOSError(c) \/ EndProbe(c)
      PROVE  Moved
  <2>1. GiveUp({c})
      BY <1>2 DEF WorkEnds, Thrown, WorkRaisesOSError, EndProbe, Leave, Goto, GiveUp
  <2> QED BY <2>1
<1>3. ASSUME NEW q \in Processes, Crash(q) PROVE Moved
  <2> DEFINE dead == {c \in Callers : Home[c] = q}
  <2>1. GiveUp(dead)
      BY <1>3 DEF Crash, GiveUp
  <2> QED BY <2>1
<1>4. ASSUME NEW c \in Callers,
             \/ Ask(c) \/ BackOff(c) \/ Retry(c) \/ StartCount(c) \/ Busy(c)
      PROVE  Moved
  <2>1. Keeps
      BY <1>4 DEF Ask, BackOff, Retry, StartCount, Busy, Leave, Goto, Keeps
  <2> QED BY <2>1
<1>5. ASSUME NEW c \in Callers, NEW s \in Slots,
             SkipSlot(c, s) \/ CountTaken(c, s)
      PROVE  Moved
  <2>1. Keeps
      BY <1>5 DEF SkipSlot, CountTaken, Keeps
  <2> QED BY <2>1
<1>6. ASSUME (\E c \in Callers : Late(c)) \/ UNCHANGED vars PROVE Moved
  <2>1. Keeps
      BY <1>6 DEF Late, vars, Keeps
  <2> QED BY <2>1
<1> QED
    BY <1>1, <1>2, <1>3, <1>4, <1>5, <1>6
    DEF Next, CallerStep, ScanStep, CountStep, WorkStep

LEMMA SlotStep == SlotInv /\ [Next]_vars => SlotInv'
<1> SUFFICES ASSUME TypeOK, OneSlotEach, [Next]_vars PROVE OneSlotEach'
    BY TypeStep DEF SlotInv
<1>1. ASSUME NEW c \in Callers, NEW s \in Slots, Takes(c, s)
      PROVE  OneSlotEach'
  <2>1. SUFFICES ASSUME NEW d \in Callers
                 PROVE  IF at'[d] \in HoldingPlaces
                        THEN \E u \in Slots : \A t \in Slots : owner'[t] = d <=> t = u
                        ELSE \A t \in Slots : owner'[t] # d
      BY DEF OneSlotEach, Holds
  <2>2. CASE d = c
    <3>1. \A t \in Slots : owner[t] # c
        BY <1>1 DEF Takes, OneSlotEach, Holds
    <3>2. \A t \in Slots : owner'[t] = c <=> t = s
        BY <1>1, <3>1 DEF Takes, Lock, TypeOK
    <3> QED BY <1>1, <2>2, <3>2 DEF Takes
  <2>3. CASE d # c
    <3>1. at'[d] = at[d] /\ \A t \in Slots : owner'[t] = d <=> owner[t] = d
        BY <1>1, <2>3 DEF Takes, Lock, TypeOK
    <3> QED BY <3>1 DEF OneSlotEach, Holds
  <2> QED BY <2>2, <2>3
<1>2. ASSUME NEW leaving \in SUBSET Callers, GiveUp(leaving) PROVE OneSlotEach'
  <2>1. \A d \in leaving : at'[d] \notin HoldingPlaces
                           /\ \A t \in Slots : owner'[t] # d
      BY <1>2 DEF GiveUp, Unlock
  <2>2. \A d \in Callers \ leaving :
            at'[d] = at[d] /\ \A t \in Slots : owner'[t] = d <=> owner[t] = d
      BY <1>2 DEF GiveUp, Unlock
  <2> QED BY <2>1, <2>2 DEF OneSlotEach, Holds
<1>3. CASE Keeps
    BY <1>3 DEF Keeps, OneSlotEach, Holds
<1> QED BY <1>1, <1>2, <1>3, LockMoves

\* THEOREM SlotsAgree: a caller at a holding place has exactly one slot and a
\* caller elsewhere none, through every error of the block and every death.
THEOREM SlotsAgree == Spec => []OneSlotEach
<1>1. Init => SlotInv
    BY DEF Init, SlotInv, TypeOK, OneSlotEach, Holds, Places, HoldingPlaces
<1> QED
    BY <1>1, SlotStep, PTL DEF Spec, SlotInv

-----------------------------------------------------------------------------
\* The callers at work have different slots, none of them s, so there are
\* fewer of them than slots.
LEMMA RoomInside ==
    ASSUME SlotInv, NEW s \in Slots, owner[s] = Free
    PROVE  Cardinality(Inside) < Cardinality(Slots)
<1> DEFINE others == Slots \ {s}
           slotOf == [c \in Inside |-> CHOOSE t \in Slots : owner[t] = c]
<1>1. \A c \in Inside : c \in Callers /\ \E t \in Slots : owner[t] = c
    BY DEF SlotInv, OneSlotEach, Holds, Inside, HoldingPlaces
<1>2. \A c \in Inside : slotOf[c] \in Slots /\ owner[slotOf[c]] = c
    BY <1>1
<1>3. \A c \in Inside : slotOf[c] \in others
    BY <1>1, <1>2
<1>4. slotOf \in Injection(Inside, others)
    BY <1>2, <1>3 DEF Injection, IsInjective
<1>5. IsFiniteSet(others) /\ Cardinality(others) = Cardinality(Slots) - 1
    BY FS_RemoveElement
<1>6. IsFiniteSet(Inside) /\ Cardinality(Inside) <= Cardinality(others)
    BY <1>4, <1>5, FS_Injection
<1>7. Cardinality(Slots) \in Nat /\ Cardinality(Inside) \in Nat
    BY <1>6, FS_CardinalityType
<1> QED BY <1>5, <1>6, <1>7

\* The set of callers at work changes as the bound allows.
LEMMA BoundStep == SlotInv /\ [Next]_vars => [Bounded!Next]_Inside
<1> SUFFICES ASSUME SlotInv, [Next]_vars PROVE Bounded!Next \/ Inside' = Inside
    OBVIOUS
<1> USE DEF SlotInv, TypeOK
<1>1. ASSUME NEW c \in Callers, NEW s \in Slots, TakeSlot(c, s)
      PROVE  Bounded!Next \/ Inside' = Inside
  <2>1. CASE worked[c]
      BY <1>1, <2>1 DEF TakeSlot, Goto, Inside
  <2>2. CASE ~worked[c]
    <3>1. c \notin Inside /\ Inside' = Inside \cup {c}
        BY <1>1, <2>2 DEF TakeSlot, Goto, Inside
    <3>2. Cardinality(Inside) < Cardinality(Slots)
        BY <1>1, RoomInside DEF TakeSlot, Lock
    <3>3. c \in Callers \ Inside
        BY <3>1
    <3>4. Bounded!Enter(c)
        BY <3>1, <3>2, <3>3 DEF Bounded!Enter, Bounded!Cardinality, Cardinality
    <3> QED BY <3>4 DEF Bounded!Next
  <2> QED BY <2>1, <2>2
<1>2. ASSUME NEW c \in Callers, WorkEnds(c) \/ WorkRaisesOSError(c)
      PROVE  Bounded!Next
  <2>1. c \in Inside /\ Inside' = Inside \ {c}
      BY <1>2 DEF WorkEnds, WorkRaisesOSError, Leave, Goto, Inside
  <2>2. Bounded!Exit({c})
      BY <2>1 DEF Bounded!Exit
  <2> QED BY <2>1, <2>2 DEF Bounded!Next
<1>3. ASSUME NEW q \in Processes, Crash(q) PROVE Bounded!Next
  <2> DEFINE leaving == {c \in Inside : Home[c] = q}
  <2>1. Inside' = Inside \ leaving
      BY <1>3 DEF Crash, Inside
  <2>2. Bounded!Exit(leaving)
      BY <2>1 DEF Bounded!Exit
  <2> QED BY <2>2 DEF Bounded!Next
<1>4. ASSUME NEW c \in Callers,
             \/ Ask(c) \/ Thrown(c) \/ BackOff(c) \/ Retry(c) \/ StartCount(c)
             \/ EndProbe(c) \/ Busy(c) \/ \E s \in Slots : Probe(c, s)
      PROVE  Inside' = Inside
    BY <1>4 DEF Ask, Thrown, BackOff, Retry, StartCount, EndProbe, Busy, Probe,
                Leave, Goto, Inside
<1>5. ASSUME \/ \E c \in Callers : Late(c)
             \/ \E c \in Callers, s \in Slots : SkipSlot(c, s) \/ CountTaken(c, s)
             \/ UNCHANGED vars
      PROVE  Inside' = Inside
    BY <1>5 DEF Late, SkipSlot, CountTaken, vars, Inside
<1> QED
    BY <1>1, <1>2, <1>3, <1>4, <1>5
    DEF Next, CallerStep, ScanStep, CountStep, WorkStep

\* THEOREM BoundHolds: the queue implements the bound: never more blocks at
\* work than slots, whatever the number of callers and processes.
THEOREM BoundHolds == Spec => MeetsBound
<1>1. Init => SlotInv
    BY DEF Init, SlotInv, TypeOK, OneSlotEach, Holds, Places, HoldingPlaces
<1>2. Init => Bounded!Init
    BY DEF Init, Bounded!Init, Inside
<1> QED
    BY <1>1, <1>2, SlotStep, BoundStep, PTL
    DEF Spec, MeetsBound, Bounded!BoundSpec

-----------------------------------------------------------------------------
\* A call past its deadline takes a bounded number of steps: the safety half of
\* AskersAnswered.

\* Stages a call past its deadline has still before it, at most: a scan and the
\* block, a second scan after an OSError of the block, and the count.
Stages(c) ==
    (CASE at[c] = "waiting" -> 4
       [] at[c] = "scanning" -> 3
       [] at[c] \in {"working", "thrown"} -> 2
       [] at[c] \in {"counting", "probing"} -> 1
       [] at[c] = "idle" -> 0)
    + (IF at[c] \in {"waiting", "scanning", "working"} /\ ~worked[c] THEN 3 ELSE 0)

\* The call of c is at a later stage, has fewer slots to try at this one, or
\* lets go of the slot it was counting.
Closer(c) ==
    \/ Stages(c)' < Stages(c)
    \/ /\ Stages(c)' = Stages(c)
       /\ \/ todo'[c] # todo[c] /\ todo'[c] \subseteq todo[c]
          \/ todo'[c] = todo[c] /\ at[c] = "probing" /\ at'[c] = "counting"

LEMMA StagesCounted ==
    ASSUME TypeOK, NEW c \in Callers
    PROVE  Stages(c) \in 0..7
BY DEF TypeOK, Places, HoldingPlaces, AskingPlaces, Stages

\* A block that has raised does not run a second time.
RunsOnce == \A c \in Callers : at[c] = "working" => ~worked[c]

LEMMA RunsOnceStep == TypeOK /\ RunsOnce /\ [Next]_vars => RunsOnce'
<1> SUFFICES ASSUME TypeOK, RunsOnce, [Next]_vars PROVE RunsOnce'
    OBVIOUS
<1> USE DEF TypeOK, RunsOnce
<1>1. ASSUME NEW c \in Callers, NEW s \in Slots,
             TakeSlot(c, s) \/ SkipSlot(c, s) \/ Probe(c, s) \/ CountTaken(c, s)
      PROVE  RunsOnce'
    BY <1>1 DEF TakeSlot, SkipSlot, Probe, CountTaken, Goto
<1>2. ASSUME NEW c \in Callers, WorkEnds(c) \/ Thrown(c) \/ Busy(c)
      PROVE  RunsOnce'
    BY <1>2 DEF WorkEnds, Thrown, Busy, Leave, Goto
<1>3. ASSUME NEW c \in Callers,
             \/ Ask(c) \/ BackOff(c) \/ Retry(c) \/ StartCount(c) \/ EndProbe(c)
             \/ WorkRaisesOSError(c) \/ Late(c)
      PROVE  RunsOnce'
    BY <1>3
    DEF Ask, BackOff, Retry, StartCount, EndProbe, WorkRaisesOSError, Late, Goto
<1>4. ASSUME NEW q \in Processes, Crash(q) PROVE RunsOnce'
    BY <1>4 DEF Crash
<1>5. CASE UNCHANGED vars
    BY <1>5 DEF vars
<1> QED
    BY <1>1, <1>2, <1>3, <1>4, <1>5
    DEF Next, CallerStep, ScanStep, CountStep, WorkStep

\* c's own steps, late.
LEMMA OwnCloser ==
    ASSUME TypeOK, RunsOnce, NEW c \in Callers, late[c],
           ScanStep(c) \/ CountStep(c) \/ WorkStep(c)
    PROVE  Closer(c) /\ (late'[c] \/ at'[c] = "idle")
<1> USE DEF TypeOK, Closer, Stages, Goto
<1>1. ASSUME NEW s \in Slots, TakeSlot(c, s) PROVE Closer(c) /\ late'[c]
    BY <1>1 DEF TakeSlot
<1>2. ASSUME NEW s \in Slots, SkipSlot(c, s) \/ CountTaken(c, s)
      PROVE  Closer(c) /\ late'[c]
  <2>1. todo'[c] # todo[c] /\ todo'[c] \subseteq todo[c]
      BY <1>2 DEF SkipSlot, CountTaken, Tried
  <2> QED BY <1>2, <2>1 DEF SkipSlot, CountTaken
<1>3. CASE Thrown(c) \/ WorkEnds(c) \/ Busy(c)
    BY <1>3 DEF Thrown, WorkEnds, Busy, Leave
<1>4. CASE BackOff(c) \/ Retry(c) \/ StartCount(c)
    BY <1>4 DEF BackOff, Retry, StartCount
<1>5. ASSUME NEW s \in Slots, Probe(c, s) PROVE Closer(c) /\ late'[c]
  <2>1. todo'[c] # todo[c] /\ todo'[c] \subseteq todo[c]
      BY <1>5 DEF Probe, Tried
  <2> QED BY <1>5, <2>1 DEF Probe
<1>6. CASE EndProbe(c)
    BY <1>6 DEF EndProbe
<1>7. CASE WorkRaisesOSError(c)
    BY <1>7 DEF WorkRaisesOSError, RunsOnce
<1> QED
    BY <1>1, <1>2, <1>3, <1>4, <1>5, <1>6, <1>7 DEF ScanStep, CountStep, WorkStep

\* Nothing of c's call but its end is anybody else's doing.
Untouched(c) ==
    late'[c] = late[c] /\ at'[c] = at[c] /\ todo'[c] = todo[c] /\ worked'[c] = worked[c]

LEMMA OthersLeave ==
    ASSUME TypeOK, [Next]_vars, NEW c \in Callers, late[c], at[c] # "idle",
           ~(ScanStep(c) \/ CountStep(c) \/ WorkStep(c))
    PROVE  Untouched(c) \/ (Closer(c) /\ at'[c] = "idle")
<1> USE DEF TypeOK, Untouched
<1>1. CASE UNCHANGED vars
    BY <1>1 DEF vars
<1>2. ~Ask(c) /\ ~Late(c)
    BY DEF Ask, Late
<1>3. ASSUME NEW d \in Callers \ {c}, CallerStep(d) PROVE Untouched(c)
  <2>1. ASSUME NEW s \in Slots,
               TakeSlot(d, s) \/ SkipSlot(d, s) \/ Probe(d, s) \/ CountTaken(d, s)
        PROVE  Untouched(c)
      BY <2>1 DEF TakeSlot, SkipSlot, Probe, CountTaken, Tried, Goto
  <2>2. CASE WorkEnds(d) \/ Thrown(d) \/ Busy(d)
      BY <2>2 DEF WorkEnds, Thrown, Busy, Leave, Goto
  <2>3. CASE \/ Ask(d) \/ BackOff(d) \/ Retry(d) \/ StartCount(d) \/ EndProbe(d)
             \/ WorkRaisesOSError(d) \/ Late(d)
      BY <2>3
      DEF Ask, BackOff, Retry, StartCount, EndProbe, WorkRaisesOSError, Late, ScanAll,
          Goto
  <2> QED BY <1>3, <2>1, <2>2, <2>3 DEF CallerStep, ScanStep, CountStep, WorkStep
<1>4. ASSUME NEW q \in Processes, Crash(q)
      PROVE  Untouched(c) \/ (Closer(c) /\ at'[c] = "idle")
  <2>1. CASE Home[c] = q
    <3>1. at'[c] = "idle"
        BY <1>4, <2>1 DEF Crash
    <3>2. Stages(c)' = 0
        BY <3>1 DEF Stages
    <3>3. Stages(c) > 0
        BY DEF Stages, Places, HoldingPlaces, AskingPlaces
    <3> QED BY <3>1, <3>2, <3>3 DEF Closer
  <2>2. CASE Home[c] # q
      BY <1>4, <2>2 DEF Crash
  <2> QED BY <2>1, <2>2
<1>5. CallerStep(c) => FALSE
    BY <1>2 DEF CallerStep
<1> QED BY <1>1, <1>3, <1>4, <1>5 DEF Next

\* THEOREM LateCallsEnd: the block of a call runs at most once, and once its
\* deadline has passed, every step of a call brings it closer to its end,
\* whatever the other callers take and give back meanwhile: no retry, no OSError
\* of the block and no count starts the wait again.
THEOREM LateCallsEnd ==
    Spec => /\ [](RunsOnce /\ \A c \in Callers : Stages(c) \in 0..7)
            /\ [][\A c \in Callers : late[c] /\ at[c] # "idle" =>
                    /\ ScanStep(c) \/ CountStep(c) \/ WorkStep(c) => Closer(c)
                    /\ Closer(c) \/ Untouched(c)
                    /\ late'[c] \/ at'[c] = "idle"]_vars
<1> DEFINE Ending ==
        \A c \in Callers : late[c] /\ at[c] # "idle" =>
            /\ ScanStep(c) \/ CountStep(c) \/ WorkStep(c) => Closer(c)
            /\ Closer(c) \/ Untouched(c)
            /\ late'[c] \/ at'[c] = "idle"
<1>1. TypeOK /\ RunsOnce /\ [Next]_vars => [Ending]_vars
    BY OwnCloser, OthersLeave DEF Untouched
<1>2. TypeOK => \A c \in Callers : Stages(c) \in 0..7
    BY StagesCounted
<1>3. Init => RunsOnce
    BY DEF Init, RunsOnce
<1> QED BY <1>1, <1>2, <1>3, TypeCorrect, TypeStep, RunsOnceStep, PTL DEF Spec
==============================================================================

------------------------- MODULE Environments_proofs -------------------------
(***************************************************************************)
(* What holds of Environments for any names, any number of threads, any    *)
(* settle window and any length of time.  ListsWhatIsBuilt needs that a    *)
(* scan, and then the cache, holds every directory there is for as long as *)
(* the mtime has not changed since the scan began, and that no change can  *)
(* come with the same mtime once its tick is over.                         *)
(***************************************************************************)
EXTENDS Environments, TLAPS

\* Types: an action changes one caller, one name or the clock.
LEMMA TypeStep == TypeOK /\ [Next]_vars => TypeOK'
<1> SUFFICES ASSUME TypeOK, [Next]_vars PROVE TypeOK'
    OBVIOUS
<1> USE NameAssumption, TimeAssumption DEF TypeOK, Doubts, Places, ScanPlaces
<1>1. CASE UNCHANGED vars
    BY <1>1 DEF vars, clockVars, hostVars, scanVars, cacheVars
<1>2. ASSUME NEW n \in Names, BuildStep(n) PROVE TypeOK'
    <2> USE DEF Step, clockVars, hostVars, scanVars, cacheVars
    <2>1. CASE StartBuild(n)    BY <2>1 DEF StartBuild
    <2>2. CASE EngineDone(n)    BY <2>2 DEF EngineDone
    <2>3. CASE EngineFails(n)   BY <2>3 DEF EngineFails
    <2>4. CASE MakeDir(n)       BY <2>4 DEF MakeDir
    <2>5. CASE OpenManifest(n)  BY <2>5 DEF OpenManifest
    <2>6. CASE WriteManifest(n) BY <2>6 DEF WriteManifest
    <2>7. CASE Interrupted(n)   BY <2>7 DEF Interrupted
    <2> QED  BY <1>2, <2>1, <2>2, <2>3, <2>4, <2>5, <2>6, <2>7 DEF BuildStep
<1>3. ASSUME NEW c \in Callers, CallStep(c) PROVE TypeOK'
    <2> USE DEF clockVars, hostVars, scanVars, cacheVars
    <2>1. CASE AnswerBuiltins(c) BY <2>1 DEF AnswerBuiltins, Begin, Listable, Recorded
    <2>2. CASE AnswerCached(c)
        <3>1. doubt'[c] \in SUBSET Doubts
            BY <2>2 DEF AnswerCached
        <3> QED  BY <2>2, <3>1 DEF AnswerCached, Begin, Listable, Recorded
    <2>3. CASE Scan(c)           BY <2>3 DEF Scan, Begin, Listable, Recorded
    <2>4. CASE List(c)           BY <2>4 DEF List, Made
    <2>5. ASSUME NEW n \in Names, Resolve(c, n) PROVE TypeOK'
        BY <2>5 DEF Resolve
    <2>6. ASSUME NEW n \in Names, PassOver(c, n) PROVE TypeOK'
        BY <2>6 DEF PassOver
    <2>7. CASE StoreCache(c)     BY <2>7 DEF StoreCache
    <2>8. CASE StoreMtime(c)     BY <2>8 DEF StoreMtime, StoreTime
    <2>9. CASE Return(c)         BY <2>9 DEF Return
    <2> QED  BY <1>3, <2>1, <2>2, <2>3, <2>4, <2>5, <2>6, <2>7, <2>8, <2>9 DEF CallStep
<1>4. CASE Restart
    BY <1>4 DEF Restart, clockVars, hostVars
<1>5. CASE Tick
    BY <1>5 DEF Tick, hostVars, scanVars, cacheVars
<1>6. ASSUME NEW n \in Names, MakeOwnDir(n) PROVE TypeOK'
    BY <1>6 DEF MakeOwnDir, clockVars, scanVars, cacheVars
<1>7. ASSUME NEW n \in Names, AddDockerfile(n) PROVE TypeOK'
    BY <1>7 DEF AddDockerfile, Made, clockVars, scanVars, cacheVars
<1> QED  BY <1>1, <1>2, <1>3, <1>4, <1>5, <1>6, <1>7 DEF Next

\* Every variable keeps its type, the places of builds and calls included.
THEOREM TypesHold == Spec => []TypeOK
<1>1. Init => TypeOK
    BY TimeAssumption DEF Init, TypeOK, Doubts, Places, ScanPlaces
<1> QED  BY <1>1, TypeStep, PTL DEF Spec

-----------------------------------------------------------------------------
\* What is listed is on the engine.

\* A build that has left the engine has tagged its image.
TagInv ==
    /\ \A n \in Names :
           build[n] \in {"mkdir", "open", "write"} \/ entry[n] \in {"cut", "whole"}
               => n \in tagged
    /\ ListedIsTagged

LEMMA TagStep == TypeOK /\ TagInv /\ [Next]_vars => TagInv'
<1> SUFFICES ASSUME TypeOK, TagInv, [Next]_vars PROVE TagInv'
    OBVIOUS
<1> USE DEF TypeOK, TagInv, ListedIsTagged, Recorded
<1>1. CASE UNCHANGED vars
    BY <1>1 DEF vars, clockVars, hostVars, scanVars, cacheVars
<1>2. ASSUME NEW n \in Names, BuildStep(n) PROVE TagInv'
    <2> USE DEF Step, clockVars, hostVars, scanVars, cacheVars
    <2>1. CASE StartBuild(n)    BY <2>1 DEF StartBuild
    <2>2. CASE EngineDone(n)    BY <2>2 DEF EngineDone
    <2>3. CASE EngineFails(n)   BY <2>3 DEF EngineFails
    <2>4. CASE MakeDir(n)       BY <2>4 DEF MakeDir
    <2>5. CASE OpenManifest(n)  BY <2>5 DEF OpenManifest
    <2>6. CASE WriteManifest(n) BY <2>6 DEF WriteManifest
    <2>7. CASE Interrupted(n)   BY <2>7 DEF Interrupted
    <2> QED  BY <1>2, <2>1, <2>2, <2>3, <2>4, <2>5, <2>6, <2>7 DEF BuildStep
<1>3. ASSUME NEW c \in Callers, CallStep(c) PROVE TagInv'
    <2> USE DEF clockVars, hostVars, scanVars, cacheVars
    <2>1. CASE AnswerBuiltins(c) BY <2>1 DEF AnswerBuiltins
    <2>2. CASE AnswerCached(c)   BY <2>2 DEF AnswerCached
    <2>3. CASE Scan(c)           BY <2>3 DEF Scan
    <2>4. CASE List(c)           BY <2>4 DEF List
    <2>5. ASSUME NEW n \in Names, Resolve(c, n) PROVE TagInv'
        BY <2>5 DEF Resolve, Listable
    <2>6. ASSUME NEW n \in Names, PassOver(c, n) PROVE TagInv'
        BY <2>6 DEF PassOver
    <2>7. CASE StoreCache(c)     BY <2>7 DEF StoreCache
    <2>8. CASE StoreMtime(c)     BY <2>8 DEF StoreMtime, StoreTime
    <2>9. CASE Return(c)         BY <2>9 DEF Return
    <2> QED  BY <1>3, <2>1, <2>2, <2>3, <2>4, <2>5, <2>6, <2>7, <2>8, <2>9 DEF CallStep
<1>4. CASE Restart
    BY <1>4 DEF Restart, clockVars, hostVars
<1>5. CASE Tick
    BY <1>5 DEF Tick, hostVars, scanVars, cacheVars
<1>6. ASSUME NEW n \in Names, MakeOwnDir(n) PROVE TagInv'
    BY <1>6 DEF MakeOwnDir, clockVars, scanVars, cacheVars
<1>7. ASSUME NEW n \in Names, AddDockerfile(n) PROVE TagInv'
    BY <1>7 DEF AddDockerfile, Made, clockVars, scanVars, cacheVars
<1> QED  BY <1>1, <1>2, <1>3, <1>4, <1>5, <1>6, <1>7 DEF Next

\* run_build records an environment after its image is there, so what has a
\* manifest has an image, and so has every name that a call lists or a cache
\* keeps, unless its directory holds a Dockerfile.
THEOREM Tagged == Spec => []ListedIsTagged
<1>1. Init => TypeOK /\ TagInv
    BY TimeAssumption
       DEF Init, TypeOK, Doubts, Places, ScanPlaces, TagInv, ListedIsTagged, Recorded
<1>2. TagInv => ListedIsTagged
    BY DEF TagInv
<1> QED  BY <1>1, <1>2, TypeStep, TagStep, PTL DEF Spec

-----------------------------------------------------------------------------
\* A call lists what is built.

\* Nothing carries an mtime from the future, and a manifest or a Dockerfile is
\* in a directory.
ClockInv ==
    /\ dockerfiles \subseteq Made
    /\ \A n \in Names : build[n] \in {"open", "write"} => entry[n] # "none"
    /\ mtime <= clock /\ cacheTime <= mtime
    /\ \A c \in Callers : seen[c] <= mtime
    /\ mtime = 0 => Made = {}

\* What a call owes its caller it has still to read, or has found.
CallInv ==
    \A c \in Callers :
        /\ promised[c] \subseteq Listable
        /\ at[c] = "reading" => promised[c] \subseteq left[c] \cup found[c]
        /\ at[c] = "keying" => left[c] = {} /\ promised[c] \subseteq found[c]
        /\ at[c] = "answered" /\ doubt[c] = {} => promised[c] \subseteq found[c]

\* As long as the mtime is the one a scan began with, the scan has every
\* directory there is, and no other can come under that mtime.
ScanInv ==
    \A c \in Callers :
        at[c] \in {"reading", "keying"} /\ doubt[c] = {} /\ mtime = seen[c]
            => clock > mtime /\ Made \subseteq left[c] \cup found[c]

\* The same for the cache.  Between its two assignments the map is the result
\* of the caller that is about to assign the mtime, or another's.
CacheInv ==
    /\ cacheFrom # Nobody /\ cacheFrom = timeFrom /\ cacheDoubt = {} /\ cacheTime = mtime
           => clock > mtime /\ Made \subseteq cache
    /\ \A c \in Callers :
           /\ at[c] = "keying" /\ cacheFrom = c => cache = found[c] /\ cacheDoubt = doubt[c]
           /\ at[c] \in ScanPlaces /\ timeFrom = c => cacheTime <= seen[c]

Inv == ClockInv /\ CallInv /\ ScanInv /\ CacheInv

\* A new directory gets the mtime of its tick, which is that of no scan whose
\* answer will not be doubted.
LEMMA NewDir ==
    ASSUME TypeOK, Inv, NEW n \in Names, entry[n] = "none",
           entry' = [entry EXCEPT ![n] = "bare"], mtime' = clock,
           \A m \in Names : build'[m] \in {"open", "write"} => build[m] = build'[m] \/ m = n,
           UNCHANGED <<clockVars, dockerfiles, scanVars, cacheVars, promised>>
    PROVE  Inv'
<1> USE NameAssumption, TimeAssumption
    DEF TypeOK, Inv, ClockInv, CallInv, ScanInv, CacheInv, ScanPlaces, Made, Recorded, Listable,
        clockVars, scanVars, cacheVars
<1>1. Made' = Made \cup {n}
    OBVIOUS
<1>2. ClockInv'
    BY <1>1
<1>3. CallInv'
    OBVIOUS
<1>4. ASSUME NEW d \in Callers,
             at'[d] \in {"reading", "keying"}, doubt'[d] = {}, mtime' = seen'[d]
      PROVE  FALSE
    BY <1>4
<1>5. ScanInv'
    BY <1>4
<1>6. CacheInv'
    BY <1>1
<1> QED  BY <1>2, <1>3, <1>5, <1>6

LEMMA ListStep == TypeOK /\ Inv /\ [Next]_vars => Inv'
<1> SUFFICES ASSUME TypeOK, Inv, [Next]_vars PROVE Inv'
    OBVIOUS
<1>0. Nobody \notin Callers
    BY NameAssumption
<1> USE <1>0, TimeAssumption
    DEF TypeOK, Inv, ClockInv, CallInv, ScanInv, CacheInv, ScanPlaces, Made, Recorded, Listable
<1>1. CASE UNCHANGED vars
    BY <1>1 DEF vars, clockVars, hostVars, scanVars, cacheVars
<1>2. ASSUME NEW n \in Names, BuildStep(n) PROVE Inv'
    <2> USE DEF Step, clockVars, hostVars, scanVars, cacheVars
    <2>1. CASE StartBuild(n)    BY <2>1 DEF StartBuild
    <2>2. CASE EngineDone(n)    BY <2>2 DEF EngineDone
    <2>3. CASE EngineFails(n)   BY <2>3 DEF EngineFails
    <2>4. CASE MakeDir(n)
        <3>1. CASE entry[n] = "none"
            BY <2>4, <3>1, NewDir DEF MakeDir
        <3>2. CASE entry[n] # "none"
            BY <2>4, <3>2 DEF MakeDir
        <3> QED  BY <3>1, <3>2
    <2>5. CASE OpenManifest(n)  BY <2>5 DEF OpenManifest
    <2>6. CASE WriteManifest(n) BY <2>6 DEF WriteManifest
    <2>7. CASE Interrupted(n)   BY <2>7 DEF Interrupted
    <2> QED  BY <1>2, <2>1, <2>2, <2>3, <2>4, <2>5, <2>6, <2>7 DEF BuildStep
<1>3. ASSUME NEW c \in Callers, CallStep(c) PROVE Inv'
    <2> USE DEF clockVars, hostVars, scanVars, cacheVars
    <2>1. CASE AnswerBuiltins(c) BY <2>1 DEF AnswerBuiltins, Begin
    <2>2. CASE AnswerCached(c)   BY <2>2 DEF AnswerCached, Begin, Trusted, Settled
    <2>3. CASE Scan(c)           BY <2>3 DEF Scan, Begin
    <2>4. CASE List(c)           BY <2>4 DEF List
    <2>5. ASSUME NEW n \in Names, Resolve(c, n) PROVE Inv'
        BY <2>5 DEF Resolve
    <2>6. ASSUME NEW n \in Names, PassOver(c, n) PROVE Inv'
        <3>1. "missed" \in doubt'[c] /\ doubt'[c] # {}
            BY <2>6 DEF PassOver
        <3>2. \A d \in Callers \ {c} : doubt'[d] = doubt[d] /\ left'[d] = left[d]
            BY <2>6 DEF PassOver
        <3>3. ClockInv'
            BY <2>6 DEF PassOver
        <3>4. CallInv'
            BY <2>6 DEF PassOver
        <3>5. ScanInv'
            BY <2>6, <3>1, <3>2 DEF PassOver
        <3>6. CacheInv'
            BY <2>6, <3>2 DEF PassOver
        <3> QED  BY <3>3, <3>4, <3>5, <3>6
    <2>7. CASE StoreCache(c)     BY <2>7 DEF StoreCache
    <2>8. CASE StoreMtime(c)     BY <2>8 DEF StoreMtime, StoreTime
    <2>9. CASE Return(c)         BY <2>9 DEF Return
    <2> QED  BY <1>3, <2>1, <2>2, <2>3, <2>4, <2>5, <2>6, <2>7, <2>8, <2>9 DEF CallStep
<1>4. CASE Restart
    BY <1>4 DEF Restart, clockVars, hostVars
<1>5. CASE Tick
    BY <1>5 DEF Tick, hostVars, scanVars, cacheVars
<1>6. ASSUME NEW n \in Names, MakeOwnDir(n) PROVE Inv'
    BY <1>6, NewDir DEF MakeOwnDir, clockVars, scanVars, cacheVars
<1>7. ASSUME NEW n \in Names, AddDockerfile(n) PROVE Inv'
    BY <1>7 DEF AddDockerfile, clockVars, scanVars, cacheVars
<1> QED  BY <1>1, <1>2, <1>3, <1>4, <1>5, <1>6, <1>7 DEF Next

\* A call lists every environment built before it began, unless the scan its
\* answer rests on is in doubt.
THEOREM ListsBuilt == Spec => []ListsWhatIsBuilt
<1>1. Init => TypeOK /\ Inv
    BY NameAssumption, TimeAssumption
       DEF Init, TypeOK, Doubts, Places, ScanPlaces,
           Inv, ClockInv, CallInv, ScanInv, CacheInv, Made, Recorded, Listable
<1>2. Inv => ListsWhatIsBuilt
    BY DEF Inv, CallInv, ListsWhatIsBuilt
<1> QED  BY <1>1, <1>2, TypeStep, ListStep, PTL DEF Spec
=============================================================================

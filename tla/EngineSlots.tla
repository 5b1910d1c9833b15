----------------------------- MODULE EngineSlots -----------------------------
(***************************************************************************)
(* slots.py: the ticket queue in front of the container engine.  A slot is *)
(* a lock file; a caller of engine_slot scans the slots in random order    *)
(* for one it can lock, works while it holds the lock, backs off when all  *)
(* are taken, and reports the engine busy after its deadline, counting the *)
(* holders first by locking each slot for a moment.  Callers live in       *)
(* several processes, whose death releases their locks.                    *)
(*                                                                         *)
(* A step is one attempt on one lock file.  The scan order is redrawn for  *)
(* each scan, so any slot not tried yet may be next.                       *)
(***************************************************************************)
EXTENDS Naturals, FiniteSets

CONSTANTS
    Slots,       \* slot_count() lock files
    Callers,     \* threads that create sandboxes
    Processes,
    Home,        \* the process each caller lives in
    Free,        \* the owner of a lock nobody holds
    MaxCrashes   \* bound on the number of process deaths

ASSUME SlotsAssumption == IsFiniteSet(Slots) /\ Slots # {}
ASSUME CallersAssumption == Free \notin Callers /\ Home \in [Callers -> Processes]
ASSUME CrashesAssumption == MaxCrashes \in Nat

VARIABLES
    owner,    \* holder of each slot's lock
    at,       \* where in engine_slot each caller is
    todo,     \* slots its scan, or its count, has still to try
    late,     \* its deadline has passed
    worked,   \* its block has already run, and raised
    crashes

vars == <<owner, at, todo, late, worked, crashes>>

-----------------------------------------------------------------------------

\* "working": the block runs.  "thrown": the generator has yielded a second
\* time, in answer to the exception of the block.
HoldingPlaces == {"working", "thrown", "probing"}
AskingPlaces == {"scanning", "waiting", "counting", "probing"}
Places == {"idle"} \cup AskingPlaces \cup HoldingPlaces

TypeOK ==
    /\ owner \in [Slots -> Callers \cup {Free}]
    /\ at \in [Callers -> Places]
    /\ todo \in [Callers -> SUBSET Slots]
    /\ late \in [Callers -> BOOLEAN]
    /\ worked \in [Callers -> BOOLEAN]
    /\ crashes \in 0..MaxCrashes

Init ==
    /\ owner = [s \in Slots |-> Free]
    /\ at = [c \in Callers |-> "idle"]
    /\ todo = [c \in Callers |-> {}]
    /\ late = [c \in Callers |-> FALSE]
    /\ worked = [c \in Callers |-> FALSE]
    /\ crashes = 0

Goto(c, place) == at' = [at EXCEPT ![c] = place]
Tried(c, s) == todo' = [todo EXCEPT ![c] = @ \ {s}]
ScanAll(c) == todo' = [todo EXCEPT ![c] = Slots]

\* Fault: the lock records the process instead of the open file.
LockByProcess(c, s) ==
    /\ owner[s] = Free
    /\ owner' = [owner EXCEPT ![s] = Home[c]]
\* Fault: fcntl.lockf for flock; a POSIX lock never excludes its own process.
LockPosix(c, s) ==
    /\ \A h \in Callers : owner[s] = h => Home[h] = Home[c]
    /\ owner' = [owner EXCEPT ![s] = c]
\* FileLock.__enter__: the slot's lock was free and is the caller's.
Lock(c, s) ==
    /\ owner[s] = Free
    /\ owner' = [owner EXCEPT ![s] = c]

\* FileLock.__exit__, or the operating system closing a dead holder's files.
Unlock(holders) ==
    owner' = [s \in Slots |-> IF owner[s] \in holders THEN Free ELSE owner[s]]

\* Back to the caller of engine_slot, with a result or an error.
Leave(c) ==
    /\ Goto(c, "idle")
    /\ todo' = [todo EXCEPT ![c] = {}]
    /\ late' = [late EXCEPT ![c] = FALSE]
    /\ worked' = [worked EXCEPT ![c] = FALSE]
    /\ UNCHANGED crashes

-----------------------------------------------------------------------------
\* The scan.

Ask(c) ==
    /\ at[c] = "idle"
    /\ Goto(c, "scanning")
    /\ ScanAll(c)
    /\ UNCHANGED <<owner, late, worked, crashes>>

\* The yield.  The first one runs the block.
TakeSlot(c, s) ==
    /\ at[c] = "scanning"
    /\ s \in todo[c]
    /\ Lock(c, s)
    /\ Tried(c, s)
    /\ Goto(c, IF worked[c] THEN "thrown" ELSE "working")
    /\ UNCHANGED <<late, worked, crashes>>

\* TimeoutError: the slot was held for 10 ms.  OSError: its file would not
\* open, whoever holds the lock.
SkipSlot(c, s) ==
    /\ at[c] = "scanning"
    /\ s \in todo[c]
    /\ Tried(c, s)
    /\ UNCHANGED <<owner, at, late, worked, crashes>>

\* The block returned, or raised something else than an OSError.
WorkEnds(c) ==
    /\ at[c] = "working"
    /\ Unlock({c})
    /\ Leave(c)

\* Fault: the handle stays open when the block raises.
WorkRaisesOSErrorLeaks(c) ==
    /\ at[c] = "working"
    /\ Goto(c, "scanning")
    /\ worked' = [worked EXCEPT ![c] = TRUE]
    /\ UNCHANGED <<owner, todo, late, crashes>>
\* An OSError of the block (a dropped or timed-out engine connection) arrives
\* at the yield, inside the try: `except (TimeoutError, OSError): continue`.
WorkRaisesOSError(c) ==
    /\ at[c] = "working"
    /\ Unlock({c})
    /\ Goto(c, "scanning")
    /\ worked' = [worked EXCEPT ![c] = TRUE]
    /\ UNCHANGED <<todo, late, crashes>>

\* contextlib: "generator didn't stop after throw()"; the generator is closed.
Thrown(c) ==
    /\ at[c] = "thrown"
    /\ Unlock({c})
    /\ Leave(c)

-----------------------------------------------------------------------------
\* Backing off, and giving up.

\* time.monotonic() has reached the deadline of the call.
Late(c) ==
    /\ at[c] # "idle" /\ ~late[c]
    /\ late' = [late EXCEPT ![c] = TRUE]
    /\ UNCHANGED <<owner, at, todo, worked, crashes>>

BackOff(c) ==
    /\ at[c] = "scanning" /\ todo[c] = {} /\ ~late[c]
    /\ Goto(c, "waiting")
    /\ UNCHANGED <<owner, todo, late, worked, crashes>>

\* Fault: every retry takes a new deadline.
RetryAfresh(c) ==
    /\ at[c] = "waiting"
    /\ Goto(c, "scanning")
    /\ ScanAll(c)
    /\ late' = [late EXCEPT ![c] = FALSE]
    /\ UNCHANGED <<owner, worked, crashes>>
Retry(c) ==
    /\ at[c] = "waiting"
    /\ Goto(c, "scanning")
    /\ ScanAll(c)
    /\ UNCHANGED <<owner, late, worked, crashes>>

StartCount(c) ==
    /\ at[c] = "scanning" /\ todo[c] = {} /\ late[c]
    /\ Goto(c, "counting")
    /\ ScanAll(c)
    /\ UNCHANGED <<owner, late, worked, crashes>>

\* active_holders: a slot that can be locked is locked, and unlocked again.
Probe(c, s) ==
    /\ at[c] = "counting"
    /\ s \in todo[c]
    /\ Lock(c, s)
    /\ Tried(c, s)
    /\ Goto(c, "probing")
    /\ UNCHANGED <<late, worked, crashes>>

EndProbe(c) ==
    /\ at[c] = "probing"
    /\ Unlock({c})
    /\ Goto(c, "counting")
    /\ UNCHANGED <<todo, late, worked, crashes>>

CountTaken(c, s) ==
    /\ at[c] = "counting"
    /\ s \in todo[c]
    /\ Tried(c, s)
    /\ UNCHANGED <<owner, at, late, worked, crashes>>

\* SocketBusyError, or the OSError of a slot directory that cannot be made.
Busy(c) ==
    /\ at[c] = "counting"
    /\ Leave(c)
    /\ UNCHANGED owner

-----------------------------------------------------------------------------

\* Fault: a slot is a file that exists, removed by its holder alone.
CrashKeepsSlots(q) ==
    LET dead == {c \in Callers : Home[c] = q}
    IN  /\ crashes < MaxCrashes
        /\ crashes' = crashes + 1
        /\ at' = [c \in Callers |-> IF c \in dead THEN "idle" ELSE at[c]]
        /\ todo' = [c \in Callers |-> IF c \in dead THEN {} ELSE todo[c]]
        /\ late' = [c \in Callers |-> c \notin dead /\ late[c]]
        /\ worked' = [c \in Callers |-> c \notin dead /\ worked[c]]
        /\ UNCHANGED owner

\* A process dies; its threads go with it and its lock files are closed.
Crash(q) ==
    LET dead == {c \in Callers : Home[c] = q}
    IN  /\ crashes < MaxCrashes
        /\ crashes' = crashes + 1
        /\ Unlock(dead)
        /\ at' = [c \in Callers |-> IF c \in dead THEN "idle" ELSE at[c]]
        /\ todo' = [c \in Callers |-> IF c \in dead THEN {} ELSE todo[c]]
        /\ late' = [c \in Callers |-> c \notin dead /\ late[c]]
        /\ worked' = [c \in Callers |-> c \notin dead /\ worked[c]]

ScanStep(c) ==
    \/ \E s \in Slots : TakeSlot(c, s) \/ SkipSlot(c, s)
    \/ Thrown(c)
    \/ BackOff(c)
    \/ Retry(c)

CountStep(c) ==
    \/ StartCount(c)
    \/ \E s \in Slots : Probe(c, s) \/ CountTaken(c, s)
    \/ EndProbe(c)
    \/ Busy(c)

WorkStep(c) == WorkEnds(c) \/ WorkRaisesOSError(c)

CallerStep(c) == Ask(c) \/ ScanStep(c) \/ CountStep(c) \/ WorkStep(c) \/ Late(c)

Next == (\E c \in Callers : CallerStep(c)) \/ (\E q \in Processes : Crash(q))

Spec == Init /\ [][Next]_vars

-----------------------------------------------------------------------------
\* Safety.

Holds(c, s) == owner[s] = c

\* The places of a caller and the locks agree: a caller at a holding place has
\* exactly one slot, and one elsewhere has none.  It takes a probe, an error
\* of the block or a crash at the wrong step to leave a slot behind.
OneSlotEach ==
    \A c \in Callers :
        IF at[c] \in HoldingPlaces
        THEN \E s \in Slots : \A t \in Slots : Holds(c, t) <=> t = s
        ELSE \A s \in Slots : ~Holds(c, s)

Inside == {c \in Callers : at[c] = "working"}

Bounded == INSTANCE SlotBound WITH inside <- Inside, Bound <- Cardinality(Slots)

\* slots.py:32: "how many heavy operations may run at once, across every
\* process".  No interleaving of scans, probes, failures and deaths puts more
\* than slot_count() blocks on the engine.
MeetsBound == Bounded!BoundSpec

\* engine_slot's docstring (slots.py:87): "Hold one of N slots for the duration
\* of the block".  Once the block has run, the call takes no further slot.
HeldForTheBlock ==
    \A c \in Callers, s \in Slots :
        Holds(c, s) /\ at[c] # "probing" => ~worked[c]

-----------------------------------------------------------------------------
\* Liveness.  A caller's own steps and its clock go on (weak fairness); how
\* long the guarded work takes is up to the engine, and nobody has to ask.

Fairness ==
    \A c \in Callers : WF_vars(ScanStep(c) \/ CountStep(c)) /\ WF_vars(Late(c))

FairSpec == Spec /\ Fairness

\* A caller gets a slot or an answer though the work in front of it may never
\* end: the deadline is not reset by a retry and is reached from every place.
AskersAnswered ==
    \A c \in Callers : at[c] \in AskingPlaces ~> at[c] \notin AskingPlaces

\* A slot is never lost: when all work on the engine ends sooner or later,
\* every slot is free again and again, whoever is killed holding it.
SlotsComeFree ==
    (\A c \in Callers : []<>(at[c] # "working"))
        => \A s \in Slots : []<>(owner[s] = Free)
==============================================================================

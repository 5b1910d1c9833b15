---------------------------- MODULE Environments ----------------------------
(***************************************************************************)
(* The environments directory between `hyperbox build`, which a person     *)
(* runs in another process, and environments(), which the threads of a     *)
(* server call to resolve a name.  The server keeps the map it resolved    *)
(* last, keyed on the directory's own mtime, in module globals that no     *)
(* lock guards.                                                            *)
(*                                                                         *)
(* A step is one system call, one request to the engine or one assignment  *)
(* of a global.  A unit of time is one tick of the file system's clock:    *)
(* two changes within one unit leave the same mtime.  Built-in names,      *)
(* which are always listed, are left out; an environment is its name.      *)
(***************************************************************************)
EXTENDS Naturals

CONSTANTS
    Names,     \* environments
    Built,     \* those a `hyperbox build` is run for, one at a time each
    ByHand,    \* those a person keeps a directory for
    Callers,   \* threads of the server that resolve environments
    Nobody,    \* there is no cached map
    Settle,    \* _MTIME_SETTLE_SECONDS, in ticks
    MaxClock   \* bound on time

ASSUME NameAssumption == Built \cup ByHand \subseteq Names /\ Nobody \notin Callers
ASSUME TimeAssumption == Settle \in Nat /\ MaxClock \in Nat \ {0}

VARIABLES
    clock,
    mtime,      \* of the environments directory; 0 while it does not exist
    entry,      \* per name its directory: "none", "bare" (no manifest), "cut"
                \* (the manifest is open for writing) or "whole"
    dockerfiles,\* names whose directory holds a Dockerfile
    tagged,     \* names that have an image on the engine
    build,      \* per name, the build at work: "idle", "engine", "mkdir",
                \* "open" or "write"
    at,         \* per caller, its place in environments()
    seen,       \* the mtime its scan began with
    left,       \* names listed that it has still to read
    found,      \* names it has resolved: its result
    cache,      \* _env_cache
    cacheTime,  \* _env_mtime
    cacheFrom,  \* history: the caller that assigned _env_cache, or Nobody (None)
    timeFrom,   \* history: the caller that assigned _env_mtime
    cacheDoubt, \* history: the doubts about the scan that _env_cache is from
    doubt,      \* history: the doubts about a caller's scan, or its answer
    promised    \* history: names to be listed when its call began, and ever since

clockVars == <<clock>>
hostVars == <<mtime, entry, dockerfiles, tagged, build>>
scanVars == <<at, seen, left, found, doubt>>
cacheVars == <<cache, cacheTime, cacheFrom, timeFrom, cacheDoubt>>
vars == <<clockVars, hostVars, scanVars, cacheVars, promised>>

\* "tick": the directory was listed in the very tick of its mtime.  "missed":
\* a directory listed had neither a whole manifest nor a Dockerfile yet.
\* "crossed": map and mtime of the cache are from two scans.
Doubts == {"tick", "missed", "crossed"}

ScanPlaces == {"listing", "reading", "keying"}
Places == {"idle", "answered"} \cup ScanPlaces

TypeOK ==
    /\ clock \in 1..MaxClock
    /\ mtime \in 0..MaxClock
    /\ entry \in [Names -> {"none", "bare", "cut", "whole"}]
    /\ dockerfiles \in SUBSET Names
    /\ tagged \in SUBSET Names
    /\ build \in [Names -> {"idle", "engine", "mkdir", "open", "write"}]
    /\ at \in [Callers -> Places]
    /\ seen \in [Callers -> 0..MaxClock]
    /\ left \in [Callers -> SUBSET Names]
    /\ found \in [Callers -> SUBSET Names]
    /\ doubt \in [Callers -> SUBSET Doubts]
    /\ cache \in SUBSET Names
    /\ cacheTime \in 0..MaxClock
    /\ cacheFrom \in Callers \cup {Nobody}
    /\ timeFrom \in Callers \cup {Nobody}
    /\ cacheDoubt \in SUBSET Doubts
    /\ promised \in [Callers -> SUBSET Names]

\* The environments directory does not exist, or has nothing of interest in it.
Init ==
    /\ clock = 1
    /\ mtime \in {0, 1}
    /\ entry = [n \in Names |-> "none"]
    /\ dockerfiles = {}
    /\ tagged = {}
    /\ build = [n \in Names |-> "idle"]
    /\ at = [c \in Callers |-> "idle"]
    /\ seen = [c \in Callers |-> 0]
    /\ left = [c \in Callers |-> {}]
    /\ found = [c \in Callers |-> {}]
    /\ doubt = [c \in Callers |-> {}]
    /\ cache = {}
    /\ cacheTime = 0
    /\ cacheFrom = Nobody
    /\ timeFrom = Nobody
    /\ cacheDoubt = {}
    /\ promised = [c \in Callers |-> {}]

\* Names with a directory, those whose manifest names an image, and those an
\* image is named for: without a readable manifest a Dockerfile is enough.
Made == {n \in Names : entry[n] # "none"}
Recorded == {n \in Names : entry[n] = "whole"}
Listable == Recorded \cup dockerfiles

-----------------------------------------------------------------------------
\* A person, or a v0.2 `hyperbox build`: a directory of its own, and then the
\* Dockerfile in it, which leaves the mtime of the environments directory alone.
MakeOwnDir(n) ==
    /\ n \in ByHand /\ entry[n] = "none"
    /\ entry' = [entry EXCEPT ![n] = "bare"]
    /\ mtime' = clock
    /\ UNCHANGED <<clockVars, dockerfiles, tagged, build, scanVars, cacheVars, promised>>

AddDockerfile(n) ==
    /\ n \in (Made \cap ByHand) \ dockerfiles
    /\ dockerfiles' = dockerfiles \cup {n}
    /\ UNCHANGED <<clockVars, mtime, entry, tagged, build, scanVars, cacheVars, promised>>

-----------------------------------------------------------------------------
\* `hyperbox build`.

Step(n, from, to) ==
    /\ build[n] = from
    /\ build' = [build EXCEPT ![n] = to]

StartBuild(n) ==
    /\ n \in Built
    /\ Step(n, "idle", "engine")
    /\ UNCHANGED <<clockVars, mtime, entry, dockerfiles, tagged, scanVars, cacheVars, promised>>

\* The image is built, or pulled and tagged.  A pull that failed goes
\* unnoticed, but its image is tagged only if an older one is there.
EngineDone(n) ==
    /\ Step(n, "engine", "mkdir")
    /\ tagged' = tagged \cup {n}
    /\ UNCHANGED <<clockVars, mtime, entry, dockerfiles, scanVars, cacheVars, promised>>

\* Fault: the error events of a build go unread.
EngineFailsUnread(n) ==
    /\ Step(n, "engine", "mkdir")
    /\ UNCHANGED <<clockVars, mtime, entry, dockerfiles, tagged, scanVars, cacheVars, promised>>

\* An error event of the build, or an error of the request or of the tag.
EngineFails(n) ==
    /\ Step(n, "engine", "idle")
    /\ UNCHANGED <<clockVars, mtime, entry, dockerfiles, tagged, scanVars, cacheVars, promised>>

\* Fault: the file system rounds the time up.
MakeDirAhead(n) ==
    /\ Step(n, "mkdir", "open")
    /\ IF entry[n] = "none"
       THEN entry' = [entry EXCEPT ![n] = "bare"] /\ mtime' = clock + 1
       ELSE UNCHANGED <<entry, mtime>>
    /\ UNCHANGED <<clockVars, dockerfiles, tagged, scanVars, cacheVars, promised>>

\* _write_manifest: mkdir, where a directory that exists is left as it is.
MakeDir(n) ==
    /\ Step(n, "mkdir", "open")
    /\ IF entry[n] = "none"
       THEN entry' = [entry EXCEPT ![n] = "bare"] /\ mtime' = clock
       ELSE UNCHANGED <<entry, mtime>>
    /\ UNCHANGED <<clockVars, dockerfiles, tagged, scanVars, cacheVars, promised>>

\* write_text: the file is opened, which empties it, ...
OpenManifest(n) ==
    /\ Step(n, "open", "write")
    /\ entry' = [entry EXCEPT ![n] = "cut"]
    /\ promised' = [c \in Callers |-> promised[c] \ ({n} \ dockerfiles)]
    /\ UNCHANGED <<clockVars, mtime, dockerfiles, tagged, scanVars, cacheVars>>

\* ... and then written.
WriteManifest(n) ==
    /\ Step(n, "write", "idle")
    /\ entry' = [entry EXCEPT ![n] = "whole"]
    /\ UNCHANGED <<clockVars, mtime, dockerfiles, tagged, scanVars, cacheVars, promised>>

\* Ctrl-C, a full disk, or the death of the process.
Interrupted(n) ==
    /\ build[n] # "idle"
    /\ build' = [build EXCEPT ![n] = "idle"]
    /\ UNCHANGED <<clockVars, mtime, entry, dockerfiles, tagged, scanVars, cacheVars, promised>>

BuildStep(n) ==
    \/ StartBuild(n) \/ EngineDone(n) \/ EngineFails(n) \/ MakeDir(n)
    \/ OpenManifest(n) \/ WriteManifest(n) \/ Interrupted(n)

-----------------------------------------------------------------------------
\* environments().

\* Fault: an unchanged mtime is taken for proof at once.
SettledAtOnce == TRUE

Settled == clock - mtime > Settle

\* The cached map is served for the mtime just read.
Trusted == cacheFrom # Nobody /\ cacheTime = mtime /\ Settled

Begin(c, place) ==
    /\ at[c] = "idle"
    /\ at' = [at EXCEPT ![c] = place]
    /\ promised' = [promised EXCEPT ![c] = Listable]

\* There is no environments directory.
AnswerBuiltins(c) ==
    /\ mtime = 0
    /\ Begin(c, "answered")
    /\ UNCHANGED <<clockVars, hostVars, seen, left, found, doubt, cacheVars>>

\* What its scan is in doubt of, the answer is; but inside the window a change
\* in the tick of the scan is no excuse.
AnswerCached(c) ==
    /\ mtime # 0
    /\ Trusted
    /\ Begin(c, "answered")
    /\ found' = [found EXCEPT ![c] = cache]
    /\ doubt' = [doubt EXCEPT ![c] =
           (IF clock - mtime > Settle THEN cacheDoubt ELSE cacheDoubt \ {"tick"})
               \cup (IF cacheFrom = timeFrom THEN {} ELSE {"crossed"})]
    /\ UNCHANGED <<clockVars, hostVars, seen, left, cacheVars>>

Scan(c) ==
    /\ mtime # 0
    /\ ~Trusted
    /\ Begin(c, "listing")
    /\ seen' = [seen EXCEPT ![c] = mtime]
    /\ UNCHANGED <<clockVars, hostVars, left, found, doubt, cacheVars>>

\* sorted(directory.iterdir())
List(c) ==
    /\ at[c] = "listing"
    /\ at' = [at EXCEPT ![c] = "reading"]
    /\ left' = [left EXCEPT ![c] = Made]
    /\ doubt' = [doubt EXCEPT ![c] = IF clock = seen[c] THEN {"tick"} ELSE {}]
    /\ UNCHANGED <<clockVars, hostVars, seen, found, cacheVars, promised>>

\* The manifest names an image, or a Dockerfile stands for `<prefix>name:latest`,
\* be that image made or not.
Resolve(c, n) ==
    /\ at[c] = "reading"
    /\ n \in left[c] /\ n \in Listable
    /\ left' = [left EXCEPT ![c] = left[c] \ {n}]
    /\ found' = [found EXCEPT ![c] = found[c] \cup {n}]
    /\ UNCHANGED <<clockVars, hostVars, at, seen, doubt, cacheVars, promised>>

\* Fault: one corrupt manifest ends the scan.
PassOverAll(c, n) ==
    /\ at[c] = "reading"
    /\ n \in left[c] /\ n \notin Listable
    /\ left' = [left EXCEPT ![c] = {}]
    /\ doubt' = [doubt EXCEPT ![c] = doubt[c] \cup {"missed"}]
    /\ UNCHANGED <<clockVars, hostVars, at, seen, found, cacheVars, promised>>

\* No Dockerfile, and no manifest or one that cannot be read: one corrupt
\* environment does not make every other one unresolvable.
PassOver(c, n) ==
    /\ at[c] = "reading"
    /\ n \in left[c] /\ n \notin Listable
    /\ left' = [left EXCEPT ![c] = left[c] \ {n}]
    /\ doubt' = [doubt EXCEPT ![c] = doubt[c] \cup {"missed"}]
    /\ UNCHANGED <<clockVars, hostVars, at, seen, found, cacheVars, promised>>

\* _env_cache = result
StoreCache(c) ==
    /\ at[c] = "reading"
    /\ left[c] = {}
    /\ at' = [at EXCEPT ![c] = "keying"]
    /\ cache' = found[c]
    /\ cacheFrom' = c
    /\ cacheDoubt' = doubt[c]
    /\ UNCHANGED <<clockVars, hostVars, seen, left, found, doubt, cacheTime, timeFrom, promised>>

\* What the caller returns is its own scan, about which there is no doubt.
StoreTime(c, t) ==
    /\ at[c] = "keying"
    /\ at' = [at EXCEPT ![c] = "answered"]
    /\ cacheTime' = t
    /\ timeFrom' = c
    /\ seen' = [seen EXCEPT ![c] = 0]
    /\ doubt' = [doubt EXCEPT ![c] = {}]
    /\ UNCHANGED <<clockVars, hostVars, left, found, cache, cacheFrom,
                   cacheDoubt, promised>>

\* Fault: the mtime is read after the scan.
StoreMtimeNow(c) == StoreTime(c, mtime)

\* _env_mtime = current_mtime
StoreMtime(c) == StoreTime(c, seen[c])

Return(c) ==
    /\ at[c] = "answered"
    /\ at' = [at EXCEPT ![c] = "idle"]
    /\ found' = [found EXCEPT ![c] = {}]
    /\ doubt' = [doubt EXCEPT ![c] = {}]
    /\ promised' = [promised EXCEPT ![c] = {}]
    /\ UNCHANGED <<clockVars, hostVars, seen, left, cacheVars>>

CallStep(c) ==
    \/ AnswerBuiltins(c) \/ AnswerCached(c) \/ Scan(c) \/ List(c)
    \/ (\E n \in Names : Resolve(c, n) \/ PassOver(c, n))
    \/ StoreCache(c) \/ StoreMtime(c) \/ Return(c)

-----------------------------------------------------------------------------

\* The server dies, and another one starts without a cache.
Restart ==
    /\ cacheFrom # Nobody
    /\ at' = [c \in Callers |-> "idle"]
    /\ seen' = [c \in Callers |-> 0]
    /\ left' = [c \in Callers |-> {}]
    /\ found' = [c \in Callers |-> {}]
    /\ doubt' = [c \in Callers |-> {}]
    /\ promised' = [c \in Callers |-> {}]
    /\ cache' = {}
    /\ cacheTime' = 0
    /\ cacheFrom' = Nobody
    /\ timeFrom' = Nobody
    /\ cacheDoubt' = {}
    /\ UNCHANGED <<clockVars, hostVars>>

Tick ==
    /\ clock < MaxClock
    /\ clock' = clock + 1
    /\ UNCHANGED <<hostVars, scanVars, cacheVars, promised>>

Next ==
    \/ \E n \in Names : BuildStep(n) \/ MakeOwnDir(n) \/ AddDockerfile(n)
    \/ \E c \in Callers : CallStep(c)
    \/ Restart
    \/ Tick

Spec == Init /\ [][Next]_vars

-----------------------------------------------------------------------------
\* Safety.

\* policy.environments on its cache: a call lists every environment whose build
\* had ended, or whose directory held a Dockerfile, when the call began, whatever
\* other builds and calls go on; unless the map it is served is in doubt because
\* its scan fell into the tick of the mtime it is kept under, met a directory
\* before its manifest or Dockerfile, or was kept under another scan's mtime.
\* Inside the settle window the tick is no excuse.
ListsWhatIsBuilt ==
    \A c \in Callers :
        at[c] = "answered" /\ doubt[c] = {} => promised[c] \subseteq found[c]

\* builder.run_build records an environment after its image is there: what has a
\* manifest has an image, whichever build failed or was interrupted and wherever.
\* What a call lists, or a cache keeps, without an image has a Dockerfile of its
\* own (environments: it "appears as soon as its directory holds a Dockerfile").
ListedIsTagged ==
    /\ Recorded \subseteq tagged
    /\ cache \cup UNION {found[c] : c \in Callers} \subseteq tagged \cup dockerfiles

\* builder._done: "A running server picks it up without a restart."  The same
\* as ListsWhatIsBuilt with no doubt allowed for.
BuiltIsListed ==
    \A c \in Callers : at[c] = "answered" => promised[c] \subseteq found[c]
==============================================================================

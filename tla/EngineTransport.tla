--------------------------- MODULE EngineTransport ---------------------------
(* How one server process finds the socket of a container engine and talks   *)
(* to it: engine.py, and the clients NativeRuntime keeps.  CONTAINER_HOST     *)
(* and _own_container_host belong to the process and no lock guards them; the *)
(* threads of tool calls and the collector's thread resolve, read and reset   *)
(* them concurrently.  Engines stop, start and come back at other paths.      *)
(* POSIX only: on Windows the endpoint is the first named pipe.               *)
EXTENDS Integers, FiniteSets

CONSTANTS
    Threads,        \* threads of the process that talk to an engine
    DockerPaths,    \* where docker_socket() looks
    PodmanPaths,    \* where podman_socket() looks
    Remote,         \* a CONTAINER_HOST that is no unix:// address
    NoHost,         \* the variable is unset; no address
    Serves,         \* the product that answers at a socket
    Choices,        \* what DOCKER_HOST and CONTAINER_HOST may be at the start
    Calls,          \* the calls threads make: what each is, and of which backend
    MaxMoves        \* bound: how often an engine goes up or down

Sockets == DockerPaths \cup PodmanPaths
Hosts == Sockets \cup {Remote, NoHost}
Backends == {"docker", "podman"}

\* image_present and its like; detect; reclaim_orphans; a call of the runtime;
\* sealing, which the runtime wraps in with_retry.
Ops == {"engine", "detect", "sweep", "runtime", "seal"}
Resolving == {"engine", "detect", "sweep"}
Retrying == {"engine", "seal"}

ASSUME AddressAssumption ==
    /\ Remote \notin Sockets /\ NoHost \notin Sockets /\ Remote # NoHost
    /\ Serves \in [Sockets -> Backends]
    /\ Choices \subseteq [docker : Sockets \cup {NoHost}, podman : Hosts]
    /\ Calls \subseteq (Ops \X Backends) \cup {<<"detect", "auto">>}
    /\ MaxMoves \in Nat

VARIABLES
    live,       \* sockets that accept connections now
    moves,      \* how often that has changed
    chosen,     \* the user's DOCKER_HOST and CONTAINER_HOST
    host,       \* CONTAINER_HOST in os.environ now
    own,        \* _own_container_host
    clients,    \* the address of NativeRuntime._clients[backend]
    at,         \* place of each thread
    op,         \* what its call is
    want,       \* the backend named by the call, or "auto"
    trying,     \* the backend being resolved
    absent,     \* the threads whose container or image does not exist
    current,    \* the local variable of ensure_podman_transport
    target,     \* the address it has resolved, or dials
    again,      \* the threads whose with_retry has repeated
    steady,     \* history: those whose call has seen no engine go up or down and,
                \* if it resolves, none that is up fail a request of it
    dropped,    \* history: those of them for which one that is up has dropped one
                \* connection, that of the request itself
    overlapped  \* history: two threads have been in the resolution at once

environment == <<live, moves, chosen>>
shared == <<host, own, clients>>
locals == <<at, op, want, trying, absent, current, target, again>>
history == <<steady, dropped, overlapped>>
vars == <<environment, shared, locals, history>>

Resolution == {"compare", "drop", "search", "claim", "publish", "restore", "fallback"}
Reset == {"forget", "unset", "disown"}
\* A call has returned or passed on what the engine answered, has reported that
\* no engine can be reached, or that the one that answers is not the one named.
Over == {"idle", "unavailable", "mismatched"}
Places == Over \cup {"client", "docker", "podman", "identify", "ask"}
          \cup Resolution \cup Reset

Init ==
    /\ live \in SUBSET Sockets
    /\ moves = 0
    /\ chosen \in Choices
    /\ host = chosen.podman
    /\ own = NoHost
    /\ clients = [b \in Backends |-> NoHost]
    /\ at = [t \in Threads |-> "idle"]
    /\ op = [t \in Threads |-> "detect"]
    /\ want = [t \in Threads |-> "auto"]
    /\ trying = [t \in Threads |-> "docker"]
    /\ absent = {}
    /\ current = [t \in Threads |-> NoHost]
    /\ target = [t \in Threads |-> NoHost]
    /\ again = {}
    /\ steady = Threads
    /\ dropped = {}
    /\ overlapped = FALSE

Goto(t, place) == at' = [at EXCEPT ![t] = place]

\* The call ends, and its locals with it.
Return(t, place) ==
    /\ Goto(t, place)
    /\ op' = [op EXCEPT ![t] = "detect"]
    /\ want' = [want EXCEPT ![t] = "auto"]
    /\ trying' = [trying EXCEPT ![t] = "docker"]
    /\ absent' = absent \ {t}
    /\ current' = [current EXCEPT ![t] = NoHost]
    /\ target' = [target EXCEPT ![t] = NoHost]
    /\ again' = again \ {t}

(* --- a call --------------------------------------------------------------- *)

\* Where resolve() or NativeRuntime._client() begins.
First(o, w) ==
    IF o \in Resolving THEN IF w = "podman" THEN "podman" ELSE "docker"
    ELSE "client"

Begin(t, o, w, gone) ==
    /\ at[t] \in Over
    /\ gone => o = "engine" \* to the others a 404 is an answer like any
    /\ at' = [at EXCEPT ![t] = First(o, w)]
    /\ op' = [op EXCEPT ![t] = o]
    /\ want' = [want EXCEPT ![t] = w]
    /\ trying' = [trying EXCEPT ![t] = IF w = "podman" THEN "podman" ELSE "docker"]
    /\ absent' = IF gone THEN absent \cup {t} ELSE absent
    /\ steady' = steady \cup {t}
    /\ dropped' = dropped \ {t}
    /\ UNCHANGED <<environment, shared, current, target, again>>

\* NativeRuntime._client: the client of this backend, made on first use.
CachedClient(t) ==
    /\ at[t] = "client"
    /\ IF clients[trying[t]] # NoHost
       THEN /\ Goto(t, "ask")
            /\ target' = [target EXCEPT ![t] = clients[trying[t]]]
       ELSE /\ Goto(t, trying[t])
            /\ UNCHANGED target
    /\ UNCHANGED <<environment, shared, op, want, trying, absent, current, again,
                   steady, dropped>>

\* Fault: what looks like a dropped connection is not repeated.
MayRepeatNever(t, stale) == FALSE

\* Fault: the retry is not counted.
MayRepeatUncounted(t, stale) == stale /\ op[t] \in Retrying

(* Where an exception of attempt t leads: resolve("auto") goes on to Podman,  *)
(* with_retry resets and repeats if the error looks like a dropped connection *)
(* and it has not repeated yet; any other call ends.                          *)
MayRepeat(t, stale) == stale /\ op[t] \in Retrying /\ t \notin again

Fail(t, stale, rejected) ==
    IF rejected /\ want[t] = "auto" /\ trying[t] = "docker"
    THEN /\ Goto(t, "podman")
         /\ trying' = [trying EXCEPT ![t] = "podman"]
         /\ target' = [target EXCEPT ![t] = NoHost]
         /\ UNCHANGED <<op, want, absent, current, again>>
    ELSE IF MayRepeat(t, stale)
    THEN /\ Goto(t, "forget")
         /\ again' = again \cup {t}
         /\ UNCHANGED <<op, want, trying, absent, current, target>>
    ELSE Return(t, "unavailable")

\* endpoint_for has found an address for t.
Resolved(t, address) ==
    /\ target' = [target EXCEPT ![t] = address]
    /\ IF op[t] \in Resolving
       THEN Goto(t, "identify") /\ UNCHANGED clients
       ELSE Goto(t, "ask") /\ clients' = [clients EXCEPT ![trying[t]] = address]
    /\ UNCHANGED <<op, want, trying, absent, current, again>>

(* --- endpoint_for --------------------------------------------------------- *)

\* docker_socket: DOCKER_HOST untested, else a candidate that accepts.
DockerSocket(t) ==
    /\ at[t] = "docker"
    /\ \/ /\ chosen.docker # NoHost
          /\ Resolved(t, chosen.docker)
       \/ /\ chosen.docker = NoHost
          /\ \E s \in DockerPaths \cap live : Resolved(t, s)
       \/ /\ chosen.docker = NoHost /\ DockerPaths \cap live = {}
          /\ Fail(t, FALSE, TRUE)
          /\ UNCHANGED clients
    /\ UNCHANGED <<environment, host, own, steady, dropped>>

\* Fault: an existing unix:// value is trusted without a connection.
ReadHostUntested(t) ==
    /\ at[t] = "podman"
    /\ IF host \in Sockets
       THEN Resolved(t, host)
       ELSE /\ current' = [current EXCEPT ![t] = host]
            /\ Goto(t, "search")
            /\ UNCHANGED <<clients, op, want, trying, absent, target, again>>
    /\ UNCHANGED <<environment, host, own, steady, dropped>>

\* ensure_podman_transport reads CONTAINER_HOST; a socket that accepts is used.
ReadHost(t) ==
    /\ at[t] = "podman"
    /\ IF host \in live
       THEN Resolved(t, host)
       ELSE /\ current' = [current EXCEPT ![t] = host]
            /\ Goto(t, IF host \in Sockets THEN "compare" ELSE "search")
            /\ UNCHANGED <<clients, op, want, trying, absent, target, again>>
    /\ UNCHANGED <<environment, host, own, steady, dropped>>

\* Fault: a dead socket is replaced whoever chose it.
CompareNothing(t) ==
    /\ at[t] = "compare"
    /\ Goto(t, "drop")
    /\ UNCHANGED <<environment, shared, op, want, trying, absent, current, target,
                   again, steady, dropped>>

\* A dead socket somebody else chose is left alone; a dead one of ours goes.
CompareOwn(t) ==
    /\ at[t] = "compare"
    /\ Goto(t, IF current[t] = own THEN "drop" ELSE "fallback")
    /\ UNCHANGED <<environment, shared, op, want, trying, absent, current, target,
                   again, steady, dropped>>

DropHost(t) ==
    /\ at[t] = "drop"
    /\ host' = NoHost
    /\ Goto(t, "search")
    /\ UNCHANGED <<environment, own, clients, op, want, trying, absent, current,
                   target, again, steady, dropped>>

\* podman_socket: the first candidate that accepts, in an order that depends
\* on file times and on the podman command, or none.
SearchSocket(t) ==
    /\ at[t] = "search"
    /\ \/ \E s \in PodmanPaths \cap live :
             /\ target' = [target EXCEPT ![t] = s]
             /\ Goto(t, "claim")
       \/ /\ PodmanPaths \cap live = {}
          /\ Goto(t, IF current[t] \in Sockets THEN "restore" ELSE "fallback")
          /\ UNCHANGED target
    /\ UNCHANGED <<environment, shared, op, want, trying, absent, current, again,
                   steady, dropped>>

\* Fault: what was replaced is remembered instead of what replaces it.
ClaimReplaced(t) ==
    /\ at[t] = "claim"
    /\ own' = current[t]
    /\ Goto(t, "publish")
    /\ UNCHANGED <<environment, host, clients, op, want, trying, absent, current,
                   target, again, steady, dropped>>

ClaimOwn(t) ==
    /\ at[t] = "claim"
    /\ own' = target[t]
    /\ Goto(t, "publish")
    /\ UNCHANGED <<environment, host, clients, op, want, trying, absent, current,
                   target, again, steady, dropped>>

PublishHost(t) ==
    /\ at[t] = "publish"
    /\ host' = target[t]
    /\ Resolved(t, target[t])
    /\ UNCHANGED <<environment, own, steady, dropped>>

\* Nothing accepts: our dead value is put back.
RestoreHost(t) ==
    /\ at[t] = "restore"
    /\ host' = current[t]
    /\ Goto(t, "fallback")
    /\ UNCHANGED <<environment, own, clients, op, want, trying, absent, current,
                   target, again, steady, dropped>>

\* No socket: endpoint_for hands back CONTAINER_HOST as it is now, if set.
Fallback(t) ==
    /\ at[t] = "fallback"
    /\ IF host # NoHost
       THEN Resolved(t, host)
       ELSE Fail(t, FALSE, TRUE) /\ UNCHANGED clients
    /\ UNCHANGED <<environment, host, own, steady, dropped>>

(* --- the engine is asked -------------------------------------------------- *)

\* Nothing accepts at the address: the connection is refused (dropped), or its
\* path is gone; resolve() quotes the error and may cut off the words with_retry
\* looks for.
Unreachable(t, rejected) ==
    /\ target[t] \notin live
    /\ \E stale \in BOOLEAN : Fail(t, stale, rejected)
    /\ UNCHANGED <<steady, dropped>>

\* An engine that is up fails a request of t, or drops its connection.
Fails(t) ==
    /\ target[t] \in live
    /\ IF op[t] \in Resolving
       THEN steady' = steady \ {t} /\ dropped' = dropped \ {t}
       ELSE UNCHANGED <<steady, dropped>>

Drops(t) ==
    IF op[t] \in Resolving /\ t \in steady \ dropped
    THEN target[t] \in live /\ dropped' = dropped \cup {t} /\ UNCHANGED steady
    ELSE Fails(t)

\* An engine that is up answers t.
Answers(t) == target[t] \in live /\ UNCHANGED <<steady, dropped>>

\* resolve: GET /version and the ping under its prefix, and the product must be
\* the one that was named.  A connection dropped, a timeout or an error status
\* is a rejection like a dead socket; what is left of its text decides.
Identify(t) ==
    /\ at[t] = "identify"
    /\ \/ Unreachable(t, TRUE)
       \/ /\ Fails(t)
          /\ \E stale \in BOOLEAN : Fail(t, stale, TRUE)
       \/ /\ Answers(t)
          /\ want[t] # "auto" /\ Serves[target[t]] # want[t]
          /\ Return(t, "mismatched")
       \/ /\ Answers(t)
          /\ want[t] = "auto" \/ Serves[target[t]] = want[t]
          /\ IF op[t] = "detect"
             THEN Return(t, "idle")
             ELSE /\ Goto(t, "ask")
                  /\ UNCHANGED <<op, want, trying, absent, current, target, again>>
    /\ UNCHANGED <<environment, shared>>

(* What t makes of an answer.  A 404, and an error status, is one: the        *)
(* runtime, a seal and a sweep learn that the container is gone, or that the  *)
(* engine refused.  engine.py's own calls pass it to classify(), which knows  *)
(* the exceptions of the SDKs and neither ContainerGoneError nor              *)
(* EngineRefusedError, and so report an engine that cannot be reached.        *)
Classified(t, answer) ==
    IF op[t] = "engine" /\ answer \in {"gone", "error"} THEN "unavailable" ELSE "idle"

\* The request itself: answered, answered with an error status, dropped, or not
\* answered in time, which with_retry does not repeat.
Ask(t) ==
    /\ at[t] = "ask"
    /\ \/ Unreachable(t, FALSE)
       \/ Answers(t) /\ Return(t, Classified(t, IF t \in absent THEN "gone" ELSE "done"))
       \/ Fails(t) /\ Return(t, Classified(t, "error"))
       \/ Fails(t) /\ Fail(t, FALSE, FALSE)
       \/ Drops(t) /\ Fail(t, TRUE, FALSE)
    /\ UNCHANGED <<environment, shared>>

(* --- reset_clients -------------------------------------------------------- *)

\* Fault: the transport is forgotten and CONTAINER_HOST left as it is.
ForgetOwnOnly(t) ==
    /\ at[t] = "forget"
    /\ Goto(t, "disown")
    /\ UNCHANGED <<environment, shared, op, want, trying, absent, current, target,
                   again, steady, dropped>>

ForgetHost(t) ==
    /\ at[t] = "forget"
    /\ Goto(t, IF own # NoHost /\ host = own THEN "unset" ELSE "disown")
    /\ UNCHANGED <<environment, shared, op, want, trying, absent, current, target,
                   again, steady, dropped>>

UnsetHost(t) ==
    /\ at[t] = "unset"
    /\ host' = NoHost
    /\ Goto(t, "disown")
    /\ UNCHANGED <<environment, own, clients, op, want, trying, absent, current,
                   target, again, steady, dropped>>

\* The repeat: engine.py resolves anew, a seal asks the client it already has.
Disown(t) ==
    /\ at[t] = "disown"
    /\ own' = NoHost
    /\ Goto(t, IF op[t] = "seal" THEN "ask" ELSE trying[t])
    /\ current' = [current EXCEPT ![t] = NoHost]
    /\ UNCHANGED <<environment, host, clients, op, want, trying, absent, target,
                   again, steady, dropped>>

(* --- engines -------------------------------------------------------------- *)

\* An engine stops, or starts, or is recreated at another path.
EngineMoves ==
    /\ moves < MaxMoves
    /\ moves' = moves + 1
    /\ live' \in SUBSET Sockets \ {live}
    /\ steady' = {t \in Threads : at[t] \in Over}
    /\ dropped' = {}
    /\ UNCHANGED <<chosen, shared, locals>>

InResolution(t) == at[t] \in Resolution \cup Reset
Overlap == \E t, u \in Threads : t # u /\ InResolution(t) /\ InResolution(u)

ThreadStep(t) ==
    \/ CachedClient(t) \/ DockerSocket(t) \/ ReadHost(t)
    \/ CompareOwn(t) \/ DropHost(t) \/ SearchSocket(t) \/ ClaimOwn(t)
    \/ PublishHost(t) \/ RestoreHost(t) \/ Fallback(t)
    \/ Identify(t) \/ Ask(t)
    \/ ForgetHost(t) \/ UnsetHost(t) \/ Disown(t)

Step ==
    \/ \E t \in Threads : ThreadStep(t)
    \/ \E t \in Threads, call \in Calls, gone \in BOOLEAN :
          Begin(t, call[1], call[2], gone)
    \/ EngineMoves

Next == Step /\ overlapped' = (overlapped \/ Overlap')

Spec == Init /\ [][Next]_vars

(* --- properties ----------------------------------------------------------- *)

TypeOK ==
    /\ live \subseteq Sockets /\ moves \in 0..MaxMoves
    /\ chosen \in Choices
    /\ host \in Hosts /\ own \in PodmanPaths \cup {NoHost}
    /\ clients \in [Backends -> Hosts]
    /\ at \in [Threads -> Places]
    /\ op \in [Threads -> Ops]
    /\ want \in [Threads -> Backends \cup {"auto"}]
    /\ trying \in [Threads -> Backends]
    /\ absent \subseteq Threads /\ again \subseteq Threads /\ steady \subseteq Threads
    /\ current \in [Threads -> Hosts] /\ target \in [Threads -> Hosts]
    /\ dropped \subseteq Threads
    /\ overlapped \in BOOLEAN

\* "DOCKER_HOST wins outright when set" (docker_socket), and of a dead socket
\* somebody chose, "quietly resolving a DIFFERENT endpoint and using that is the
\* same wrong answer" (the comment in ensure_podman_transport; its docstring says
\* that such a value is replaced when a live socket is found, which the code does
\* not do): a socket the user chose is never replaced or erased, dead or alive,
\* and nothing else is ever dialled in its place, whatever the threads of the
\* server do at once.
ChoiceKept ==
    /\ chosen.podman \in Sockets =>
          /\ host = chosen.podman
          /\ clients["podman"] \in {NoHost, chosen.podman}
          /\ \A t \in Threads : trying[t] = "podman" => target[t] \in {NoHost, chosen.podman}
    /\ chosen.docker # NoHost =>
          /\ clients["docker"] \in {NoHost, chosen.docker}
          /\ \A t \in Threads : trying[t] = "docker" => target[t] \in {NoHost, chosen.docker}

\* CONTAINER_HOST is unset, or the user's, or the one this process remembers
\* having set: otherwise a dead value of ours would count as the user's and
\* never be replaced.  It takes one resolution or reset at a time.
HostAccounted ==
    ~overlapped => host \in {NoHost, chosen.podman, own}

Reachable(b) ==
    IF b = "docker"
    THEN IF chosen.docker = NoHost THEN DockerPaths \cap live # {} ELSE chosen.docker \in live
    ELSE IF chosen.podman \in Sockets THEN chosen.podman \in live
         ELSE PodmanPaths \cap live # {}

\* A call that resolves its engine, while no engine goes up or down, reports
\* it unavailable only if it is: a stopped engine is noticed, one that came
\* back elsewhere is found, "auto" takes whichever runs, and a connection that
\* a healthy engine drops is made anew (resolve, with_retry, reset_clients).
\* What is asked about exists, and the engine does no more to the call than
\* drop that one connection.
UnavailableIsTrue ==
    [][\A t \in Threads :
          /\ at[t] \notin Over /\ at'[t] = "unavailable"
          /\ t \in steady' \ absent /\ ~overlapped /\ op[t] \in Resolving
          /\ t \in dropped' => op[t] \in Retrying
          => \A b \in Backends : want[t] \in {b, "auto"} => ~Reachable(b)]_vars

\* How far a place is from the end of the attempt, at most.
Distance(place) ==
    CASE place = "ask" -> 1
      [] place = "identify" -> 2
      [] place \in {"publish", "fallback"} -> 3
      [] place \in {"claim", "restore"} -> 4
      [] place = "search" -> 5
      [] place = "drop" -> 6
      [] place = "compare" -> 7
      [] place \in Backends -> 8
      [] place \in {"client", "disown"} -> 9
      [] place = "unset" -> 10
      [] place = "forget" -> 11

\* Steps t has still to take: an attempt, the repeat of with_retry and the
\* second backend of "auto".
StepsLeft(t) ==
    IF at[t] \in Over THEN 0
    ELSE Distance(at[t])
         + (IF op[t] \in Retrying /\ t \notin again THEN 11 ELSE 0)
         + (IF want[t] = "auto" /\ trying[t] = "docker" THEN 11 ELSE 0)

\* "Run `operation`, once more" (with_retry): however engines move, values
\* of other threads come and go and attempts fail, every step of a call brings
\* it nearer to its end and none of another thread takes it back, so that no
\* call resolves, resets and repeats for ever.
CallsRunOut ==
    [][\A t \in Threads :
          /\ ThreadStep(t) => StepsLeft(t)' < StepsLeft(t)
          /\ at[t] \notin Over => StepsLeft(t)' <= StepsLeft(t)]_vars

\* is_not_found: "A 404 from a live engine is an answer"; get_container raises
\* EngineUnavailableError "whenever it could not be asked", so never when the
\* engine has answered and failed none of the call's requests.
AnsweredIsAvailable ==
    [][\A t \in Threads :
          /\ at[t] = "ask" /\ op[t] = "engine"
          /\ target[t] \in live /\ t \in steady' \ dropped'
          => at'[t] # "unavailable"]_vars
==============================================================================

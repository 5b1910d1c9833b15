------------------------ MODULE EngineTransport_proofs ------------------------
(* Proofs about EngineTransport, for any threads, sockets and choices of the  *)
(* user, however the threads interleave.                                      *)
EXTENDS EngineTransport, TLAPS

USE DEF environment, shared, locals, history, vars, Goto, Backends, Ops, Resolving, Retrying

(* --- types ---------------------------------------------------------------- *)

\* All of TypeOK but the flag.
Types ==
    /\ live \subseteq Sockets /\ moves \in 0..MaxMoves
    /\ chosen \in Choices
    /\ host \in Hosts /\ own \in PodmanPaths \cup {NoHost}
    /\ clients \in [Backends -> Hosts]
    /\ at \in [Threads -> Places]
    /\ op \in [Threads -> Ops]
    /\ want \in [Threads -> Backends \cup {"auto"}]
    /\ trying \in [Threads -> Backends]
    /\ absent \subseteq Threads /\ again \subseteq Threads /\ steady \subseteq Threads
    /\ current \in [Threads -> Hosts] /\ target \in [Threads -> Hosts]
    /\ dropped \subseteq Threads

\* Where a thread is says what it is resolving and what it has found.
Bearings ==
    \A t \in Threads :
        /\ at[t] = "docker" => trying[t] = "docker"
        /\ at[t] \in {"podman"} \cup Resolution => trying[t] = "podman"
        /\ at[t] \in {"claim", "publish"} => target[t] \in PodmanPaths
        /\ at[t] \in Over => target[t] = NoHost /\ t \notin again
        /\ t \in again => op[t] \in Retrying

TransportTypes == Types /\ Bearings

USE DEF Places, Over, Resolution, Reset

LEMMA InitTypes == Init => TransportTypes
<1> SUFFICES ASSUME Init PROVE TransportTypes
  OBVIOUS
<1>1. chosen \in Choices /\ chosen.podman \in Hosts
  BY AddressAssumption DEF Init
<1>2. host \in Hosts
  BY <1>1 DEF Init
<1>3. Types
  BY <1>1, <1>2, AddressAssumption DEF Init, Types, Hosts, Sockets
<1> QED
  BY <1>3 DEF Init, TransportTypes, Bearings

\* What a step does to the history variables, whatever the engine answers.
Histories == steady' \subseteq steady /\ dropped' \subseteq Threads

LEMMA RequestHistories ==
    ASSUME TransportTypes, NEW t \in Threads
    PROVE  /\ Fails(t) \/ Drops(t) \/ Answers(t) => Histories
           /\ UNCHANGED <<steady, dropped>> => Histories
  BY DEF TransportTypes, Types, Fails, Drops, Answers, Histories

\* The locals of a call that has ended.
LEMMA ReturnTypes ==
    ASSUME TransportTypes, NEW t \in Threads, NEW place \in Over, Return(t, place),
           UNCHANGED <<environment, shared>>, Histories
    PROVE  TransportTypes'
<1>1. NoHost \in Hosts
  BY DEF Hosts
<1>2. Types'
  BY <1>1 DEF TransportTypes, Types, Return, Histories
<1>3. Bearings'
  BY DEF TransportTypes, Types, Bearings, Return
<1> QED
  BY <1>2, <1>3 DEF TransportTypes

LEMMA FailTypes ==
    ASSUME TransportTypes, NEW t \in Threads, NEW stale, NEW rejected,
           Fail(t, stale, rejected), UNCHANGED <<environment, shared>>, Histories
    PROVE  TransportTypes'
<1>1. NoHost \in Hosts
  BY DEF Hosts
<1>2. CASE Return(t, "unavailable")
  BY <1>2, ReturnTypes
<1>3. CASE /\ at' = [at EXCEPT ![t] = "podman"]
           /\ trying' = [trying EXCEPT ![t] = "podman"]
           /\ target' = [target EXCEPT ![t] = NoHost]
           /\ UNCHANGED <<op, want, absent, current, again>>
  BY <1>1, <1>3 DEF TransportTypes, Types, Bearings, Histories
<1>4. CASE /\ at' = [at EXCEPT ![t] = "forget"]
           /\ again' = again \cup {t} /\ op[t] \in Retrying
           /\ UNCHANGED <<op, want, trying, absent, current, target>>
  BY <1>4 DEF TransportTypes, Types, Bearings, Histories
<1> QED
  BY <1>2, <1>3, <1>4 DEF Fail, MayRepeat

LEMMA ResolvedTypes ==
    ASSUME TransportTypes, NEW t \in Threads, NEW address \in Hosts,
           Resolved(t, address), UNCHANGED <<environment, own, steady, dropped>>, host' \in Hosts
    PROVE  TransportTypes'
  BY DEF Resolved, TransportTypes, Types, Bearings

LEMMA BeginTypes ==
    ASSUME TransportTypes, NEW t \in Threads, NEW call \in Calls, NEW gone \in BOOLEAN,
           Begin(t, call[1], call[2], gone)
    PROVE  TransportTypes'
<1>1. call[1] \in Ops /\ call[2] \in Backends \cup {"auto"}
  BY AddressAssumption
<1>2. absent' \subseteq Threads
  BY DEF Begin, TransportTypes, Types
<1>3. First(call[1], call[2]) \in {"client", "docker", "podman"}
      /\ (First(call[1], call[2]) = "docker" => call[2] # "podman")
      /\ (First(call[1], call[2]) = "podman" => call[2] = "podman")
  BY <1>1 DEF First
<1>4. Types'
  BY <1>1, <1>2, <1>3 DEF Begin, TransportTypes, Types
<1>5. Bearings'
  BY <1>3 DEF Begin, TransportTypes, Types, Bearings
<1> QED
  BY <1>4, <1>5 DEF TransportTypes

LEMMA StepTypes ==
    ASSUME TransportTypes, NEW t \in Threads, ThreadStep(t)
    PROVE  TransportTypes'
<1> USE DEF TransportTypes
<1>0. NoHost \in Hosts /\ host \in Hosts /\ DockerPaths \subseteq Hosts
      /\ PodmanPaths \subseteq Hosts /\ chosen.docker \in Hosts
      /\ (UNCHANGED <<steady, dropped>> => Histories)
  BY AddressAssumption, RequestHistories DEF Hosts, Sockets, Types
<1>1. CASE CachedClient(t)
  BY <1>1 DEF CachedClient, Types, Bearings
<1>2. CASE DockerSocket(t)
  <2>1. CASE Resolved(t, chosen.docker)
    BY <1>0, <1>2, <2>1, ResolvedTypes DEF DockerSocket, Types
  <2>2. ASSUME NEW s \in DockerPaths, Resolved(t, s)
        PROVE  TransportTypes'
    BY <1>0, <1>2, <2>2, ResolvedTypes DEF DockerSocket
  <2>3. CASE Fail(t, FALSE, TRUE) /\ UNCHANGED clients
    BY <1>0, <1>2, <2>3, FailTypes DEF DockerSocket
  <2> QED
    BY <1>2, <2>1, <2>2, <2>3 DEF DockerSocket
<1>3. CASE ReadHost(t)
  <2>1. CASE Resolved(t, host)
    BY <1>0, <1>3, <2>1, ResolvedTypes DEF ReadHost
  <2>2. CASE /\ current' = [current EXCEPT ![t] = host]
             /\ at' = [at EXCEPT ![t] = IF host \in Sockets THEN "compare" ELSE "search"]
             /\ UNCHANGED <<clients, op, want, trying, absent, target, again>>
    BY <1>0, <1>3, <2>2 DEF ReadHost, Types, Bearings
  <2> QED
    BY <1>3, <2>1, <2>2 DEF ReadHost
<1>4. CASE CompareOwn(t) \/ DropHost(t)
  BY <1>0, <1>4 DEF CompareOwn, DropHost, Types, Bearings
<1>5. CASE SearchSocket(t)
  BY <1>0, <1>5 DEF SearchSocket, Types, Bearings
<1>6. CASE ClaimOwn(t)
  BY <1>6 DEF ClaimOwn, Types, Bearings
<1>7. CASE PublishHost(t)
  <2>1. target[t] \in Hosts /\ host' = target[t]
    BY <1>7 DEF PublishHost, Types
  <2> QED
    BY <1>7, <2>1, ResolvedTypes DEF PublishHost
<1>8. CASE RestoreHost(t)
  BY <1>8 DEF RestoreHost, Types, Bearings
<1>9. CASE Fallback(t)
  BY <1>0, <1>9, ResolvedTypes, FailTypes DEF Fallback
<1>10. CASE Identify(t)
  <2>0. UNCHANGED <<environment, shared>> /\ Histories /\ at[t] = "identify"
    BY <1>10, RequestHistories DEF Identify, Unreachable
  <2>1. ASSUME NEW stale \in BOOLEAN, Fail(t, stale, TRUE) PROVE TransportTypes'
    BY <2>0, <2>1, FailTypes
  <2>2. CASE Return(t, "idle") \/ Return(t, "mismatched")
    BY <2>0, <2>2, ReturnTypes
  <2>3. CASE /\ at' = [at EXCEPT ![t] = "ask"]
             /\ UNCHANGED <<op, want, trying, absent, current, target, again>>
    BY <2>0, <2>3 DEF Types, Bearings, Histories
  <2> QED
    BY <1>10, <2>1, <2>2, <2>3 DEF Identify, Unreachable
<1>11. CASE Ask(t)
  <2>0. UNCHANGED <<environment, shared>> /\ Histories
    BY <1>11, RequestHistories DEF Ask, Unreachable
  <2>1. ASSUME NEW stale \in BOOLEAN, Fail(t, stale, FALSE) PROVE TransportTypes'
    BY <2>0, <2>1, FailTypes
  <2>2. CASE Return(t, "idle") \/ Return(t, "unavailable")
    BY <2>0, <2>2, ReturnTypes
  <2> QED
    BY <1>11, <2>1, <2>2 DEF Ask, Unreachable, Classified
<1>12. CASE ForgetHost(t) \/ UnsetHost(t)
  BY <1>0, <1>12 DEF ForgetHost, UnsetHost, Types, Bearings
<1>13. CASE Disown(t)
  BY <1>0, <1>13 DEF Disown, Types, Bearings
<1> QED
  BY <1>1, <1>2, <1>3, <1>4, <1>5, <1>6, <1>7, <1>8, <1>9, <1>10, <1>11, <1>12, <1>13
     DEF ThreadStep

LEMMA MovesTypes == TransportTypes /\ EngineMoves => TransportTypes'
  BY AddressAssumption DEF EngineMoves, TransportTypes, Types, Bearings

LEMMA NextTypes == TransportTypes /\ [Next]_vars => TransportTypes'
<1> SUFFICES ASSUME TransportTypes, [Next]_vars PROVE TransportTypes'
  OBVIOUS
<1>1. CASE UNCHANGED vars
  BY <1>1 DEF TransportTypes, Types, Bearings
<1> QED
  BY <1>1, StepTypes, BeginTypes, MovesTypes DEF Next, Step

Flagged == overlapped \in BOOLEAN

LEMMA FlagTyped == Spec => []Flagged
<1>1. Init => Flagged
  <2>1. ASSUME overlapped = FALSE PROVE overlapped \in BOOLEAN
    BY <2>1, Zenon
  <2>2. Init => overlapped = FALSE
    BY DEF Init
  <2> QED
    BY <2>1, <2>2, Zenon DEF Flagged
<1>2. Flagged /\ [Next]_vars => Flagged'
  <2>1. ASSUME Flagged, Next PROVE Flagged'
    <3>1. overlapped' = (overlapped \/ Overlap')
      BY <2>1 DEF Next
    <3> QED
      BY <3>1, Zenon DEF Flagged
  <2>2. ASSUME Flagged, overlapped' = overlapped PROVE Flagged'
    BY <2>2 DEF Flagged
  <2> QED
    BY <2>1, <2>2
<1> QED
  BY <1>1, <1>2, PTL DEF Spec

\* Every variable keeps its type.
THEOREM TypesHold == Spec => []TypeOK
<1>1. Spec => []TransportTypes
  BY InitTypes, NextTypes, PTL DEF Spec
<1>2. TransportTypes /\ Flagged => TypeOK
  BY DEF TransportTypes, Types, Flagged, TypeOK
<1> QED
  BY <1>1, <1>2, FlagTyped, PTL

(* --- the user's choice ---------------------------------------------------- *)

\* Where a thread would set or erase CONTAINER_HOST, or has decided to.
Meddling == {"drop", "search", "claim", "publish", "restore", "unset"}

PodmanKept ==
    chosen.podman \in Sockets =>
        /\ host = chosen.podman /\ own = NoHost
        /\ clients["podman"] \in {NoHost, chosen.podman}
        /\ \A t \in Threads :
              /\ at[t] \notin Meddling
              /\ at[t] = "compare" => current[t] = chosen.podman
              /\ trying[t] = "podman" => target[t] \in {NoHost, chosen.podman}

DockerKept ==
    chosen.docker # NoHost =>
        /\ clients["docker"] \in {NoHost, chosen.docker}
        /\ \A t \in Threads : trying[t] = "docker" => target[t] \in {NoHost, chosen.docker}

LEMMA InitKept == Init => PodmanKept /\ DockerKept
  BY DEF Init, PodmanKept, DockerKept, Meddling

LEMMA PodmanStep ==
    ASSUME TransportTypes, PodmanKept, NEW t \in Threads, ThreadStep(t)
    PROVE  PodmanKept'
<1> SUFFICES ASSUME chosen.podman \in Sockets, UNCHANGED chosen PROVE PodmanKept'
  BY DEF PodmanKept, ThreadStep, CachedClient, DockerSocket, ReadHost, CompareOwn, DropHost,
         SearchSocket, ClaimOwn, PublishHost, RestoreHost, Fallback, Identify, Ask, ForgetHost,
         UnsetHost, Disown
<1> USE DEF PodmanKept, Meddling, TransportTypes, Types, Bearings
<1>0. chosen.podman # NoHost
  BY AddressAssumption
<1>1. CASE CachedClient(t)
  BY <1>1 DEF CachedClient
<1>2. CASE DockerSocket(t)
  BY <1>2 DEF DockerSocket, Resolved, Fail, MayRepeat, Return
<1>3. CASE ReadHost(t)
  BY <1>3 DEF ReadHost, Resolved
<1>4. CASE CompareOwn(t)
  BY <1>0, <1>4 DEF CompareOwn
<1>5. CASE Fallback(t)
  BY <1>5 DEF Fallback, Resolved, Fail, MayRepeat, Return
<1>6. CASE Identify(t)
  BY <1>6 DEF Identify, Unreachable, Fail, MayRepeat, Return
<1>7. CASE Ask(t)
  BY <1>7 DEF Ask, Classified, Unreachable, Fail, MayRepeat, Return
<1>8. CASE ForgetHost(t)
  BY <1>8 DEF ForgetHost
<1>9. CASE Disown(t)
  BY <1>9 DEF Disown
<1> QED
  BY <1>1, <1>2, <1>3, <1>4, <1>5, <1>6, <1>7, <1>8, <1>9
     DEF ThreadStep, DropHost, SearchSocket, ClaimOwn, PublishHost, RestoreHost, UnsetHost

LEMMA DockerStep ==
    ASSUME TransportTypes, DockerKept, NEW t \in Threads, ThreadStep(t)
    PROVE  DockerKept'
<1> SUFFICES ASSUME chosen.docker # NoHost, UNCHANGED chosen PROVE DockerKept'
  BY DEF DockerKept, ThreadStep, CachedClient, DockerSocket, ReadHost, CompareOwn, DropHost,
         SearchSocket, ClaimOwn, PublishHost, RestoreHost, Fallback, Identify, Ask, ForgetHost,
         UnsetHost, Disown
<1> USE DEF DockerKept, TransportTypes, Types, Bearings
<1>1. CASE CachedClient(t)
  BY <1>1 DEF CachedClient
<1>2. CASE DockerSocket(t)
  BY <1>2 DEF DockerSocket, Resolved, Fail, MayRepeat, Return
<1>3. CASE ReadHost(t) \/ PublishHost(t)
  BY <1>3 DEF ReadHost, PublishHost, Resolved
<1>4. CASE CompareOwn(t) \/ DropHost(t) \/ SearchSocket(t) \/ ClaimOwn(t) \/ RestoreHost(t)
  BY <1>4 DEF CompareOwn, DropHost, SearchSocket, ClaimOwn, RestoreHost
<1>5. CASE Fallback(t)
  BY <1>5 DEF Fallback, Resolved, Fail, MayRepeat, Return
<1>6. CASE Identify(t)
  BY <1>6 DEF Identify, Unreachable, Fail, MayRepeat, Return
<1>7. CASE Ask(t)
  BY <1>7 DEF Ask, Classified, Unreachable, Fail, MayRepeat, Return
<1>8. CASE ForgetHost(t) \/ UnsetHost(t) \/ Disown(t)
  BY <1>8 DEF ForgetHost, UnsetHost, Disown
<1> QED
  BY <1>1, <1>2, <1>3, <1>4, <1>5, <1>6, <1>7, <1>8 DEF ThreadStep

LEMMA OthersKeep ==
    ASSUME TransportTypes, PodmanKept, DockerKept,
           \/ \E t \in Threads, call \in Calls, gone \in BOOLEAN :
                 Begin(t, call[1], call[2], gone)
           \/ EngineMoves
           \/ UNCHANGED vars
    PROVE  PodmanKept' /\ DockerKept'
<1>1. ASSUME NEW t \in Threads, NEW call \in Calls, NEW gone \in BOOLEAN,
             Begin(t, call[1], call[2], gone)
      PROVE  PodmanKept' /\ DockerKept'
  <2>1. First(call[1], call[2]) \in {"client", "docker", "podman"}
    BY DEF First
  <2> QED
    BY <1>1, <2>1 DEF Begin, TransportTypes, Types, Bearings, PodmanKept, DockerKept, Meddling
<1>2. CASE EngineMoves
  BY <1>2 DEF EngineMoves, PodmanKept, DockerKept
<1>3. CASE UNCHANGED vars
  BY <1>3 DEF PodmanKept, DockerKept
<1> QED
  BY <1>1, <1>2, <1>3

\* A user's choice of an engine's socket is never replaced, erased or passed
\* over, by any number of threads in any order (ensure_podman_transport).
THEOREM ChoiceIsKept == Spec => []ChoiceKept
<1> DEFINE Inv == TransportTypes /\ PodmanKept /\ DockerKept
<1>1. Init => Inv
  BY InitTypes, InitKept
<1>2. Inv /\ [Next]_vars => Inv'
  BY NextTypes, PodmanStep, DockerStep, OthersKeep DEF Next, Step
<1>3. Inv => ChoiceKept
  BY DEF PodmanKept, DockerKept, ChoiceKept
<1> QED
  BY <1>1, <1>2, <1>3, PTL DEF Spec

(* --- one resolution at a time --------------------------------------------- *)

Clean == host \in {NoHost, chosen.podman}

\* What a thread in the resolution, alone there, knows of the two variables.
Knows(t) ==
    /\ at[t] = "compare" => current[t] = host
    /\ at[t] = "drop" => current[t] = own
    /\ at[t] \in {"search", "claim", "publish", "disown"} => Clean
    /\ at[t] = "search" /\ current[t] \in Sockets => current[t] = own
    /\ at[t] = "restore" => current[t] = own
    /\ at[t] = "publish" => own = target[t]

Accounted ==
    ~overlapped => /\ ~Overlap
                   /\ host \in {NoHost, chosen.podman, own}
                   /\ \A t \in Threads : Knows(t)

LEMMA InitAccounted == Init => Accounted
  BY DEF Init, Accounted, Overlap, InResolution, Knows

\* While t is alone in the resolution, nobody else touches the variables.
LEMMA OthersWait ==
    ASSUME TransportTypes, Accounted, NEW t \in Threads, ThreadStep(t), ~overlapped,
           NEW u \in Threads, u # t, InResolution(u)
    PROVE  /\ at'[u] = at[u] /\ current'[u] = current[u] /\ target'[u] = target[u]
           /\ host' = host /\ own' = own /\ chosen' = chosen
<1>1. ~InResolution(t)
  BY DEF Accounted, Overlap
<1> QED
  BY <1>1 DEF InResolution, TransportTypes, Types, ThreadStep, CachedClient, DockerSocket,
              ReadHost, CompareOwn, DropHost, SearchSocket, ClaimOwn, PublishHost, RestoreHost,
              Fallback, Identify, Ask, Classified, ForgetHost, UnsetHost, Disown, Resolved,
              Unreachable, Fail, MayRepeat, Return

\* The thread that takes the step leaves the variables accounted for.
LEMMA StepAccounted ==
    ASSUME TransportTypes, NEW t \in Threads, ThreadStep(t), Knows(t),
           host \in {NoHost, chosen.podman, own}
    PROVE  host' \in {NoHost, chosen.podman, own'} /\ Knows(t)' /\ chosen' = chosen
<1> USE DEF Knows, Clean, TransportTypes, Types, Bearings
<1>0. NoHost \notin Sockets /\ PodmanPaths \subseteq Sockets
  BY AddressAssumption DEF Sockets
<1>1. CASE CachedClient(t)
  BY <1>1 DEF CachedClient
<1>2. CASE DockerSocket(t)
  BY <1>2 DEF DockerSocket, Resolved, Fail, MayRepeat, Return
<1>3. CASE ReadHost(t)
  BY <1>0, <1>3 DEF ReadHost, Resolved
<1>4. CASE CompareOwn(t)
  BY <1>4 DEF CompareOwn
<1>5. CASE DropHost(t)
  BY <1>5 DEF DropHost
<1>6. CASE SearchSocket(t)
  BY <1>6 DEF SearchSocket
<1>7. CASE ClaimOwn(t)
  BY <1>7 DEF ClaimOwn
<1>8. CASE PublishHost(t)
  BY <1>8 DEF PublishHost, Resolved
<1>9. CASE RestoreHost(t)
  BY <1>9 DEF RestoreHost
<1>10. CASE Fallback(t)
  BY <1>10 DEF Fallback, Resolved, Fail, MayRepeat, Return
<1>11. CASE Identify(t)
  BY <1>11 DEF Identify, Unreachable, Fail, MayRepeat, Return
<1>12. CASE Ask(t)
  BY <1>12 DEF Ask, Classified, Unreachable, Fail, MayRepeat, Return
<1>13. CASE ForgetHost(t)
  BY <1>13 DEF ForgetHost
<1>14. CASE UnsetHost(t)
  BY <1>14 DEF UnsetHost
<1>15. CASE Disown(t)
  BY <1>15 DEF Disown
<1> QED
  BY <1>1, <1>2, <1>3, <1>4, <1>5, <1>6, <1>7, <1>8, <1>9, <1>10, <1>11, <1>12, <1>13, <1>14,
     <1>15 DEF ThreadStep

LEMMA NextAccounted == TransportTypes /\ Accounted /\ [Next]_vars => Accounted'
<1> SUFFICES ASSUME TransportTypes, Accounted, [Next]_vars PROVE Accounted'
  OBVIOUS
<1>1. CASE UNCHANGED vars
  BY <1>1 DEF Accounted, Overlap, InResolution, Knows, Clean
<1>2. ASSUME Next, ~overlapped'
      PROVE  /\ ~Overlap'
             /\ host' \in {NoHost, chosen'.podman, own'}
             /\ \A u \in Threads : Knows(u)'
  <2>1. ~overlapped /\ ~Overlap'
    BY <1>2 DEF Next
  <2>2. /\ ~Overlap /\ host \in {NoHost, chosen.podman, own}
        /\ \A u \in Threads : Knows(u)
    BY <2>1 DEF Accounted
  <2>3. ASSUME NEW t \in Threads, ThreadStep(t)
        PROVE  host' \in {NoHost, chosen'.podman, own'} /\ \A u \in Threads : Knows(u)'
    <3>1. /\ host' \in {NoHost, chosen.podman, own'} /\ Knows(t)' /\ chosen' = chosen
      BY <2>2, <2>3, StepAccounted
    <3>2. ASSUME NEW u \in Threads, u # t
          PROVE  Knows(u)'
      <4>1. CASE InResolution(u)
        BY <2>1, <2>2, <2>3, <3>2, <4>1, OthersWait DEF Knows, Clean
      <4>2. CASE ~InResolution(u)
        <5>1. at'[u] = at[u]
          BY <2>3, <3>2
             DEF TransportTypes, Types, ThreadStep, CachedClient, DockerSocket, ReadHost,
                 CompareOwn, DropHost, SearchSocket, ClaimOwn, PublishHost, RestoreHost,
                 Fallback, Identify, Ask, Classified, ForgetHost, UnsetHost, Disown, Resolved,
                 Unreachable, Fail, MayRepeat, Return
        <5> QED
          BY <4>2, <5>1 DEF InResolution, Knows
      <4> QED
        BY <4>1, <4>2
    <3> QED
      BY <3>1, <3>2
  <2>4. ASSUME NEW t \in Threads, NEW call \in Calls, NEW gone \in BOOLEAN,
               Begin(t, call[1], call[2], gone)
        PROVE  host' \in {NoHost, chosen'.podman, own'} /\ \A u \in Threads : Knows(u)'
    <3>1. First(call[1], call[2]) \in {"client", "docker", "podman"}
      BY DEF First
    <3> QED
      BY <2>2, <2>4, <3>1 DEF Begin, TransportTypes, Types, Knows, Clean
  <2>5. CASE EngineMoves
    BY <2>1, <2>2, <2>5 DEF EngineMoves, Knows, Clean
  <2> QED
    BY <1>2, <2>1, <2>2, <2>3, <2>4, <2>5 DEF Next, Step
<1> QED
  BY <1>1, <1>2 DEF Accounted

\* As long as no two threads have been in the resolution at once, a value of
\* CONTAINER_HOST that is not the user's is remembered as our own, whatever
\* fails and wherever engines move: so it can be replaced (reset_clients).
THEOREM HostIsAccounted == Spec => []HostAccounted
<1> DEFINE Inv == TransportTypes /\ Accounted
<1>1. Init => Inv
  BY InitTypes, InitAccounted
<1>2. Inv /\ [Next]_vars => Inv'
  BY NextTypes, NextAccounted
<1>3. Inv => HostAccounted
  BY DEF Accounted, HostAccounted
<1> QED
  BY <1>1, <1>2, <1>3, PTL DEF Spec

(* --- what a failed call has found ----------------------------------------- *)

\* A call in progress that resolves its engine and has seen none go up or down,
\* nor one that is up fail a request of it, but for one connection it dropped.
Tracked(t) == t \in steady /\ op[t] \in Resolving /\ at[t] \notin Over

\* What it has found out about the engines, at each place.
Sees(t) ==
    /\ at[t] # "client"
    /\ op[t] # "detect" => want[t] # "auto"
    /\ want[t] # "auto" => want[t] = trying[t]
    /\ want[t] = "auto" /\ trying[t] = "podman" => ~Reachable("docker")
    /\ at[t] = "compare" => current[t] \in Sockets \ live
    /\ at[t] \in {"claim", "publish"} => target[t] \in live /\ Reachable("podman")
    /\ at[t] \in {"restore", "fallback"} => ~Reachable("podman")
    /\ at[t] \in {"identify", "ask"} => (target[t] \in live <=> Reachable(trying[t]))
    /\ at[t] = "ask" => op[t] # "detect"
    /\ t \in again \ dropped => ~Reachable(trying[t])

Seen == ~overlapped => \A t \in Threads : Tracked(t) => Sees(t)

\* The steps of the threads neither move engines nor change what was chosen,
\* and leave the locals of the other threads alone.
LEMMA StepFrame ==
    ASSUME TransportTypes, NEW t \in Threads, ThreadStep(t)
    PROVE  /\ UNCHANGED <<live, chosen>> /\ steady' \subseteq steady
           /\ at[t] \notin Over
           /\ \A u \in Threads \ {t} :
                 /\ at'[u] = at[u] /\ op'[u] = op[u] /\ want'[u] = want[u]
                 /\ trying'[u] = trying[u] /\ current'[u] = current[u]
                 /\ target'[u] = target[u]
                 /\ u \in again' <=> u \in again
                 /\ u \in steady' <=> u \in steady
                 /\ u \in dropped' <=> u \in dropped
<1> USE DEF TransportTypes, Types, Resolved, Fail, MayRepeat, Return
<1>1. CASE CachedClient(t) \/ DockerSocket(t) \/ ReadHost(t) \/ CompareOwn(t) \/ DropHost(t)
  BY <1>1 DEF CachedClient, DockerSocket, ReadHost, CompareOwn, DropHost
<1>2. CASE SearchSocket(t) \/ ClaimOwn(t) \/ PublishHost(t) \/ RestoreHost(t) \/ Fallback(t)
  BY <1>2 DEF SearchSocket, ClaimOwn, PublishHost, RestoreHost, Fallback
<1>3. CASE Identify(t)
  BY <1>3 DEF Identify, Unreachable, Fails, Answers
<1>4. CASE Ask(t)
  BY <1>4 DEF Ask, Classified, Unreachable, Fails, Drops, Answers
<1>5. CASE ForgetHost(t) \/ UnsetHost(t) \/ Disown(t)
  BY <1>5 DEF ForgetHost, UnsetHost, Disown
<1> QED
  BY <1>1, <1>2, <1>3, <1>4, <1>5 DEF ThreadStep

\* What a report that no engine can be reached has to be true of, and when an
\* engine that is up has failed t, or what t asks about does not exist.
NoneReachable(t) == \A b \in Backends : want[t] \in {b, "auto"} => ~Reachable(b)

Excused(t) ==
    t \in absent \/ t \notin steady' \/ (t \in dropped' /\ op[t] \notin Retrying)

\* An attempt that fails has found its backend unreachable: the call goes on
\* with what it knows, or ends in a report that is true.
LEMMA FailSees ==
    ASSUME TransportTypes, NEW t \in Threads, NEW stale \in BOOLEAN, NEW rejected \in BOOLEAN,
           Fail(t, stale, rejected), UNCHANGED <<live, chosen, steady, dropped>>,
           at[t] \notin Over, Tracked(t), Sees(t), ~Reachable(trying[t]),
           rejected \/ want[t] # "auto"
    PROVE  /\ Tracked(t)' => Sees(t)'
           /\ at'[t] = "unavailable" => NoneReachable(t)
<1> USE DEF TransportTypes, Types
<1>1. Reachable("docker")' = Reachable("docker") /\ Reachable("podman")' = Reachable("podman")
  BY DEF Reachable
<1>2. CASE rejected /\ want[t] = "auto" /\ trying[t] = "docker"
  BY <1>1, <1>2 DEF Fail, Sees, Bearings
<1>3. CASE ~(rejected /\ want[t] = "auto" /\ trying[t] = "docker") /\ MayRepeat(t, stale)
  BY <1>1, <1>3 DEF Fail, Sees
<1>4. CASE ~(rejected /\ want[t] = "auto" /\ trying[t] = "docker") /\ ~MayRepeat(t, stale)
  <2>1. Return(t, "unavailable")
    BY <1>4 DEF Fail
  <2>2. ~Tracked(t)'
    BY <2>1 DEF Return, Tracked
  <2>3. ASSUME NEW b \in Backends, want[t] \in {b, "auto"} PROVE ~Reachable(b)
    BY <1>4, <2>3 DEF Sees
  <2> QED
    BY <2>2, <2>3 DEF NoneReachable
<1> QED
  BY <1>2, <1>3, <1>4

\* The thread that takes the step knows what Sees says of its next place; if it
\* ends in a report that no engine can be reached, none can.
LEMMA OwnSees ==
    ASSUME TransportTypes, PodmanKept, NEW t \in Threads, ThreadStep(t), Knows(t),
           host \in {NoHost, chosen.podman, own}, Tracked(t), Sees(t)
    PROVE  /\ Tracked(t)' => Sees(t)'
           /\ at'[t] = "unavailable" => Excused(t) \/ NoneReachable(t)
<1> USE DEF TransportTypes, Types
<1> DEFINE Goal ==
        /\ Tracked(t)' => Sees(t)'
        /\ at'[t] = "unavailable" => Excused(t) \/ NoneReachable(t)
<1>0. /\ UNCHANGED <<live, chosen>> /\ at[t] \notin Over
      /\ Reachable("docker")' = Reachable("docker")
      /\ Reachable("podman")' = Reachable("podman")
      /\ trying[t] \in {"docker", "podman"} /\ op[t] \in Resolving
      /\ NoHost \notin Sockets /\ live \subseteq Sockets
  BY StepFrame, AddressAssumption DEF Reachable, Tracked
<1>1. CASE CachedClient(t)
  BY <1>0, <1>1 DEF CachedClient, Sees, Tracked
<1>2. CASE DockerSocket(t)
  <2>1. trying[t] = "docker"
    BY <1>2 DEF DockerSocket, Bearings
  <2>2. ASSUME NEW s, Resolved(t, s), s \in live <=> Reachable("docker"),
               UNCHANGED <<steady, dropped>>
        PROVE  Goal
    BY <1>0, <2>1, <2>2 DEF Resolved, Sees, Tracked
  <2>3. CASE chosen.docker = NoHost /\ DockerPaths \cap live = {} /\ Fail(t, FALSE, TRUE)
    <3>1. ~Reachable("docker")
      BY <2>3 DEF Reachable
    <3> QED
      BY <1>0, <1>2, <2>1, <2>3, <3>1, FailSees DEF DockerSocket
  <2> QED
    BY <1>2, <2>2, <2>3 DEF DockerSocket, Reachable
<1>3. CASE ReadHost(t)
  <2>1. host \in live => Reachable("podman")
    BY <1>0 DEF Reachable, PodmanKept
  <2> QED
    BY <1>0, <1>3, <2>1 DEF ReadHost, Resolved, Sees, Tracked, Bearings
<1>4. CASE CompareOwn(t)
  <2>1. current[t] # own => ~Reachable("podman")
    BY <1>0, <1>4 DEF CompareOwn, Knows, Sees, Reachable
  <2> QED
    BY <1>0, <1>4, <2>1 DEF CompareOwn, Sees, Tracked
<1>5. CASE DropHost(t)
  BY <1>0, <1>5 DEF DropHost, Sees, Tracked
<1>6. CASE SearchSocket(t)
  <2>1. PodmanPaths \cap live = {} <=> ~Reachable("podman")
    BY <1>6 DEF SearchSocket, PodmanKept, Meddling, Reachable
  <2> QED
    BY <1>0, <1>6, <2>1 DEF SearchSocket, Sees, Tracked
<1>7. CASE ClaimOwn(t)
  BY <1>0, <1>7 DEF ClaimOwn, Sees, Tracked
<1>8. CASE PublishHost(t)
  BY <1>0, <1>8 DEF PublishHost, Resolved, Sees, Tracked, Bearings
<1>9. CASE RestoreHost(t)
  BY <1>0, <1>9 DEF RestoreHost, Sees, Tracked
<1>10. CASE Fallback(t)
  <2>1. trying[t] = "podman" /\ ~Reachable("podman")
    BY <1>10 DEF Fallback, Bearings, Sees
  <2>2. host \notin live
    BY <1>0, <2>1 DEF Reachable, PodmanKept
  <2>3. CASE Resolved(t, host)
    BY <1>0, <1>10, <2>1, <2>3, <2>2 DEF Fallback, Resolved, Sees, Tracked
  <2>4. CASE Fail(t, FALSE, TRUE)
    BY <1>0, <1>10, <2>1, <2>4, FailSees DEF Fallback
  <2> QED
    BY <1>10, <2>3, <2>4 DEF Fallback
<1>11. CASE Identify(t)
  <2>1. CASE Unreachable(t, TRUE)
    <3>1. ~Reachable(trying[t])
      BY <1>11, <2>1 DEF Identify, Unreachable, Sees
    <3> QED
      BY <1>0, <1>11, <2>1, <3>1, FailSees DEF Identify, Unreachable
  <2>2. CASE Fails(t)
    BY <1>0, <2>2 DEF Fails, Tracked, Excused
  <2>3. CASE Return(t, "idle") \/ Return(t, "mismatched")
    BY <2>3 DEF Return, Tracked
  <2>4. CASE /\ op[t] # "detect" /\ Answers(t)
             /\ at' = [at EXCEPT ![t] = "ask"]
             /\ UNCHANGED <<op, want, trying, absent, current, target, again>>
    BY <1>0, <1>11, <2>4 DEF Identify, Answers, Sees, Tracked
  <2> QED
    BY <1>11, <2>1, <2>2, <2>3, <2>4 DEF Identify
<1>12. CASE Ask(t)
  <2>1. CASE Unreachable(t, FALSE)
    <3>1. ~Reachable(trying[t]) /\ want[t] # "auto"
      BY <1>12, <2>1 DEF Ask, Unreachable, Sees
    <3> QED
      BY <1>0, <1>12, <2>1, <3>1, FailSees DEF Ask, Unreachable
  <2>2. CASE Return(t, Classified(t, IF t \in absent THEN "gone" ELSE "done"))
    BY <2>2 DEF Return, Classified, Tracked, Excused
  <2>3. CASE Fails(t)
    BY <1>0, <2>3 DEF Fails, Tracked, Excused
  <2>4. CASE Drops(t) /\ ~Fails(t) /\ Fail(t, TRUE, FALSE)
    <3>1. target[t] \in live /\ t \notin dropped /\ dropped' = dropped \cup {t}
      BY <2>4 DEF Drops
    <3>2. t \notin again
      BY <1>12, <3>1 DEF Ask, Sees
    <3>3. CASE op[t] \notin Retrying
      <4>1. Return(t, "unavailable")
        BY <2>4, <3>3 DEF Fail, MayRepeat
      <4> QED
        BY <3>1, <3>3, <4>1 DEF Return, Tracked, Excused
    <3>4. CASE op[t] \in Retrying
      BY <1>0, <1>12, <2>4, <3>1, <3>2, <3>4 DEF Ask, Fail, MayRepeat, Sees
    <3> QED
      BY <3>3, <3>4
  <2> QED
    BY <1>12, <2>1, <2>2, <2>3, <2>4 DEF Ask
<1>13. CASE ForgetHost(t) \/ UnsetHost(t)
  BY <1>0, <1>13 DEF ForgetHost, UnsetHost, Sees, Tracked
<1>14. CASE Disown(t)
  BY <1>0, <1>14 DEF Disown, Sees, Tracked
<1> QED
  BY <1>1, <1>2, <1>3, <1>4, <1>5, <1>6, <1>7, <1>8, <1>9, <1>10, <1>11, <1>12, <1>13, <1>14
     DEF ThreadStep

LEMMA BeginSees ==
    ASSUME TransportTypes, NEW t \in Threads, NEW call \in Calls, NEW gone \in BOOLEAN,
           Begin(t, call[1], call[2], gone)
    PROVE  /\ Tracked(t)' => Sees(t)'
           /\ at'[t] # "unavailable"
           /\ \A u \in Threads \ {t} :
                 /\ Tracked(u) /\ Sees(u) => Sees(u)'
                 /\ Tracked(u)' => Tracked(u)
                 /\ at'[u] = at[u]
<1> USE DEF TransportTypes, Types
<1>1. /\ call[1] \in Ops /\ call[2] \in Backends \cup {"auto"}
      /\ call[2] = "auto" => call[1] = "detect"
  BY AddressAssumption
<1>2. /\ call[1] \in Resolving => First(call[1], call[2]) # "client"
      /\ First(call[1], call[2]) \in {"client", "docker", "podman"}
  BY DEF First
<1>3. Reachable("docker")' = Reachable("docker") /\ Reachable("podman")' = Reachable("podman")
  BY DEF Begin, Reachable
<1>4. /\ at'[t] = First(call[1], call[2]) /\ op'[t] = call[1] /\ want'[t] = call[2]
      /\ trying'[t] = IF call[2] = "podman" THEN "podman" ELSE "docker"
  BY DEF Begin
<1>5. t \notin again'
  BY DEF Begin, Bearings
<1>6. Tracked(t)' => Sees(t)'
  BY <1>1, <1>2, <1>4, <1>5 DEF Sees, Tracked
<1>7. ASSUME NEW u \in Threads \ {t}
      PROVE  /\ Tracked(u) /\ Sees(u) => Sees(u)'
             /\ Tracked(u)' => Tracked(u)
             /\ at'[u] = at[u]
  <2>1. /\ at'[u] = at[u] /\ op'[u] = op[u] /\ want'[u] = want[u]
        /\ trying'[u] = trying[u] /\ current'[u] = current[u] /\ target'[u] = target[u]
        /\ live' = live /\ (u \in steady' => u \in steady)
        /\ again' = again /\ (u \in dropped' <=> u \in dropped)
    BY DEF Begin
  <2>2. Reachable(trying[u])' = Reachable(trying[u]) /\ trying[u] \in Backends
    BY <1>3, <2>1
  <2> QED
    BY <1>3, <2>1, <2>2 DEF Sees, Tracked
<1> QED
  BY <1>2, <1>4, <1>6, <1>7

LEMMA NextSeen ==
    ASSUME TransportTypes, PodmanKept, Accounted, Seen, [Next]_vars
    PROVE  Seen'
<1> USE DEF TransportTypes, Types
<1>1. CASE UNCHANGED vars
  <2>1. ASSUME NEW t \in Threads, Tracked(t), Sees(t)
        PROVE  Sees(t)'
    BY <1>1, <2>1 DEF Sees, Reachable
  <2> QED
    BY <1>1, <2>1 DEF Seen, Tracked
<1>2. ASSUME Next, ~overlapped', NEW u \in Threads, Tracked(u)'
      PROVE  Sees(u)'
  <2>1. ~overlapped
    BY <1>2 DEF Next
  <2>2. /\ host \in {NoHost, chosen.podman, own} /\ \A t \in Threads : Knows(t)
        /\ \A t \in Threads : Tracked(t) => Sees(t)
    BY <2>1 DEF Accounted, Seen
  <2>3. ASSUME NEW t \in Threads, ThreadStep(t)
        PROVE  Sees(u)'
    <3>1. /\ UNCHANGED <<live, chosen>> /\ steady' \subseteq steady /\ at[t] \notin Over
      BY <2>3, StepFrame
    <3>2. CASE u = t
      <4>1. op[t] \in Resolving
        BY <1>2, <2>3, <3>1, <3>2
           DEF Tracked, ThreadStep, CachedClient, DockerSocket, ReadHost, CompareOwn,
               DropHost, SearchSocket, ClaimOwn, PublishHost, RestoreHost, Fallback, Identify,
               Ask, Classified, ForgetHost, UnsetHost, Disown, Resolved, Unreachable, Fail,
               MayRepeat, Return
      <4>2. Tracked(t)
        BY <1>2, <3>1, <3>2, <4>1 DEF Tracked
      <4> QED
        BY <1>2, <2>2, <2>3, <3>2, <4>2, OwnSees
    <3>3. CASE u # t
      <4>1. /\ at'[u] = at[u] /\ op'[u] = op[u] /\ want'[u] = want[u]
            /\ trying'[u] = trying[u] /\ current'[u] = current[u] /\ target'[u] = target[u]
            /\ u \in again' <=> u \in again
            /\ u \in dropped' <=> u \in dropped
        BY <2>3, <3>3, StepFrame
      <4>2. \A b \in Backends : Reachable(b)' = Reachable(b)
        BY <3>1 DEF Reachable
      <4>3. Tracked(u) /\ Sees(u)
        BY <1>2, <2>2, <3>1, <4>1 DEF Tracked
      <4> QED
        BY <3>1, <4>1, <4>2, <4>3 DEF Sees
    <3> QED
      BY <3>2, <3>3
  <2>4. ASSUME NEW t \in Threads, NEW call \in Calls, NEW gone \in BOOLEAN,
               Begin(t, call[1], call[2], gone)
        PROVE  Sees(u)'
    BY <1>2, <2>2, <2>4, BeginSees
  <2>5. CASE EngineMoves
    BY <1>2, <2>5 DEF EngineMoves, Tracked
  <2> QED
    BY <1>2, <2>3, <2>4, <2>5 DEF Next, Step
<1> QED
  BY <1>1, <1>2 DEF Seen

\* "The container engine could not be reached" is never said of one that could
\* be: a call that resolves its engine, during which no engine went up or down
\* and no two threads met in the resolution, reports it unavailable only if
\* neither the user's choice nor any candidate of any backend it may take
\* accepts connections.  An engine that is up may drop the connection of its
\* request once, if the call is one that with_retry repeats; what the theorem
\* leaves out is an engine that fails the call in any other way, and a
\* container or image that does not exist (resolve, with_retry, reset_clients).
THEOREM UnavailableTrue == Spec => UnavailableIsTrue
<1> DEFINE Inv == TransportTypes /\ PodmanKept /\ DockerKept /\ Accounted /\ Seen
           Told == \A t \in Threads :
                      /\ at[t] \notin Over /\ at'[t] = "unavailable"
                      /\ t \in steady' \ absent /\ ~overlapped /\ op[t] \in Resolving
                      /\ t \in dropped' => op[t] \in Retrying
                      => \A b \in Backends : want[t] \in {b, "auto"} => ~Reachable(b)
<1>1. Init => Inv
  <2>1. Init => Seen
    BY DEF Init, Seen, Tracked
  <2> QED
    BY <2>1, InitTypes, InitKept, InitAccounted
<1>2. Inv /\ [Next]_vars => Inv'
  <2>1. Inv /\ [Next]_vars => PodmanKept' /\ DockerKept'
    BY PodmanStep, DockerStep, OthersKeep DEF Next, Step
  <2> QED
    BY <2>1, NextTypes, NextAccounted, NextSeen
<1>3. Inv /\ [Next]_vars => [Told]_vars
  <2> SUFFICES ASSUME Inv, Next, NEW u \in Threads, at[u] \notin Over,
                      at'[u] = "unavailable", u \in steady' \ absent, ~overlapped,
                      op[u] \in Resolving, u \in dropped' => op[u] \in Retrying
               PROVE  \A b \in Backends : want[u] \in {b, "auto"} => ~Reachable(b)
    OBVIOUS
  <2>1. ~EngineMoves
    BY DEF EngineMoves
  <2>2. u \in steady
    BY <2>1, StepFrame DEF Next, Step, Begin
  <2>3. /\ host \in {NoHost, chosen.podman, own} /\ Knows(u)
        /\ Tracked(u) /\ Sees(u)
    BY <2>2 DEF Accounted, Seen, Tracked
  <2>4. ASSUME NEW t \in Threads, ThreadStep(t)
        PROVE  \A b \in Backends : want[u] \in {b, "auto"} => ~Reachable(b)
    <3>1. u = t
      BY <2>4, StepFrame
    <3> QED
      BY <2>3, <2>4, <3>1, OwnSees DEF Excused, NoneReachable
  <2>5. ASSUME NEW t \in Threads, NEW call \in Calls, NEW gone \in BOOLEAN,
               Begin(t, call[1], call[2], gone)
        PROVE  FALSE
    BY <2>5, BeginSees
  <2> QED
    BY <2>1, <2>4, <2>5 DEF Next, Step
<1>4. Spec => [][Told]_vars
  BY <1>1, <1>2, <1>3, PTL DEF Spec
<1> QED
  BY <1>4 DEF UnavailableIsTrue

(* --- the end of a call ---------------------------------------------------- *)

\* The measure of CallsRunOut, place by place.
LEMMA Distances ==
    /\ \A place \in Places \ Over : Distance(place) \in 1..11
    /\ Distance("ask") = 1 /\ Distance("identify") = 2
    /\ Distance("publish") = 3 /\ Distance("fallback") = 3
    /\ Distance("claim") = 4 /\ Distance("restore") = 4
    /\ Distance("search") = 5 /\ Distance("drop") = 6 /\ Distance("compare") = 7
    /\ Distance("docker") = 8 /\ Distance("podman") = 8
    /\ Distance("client") = 9 /\ Distance("disown") = 9
    /\ Distance("unset") = 10 /\ Distance("forget") = 11
  BY DEF Distance

LEMMA StepsLeftNat ==
    ASSUME TransportTypes, NEW t \in Threads
    PROVE  /\ StepsLeft(t) \in Nat
           /\ at[t] \notin Over => StepsLeft(t) > 0
<1>1. at[t] \in Places
  BY DEF TransportTypes, Types
<1>2. CASE at[t] \in Over
  BY <1>2 DEF StepsLeft
<1>3. CASE at[t] \notin Over
  <2>1. Distance(at[t]) \in 1..11
    BY <1>1, <1>3, Distances
  <2> QED
    BY <1>3, <2>1 DEF StepsLeft
<1> QED
  BY <1>2, <1>3

\* A failed attempt goes on with what it has not tried, or ends.
LEMMA FailNearer ==
    ASSUME TransportTypes, NEW t \in Threads, NEW stale, NEW rejected,
           Fail(t, stale, rejected), at[t] \notin Over
    PROVE  StepsLeft(t)' < StepsLeft(t)
<1> USE DEF TransportTypes, Types
<1>0. Distance(at[t]) \in 1..11
  BY Distances
<1>1. CASE rejected /\ want[t] = "auto" /\ trying[t] = "docker"
  <2>1. /\ at'[t] = "podman" /\ trying'[t] = "podman"
        /\ UNCHANGED <<op, want, again>>
    BY <1>1 DEF Fail
  <2> QED
    BY <1>0, <1>1, <2>1, Distances DEF StepsLeft
<1>2. CASE ~(rejected /\ want[t] = "auto" /\ trying[t] = "docker") /\ MayRepeat(t, stale)
  <2>1. /\ at'[t] = "forget" /\ t \in again'
        /\ UNCHANGED <<op, want, trying>>
        /\ op[t] \in Retrying /\ t \notin again
    BY <1>2 DEF Fail, MayRepeat
  <2> QED
    BY <1>0, <2>1, Distances DEF StepsLeft
<1>3. CASE ~(rejected /\ want[t] = "auto" /\ trying[t] = "docker") /\ ~MayRepeat(t, stale)
  <2>1. at'[t] = "unavailable"
    BY <1>3 DEF Fail, Return
  <2>2. StepsLeft(t)' = 0 /\ StepsLeft(t) > 0
    BY <2>1, StepsLeftNat DEF StepsLeft
  <2> QED
    BY <2>2
<1> QED
  BY <1>1, <1>2, <1>3

\* A step to a place nearer to the end, with what is still to be tried as it was.
LEMMA PlaceNearer ==
    ASSUME TransportTypes, NEW t \in Threads, UNCHANGED <<op, want, trying, again>>,
           at[t] \notin Over,
           at'[t] \notin Over => Distance(at'[t]) \in Nat /\ Distance(at'[t]) < Distance(at[t])
    PROVE  StepsLeft(t)' < StepsLeft(t)
<1>1. Distance(at[t]) \in 1..11
  BY Distances DEF TransportTypes, Types
<1>2. CASE at'[t] \in Over
  <2>1. StepsLeft(t)' = 0 /\ StepsLeft(t) > 0
    BY <1>2, StepsLeftNat DEF StepsLeft
  <2> QED
    BY <2>1
<1>3. CASE at'[t] \notin Over
  BY <1>1, <1>3 DEF StepsLeft
<1> QED
  BY <1>2, <1>3

LEMMA StepNearer ==
    ASSUME TransportTypes, NEW t \in Threads, ThreadStep(t)
    PROVE  StepsLeft(t)' < StepsLeft(t)
<1> USE DEF TransportTypes, Types
<1>0. at[t] \notin Over /\ trying[t] \in Backends
  BY StepFrame
<1>1. CASE CachedClient(t)
  BY <1>0, <1>1, PlaceNearer, Distances DEF CachedClient
<1>2. CASE DockerSocket(t)
  <2>1. ASSUME NEW s, Resolved(t, s) PROVE StepsLeft(t)' < StepsLeft(t)
    BY <1>0, <1>2, <2>1, PlaceNearer, Distances DEF DockerSocket, Resolved
  <2> QED
    BY <1>0, <1>2, <2>1, FailNearer DEF DockerSocket
<1>3. CASE ReadHost(t)
  BY <1>0, <1>3, PlaceNearer, Distances DEF ReadHost, Resolved
<1>4. CASE CompareOwn(t) \/ DropHost(t)
  BY <1>0, <1>4, PlaceNearer, Distances DEF CompareOwn, DropHost
<1>5. CASE SearchSocket(t) \/ ClaimOwn(t)
  BY <1>0, <1>5, PlaceNearer, Distances DEF SearchSocket, ClaimOwn
<1>6. CASE PublishHost(t)
  BY <1>0, <1>6, PlaceNearer, Distances DEF PublishHost, Resolved
<1>7. CASE RestoreHost(t)
  BY <1>0, <1>7, PlaceNearer, Distances DEF RestoreHost
<1>8. CASE Fallback(t)
  <2>1. CASE Resolved(t, host)
    BY <1>0, <1>8, <2>1, PlaceNearer, Distances DEF Fallback, Resolved
  <2> QED
    BY <1>0, <1>8, <2>1, FailNearer DEF Fallback
<1>9. CASE Identify(t)
  <2>1. ASSUME NEW stale, Fail(t, stale, TRUE) PROVE StepsLeft(t)' < StepsLeft(t)
    BY <1>0, <2>1, FailNearer
  <2>2. ASSUME NEW place \in Over, Return(t, place) PROVE StepsLeft(t)' < StepsLeft(t)
    <3>1. StepsLeft(t)' = 0 /\ StepsLeft(t) > 0
      BY <1>0, <2>2, StepsLeftNat DEF Return, StepsLeft
    <3> QED
      BY <3>1
  <2>3. CASE /\ at' = [at EXCEPT ![t] = "ask"]
             /\ UNCHANGED <<op, want, trying, absent, current, target, again>>
    BY <1>0, <1>9, <2>3, PlaceNearer, Distances DEF Identify
  <2> QED
    BY <1>9, <2>1, <2>2, <2>3 DEF Identify, Unreachable
<1>10. CASE Ask(t)
  <2>1. ASSUME NEW stale, Fail(t, stale, FALSE) PROVE StepsLeft(t)' < StepsLeft(t)
    BY <1>0, <2>1, FailNearer
  <2>2. ASSUME NEW answer, Return(t, Classified(t, answer))
        PROVE  StepsLeft(t)' < StepsLeft(t)
    <3>1. StepsLeft(t)' = 0 /\ StepsLeft(t) > 0
      BY <1>0, <2>2, StepsLeftNat DEF Return, Classified, StepsLeft
    <3> QED
      BY <3>1
  <2> QED
    BY <1>10, <2>1, <2>2 DEF Ask, Unreachable
<1>11. CASE ForgetHost(t) \/ UnsetHost(t)
  BY <1>0, <1>11, PlaceNearer, Distances DEF ForgetHost, UnsetHost
<1>12. CASE Disown(t)
  BY <1>0, <1>12, PlaceNearer, Distances DEF Disown
<1> QED
  BY <1>1, <1>2, <1>3, <1>4, <1>5, <1>6, <1>7, <1>8, <1>9, <1>10, <1>11, <1>12 DEF ThreadStep

\* A call ends after a bounded number of its own steps, whatever the engines
\* and the other threads do meanwhile: StepsLeft is a natural number, each of
\* its steps lowers it and nothing raises it.
THEOREM CallsAreBounded == Spec => CallsRunOut
<1> DEFINE Nearer == \A t \in Threads :
                        /\ ThreadStep(t) => StepsLeft(t)' < StepsLeft(t)
                        /\ at[t] \notin Over => StepsLeft(t)' <= StepsLeft(t)
           Measured == \A t \in Threads : StepsLeft(t) \in Nat
<1>0. TransportTypes' => Measured'
  <2>1. TransportTypes => Measured
    BY StepsLeftNat
  <2> QED
    BY <2>1, PTL
<1>1. Init => TransportTypes
  BY InitTypes
<1>2. TransportTypes /\ [Next]_vars => TransportTypes'
  BY NextTypes
<1>3. TransportTypes /\ [Next]_vars => [Nearer]_vars
  <2> SUFFICES ASSUME TransportTypes, Next, NEW t \in Threads
               PROVE  /\ ThreadStep(t) => StepsLeft(t)' < StepsLeft(t)
                      /\ at[t] \notin Over => StepsLeft(t)' <= StepsLeft(t)
    OBVIOUS
  <2>1. ThreadStep(t) => StepsLeft(t)' < StepsLeft(t)
    BY StepNearer
  <2>2. StepsLeft(t) \in Nat /\ StepsLeft(t)' \in Nat
    BY <1>0, StepsLeftNat, NextTypes
  <2>3. ASSUME at[t] \notin Over, ~ThreadStep(t)
        PROVE  StepsLeft(t)' = StepsLeft(t)
    <3>1. ASSUME NEW u \in Threads, ThreadStep(u)
          PROVE  /\ at'[t] = at[t] /\ op'[t] = op[t] /\ want'[t] = want[t]
                 /\ trying'[t] = trying[t] /\ (t \in again' <=> t \in again)
      <4>1. u # t
        BY <2>3, <3>1
      <4> QED
        BY <3>1, <4>1, StepFrame
    <3>2. ASSUME NEW u \in Threads, NEW call \in Calls, NEW gone \in BOOLEAN,
                 Begin(u, call[1], call[2], gone)
          PROVE  /\ at'[t] = at[t] /\ op'[t] = op[t] /\ want'[t] = want[t]
                 /\ trying'[t] = trying[t] /\ again' = again
      BY <2>3, <3>2 DEF Begin, TransportTypes, Types
    <3>3. CASE EngineMoves
      BY <3>3 DEF EngineMoves, StepsLeft
    <3> QED
      BY <3>1, <3>2, <3>3 DEF Next, Step, StepsLeft
  <2> QED
    BY <2>1, <2>2, <2>3
<1>4. Spec => [][Nearer]_vars
  BY <1>1, <1>2, <1>3, PTL DEF Spec
<1> QED
  BY <1>4 DEF CallsRunOut
===============================================================================

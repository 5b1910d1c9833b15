---------------------------- MODULE NativeRuntime ----------------------------
(***************************************************************************)
(* One sandbox as the native runtime sees it: the container's networks and *)
(* processes, and the steps of create, run (with its canary, its deadline  *)
(* and the deprecated install), start_background and destroy, made by one  *)
(* server at a time.  The sandbox's lock keeps the calls apart (theorem    *)
(* Exclusive of SandboxLifecycle); the worker thread of a run that has     *)
(* timed out, and the processes in the container, outlive the call.        *)
(*                                                                         *)
(* A step is one engine request with the decision that follows it.         *)
(***************************************************************************)
EXTENDS Naturals

CONSTANTS
    Networks,    \* networks the engine may attach a container to
    Servers,     \* server processes
    Nobody,      \* no call is in progress
    Runs,        \* executions a behaviour may start
    NoRun,
    Allow,       \* what clients and the engine may do, see Behaviours
    MaxCrashes   \* bound on the number of server deaths

\* "libraries": clients pass run(libraries=...).  "lateStart": the deadline of
\* a run may pass before the engine has started it.  "blindCheck": the check
\* for survivors may fail to look, which it does every time in an image without
\* python3.  "strays": code may leave a process in a group and under a command
\* line of its own.  "falseDetach": the engine may report a network detached
\* that is not.  "blindProbe": a container with a network may fail to reach
\* anything (its image has neither python3 nor bash, or the host is offline).
Behaviours ==
    {"libraries", "lateStart", "blindCheck", "strays", "falseDetach", "blindProbe"}

ASSUME NamesAssumption ==
    Networks # {} /\ Nobody \notin Servers /\ NoRun \notin Runs
ASSUME AllowAssumption == Allow \subseteq Behaviours
ASSUME CrashesAssumption == MaxCrashes \in Nat

VARIABLES
    stage,     \* the container: "building", "ready" (handed back) or "removed"
    nets,      \* networks attached to it
    exec,      \* per run: "none", "asked" (worker thread on it), "up", "ended"
    kind,      \* per run: "canary", "code" or "daemon"
    strays,    \* runs that have left a process the kill and the check miss
    by,        \* the server whose call is in progress
    at,        \* where that call is
    run,       \* the run it waits for
    todo,      \* networks it has still to detach
    again,     \* its one retry of the sealing is spent
    libs,      \* it has libraries to install
    failed,    \* its install has failed
    verified,  \* servers with the sandbox in NativeRuntime._verified
    proven,    \* servers the canary's output has reached
    claimed,   \* runs reported as killed
    unseen,    \* those of them no look could have found: not started yet, or
               \* the check could not look
    lapsed,    \* an install's seal or removal has failed, or its server died
               \* before it, and no later seal has been proven
    crashes

sandboxVars == <<stage, nets>>
execVars == <<exec, kind, strays>>
killVars == <<claimed, unseen>>
callVars == <<by, at, run, todo, again, libs, failed>>
checkVars == <<verified, proven>>
vars == <<sandboxVars, execVars, callVars, checkVars, killVars, lapsed, crashes>>

-----------------------------------------------------------------------------

CreatePlaces == {"setup", "provision", "cleanup"}
SealPlaces == {"listing", "detaching", "probing"}
InstallPlaces == {"unsealing", "installing", "leaked"}
WaitPlaces == {"waiting", "killing", "checking", "restarting"}
Places ==
    {"idle", "verify", "launch", "launchDaemon"}
        \cup CreatePlaces \cup SealPlaces \cup InstallPlaces \cup WaitPlaces

TypeOK ==
    /\ stage \in {"building", "ready", "removed"}
    /\ nets \in SUBSET Networks
    /\ exec \in [Runs -> {"none", "asked", "up", "ended"}]
    /\ kind \in [Runs -> {"canary", "code", "daemon"}]
    /\ strays \in SUBSET Runs
    /\ by \in Servers \cup {Nobody}
    /\ at \in Places
    /\ run \in Runs \cup {NoRun}
    /\ todo \in SUBSET Networks
    /\ again \in BOOLEAN
    /\ libs \in BOOLEAN
    /\ failed \in BOOLEAN
    /\ verified \in SUBSET Servers
    /\ proven \in SUBSET Servers
    /\ claimed \in SUBSET Runs
    /\ unseen \in SUBSET Runs
    /\ lapsed \in BOOLEAN
    /\ crashes \in 0..MaxCrashes

\* create() has made its container and started it, on the engine's network.
Init ==
    /\ stage = "building"
    /\ nets \in {{n} : n \in Networks}
    /\ exec = [r \in Runs |-> "none"]
    /\ kind = [r \in Runs |-> "code"]
    /\ strays = {}
    /\ by \in Servers
    /\ at = "setup"
    /\ run = NoRun
    /\ todo = {}
    /\ again = FALSE
    /\ libs = FALSE
    /\ failed = FALSE
    /\ verified = {}
    /\ proven = {}
    /\ claimed = {}
    /\ unseen = {}
    /\ lapsed = FALSE
    /\ crashes = 0

Goto(place) == at' = place /\ UNCHANGED <<by, run, todo, again, libs, failed>>

\* The call returns or raises.
Done ==
    /\ by' = Nobody
    /\ at' = "idle"
    /\ run' = NoRun
    /\ todo' = {}
    /\ again' = FALSE
    /\ libs' = FALSE
    /\ failed' = FALSE

\* Runs with a process whose command line names their file.
Running == {r \in Runs : exec[r] = "up"}

\* Every process in the container is gone.
StopAll ==
    /\ exec' = [r \in Runs |-> IF r \in Running THEN "ended" ELSE exec[r]]
    /\ strays' = {}

\* The container goes, with its processes and its networks.
RemoveContainer ==
    /\ stage' = "removed"
    /\ nets' = {}
    /\ StopAll
    /\ UNCHANGED kind

-----------------------------------------------------------------------------
\* create.

\* Policy read-back, directories, root setup, sync and setup have succeeded.
SetUp ==
    /\ at = "setup"
    /\ Goto("provision")
    /\ UNCHANGED <<sandboxVars, execVars, checkVars, killVars, lapsed, crashes>>

\* The packages are installed, or there are none.
Provision ==
    /\ at = "provision"
    /\ Goto("listing")
    /\ UNCHANGED <<sandboxVars, execVars, checkVars, killVars, lapsed, crashes>>

CreateStepFails ==
    /\ at \in {"setup", "provision"}
    /\ Goto("cleanup")
    /\ UNCHANGED <<sandboxVars, execVars, checkVars, killVars, lapsed, crashes>>

\* except BaseException: remove the container, if the engine lets us.
Cleanup ==
    /\ at = "cleanup"
    /\ RemoveContainer \/ UNCHANGED <<sandboxVars, execVars>>
    /\ Done
    /\ UNCHANGED <<checkVars, killVars, lapsed, crashes>>

-----------------------------------------------------------------------------
\* Sealing, in create and after an install.

ListAttached ==
    /\ at = "listing"
    /\ todo' = nets
    /\ at' = "detaching"
    /\ UNCHANGED <<sandboxVars, execVars, by, run, again, libs, failed,
                   checkVars, killVars, lapsed, crashes>>

\* disconnect_network was answered with success.
Detach(n) ==
    /\ at = "detaching"
    /\ n \in todo
    /\ todo' = todo \ {n}
    /\ \/ nets' = nets \ {n}
       \/ "falseDetach" \in Allow /\ UNCHANGED nets
    /\ UNCHANGED <<stage, execVars, by, at, run, again, libs, failed,
                   checkVars, killVars, lapsed, crashes>>

\* Every name listed was disconnected.
Detached ==
    /\ at = "detaching"
    /\ todo = {}
    /\ Goto("probing")
    /\ UNCHANGED <<sandboxVars, execVars, checkVars, killVars, lapsed, crashes>>

\* with_retry: a stale connection, and the list is read anew, once.  The
\* request that failed may have detached its network.
SealAgain ==
    /\ at \in {"listing", "detaching"}
    /\ ~again
    /\ again' = TRUE
    /\ at' = "listing"
    /\ todo' = {}
    /\ UNCHANGED nets \/ \E n \in todo : nets' = nets \ {n}
    /\ UNCHANGED <<stage, execVars, by, run, libs, failed,
                   checkVars, killVars, lapsed, crashes>>

\* seal raises: create cleans up; an install's `finally` lets it through.
SealFails ==
    /\ at \in {"listing", "detaching"}
    /\ IF stage = "building" THEN Goto("cleanup") ELSE Done
    /\ lapsed' = (lapsed \/ stage = "ready")
    /\ UNCHANGED nets \/ \E n \in todo : nets' = nets \ {n}
    /\ UNCHANGED <<stage, execVars, checkVars, killVars, crashes>>

\* Fault: sealing is believed.
ProbesPassUnread ==
    /\ at = "probing"
    /\ IF stage = "building"
       THEN stage' = "ready" /\ Done
       ELSE /\ UNCHANGED stage
            /\ IF failed THEN Done ELSE Goto("launch")
    /\ lapsed' = FALSE
    /\ UNCHANGED <<nets, execVars, checkVars, killVars, crashes>>

\* _assert_network_sealed returns: neither probe printed REACHED.  create hands
\* the sandbox back; an install returns its failure or goes on to the code.
ProbesPass ==
    /\ at = "probing"
    /\ nets = {} \/ "blindProbe" \in Allow
    /\ IF stage = "building"
       THEN stage' = "ready" /\ Done
       ELSE /\ UNCHANGED stage
            /\ IF failed THEN Done ELSE Goto("launch")
    /\ lapsed' = FALSE
    /\ UNCHANGED <<nets, execVars, checkVars, killVars, crashes>>

\* NetworkLeakError: a probe reached something, or could not be run.
Leak ==
    /\ at = "probing"
    /\ Goto(IF stage = "building" THEN "cleanup" ELSE "leaked")
    /\ UNCHANGED <<sandboxVars, execVars, checkVars, killVars, lapsed, crashes>>

CreateStep ==
    \/ SetUp \/ Provision \/ CreateStepFails \/ Cleanup

SealStep ==
    \/ ListAttached \/ (\E n \in Networks : Detach(n)) \/ Detached
    \/ SealAgain \/ SealFails \/ ProbesPass \/ Leak

-----------------------------------------------------------------------------
\* run.

\* After the canary: the install, if there is one, then the code.
Onward(l) == IF l THEN "unsealing" ELSE "launch"

Enter(s, place) ==
    /\ stage = "ready"
    /\ by = Nobody
    /\ by' = s
    /\ at' = place
    /\ UNCHANGED <<run, todo, again, failed>>

AskRun(s, l) ==
    /\ l => "libraries" \in Allow
    /\ Enter(s, IF s \in verified THEN Onward(l) ELSE "verify")
    /\ libs' = l
    /\ UNCHANGED <<sandboxVars, execVars, checkVars, killVars, lapsed, crashes>>

\* The code is put into the container as a file and a worker thread asks for
\* its execution; the call waits for the thread, up to its deadline.
Launch(r, k) ==
    /\ exec[r] = "none"
    /\ exec' = [exec EXCEPT ![r] = "asked"]
    /\ kind' = [kind EXCEPT ![r] = k]
    /\ run' = r
    /\ at' = "waiting"
    /\ UNCHANGED <<sandboxVars, strays, by, todo, again, libs, failed,
                   proven, killVars, lapsed, crashes>>

\* Fault: the mark is filed under the execution.
LaunchCanaryMisfiled(r) ==
    /\ at = "verify"
    /\ Launch(r, "canary")
    /\ verified' = verified \cup {r}

\* _verify_once: the sandbox is marked before the canary runs.
LaunchCanary(r) ==
    /\ at = "verify"
    /\ Launch(r, "canary")
    /\ verified' = verified \cup {by}

LaunchCode(r) ==
    /\ at = "launch"
    /\ Launch(r, "code")
    /\ UNCHANGED verified

\* put_file failed.
LaunchFails ==
    /\ at \in {"verify", "launch"}
    /\ Done
    /\ UNCHANGED <<sandboxVars, execVars, checkVars, killVars, lapsed, crashes>>

Becomes(r, status) ==
    /\ exec' = [exec EXCEPT ![r] = status]
    /\ UNCHANGED <<sandboxVars, kind, strays, callVars, checkVars, killVars, lapsed,
                   crashes>>

\* The engine starts the process: its pid is on file, its output flows.
EngineStarts(r) == stage = "ready" /\ exec[r] = "asked" /\ Becomes(r, "up")

\* A process ends by itself.
Exits(r) == r \in Running /\ Becomes(r, "ended")

\* The code starts another program in a session of its own (setsid sleep), and
\* that program ends.
Strays(r) ==
    /\ "strays" \in Allow
    /\ r \in Running /\ kind[r] # "canary"
    /\ strays' = strays \cup {r}
    /\ UNCHANGED <<sandboxVars, exec, kind, callVars, checkVars, killVars, lapsed,
                   crashes>>

StrayExits(r) ==
    /\ r \in strays
    /\ strays' = strays \ {r}
    /\ UNCHANGED <<sandboxVars, exec, kind, callVars, checkVars, killVars, lapsed,
                   crashes>>

ProcessStep(r) == EngineStarts(r) \/ Exits(r) \/ Strays(r) \/ StrayExits(r)

\* Fault: a canary that failed leaves its mark behind.
OverMarked ==
    /\ Done
    /\ UNCHANGED verified

\* The execution is over for the call.  One of a canary that did not print its
\* marker ends the whole call, and takes the mark back.
Over ==
    /\ Done
    /\ verified' = IF kind[run] = "canary" THEN verified \ {by} ELSE verified

\* The thread has the output and the exit code.
CodeReturns ==
    /\ at = "waiting"
    /\ exec[run] = "ended"
    /\ Over
    /\ UNCHANGED <<sandboxVars, execVars, proven, killVars, lapsed, crashes>>

CanaryReturns ==
    /\ at = "waiting"
    /\ exec[run] = "ended" /\ kind[run] = "canary"
    /\ proven' = proven \cup {by}
    /\ at' = Onward(libs)
    /\ run' = NoRun
    /\ UNCHANGED <<sandboxVars, execVars, by, todo, again, libs, failed,
                   verified, killVars, lapsed, crashes>>

\* The worker's request failed; whatever it started goes on.
RunErrs ==
    /\ at = "waiting"
    /\ Over
    /\ UNCHANGED <<sandboxVars, execVars, proven, killVars, lapsed, crashes>>

\* Fault: the join has no timeout.
DeadlineNever == FALSE /\ UNCHANGED vars

\* worker.join(timeout) returns and the worker is alive.
Deadline ==
    /\ at = "waiting"
    /\ "lateStart" \notin Allow => exec[run] # "asked"
    /\ Goto("killing")
    /\ UNCHANGED <<sandboxVars, execVars, checkVars, killVars, lapsed, crashes>>

-----------------------------------------------------------------------------
\* _kill: the process group of the pid on file, then a look for survivors,
\* then a restart of the container.

\* A process that left the group, or never wrote its pid, is not reached.
Kill ==
    /\ at = "killing"
    /\ Goto("checking")
    /\ \/ run \in Running /\ exec' = [exec EXCEPT ![run] = "ended"]
       \/ UNCHANGED exec
    /\ UNCHANGED <<sandboxVars, kind, strays, checkVars, killVars, lapsed, crashes>>

\* "The sandbox could not be reached to stop it."
KillFails ==
    /\ at = "killing"
    /\ Over
    /\ UNCHANGED <<sandboxVars, execVars, proven, killVars, lapsed, crashes>>

\* _running_code, where python3 runs: every process whose command line names
\* SCRATCH_DIR.  That of every run, canary and daemon does; a stray's does not.
Survivors == Running

\* Fault: kill is taken at its word.
CheckUnasked ==
    /\ at = "checking"
    /\ claimed' = claimed \cup {run}
    /\ Over
    /\ UNCHANGED <<sandboxVars, execVars, proven, unseen, lapsed, crashes>>

\* "The code was killed; the sandbox is still usable": the look found nothing,
\* or there was none, python3 being absent or its execution having failed.
FoundNone ==
    /\ at = "checking"
    /\ claimed' = claimed \cup {run}
    /\ \/ /\ Survivors = {}
          /\ unseen' = IF exec[run] = "asked" THEN unseen \cup {run} ELSE unseen
       \/ /\ "blindCheck" \in Allow
          /\ unseen' = unseen \cup {run}
    /\ Over
    /\ UNCHANGED <<sandboxVars, execVars, proven, lapsed, crashes>>

FoundSome ==
    /\ at = "checking"
    /\ Survivors # {}
    /\ Goto("restarting")
    /\ UNCHANGED <<sandboxVars, execVars, checkVars, killVars, lapsed, crashes>>

\* "It would not die, so the sandbox was restarted."
Restart ==
    /\ at = "restarting"
    /\ StopAll
    /\ Over
    /\ UNCHANGED <<sandboxVars, kind, proven, killVars, lapsed, crashes>>

\* "It could not be stopped; call destroy_sandbox."
RestartFails ==
    /\ at = "restarting"
    /\ Over
    /\ UNCHANGED <<sandboxVars, execVars, proven, killVars, lapsed, crashes>>

RunStep ==
    \/ \E r \in Runs : LaunchCanary(r) \/ LaunchCode(r)
    \/ LaunchFails \/ CodeReturns \/ CanaryReturns \/ Deadline
    \/ Kill \/ KillFails \/ FoundNone \/ FoundSome \/ Restart \/ RestartFails

-----------------------------------------------------------------------------
\* _install.

Unseal(n) ==
    /\ at = "unsealing"
    /\ nets' = nets \cup {n}
    /\ Goto("installing")
    /\ UNCHANGED <<stage, execVars, checkVars, killVars, lapsed, crashes>>

\* The network was not attached, or it was and the answer was lost; or pip
\* failed or outlived its budget.  `finally` seals.
InstallFails ==
    /\ at \in {"unsealing", "installing"}
    /\ UNCHANGED nets \/ (at = "unsealing" /\ \E n \in Networks : nets' = nets \cup {n})
    /\ failed' = TRUE
    /\ at' = "listing"
    /\ UNCHANGED <<stage, execVars, by, run, todo, again, libs,
                   checkVars, killVars, lapsed, crashes>>

\* Fault: only a failed install seals.
InstalledUnsealed ==
    /\ at = "installing"
    /\ Goto("launch")
    /\ UNCHANGED <<sandboxVars, execVars, checkVars, killVars, lapsed, crashes>>

Installed ==
    /\ at = "installing"
    /\ Goto("listing")
    /\ UNCHANGED <<sandboxVars, execVars, checkVars, killVars, lapsed, crashes>>

\* A leak: the container is removed, if the engine lets us, and the call raises.
RemoveLeaking ==
    /\ at = "leaked"
    /\ \/ RemoveContainer /\ UNCHANGED lapsed
       \/ lapsed' = TRUE /\ UNCHANGED <<sandboxVars, execVars>>
    /\ Done
    /\ UNCHANGED <<checkVars, killVars, crashes>>

InstallStep ==
    \/ \E n \in Networks : Unseal(n)
    \/ InstallFails \/ Installed \/ RemoveLeaking

-----------------------------------------------------------------------------
\* start_background, destroy, the death of a server.

AskBackground(s) ==
    /\ Enter(s, "launchDaemon")
    /\ UNCHANGED <<libs, sandboxVars, execVars, checkVars, killVars, lapsed, crashes>>

\* A shell starts it under nohup; the call returns its id and does not wait.
LaunchDaemon(r) ==
    /\ at = "launchDaemon"
    /\ exec[r] = "none"
    /\ exec' = [exec EXCEPT ![r] = "up"]
    /\ kind' = [kind EXCEPT ![r] = "daemon"]
    /\ Done
    /\ UNCHANGED <<sandboxVars, strays, checkVars, killVars, lapsed, crashes>>

\* put_file or the shell's execution failed.
LaunchDaemonFails ==
    /\ at = "launchDaemon"
    /\ Done
    /\ UNCHANGED <<sandboxVars, execVars, checkVars, killVars, lapsed, crashes>>

BackgroundStep == (\E r \in Runs : LaunchDaemon(r)) \/ LaunchDaemonFails

\* destroy_sandbox, `hyperbox rm`, or the collector of an expired sandbox.
Destroy(s) ==
    /\ stage = "ready"
    /\ by = Nobody
    /\ RemoveContainer
    /\ verified' = verified \ {s}
    /\ UNCHANGED <<callVars, proven, killVars, lapsed, crashes>>

\* A network may be attached by the call in progress.
InstallWindow == libs /\ at \in InstallPlaces \cup SealPlaces

\* The server dies; its memory and its call go, the container stays.
Crash(s) ==
    /\ crashes < MaxCrashes
    /\ crashes' = crashes + 1
    /\ verified' = verified \ {s}
    /\ proven' = proven \ {s}
    /\ IF by = s THEN Done ELSE UNCHANGED callVars
    /\ lapsed' = (lapsed \/ (by = s /\ InstallWindow))
    /\ UNCHANGED <<sandboxVars, execVars, killVars>>

CallStep == CreateStep \/ SealStep \/ RunStep \/ InstallStep \/ BackgroundStep

Next ==
    \/ CallStep
    \/ RunErrs
    \/ \E s \in Servers :
          AskRun(s, TRUE) \/ AskRun(s, FALSE) \/ AskBackground(s)
             \/ Destroy(s) \/ Crash(s)
    \/ \E r \in Runs : ProcessStep(r)

Spec == Init /\ [][Next]_vars

-----------------------------------------------------------------------------
\* Safety.

Submitted(r) == r \in Running \cup strays /\ kind[r] \in {"code", "daemon"}

\* "Every container ... network-sealed": submitted code never runs in a
\* container that has a network.
CodeIsSealed == (\E r \in Runs : Submitted(r)) => nets = {}

\* The same for a sandbox on which libraries are installed: what runs beside
\* the install has the network for as long as the install does, and after that
\* only if its seal or its removal failed or its server died before them, until
\* a later seal is proven.  Whatever else fails, is retried or is answered with
\* success and was not done leaves nothing open.
SealedOutsideInstall == CodeIsSealed \/ InstallWindow \/ lapsed

\* "The reseal is also PROVEN, not assumed": a call that has installed
\* libraries runs its code without a network.
ResealProven ==
    libs /\ at \in {"launch"} \cup WaitPlaces /\ (run # NoRun => kind[run] = "code")
        => nets = {}

\* run's docstring: "On timeout the code is actually killed, not just abandoned
\* -- a timed-out run leaves nothing burning CPU in the sandbox".
KilledIsDead == claimed \cap (Running \cup strays) = {}

\* What the report of a kill is worth: the run has no process under its command
\* line and never will have one, unless it had not been started when the check
\* looked or the check could not look.  A kill that missed, a run that ends or
\* starts while it is being killed, and what other calls start do not matter.
KilledIsGone == claimed \cap Running \subseteq unseen

\* _verify_once: a server that skips the canary has seen its output, although
\* the mark is set before the canary runs.
MarkedIsProven ==
    \A s \in verified :
        s \in proven \/ (by = s /\ at \in WaitPlaces /\ kind[run] = "canary")

-----------------------------------------------------------------------------
\* Liveness: the server's thread goes on and the engine answers or fails.
\* Nobody makes submitted code end, or the request that waits for it fail.

Fairness == WF_vars(CallStep) /\ \A r \in Runs : WF_vars(EngineStarts(r))

FairSpec == Spec /\ Fairness

\* A call returns though the code it runs may loop for ever.
CallsEnd == by # Nobody ~> by = Nobody
==============================================================================

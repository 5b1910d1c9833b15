# HyperBox MCP: a verification development

HyperBox MCP gives coding agents disposable, sealed containers over MCP. Several
stdio server processes (one per editor window or agent) and the `hyperbox`
command line run at once on one machine; they share one SQLite registry, a
directory of lock files and one Docker or Podman engine reached over REST. No
process coordinates the others: what keeps them from destroying each other's
sandboxes is the order in which each reads rows, takes locks and asks the engine.
That order is what these modules model.

Line numbers refer to `src/src/hyperbox_mcp/` unless a path says otherwise;
`PROJECT.json` gives the source lines of every definition.

## 1. Inventory

| Component | State it keeps | Operations | Hard behaviour | What makes it correct |
|---|---|---|---|---|
| **Sandbox registry** `registry.py` | one SQLite row per sandbox: backend, container_ref, state (`creating`/`ready`), expires_at | reserve, finalize, touch, remove, get_ready, expired_records, stale_reservations, known_ids, lock | statements of many processes interleave; only some are made under the sandbox's lock | an id is issued, published and retired once; an UPDATE never revives a row |
| **Per-sandbox lock** `filelock.py` | an flock on a file per id, owned by an open handle | acquire with a deadline, release, release by the OS | waiting, timeouts, the holder's death | mutual exclusion; nobody waits for ever; no lock outlives its holder |
| **Tool handlers** `server.py` | the coroutine or thread of each call | create_sandbox, run, get_process_logs, destroy_sandbox | create writes its rows without the lock; the client may cancel; the worker thread goes on | a sandbox in use is exclusive; a failed create leaves nothing usable |
| **Garbage collector** `server.py:283`, `sandbox_ops.py:351` | a daemon thread per server, a list of candidates, a snapshot of known ids | three passes: expired rows, stale reservations, containers without a row | acts on stale lists and a stale snapshot, against creates that hold no lock | reclaims everything abandoned, and nothing in use or on file |
| **Native runtime** `native_runtime.py` | containers and their network, one cached client per backend | create (15 steps), run, background runs, logs, destroy, alive, install | a failure between any two steps; deadlines racing completions; unseal/seal around an install | never hands back a half-built or unsealed sandbox |
| **Engine slots** `slots.py` | N lock files | engine_slot, active_holders | a semaphore with no server, across processes; random scan, backoff, deadline | at most N heavy operations; no slot lost; every caller answered |
| **Engine selection** `engine.py` | `CONTAINER_HOST` in the process's environment, `_own_container_host`; the runtime's clients | resolve, detect, endpoint_for, with_retry, reset_clients, classify | threads resolve and reset at once; engines stop, leave their socket files and come back elsewhere; dropped connections | a user's choice is never replaced; an engine that runs is found; an answer is told from an outage |
| **REST client, transports** `rest/client.py`, `rest/api.py`, `rest/transport.py` | a connection per request, a frame buffer, a reference count | request, stream_json, stream_frames, exec, archives | frames cut anywhere; a pipe that never ends; a socket closed under its reader | output is complete or an error is raised; the call comes back |
| **CLI lifecycle** `lifecycle.py` | the sync-roots file | ps, rm, init, pull | rm races the servers; init is an unlocked read-modify-write; archive members from an untrusted container | rm confirms before it drops a row; nothing is written outside the target |
| **Policy** `policy.py` | durations, environments cache | environments() | a cache keyed on an mtime, filled by threads without a lock | the durations' order; what was built is listed |
| **Builder, contexts** `builder.py`, `buildcontext.py` | environment manifests | build, sync_tar | a manifest emptied and written while it is read; failures and Ctrl-C between the steps | what is recorded has an image |
| **Validation, errors, doctor, CLI, client config, progress** | none that is shared | checks and texts | few | pure functions and output |

**Interactions.** A tool call runs as a coroutine; engine work is moved to a
worker thread (`asyncio.to_thread`). `create_sandbox` writes a `creating` row,
waits for an engine slot, drives the engine, then finalizes or removes the row.
`run`, logs, `destroy_sandbox`, `hyperbox rm` and the collector's first two
passes take the sandbox's lock and re-read the row under it. The collector's last
pass takes no lock: it reads the known ids, asks the engine for the managed
containers, and removes those that are unknown and older than a grace period. All
of these reach an engine through an address that `engine.py` resolves, and read what
runs in a container through the exec stream of `rest/`. `hyperbox build` writes the
environments directory that `create_sandbox` resolves names in.

The hazards of this code, each at the line where it bites and with the
properties that cover it, are listed under `hazards` in `PROJECT.json`.

## 2. Modules

| Module | Models |
|---|---|
| `SandboxContract` | abstract: what the registry promises about one id (unborn, reserved, ready, gone; at most one user; nothing in use is retired) |
| `SandboxLifecycle` | registry rows, sandbox locks, containers, tool calls, collector threads, process deaths, time |
| `MCLifecycle` | instances of it for TLC: `Apart` (every thread its own process), `Paired` (a client thread and a collector per server process) |
| `SandboxLifecycle_proofs` | types, exclusion, refinement of the contract |
| `SandboxTiming_proofs` | the properties that relate rows, containers and time, expiry included |
| `SandboxLocks_proofs` | that locks follow the work, and that calls and sweeps advance |
| `SlotBound` | abstract: never more than `Bound` blocks at work |
| `EngineSlots` | the ticket queue of `slots.py` over its lock files |
| `MCSlots` | an instance of it for TLC: two callers share a process, a third has its own |
| `EngineSlots_proofs` | types, agreement of locks and places, refinement of the bound by counting, that late calls end |
| `NativeRuntime` | one sandbox from its container's start: networks, executions, create, sealing, run, install, background runs, kill, destroy |
| `NativeRuntime_proofs` | types, sealing, what the report of a kill is worth, the canary's mark, that calls advance |
| `EngineTransport` | how one server process finds the socket of an engine, keeps it, drops it and tries again |
| `MCTransport` | an instance of it for TLC: one Docker and two Podman sockets, two interchangeable threads |
| `EngineTransport_proofs` | types, the user's choice, who accounts for `CONTAINER_HOST`, that "unavailable" is true, that calls run out |
| `OutputDelivery` | abstract: pieces of output in order and once, then one result; an exit code only with all of it, unless excused |
| `ExecStream` | one command's output from the engine through socket or pipe, frame reader and exit code |
| `MCStream` | an instance of it for TLC: frames of one byte, of none and of two |
| `ExecStream_proofs` | types, whole frames, the handle, complete output, refinement of the delivery, that the reader advances |
| `Environments` | `hyperbox build`, and directories made by hand, against `environments()` with its cache |
| `MCEnvironments` | `Environments` with interchangeable threads, for TLC |
| `Environments_proofs` | types, what is listed has an image or a Dockerfile, what can be listed is |

### SandboxLifecycle and the code

| Variable | In the code |
|---|---|
| `row`, `left` | the `state` column, and the ticks until `expires_at` (0 = expired) |
| `fresh` | ids `uuid4().hex[:12]` has not drawn; none is drawn twice |
| `lock` | the flock on `<id>.lock` and the thread whose handle holds it |
| `box`, `age` | the container labelled with the id: absent, still being set up, or set up; ticks since its `Created` |
| `call` | per caller: place in its handler, its id, and `abandoned` once the client has cancelled the create it waited for |
| `gc` | per collector: place in `collect_garbage`, candidates left, the `known_ids()` snapshot and the ticks since it was taken |

* **A caller** is a thread on which a tool call runs, or a CLI process.
  `create_sandbox` is `Reserve`, then in the worker `CreateRefused`,
  `MakeContainer`, `FinishBuild`, `BuildFails`, `Cleanup`, then back in the
  coroutine `Unreserve` or `Finalize`. `Abandon` is a cancelled request:
  `CancelledError` is no `Exception`, so none of the handlers runs, the thread goes
  on, and nobody finalizes or removes the row. `run` (foreground and background) and
  `get_process_logs` are `AskUse`, `EnterUse`, `UseReturns`/`UseFails`, `Touch`;
  `destroy_sandbox` and `hyperbox rm` are `AskRm`, `EnterRm`,
  `RmConfirmed`/`RmFails`, `RmRow`; `LockTimeout` is the lock's deadline.
* **A collector** runs `StartSweep`; per candidate `RecheckExpired`, `PassOver`,
  `Reclaim`, `ReclaimUnreachable` (EngineUnavailableError: the row stays) or
  `ReclaimFails` (anything else: the row goes), `Forget`; `ListStale`, `RecheckStale`,
  `DropStale`; `Snapshot`, `ListManaged` or `ListFails`, then per container `Spare`,
  `RemoveOrphan` or `OrphanKept`, and `EndSweep`.
* **Crash(q)** kills every thread of process q; the operating system closes its
  lock files. Rows and containers stay.
* **Tick** moves all clocks. The timing assumptions guard it (section 4).

A step is one registry statement, one lock acquisition with the read that follows
it, or one engine request. Two simplifications of that grain: the many engine requests
of `create()` after the container exists are one `FinishBuild` or `BuildFails`
(what they leave is "partial" until the last succeeds), and a release of a lock is
part of the statement before it. Backends are one listing, and an id has one
container. A failing `alive()` counts as a failing `destroy()`.

### EngineSlots and the code

`owner` is the flock on each `engine.slots/<n>.lock`. Per caller, `at` is its place in
`engine_slot`, `todo` the slots its scan or count has still to try (tried in any order,
as the code shuffles), `late` whether its deadline has passed, `worked` whether the
guarded block has run already. `Ask`, `TakeSlot`, `SkipSlot` are the scan; `WorkEnds`
and `WorkRaisesOSError` the two ways a block leaves the `yield`; `BackOff`, `Retry` the
sleep; `StartCount`, `Probe`, `EndProbe`, `CountTaken`, `Busy` the report with
`active_holders()`. `SkipSlot` does not ask that the slot is held: an `OSError` from
`open()` skips it as well. `Thrown` is `contextlib` closing a generator that yielded
again. The `on_wait` callback is left out: no caller passes one.

### NativeRuntime and the code

| Variable | In the code |
|---|---|
| `stage`, `nets` | whether the container is still being built, handed back or removed; `NetworkSettings.Networks` |
| `exec`, `kind` | per execution its process: not asked for, asked for by a worker thread, started, ended; canary, submitted code or background process |
| `strays` | executions that have left a process in a session and under a command line of its own (`setsid sleep`), which neither the kill of the process group nor the check for survivors reaches |
| `by`, `at`, `run`, `todo`, `again`, `libs`, `failed` | the call in progress: its server, its place, the execution it waits for, the networks it has still to detach, whether `with_retry` has repeated, its libraries, its `failure` |
| `verified`, `proven` | servers with the id in `_verified`; servers whose canary has printed its marker |
| `claimed`, `unseen` | history: executions reported as killed, and those of them that no look could have found: not started yet, or the check could not look |
| `lapsed` | history: the seal or the removal after an install has failed, or the server died before it, and no later seal has been proven |

The sandbox's lock lets one call run at a time (`Exclusive`, proved of
`SandboxLifecycle`), so there is one call; what does run beside it is modelled as such:
worker threads whose call has timed out, processes in the container, other servers'
memory. `create()` is `SetUp`, `Provision`, `CreateStepFails`, the sealing
(`ListAttached`, `Detach`, `Detached`, `SealAgain`, `SealFails`), the probes (`ProbesPass`,
`Leak`) and `Cleanup`. `run()` is `AskRun`, `LaunchCanary` and `CanaryReturns` if the server has
no mark, the install (`Unseal`, `Installed` or `InstallFails`, the sealing and probes again,
`RemoveLeaking`), then `LaunchCode` and one of `CodeReturns`, `RunErrs` and `Deadline`; the
deadline leads through `Kill`, `FoundNone` or `FoundSome`, and `Restart`, each of which can
fail. `EngineStarts`, `Exits`, `Strays` and `StrayExits` are the engine's and the processes' own
steps. `Survivors` is what `_running_code` finds, the processes whose command line names
`/hyperbox/`: that of every run, canary and background process does, a stray's does not.
`FoundNone` is also where a check ends that could not look, because its execution failed or
because the image has no `python3` (native_runtime.py:862-866).

`Allow` names what clients and the engine may do in an instance: `libraries` (the
deprecated argument is used), `lateStart` (a deadline may pass before the engine has
started the run), `blindCheck` (the check for survivors cannot look, as it never can in an
image without `python3`), `strays`, `falseDetach` (a detach is reported that did not
happen), `blindProbe` (a probe cannot reach anything though a network is attached).
`runtime_calls` allows all of them but the last, without which the sealing properties
fail by design: the probes are what they rest on. The code put into the container is not
followed as a file: see the divergences for the one language with a fixed file name.

### EngineTransport and the code

| Variable | In the code |
|---|---|
| `live`, `moves` | the sockets that accept a connection now, and how often that has changed |
| `chosen` | the user's DOCKER_HOST and CONTAINER_HOST when the server starts, one of the pairs in `Choices` |
| `host`, `own` | `os.environ["CONTAINER_HOST"]` and `_own_container_host` (engine.py:307): one pair per process, without a lock |
| `clients` | the address of `NativeRuntime._clients[backend]`, and of `_install_clients` |
| `at`, `op`, `want`, `trying`, `target`, `current`, `again` | per thread: its place, its call, the backend it names and the one being resolved, the address found, the local `current` of `ensure_podman_transport`, whether `with_retry` has repeated |
| `absent` | the threads that ask about a container or an image that does not exist |
| `steady`, `dropped` | history: calls during which no engine has moved and, if they resolve, no engine that is up has failed them; those of them that have had one connection dropped by an engine that is up |
| `overlapped` | history: two threads have been in the resolution at once |

`DockerSocket` is `docker_socket()`; `ReadHost`, `CompareOwn`, `DropHost`, `SearchSocket`,
`ClaimOwn`, `PublishHost` and `RestoreHost` are `ensure_podman_transport()` statement by
statement, so that threads interleave between them; `Fallback` is what `endpoint_for()`
does without a socket; `Identify` asks for the version and compares products; `Ask` is the
request, `Classified` what a call makes of its answer; `ForgetHost`, `UnsetHost` and
`Disown` are `reset_podman_transport()`. Not only a dead socket fails a request:
`Identify` and `Ask` have a disjunct each for an engine that is up and drops the
connection (`Drops`), answers with an error status, or does not answer in time (`Fails`),
beside `Unreachable` and `Answers`. Whether the error's text makes `with_retry` repeat
(`_STALE_CONNECTION_MARKERS`) is open where `resolve()` wraps and cuts it, and follows from the error
in the request itself: a dropped connection is repeated, a timeout is not.
Five kinds of call differ in where they resolve
and whether they repeat: `engine` (`image_present` and its like), `detect`, `sweep`,
`runtime` (a tool call on the cached client) and `seal`. Windows takes the first named
pipe it finds and has no state; it is not modelled. `_clients` and `_probe_failures` of
engine.py:893-913 are cleared but never filled, so there is nothing to model.

### ExecStream and the code

| Variable | In the code |
|---|---|
| `transport` | `UnixHTTPConnection`, or `NamedPipeHTTPConnection` |
| `emitted`, `command`, `arrived`, `peer` | the engine's side: frames written, whether the exec runs, bytes that have reached this host, whether the connection is open |
| `at` | the place in `run_exec` and below |
| `asked`, `taken`, `fed`, `pos` | what the last peek reported; bytes off the transport, in `BufferedReader` or beyond; bytes fed to `FrameReader`; bytes it has parsed, so that `_buffer` is what lies between the two |
| `out` | the payloads put out, each as the numbers of its first and last byte |
| `window` | whether `finished_at` is set |
| `handle`, `refs`, `closed` | the descriptor or `_handle`, `_io_refs`, and `_closed` |
| `flaws` | history: `cut` (the connection ended before the output), `blind` (a poll failed, which counts as finished), `ahead` (bytes sit in a buffer that no peek sees), `late` (bytes were in flight for longer than the window, or came while the last poll was answered) |

`Connect`, `GetResponse`, `HandOver` and `Refused` are the request; a socket is read by
`ReadBlock`, `EndOfStream`, `ReadFails`; a pipe by `Peek`, `Take`, `TakeNothing`,
`TakeFails`, `Poll` and `GiveUp` (`_read_until_done`); `ParseFrame` and `KeepRest` are
`FrameReader.feed`; `CloseResponse` (the response's file, `_release_io`), `CloseConnection`
(the socket's own `close()`) and `Leave` are the end of the connection, after the output
or after an error, the first two in either order; `ExitCode` is `exec_exit_code`. A byte is its number in
the stream, a frame the place where it ends, and a header that is read where none is would
give the size `Junk`. What stream a frame belongs to, and the decoding of text, are left out.

`ExecStream` implements `OutputDelivery` with `written <- emitted`, `command <- command`,
`given <- Len(out)`, `excused <- flaws # {}` and, for `result`, "code" at "done", "error" at
"failed" and "pending" before. `ParseFrame` is `Give`, the end of a call `ExitCode` or
`Error`, the first flaw `Excuse`; everything about bytes, buffers, peeks, polls, handles and
windows is invisible there.

### Environments and the code

| Variable | In the code |
|---|---|
| `clock`, `mtime` | ticks of the file system's clock, and the directory's mtime; two changes within a tick leave one mtime |
| `entry`, `dockerfiles`, `tagged` | per name its directory: none, without a manifest, with one being written, with a whole one; the names whose directory holds a Dockerfile; and the names with an image |
| `build` | per name, where its `hyperbox build` is |
| `at`, `seen`, `left`, `found` | per thread in `environments()`: its place, `current_mtime`, the directories still to read, `result` |
| `cache`, `cacheTime` | `_env_cache`, `_env_mtime` |
| `cacheFrom`, `timeFrom`, `cacheDoubt`, `doubt`, `promised` | history: whose scan each half of the cache is from, what is in doubt about a scan, and what was to be listed when a call began and since |

A build is `StartBuild`, `EngineDone` or `EngineFails`, `MakeDir`, `OpenManifest`,
`WriteManifest`, with `Interrupted` (Ctrl-C, a full disk, death) between any two. A person,
or a v0.2 build, makes a directory and puts a Dockerfile into it (`MakeOwnDir`,
`AddDockerfile`: no source of this version does it). A call
is `AnswerBuiltins`, `AnswerCached`, or `Scan`, `List`, per directory `Resolve` or `PassOver`,
`StoreCache`, `StoreMtime`, and `Return`: the two assignments of the cache are two steps.
`Resolve` takes what is `Listable`, a name with a whole manifest or with a Dockerfile, which
stands for `<prefix><name>:latest` be that image made or not (policy.py:250-255).
Built-in names and a change of `HYPERBOX_ENV_DIR` are left out.

## 3. What the runs check

| Run | Instance | Properties | Distinct states |
|---|---|---|---|
| `lifecycle_timely` | 2 ids, 2 callers, 1 collector, 1 death, symmetric; creates and sweeps on time | `TypeOK`, `ReadyIsComplete`, `SweepSparesRegistered`, `ReservationOutlivesCreate` | 3.4 million |
| `lifecycle` | 1 id, 2 callers, a collector in the process of one, 1 death; no timing assumption; fair | `UseIsExclusive`, `FreshIsSpared`, `MeetsContract`, `CallsReturn`, `LocksComeFree`, `EverythingReclaimed` | 29 thousand |
| `slots` | 2 slots, 3 callers in 2 processes, 1 death, fair scans | `TypeOK`, `OneSlotEach`, `MeetsBound`, `AskersAnswered`, `SlotsComeFree` | 220 thousand |
| `runtime_calls` | 3 executions, 2 networks, 2 servers, 1 death; everything in `Behaviours` but `blindProbe`; fair | `TypeOK`, `SealedOutsideInstall`, `ResealProven`, `KilledIsGone`, `MarkedIsProven`, `CallsEnd` | 1.5 million |
| `engine` | 2 threads, 3 sockets, 3 kinds of call, 3 pairs of choices, 1 engine move, symmetric in threads | `TypeOK`, `ChoiceKept`, `HostAccounted`, `UnavailableIsTrue`, `CallsRunOut` | 3.7 million |
| `stream` | 3 frames, both transports, fair | `TypeOK`, `FramesWhole`, `SuccessIsComplete`, `HandleKept`, `ReaderReturns`, `MeetsDelivery` | 152 thousand |
| `environments` | 2 names, one built and one made by hand, 2 threads, 3 ticks, symmetric in threads | `TypeOK`, `ListsWhatIsBuilt`, `ListedIsTagged` | 6.0 million |
| `slots_held` | as `slots` | `HeldForTheBlock` is violated | |
| `runtime_killed` | `lateStart` | `KilledIsDead` is violated | |
| `engine_gone` | 1 thread, nothing configured | `AnsweredIsAvailable` is violated | |
| `stream_pipe` | as `stream` | `PipeIsDrained` is violated | |
| `environments_picked_up` | as `environments`, with a window of one tick | `BuiltIsListed` is violated | |

* `UseIsExclusive`: while somebody works in a sandbox, its row is ready and no other
  thread uses, destroys, reclaims or drops it. Holds with any timing.
* `FreshIsSpared`: the sandbox the collector is about to remove, or whose row it is about to
  delete, has expired at that moment and not only when the list was made. The re-read under
  the lock is what this rests on: a `run` may have touched the row in between.
* `MeetsContract`: the lifecycle implements `SandboxContract`, with the row's state as
  the id's stage and the callers at work as its users. In particular `finalize()`,
  made without the lock, never revives a row somebody removed.
* `ReadyIsComplete`: a ready row never stands before a half-configured container.
* `SweepSparesRegistered`: the orphan sweep never removes the container of an id that
  is on file *now*, although it decides by an earlier snapshot. This is what
  `GC_GRACE_SECONDS` is for.
* `ReservationOutlivesCreate`: the collector does not drop a reservation a create is
  still waited for. This is what `CREATING_TTL_SECONDS` is for.
* `CallsReturn`, `LocksComeFree`, `EverythingReclaimed`: no call hangs on a lock; no lock
  is wedged; once the clients are gone, every row and container goes too, whatever
  failed, was cancelled or died.
* `OneSlotEach`, `MeetsBound`: slots and their users agree, and at most N blocks run.
* `AskersAnswered`: a caller of `engine_slot` gets a slot or an error although the work
  ahead of it may never end. `SlotsComeFree`: if work ends, no slot is ever lost.
* `SealedOutsideInstall`: submitted code, its background processes and strays included, has
  a network only while an install holds one open (by the code's design, for whatever runs
  beside it), or once that install's seal or removal has failed or its server has died, and
  then only until a later seal is proven. No failing step of a create, a seal or a retry
  opens anything else. Holds although the engine may claim a detach it did not make,
  because of the probes; not under `blindProbe`.
* `ResealProven`: a call that did ask for libraries runs its own code sealed.
* `KilledIsGone`: what the report of a kill is worth in fact. A run reported as killed has no
  process under its command line and never will have one, whatever the kill missed, unless
  it had not been started when the check looked, or the check could not look. It says
  nothing of strays. The unqualified promise, `KilledIsDead`, is what `runtime_killed` refutes.
* `MarkedIsProven`: a server that skips the canary has seen one succeed, although the mark
  is set before the canary runs.
* `CallsEnd`: a call returns though the code it runs never ends.
* `ChoiceKept`: a socket the user named is never replaced or erased, and nothing else is
  dialled for its backend, whatever threads resolve and reset at once and whichever
  engine dies. (A TCP or ssh CONTAINER_HOST is no such socket, and the docstring of the
  function says otherwise of a dead one: see the divergences.)
* `HostAccounted`: CONTAINER_HOST is unset, the user's, or the value this process
  remembers having set, at every step of a resolution or a reset. Any other value would
  count as the user's, and a dead one would never be replaced. It takes one resolution at
  a time.
* `UnavailableIsTrue`: a call that resolves its engine reports it unavailable only if it
  is: the socket file of a stopped engine is not trusted, one that came back elsewhere is
  found, and when an engine that is up drops the connection of the request, `with_retry`
  makes it anew and the call succeeds. The hypotheses are what the code does not cover:
  an engine moves during the call; another thread resolves beside it; what it asks about
  does not exist (`engine_gone`); the engine answers with an error status, lets a request
  time out, or drops more than that one connection.
* `CallsRunOut`: every step of a call brings it nearer to its end, by a measure that other
  threads and moving engines cannot raise: an attempt, the one repeat of `with_retry` and
  the second backend of "auto". No call resolves, resets and repeats for ever.
* `FramesWhole`: what comes out are the command's payloads, whole, in order, none left
  out, empty ones included, wherever the bytes were cut.
* `SuccessIsComplete`: an exit code comes only with a command that has ended, and with all
  of its output unless one of the four flaws occurred.
* `HandleKept`: the handle stays open under the file that reads from it and is shut when the
  call is over, whichever of the socket and the response is closed first.
* `ReaderReturns`: the call comes back, on a pipe that never signals its end too.
* `MeetsDelivery`: the stream implements `OutputDelivery`: every frame comes out once, after
  it was written and before the result, which is final; an exit code is that of a command
  that has ended, and of all its output unless a flaw excuses it.
* `ListsWhatIsBuilt`: a call lists every environment whose build had ended, or whose
  directory held a Dockerfile, before the call began, unless its map is in one of three
  named doubts: its scan fell into the tick of its mtime, it met a directory with neither
  a whole manifest nor a Dockerfile, or another thread's mtime was put to it. Inside the
  settle window the first is no excuse: that is what the window is for. The other two are
  divergences.
* `ListedIsTagged`: what has a manifest has an image, though builds fail and are cut off
  anywhere; and what is listed or cached without an image has a Dockerfile of its own.

Every property of a passing run has a mutant: a change to one mapped definition, of the
kind a plausible bug would make (marked "Fault" in the modules), under which TLC finds
that property violated in that very instance.

### Findings

The failing runs are disagreements between the code and its own comments.

* `slots_held` (code bug, slots.py:108). `except (TimeoutError, OSError): continue` also
  encloses the `yield`. An `OSError` of the guarded create (a dropped or timed-out
  engine connection) is taken for a busy slot: the generator takes the next slot and
  yields again, and the caller sees `RuntimeError("generator didn't stop after
  throw()")`; or, when the other slots are held, it waits out its deadline and
  reports a busy engine. The real error is lost in both cases.
* `runtime_killed` (code bug, native_runtime.py:842). A deadline that passes before the
  engine has started the run finds no pid and no process, and the run is reported as
  killed; the worker thread then starts it, with no deadline left. server.py:804-806
  promises that a timed-out run is "actually killed" and native_runtime.py:763, 815 that
  this is verified. The same property fails in two more ways when `Allow` admits them. With
  `blindCheck`: in an image without `python3` (the javascript and bash images), or when its
  execution fails, the check answers an empty list without having looked
  (native_runtime.py:862-866, against the docstring at 845-849), so a process the kill has
  missed is reported as killed. With `strays`: a process in a session of its own, under
  a command line that does not name the scratch directory, is neither killed nor found (:859).
* `engine_gone` (code bug, engine.py:1074). `is_not_found` knows the exceptions of SDKs
  that are gone, so a 404 becomes `EngineUnavailableError`: `get_container` reports a removed
  container as an unreachable engine, and `image_present` never answers False. An error status
  goes the same way: `EngineRefusedError` (rest/client.py:188-196, "The engine ANSWERED. That
  is not an outage") becomes an outage as well.
* `stream_pipe` (code bug, rest/client.py:258). On a Windows pipe, bytes that the buffered
  reader took early, with the head of the reply or between a peek and the read, are
  invisible to the next peek; the call returns without them and with exit code 0.
* `environments_picked_up` (code bug, policy.py:240). The settle window guards the use of
  the cache and not its filling. A scan and a build in one tick, then silence until the
  window has passed: the environment stays invisible to that server until something else
  touches the directory. The trace adds a directory with a Dockerfile, of which
  policy.py:213-214 says that it is listed as soon as it is there.

### Divergences without a run

Met while modelling. They are outside the properties' hypotheses, or in code that is not
modelled, and listed here for whoever maintains that code.

* A create that takes longer than its reservation of 600 s loses its row to the
  collector, and `finalize()` then updates nothing: server.py:610 says garbage collection
  skips reservations. The caller is handed an id that is not on file.
  `ReservationOutlivesCreate` assumes `TimelyCreates`.
* Destroying a sandbox that is still being created is reported as confirmed without a
  request to the engine, because its row has no reference yet (native_runtime.py:195;
  lifecycle.py:129 and runtime.py:121 promise a confirmed removal).
* A background process is found by the check for survivors of any timed-out run, and the
  container is restarted under it (native_runtime.py:859), while server.py:882 promises
  that nothing stops it. docs/troubleshooting.md:136 says that a restarted sandbox is
  re-sealed and checked; `Restart` shows that it is neither.
* A language with a fixed file name (java) overwrites the file of the run before
  (native_runtime.py:708). A background process, or a run that starts after its deadline, may
  read the code of a later run; :767-769 calls the overwriting fine. Files are not modelled.
* `run(libraries=...)` attaches a network while a background process goes on, and if the
  sealing that follows fails the sandbox stays ready and unsealed (native_runtime.py:643;
  docs/security.md:70): the two clauses of `SealedOutsideInstall`.
* The docstring of `ensure_podman_transport` (engine.py:333-335) says that a CONTAINER_HOST
  of the user whose socket is dead is replaced when a live one is found. The code below it
  (engine.py:351-358) never does so, and its comment says why not. `ChoiceKept` follows the
  code and that comment.
* `classify` reports an engine that refused a request as one that cannot be reached (see
  `engine_gone`), and `resolve()` cuts the text of the error it quotes, so that the words
  `with_retry` looks for may be lost and a dropped connection is not repeated.
* `NativeRuntime._clients` (native_runtime.py:149) is never resolved again, and the repeat
  of a seal asks the same client, while engine.py:990 says "against fresh clients". A
  server whose engine came back at another path fails on its sandboxes until restarted;
  `UnavailableIsTrue` speaks only of calls that resolve.
* Two threads in the resolution can leave CONTAINER_HOST at a value nobody remembers
  (engine.py:363-390 without a lock): `HostAccounted` assumes they do not overlap.
* A user's TCP or ssh CONTAINER_HOST is overwritten when a socket is found, and then
  counts as the process's own (engine.py:361-366, against 301-306).
* After a move, a 404 from another Podman machine is taken for a removed container.
* The directory's mtime changes at `mkdir`, not when a manifest is written inside: a scan
  between the two, or a manifest written anew after an interruption, leaves the
  environment invisible (the doubt `missed`), and so does a Dockerfile written into a
  directory that has been scanned. Two threads may store one's map under the other's mtime
  (`crossed`). Both last until the directory changes; each alone refutes `BuiltIsListed`,
  as the tick does.
* `hyperbox build` of a name whose directory holds its own Dockerfile, when it fails or is
  interrupted, leaves a name that is listed as `<prefix><name>:latest` with no such image
  (policy.py:250-253; builder.py:117-123). The docstring (policy.py:213-214) promises just
  that listing.
* `_pull` (builder.py:154-157) ignores error events: if an older local image has the name,
  the failed pull is tagged and reported as built.
* Two `hyperbox init` at once lose an entry (lifecycle.py:65-83, no lock).

## 4. Bounds, timing and fairness

* **Time.** Clock values are kept as the distance to the comparison the code makes, and
  stop where the comparison no longer changes, so time is unbounded and the state is
  not. `Grace` = 2 and `CreatingTtl` = 5 are the smallest values with a tick on either
  side of the grace comparison that respect the assertion at policy.py:488
  (`CreatingTtl > 2 * Grace`); the runs without timing assumptions use 1 and 3.
  `DefaultTtl` = 1: a sandbox may expire one tick after it was touched.
* **Ids.** Two ids in `lifecycle_timely`, so that one pass has two candidates and a
  create of one id meets a sweep about another. The lock, the contract and the slots
  are per id, and one id suffices for them; the proofs are for any set.
* **Threads.** Two callers and a collector give every pair of operations that the code
  runs concurrently. In `lifecycle` the collector lives in the process of a caller, so
  that one death takes both.
* **Deaths.** `MaxCrashes` = 1. A process that died is free to start again at once: a
  new call or sweep begins from scratch.
* **Slots.** Three callers over two slots: somebody always has to wait, and two callers
  of one process compete with a third of another.
* **TimelyCreates** (a create that somebody waits for ends before its reservation runs
  out) and **TimelySweeps** (from the `known_ids()` snapshot to the last decision of a
  sweep takes less than the grace period) are assumptions about the environment, not
  consequences of the code: a hung engine or a long pull breaks them. They are
  constants. Runs and theorems that need one say so; the rest do without. With
  `TimelyCreates` withdrawn `ReservationOutlivesCreate` fails (see the divergences). A
  sweep whose engine takes longer than the grace period to answer can remove a
  container reserved meanwhile.
* **Fairness** (`lifecycle`). Every thread that can go on does (weak fairness per
  caller and per collector, whose loop sleeps a bounded interval); time passes; and an
  engine asked again and again sometimes answers: strong fairness of `Reclaim`,
  `ListManaged` and `RemoveOrphan`, since failures compete with them. No fairness on
  requests or cancellations of clients.
* **Fairness** (`slots`). Weak fairness of each caller's own scan and count steps
  and of its clock. None of the guarded work: `AskersAnswered` holds even if every
  block hangs, and `SlotsComeFree` states that work ends as its hypothesis.
* **Behaviours** (`runtime_*`). `runtime_calls` allows every behaviour that the properties
  survive, together; `runtime_killed` allows the one its trace needs.
* **Executions** (`runtime_*`). Three: a canary, a run and a background process, or two
  canaries and a run. Two networks, so that a seal can fail half-way and an install can
  attach another one. Two servers, because each runs its own canary.
* **Fairness** (`runtime_calls`). Weak fairness of the call's own steps, since every
  request has a socket timeout and a deadline wakes the caller, and of the start of
  an execution that was asked for. None of the end of a process or of a lost
  connection: `CallsEnd` does not depend on them.
* **Sockets.** Two for Podman, so that it can come back elsewhere or be two machines,
  and one for Docker. The user has set nothing; or named a Podman socket as DOCKER_HOST and
  the Docker socket as CONTAINER_HOST; or a remote host. The kinds of call are `detect`, `engine`
  on Podman and `seal` on Docker: they take every step of the five, since a sweep resolves
  as an `engine` call that does not repeat, and a runtime call is a seal that does not. That
  a client cached for Podman keeps the user's socket is left to the proof of `ChoiceKept`.
  One move of the engines: from any set of live sockets to any other. A call before it, one
  during it and one after it is what the properties tell apart.
* **Bytes.** Header 2, payloads of one byte, none and two, reads of up to 4: a read ends
  inside a header, inside a payload, at a boundary and beyond one. `Junk` is what a
  parser that has lost its place would take for a size. The proofs have any sizes.
* **Fairness** (`stream`). Weak fairness of the reader's own steps and of its socket
  timeout. Bytes that were written arrive. The engine's answers win in the end over
  failures of the poll that would settle (strong fairness of that poll), and a pipe's
  idle budget runs out (strong fairness of `GiveUp`, which needs a command that goes on).
  That the head of a reply comes at all is assumed of a pipe, which has no timeout
  (transport.py:238). None of the command's own steps.
* **Ticks.** Three, the directory's first mtime and two more: one to change it and one
  after which it is settled. `Settle` = 0 in `environments` is the smallest window that
  does its work with exact ticks; the code's two seconds cover ticks of up to that
  length. The violating run has 1, so that a call can fall inside the window or not. Of two
  names one is built, again and again, and the other gets its directory and its Dockerfile
  by hand; two builds at once touch different directories. A name that is both, a build of
  one's own Dockerfile, is left to the proofs: all three theorems hold for any `Built` and
  `ByHand`.
* **Deadlock** is not checked in the `runtime_*` runs: a removed sandbox is the end of
  what they model.

## 5. What is proved

For any sets of ids, callers, collectors, processes, slots, networks, servers and
executions, threads, sockets, frames, environments, any thread homes, any
durations that satisfy the named assumptions, any number of deaths:

| Theorem | States |
|---|---|
| `SandboxLifecycle_proofs!TypeCorrect` | types, and that whoever works on an id works on one that was issued |
| `SandboxLifecycle_proofs!Exclusive` | `UseIsExclusive` |
| `SandboxLifecycle_proofs!Refines` | `MeetsContract` |
| `SandboxTiming_proofs!ReadyComplete` | `ReadyIsComplete` |
| `SandboxTiming_proofs!FreshSpared` | `FreshIsSpared` |
| `SandboxTiming_proofs!SweepSafe` | `TimelySweeps` implies `SweepSparesRegistered` |
| `SandboxTiming_proofs!ReservationSafe` | `TimelyCreates` implies `ReservationOutlivesCreate` |
| `SandboxLocks_proofs!LocksFollowWork` | a held lock is held by a thread at work on that sandbox, and is freed before another has it |
| `SandboxLocks_proofs!ThreadsAdvance` | every step of a call or a sweep brings it nearer to its end, by a measure (of at most 4 for a call), and nothing takes it back |
| `EngineSlots_proofs!TypeCorrect` | types |
| `EngineSlots_proofs!SlotsAgree` | `OneSlotEach` |
| `EngineSlots_proofs!BoundHolds` | `MeetsBound` |
| `EngineSlots_proofs!LateCallsEnd` | the block of a call runs at most once; after its deadline every own step takes it to a later one of at most 7 stages, or leaves it a slot fewer to try |
| `NativeRuntime_proofs!TypesHold` | types, where a call can be in each stage, and that a container that is not ready has no processes |
| `NativeRuntime_proofs!Sealed` | `"blindProbe" \notin Allow` implies `SealedOutsideInstall` |
| `NativeRuntime_proofs!Resealed` | `"blindProbe" \notin Allow` implies `ResealProven` |
| `NativeRuntime_proofs!Killed` | `KilledIsGone`, whatever is allowed |
| `NativeRuntime_proofs!Marked` | `MarkedIsProven` |
| `NativeRuntime_proofs!SealedForGood` | without `"blindProbe"` and `"libraries"` in `Allow`, `CodeIsSealed`: submitted code never runs with a network, without exception |
| `NativeRuntime_proofs!CallsAdvance` | every step of a call takes it to a later one of at most 17 places or takes a network off its list, and nothing else moves it but to end it |
| `EngineTransport_proofs!TypesHold` | types |
| `EngineTransport_proofs!ChoiceIsKept` | `ChoiceKept` |
| `EngineTransport_proofs!HostIsAccounted` | `HostAccounted` |
| `EngineTransport_proofs!UnavailableTrue` | `UnavailableIsTrue` |
| `EngineTransport_proofs!CallsAreBounded` | `CallsRunOut` |
| `ExecStream_proofs!TypesHold` | types |
| `ExecStream_proofs!FramesComeOutWhole` | `FramesWhole` |
| `ExecStream_proofs!HandleHeld` | `HandleKept` |
| `ExecStream_proofs!Complete` | `SuccessIsComplete` |
| `ExecStream_proofs!Delivers` | `MeetsDelivery` |
| `ExecStream_proofs!SocketIsDrained` | on a socket only a cut connection is a flaw, so `PipeIsDrained` holds there |
| `ExecStream_proofs!ReaderAdvances` | every step of the reader reads more, puts out more or goes on, but for an idle round of a pipe |
| `Environments_proofs!TypesHold` | types |
| `Environments_proofs!Tagged` | `ListedIsTagged` |
| `Environments_proofs!ListsBuilt` | `ListsWhatIsBuilt` |

**Assumptions.** `NoId` is no id; callers and collectors are disjoint and `Free` is
neither; each thread has a process; `Grace` is positive and `CreatingTtl > 2 * Grace`;
for the slots, that they are finitely many and at least one; `Nobody` is no server (in
`Environments`, no caller), `NoRun` no execution, and there is a network; that only names are
built; that a remote address and no address are not sockets, and the
user's choices and the calls are what `AddressAssumption` says; that frames follow each
other and each is at least a header long (`FrameAssumption`).

**Exclusion and the contract.** `UseIsExclusive` is not inductive: a failed create
deletes its row without the lock, so nothing in it excludes that the row is the one in
use. `ExclusionInv` adds `LockInv` (whoever is at a place inside a lock holds it),
`CreateInv` (an id has at most one create, and while that create can still fail, or be
finalized, its row is not ready) and `UseInv` (a sandbox in use has a ready row). With
it the only deleter that skips the lock never meets a ready row. The refinement follows
step by step: each action is `Claim`, `Publish`, `Begin`, `Leave`, `Retire` or stutters.

**Rows, containers and time.** Four lemmas (`CallMoves`, `RowMoves`, `BoxMoves`,
`GcMoves`) say how one caller, row, container or collector may change in a step; the
invariants are proved from those and not action by action. `BuiltInv`: a container is
complete when its create is about to finalize, unless it is gone. `SweepInv`: under
`TimelySweeps`, a container whose id was not in the snapshot but is on file is no older
than the snapshot, so it is younger than the grace period. `DeadlineInv` and `DropInv`:
under `TimelyCreates`, a reservation somebody waits for is not expired, so none is being
dropped.

**Expiry.** `FreshIsSpared` holds at the re-check, and has to survive everything until the row
is deleted. `HeldRow` shows that no other thread writes that row: who writes rows holds the
lock, which the collector has; or is a create whose row is not ready, and this one is; or
reserves an id that was never issued. Time only keeps an expired row expired. `SpareMoves`
gives the ways a collector can be at those places.

**Locks and progress of calls.** `HeldInv` is the converse of `LockInv`: a lock that is held
is held by a thread whose place is inside it, with that id. Both are needed for
`LocksComeFree`, of which `LocksFollowWork` is what a proof of safety can say. `CallLeft` counts
the steps of a call; for a sweep, `Onward` is lexicographic: fewer passes left, or fewer
candidates in this one, or one step further with the candidate it has locked. A death
takes a call to its end and so nearer to it.

**Slots.** The places and locks agree (`OneSlotEach`), which is proved from the three ways
the locks move: somebody takes a free slot, some give up what they hold, or nothing moves.
So the callers at work map one to one into the slots, and a caller about to take a free
slot s finds fewer at work than slots, because none of them has s (`RoomInside`).
`LateCallsEnd` rests on `RunsOnce`, that a call whose block has run never works again
though the code takes an `OSError` of the block for a busy slot, and on `Closer`: a later
stage of the call, or the same with fewer slots to try or the counted one let go. Before
the deadline there is no such measure, because the scan, the probe and the backoff loop
around.

**Sealing, killing, canary.** `SealedOutsideInstall` says nothing of a moment without
processes, so it is not inductive: `SealInv` says that a sandbox handed back has no network
but in an `InstallWindow` or once `lapsed`, and that a call seals, probes or installs on such
a sandbox only if it has libraries. The one step into "ready", and the one that ends a
lapse, is `ProbesPass`, where the probes have seen no network; `StageInv` excludes processes
before it. For `KilledIsGone`, `KillInv` says that what was claimed and could be seen has
ended, which is final: `FoundNone` after a look claims a run that has no process, and one
that had not been started is in `unseen`. A look that found another run's process has led
to the restart. `MarkedIsProven` is inductive with the types. `SealedForGood` adds `OpenedByLibraries`: only a
call with libraries has ever opened the sandbox. For `CallsAdvance`, `PlacesLeft` orders the
places, with `again` and the kind of the awaited execution to tell a second listing from a
first and the code from its canary; where a place is kept (the sealing), `todo` shrinks.

**The user's choice.** `ChoiceKept` alone is not inductive: a thread that had already
compared and found the value its own could drop or replace the user's. `PodmanKept` adds
that a user's socket leaves `own` unset, and that no thread is at a place where
CONTAINER_HOST is about to be changed. `UnavailableIsTrue` speaks of one step and rests on
the whole call: `Sees` says, per place of a call that is `Tracked` (it resolves, is in
progress, and no engine has moved since it began), what its way there has shown it of the
sockets: that the backend it has given up, or the one it is about to give up, cannot be
reached; that what it dials is up just when its backend can be reached; and that a call
which has repeated for any other reason than a dropped connection has met a dead socket.
`FailSees` is the lemma about an attempt that fails; `Excused` are the calls the property
says nothing of. `CallsRunOut` needs no invariant but the types. `Accounted` says what each thread
in the resolution knows of `host` and `own`; other threads wait outside as long as nobody
overlaps.

**The stream.** `InOrder` orders the five counters of bytes, `AtBoundary` puts the start
of the frame buffer at the end of a frame of the command, so that what is read there is a
header and never `Junk`, and `FramesWhole` follows. `Held` has the handle open just as long
as the socket or a file of it is not closed, and ties both to the place, so that the two
closings may come in either order. For `SuccessIsComplete`, `Ending` says that a closed connection, or a window
that is open, means an ended command, and that without flaws the buffers hold nothing that
a peek misses; `Drained` then has all bytes fed, and `Parsed` no whole frame left. The
refinement is step by step: the steps of engine and transport that change no count stutter
(`Unseen`), `ParseFrame` gives the next frame because it has been written (`NextFrame`),
and `ExitCode` is allowed because of `SuccessIsComplete` in the state it leads to.
`ReaderAdvances` counts bytes to read, then frames to put out, then places; that a `Take`
gets on at all needs `AsksForSome`.

**Environments.** `ScanInv`: while the directory's mtime is the one a scan began with, and
the scan is not in doubt, the scan has every directory there is, and no other can come
under that mtime because its tick is over. `CacheInv` says the same of the cache, and of
the state between its two assignments. `CallInv` carries it to what a call owes its caller.
`TagInv` orders engine, directory and manifest in a build; what a scan finds beside recorded
names has a Dockerfile, which nobody takes away.

**Only model-checked.** All liveness (`CallsReturn`, `LocksComeFree`,
`EverythingReclaimed`, `AskersAnswered`, `SlotsComeFree`, `CallsEnd`, `ReaderReturns`):
temporal reasoning under fairness, and `ENABLED`, are beyond the installed prover. What can
be said of them without fairness is proved: that the calls' own steps are bounded (but for
the waits of a slot's caller before its deadline and the idle rounds of a pipe) and taken back
by nobody (`ThreadsAdvance`, `LateCallsEnd`, `CallsAdvance`, `ReaderAdvances`, and
`CallsAreBounded` for the calls of `engine`), and that no lock or slot stays with a thread
that is not at work (`LocksFollowWork`, `SlotsAgree`). What is left to TLC is that such steps
are enabled and happen. `EverythingReclaimed` has no proved half: it depends on the engine's
answers and on sweeps that come again.

## 6. Not modelled

* **No state of its own**: argument parsing, output and progress, client configuration
  files, texts of errors, the validation of strings and numbers, the directory walk of
  `buildcontext.py` and its patterns, version negotiation, the SDK-shaped wrappers of
  engine.py. Unit tests reach these.
* **Recursion over data**: the extraction of an archive in `hyperbox pull`, which reads a
  sandbox without its lock, and the parsing of timestamps.
* **One command**: `init_sync_root` of `hyperbox init`, a read followed by a write (see the
  divergences). `hyperbox doctor` makes a container without a row, which a sweep may take
  once it is older than the grace period.
* **Once only**: the registry's schema creation and its migration from v0.1.
* **Windows**, but for the pipes of `ExecStream`: the choice of a named pipe keeps no
  state, and locks behave alike at the grain of these modules.
* **Files in the container**: the code of a run, its pid file and a background process's log
  are not followed (see the divergences for the file name that java shares).
* **Faults of the engine** beyond those named: `blindProbe` of `NativeRuntime` can be allowed
  in an instance, but the sealing properties are about what the probes can see.

# Formal models of action-kit

TLA+ specifications of the Go code of action-kit, TLC configurations that
check them, and proofs for TLAPS. Paths below are relative to the root of the
repository.

## 1. Inventory: the system and its parts

Steadybit actions are small HTTP servers ("extensions"). An agent drives every
execution of an action through `prepare`, `start`, repeated `status` calls and
`stop`. action-kit contains the API types, an SDK that turns a Go type into such
an HTTP server, a library with the attacks most extensions share, and a test
kit.

| Part | State it keeps | Operations | Correct when |
| --- | --- | --- | --- |
| **Action SDK lifecycle** `go/action_kit_sdk` | in memory: state of each execution (`sync.Map`), list of stop events (mutex), heartbeat monitors (`sync.Map`), one goroutine per monitor; on disk: uploaded files | `handlePrepare`, `handleStart`, `handleStatus`, `handleStop`, `StopAction` (heartbeat timeout), `StopAllActiveActions` (signals) | every modification is rolled back in the end; the state needed for it is not lost; nothing is leaked; a client learns of a rollback |
| **Test client** `go/action_kit_test/client` | the state it carries from answer to request | `runAction` and the four requests | it follows the protocol of `docs/action-api.md` |
| **Network faults** `go/action_kit_commons/network/netfault` | registry of active attacks per network namespace, a lock per namespace, the qdiscs and rules of the kernel | `PreflightCheck`, `Apply`, `Revert`, the options' `ip`/`tc` commands, batches with ignorable errors | conflicting attacks never overlap; after the last revert the namespace is as before |
| **Qdisc snapshots** `netfault/snapshot*.go` | the captured tree | capture, sanitise, order, restore | the restored tree is the captured one |
| **Network filters** `netfault/utils.go`, `network/types.go` | none | deduplicate, necessary excludes, condense, port masks, merge of networks | filters match exactly (after condensing: at least) what was asked for |
| **Background processes** `utils/exec.go`, `stress`, `memfill`, `diskfill_runc/process`, `dnsinject` | exit state guarded by a condition variable or sent on a channel; kill timers; container bundles | `Start`, `Exited`, `Stop` | `Stop` returns and leaves no process, container, bundle or file; legal after any history |
| **Diskfill size** `diskfill/diskfill.go` | none | amount and block size from options and disk usage | the amount written is the amount asked for |
| **OCI runtime** `ociruntime` | bundles with finalizers, mounts | `Create`, `Run`, `Kill`, `Delete`, `Remove`, namespaces | every mount and directory is undone, also after a failure half way |
| **DNS resolution** `network/dnsresolve` | none | parse the answers of `dig` | every name asked for is resolved, or an error |
| **Shared helpers** `utils` | hashed mutexes | lock by key, executables, cpus | mutual exclusion per key |
| **Action API types** `go/action_kit_api`, `openapi` | none | generated data types | |
| **e2e harness** `go/action_kit_test/e2e` | minikube, helm | I/O around external tools | |

How they interact. The agent (or the test client) calls the SDK's handlers;
`net/http` runs each request in a goroutine of its own. The handlers call the
action's methods `Prepare`, `Start`, `Status`, `Stop`, which use the attacks of
`action_kit_commons`. Independently of requests the goroutines of the heartbeat
monitors and the signal handler call `StopAction`, which calls the action's
`Stop` as well. All of them share the three package variables of
`action_sdk.go`. Attacks on one network namespace share the registry of
`netfault.go`.

Hard to get right, and listed line by line as `hazards` in `PROJECT.json`:
handlers, timeouts and signals that work on one execution at once; `Start`'s
effect, its stored state and its monitor coming one after the other; a stop
event that is recorded before the rollback; failing rollbacks that are repeated;
a bounded list of events; clients that disappear or give up; everything in
memory being lost by a restart. In the library: attacks on one namespace that
fail half way or are reverted in another order than applied, a preflight check
that is old by the time of the apply, the order of a replayed qdisc tree,
arithmetic on ports and prefixes, processes that ignore a signal, containers
and mounts that have to be undone in order, and a target whose processes end
while its namespace is looked for.

## 2. The modules

| Module | Models | Section |
| --- | --- | --- |
| `ActionSdk`, `ActionLifecycle`, `RollbackContract` | the SDK, its client, and the promise they implement | 3 |
| `Netfault` | network attacks on shared namespaces | 4 |
| `PortRanges`, `NetFilters`, `QdiscSnapshot`, `DiskfillSize`, `DnsResolve`, `BatchErrors` | pure algorithms as operators | 5 |
| `Processes`, `Namespaces`, `Sidecar` | background processes and containers, the search for a target's namespace, and their composition | 6 |
| `MCActionSdk`, `MCActionLifecycle`, `MCNetfault`, `MCAlgorithms`, `MCSidecar` | instances for TLC | with their models |
| `ActionSdkProofs`, `ActionLifecycleProofs`, `NetfaultProofs`, `NamespacesProofs`, `SidecarProofs`, `PortRangesProofs`, `AlgorithmsProofs` | theorems and proofs | 7 |
| `Recursion` | lemmas about recursive functions and folds | 7 |

`ActionLifecycle` composes the SDK with a client and refines `RollbackContract`.
`Sidecar` composes `Processes` and `Namespaces` and implements both.
`NetFilters` is built on `PortRanges`, and `MCAlgorithms` puts all algorithms
behind one next-state relation. `Netfault` and `QdiscSnapshot` look at a restore
from two sides: `Netfault` at when a snapshot is taken, kept and used, with the
restore as one step; `QdiscSnapshot` at what that step does to a tree. Attacks
reach the SDK only through the methods of an action, which `ActionSdk` takes as
steps that may fail; the modules are therefore not composed with each other.

Modules declare their parameters as `CONSTANTS`, with named assumptions where
something is proved about them. Recursion is written as recursive functions and
folds, so that every module can be proved about.

Definitions whose comment starts with "Fault:" are plausible mistakes beside
the definition they distort. No specification uses them; they serve to show
that each checked property depends on the code.

## 3. The action SDK

### Modules

| Module | What it is |
| --- | --- |
| `ActionSdk` | The SDK, open to any client: `Spec` |
| `ActionLifecycle` | The SDK and a client that follows the protocol, with the faults named by `Faults`: `LifecycleSpec`, `FairSpec`, `FairClientSpec` |
| `RollbackContract` | Abstract promise of the SDK: keep nothing but the state the action's code left last, modify only with a state kept, forget it only when no rollback is owed |
| `MCActionSdk`, `MCActionLifecycle` | Instances for TLC |

Every goroutine is a thread with a program counter `pc[t]`: the elements of
`Handlers` serve one request at a time, every element of `Monitors` is an
`extheartbeat.Monitor` together with the goroutine that reads its channel,
`Signal` runs the signal handler. One step is one access to shared memory or
one call of the action's code, so all interleavings of the real accesses are
there: `sync.Map` operations, and what happens under `stopEventsMu`, are
atomic in the code.

| State | In the code |
| --- | --- |
| `states` | `inmemoryStatePersister.states`; of an action's state only the call that modified it last is kept |
| `stopEvents` | `stopEvents`, reduced to execution ids |
| `heartbeatMonitors` | `heartbeatMonitors` |
| `monitor`, `overdue`, `due` | life of a monitor, its timeout being over, the notification in its channel of capacity 1 |
| `exec`, `arg`, `held`, `reply`, `pending` | local variables of the goroutines |
| `modified`, `files` | the system modification `Start` makes and `Stop` reverts; the folder `/tmp/steadybit/<id>` |
| `produced`, `abandoned` | history: the last state the action's code left; modified executions whose last `Stop` reported a failure in its result only |

| Request | Actions, in the order of the code |
| --- | --- |
| prepare | `PrepareRequest`, `HandleFiles`, `CallPrepare`, `PersistPrepared` |
| start | `StartRequest`, `CallStart`, `PersistStarted`, `MonitorHeartbeat`, `StopPrevious` |
| status | `StatusRequest`, `FindMonitor`, `RecordHeartbeat`, `CheckStatus`, `CallStatus`, `PersistStatus` |
| stop | `StopRequest`, `TakeMonitor`, `StopMonitor`, `CheckStop`, `CallStop`, `RemoveFiles`, `DeleteState` |
| `StopAction` | `GetState`, `MarkAsStopped`, `RollbackSucceeds`, `RollbackReportsFailure` or `RollbackFails`, `TakeMonitor`, `StopMonitor`, `DeleteState` |
| `StopAllActiveActions` | `SignalArrives`, then `StopNext` and `StopAction` for each id, `AllStopped` |

`Deliver` sends the answer, `Restart` ends the process at any point and starts
it anew. Which optional methods an action has, and whether its `Stop` may fail
or its state may be impossible to encode, is a parameter of each execution
(`Stoppable`, `WithStatus`, `Monitored`, `StopMayFail`, `Encodable`).

### Modelling decisions

- Requests are well formed. A body that does not parse, or a state that does
  not convert back, is answered with an error before anything is touched.
- `StopAction`'s early returns for an unregistered action and for a state that
  does not convert cannot be taken: the state was stored by a registered action
  that had just encoded it. `PersistState` and `DeleteState` of the in-memory
  persister never fail.
- A successful `Stop` reverts the modification with whatever state it is given;
  a failed one changes nothing. `Start` may have modified the system when it
  fails.
- A `Stop` may fail in two ways. With an error, `handleStop` answers it and
  `StopAction` keeps state and monitor. With an error in its result only
  (`StopResult.Error`), both go on as if it had succeeded: files, state and
  monitor are gone, and only the client of a `handleStop` is told
  (`action_http_adapter.go:388-422`, `action_sdk.go:163`). `abandoned` remembers
  that, and `RollbackStateKept` and the contract let such executions off.
- A method that sets `State` in its result is answered with an error, and the
  handler goes on (`action_http_adapter.go:92-94`, `227-229`, `319-321`): the
  outcome `"error"`.
- `Notify` and `Swap` in `monitorHeartbeatWithCallback` are one step: a monitor
  nobody else knows cannot be overdue within that time. The reading goroutine
  exists from the `Swap` on, since it first blocks anyway.
- `Range` of `GetExecutionIds` is one step. The ids are stopped in any order,
  as the order of a `sync.Map` is not defined.
- `extheartbeat` belongs to extension-kit and is modelled as external from how
  the SDK uses it and describes it (changelog 1.3.2): a timeout is sent again
  and again while heartbeats stay away, `Stop` is idempotent and closes the
  channel, a value that is already in the channel is still delivered.
- Time is abstract. `Silence` may happen whenever no heartbeat has been recorded
  since the last one; in `ActionLifecycle` the fault `"delay"` says whether it
  may also hit a client that is alive.

### The client and the faults

`ActionLifecycle` follows `runAction` of the test client, which is the
repository's own reading of `docs/action-api.md`: a failed prepare ends the
execution, a failed start is followed by stop, status is repeated until it
completes or fails or the duration is over, then stop. One request of an
execution is under way at a time, except after the client gave one up.
`Faults` selects `"vanish"` (the client disappears between any two steps),
`"giveUp"` (it takes a request for failed that the extension still works on),
`"delay"`, `"signal"` (SIGUSR1) and `"restart"`.

### Runs

All runs use sets of one or two model values. One execution is enough for
everything but the shared list of stop events, because the other shared
variables are maps indexed by the execution and no step reads the entry of
another one; two executions are used where the list, or an unstoppable
execution beside a stoppable one, matters. Two monitors are the number the
replacement of a registered monitor needs; two handlers the number a race of
two requests needs. `MaxStopEvents` is 1 in the place of 100, so that the list
is at its limit after two events; it is 0 in `lifecycle_faults` and
`lifecycle_contract`, whose properties do not depend on how long an event is
kept, which leaves one event and fewer states. Monitors are not used again after they were
stopped: with all of them used up, a start stays at `MonitorHeartbeat` in the
lifecycle runs of one monitor, where each execution starts once.

| Run | Instance | Shows |
| --- | --- | --- |
| `sdk_monitors` | open SDK, 2 handlers, 2 monitors, restarts, `Stop` may fail | `NoOrphanMonitor`, `RegisteredMonitorRuns`, `StopEventsBounded` |
| `lifecycle_faults` | two handlers, giveUp, delay, signal, restart; prepare, start and status may fail, `Stop` succeeds | `TypeOK`, `ClientTypeOK`, `CleanStop`, `PersistedIsLatest` |
| `lifecycle_contract` | vanish, delay; stoppable and unstoppable execution | `RollbackStateKept`, `ImplementsContract` (refinement of `RollbackContract`) |
| `lifecycle_rolled_back` | vanish, delay, fair SDK and client, `Stop` succeeds | `RolledBack`, `RollbackIsReported` |
| `lifecycle_stop_events` | two executions, full list of stop events, delay | `NoSilentRollback` |

The lifecycle runs switch the deadlock check off: a finished execution is the
end of the system. In `sdk_monitors` it says nothing, since the process can
always be restarted. That run leaves prepare, the call of a
status and signals to `lifecycle_faults` (`MCActionSdk`).

Runs that TLC must find violated, each one a disagreement of the code with its
documentation:

| Run | Property | What happens |
| --- | --- | --- |
| `stopped_not_rolled_back` | `StoppedMeansRolledBack` | the stop event is recorded before `Stop` is called; after a failed `Stop` the client is told "Action was stopped by extension" and its own stop does nothing but remove the monitor that would have retried |
| `start_after_signal` | `RolledBack` | a signal stops a prepared execution, `Start` takes effect afterwards, and the client's stop is answered from the stop event without calling `Stop` |

So `RolledBack` and `RollbackStateKept` hold for lost clients and late
heartbeats and fail for signals and abandoned starts (section 8): the passing
runs name exactly the faults under which they hold. `RolledBack` is checked for
one execution whose states can be encoded and whose `Stop` succeeds; a state
that cannot be encoded, and a `Stop` that fails in its result, make it fail
(section 8), and `RollbackStateKept` is checked with both. `CleanStop` speaks of
executions that end without any error: one that the extension stopped, or whose
upload failed, is let off, and keeps its files.

### Fairness

`SdkFairness`: weak fairness of every handler, of the goroutine of every
monitor and of the signal handler, because each is a goroutine that blocks on
nothing but its own next input (the only lock is held for the length of one
list operation) and the action's methods are taken to return; weak fairness of
a monitor's notification; weak fairness of a timeout after the client ended,
because then no heartbeat is recorded any more; strong fairness of a successful
`Stop` in `StopAction`, that is, a rollback the monitor repeats again and again
succeeds in the end. Nothing is assumed of the client, so `RolledBack` also
holds for one that stops at any point. `ClientFairness` (a client that is there
receives its answers and goes on) is there for `RollbackIsReported`, which
speaks of such a client; a client that may vanish can still do so at any step.

## 4. Network faults: `Netfault`

An element of `Attacks` stands for the caller of one attack: `PreflightCheck`,
then `Apply` at most once, then `Revert` until it succeeds. Its options, its
namespace, the mutex that namespace hashes to, the interfaces and their qdisc
trees before any attack are constants.

| State | In the code |
| --- | --- |
| `pc`, `err`, `snapshot` | where the call is, the joined error of a revert, the snapshot the caller keeps between `Apply` and `Revert` |
| `mutex`, `activeNetfault` | `runLock` (ten hashed mutexes) and the registry of active attacks |
| `tree`, `rules`, `chains` | the kernel: root qdisc and parts of each interface, ip rules and iptables chains of each namespace |
| `faults`, `restarts` | bounds on failures and restarts |
| `lossy`, `unchecked`, `inherited` | history: namespaces whose snapshot the code gave up, interfaces whose root may not be replaced and that no check refused, interfaces where an attack captured another one's qdiscs |

| Call | Actions, in the order of the code |
| --- | --- |
| `PreflightCheck` | `Preflight` (the look into the registry), `Inspect` (`tc qdisc show`) |
| `Apply` | `Apply` (the lock), `pushActiveNetfault`, `captureSnapshotForApply`, `RunAdd` |
| `Revert` | `Revert` (the lock), `RunDelete`, `popActiveNetfault`, `applyRestore` |
| either, with too many tc commands | `generateCommandsFails` (before the lock) |

`Compares` lists for each type of options what its `doesConflictWith` compares.
A command is a member of a small set: the root qdisc, the parts below it
(`netem`, `u32`, `fw`, `class`), an ip rule, a chain. `AfterAdd` and
`AfterDelete` say what they do to a tree: `tc -force` goes on after a failing
line, `replace` leaves a root of the same kind alone, deleting what is gone is
an ignored error. A failing `add` or `delete` leaves out any of its commands or all of them, a
failing `restore` any of the interfaces. The early return on a script error
(`netfault.go:175-177`) is never taken: a provider returns an error for a mode
it does not know only. `Restart` empties registry and mutexes; calls
under way break off, options and snapshots are the callers'.

Runs. `netfault` has five attacks: `d2` and `p2` are conflicting delays on one
interface, `p2` with an iptables chain; `d1`, on the same one, takes more
tc commands than allowed (`Excessive`) and never gets to the lock; a blackhole `k1` and
a loss `u1` on an interface of a user share a second namespace; both namespaces
share a mutex. Two conflicting attacks on one interface suffice for everything
that is about an interface, since a third is refused for the same reasons; a
second namespace is there for what is shared by hash. One thing goes wrong, at
any point: a step fails, deletions where attacks meet included, or the extension
restarts (`MaxFaults`, `MaxRestarts`); the theorems hold for any number of both,
and for tcp resets, which no run has. Equal attacks are left to
`netfault_equal_attacks`. The deadlock check adds little: `d1` can be reverted
without end.

| Run | Shows |
| --- | --- |
| `netfault` | `TypeOK`, `LockIsHeld`, `NoConflictingActive`, `AdmittedAlone`, `NoResidue`, `NamespaceRestored`, `UserRootKept` |
| `netfault_equal_attacks` | violates `OverlapsRestored`: the second of two equal attacks captures the first one's tree and installs it for good |
| `netfault_revert_retry` | violates `RevertCompletes`: a revert of a PSH delay that failed in the restore can never succeed, its chain being gone |

The registry does not know all attacks whose rules are in place. A revert whose
commands failed takes its attack out all the same (netfault.go:193), a restart
forgets all, and equal attacks do not conflict. `AdmittedAlone` says that these
three are the only ways in which an attack is let in on top of another one's
qdiscs. It then takes them for the host's and replays them (`inherited`), so
that `NoResidue` and `NamespaceRestored` leave such interfaces out, and nothing
else on that account. `OverlapsRestored` is `NamespaceRestored` without that
exception. The properties speak of a namespace whose attacks are all reverted.
That a refused apply's revert takes away qdiscs of the attack that is active, and
so ends its effect, is in the model but in no property.

`NamespaceRestored` also exempts namespaces the code lost a snapshot of (a failed
capture, an apply that failed or was cut off by a restart), as its comments
announce. A root is unsafe when a user or the CNI installed it, in strict mode
also when the kernel's own was tuned; `UserRootKept` and `NamespaceRestored`
exempt unsafe interfaces whose preflight check was skipped or failed. Only
attacks change trees in the model: a user or a CNI that installs a root between
the check and the apply is not there.

Fairness, used by `netfault_revert_retry` only: a call that has the lock goes on
(weak), and the caller repeats a failing revert and gets the lock in the end
(strong: Go's mutexes hand over to a waiter that starves).

## 5. Algorithms

Each algorithm is an operator, translated step by step; `MCAlgorithms` makes
every input an initial state and computes the output in one step.

| Module | Operators | Property | Reference |
| --- | --- | --- | --- |
| `PortRanges` | `getMask`, `portMask` | `MasksExact` | the ports of the range, each in one block; every range of 6 bit ports |
| `NetFilters` | `optimizeFilter`, then the rules of tc, PSH delay, blackhole and tcp reset | `EndsTargeted` | an end is in a network to include and in none to exclude; 1 or 2 includes, up to 2 excludes of 16 networks with ports |
| `NetFilters` | `CondenseNetWithPortRange` | `CondenseCovers` | all that was covered is covered; 4 networks in any order, limits 1 to 3 |
| `PortRanges`, `NetFilters` | `ComputeExcludesForOwnIpAndPorts` | `OwnPortsExcluded` | exactly the own ports; all pairs of 3 bit ports |
| `QdiscSnapshot` | `restoreSnapshot` | `TreeRestored` | every tuned qdisc is back in its class of what it was below, nothing failed; trees of up to 5 qdiscs and depth 4 in any order, hidden and other handles, a failing claim |
| `DiskfillSize` | `Args` | `FillMeetsTarget` | between half of the amount and the amount, short by less than a block |
| `DnsResolve` | `resolve` | `AllNamesResolved` | every name has an address of its own; up to 3 lines in any order |
| `BatchErrors` | `run`, `filterBatchErrors` | `NoErrorHidden` | only expected errors are ignored, each under its own command |

Widths, `Kilo` (1024) and `Hundred` are constants and small in the run: ports
have 3 bits (6 for masks), addresses 3. The algorithms treat no bit in a special
way and no value but the ends of the range, which are there at any width.
Addresses are of one family. `FilterNwps` and `CondenseNwps` leave out lists in
which two networks start at the same address and differ in the prefix, see
section 8. The lists of
a filter come in the order opposite to the one `optimizeFilter` sorts them in;
`slices.SortFunc` is an insertion of one entry after the other, which is as good
as any sort: entries that compare as equal are equal.

What the kernel may list of an interface is `IsListing`: a tree of qdiscs, no two
in a place or with one handle (a handle of 0 hides the real one). Qdiscs the
kernel attaches by itself below the root have no children, and below a hidden
handle all handles are hidden, as `shouldSkipQdiscOnRestore` says. Its listings are
the inputs of `restoreSnapshot`, and the root there after the deletion
(`AfterDelete`) has, if it is one the kernel manages, the saved one's kind and a
handle that is hidden or was free.

## 6. Processes in sidecars: `Processes`, `Namespaces`, `Sidecar`

`Processes` follows one process from its preparation to its last stop. `kind`
chooses among the child processes `stress`, `fill`, `mem` and `dns`, the
containers `stressRunc`, `fillRunc` and `dnsRunc`, and the containers that run a
single `command` (tc, ip, dig) or `check` (df and write checks, with the
target's files mounted). What differs between kinds is a small operator each
(`MountsTarget`, `StopTimers`, `DereferencesState`, ...).

| State | In the code |
| --- | --- |
| `finalizers`, `held` | `containerBundle.finalizers`; which of directory, root file system and target mount exist |
| `proc`, `received`, `file` | the program, the signals it got, the fill file |
| `exited` | `BackgroundState` behind its condition variable, or the channel of `processBase`: no state yet, not exited, known, taken by a status call, consumed by Stop |
| `timers` | the timers of `Stop` that have not fired |
| `answer`, `stops`, `intact` | the last status answer; bound; nothing of the target was deleted |
| `reported`, `undeleted` | history: a `Stop` returned an error about the file; a forced delete of a running container failed |

| Operation | Actions |
| --- | --- |
| `New...` | `NewChild`, or `Create`, `MountFromProcess`, `EditSpec` |
| `Start` | `Start`; the goroutine `Waiter` |
| `Exited` | `Status`, `StatusPutsBack` |
| `Stop` | `Stop` (signal, timers), `TimerFires`, `StopFinishes` (rm, delete, remove) |
| a single command | `RunOnce`, `RunReturns`, `DeleteForced`, `RemoveBundle` |
| the host | `ContainerStarts`, `EndsBySignal`, `EndsByItself` |

`Namespaces` is one `LinuxNamespace` of the target: the inode read once, the
path at which it was found, and `refreshNamespace` before each use. The host's
processes and names appear and disappear at any step. The search looks at
process 1, then at the caller's candidates, then at a listing of `/proc`, then
at named namespaces, one place per step; candidates and `/proc` come in any
order. A link or an inode that cannot be read passes the place over
(`CannotRead`), a failing read of `/proc` ends the search without a look at the
names (`allProcessesFails`: it is not `errorNsNotFound`), and so does a failing
`ip netns` (`ListingNamesFails`). `steady` are the places that have led to the
namespace since the search began, but for those it failed to read in one of
these ways. A process is forked into an existing namespace, and process 1 stays.
`MayReuse` says whether a pid or a name may come back; where it does not, the
properties hold, where it does, `RightNamespace` cannot: `os.Lstat` succeeds
whatever is at the path now. Only the network namespace is modelled, the one
type that is also looked up by name: for others the search is the same without
the names.

`Sidecar` composes the two: while the bundle of a dns injection or of a `command`
is prepared the namespace is refreshed, `EditSpec` waits for that, and a
container that starts joins what is at the path at that time, or fails. Stress
and disk fill containers and checks join no network namespace. The search and the host go on by themselves.
It implements both modules, which is proved.

The run `sidecars` checks every kind, with two stops, each step that the model
lets fail failing (`FaultKinds`: creating the bundle, mounting, editing, starting,
`rm`, a forced delete), programs that ignore SIGINT (`dns` also SIGTERM), three
processes, one name, two namespaces and a candidate that is not process 1. A stop
may come before the start, after one that failed, and again after a success. Two
stops are what a retried stop needs; three pids give a namespace that moves from
one process to another while the first one is still the host's.

| Property | Says |
| --- | --- |
| `TypeOK`, `NothingLeftBehind`, `TargetFilesKept`, `ContainerHasItsRoot`, `ExitKnownForGood`, `StopReturns` | of `Processes` |
| `RightNamespace`, `FoundIfHeld`, `HostDetected` | of `Namespaces`, in the composition |

Its deadlock check is off: an execution ends.

Fairness (`SidecarSpec`): the waiting goroutine, the second half of a status
call, timers, a starting container and a program's reaction to a signal it does
not ignore are weakly fair; each is a step nobody else can hold up. `StopFinishes`
is strongly fair: it is enabled whenever the channel is full, a status call may
empty it for a moment again and again, and Go hands a value to the receiver that
waits. Nobody has to call anything, and no program has to end by itself.
`TimerFires` assumes that a container is created within the ten seconds before
the first timer.

What the code does not clean up is named in the properties, and the run reaches
each of it:

- `Stop` of a `fillRunc` that was never started returns at once and leaves its
  bundle (`BundleForgotten`).
- A `delete --force` that fails is only logged; the bundle is removed while the
  container runs (`undeleted`).
- A second `Stop` of a dns injection, and any of a `dnsRunc` that was never
  started, waits for ever (`StopReturns`).
- A fill file that could not be removed stays, and the repeated `Stop` of a
  `fillRunc` reports a success (`reported` remembers that the first did not).
- A search for the namespace that fails to read what it looks at gives up, or
  does not find the path of process 1 (`FoundIfHeld`, `HostDetected`).

Simplifications. A dns injection refreshes the namespace before `Create` in the
code, after it in the model; both come before `EditSpec`. Commands in a named
namespace run by `ip netns exec` without a bundle, which is `Use` in `Namespaces`.
An umount that fails, a signal to a pid that was given away, two containers
named within one millisecond, two stops at the same time, and a start after a
stop or a second start are not modelled. The exit of the runtime's client is
taken for the exit of the program, except where a request is cancelled. The unforced
`Delete` of `Stop` comes after the program's exit; whether it fails makes no
difference to the properties. A dns injection into a named namespace runs without
a bundle (`dns`); that `dnsRunc` also joins named paths in the model adds
behaviours the code does not have. Executions share nothing, so one
is enough.

## 7. Proofs

Proved by TLAPS for every value of the constants that meets the named
assumptions of the modules:

| Module | Theorem | Statement |
| --- | --- | --- |
| `ActionSdkProofs` | `TypeCorrect`, `StopEventsStayBounded` | `Spec => []TypeOK`, `[]StopEventsBounded` |
| | `MonitorsNeverOrphaned`, `RegisteredMonitorsRun` | `Spec => []NoOrphanMonitor`, `[]RegisteredMonitorRuns` |
| | `OnlyOutnumberedForgotten` | a running process forgets a stop event only after `MaxStopEvents` others |
| `ActionLifecycleProofs` | `ClientTypeCorrect`, `LifecycleImplementsSdk`, `LifecycleMonitorsSafe` | `LifecycleSpec => []ClientTypeOK`, `=> Spec`, and the invariants of the open SDK |
| | `PersistedStateIsLatest`, `StoppedIsClean` | `LifecycleSpec => []` of `PersistedIsLatest`, `CleanStop`, whatever the faults |
| | `RollbackAlwaysPossible`, `LifecycleImplementsContract` | `LifecycleSpec => []RollbackStateKept`, `=> ImplementsContract`; for `Faults` within `"vanish"` and `"delay"` |
| | `RollbackIsNoticed`, `RollbackIsNoticedUnlessOutnumbered` | `LifecycleSpec => []NoSilentRollback`, whatever the faults, as long as a stop event outlasts its client's request to stop; it does while events of other executions do not fill the list |
| `NetfaultProofs` | `TypeTheorem`, `LockTheorem`, `ConflictTheorem`, `AdmissionTheorem`, `UserRootTheorem` | `Spec => []` of `TypeOK`, `LockIsHeld`, `NoConflictingActive`, `AdmittedAlone`, `UserRootKept` |
| | `RulesTheorem` | the first half of `NoResidue`: an idle namespace has no rule and no chain |
| | `ResidueTheorem`, `RestoreTheorem` | `Spec => []` of `NoResidue`, `NamespaceRestored`, whatever fails or restarts |
| `SidecarProofs` | `TypeTheorem`, `TargetFilesTheorem`, `ContainerRootTheorem`, `NothingLeftTheorem` | `Spec => []` of `TypeOK`, `TargetFilesKept`, `ContainerHasItsRoot`, `NothingLeftBehind` |
| | `ExitTheorem` | `Spec => ExitKnownForGood`, an action property |
| `NamespacesProofs` | `RightNamespaceTheorem`, `HostDetectedTheorem`, `FoundIfHeldTheorem` | `Spec => []` of `RightNamespace` (without reuse) and `FoundIfHeld`, `=> HostDetected`, an action property |
| | `ImplementsProcess`, `ImplementsTarget`, `SidecarBundleTheorem`, `SidecarCleanTheorem`, `SidecarExitTheorem`, `SidecarNamespaceTheorem`, `SidecarFoundTheorem`, `SidecarHostTheorem` | `SidecarSpec` implements both modules and has their invariants |
| `PortRangesProofs` | `OverlapTheorem`, `MergeTheorem` | overlap and merge of ranges in terms of their ports |
| | `MaskTheorem` | `getMask` is exact for every range of every width |
| `AlgorithmsProofs` | `FillTheorem` | `Args` meets its target for every disk, amount and block size |
| | `ResolveTheorem`, `BatchTheorem` | `resolve` and `filterBatchErrors` for every list of names, answer and output |
| | `FilterTheorem` | each kind of attack hits what a filter covers and nothing else, for every filter, address and port; networks that differ in nothing but the prefix excepted |
| | `OrderTheorem`, `TreeTheorem` | the order and the result of a replay, for every listing of any size, live root and outcome of the claim |
| | `MasksExactTheorem`, `EndsTargetedTheorem`, `OwnPortsTheorem`, `TreeRestoredTheorem`, `FillMeetsTargetTheorem`, `AllNamesResolvedTheorem`, `NoErrorHiddenTheorem` | `Spec => []` of `MasksExact`, `EndsTargeted`, `OwnPortsExcluded`, `TreeRestored`, `FillMeetsTarget`, `AllNamesResolved`, `NoErrorHidden` |

*SDK, types.* `TypeOK` is more than types: `ThreadTypeOK` says that a thread
has the execution, the state and the monitor its next step dereferences. It is
inductive. Almost every action changes one thread (`Alone`); `OneThreadStep`
reduces its case to the four parts of `TypeOK` for that thread.

*SDK, monitors.* `NoOrphanMonitor` is not inductive. `MonitorInv` adds
`RegisteredMonitorRuns`, `HeldMonitorIsTaken` (what a thread took out of the map
is not registered any more) and `UnusedMonitorIsOff`. A registered monitor
belongs to exactly one execution because its goroutine works for that execution
(`RegisteredOnce`), so taking the entry of one execution unregisters the
monitor. All other actions leave the monitors alone (`LeavesMonitors`).

*SDK, client.* `ClientInv` adds to `ClientTypeOK` that an answer other than an
error carries a state (`AnswersHaveState`). From it every request of the client
is one `AnyRequest` allows, hence every step of `LifecycleSpec` is a step of
`Spec`.

*SDK, lifecycle.* The proofs of the lifecycle's invariants share `Serving`:
unless the client gave a request up (`Followed`), a handler that is not idle
works on the request its client waits for, or that client has disappeared, and
no two handlers work for one execution. A start that was given up does overlap
the stop that follows. `LatestInv` therefore adds that even then at most one
handler of an execution can give the action a new state or store one, because
such a client asks for nothing but a stop (`OneProduces`), and that a handler
about to store a state holds the last one (`HoldsLatest`). `StopInv` adds, for
an execution without an error, what `handleStop` has taken away at each of its
steps (`StopProgress`); nothing comes back, because other threads only take away
(`OnlyForgets`). Neither invariant depends on `Faults`.

*SDK, stop events.* `warned` are the executions with a stop event at the time
their client asks to stop. `WarnInv` says that from then on the client has got an
error, or the event is still there and the request has not looked for it, or the
answer waiting for the client is an error, or the client is gone (`Announced`).
So `NoSilentRollback` holds, under all faults, of every behaviour in which an event
outlasts its client's request to stop (`StopEventsLast`; a restart ends that
request with an error). What can remove an event is read from the list: it drops
its oldest entry when it is full, so an event goes only when all that followed
it are of other executions (`Outnumbered`). The hypothesis is needed: the list
keeps its latest events whoever made them, so that many other executions, or one
whose failing rollback is repeated, displace one.

*SDK, contract.* `RollbackStateKept` has to be protected against `StopAction`
of a monitor, which deletes a state some steps after it rolled back. `KeepInv`
adds that an execution has no monitor before its start is done
(`MonitorsComeLater`), so that no timeout races a start; that who is about to
delete a state rolled back before and nothing was started since
(`RolledBackFirst`); and that a start finds a stored state (`PreparedIsSaved`).
The second and the third fail once a signal may stop a prepared execution or a
restart forgets its state: the faults excluded are those for which
`start_after_signal` and section 8 show that the property does not hold. All of it
is about `Owed`, the modifications no `Stop` has given up in its result. The
same invariant maps each step to one of `RollbackContract` or to a stutter: a
call of the action's code to `Run`, a store to `Keep` (what a handler stores is
what the code left last), a `Stop` to `RollBack`, a deletion to `Forget`, whose
guard is `RolledBackFirst`.

*Network faults.* Every step of a call takes the lock, releases it, registers
the attack, unregisters it, or does nothing of that (`StepKinds`); the proofs
about the lock and the registry argue about these five kinds only. `LockIsHeld` is inductive with `LockTypes`;
`NoConflictingActive` needs that an attack registers only while nothing it
conflicts with is registered, and that conflicts are symmetric
(`ConflictSymmetric`). `UserInv` says that an attack on an
interface of a user that was checked never gets past its check, so that the age
of the check at the time of the apply does not matter; `OwnSnapshots` that a
replay touches the attack's own interfaces only.

*Network faults, what is left.* `RulesOwned`: every rule and every chain in place
belongs to an attack that was applied and not yet reverted without an error
(`Owes`). It is inductive whatever fails. Roots need more, since a `tc` deletion
works on whatever root has the kind it looks for. `RootInv` says, for interfaces
where no attack captured another one's qdiscs (`inherited`): an attack's root
belongs to an attack that still owes its deletion and that is registered, unless
its revert failed or the extension restarted (`RootsOwned`); a safe interface has
an attack's tree, its own or the default (`TreesKnown`); a snapshot never holds
an attack's tree (`SnapshotsClean`). The step that could break it is the capture
on top of another attack's tree, and that is the one that adds the interface to
`inherited`. `AdmittedAlone` is then `RootsOwned` together with
`NoConflictingActive` and the attack's own registration (`Admitted`): a
registered owner of the root does not conflict. `OriginalKept` adds that the tree
of a tuned interface is in place or in the snapshot of an attack whose revert
will replay it. None of the theorems assumes anything beyond the named
assumptions of `Netfault`: equal attacks, failing deletions and restarts are in
them.

*Processes.* `IInv` adds to `TypeOK` what is mounted at each step of the
preparation (`Prepared`) and that a container's program has ended, or could not be deleted, before its
bundle is removed (`Ended`). The finalizers are then one of three lists, and
`RemovesTargetFiles` is false for each. For `NothingLeftBehind`, `Clean` adds
where a bundle can be (`Occupied`), what the program has done (`Progress`) and
that a fill file can still be reached or was reported (`FillFile`). It holds for
every choice of steps that may fail; the exceptions are part of the property. For `ExitKnownForGood`,
`ExitTold` says that an exit that was told is in the state, or in the hands of a
status call that puts it back.

*Namespaces.* `HostOK` (every inode that is at a place now or was found lives on
only by forks) and `PathOK` (the path leads to the inode or to nothing, because
no place is used twice) give `RightNamespace`. `SearchOK` says that process 1 is
still to be looked at while nothing was found in a search for the host's
namespace, unless it could not be read; what is found first is therefore process 1
(`FoundAtProcess1`). `SteadyOK` says the same of every place that has held the
namespace since the refresh began and could be read so far, which contradicts
giving up.

*Composition.* Every step of `Sidecar` is a step of `Processes` or leaves its
variables alone, and the same for `Namespaces`; the invariants follow.

*Recursion.* The provers cannot instantiate the library's induction theorems,
which take a predicate as an operator. `Recursion` states induction for a set
instead (`Induction`, `Upward`, `Downward`, `MeasureInduction`), which a proof
instantiates with the set of all values that have a property. That a recursive
definition denotes a function that satisfies it is no axiom of TLA+:
`RecursiveFunction` shows it for every definition whose value depends on smaller
arguments only, `FoldIsDefined` for the folds of the community modules, and
`FoldSteps` and `FlattenSteps` say what one more element does to a fold and to
`FlattenSeq`, and `FoldInvariant` that a fold keeps what each of its steps keeps
(`FoldKeeps` is the same fact in one piece).

*Algorithms.* A width of ports is any positive number. The neighbour test wraps
around, and `NeighborExact` shows that for the ranges `ParsePortRange` yields the
wrapped case cannot happen; `OwnPorts` follows from it and `MergeTheorem`. The
block of `portMask` is aligned and ends within the range (by induction over its
exponent), so the blocks of `getMask` follow each other without a gap. For
their number: as long as the next larger block still fits, blocks grow; once one
does not fit, each is smaller than the last. No size occurs twice on either way,
which makes at most `2 * PortBits`. A diskfill's blocks are at most what is to be
written (`BlockBounds`), so that whole blocks are more than half of it
(`WholeBlocks`), for every `Kilo`, `Hundred` and limit of blocks. `AnswersFold`
says which names a prefix of dig's answer leaves unresolved. For a batch,
`parseBatchError` is followed line by line through the output that the failing
commands' reports make up, up to one error for each report; then hints are put
before them and the errors to ignore are left out. `HintAssumption` says that a
hint, which the code makes itself, is none of these.

*Filters.* A list counts as the set of addresses and ports its entries match
(`Covers`). A network is a block of addresses that starts at a multiple of its
size (`NetBounds`); hence two that have an address in common are nested, and one
contains the lowest address of the other (`NestedNets`, `CommonAddress`). That is
why looking at the lowest address is enough in `Overlap` (`MatchesOverlap`), and
in `Contains` as long as the two do not start at the same address with different
prefixes (`ContainedIsCovered`): this is the hypothesis `SamePrefix` of
`FilterTheorem`. Sorting keeps the entries, `Keep` drops none that is not covered
by another (`KeepCovers`, `DeduplicateCovers`), and an exclude that is dropped
covers nothing the includes cover (`OptimizedCovers`). Of the rules, those that
spare come before those that attack, either in the order they are made or in the
opposite one (`ExcludesFirst`), so that the first that matches decides as it
should (`FirstHitDecides`); and those of an entry match what the entry does,
for masks by `MaskTheorem` (`TcMakes`), otherwise by their ports (`RulesMake`).
`FilterAssumption` makes addresses and ports of the model wide enough to hold the
filters of its inputs (`FilterEntries`).

*Qdisc replay.* A pass emits every qdisc whose owner was emitted before it and puts
none before its owner (`PassEmits`). A listing is a tree, so some missing qdisc has
no missing owner (`Rooted`); hence a pass that finds some missing emits one, their
number grows, and after as many passes as there are qdiscs all are out
(`PassesEmitAll`). In that order (`OrderTheorem`) the replay keeps: nothing failed;
what was restored is there, because no two qdiscs have the same place; the live
root stays if it is the kernel's, and is replaced before all others if not
(`ReplayRestores`). It needs of the listing that whatever is restored is below
something that is restored, or below the live root (`Replayable`). Re-anchoring
sees to that for the children of a root the kernel manages, and keeps their places
distinct because the live root's handle is no other qdisc's (`ReanchorMoves`,
`ReanchoredReplayable`); what a tuned qdisc is below is the root or tuned itself.
`TreeTheorem` assumes `IsListing` and, of the live tree, `Reattached` (section 5).
The case it excludes is real but is logged by the code: claiming the handle
fails and the live root's is hidden, so that nothing can be attached.

The invariants of the model
(`MaskInv`, `OwnInv`, ...) only say that the output is the algorithm's for an
input of the kind the theorems speak of; `WideAssumption` is `PortAssumption` for
the width of the masks that are checked.

Only model-checked:

- Everything with liveness (`RolledBack`, `RollbackIsReported`, `StopReturns`,
  and `RevertCompletes`, which is violated): beyond the prover.
- `CondenseCovers`. Condensing ends only because merged networks become larger,
  and without that nothing can be said of its recursion.

## 8. Disagreements of code and documents

With a run: `stopped_not_rolled_back`, `start_after_signal`,
`netfault_equal_attacks`, `netfault_revert_retry` (`findings` in
`PROJECT.json`). Met while modelling, without a run:

- `action_http_adapter.go:253`: a start the client gave up stores its state and
  monitor although the execution was stopped meanwhile; once the client's stop
  deleted the state, no timeout can roll it back (`docs/action-api.md:201`).
- `action_http_adapter.go:388-422` and `action_sdk.go:163`: a `Stop` that reports
  its failure in `StopResult.Error` counts as one that succeeded: the state, the
  monitor and the files go, and `StopAction` does not repeat it. According to
  `docs/action-api.md:384-390` an error in the result is as good as any other.
- `action_http_adapter.go:233`: a start that modified the system and whose state
  cannot be encoded is never monitored; when its client disappears nothing rolls
  it back (`docs/action-api.md:201`).
- `action_http_adapter.go:372`: the uploaded files of an execution the extension
  stopped are never deleted (`go/action_kit_sdk/README.md:12-13`).
- `action_http_adapter.go:129`: a signal after a failed prepare calls `Stop`
  (`docs/action-api.md:232`: "not called if there is an error").
- `netfault.go:93-95` says that while an attack is active "the existing root
  qdisc is ours". That attack may be a blackhole, or on another interface; a
  user's root is then replaced (`unchecked` in `Netfault`).
- `stress_runc.go:104` and `138` dereference the state of a process that never
  started; `CHANGELOG.md:27` of action_kit_commons says that was fixed for all.
- `runner_runc.go:143-151`, `dig_runc.go:77-84`, `read_diskspace.go:44-52`: after
  a failing `delete --force` the bundle is removed under a running container.
- `utils.go:366-369` of ociruntime: when `/proc` cannot be read named namespaces
  are not looked at, although the target may be found there.
- `dnsinject_process.go:82`, `dnsinject_runc.go:89`: a second `Stop`, or one of a
  container that was never started, waits for ever.
- `types.go:169-173`: `Contains` looks only at the other network's lowest
  address. Of two networks to include that start at the same address and differ
  in the length of their prefix, `deduplicateNetWithPortRange` (`utils.go:238`)
  keeps the first, which may be the smaller one: the rest of the larger is not
  attacked, although both were asked for.
- `netfault.go:550-555`: networks that differ in nothing but the prefix compare
  as equal, so that a condensed list may lose its order; the comment promises
  sorted input.
- `snapshot.go:178-180` calls the skipping of children of a hidden root lossless;
  when claiming the root's handle failed, tuned ones are not restored.

## 9. Not modelled

- Within the SDK: describing actions and filling in defaults, the checks of a
  description at registration, metric queries and coverage endpoints. None
  touches the lifecycle's state. Wording of answers, logging, durations.
- Within the test client: listing and describing actions, schema validation,
  metrics and messages.
- Within the library: the listing of interfaces, the RTNETLINK encoding of qdiscs, rendering and diffing snapshots
  for the log; the arguments of stress-ng, memfill and dns-inject, and the
  metrics of the latter; parsing `df`, `/proc` and cgroup files and CIDRs;
  delegation between container runtimes, `State`, `NamespacesExists`, image
  extraction and the editors of a spec. They are formatting, parsing and I/O
  without a state of their own.
- Within the model of processes: an umount that fails, overlapping stops, a start
  after a stop, pids that are given away; within that of namespaces: other types
  than the network. Within the model of network faults: what a user or a CNI does
  to an interface while attacks come and go (sections 4 and 6).
- Restarts while a background process runs: the extension keeps nothing about
  it, so there is no code to model.
- Generated API types, the OpenAPI document, and the e2e harness, which is
  input and output around minikube, helm and kubectl.

----------------------------- MODULE Processes -----------------------------
(***************************************************************************)
(* One process an attack runs outside the extension, from its preparation  *)
(* to its stop: stress, disk fill, memory fill and dns injection as a      *)
(* child process or in a container of their own, and the containers that   *)
(* run a single command (tc, dig, df). The bundle's finalizers, the waiter *)
(* that learns of the exit, the signals and the timers of Stop, and status *)
(* calls at any time. Executions share nothing, so one is enough.          *)
(* An operator whose comment begins with "Fault:" is a plausible mistake   *)
(* in the definition that follows it.                                      *)
(***************************************************************************)
EXTENDS Naturals, Sequences

CONSTANTS
    Kinds,      \* the kinds of process that are run: see AllKinds
    Faults,     \* the steps that may fail, per kind: see FaultKinds
    Ignored,    \* the signals the program ignores, per kind
    MaxStops    \* bound on the calls of Stop

ChildKinds == {"stress", "fill", "mem", "dns"}
BundleKinds == {"stressRunc", "fillRunc", "dnsRunc", "command", "check"}
AllKinds == ChildKinds \cup BundleKinds
FaultKinds == {"create", "mount", "edit", "start", "rm", "delete"}

ASSUME ProcessesAssumption ==
    /\ Kinds \subseteq AllKinds
    /\ \A k \in Kinds : Faults[k] \subseteq FaultKinds
    /\ MaxStops \in Nat

VARIABLES
    kind,       \* the kind of this process
    pc,         \* what the attack is doing with it
    finalizers, \* containerBundle.finalizers
    held,       \* host: what the bundle occupies
    proc,       \* host: the program
    exited,     \* BackgroundState, or the channel of a dns injection
    received,   \* host: signals the program got
    timers,     \* signals Stop still has a timer for
    file,       \* host: the fill file exists
    intact,     \* host: the target's own files exist
    answer,     \* the last answer to a status call since the start
    stops,      \* calls of Stop so far
    reported,   \* history: a Stop told its caller that the file stays
    undeleted   \* history: a container that runs could not be deleted

vars == <<kind, pc, finalizers, held, proc, exited, received, timers, file,
          intact, answer, stops, reported, undeleted>>
-----------------------------------------------------------------------------
IsDns == kind \in {"dns", "dnsRunc"}
RunsOnce == kind \in {"command", "check"}
InBundle == kind \in BundleKinds
MountsTarget == kind \in {"stressRunc", "fillRunc", "check"}
FillsDisk == kind \in {"fill", "fillRunc"}
MayFail(step) == step \in Faults[kind]

(* Fault: a finalizer is put before the others. *)
PrependFinalizer(h) == <<h>> \o finalizers

addFinalizer(h) == Append(finalizers, h)

(* Fault: the finalizers run in the order they were added. *)
RunsFirst(i, j) == i < j

(* Remove runs the finalizers from the last to the first. *)
RunsBefore(i, j) == i > j

(* os.RemoveAll of the bundle reaches into the target while it is mounted. *)
RemovesTargetFiles ==
    \E i, j \in DOMAIN finalizers :
        finalizers[i] = "dir" /\ finalizers[j] = "target" /\ RunsBefore(i, j)

Remove ==
    /\ held' = {h \in held : \A i \in DOMAIN finalizers : finalizers[i] # h}
    /\ intact' = (intact /\ ~RemovesTargetFiles)
    /\ UNCHANGED finalizers

Init ==
    /\ kind \in Kinds
    /\ pc = "new" /\ finalizers = <<>> /\ held = {}
    /\ proc = "none" /\ received = {} /\ timers = {}
    /\ exited = IF IsDns THEN "pending" ELSE "nil"
    /\ file = FALSE /\ intact = TRUE
    /\ answer = "none" /\ stops = 0 /\ reported = FALSE /\ undeleted = FALSE

process == <<proc, exited, received, timers, file>>
calls == <<answer, stops, reported, undeleted>>
-----------------------------------------------------------------------------
(* Preparation: New of each kind, and the first half of a single command.  *)

NewChild ==
    /\ pc = "new" /\ ~InBundle
    /\ pc' = "created"
    /\ UNCHANGED <<kind, finalizers, held, intact, process, calls>>

(* Create: the directory, the overlay, config.json. What fails undoes what *)
(* was done before it.                                                     *)
Create ==
    /\ pc = "new" /\ InBundle
    /\ \/ pc' = "mounting" /\ finalizers' = <<"dir", "rootfs">> /\ held' = {"dir", "rootfs"}
       \/ MayFail("create") /\ pc' = "gone" /\ UNCHANGED <<finalizers, held>>
    /\ UNCHANGED <<kind, intact, process, calls>>

(* MountFromProcess; only the stress container goes on without it.         *)
MountFromProcess ==
    /\ pc = "mounting"
    /\ IF MountsTarget
       THEN \/ /\ pc' = "editing"
               /\ finalizers' = addFinalizer("target")
               /\ held' = held \cup {"target"}
               /\ UNCHANGED intact
            \/ /\ MayFail("mount") /\ kind = "stressRunc"
               /\ pc' = "editing"
               /\ UNCHANGED <<finalizers, held, intact>>
            \/ /\ MayFail("mount") /\ kind # "stressRunc"
               /\ pc' = "gone"
               /\ Remove
       ELSE pc' = "editing" /\ UNCHANGED <<finalizers, held, intact>>
    /\ UNCHANGED <<kind, process, calls>>

(* EditSpec, and the validation of a command's input.                      *)
EditSpec ==
    /\ pc = "editing"
    /\ \/ pc' = "created" /\ UNCHANGED <<finalizers, held, intact>>
       \/ MayFail("edit") /\ pc' = "gone" /\ Remove
    /\ UNCHANGED <<kind, process, calls>>
-----------------------------------------------------------------------------
(* RunCommandInBackground, RunBundleInBackground, startAndMonitor.         *)
Start ==
    /\ pc = "created" /\ ~RunsOnce
    /\ \/ /\ pc' = "started"
          /\ proc' = IF InBundle THEN "creating" ELSE "running"
          /\ exited' = "pending"
          /\ file' = (kind = "fill")
          /\ answer' = "none"
       \/ /\ MayFail("start")
          /\ pc' = "startFailed"
          /\ UNCHANGED <<proc, exited, file, answer>>
    /\ UNCHANGED <<kind, finalizers, held, intact, received, timers, stops, reported, undeleted>>

(* The goroutine that waits for the child.                                 *)
Waiter ==
    /\ proc = "ended" /\ exited = "pending"
    /\ exited' = "known"
    /\ UNCHANGED <<kind, pc, finalizers, held, intact, proc, received, timers, file, calls>>

(* Fault: the error is not put back into the channel. *)
KeepError == "consumed"

(* What a status call leaves in the channel it read from.                  *)
PutBack == "known"

(* Every Exited guards the nil state, except that of the stress container. *)
DereferencesState == kind = "stressRunc"

(* Exited. That of a dns injection takes the error and puts it back, in    *)
(* two steps.                                                              *)
Status ==
    /\ ~RunsOnce /\ pc \notin {"new", "mounting", "editing", "gone", "panicked"}
    /\ \/ /\ exited = "nil" /\ DereferencesState
          /\ pc' = "panicked"
          /\ UNCHANGED <<exited, answer>>
       \/ /\ exited = "nil" /\ ~DereferencesState
          /\ answer' = "exited"
          /\ UNCHANGED <<pc, exited>>
       \/ /\ exited \in {"pending", "taken", "consumed"}
          /\ answer' = "running"
          /\ UNCHANGED <<pc, exited>>
       \/ /\ exited = "known" /\ ~IsDns
          /\ answer' = "exited"
          /\ UNCHANGED <<pc, exited>>
       \/ /\ exited = "known" /\ IsDns
          /\ exited' = "taken"
          /\ UNCHANGED <<pc, answer>>
    /\ UNCHANGED <<kind, finalizers, held, intact, proc, received, timers, file, stops, reported, undeleted>>

StatusPutsBack ==
    /\ exited = "taken"
    /\ exited' = PutBack
    /\ answer' = "exited"
    /\ UNCHANGED <<kind, pc, finalizers, held, intact, proc, received, timers, file, stops, reported, undeleted>>
-----------------------------------------------------------------------------
(* Stop: SIGINT, SIGTERM 10 s later, wait, clean up.                       *)

(* A signal reaches a program that runs; a container that is still created *)
(* or already gone is not found, which is only logged.                     *)
Deliver(signal) ==
    received' = IF proc = "running" THEN received \cup {signal} ELSE received

(* Fault: nothing follows a SIGINT. *)
NoTimers == {}

(* Only a dns injection in a named namespace is killed after 15 s.         *)
StopTimers == IF kind = "dns" THEN {"TERM", "KILL"} ELSE {"TERM"}

NeverStarted == exited = "nil" \/ (IsDns /\ proc = "none")

(* Stop may come before Start, after a Start that failed, and again.       *)
Stop ==
    /\ ~RunsOnce /\ stops < MaxStops
    /\ pc \in {"created", "started", "startFailed", "stopFailed", "stopped"}
    /\ stops' = stops + 1
    /\ \/ /\ NeverStarted /\ kind \notin {"stressRunc", "dnsRunc"}
          /\ pc' = "stopped"
          /\ UNCHANGED <<received, timers>>
       \/ /\ NeverStarted /\ kind = "stressRunc"
          /\ pc' = "panicked"
          /\ timers' = StopTimers
          /\ UNCHANGED received
       \/ /\ ~NeverStarted \/ kind = "dnsRunc"
          /\ pc' = "waiting"
          /\ Deliver("INT")
          /\ timers' = StopTimers
    /\ UNCHANGED <<kind, finalizers, held, intact, proc, exited, file, answer, reported, undeleted>>

(* A container is created before the first timer fires; SIGTERM is first.  *)
TimerFires ==
    /\ proc # "creating"
    /\ \E signal \in timers :
        /\ signal = "KILL" => "TERM" \notin timers
        /\ Deliver(signal)
        /\ timers' = timers \ {signal}
    /\ UNCHANGED <<kind, pc, finalizers, held, intact, proc, exited, file, calls>>

(* Fault: the bundle is removed before the file in it. *)
RemovedTooEarly == {}

(* The mounts through which rm reaches the fill file.                      *)
HeldAtRm == held

ReachesFile == kind = "fill" \/ "target" \in HeldAtRm

(* Wait returns: rm of the fill file, Delete of the container, Remove.     *)
StopFinishes ==
    /\ pc = "waiting" /\ exited = "known"
    /\ exited' = IF IsDns THEN "consumed" ELSE "known"
    /\ timers' = {}
    /\ \/ /\ pc' = "stopped"
          /\ file' = (file /\ ~ReachesFile)
          /\ UNCHANGED reported
       \/ /\ FillsDisk /\ file /\ ReachesFile /\ MayFail("rm")
          /\ pc' = "stopFailed"
          /\ reported' = TRUE
          /\ UNCHANGED file
    /\ IF InBundle THEN Remove ELSE UNCHANGED <<held, intact, finalizers>>
    /\ UNCHANGED <<kind, proc, received, answer, stops, undeleted>>
-----------------------------------------------------------------------------
(* A single command: run, then Delete (forced), then Remove, whatever      *)
(* happened in between.                                                    *)

RunOnce ==
    /\ pc = "created" /\ RunsOnce
    /\ \/ pc' = "running" /\ proc' = "creating"
       \/ MayFail("start") /\ pc' = "unwinding" /\ UNCHANGED proc
    /\ UNCHANGED <<kind, finalizers, held, intact, exited, received, timers, file, calls>>

(* The command has ended, or the request was cancelled: the client of the  *)
(* runtime is killed and the container goes on.                            *)
RunReturns ==
    /\ pc = "running"
    /\ pc' = "unwinding"
    /\ proc' = IF proc = "creating" THEN "ended" ELSE proc
    /\ UNCHANGED <<kind, finalizers, held, intact, exited, received, timers, file, calls>>

(* Fault: the deferred Remove runs before Delete. *)
RemoveFirst ==
    /\ pc = "unwinding"
    /\ pc' = "gone"
    /\ Remove
    /\ UNCHANGED <<kind, process, calls>>

(* That it failed is only logged. *)
DeleteForced ==
    /\ pc = "unwinding"
    /\ pc' = "deleted"
    /\ \/ proc' = (IF proc = "none" THEN "none" ELSE "ended") /\ UNCHANGED undeleted
       \/ proc = "running" /\ MayFail("delete") /\ undeleted' = TRUE /\ UNCHANGED proc
    /\ UNCHANGED <<kind, finalizers, held, intact, exited, received, timers, file,
                   answer, stops, reported>>

RemoveBundle ==
    /\ pc = "deleted"
    /\ pc' = "gone"
    /\ Remove
    /\ UNCHANGED <<kind, process, calls>>
-----------------------------------------------------------------------------
(* The host.                                                               *)

ContainerStarts ==
    /\ proc = "creating"
    /\ \/ proc' = "running" /\ file' = (kind = "fillRunc")
       \/ proc' = "ended" /\ UNCHANGED file
    /\ UNCHANGED <<kind, pc, finalizers, held, intact, exited, received, timers, calls>>

EndsBySignal ==
    /\ proc = "running" /\ ~(received \subseteq Ignored[kind])
    /\ proc' = "ended"
    /\ UNCHANGED <<kind, pc, finalizers, held, intact, exited, received, timers, file, calls>>

EndsByItself ==
    /\ proc = "running"
    /\ proc' = "ended"
    /\ UNCHANGED <<kind, pc, finalizers, held, intact, exited, received, timers, file, calls>>

Next ==
    \/ NewChild \/ Create \/ MountFromProcess \/ EditSpec
    \/ Start \/ Waiter \/ Status \/ StatusPutsBack
    \/ Stop \/ TimerFires \/ StopFinishes
    \/ RunOnce \/ RunReturns \/ DeleteForced \/ RemoveBundle
    \/ ContainerStarts \/ EndsBySignal \/ EndsByItself

Spec == Init /\ [][Next]_vars
-----------------------------------------------------------------------------
(* Type correctness of the process, its bundle and the calls about it.     *)
TypeOK ==
    /\ kind \in Kinds
    /\ pc \in {"new", "mounting", "editing", "created", "started", "startFailed",
               "running", "unwinding", "deleted", "waiting", "stopped",
               "stopFailed", "gone", "panicked"}
    /\ finalizers \in {<<>>, <<"dir", "rootfs">>, <<"dir", "rootfs", "target">>}
    /\ held \subseteq {"dir", "rootfs", "target"}
    /\ proc \in {"none", "creating", "running", "ended"}
    /\ exited \in {"nil", "pending", "known", "taken", "consumed"}
    /\ received \subseteq {"INT", "TERM", "KILL"}
    /\ timers \subseteq {"TERM", "KILL"}
    /\ {file, intact, reported, undeleted} \subseteq BOOLEAN
    /\ answer \in {"none", "running", "exited"}
    /\ stops \in 0 .. MaxStops

(* Stop of a disk fill in a container that was never started returns at    *)
(* once and leaves its bundle.                                             *)
BundleForgotten == kind = "fillRunc" /\ exited = "nil"

(* When a preparation failed, a stop returned or a single command is done, *)
(* no mount or bundle directory is left, but that of a fill container that *)
(* was never started; no program runs, but one whose forced delete failed, *)
(* which is only logged; and no fill file, but one that this Stop or one   *)
(* before it said it could not remove (Stop of each kind, Remove of        *)
(* bundles, the deferred clean-up of runner_runc, dig_runc, diskfill).     *)
NothingLeftBehind ==
    pc \in {"gone", "stopped", "stopFailed"} =>
        /\ held = {} \/ BundleForgotten
        /\ proc \in {"none", "ended"} \/ undeleted
        /\ file => reported

(* The recursive removal of a bundle directory never reaches the target's  *)
(* own files, which are mounted below it (finalizers of containerBundle).  *)
TargetFilesKept == intact

(* No container loses its root file system while its program runs: Delete  *)
(* comes before Remove on every path, a cancelled request included. The    *)
(* exception is a single command whose forced delete failed: its bundle is *)
(* removed all the same (runner_runc.go, dig_runc.go, read_diskspace.go).  *)
ContainerHasItsRoot ==
    InBundle /\ proc = "running" => {"dir", "rootfs"} \subseteq held \/ undeleted

(* Once a status call has said that the process exited, no later one takes *)
(* it back until Stop is called (Exited; a call that overlaps another is   *)
(* let off for dns injections).                                            *)
ExitKnownForGood ==
    [][answer = "exited" /\ pc = "started" /\ exited # "taken" => answer' = "exited"]_vars

(* A Stop of a process that was started returns, also for a program that   *)
(* ignores SIGINT and status calls that take the exit from the channel     *)
(* (Wait, `<-p.exited`). Of a dns injection only the first one does: it    *)
(* takes the exit for good, and a second one waits for ever, as does any   *)
(* Stop of a dns container that was not started.                           *)
StopReturns ==
    pc = "waiting" /\ proc # "none" /\ (IsDns => stops = 1) ~> pc \in {"stopped", "stopFailed"}
=============================================================================

------------------------------ MODULE ActionSdk ------------------------------
(****************************************************************************)
(* The action lifecycle of the Go action SDK (go/action_kit_sdk): the HTTP  *)
(* handlers prepare, start, status and stop, the in-memory state persister, *)
(* the list of stop events, the heartbeat monitors with the goroutines that *)
(* wait for their timeouts, and the signal handler that stops every active  *)
(* action.                                                                  *)
(*                                                                          *)
(* The module is open: any client may send any request for any execution at *)
(* any time. ActionLifecycle adds a client that follows the protocol.       *)
(*                                                                          *)
(* Every goroutine is a thread with a program counter. One step is one      *)
(* access to shared memory or one call of the action's own code.            *)
(*                                                                          *)
(* An operator whose comment begins with "Fault:" is a plausible mistake in *)
(* the operator after it. No specification uses it: it shows that a         *)
(* property notices the mistake.                                            *)
(****************************************************************************)
EXTENDS Naturals, Sequences

CONSTANTS
  Execs,         \* execution ids
  Stoppable,     \* executions of actions that implement Stop
  WithStatus,    \* executions of actions that implement Status
  Monitored,     \* stoppable executions with a call interval that parses
  Encodable,     \* executions whose action state can always be encoded
  StopMayFail,   \* executions whose Stop may fail
  Handlers,      \* goroutines that serve HTTP requests
  Monitors,      \* heartbeat monitors, each with the goroutine that reads it
  Signal,        \* the goroutine that runs the signal handler
  MaxStopEvents, \* the length above which an old stop event is dropped (100)
  NoExec, NoState, NoMonitor, NoReply

Threads == Handlers \cup Monitors \cup {Signal}

ASSUME ExecsAssumption ==
  /\ Stoppable \subseteq Execs
  /\ WithStatus \subseteq Execs
  /\ Monitored \subseteq Stoppable
  /\ Encodable \subseteq Execs
  /\ StopMayFail \subseteq Execs
  /\ NoExec \notin Execs

ASSUME ThreadsAssumption ==
  /\ Handlers \cap Monitors = {}
  /\ Signal \notin Handlers \cup Monitors
  /\ NoMonitor \notin Monitors

ASSUME MaxStopEventsAssumption == MaxStopEvents \in Nat

(***************************************************************************)
(* What the properties tell apart in an action's state: which call of the  *)
(* action's code modified it last.                                         *)
(***************************************************************************)
State == {"prepared", "started", "observed"}

ASSUME StateAssumption == NoState \notin State

Reply == {"ok", "failed", "completed", "stopped", "error"}

VARIABLES
  states,            \* the state persister: execution id -> state
  stopEvents,        \* the executions the extension stopped, oldest first
  heartbeatMonitors, \* execution id -> registered monitor
  monitor,           \* life of each monitor
  overdue,           \* monitors whose last heartbeat is older than the timeout
  due,               \* monitors with a timeout in their channel (capacity 1)
  pc,                \* what each thread does next
  exec,              \* the execution each thread works for
  arg,               \* the state each thread holds
  held,              \* the monitor a thread took out of heartbeatMonitors
  reply,             \* the outcome a handler is going to answer
  pending,           \* the executions the signal handler still has to stop
  modified,          \* executions whose system modification is in place
  files,             \* executions with an upload folder on disk
  produced,          \* the last state the action's code left per execution
  abandoned          \* modified executions that a Stop failed for and said so
                     \* only in its result; only properties read it

shared == <<states, stopEvents, heartbeatMonitors, monitor, overdue, due>>
locals == <<exec, arg, held, reply, pending>>
world  == <<modified, files, produced, abandoned>>
vars   == <<shared, pc, locals, world>>

HandlerPC ==
  {"idle", "replied",
   "handleFiles", "prepare", "persistPrepared",
   "start", "persistStarted", "monitorHeartbeat", "stopPrevious",
   "findMonitor", "recordHeartbeat", "checkStatus", "status", "persistStatus",
   "takeMonitor", "stopMonitor", "checkStop", "stop", "removeFiles",
   "deleteState"}

StopActionPC ==
  {"getState", "markAsStopped", "rollback", "takeMonitor", "stopMonitor",
   "deleteState"}

PC == HandlerPC \cup StopActionPC \cup {"off", "watching", "nextExecution"}

(* The threads that run StopAction. *)
Stoppers == Monitors \cup {Signal}

PCOf(t) ==
  IF t \in Handlers THEN HandlerPC
  ELSE StopActionPC \cup IF t = Signal THEN {"idle", "nextExecution"}
                                       ELSE {"off", "watching"}

(* A thread between Swap or LoadAndDelete and the Stop of what it got.     *)
Holding(t) == pc[t] \in {"stopPrevious", "stopMonitor"}

(* A handler between Load and the heartbeat on what it got.                *)
Beating(t) == pc[t] = "recordHeartbeat"

(***************************************************************************)
(* A thread has everything that its next step dereferences: the execution  *)
(* it works for, the state it passes to the action's code or stores, the   *)
(* monitor it stops or records a heartbeat on.                             *)
(***************************************************************************)
Resting == {"idle", "off", "nextExecution"}
Stateless == {"watching", "replied", "handleFiles", "prepare", "getState"}

ThreadTypeOK(t) ==
  /\ pc[t] \in PCOf(t)
  /\ pc[t] \notin Resting => exec[t] \in Execs
  /\ pc[t] \notin Resting \cup Stateless => arg[t] \in State
  /\ Holding(t) \/ Beating(t) => held[t] \in Monitors

SharedTypeOK ==
  /\ states \in [Execs -> State \cup {NoState}]
  /\ stopEvents \in Seq(Execs)
  /\ heartbeatMonitors \in [Execs -> Monitors \cup {NoMonitor}]
  /\ monitor \in [Monitors -> {"unused", "running", "stopped"}]
  /\ overdue \subseteq Monitors
  /\ due \subseteq Monitors

LocalTypeOK ==
  /\ pc \in [Threads -> PC]
  /\ exec \in [Threads -> Execs \cup {NoExec}]
  /\ arg \in [Threads -> State \cup {NoState}]
  /\ held \in [Threads -> Monitors \cup {NoMonitor}]
  /\ reply \in [Handlers -> Reply \cup {NoReply}]
  /\ pending \subseteq Execs

WorldTypeOK ==
  /\ modified \subseteq Execs
  /\ files \subseteq Execs
  /\ produced \in [Execs -> State \cup {NoState}]
  /\ abandoned \subseteq modified

TypeOK ==
  /\ SharedTypeOK
  /\ LocalTypeOK
  /\ WorldTypeOK
  /\ \A t \in Threads : ThreadTypeOK(t)

(***************************************************************************)
(* The memory of a process that has just started.                          *)
(***************************************************************************)
FreshPC == [t \in Threads |-> IF t \in Monitors THEN "off" ELSE "idle"]
NoneFor(S, none) == [x \in S |-> none]

Init ==
  /\ states = NoneFor(Execs, NoState)
  /\ stopEvents = <<>>
  /\ heartbeatMonitors = NoneFor(Execs, NoMonitor)
  /\ monitor = NoneFor(Monitors, "unused")
  /\ overdue = {}
  /\ due = {}
  /\ pc = FreshPC
  /\ exec = NoneFor(Threads, NoExec)
  /\ arg = NoneFor(Threads, NoState)
  /\ held = NoneFor(Threads, NoMonitor)
  /\ reply = NoneFor(Handlers, NoReply)
  /\ pending = {}
  /\ modified = {}
  /\ files = {}
  /\ produced = NoneFor(Execs, NoState)
  /\ abandoned = {}

-----------------------------------------------------------------------------
(* Helpers *)

At(t, p) == pc[t] = p

Goto(t, p) == pc' = [pc EXCEPT ![t] = p]

Answer(h, r) ==
  /\ Goto(h, "replied")
  /\ reply' = [reply EXCEPT ![h] = r]

(* An error the action's own method returned travels in the reply's body.  *)
(* A method that sets the state in its result as well is answered with an  *)
(* error at once, and the handler goes on all the same.                    *)
Outcomes == {"ok", "failed", "error"}

HasStopEvent(e) == \E i \in DOMAIN stopEvents : stopEvents[i] = e

(* The pc of a thread that has returned from StopAction.                   *)
ReturnOf(t) == IF t = Signal THEN "nextExecution" ELSE "watching"

-----------------------------------------------------------------------------
(* HTTP requests                                                            *)

(* A request for e reaches the idle handler h, which starts at p with the  *)
(* state s of the request's body.                                          *)
Request(h, e, p, s) ==
  /\ At(h, "idle")
  /\ Goto(h, p)
  /\ exec' = [exec EXCEPT ![h] = e]
  /\ arg' = [arg EXCEPT ![h] = s]
  /\ UNCHANGED <<shared, held, reply, pending, world>>

PrepareRequest(h, e) == Request(h, e, "handleFiles", NoState)

StartRequest(h, e, s) == Request(h, e, "start", s)

(* The status endpoint is registered for actions with Status or Stop.      *)
StatusRequest(h, e, s) ==
  /\ e \in WithStatus \cup Stoppable
  /\ Request(h, e, "findMonitor", s)

(* Fault: a stop that leaves the heartbeat monitor registered.             *)
StopKeepingMonitor(h, e, s) ==
  /\ e \in Stoppable
  /\ Request(h, e, "checkStop", s)

StopRequest(h, e, s) ==
  /\ e \in Stoppable
  /\ Request(h, e, "takeMonitor", s)

(* The answer of h leaves the extension and the goroutine ends.            *)
Deliver(h) ==
  /\ At(h, "replied")
  /\ Goto(h, "idle")
  /\ exec' = [exec EXCEPT ![h] = NoExec]
  /\ arg' = [arg EXCEPT ![h] = NoState]
  /\ reply' = [reply EXCEPT ![h] = NoReply]
  /\ UNCHANGED <<shared, held, pending, world>>

-----------------------------------------------------------------------------
(* handlePrepare                                                            *)

(* A multipart request leaves its files in the execution's folder, which   *)
(* is there even when a file cannot be saved.                              *)
HandleFiles(h) ==
  /\ At(h, "handleFiles")
  /\ \/ Goto(h, "prepare") /\ UNCHANGED <<files, reply>>
     \/ Goto(h, "prepare") /\ files' = files \cup {exec[h]} /\ UNCHANGED reply
     \/ Answer(h, "error") /\ files' = files \cup {exec[h]}
  /\ UNCHANGED <<shared, exec, arg, held, pending, modified, produced,
                 abandoned>>

(* A call of the action's code that leaves state s and the outcome r. The  *)
(* handler goes on at p, or answers with an error and forgets the state    *)
(* when the state cannot be encoded.                                       *)
Produce(h, s, r, p) ==
  /\ produced' = [produced EXCEPT ![exec[h]] = s]
  /\ \/ /\ Goto(h, p)
        /\ arg' = [arg EXCEPT ![h] = s]
        /\ reply' = [reply EXCEPT ![h] = r]
     \/ /\ exec[h] \notin Encodable
        /\ Answer(h, "error")
        /\ UNCHANGED arg
  /\ UNCHANGED <<shared, exec, held, pending, files, abandoned>>

CallPrepare(h) ==
  /\ At(h, "prepare")
  /\ \E r \in Outcomes : Produce(h, "prepared", r, "persistPrepared")
  /\ UNCHANGED modified

(* Fault: the state is stored only when the call succeeded.                *)
PersistOnSuccess(h) ==
  states' = IF exec[h] \in Stoppable /\ reply[h] = "ok"
            THEN [states EXCEPT ![exec[h]] = arg[h]]
            ELSE states

(* Storing happens whatever the outcome of the call was.                   *)
PersistState(h) ==
  states' = IF exec[h] \in Stoppable
            THEN [states EXCEPT ![exec[h]] = arg[h]]
            ELSE states

PersistPrepared(h) ==
  /\ At(h, "persistPrepared")
  /\ PersistState(h)
  /\ Goto(h, "replied")
  /\ UNCHANGED <<stopEvents, heartbeatMonitors, monitor, overdue, due,
                 locals, world>>

-----------------------------------------------------------------------------
(* handleStart and monitorHeartbeat                                         *)

(* Start modifies the system; when it fails it may have done so already.   *)
CallStart(h) ==
  /\ At(h, "start")
  /\ \E r \in Outcomes :
       /\ Produce(h, "started", r, "persistStarted")
       /\ \/ modified' = modified \cup {exec[h]}
          \/ r # "ok" /\ UNCHANGED modified

(* Fault: a failed start is not monitored.                                 *)
MonitorOnSuccess(h) ==
  /\ At(h, "persistStarted")
  /\ PersistState(h)
  /\ Goto(h, IF exec[h] \in Monitored /\ reply[h] = "ok"
             THEN "monitorHeartbeat" ELSE "replied")
  /\ UNCHANGED <<stopEvents, heartbeatMonitors, monitor, overdue, due,
                 locals, world>>

PersistStarted(h) ==
  /\ At(h, "persistStarted")
  /\ PersistState(h)
  /\ Goto(h, IF exec[h] \in Monitored THEN "monitorHeartbeat" ELSE "replied")
  /\ UNCHANGED <<stopEvents, heartbeatMonitors, monitor, overdue, due,
                 locals, world>>

(* Fault: the monitor registered before is overwritten and lost.           *)
StoreMonitor(h, m) ==
  /\ At(h, "monitorHeartbeat")
  /\ monitor[m] = "unused"
  /\ monitor' = [monitor EXCEPT ![m] = "running"]
  /\ heartbeatMonitors' = [heartbeatMonitors EXCEPT ![exec[h]] = m]
  /\ pc' = [pc EXCEPT ![h] = "replied", ![m] = "watching"]
  /\ exec' = [exec EXCEPT ![m] = exec[h]]
  /\ UNCHANGED <<states, stopEvents, overdue, due, arg, held, reply, pending,
                 world>>

(* Notify makes the monitor m, Swap registers it and hands out the monitor *)
(* that was registered before. The goroutine that reads m's channel is     *)
(* taken to exist from here on: it blocks until the first timeout.         *)
MonitorHeartbeat(h, m) ==
  LET e == exec[h]
      prev == heartbeatMonitors[e]
  IN
  /\ At(h, "monitorHeartbeat")
  /\ monitor[m] = "unused"
  /\ monitor' = [monitor EXCEPT ![m] = "running"]
  /\ heartbeatMonitors' = [heartbeatMonitors EXCEPT ![e] = m]
  /\ held' = [held EXCEPT ![h] = prev]
  /\ pc' = [pc EXCEPT ![h] = IF prev = NoMonitor THEN "replied"
                                                 ELSE "stopPrevious",
                      ![m] = "watching"]
  /\ exec' = [exec EXCEPT ![m] = e]
  /\ UNCHANGED <<states, stopEvents, overdue, due, arg, reply, pending, world>>

(* Stop of the monitor that t holds. Stop is idempotent.                   *)
StopHeld(t) ==
  /\ monitor' = [monitor EXCEPT ![held[t]] = "stopped"]
  /\ overdue' = overdue \ {held[t]}
  /\ held' = [held EXCEPT ![t] = NoMonitor]
  /\ UNCHANGED <<states, stopEvents, heartbeatMonitors, due,
                 exec, arg, reply, pending, world>>

StopPrevious(h) ==
  /\ At(h, "stopPrevious")
  /\ StopHeld(h)
  /\ Goto(h, "replied")

-----------------------------------------------------------------------------
(* handleStatus                                                             *)

(* Load: the monitor stays registered, and others may stop it before the   *)
(* heartbeat is recorded.                                                  *)
FindMonitor(h) ==
  LET m == heartbeatMonitors[exec[h]] IN
  /\ At(h, "findMonitor")
  /\ held' = [held EXCEPT ![h] = m]
  /\ Goto(h, IF m = NoMonitor THEN "checkStatus" ELSE "recordHeartbeat")
  /\ UNCHANGED <<shared, exec, arg, reply, pending, world>>

(* A heartbeat on a monitor that was stopped meanwhile has no effect.      *)
RecordHeartbeat(h) ==
  /\ At(h, "recordHeartbeat")
  /\ overdue' = overdue \ {held[h]}
  /\ held' = [held EXCEPT ![h] = NoMonitor]
  /\ Goto(h, "checkStatus")
  /\ UNCHANGED <<states, stopEvents, heartbeatMonitors, monitor, due,
                 exec, arg, reply, pending, world>>

(* Fault: status does not look for a stop event.                           *)
CheckStatusIgnoringStop(h) ==
  /\ At(h, "checkStatus")
  /\ \/ exec[h] \notin WithStatus /\ Answer(h, "ok")
     \/ exec[h] \in WithStatus /\ Goto(h, "status") /\ UNCHANGED reply
  /\ UNCHANGED <<shared, exec, arg, held, pending, world>>

CheckStatus(h) ==
  /\ At(h, "checkStatus")
  /\ \/ /\ HasStopEvent(exec[h])
        /\ Answer(h, "stopped")
     \/ /\ ~HasStopEvent(exec[h])
        /\ exec[h] \notin WithStatus
        /\ Answer(h, "ok")
     \/ /\ ~HasStopEvent(exec[h])
        /\ exec[h] \in WithStatus
        /\ Goto(h, "status")
        /\ UNCHANGED reply
  /\ UNCHANGED <<shared, exec, arg, held, pending, world>>

CallStatus(h) ==
  /\ At(h, "status")
  /\ \E r \in Outcomes \cup {"completed"} :
       Produce(h, "observed", r, "persistStatus")
  /\ UNCHANGED modified

PersistStatus(h) ==
  /\ At(h, "persistStatus")
  /\ PersistState(h)
  /\ Goto(h, "replied")
  /\ UNCHANGED <<stopEvents, heartbeatMonitors, monitor, overdue, due,
                 locals, world>>

-----------------------------------------------------------------------------
(* stopMonitorHeartbeat and DeleteState, used by handleStop and StopAction  *)

(* handleStop looks for a stop event next, StopAction deletes the state.   *)
AfterMonitor(t) == IF t \in Handlers THEN "checkStop" ELSE "deleteState"

(* Fault: Load in the place of LoadAndDelete.                              *)
LoadMonitor(t) ==
  LET m == heartbeatMonitors[exec[t]] IN
  /\ At(t, "takeMonitor")
  /\ held' = [held EXCEPT ![t] = m]
  /\ Goto(t, IF m = NoMonitor THEN AfterMonitor(t) ELSE "stopMonitor")
  /\ UNCHANGED <<shared, exec, arg, reply, pending, world>>

(* LoadAndDelete: only one thread gets a registered monitor.               *)
TakeMonitor(t) ==
  LET m == heartbeatMonitors[exec[t]] IN
  /\ At(t, "takeMonitor")
  /\ heartbeatMonitors' = [heartbeatMonitors EXCEPT ![exec[t]] = NoMonitor]
  /\ held' = [held EXCEPT ![t] = m]
  /\ Goto(t, IF m = NoMonitor THEN AfterMonitor(t) ELSE "stopMonitor")
  /\ UNCHANGED <<states, stopEvents, monitor, overdue, due,
                 exec, arg, reply, pending, world>>

StopMonitor(t) ==
  /\ At(t, "stopMonitor")
  /\ StopHeld(t)
  /\ Goto(t, AfterMonitor(t))

DeleteState(t) ==
  /\ At(t, "deleteState")
  /\ states' = [states EXCEPT ![exec[t]] = NoState]
  /\ IF t \in Handlers
     THEN Goto(t, "replied") /\ UNCHANGED arg
     ELSE /\ Goto(t, ReturnOf(t))
          /\ arg' = [arg EXCEPT ![t] = NoState]
  /\ UNCHANGED <<stopEvents, heartbeatMonitors, monitor, overdue, due,
                 exec, held, reply, pending, world>>

-----------------------------------------------------------------------------
(* handleStop                                                               *)

CheckStop(h) ==
  /\ At(h, "checkStop")
  /\ IF HasStopEvent(exec[h])
     THEN Answer(h, "stopped")
     ELSE Goto(h, "stop") /\ UNCHANGED reply
  /\ UNCHANGED <<shared, exec, arg, held, pending, world>>

(* A Stop that fails returns an error, or it says so in its result: then   *)
(* the handler goes on as if the modification were gone.                   *)
CallStop(h) ==
  /\ At(h, "stop")
  /\ \/ /\ modified' = modified \ {exec[h]}
        /\ Goto(h, "removeFiles")
        /\ reply' = [reply EXCEPT ![h] = "ok"]
        /\ abandoned' = abandoned \ {exec[h]}
     \/ /\ exec[h] \in StopMayFail
        /\ abandoned' = abandoned \cup (modified \cap {exec[h]})
        /\ Goto(h, "removeFiles")
        /\ reply' = [reply EXCEPT ![h] = "failed"]
        /\ UNCHANGED modified
     \/ /\ exec[h] \in StopMayFail
        /\ Answer(h, "error")
        /\ UNCHANGED <<modified, abandoned>>
  /\ UNCHANGED <<shared, exec, arg, held, pending, files, produced>>

RemoveFiles(h) ==
  /\ At(h, "removeFiles")
  /\ files' = files \ {exec[h]}
  /\ Goto(h, "deleteState")
  /\ UNCHANGED <<shared, locals, modified, produced, abandoned>>

-----------------------------------------------------------------------------
(* StopAction, run by the goroutine of a monitor or by the signal handler   *)

(* Fault: StopAction goes on without a state.                              *)
GetStateUnchecked(t) ==
  /\ At(t, "getState")
  /\ arg' = [arg EXCEPT ![t] = states[exec[t]]]
  /\ Goto(t, "markAsStopped")
  /\ UNCHANGED <<shared, exec, held, reply, pending, world>>

GetState(t) ==
  LET s == states[exec[t]] IN
  /\ At(t, "getState")
  /\ arg' = [arg EXCEPT ![t] = s]
  /\ Goto(t, IF s = NoState THEN ReturnOf(t) ELSE "markAsStopped")
  /\ UNCHANGED <<shared, exec, held, reply, pending, world>>

(* Fault: no stop event is ever dropped.                                   *)
MarkWithoutLimit(t) ==
  /\ At(t, "markAsStopped")
  /\ stopEvents' = Append(stopEvents, exec[t])
  /\ Goto(t, "rollback")
  /\ UNCHANGED <<states, heartbeatMonitors, monitor, overdue, due,
                 locals, world>>

(* Fault: an old stop event is dropped one too early.                      *)
MarkKeepingOneLess(t) ==
  LET kept == IF Len(stopEvents) >= MaxStopEvents THEN Tail(stopEvents)
                                                  ELSE stopEvents
  IN
  /\ At(t, "markAsStopped")
  /\ stopEvents' = Append(kept, exec[t])
  /\ Goto(t, "rollback")
  /\ UNCHANGED <<states, heartbeatMonitors, monitor, overdue, due,
                 locals, world>>

(* The oldest event is dropped when the list is longer than MaxStopEvents. *)
MarkAsStopped(t) ==
  LET kept == IF Len(stopEvents) > MaxStopEvents THEN Tail(stopEvents)
                                                 ELSE stopEvents
  IN
  /\ At(t, "markAsStopped")
  /\ stopEvents' = Append(kept, exec[t])
  /\ Goto(t, "rollback")
  /\ UNCHANGED <<states, heartbeatMonitors, monitor, overdue, due,
                 locals, world>>

(* The extension's own call of Stop. Only the error that Stop returns is   *)
(* looked at: the state and the monitor are kept then.                     *)
RollbackSucceeds(t) ==
  /\ At(t, "rollback")
  /\ modified' = modified \ {exec[t]}
  /\ abandoned' = abandoned \ {exec[t]}
  /\ Goto(t, "takeMonitor")
  /\ UNCHANGED <<shared, locals, files, produced>>

(* An error in the result of Stop is not noticed.                          *)
RollbackReportsFailure(t) ==
  /\ At(t, "rollback")
  /\ exec[t] \in StopMayFail
  /\ abandoned' = abandoned \cup (modified \cap {exec[t]})
  /\ Goto(t, "takeMonitor")
  /\ UNCHANGED <<shared, locals, modified, files, produced>>

(* Fault: StopAction goes on after a failed Stop.                          *)
RollbackFailureIgnored(t) ==
  /\ At(t, "rollback")
  /\ exec[t] \in StopMayFail
  /\ Goto(t, "takeMonitor")
  /\ UNCHANGED <<shared, locals, world>>

(* Fault: a failed Stop stores the state it was given again.               *)
FailedRollbackStores(t) ==
  /\ At(t, "rollback")
  /\ exec[t] \in StopMayFail
  /\ states' = [states EXCEPT ![exec[t]] = arg[t]]
  /\ Goto(t, ReturnOf(t))
  /\ arg' = [arg EXCEPT ![t] = NoState]
  /\ UNCHANGED <<stopEvents, heartbeatMonitors, monitor, overdue, due,
                 exec, held, reply, pending, world>>

RollbackFails(t) ==
  /\ At(t, "rollback")
  /\ exec[t] \in StopMayFail
  /\ Goto(t, ReturnOf(t))
  /\ arg' = [arg EXCEPT ![t] = NoState]
  /\ UNCHANGED <<shared, exec, held, reply, pending, world>>

StopAction(t) ==
  \/ GetState(t)
  \/ MarkAsStopped(t)
  \/ RollbackSucceeds(t)
  \/ RollbackReportsFailure(t)
  \/ RollbackFails(t)
  \/ TakeMonitor(t)
  \/ StopMonitor(t)
  \/ DeleteState(t)

-----------------------------------------------------------------------------
(* extheartbeat.Monitor (external) and the goroutine that reads its channel *)

(* The last heartbeat of m becomes older than the timeout.                 *)
Silence(m) ==
  /\ monitor[m] = "running"
  /\ m \notin overdue
  /\ overdue' = overdue \cup {m}
  /\ UNCHANGED <<states, stopEvents, heartbeatMonitors, monitor, due,
                 pc, locals, world>>

(* m sends the timeout on its channel, again and again while it is overdue. *)
Notify(m) ==
  /\ monitor[m] = "running"
  /\ m \in overdue
  /\ m \notin due
  /\ due' = due \cup {m}
  /\ UNCHANGED <<states, stopEvents, heartbeatMonitors, monitor, overdue,
                 pc, locals, world>>

(* The goroutine takes the timeout, also one left in a stopped channel.    *)
HeartbeatTimeout(m) ==
  /\ At(m, "watching")
  /\ m \in due
  /\ due' = due \ {m}
  /\ Goto(m, "getState")
  /\ UNCHANGED <<states, stopEvents, heartbeatMonitors, monitor, overdue,
                 locals, world>>

(* The channel is closed and empty: the goroutine ends.                    *)
WatcherEnds(m) ==
  /\ At(m, "watching")
  /\ monitor[m] = "stopped"
  /\ m \notin due
  /\ Goto(m, "off")
  /\ UNCHANGED <<shared, locals, world>>

-----------------------------------------------------------------------------
(* StopAllActiveActions and the end of the process                          *)

SignalArrives ==
  /\ At(Signal, "idle")
  /\ pending' = {e \in Execs : states[e] # NoState}
  /\ Goto(Signal, "nextExecution")
  /\ UNCHANGED <<shared, exec, arg, held, reply, world>>

StopNext ==
  /\ At(Signal, "nextExecution")
  /\ \E e \in pending :
       /\ pending' = pending \ {e}
       /\ exec' = [exec EXCEPT ![Signal] = e]
  /\ Goto(Signal, "getState")
  /\ UNCHANGED <<shared, arg, held, reply, world>>

AllStopped ==
  /\ At(Signal, "nextExecution")
  /\ pending = {}
  /\ Goto(Signal, "idle")
  /\ exec' = [exec EXCEPT ![Signal] = NoExec]
  /\ UNCHANGED <<shared, arg, held, reply, pending, world>>

(* The process ends at any point, after SIGINT or SIGTERM or by a crash,   *)
(* and starts again. Nothing in its memory survives.                       *)
Restart ==
  /\ states' = NoneFor(Execs, NoState)
  /\ stopEvents' = <<>>
  /\ heartbeatMonitors' = NoneFor(Execs, NoMonitor)
  /\ monitor' = NoneFor(Monitors, "unused")
  /\ overdue' = {}
  /\ due' = {}
  /\ pc' = FreshPC
  /\ exec' = NoneFor(Threads, NoExec)
  /\ arg' = NoneFor(Threads, NoState)
  /\ held' = NoneFor(Threads, NoMonitor)
  /\ reply' = NoneFor(Handlers, NoReply)
  /\ pending' = {}
  /\ UNCHANGED world

-----------------------------------------------------------------------------
(* The specification                                                        *)

HandlerStep(h) ==
  \/ HandleFiles(h) \/ CallPrepare(h) \/ PersistPrepared(h)
  \/ CallStart(h) \/ PersistStarted(h) \/ StopPrevious(h)
  \/ \E m \in Monitors : MonitorHeartbeat(h, m)
  \/ FindMonitor(h) \/ RecordHeartbeat(h)
  \/ CheckStatus(h) \/ CallStatus(h) \/ PersistStatus(h)
  \/ TakeMonitor(h) \/ StopMonitor(h) \/ CheckStop(h) \/ CallStop(h)
  \/ RemoveFiles(h) \/ DeleteState(h)

WatcherStep(m) == HeartbeatTimeout(m) \/ WatcherEnds(m) \/ StopAction(m)

SignalStep == StopNext \/ AllStopped \/ StopAction(Signal)

(* What any client may ask.                                                *)
AnyRequest(h) ==
  \E e \in Execs :
    \/ PrepareRequest(h, e)
    \/ \E s \in State : \/ StartRequest(h, e, s)
                        \/ StatusRequest(h, e, s)
                        \/ StopRequest(h, e, s)

Next ==
  \/ \E h \in Handlers : AnyRequest(h) \/ HandlerStep(h) \/ Deliver(h)
  \/ \E m \in Monitors : Silence(m) \/ Notify(m) \/ WatcherStep(m)
  \/ SignalArrives
  \/ SignalStep
  \/ Restart

Spec == Init /\ [][Next]_vars

-----------------------------------------------------------------------------
(* Properties                                                               *)

Running(m) == monitor[m] = "running"

Registered(m) == \E e \in Execs : heartbeatMonitors[e] = m

(* No heartbeat monitor is leaked, however starts, stops and timeouts of   *)
(* one execution interleave: a monitor that runs is registered, so that    *)
(* the next stop or start finds it, or a thread is about to stop it        *)
(* (monitorHeartbeatWithCallback, stopMonitorHeartbeat).                   *)
NoOrphanMonitor ==
  \A m \in Monitors :
    Running(m) => Registered(m) \/ \E t \in Threads : Holding(t) /\ held[t] = m

RegisteredOnesRun ==
  \A e \in Execs :
    heartbeatMonitors[e] # NoMonitor =>
      /\ Running(heartbeatMonitors[e])
      /\ exec[heartbeatMonitors[e]] = e
      /\ pc[heartbeatMonitors[e]] # "off"

HeartbeatsOnOwn ==
  \A h \in Handlers : Beating(h) => exec[held[h]] = exec[h]

(* A registered monitor runs and watches the execution it is registered    *)
(* for. A heartbeat is recorded on a monitor of its own execution, although *)
(* a start may replace that monitor, and a stop or a timeout stop it,      *)
(* between finding it and recording the heartbeat (recordHeartbeat).       *)
RegisteredMonitorRuns == RegisteredOnesRun /\ HeartbeatsOnOwn

(* The list of stop events stays bounded for as long as the extension runs *)
(* (markAsStopped).                                                        *)
StopEventsBounded == Len(stopEvents) <= MaxStopEvents + 1

=============================================================================

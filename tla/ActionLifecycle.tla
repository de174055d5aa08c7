--------------------------- MODULE ActionLifecycle ---------------------------
(****************************************************************************)
(* The action SDK together with a client that follows the protocol of       *)
(* docs/action-api.md the way the client of go/action_kit_test does: for    *)
(* every execution it prepares, starts, asks for the status until the       *)
(* action completes, fails or its duration is over, and then stops. One     *)
(* request of an execution is under way at a time.                          *)
(*                                                                          *)
(* Faults names what may go wrong around the SDK:                           *)
(*   "vanish"   the client disappears for good between any two steps        *)
(*   "giveUp"   the client takes a request for failed while the extension   *)
(*              still works on it                                           *)
(*   "delay"    heartbeats of a live client come later than the timeout     *)
(*   "signal"   SIGUSR1 reaches the extension                               *)
(*   "restart"  the extension's process ends and starts again               *)
(****************************************************************************)
EXTENDS ActionSdk

CONSTANTS Faults, NoHandler

ASSUME FaultsAssumption ==
  Faults \subseteq {"vanish", "giveUp", "delay", "signal", "restart"}

ASSUME NoHandlerAssumption == NoHandler \notin Handlers

VARIABLES
  step,     \* where the client is with each execution
  known,    \* the state the client has of each execution
  served,   \* the handler that works on the client's request
  errored,  \* executions the client has seen an error of
  warned    \* executions with a stop event before the client asked to stop

client == <<step, known, served, errored, warned>>
allVars == <<vars, client>>

Waiting == {"preparing", "starting", "observing", "stopping"}
Ended == {"done", "vanished"}
Step == {"new", "prepared", "running", "ending"} \cup Waiting \cup Ended

ClientTypeOK ==
  /\ TypeOK
  /\ step \in [Execs -> Step]
  /\ known \in [Execs -> State \cup {NoState}]
  /\ \A e \in Execs : step[e] \notin {"new", "preparing"} \cup Ended
                        => known[e] \in State
  /\ served \in [Execs -> Handlers \cup {NoHandler}]
  /\ errored \subseteq Execs
  /\ warned \subseteq Execs

LifecycleInit ==
  /\ Init
  /\ step = NoneFor(Execs, "new")
  /\ known = NoneFor(Execs, NoState)
  /\ served = NoneFor(Execs, NoHandler)
  /\ errored = {}
  /\ warned = {}

-----------------------------------------------------------------------------
(* The client sends requests                                                *)

Become(e, p) == step' = [step EXCEPT ![e] = p]

Send(h, e, from, to) ==
  /\ step[e] = from
  /\ Become(e, to)
  /\ served' = [served EXCEPT ![e] = h]
  /\ UNCHANGED <<known, errored>>

SendPrepare(h, e) ==
  /\ Send(h, e, "new", "preparing")
  /\ PrepareRequest(h, e)
  /\ UNCHANGED warned

SendStart(h, e) ==
  /\ Send(h, e, "prepared", "starting")
  /\ StartRequest(h, e, known[e])
  /\ UNCHANGED warned

SendStatus(h, e) ==
  /\ Send(h, e, "running", "observing")
  /\ StatusRequest(h, e, known[e])
  /\ UNCHANGED warned

SendStop(h, e) ==
  /\ Send(h, e, "ending", "stopping")
  /\ StopRequest(h, e, known[e])
  /\ warned' = IF HasStopEvent(e) THEN warned \cup {e} ELSE warned

(* The duration of the action is over.                                     *)
DurationElapsed(e) ==
  /\ step[e] = "running"
  /\ Become(e, "ending")
  /\ UNCHANGED <<vars, known, served, errored, warned>>

(* There is no stop to ask for.                                            *)
EndWithoutStop(e) ==
  /\ step[e] = "ending"
  /\ e \notin Stoppable
  /\ Become(e, "done")
  /\ UNCHANGED <<vars, known, served, errored, warned>>

-----------------------------------------------------------------------------
(* The client receives answers                                              *)

(* Fault: the client starts what could not be prepared.                    *)
StartAnyway(at, r) ==
  CASE at = "preparing" -> "prepared"
    [] at = "starting"  -> IF r = "ok" THEN "running" ELSE "ending"
    [] at = "observing" -> IF r = "ok" THEN "running" ELSE "ending"
    [] at = "stopping"  -> "done"

(* What the client does with the answer r to the request it is waiting at. *)
AfterAnswer(at, r) ==
  CASE at = "preparing" -> IF r = "ok" THEN "prepared" ELSE "done"
    [] at = "starting"  -> IF r = "ok" THEN "running" ELSE "ending"
    [] at = "observing" -> IF r = "ok" THEN "running" ELSE "ending"
    [] at = "stopping"  -> "done"

(* A state in an answer replaces the client's, but startAction returns the *)
(* old one together with the error. Answers "stopped" and "error" have no  *)
(* state.                                                                  *)
TakesState(at, r) ==
  \/ at \in {"preparing", "starting"} /\ r = "ok"
  \/ at = "observing" /\ r \in {"ok", "completed", "failed"}

Receive(h, e) ==
  /\ step[e] \in Waiting
  /\ served[e] = h
  /\ Deliver(h)
  /\ Become(e, AfterAnswer(step[e], reply[h]))
  /\ known' = IF TakesState(step[e], reply[h])
              THEN [known EXCEPT ![e] = arg[h]]
              ELSE known
  /\ errored' = IF reply[h] \in {"ok", "completed"} THEN errored
                                                    ELSE errored \cup {e}
  /\ served' = [served EXCEPT ![e] = NoHandler]
  /\ UNCHANGED warned

(* The request fails for the client: the connection broke when the process *)
(* ended, or the client does not wait any longer.                          *)
GiveUp(e) ==
  /\ step[e] \in Waiting
  /\ served[e] = NoHandler \/ "giveUp" \in Faults
  /\ Become(e, AfterAnswer(step[e], "error"))
  /\ errored' = errored \cup {e}
  /\ served' = [served EXCEPT ![e] = NoHandler]
  /\ UNCHANGED <<vars, known, warned>>

Vanish(e) ==
  /\ "vanish" \in Faults
  /\ step[e] \notin Ended
  /\ Become(e, "vanished")
  /\ served' = [served EXCEPT ![e] = NoHandler]
  /\ UNCHANGED <<vars, known, errored, warned>>

(* Nobody waits for the answer any more.                                   *)
Drop(h) ==
  /\ \A e \in Execs : served[e] # h
  /\ Deliver(h)
  /\ UNCHANGED client

-----------------------------------------------------------------------------
(* The SDK around the client                                                *)

(* Heartbeats stay away when the client has ended or is late.              *)
MissHeartbeats(m) ==
  /\ Silence(m)
  /\ "delay" \in Faults \/ step[exec[m]] \in Ended
  /\ UNCHANGED client

SdkStep ==
  /\ \/ \E h \in Handlers : HandlerStep(h)
     \/ \E m \in Monitors : Notify(m) \/ WatcherStep(m)
     \/ "signal" \in Faults /\ SignalArrives
     \/ SignalStep
  /\ UNCHANGED client

(* The connections of all requests break when the process ends.            *)
ProcessRestarts ==
  /\ "restart" \in Faults
  /\ Restart
  /\ served' = NoneFor(Execs, NoHandler)
  /\ UNCHANGED <<step, known, errored, warned>>

ClientStep(e) ==
  \/ \E h \in Handlers : \/ SendPrepare(h, e) \/ SendStart(h, e)
                         \/ SendStatus(h, e) \/ SendStop(h, e)
                         \/ Receive(h, e)
  \/ DurationElapsed(e) \/ EndWithoutStop(e) \/ GiveUp(e) \/ Vanish(e)

LifecycleNext ==
  \/ \E e \in Execs : ClientStep(e)
  \/ \E h \in Handlers : Drop(h)
  \/ \E m \in Monitors : MissHeartbeats(m)
  \/ SdkStep
  \/ ProcessRestarts

LifecycleSpec == LifecycleInit /\ [][LifecycleNext]_allVars

-----------------------------------------------------------------------------
(* Fairness. Handlers, the goroutines of the monitors and the signal        *)
(* handler run until they return: none of them waits for another and the    *)
(* action's methods are taken to return. A monitor without heartbeats times *)
(* out. A Stop that the extension calls again and again succeeds in the     *)
(* end. Nothing is assumed of the client.                                   *)

SdkFairness ==
  /\ \A h \in Handlers : WF_allVars(HandlerStep(h) /\ UNCHANGED client)
  /\ \A m \in Monitors :
       /\ WF_allVars(Notify(m) /\ UNCHANGED client)
       /\ WF_allVars(WatcherStep(m) /\ UNCHANGED client)
       /\ WF_allVars(MissHeartbeats(m) /\ step[exec[m]] \in Ended)
  /\ WF_allVars(SignalStep /\ UNCHANGED client)
  /\ \A t \in Stoppers : SF_allVars(RollbackSucceeds(t) /\ UNCHANGED client)

(* A client that is there receives its answers and goes on.                *)
ClientFairness ==
  \A e \in Execs :
    /\ WF_allVars(\E h \in Handlers : Receive(h, e))
    /\ WF_allVars(\E h \in Handlers : SendStatus(h, e))
    /\ WF_allVars(\E h \in Handlers : SendStop(h, e))
    /\ WF_allVars(DurationElapsed(e))

FairSpec == LifecycleSpec /\ SdkFairness
FairClientSpec == FairSpec /\ ClientFairness

-----------------------------------------------------------------------------
(* Safety                                                                   *)

(* What the SDK still has to roll back: a Stop that says in its result     *)
(* that it failed is taken for one that succeeded, and ends its duty.      *)
Owed == (modified \cap Stoppable) \ abandoned

(* As long as an action's system modification is in place the SDK keeps a  *)
(* state it can be rolled back with: no order of start, status, stop and   *)
(* timeout deletes the state first (README.md of action_kit_sdk, "rollback *)
(* stability"), also when a Stop returns an error. A Stop that reports its *)
(* failure in its result, signals, lost answers and restarts break this.   *)
RollbackStateKept == \A e \in Owed : states[e] # NoState

(* The SDK and its client implement the contract: the persister takes      *)
(* nothing but the state the action's code left last, although a handler   *)
(* and a thread that stops the action hold states they have read before;   *)
(* and what is modified keeps a state until it is rolled back              *)
(* (PersistState in handlePrepare, handleStart and handleStatus,           *)
(* DeleteState in handleStop and StopAction).                              *)
Contract == INSTANCE RollbackContract WITH
              Execs <- Stoppable,
              kept  <- [e \in Stoppable |-> states[e]],
              last  <- [e \in Stoppable |-> produced[e]],
              owed  <- Owed

ImplementsContract == Contract!Spec

(* The state that is kept is the last one the action's code left, also     *)
(* when prepare, start or status returned an error (CHANGELOG 1.3.0); it   *)
(* lags only while a handler is about to store it.                         *)
Persisting(e) ==
  \E h \in Handlers :
    /\ exec[h] = e
    /\ pc[h] \in {"persistPrepared", "persistStarted", "persistStatus"}

PersistedIsLatest ==
  \A e \in Stoppable \cap Encodable :
    states[e] \in {NoState, produced[e]} \/ Persisting(e)

(* An execution the client has stopped without any error leaves nothing    *)
(* behind: no modification, no stored state, no heartbeat monitor and no   *)
(* uploaded file, whatever timeout or signal came in between (handleStop). *)
CleanStop ==
  \A e \in Stoppable :
    step[e] = "done" /\ e \notin errored =>
      /\ e \notin modified
      /\ states[e] = NoState
      /\ heartbeatMonitors[e] = NoMonitor
      /\ e \notin files

(* A client whose execution the extension stopped on its own before the    *)
(* client asked to stop never takes the execution for a success, although  *)
(* events of other executions follow: as many as the list still keeps      *)
(* besides this one, MaxStopEvents (markAsStopped, getStopEvent).          *)
NoSilentRollback ==
  \A e \in warned : step[e] = "done" => e \in errored

-----------------------------------------------------------------------------
(* Liveness                                                                 *)

(* Once the client is done with an execution or has disappeared, what the  *)
(* action modified is rolled back and stays so: by the client's stop, or   *)
(* by the heartbeat timeout (docs/action-api.md, Action SDK Heartbeats).   *)
RolledBack ==
  \A e \in Stoppable : (step[e] \in Ended) ~> [](e \notin modified)

(* A client that still watches an execution gets to know that the          *)
(* extension stopped it (handleStatus, handleStop).                        *)
RollbackIsReported ==
  \A e \in Stoppable :
    (HasStopEvent(e) /\ step[e] \in {"running", "observing", "ending"})
      ~> (e \in errored \/ step[e] = "vanished")

-----------------------------------------------------------------------------
(* What documentation and comments say and the code does not do             *)

(* The answers of handleStatus and handleStop, "Action was stopped by      *)
(* extension": when no thread is stopping the execution any longer, its    *)
(* modification is gone.                                                   *)
StoppedMeansRolledBack ==
  \A h \in Handlers :
    pc[h] = "replied" /\ reply[h] = "stopped" =>
      \/ exec[h] \notin modified
      \/ \E t \in Stoppers : pc[t] \in StopActionPC /\ exec[t] = exec[h]

=============================================================================

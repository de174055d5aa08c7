----------------------- MODULE ActionLifecycleProofs -----------------------
(****************************************************************************)
(* Theorems about the SDK with a client that follows the protocol. It is an *)
(* instance of the open SDK: what holds for any client's requests holds for *)
(* this client's, with every fault there may be. What is true only because  *)
(* of the protocol follows from Serving, that at most one handler works for *)
(* an execution whose requests the client does not give up: the stored      *)
(* states, a clean stop, and the rollback contract.                         *)
(****************************************************************************)
EXTENDS ActionLifecycle, ActionSdkProofs

USE DEF Threads

(* An answer that is not an error carries a state.                         *)
AnswersHaveState ==
  \A h \in Handlers :
    pc[h] = "replied" /\ reply[h] # "error" => arg[h] \in State

ClientInv == ClientTypeOK /\ AnswersHaveState

LEMMA InitClientInv == LifecycleInit => ClientInv
<1>. SUFFICES ASSUME LifecycleInit PROVE ClientInv
  OBVIOUS
<1>. USE DEF LifecycleInit
<1>1. TypeOK
  BY InitTypeOK
<1>2. AnswersHaveState
  BY ThreadsAssumption DEF AnswersHaveState, Init, FreshPC
<1>. QED
  BY <1>1, <1>2 DEF ClientInv, ClientTypeOK, NoneFor, Step, Waiting, Ended

-----------------------------------------------------------------------------
(* Every step of the lifecycle is a step of the open SDK or leaves it alone *)

(* A client that asks for anything but prepare has a state to send.        *)
LEMMA KnownState ==
  ASSUME ClientTypeOK, NEW e \in Execs,
         step[e] \notin {"new", "preparing", "done", "vanished"}
  PROVE  known[e] \in State
BY DEF ClientTypeOK, Ended

LEMMA ClientStepIsNext ==
  ASSUME ClientTypeOK, NEW e \in Execs, ClientStep(e)
  PROVE  [Next]_vars
<1>1. ASSUME NEW h \in Handlers, SendPrepare(h, e) PROVE Next
  BY <1>1 DEF SendPrepare, Next, AnyRequest
<1>2. ASSUME NEW h \in Handlers,
             SendStart(h, e) \/ SendStatus(h, e) \/ SendStop(h, e)
      PROVE  Next
  <2>1. known[e] \in State
    BY <1>2, KnownState DEF SendStart, SendStatus, SendStop, Send
  <2>2. AnyRequest(h)
    BY <1>2, <2>1 DEF SendStart, SendStatus, SendStop, AnyRequest
  <2>. QED
    BY <2>2 DEF Next
<1>3. ASSUME NEW h \in Handlers, Receive(h, e) PROVE Next
  BY <1>3 DEF Receive, Next
<1>4. CASE DurationElapsed(e) \/ EndWithoutStop(e) \/ GiveUp(e) \/ Vanish(e)
  BY <1>4 DEF DurationElapsed, EndWithoutStop, GiveUp, Vanish
<1>. QED
  BY <1>1, <1>2, <1>3, <1>4 DEF ClientStep

LEMMA LifecycleStepIsNext ==
  ASSUME ClientTypeOK, [LifecycleNext]_allVars
  PROVE  [Next]_vars
<1>1. ASSUME NEW e \in Execs, ClientStep(e) PROVE [Next]_vars
  BY <1>1, ClientStepIsNext
<1>2. ASSUME NEW h \in Handlers, Drop(h) PROVE Next
  BY <1>2 DEF Drop, Next
<1>3. ASSUME NEW m \in Monitors, MissHeartbeats(m) PROVE Next
  BY <1>3 DEF MissHeartbeats, Next
<1>4. CASE SdkStep
  BY <1>4 DEF SdkStep, Next
<1>5. CASE ProcessRestarts
  BY <1>5 DEF ProcessRestarts, Next
<1>6. CASE UNCHANGED allVars
  BY <1>6 DEF allVars
<1>. QED
  BY <1>1, <1>2, <1>3, <1>4, <1>5, <1>6 DEF LifecycleNext

-----------------------------------------------------------------------------
(* Answers have a state *)

(* A step of one thread that, if it is a handler with an answer, has a      *)
(* state for it.                                                            *)
LEMMA OneThreadAnswers ==
  ASSUME AnswersHaveState, NEW t \in Threads, Alone(t),
         \A u \in Handlers \ {t} : reply'[u] = reply[u],
         pc'[t] = "replied" /\ reply'[t] # "error" => arg'[t] \in State
  PROVE  AnswersHaveState'
BY DEF AnswersHaveState, Alone

LEMMA HandlerAnswers ==
  ASSUME TypeOK, AnswersHaveState, NEW h \in Handlers, HandlerStep(h)
  PROVE  AnswersHaveState'
<1>. USE ThreadsAssumption DEF TypeOK, LocalTypeOK, At, Goto, Answer
<1>1. CASE \/ HandleFiles(h) \/ CallPrepare(h) \/ PersistPrepared(h)
           \/ CallStart(h) \/ PersistStarted(h) \/ CallStatus(h)
           \/ PersistStatus(h)
  <2>. USE <1>1 DEF HandleFiles, CallPrepare, CallStart, CallStatus, Produce,
           PersistPrepared, PersistStarted, PersistStatus
  <2>1. Alone(h)
    BY DEF Alone, locals
  <2>2. \A u \in Handlers \ {h} : reply'[u] = reply[u]
    BY DEF locals
  <2>3. pc'[h] = "replied" /\ reply'[h] # "error" => arg'[h] \in State
    BY DEF ThreadTypeOK, Resting, Stateless, locals
  <2>. QED
    BY <2>1, <2>2, <2>3, OneThreadAnswers
<1>2. CASE \/ StopPrevious(h) \/ FindMonitor(h) \/ RecordHeartbeat(h)
           \/ CheckStatus(h) \/ TakeMonitor(h) \/ StopMonitor(h)
           \/ CheckStop(h) \/ CallStop(h) \/ RemoveFiles(h) \/ DeleteState(h)
  <2>. USE <1>2 DEF StopPrevious, StopHeld, FindMonitor, RecordHeartbeat,
           CheckStatus, TakeMonitor, StopMonitor, CheckStop, CallStop, RemoveFiles,
           DeleteState
  <2>1. Alone(h)
    BY DEF Alone, locals
  <2>2. \A u \in Handlers \ {h} : reply'[u] = reply[u]
    BY DEF locals
  <2>3. arg[h] \in State /\ arg' = arg
    BY DEF ThreadTypeOK, Resting, Stateless, locals
  <2>. QED
    BY <2>1, <2>2, <2>3, OneThreadAnswers
<1>3. ASSUME NEW m \in Monitors, MonitorHeartbeat(h, m)
      PROVE  AnswersHaveState'
  <2>1. arg[h] \in State
    BY <1>3 DEF MonitorHeartbeat, ThreadTypeOK, Resting, Stateless
  <2>. QED
    BY <1>3, <2>1 DEF MonitorHeartbeat, AnswersHaveState
<1>. QED
  BY <1>1, <1>2, <1>3 DEF HandlerStep

LEMMA NextAnswers ==
  ASSUME TypeOK, AnswersHaveState, [Next]_vars PROVE AnswersHaveState'
<1>. USE ThreadsAssumption DEF TypeOK, LocalTypeOK, At, Goto, Answer
<1>1. ASSUME NEW h \in Handlers, AnyRequest(h) \/ Deliver(h)
      PROVE  AnswersHaveState'
  BY <1>1 DEF AnswersHaveState, AnyRequest, PrepareRequest, StartRequest,
              StatusRequest, StopRequest, Request, Deliver
<1>2. ASSUME NEW t \in Stoppers, StopAction(t) PROVE AnswersHaveState'
  <2>. USE <1>2 DEF StopAction, GetState, MarkAsStopped, RollbackSucceeds,
           RollbackReportsFailure, RollbackFails, TakeMonitor, StopMonitor,
           StopHeld, DeleteState, Stoppers
  <2>1. Alone(t)
    BY DEF Alone, locals
  <2>2. reply' = reply
    BY DEF locals
  <2>3. pc'[t] # "replied"
    BY DEF AfterMonitor, ReturnOf
  <2>. QED
    BY <2>1, <2>2, <2>3, OneThreadAnswers
<1>3. ASSUME NEW m \in Monitors, Silence(m) \/ Notify(m) \/ WatcherStep(m)
      PROVE  AnswersHaveState'
  <2>1. CASE \/ Silence(m) \/ Notify(m) \/ HeartbeatTimeout(m) \/ WatcherEnds(m)
    BY <2>1 DEF Silence, Notify, HeartbeatTimeout, WatcherEnds, locals,
                AnswersHaveState
  <2>. QED
    BY <1>2, <1>3, <2>1 DEF WatcherStep, Stoppers
<1>4. CASE SignalArrives \/ SignalStep
  <2>1. CASE SignalArrives \/ StopNext \/ AllStopped
    BY <2>1 DEF SignalArrives, StopNext, AllStopped, AnswersHaveState
  <2>. QED
    BY <1>2, <1>4, <2>1 DEF SignalStep, Stoppers
<1>5. CASE Restart
  BY <1>5 DEF Restart, FreshPC, AnswersHaveState
<1>6. CASE UNCHANGED vars
  BY <1>6 DEF vars, locals, AnswersHaveState
<1>. QED
  BY <1>1, <1>3, <1>4, <1>5, <1>6, HandlerAnswers DEF Next

-----------------------------------------------------------------------------
(* The client *)

(* What a step of the client for execution e may do to what it knows.      *)
ClientMoves(e, p, s) ==
  /\ step' = [step EXCEPT ![e] = p]
  /\ known' = [known EXCEPT ![e] = s]
  /\ errored' \subseteq Execs
  /\ warned' \subseteq Execs
  /\ served' \in [Execs -> Handlers \cup {NoHandler}]

LEMMA MoveKeepsClientType ==
  ASSUME ClientTypeOK, TypeOK', NEW e \in Execs,
         NEW p \in Step, NEW s \in State \cup {NoState},
         p \notin {"new", "preparing"} \cup Ended => s \in State,
         ClientMoves(e, p, s)
  PROVE  ClientTypeOK'
BY DEF ClientTypeOK, ClientMoves

LEMMA ClientStepClientType ==
  ASSUME ClientInv, TypeOK', NEW e \in Execs, ClientStep(e)
  PROVE  ClientTypeOK'
<1>. USE DEF ClientInv, Become, Step, Waiting, Ended
<1>1. /\ step \in [Execs -> Step]
      /\ known \in [Execs -> State \cup {NoState}]
      /\ served \in [Execs -> Handlers \cup {NoHandler}]
      /\ errored \subseteq Execs
      /\ warned \subseteq Execs
  BY DEF ClientTypeOK
<1>2. known = [known EXCEPT ![e] = known[e]]
  BY <1>1
<1>3. ASSUME NEW h \in Handlers, SendPrepare(h, e) PROVE ClientTypeOK'
  <2>1. ClientMoves(e, "preparing", known[e])
    BY <1>1, <1>2, <1>3 DEF SendPrepare, Send, ClientMoves
  <2>. QED
    BY <1>1, <2>1, MoveKeepsClientType
<1>4. ASSUME NEW h \in Handlers,
             NEW p \in {"starting", "observing", "stopping"},
             \/ p = "starting" /\ SendStart(h, e)
             \/ p = "observing" /\ SendStatus(h, e)
             \/ p = "stopping" /\ SendStop(h, e)
      PROVE  ClientTypeOK'
  <2>1. ClientMoves(e, p, known[e])
    BY <1>1, <1>2, <1>4 DEF SendStart, SendStatus, SendStop, Send, ClientMoves
  <2>2. known[e] \in State
    BY <1>4, KnownState DEF SendStart, SendStatus, SendStop, Send
  <2>. QED
    BY <2>1, <2>2, MoveKeepsClientType
<1>5. ASSUME NEW h \in Handlers, Receive(h, e) PROVE ClientTypeOK'
  <2>. DEFINE p == AfterAnswer(step[e], reply[h])
              s == IF TakesState(step[e], reply[h]) THEN arg[h] ELSE known[e]
  <2>1. TakesState(step[e], reply[h]) => arg[h] \in State
    BY <1>5 DEF Receive, Deliver, At, TakesState, AnswersHaveState
  <2>2. step[e] # "preparing" => known[e] \in State
    BY <1>5, KnownState DEF Receive
  <2>3. p \in {"prepared", "running", "ending", "done"}
    BY <1>5 DEF Receive, AfterAnswer
  <2>4. step[e] = "preparing" /\ p # "done" => TakesState(step[e], reply[h])
    BY DEF AfterAnswer, TakesState
  <2>5. ClientMoves(e, p, s)
    BY <1>1, <1>2, <1>5 DEF Receive, ClientMoves
  <2>6. s \in State \cup {NoState} /\ (p # "done" => s \in State)
    BY <1>1, <2>1, <2>2, <2>4
  <2>. QED
    BY <2>3, <2>5, <2>6, MoveKeepsClientType
<1>6. CASE GiveUp(e)
  <2>. DEFINE p == AfterAnswer(step[e], "error")
  <2>1. p \in {"ending", "done"} /\ (step[e] = "preparing" => p = "done")
    BY <1>6 DEF GiveUp, AfterAnswer
  <2>2. step[e] # "preparing" => known[e] \in State
    BY <1>6, KnownState DEF GiveUp
  <2>3. ClientMoves(e, p, known[e])
    BY <1>1, <1>2, <1>6 DEF GiveUp, ClientMoves
  <2>. QED
    BY <1>1, <2>1, <2>2, <2>3, MoveKeepsClientType
<1>7. CASE DurationElapsed(e) \/ EndWithoutStop(e)
  <2>. PICK p \in {"ending", "done"} : step' = [step EXCEPT ![e] = p]
    BY <1>7 DEF DurationElapsed, EndWithoutStop
  <2>1. known[e] \in State
    BY <1>7, KnownState DEF DurationElapsed, EndWithoutStop
  <2>2. ClientMoves(e, p, known[e])
    BY <1>1, <1>2, <1>7 DEF DurationElapsed, EndWithoutStop, ClientMoves
  <2>. QED
    BY <2>1, <2>2, MoveKeepsClientType
<1>8. CASE Vanish(e)
  <2>1. ClientMoves(e, "vanished", known[e])
    BY <1>1, <1>2, <1>8 DEF Vanish, ClientMoves
  <2>. QED
    BY <1>1, <2>1, MoveKeepsClientType
<1>9. ASSUME NEW h \in Handlers,
             SendStart(h, e) \/ SendStatus(h, e) \/ SendStop(h, e)
      PROVE  ClientTypeOK'
  BY <1>4, <1>9
<1>. QED
  BY <1>3, <1>5, <1>6, <1>7, <1>8, <1>9 DEF ClientStep

LEMMA NextClientInv ==
  ASSUME ClientInv, [LifecycleNext]_allVars PROVE ClientInv'
<1>1. [Next]_vars /\ TypeOK
  BY LifecycleStepIsNext DEF ClientInv, ClientTypeOK
<1>2. TypeOK' /\ AnswersHaveState'
  BY <1>1, NextTypeOK, NextAnswers DEF ClientInv
<1>3. ASSUME UNCHANGED client PROVE ClientTypeOK'
  BY <1>2, <1>3 DEF ClientInv, ClientTypeOK, client
<1>4. CASE ProcessRestarts
  BY <1>2, <1>4 DEF ProcessRestarts, NoneFor, ClientInv, ClientTypeOK
<1>5. ASSUME NEW e \in Execs, ClientStep(e) PROVE ClientTypeOK'
  BY <1>2, <1>5, ClientStepClientType
<1>6. CASE \/ \E h \in Handlers : Drop(h)
           \/ \E m \in Monitors : MissHeartbeats(m)
           \/ SdkStep
           \/ UNCHANGED allVars
  <2>1. UNCHANGED client
    BY <1>6 DEF Drop, MissHeartbeats, SdkStep, allVars
  <2>. QED
    BY <1>2, <1>3, <2>1 DEF ClientInv
<1>. QED
  BY <1>2, <1>4, <1>5, <1>6 DEF ClientInv, LifecycleNext

-----------------------------------------------------------------------------

(* The client never sends a request that needs a state before it was given *)
(* one, and both the SDK and the client stay within their types, whatever  *)
(* faults happen (runAction of the client in action_kit_test).             *)
THEOREM ClientTypeCorrect == LifecycleSpec => []ClientTypeOK
<1>1. ClientInv /\ [LifecycleNext]_allVars => ClientInv'
  BY NextClientInv
<1>2. ClientInv => ClientTypeOK
  BY DEF ClientInv
<1>. QED
  BY InitClientInv, <1>1, <1>2, PTL DEF LifecycleSpec

(* The SDK with its client implements the open SDK of ActionSdk: every     *)
(* theorem about the open SDK holds for it too.                            *)
THEOREM LifecycleImplementsSdk == LifecycleSpec => Spec
<1>1. LifecycleInit => Init
  BY DEF LifecycleInit
<1>2. ClientTypeOK /\ [LifecycleNext]_allVars => [Next]_vars
  BY LifecycleStepIsNext
<1>. QED
  BY ClientTypeCorrect, <1>1, <1>2, PTL DEF LifecycleSpec, Spec

(* No heartbeat monitor leaks and the stop events stay bounded while a     *)
(* client runs its executions against the SDK, whatever faults happen.     *)
THEOREM LifecycleMonitorsSafe ==
  LifecycleSpec =>
    [](NoOrphanMonitor /\ RegisteredMonitorRuns /\ StopEventsBounded)
BY LifecycleImplementsSdk, MonitorsNeverOrphaned, RegisteredMonitorsRun,
   StopEventsStayBounded, PTL

-----------------------------------------------------------------------------
(* One handler works for an execution                                       *)

(* The program counters of a handler while the client is at step s.        *)
InPhase(p, s) ==
  \/ /\ s = "preparing"
     /\ p \in {"handleFiles", "prepare", "persistPrepared", "replied"}
  \/ /\ s = "starting"
     /\ p \in {"start", "persistStarted", "monitorHeartbeat", "stopPrevious",
               "replied"}
  \/ /\ s = "observing"
     /\ p \in {"findMonitor", "recordHeartbeat", "checkStatus", "status",
               "persistStatus", "replied"}
  \/ /\ s = "stopping"
     /\ p \in {"takeMonitor", "stopMonitor", "checkStop", "stop",
               "removeFiles", "deleteState", "replied"}

(* The client has not given up a request of the execution that the         *)
(* extension still works on.                                               *)
Followed(e) == "giveUp" \notin Faults \/ e \notin errored

(* Unless its client has given up a request, a handler that is not idle    *)
(* works on the request its client waits for, or the client has            *)
(* disappeared, and no other handler works for the same execution.         *)
Serving ==
  /\ \A h \in Handlers :
       pc[h] # "idle" /\ Followed(exec[h])
         => served[exec[h]] = h \/ step[exec[h]] = "vanished"
  /\ \A g, h \in Handlers :
       /\ pc[g] # "idle" /\ pc[h] # "idle"
       /\ exec[g] = exec[h] /\ Followed(exec[h])
       => g = h
  /\ \A e \in Execs :
       served[e] # NoHandler =>
         exec[served[e]] = e /\ InPhase(pc[served[e]], step[e])

-----------------------------------------------------------------------------
(* What a step does to the handlers and to what they share                  *)

(* What a thread that stops an execution has to roll back.                 *)
Owing == modified \ abandoned

HandlerKept(h) ==
  /\ pc'[h] = pc[h]
  /\ exec'[h] = exec[h]
  /\ arg'[h] = arg[h]
  /\ reply'[h] = reply[h]

(* A step in which no handler takes part.                                  *)
BackgroundStep ==
  \/ \E m \in Monitors : Silence(m) \/ Notify(m) \/ WatcherStep(m)
  \/ "signal" \in Faults /\ SignalArrives
  \/ SignalStep
  \/ UNCHANGED vars

(* It only takes away what the SDK keeps for an execution.                 *)
OnlyForgets ==
  /\ \A e \in Execs : states'[e] \in {states[e], NoState}
  /\ \A e \in Execs :
       heartbeatMonitors'[e] \in {heartbeatMonitors[e], NoMonitor}
  /\ modified' \subseteq modified
  /\ files' = files
  /\ produced' = produced

LEMMA StopActionForgets ==
  ASSUME TypeOK, NEW t \in Stoppers, StopAction(t)
  PROVE  OnlyForgets /\ \A h \in Handlers : HandlerKept(h)
<1>. USE ThreadsAssumption
     DEF TypeOK, LocalTypeOK, SharedTypeOK, At, Goto, OnlyForgets, HandlerKept,
         Stoppers, locals, shared, world
<1>1. CASE GetState(t) \/ MarkAsStopped(t) \/ RollbackSucceeds(t)
           \/ RollbackReportsFailure(t) \/ RollbackFails(t)
  BY <1>1
  DEF GetState, MarkAsStopped, RollbackSucceeds, RollbackReportsFailure,
      RollbackFails
<1>2. CASE TakeMonitor(t) \/ StopMonitor(t) \/ DeleteState(t)
  BY <1>2 DEF TakeMonitor, StopMonitor, StopHeld, DeleteState
<1>. QED
  BY <1>1, <1>2 DEF StopAction

LEMMA BackgroundForgets ==
  ASSUME TypeOK, BackgroundStep
  PROVE  OnlyForgets /\ \A h \in Handlers : HandlerKept(h)
<1>. USE ThreadsAssumption
     DEF TypeOK, LocalTypeOK, SharedTypeOK, At, Goto, OnlyForgets, HandlerKept,
         locals, shared, world
<1>1. ASSUME NEW m \in Monitors,
             \/ Silence(m) \/ Notify(m)
             \/ HeartbeatTimeout(m) \/ WatcherEnds(m)
      PROVE  OnlyForgets /\ \A h \in Handlers : HandlerKept(h)
  BY <1>1 DEF Silence, Notify, HeartbeatTimeout, WatcherEnds
<1>2. CASE SignalArrives \/ StopNext \/ AllStopped
  BY <1>2 DEF SignalArrives, StopNext, AllStopped
<1>3. CASE UNCHANGED vars
  BY <1>3 DEF vars
<1>. QED
  BY <1>1, <1>2, <1>3, StopActionForgets
  DEF BackgroundStep, WatcherStep, SignalStep, Stoppers

(* A step of handler h touches its own execution only.                     *)
OthersKept(h) ==
  /\ \A g \in Handlers \ {h} : HandlerKept(g)
  /\ exec'[h] = exec[h]
  /\ \A e \in Execs \ {exec[h]} :
       /\ states'[e] = states[e]
       /\ heartbeatMonitors'[e] = heartbeatMonitors[e]
       /\ e \in modified' <=> e \in modified
       /\ e \in Owing' <=> e \in Owing
       /\ e \in files' <=> e \in files
       /\ produced'[e] = produced[e]

LEMMA HandlerStepOthersKept ==
  ASSUME TypeOK, NEW h \in Handlers, HandlerStep(h) PROVE OthersKept(h)
<1>. USE ThreadsAssumption
     DEF TypeOK, LocalTypeOK, SharedTypeOK, WorldTypeOK, At, Goto, Answer,
         OthersKept, HandlerKept, Owing, locals, shared, world
<1>1. CASE HandleFiles(h) \/ CallPrepare(h) \/ CallStart(h) \/ CallStatus(h)
  BY <1>1 DEF HandleFiles, CallPrepare, CallStart, CallStatus, Produce
<1>2. CASE PersistPrepared(h) \/ PersistStarted(h) \/ PersistStatus(h)
  BY <1>2 DEF PersistPrepared, PersistStarted, PersistStatus, PersistState
<1>3. CASE StopPrevious(h) \/ FindMonitor(h) \/ RecordHeartbeat(h)
           \/ CheckStatus(h)
  BY <1>3 DEF StopPrevious, StopHeld, FindMonitor, RecordHeartbeat, CheckStatus
<1>4. CASE TakeMonitor(h) \/ StopMonitor(h) \/ CheckStop(h) \/ DeleteState(h)
  BY <1>4 DEF TakeMonitor, StopMonitor, StopHeld, CheckStop, DeleteState
<1>5. CASE CallStop(h) \/ RemoveFiles(h)
  BY <1>5 DEF CallStop, RemoveFiles
<1>6. ASSUME NEW m \in Monitors, MonitorHeartbeat(h, m) PROVE OthersKept(h)
  BY <1>6 DEF MonitorHeartbeat
<1>. QED
  BY <1>1, <1>2, <1>3, <1>4, <1>5, <1>6 DEF HandlerStep

(* It goes on with the request it serves.                                  *)
LEMMA HandlerStepInPhase ==
  ASSUME TypeOK, NEW h \in Handlers, HandlerStep(h)
  PROVE  /\ pc[h] # "idle" /\ pc'[h] # "idle" /\ exec[h] \in Execs
         /\ \A s : InPhase(pc[h], s) => InPhase(pc'[h], s)
<1>. USE ThreadsAssumption
     DEF TypeOK, LocalTypeOK, ThreadTypeOK, Resting, At, Goto, Answer, InPhase
<1>1. CASE HandleFiles(h) \/ CallPrepare(h) \/ CallStart(h) \/ CallStatus(h)
  BY <1>1 DEF HandleFiles, CallPrepare, CallStart, CallStatus, Produce
<1>2. CASE PersistPrepared(h) \/ PersistStarted(h) \/ PersistStatus(h)
  BY <1>2 DEF PersistPrepared, PersistStarted, PersistStatus
<1>3. CASE StopPrevious(h) \/ FindMonitor(h) \/ RecordHeartbeat(h)
           \/ CheckStatus(h)
  BY <1>3 DEF StopPrevious, FindMonitor, RecordHeartbeat, CheckStatus
<1>4. CASE TakeMonitor(h) \/ StopMonitor(h) \/ CheckStop(h) \/ DeleteState(h)
  BY <1>4 DEF TakeMonitor, StopMonitor, CheckStop, DeleteState, AfterMonitor
<1>5. CASE CallStop(h) \/ RemoveFiles(h)
  BY <1>5 DEF CallStop, RemoveFiles
<1>6. ASSUME NEW m \in Monitors, MonitorHeartbeat(h, m)
      PROVE  /\ pc[h] = "monitorHeartbeat"
             /\ pc'[h] \in {"replied", "stopPrevious"}
  BY <1>6 DEF MonitorHeartbeat
<1>. QED
  BY <1>1, <1>2, <1>3, <1>4, <1>5, <1>6 DEF HandlerStep

(* The ways in which the lifecycle goes on.                                *)
ClientOnly(e) ==
  DurationElapsed(e) \/ EndWithoutStop(e) \/ GiveUp(e) \/ Vanish(e)

Sends(h, e) ==
  SendPrepare(h, e) \/ SendStart(h, e) \/ SendStatus(h, e) \/ SendStop(h, e)

LEMMA LifecycleCases ==
  ASSUME [LifecycleNext]_allVars
  PROVE  \/ \E h \in Handlers, e \in Execs : Sends(h, e)
         \/ \E h \in Handlers, e \in Execs : Receive(h, e)
         \/ \E e \in Execs : ClientOnly(e)
         \/ \E h \in Handlers : Drop(h)
         \/ \E h \in Handlers : HandlerStep(h) /\ UNCHANGED client
         \/ BackgroundStep /\ UNCHANGED client
         \/ ProcessRestarts
<1>1. CASE UNCHANGED allVars
  BY <1>1 DEF allVars, BackgroundStep
<1>2. CASE SdkStep
  BY <1>2 DEF SdkStep, BackgroundStep
<1>3. ASSUME NEW m \in Monitors, MissHeartbeats(m)
      PROVE  BackgroundStep /\ UNCHANGED client
  BY <1>3 DEF MissHeartbeats, BackgroundStep
<1>4. ASSUME NEW e \in Execs, ClientStep(e)
      PROVE  \/ ClientOnly(e)
             \/ \E h \in Handlers : Sends(h, e) \/ Receive(h, e)
  BY <1>4 DEF ClientStep, ClientOnly, Sends
<1>. QED
  BY <1>1, <1>2, <1>3, <1>4 DEF LifecycleNext

LEMMA SendsEffect ==
  ASSUME ClientTypeOK, NEW h \in Handlers, NEW e \in Execs, Sends(h, e)
  PROVE  /\ pc[h] = "idle"
         /\ \E p \in {"handleFiles", "start", "findMonitor",
                      "takeMonitor"},
               s \in Waiting :
              /\ pc'[h] = p
              /\ step' = [step EXCEPT ![e] = s]
              /\ \/ s = "preparing" /\ p = "handleFiles" /\ step[e] = "new"
                 \/ s = "starting" /\ p = "start" /\ step[e] = "prepared"
                 \/ /\ s = "observing" /\ p = "findMonitor"
                    /\ step[e] = "running"
                 \/ s = "stopping" /\ p = "takeMonitor" /\ step[e] = "ending"
         /\ exec'[h] = e
         /\ served' = [served EXCEPT ![e] = h]
         /\ \A g \in Handlers \ {h} : HandlerKept(g)
         /\ \A t \in Stoppers : pc'[t] = pc[t] /\ exec'[t] = exec[t]
         /\ UNCHANGED <<shared, held, reply, pending, world, known, errored>>
<1>. USE ThreadsAssumption
     DEF ClientTypeOK, TypeOK, LocalTypeOK, Send, Become, Request, At, Goto,
         HandlerKept, Waiting, Stoppers
<1>1. CASE SendPrepare(h, e)
  BY <1>1 DEF SendPrepare, PrepareRequest
<1>2. CASE SendStart(h, e)
  BY <1>2 DEF SendStart, StartRequest
<1>3. CASE SendStatus(h, e)
  BY <1>3 DEF SendStatus, StatusRequest
<1>4. CASE SendStop(h, e)
  BY <1>4 DEF SendStop, StopRequest
<1>. QED
  BY <1>1, <1>2, <1>3, <1>4 DEF Sends

(* A handler that ends, whether its client receives the answer or not.     *)
LEMMA DeliverEffect ==
  ASSUME TypeOK, NEW h \in Handlers, Deliver(h)
  PROVE  /\ pc[h] = "replied" /\ pc'[h] = "idle"
         /\ \A g \in Handlers \ {h} : HandlerKept(g)
         /\ \A t \in Stoppers : pc'[t] = pc[t] /\ exec'[t] = exec[t]
         /\ UNCHANGED <<shared, held, pending, world>>
BY ThreadsAssumption
DEF Deliver, TypeOK, LocalTypeOK, At, Goto, HandlerKept, Stoppers

LEMMA ClientOnlyEffect ==
  ASSUME ClientTypeOK, NEW e \in Execs, ClientOnly(e)
  PROVE  /\ UNCHANGED <<vars, known, warned>>
         /\ step[e] \notin Ended
         /\ \E s \in {"ending", "done", "vanished"} :
              /\ step' = [step EXCEPT ![e] = s]
              /\ \/ s = "vanished" /\ step[e] \notin Ended
                 \/ step[e] \in {"running", "ending"} /\ e \notin Stoppable
                 \/ step[e] = "running" /\ s = "ending"
                 \/ /\ step[e] \in Waiting
                    /\ served[e] = NoHandler \/ "giveUp" \in Faults
                    /\ e \in errored'
         /\ errored \subseteq errored' /\ errored' \subseteq errored \cup {e}
         /\ \/ served' = served /\ step[e] \notin Waiting
            \/ served' = [served EXCEPT ![e] = NoHandler]
<1>1. CASE DurationElapsed(e)
  BY <1>1 DEF DurationElapsed, Become, Waiting, Ended
<1>2. CASE EndWithoutStop(e)
  BY <1>2 DEF EndWithoutStop, Become, Waiting, Ended
<1>3. CASE GiveUp(e)
  <2>1. AfterAnswer(step[e], "error") \in {"ending", "done"}
    BY <1>3 DEF GiveUp, AfterAnswer, Waiting
  <2>. QED
    BY <1>3, <2>1 DEF GiveUp, Become, Waiting, Ended
<1>4. CASE Vanish(e)
  BY <1>4 DEF Vanish, Become
<1>. QED
  BY <1>1, <1>2, <1>3, <1>4 DEF ClientOnly

(* The client forgets no error.                                            *)
LEMMA ErroredGrows ==
  ASSUME ClientTypeOK, [LifecycleNext]_allVars
  PROVE  errored \subseteq errored'
<1>1. ASSUME NEW h \in Handlers, NEW e \in Execs, Sends(h, e)
      PROVE  errored' = errored
  BY <1>1, SendsEffect
<1>2. ASSUME NEW h \in Handlers, NEW e \in Execs, Receive(h, e)
      PROVE  errored \subseteq errored'
  BY <1>2 DEF Receive
<1>3. ASSUME NEW e \in Execs, ClientOnly(e) PROVE errored \subseteq errored'
  BY <1>3, ClientOnlyEffect
<1>4. CASE ProcessRestarts
  BY <1>4 DEF ProcessRestarts
<1>. QED
  BY <1>1, <1>2, <1>3, <1>4, LifecycleCases DEF Drop, client

-----------------------------------------------------------------------------
(* Serving is an invariant                                                  *)

LEMMA InitServing == LifecycleInit => Serving
BY ThreadsAssumption
DEF LifecycleInit, Init, FreshPC, NoneFor, Serving

LEMMA NextServing ==
  ASSUME ClientTypeOK, Serving, [LifecycleNext]_allVars
  PROVE  Serving'
<1>0. \A e : Followed(e)' => Followed(e)
  BY ErroredGrows DEF Followed
<1>1. /\ step \in [Execs -> Step]
      /\ served \in [Execs -> Handlers \cup {NoHandler}]
      /\ pc \in [Threads -> PC] /\ exec \in [Threads -> Execs \cup {NoExec}]
      /\ \A h \in Handlers : pc[h] # "idle" => exec[h] \in Execs
  <2>1. \A h \in Handlers : pc[h] # "idle" => exec[h] \in Execs
    BY ThreadsAssumption
    DEF ClientTypeOK, TypeOK, ThreadTypeOK, PCOf, Resting, HandlerPC
  <2>. QED
    BY <2>1 DEF ClientTypeOK, TypeOK, LocalTypeOK
<1>. USE NoHandlerAssumption, ExecsAssumption
<1>2. ASSUME NEW h \in Handlers, NEW e \in Execs, Sends(h, e) PROVE Serving'
  <2>1. /\ pc[h] = "idle"
        /\ pc'[h] # "idle" /\ exec'[h] = e
        /\ step[e] \notin Waiting \cup Ended
        /\ InPhase(pc'[h], step'[e])
        /\ \A d \in Execs \ {e} : step'[d] = step[d]
        /\ served' = [served EXCEPT ![e] = h]
        /\ \A g \in Handlers \ {h} : pc'[g] = pc[g] /\ exec'[g] = exec[g]
    <3>1. PICK p \in {"handleFiles", "start", "findMonitor",
                      "takeMonitor"}, s \in Waiting :
               /\ pc'[h] = p
               /\ step' = [step EXCEPT ![e] = s]
               /\ InPhase(p, s) /\ p # "idle"
               /\ step[e] \notin Waiting \cup Ended
      BY <1>2, SendsEffect DEF InPhase, Waiting, Ended
    <3>2. /\ pc[h] = "idle" /\ exec'[h] = e
          /\ served' = [served EXCEPT ![e] = h]
          /\ \A g \in Handlers \ {h} : HandlerKept(g)
      BY <1>2, SendsEffect
    <3>. QED
      BY <1>1, <3>1, <3>2 DEF HandlerKept
  <2>2. \A g \in Handlers : pc[g] # "idle" /\ Followed(e) => exec[g] # e
    BY <2>1 DEF Serving, InPhase, Waiting, Ended
  <2>3. \A d \in Execs : served[d] # h
    BY <2>1 DEF Serving, InPhase
  <2>. QED
    BY <1>0, <1>1, <2>1, <2>2, <2>3 DEF Serving
<1>3. ASSUME NEW h \in Handlers, Deliver(h),
             \/ /\ \A e \in Execs : served[e] # h
                /\ UNCHANGED <<step, served>>
             \/ \E e \in Execs, s \in Step :
                  /\ served[e] = h
                  /\ step' = [step EXCEPT ![e] = s]
                  /\ served' = [served EXCEPT ![e] = NoHandler]
      PROVE  Serving'
  <2>1. /\ pc[h] = "replied" /\ pc'[h] = "idle"
        /\ \A g \in Handlers \ {h} : pc'[g] = pc[g] /\ exec'[g] = exec[g]
    BY <1>1, <1>3, DeliverEffect DEF ClientTypeOK, HandlerKept
  <2>. QED
    BY <1>0, <1>1, <1>3, <2>1 DEF Serving
<1>4. ASSUME NEW h \in Handlers, NEW e \in Execs, Receive(h, e)
      PROVE  Serving'
  <2>1. AfterAnswer(step[e], reply[h]) \in Step
    BY <1>4 DEF Receive, AfterAnswer, Waiting, Step, Ended
  <2>. QED
    BY <1>3, <1>4, <2>1 DEF Receive, Become
<1>5. ASSUME NEW h \in Handlers, Drop(h) PROVE Serving'
  BY <1>3, <1>5 DEF Drop, client
<1>6. ASSUME NEW e \in Execs, ClientOnly(e) PROVE Serving'
  <2>0. step[e] \notin Waiting => served[e] = NoHandler
    BY DEF Serving, InPhase, Waiting
  <2>1. /\ UNCHANGED <<pc, exec>>
        /\ \E s \in {"ending", "done", "vanished"} :
             step' = [step EXCEPT ![e] = s]
        /\ \/ served' = served /\ step[e] \notin Waiting
           \/ served' = [served EXCEPT ![e] = NoHandler]
        /\ served[e] = NoHandler \/ step'[e] = "vanished" \/ ~Followed(e)'
        /\ step[e] \notin Ended
    <3>1. PICK s \in {"ending", "done", "vanished"} :
               /\ step' = [step EXCEPT ![e] = s]
               /\ \/ s = "vanished"
                  \/ step[e] \in {"running", "ending"}
                  \/ served[e] = NoHandler
                  \/ "giveUp" \in Faults /\ e \in errored'
      BY <1>6, ClientOnlyEffect
    <3>2. /\ UNCHANGED <<pc, exec>> /\ step[e] \notin Ended
          /\ \/ served' = served /\ step[e] \notin Waiting
             \/ served' = [served EXCEPT ![e] = NoHandler]
      BY <1>6, ClientOnlyEffect DEF vars, locals
    <3>3. served[e] = NoHandler \/ step'[e] = "vanished" \/ ~Followed(e)'
      BY <1>1, <2>0, <3>1 DEF Waiting, Followed
    <3>. QED
      BY <3>1, <3>2, <3>3
  <2>2. \A h \in Handlers : pc[h] # "idle" /\ exec[h] = e /\ Followed(e) =>
          served[e] = h \/ step[e] = "vanished"
    BY DEF Serving
  <2>3. \A d \in Execs \ {e} : step'[d] = step[d] /\ served'[d] = served[d]
    BY <1>1, <2>1
  <2>4. served'[e] # NoHandler =>
          served'[e] = served[e] /\ step[e] \notin Waiting
    BY <1>1, <2>1
  <2>5. served'[e] = NoHandler
    BY <1>1, <2>4 DEF Serving, InPhase, Waiting
  <2>6. \A h \in Handlers : pc[h] # "idle" /\ exec[h] = e =>
          step'[e] = "vanished" \/ ~Followed(e)'
    BY <1>0, <1>1, <2>1, <2>2, <2>3 DEF Ended
  <2>. QED
    BY <1>0, <1>1, <2>1, <2>3, <2>5, <2>6 DEF Serving
<1>7. ASSUME NEW h \in Handlers, HandlerStep(h), UNCHANGED client
      PROVE  Serving'
  <2>1. OthersKept(h) /\ UNCHANGED <<step, served>>
    BY <1>7, HandlerStepOthersKept DEF client, ClientTypeOK
  <2>2. /\ pc[h] # "idle" /\ pc'[h] # "idle"
        /\ \A s : InPhase(pc[h], s) => InPhase(pc'[h], s)
    BY <1>7, HandlerStepInPhase DEF ClientTypeOK
  <2>. QED
    BY <1>0, <1>1, <2>1, <2>2 DEF Serving, OthersKept, HandlerKept
<1>8. CASE BackgroundStep /\ UNCHANGED client
  <2>1. \A h \in Handlers : pc'[h] = pc[h] /\ exec'[h] = exec[h]
    BY <1>8, BackgroundForgets DEF HandlerKept, ClientTypeOK
  <2>. QED
    BY <1>0, <1>1, <1>8, <2>1 DEF client, Serving
<1>9. CASE ProcessRestarts
  BY <1>9, ThreadsAssumption
  DEF ProcessRestarts, Restart, FreshPC, NoneFor, Serving
<1>. QED
  BY <1>2, <1>4, <1>5, <1>6, <1>7, <1>8, <1>9, LifecycleCases

-----------------------------------------------------------------------------
(* What is stored is the last state of the action                           *)

(* The state a handler is about to store is the last one of its execution. *)
HoldsLatest ==
  \A h \in Handlers :
    /\ pc[h] \in {"persistPrepared", "persistStarted", "persistStatus"}
    /\ exec[h] \in Encodable
    => arg[h] = produced[exec[h]]

(* Where a handler may still give the action a new state or store one.     *)
Persists == {"persistPrepared", "persistStarted", "persistStatus"}
Produces == Persists \cup {"handleFiles", "prepare", "start",
                           "findMonitor", "recordHeartbeat", "checkStatus",
                           "status"}

(* At most one handler of an execution does so, even if its client gives   *)
(* up requests: after that it asks for nothing but a stop.                 *)
OneProduces ==
  \A h \in Handlers :
    pc[h] \in Produces =>
      /\ \/ served[exec[h]] = h
         \/ step[exec[h]] \in {"ending", "stopping"} \cup Ended
      /\ \A g \in Handlers : pc[g] \in Produces /\ exec[g] = exec[h] => g = h

LatestInv ==
  ClientInv /\ Serving /\ OneProduces /\ HoldsLatest /\ PersistedIsLatest

LEMMA HandlerStepProduces ==
  ASSUME TypeOK, NEW h \in Handlers, HandlerStep(h), pc'[h] \in Produces
  PROVE  pc[h] \in Produces
<1>. USE ThreadsAssumption
     DEF TypeOK, LocalTypeOK, At, Goto, Answer, Produces, Persists
<1>1. CASE HandleFiles(h) \/ CallPrepare(h) \/ CallStart(h) \/ CallStatus(h)
           \/ PersistPrepared(h) \/ PersistStarted(h) \/ PersistStatus(h)
           \/ FindMonitor(h) \/ RecordHeartbeat(h) \/ CheckStatus(h)
  BY <1>1
  DEF HandleFiles, CallPrepare, CallStart, CallStatus, PersistPrepared,
      PersistStarted, PersistStatus, FindMonitor, RecordHeartbeat, CheckStatus
<1>2. CASE TakeMonitor(h) \/ StopMonitor(h) \/ CheckStop(h) \/ CallStop(h)
           \/ RemoveFiles(h) \/ DeleteState(h) \/ StopPrevious(h)
  BY <1>2
  DEF TakeMonitor, StopMonitor, CheckStop, CallStop, RemoveFiles, DeleteState,
      StopPrevious, AfterMonitor
<1>3. ASSUME NEW m \in Monitors, MonitorHeartbeat(h, m)
      PROVE  pc'[h] \in {"replied", "stopPrevious"}
  BY <1>3 DEF MonitorHeartbeat
<1>. QED
  BY <1>1, <1>2, <1>3 DEF HandlerStep

(* No handler begins to produce, and no client goes on with an execution   *)
(* that is not served.                                                     *)
LEMMA KeptProduces ==
  ASSUME OneProduces,
         \A g \in Handlers : pc'[g] \in Produces =>
           /\ pc[g] \in Produces /\ exec'[g] = exec[g]
           /\ \/ /\ served'[exec[g]] = served[exec[g]]
                 /\ step'[exec[g]] = step[exec[g]]
              \/ step'[exec[g]] \in {"ending", "stopping"} \cup Ended
  PROVE  OneProduces'
BY DEF OneProduces

LEMMA NextProduces ==
  ASSUME ClientTypeOK, Serving, OneProduces, [LifecycleNext]_allVars
  PROVE  OneProduces'
<1>1. /\ step \in [Execs -> Step]
      /\ served \in [Execs -> Handlers \cup {NoHandler}]
      /\ \A h \in Handlers : pc[h] \in Produces => exec[h] \in Execs
  <2>1. \A h \in Handlers : pc[h] \in Produces => exec[h] \in Execs
    BY ThreadsAssumption
    DEF ClientTypeOK, TypeOK, ThreadTypeOK, PCOf, Resting, HandlerPC, Produces,
        Persists
  <2>. QED
    BY <2>1 DEF ClientTypeOK
<1>. USE NoHandlerAssumption
<1>2. ASSUME NEW h \in Handlers, NEW e \in Execs, Sends(h, e)
      PROVE  OneProduces'
  <2>1. PICK p \in {"handleFiles", "start", "findMonitor", "takeMonitor"},
             s \in Waiting :
          /\ pc'[h] = p
          /\ step' = [step EXCEPT ![e] = s]
          /\ \/ step[e] \in {"new", "prepared", "running"}
             \/ p = "takeMonitor" /\ s = "stopping"
          /\ step[e] \notin Waiting
    BY <1>2, SendsEffect DEF Waiting
  <2>2. /\ \A g \in Handlers \ {h} : pc'[g] = pc[g] /\ exec'[g] = exec[g]
        /\ exec'[h] = e
        /\ served' = [served EXCEPT ![e] = h]
    BY <1>2, SendsEffect DEF HandlerKept
  <2>3. CASE step[e] \in {"new", "prepared", "running"}
    <3>1. served[e] = NoHandler
      BY <1>1, <2>1 DEF Serving, InPhase, Waiting
    <3>2. \A g \in Handlers : pc[g] \in Produces => exec[g] # e
      BY <2>3, <3>1 DEF OneProduces, Ended
    <3>. QED
      BY <1>1, <2>1, <2>2, <3>2 DEF OneProduces
  <2>4. CASE pc'[h] = "takeMonitor" /\ step'[e] = "stopping"
    <3>1. \A d \in Execs \ {e} : step'[d] = step[d] /\ served'[d] = served[d]
      BY <1>1, <2>1, <2>2
    <3>2. pc'[h] \notin Produces
      BY <2>4 DEF Produces, Persists
    <3>. QED
      BY <1>1, <2>2, <2>4, <3>1, <3>2, KeptProduces
  <2>. QED
    BY <1>1, <2>1, <2>3, <2>4
<1>3. ASSUME NEW h \in Handlers, Deliver(h),
             \/ UNCHANGED <<step, served>>
             \/ \E e \in Execs, s \in Step :
                  /\ served[e] = h /\ step[e] \in Waiting
                  /\ step' = [step EXCEPT ![e] = s]
                  /\ step[e] = "stopping" => s = "done"
                  /\ served' = [served EXCEPT ![e] = NoHandler]
      PROVE  OneProduces'
  <2>1. /\ pc'[h] \notin Produces
        /\ \A g \in Handlers \ {h} : pc'[g] = pc[g] /\ exec'[g] = exec[g]
    BY <1>3, DeliverEffect DEF ClientTypeOK, HandlerKept, Produces, Persists
  <2>2. CASE UNCHANGED <<step, served>>
    BY <2>1, <2>2, KeptProduces
  <2>3. CASE ~UNCHANGED <<step, served>>
    <3>1. PICK e \in Execs, s \in Step :
            /\ served[e] = h /\ step[e] \in Waiting
            /\ step' = [step EXCEPT ![e] = s]
            /\ step[e] = "stopping" => s = "done"
            /\ served' = [served EXCEPT ![e] = NoHandler]
      BY <1>3, <2>3
    <3>2. \A d \in Execs \ {e} : step'[d] = step[d] /\ served'[d] = served[d]
      BY <1>1, <3>1
    <3>3. \A g \in Handlers \ {h} :
            pc[g] \in Produces /\ exec[g] = e => step'[e] \in Ended
      BY <1>1, <3>1 DEF OneProduces, Waiting, Ended
    <3>. QED
      BY <1>1, <2>1, <3>2, <3>3, KeptProduces
  <2>. QED
    BY <2>2, <2>3
<1>4. ASSUME NEW h \in Handlers, NEW e \in Execs, Receive(h, e)
      PROVE  OneProduces'
  <2>1. /\ AfterAnswer(step[e], reply[h]) \in Step
        /\ step[e] = "stopping" => AfterAnswer(step[e], reply[h]) = "done"
    BY <1>4 DEF Receive, AfterAnswer, Waiting, Step, Ended
  <2>. QED
    BY <1>3, <1>4, <2>1 DEF Receive, Become
<1>5. ASSUME NEW h \in Handlers, Drop(h) PROVE OneProduces'
  BY <1>3, <1>5 DEF Drop, client
<1>6. ASSUME NEW e \in Execs, ClientOnly(e) PROVE OneProduces'
  <2>1. PICK s \in {"ending", "done", "vanished"} :
             step' = [step EXCEPT ![e] = s]
    BY <1>6, ClientOnlyEffect
  <2>2. /\ UNCHANGED <<pc, exec>>
        /\ served' = served \/ served' = [served EXCEPT ![e] = NoHandler]
    BY <1>6, ClientOnlyEffect DEF vars, locals
  <2>3. \A d \in Execs : \/ step'[d] = step[d] /\ served'[d] = served[d]
                         \/ step'[d] \in {"ending", "stopping"} \cup Ended
    BY <1>1, <2>1, <2>2 DEF Ended
  <2>. QED
    BY <1>1, <2>2, <2>3, KeptProduces
<1>7. ASSUME NEW h \in Handlers, HandlerStep(h), UNCHANGED client
      PROVE  OneProduces'
  <2>1. /\ UNCHANGED <<step, served>> /\ exec'[h] = exec[h]
        /\ \A g \in Handlers \ {h} : pc'[g] = pc[g] /\ exec'[g] = exec[g]
        /\ pc'[h] \in Produces => pc[h] \in Produces
    BY <1>7, HandlerStepOthersKept, HandlerStepProduces
    DEF client, ClientTypeOK, OthersKept, HandlerKept
  <2>. QED
    BY <2>1, KeptProduces
<1>8. CASE BackgroundStep /\ UNCHANGED client
  <2>1. /\ UNCHANGED <<step, served>>
        /\ \A h \in Handlers : pc'[h] = pc[h] /\ exec'[h] = exec[h]
    BY <1>8, BackgroundForgets DEF HandlerKept, ClientTypeOK, client
  <2>. QED
    BY <2>1, KeptProduces
<1>9. CASE ProcessRestarts
  BY <1>9, ThreadsAssumption
  DEF ProcessRestarts, Restart, FreshPC, OneProduces, Produces, Persists
<1>. QED
  BY <1>2, <1>4, <1>5, <1>6, <1>7, <1>8, <1>9, LifecycleCases

(* The other executions are not concerned by a step of handler h.          *)
LEMMA OthersLatest ==
  ASSUME OneProduces, HoldsLatest, PersistedIsLatest,
         NEW h \in Handlers, pc[h] \in Produces, exec[h] \in Execs,
         OthersKept(h),
         pc'[h] \in Persists /\ exec[h] \in Encodable
           => arg'[h] = produced'[exec[h]],
         exec[h] \in Encodable \cap Stoppable
           => \/ states'[exec[h]] \in {NoState, produced'[exec[h]]}
              \/ pc'[h] \in Persists
  PROVE  HoldsLatest' /\ PersistedIsLatest'
<1>. USE ExecsAssumption DEF OthersKept, HandlerKept, Persists
<1>1. HoldsLatest'
  <2>. SUFFICES ASSUME NEW g \in Handlers, g # h, pc[g] \in Persists,
                       exec[g] \in Encodable
                PROVE  arg[g] = produced'[exec[g]]
    BY DEF HoldsLatest
  <2>1. exec[g] # exec[h]
    BY DEF OneProduces, Produces
  <2>. QED
    BY <2>1 DEF HoldsLatest
<1>2. ASSUME NEW e \in Stoppable \cap Encodable
      PROVE  states'[e] \in {NoState, produced'[e]} \/ Persisting(e)'
  <2>1. CASE e = exec[h]
    BY <2>1 DEF Persisting
  <2>2. CASE e # exec[h]
    BY <2>2 DEF PersistedIsLatest, Persisting
  <2>. QED
    BY <2>1, <2>2
<1>. QED
  BY <1>1, <1>2 DEF PersistedIsLatest

(* Nobody's stored state or state to be stored changes.                    *)
LEMMA KeptLatest ==
  ASSUME HoldsLatest, PersistedIsLatest,
         \A e \in Execs : states'[e] \in {states[e], NoState},
         \A e \in Execs : produced'[e] = produced[e],
         \A g \in Handlers :
           HandlerKept(g) \/ (pc[g] \notin Persists /\ pc'[g] \notin Persists)
  PROVE  HoldsLatest' /\ PersistedIsLatest'
<1>. USE ExecsAssumption DEF Persists
<1>1. HoldsLatest'
  BY DEF HoldsLatest, HandlerKept
<1>2. ASSUME NEW e \in Stoppable \cap Encodable
      PROVE  states'[e] \in {NoState, produced'[e]} \/ Persisting(e)'
  BY <1>2 DEF PersistedIsLatest, Persisting, HandlerKept
<1>. QED
  BY <1>1, <1>2 DEF PersistedIsLatest

LEMMA HandlerStepLatest ==
  ASSUME ClientTypeOK, OneProduces, HoldsLatest, PersistedIsLatest,
         NEW h \in Handlers, HandlerStep(h)
  PROVE  HoldsLatest' /\ PersistedIsLatest'
<1>1. OthersKept(h) /\ exec[h] \in Execs
  BY HandlerStepOthersKept, HandlerStepInPhase DEF ClientTypeOK
<1>2. exec[h] \in Encodable /\ pc[h] \in Persists => arg[h] = produced[exec[h]]
  BY DEF HoldsLatest, Persists
<1>3. /\ exec[h] \in Encodable \cap Stoppable
      /\ pc[h] \in Produces /\ pc[h] \notin Persists
      => states[exec[h]] \in {NoState, produced[exec[h]]}
  <2>. SUFFICES ASSUME exec[h] \in Encodable \cap Stoppable,
                       pc[h] \in Produces, Persisting(exec[h])
                PROVE  pc[h] \in Persists
    BY DEF PersistedIsLatest
  <2>. QED
    BY DEF Persisting, OneProduces, Produces, Persists
<1>. DEFINE Settled ==
       /\ pc'[h] \in Persists /\ exec[h] \in Encodable
            => arg'[h] = produced'[exec[h]]
       /\ exec[h] \in Encodable \cap Stoppable
            => \/ states'[exec[h]] \in {NoState, produced'[exec[h]]}
               \/ pc'[h] \in Persists
<1>. DEFINE Done ==
       /\ pc[h] \notin Persists /\ pc'[h] \notin Persists
       /\ states'[exec[h]] \in {states[exec[h]], NoState}
       /\ produced'[exec[h]] = produced[exec[h]]
<1>4. ASSUME pc[h] \in Produces, Settled
      PROVE  HoldsLatest' /\ PersistedIsLatest'
  BY <1>1, <1>4, OthersLatest
<1>5. ASSUME Done PROVE HoldsLatest' /\ PersistedIsLatest'
  <2>1. \A e \in Execs : states'[e] \in {states[e], NoState}
    BY <1>1, <1>5 DEF OthersKept
  <2>2. \A e \in Execs : produced'[e] = produced[e]
    BY <1>1, <1>5 DEF OthersKept
  <2>3. \A g \in Handlers :
          HandlerKept(g) \/ (pc[g] \notin Persists /\ pc'[g] \notin Persists)
    BY <1>1, <1>5 DEF OthersKept
  <2>. QED
    BY <2>1, <2>2, <2>3, KeptLatest
<1>. USE ThreadsAssumption
     DEF ClientTypeOK, TypeOK, LocalTypeOK, SharedTypeOK, WorldTypeOK, At, Goto,
         Answer, locals, shared, world, Produces, Persists
<1>6. CASE CallPrepare(h) \/ CallStart(h) \/ CallStatus(h)
  <2>1. pc[h] \in Produces /\ Settled
    BY <1>1, <1>3, <1>6 DEF CallPrepare, CallStart, CallStatus, Produce
  <2>. QED
    BY <1>4, <2>1
<1>7. CASE PersistPrepared(h) \/ PersistStarted(h) \/ PersistStatus(h)
  <2>1. pc[h] \in Produces /\ Settled
    BY <1>1, <1>2, <1>7
    DEF PersistPrepared, PersistStarted, PersistStatus, PersistState
  <2>. QED
    BY <1>4, <2>1
<1>8. CASE HandleFiles(h) \/ StopPrevious(h) \/ FindMonitor(h)
           \/ RecordHeartbeat(h) \/ CheckStatus(h)
  <2>1. Done
    BY <1>1, <1>8
    DEF HandleFiles, StopPrevious, StopHeld, FindMonitor, RecordHeartbeat,
        CheckStatus
  <2>. QED
    BY <1>5, <2>1
<1>9. CASE TakeMonitor(h) \/ StopMonitor(h) \/ CheckStop(h) \/ CallStop(h)
           \/ RemoveFiles(h) \/ DeleteState(h)
  <2>1. Done
    BY <1>1, <1>9
    DEF TakeMonitor, StopMonitor, StopHeld, CheckStop, CallStop, RemoveFiles,
        DeleteState, AfterMonitor
  <2>. QED
    BY <1>5, <2>1
<1>10. ASSUME NEW m \in Monitors, MonitorHeartbeat(h, m) PROVE Done
  BY <1>1, <1>10 DEF MonitorHeartbeat
<1>. QED
  BY <1>5, <1>6, <1>7, <1>8, <1>9, <1>10 DEF HandlerStep

LEMMA NextLatest ==
  ASSUME ClientTypeOK, OneProduces, HoldsLatest, PersistedIsLatest,
         [LifecycleNext]_allVars
  PROVE  HoldsLatest' /\ PersistedIsLatest'
<1>1. ASSUME NEW h \in Handlers, NEW e \in Execs, Sends(h, e)
      PROVE  HoldsLatest' /\ PersistedIsLatest'
  <2>1. /\ pc[h] \notin Persists /\ pc'[h] \notin Persists
        /\ \A g \in Handlers \ {h} : HandlerKept(g)
        /\ UNCHANGED <<states, produced>>
    BY <1>1, SendsEffect DEF shared, world, Persists
  <2>. QED
    BY <2>1, KeptLatest
<1>2. ASSUME NEW h \in Handlers, Deliver(h)
      PROVE  HoldsLatest' /\ PersistedIsLatest'
  <2>1. /\ pc[h] \notin Persists /\ pc'[h] \notin Persists
        /\ \A g \in Handlers \ {h} : HandlerKept(g)
        /\ UNCHANGED <<states, produced>>
    BY <1>2, DeliverEffect DEF shared, world, ClientTypeOK, Persists
  <2>. QED
    BY <2>1, KeptLatest
<1>3. ASSUME NEW e \in Execs, ClientOnly(e)
      PROVE  HoldsLatest' /\ PersistedIsLatest'
  <2>1. UNCHANGED vars
    BY <1>3, ClientOnlyEffect
  <2>2. /\ UNCHANGED <<states, produced>>
        /\ \A g \in Handlers : HandlerKept(g)
    BY <2>1 DEF vars, shared, locals, world, HandlerKept
  <2>. QED
    BY <2>2, KeptLatest
<1>4. CASE BackgroundStep /\ UNCHANGED client
  <2>1. OnlyForgets /\ \A h \in Handlers : HandlerKept(h)
    BY <1>4, BackgroundForgets DEF ClientTypeOK
  <2>. QED
    BY <2>1, KeptLatest DEF OnlyForgets
<1>5. CASE ProcessRestarts
  <2>1. /\ \A e \in Execs : states'[e] = NoState
        /\ \A h \in Handlers : pc'[h] = "idle"
    BY <1>5, ThreadsAssumption DEF ProcessRestarts, Restart, FreshPC, NoneFor
  <2>. QED
    BY <2>1, ExecsAssumption DEF HoldsLatest, PersistedIsLatest
<1>. QED
  BY <1>1, <1>2, <1>3, <1>4, <1>5, LifecycleCases, HandlerStepLatest
  DEF Receive, Drop

(* The state that is stored for an execution is the last one the action's  *)
(* code left, also after a prepare, start or status that failed and while  *)
(* a stop overtakes a request the client has given up, unless the state    *)
(* cannot be encoded (handlePrepare, handleStart, handleStatus).           *)
THEOREM PersistedStateIsLatest == LifecycleSpec => []PersistedIsLatest
<1>1. LifecycleInit => LatestInv
  <2>. SUFFICES ASSUME LifecycleInit PROVE LatestInv
    OBVIOUS
  <2>1. ClientInv /\ Serving
    BY InitClientInv, InitServing
  <2>2. OneProduces /\ HoldsLatest /\ PersistedIsLatest
    BY ThreadsAssumption, ExecsAssumption
    DEF LifecycleInit, Init, FreshPC, NoneFor, OneProduces, Produces, Persists,
        HoldsLatest, PersistedIsLatest
  <2>. QED
    BY <2>1, <2>2 DEF LatestInv
<1>2. LatestInv /\ [LifecycleNext]_allVars => LatestInv'
  BY NextClientInv, NextServing, NextProduces, NextLatest
  DEF LatestInv, ClientInv
<1>3. LatestInv => PersistedIsLatest
  BY DEF LatestInv
<1>. QED
  BY <1>1, <1>2, <1>3, PTL DEF LifecycleSpec

-----------------------------------------------------------------------------
(* A stop without an error leaves nothing behind                            *)

(* What handleStop has taken away so far, and what it answers.             *)
Clean(e) ==
  /\ e \notin modified
  /\ states[e] = NoState
  /\ heartbeatMonitors[e] = NoMonitor
  /\ e \notin files

(* How far handler h has come; the last part is about the answers that the *)
(* client does not take for an error.                                      *)
StopProgress(h) ==
  /\ pc[h] \in {"stopMonitor", "checkStop", "stop", "removeFiles",
                "deleteState"}
       => heartbeatMonitors[exec[h]] = NoMonitor
  /\ pc[h] \in {"removeFiles", "deleteState"} =>
       reply[h] = "failed" \/ (reply[h] = "ok" /\ exec[h] \notin modified)
  /\ pc[h] = "deleteState" => exec[h] \notin files
  /\ pc[h] = "persistPrepared" => reply[h] # "completed"
  /\ pc[h] = "replied" /\ reply[h] \in {"ok", "completed"} =>
       /\ step[exec[h]] = "stopping" => Clean(exec[h])
       /\ step[exec[h]] = "preparing" => reply[h] # "completed"

StopsCleanly ==
  /\ CleanStop
  /\ \A h \in Handlers : exec[h] \notin errored => StopProgress(h)

StopInv == ClientInv /\ Serving /\ StopsCleanly

(* A handler works on what its client waits for.                           *)
LEMMA ServesItsPhase ==
  ASSUME Serving, NEW h \in Handlers, pc[h] # "idle", exec[h] \in Execs,
         step[exec[h]] # "vanished", Followed(exec[h])
  PROVE  InPhase(pc[h], step[exec[h]])
BY NoHandlerAssumption DEF Serving

LEMMA OthersStop ==
  ASSUME ClientTypeOK, Serving, StopsCleanly, NEW h \in Handlers,
         pc[h] # "idle", exec[h] \in Execs, OthersKept(h), UNCHANGED client,
         exec[h] \notin errored => StopProgress(h)'
  PROVE  StopsCleanly'
<1>. USE ExecsAssumption DEF OthersKept, HandlerKept, client
<1>1. \A g \in Handlers : pc[g] # "idle" => exec[g] \in Execs
  BY ThreadsAssumption
  DEF ClientTypeOK, TypeOK, ThreadTypeOK, PCOf, Resting, HandlerPC
<1>2. ASSUME NEW g \in Handlers, g # h, exec[g] \notin errored
      PROVE  StopProgress(g)'
  <2>1. CASE pc[g] = "idle"
    BY <1>2, <2>1 DEF StopProgress
  <2>2. CASE pc[g] # "idle"
    <3>1. exec[g] # exec[h] /\ exec[g] \in Execs
      BY <1>1, <1>2, <2>2 DEF Serving, Followed
    <3>. QED
      BY <1>2, <3>1 DEF StopsCleanly, StopProgress, Clean
  <2>. QED
    BY <2>1, <2>2
<1>3. ASSUME NEW e \in Stoppable, step[e] = "done", e \notin errored
      PROVE  Clean(e)'
  <2>1. exec[h] # e
    BY <1>3, ServesItsPhase DEF InPhase, Followed
  <2>. QED
    BY <1>3, <2>1 DEF StopsCleanly, CleanStop, Clean
<1>. QED
  BY <1>2, <1>3 DEF StopsCleanly, CleanStop, Clean

LEMMA HandlerStepStops ==
  ASSUME ClientTypeOK, Serving, StopsCleanly, NEW h \in Handlers,
         HandlerStep(h), UNCHANGED client
  PROVE  StopsCleanly'
<1>1. /\ OthersKept(h) /\ pc[h] # "idle" /\ exec[h] \in Execs
  BY HandlerStepOthersKept, HandlerStepInPhase DEF ClientTypeOK
<1>. SUFFICES ASSUME exec[h] \notin errored PROVE StopProgress(h)'
  BY <1>1, OthersStop
<1>2. step[exec[h]] # "vanished" => InPhase(pc[h], step[exec[h]])
  BY <1>1, ServesItsPhase DEF Followed
<1>3. StopProgress(h)
  BY DEF StopsCleanly
<1>. USE <1>1, <1>2, <1>3, ThreadsAssumption
     DEF ClientTypeOK, TypeOK, LocalTypeOK, SharedTypeOK, WorldTypeOK, At, Goto,
         Answer, locals, shared, world, client, StopProgress, OthersKept
<1>4. CASE HandleFiles(h) \/ CallPrepare(h) \/ CallStart(h) \/ CallStatus(h)
  BY <1>4 DEF HandleFiles, CallPrepare, CallStart, CallStatus, Produce, Outcomes
<1>5. CASE PersistPrepared(h) \/ PersistStarted(h) \/ PersistStatus(h)
  BY <1>5 DEF PersistPrepared, PersistStarted, PersistStatus, InPhase
<1>6. CASE StopPrevious(h) \/ FindMonitor(h) \/ RecordHeartbeat(h)
           \/ CheckStatus(h)
  BY <1>6 DEF StopPrevious, FindMonitor, RecordHeartbeat, CheckStatus, InPhase
<1>7. CASE TakeMonitor(h) \/ StopMonitor(h) \/ CheckStop(h)
  BY <1>7 DEF TakeMonitor, StopMonitor, StopHeld, CheckStop, AfterMonitor
<1>8. CASE CallStop(h) \/ RemoveFiles(h)
  BY <1>8 DEF CallStop, RemoveFiles
<1>9. CASE DeleteState(h)
  BY <1>9 DEF DeleteState, Clean
<1>10. ASSUME NEW m \in Monitors, MonitorHeartbeat(h, m)
       PROVE  StopProgress(h)'
  BY <1>10 DEF MonitorHeartbeat, InPhase
<1>. QED
  BY <1>4, <1>5, <1>6, <1>7, <1>8, <1>9, <1>10 DEF HandlerStep

(* Nothing is left behind that was not there, and no handler goes on.      *)
LEMMA KeptStops ==
  ASSUME ClientTypeOK, StopsCleanly, OnlyForgets, errored \subseteq errored',
         \A g \in Handlers :
           HandlerKept(g) \/ pc'[g] \in {"idle", "handleFiles", "start",
                                         "findMonitor", "takeMonitor"},
         \A g \in Handlers :
           pc'[g] = "replied" /\ exec[g] \notin errored' =>
             \/ step'[exec[g]] = step[exec[g]]
             \/ step'[exec[g]] \notin {"preparing", "stopping"},
         \A e \in Stoppable : step'[e] = "done" /\ e \notin errored' =>
           Clean(e) \/ (step[e] = "done" /\ e \notin errored)
  PROVE  StopsCleanly'
<1>. USE ExecsAssumption DEF OnlyForgets
<1>1. \A e \in Execs : Clean(e) => Clean(e)'
  BY DEF Clean
<1>2. CleanStop'
  BY <1>1 DEF StopsCleanly, CleanStop, Clean
<1>3. ASSUME NEW g \in Handlers, exec'[g] \notin errored'
      PROVE  StopProgress(g)'
  <2>1. CASE pc'[g] \in {"idle", "handleFiles", "start", "findMonitor",
                         "takeMonitor"}
    BY <2>1 DEF StopProgress
  <2>2. CASE HandlerKept(g) /\ pc[g] # "idle"
    <3>1. exec[g] \in Execs
      BY <2>2, ThreadsAssumption
      DEF ClientTypeOK, TypeOK, ThreadTypeOK, PCOf, Resting, HandlerPC
    <3>2. exec'[g] = exec[g] /\ StopProgress(g)
      BY <1>3, <2>2 DEF StopsCleanly, HandlerKept
    <3>. QED
      BY <1>1, <1>3, <2>2, <3>1, <3>2 DEF StopProgress, HandlerKept
  <2>. QED
    BY <2>1, <2>2 DEF HandlerKept
<1>. QED
  BY <1>2, <1>3 DEF StopsCleanly

LEMMA NextStops ==
  ASSUME ClientTypeOK, Serving, StopsCleanly, [LifecycleNext]_allVars
  PROVE  StopsCleanly'
<1>1. /\ step \in [Execs -> Step]
      /\ \A g \in Handlers : pc[g] # "idle" => exec[g] \in Execs
  BY ThreadsAssumption
  DEF ClientTypeOK, TypeOK, ThreadTypeOK, PCOf, Resting, HandlerPC
<1>2. ASSUME UNCHANGED <<shared, world>> PROVE OnlyForgets
  BY <1>2 DEF shared, world, OnlyForgets
<1>0. errored \subseteq errored'
  BY ErroredGrows
<1>. USE <1>0, ExecsAssumption
<1>3. ASSUME NEW h \in Handlers, NEW e \in Execs, Sends(h, e)
      PROVE  StopsCleanly'
  <2>1. /\ pc[h] = "idle"
        /\ pc'[h] \in {"handleFiles", "start", "findMonitor", "takeMonitor"}
        /\ step[e] \notin Waiting \cup Ended
    BY <1>3, SendsEffect DEF Waiting, Ended
  <2>2. \E s \in Waiting : step' = [step EXCEPT ![e] = s]
    BY <1>3, SendsEffect
  <2>3. /\ UNCHANGED <<shared, world, errored>>
        /\ \A g \in Handlers \ {h} : HandlerKept(g)
    BY <1>3, SendsEffect
  <2>4. \A g \in Handlers :
          pc[g] # "idle" /\ exec[g] \notin errored => exec[g] # e
    BY <2>1, ServesItsPhase DEF InPhase, Waiting, Ended, Followed
  <2>5. \A d \in Execs : step'[d] = "done" => step[d] = "done"
    BY <1>1, <2>2 DEF Waiting
  <2>6. \A g \in Handlers :
          pc'[g] = "replied" /\ exec[g] \notin errored'
            => step'[exec[g]] = step[exec[g]]
    BY <1>1, <2>1, <2>2, <2>3, <2>4 DEF HandlerKept
  <2>. QED
    BY <1>2, <2>1, <2>3, <2>5, <2>6, KeptStops
<1>4. ASSUME NEW h \in Handlers, NEW e \in Execs, Receive(h, e)
      PROVE  StopsCleanly'
  <2>1. /\ pc[h] = "replied" /\ pc'[h] = "idle"
        /\ UNCHANGED <<shared, world>>
        /\ \A g \in Handlers \ {h} : HandlerKept(g)
    BY <1>4, DeliverEffect DEF Receive, ClientTypeOK
  <2>2. /\ served[e] = h /\ exec[h] = e /\ step[e] \in Waiting
        /\ step' = [step EXCEPT ![e] = AfterAnswer(step[e], reply[h])]
        /\ e \notin errored' => reply[h] \in {"ok", "completed"}
        /\ errored \subseteq errored'
    BY <1>4, NoHandlerAssumption DEF Receive, Become, Serving
  <2>3. \A g \in Handlers :
          pc'[g] = "replied" /\ exec[g] \notin errored'
            => step'[exec[g]] = step[exec[g]]
    BY <1>1, <2>1, <2>2 DEF HandlerKept, Serving, Followed
  <2>4. e \notin errored => StopProgress(h)
    BY <2>2 DEF StopsCleanly
  <2>5. AfterAnswer(step[e], reply[h]) = "done" /\ e \notin errored' => Clean(e)
    BY <2>1, <2>2, <2>4 DEF AfterAnswer, StopProgress, Waiting
  <2>6. \A d \in Execs : step'[d] = "done" /\ d \notin errored' =>
          Clean(d) \/ (step[d] = "done" /\ d \notin errored)
    BY <1>1, <2>2, <2>5
  <2>. QED
    BY <1>2, <2>1, <2>3, <2>6, KeptStops
<1>5. ASSUME NEW h \in Handlers, Drop(h) PROVE StopsCleanly'
  <2>1. /\ pc'[h] = "idle"
        /\ UNCHANGED <<shared, world>>
        /\ \A g \in Handlers \ {h} : HandlerKept(g)
    BY <1>5, DeliverEffect DEF Drop, ClientTypeOK
  <2>2. UNCHANGED <<step, errored>>
    BY <1>5 DEF Drop, client
  <2>. QED
    BY <1>2, <2>1, <2>2, KeptStops
<1>6. ASSUME NEW e \in Execs, ClientOnly(e) PROVE StopsCleanly'
  <2>1. PICK s \in {"ending", "done", "vanished"} :
             /\ step' = [step EXCEPT ![e] = s]
             /\ s = "done" => e \notin Stoppable \/ e \in errored'
    BY <1>6, ClientOnlyEffect
  <2>2. UNCHANGED vars /\ errored \subseteq errored'
    BY <1>6, ClientOnlyEffect
  <2>3. OnlyForgets /\ \A g \in Handlers : HandlerKept(g)
    BY <2>2, <1>2 DEF vars, shared, locals, world, HandlerKept
  <2>4. \A d \in Execs :
          \/ step'[d] = step[d]
          \/ d = e /\ step'[d] \notin {"preparing", "stopping"}
    BY <1>1, <2>1
  <2>5. \A g \in Handlers :
          pc'[g] = "replied" => \/ step'[exec[g]] = step[exec[g]]
                                \/ step'[exec[g]] \notin {"preparing",
                                                          "stopping"}
    BY <1>1, <2>3, <2>4 DEF HandlerKept
  <2>6. \A d \in Stoppable : step'[d] = "done" /\ d \notin errored' =>
          step[d] = "done" /\ d \notin errored
    BY <1>1, <2>1, <2>2
  <2>. QED
    BY <2>3, <2>5, <2>6, KeptStops
<1>7. CASE BackgroundStep /\ UNCHANGED client
  <2>1. OnlyForgets /\ \A h \in Handlers : HandlerKept(h)
    BY <1>7, BackgroundForgets DEF ClientTypeOK
  <2>2. UNCHANGED <<step, errored>>
    BY <1>7 DEF client
  <2>. QED
    BY <2>1, <2>2, KeptStops
<1>8. CASE ProcessRestarts
  <2>1. /\ UNCHANGED <<step, errored, world>>
        /\ \A e \in Execs : states'[e] = NoState
        /\ \A e \in Execs : heartbeatMonitors'[e] = NoMonitor
        /\ \A h \in Handlers : pc'[h] = "idle"
    BY <1>8, ThreadsAssumption DEF ProcessRestarts, Restart, FreshPC, NoneFor
  <2>2. OnlyForgets
    BY <2>1 DEF OnlyForgets, world
  <2>. QED
    BY <2>1, <2>2, KeptStops
<1>. QED
  BY <1>3, <1>4, <1>5, <1>6, <1>7, <1>8, LifecycleCases, HandlerStepStops

(* An execution whose client has stopped it without any error leaves no    *)
(* modification, no stored state, no heartbeat monitor and no uploaded     *)
(* file, whatever timeouts, signals and restarts come in between           *)
(* (handleStop).                                                           *)
THEOREM StoppedIsClean == LifecycleSpec => []CleanStop
<1>1. LifecycleInit => StopInv
  <2>. SUFFICES ASSUME LifecycleInit PROVE StopInv
    OBVIOUS
  <2>1. ClientInv /\ Serving
    BY InitClientInv, InitServing
  <2>2. StopsCleanly
    BY ThreadsAssumption, ExecsAssumption
    DEF LifecycleInit, Init, FreshPC, NoneFor, StopsCleanly, StopProgress,
        CleanStop
  <2>. QED
    BY <2>1, <2>2 DEF StopInv
<1>2. StopInv /\ [LifecycleNext]_allVars => StopInv'
  BY NextClientInv, NextServing, NextStops DEF StopInv, ClientInv
<1>3. StopInv => CleanStop
  BY DEF StopInv, StopsCleanly
<1>. QED
  BY <1>1, <1>2, <1>3, PTL DEF LifecycleSpec

-----------------------------------------------------------------------------
(* A client gets to know that the extension stopped its execution           *)

(* The stop of an execution with a stop event has not passed checkStop, or  *)
(* is answered with an error, unless its client has disappeared.            *)
Announced(e) ==
  \/ step[e] = "vanished"
  \/ /\ step[e] = "stopping"
     /\ LET h == served[e] IN
          \/ h = NoHandler
          \/ /\ pc[h] \in {"takeMonitor", "stopMonitor", "checkStop"}
             /\ HasStopEvent(e)
          \/ pc[h] = "replied" /\ reply[h] \notin {"ok", "completed"}

WarnedIsAnnounced == \A e \in warned : e \in errored \/ Announced(e)

WarnInv == ClientInv /\ Serving /\ WarnedIsAnnounced

(* The stop event of an execution outlasts its client's request to stop.    *)
StopEventsLast == \A e \in Execs : step[e] = "stopping" => ~Forgets(e)

LEMMA HandlerStepAnnounced ==
  ASSUME ClientTypeOK, Serving, NEW h \in Handlers, HandlerStep(h),
         UNCHANGED client, StopEventsLast, NEW e \in Execs, Announced(e)
  PROVE  Announced(e)'
<1>1. OthersKept(h) /\ pc[h] # "idle" /\ exec[h] \in Execs
  BY HandlerStepOthersKept, HandlerStepInPhase DEF ClientTypeOK
<1>2. step[e] = "stopping" /\ HasStopEvent(e) => HasStopEvent(e)'
  BY DEF StopEventsLast, Forgets
<1>3. CASE served[e] # h \/ step[e] # "stopping"
  BY <1>1, <1>2, <1>3
  DEF Announced, client, OthersKept, HandlerKept, ClientTypeOK
<1>4. CASE served[e] = h /\ step[e] = "stopping"
  <2>1. exec[h] = e /\ h # NoHandler
    BY <1>4, NoHandlerAssumption DEF Serving
  <2>2. /\ pc[h] \in {"takeMonitor", "stopMonitor", "checkStop"}
        /\ HasStopEvent(e)
    <3>1. pc[h] # "replied"
      BY DEF HandlerStep, At, HandleFiles, CallPrepare, CallStart, CallStatus,
         PersistPrepared, PersistStarted, PersistStatus, StopPrevious,
         MonitorHeartbeat, FindMonitor, RecordHeartbeat, CheckStatus,
         TakeMonitor, StopMonitor, CheckStop, CallStop, RemoveFiles, DeleteState
    <3>. QED
      BY <1>4, <2>1, <3>1 DEF Announced
  <2>3. TakeMonitor(h) \/ StopMonitor(h) \/ CheckStop(h)
    BY <2>2
    DEF HandlerStep, At, HandleFiles, CallPrepare, CallStart, CallStatus,
        PersistPrepared, PersistStarted, PersistStatus, StopPrevious,
        MonitorHeartbeat, FindMonitor, RecordHeartbeat, CheckStatus, CallStop,
        RemoveFiles, DeleteState
  <2>4. \/ pc'[h] \in {"stopMonitor", "checkStop"}
        \/ pc'[h] = "replied" /\ reply'[h] = "stopped"
    BY <2>1, <2>2, <2>3
    DEF TakeMonitor, StopMonitor, CheckStop, AfterMonitor, At, Goto, Answer,
        ClientTypeOK, TypeOK, LocalTypeOK, Threads
  <2>. QED
    BY <1>2, <1>4, <2>2, <2>4 DEF Announced, client
<1>. QED
  BY <1>3, <1>4

(* Nobody works on the stop of e, and its handler, if any, is left alone.   *)
LEMMA KeptAnnounced ==
  ASSUME NEW e \in Execs, Announced(e), step'[e] = step[e],
         step[e] = "stopping" => ~Forgets(e),
         \/ served'[e] = NoHandler
         \/ served'[e] = served[e] /\ HandlerKept(served[e])
  PROVE  Announced(e)'
BY DEF Announced, HandlerKept, Forgets

LEMMA NextAnnounced ==
  ASSUME ClientTypeOK, Serving, WarnedIsAnnounced, [LifecycleNext]_allVars,
         ProcessRestarts \/ StopEventsLast
  PROVE  WarnedIsAnnounced'
<1>0. /\ step \in [Execs -> Step] /\ warned \subseteq Execs
      /\ served \in [Execs -> Handlers \cup {NoHandler}]
      /\ errored \subseteq errored'
  BY ErroredGrows DEF ClientTypeOK
<1>. USE NoHandlerAssumption, ExecsAssumption
<1>1. ASSUME StopEventsLast, warned' = warned, NEW h \in Handlers \cup {NoHandler},
             \A g \in Handlers \ {h} : HandlerKept(g),
             \A e \in Execs : served[e] = h /\ h # NoHandler =>
                 \/ e \in errored'
                 \/ step'[e] = "vanished"
                 \/ ~(step[e] = "stopping"),
             \A e \in Execs :
                 \/ e \in errored'
                 \/ step'[e] = "vanished"
                 \/ step[e] \notin {"stopping", "vanished"}
                 \/ step'[e] = step[e] /\ served'[e] \in {served[e], NoHandler}
      PROVE  WarnedIsAnnounced'
  <2>. SUFFICES ASSUME NEW e \in warned, e \notin errored', step'[e] # "vanished"
                PROVE  Announced(e)'
    BY <1>1 DEF WarnedIsAnnounced, Announced
  <2>1. Announced(e) /\ e \in Execs
    BY <1>0, <1>1 DEF WarnedIsAnnounced
  <2>2. step[e] \in {"stopping", "vanished"}
    BY <2>1 DEF Announced
  <2>3. step'[e] = step[e] /\ served'[e] \in {served[e], NoHandler}
    BY <1>1, <2>1, <2>2
  <2>4. step[e] = "stopping"
    BY <2>2, <2>3
  <2>5. served[e] = NoHandler \/ HandlerKept(served[e])
    BY <1>0, <1>1, <2>1, <2>4
  <2>. QED
    BY <1>1, <2>1, <2>3, <2>5, KeptAnnounced DEF StopEventsLast
<1>2. ASSUME NEW h \in Handlers, NEW e \in Execs, Sends(h, e), StopEventsLast
      PROVE  WarnedIsAnnounced'
  <2>1. /\ pc[h] = "idle" /\ exec'[h] = e
        /\ step[e] \notin Waiting \cup Ended
        /\ served' = [served EXCEPT ![e] = h]
        /\ \A g \in Handlers \ {h} : HandlerKept(g)
        /\ \A d \in Execs \ {e} : step'[d] = step[d]
        /\ UNCHANGED <<shared, errored>>
    BY <1>0, <1>2, SendsEffect DEF Waiting, Ended
  <2>2. e \notin warned \/ e \in errored
    BY <2>1 DEF WarnedIsAnnounced, Announced, Waiting, Ended
  <2>3. \A d \in Execs : served[d] # h
    BY <2>1 DEF Serving, InPhase
  <2>4. ASSUME NEW d \in warned, d # e, d \notin errored PROVE Announced(d)'
    <3>1. Announced(d) /\ d \in Execs /\ step'[d] = step[d]
      BY <1>0, <2>1, <2>4 DEF WarnedIsAnnounced
    <3>2. served'[d] = served[d] /\ served[d] # h
      BY <1>0, <2>1, <2>3, <2>4, <3>1
    <3>3. served[d] = NoHandler \/ HandlerKept(served[d])
      BY <1>0, <2>1, <3>1, <3>2
    <3>. QED
      BY <1>2, <3>1, <3>2, <3>3, KeptAnnounced DEF StopEventsLast
  <2>5. CASE SendStop(h, e) /\ HasStopEvent(e)
    <3>1. /\ step'[e] = "stopping" /\ served'[e] = h /\ pc'[h] = "takeMonitor"
          /\ warned' = warned \cup {e}
      BY <1>0, <2>5, ThreadsAssumption
      DEF SendStop, Send, Become, StopRequest, Request, Goto, ClientTypeOK,
          TypeOK, LocalTypeOK, Threads
    <3>2. HasStopEvent(e)'
      BY <2>1, <2>5 DEF shared, HasStopEvent
    <3>3. Announced(e)'
      BY <3>1, <3>2 DEF Announced
    <3>. QED
      BY <2>1, <2>4, <3>1, <3>3 DEF WarnedIsAnnounced
  <2>6. CASE ~(SendStop(h, e) /\ HasStopEvent(e))
    <3>1. warned' = warned
      BY <1>2, <2>6 DEF Sends, SendPrepare, SendStart, SendStatus, SendStop
    <3>. QED
      BY <2>1, <2>2, <2>4, <3>1 DEF WarnedIsAnnounced
  <2>. QED
    BY <2>5, <2>6
<1>3. ASSUME NEW h \in Handlers, NEW e \in Execs, Receive(h, e), StopEventsLast
      PROVE  WarnedIsAnnounced'
  <2>1. /\ pc[h] = "replied"
        /\ \A g \in Handlers \ {h} : HandlerKept(g)
    BY <1>3, DeliverEffect DEF Receive, ClientTypeOK
  <2>2. /\ served[e] = h /\ exec[h] = e /\ warned' = warned
        /\ \A d \in Execs \ {e} : step'[d] = step[d] /\ served'[d] = served[d]
        /\ e \notin errored' => reply[h] \in {"ok", "completed"}
    BY <1>0, <1>3 DEF Receive, Become, Serving
  <2>3. \A d \in Execs : served[d] = h => d = e
    BY <2>2 DEF Serving
  <2>4. e \in warned => e \in errored' \/ step[e] = "vanished"
    BY <1>0, <2>1, <2>2 DEF WarnedIsAnnounced, Announced
  <2>5. step[e] \in Waiting
    BY <1>3 DEF Receive
  <2>. SUFFICES ASSUME NEW d \in warned, d \notin errored' PROVE Announced(d)'
    BY <2>2 DEF WarnedIsAnnounced
  <2>6. d # e
    BY <2>4, <2>5 DEF Waiting
  <2>7. Announced(d) /\ d \in Execs
    BY <1>0 DEF WarnedIsAnnounced
  <2>8. served[d] = NoHandler \/ HandlerKept(served[d])
    BY <1>0, <2>1, <2>3, <2>6, <2>7
  <2>. QED
    BY <1>3, <2>2, <2>6, <2>7, <2>8, KeptAnnounced DEF StopEventsLast
<1>4. ASSUME NEW h \in Handlers, Drop(h), StopEventsLast PROVE WarnedIsAnnounced'
  <2>1. /\ \A g \in Handlers \ {h} : HandlerKept(g)
        /\ \A d \in Execs : served[d] # h
        /\ UNCHANGED <<step, served, errored, warned>>
    BY <1>4, DeliverEffect DEF Drop, ClientTypeOK, client
  <2>. QED
    BY <1>1, <1>4, <2>1
<1>5. ASSUME NEW e \in Execs, ClientOnly(e), StopEventsLast PROVE WarnedIsAnnounced'
  <2>1. PICK s \in {"ending", "done", "vanished"} :
             /\ step' = [step EXCEPT ![e] = s]
             /\ \/ s = "vanished"
                \/ step[e] \in {"running", "ending"}
                \/ e \in errored'
    BY <1>5, ClientOnlyEffect
  <2>2. /\ UNCHANGED vars /\ warned' = warned
        /\ served' = served \/ served' = [served EXCEPT ![e] = NoHandler]
    BY <1>5, ClientOnlyEffect
  <2>3. \A g \in Handlers : HandlerKept(g)
    BY <2>2 DEF vars, locals, HandlerKept
  <2>4. \A d \in Execs :
          \/ d \in errored' \/ step'[d] = "vanished"
          \/ step[d] \notin {"stopping", "vanished"}
          \/ step'[d] = step[d] /\ served'[d] \in {served[d], NoHandler}
    BY <1>0, <2>1, <2>2
  <2>. QED
    BY <1>1, <1>5, <2>2, <2>3, <2>4
<1>6. ASSUME NEW h \in Handlers, HandlerStep(h), UNCHANGED client, StopEventsLast
      PROVE  WarnedIsAnnounced'
  BY <1>0, <1>6, HandlerStepAnnounced DEF WarnedIsAnnounced, client
<1>7. CASE BackgroundStep /\ UNCHANGED client /\ StopEventsLast
  <2>1. \A h \in Handlers : HandlerKept(h)
    BY <1>7, BackgroundForgets DEF ClientTypeOK
  <2>. QED
    BY <1>1, <1>7, <2>1 DEF client
<1>8. CASE ProcessRestarts
  <2>1. \A e \in Execs : served'[e] = NoHandler
    BY <1>8 DEF ProcessRestarts, NoneFor
  <2>2. UNCHANGED <<step, errored, warned>>
    BY <1>8 DEF ProcessRestarts
  <2>. QED
    BY <1>0, <2>1, <2>2 DEF WarnedIsAnnounced, Announced
<1>. QED
  BY <1>2, <1>3, <1>4, <1>5, <1>6, <1>7, <1>8, LifecycleCases

(* As long as the stop event of an execution outlasts its client's request  *)
(* to stop, no client whose execution the extension stopped takes it for a  *)
(* success, whatever else goes wrong (handleStop).                          *)
THEOREM RollbackIsNoticed ==
  LifecycleSpec /\ [][ProcessRestarts \/ StopEventsLast]_allVars
    => []NoSilentRollback
<1>1. LifecycleInit => WarnInv
  BY InitClientInv, InitServing
  DEF LifecycleInit, WarnInv, WarnedIsAnnounced
<1>2. WarnInv /\ [LifecycleNext]_allVars
         /\ [ProcessRestarts \/ StopEventsLast]_allVars => WarnInv'
  <2>. SUFFICES ASSUME WarnInv, [LifecycleNext]_allVars,
                       [ProcessRestarts \/ StopEventsLast]_allVars
                PROVE  WarnInv'
    OBVIOUS
  <2>1. ProcessRestarts \/ StopEventsLast
    BY DEF allVars, vars, shared, StopEventsLast, Forgets, HasStopEvent
  <2>. QED
    BY <2>1, NextClientInv, NextServing, NextAnnounced DEF WarnInv, ClientInv
<1>3. WarnInv => NoSilentRollback
  BY DEF WarnInv, WarnedIsAnnounced, Announced, NoSilentRollback
<1>. QED
  BY <1>1, <1>2, <1>3, PTL DEF LifecycleSpec

(* So every client notices as long as its stop event is not, while it waits *)
(* for the answer to its request to stop, the oldest of a full list of      *)
(* which no other event is of its execution (markAsStopped).                *)
THEOREM RollbackIsNoticedUnlessOutnumbered ==
  LifecycleSpec /\ [](\A e \in Execs : step[e] = "stopping" => ~Outnumbered(e))
    => []NoSilentRollback
<1>. DEFINE Few == \A e \in Execs : step[e] = "stopping" => ~Outnumbered(e)
<1>1. StopEventsBounded /\ ClientTypeOK /\ Few /\ [LifecycleNext]_allVars
        => [ProcessRestarts \/ StopEventsLast]_allVars
  <2>. SUFFICES ASSUME StopEventsBounded, ClientTypeOK, Few,
                       [LifecycleNext]_allVars,
                       NEW e \in Execs, step[e] = "stopping", Forgets(e)
                PROVE  ProcessRestarts
    BY DEF StopEventsLast
  <2>1. \A t \in Threads : ~MarkAsStopped(t)
    BY ForgetsOutnumbered DEF ClientTypeOK
  <2>2. stopEvents' # stopEvents
    BY DEF Forgets, HasStopEvent
  <2>3. ASSUME NEW h \in Handlers, NEW d \in Execs, Sends(h, d) PROVE FALSE
    BY <2>2, <2>3, SendsEffect DEF shared
  <2>4. ASSUME NEW h \in Handlers, Deliver(h) PROVE FALSE
    BY <2>2, <2>4 DEF Deliver, shared
  <2>5. ASSUME NEW d \in Execs, ClientOnly(d) PROVE FALSE
    BY <2>2, <2>5, ClientOnlyEffect DEF vars, shared
  <2>6. CASE BackgroundStep
    <3>1. CASE UNCHANGED vars
      BY <2>2, <3>1 DEF vars, shared
    <3>. QED
      BY <2>1, <2>2, <2>6, <3>1, WatcherStepEvents, SignalStepEvents
      DEF BackgroundStep, Threads
  <2>. QED
    BY <2>2, <2>3, <2>4, <2>5, <2>6, HandlerStepEvents, LifecycleCases
    DEF Receive, Drop
<1>2. LifecycleSpec => [](StopEventsBounded /\ ClientTypeOK)
  BY LifecycleImplementsSdk, StopEventsStayBounded, ClientTypeCorrect, PTL
<1>3. [](StopEventsBounded /\ ClientTypeOK) /\ []Few /\ [][LifecycleNext]_allVars
        => [][ProcessRestarts \/ StopEventsLast]_allVars
  BY <1>1, PTL
<1>. QED
  BY <1>2, <1>3, RollbackIsNoticed, PTL DEF LifecycleSpec

-----------------------------------------------------------------------------
(* A state to roll back with                                                *)

EarlyPC == {"handleFiles", "prepare", "persistPrepared",
            "start", "persistStarted", "monitorHeartbeat"}

(* A client that has not started the execution yet, or a start that has no *)
(* heartbeat monitor yet.                                                  *)
Early(e) ==
  \/ step[e] \in {"new", "preparing", "prepared"}
  \/ \E h \in Handlers :
       /\ exec[h] = e
       /\ pc[h] \in EarlyPC

(* Heartbeat monitors of an execution appear when it is early no more.     *)
MonitorsComeLater ==
  \A e \in Execs, m \in Monitors : Early(e) /\ pc[m] # "off" => exec[m] # e

(* Who is about to delete a state has rolled back before, and nobody has   *)
(* started the execution again.                                            *)
RolledBackFirst ==
  /\ \A m \in Monitors :
       pc[m] \in {"takeMonitor", "stopMonitor", "deleteState"}
         => exec[m] \notin Owing
  /\ \A h \in Handlers :
       pc[h] \in {"removeFiles", "deleteState"} => exec[h] \notin Owing

(* Somebody is about to start the execution, or has just prepared it.      *)
Startable(e) ==
  \/ step[e] = "prepared"
  \/ \E h \in Handlers :
       /\ exec[h] = e
       /\ \/ pc[h] \in {"start", "persistStarted", "monitorHeartbeat"}
          \/ pc[h] = "replied" /\ reply[h] = "ok" /\ step[e] = "preparing"

PreparedIsSaved == \A e \in Stoppable : Startable(e) => states[e] # NoState

(* RollbackStateKept and what makes it inductive.                          *)
KeepsState ==
  /\ pc[Signal] = "idle"
  /\ MonitorsComeLater
  /\ RolledBackFirst
  /\ PreparedIsSaved
  /\ RollbackStateKept

(* What handlers and watchers do to modifications, states and monitors.    *)
LEMMA HandlerStepEffect ==
  ASSUME TypeOK, NEW h \in Handlers, HandlerStep(h)
  PROVE  /\ \/ pc[h] = "start" /\ Owing' \subseteq Owing \cup {exec[h]}
            \/ Owing' \subseteq Owing
         /\ pc[h] = "deleteState" => pc'[h] = "replied"
         /\ \/ states' = states
            \/ /\ pc[h] \in {"persistPrepared", "persistStarted",
                             "persistStatus"}
               /\ states' = [states EXCEPT ![exec[h]] = arg[h]]
            \/ /\ pc[h] = "deleteState"
               /\ states' = [states EXCEPT ![exec[h]] = NoState]
         /\ pc[h] = "persistPrepared" /\ exec[h] \in Stoppable =>
              states'[exec[h]] \in State
         /\ pc[h] = "persistStarted" /\ exec[h] \in Stoppable =>
              states'[exec[h]] \in State
         /\ pc'[h] \in {"removeFiles", "deleteState"} =>
              pc[h] = "removeFiles" \/ exec[h] \notin Owing'
<1>. USE ThreadsAssumption, ExecsAssumption
     DEF TypeOK, LocalTypeOK, SharedTypeOK, WorldTypeOK, ThreadTypeOK, Resting,
         Stateless, At, Goto, Answer, Owing, locals, shared, world
<1>1. CASE HandleFiles(h) \/ CallPrepare(h) \/ CallStart(h) \/ CallStatus(h)
  BY <1>1 DEF HandleFiles, CallPrepare, CallStart, CallStatus, Produce
<1>2. CASE PersistPrepared(h) \/ PersistStarted(h) \/ PersistStatus(h)
  BY <1>2 DEF PersistPrepared, PersistStarted, PersistStatus, PersistState
<1>3. CASE StopPrevious(h) \/ FindMonitor(h) \/ RecordHeartbeat(h)
           \/ CheckStatus(h)
  BY <1>3 DEF StopPrevious, StopHeld, FindMonitor, RecordHeartbeat, CheckStatus
<1>4. CASE TakeMonitor(h) \/ StopMonitor(h) \/ CheckStop(h)
  BY <1>4 DEF TakeMonitor, StopMonitor, StopHeld, CheckStop, AfterMonitor
<1>5. CASE CallStop(h) \/ RemoveFiles(h)
  BY <1>5 DEF CallStop, RemoveFiles
<1>6. CASE DeleteState(h)
  BY <1>6 DEF DeleteState
<1>7. ASSUME NEW m \in Monitors, MonitorHeartbeat(h, m)
      PROVE  /\ pc[h] = "monitorHeartbeat"
             /\ pc'[h] \in {"replied", "stopPrevious"}
             /\ UNCHANGED <<states, modified, abandoned>>
  BY <1>7 DEF MonitorHeartbeat
<1>. QED
  BY <1>1, <1>2, <1>3, <1>4, <1>5, <1>6, <1>7 DEF HandlerStep

(* Where a handler comes from.                                             *)
LEMMA HandlerStepFrom ==
  ASSUME TypeOK, NEW h \in Handlers, HandlerStep(h)
  PROVE  /\ pc'[h] \notin {"handleFiles", "start", "idle"}
         /\ pc'[h] = "prepare" => pc[h] = "handleFiles"
         /\ pc'[h] = "persistPrepared" => pc[h] = "prepare"
         /\ pc'[h] = "persistStarted" => pc[h] = "start"
         /\ pc'[h] = "monitorHeartbeat" => pc[h] = "persistStarted"
         /\ pc[h] \in {"handleFiles", "prepare"} /\ pc'[h] = "replied" =>
              reply'[h] = "error"
<1>. USE ThreadsAssumption
     DEF TypeOK, LocalTypeOK, At, Goto, Answer, locals
<1>1. CASE HandleFiles(h) \/ CallPrepare(h) \/ CallStart(h) \/ CallStatus(h)
  BY <1>1 DEF HandleFiles, CallPrepare, CallStart, CallStatus, Produce
<1>2. CASE PersistPrepared(h) \/ PersistStarted(h) \/ PersistStatus(h)
  BY <1>2 DEF PersistPrepared, PersistStarted, PersistStatus
<1>3. CASE StopPrevious(h) \/ FindMonitor(h) \/ RecordHeartbeat(h)
           \/ CheckStatus(h)
  BY <1>3 DEF StopPrevious, FindMonitor, RecordHeartbeat, CheckStatus
<1>4. CASE TakeMonitor(h) \/ StopMonitor(h) \/ CheckStop(h) \/ DeleteState(h)
  BY <1>4 DEF TakeMonitor, StopMonitor, CheckStop, DeleteState, AfterMonitor
<1>5. CASE CallStop(h) \/ RemoveFiles(h)
  BY <1>5 DEF CallStop, RemoveFiles
<1>6. ASSUME NEW m \in Monitors, MonitorHeartbeat(h, m)
      PROVE  /\ pc[h] = "monitorHeartbeat"
             /\ pc'[h] \in {"replied", "stopPrevious"}
  BY <1>6 DEF MonitorHeartbeat
<1>. QED
  BY <1>1, <1>2, <1>3, <1>4, <1>5, <1>6 DEF HandlerStep

LEMMA HandlerStepStoppers ==
  ASSUME TypeOK, NEW h \in Handlers, HandlerStep(h), NEW t \in Stoppers
  PROVE  \/ pc'[t] = pc[t] /\ exec'[t] = exec[t]
         \/ /\ t \in Monitors
            /\ pc[h] = "monitorHeartbeat"
            /\ pc'[h] \in {"replied", "stopPrevious"}
            /\ pc'[t] = "watching"
            /\ exec'[t] = exec[h]
<1>. USE ThreadsAssumption
     DEF TypeOK, LocalTypeOK, Stoppers, At, Goto, Answer, locals
<1>1. CASE HandleFiles(h) \/ CallPrepare(h) \/ CallStart(h) \/ CallStatus(h)
  BY <1>1 DEF HandleFiles, CallPrepare, CallStart, CallStatus, Produce
<1>2. CASE PersistPrepared(h) \/ PersistStarted(h) \/ PersistStatus(h)
  BY <1>2 DEF PersistPrepared, PersistStarted, PersistStatus
<1>3. CASE StopPrevious(h) \/ FindMonitor(h) \/ RecordHeartbeat(h)
           \/ CheckStatus(h)
  BY <1>3 DEF StopPrevious, StopHeld, FindMonitor, RecordHeartbeat, CheckStatus
<1>4. CASE TakeMonitor(h) \/ StopMonitor(h) \/ CheckStop(h) \/ DeleteState(h)
  BY <1>4 DEF TakeMonitor, StopMonitor, StopHeld, CheckStop, DeleteState
<1>5. CASE CallStop(h) \/ RemoveFiles(h)
  BY <1>5 DEF CallStop, RemoveFiles
<1>6. ASSUME NEW m \in Monitors, MonitorHeartbeat(h, m)
      PROVE  /\ pc[h] = "monitorHeartbeat"
             /\ pc'[h] \in {"replied", "stopPrevious"}
             /\ pc'[m] = "watching" /\ exec'[m] = exec[h]
             /\ t # m => pc'[t] = pc[t] /\ exec'[t] = exec[t]
  BY <1>6 DEF MonitorHeartbeat
<1>. QED
  BY <1>1, <1>2, <1>3, <1>4, <1>5, <1>6 DEF HandlerStep

LEMMA WatcherStepEffect ==
  ASSUME TypeOK, NEW m \in Monitors, WatcherStep(m)
  PROVE  /\ exec' = exec /\ pc[m] # "off"
         /\ \A t \in Stoppers \ {m} : pc'[t] = pc[t]
         /\ Owing' \subseteq Owing
         /\ pc'[m] \in {"takeMonitor", "stopMonitor", "deleteState"} =>
              \/ pc[m] \in {"takeMonitor", "stopMonitor"}
              \/ exec[m] \notin Owing'
         /\ \/ states' = states
            \/ /\ pc[m] = "deleteState"
               /\ states' = [states EXCEPT ![exec[m]] = NoState]
<1>. USE ThreadsAssumption
     DEF TypeOK, LocalTypeOK, SharedTypeOK, WorldTypeOK, At, Goto, Stoppers,
         Owing, locals, shared, world
<1>1. CASE HeartbeatTimeout(m) \/ WatcherEnds(m)
  BY <1>1 DEF HeartbeatTimeout, WatcherEnds
<1>2. CASE GetState(m) \/ MarkAsStopped(m) \/ RollbackSucceeds(m)
           \/ RollbackReportsFailure(m) \/ RollbackFails(m)
  BY <1>2
  DEF GetState, MarkAsStopped, RollbackSucceeds, RollbackReportsFailure,
      RollbackFails, ReturnOf
<1>3. CASE TakeMonitor(m) \/ StopMonitor(m) \/ DeleteState(m)
  BY <1>3
  DEF TakeMonitor, StopMonitor, StopHeld, DeleteState, AfterMonitor, ReturnOf
<1>. QED
  BY <1>1, <1>2, <1>3 DEF WatcherStep, StopAction

NoSignalNoRestart == Faults \subseteq {"vanish", "delay"}

LEMMA BackgroundIsWatcher ==
  ASSUME NoSignalNoRestart, TypeOK, pc[Signal] = "idle", BackgroundStep
  PROVE  \/ \E m \in Monitors : WatcherStep(m)
         \/ UNCHANGED <<states, modified, abandoned, pc, exec, reply>>
<1>1. ~SignalStep
  BY DEF SignalStep, StopNext, AllStopped, StopAction, GetState, MarkAsStopped,
         RollbackSucceeds, RollbackReportsFailure, RollbackFails, TakeMonitor,
         StopMonitor, DeleteState, At
<1>2. "signal" \notin Faults
  BY DEF NoSignalNoRestart
<1>3. ASSUME NEW m \in Monitors, Silence(m) \/ Notify(m)
      PROVE  UNCHANGED <<states, modified, abandoned, pc, exec, reply>>
  BY <1>3 DEF Silence, Notify, locals, world
<1>4. CASE UNCHANGED vars
  BY <1>4 DEF vars, shared, locals, world
<1>. QED
  BY <1>1, <1>2, <1>3, <1>4 DEF BackgroundStep

(* No execution becomes early again.                                       *)
LEMMA HandlerStepEarly ==
  ASSUME TypeOK, NEW h \in Handlers, HandlerStep(h), UNCHANGED client,
         NEW e \in Execs, Early(e)'
  PROVE  Early(e)
<1>1. /\ \A g \in Handlers \ {h} : pc'[g] = pc[g] /\ exec'[g] = exec[g]
      /\ exec'[h] = exec[h]
  BY HandlerStepOthersKept DEF OthersKept, HandlerKept
<1>2. pc'[h] \in EarlyPC => pc[h] \in EarlyPC
  BY HandlerStepFrom DEF EarlyPC
<1>. QED
  BY <1>1, <1>2 DEF Early, EarlyPC, client

LEMMA EarlyShrinks ==
  ASSUME NoSignalNoRestart, ClientTypeOK, Serving, pc[Signal] = "idle",
         [LifecycleNext]_allVars, NEW d \in Execs, Early(d)'
  PROVE  Early(d)
<1>. USE DEF ClientTypeOK
<1>0. "restart" \notin Faults
  BY DEF NoSignalNoRestart
<1>1. ASSUME NEW h \in Handlers, NEW e \in Execs, Sends(h, e) PROVE Early(d)
  <2>1. PICK p \in {"handleFiles", "start", "findMonitor", "takeMonitor"},
             s \in Waiting :
          /\ pc'[h] = p
          /\ step' = [step EXCEPT ![e] = s]
          /\ p \in EarlyPC \/ s = "preparing" => step[e] \in {"new", "prepared"}
          /\ s # "prepared" /\ s # "new"
    BY <1>1, SendsEffect DEF EarlyPC, Waiting
  <2>2. /\ \A g \in Handlers \ {h} : pc'[g] = pc[g] /\ exec'[g] = exec[g]
        /\ exec'[h] = e
    BY <1>1, SendsEffect DEF HandlerKept
  <2>. QED
    BY <2>1, <2>2 DEF Early, EarlyPC
<1>2. ASSUME NEW h \in Handlers, NEW e \in Execs, Receive(h, e) PROVE Early(d)
  <2>1. /\ pc'[h] = "idle"
        /\ \A g \in Handlers \ {h} : pc'[g] = pc[g] /\ exec'[g] = exec[g]
    BY <1>2, DeliverEffect DEF Receive, HandlerKept
  <2>2. step' = [step EXCEPT ![e] = AfterAnswer(step[e], reply[h])]
    BY <1>2 DEF Receive, Become
  <2>3. AfterAnswer(step[e], reply[h]) \in {"new", "preparing", "prepared"}
          => step[e] = "preparing"
    BY <1>2 DEF Receive, Waiting, AfterAnswer
  <2>. QED
    BY <2>1, <2>2, <2>3 DEF Early, EarlyPC
<1>3. ASSUME NEW h \in Handlers, Drop(h) PROVE Early(d)
  <2>1. /\ pc'[h] = "idle"
        /\ \A g \in Handlers \ {h} : pc'[g] = pc[g] /\ exec'[g] = exec[g]
    BY <1>3, DeliverEffect DEF Drop, HandlerKept
  <2>. QED
    BY <1>3, <2>1 DEF Drop, client, Early, EarlyPC
<1>4. ASSUME NEW e \in Execs, ClientOnly(e) PROVE Early(d)
  <2>1. PICK s \in {"ending", "done", "vanished"} :
          step' = [step EXCEPT ![e] = s]
    BY <1>4, ClientOnlyEffect
  <2>2. UNCHANGED <<pc, exec>>
    BY <1>4, ClientOnlyEffect DEF vars, locals
  <2>. QED
    BY <2>1, <2>2 DEF Early
<1>5. CASE BackgroundStep /\ UNCHANGED client
  <2>1. \A g \in Handlers : pc'[g] = pc[g] /\ exec'[g] = exec[g]
    BY <1>5, BackgroundForgets DEF HandlerKept
  <2>. QED
    BY <1>5, <2>1 DEF client, Early
<1>6. ~ProcessRestarts
  BY <1>0 DEF ProcessRestarts
<1>. QED
  BY <1>1, <1>2, <1>3, <1>4, <1>5, <1>6, LifecycleCases, HandlerStepEarly

LEMMA StartableIsEarly ==
  ASSUME NEW e, Startable(e) PROVE Early(e)
BY DEF Startable, Early, EarlyPC

LEMMA HandlerStepKeeps ==
  ASSUME NoSignalNoRestart, ClientTypeOK, Serving, KeepsState,
         NEW h \in Handlers, HandlerStep(h), UNCHANGED client
  PROVE  KeepsState'
<1>. USE ThreadsAssumption, ExecsAssumption, StateAssumption
<1>1. TypeOK /\ OthersKept(h) /\ pc[h] # "idle" /\ exec[h] \in Execs
  BY HandlerStepOthersKept, HandlerStepInPhase DEF ClientTypeOK
<1>0. Followed(exec[h])
  BY DEF NoSignalNoRestart, Followed
<1>2. \A g \in Handlers : g # h /\ pc[g] # "idle" => exec[g] # exec[h]
  BY <1>0, <1>1 DEF Serving
<1>3. step[exec[h]] # "vanished" => InPhase(pc[h], step[exec[h]])
  BY <1>0, <1>1, ServesItsPhase
<1>4. \A t \in Stoppers :
        \/ pc'[t] = pc[t] /\ exec'[t] = exec[t]
        \/ /\ t \in Monitors
           /\ pc[h] = "monitorHeartbeat"
           /\ pc'[h] \in {"replied", "stopPrevious"}
           /\ pc'[t] = "watching"
           /\ exec'[t] = exec[h]
  BY <1>1, HandlerStepStoppers
<1>5. \A e \in Execs : Early(e)' => Early(e)
  BY <1>1, HandlerStepEarly
<1>6. pc'[Signal] = "idle"
  BY <1>4 DEF KeepsState, Stoppers
<1>7. MonitorsComeLater'
  <2>. SUFFICES ASSUME NEW e \in Execs, NEW m \in Monitors, Early(e)',
                       pc'[m] # "off", exec'[m] = e
                PROVE  FALSE
    BY DEF MonitorsComeLater
  <2>1. /\ pc[h] = "monitorHeartbeat"
        /\ pc'[h] \in {"replied", "stopPrevious"}
        /\ e = exec[h]
    BY <1>4, <1>5 DEF KeepsState, MonitorsComeLater, Stoppers
  <2>2. step'[e] \notin {"new", "preparing", "prepared"}
    BY <1>3, <2>1 DEF InPhase, client
  <2>3. \A g \in Handlers : exec'[g] = e => pc'[g] \notin EarlyPC
    BY <1>1, <1>2, <2>1 DEF OthersKept, HandlerKept, EarlyPC
  <2>. QED
    BY <2>2, <2>3 DEF Early, EarlyPC
<1>8. /\ \/ pc[h] = "start" /\ Owing' \subseteq Owing \cup {exec[h]}
         \/ Owing' \subseteq Owing
      /\ pc'[h] \in {"removeFiles", "deleteState"} =>
           pc[h] = "removeFiles" \/ exec[h] \notin Owing'
  BY <1>1, HandlerStepEffect
<1>9. RolledBackFirst'
  <2>1. ASSUME NEW m \in Monitors,
               pc'[m] \in {"takeMonitor", "stopMonitor", "deleteState"}
        PROVE  exec'[m] \notin Owing'
    <3>1. pc'[m] = pc[m] /\ exec'[m] = exec[m]
      BY <1>4, <2>1 DEF Stoppers
    <3>2. pc[h] = "start" => exec[m] # exec[h]
      BY <1>1, <2>1, <3>1 DEF KeepsState, MonitorsComeLater, Early, EarlyPC
    <3>. QED
      BY <1>8, <2>1, <3>1, <3>2 DEF KeepsState, RolledBackFirst
  <2>2. ASSUME NEW g \in Handlers, pc'[g] \in {"removeFiles", "deleteState"}
        PROVE  exec'[g] \notin Owing'
    <3>1. CASE g = h
      BY <1>1, <1>8, <2>2, <3>1 DEF KeepsState, RolledBackFirst, OthersKept
    <3>2. CASE g # h
      BY <1>1, <1>2, <1>8, <2>2, <3>2
      DEF KeepsState, RolledBackFirst, OthersKept, HandlerKept
    <3>. QED
      BY <3>1, <3>2
  <2>. QED
    BY <2>1, <2>2 DEF RolledBackFirst
<1>10. /\ pc[h] = "deleteState" => pc'[h] = "replied"
       /\ \/ states'[exec[h]] = states[exec[h]]
          \/ states'[exec[h]] \in State
          \/ pc[h] = "deleteState"
       /\ pc[h] \in {"persistPrepared", "persistStarted"}
            /\ exec[h] \in Stoppable => states'[exec[h]] \in State
  <2>1. pc[h] \in {"persistPrepared", "persistStarted", "persistStatus"} =>
          arg[h] \in State
    BY <1>1 DEF TypeOK, ThreadTypeOK, Resting, Stateless
  <2>. QED
    BY <1>1, <2>1, HandlerStepEffect DEF TypeOK, SharedTypeOK
<1>11. PreparedIsSaved'
  <2>. SUFFICES ASSUME NEW e \in Stoppable, Startable(e)'
                PROVE  states'[e] # NoState
    BY DEF PreparedIsSaved
  <2>1. CASE e # exec[h]
    <3>1. Startable(e)
      BY <1>1, <2>1 DEF Startable, OthersKept, HandlerKept, client
    <3>. QED
      BY <1>1, <2>1, <3>1 DEF KeepsState, PreparedIsSaved, OthersKept
  <2>2. CASE e = exec[h]
    <3>1. step[e] # "prepared"
      BY <1>3, <2>2 DEF InPhase
    <3>2. \A g \in Handlers : exec'[g] = e => g = h \/ pc'[g] = "idle"
      BY <1>1, <1>2, <2>2 DEF OthersKept, HandlerKept
    <3>3. \/ pc'[h] \in {"start", "persistStarted", "monitorHeartbeat"}
          \/ pc'[h] = "replied" /\ reply'[h] = "ok" /\ step[e] = "preparing"
      BY <3>1, <3>2 DEF Startable, client
    <3>4. CASE pc'[h] \in {"persistStarted", "monitorHeartbeat"}
      <4>1. pc[h] \in {"start", "persistStarted"}
        BY <1>1, <3>4, HandlerStepFrom
      <4>2. Startable(e)
        BY <2>2, <4>1 DEF Startable
      <4>. QED
        BY <1>10, <2>2, <4>1, <4>2 DEF KeepsState, PreparedIsSaved
    <3>5. CASE pc'[h] = "replied" /\ reply'[h] = "ok" /\ step[e] = "preparing"
      <4>1. pc[h] \in {"handleFiles", "prepare", "persistPrepared", "replied"}
        BY <1>3, <2>2, <3>5 DEF InPhase
      <4>2. pc[h] # "replied"
        BY DEF HandlerStep, HandleFiles, CallPrepare, PersistPrepared,
               CallStart, PersistStarted, StopPrevious, MonitorHeartbeat,
               FindMonitor, RecordHeartbeat, CheckStatus, CallStatus,
               PersistStatus,
               TakeMonitor, StopMonitor, CheckStop, CallStop, RemoveFiles,
               DeleteState, At
      <4>3. pc[h] = "persistPrepared"
        BY <1>1, <3>5, <4>1, <4>2, HandlerStepFrom
      <4>. QED
        BY <1>10, <2>2, <4>3
    <3>. QED
      BY <1>1, <3>3, <3>4, <3>5, HandlerStepFrom
  <2>. QED
    BY <2>1, <2>2
<1>12. RollbackStateKept'
  <2>. SUFFICES ASSUME NEW e \in Owed'
                PROVE  states'[e] # NoState
    BY DEF RollbackStateKept
  <2>0. e \in Stoppable /\ e \in Owing'
    BY DEF Owed, Owing
  <2>1. CASE e # exec[h]
    BY <1>1, <2>0, <2>1
    DEF KeepsState, RollbackStateKept, OthersKept, Owed, Owing
  <2>2. CASE e = exec[h] /\ pc[h] = "deleteState"
    BY <1>8, <2>0, <2>2 DEF KeepsState, RolledBackFirst
  <2>3. CASE e = exec[h] /\ pc[h] # "deleteState"
    <3>1. pc[h] = "start" => Startable(e)
      BY <2>3 DEF Startable
    <3>. QED
      BY <1>8, <1>10, <2>0, <2>3, <3>1
      DEF KeepsState, PreparedIsSaved, RollbackStateKept, Owed, Owing
  <2>. QED
    BY <2>1, <2>2, <2>3
<1>. QED
  BY <1>6, <1>7, <1>9, <1>11, <1>12 DEF KeepsState

LEMMA BackgroundKeeps ==
  ASSUME NoSignalNoRestart, ClientTypeOK, Serving, KeepsState,
         BackgroundStep, UNCHANGED client
  PROVE  KeepsState'
<1>. USE ThreadsAssumption, ExecsAssumption DEF KeepsState
<1>1. \A g \in Handlers :
        pc'[g] = pc[g] /\ exec'[g] = exec[g] /\ reply'[g] = reply[g]
  BY BackgroundForgets DEF ClientTypeOK, HandlerKept
<1>2. /\ \A e \in Execs : Early(e)' => Early(e)
      /\ \A e \in Execs : Startable(e)' => Startable(e)
  BY <1>1 DEF Early, Startable, client
<1>3. ASSUME UNCHANGED <<states, modified, abandoned, pc, exec, reply>>
      PROVE  KeepsState'
  BY <1>2, <1>3
  DEF MonitorsComeLater, RolledBackFirst, PreparedIsSaved, RollbackStateKept,
      Owed, Owing
<1>4. ASSUME NEW m \in Monitors, WatcherStep(m) PROVE KeepsState'
  <2>1. /\ exec' = exec /\ pc[m] # "off"
        /\ \A t \in Stoppers \ {m} : pc'[t] = pc[t]
        /\ Owing' \subseteq Owing
        /\ pc'[m] \in {"takeMonitor", "stopMonitor", "deleteState"} =>
             \/ pc[m] \in {"takeMonitor", "stopMonitor"}
             \/ exec[m] \notin Owing'
    BY <1>4, WatcherStepEffect DEF ClientTypeOK
  <2>2. pc'[Signal] = "idle"
    BY <2>1 DEF Stoppers
  <2>3. MonitorsComeLater'
    BY <1>2, <2>1 DEF MonitorsComeLater, Stoppers
  <2>4. RolledBackFirst'
    <3>1. ASSUME NEW n \in Monitors,
                 pc'[n] \in {"takeMonitor", "stopMonitor", "deleteState"}
          PROVE  exec'[n] \notin Owing'
      BY <2>1, <3>1 DEF RolledBackFirst, Stoppers
    <3>. QED
      BY <1>1, <2>1, <3>1 DEF RolledBackFirst
  <2>5. \A e \in Execs :
          \/ states'[e] = states[e]
          \/ e = exec[m] /\ e \notin Owing /\ ~Early(e)
    BY <1>4, <2>1, WatcherStepEffect
    DEF ClientTypeOK, TypeOK, SharedTypeOK, RolledBackFirst, MonitorsComeLater
  <2>6. PreparedIsSaved'
    BY <1>2, <2>5, StartableIsEarly DEF PreparedIsSaved
  <2>7. RollbackStateKept'
    BY <2>1, <2>5 DEF RollbackStateKept, Owed, Owing
  <2>. QED
    BY <2>2, <2>3, <2>4, <2>6, <2>7
<1>. QED
  BY <1>3, <1>4, BackgroundIsWatcher DEF ClientTypeOK

(* Nothing but handlers that begin or end and what the client knows.       *)
LEMMA ClientKeeps ==
  ASSUME ClientTypeOK, KeepsState, UNCHANGED <<shared, world>>,
         \A t \in Stoppers : pc'[t] = pc[t] /\ exec'[t] = exec[t],
         \A g \in Handlers :
           \/ pc'[g] = pc[g] /\ exec'[g] = exec[g]
           \/ pc'[g] \notin {"removeFiles", "deleteState"},
         \A e \in Execs : Early(e)' => Early(e),
         \A e \in Execs : Startable(e)' => Startable(e)
  PROVE  KeepsState'
BY ExecsAssumption
DEF KeepsState, MonitorsComeLater, RolledBackFirst, PreparedIsSaved,
    RollbackStateKept, Owed, Owing, Stoppers, shared, world

LEMMA NextKeeps ==
  ASSUME NoSignalNoRestart, ClientTypeOK, Serving, KeepsState,
         [LifecycleNext]_allVars
  PROVE  KeepsState'
<1>. USE DEF ClientTypeOK
<1>0. "restart" \notin Faults /\ \A d : Followed(d)
  BY DEF NoSignalNoRestart, Followed
<1>1. \A e \in Execs : Early(e)' => Early(e)
  BY EarlyShrinks DEF KeepsState
<1>2. ASSUME NEW h \in Handlers, NEW e \in Execs, Sends(h, e) PROVE KeepsState'
  <2>1. PICK p \in {"handleFiles", "start", "findMonitor", "takeMonitor"},
             s \in Waiting :
          /\ pc'[h] = p
          /\ step' = [step EXCEPT ![e] = s]
          /\ p = "start" => step[e] = "prepared"
          /\ step[e] \notin Waiting \cup Ended
    BY <1>2, SendsEffect DEF Waiting, Ended
  <2>2. /\ \A g \in Handlers \ {h} :
             pc'[g] = pc[g] /\ exec'[g] = exec[g] /\ reply'[g] = reply[g]
        /\ exec'[h] = e
        /\ UNCHANGED <<shared, world>>
        /\ \A t \in Stoppers : pc'[t] = pc[t] /\ exec'[t] = exec[t]
    BY <1>2, SendsEffect DEF HandlerKept
  <2>3. \A g \in Handlers : pc[g] # "idle" => exec[g] # e
    BY <1>0, <2>1, ServesItsPhase DEF InPhase, Waiting, Ended
  <2>4. \A d \in Execs : Startable(d)' => Startable(d)
    BY <2>1, <2>2, <2>3 DEF Startable, Waiting
  <2>. QED
    BY <1>1, <2>1, <2>2, <2>4, ClientKeeps
<1>3. ASSUME NEW h \in Handlers, NEW e \in Execs, Receive(h, e)
      PROVE  KeepsState'
  <2>1. /\ pc[h] = "replied" /\ pc'[h] = "idle"
        /\ \A g \in Handlers \ {h} :
             pc'[g] = pc[g] /\ exec'[g] = exec[g] /\ reply'[g] = reply[g]
        /\ UNCHANGED <<shared, world>>
        /\ \A t \in Stoppers : pc'[t] = pc[t] /\ exec'[t] = exec[t]
    BY <1>3, DeliverEffect DEF Receive, HandlerKept
  <2>2. /\ step' = [step EXCEPT ![e] = AfterAnswer(step[e], reply[h])]
        /\ exec[h] = e
    BY <1>3, NoHandlerAssumption DEF Receive, Become, Serving
  <2>3. AfterAnswer(step[e], reply[h]) \in {"preparing", "prepared"}
          => /\ AfterAnswer(step[e], reply[h]) = "prepared"
             /\ step[e] = "preparing" /\ reply[h] = "ok"
    BY <1>3 DEF Receive, Waiting, AfterAnswer
  <2>4. \A d \in Execs : Startable(d)' => Startable(d)
    BY <2>1, <2>2, <2>3 DEF Startable
  <2>. QED
    BY <1>1, <2>1, <2>4, ClientKeeps
<1>4. ASSUME NEW h \in Handlers, Drop(h) PROVE KeepsState'
  <2>1. /\ pc'[h] = "idle"
        /\ \A g \in Handlers \ {h} :
             pc'[g] = pc[g] /\ exec'[g] = exec[g] /\ reply'[g] = reply[g]
        /\ UNCHANGED <<shared, world>>
        /\ \A t \in Stoppers : pc'[t] = pc[t] /\ exec'[t] = exec[t]
    BY <1>4, DeliverEffect DEF Drop, HandlerKept
  <2>2. \A d \in Execs : Startable(d)' => Startable(d)
    BY <1>4, <2>1 DEF Startable, Drop, client
  <2>. QED
    BY <1>1, <2>1, <2>2, ClientKeeps
<1>5. ASSUME NEW e \in Execs, ClientOnly(e) PROVE KeepsState'
  <2>1. PICK s \in {"ending", "done", "vanished"} :
          step' = [step EXCEPT ![e] = s]
    BY <1>5, ClientOnlyEffect
  <2>2. UNCHANGED vars
    BY <1>5, ClientOnlyEffect
  <2>3. UNCHANGED <<shared, world, pc, exec, reply>>
    BY <2>2 DEF vars, locals
  <2>4. \A d \in Execs : Startable(d)' => Startable(d)
    BY <2>1, <2>3 DEF Startable
  <2>. QED
    BY <1>1, <2>3, <2>4, ClientKeeps
<1>6. ~ProcessRestarts
  BY <1>0 DEF ProcessRestarts
<1>. QED
  BY <1>2, <1>3, <1>4, <1>5, <1>6, LifecycleCases, HandlerStepKeeps,
     BackgroundKeeps

KeepInv == ClientInv /\ Serving /\ KeepsState

LEMMA KeepInvariant ==
  ASSUME NoSignalNoRestart PROVE LifecycleSpec => []KeepInv
<1>1. LifecycleInit => KeepInv
  <2>. SUFFICES ASSUME LifecycleInit PROVE KeepInv
    OBVIOUS
  <2>1. ClientInv /\ Serving
    BY InitClientInv, InitServing
  <2>2. KeepsState
    BY ThreadsAssumption, ExecsAssumption
    DEF LifecycleInit, Init, FreshPC, NoneFor, KeepsState, MonitorsComeLater,
        RolledBackFirst, PreparedIsSaved, Startable, RollbackStateKept, Owed
  <2>. QED
    BY <2>1, <2>2 DEF KeepInv
<1>2. KeepInv /\ [LifecycleNext]_allVars => KeepInv'
  BY NextClientInv, NextServing, NextKeeps DEF KeepInv, ClientInv
<1>. QED
  BY <1>1, <1>2, PTL DEF LifecycleSpec

(* As long as clients may disappear at any time and heartbeats may be late, *)
(* but no signal arrives, no process ends and no request is given up, the  *)
(* SDK keeps a state for every modification that is in place: neither      *)
(* handleStop nor StopAction deletes the state of an execution that a      *)
(* start has just modified (handleStart, handleStop, StopAction).          *)
THEOREM RollbackAlwaysPossible ==
  ASSUME Faults \subseteq {"vanish", "delay"}
  PROVE  LifecycleSpec => []RollbackStateKept
<1>1. LifecycleSpec => []KeepInv
  BY KeepInvariant DEF NoSignalNoRestart
<1>2. KeepInv => RollbackStateKept
  BY DEF KeepInv, KeepsState
<1>. QED
  BY <1>1, <1>2, PTL

-----------------------------------------------------------------------------
(* The contract                                                             *)

Kept == [e \in Stoppable |-> states[e]]
Last == [e \in Stoppable |-> produced[e]]

(* A handler that is about to store a state holds the last one, because no *)
(* other handler works for its execution.                                  *)
HoldsLast ==
  \A h \in Handlers : pc[h] \in Persists => arg[h] = produced[exec[h]]

LEMMA HandlerStepHolds ==
  ASSUME NoSignalNoRestart, ClientTypeOK, Serving, HoldsLast,
         NEW h \in Handlers, HandlerStep(h)
  PROVE  HoldsLast'
<1>1. TypeOK /\ OthersKept(h) /\ pc[h] # "idle" /\ exec[h] \in Execs
  BY HandlerStepOthersKept, HandlerStepInPhase DEF ClientTypeOK
<1>2. ASSUME NEW g \in Handlers, g # h, pc[g] \in Persists
      PROVE  arg[g] = produced'[exec[g]]
  <2>1. exec[g] \in Execs
    BY <1>1, <1>2, ThreadsAssumption
    DEF TypeOK, ThreadTypeOK, Resting, Persists
  <2>2. exec[g] # exec[h]
    BY <1>1, <1>2
    DEF Serving, Persists, NoSignalNoRestart, Followed
  <2>. QED
    BY <1>1, <1>2, <2>1, <2>2 DEF HoldsLast, OthersKept
<1>. USE <1>1, ThreadsAssumption
     DEF TypeOK, LocalTypeOK, WorldTypeOK, At, Goto, Answer, Persists
<1>3. pc'[h] \in Persists => arg'[h] = produced'[exec[h]]
  <2>1. CASE CallPrepare(h) \/ CallStart(h) \/ CallStatus(h)
    BY <1>1, <2>1 DEF CallPrepare, CallStart, CallStatus, Produce
  <2>2. CASE HandleFiles(h) \/ PersistPrepared(h) \/ PersistStarted(h)
             \/ PersistStatus(h) \/ StopPrevious(h)
    BY <2>2 DEF HandleFiles, PersistPrepared, PersistStarted, PersistStatus,
                StopPrevious
  <2>3. CASE FindMonitor(h) \/ RecordHeartbeat(h) \/ CheckStatus(h)
             \/ TakeMonitor(h) \/ StopMonitor(h) \/ CheckStop(h)
             \/ CallStop(h) \/ RemoveFiles(h) \/ DeleteState(h)
    BY <2>3 DEF FindMonitor, RecordHeartbeat, CheckStatus, TakeMonitor,
                StopMonitor, AfterMonitor, CheckStop, CallStop, RemoveFiles,
                DeleteState
  <2>4. ASSUME NEW m \in Monitors, MonitorHeartbeat(h, m)
        PROVE  pc'[h] \notin Persists
    BY <2>4 DEF MonitorHeartbeat
  <2>. QED
    BY <2>1, <2>2, <2>3, <2>4 DEF HandlerStep
<1>. QED
  BY <1>1, <1>2, <1>3 DEF HoldsLast, OthersKept, HandlerKept

LEMMA NextHolds ==
  ASSUME NoSignalNoRestart, ClientTypeOK, Serving, HoldsLast,
         [LifecycleNext]_allVars
  PROVE  HoldsLast'
<1>1. ASSUME UNCHANGED produced,
             \A g \in Handlers : HandlerKept(g) \/ pc'[g] \notin Persists
      PROVE  HoldsLast'
  BY <1>1 DEF HoldsLast, HandlerKept
<1>2. ASSUME NEW h \in Handlers, NEW e \in Execs, Sends(h, e) PROVE HoldsLast'
  <2>1. /\ pc'[h] \notin Persists /\ UNCHANGED produced
        /\ \A g \in Handlers \ {h} : HandlerKept(g)
    BY <1>2, SendsEffect DEF Persists, world
  <2>. QED
    BY <1>1, <2>1
<1>3. ASSUME NEW h \in Handlers, Deliver(h) PROVE HoldsLast'
  <2>1. /\ pc'[h] \notin Persists /\ UNCHANGED produced
        /\ \A g \in Handlers \ {h} : HandlerKept(g)
    BY <1>3, DeliverEffect DEF Persists, world, ClientTypeOK
  <2>. QED
    BY <1>1, <2>1
<1>4. ASSUME NEW e \in Execs, ClientOnly(e) PROVE HoldsLast'
  <2>1. UNCHANGED vars
    BY <1>4, ClientOnlyEffect
  <2>. QED
    BY <1>1, <2>1 DEF vars, locals, world, HandlerKept
<1>5. CASE BackgroundStep
  BY <1>1, <1>5, BackgroundForgets DEF ClientTypeOK, OnlyForgets
<1>6. ~ProcessRestarts
  BY DEF ProcessRestarts, NoSignalNoRestart
<1>. QED
  BY <1>2, <1>3, <1>4, <1>5, <1>6, LifecycleCases, HandlerStepHolds
  DEF Receive, Drop

(* What a step does to the persister, to what the action's code left and   *)
(* to what is owed is a step of the contract or nothing that it sees.      *)
LEMMA ContractStutters ==
  ASSUME Kept' = Kept, Last' = Last, Owed' = Owed
  PROVE  [Contract!Next]_(Contract!contractVars)
BY DEF Contract!contractVars, Kept, Last

LEMMA RunsIsContract ==
  ASSUME TypeOK, NEW e \in Execs, NEW s \in State, states' = states,
         produced' = [produced EXCEPT ![e] = s],
         \/ Owed' = Owed
         \/ Owed' = Owed \cup {e} /\ e \in Stoppable /\ states[e] # NoState
  PROVE  [Contract!Next]_(Contract!contractVars)
<1>. USE DEF Kept, Last, TypeOK, WorldTypeOK
<1>1. CASE e \in Stoppable
  <2>1. /\ Kept' = Kept /\ Last' = [Last EXCEPT ![e] = s]
        /\ Kept[e] = states[e]
    BY <1>1, ExecsAssumption
  <2>2. Contract!Run(e, s)
    BY <2>1 DEF Contract!Run
  <2>. QED
    BY <1>1, <2>2 DEF Contract!Next
<1>2. CASE e \notin Stoppable
  <2>1. Kept' = Kept /\ Last' = Last /\ Owed' = Owed
    BY <1>2, ExecsAssumption
  <2>. QED
    BY <2>1, ContractStutters
<1>. QED
  BY <1>1, <1>2

LEMMA KeepsIsContract ==
  ASSUME TypeOK, NEW e \in Execs, produced' = produced, Owed' = Owed,
         states' = IF e \in Stoppable
                   THEN [states EXCEPT ![e] = produced[e]] ELSE states
  PROVE  [Contract!Next]_(Contract!contractVars)
<1>. USE DEF Kept, Last, TypeOK, SharedTypeOK
<1>1. CASE e \in Stoppable
  <2>1. Last' = Last /\ Kept' = [Kept EXCEPT ![e] = Last[e]]
    BY <1>1, ExecsAssumption
  <2>2. Contract!Keep(e)
    BY <2>1 DEF Contract!Keep
  <2>. QED
    BY <1>1, <2>2 DEF Contract!Next
<1>2. CASE e \notin Stoppable
  BY <1>2, ContractStutters
<1>. QED
  BY <1>1, <1>2

LEMMA RollsBackIsContract ==
  ASSUME NEW e \in Execs, UNCHANGED <<states, produced>>, Owed' = Owed \ {e}
  PROVE  [Contract!Next]_(Contract!contractVars)
<1>. USE DEF Kept, Last
<1>1. CASE e \in Stoppable
  <2>1. Contract!RollBack(e)
    BY DEF Contract!RollBack
  <2>. QED
    BY <1>1, <2>1 DEF Contract!Next
<1>2. CASE e \notin Stoppable
  BY <1>2, ContractStutters DEF Owed
<1>. QED
  BY <1>1, <1>2

LEMMA ForgetsIsContract ==
  ASSUME TypeOK, NEW e \in Execs, states' = [states EXCEPT ![e] = NoState],
         produced' = produced, Owed' = Owed, e \notin Owed
  PROVE  [Contract!Next]_(Contract!contractVars)
<1>. USE DEF Kept, Last, TypeOK, SharedTypeOK
<1>1. CASE e \in Stoppable
  <2>1. Last' = Last /\ Kept' = [Kept EXCEPT ![e] = NoState]
    BY <1>1, ExecsAssumption
  <2>2. Contract!Forget(e)
    BY <2>1 DEF Contract!Forget
  <2>. QED
    BY <1>1, <2>2 DEF Contract!Next
<1>2. CASE e \notin Stoppable
  <2>1. Kept' = Kept /\ Last' = Last
    BY <1>2, ExecsAssumption
  <2>. QED
    BY <2>1, ContractStutters
<1>. QED
  BY <1>1, <1>2

ContractInv == KeepInv /\ HoldsLast

LEMMA HandlerStepIsContract ==
  ASSUME ContractInv, NEW h \in Handlers, HandlerStep(h)
  PROVE  [Contract!Next]_(Contract!contractVars)
<1>1. TypeOK /\ exec[h] \in Execs
  BY HandlerStepInPhase DEF ContractInv, KeepInv, ClientInv, ClientTypeOK
<1>2. ASSUME UNCHANGED <<states, produced, modified, abandoned>>
      PROVE  [Contract!Next]_(Contract!contractVars)
  BY <1>2, ContractStutters DEF Kept, Last, Owed
<1>. USE DEF At, locals, shared, world
<1>3. CASE PersistPrepared(h) \/ PersistStarted(h) \/ PersistStatus(h)
  <2>1. arg[h] = produced[exec[h]]
    BY <1>3
    DEF ContractInv, HoldsLast, Persists, PersistPrepared, PersistStarted,
        PersistStatus
  <2>. QED
    BY <1>1, <1>3, <2>1, KeepsIsContract
    DEF PersistPrepared, PersistStarted, PersistStatus, PersistState, Owed
<1>4. CASE CallPrepare(h) \/ CallStart(h) \/ CallStatus(h)
  <2>1. /\ states' = states
        /\ \E s \in State : produced' = [produced EXCEPT ![exec[h]] = s]
        /\ \/ UNCHANGED <<modified, abandoned>>
           \/ /\ pc[h] = "start" /\ modified' = modified \cup {exec[h]}
              /\ abandoned' = abandoned
    BY <1>4 DEF CallPrepare, CallStart, CallStatus, Produce, State
  <2>2. pc[h] = "start" /\ exec[h] \in Stoppable => states[exec[h]] # NoState
    BY DEF ContractInv, KeepInv, KeepsState, PreparedIsSaved, Startable
  <2>3. \/ Owed' = Owed
        \/ /\ Owed' = Owed \cup {exec[h]}
           /\ exec[h] \in Stoppable /\ states[exec[h]] # NoState
    BY <2>1, <2>2 DEF Owed
  <2>. QED
    BY <1>1, <2>1, <2>3, RunsIsContract
<1>5. CASE CallStop(h)
  <2>1. /\ UNCHANGED <<states, produced>>
        /\ \/ UNCHANGED <<modified, abandoned>>
           \/ Owed' = Owed \ {exec[h]}
    BY <1>5 DEF CallStop, Owed
  <2>. QED
    BY <1>1, <1>2, <2>1, RollsBackIsContract
<1>6. CASE DeleteState(h)
  <2>1. exec[h] \notin Owed
    BY <1>6
    DEF DeleteState, ContractInv, KeepInv, KeepsState, RolledBackFirst, Owing,
        Owed
  <2>. QED
    BY <1>1, <1>6, <2>1, ForgetsIsContract DEF DeleteState, Owed
<1>7. CASE HandleFiles(h) \/ StopPrevious(h) \/ FindMonitor(h)
           \/ RecordHeartbeat(h) \/ CheckStatus(h) \/ TakeMonitor(h)
           \/ StopMonitor(h) \/ CheckStop(h) \/ RemoveFiles(h)
  <2>1. UNCHANGED <<states, produced, modified, abandoned>>
    BY <1>7
    DEF HandleFiles, StopPrevious, StopHeld, FindMonitor, RecordHeartbeat,
        CheckStatus, TakeMonitor, StopMonitor, CheckStop, RemoveFiles
  <2>. QED
    BY <1>2, <2>1
<1>8. ASSUME NEW m \in Monitors, MonitorHeartbeat(h, m)
      PROVE  UNCHANGED <<states, produced, modified, abandoned>>
  BY <1>8 DEF MonitorHeartbeat
<1>. QED
  BY <1>2, <1>3, <1>4, <1>5, <1>6, <1>7, <1>8 DEF HandlerStep

LEMMA WatcherStepIsContract ==
  ASSUME ContractInv, NEW m \in Monitors, WatcherStep(m)
  PROVE  [Contract!Next]_(Contract!contractVars)
<1>1. TypeOK /\ (pc[m] # "off" => exec[m] \in Execs)
  BY ThreadsAssumption
  DEF ContractInv, KeepInv, ClientInv, ClientTypeOK, TypeOK, ThreadTypeOK,
      PCOf, Resting, StopActionPC
<1>2. ASSUME UNCHANGED <<states, produced, modified, abandoned>>
      PROVE  [Contract!Next]_(Contract!contractVars)
  BY <1>2, ContractStutters DEF Kept, Last, Owed
<1>. USE DEF At, locals, shared, world
<1>3. CASE RollbackSucceeds(m) \/ RollbackReportsFailure(m)
  <2>1. /\ pc[m] # "off" /\ UNCHANGED <<states, produced>>
        /\ Owed' = Owed \ {exec[m]}
    BY <1>3 DEF RollbackSucceeds, RollbackReportsFailure, Owed
  <2>. QED
    BY <1>1, <2>1, RollsBackIsContract
<1>4. CASE DeleteState(m)
  <2>1. exec[m] \notin Owed
    BY <1>4
    DEF DeleteState, ContractInv, KeepInv, KeepsState, RolledBackFirst, Owing,
        Owed
  <2>. QED
    BY <1>1, <1>4, <2>1, ForgetsIsContract DEF DeleteState, Owed
<1>5. CASE HeartbeatTimeout(m) \/ WatcherEnds(m) \/ GetState(m)
           \/ MarkAsStopped(m) \/ RollbackFails(m) \/ TakeMonitor(m)
           \/ StopMonitor(m)
  <2>1. UNCHANGED <<states, produced, modified, abandoned>>
    BY <1>5
    DEF HeartbeatTimeout, WatcherEnds, GetState, MarkAsStopped, RollbackFails,
        TakeMonitor, StopMonitor, StopHeld
  <2>. QED
    BY <1>2, <2>1
<1>. QED
  BY <1>3, <1>4, <1>5 DEF WatcherStep, StopAction

LEMMA LifecycleStepIsContract ==
  ASSUME NoSignalNoRestart, ContractInv, [LifecycleNext]_allVars
  PROVE  [Contract!Next]_(Contract!contractVars)
<1>. USE DEF ContractInv, KeepInv, ClientInv, ClientTypeOK
<1>0. "restart" \notin Faults
  BY DEF NoSignalNoRestart
<1>1. ASSUME UNCHANGED <<states, produced, modified, abandoned>>
      PROVE  [Contract!Next]_(Contract!contractVars)
  BY <1>1, ContractStutters DEF Kept, Last, Owed
<1>2. ASSUME NEW h \in Handlers, NEW e \in Execs, Sends(h, e)
      PROVE  UNCHANGED <<states, produced, modified, abandoned>>
  BY <1>2, SendsEffect DEF shared, world
<1>3. ASSUME NEW h \in Handlers, Deliver(h)
      PROVE  UNCHANGED <<states, produced, modified, abandoned>>
  BY <1>3, DeliverEffect DEF shared, world
<1>4. ASSUME NEW e \in Execs, ClientOnly(e)
      PROVE  UNCHANGED <<states, produced, modified, abandoned>>
  BY <1>4, ClientOnlyEffect DEF vars, shared, world
<1>5. CASE BackgroundStep
  <2>1. produced' = produced
    BY <1>5, BackgroundForgets DEF OnlyForgets
  <2>. QED
    BY <1>1, <1>5, <2>1, BackgroundIsWatcher, WatcherStepIsContract
    DEF KeepsState
<1>6. ~ProcessRestarts
  BY <1>0 DEF ProcessRestarts
<1>. QED
  BY <1>1, <1>2, <1>3, <1>4, <1>5, <1>6, LifecycleCases, HandlerStepIsContract
  DEF Receive, Drop

(* Under the same faults the SDK and its client implement the rollback     *)
(* contract: every step of every thread leaves a state, keeps the state    *)
(* left last, modifies the system with a state kept, rolls back, forgets a *)
(* state that is not owed any more, or does nothing that the contract sees *)
(* (PersistState and DeleteState in the handlers and StopAction).          *)
THEOREM LifecycleImplementsContract ==
  ASSUME Faults \subseteq {"vanish", "delay"}
  PROVE  LifecycleSpec => ImplementsContract
<1>1. LifecycleInit => Contract!Init
  BY ExecsAssumption DEF LifecycleInit, Init, NoneFor, Contract!Init, Owed
<1>2. LifecycleSpec => []KeepInv
  BY KeepInvariant DEF NoSignalNoRestart
<1>3. LifecycleInit => HoldsLast
  BY ThreadsAssumption
  DEF LifecycleInit, Init, FreshPC, HoldsLast, Persists
<1>4. KeepInv /\ HoldsLast /\ [LifecycleNext]_allVars => HoldsLast'
  BY NextHolds DEF NoSignalNoRestart, KeepInv, ClientInv
<1>5. KeepInv /\ HoldsLast /\ [LifecycleNext]_allVars
        => [Contract!Next]_(Contract!contractVars)
  BY LifecycleStepIsContract DEF NoSignalNoRestart, ContractInv
<1>. QED
  BY <1>1, <1>2, <1>3, <1>4, <1>5, PTL
  DEF LifecycleSpec, ImplementsContract, Contract!Spec

=============================================================================

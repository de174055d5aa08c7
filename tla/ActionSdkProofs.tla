--------------------------- MODULE ActionSdkProofs ---------------------------
(* Theorems about the open SDK: they hold for every client, every number of *)
(* executions, handlers and monitors and every limit of stop events.        *)
EXTENDS ActionSdk, TLAPS

USE DEF Threads

(* No other thread's program counter and locals change. *)
Alone(t) ==
  \A u \in Threads \ {t} :
    /\ pc'[u] = pc[u]
    /\ exec'[u] = exec[u]
    /\ arg'[u] = arg[u]
    /\ held'[u] = held[u]

(* A step of thread t disturbs nobody else's types.                         *)
LEMMA OneThreadStep ==
  ASSUME TypeOK, NEW t \in Threads,
         SharedTypeOK', LocalTypeOK', WorldTypeOK', ThreadTypeOK(t)',
         Alone(t)
  PROVE  TypeOK'
  BY DEF TypeOK, ThreadTypeOK, Holding, Beating, Alone

LEMMA InitTypeOK == Init => TypeOK
<1>. SUFFICES ASSUME Init PROVE TypeOK
  OBVIOUS
<1>. USE DEF Init, NoneFor
<1>1. SharedTypeOK
  BY DEF SharedTypeOK
<1>2. LocalTypeOK
  BY DEF LocalTypeOK, FreshPC, PC, HandlerPC
<1>3. WorldTypeOK
  BY DEF WorldTypeOK
<1>4. ASSUME NEW t \in Threads PROVE ThreadTypeOK(t)
  BY ThreadsAssumption
  DEF ThreadTypeOK, FreshPC, PCOf, HandlerPC, StopActionPC, Resting, Holding, Beating
<1>. QED
  BY <1>1, <1>2, <1>3, <1>4 DEF TypeOK

LEMMA RestartTypeOK == Restart /\ TypeOK => TypeOK'
<1>. SUFFICES ASSUME Restart, TypeOK PROVE TypeOK'
  OBVIOUS
<1>. USE DEF Restart, NoneFor
<1>1. SharedTypeOK'
  BY DEF SharedTypeOK
<1>2. LocalTypeOK'
  BY DEF LocalTypeOK, FreshPC, PC, HandlerPC
<1>3. WorldTypeOK'
  BY DEF TypeOK, WorldTypeOK, world
<1>4. ASSUME NEW t \in Threads PROVE ThreadTypeOK(t)'
  BY ThreadsAssumption
  DEF ThreadTypeOK, FreshPC, PCOf, HandlerPC, StopActionPC, Resting, Holding, Beating
<1>. QED
  BY <1>1, <1>2, <1>3, <1>4 DEF TypeOK

LEMMA RequestTypeOK ==
  ASSUME TypeOK, NEW h \in Handlers, AnyRequest(h) PROVE TypeOK'
<1>1. PICK e \in Execs,
           p \in {"handleFiles", "start", "findMonitor", "takeMonitor"},
           s \in State \cup {NoState} :
        Request(h, e, p, s) /\ (p # "handleFiles" => s \in State)
  BY DEF AnyRequest, PrepareRequest, StartRequest, StatusRequest, StopRequest
<1>. USE <1>1 DEF TypeOK, Request, Goto
<1>2. SharedTypeOK'
  BY DEF SharedTypeOK, shared
<1>3. LocalTypeOK'
  BY DEF LocalTypeOK, PC, HandlerPC
<1>4. WorldTypeOK'
  BY DEF WorldTypeOK, world
<1>5. ThreadTypeOK(h)'
  BY DEF ThreadTypeOK, LocalTypeOK, PCOf, HandlerPC, Resting, Stateless,
         Holding, Beating
<1>6. Alone(h)
  BY DEF LocalTypeOK, Alone
<1>. QED
  BY <1>2, <1>3, <1>4, <1>5, <1>6, OneThreadStep

-----------------------------------------------------------------------------
(* Steps that handlers and StopAction share *)

LEMMA CommonStepTypeOK ==
  ASSUME TypeOK, NEW t \in Threads,
         TakeMonitor(t) \/ StopMonitor(t) \/ DeleteState(t)
  PROVE  TypeOK'
<1>. USE ThreadsAssumption DEF TypeOK, At, Goto
<1>1. CASE TakeMonitor(t)
  <2>. USE <1>1 DEF TakeMonitor, AfterMonitor
  <2>1. SharedTypeOK'
    BY DEF SharedTypeOK
  <2>2. LocalTypeOK'
    <3>1. pc' \in [Threads -> PC]
      BY DEF LocalTypeOK, PC, HandlerPC, StopActionPC, locals
    <3>2. reply' \in [Handlers -> Reply \cup {NoReply}]
      BY DEF LocalTypeOK, Reply, Outcomes, locals
    <3>. QED
      BY <3>1, <3>2 DEF LocalTypeOK, SharedTypeOK, ThreadTypeOK, Resting
  <2>3. WorldTypeOK'
    BY DEF WorldTypeOK, world
  <2>4. ThreadTypeOK(t)'
    BY DEF ThreadTypeOK, LocalTypeOK, SharedTypeOK, PCOf, HandlerPC,
        StopActionPC, Resting, Stateless, Holding, Beating
  <2>5. Alone(t)
    BY DEF Alone, LocalTypeOK, locals
  <2>. QED
    BY <2>1, <2>2, <2>3, <2>4, <2>5, OneThreadStep
<1>2. CASE StopMonitor(t)
  <2>. USE <1>2 DEF StopMonitor, StopHeld, AfterMonitor
  <2>1. SharedTypeOK'
    BY DEF SharedTypeOK
  <2>2. LocalTypeOK'
    <3>1. pc' \in [Threads -> PC]
      BY DEF LocalTypeOK, PC, HandlerPC, StopActionPC, locals
    <3>2. reply' \in [Handlers -> Reply \cup {NoReply}]
      BY DEF LocalTypeOK, Reply, Outcomes, locals
    <3>. QED
      BY <3>1, <3>2 DEF LocalTypeOK, locals
  <2>3. WorldTypeOK'
    BY DEF WorldTypeOK, world
  <2>4. ThreadTypeOK(t)'
    BY DEF ThreadTypeOK, LocalTypeOK, PCOf, HandlerPC, StopActionPC,
        Resting, Stateless, Holding, Beating
  <2>5. Alone(t)
    BY DEF Alone, LocalTypeOK, locals
  <2>. QED
    BY <2>1, <2>2, <2>3, <2>4, <2>5, OneThreadStep
<1>3. CASE DeleteState(t)
  <2>. USE <1>3 DEF DeleteState, Answer, ReturnOf
  <2>1. SharedTypeOK'
    BY DEF SharedTypeOK
  <2>2. LocalTypeOK'
    <3>1. pc' \in [Threads -> PC]
      BY DEF LocalTypeOK, PC, HandlerPC, StopActionPC, locals
    <3>2. reply' \in [Handlers -> Reply \cup {NoReply}]
      BY DEF LocalTypeOK, Reply, Outcomes, locals
    <3>. QED
      BY <3>1, <3>2 DEF LocalTypeOK, locals
  <2>3. WorldTypeOK'
    BY DEF WorldTypeOK, world
  <2>4. ThreadTypeOK(t)'
    BY DEF ThreadTypeOK, LocalTypeOK, PCOf, HandlerPC, StopActionPC,
        Resting, Stateless, Holding, Beating
  <2>5. Alone(t)
    BY DEF Alone, LocalTypeOK, locals
  <2>. QED
    BY <2>1, <2>2, <2>3, <2>4, <2>5, OneThreadStep
<1>. QED
  BY <1>1, <1>2, <1>3

-----------------------------------------------------------------------------
(* Handlers *)

LEMMA MonitorHeartbeatTypeOK ==
  ASSUME TypeOK, NEW h \in Handlers, NEW m \in Monitors, MonitorHeartbeat(h, m)
  PROVE  TypeOK'
<1>. USE ThreadsAssumption DEF TypeOK, MonitorHeartbeat, At
<1>1. SharedTypeOK'
  BY DEF SharedTypeOK, ThreadTypeOK, Resting
<1>2. exec[h] \in Execs
  BY DEF ThreadTypeOK, Resting
<1>3. pc' \in [Threads -> PC]
  BY DEF LocalTypeOK, PC, HandlerPC
<1>4. LocalTypeOK'
  BY <1>2, <1>3 DEF LocalTypeOK, SharedTypeOK
<1>5. WorldTypeOK'
  BY DEF WorldTypeOK, world
<1>6. ThreadTypeOK(h)'
  BY <1>2 DEF ThreadTypeOK, LocalTypeOK, SharedTypeOK, PCOf, HandlerPC,
              Resting, Stateless, Holding, Beating
<1>7. ThreadTypeOK(m)'
  BY <1>2 DEF ThreadTypeOK, LocalTypeOK, PCOf, Resting, Stateless, Holding, Beating
<1>8. ASSUME NEW u \in Threads \ {h, m} PROVE ThreadTypeOK(u)'
  BY DEF ThreadTypeOK, LocalTypeOK, Holding, Beating
<1>. QED
  BY <1>1, <1>4, <1>5, <1>6, <1>7, <1>8

LEMMA HandlerStepTypeOK ==
  ASSUME TypeOK, NEW h \in Handlers, HandlerStep(h) PROVE TypeOK'
<1>. USE ThreadsAssumption DEF TypeOK, At, Goto
<1>1. CASE HandleFiles(h)
  <2>. USE <1>1 DEF HandleFiles, Answer
  <2>1. SharedTypeOK'
    BY DEF SharedTypeOK, shared
  <2>2. LocalTypeOK'
    <3>1. pc' \in [Threads -> PC]
      BY DEF LocalTypeOK, PC, HandlerPC, StopActionPC, locals
    <3>2. reply' \in [Handlers -> Reply \cup {NoReply}]
      BY DEF LocalTypeOK, Reply, Outcomes, locals
    <3>. QED
      BY <3>1, <3>2 DEF LocalTypeOK, locals
  <2>3. WorldTypeOK'
    BY DEF WorldTypeOK, ThreadTypeOK, Resting
  <2>4. ThreadTypeOK(h)'
    BY DEF ThreadTypeOK, LocalTypeOK, PCOf, HandlerPC, Resting, Stateless,
        Holding, Beating, locals
  <2>5. Alone(h)
    BY DEF Alone, LocalTypeOK, locals
  <2>. QED
    BY <2>1, <2>2, <2>3, <2>4, <2>5, OneThreadStep
<1>2. CASE CallPrepare(h)
  <2>. USE <1>2 DEF CallPrepare, Produce, Answer
  <2>1. SharedTypeOK'
    BY DEF SharedTypeOK, shared
  <2>2. LocalTypeOK'
    <3>1. pc' \in [Threads -> PC]
      BY DEF LocalTypeOK, PC, HandlerPC, StopActionPC, locals
    <3>2. reply' \in [Handlers -> Reply \cup {NoReply}]
      BY DEF LocalTypeOK, Reply, Outcomes, locals
    <3>. QED
      BY <3>1, <3>2 DEF LocalTypeOK, State
  <2>3. WorldTypeOK'
    BY DEF WorldTypeOK, State, ThreadTypeOK, Resting
  <2>4. ThreadTypeOK(h)'
    BY DEF ThreadTypeOK, LocalTypeOK, PCOf, HandlerPC, Resting, Stateless,
        Holding, Beating, locals, State
  <2>5. Alone(h)
    BY DEF Alone, LocalTypeOK, locals
  <2>. QED
    BY <2>1, <2>2, <2>3, <2>4, <2>5, OneThreadStep
<1>3. CASE PersistPrepared(h)
  <2>. USE <1>3 DEF PersistPrepared, PersistState
  <2>1. SharedTypeOK'
    BY DEF SharedTypeOK, ThreadTypeOK, Resting, Stateless
  <2>2. LocalTypeOK'
    BY DEF LocalTypeOK, PC, HandlerPC, locals
  <2>3. WorldTypeOK'
    BY DEF WorldTypeOK, world
  <2>4. ThreadTypeOK(h)'
    BY DEF ThreadTypeOK, LocalTypeOK, PCOf, HandlerPC, Resting, Stateless,
        Holding, Beating, locals
  <2>5. Alone(h)
    BY DEF Alone, LocalTypeOK, locals
  <2>. QED
    BY <2>1, <2>2, <2>3, <2>4, <2>5, OneThreadStep
<1>4. CASE CallStart(h)
  <2>. USE <1>4 DEF CallStart, Produce, Answer
  <2>1. SharedTypeOK'
    BY DEF SharedTypeOK, shared
  <2>2. LocalTypeOK'
    <3>1. pc' \in [Threads -> PC]
      BY DEF LocalTypeOK, PC, HandlerPC, StopActionPC, locals
    <3>2. reply' \in [Handlers -> Reply \cup {NoReply}]
      BY DEF LocalTypeOK, Reply, Outcomes, locals
    <3>. QED
      BY <3>1, <3>2 DEF LocalTypeOK, State
  <2>3. WorldTypeOK'
    BY DEF WorldTypeOK, State, ThreadTypeOK, Resting
  <2>4. ThreadTypeOK(h)'
    BY DEF ThreadTypeOK, LocalTypeOK, PCOf, HandlerPC, Resting, Stateless,
        Holding, Beating, locals, State
  <2>5. Alone(h)
    BY DEF Alone, LocalTypeOK, locals
  <2>. QED
    BY <2>1, <2>2, <2>3, <2>4, <2>5, OneThreadStep
<1>5. CASE PersistStarted(h)
  <2>. USE <1>5 DEF PersistStarted, PersistState
  <2>1. SharedTypeOK'
    BY DEF SharedTypeOK, ThreadTypeOK, Resting, Stateless
  <2>2. LocalTypeOK'
    BY DEF LocalTypeOK, PC, HandlerPC, locals
  <2>3. WorldTypeOK'
    BY DEF WorldTypeOK, world
  <2>4. ThreadTypeOK(h)'
    BY DEF ThreadTypeOK, LocalTypeOK, PCOf, HandlerPC, Resting, Stateless,
        Holding, Beating, locals
  <2>5. Alone(h)
    BY DEF Alone, LocalTypeOK, locals
  <2>. QED
    BY <2>1, <2>2, <2>3, <2>4, <2>5, OneThreadStep
<1>6. CASE StopPrevious(h)
  <2>. USE <1>6 DEF StopPrevious, StopHeld
  <2>1. SharedTypeOK'
    BY DEF SharedTypeOK
  <2>2. LocalTypeOK'
    BY DEF LocalTypeOK, PC, HandlerPC, locals
  <2>3. WorldTypeOK'
    BY DEF WorldTypeOK, world
  <2>4. ThreadTypeOK(h)'
    BY DEF ThreadTypeOK, LocalTypeOK, PCOf, HandlerPC, Resting, Stateless,
        Holding, Beating, locals
  <2>5. Alone(h)
    BY DEF Alone, LocalTypeOK, locals
  <2>. QED
    BY <2>1, <2>2, <2>3, <2>4, <2>5, OneThreadStep
<1>7. CASE FindMonitor(h) \/ RecordHeartbeat(h)
  <2>. USE <1>7 DEF FindMonitor, RecordHeartbeat
  <2>1. SharedTypeOK'
    BY DEF SharedTypeOK, shared
  <2>2. LocalTypeOK'
    <3>1. held' \in [Threads -> Monitors \cup {NoMonitor}]
      BY DEF LocalTypeOK, SharedTypeOK, ThreadTypeOK, Resting
    <3>2. pc' \in [Threads -> PC]
      BY DEF LocalTypeOK, PC, HandlerPC
    <3>. QED
      BY <3>1, <3>2 DEF LocalTypeOK
  <2>3. WorldTypeOK'
    BY DEF WorldTypeOK, world
  <2>4. ThreadTypeOK(h)'
    BY DEF ThreadTypeOK, LocalTypeOK, SharedTypeOK, PCOf, HandlerPC, Resting,
        Stateless, Holding, Beating
  <2>5. Alone(h)
    BY DEF Alone, LocalTypeOK
  <2>. QED
    BY <2>1, <2>2, <2>3, <2>4, <2>5, OneThreadStep
<1>8. CASE CheckStatus(h)
  <2>. USE <1>8 DEF CheckStatus, Answer
  <2>1. SharedTypeOK'
    BY DEF SharedTypeOK, shared
  <2>2. LocalTypeOK'
    <3>1. pc' \in [Threads -> PC]
      BY DEF LocalTypeOK, PC, HandlerPC, StopActionPC, locals
    <3>2. reply' \in [Handlers -> Reply \cup {NoReply}]
      BY DEF LocalTypeOK, Reply, Outcomes, locals
    <3>. QED
      BY <3>1, <3>2 DEF LocalTypeOK, locals
  <2>3. WorldTypeOK'
    BY DEF WorldTypeOK, world
  <2>4. ThreadTypeOK(h)'
    BY DEF ThreadTypeOK, LocalTypeOK, PCOf, HandlerPC, Resting, Stateless,
        Holding, Beating, locals
  <2>5. Alone(h)
    BY DEF Alone, LocalTypeOK, locals
  <2>. QED
    BY <2>1, <2>2, <2>3, <2>4, <2>5, OneThreadStep
<1>9. CASE CallStatus(h)
  <2>. USE <1>9 DEF CallStatus, Produce, Answer
  <2>1. SharedTypeOK'
    BY DEF SharedTypeOK, shared
  <2>2. LocalTypeOK'
    <3>1. pc' \in [Threads -> PC]
      BY DEF LocalTypeOK, PC, HandlerPC, StopActionPC, locals
    <3>2. reply' \in [Handlers -> Reply \cup {NoReply}]
      BY DEF LocalTypeOK, Reply, Outcomes, locals
    <3>. QED
      BY <3>1, <3>2 DEF LocalTypeOK, State
  <2>3. WorldTypeOK'
    BY DEF WorldTypeOK, State, ThreadTypeOK, Resting
  <2>4. ThreadTypeOK(h)'
    BY DEF ThreadTypeOK, LocalTypeOK, PCOf, HandlerPC, Resting, Stateless,
        Holding, Beating, locals, State
  <2>5. Alone(h)
    BY DEF Alone, LocalTypeOK, locals
  <2>. QED
    BY <2>1, <2>2, <2>3, <2>4, <2>5, OneThreadStep
<1>10. CASE PersistStatus(h)
  <2>. USE <1>10 DEF PersistStatus, PersistState
  <2>1. SharedTypeOK'
    BY DEF SharedTypeOK, ThreadTypeOK, Resting, Stateless
  <2>2. LocalTypeOK'
    BY DEF LocalTypeOK, PC, HandlerPC, locals
  <2>3. WorldTypeOK'
    BY DEF WorldTypeOK, world
  <2>4. ThreadTypeOK(h)'
    BY DEF ThreadTypeOK, LocalTypeOK, PCOf, HandlerPC, Resting, Stateless,
        Holding, Beating, locals
  <2>5. Alone(h)
    BY DEF Alone, LocalTypeOK, locals
  <2>. QED
    BY <2>1, <2>2, <2>3, <2>4, <2>5, OneThreadStep
<1>11. CASE CheckStop(h)
  <2>. USE <1>11 DEF CheckStop, Answer
  <2>1. SharedTypeOK'
    BY DEF SharedTypeOK, shared
  <2>2. LocalTypeOK'
    <3>1. pc' \in [Threads -> PC]
      BY DEF LocalTypeOK, PC, HandlerPC, StopActionPC, locals
    <3>2. reply' \in [Handlers -> Reply \cup {NoReply}]
      BY DEF LocalTypeOK, Reply, Outcomes, locals
    <3>. QED
      BY <3>1, <3>2 DEF LocalTypeOK, locals
  <2>3. WorldTypeOK'
    BY DEF WorldTypeOK, world
  <2>4. ThreadTypeOK(h)'
    BY DEF ThreadTypeOK, LocalTypeOK, PCOf, HandlerPC, Resting, Stateless,
        Holding, Beating, locals
  <2>5. Alone(h)
    BY DEF Alone, LocalTypeOK, locals
  <2>. QED
    BY <2>1, <2>2, <2>3, <2>4, <2>5, OneThreadStep
<1>12. CASE CallStop(h)
  <2>. USE <1>12 DEF CallStop, Answer
  <2>1. SharedTypeOK'
    BY DEF SharedTypeOK, shared
  <2>2. LocalTypeOK'
    <3>1. pc' \in [Threads -> PC]
      BY DEF LocalTypeOK, PC, HandlerPC, StopActionPC, locals
    <3>2. reply' \in [Handlers -> Reply \cup {NoReply}]
      BY DEF LocalTypeOK, Reply, Outcomes, locals
    <3>. QED
      BY <3>1, <3>2 DEF LocalTypeOK, locals
  <2>3. WorldTypeOK'
    BY DEF WorldTypeOK
  <2>4. ThreadTypeOK(h)'
    BY DEF ThreadTypeOK, LocalTypeOK, PCOf, HandlerPC, Resting, Stateless,
        Holding, Beating, locals
  <2>5. Alone(h)
    BY DEF Alone, LocalTypeOK, locals
  <2>. QED
    BY <2>1, <2>2, <2>3, <2>4, <2>5, OneThreadStep
<1>13. CASE RemoveFiles(h)
  <2>. USE <1>13 DEF RemoveFiles
  <2>1. SharedTypeOK'
    BY DEF SharedTypeOK, shared
  <2>2. LocalTypeOK'
    BY DEF LocalTypeOK, PC, HandlerPC, locals
  <2>3. WorldTypeOK'
    BY DEF WorldTypeOK
  <2>4. ThreadTypeOK(h)'
    BY DEF ThreadTypeOK, LocalTypeOK, PCOf, HandlerPC, Resting, Stateless,
        Holding, Beating, locals
  <2>5. Alone(h)
    BY DEF Alone, LocalTypeOK, locals
  <2>. QED
    BY <2>1, <2>2, <2>3, <2>4, <2>5, OneThreadStep
<1>14. CASE TakeMonitor(h) \/ StopMonitor(h) \/ DeleteState(h)
  BY <1>14, CommonStepTypeOK
<1>15. ASSUME NEW m \in Monitors, MonitorHeartbeat(h, m) PROVE TypeOK'
  BY <1>15, MonitorHeartbeatTypeOK
<1>. QED
  BY <1>1, <1>2, <1>3, <1>4, <1>5, <1>6, <1>7, <1>8, <1>9, <1>10, <1>11,
      <1>12, <1>13, <1>14, <1>15 DEF HandlerStep

LEMMA DeliverTypeOK ==
  ASSUME TypeOK, NEW h \in Handlers, Deliver(h) PROVE TypeOK'
<1>. USE ThreadsAssumption DEF TypeOK, At, Goto
<1>. USE DEF Deliver
<1>1. SharedTypeOK'
  BY DEF SharedTypeOK, shared
<1>2. LocalTypeOK'
  BY DEF LocalTypeOK, PC, HandlerPC, locals
<1>3. WorldTypeOK'
  BY DEF WorldTypeOK, world
<1>4. ThreadTypeOK(h)'
  BY DEF ThreadTypeOK, LocalTypeOK, PCOf, HandlerPC, Resting, Stateless,
      Holding, Beating, locals
<1>5. Alone(h)
  BY DEF Alone, LocalTypeOK, locals
<1>. QED
  BY <1>1, <1>2, <1>3, <1>4, <1>5, OneThreadStep

-----------------------------------------------------------------------------
(* StopAction, the goroutines of the monitors and the signal handler *)

LEMMA StopActionTypeOK ==
  ASSUME TypeOK, NEW t \in Stoppers, StopAction(t) PROVE TypeOK'
<1>. USE ThreadsAssumption DEF TypeOK, Stoppers, At, Goto
<1>1. CASE GetState(t)
  <2>. USE <1>1 DEF GetState, ReturnOf
  <2>1. SharedTypeOK'
    BY DEF SharedTypeOK, shared
  <2>2. LocalTypeOK'
    BY DEF LocalTypeOK, SharedTypeOK, ThreadTypeOK, PC, StopActionPC,
        Resting
  <2>3. WorldTypeOK'
    BY DEF WorldTypeOK, world
  <2>4. ThreadTypeOK(t)'
    BY DEF ThreadTypeOK, LocalTypeOK, PCOf, StopActionPC, Resting,
        Stateless, Holding, Beating, locals, SharedTypeOK
  <2>5. Alone(t)
    BY DEF Alone, LocalTypeOK, locals
  <2>. QED
    BY <2>1, <2>2, <2>3, <2>4, <2>5, OneThreadStep
<1>2. CASE MarkAsStopped(t)
  <2>. USE <1>2 DEF MarkAsStopped
  <2>1. SharedTypeOK'
    <3>1. stopEvents \in Seq(Execs) /\ exec[t] \in Execs
      BY DEF SharedTypeOK, ThreadTypeOK, Resting
    <3>2. ASSUME NEW kept \in Seq(Execs)
          PROVE  Append(kept, exec[t]) \in Seq(Execs)
      BY <3>1
    <3>3. Len(stopEvents) > MaxStopEvents => Tail(stopEvents) \in Seq(Execs)
      BY <3>1, MaxStopEventsAssumption
    <3>4. stopEvents' \in Seq(Execs)
      BY <3>1, <3>2, <3>3
    <3>. QED
      BY <3>4 DEF SharedTypeOK
  <2>2. LocalTypeOK'
    BY DEF LocalTypeOK, PC, StopActionPC, locals
  <2>3. WorldTypeOK'
    BY DEF WorldTypeOK, world
  <2>4. ThreadTypeOK(t)'
    BY DEF ThreadTypeOK, LocalTypeOK, PCOf, StopActionPC, Resting,
        Stateless, Holding, Beating, locals
  <2>5. Alone(t)
    BY DEF Alone, LocalTypeOK, locals
  <2>. QED
    BY <2>1, <2>2, <2>3, <2>4, <2>5, OneThreadStep
<1>3. CASE RollbackSucceeds(t) \/ RollbackReportsFailure(t)
  <2>. USE <1>3 DEF RollbackSucceeds, RollbackReportsFailure
  <2>1. SharedTypeOK'
    BY DEF SharedTypeOK, shared
  <2>2. LocalTypeOK'
    BY DEF LocalTypeOK, PC, StopActionPC, locals
  <2>3. WorldTypeOK'
    BY DEF WorldTypeOK
  <2>4. ThreadTypeOK(t)'
    BY DEF ThreadTypeOK, LocalTypeOK, PCOf, StopActionPC, Resting,
        Stateless, Holding, Beating, locals
  <2>5. Alone(t)
    BY DEF Alone, LocalTypeOK, locals
  <2>. QED
    BY <2>1, <2>2, <2>3, <2>4, <2>5, OneThreadStep
<1>4. CASE RollbackFails(t)
  <2>. USE <1>4 DEF RollbackFails, ReturnOf
  <2>1. SharedTypeOK'
    BY DEF SharedTypeOK, shared
  <2>2. LocalTypeOK'
    BY DEF LocalTypeOK, PC, StopActionPC, locals
  <2>3. WorldTypeOK'
    BY DEF WorldTypeOK, world
  <2>4. ThreadTypeOK(t)'
    BY DEF ThreadTypeOK, LocalTypeOK, PCOf, StopActionPC, Resting,
        Stateless, Holding, Beating, locals
  <2>5. Alone(t)
    BY DEF Alone, LocalTypeOK, locals
  <2>. QED
    BY <2>1, <2>2, <2>3, <2>4, <2>5, OneThreadStep
<1>5. CASE TakeMonitor(t) \/ StopMonitor(t) \/ DeleteState(t)
  BY <1>5, CommonStepTypeOK
<1>. QED
  BY <1>1, <1>2, <1>3, <1>4, <1>5 DEF StopAction

LEMMA MonitorTypeOK ==
  ASSUME TypeOK, NEW m \in Monitors, Silence(m) \/ Notify(m) \/ WatcherStep(m)
  PROVE  TypeOK'
<1>. USE ThreadsAssumption DEF TypeOK, At, Goto
<1>1. CASE HeartbeatTimeout(m)
  <2>. USE <1>1 DEF HeartbeatTimeout
  <2>1. SharedTypeOK'
    BY DEF SharedTypeOK
  <2>2. LocalTypeOK'
    BY DEF LocalTypeOK, PC, StopActionPC, locals
  <2>3. WorldTypeOK'
    BY DEF WorldTypeOK, world
  <2>4. ThreadTypeOK(m)'
    BY DEF ThreadTypeOK, LocalTypeOK, PCOf, StopActionPC, Resting,
        Stateless, Holding, Beating, locals
  <2>5. Alone(m)
    BY DEF Alone, LocalTypeOK, locals
  <2>. QED
    BY <2>1, <2>2, <2>3, <2>4, <2>5, OneThreadStep
<1>2. CASE WatcherEnds(m)
  <2>. USE <1>2 DEF WatcherEnds
  <2>1. SharedTypeOK'
    BY DEF SharedTypeOK, shared
  <2>2. LocalTypeOK'
    BY DEF LocalTypeOK, PC, StopActionPC, locals
  <2>3. WorldTypeOK'
    BY DEF WorldTypeOK, world
  <2>4. ThreadTypeOK(m)'
    BY DEF ThreadTypeOK, LocalTypeOK, PCOf, StopActionPC, Resting,
        Stateless, Holding, Beating, locals
  <2>5. Alone(m)
    BY DEF Alone, LocalTypeOK, locals
  <2>. QED
    BY <2>1, <2>2, <2>3, <2>4, <2>5, OneThreadStep
<1>3. CASE StopAction(m)
  BY <1>3, StopActionTypeOK DEF Stoppers
<1>4. CASE Silence(m) \/ Notify(m)
  <2>. USE <1>4 DEF Silence, Notify
  <2>1. SharedTypeOK'
    BY DEF SharedTypeOK
  <2>2. LocalTypeOK' /\ WorldTypeOK'
    BY DEF LocalTypeOK, WorldTypeOK, locals, world
  <2>3. \A t \in Threads : ThreadTypeOK(t)'
    BY DEF ThreadTypeOK, Holding, Beating, locals
  <2>. QED
    BY <2>1, <2>2, <2>3
<1>. QED
  BY <1>1, <1>2, <1>3, <1>4 DEF WatcherStep

LEMMA SignalTypeOK ==
  ASSUME TypeOK, SignalArrives \/ SignalStep PROVE TypeOK'
<1>. USE ThreadsAssumption DEF TypeOK, At, Goto
<1>1. CASE SignalArrives
  <2>. USE <1>1 DEF SignalArrives
  <2>1. SharedTypeOK'
    BY DEF SharedTypeOK, shared
  <2>2. LocalTypeOK'
    BY DEF LocalTypeOK, PC
  <2>3. WorldTypeOK'
    BY DEF WorldTypeOK, world
  <2>4. ThreadTypeOK(Signal)'
    BY DEF ThreadTypeOK, LocalTypeOK, PCOf, StopActionPC, Resting,
        Stateless, Holding, Beating, locals
  <2>5. Alone(Signal)
    BY DEF Alone, LocalTypeOK, locals
  <2>. QED
    BY <2>1, <2>2, <2>3, <2>4, <2>5, OneThreadStep
<1>2. CASE StopNext
  <2>. USE <1>2 DEF StopNext
  <2>1. SharedTypeOK'
    BY DEF SharedTypeOK, shared
  <2>2. LocalTypeOK'
    BY DEF LocalTypeOK, PC, StopActionPC
  <2>3. WorldTypeOK'
    BY DEF WorldTypeOK, world
  <2>4. ThreadTypeOK(Signal)'
    BY DEF ThreadTypeOK, LocalTypeOK, PCOf, StopActionPC, Resting,
        Stateless, Holding, Beating, locals
  <2>5. Alone(Signal)
    BY DEF Alone, LocalTypeOK, locals
  <2>. QED
    BY <2>1, <2>2, <2>3, <2>4, <2>5, OneThreadStep
<1>3. CASE AllStopped
  <2>. USE <1>3 DEF AllStopped
  <2>1. SharedTypeOK'
    BY DEF SharedTypeOK, shared
  <2>2. LocalTypeOK'
    BY DEF LocalTypeOK, PC, HandlerPC
  <2>3. WorldTypeOK'
    BY DEF WorldTypeOK, world
  <2>4. ThreadTypeOK(Signal)'
    BY DEF ThreadTypeOK, LocalTypeOK, PCOf, StopActionPC, Resting,
        Stateless, Holding, Beating, locals
  <2>5. Alone(Signal)
    BY DEF Alone, LocalTypeOK, locals
  <2>. QED
    BY <2>1, <2>2, <2>3, <2>4, <2>5, OneThreadStep
<1>4. CASE StopAction(Signal)
  BY <1>4, StopActionTypeOK DEF Stoppers
<1>. QED
  BY <1>1, <1>2, <1>3, <1>4 DEF SignalStep

-----------------------------------------------------------------------------

LEMMA NextTypeOK ==
  ASSUME TypeOK, [Next]_vars PROVE TypeOK'
<1>1. ASSUME NEW h \in Handlers, AnyRequest(h) \/ HandlerStep(h) \/ Deliver(h)
      PROVE  TypeOK'
  BY <1>1, RequestTypeOK, HandlerStepTypeOK, DeliverTypeOK
<1>2. ASSUME NEW m \in Monitors, Silence(m) \/ Notify(m) \/ WatcherStep(m)
      PROVE  TypeOK'
  BY <1>2, MonitorTypeOK
<1>3. CASE SignalArrives \/ SignalStep \/ Restart
  BY <1>3, SignalTypeOK, RestartTypeOK
<1>4. CASE UNCHANGED vars
  BY <1>4 DEF vars, shared, locals, world, TypeOK, SharedTypeOK, LocalTypeOK,
              WorldTypeOK, ThreadTypeOK, Holding, Beating
<1>. QED
  BY <1>1, <1>2, <1>3, <1>4 DEF Next

(* Whatever clients ask for, whatever times out and whenever the process    *)
(* restarts, no thread dereferences an execution, a state or a monitor that *)
(* it does not have (handlePrepare, handleStart, handleStatus, handleStop,  *)
(* StopAction).                                                             *)
THEOREM TypeCorrect == Spec => []TypeOK
<1>1. TypeOK /\ [Next]_vars => TypeOK'
  BY NextTypeOK
<1>. QED
  BY InitTypeOK, <1>1, PTL DEF Spec

-----------------------------------------------------------------------------
(* The list of stop events *)

LEMMA MarkAsStoppedBounded ==
  ASSUME TypeOK, StopEventsBounded, NEW t \in Threads, MarkAsStopped(t)
  PROVE  StopEventsBounded'
<1>1. /\ stopEvents \in Seq(Execs)
      /\ exec[t] \in Execs
  BY DEF TypeOK, SharedTypeOK, ThreadTypeOK, Resting, MarkAsStopped, At
<1>2. Len(stopEvents) \in Nat
  BY <1>1
<1>3. CASE Len(stopEvents) > MaxStopEvents
  <2>1. Tail(stopEvents) \in Seq(Execs)
    BY <1>1, <1>2, <1>3, MaxStopEventsAssumption
  <2>2. Len(Tail(stopEvents)) = Len(stopEvents) - 1
    BY <1>1, <1>2, <1>3, MaxStopEventsAssumption
  <2>3. stopEvents' = Append(Tail(stopEvents), exec[t])
    BY <1>3 DEF MarkAsStopped
  <2>4. Len(stopEvents') = Len(Tail(stopEvents)) + 1
    BY <1>1, <2>1, <2>3
  <2>. QED
    BY <1>2, <2>2, <2>4 DEF StopEventsBounded
<1>4. CASE ~(Len(stopEvents) > MaxStopEvents)
  <2>1. Len(stopEvents') = Len(stopEvents) + 1
    BY <1>1, <1>4 DEF MarkAsStopped
  <2>. QED
    BY <1>2, <1>4, <2>1, MaxStopEventsAssumption DEF StopEventsBounded
<1>. QED
  BY <1>3, <1>4

(* Which steps change the list.                                             *)
LEMMA MonitorStepEvents ==
  ASSUME NEW t \in Threads, TakeMonitor(t) \/ StopMonitor(t) \/ DeleteState(t)
  PROVE  stopEvents' = stopEvents
BY DEF TakeMonitor, StopMonitor, StopHeld, DeleteState, shared

LEMMA HandlerStepEvents ==
  ASSUME NEW h \in Handlers, HandlerStep(h)
  PROVE  stopEvents' = stopEvents
BY MonitorStepEvents DEF Threads, shared, HandlerStep, HandleFiles, CallPrepare,
   CallStart, CallStatus, Produce, PersistPrepared, PersistStarted,
   PersistStatus, StopPrevious, StopHeld, MonitorHeartbeat, FindMonitor, RecordHeartbeat,
   CheckStatus, CheckStop, CallStop, RemoveFiles

LEMMA WatcherStepEvents ==
  ASSUME NEW m \in Monitors, Silence(m) \/ Notify(m) \/ WatcherStep(m)
  PROVE  stopEvents' = stopEvents \/ MarkAsStopped(m)
BY MonitorStepEvents DEF Threads, shared, Silence, Notify, WatcherStep,
   HeartbeatTimeout, WatcherEnds, StopAction, GetState, RollbackSucceeds,
   RollbackReportsFailure, RollbackFails

LEMMA SignalStepEvents ==
  ASSUME SignalArrives \/ SignalStep
  PROVE  stopEvents' = stopEvents \/ MarkAsStopped(Signal)
BY MonitorStepEvents DEF Threads, shared, SignalArrives, SignalStep, StopNext,
   AllStopped, StopAction, GetState, RollbackSucceeds, RollbackReportsFailure,
   RollbackFails

LEMMA StopEventsSteps ==
  ASSUME [Next]_vars
  PROVE  \/ stopEvents' = stopEvents
         \/ \E t \in Threads : MarkAsStopped(t)
         \/ Restart
<1>1. ASSUME NEW h \in Handlers, AnyRequest(h) \/ Deliver(h)
      PROVE  stopEvents' = stopEvents
  BY <1>1 DEF AnyRequest, PrepareRequest, StartRequest, StatusRequest,
              StopRequest, Request, Deliver, shared
<1>2. CASE UNCHANGED vars
  BY <1>2 DEF vars, shared
<1>. QED
  BY <1>1, <1>2, HandlerStepEvents, WatcherStepEvents, SignalStepEvents
  DEF Next, Threads

(* However many executions the extension stops on its own, and however      *)
(* often a failing rollback is repeated, it remembers a bounded number of   *)
(* stop events (markAsStopped).                                             *)
THEOREM StopEventsStayBounded == Spec => []StopEventsBounded
<1>1. Init => StopEventsBounded
  BY MaxStopEventsAssumption DEF Init, StopEventsBounded
<1>2. TypeOK /\ StopEventsBounded /\ [Next]_vars => StopEventsBounded'
  <2>1. Restart => StopEventsBounded'
    BY MaxStopEventsAssumption DEF Restart, StopEventsBounded
  <2>. QED
    BY <2>1, StopEventsSteps, MarkAsStoppedBounded DEF StopEventsBounded
<1>. QED
  BY TypeCorrect, <1>1, <1>2, PTL DEF Spec

(* An execution's last event in the list is the oldest of a full list: all  *)
(* the others are of other executions.                                      *)
Outnumbered(e) ==
  /\ Len(stopEvents) = MaxStopEvents + 1
  /\ \A i \in 2 .. MaxStopEvents + 1 : stopEvents[i] # e

Forgets(e) == HasStopEvent(e) /\ ~HasStopEvent(e)'

LEMMA ForgetsOutnumbered ==
  ASSUME TypeOK, StopEventsBounded, NEW t \in Threads, MarkAsStopped(t),
         NEW e \in Execs, Forgets(e)
  PROVE  Outnumbered(e)
<1>. DEFINE n == Len(stopEvents)
<1>1. /\ stopEvents \in Seq(Execs)
      /\ n \in Nat /\ DOMAIN stopEvents = 1 .. n
      /\ MaxStopEvents \in Nat /\ n <= MaxStopEvents + 1
  BY MaxStopEventsAssumption DEF TypeOK, SharedTypeOK, StopEventsBounded
<1>2. exec[t] \in Execs
  BY DEF TypeOK, ThreadTypeOK, Resting, MarkAsStopped, At
<1>3. CASE ~(n > MaxStopEvents)
  <2>1. stopEvents' = Append(stopEvents, exec[t])
    BY <1>3 DEF MarkAsStopped
  <2>2. /\ DOMAIN stopEvents' = 1 .. n + 1
        /\ \A i \in 1 .. n : stopEvents'[i] = stopEvents[i]
    BY <1>1, <1>2, <2>1
  <2>. QED
    BY <1>1, <2>2 DEF Forgets, HasStopEvent
<1>4. CASE n > MaxStopEvents
  <2>. DEFINE kept == Tail(stopEvents)
  <2>1. stopEvents' = Append(kept, exec[t])
    BY <1>4 DEF MarkAsStopped
  <2>2. /\ kept \in Seq(Execs)
        /\ Len(kept) = n - 1
        /\ \A i \in 1 .. n - 1 : kept[i] = stopEvents[i + 1]
    BY <1>1, <1>4
  <2>. HIDE DEF kept, n
  <2>3. \A i \in 1 .. n - 1 :
          i \in DOMAIN stopEvents' /\ stopEvents'[i] = kept[i]
    BY <1>1, <1>2, <2>1, <2>2
  <2>4. \A i \in 1 .. n - 1 : stopEvents[i + 1] # e
    BY <2>2, <2>3 DEF Forgets, HasStopEvent
  <2>5. n = MaxStopEvents + 1
    BY <1>1, <1>4
  <2>6. \A i \in 2 .. n : i - 1 \in 1 .. n - 1 /\ (i - 1) + 1 = i
    BY <1>1
  <2>7. \A i \in 2 .. n : stopEvents[i] # e
    BY <2>4, <2>6
  <2>. QED
    BY <2>5, <2>7 DEF Outnumbered, n
<1>. QED
  BY <1>3, <1>4

(* As long as the process lives it forgets that it stopped an execution     *)
(* only once more than MaxStopEvents events of other executions followed    *)
(* (markAsStopped).                                                         *)
THEOREM OnlyOutnumberedForgotten ==
  Spec => [][\A e \in Execs : Forgets(e) => Restart \/ Outnumbered(e)]_vars
<1>1. TypeOK /\ StopEventsBounded /\ [Next]_vars
        => [\A e \in Execs : Forgets(e) => Restart \/ Outnumbered(e)]_vars
  <2>. SUFFICES ASSUME TypeOK, StopEventsBounded, [Next]_vars,
                       NEW e \in Execs, Forgets(e)
                PROVE  Restart \/ Outnumbered(e)
    OBVIOUS
  <2>1. stopEvents' # stopEvents
    BY DEF Forgets, HasStopEvent
  <2>. QED
    BY <2>1, ForgetsOutnumbered, StopEventsSteps
<1>. QED
  BY TypeCorrect, StopEventsStayBounded, <1>1, PTL DEF Spec

-----------------------------------------------------------------------------
(***************************************************************************)
(* No heartbeat monitor of the action SDK is ever leaked, and a registered *)
(* monitor is one that runs for its own execution, for any number of       *)
(* executions, handlers and monitors.                                      *)
(***************************************************************************)

(* A monitor that a thread holds came out of heartbeatMonitors: it is not   *)
(* registered (any more) and was made before.                               *)
HeldMonitorIsTaken ==
  \A t \in Threads :
    Holding(t) => ~Registered(held[t]) /\ monitor[held[t]] # "unused"

(* The goroutine of a monitor that was never made does not run.            *)
UnusedMonitorIsOff ==
  \A m \in Monitors : monitor[m] = "unused" => pc[m] = "off"

(* A monitor that a handler is about to record a heartbeat on was made for  *)
(* the execution of the request.                                            *)
BeatsOnMade ==
  \A h \in Handlers :
    Beating(h) => monitor[held[h]] # "unused" /\ exec[held[h]] = exec[h]

MonitorInv ==
  /\ TypeOK
  /\ UnusedMonitorIsOff
  /\ RegisteredOnesRun
  /\ HeldMonitorIsTaken
  /\ NoOrphanMonitor

(* A registered monitor belongs to the execution it is registered for only. *)
LEMMA RegisteredOnce ==
  ASSUME MonitorInv, NEW e \in Execs, NEW f \in Execs,
         heartbeatMonitors[e] # NoMonitor,
         heartbeatMonitors[e] = heartbeatMonitors[f]
  PROVE  e = f
BY DEF MonitorInv, RegisteredOnesRun

LEMMA InitMonitorInv == Init => MonitorInv
<1>. SUFFICES ASSUME Init PROVE MonitorInv
  OBVIOUS
<1>1. TypeOK
  BY InitTypeOK
<1>2. \A t \in Threads : ~Holding(t)
  BY DEF Init, FreshPC, Holding
<1>3. RegisteredOnesRun
  BY DEF Init, NoneFor, RegisteredOnesRun
<1>4. NoOrphanMonitor
  BY DEF Init, NoneFor, NoOrphanMonitor, Running
<1>5. UnusedMonitorIsOff
  BY DEF Init, FreshPC, UnusedMonitorIsOff
<1>. QED
  BY <1>1, <1>2, <1>3, <1>4, <1>5 DEF MonitorInv, HeldMonitorIsTaken

-----------------------------------------------------------------------------
(* Steps that leave the monitors alone *)

(* No monitor is made, stopped, registered or handed over, no watcher of a *)
(* running monitor ends and none begins.                                    *)
LeavesMonitors ==
  /\ UNCHANGED <<heartbeatMonitors, monitor>>
  /\ \A t \in Threads : /\ Holding(t)' <=> Holding(t)
                        /\ Holding(t) => held'[t] = held[t]
  /\ \A m \in Monitors :
       /\ exec'[m] = exec[m]
       /\ Running(m) /\ pc[m] # "off" => pc'[m] # "off"
       /\ pc[m] = "off" => pc'[m] = "off"

LEMMA QuietStep ==
  ASSUME MonitorInv, TypeOK', LeavesMonitors
  PROVE  MonitorInv'
<1>. USE DEF MonitorInv, LeavesMonitors
<1>1. RegisteredOnesRun'
  BY DEF RegisteredOnesRun, Running, TypeOK, SharedTypeOK
<1>2. HeldMonitorIsTaken'
  BY DEF HeldMonitorIsTaken, Registered, Holding
<1>3. NoOrphanMonitor'
  BY DEF NoOrphanMonitor, Registered, Running, Holding
<1>4. UnusedMonitorIsOff'
  BY DEF UnusedMonitorIsOff
<1>. QED
  BY <1>1, <1>2, <1>3, <1>4

(* A step of one thread that neither holds a monitor before nor after it.  *)
LEMMA QuietThread ==
  ASSUME NEW t \in Threads, Alone(t),
         UNCHANGED <<heartbeatMonitors, monitor>>,
         ~Holding(t), ~Holding(t)',
         t \in Monitors => /\ exec'[t] = exec[t]
                           /\ pc[t] # "off"
                           /\ pc'[t] = "off" => ~Running(t)
  PROVE  LeavesMonitors
<1>1. ASSUME NEW u \in Threads
      PROVE  /\ Holding(u)' <=> Holding(u)
             /\ Holding(u) => held'[u] = held[u]
  BY DEF Alone, Holding
<1>2. ASSUME NEW m \in Monitors
      PROVE  /\ exec'[m] = exec[m]
             /\ Running(m) /\ pc[m] # "off" => pc'[m] # "off"
             /\ pc[m] = "off" => pc'[m] = "off"
  BY DEF Alone
<1>. QED
  BY <1>1, <1>2 DEF LeavesMonitors, Holding

LEMMA QuietHandlerStep ==
  ASSUME MonitorInv, NEW h \in Handlers,
         \/ AnyRequest(h) \/ Deliver(h)
         \/ HandleFiles(h) \/ CallPrepare(h) \/ PersistPrepared(h)
         \/ CallStart(h) \/ PersistStarted(h)
         \/ FindMonitor(h) \/ RecordHeartbeat(h)
         \/ CheckStatus(h) \/ CallStatus(h)
         \/ PersistStatus(h) \/ CheckStop(h) \/ CallStop(h) \/ RemoveFiles(h)
  PROVE  LeavesMonitors
<1>. USE ThreadsAssumption DEF MonitorInv, TypeOK, LocalTypeOK, At, Goto, Answer
<1>1. CASE AnyRequest(h)
  <2>. USE <1>1 DEF AnyRequest, PrepareRequest, StartRequest,
                      StatusRequest, StopRequest, Request
  <2>1. Alone(h)
    BY DEF Alone, locals
  <2>2. UNCHANGED <<heartbeatMonitors, monitor>>
    BY DEF shared, locals
  <2>3. ~Holding(h) /\ ~Holding(h)'
    BY DEF Holding
  <2>. QED
    BY <2>1, <2>2, <2>3, QuietThread
<1>2. CASE Deliver(h)
  <2>. USE <1>2 DEF Deliver
  <2>1. Alone(h)
    BY DEF Alone, locals
  <2>2. UNCHANGED <<heartbeatMonitors, monitor>>
    BY DEF shared, locals
  <2>3. ~Holding(h) /\ ~Holding(h)'
    BY DEF Holding
  <2>. QED
    BY <2>1, <2>2, <2>3, QuietThread
<1>3. CASE HandleFiles(h)
  <2>. USE <1>3 DEF HandleFiles
  <2>1. Alone(h)
    BY DEF Alone, locals
  <2>2. UNCHANGED <<heartbeatMonitors, monitor>>
    BY DEF shared, locals
  <2>3. ~Holding(h) /\ ~Holding(h)'
    BY DEF Holding
  <2>. QED
    BY <2>1, <2>2, <2>3, QuietThread
<1>4. CASE CallPrepare(h) \/ CallStart(h) \/ CallStatus(h)
  <2>. USE <1>4 DEF CallPrepare, CallStart, CallStatus, Produce
  <2>1. Alone(h)
    BY DEF Alone, locals
  <2>2. UNCHANGED <<heartbeatMonitors, monitor>>
    BY DEF shared, locals
  <2>3. ~Holding(h) /\ ~Holding(h)'
    BY DEF Holding
  <2>. QED
    BY <2>1, <2>2, <2>3, QuietThread
<1>5. CASE PersistPrepared(h) \/ PersistStarted(h) \/ PersistStatus(h)
  <2>. USE <1>5 DEF PersistPrepared, PersistStarted, PersistStatus
  <2>1. Alone(h)
    BY DEF Alone, locals
  <2>2. UNCHANGED <<heartbeatMonitors, monitor>>
    BY DEF shared, locals
  <2>3. ~Holding(h) /\ ~Holding(h)'
    BY DEF Holding
  <2>. QED
    BY <2>1, <2>2, <2>3, QuietThread
<1>6. CASE FindMonitor(h) \/ RecordHeartbeat(h) \/ CheckStatus(h)
  <2>. USE <1>6 DEF FindMonitor, RecordHeartbeat, CheckStatus
  <2>1. Alone(h)
    BY DEF Alone, locals
  <2>2. UNCHANGED <<heartbeatMonitors, monitor>>
    BY DEF shared, locals
  <2>3. ~Holding(h) /\ ~Holding(h)'
    BY DEF Holding
  <2>. QED
    BY <2>1, <2>2, <2>3, QuietThread
<1>7. CASE CheckStop(h) \/ CallStop(h) \/ RemoveFiles(h)
  <2>. USE <1>7 DEF CheckStop, CallStop, RemoveFiles
  <2>1. Alone(h)
    BY DEF Alone, locals
  <2>2. UNCHANGED <<heartbeatMonitors, monitor>>
    BY DEF shared, locals
  <2>3. ~Holding(h) /\ ~Holding(h)'
    BY DEF Holding
  <2>. QED
    BY <2>1, <2>2, <2>3, QuietThread
<1>. QED
  BY <1>1, <1>2, <1>3, <1>4, <1>5, <1>6, <1>7

LEMMA QuietDelete ==
  ASSUME MonitorInv, NEW t \in Threads, DeleteState(t)
  PROVE  LeavesMonitors
<1>. USE ThreadsAssumption DEF MonitorInv, TypeOK, LocalTypeOK, At, Goto,
         Answer, DeleteState, ReturnOf
<1>1. Alone(t)
  BY DEF Alone, locals
<1>2. UNCHANGED <<heartbeatMonitors, monitor>>
  BY DEF shared, locals
<1>3. ~Holding(t) /\ ~Holding(t)'
  BY DEF Holding
<1>4. t \in Monitors => /\ exec'[t] = exec[t]
                        /\ pc[t] # "off"
                        /\ pc'[t] = "off" => ~Running(t)
  BY DEF locals, Running
<1>. QED
  BY <1>1, <1>2, <1>3, <1>4, QuietThread

LEMMA QuietStopAction ==
  ASSUME MonitorInv, NEW t \in Stoppers,
         \/ GetState(t) \/ MarkAsStopped(t)
         \/ RollbackSucceeds(t) \/ RollbackReportsFailure(t)
         \/ RollbackFails(t)
  PROVE  LeavesMonitors
<1>. USE ThreadsAssumption DEF MonitorInv, TypeOK, LocalTypeOK, At, Goto,
         Stoppers, GetState, MarkAsStopped, RollbackSucceeds,
         RollbackReportsFailure, RollbackFails, ReturnOf
<1>1. Alone(t)
  BY DEF Alone, locals
<1>2. UNCHANGED <<heartbeatMonitors, monitor>>
  BY DEF shared, locals
<1>3. ~Holding(t) /\ ~Holding(t)'
  BY DEF Holding
<1>4. t \in Monitors => /\ exec'[t] = exec[t]
                        /\ pc[t] # "off"
                        /\ pc'[t] = "off" => ~Running(t)
  BY DEF locals, Running
<1>. QED
  BY <1>1, <1>2, <1>3, <1>4, QuietThread

LEMMA QuietWatcherStep ==
  ASSUME MonitorInv, NEW m \in Monitors,
         HeartbeatTimeout(m) \/ WatcherEnds(m)
  PROVE  LeavesMonitors
<1>. USE ThreadsAssumption DEF MonitorInv, TypeOK, LocalTypeOK, At, Goto,
         HeartbeatTimeout, WatcherEnds
<1>1. Alone(m)
  BY DEF Alone, locals
<1>2. UNCHANGED <<heartbeatMonitors, monitor>>
  BY DEF shared, locals
<1>3. ~Holding(m) /\ ~Holding(m)'
  BY DEF Holding
<1>4. m \in Monitors => /\ exec'[m] = exec[m]
                        /\ pc[m] # "off"
                        /\ pc'[m] = "off" => ~Running(m)
  BY DEF locals, Running
<1>. QED
  BY <1>1, <1>2, <1>3, <1>4, QuietThread

LEMMA QuietMonitorStep ==
  ASSUME MonitorInv, NEW m \in Monitors, Silence(m) \/ Notify(m)
  PROVE  LeavesMonitors
BY DEF Silence, Notify, LeavesMonitors, Holding, locals

LEMMA QuietSignalStep ==
  ASSUME MonitorInv, SignalArrives \/ StopNext \/ AllStopped
  PROVE  LeavesMonitors
<1>. USE ThreadsAssumption DEF MonitorInv, TypeOK, LocalTypeOK, At, Goto,
         SignalArrives, StopNext, AllStopped
<1>1. Alone(Signal)
  BY DEF Alone, locals
<1>2. UNCHANGED <<heartbeatMonitors, monitor>>
  BY DEF shared, locals
<1>3. ~Holding(Signal) /\ ~Holding(Signal)'
  BY DEF Holding
<1>. QED
  BY <1>1, <1>2, <1>3, QuietThread

-----------------------------------------------------------------------------
(* Steps that make, take or stop a monitor *)

LEMMA TakeMonitorInv ==
  ASSUME MonitorInv, TypeOK', NEW t \in Threads, TakeMonitor(t)
  PROVE  MonitorInv'
<1>. DEFINE e == exec[t]
            m == heartbeatMonitors[e]
<1>. USE ThreadsAssumption DEF TakeMonitor, At, Goto
<1>1. /\ e \in Execs
      /\ heartbeatMonitors \in [Execs -> Monitors \cup {NoMonitor}]
      /\ m \in Monitors \cup {NoMonitor}
      /\ pc \in [Threads -> PC]
      /\ held \in [Threads -> Monitors \cup {NoMonitor}]
  BY DEF MonitorInv, TypeOK, SharedTypeOK, LocalTypeOK, ThreadTypeOK, Resting
<1>2. \A f \in Execs : heartbeatMonitors'[f] = IF f = e THEN NoMonitor
                                               ELSE heartbeatMonitors[f]
  BY <1>1
<1>3. ~Holding(t)
  BY DEF Holding
<1>4. Alone(t) /\ pc'[t] # "off" /\ held'[t] = m /\ exec'[t] = exec[t]
  BY <1>1 DEF Alone, AfterMonitor
<1>5. Holding(t)' <=> m # NoMonitor
  BY <1>1 DEF Holding, AfterMonitor
<1>6. \A u \in Threads \ {t} : /\ Holding(u)' <=> Holding(u)
                               /\ held'[u] = held[u]
  BY <1>4 DEF Alone, Holding
<1>7. RegisteredOnesRun'
  BY <1>1, <1>2, <1>4 DEF MonitorInv, RegisteredOnesRun, Running, Alone
<1>8. HeldMonitorIsTaken'
  <2>1. ASSUME NEW u \in Threads \ {t}, Holding(u)'
        PROVE  ~Registered(held[u])' /\ monitor'[held'[u]] # "unused"
    <3>1. /\ ~Registered(held[u])
          /\ monitor[held[u]] # "unused"
          /\ held[u] \in Monitors
      BY <2>1, <1>6 DEF MonitorInv, HeldMonitorIsTaken, TypeOK, ThreadTypeOK
    <3>. QED
      BY <3>1, <1>2, <1>6 DEF Registered
  <2>2. ASSUME m # NoMonitor
        PROVE  /\ \A f \in Execs : heartbeatMonitors'[f] # m
               /\ monitor'[m] # "unused"
    <3>1. \A f \in Execs : heartbeatMonitors[f] = m => f = e
      BY <2>2, <1>1, RegisteredOnce
    <3>2. Running(m)
      BY <2>2, <1>1 DEF MonitorInv, RegisteredOnesRun
    <3>. QED
      BY <2>2, <3>1, <3>2, <1>2 DEF Registered, Running
  <2>. QED
    BY <2>1, <2>2, <1>4, <1>5 DEF HeldMonitorIsTaken, Registered
<1>9. NoOrphanMonitor'
  <2>. SUFFICES ASSUME NEW n \in Monitors, Running(n)'
                PROVE  \/ Registered(n)'
                       \/ \E u \in Threads : Holding(u)' /\ held'[u] = n
    BY DEF NoOrphanMonitor
  <2>1. Registered(n) \/ \E u \in Threads : Holding(u) /\ held[u] = n
    BY DEF MonitorInv, NoOrphanMonitor, Running
  <2>2. CASE n = m
    BY <2>2, <1>4, <1>5
  <2>3. CASE n # m /\ Registered(n)
    BY <2>3, <1>2 DEF Registered
  <2>4. CASE \E u \in Threads : Holding(u) /\ held[u] = n
    BY <2>4, <1>3, <1>6
  <2>. QED
    BY <2>1, <2>2, <2>3, <2>4
<1>10. UnusedMonitorIsOff'
  BY <1>4 DEF MonitorInv, UnusedMonitorIsOff, Alone
<1>. QED
  BY <1>7, <1>8, <1>9, <1>10 DEF MonitorInv

LEMMA StopHeldInv ==
  ASSUME MonitorInv, TypeOK', NEW t \in Threads,
         StopPrevious(t) \/ StopMonitor(t)
  PROVE  MonitorInv'
<1>. DEFINE m == held[t]
<1>. USE ThreadsAssumption DEF StopPrevious, StopMonitor, StopHeld, At, Goto
<1>1. /\ Holding(t)
      /\ m \in Monitors
      /\ monitor \in [Monitors -> {"unused", "running", "stopped"}]
      /\ pc \in [Threads -> PC]
      /\ held \in [Threads -> Monitors \cup {NoMonitor}]
      /\ heartbeatMonitors \in [Execs -> Monitors \cup {NoMonitor}]
  BY DEF MonitorInv, TypeOK, SharedTypeOK, LocalTypeOK, ThreadTypeOK, Holding, Beating
<1>2. ~Registered(m)
  BY <1>1 DEF MonitorInv, HeldMonitorIsTaken
<1>3. \A n \in Monitors : monitor'[n] = IF n = m THEN "stopped" ELSE monitor[n]
  BY <1>1
<1>4. Alone(t) /\ ~Holding(t)' /\ pc'[t] # "off"
  BY <1>1 DEF Alone, Holding, AfterMonitor
<1>5. \A u \in Threads \ {t} : /\ Holding(u)' <=> Holding(u)
                               /\ held'[u] = held[u]
  BY <1>4 DEF Alone, Holding
<1>6. RegisteredOnesRun'
  BY <1>1, <1>2, <1>3, <1>4 DEF MonitorInv, RegisteredOnesRun, Registered,
                                Running, Alone
<1>7. HeldMonitorIsTaken'
  <2>. SUFFICES ASSUME NEW u \in Threads \ {t}, Holding(u)'
                PROVE  ~Registered(held[u])' /\ monitor'[held'[u]] # "unused"
    BY <1>4 DEF HeldMonitorIsTaken
  <2>1. /\ ~Registered(held[u])
        /\ monitor[held[u]] # "unused"
        /\ held[u] \in Monitors
    BY <1>5 DEF MonitorInv, HeldMonitorIsTaken, TypeOK, ThreadTypeOK
  <2>. QED
    BY <2>1, <1>3, <1>5 DEF Registered
<1>8. NoOrphanMonitor'
  <2>. SUFFICES ASSUME NEW n \in Monitors, Running(n)'
                PROVE  \/ Registered(n)'
                       \/ \E u \in Threads : Holding(u)' /\ held'[u] = n
    BY DEF NoOrphanMonitor
  <2>1. n # m /\ Running(n)
    BY <1>3 DEF Running
  <2>2. Registered(n) \/ \E u \in Threads \ {t} : Holding(u) /\ held[u] = n
    BY <2>1 DEF MonitorInv, NoOrphanMonitor
  <2>. QED
    BY <2>2, <1>5 DEF Registered
<1>9. UnusedMonitorIsOff'
  BY <1>1, <1>3, <1>4 DEF MonitorInv, UnusedMonitorIsOff, Alone, Holding
<1>. QED
  BY <1>6, <1>7, <1>8, <1>9 DEF MonitorInv

LEMMA MonitorHeartbeatInv ==
  ASSUME MonitorInv, TypeOK', NEW h \in Handlers, NEW m \in Monitors,
         MonitorHeartbeat(h, m)
  PROVE  MonitorInv'
<1>. DEFINE e == exec[h]
            prev == heartbeatMonitors[e]
<1>. USE ThreadsAssumption DEF MonitorHeartbeat, At
<1>1. /\ e \in Execs
      /\ heartbeatMonitors \in [Execs -> Monitors \cup {NoMonitor}]
      /\ monitor \in [Monitors -> {"unused", "running", "stopped"}]
      /\ pc \in [Threads -> PC]
      /\ exec \in [Threads -> Execs \cup {NoExec}]
      /\ held \in [Threads -> Monitors \cup {NoMonitor}]
  BY DEF MonitorInv, TypeOK, SharedTypeOK, LocalTypeOK, ThreadTypeOK, Resting
<1>2. /\ ~Registered(m)
      /\ ~\E u \in Threads : Holding(u) /\ held[u] = m
      /\ ~Holding(m)
  <2>1. ~Registered(m)
    BY <1>1 DEF MonitorInv, RegisteredOnesRun, Registered, Running
  <2>2. \A u \in Threads : Holding(u) => held[u] # m
    BY DEF MonitorInv, HeldMonitorIsTaken
  <2>3. ~Holding(m)
    BY DEF MonitorInv, UnusedMonitorIsOff, Holding
  <2>. QED
    BY <2>1, <2>2, <2>3
<1>3. /\ \A f \in Execs : heartbeatMonitors'[f] = IF f = e THEN m
                                                  ELSE heartbeatMonitors[f]
      /\ \A n \in Monitors : monitor'[n] = IF n = m THEN "running"
                                                   ELSE monitor[n]
  BY <1>1
<1>4. /\ exec'[m] = e
      /\ pc'[m] = "watching"
      /\ held'[h] = prev
      /\ Holding(h)' <=> prev # NoMonitor
  BY <1>1 DEF Holding
<1>5. \A u \in Threads \ {h, m} : /\ pc'[u] = pc[u]
                                  /\ exec'[u] = exec[u]
                                  /\ held'[u] = held[u]
                                  /\ Holding(u)' <=> Holding(u)
  BY <1>1 DEF Holding
<1>6. ~Holding(h) /\ ~Holding(m)'
  BY <1>4 DEF Holding
<1>7. RegisteredOnesRun'
  <2>. SUFFICES ASSUME NEW f \in Execs, heartbeatMonitors'[f] # NoMonitor
                PROVE  /\ monitor'[heartbeatMonitors'[f]] = "running"
                       /\ exec'[heartbeatMonitors'[f]] = f
                       /\ pc'[heartbeatMonitors'[f]] # "off"
    BY DEF RegisteredOnesRun, Running
  <2>1. CASE f = e
    BY <2>1, <1>3, <1>4
  <2>2. CASE f # e
    <3>1. /\ heartbeatMonitors'[f] = heartbeatMonitors[f]
          /\ heartbeatMonitors[f] \in Monitors \ {m}
      BY <2>2, <1>1, <1>2, <1>3 DEF Registered
    <3>2. /\ Running(heartbeatMonitors[f])
          /\ exec[heartbeatMonitors[f]] = f
          /\ pc[heartbeatMonitors[f]] # "off"
      BY <3>1 DEF MonitorInv, RegisteredOnesRun
    <3>3. heartbeatMonitors[f] \in Threads \ {h, m}
      BY <3>1, ThreadsAssumption DEF Threads
    <3>4. monitor'[heartbeatMonitors[f]] = "running"
      BY <3>1, <3>2, <1>3 DEF Running
    <3>5. /\ exec'[heartbeatMonitors[f]] = f
          /\ pc'[heartbeatMonitors[f]] # "off"
      BY <3>2, <3>3, <1>5
    <3>. QED
      BY <3>1, <3>4, <3>5
  <2>. QED
    BY <2>1, <2>2
<1>8. HeldMonitorIsTaken'
  <2>. SUFFICES ASSUME NEW u \in Threads, Holding(u)'
                PROVE  /\ \A f \in Execs : heartbeatMonitors'[f] # held'[u]
                       /\ monitor'[held'[u]] # "unused"
    BY DEF HeldMonitorIsTaken, Registered
  <2>1. CASE u = h
    <3>1. prev \in Monitors \ {m}
      BY <2>1, <1>1, <1>2, <1>4 DEF Registered
    <3>2. \A f \in Execs : heartbeatMonitors[f] = prev => f = e
      BY <3>1, <1>1, RegisteredOnce
    <3>3. Running(prev)
      BY <3>1, <1>1 DEF MonitorInv, RegisteredOnesRun
    <3>. QED
      BY <2>1, <3>1, <3>2, <3>3, <1>3, <1>4 DEF Running
  <2>2. CASE u # h
    <3>1. Holding(u) /\ held'[u] = held[u]
      BY <2>2, <1>5, <1>6
    <3>2. /\ held[u] \in Monitors \ {m}
          /\ ~Registered(held[u])
          /\ monitor[held[u]] # "unused"
      BY <3>1, <1>2 DEF MonitorInv, HeldMonitorIsTaken, TypeOK, ThreadTypeOK
    <3>. QED
      BY <3>1, <3>2, <1>3 DEF Registered
  <2>. QED
    BY <2>1, <2>2
<1>9. NoOrphanMonitor'
  <2>. SUFFICES ASSUME NEW n \in Monitors, Running(n)'
                PROVE  \/ Registered(n)'
                       \/ \E u \in Threads : Holding(u)' /\ held'[u] = n
    BY DEF NoOrphanMonitor
  <2>1. CASE n = m
    BY <2>1, <1>1, <1>3 DEF Registered
  <2>2. CASE n = prev
    BY <2>2, <1>4
  <2>3. CASE n # m /\ n # prev
    <3>1. Registered(n) \/ \E u \in Threads : Holding(u) /\ held[u] = n
      BY <2>3, <1>3 DEF MonitorInv, NoOrphanMonitor, Running
    <3>2. CASE Registered(n)
      BY <3>2, <2>3, <1>3 DEF Registered
    <3>3. ASSUME NEW u \in Threads, Holding(u), held[u] = n
          PROVE  Holding(u)' /\ held'[u] = n
      BY <3>3, <1>2, <1>5, <1>6
    <3>. QED
      BY <3>1, <3>2, <3>3
  <2>. QED
    BY <2>1, <2>2, <2>3
<1>10. UnusedMonitorIsOff'
  BY <1>1, <1>3, <1>5 DEF MonitorInv, UnusedMonitorIsOff
<1>. QED
  BY <1>7, <1>8, <1>9, <1>10 DEF MonitorInv

LEMMA RestartMonitorInv ==
  ASSUME TypeOK', Restart PROVE MonitorInv'
<1>1. \A t \in Threads : ~Holding(t)'
  BY DEF Restart, FreshPC, Holding
<1>2. RegisteredOnesRun'
  BY DEF Restart, NoneFor, RegisteredOnesRun
<1>3. NoOrphanMonitor'
  BY DEF Restart, NoneFor, NoOrphanMonitor, Running
<1>4. UnusedMonitorIsOff'
  BY DEF Restart, FreshPC, UnusedMonitorIsOff
<1>. QED
  BY <1>1, <1>2, <1>3, <1>4 DEF MonitorInv, HeldMonitorIsTaken

-----------------------------------------------------------------------------

LEMMA NextMonitorInv ==
  ASSUME MonitorInv, TypeOK', [Next]_vars PROVE MonitorInv'
<1>1. ASSUME NEW h \in Handlers, AnyRequest(h) \/ Deliver(h) PROVE MonitorInv'
  BY <1>1, QuietHandlerStep, QuietStep
<1>2. ASSUME NEW t \in Threads,
             TakeMonitor(t) \/ StopMonitor(t) \/ DeleteState(t)
      PROVE  MonitorInv'
  BY <1>2, TakeMonitorInv, StopHeldInv, QuietDelete, QuietStep
<1>3. ASSUME NEW h \in Handlers, HandlerStep(h) PROVE MonitorInv'
  <2>1. CASE StopPrevious(h)
    BY <2>1, StopHeldInv
  <2>2. ASSUME NEW m \in Monitors, MonitorHeartbeat(h, m) PROVE MonitorInv'
    BY <2>2, MonitorHeartbeatInv
  <2>3. CASE TakeMonitor(h) \/ StopMonitor(h) \/ DeleteState(h)
    BY <2>3, <1>2
  <2>. QED
    BY <1>3, <2>1, <2>2, <2>3, QuietHandlerStep, QuietStep DEF HandlerStep
<1>4. ASSUME NEW t \in Stoppers, StopAction(t) PROVE MonitorInv'
  BY <1>4, <1>2, QuietStopAction, QuietStep DEF StopAction, Stoppers
<1>5. ASSUME NEW m \in Monitors, Silence(m) \/ Notify(m) \/ WatcherStep(m)
      PROVE  MonitorInv'
  BY <1>5, <1>4, QuietMonitorStep, QuietWatcherStep, QuietStep
     DEF WatcherStep, Stoppers
<1>6. CASE SignalArrives \/ SignalStep
  BY <1>6, <1>4, QuietSignalStep, QuietStep DEF SignalStep, Stoppers
<1>7. CASE Restart
  BY <1>7, RestartMonitorInv
<1>8. CASE UNCHANGED vars
  <2>1. LeavesMonitors
    BY <1>8 DEF LeavesMonitors, Holding, vars, shared, locals
  <2>. QED
    BY <2>1, QuietStep
<1>. QED
  BY <1>1, <1>3, <1>5, <1>6, <1>7, <1>8 DEF Next

(* However the requests, timeouts and signals of one execution interleave,  *)
(* its heartbeat monitors are not lost: a running monitor is registered or  *)
(* a goroutine is just about to stop it (monitorHeartbeatWithCallback,      *)
(* stopMonitorHeartbeat).                                                   *)
THEOREM MonitorsNeverOrphaned == Spec => []NoOrphanMonitor
<1>1. MonitorInv /\ TypeOK' /\ [Next]_vars => MonitorInv'
  BY NextMonitorInv
<1>2. MonitorInv => NoOrphanMonitor
  BY DEF MonitorInv
<1>. QED
  BY TypeCorrect, InitMonitorInv, <1>1, <1>2, PTL DEF Spec

(***************************************************************************)
(* A step other than FindMonitor and Restart: no handler turns to a monitor *)
(* to record a heartbeat, and a monitor that was made stays what it is.     *)
KeepsBeats ==
  /\ \A h \in Handlers :
       Beating(h)' => /\ Beating(h)
                      /\ held'[h] = held[h]
                      /\ exec'[h] = exec[h]
  /\ \A m \in Monitors :
       monitor[m] # "unused" => /\ monitor'[m] # "unused"
                                /\ exec'[m] = exec[m]

LEMMA KeptBeats ==
  ASSUME TypeOK, BeatsOnMade, KeepsBeats PROVE BeatsOnMade'
BY DEF TypeOK, ThreadTypeOK, BeatsOnMade, KeepsBeats

LEMMA HandlerKeepsBeats ==
  ASSUME TypeOK, NEW h \in Handlers,
         \/ AnyRequest(h) \/ Deliver(h)
         \/ HandleFiles(h) \/ CallPrepare(h) \/ PersistPrepared(h)
         \/ CallStart(h) \/ PersistStarted(h) \/ StopPrevious(h)
         \/ RecordHeartbeat(h) \/ CheckStatus(h) \/ CallStatus(h)
         \/ PersistStatus(h) \/ CheckStop(h) \/ CallStop(h) \/ RemoveFiles(h)
  PROVE  KeepsBeats
<1>. USE ThreadsAssumption
     DEF TypeOK, LocalTypeOK, SharedTypeOK, ThreadTypeOK, At, Goto, Answer,
         Beating, KeepsBeats, shared, locals
<1>1. CASE AnyRequest(h) \/ Deliver(h)
  BY <1>1 DEF AnyRequest, PrepareRequest, StartRequest, StatusRequest,
              StopRequest, Request, Deliver
<1>2. CASE HandleFiles(h) \/ CheckStatus(h) \/ RecordHeartbeat(h)
  BY <1>2 DEF HandleFiles, CheckStatus, RecordHeartbeat
<1>3. CASE CallPrepare(h) \/ CallStart(h) \/ CallStatus(h)
  BY <1>3 DEF CallPrepare, CallStart, CallStatus, Produce
<1>4. CASE PersistPrepared(h) \/ PersistStarted(h) \/ PersistStatus(h)
  BY <1>4 DEF PersistPrepared, PersistStarted, PersistStatus
<1>5. CASE StopPrevious(h)
  BY <1>5 DEF StopPrevious, StopHeld, Holding
<1>6. CASE CheckStop(h) \/ CallStop(h) \/ RemoveFiles(h)
  BY <1>6 DEF CheckStop, CallStop, RemoveFiles
<1>. QED
  BY <1>1, <1>2, <1>3, <1>4, <1>5, <1>6

LEMMA StopKeepsBeats ==
  ASSUME TypeOK, NEW t \in Threads,
         \/ TakeMonitor(t) \/ StopMonitor(t) \/ DeleteState(t)
         \/ t \in Stoppers /\ StopAction(t)
  PROVE  KeepsBeats
<1>. USE ThreadsAssumption
     DEF TypeOK, LocalTypeOK, SharedTypeOK, ThreadTypeOK, At, Goto, Beating,
         KeepsBeats, shared, locals, ReturnOf, AfterMonitor
<1>1. CASE TakeMonitor(t)
  BY <1>1 DEF TakeMonitor
<1>2. CASE StopMonitor(t)
  BY <1>2 DEF StopMonitor, StopHeld, Holding
<1>3. CASE DeleteState(t)
  BY <1>3 DEF DeleteState
<1>4. CASE t \in Stoppers /\ (GetState(t) \/ MarkAsStopped(t))
  BY <1>4 DEF GetState, MarkAsStopped, Stoppers
<1>5. CASE t \in Stoppers /\ (\/ RollbackSucceeds(t) \/ RollbackFails(t)
                              \/ RollbackReportsFailure(t))
  BY <1>5 DEF RollbackSucceeds, RollbackReportsFailure, RollbackFails, Stoppers
<1>. QED
  BY <1>1, <1>2, <1>3, <1>4, <1>5 DEF StopAction

LEMMA NextBeats ==
  ASSUME MonitorInv, BeatsOnMade, [Next]_vars PROVE BeatsOnMade'
<1>. USE ThreadsAssumption DEF MonitorInv
<1>1. ASSUME NEW h \in Handlers, FindMonitor(h) PROVE BeatsOnMade'
  <2>. USE <1>1 DEF FindMonitor, At, Goto, shared, locals, TypeOK, LocalTypeOK,
                    SharedTypeOK, ThreadTypeOK, Resting
  <2>1. Beating(h)' => monitor[held'[h]] # "unused" /\ exec[held'[h]] = exec[h]
    BY DEF Beating, RegisteredOnesRun, Running
  <2>2. ASSUME NEW g \in Handlers \ {h}, Beating(g)'
        PROVE  Beating(g) /\ held'[g] = held[g]
    BY <2>2 DEF Beating
  <2>. QED
    BY <2>1, <2>2 DEF BeatsOnMade
<1>2. ASSUME NEW h \in Handlers, NEW m \in Monitors, MonitorHeartbeat(h, m)
      PROVE  KeepsBeats
  BY <1>2 DEF MonitorHeartbeat, At, Goto, Beating, KeepsBeats, TypeOK,
              LocalTypeOK, SharedTypeOK
<1>3. ASSUME NEW m \in Monitors,
             Silence(m) \/ Notify(m) \/ HeartbeatTimeout(m) \/ WatcherEnds(m)
      PROVE  KeepsBeats
  BY <1>3 DEF Silence, Notify, HeartbeatTimeout, WatcherEnds, At, Goto, Beating,
              KeepsBeats, TypeOK, LocalTypeOK, shared, locals
<1>4. ASSUME SignalArrives \/ StopNext \/ AllStopped PROVE KeepsBeats
  BY <1>4 DEF SignalArrives, StopNext, AllStopped, At, Goto, Beating,
              KeepsBeats, TypeOK, LocalTypeOK, shared, locals
<1>5. CASE Restart
  BY <1>5 DEF Restart, FreshPC, BeatsOnMade, Beating
<1>6. ASSUME UNCHANGED vars PROVE KeepsBeats
  BY <1>6 DEF KeepsBeats, Beating, vars, shared, locals
<1>7. \A h \in Handlers : HandlerStep(h) => BeatsOnMade'
  BY <1>1, <1>2, HandlerKeepsBeats, StopKeepsBeats, KeptBeats DEF HandlerStep
<1>8. \A m \in Monitors : Silence(m) \/ Notify(m) \/ WatcherStep(m) => KeepsBeats
  BY <1>3, StopKeepsBeats DEF WatcherStep, Stoppers
<1>9. SignalArrives \/ SignalStep => KeepsBeats
  BY <1>4, StopKeepsBeats DEF SignalStep, Stoppers
<1>. QED
  BY <1>5, <1>6, <1>7, <1>8, <1>9, HandlerKeepsBeats, KeptBeats DEF Next

(* A registered monitor runs, its goroutine waits for the timeout of that  *)
(* very execution, and a heartbeat is recorded on no other execution's     *)
(* monitor, whatever happens between Load and RecordHeartbeat              *)
(* (recordHeartbeat).                                                      *)
THEOREM RegisteredMonitorsRun == Spec => []RegisteredMonitorRuns
<1>1. Init => BeatsOnMade
  BY DEF Init, FreshPC, BeatsOnMade, Beating
<1>2. MonitorInv /\ TypeOK' /\ [Next]_vars => MonitorInv'
  BY NextMonitorInv
<1>3. MonitorInv /\ BeatsOnMade /\ [Next]_vars => BeatsOnMade'
  BY NextBeats
<1>4. MonitorInv /\ BeatsOnMade => RegisteredMonitorRuns
  BY DEF MonitorInv, BeatsOnMade, RegisteredMonitorRuns, HeartbeatsOnOwn
<1>. QED
  BY TypeCorrect, InitMonitorInv, <1>1, <1>2, <1>3, <1>4, PTL DEF Spec

=============================================================================

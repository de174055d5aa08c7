\* Clients that go on or disappear at any point, late heartbeats; Stop succeeds.
CONSTANTS
  e1 = e1
  e2 = e2
  h1 = h1
  h2 = h2
  m1 = m1
  m2 = m2
  Execs = {e1}
  Stoppable = {e1}
  WithStatus = {e1}
  Monitored = {e1}
  Encodable = {e1}
  StopMayFail = {}
  Handlers = {h1}
  Monitors = {m1}
  Signal = Signal
  NoExec = NoExec
  NoState = NoState
  NoMonitor = NoMonitor
  NoReply = NoReply
  NoHandler = NoHandler
  MaxStopEvents = 1
  Faults = {"vanish", "delay"}
SPECIFICATION FairClientSpec
PROPERTIES
  RolledBack
  RollbackIsReported
CHECK_DEADLOCK FALSE

\* A stoppable and an unstoppable execution; clients disappear, heartbeats are late.
\* No property here reads the stop events: the list keeps one, to keep the states few.
CONSTANTS
  e1 = e1
  e2 = e2
  h1 = h1
  h2 = h2
  m1 = m1
  m2 = m2
  Execs = {e1, e2}
  Stoppable = {e1}
  WithStatus = {e1}
  Monitored = {e1}
  Encodable = {}
  StopMayFail = {e1}
  Handlers = {h1}
  Monitors = {m1}
  Signal = Signal
  NoExec = NoExec
  NoState = NoState
  NoMonitor = NoMonitor
  NoReply = NoReply
  NoHandler = NoHandler
  MaxStopEvents = 0
  Faults = {"vanish", "delay"}
SPECIFICATION LifecycleSpec
INVARIANTS
  RollbackStateKept
PROPERTIES
  ImplementsContract
CHECK_DEADLOCK FALSE

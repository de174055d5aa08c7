\* Two executions share the list of stop events at its limit.
CONSTANTS
  e1 = e1
  e2 = e2
  h1 = h1
  h2 = h2
  m1 = m1
  m2 = m2
  Execs = {e1, e2}
  Stoppable = {e1, e2}
  WithStatus = {}
  Monitored = {e1, e2}
  Encodable = {e1, e2}
  StopMayFail = {}
  Handlers = {h1}
  Monitors = {m1, m2}
  Signal = Signal
  NoExec = NoExec
  NoState = NoState
  NoMonitor = NoMonitor
  NoReply = NoReply
  NoHandler = NoHandler
  MaxStopEvents = 1
  Faults = {"delay"}
SPECIFICATION LifecycleSpec
SYMMETRY Symmetry
INVARIANTS
  NoSilentRollback
CHECK_DEADLOCK FALSE

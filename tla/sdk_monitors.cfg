\* One execution, any client: two requests, two monitors.
CONSTANTS
  e1 = e1
  h1 = h1
  h2 = h2
  m1 = m1
  m2 = m2
  Execs = {e1}
  Stoppable = {e1}
  WithStatus = {}
  Monitored = {e1}
  Encodable = {e1}
  StopMayFail = {e1}
  Handlers = {h1, h2}
  Monitors = {m1, m2}
  Signal = Signal
  MaxStopEvents = 1
  NoExec = NoExec
  NoState = NoState
  NoMonitor = NoMonitor
  NoReply = NoReply
SPECIFICATION MCSpec
SYMMETRY Symmetry
INVARIANTS
  NoOrphanMonitor
  RegisteredMonitorRuns
  StopEventsBounded

\* One execution whose requests may be given up and overtaken by the next one; a
\* client that disappears and a Stop that fails are in lifecycle_contract. No
\* property here tells how long a stop event is kept: the list keeps one, to
\* keep the states few.
CONSTANTS
  e1 = e1
  e2 = e2
  h1 = h1
  h2 = h2
  m1 = m1
  m2 = m2
  Execs = {e1}
  Stoppable = {e1}
  WithStatus = {e1}
  Monitored = {e1}
  Encodable = {e1}
  StopMayFail = {}
  Handlers = {h1, h2}
  Monitors = {m1}
  Signal = Signal
  NoExec = NoExec
  NoState = NoState
  NoMonitor = NoMonitor
  NoReply = NoReply
  NoHandler = NoHandler
  MaxStopEvents = 0
  Faults = {"giveUp", "delay", "signal", "restart"}
SPECIFICATION LifecycleSpec
SYMMETRY Symmetry
INVARIANTS
  TypeOK
  ClientTypeOK
  CleanStop
  PersistedIsLatest
CHECK_DEADLOCK FALSE

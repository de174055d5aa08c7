\* Every input of the bounded sets, the ports of masks with 6 bits.
CONSTANTS
  PortBits = 3
  AddrBits = 3
  MaxPortBits = 6
  Kilo = 4
  Hundred = 10
  maxBlockSize = 4
  defaultBlockSize = 2
  a = a
  b = b
  c = c
  bad = bad
  InvalidNames = {bad}
  NotRun = NotRun
  ignoreErrorsBatchAdd = {"exists"}
  ignoreErrorsBatchDelete = {"gone"}
  tcErrorKernelConfig = {"kernel"}
SPECIFICATION Spec
INVARIANTS
  MasksExact
  EndsTargeted
  CondenseCovers
  OwnPortsExcluded
  TreeRestored
  FillMeetsTarget
  AllNamesResolved
  NoErrorHidden
CHECK_DEADLOCK FALSE

\* One attack of any kind on a target whose processes come and go.
CONSTANTS
  blue = blue
  Kinds <- AllKinds
  Faults <- MCFaults
  Ignored <- MCIgnored
  MaxStops = 2
  Pids = {1, 2, 3}
  Names = {blue}
  Inodes = {1, 2}
  Host = 1
  Candidates = {3}
  MayReuse = FALSE
SPECIFICATION SidecarSpec
INVARIANTS
  TypeOK
  NothingLeftBehind
  TargetFilesKept
  ContainerHasItsRoot
  RightNamespace
  FoundIfHeld
PROPERTIES
  HostDetected
  ExitKnownForGood
  StopReturns
CHECK_DEADLOCK FALSE

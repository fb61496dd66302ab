SPECIFICATION Spec
CONSTANTS
  dev = dev
  VMs <- OneVM
  MaxRuns = 2
  MaxRestarts = 0
  MaxNoise = 1
  Capacity = 1
  Faults = {"open", "watch", "service", "listen", "launch", "spawn", "list"}
  Operations = {"start", "stop", "delete"}
INVARIANT TypeOK
INVARIANT QueuedEventsAreCurrent
INVARIANT DeletedHasNothing
PROPERTY LateExitsSpareTheHandle
CHECK_DEADLOCK FALSE

SPECIFICATION FairSpec
CONSTANTS
  dev = dev
  VMs <- OneVM
  MaxRuns = 2
  MaxRestarts = 1
  MaxNoise = 0
  Capacity = 2
  Faults = {"crash"}
  Operations = {"start"}
PROPERTY LateExitsSpareTheAgent
PROPERTY AgentsEnd
PROPERTY LiveRunsAreHeld

SPECIFICATION FairSpec
CONSTANTS
  dev = dev
  VMs <- OneVM
  MaxRuns = 1
  MaxRestarts = 0
  MaxNoise = 0
  Capacity = 2
  Faults = {}
  Operations = {"start", "force", "reboot", "display", "console"}
PROPERTY WindowsEnd

SPECIFICATION Spec
CONSTANTS
  dev = dev
  lab = lab
  e1 = e1
  e2 = e2
  e3 = e3
  None = None
  Torn = Torn
  VMs <- TwoVMs
  Endpoints <- SomeEndpoints
  Known <- OneVM
  Offline <- OnlyLab
  MaxDisk = 2
  MaxFaults = 1
  Edits <- SingleEdits
  Operations <- AllOperations
INVARIANT RecordsAreTrue
INVARIANT ForgottenLeavesNothing
INVARIANT RunningKeepsItsEndpoint
PROPERTY StartsFailForAReason
SYMMETRY Symmetry
CHECK_DEADLOCK FALSE

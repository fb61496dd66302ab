SPECIFICATION Spec
CONSTANTS
  dev = dev
  lab = lab
  e1 = e1
  e2 = e2
  e3 = e3
  None = None
  Torn = Torn
  VMs <- OneVM
  Endpoints <- SomeEndpoints
  Known <- OneVM
  Offline <- Nobody
  MaxDisk = 1
  MaxFaults = 0
  Edits <- DoubleEdits
  Operations <- EditOperations
INVARIANT EditsTakeEffect
CHECK_DEADLOCK FALSE

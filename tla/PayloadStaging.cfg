SPECIFICATION Spec
CONSTANTS
  Generations <- TwoReleases
  Files <- AllFiles
  Declares <- TwoDeclared
  TempName <- OneName
  First = "g1"
  Vms = {"v1"}
  Reader = "v1"
  Jobs = {"start", "update"}
  MaxStagings = 3
  MaxFaults = 1
  Absent = Absent
INVARIANT VouchersHold
INVARIANT AloneSucceeds
INVARIANT GuestSeesOneGeneration
PROPERTY StagingEnds
CHECK_DEADLOCK FALSE

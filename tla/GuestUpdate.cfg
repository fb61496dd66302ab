SPECIFICATION Spec
CONSTANTS
  None = None
  Kinds <- ThreeKinds
  Carried <- NoneOrBoth
  DkmsOrder <- OldFirst
  MaxFaults = 2
  MaxBoots = 1
INVARIANT ReportsAreTrue
INVARIANT CleanRecipeEquips
INVARIANT StampVouches

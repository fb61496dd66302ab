SPECIFICATION FairImageSpec
CONSTANTS
  ann = ann
  bob = bob
  f1 = f1
  f2 = f2
  f3 = f3
  None = None
  Downloaders <- TwoDownloaders
  FileIds <- SomeFiles
  Size = 2
  MaxMishaps = 2
INVARIANT VerifiedIsHeld
PROPERTY RetriesSucceed
CHECK_DEADLOCK TRUE

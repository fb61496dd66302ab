SPECIFICATION FairSpec
CONSTANTS
  dev = dev
  lab = lab
  Names <- MCNames
  MaxStarts = 3
INVARIANT NothingLost
INVARIANT HandedOverInOrder
PROPERTY OnlyLateIsLost
PROPERTY StartsEnd
PROPERTY HandoverSpec
CHECK_DEADLOCK FALSE

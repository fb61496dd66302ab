SPECIFICATION Spec
CONSTANTS
  None = None
  Count = 2
  Pointed = {0}
  Interval = 2
  Streams = {TRUE, FALSE}
  Sequences32 = 3
  Room = 1
  MaxChanges = 3
  MaxSizes = 2
  MaxFaults = 1
  Bits = 2
  Word = 5
  MaxRun = 3
  Colours = {{}, {"red"}}
  MaxSide = 4
  Edges = {0, 1, 2, 3, 4, 30, 31}
  MaxTile = 7
  Wide = 3
  High = 2
INVARIANT StreamIsSound
INVARIANT NoTileStaysBehind
INVARIANT CodecIsExact
PROPERTY PictureArrives
CHECK_DEADLOCK FALSE

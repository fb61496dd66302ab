SPECIFICATION Spec
CONSTANTS
  None = None
  a1 = a1
  a2 = a2
  MaxConns = 2
  Asks <- TwoAsks
  AskKind <- OneOfEach
  Guests <- SomeGuests
  MaxFaults = 1
INVARIANT LinkIsSound
INVARIANT ProbesFindTheGuestIdle
INVARIANT FactsAreTheGuests
PROPERTY AskedIsAnswered
PROPERTY LinkComesBack
CHECK_DEADLOCK FALSE

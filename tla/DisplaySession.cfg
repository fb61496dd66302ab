CONSTANTS
  MaxSessions = 2
  MaxCommits = 2
  MaxFaults = 1
  Faults = {"frame", "input", "control", "process", "capture", "parent", "slow",
            "renderer", "budget", "resize"}
  Sizes = {1, 2}
SPECIFICATION Spec
INVARIANT SessionsAgree
PROPERTY PictureKeepsUp
PROPERTY ChannelsComeBack
PROPERTY SessionEnds
CHECK_DEADLOCK FALSE

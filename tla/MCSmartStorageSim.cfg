\* Two clients, one of which decodes videos, and resources of capacity one.
CONSTANTS
  c1 = c1  c2 = c2  v1 = v1  v2 = v2  image = image  unknown = unknown
  SimClient <- Clients
  Streamers <- OneStreamer
  Image <- Images
  lut <- Costs
  Profiled <- Profiles
  Video <- Videos
  Every = 1
  FrameSend = 0
  Capacity <- OneEach
  RunAhead = 1
  MaxAsks = 3
  LastAsk = 1
  MaxClock = 5
  MaxFrame = 1
SPECIFICATION Spec
INVARIANT CapacityKept
INVARIANT TimeCharged
INVARIANT FramesIncrease
PROPERTY Answered
CHECK_DEADLOCK FALSE

SPECIFICATION PingPongSpec
CONSTANTS
  MaxThreads = 4
  TimeSlice = 4
  BlockReturn = "recv"
  MaxPorts = 2
  MaxCreates = 2
  MaxSends = 4
  Depth = 2
  Iterations = 2
INVARIANT PingPongSurvives

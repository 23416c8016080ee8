SPECIFICATION IpcSpec
CONSTANTS
  MaxThreads = 2
  TimeSlice = 1
  BlockReturn = "recv"
  MaxPorts = 2
  MaxCreates = 2
  MaxSends = 3
  Depth = 2
VIEW IpcView
INVARIANTS HandlesHaveSlots PortsDeliverInOrder RunQueueSound
CHECK_DEADLOCK FALSE

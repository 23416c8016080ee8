SPECIFICATION BootSpec
CONSTANTS
  MaxEntries = 4
  Slack = 1
  MaxAttempts = 4
INVARIANT HandoffPointerLive

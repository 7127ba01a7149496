\* Pacing on a display that ticks twice a frame.
CONSTANTS
  FramePeriod = 3
  Slack = 1
  TickTimeout = 4
  LockObservations = 3
  Locks = {2}
  MaxTicks = 8
SPECIFICATION MCPacingSpec
PROPERTY LockHeldWhileTicking

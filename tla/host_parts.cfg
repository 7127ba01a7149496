\* The ring at every fill level and index; pacing on a display that ticks once a frame;
\* the wide picture over a level with a hold, which has room for the slide or not, and a
\* small one.
CONSTANTS
  Capacity = 4
  Snapshots = {s1, s2, s3}
  Uninitialised = nothing
  FramePeriod = 3
  Slack = 1
  TickTimeout = 4
  LockObservations = 3
  Locks = {1}
  MaxTicks = 8
  Levels <- SmallLevels
  Bounded = "map"
  MaximumScroll <- SmallScrolls
  EmptyColumns <- SmallColumns
  Extra <- SmallExtras
  Policies = {"bars", "shift", "glide"}
  Origin = 1
  Metatile = 3
  GlideSpan = 3
  SettleFrames = 2
  HoldStartFrames = 1
  MaxTravel = 3
  MaxLag = 1
SPECIFICATION PartsSpec
INVARIANT RingTypeOK
PROPERTY ImplementsStack
INVARIANT PartsTypeOK
INVARIANT OneFramePerTick
INVARIANT NoLostTick
PROPERTY NoCatchUpFrame
PROPERTY LockHeldWhileTicking
PROPERTY WaitsEnd
PROPERTY CullCoversPicture
PROPERTY DrawnInsideLevel
PROPERTY RestoreIsNoLevelStart

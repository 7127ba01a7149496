\* The host loop: two inputs make two plays, one slot, short history and queue.
CONSTANTS
  Inputs = {a, b}
  Slots = {slot}
  Capacity = 2
  SnapshotInterval = 2
  HostSpeed = 2
  TargetChunks = 2
  LowChunks = 1
  Empty = empty
  MaxFrames = 4
SPECIFICATION HostSpec
SYMMETRY InputSymmetry
INVARIANT HostTypeOK
INVARIANT RewindGoesBack
INVARIANT AudioIsLatestPlay
INVARIANT SilentUnlessPlaying
INVARIANT NeverSpins
\* The loop really ends: quit, or a failure.
CHECK_DEADLOCK FALSE

CONSTANTS
  Slots = {1, 2}
  Folders <- SomeFolders
  MaxEvents = 2
SPECIFICATION FairSpec
INVARIANT RomTypeOK
INVARIANT FoundUnlessOverlapped
INVARIANT StagedIsWhole
INVARIANT ReplacementIsPlayed
PROPERTY NothingWaitsForEver
\* A user who opens no more pickers lets the system rest.
CHECK_DEADLOCK FALSE

\* What "Dados prontos" says of the ROM, when a pick meets the check made at start.
CONSTANTS
  Slots = {1, 2}
  Folders <- SomeFolders
  MaxEvents = 2
SPECIFICATION MCSpec
INVARIANT FoundMeansAccepted
\* A user who opens no more pickers lets the system rest.
CHECK_DEADLOCK FALSE

\* Tables with the descriptor $80.
CONSTANTS
  NChannels = 2
  VisibleLines = 5
  BankSize = 64
  Half = 4
  Images <- LongImages
  Controls <- AllControls
  Starts = {8, 20, 62}
  Sizes = {3}
  MaxWrites = 1
  Setups <- MixedSetups
SPECIFICATION MCSpec
INVARIANT BandsMatchLines
\* A barrier stops the machine.
CHECK_DEADLOCK FALSE

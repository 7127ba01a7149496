\* HDMA and general DMA, two channels, every place of a register write.
CONSTANTS
  NChannels = 2
  VisibleLines = 5
  BankSize = 64
  Half = 4
  Images <- PlainImages
  Controls <- AllControls
  Starts = {8, 20, 62}
  Sizes = {3}
  MaxWrites = 2
  Setups <- MixedSetups
SPECIFICATION MCSpec
INVARIANT HdmaTypeOK
INVARIANT CountersTrackBeam
INVARIANT BandsMatchLines
PROPERTY LinesFollowTable
\* A barrier stops the machine.
CHECK_DEADLOCK FALSE

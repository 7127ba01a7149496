\* The beam and its interrupts, the controller ports, or the multiply/divide unit.
CONSTANTS
  LineDots = 5
  FrameLines = 4
  HBlankDot = 3
  VBlankLine = 2
  AutojoyDots = 7
  MultiplyDots = 2
  DivideDots = 4
  AdvanceAmounts <- BeamAdvances
  NmitimenWrites <- AllNmitimens
  HTimes <- BeamHTimes
  VTimes <- BeamVTimes
  Ports = {p1, p2}
  Buttons = {held}
  NoButtons = neutral
  PadBits = 2
  Operands = {0, 3}
  DivideByZero = 65535
SPECIFICATION UnitsSpec
INVARIANT TimingTypeOK
INVARIANT AutojoyTracksBeam
PROPERTY ImplementsFrameClock
INVARIANT MathResultsMatch
PROPERTY MathStableWhileBusy
INVARIANT StrobeTracksControllers

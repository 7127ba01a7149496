\* What snes_io.h says of NMI, against what a write to $4200 does.
CONSTANTS
  LineDots = 3
  FrameLines = 3
  HBlankDot = 2
  VBlankLine = 1
  AutojoyDots = 4
  MultiplyDots = 2
  DivideDots = 4
  AdvanceAmounts <- MathAdvances
  NmitimenWrites <- NmiWrites
  HTimes = {}
  VTimes = {}
  Ports = {}
  Buttons = {}
  NoButtons = neutral
  PadBits = 3
  Operands = {}
  DivideByZero = 65535
SPECIFICATION TimingSpec
PROPERTY NmiEdgeLatched

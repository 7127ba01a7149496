\* The boot loop: service of interrupts, payment of time, barriers, and its progress under weak fairness.
CONSTANTS
  LineDots = 4
  FrameLines = 3
  HBlankDot = 2
  VBlankLine = 2
  AutojoyDots = 3
  MultiplyDots = 2
  DivideDots = 4
  AdvanceAmounts = {}
  NmitimenWrites <- BootWrites
  HTimes <- BootHTimes
  VTimes <- BootVTimes
  Ports = {}
  Buttons = {}
  NoButtons = neutral
  PadBits = 0
  Operands = {}
  DivideByZero = 65535
  AccessDots = 2
  EntryAccesses = 2
  MaxAccesses = 3
SPECIFICATION FairMCSpec
INVARIANT BootTypeOK
PROPERTY NmiServedInTime
PROPERTY BarrierFreezesTime
PROPERTY WaiResumes
PROPERTY BarrierEndsRun
\* The run really ends: limit, STP, breakpoint, barrier.
CHECK_DEADLOCK FALSE

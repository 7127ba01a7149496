\* The analyser and the processor on all programs of three of 19 instructions.
CONSTANTS
  Programs <- SmallPrograms
  Limit = 14
  WordCapacity = 2
  Garbage = {3}
  MaxStack = 8
  MaxFrames = 2
SPECIFICATION Spec
INVARIANT AnalyzerTypeOK
INVARIANT NothingDropped
INVARIANT RunIsCovered
PROPERTY StepsAreEdges
\* The analysis ends, and a program may stop or leave what is claimed of it.
CHECK_DEADLOCK FALSE

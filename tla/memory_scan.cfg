SPECIFICATION Spec
CONSTANTS
  KernelEnd = 2
  MaxAddr = 8
  MaxSize = 2
  MaxResv = 2
  Memories <- OneBlockMemories
  Fdts <- MCFdts
INVARIANTS
  TypeOK
  NeverReserved
  GivenOnce
  Complete
  ReportExact
  DepthBounded
PROPERTIES
  Terminates
CHECK_DEADLOCK FALSE

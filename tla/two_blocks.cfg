SPECIFICATION Spec
CONSTANTS
  KernelEnd = 2
  MaxAddr = 8
  MaxSize = 2
  MaxResv = 0
  Memories <- TwoBlockMemories
  Fdts <- MCFdts
INVARIANTS
  GivenOnce
CHECK_DEADLOCK FALSE

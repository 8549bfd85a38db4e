SPECIFICATION Spec
CONSTANTS
  HeaderSize = 2
  Top = 10
  Half = 32
  AllocSizes = {1, 3}
  Alignments = {0, 1}
  KernelEnd = 2
  Fdts <- LargeFdts
INVARIANTS
  BlocksUsable
CHECK_DEADLOCK FALSE

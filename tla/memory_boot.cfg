SPECIFICATION Spec
CONSTANTS
  HeaderSize = 2
  Top = 10
  Half = 32
  AllocSizes = {1, 3}
  Alignments = {0, 2}
  KernelEnd = 2
  Fdts <- BootFdts
INVARIANTS
  BlocksUsable
  BootLeavesMemory
  NeverOvercommits
PROPERTIES
  HeadersUsable
  FreeKeepsList
CHECK_DEADLOCK FALSE

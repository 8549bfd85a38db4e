SPECIFICATION Spec
CONSTANTS
  HeaderSize = 2
  Top = 8
  Half = 16
  AllocSizes = {0, 3}
  Alignments = {0, 1, 2}
  Avoid = {"below_head", "scaled_end", "too_small", "huge"}
INVARIANTS
  AllocTypeOK
  ListSound
  NoOverlap
  AssertionsHold
  FailsOnlyIfNothingFits
PROPERTIES
  StoresStayInPool
  BoundedWaste
  BootAllocReturns
  ImplementsBootAlloc

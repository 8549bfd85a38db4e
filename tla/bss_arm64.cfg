SPECIFICATION Spec
CONSTANTS
  Bits = {1, 2}
  Word = 16
  Registers <- MCRegisters
  Syscons <- MCSyscons
  Trees <- MCTrees
  WordBytes = 2
  BssEnd = 5
  NextStart = 8
  Place <- MCPlace
  X6 <- MCX6
  Garbage <- MCGarbage
  Headers <- MCHeaders
  Keys <- MCKeys
  NoKey = "none"
  Arrays <- MCArrays
INVARIANT BssZeroed
CHECK_DEADLOCK FALSE

SPECIFICATION Spec
CONSTANTS
  Strings <- MCStrings
  DebugName <- MCDebugName
  Values <- BadValues
  Kinds <- SearchKinds
INVARIANTS
  SearchExact
CHECK_DEADLOCK FALSE

SPECIFICATION Spec
CONSTANTS
  Strings <- MCStrings
  DebugName <- MCDebugName
  Values <- MCValues
  Kinds <- MCKinds
INVARIANTS
  WalkExact ChildrenExact PropsExact ParentsExact FirstBlockExact SearchExact ReserveExact
CHECK_DEADLOCK FALSE

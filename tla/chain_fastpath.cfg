SPECIFICATION Spec
CONSTANTS
  Device <- PairDevice
  Virtual = {}
  Parents <- PairParents
  Root = 151
  MaxDepth = 10
  ClosedHandoff = FALSE
  AutoGating = FALSE
INVARIANTS ChainActive
CHECK_DEADLOCK FALSE

SPECIFICATION Spec
CONSTANTS
  Device <- MalformedDevice
  Virtual <- MalformedVirtual
  Parents <- MalformedParents
  Root = 1
  MaxDepth = 2
  ClosedHandoff = FALSE
  AutoGating = TRUE
PROPERTIES Terminates
CHECK_DEADLOCK FALSE

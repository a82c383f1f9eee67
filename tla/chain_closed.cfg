SPECIFICATION Spec
CONSTANTS
  Device <- ApcieDevice
  Virtual <- ApcieVirtual
  Parents <- ApcieParents
  Root = 151
  MaxDepth = 10
  ClosedHandoff = TRUE
  AutoGating = FALSE
INVARIANTS TypeOK ChainActive WalkInv NothingPokedBelowRefusal RefusalWasEscalated
PROPERTIES ParentsFirst ParentsFirstPowerUp
CHECK_DEADLOCK FALSE

SPECIFICATION Spec
CONSTANTS
  Orders <- AllOrders
  ActivePorts <- J773Ports
  NicPort = 2
  Handoff <- J773Handoff
  Tunables <- J773Tunables
  MaxTroubles = 2
INVARIANTS TypeOK EndpointReleased ConfigModeClosed HandoffBitsKept GuardBalanced ClockedOnly
PROPERTIES StartsReleased StrobeWhenUnlocked TouchedFirst Terminates
CHECK_DEADLOCK FALSE

SPECIFICATION Spec
CONSTANTS
  ActivePorts <- J773Ports
  Classes <- J773Classes
  MaxTroubles = 0
INVARIANTS PassIsMilestone
CHECK_DEADLOCK FALSE

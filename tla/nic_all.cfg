SPECIFICATION Spec
CONSTANTS
  ActivePorts <- J773Ports
  Classes <- J773Classes
  MaxTroubles = 2
INVARIANTS TypeOK MasterIsNic NoChimera OnlyActiveProbed
PROPERTIES Terminates
CHECK_DEADLOCK FALSE

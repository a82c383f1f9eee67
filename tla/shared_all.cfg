SPECIFICATION Spec
CONSTANTS
  Boots <- AllBoots
  Faulty <- Windows
  Props <- J773Props
  PhyIp <- J773PhyIp
  PhyExtra <- J773PhyExtra
  ActivePorts <- J773Ports
INVARIANTS TypeOK OneEarlyTouch InactiveSliceUntouched UpIsEarned
PROPERTIES TunablesAfterHandshake Terminates
CHECK_DEADLOCK FALSE

SPECIFICATION Spec
CONSTANTS
  Boots <- PostInitBoots
  Faulty <- PhyIpOnly
  Props <- J773Props
  PhyIp <- J773PhyIp
  PhyExtra <- J773PhyExtra
  ActivePorts <- J773Ports
INVARIANT UpMeansPhyIpAnswers
CHECK_DEADLOCK FALSE

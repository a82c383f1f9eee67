SPECIFICATION Spec
CONSTANTS
  Boots <- PostInitReplay
  PowerGates <- J773PowerGates
  Virtual <- J773Virtual
  PhySw = "g151"
  Direct <- J773Direct
  Chain <- J773Chain
  MayDrift = FALSE
  RecoveryProbes = 3
INVARIANT ReplayOverChain
CHECK_DEADLOCK FALSE

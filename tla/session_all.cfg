SPECIFICATION Spec
CONSTANTS
  Boots <- AllBoots
  PowerGates <- J773PowerGates
  Virtual <- J773Virtual
  PhySw = "g151"
  Direct <- J773Direct
  Chain <- J773Chain
  MayDrift = TRUE
  RecoveryProbes = 3
INVARIANTS TypeOK MmioBehindGates HarvestIsEarned
PROPERTY Terminates
CHECK_DEADLOCK FALSE

SPECIFICATION Spec
CONSTANTS
  Jobs <- AllJobs
  Registers <- BothRegisters
  Bits <- TwoBits
  Sentinel <- BothBits
INVARIANTS TypeOK PlanKeepsOrder ReadsAnswered
PROPERTIES DeltaOnly AfterProbe Terminates
CHECK_DEADLOCK FALSE

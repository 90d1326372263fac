SPECIFICATION Spec
CONSTANTS
  MaxCodes = 2
  MaxKdf = 2
  MaxKeys = 2
  MaxSlots = 2
  MaxPcr = 2
INVARIANTS
  OneKey
  NeverShut
  PromisesKept
  SecondFactorHolds
CHECK_DEADLOCK FALSE

CONSTANTS
  Unlimited = Unlimited
  Targets <- MCFailTargets
  Bandwidths = {100}
  InitLimits <- MCInitLimits
  InitSwaps <- MCInitSwaps
  UsageLevels <- MCFailUsageLevels
  MaxUsage = 1200
  IterMax = 5
  PressureMb = 256
  SwapSizeMb = 40960
  MbpsToBytes = 125000
  CanFail = TRUE
SPECIFICATION Spec
INVARIANT WriteBound
PROPERTY LimitNeverBelowTarget MemoryLimitRefined

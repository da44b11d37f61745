CONSTANTS
  Unlimited = Unlimited
  Targets <- MCTargets
  Bandwidths = {100}
  InitLimits <- MCInitLimits
  InitSwaps <- MCInitSwaps
  UsageLevels <- MCUsageLevels
  MaxUsage = 1200
  IterMax = 5
  PressureMb = 256
  SwapSizeMb = 40960
  MbpsToBytes = 125000
  CanFail = FALSE
SPECIFICATION Spec


PROPERTY ShrinkIsGradual

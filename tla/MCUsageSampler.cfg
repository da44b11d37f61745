\* One container: a ring of 2 perf windows, idle or 2 misses per window,
\* up to 3 bytes per clock unit over 4 clock units, 5-bit byte counters.
CONSTANTS
  PerfLen = 2
  MissLevels = {0, 2}
  PerfFails = TRUE
  MemFails = TRUE
  MaxRate = 3
  MaxTime = 4
  Width = 5
  Restarts = TRUE
SPECIFICATION Spec
INVARIANT BwWithinDeviceRate

\* One container with its monitor thread and estimator, the report loop,
\* and up to two incarnations (one recreation), with or without a
\* preloaded cgroup_map entry.
CONSTANTS
  Mon = Mon
  Est = Est
  Samplers <- MCSamplers
  Rep = Rep
  MaxInc = 2
  Preloaded = TRUE
SPECIFICATION Spec
PROPERTY MemoryReadRecovers

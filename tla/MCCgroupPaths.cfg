\* One container with its monitor thread and estimator, the report loop,
\* and up to three incarnations (two recreations), with or without a
\* preloaded cgroup_map entry.
CONSTANTS
  Mon = Mon
  Est = Est
  Samplers <- MCSamplers
  Rep = Rep
  MaxInc = 3
  Preloaded = TRUE
SPECIFICATION Spec
INVARIANT NoPanicWithoutRecreate
PROPERTY PathEventuallyCached

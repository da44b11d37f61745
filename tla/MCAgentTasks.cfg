\* Two config requests, two estimator tasks, the report loop; a history of
\* one record stands for LEN_PERF_HISTORY.
CONSTANTS
  R1 = R1
  R2 = R2
  A1 = A1
  A2 = A2
  Reqs <- MCReqs
  Apps <- MCApps
  Report = Report
  NoOne = NoOne
  HistLen = 1
  ReadsFail = FALSE
SPECIFICATION Spec
PROPERTY ConfigEventuallyApplied
INVARIANT FitSeesCurrentAllocation

\* One agent sending two reports, every curl delivered and every memory
\* read successful: only the order in which the curls finish varies.
CONSTANTS
  V1 = V1
  V2 = V2
  A1 = A1
  A2 = A2
  Vms <- MCVms
  Apps <- MCApps
  MaxReports = 2
  ReadsFail = FALSE
  Lossy = FALSE
SPECIFICATION Spec
PROPERTY ViewNeverRegresses

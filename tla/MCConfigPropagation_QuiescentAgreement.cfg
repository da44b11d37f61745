CONSTANTS
  A = A
  B = B
  V1 = V1
  V2 = V2
  V3 = V3
  Vms = {V1, V2}
  Apps = {A, B}
  Placement <- MCPlacement
  IpMapped = {V1, V2}
  Configs <- MCConfigs
  MaxCalls = 3
  Lossy = FALSE
  ApplyPanics = FALSE
SPECIFICATION Spec
INVARIANT QuiescentAgreement
\* Once MaxCalls configs were posted and every curl has finished, both
\* servers just wait for requests: an idle end state, not a deadlock.
CHECK_DEADLOCK FALSE

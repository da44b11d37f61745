CONSTANTS
  A = A
  B = B
  V1 = V1
  V2 = V2
  V3 = V3
  Vms = {V1, V2, V3}
  Apps = {A, B}
  Placement <- MCPanicPlacement
  IpMapped = {V1, V2}
  Configs <- MCConfigs
  MaxCalls = 3
  Lossy = TRUE
  ApplyPanics = TRUE
SPECIFICATION Spec
INVARIANT SplitConservation
INVARIANT HeldSharesAreSplits
PROPERTY DeliveryRefined
\* Once MaxCalls configs were posted and every curl has finished, both
\* servers just wait for requests: an idle end state, not a deadlock.
CHECK_DEADLOCK FALSE

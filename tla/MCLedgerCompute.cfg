SPECIFICATION LedgerSpec
CONSTANTS
  l1 = l1
  l2 = l2
  l3 = l3
  acme = acme
  beta = beta
  ref1 = ref1
  ref2 = ref2
  cp = cp
  LeaseIds <- Leases3
  Tenants <- OneTenant
  ProviderRefs = {}
  Checkpoints = {}
  Times <- Clock0to2
  MonthMs = 2
  MaxPendingAge = 1
  Vcpus = {2}
  Ttls = {1}
  MaxConcurrency <- Cap2
  Ceiling <- Ceiling5
  MaxLedgerVcpuMs = 20
SYMMETRY Symmetry3
INVARIANTS
  ConcurrencyCap
  ComputeCeiling
  ChargedIffTerminal
PROPERTIES
  NoUnchargedDisappearance
CHECK_DEADLOCK FALSE

SPECIFICATION LedgerSpec
CONSTANTS
  l1 = l1
  l2 = l2
  l3 = l3
  acme = acme
  beta = beta
  ref1 = ref1
  ref2 = ref2
  cp = cp
  LeaseIds <- Leases2
  Tenants <- TwoTenants
  ProviderRefs = {ref1, ref2}
  Checkpoints = {cp}
  Times <- Clock0to2
  MonthMs = 3
  MaxPendingAge = 0
  Vcpus = {1}
  Ttls = {1}
  MaxConcurrency <- Cap1
  Ceiling <- CeilingForOne
  MaxLedgerVcpuMs = 1
SYMMETRY Symmetry2
PROPERTIES
  ClaimedRowsFrozen
  HistoryIsStable
CHECK_DEADLOCK FALSE

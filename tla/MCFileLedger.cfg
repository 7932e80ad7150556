SPECIFICATION FileSpec
CONSTANTS
  l1 = l1
  l2 = l2
  acme = acme
  ref = ref
  cp = cp
  LeaseIds = {l1, l2}
  Tenants = {acme}
  ProviderRefs = {ref}
  Checkpoints = {cp}
  Times = {0, 1}
  MonthMs = 2
  MaxPendingAge = 0
  Vcpus = {1}
  Ttls = {1}
  MaxConcurrency <- Cap
  Ceiling <- SmallCeiling
  MaxLedgerVcpuMs = 5
  MaxJournal = 4
  Faults = {}
INVARIANT RecoversEverything
PROPERTIES
  DurableIsALedger
CHECK_DEADLOCK FALSE

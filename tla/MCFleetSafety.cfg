SPECIFICATION Spec
CONSTANTS
  l1 = l1
  acme = acme
  ref = ref
  i1 = i1
  i2 = i2
  q1 = q1
  q2 = q2
  LeaseIds = {l1}
  Tenants = {acme}
  ProviderRefs = {ref}
  Checkpoints = {}
  Times <- Clock
  MonthMs = 2
  MaxPendingAge = 0
  Vcpus = {1}
  Ttls = {1}
  MaxConcurrency <- Cap1
  Ceiling <- Unmetered
  MaxLedgerVcpuMs = 1
  Instances = {i1, i2}
  Requests = {q1}
  Ttl = 1
  MaxTime = 1
  LastAdmit = 1
  MaxCrashes = 1
SYMMETRY Swap
INVARIANTS
  NoUnownedBox
  CleanupFence
  SlotFreedOnce
CHECK_DEADLOCK FALSE

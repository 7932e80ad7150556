CONSTANTS
  s1 = s1
  s2 = s2
  Sessions = {s1, s2}
  PgLeases = {"l1", "l2"}
  Metered = {"l1"}
  Grants = {"g"}
  AdmitPermits = 2
  PgCap = 1
  PgCeiling = 2
  Baseline = 1
  PgEnds = {"Released"}
  MaxActual = 2
  Dispatchers = {1, 2}
  Issuers = {1, 2}
  MaxEvents = 3
  MaxGeneration = 3
  NumShards = 2
  Hashes = {0, 1, 2, 3}
  RoutedJobs = {"j"}
  MaxRouted = 2
INIT SharedInit
NEXT SharedNext
SYMMETRY Interchangeable
CHECK_DEADLOCK FALSE
INVARIANTS
  PgLedgerIsSerial
  AccrualExact
  
  

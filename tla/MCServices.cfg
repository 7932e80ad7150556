CONSTANTS
  Slots = {"s1", "s2"}
  JournalCap = 2
  BufferCap = 1
  MaxBatch = 1
  MaxClock = 1
  MaxRestarts = 1
  WalkDays = 800
  Anchors <- MCAnchors
  WallDays = {1, 2, 31}
  MsPerVcpuHour = 36
  LedgerMax = 20000
  Mantissas = {0, 1, 5, 12, 277}
  FractionDigits = {0, 1, 3}
  Exponents <- MCExponents
  OfferedGrants = {1, 2, 3}
  GrantOf <- MCGrantOf
  GrantRequests = {1, 2, 3, 4, 5, 6, 7}
  GrantRequestOf <- MCGrantRequestOf
  BlockingPermits = 2
  MaxTtl = 2
  PeriodLength = 4
  GrantMaxNow = 4
  Jobs = {1, 2, 3}
  ManagedJobs = {1, 2}
  Handlers = {1, 2}
  MaxTrackedJobs = 1
  MaxDeliveries = 1
  MaxBoxes = 2
  CheckLeases = {"check"}
  AgentLeases = {"agent"}
  RunnerLeases = {}
  HydratedLeases = {"check"}
  Toolchains = {"t1", "t2"}
  HydratedToolchain = "t1"
  Calls = {"r1", "r2"}
  Items = {"i1"}
  DedupCap = 1
  Strings <- MCStrings
  Exits = {0, 1}
  Counts = {0, 1}
  MaxList = 1
  CredLeases = {"a", "t"}
  TestLeases = {"t"}
  Redeemers = {1}
  GitHubApp = TRUE
  CredTtl = 2
  SkewMargin = 1
  MaxDrift = 2
  MaxMints = 2
  CredMaxNow = 1
  RunnerMints = {"m1", "m2", "m3"}
  AllowedTarget <- MCAllowedTarget
  Skews <- MCSkews
INIT ServicesInit
NEXT ServicesNext
CHECK_DEADLOCK FALSE
INVARIANTS
  
  BudgetsHold
  JobsOwnTheirBox
  
  
  
  ServesOnlySafely

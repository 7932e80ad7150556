CONSTANTS
  a1 = a1
  a2 = a2
  a3 = a3
  AcquireRequests = {a1, a2, a3}
  Owner <- MCOwner
  NumTenants = 3
  GlobalSlots = 2
  MaxTenantQueueDepth = 2
  NeverOverCap = {3}
  Cap = 1
  ParkCap = 2
  RateAcquires = {1, 2, 3}
  RateTenant <- MCRateTenant
  RateShards = {1, 2}
  RateCeiling = 1
  Minute = 3
  MaxLag = 1
  RateMaxNow = 4
  Guards = {1, 2, 3, 4, 5}
  GuardTenant <- MCGuardTenant
  Wall = 3
  Share = 2
  PlanTenants = {"t", "u"}
  PlanCaps = {1, 3, 4, 7}
  Tiers = {"starter", "pro"}
  PlanFor <- MCPlanFor
  Width = 8
  MaxHeld = 1
  AuthRequests = {"r1", "r2", "r3"}
  TokenOf <- MCTokenOf
  GoodTokens = {"good"}
  IntrospectPermits = 1
  Threshold = 1
  Cooldown = 1
  Attempts = 2
  CacheTtl = 1
  CacheMax = 1
  MaxNow = 1
  ReadyCallers = {1, 2, 3, 4}
  MaxAttempts = 3
INIT WayInInit
NEXT WayInNext
SYMMETRY Interchangeable
CHECK_DEADLOCK FALSE
INVARIANTS
  
  GatesHold
  IntrospectionFailsClosed
  NoWaiterIsStranded
PROPERTIES
  QueueConservesWaiters
  LoadIsExactOrFails
  OwedGoFirst

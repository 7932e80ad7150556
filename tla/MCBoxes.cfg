CONSTANTS
  BoxedLeases = {"l"}
  ExecCalls <- MCExecCalls
  MaxRestarts = 1
  MaxPollAttempts = 1
  NumJobs = 3
  Digests = {"d", "forged"}
  DigestOf <- MCDigestOf
  Tampered = {"forged"}
  PullMaxAttempts = 2
  MaxPolls = 1
  MaxFaults = 1
  Leftovers = {{}, {"mounts"}}
  Boots = {"b1", "b2"}
  Plan <- MCPlan
  MaxOutages = 1
  MaxEvictions = 1
  BoxCalls = {"c1"}
  MaxCaptureBytes = 1
  PipeBytes = 1
  MaxWritten = 2
  Drives = {1}
  ChildCodes = {0, 1, 125}
  PathSets <- MCPathSets
  CandidateLists <- MCCandidateLists
  ShimPrefixes <- MCPrefixes
  ShimLines <- MCLines
  MaxShimLines = 2
  ShimSecrets = {"S"}
  Turn = "turn"
  Forwarders = {"f1", "f2"}
  BatchOf <- MCBatchOf
  Closers = {"close", "close2", "reap"}
  NormalClosers = {"close", "close2"}
  BufferCapacity = 2
  MaxDistinctTools = 1
  WsCallers = {"w1", "w2", "w3"}
  WsLeases = {"l"}
  WsFences = {"f", "g"}
  CeilingFences = {"f"}
  WsMaxEntries = 1
  DedupWindow = 1
  WsMaxNow = 1
INIT BoxesInit
NEXT BoxesNext
CHECK_DEADLOCK FALSE
INVARIANTS
  
  HonestHydration
  ConfirmedIsGone
  
  
  
  WaitersHaveASpawner

CONSTANTS
  BoxedLeases = {"l"}
  ExecCalls <- MCExecCalls
  MaxRestarts = 0
  MaxPollAttempts = 1
INIT ProviderInit
NEXT ProviderNext
INVARIANT RunIsOwn
CHECK_DEADLOCK FALSE

SPECIFICATION LockFairSpec
CONSTANTS
  MaxThreads = 3
  Queues <- MCQueues
  lockQ = lockQ
  cvQ = cvQ
  ExitCodes = {0}
  Ops <- MCCreateKill
  LockOps <- MCMonitor
  Timer = TRUE
  Disciplined = TRUE
INVARIANT MutualExclusion
INVARIANT NobodySleepsForFreeLock
INVARIANT HangsOnlyAbandoned
PROPERTY WaiterRetries

SPECIFICATION Spec
CONSTANTS
  MaxThreads = 3
  Queues = {}
  ExitCodes = {0}
  Ops <- MCWaitOps
  Timer = TRUE
 
INVARIANT ReadyIsQueued

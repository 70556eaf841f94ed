SPECIFICATION HSpec
CONSTANTS
  MaxThreads = 3
  Queues <- MCQueues
  lockQ = lockQ
  cvQ = cvQ
  ExitCodes = {0}
  Ops <- MCExitWaitOps
  LockOps <- MCCvOps
  Timer = TRUE
  Disciplined = TRUE
INVARIANT SomePromiseKept

SPECIFICATION FairSpec
CONSTANTS
  MaxThreads = 3
  Queues = {q1, q2}
  q1 = q1
  q2 = q2
  ExitCodes = {0}
  Ops <- MCSleepOps
  Timer = TRUE
INVARIANT TypeOK
INVARIANT NumsExact
INVARIANT SleeperLeaves
INVARIANT OnePlace
INVARIANT ResumableHasStack
PROPERTY Fifo
PROPERTY ReadyRuns
PROPERTY KilledEnds

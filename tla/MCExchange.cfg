SPECIFICATION Spec
CONSTANTS
  Room = 5
  BufSize = 2
  MaxLine = 3
  Bodies <- MCBodies
INVARIANT TypeOK
INVARIANT StreamIntact
INVARIANT OnlyQuittersHurt
INVARIANT ClientAssertions
PROPERTY Completes
CHECK_DEADLOCK FALSE

SPECIFICATION Spec
CONSTANTS
  Letters <- MCLetters
  Spaces <- MCSpaces
  Tails <- MCTails
  MaxText = 3
  HashRange = 16777216
INVARIANT SomeWordPromiseKept
CHECK_DEADLOCK FALSE

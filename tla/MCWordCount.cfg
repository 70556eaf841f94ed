SPECIFICATION Spec
CONSTANTS
  Letters <- MCLetters
  Spaces <- MCSpaces
  Tails <- MCTails
  MaxText = 6
  HashRange = 16777216
INVARIANT CountsExact
INVARIANT PrintedOnce
INVARIANT ItemsFreed
CHECK_DEADLOCK FALSE

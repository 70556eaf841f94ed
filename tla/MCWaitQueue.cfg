SPECIFICATION Spec
CONSTANTS
  Tid = {0, 1, 2}
  Null = Null
  n1 = n1
  n2 = n2
  n3 = n3
  n4 = n4
  Node <- MCNode
SYMMETRY MCSymmetry
INVARIANT ListSound
PROPERTY ImplementsTidQueue

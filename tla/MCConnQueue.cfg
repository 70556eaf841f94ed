SPECIFICATION Spec
CONSTANTS
  w1 = w1
  w2 = w2
  w3 = w3
  Workers <- MCWorkers
  MaxRequests = 2
  Conns = 6
INVARIANT TypeOK
INVARIANT RingExact
INVARIANT Conserved
INVARIANT DrainedAtExit
PROPERTY ImplementsFifo
PROPERTY AcceptedIsServed
PROPERTY ExitCompletes

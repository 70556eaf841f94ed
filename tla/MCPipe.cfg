SPECIFICATION Spec
CONSTANTS
  Commands = 3
  Codes = {0, 1, 2}
  PipeSize = 1
  Input = 2
INVARIANT EndIsProducersEnd
INVARIANT NoEarlySigpipe
INVARIANT ResultIsFirstFailure
PROPERTY Terminates

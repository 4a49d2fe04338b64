\* One file and its directory, edited while one handler and the worker use it, a crash.
CONSTANTS
  NumFiles = 1
  MaxVersion = 2
  MaxCrashes = 1
  Clients = {c1}
SPECIFICATION Spec
INVARIANT TypeOK
INVARIANT ProcessingOwned
INVARIANT NoLostWakeup
PROPERTY ImplementsQueue

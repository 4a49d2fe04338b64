CONSTANTS
  NumFiles = 1
  MaxVersion = 1
  MaxCrashes = 0
  Clients = {c1}
SPECIFICATION FairSpec
PROPERTY StopEndsWorker

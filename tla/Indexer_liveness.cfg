\* One file that may be deleted but not edited, and its directory; one handler, a crash.
CONSTANTS
  NumFiles = 1
  MaxVersion = 1
  MaxCrashes = 1
  Clients = {c1}
SPECIFICATION FairSpec
PROPERTY ProcessingEnds
PROPERTY QuiescentDrain

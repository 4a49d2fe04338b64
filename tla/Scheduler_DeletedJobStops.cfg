CONSTANTS
  NumJobs = 1
  DirJobs = {}
  LegacyJobs = {}
  OddJobs = {}
  MaxContent = 1
  MaxFires = 0
  MaxRestarts = 0
  Runs = {r1}
  Editors = {}
SPECIFICATION FairSpec
PROPERTY DeletedJobStops

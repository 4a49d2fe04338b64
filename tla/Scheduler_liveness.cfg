\* One job with a directory, two runs at a time, an update in flight, a restart.
CONSTANTS
  NumJobs = 1
  DirJobs = {1}
  LegacyJobs = {}
  OddJobs = {1}
  MaxContent = 1
  MaxFires = 2
  MaxRestarts = 1
  Runs = {r1, r2}
  Editors = {e1}
SPECIFICATION FairSpec
PROPERTY RunsEnd
PROPERTY EnabledScheduled
PROPERTY DisabledUnscheduled

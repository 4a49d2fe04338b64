\* Two jobs with directories, one of them with a legacy file; two runs at a
\* time; no updates in flight.
CONSTANTS
  NumJobs = 2
  DirJobs = {1, 2}
  LegacyJobs = {2}
  OddJobs = {}
  MaxContent = 1
  MaxFires = 2
  MaxRestarts = 0
  Runs = {r1, r2}
  Editors = {}
SPECIFICATION Spec
SYMMETRY RunSymmetry
INVARIANT TypeOK
INVARIANT OneCronPerEntry
INVARIANT CwdDiscipline
PROPERTY ImplementsTable

\* Three requests at a time over two projects, with restarts.
CONSTANTS
  Projects = {p1, p2}
  Callers = {c1, c2, c3}
SPECIFICATION FairSpec
INVARIANT TypeOK
INVARIANT OpensOnce
INVARIANT NoOrphan
PROPERTY ResetCovers
PROPERTY ImplementsLazyTable
PROPERTY EveryCallAnswered

\* Two clients, two sessions, two messages; when they are used up the system rests.
CONSTANTS
  Clients = {c1, c2}
  Sessions = {s1, s2}
  Execs = {e1, e2}
  NoExec = NoExec
SPECIFICATION FairSpec
CHECK_DEADLOCK FALSE
INVARIANT TypeOK
INVARIANT RegisteredIsOwn
INVARIANT ActiveIsLive
PROPERTY CalledBeforeDropped
PROPERTY CancelledEnds

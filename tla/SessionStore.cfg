\* Three callers on one session, two messages, a crash or a failed write.
CONSTANTS
  Sessions = {s1}
  NoSession = NoSession
  Dirs = {d1}
  NoDir = NoDir
  Callers = {c1, c2, c3}
  NoCaller = NoCaller
  MaxAppends = 2
  MaxFaults = 1
SPECIFICATION FairSpec
INVARIANT TypeOK
INVARIANT MessagesKept
INVARIANT TornWhileWriting
PROPERTY LockReleased
PROPERTY ImplementsLog

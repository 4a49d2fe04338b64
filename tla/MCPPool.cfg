\* Two callers and two servers, dialed three times between them.
CONSTANTS
  Servers = {s1, s2}
  Callers = {c1, c2}
  MaxConns = 3
SPECIFICATION FairSpec
INVARIANT TypeOK
INVARIANT NoLeak
INVARIANT PooledAlive
PROPERTY FollowsLife
PROPERTY QuietPoolDrains

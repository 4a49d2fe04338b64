\* The loop, one reload request and one resolution at a time; each directory changes once.
CONSTANTS
  Handlers = {h1}
  Loop = Loop
  Resolvers = {r1}
  Agents = {a1}
  MaxVersion = 1
SPECIFICATION FairSpec
INVARIANT TypeOK
INVARIANT CacheFresh
INVARIANT StopIsQuiet
INVARIANT NothingForgotten
PROPERTY ChangeLoaded
PROPERTY StopReturns

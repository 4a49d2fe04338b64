CONSTANTS
  Projects = {p1, p2}
  Callers = {c1, c2}
SPECIFICATION Spec
INVARIANT GetReturnsIndexer

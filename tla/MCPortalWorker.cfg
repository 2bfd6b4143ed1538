\* Two ids over one session: calls Go has given up leave contexts it has forgotten,
\* which stand in the way of the next session.
SPECIFICATION Spec
CONSTANTS
  Id = {i1, i2}
  Entry = {e1, e2, e3}
  Call = {c1, c2, c3}
  MaxSessions = 1
  MaxConcurrent = 2
  None = None
SYMMETRY Symmetric
INVARIANTS OneRunPerContext ContextsBounded ContextsTracked WaitsBacked
PROPERTY KeepsPool

SPECIFICATION Spec
CONSTANTS
  Request = {r1, r2}
  Sid = {s1, s2}
  Account = {a}
  MaxSessions = 1
  MaxConcurrent = 2
  MaxTokens = 2
  Ratio = FALSE
  None = None
SYMMETRY Symmetry
INVARIANTS
  SlotsCounted
  OneOperation
  NoSessionStuck
  OneTokenPerSession
  PoolBounded
  FlightsAreLed
PROPERTIES
  NoResurrection
  LendsContexts

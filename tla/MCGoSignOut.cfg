SPECIFICATION Spec
CONSTANTS
  Request = {r1, r2}
  Sid = {s1}
  Account = {a}
  MaxSessions = 1
  MaxConcurrent = 2
  MaxTokens = 2
  Ratio = FALSE
  None = None
SYMMETRY Symmetry
INVARIANTS
  SignOutFinal

SPECIFICATION FairSpec
CONSTANTS
  Request = {r1, r2}
  Sid = {s1}
  Account = {a}
  MaxSessions = 1
  MaxConcurrent = 2
  MaxTokens = 2
  Ratio = TRUE
  None = None
INVARIANTS
  OneCallPerSession
PROPERTIES
  RequestsFinish
  ExpiredLeave

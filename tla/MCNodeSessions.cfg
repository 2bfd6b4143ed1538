\* Two sessions over one place, two requests and the timer.
SPECIFICATION FairSpec
CONSTANTS
  Request = {r1, r2}
  Sid = {s1, s2}
  MaxSessions = 1
  None = None
INVARIANTS OneOperation MapBounded
PROPERTIES RequestsFinish SessionsEnd

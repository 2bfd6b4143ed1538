\* A session expires while its browser is at work.
SPECIFICATION Spec
CONSTANTS
  Request = {r1, r2}
  Sid = {s1, s2}
  MaxSessions = 1
  None = None
INVARIANTS Undisturbed

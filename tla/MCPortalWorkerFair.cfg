\* One session at a time, and two calls so that a close can find it busy.
SPECIFICATION FairSpec
CONSTANTS
  Id = {i1}
  Entry = {e1, e2}
  Call = {c1, c2}
  MaxSessions = 1
  MaxConcurrent = 2
  None = None
PROPERTIES OrphansEnd CallsEnd

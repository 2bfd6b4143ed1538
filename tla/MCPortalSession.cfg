\* Attendance, marks and one breakdown; everything may close the session.
SPECIFICATION FairSpec
CONSTANTS
  MaxReports = 3
INVARIANTS SubmitsOnce CacheOfSession Detached
PROPERTIES OperationsEnd
CHECK_DEADLOCK FALSE

\* Every selection on three days, at the boundary of 75 % and around it.
SPECIFICATION Spec
CONSTANTS
  a = a
  b = b
  b1 = b1
  b2 = b2
  r = r
  None = None
  Timetable <- MCTimetable
  Day = {1, 2, 3}
  Calendars <- MCCalendars
  Reports <- MCReports
  Hour = {0, 9}
  Target = 75
  MaxSpan = 2
INVARIANTS HoursAccounted PredictionsExact OneStaleDay

SPECIFICATION Spec
CONSTANTS
  w1 = w1
  w2 = w2
  x1 = x1
  x2 = x2
  a1 = a1
  a2 = a2
  e1 = e1
  e2 = e2
  WindowIds = {w1, w2}
  ExceptionIds = {x1, x2}
  Appts = {a1, a2}
  Editors = {e1, e2}
  Hours <- Shifts
  DaysOff <- Absences
  DayLength = 8
  Granularity = 2
  Duration = 2
SYMMETRY Ids
INVARIANTS
  SchedulesTypeOK
  GridIsExact
  
PROPERTIES
  BookedWhileOpen
CHECK_DEADLOCK FALSE

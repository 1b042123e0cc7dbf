SPECIFICATION Spec
CONSTANTS
  a1 = a1
  o1 = o1
  m1 = m1
  Appts = {a1}
  OutboxScans = {o1}
  ReminderScans = {m1}
  MaxTime = 2
  MaxRows = 3
  Lead = 1
PROPERTIES
  NoLateReminder
CHECK_DEADLOCK FALSE

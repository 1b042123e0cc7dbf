SPECIFICATION FairSpec
CONSTANTS
  a1 = a1
  o1 = o1
  o2 = o2
  m1 = m1
  Appts = {a1}
  OutboxScans = {o1, o2}
  ReminderScans = {m1}
  MaxTime = 1
  MaxRows = 2
  Lead = 1
INVARIANTS
  WorkerTypeOK
  OneMailPerRow
  SentWasDelivered
  
PROPERTIES
  
  EveryMailLeaves
CHECK_DEADLOCK FALSE

SPECIFICATION Spec
CONSTANTS
  r1 = r1
  r2 = r2
  r3 = r3
  a1 = a1
  b1 = b1
  c1 = c1
  s1 = s1
  NoOne = NoOne
  Requests = {r1, r2, r3}
  Appts = {a1}
  Clients = {c1}
  Barbers = {b1}
  Services = {s1}
  Times = {0, 1, 2}
  Instants = {0, 1, 2, 3, 4}
  Catalogs <- OpenDay
  AutoConfirm = TRUE
  RescheduleWindow = 1
  FreeCancelWindow = 1
  RejectLateCancel = TRUE
INVARIANTS
  CancelledOnce
CHECK_DEADLOCK FALSE

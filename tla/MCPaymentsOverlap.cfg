SPECIFICATION PaymentsSpec
CONSTANTS
  r1 = r1
  r2 = r2
  r3 = r3
  a1 = a1
  a2 = a2
  p1 = p1
  j1 = j1
  b1 = b1
  c1 = c1
  s1 = s1
  NoOne = NoOne
  NoPix = NoPix
  Requests = {r1, r2, r3}
  Appts = {a1, a2}
  PixIds = {p1}
  WebJobs = {j1}
  Scans = {}
  Clients = {c1}
  Barbers = {b1}
  Services = {s1}
  Times = {0}
  Instants = {0, 1}
  Catalogs <- OneHour
  AutoConfirm = TRUE
  RescheduleWindow = 1
  FreeCancelWindow = 0
  RejectLateCancel = TRUE
  DistinctEventIds = TRUE
SYMMETRY Interchangeable
INVARIANTS
  NoOverlap
CHECK_DEADLOCK FALSE

SPECIFICATION PaymentsSpec
CONSTANTS
  r1 = r1
  a1 = a1
  p1 = p1
  p2 = p2
  j1 = j1
  w1 = w1
  b1 = b1
  c1 = c1
  s1 = s1
  NoOne = NoOne
  NoPix = NoPix
  Requests = {r1}
  Appts = {a1}
  PixIds = {p1, p2}
  WebJobs = {j1}
  Scans = {w1}
  Clients = {c1}
  Barbers = {b1}
  Services = {s1}
  Times = {0}
  Instants = {0, 1}
  Catalogs <- OneHour
  AutoConfirm = TRUE
  RescheduleWindow = 1
  FreeCancelWindow = 0
  RejectLateCancel = TRUE
  DistinctEventIds = TRUE
PROPERTIES
  PaidStaysPaid
CHECK_DEADLOCK FALSE

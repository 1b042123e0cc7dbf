SPECIFICATION Spec
CONSTANTS
  Shops = {shop}
  Services = {cut}
  Barbers = {ana}
  Dates = {1, 2, 3}
  Hours = {9}
  Today = 2
  None = None
  Entries <- MCEntries
  MaxAttempts = 2
  MaxCharges = 2
  MaxStale = 1
INVARIANTS
  PageTypeOK
  ShownBelongsToSelection
  UrlNamesItsBooking
  OneBookingPerVisit
  PaidShownWasPaid
  
PROPERTY
  PollEnds
CHECK_DEADLOCK FALSE

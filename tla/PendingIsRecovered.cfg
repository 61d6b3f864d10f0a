SPECIFICATION FairSpec
CONSTANTS
  b1 = b1
  b2 = b2
  None = None
  Bookings = {b1}
  Web = {"web"}
  Workers = {"worker"}
  Panel = {}
  TicketCount <- MCTicketCount
  MaxErrors = 0
  MaxCrashes = 1
CHECK_DEADLOCK FALSE
PROPERTIES PendingIsRecovered

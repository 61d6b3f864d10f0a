SPECIFICATION FairSpec
CONSTANTS
  b1 = b1
  b2 = b2
  b3 = b3
  t1 = t1
  t2 = t2
  s1 = s1
  None = None
  Bookings = {b1, b2}
  Trips = {t1}
  Seats = {s1}
  Departure <- MCDeparture
  Arrival <- MCArrival
  HoldTime = 1
  ProofWindow = 1
  ReviewWindow = 2
  OnlineCutoff = 1
  ManualCutoff = 1
  MaxPassengers = 2
  MaxWait = 0
  MaxAttempts = 2
  MaxTime = 3
  MaxBatch = 1
  ExcludeKeepsNull = FALSE
PROPERTY UnpaidHoldsAreFreed

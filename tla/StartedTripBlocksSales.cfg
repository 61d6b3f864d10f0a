SPECIFICATION FairSpec
CONSTANTS
  b1 = b1
  b2 = b2
  b3 = b3
  t1 = t1
  t2 = t2
  s1 = s1
  None = None
  Bookings = {b1, b2}
  Trips = {t1}
  Seats = {s1}
  Departure <- MCDeparture
  Arrival <- MCArrival
  HoldTime = 1
  ProofWindow = 1
  ReviewWindow = 3
  OnlineCutoff = 1
  ManualCutoff = 1
  MaxPassengers = 2
  MaxWait = 1
  MaxAttempts = 2
  MaxTime = 4
  MaxBatch = 1
  ExcludeKeepsNull = TRUE
PROPERTY StartedTripBlocksSales

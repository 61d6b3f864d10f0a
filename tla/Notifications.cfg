SPECIFICATION FairSpec
CONSTANTS
  n1 = n1
  n2 = n2
  None = None
  Rows = {n1, n2}
  Workers = {"worker"}
  Panel = {"panel"}
  MaxAttempts = 2
  MaxErrors = 2
  MaxCrashes = 1
CHECK_DEADLOCK FALSE
INVARIANTS TypeOK SentIsTrue OneMailPerLease
PROPERTIES Settles

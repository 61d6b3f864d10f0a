SPECIFICATION Spec
CONSTANTS
  b1 = b1
  b2 = b2
  None = None
  Bookings = {b1, b2}
  Web = {"web"}
  Workers = {}
  Panel = {"panel"}
  TicketCount <- MCTicketCount
  MaxErrors = 1
  MaxCrashes = 2
INVARIANTS TypeOK NumbersGapless TicketsHaveFiles OneMail SentIsTrue
PROPERTIES KeepsPromise IssuedOnce

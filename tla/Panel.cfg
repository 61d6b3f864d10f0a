SPECIFICATION PanelSpec
CONSTANTS
  d1 = d1
  d2 = d2
  ana = ana
  beto = beto
  x1 = x1
  x2 = x2
  r1 = r1
  r2 = r2
  bus = bus
  journey = journey
  Nobody = Nobody
  NoClerk = NoClerk
  NoTrip = NoTrip
  None = None
  Desks = {d1, d2}
  Operators = {ana, beto}
  CashSessions = {r1, r2}
  ManualSales = {x1, x2}
  Price = 1
  Adjustments <- Movements
  OpeningAmounts = {0}
  MaxBalance = 2
  Clerks = {d1, d2}
  Departures = {x1, x2}
  Lines = {x1, x2}
  Coaches = {bus}
  LineOf <- OwnLine
  CoachOf <- OneCoach
  Amounts = {1}
  LastHour = 2
  MaxWait = 2
  Doors = {d1, d2}
  Staff = {ana, beto}
  Tickets = {x1, x2}
  Records = {r1, r2}
  Journeys = {journey}
  JourneyOf <- OneJourney
  Addresses = {x1, x2}
  Requests = {d1, d2}
  MaxUsers = 3
  Nowhere = Nowhere
  Browsers = {d1, d2}
  Customers = {ana, beto}
  Purchases = {x1, x2}
  Guest = Guest
  Internal = Internal
  NoOne = NoOne
  Calls = {d1, d2}
  Limit = 2
  WindowLength = 2
  Retention = 3
  MaxDelay = 1
  LastTick = 5
  NoCall = NoCall
SYMMETRY Symmetry
CHECK_DEADLOCK FALSE
INVARIANTS PanelTypeOK ClosedBooksBalance ChargedOnce NoOverlap OneActiveBoarding
  StaffApart WithinLimit
PROPERTIES AdministratorKept ImplementsCashBook ImplementsTimetable ImplementsManifest
  HistoryStands OwnersStand

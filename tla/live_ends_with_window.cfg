CONSTANTS
  garden = garden
  hall = hall
  g1 = g1
  g2 = g2
  w1 = w1
  None = None
  Timer = Timer
  p1 = p1
  NoPayment = NoPayment
  Rooms <- TwoRooms
  TableCount <- FiveAndFour
  Temporary = {hall}
  ChinChin <- Approved
  Documents = {d1}
  Payloads <- OwnerPayloads
  Requests = {h1}
  MaxActive = 1
  DayLength = 4
  LiveStart = 3
  LiveEnd = 5
  LastStart = 4
  MaxTime = 9
  Venues = {v1, v2, v3}
  Broken = {v1}
  Take = 2
  MaxStray = 1
SPECIFICATION MCSpec
INVARIANT EndsWithWindow
CHECK_DEADLOCK FALSE

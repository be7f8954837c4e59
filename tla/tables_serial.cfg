CONSTANTS
  r1 = r1
  r2 = r2
  c1 = c1
  c2 = c2
  h1 = h1
  h2 = h2
  None = None
  Scheduler = Scheduler
  DayLen = 3
  WeekLen = 3
  OpensBefore = 1
  WindowLen = 1
  SeenUnlock = 1
  UnseenUnlock = 2
  ConfirmWindow = 2
  Refusals = FALSE
  GuestLimit = 1
  CancelLimit = 1
  MaxTime = 5
  Reservations <- TwoReservations
  Changes = {}
  Guests = {"g1", "g2"}
  Tables = {"t1"}
  Slots <- ShortNight
  Requests <- OneRequest
  MaxActive = 1
  Ops <- BookingOps
  BookableTypes = {"ADVANCE"}
SPECIFICATION Spec
INVARIANT TypeOK
INVARIANT LimitsKept
PROPERTY TablesAssigned
PROPERTY TableFreeWhenTaken
CHECK_DEADLOCK FALSE

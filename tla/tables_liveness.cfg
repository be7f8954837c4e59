CONSTANTS
  r1 = r1
  r2 = r2
  c1 = c1
  c2 = c2
  h1 = h1
  h2 = h2
  None = None
  Scheduler = Scheduler
  DayLen = 3
  WeekLen = 3
  OpensBefore = 1
  WindowLen = 1
  SeenUnlock = 0
  UnseenUnlock = 1
  ConfirmWindow = 1
  Refusals = TRUE
  GuestLimit = 2
  CancelLimit = 1
  MaxTime = 4
  Reservations <- TwoReservations
  Changes = {}
  Guests = {"g1"}
  Tables = {"t1"}
  Slots <- ShortDay
  Requests <- OneRequest
  MaxActive = 1
  Ops <- LivenessOps
  BookableTypes = {"ADVANCE"}
SPECIFICATION FairSpec
PROPERTY TableReleased
PROPERTY ConfirmedResolved
CHECK_DEADLOCK FALSE

CONSTANTS
  r1 = r1
  r2 = r2
  c1 = c1
  c2 = c2
  h1 = h1
  h2 = h2
  None = None
  Scheduler = Scheduler
  DayLen = 5
  WeekLen = 5
  OpensBefore = 2
  WindowLen = 1
  SeenUnlock = 1
  UnseenUnlock = 2
  ConfirmWindow = 1
  Refusals = FALSE
  GuestLimit = 2
  CancelLimit = 1
  MaxTime = 6
  Reservations <- TwoReservations
  Changes <- TwoChanges
  Guests = {"g1"}
  Tables = {"t1"}
  Slots <- TwoEvenings
  Requests <- OneRequest
  MaxActive = 1
  Ops <- ChangeOps
  BookableTypes = {"ADVANCE"}
SPECIFICATION Spec
PROPERTY TablesAssigned
PROPERTY MovedByAgreement
CHECK_DEADLOCK FALSE

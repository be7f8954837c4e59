CONSTANTS
  r1 = r1
  r2 = r2
  c1 = c1
  c2 = c2
  h1 = h1
  h2 = h2
  None = None
  Scheduler = Scheduler
  DayLen = 5
  WeekLen = 5
  OpensBefore = 2
  WindowLen = 1
  SeenUnlock = 1
  UnseenUnlock = 2
  ConfirmWindow = 1
  Refusals = FALSE
  GuestLimit = 2
  CancelLimit = 1
  MaxTime = 0
  Reservations <- TwoReservations
  Changes = {}
  Guests = {"g1"}
  Tables = {"t1"}
  Slots <- OneEvening
  Requests <- TwoRequests
  MaxActive = 2
  Ops = {"create", "accept"}
  BookableTypes = {"ADVANCE"}
SPECIFICATION Spec
SYMMETRY RequestSymmetry
INVARIANT NoDoubleBooking
CHECK_DEADLOCK FALSE

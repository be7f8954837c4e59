CONSTANTS
  p1 = p1
  p2 = p2
  r1 = r1
  r2 = r2
  NoPayment = NoPayment
  Scheduler = Scheduler
  BookableTypes = {"ADVANCE"}
  BookingTimes = {0}
  ConfirmWindow = 1
  ReportDelay = 1
  MaxTime = 5
  Fee = 3
  SlotStart = 3
  SlotEnd = 4
  DayStart = 1
  OpensBefore = 2
  WindowLen = 1
  UnlockSeen = 4
  UnlockUnseen = 5
  CommissionBps = 5000
  FirstReservationBps = 10000
  Payments <- OnePayment
  Requests <- OneRequest
  MaxActive = 1
  Ops <- AllOps
  AdminTargets = {"NO_SHOW"}
  RefundAmounts = {1, 3}
  Faults = {"crash", "reject"}
SPECIFICATION Spec
INVARIANT DivergenceMarked
CHECK_DEADLOCK FALSE

CONSTANTS
  p1 = p1
  p2 = p2
  r1 = r1
  r2 = r2
  NoPayment = NoPayment
  Scheduler = Scheduler
  BookableTypes = {"ADVANCE"}
  BookingTimes = {0}
  ConfirmWindow = 1
  ReportDelay = 1
  MaxTime = 2
  Fee = 3
  SlotStart = 2
  SlotEnd = 3
  DayStart = 1
  OpensBefore = 1
  WindowLen = 1
  UnlockSeen = 3
  UnlockUnseen = 3
  CommissionBps = 5000
  FirstReservationBps = 10000
  Payments <- OnePayment
  Requests <- TwoRequests
  MaxActive = 2
  Ops = {"checkout", "assert", "cancelByCustomer"}
  AdminTargets = {}
  RefundAmounts = {1, 3}
  Faults = {}
SPECIFICATION Spec
SYMMETRY RequestSymmetry
PROPERTY CallbackNeverReopens

CONSTANTS
  p1 = p1
  p2 = p2
  r1 = r1
  r2 = r2
  s1 = s1
  s2 = s2
  s3 = s3
  NoReport = NoReport
  NoPayment = NoPayment
  Scheduler = Scheduler
  BookableTypes = {"LIVE", "ADVANCE"}
  BookingTimes = {0, 2}
  ConfirmWindow = 1
  ReportDelay = 1
  MaxTime = 5
  Fee = 3
  SlotStart = 3
  SlotEnd = 4
  DayStart = 1
  OpensBefore = 2
  WindowLen = 1
  UnlockSeen = 4
  UnlockUnseen = 5
  CommissionBps = 5000
  FirstReservationBps = 10000
  Payments <- MCPayments
  Requests <- OneRequest
  MaxActive = 1
  Ops <- AllOps
  AdminTargets = {"NO_SHOW"}
  RefundAmounts = {1, 3}
  Faults = {}
SPECIFICATION SerialSpec
SYMMETRY PaymentSymmetry
INVARIANT SerialBooksExact
INVARIANT SagaReleasesFunds
INVARIANT SagaConfirmsPaid
INVARIANT SagaKeepsPromise
INVARIANT RefusalLeavesTrace
INVARIANT ReportsHold
CHECK_DEADLOCK FALSE

----------------------- MODULE MCReservationSerial_proofs ----------------------
(***************************************************************************)
(* The properties of MCReservationSerial, for every value of the constants *)
(* under which one handler is in flight at a time: the invariants of       *)
(* ReservationPayments_proofs along the behaviours that may, at some       *)
(* point, override a reservation, the same invariants for the provider     *)
(* that refuses, and the problem reports.                                  *)
(***************************************************************************)
EXTENDS MCReservationSerial, ReservationPayments_proofs

SerialVars == <<scenario, overridden, supportVars, vars>>

-----------------------------------------------------------------------------
(* A provider that works.                                                  *)

WorkingInv == scenario = "working" => IInv /\ OwnedInv /\ (~overridden => SagaInv)

\* An override is on the record as soon as it begins.
LEMMA OverrideSeen ==
    ASSUME IInv, NEW h \in Handlers, Override(h)
    PROVE  Overriding
<1>1. CASE AdminCancel(h) \/ ProblemResolved(h)
  BY <1>1 DEF Overriding
<1>2. CASE SetStatusBegin(h)
  <2>1. PICK target, amt : BeginAt(h, "setStatus", "setStatusWrite",
                                   [IdleFrame EXCEPT !.target = target, !.amt = amt])
    BY <1>2 DEF SetStatusBegin
  <2> DEFINE f == [[IdleFrame EXCEPT !.target = target, !.amt = amt] EXCEPT !.op = "setStatus"]
  <2>2. Goto(h, "setStatusWrite") /\ frame' = [frame EXCEPT ![h] = f] /\ f.op = "setStatus"
    BY <2>1 DEF BeginAt, IdleFrame
  <2> HIDE DEF f
  <2>3. frame'[h] = f
    BY <2>2, MovesOn
  <2> QED
    BY <2>2, <2>3 DEF Overriding
<1>3. CASE CleanupBegin(h) /\ frame'[h].op \in OverrideOps
  BY <1>3 DEF Overriding, OverrideOps
<1> QED
  BY <1>1, <1>2, <1>3 DEF Override

\* The scenario is chosen once, and its steps are the steps of its specification.
LEMMA WorkingStep ==
    ASSUME IInv, [SerialNext]_SerialVars, scenario' = "working"
    PROVE  /\ scenario = "working" /\ [Next]_vars
           /\ ~overridden' => /\ ~overridden
                              /\ (\A h \in Handlers : ~Override(h)) \/ UNCHANGED vars
<1>1. CASE UNCHANGED SerialVars
  BY <1>1 DEF SerialVars
<1>2. CASE InMoney("working") /\ Next /\ overridden' = (overridden \/ Overriding)
  BY <1>2, OverrideSeen DEF InMoney
<1>3. CASE InMoney("faults") \/ InSupport
  BY <1>3 DEF InMoney, InSupport
<1> QED
  BY <1>1, <1>2, <1>3 DEF SerialNext

LEMMA WorkingGoesOn ==
    ASSUME MaxActive = 1, Faults = {}
    PROVE  /\ SerialInit => WorkingInv
           /\ WorkingInv /\ [SerialNext]_SerialVars => WorkingInv'
<1>1. SerialInit => WorkingInv
  BY InitInv, InitOwned, InitSaga DEF SerialInit, WorkingInv
<1>2. ASSUME WorkingInv, [SerialNext]_SerialVars, scenario' = "working"
      PROVE  IInv' /\ OwnedInv' /\ (~overridden' => SagaInv')
  <2>1. scenario = "working"
    BY <1>2 DEF SerialNext, SerialVars, InMoney, InSupport
  <2>2. IInv /\ OwnedInv /\ (~overridden => SagaInv)
    BY <1>2, <2>1 DEF WorkingInv
  <2>3. /\ [Next]_vars
        /\ ~overridden' => /\ ~overridden
                           /\ (\A h \in Handlers : ~Override(h)) \/ UNCHANGED vars
    BY <1>2, <2>2, WorkingStep
  <2>4. IInv' /\ OwnedInv'
    BY <2>2, <2>3, NextInv, NextOwned
  <2>5. ASSUME ~overridden' PROVE SagaInv'
    BY <2>2, <2>3, <2>5, NextSaga
  <2> QED
    BY <2>4, <2>5
<1>3. WorkingInv /\ [SerialNext]_SerialVars => WorkingInv'
  BY <1>2 DEF WorkingInv
<1> QED
  BY <1>1, <1>3

\* With a provider that works, whatever support did before: whenever no handler is under
\* way, the books and Saferpay agree to the cent.
THEOREM BooksExactForEveryOperation ==
    MaxActive = 1 /\ Faults = {} /\ Fee > 0 => (SerialSpec => []SerialBooksExact)
<1> SUFFICES ASSUME MaxActive = 1, Faults = {}, Fee > 0 PROVE SerialSpec => []SerialBooksExact
  OBVIOUS
<1>1. /\ SerialInit => WorkingInv
      /\ WorkingInv /\ [SerialNext]_SerialVars => WorkingInv'
  BY WorkingGoesOn
<1>2. WorkingInv => SerialBooksExact
  BY OwnedBooksExact DEF WorkingInv, SerialBooksExact
<1> QED
  BY <1>1, <1>2, PTL DEF SerialSpec, SerialVars

\* As long as support overrides nothing, a reservation that is over holds no guest's money:
\* every row of it was voided, or captured and settled.
THEOREM FundsAlwaysReleased ==
    MaxActive = 1 /\ Faults = {} => (SerialSpec => []SagaReleasesFunds)
<1> SUFFICES ASSUME MaxActive = 1, Faults = {} PROVE SerialSpec => []SagaReleasesFunds
  OBVIOUS
<1>1. /\ SerialInit => WorkingInv
      /\ WorkingInv /\ [SerialNext]_SerialVars => WorkingInv'
  BY WorkingGoesOn
<1>2. WorkingInv => SagaReleasesFunds
  BY SagaReleased DEF WorkingInv, SagaReleasesFunds
<1> QED
  BY <1>1, <1>2, PTL DEF SerialSpec, SerialVars

\* As long as support overrides nothing, who has a table has paid for it, once, and none of
\* it went back.
THEOREM ConfirmedAlwaysPaid ==
    MaxActive = 1 /\ Faults = {} => (SerialSpec => []SagaConfirmsPaid)
<1> SUFFICES ASSUME MaxActive = 1, Faults = {} PROVE SerialSpec => []SagaConfirmsPaid
  OBVIOUS
<1>1. /\ SerialInit => WorkingInv
      /\ WorkingInv /\ [SerialNext]_SerialVars => WorkingInv'
  BY WorkingGoesOn
<1>2. WorkingInv => SagaConfirmsPaid
  BY SagaConfirmed DEF WorkingInv, SagaConfirmsPaid
<1> QED
  BY <1>1, <1>2, PTL DEF SerialSpec, SerialVars

\* As long as support overrides nothing, the refund a cancelled reservation promises is the
\* refund the guest received.
THEOREM PromisesAlwaysKept ==
    MaxActive = 1 /\ Faults = {} => (SerialSpec => []SagaKeepsPromise)
<1> SUFFICES ASSUME MaxActive = 1, Faults = {} PROVE SerialSpec => []SagaKeepsPromise
  OBVIOUS
<1>1. /\ SerialInit => WorkingInv
      /\ WorkingInv /\ [SerialNext]_SerialVars => WorkingInv'
  BY WorkingGoesOn
<1>2. WorkingInv => SagaKeepsPromise
  BY SagaKept DEF WorkingInv, SagaKeepsPromise
<1> QED
  BY <1>1, <1>2, PTL DEF SerialSpec, SerialVars

-----------------------------------------------------------------------------
(* A provider that refuses or does not answer: the same proofs, for the    *)
(* constants of that instance.                                             *)

Refusing == INSTANCE ReservationPayments_proofs WITH
                Ops <- FaultOps, AdminTargets <- {}, Faults <- {"reject", "timeout"}

\* The two instances take the same steps.
LEMMA RefusingNext ==
    ASSUME Failing!Next
    PROVE  Refusing!Next
<1> USE DEF Failing!Goto, Refusing!Goto, Failing!Finish, Refusing!Finish, Failing!Return,
    Refusing!Return, Failing!Call, Refusing!Call, Failing!LatestIn, Refusing!LatestIn,
    Failing!Latest, Refusing!Latest, Failing!IdleFrame, Refusing!IdleFrame,
    Failing!DatabaseUnchanged, Refusing!DatabaseUnchanged, Failing!SetPayStatus,
    Refusing!SetPayStatus, Failing!bookingVars, Refusing!bookingVars, Failing!resVars,
    Refusing!resVars, Failing!payVars, Refusing!payVars, Failing!provVars, Refusing!provVars,
    Failing!bookVars, Refusing!bookVars, Failing!handlerVars, Refusing!handlerVars,
    Failing!Accepted, Refusing!Accepted, Failing!Seated, Refusing!Seated, Failing!Terminal,
    Refusing!Terminal, Failing!NoTime, Refusing!NoTime, Failing!SmallerOf, Refusing!SmallerOf
<1>1. ASSUME NEW h, Failing!Begin(h) PROVE Refusing!Begin(h)
  BY <1>1 DEF Failing!Begin, Refusing!Begin, Failing!CleanupBegin, Refusing!CleanupBegin,
     Failing!CheckoutBegin, Refusing!CheckoutBegin, Failing!AssertBegin, Refusing!AssertBegin,
     Failing!NotifyBegin, Refusing!NotifyBegin, Failing!DeclineBegin, Refusing!DeclineBegin,
     Failing!CustomerCancelBegin, Refusing!CustomerCancelBegin, Failing!VenueCancelBegin,
     Refusing!VenueCancelBegin, Failing!NoShowReportBegin, Refusing!NoShowReportBegin,
     Failing!ProblemResolved, Refusing!ProblemResolved, Failing!AdminRefundBegin,
     Refusing!AdminRefundBegin, Failing!AdminCancel, Refusing!AdminCancel, Failing!SetStatusBegin,
     Refusing!SetStatusBegin, Failing!MayBegin, Refusing!MayBegin, Failing!Cardinality,
     Refusing!Cardinality, Failing!AfterCleanup, Refusing!AfterCleanup, Failing!BeginAt,
     Refusing!BeginAt, Failing!CustomerCancellationRefundCents,
     Refusing!CustomerCancellationRefundCents, Failing!CancelRow, Refusing!CancelRow,
     Failing!RefundForCancellation, Refusing!RefundForCancellation, Failing!NoShowRefundCents,
     Refusing!NoShowRefundCents, Failing!Idle, Refusing!Idle, Failing!Active, Refusing!Active,
     Failing!CustomerCancellationChargeCents, Refusing!CustomerCancellationChargeCents,
     Failing!HalfFee, Refusing!HalfFee, Failing!Handlers, Refusing!Handlers, Failing!AllOps,
     Refusing!AllOps, Failing!Types, Refusing!Types, Failing!Statuses, Refusing!Statuses
<1>2. ASSUME NEW h, Failing!Cleanup(h) PROVE Refusing!Cleanup(h)
  BY SMTT(60), <1>2 DEF Failing!Cleanup, Refusing!Cleanup, Failing!ExpireFind, Refusing!ExpireFind,
     Failing!ExpireWrite, Refusing!ExpireWrite, Failing!ArrivalFind, Refusing!ArrivalFind,
     Failing!ArrivalWrite, Refusing!ArrivalWrite, Failing!NightFind, Refusing!NightFind,
     Failing!NightWrite, Refusing!NightWrite, Failing!ConfirmationExpired,
     Refusing!ConfirmationExpired, Failing!ArrivalLockExpired, Refusing!ArrivalLockExpired,
     Failing!NoShowRefundCents, Refusing!NoShowRefundCents, Failing!NightLockExpired,
     Refusing!NightLockExpired, Failing!CleanupDone, Refusing!CleanupDone,
     Failing!EffectiveCustomerCheckInWindow, Refusing!EffectiveCustomerCheckInWindow,
     Failing!HalfFee, Refusing!HalfFee, Failing!NightLockUntil, Refusing!NightLockUntil,
     Failing!AfterCleanup, Refusing!AfterCleanup, Failing!CustomerCheckInWindowFor,
     Refusing!CustomerCheckInWindowFor, Failing!CustomerCheckInClosesAt,
     Refusing!CustomerCheckInClosesAt, Failing!CustomerCheckInOpensAt,
     Refusing!CustomerCheckInOpensAt
<1>3. ASSUME NEW h, Failing!Authorize(h) PROVE Refusing!Authorize(h)
  BY <1>3 DEF Failing!Authorize, Refusing!Authorize, Failing!CheckoutProvider,
     Refusing!CheckoutProvider, Failing!CheckoutCreate, Refusing!CheckoutCreate,
     Failing!AssertRead, Refusing!AssertRead, Failing!AssertProvider, Refusing!AssertProvider,
     Failing!Claim, Refusing!Claim, Failing!RecordEvent, Refusing!RecordEvent,
     Failing!PayStatuses, Refusing!PayStatuses, Failing!AfterAssert, Refusing!AfterAssert
<1>4. ASSUME NEW h, Failing!Accept(h) PROVE Refusing!Accept(h)
  BY SMTT(60), <1>4 DEF Failing!Accept, Refusing!Accept, Failing!AcceptRead, Refusing!AcceptRead,
     Failing!AcceptExpire, Refusing!AcceptExpire, Failing!AcceptWrite, Refusing!AcceptWrite
<1>5. ASSUME NEW h, Failing!Void(h) PROVE Refusing!Void(h)
  BY <1>5 DEF Failing!Void, Refusing!Void, Failing!VoidFind, Refusing!VoidFind, Failing!VoidLocal,
     Refusing!VoidLocal, Failing!VoidMark, Refusing!VoidMark, Failing!VoidProvider,
     Refusing!VoidProvider, Failing!VoidWrite, Refusing!VoidWrite, Failing!VoidLedger,
     Refusing!VoidLedger, Failing!AddEntry, Refusing!AddEntry
<1>6. ASSUME NEW h, Failing!Cancel(h) PROVE Refusing!Cancel(h)
  BY <1>6 DEF Failing!Cancel, Refusing!Cancel, Failing!DeclineWrite, Refusing!DeclineWrite,
     Failing!CustomerCancelWrite, Refusing!CustomerCancelWrite, Failing!VenueCancelWrite,
     Refusing!VenueCancelWrite, Failing!NoShowReportWrite, Refusing!NoShowReportWrite,
     Failing!AdminRefundCancel, Refusing!AdminRefundCancel, Failing!SetStatusWrite,
     Refusing!SetStatusWrite, Failing!PayBackAndVoid, Refusing!PayBackAndVoid, Failing!CancelRow,
     Refusing!CancelRow
<1>7. ASSUME NEW h, Failing!CheckIn(h) PROVE Refusing!CheckIn(h)
  BY <1>7 DEF Failing!CheckIn, Refusing!CheckIn, Failing!CheckInRead, Refusing!CheckInRead,
     Failing!CheckInWrite, Refusing!CheckInWrite, Failing!CustomerCheckInRead,
     Refusing!CustomerCheckInRead, Failing!AdminCustomerCheckInRead,
     Refusing!AdminCustomerCheckInRead, Failing!AdminVenueCheckInRead,
     Refusing!AdminVenueCheckInRead, Failing!CheckInIf, Refusing!CheckInIf,
     Failing!EffectiveCustomerCheckInWindow, Refusing!EffectiveCustomerCheckInWindow,
     Failing!CustomerCheckInWindowFor, Refusing!CustomerCheckInWindowFor, Failing!NightLockUntil,
     Refusing!NightLockUntil, Failing!CustomerCheckInClosesAt, Refusing!CustomerCheckInClosesAt,
     Failing!CustomerCheckInOpensAt, Refusing!CustomerCheckInOpensAt
<1>8. ASSUME NEW x, NEW y PROVE Failing!ReservationAllocation(x, y) = Refusing!ReservationAllocation(x, y)
  BY DEF Failing!ReservationAllocation, Refusing!ReservationAllocation,
     Failing!CalculateAllocation, Refusing!CalculateAllocation
<1>9. ASSUME NEW x, NEW y PROVE Failing!InvoiceStatus(x, y) = Refusing!InvoiceStatus(x, y)
  BY DEF Failing!InvoiceStatus, Refusing!InvoiceStatus
<1>10. ASSUME NEW x, NEW y PROVE Failing!CaptureEntries(x, y) = Refusing!CaptureEntries(x, y)
  BY DEF Failing!CaptureEntries, Refusing!CaptureEntries, Failing!CaptureTypes,
     Refusing!CaptureTypes, Failing!EntryTypes, Refusing!EntryTypes
<1>11. ASSUME NEW x, NEW y, NEW z PROVE Failing!AddEntry(x, y, z) = Refusing!AddEntry(x, y, z)
  BY DEF Failing!AddEntry, Refusing!AddEntry
<1>12. ASSUME NEW x, NEW y, NEW z PROVE Failing!RefundAllocationEntries(x, y, z) = Refusing!RefundAllocationEntries(x, y, z)
  BY DEF Failing!RefundAllocationEntries, Refusing!RefundAllocationEntries,
     Failing!RefundAdjustedAllocation, Refusing!RefundAdjustedAllocation,
     Failing!CurrentLedgerAllocation, Refusing!CurrentLedgerAllocation, Failing!EntryTypes,
     Refusing!EntryTypes, Failing!NoAllocation, Refusing!NoAllocation,
     Failing!CalculateAllocation, Refusing!CalculateAllocation, Failing!CaptureTypes,
     Refusing!CaptureTypes
<1>13. ASSUME NEW h, Failing!Capture(h) PROVE Refusing!Capture(h)
  <2>1. ASSUME Failing!CaptureFind(h) PROVE Refusing!CaptureFind(h)
    BY <2>1 DEF Failing!CaptureFind, Refusing!CaptureFind
  <2>2. ASSUME Failing!CaptureMark(h) PROVE Refusing!CaptureMark(h)
    BY <2>2 DEF Failing!CaptureMark, Refusing!CaptureMark
  <2>3. ASSUME Failing!CaptureProvider(h) PROVE Refusing!CaptureProvider(h)
    BY <2>3 DEF Failing!CaptureProvider, Refusing!CaptureProvider
  <2>4. ASSUME Failing!CaptureTx(h) PROVE Refusing!CaptureTx(h)
    BY <2>4, Zenon, <1>8, <1>9, <1>10 DEF Failing!CaptureTx, Refusing!CaptureTx
  <2> QED
    BY <1>13, <2>1, <2>2, <2>3, <2>4 DEF Failing!Capture, Refusing!Capture
<1>14. ASSUME NEW h, Failing!Refund(h) PROVE Refusing!Refund(h)
  <2>1. ASSUME Failing!RefundFind(h) PROVE Refusing!RefundFind(h)
    BY <2>1 DEF Failing!RefundFind, Refusing!RefundFind
  <2>2. ASSUME Failing!RefundMark(h) PROVE Refusing!RefundMark(h)
    BY <2>2 DEF Failing!RefundMark, Refusing!RefundMark
  <2>3. ASSUME Failing!RefundProvider(h) PROVE Refusing!RefundProvider(h)
    BY <2>3 DEF Failing!RefundProvider, Refusing!RefundProvider
  <2>4. ASSUME Failing!RefundTx(h) PROVE Refusing!RefundTx(h)
    BY <2>4, <1>11, <1>12 DEF Failing!RefundTx, Refusing!RefundTx
  <2> QED
    BY <1>14, <2>1, <2>2, <2>3, <2>4 DEF Failing!Refund, Refusing!Refund
<1>15. ASSUME NEW h, Failing!Crash(h) PROVE Refusing!Crash(h)
  BY <1>15 DEF Failing!Crash, Refusing!Crash, Failing!Idle, Refusing!Idle
<1>16. ASSUME NEW p, Failing!GuestPays(p) PROVE Refusing!GuestPays(p)
  BY <1>16 DEF Failing!GuestPays, Refusing!GuestPays
<1>17. ASSUME Failing!Tick PROVE Refusing!Tick
  BY <1>17 DEF Failing!Tick, Refusing!Tick
<1>18. ASSUME NEW h, Failing!Step(h) PROVE Refusing!Step(h)
  BY <1>18, <1>2, <1>3, <1>4, <1>13, <1>5, <1>14, <1>6, <1>7 DEF Failing!Step, Refusing!Step
<1> QED
  BY <1>1, <1>18, <1>15, <1>16, <1>17 DEF Failing!Next, Refusing!Next, Failing!Handlers,
     Refusing!Handlers

FaultsInv == scenario = "faults" => Refusing!IInv /\ Refusing!SagaInv

LEMMA RefusingConstants ==
    ASSUME MaxActive = 1
    PROVE  /\ Refusing!IdentityAssumption /\ Refusing!BoundAssumption
           /\ Refusing!FeeAssumption /\ Refusing!ClockAssumption /\ Refusing!BpsAssumption
           /\ Refusing!NoOverrides /\ "crash" \notin {"reject", "timeout"}
<1>1. FaultOps \subseteq Refusing!AllOps
  BY DEF FaultOps, SagaOps, AllOps, Refusing!AllOps
<1>2. Refusing!NoOverrides
  BY DEF Refusing!NoOverrides, Refusing!OverrideOps, FaultOps, SagaOps
<1>3. Refusing!IdentityAssumption /\ Refusing!BoundAssumption
  BY <1>1, IdentityAssumption, BoundAssumption
     DEF Refusing!IdentityAssumption, Refusing!BoundAssumption, Types, Refusing!Types
<1>4. Refusing!FeeAssumption /\ Refusing!ClockAssumption /\ Refusing!BpsAssumption
  BY FeeAssumption, ClockAssumption, BpsAssumption
     DEF Refusing!FeeAssumption, Refusing!ClockAssumption, Refusing!BpsAssumption
<1> QED
  BY SMTT(60), <1>2, <1>3, <1>4

LEMMA FaultsGoOn ==
    ASSUME MaxActive = 1
    PROVE  /\ SerialInit => FaultsInv
           /\ FaultsInv /\ [SerialNext]_SerialVars => FaultsInv'
<1>1. ASSUME SerialInit, scenario = "faults" PROVE Refusing!IInv /\ Refusing!SagaInv
  <2>1. Failing!Init
    BY <1>1 DEF SerialInit
  <2>2. Refusing!Init
    BY SMTT(60), <2>1 DEF Failing!Init, Refusing!Init, Failing!NoTime, Refusing!NoTime, Failing!EmptyLedger,
       Refusing!EmptyLedger, Failing!Handlers, Refusing!Handlers, Failing!IdleFrame,
       Refusing!IdleFrame, Failing!EntryTypes, Refusing!EntryTypes, Failing!AllOps,
       Refusing!AllOps, Failing!Types, Refusing!Types, Failing!Statuses, Refusing!Statuses,
       Failing!CaptureTypes, Refusing!CaptureTypes, Failing!Accepted, Refusing!Accepted,
       Failing!Seated, Refusing!Seated, Failing!Terminal, Refusing!Terminal
  <2> QED
    BY <2>2, RefusingConstants, Refusing!SagaBegins
<1>2. ASSUME FaultsInv, [SerialNext]_SerialVars, scenario' = "faults"
      PROVE  Refusing!IInv' /\ Refusing!SagaInv'
  <2>1. scenario = "faults" /\ (Failing!Next \/ UNCHANGED vars)
    BY <1>2 DEF SerialNext, SerialVars, InMoney, InSupport
  <2>2. UNCHANGED vars => UNCHANGED Refusing!vars
    BY DEF vars, bookingVars, resVars, payVars, provVars, bookVars, handlerVars,
           Refusing!vars, Refusing!bookingVars, Refusing!resVars, Refusing!payVars,
           Refusing!provVars, Refusing!bookVars, Refusing!handlerVars
  <2>3. [Refusing!Next]_Refusing!vars
    BY <2>1, <2>2, RefusingNext
  <2>4. Refusing!IInv /\ Refusing!SagaInv
    BY SMTT(60), <1>2, <2>1 DEF FaultsInv
  <2>5. /\ Refusing!IdentityAssumption /\ Refusing!BoundAssumption
        /\ Refusing!FeeAssumption /\ Refusing!ClockAssumption /\ Refusing!BpsAssumption
        /\ Refusing!NoOverrides /\ "crash" \notin {"reject", "timeout"}
    BY RefusingConstants
  <2> QED
    BY <2>3, <2>4, <2>5, Refusing!SagaGoesOn
<1> QED
  BY SMTT(60), <1>1, <1>2 DEF FaultsInv

\* With a provider that refuses or does not answer: wherever the funds of a reservation that
\* is over were not released, a table was given without a capture, or a promised refund did
\* not arrive, a row is left pending for support.
THEOREM RefusalAlwaysLeavesTrace ==
    MaxActive = 1 => (SerialSpec => []RefusalLeavesTrace)
<1> SUFFICES ASSUME MaxActive = 1 PROVE SerialSpec => []RefusalLeavesTrace
  OBVIOUS
<1>1. /\ SerialInit => FaultsInv
      /\ FaultsInv /\ [SerialNext]_SerialVars => FaultsInv'
  BY SMTT(60), FaultsGoOn
<1>2. ASSUME FaultsInv PROVE RefusalLeavesTrace
  <2>1. ASSUME Refusing!FailureLeavesTrace PROVE Failing!FailureLeavesTrace
    BY <2>1 DEF Failing!FailureLeavesTrace, Refusing!FailureLeavesTrace, Failing!AtRest,
       Refusing!AtRest, Failing!Terminal, Refusing!Terminal, Failing!Accepted, Refusing!Accepted,
       Failing!Seated, Refusing!Seated, Failing!Active, Refusing!Active, Failing!Handlers,
       Refusing!Handlers, Failing!AllOps, Refusing!AllOps, Failing!Types, Refusing!Types,
       Failing!Statuses, Refusing!Statuses
  <2> QED
    BY <1>2, <2>1, RefusingConstants, Refusing!SagaLeavesTrace DEF FaultsInv, RefusalLeavesTrace
<1> QED
  BY <1>1, <1>2, PTL DEF SerialSpec, SerialVars

-----------------------------------------------------------------------------
(* Problem reports.                                                        *)

AllReports == {s1, s2, s3}

SupportLabels == {"idle", "insert", "overwrite", "mail", "write", "refundRead", "refund", "cancel"}
SupportFrames == [report: AllReports \cup {NoReport}, by: Support!Sides, amount: {0, 2, 3},
                  cents: 0..Fee, left: 0..Fee, to: BOOLEAN]
ReportRows    == [by: Support!Sides, amount: {0, 2, 3},
                  status: {"NONE", "PENDING", "RESOLVED", "REFUNDED_BY_CHIN_CHIN",
                           "CLOSED_NO_REFUND", "RESPONSE_SENT"}]

ReportsTyped ==
    /\ report \in [AllReports -> ReportRows]
    /\ refunded \in 0..Fee
    /\ paidBack \in [AllReports -> Nat] /\ mailed \subseteq AllReports
    /\ transport \in BOOLEAN /\ deleted \in BOOLEAN

AnswersTyped == pc \in [Requests -> SupportLabels] /\ frame \in [Requests -> SupportFrames]

\* What the answer under way knows, and what it has already done.
AnswerAt(l, f) ==
    /\ l \in {"refundRead", "refund", "cancel", "mail", "write"} =>
          /\ f.report \in AllReports
          /\ report[f.report].status # "NONE" /\ report[f.report].by = f.by
    /\ l \in {"refundRead", "refund", "cancel"} => f.by = "customer" /\ f.amount > 0
    /\ l = "refundRead" => f.cents > 0 /\ refunded < Fee
    /\ l = "refund" => f.cents > 0 /\ f.left = refunded /\ refunded + f.cents <= Fee
    /\ l \in {"cancel", "mail", "write"} /\ f.by = "customer" /\ f.amount > 0 =>
          paidBack[f.report] > 0
    /\ l \in {"refundRead", "refund", "cancel", "mail"} => f.to \/ (f.by = "customer" /\ deleted)
    /\ l = "write" => f.report \in mailed \/ ~transport \/ (f.by = "customer" /\ deleted)

OneAnswers == \E h \in Requests : /\ \A k \in Requests \ {h} : pc[k] = "idle"
                                  /\ AnswerAt(pc[h], frame[h])

NobodyAnswers == \A k \in Requests : pc[k] = "idle"

AnswersInv ==
    /\ ReportsTyped /\ AnswersTyped /\ (OneAnswers \/ NobodyAnswers)
    /\ Support!AnsweredReportsHold

ReportsInv == scenario = "support" => AnswersInv

\* A request begins only when none is under way.
LEMMA AnswersAlone ==
    ASSUME MaxActive = 1, OneAnswers \/ NobodyAnswers,
           Support!Cardinality({k \in Requests : pc[k] # "idle"}) < MaxActive
    PROVE  NobodyAnswers
<1> DEFINE S == {k \in Requests : pc[k] # "idle"}
<1>1. IsFiniteSet(S)
  <2>1. CASE NobodyAnswers
    <3>1. S = {}
      BY <2>1 DEF NobodyAnswers
    <3> QED
      BY <3>1, FS_EmptySet
  <2>2. CASE OneAnswers
    <3>1. PICK h \in Requests : \A k \in Requests \ {h} : pc[k] = "idle"
      BY <2>2 DEF OneAnswers
    <3>2. S \subseteq {h}
      BY <3>1
    <3> QED
      BY <3>2, FS_Singleton, FS_Subset
  <2> QED
    BY <2>1, <2>2
<1>2. Support!Cardinality(S) = Cardinality(S)
  BY DEF Support!Cardinality, Cardinality
<1>3. Cardinality(S) \in Nat /\ Cardinality(S) < 1
  BY <1>1, <1>2, FS_CardinalityType
<1>4. S = {}
  BY <1>1, <1>3, FS_EmptySet
<1> QED
  BY <1>4 DEF NobodyAnswers

\* Where a request goes, and the others stay.
LEMMA AnswerMoves ==
    ASSUME AnswersTyped, NEW h \in Requests, \A k \in Requests \ {h} : pc[k] = "idle",
           NEW l \in SupportLabels, NEW f \in SupportFrames,
           Support!Goto(h, l), frame' = [frame EXCEPT ![h] = f]
    PROVE  /\ AnswersTyped' /\ pc'[h] = l /\ frame'[h] = f
           /\ \A k \in Requests \ {h} : pc'[k] = "idle"
BY DEF AnswersTyped, Support!Goto

LEMMA AnswerStays ==
    ASSUME AnswersTyped, NEW h \in Requests, \A k \in Requests \ {h} : pc[k] = "idle",
           NEW l \in SupportLabels, Support!Goto(h, l), UNCHANGED frame
    PROVE  /\ AnswersTyped' /\ pc'[h] = l /\ frame'[h] = frame[h]
           /\ \A k \in Requests \ {h} : pc'[k] = "idle"
BY DEF AnswersTyped, Support!Goto

LEMMA AnswerEnds ==
    ASSUME AnswersTyped, NEW h \in Requests, \A k \in Requests \ {h} : pc[k] = "idle",
           Support!Finish(h)
    PROVE  AnswersTyped' /\ NobodyAnswers'
<1>1. Support!Idle \in SupportFrames /\ "idle" \in SupportLabels
  BY FeeAssumption DEF Support!Idle, SupportFrames, Support!Sides, SupportLabels
<1> QED
  BY <1>1, AnswerMoves DEF Support!Finish, NobodyAnswers

\* A request begins.
LEMMA AnswerBegins ==
    ASSUME MaxActive = 1, AnswersInv, NEW h \in Requests, NEW l \in SupportLabels,
           NEW f \in SupportFrames, Support!Begin(h, l, f), AnswerAt(l, f)
    PROVE  AnswersInv'
<1>1. NobodyAnswers
  BY AnswersAlone DEF AnswersInv, Support!Begin
<1>2. UNCHANGED <<report, reservation, refunded, paidBack, mailed, transport, deleted>>
  BY DEF Support!Begin, Support!contactVars
<1>3. /\ AnswersTyped' /\ pc'[h] = l /\ frame'[h] = f
      /\ \A k \in Requests \ {h} : pc'[k] = "idle"
  BY <1>1, AnswerMoves DEF AnswersInv, NobodyAnswers, Support!Begin
<1>4. AnswerAt(pc[h], frame[h])'
  BY <1>2, <1>3 DEF AnswerAt
<1>5. ReportsTyped' /\ Support!AnsweredReportsHold'
  BY <1>2 DEF AnswersInv, ReportsTyped, Support!AnsweredReportsHold
<1> QED
  BY <1>3, <1>4, <1>5 DEF AnswersInv, OneAnswers

LEMMA AnswersBegin ==
    ASSUME MaxActive = 1, AnswersInv, NEW h \in Requests,
           (\E by \in Support!Sides : Support!ReportRead(h, by)) \/ Support!Answers(h)
    PROVE  AnswersInv'
<1> USE DEF Support!Sides
<1>1. Support!Idle = [report |-> NoReport, by |-> "venue", amount |-> 0, cents |-> 0, left |-> 0,
                     to |-> FALSE]
  BY DEF Support!Idle
<1>2. ReportsTyped /\ 0 \in 0..Fee
  BY FeeAssumption DEF AnswersInv
<1>3. ASSUME NEW by \in Support!Sides, Support!ReportRead(h, by)
      PROVE  AnswersInv'
  <2>1. PICK l \in {"insert", "overwrite"}, f \in SupportFrames : Support!Begin(h, l, f)
    <3>1. CASE Support!Begin(h, "insert", [Support!Idle EXCEPT !.by = by])
      <4>1. [Support!Idle EXCEPT !.by = by] \in SupportFrames
        BY <1>1, <1>2 DEF SupportFrames
      <4> QED
        BY <3>1, <4>1
    <3>2. CASE \E r \in Support!Pending(by) :
                  Support!Begin(h, "overwrite", [Support!Idle EXCEPT !.report = r, !.by = by])
      <4>1. PICK r \in AllReports :
                    Support!Begin(h, "overwrite", [Support!Idle EXCEPT !.report = r, !.by = by])
        BY <3>2 DEF Support!Pending, Support!Rows, AllReports
      <4>2. [Support!Idle EXCEPT !.report = r, !.by = by] \in SupportFrames
        BY <1>1, <1>2 DEF SupportFrames
      <4> QED
        BY <4>1, <4>2
    <3> QED
      BY <1>3, <3>1, <3>2 DEF Support!ReportRead
  <2>2. l \in SupportLabels /\ AnswerAt(l, f)
    BY DEF SupportLabels, AnswerAt
  <2> QED
    BY <2>1, <2>2, AnswerBegins
<1>4. ASSUME NEW r \in AllReports, NEW amount \in {0, 2, 3}, Support!AnswerVenue(h, r, amount)
      PROVE  AnswersInv'
  <2> DEFINE f == [Support!Idle EXCEPT !.report = r, !.amount = amount, !.to = TRUE]
  <2>1. f \in SupportFrames /\ f.report = r /\ f.by = "venue" /\ f.to
    BY <1>1, <1>2 DEF SupportFrames
  <2>2. report[r].status # "NONE" /\ report[r].by = "venue" /\ Support!Begin(h, "mail", f)
    BY <1>4 DEF Support!AnswerVenue, Support!Rows
  <2> HIDE DEF f
  <2>3. AnswerAt("mail", f) /\ "mail" \in SupportLabels
    BY <2>1, <2>2 DEF AnswerAt, SupportLabels
  <2> QED
    BY <2>1, <2>2, <2>3, AnswerBegins
<1>5. ASSUME NEW r \in AllReports, NEW amount \in {0, 2, 3}, Support!AnswerGuest(h, r, amount)
      PROVE  AnswersInv'
  <2> DEFINE cents == Support!SmallerOf(Fee - refunded, amount)
             mayTo == ~deleted
             l     == IF amount = 0 THEN "mail" ELSE "refundRead"
             f     == [Support!Idle EXCEPT !.report = r, !.by = "customer", !.amount = amount,
                                           !.cents = cents, !.to = mayTo]
  <2>1. /\ report[r].status # "NONE" /\ report[r].by = "customer"
        /\ amount = 0 \/ cents > 0
        /\ Support!Begin(h, l, f)
    BY <1>5 DEF Support!AnswerGuest, Support!Rows, Support!Answerable
  <2>2. cents \in 0..Fee /\ (cents > 0 => refunded < Fee)
    BY <1>2, FeeAssumption DEF ReportsTyped, Support!SmallerOf
  <2>5. mayTo \in BOOLEAN /\ (mayTo \/ deleted)
    OBVIOUS
  <2> HIDE DEF cents, mayTo
  <2>3. f \in SupportFrames /\ f.report = r /\ f.by = "customer" /\ f.amount = amount
        /\ f.cents = cents /\ f.to = mayTo
    BY <1>1, <1>2, <2>2, <2>5 DEF SupportFrames
  <2> HIDE DEF f
  <2>4. AnswerAt(l, f) /\ l \in SupportLabels
    BY <2>1, <2>2, <2>3, <2>5 DEF AnswerAt, SupportLabels
  <2> QED
    BY <2>1, <2>3, <2>4, AnswerBegins
<1> QED
  BY <1>3, <1>4, <1>5 DEF Support!Answers, AllReports

\* The request under way is the only one.
LEMMA AnswerUnderWay ==
    ASSUME AnswersInv, NEW h \in Requests, pc[h] # "idle"
    PROVE  /\ \A k \in Requests \ {h} : pc[k] = "idle"
           /\ AnswerAt(pc[h], frame[h])
           /\ ReportsTyped /\ AnswersTyped /\ frame[h] \in SupportFrames
           /\ Support!AnsweredReportsHold
BY DEF AnswersInv, OneAnswers, NobodyAnswers, AnswersTyped

\* A report is made, or the pending one is written over.
LEMMA ReportMade ==
    ASSUME AnswersInv, NEW h \in Requests, Support!ReportInsert(h) \/ Support!ReportOverwrite(h)
    PROVE  AnswersInv'
<1>1. /\ pc[h] # "idle" /\ Support!Finish(h)
      /\ UNCHANGED <<reservation, refunded, paidBack, mailed, transport, deleted>>
  BY DEF Support!ReportInsert, Support!ReportOverwrite, Support!contactVars
<1>2. AnswersTyped' /\ NobodyAnswers' /\ ReportsTyped /\ Support!AnsweredReportsHold
      /\ frame[h] \in SupportFrames
  BY <1>1, AnswerUnderWay, AnswerEnds
<1>3. CASE UNCHANGED report
  BY <1>1, <1>2, <1>3 DEF AnswersInv, ReportsTyped, Support!AnsweredReportsHold
<1>4. ASSUME NEW r \in AllReports,
             report' = [report EXCEPT ![r] =
                            [by |-> frame[h].by, status |-> "PENDING", amount |-> 0]]
      PROVE  AnswersInv'
  <2> DEFINE new == [by |-> frame[h].by, status |-> "PENDING", amount |-> 0]
  <2>1. new \in ReportRows /\ new.status = "PENDING" /\ new.amount = 0
    BY <1>2 DEF ReportRows, SupportFrames
  <2> HIDE DEF new
  <2>2. /\ report' \in [AllReports -> ReportRows] /\ report'[r] = new
        /\ \A s \in AllReports \ {r} : report'[s] = report[s]
    BY <1>2, <1>4, <2>1 DEF ReportsTyped, new
  <2>3. Support!AnsweredReportsHold'
    BY <1>1, <1>2, <2>1, <2>2 DEF Support!AnsweredReportsHold, AllReports
  <2> QED
    BY <1>1, <1>2, <2>2, <2>3 DEF AnswersInv, ReportsTyped
<1> QED
  BY <1>3, <1>4 DEF Support!ReportInsert, Support!ReportOverwrite, Support!Unused, AllReports

\* The payment of a guest's report is read again, and refunded.
LEMMA ReportRefunded ==
    ASSUME AnswersInv, NEW h \in Requests, Support!RefundRead(h) \/ Support!RefundWrite(h)
    PROVE  AnswersInv'
<1> DEFINE f == frame[h]
<1>1. pc[h] # "idle"
  BY DEF Support!RefundRead, Support!RefundWrite
<1>2. /\ \A k \in Requests \ {h} : pc[k] = "idle"
      /\ AnswerAt(pc[h], f) /\ f \in SupportFrames
      /\ ReportsTyped /\ AnswersTyped /\ Support!AnsweredReportsHold /\ Fee \in Nat
  BY <1>1, AnswerUnderWay, FeeAssumption
<1>3. ASSUME Support!RefundRead(h) PROVE AnswersInv'
  <2> DEFINE cents == Support!SmallerOf(f.cents, Fee - refunded)
             g     == [f EXCEPT !.cents = cents, !.left = refunded]
  <2>1. pc[h] = "refundRead" /\ UNCHANGED <<report, reservation, refunded, paidBack, mailed, transport, deleted>>
    BY <1>3 DEF Support!RefundRead, Support!contactVars
  <2>2. /\ f.report \in AllReports /\ report[f.report].status # "NONE"
        /\ report[f.report].by = "customer" /\ f.by = "customer" /\ f.amount > 0
        /\ f.cents > 0 /\ refunded < Fee /\ refunded \in 0..Fee /\ (f.to \/ deleted)
    BY <1>2, <2>1 DEF AnswerAt, ReportsTyped
  <2>3. cents \in 0..Fee /\ cents > 0 /\ refunded + cents <= Fee
    BY <1>2, <2>2 DEF Support!SmallerOf, SupportFrames
  <2>4. Support!Goto(h, "refund") /\ "refund" \in SupportLabels
    BY <1>3, <2>2 DEF Support!RefundRead, SupportLabels
  <2>5. frame' = [frame EXCEPT ![h] = g]
    BY <1>3, <1>2 DEF Support!RefundRead, AnswersTyped, SupportFrames
  <2>6. /\ g \in SupportFrames /\ g.report = f.report /\ g.by = f.by /\ g.amount = f.amount
        /\ g.cents = cents /\ g.left = refunded /\ g.to = f.to
    <3> HIDE DEF cents
    <3> QED
      BY <1>2, <2>2, <2>3 DEF SupportFrames
  <2> HIDE DEF f, g, cents
  <2>7. /\ AnswersTyped' /\ pc'[h] = "refund" /\ frame'[h] = g
        /\ \A k \in Requests \ {h} : pc'[k] = "idle"
    BY <1>2, <2>4, <2>5, <2>6, AnswerMoves
  <2>8. AnswerAt(pc[h], frame[h])'
    BY <2>1, <2>2, <2>3, <2>6, <2>7 DEF AnswerAt
  <2>9. ReportsTyped' /\ Support!AnsweredReportsHold'
    BY <1>2, <2>1 DEF ReportsTyped, Support!AnsweredReportsHold
  <2> QED
    BY <2>7, <2>8, <2>9 DEF AnswersInv, OneAnswers
<1>4. ASSUME Support!RefundWrite(h) PROVE AnswersInv'
  <2>1. /\ pc[h] = "refund" /\ UNCHANGED <<report, reservation, mailed, transport, deleted, frame>>
        /\ refunded' = f.left + f.cents
        /\ paidBack' = [paidBack EXCEPT ![f.report] = @ + f.cents]
        /\ Support!Goto(h, "cancel") /\ "cancel" \in SupportLabels
    BY <1>4 DEF Support!RefundWrite, SupportLabels, Support!contactVars
  <2>2. /\ f.report \in AllReports /\ report[f.report].status # "NONE"
        /\ report[f.report].by = f.by /\ f.by = "customer" /\ f.amount > 0
        /\ f.cents > 0 /\ f.left = refunded /\ refunded + f.cents <= Fee /\ (f.to \/ deleted)
    BY <1>2, <2>1 DEF AnswerAt
  <2> HIDE DEF f
  <2>3. f.cents \in Nat /\ refunded \in Nat
    BY <1>2, FeeAssumption DEF SupportFrames, ReportsTyped
  <2>4. ReportsTyped' /\ paidBack'[f.report] > 0
        /\ \A s \in AllReports : paidBack[s] > 0 => paidBack'[s] > 0
    BY <1>2, <2>1, <2>2, <2>3 DEF ReportsTyped
  <2>5. /\ AnswersTyped' /\ pc'[h] = "cancel" /\ frame'[h] = f
        /\ \A k \in Requests \ {h} : pc'[k] = "idle"
    BY <1>2, <2>1, AnswerStays DEF f
  <2>6. AnswerAt(pc[h], frame[h])'
    BY <2>1, <2>2, <2>4, <2>5 DEF AnswerAt
  <2>7. Support!AnsweredReportsHold'
    BY <1>2, <2>1, <2>4 DEF Support!AnsweredReportsHold, AllReports
  <2> QED
    BY <2>4, <2>5, <2>6, <2>7 DEF AnswersInv, OneAnswers
<1> QED
  BY <1>3, <1>4

\* The reservation is cancelled; the answer is mailed, or refused by the mail server.
LEMMA AnswerMailed ==
    ASSUME AnswersInv, NEW h \in Requests, Support!GuestCancel(h) \/ Support!Mail(h)
    PROVE  AnswersInv'
<1>1. pc[h] # "idle" /\ UNCHANGED <<report, refunded, paidBack, transport, deleted>>
  BY DEF Support!GuestCancel, Support!Mail, Support!contactVars
<1>2. /\ \A k \in Requests \ {h} : pc[k] = "idle"
      /\ AnswerAt(pc[h], frame[h])
      /\ ReportsTyped /\ AnswersTyped /\ Support!AnsweredReportsHold
  BY <1>1, AnswerUnderWay
<1>3. CASE pc[h] = "mail" /\ Support!Finish(h) /\ mailed' = mailed
  <2>1. AnswersTyped' /\ NobodyAnswers'
    BY <1>2, <1>3, AnswerEnds
  <2> QED
    BY <1>1, <1>2, <1>3, <2>1 DEF AnswersInv, ReportsTyped, Support!AnsweredReportsHold
<1>4. ASSUME NEW l \in {"mail", "write"}, Support!Goto(h, l), UNCHANGED frame,
             pc[h] \in {"cancel", "mail"},
             \/ l = "mail" /\ mailed' = mailed
             \/ l = "write" /\ mailed' = mailed \cup {frame[h].report}
             \/ l = "write" /\ pc[h] = "mail" /\ mailed' = mailed /\ ~(frame[h].to /\ transport)
      PROVE  AnswersInv'
  <2>1. /\ AnswersTyped' /\ pc'[h] = l /\ frame'[h] = frame[h]
        /\ \A k \in Requests \ {h} : pc'[k] = "idle"
    BY <1>2, <1>4, AnswerStays DEF SupportLabels
  <2>2. /\ frame[h].report \in AllReports
        /\ report[frame[h].report].status # "NONE"
        /\ report[frame[h].report].by = frame[h].by
        /\ frame[h].by = "customer" /\ frame[h].amount > 0 => paidBack[frame[h].report] > 0
        /\ frame[h].to \/ (frame[h].by = "customer" /\ deleted)
    BY <1>2, <1>4 DEF AnswerAt
  <2>3. AnswerAt(pc[h], frame[h])'
    BY <1>1, <1>4, <2>1, <2>2 DEF AnswerAt
  <2>4. ReportsTyped' /\ mailed \subseteq mailed'
    BY <1>1, <1>2, <1>4, <2>2 DEF ReportsTyped
  <2>5. Support!AnsweredReportsHold'
    BY <1>1, <1>2, <2>4 DEF Support!AnsweredReportsHold
  <2> QED
    BY <2>1, <2>3, <2>4, <2>5 DEF AnswersInv, OneAnswers
<1> QED
  BY <1>3, <1>4 DEF Support!GuestCancel, Support!Mail

\* The answer is recorded.
LEMMA AnswerRecorded ==
    ASSUME AnswersInv, NEW h \in Requests, Support!VenueWrite(h) \/ Support!GuestWrite(h)
    PROVE  AnswersInv'
<1> DEFINE f == frame[h]
<1>1. /\ pc[h] = "write" /\ Support!Finish(h)
      /\ UNCHANGED <<refunded, paidBack, mailed, transport, deleted>>
  BY DEF Support!VenueWrite, Support!GuestWrite, Support!contactVars
<1>2. /\ AnswerAt("write", f) /\ f \in SupportFrames
      /\ ReportsTyped /\ Support!AnsweredReportsHold /\ AnswersTyped' /\ NobodyAnswers'
  BY <1>1, AnswerUnderWay, AnswerEnds
<1>3. PICK st \in {"REFUNDED_BY_CHIN_CHIN", "CLOSED_NO_REFUND", "RESPONSE_SENT"} :
          report' = [report EXCEPT ![f.report] = [@ EXCEPT !.amount = f.amount, !.status = st]]
  BY DEF Support!VenueWrite, Support!GuestWrite
<1>4. /\ f.report \in AllReports /\ report[f.report].by = f.by
      /\ f.report \in mailed \/ ~transport \/ (f.by = "customer" /\ deleted)
      /\ f.by = "customer" /\ f.amount > 0 => paidBack[f.report] > 0
  BY <1>2 DEF AnswerAt
<1> DEFINE new == [report[f.report] EXCEPT !.amount = f.amount, !.status = st]
<1>5. new \in ReportRows /\ new.by = f.by /\ new.amount = f.amount
  <2>1. report[f.report] \in ReportRows /\ f.amount \in {0, 2, 3}
    BY <1>2, <1>4 DEF SupportFrames, ReportsTyped
  <2> HIDE DEF f
  <2> QED
    BY <1>3, <1>4, <2>1 DEF ReportRows
<1>6. report' = [report EXCEPT ![f.report] = new]
  BY <1>2, <1>3, <1>4 DEF ReportsTyped
<1> HIDE DEF f, new
<1>7. /\ report' \in [AllReports -> ReportRows] /\ report'[f.report] = new
      /\ \A s \in AllReports \ {f.report} : report'[s] = report[s]
  BY <1>2, <1>4, <1>5, <1>6 DEF ReportsTyped
<1>8. Support!AnsweredReportsHold'
  BY <1>1, <1>2, <1>4, <1>5, <1>7 DEF Support!AnsweredReportsHold, AllReports
<1> QED
  BY <1>1, <1>2, <1>7, <1>8 DEF AnswersInv, ReportsTyped

\* A report that was answered is marked resolved, while an answer may be under way.
LEMMA ReportResolved ==
    ASSUME AnswersInv, NEW r \in AllReports, Support!Resolve(r)
    PROVE  AnswersInv'
<1> DEFINE new == [report[r] EXCEPT !.status = "RESOLVED"]
<1>1. /\ report[r].status \notin {"NONE", "PENDING"}
      /\ report' = [report EXCEPT ![r] = [@ EXCEPT !.status = "RESOLVED"]]
      /\ UNCHANGED <<reservation, refunded, paidBack, mailed, transport, deleted, pc, frame>>
  BY DEF Support!Resolve, Support!Rows, Support!Pending, Support!contactVars
<1>2. ReportsTyped /\ Support!AnsweredReportsHold
  BY DEF AnswersInv
<1>3. /\ new \in ReportRows /\ new.status = "RESOLVED"
      /\ new.by = report[r].by /\ new.amount = report[r].amount
      /\ report' = [report EXCEPT ![r] = new]
  BY <1>1, <1>2 DEF ReportsTyped, ReportRows
<1> HIDE DEF new
<1>4. /\ report' \in [AllReports -> ReportRows] /\ report'[r] = new
      /\ \A s \in AllReports \ {r} : report'[s] = report[s]
  BY <1>2, <1>3 DEF ReportsTyped
<1>5. Support!AnsweredReportsHold'
  BY <1>1, <1>2, <1>3, <1>4 DEF Support!AnsweredReportsHold, AllReports
<1>6. ASSUME NEW h \in Requests, AnswerAt(pc[h], frame[h])
      PROVE  AnswerAt(pc[h], frame[h])'
  BY <1>1, <1>3, <1>4, <1>6 DEF AnswerAt
<1>7. ReportsTyped' /\ AnswersTyped' /\ (OneAnswers \/ NobodyAnswers)'
  BY <1>1, <1>2, <1>4, <1>6
     DEF AnswersInv, ReportsTyped, AnswersTyped, OneAnswers, NobodyAnswers
<1> QED
  BY <1>5, <1>7 DEF AnswersInv

\* The guest deletes the account, while an answer may be under way.
LEMMA GuestGone ==
    ASSUME AnswersInv, Support!DeleteGuest
    PROVE  AnswersInv'
<1>1. /\ deleted' = TRUE
      /\ UNCHANGED <<report, reservation, refunded, paidBack, mailed, transport, pc, frame>>
  BY DEF Support!DeleteGuest
<1>2. ASSUME NEW h \in Requests, AnswerAt(pc[h], frame[h])
      PROVE  AnswerAt(pc[h], frame[h])'
  BY <1>1, <1>2 DEF AnswerAt
<1>3. ReportsTyped' /\ AnswersTyped' /\ Support!AnsweredReportsHold'
  BY <1>1 DEF AnswersInv, ReportsTyped, AnswersTyped, Support!AnsweredReportsHold
<1> QED
  BY <1>1, <1>2, <1>3 DEF AnswersInv, OneAnswers, NobodyAnswers

\* Whatever is answered, the reports hold.
LEMMA AnswersGoOn ==
    ASSUME MaxActive = 1, AnswersInv, Support!Next
    PROVE  AnswersInv'
<1>1. ASSUME NEW r \in AllReports, Support!Resolve(r) PROVE AnswersInv'
  BY <1>1, ReportResolved
<1>3. ASSUME Support!DeleteGuest PROVE AnswersInv'
  BY <1>3, GuestGone
<1>2. ASSUME NEW h \in Requests,
             \/ \E by \in Support!Sides : Support!ReportRead(h, by)
             \/ Support!Answers(h)
             \/ Support!ReportInsert(h) \/ Support!ReportOverwrite(h)
             \/ Support!RefundRead(h) \/ Support!RefundWrite(h) \/ Support!GuestCancel(h)
             \/ Support!Mail(h) \/ Support!VenueWrite(h) \/ Support!GuestWrite(h)
      PROVE  AnswersInv'
  BY <1>2, AnswersBegin, ReportMade, ReportRefunded, AnswerMailed, AnswerRecorded
<1> QED
  BY <1>1, <1>2, <1>3 DEF Support!Next, AllReports

LEMMA ReportsGoOn ==
    ASSUME MaxActive = 1
    PROVE  /\ SerialInit => ReportsInv
           /\ ReportsInv /\ [SerialNext]_SerialVars => ReportsInv'
<1>1. ASSUME SerialInit, scenario = "support" PROVE AnswersInv
  <2>1. Support!Init
    BY <1>1 DEF SerialInit
  <2>2. Support!Idle \in SupportFrames /\ Support!NoRow \in ReportRows /\ 0 \in 0..Fee
    BY FeeAssumption DEF Support!Idle, SupportFrames, Support!Sides, Support!NoRow, ReportRows
  <2>3. ReportsTyped /\ AnswersTyped /\ NobodyAnswers
    BY <2>1, <2>2 DEF Support!Init, ReportsTyped, AnswersTyped, NobodyAnswers, SupportLabels,
       AllReports
  <2>4. Support!AnsweredReportsHold
    BY <2>1 DEF Support!Init, Support!NoRow, Support!AnsweredReportsHold
  <2> QED
    BY <2>3, <2>4 DEF AnswersInv
<1>2. ASSUME ReportsInv, [SerialNext]_SerialVars, scenario' = "support" PROVE AnswersInv'
  <2>1. CASE UNCHANGED SerialVars
    <3>1. UNCHANGED <<report, reservation, paidBack, mailed, transport, deleted, refunded, pc, frame>>
      BY <2>1 DEF SerialVars, supportVars, vars, bookingVars, resVars, payVars, provVars,
         bookVars, handlerVars
    <3>2. AnswersInv
      BY <1>2, <2>1 DEF ReportsInv, SerialVars
    <3> QED
      BY <3>1, <3>2 DEF AnswersInv, ReportsTyped, AnswersTyped, OneAnswers, NobodyAnswers,
         AnswerAt, Support!AnsweredReportsHold
  <2>2. CASE SerialNext
    <3>1. scenario = "support" /\ Support!Next
      BY <1>2, <2>2 DEF SerialNext, InMoney, InSupport
    <3> QED
      BY <1>2, <3>1, AnswersGoOn DEF ReportsInv
  <2> QED
    BY <1>2, <2>1, <2>2
<1> QED
  BY <1>1, <1>2 DEF ReportsInv

\* Problem reports: a report that says money was given back stands for money that was, and
\* none is settled without an answer by mail as long as there are a mail server and a guest,
\* whatever e-mails the mail server refuses and however often a report is answered.
THEOREM ReportsAlwaysHold ==
    MaxActive = 1 => (SerialSpec => []ReportsHold)
<1> SUFFICES ASSUME MaxActive = 1 PROVE SerialSpec => []ReportsHold
  OBVIOUS
<1>1. /\ SerialInit => ReportsInv
      /\ ReportsInv /\ [SerialNext]_SerialVars => ReportsInv'
  BY ReportsGoOn
<1>2. ReportsInv => ReportsHold
  BY DEF ReportsInv, AnswersInv, ReportsHold, ReportsTyped, ReportRows, Support!SupportTypes,
     AllReports
<1> QED
  BY <1>1, <1>2, PTL DEF SerialSpec, SerialVars
=============================================================================

----------------------------- MODULE Allocation -----------------------------
(***************************************************************************)
(* How PaymentsService splits a captured reservation fee between Chin-Chin *)
(* and the venue, and how the split is corrected after a refund.           *)
(***************************************************************************)
EXTENDS Integers

CONSTANTS
    CommissionBps,            \* CHIN_CHIN_COMMISSION_BPS
    FirstReservationBps       \* CHIN_CHIN_FIRST_RESERVATION_COMMISSION_BPS

\* commissionBps() and firstReservationCommissionBps() clamp to 0..10000.
ASSUME BpsAssumption ==
    /\ CommissionBps \in 0..10000
    /\ FirstReservationBps \in 0..10000

CalculateAllocation(amount, bps) ==
    LET fee == (amount * bps) \div 10000
    IN  [fee |-> fee, share |-> amount - fee]

\* previewReservationAllocation: the guest's first reservation at a venue may
\* carry another commission than the later ones.
ReservationAllocation(amount, isFirst) ==
    CalculateAllocation(amount, IF isFirst THEN FirstReservationBps ELSE CommissionBps)

NoAllocation == [fee |-> 0, share |-> 0]

\* What the two parties should hold once `refunded` of `captured` went back.
RefundAdjustedAllocation(captured, refunded) ==
    IF captured - refunded <= 0
    THEN NoAllocation
    ELSE CalculateAllocation(captured - refunded, CommissionBps)

\* captureAllocationFromLedger, with currentLedgerAllocation's fallback: sums
\* that are both without value count as no allocation at all.
CurrentLedgerAllocation(feeSum, shareSum) ==
    IF feeSum <= 0 /\ shareSum <= 0
    THEN NoAllocation
    ELSE [fee |-> feeSum, share |-> shareSum]
=============================================================================

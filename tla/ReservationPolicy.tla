-------------------------- MODULE ReservationPolicy --------------------------
(***************************************************************************)
(* The rules of ReservationsService that depend on the clock and on money  *)
(* but on no other row: when a guest may check in, how long a table stays  *)
(* locked for the night, what a cancellation costs and what a no-show is   *)
(* refunded.  Instants are ticks of one clock; an hour is as many ticks as *)
(* OpensBefore and WindowLen say.                                          *)
(***************************************************************************)
EXTENDS Integers, ReservationStatus

CONSTANTS
    Fee,            \* Reservation.feeCents, fixed when the row is created
    SlotStart,      \* timeSlotStart
    SlotEnd,        \* timeSlotEnd
    DayStart,       \* first tick of the slot's Zagreb calendar day
    OpensBefore,    \* ADVANCE_CUSTOMER_CHECK_IN_OPENS_BEFORE_MINUTES
    WindowLen,      \* ADVANCE_CUSTOMER_CHECK_IN_WINDOW_MINUTES
    UnlockSeen,     \* 06:00 after the night: the guest had checked in
    UnlockUnseen    \* 08:00 after the night: only the venue checked the guest in

ASSUME FeeAssumption == Fee \in Nat
ASSUME ClockAssumption ==
    /\ {SlotStart, SlotEnd, DayStart, OpensBefore, WindowLen, UnlockSeen, UnlockUnseen} \subseteq Nat
    /\ DayStart <= SlotStart /\ SlotStart < SlotEnd
    /\ WindowLen <= OpensBefore /\ OpensBefore <= SlotStart
    /\ SlotStart < UnlockSeen /\ UnlockSeen <= UnlockUnseen

-----------------------------------------------------------------------------
HalfFee == (Fee * 50) \div 100

SmallerOf(a, b) == IF a < b THEN a ELSE b

-----------------------------------------------------------------------------
(* Check-in windows. *)

CustomerCheckInOpensAt  == SlotStart - OpensBefore
CustomerCheckInClosesAt == SlotStart - (OpensBefore - WindowLen)

\* A reservation made after its regular window would have closed gets a window
\* of the same length that starts when it is made and never outlives the slot.
CustomerCheckInWindowFor(reference) ==
    IF CustomerCheckInClosesAt <= reference /\ reference < SlotStart
    THEN [opens  |-> reference,
          closes |-> SmallerOf(reference + WindowLen, SlotStart)]
    ELSE [opens  |-> CustomerCheckInOpensAt, closes |-> CustomerCheckInClosesAt]

NightLockUntil(guestCheckedIn) == IF guestCheckedIn THEN UnlockSeen ELSE UnlockUnseen

\* The window a check-in is tested against, from the window stored when the
\* reservation was made.  Accepting a LIVE reservation stores the slot start
\* and no end, so its window lasts until the night lock.
EffectiveCustomerCheckInWindow(type, createdAt) ==
    LET stored == CustomerCheckInWindowFor(createdAt)
        late   == stored.closes <= createdAt /\ createdAt < SlotStart
    IN  IF type = "LIVE"
        THEN [opens |-> SlotStart, closes |-> NightLockUntil(FALSE)]
        ELSE IF late
        THEN [opens  |-> createdAt,
              closes |-> SmallerOf(createdAt + WindowLen, SlotStart)]
        ELSE stored

-----------------------------------------------------------------------------
(* Money: what a cancellation keeps, what a no-show gives back. *)

CustomerCancellationChargeCents(status, guestCheckedIn, now) ==
    IF status \in {"PENDING_VENUE_CONFIRMATION", "REQUESTED"} THEN 0
    ELSE IF guestCheckedIn \/ status = "CHECK_IN_PENDING" THEN Fee
    ELSE IF now >= DayStart THEN HalfFee
    ELSE 0

CustomerCancellationRefundCents(status, guestCheckedIn, now) ==
    LET charge == CustomerCancellationChargeCents(status, guestCheckedIn, now)
    IN  IF Fee < charge THEN 0 ELSE Fee - charge

NoShowRefundCents(type, guestCheckedIn, venueCheckedIn) ==
    IF type = "LIVE" \/ (guestCheckedIn /\ ~venueCheckedIn) THEN 0 ELSE HalfFee

\* refundForCancellation: what an administrative status change promises.
RefundForCancellation(type, status) ==
    IF type = "LIVE" \/ status \in Seated THEN 0 ELSE Fee
=============================================================================

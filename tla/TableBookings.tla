---------------------------- MODULE TableBookings ----------------------------
(***************************************************************************)
(* The reservations of one venue competing for its tables: creation with   *)
(* its tests for blocking reservations, one reservation per guest and day  *)
(* and the guest's limit, acceptance and the declining of competitors,     *)
(* cancellation with the venue's weekly limit, check-in, requests to move  *)
(* a reservation to another time, and the cleanup that releases tables.    *)
(*                                                                         *)
(* Handlers are sequences of steps, one per await, as in                   *)
(* ReservationPayments; they test in one statement and write in another.   *)
(* Payments are reduced to what decides about tables (ReservationPayments  *)
(* has their detail): whether a row is open, authorized, captured, voided  *)
(* or parked in a pending status after a refused provider call.            *)
(***************************************************************************)
EXTENDS ReservationStatus, Integers, FiniteSets

CONSTANTS
    Reservations,   \* identities of Reservation rows
    Changes,        \* identities of ReservationTimeChangeRequest rows
    Guests, Tables,
    Slots,          \* [start, end] of the slots guests ask for
    None,           \* no reservation, no request
    Requests,       \* HTTP requests that can be in flight
    Scheduler,      \* the cleanup timer
    MaxActive,      \* bound: handlers in flight at once
    Ops,            \* the operations the requests may ask for
    Refusals,       \* whether the payment provider may refuse calls
    BookableTypes,  \* the kinds of reservation an instance considers
    DayLen,         \* ticks of a Zagreb calendar day
    WeekLen,        \* ticks of a week
    OpensBefore,    \* ADVANCE_CUSTOMER_CHECK_IN_OPENS_BEFORE_MINUTES
    WindowLen,      \* ADVANCE_CUSTOMER_CHECK_IN_WINDOW_MINUTES
    SeenUnlock,     \* ticks from midnight to 06:00
    UnseenUnlock,   \* ticks from midnight to 08:00
    ConfirmWindow,  \* VENUE_CONFIRMATION_WINDOW_SECONDS
    GuestLimit,     \* 2: reservations a guest may have under way
    CancelLimit,    \* VENUE_WEEKLY_CANCELLATION_LIMIT
    MaxTime         \* bound: the last tick

AllOps == {"create", "accept", "decline", "cancelByCustomer", "cancelByVenue", "checkIn",
           "customerCheckIn", "changeCreate", "changeAccept", "changeDecline"}

Handlers == Requests \cup {Scheduler}

ASSUME IdentityAssumption ==
    /\ None \notin Reservations \cup Changes
    /\ Scheduler \notin Requests
    /\ Ops \subseteq AllOps
    /\ BookableTypes \subseteq Types
    /\ Guests # {} /\ Tables # {}
    /\ Refusals \in BOOLEAN
ASSUME CalendarAssumption ==
    /\ {DayLen, WeekLen} \subseteq Nat \ {0}
    /\ {OpensBefore, WindowLen, SeenUnlock, UnseenUnlock, ConfirmWindow} \subseteq Nat
    /\ Slots # {} /\ \A s \in Slots : s = [start |-> s.start, end |-> s.end]
    /\ \A s \in Slots : s.start \in Nat /\ s.end \in Nat /\ s.start < s.end
ASSUME BoundAssumption ==
    {MaxActive, MaxTime, GuestLimit, CancelLimit} \subseteq Nat

NoTime == -1

VARIABLES
    now,
    booking,        \* Reservation rows
    pay,            \* the state of a reservation's payment
    change,         \* ReservationTimeChangeRequest rows
    penalties,      \* VenueReservationPenalty rows, counted by week
    pc, frame       \* handlers

vars == <<now, booking, pay, change, penalties, pc, frame>>

-----------------------------------------------------------------------------
(* The calendar. *)

DayOf(t)      == t \div DayLen
DayStartOf(t) == DayOf(t) * DayLen
WeekOf(t)     == t \div WeekLen
Weeks         == {WeekOf(t) : t \in 0..MaxTime}

\* One calendar: the code unlocks tables by the server's clock (setHours) and compares days
\* by Zagreb's, which agree where the server is set to that time zone.
NextDayOf(t)  == DayStartOf(t) + DayLen

\* The rules of check-in and night lock for a slot.
Rules(s) == INSTANCE ReservationPolicy WITH
                Fee <- 0, SlotStart <- s.start, SlotEnd <- s.end, DayStart <- DayStartOf(s.start),
                UnlockSeen <- NextDayOf(s.start) + SeenUnlock,
                UnlockUnseen <- NextDayOf(s.start) + UnseenUnlock

-----------------------------------------------------------------------------
(* Types. *)

Windows == [opens: Int, closes: Int]

Bookings == [status: Statuses \cup {"NONE"}, type: Types, guest: Guests, table: Tables,
             slot: Slots, window: Windows, confirmExp: {NoTime} \cup Nat,
             custIn: BOOLEAN, venueIn: BOOLEAN]

NoBooking == [status |-> "NONE", type |-> "ADVANCE", guest |-> CHOOSE g \in Guests : TRUE,
              table |-> CHOOSE t \in Tables : TRUE, slot |-> CHOOSE s \in Slots : TRUE,
              window |-> [opens |-> 0, closes |-> 0], confirmExp |-> NoTime,
              custIn |-> FALSE, venueIn |-> FALSE]

ChangeStatuses == {"NONE", "PENDING", "ACCEPTED", "DECLINED", "CANCELLED"}
ChangeRows     == [status: ChangeStatuses, res: Reservations \cup {None}, slot: Slots,
                   window: Windows]
NoChange       == [status |-> "NONE", res |-> None, slot |-> NoBooking.slot,
                   window |-> NoBooking.window]

PayStates == {"none", "open", "authorized", "captured", "voided", "parked"}

Labels == {"idle", "expFind", "expWrite", "arrFind", "arrWrite", "nightFind", "nightWrite", "void",
           "createBlockers", "createDaily", "createWrite",
           "acceptRead", "acceptExpire", "acceptBlockers", "capture", "acceptWrite", "compete",
           "endWrite", "usageRead", "venueCancelWrite",
           "checkInRead", "checkInWrite", "customerCheckInRead", "customerCheckInWrite",
           "changeBlockers", "changeCreate", "changeAcceptBlockers", "changeAccept",
           "changeDecline"}

Frames == [op: AllOps \cup {"none", "cleanup"}, ret: Labels,
           res: Reservations \cup {None}, change: Changes \cup {None},
           hit: SUBSET Reservations, todo: SUBSET Reservations,
           target: Statuses \cup {"NONE"}, draft: Bookings]

IdleFrame == [op |-> "none", ret |-> "idle", res |-> None, change |-> None,
              hit |-> {}, todo |-> {}, target |-> "NONE", draft |-> NoBooking]

\* Every row and local variable stays in its range.
TypeOK ==
    /\ now \in Nat
    /\ booking \in [Reservations -> Bookings]
    /\ pay \in [Reservations -> PayStates]
    /\ change \in [Changes -> ChangeRows]
    /\ penalties \in [Weeks -> Nat]
    /\ pc \in [Handlers -> Labels]
    /\ frame \in [Handlers -> Frames]

-----------------------------------------------------------------------------
(* Queries. *)

Blocking == Accepted \cup Seated
Underway == {"REQUESTED", "PENDING_VENUE_CONFIRMATION"} \cup Blocking

Booked == {r \in Reservations : booking[r].status # "NONE"}

SameDay(r, start) == DayOf(booking[r].slot.start) = DayOf(start)

NightLock(r) == Rules(booking[r].slot)!NightLockUntil(booking[r].custIn)

\* Seeded fault: accepted reservations do not block before the guest sits down.
HoldsOrAwaitsSeated(r) ==
    \/ /\ booking[r].status = "PENDING_VENUE_CONFIRMATION"
       /\ booking[r].confirmExp = NoTime \/ booking[r].confirmExp > now
    \/ booking[r].status \in Seated

HoldsOrAwaits(r) ==
    \/ /\ booking[r].status = "PENDING_VENUE_CONFIRMATION"
       /\ booking[r].confirmExp = NoTime \/ booking[r].confirmExp > now
    \/ booking[r].status \in Blocking

\* findBlockingReservations for the table, the reservation `except` left out.
FindBlockers(table, start, except) ==
    {r \in Booked \ {except} :
        /\ booking[r].table = table
        /\ HoldsOrAwaits(r)
        /\ \/ SameDay(r, start)
           \/ booking[r].status \in Seated /\ NightLock(r) > start}

\* The reservations createCustomerReservation counts against the guest's limit.
\* (It leaves out refunded ones too: no operation here refunds one under way.)
UnderwayOf(g) ==
    {r \in Booked : /\ booking[r].guest = g
                    /\ booking[r].status \in Underway
                    /\ booking[r].slot.end > now}

-----------------------------------------------------------------------------
(* Control of a handler. *)

Idle(h)      == pc[h] = "idle"
Active       == {h \in Handlers : pc[h] # "idle"}
CanRun       == Cardinality(Active) < MaxActive

Goto(h, label) == pc' = [pc EXCEPT ![h] = label]

Finish(h) ==
    /\ Goto(h, "idle")
    /\ frame' = [frame EXCEPT ![h] = IdleFrame]

Begin(h, o, label, f) ==
    /\ Idle(h) /\ CanRun /\ h \in Requests /\ o \in Ops
    /\ Goto(h, label)
    /\ frame' = [frame EXCEPT ![h] = [f EXCEPT !.op = o]]

DatabaseUnchanged == UNCHANGED <<now, booking, pay, change, penalties>>

\* "updateMany where id in": whatever the rows have become since they were read.
SetStatus(S, new) ==
    booking' = [r \in Reservations |->
                   IF r \in S THEN [booking[r] EXCEPT !.status = new] ELSE booking[r]]

-----------------------------------------------------------------------------
(* releaseExpiredReservationLocks, alone or ahead of another operation.    *)

AfterCleanup == [create |-> "createBlockers", accept |-> "acceptRead", checkIn |-> "checkInRead",
                 customerCheckIn |-> "customerCheckInRead", cleanup |-> "idle"]

CleanupBegin(h) ==
    /\ Idle(h) /\ CanRun
    /\ \/ /\ h = Scheduler
          /\ frame' = [frame EXCEPT ![h].op = "cleanup"]
       \/ /\ h \in Requests
          /\ \E o \in (Ops \cap DOMAIN AfterCleanup) \ {"create"}, r \in Booked :
                frame' = [frame EXCEPT ![h].op = o, ![h].res = r]
    /\ Goto(h, "expFind")
    /\ DatabaseUnchanged

ConfirmationExpired(r) ==
    LET b == booking[r]
    IN  /\ b.status = "PENDING_VENUE_CONFIRMATION"
        /\ \/ /\ b.type = "LIVE"
              /\ IF b.confirmExp = NoTime THEN b.slot.end < now ELSE b.confirmExp < now
           \/ b.type = "ADVANCE" /\ b.slot.start <= now

\* One of the three releases found the rows S: it goes on with its write, or the
\* next release begins.
Found(h, S, write, next) ==
    /\ IF S # {} THEN /\ Goto(h, write)
                      /\ frame' = [frame EXCEPT ![h].hit = S]
                 ELSE Goto(h, next) /\ UNCHANGED frame
    /\ DatabaseUnchanged

ExpireFind(h) ==
    /\ pc[h] = "expFind"
    /\ Found(h, {r \in Booked : ConfirmationExpired(r)}, "expWrite", "arrFind")

ExpireWrite(h) ==
    /\ pc[h] = "expWrite"
    /\ SetStatus(frame[h].hit, "EXPIRED")
    /\ Goto(h, "void")
    /\ frame' = [frame EXCEPT ![h].ret = "arrFind"]
    /\ UNCHANGED <<now, pay, change, penalties>>

\* Seeded fault: a no-show that is noticed after the slot began is forgotten.
ArrivalLockExpiredEarly(r) ==
    LET b == booking[r]
    IN  /\ b.type = "ADVANCE" /\ b.status \in Accepted
        /\ ~b.custIn /\ ~b.venueIn
        /\ b.slot.start - OpensBefore <= now /\ now < b.slot.start
        /\ b.window.closes <= now

ArrivalLockExpired(r) ==
    LET b == booking[r]
    IN  /\ b.type = "ADVANCE" /\ b.status \in Accepted
        /\ ~b.custIn /\ ~b.venueIn
        /\ b.slot.start - OpensBefore <= now
        /\ b.window.closes <= now

CleanupDone(h) ==
    LET next == AfterCleanup[frame[h].op]
    IN  IF next = "idle" THEN Finish(h)
        ELSE Goto(h, next) /\ frame' = [frame EXCEPT ![h].hit = {}]

\* Seeded fault: without a no-show the night locks are not looked at.
ArrivalFindLast(h) ==
    LET late == {r \in Booked : ArrivalLockExpired(r)}
    IN  /\ pc[h] = "arrFind"
        /\ IF late = {} THEN CleanupDone(h) /\ DatabaseUnchanged
                        ELSE Found(h, late, "arrWrite", "nightFind")

ArrivalFind(h) ==
    /\ pc[h] = "arrFind"
    /\ Found(h, {r \in Booked : ArrivalLockExpired(r)}, "arrWrite", "nightFind")

ArrivalWrite(h) ==
    /\ pc[h] = "arrWrite"
    /\ SetStatus(frame[h].hit, "NO_SHOW")
    /\ \/ Goto(h, "nightFind") /\ UNCHANGED frame
       \/ Refusals /\ Finish(h)    \* of a refund
    /\ UNCHANGED <<now, pay, change, penalties>>

NightFind(h) ==
    LET over == {r \in Booked : booking[r].status \in Seated /\ NightLock(r) <= now}
    IN  /\ pc[h] = "nightFind"
        /\ IF over # {} THEN /\ Goto(h, "nightWrite")
                             /\ frame' = [frame EXCEPT ![h].hit = over]
                        ELSE CleanupDone(h)
        /\ DatabaseUnchanged

NightWrite(h) ==
    /\ pc[h] = "nightWrite"
    /\ SetStatus(frame[h].hit, "COMPLETED")
    /\ CleanupDone(h)
    /\ UNCHANGED <<now, pay, change, penalties>>

\* voidForInactiveReservation for the rows just ended, all at once.  A refused
\* provider call parks its payment and, except among competitors, ends the handler.
Void(h) ==
    LET due == {r \in frame[h].hit : pay[r] \in {"open", "authorized"}}
    IN  /\ pc[h] = "void"
        /\ \E refused \in SUBSET {r \in due : Refusals /\ pay[r] = "authorized"} :
              /\ pay' = [r \in Reservations |-> IF r \in refused THEN "parked"
                                                ELSE IF r \in due THEN "voided" ELSE pay[r]]
              /\ IF frame[h].ret # "idle" /\ (refused = {} \/ frame[h].ret = "compete")
                 THEN /\ Goto(h, frame[h].ret)
                      /\ frame' = [frame EXCEPT ![h].hit = {}, ![h].ret = "idle"]
                 ELSE Finish(h)
        /\ UNCHANGED <<now, booking, change, penalties>>

-----------------------------------------------------------------------------
(* createCustomerReservation and createReservation.                        *)

\* What a guest asks for.  The type follows from the venue being live or not,
\* which this module leaves open; parseSlot wants a slot in the future.
Draft(g, t, s, ty) ==
    [status |-> "REQUESTED", type |-> ty, guest |-> g, table |-> t, slot |-> s,
     window |-> Rules(s)!CustomerCheckInWindowFor(now), confirmExp |-> NoTime,
     custIn |-> FALSE, venueIn |-> FALSE]

\* Seeded fault: the limit is one reservation too high.
CreateBeginOverLimit(h) ==
    \E g \in Guests, t \in Tables, s \in Slots, ty \in BookableTypes :
        /\ now < s.start
        /\ Cardinality(UnderwayOf(g)) <= GuestLimit
        /\ Booked # Reservations
        /\ Begin(h, "create", "expFind", [IdleFrame EXCEPT !.draft = Draft(g, t, s, ty)])
        /\ DatabaseUnchanged

CreateBegin(h) ==
    \E g \in Guests, t \in Tables, s \in Slots, ty \in BookableTypes :
        /\ now < s.start
        /\ Cardinality(UnderwayOf(g)) < GuestLimit
        /\ Booked # Reservations     \* bound: every identity is used
        /\ Begin(h, "create", "expFind", [IdleFrame EXCEPT !.draft = Draft(g, t, s, ty)])
        /\ DatabaseUnchanged

CreateBlockers(h) ==
    LET d == frame[h].draft
    IN  /\ pc[h] = "createBlockers"
        /\ IF FindBlockers(d.table, d.slot.start, None) = {}
           THEN Goto(h, "createDaily") /\ UNCHANGED frame
           ELSE Finish(h)
        /\ DatabaseUnchanged

\* assertSingleActiveCustomerReservationPerDay
CreateDaily(h) ==
    LET d == frame[h].draft
    IN  /\ pc[h] = "createDaily"
        /\ IF \E r \in Booked : /\ booking[r].guest = d.guest
                                /\ SameDay(r, d.slot.start)
                                /\ booking[r].status \in Underway \ {"REQUESTED"}
           THEN Finish(h)
           ELSE Goto(h, "createWrite") /\ UNCHANGED frame
        /\ DatabaseUnchanged

CreateWrite(h) ==
    /\ pc[h] = "createWrite"
    /\ booking' = IF Booked = Reservations THEN booking
                  ELSE [booking EXCEPT ![CHOOSE r \in Reservations \ Booked : TRUE] =
                           frame[h].draft]
    /\ Finish(h)
    /\ UNCHANGED <<now, pay, change, penalties>>

\* createReservationCheckout: its row is created and the reservation waits for it.
Checkout(r) ==
    /\ CanRun
    /\ r \in Booked /\ booking[r].status \notin Terminal
    /\ pay[r] \notin {"open", "authorized", "captured"}
    /\ pay' = [pay EXCEPT ![r] = "open"]
    /\ booking' = [booking EXCEPT ![r].status = "REQUESTED", ![r].confirmExp = NoTime]
    /\ UNCHANGED <<now, change, penalties, pc, frame>>

\* Seeded fault: the confirmation window is subtracted.
ClaimBackwards(r) ==
    /\ CanRun
    /\ pay[r] = "open"
    /\ pay' = [pay EXCEPT ![r] = "authorized"]
    /\ booking' = [booking EXCEPT ![r].status = "PENDING_VENUE_CONFIRMATION",
                                  ![r].confirmExp = now - ConfirmWindow]
    /\ UNCHANGED <<now, change, penalties, pc, frame>>

\* markPaymentAuthorized, for a guest who paid: one transaction, which asks the
\* venue whatever has become of the reservation.
Claim(r) ==
    /\ CanRun
    /\ pay[r] = "open"
    /\ pay' = [pay EXCEPT ![r] = "authorized"]
    /\ booking' = [booking EXCEPT ![r].status = "PENDING_VENUE_CONFIRMATION",
                                  ![r].confirmExp = now + ConfirmWindow]
    /\ UNCHANGED <<now, change, penalties, pc, frame>>

-----------------------------------------------------------------------------
(* acceptReservation and declineCompetingPendingReservations.              *)

AcceptRead(h) ==
    LET b == booking[frame[h].res]
    IN  /\ pc[h] = "acceptRead"
        /\ IF b.status # "PENDING_VENUE_CONFIRMATION" THEN Finish(h)
           ELSE /\ UNCHANGED frame
                /\ IF \/ b.type = "ADVANCE" /\ b.slot.start <= now
                      \/ b.type = "LIVE" /\ b.confirmExp # NoTime /\ b.confirmExp < now
                   THEN Goto(h, "acceptExpire")
                   ELSE Goto(h, "acceptBlockers")
        /\ DatabaseUnchanged

AcceptExpire(h) ==
    /\ pc[h] = "acceptExpire"
    /\ LET r == frame[h].res
       IN  /\ booking' = [booking EXCEPT ![r].status = "EXPIRED",
                                         ![r].confirmExp = IF booking[r].type = "ADVANCE"
                                                           THEN NoTime ELSE @]
           /\ frame' = [frame EXCEPT ![h].hit = {r}]
    /\ Goto(h, "void")
    /\ UNCHANGED <<now, pay, change, penalties>>

\* Seeded fault: reservations of guests already at the table are overlooked.
AcceptBlockersUnseated(h) ==
    LET b        == booking[frame[h].res]
        blockers == FindBlockers(b.table, b.slot.start, frame[h].res)
    IN  /\ pc[h] = "acceptBlockers"
        /\ IF \E q \in blockers : booking[q].status \in Accepted THEN Finish(h)
           ELSE /\ Goto(h, "capture")
                /\ frame' = [frame EXCEPT ![h].todo = blockers]
        /\ DatabaseUnchanged

\* Holders refuse the acceptance; competitors are declined after it.
AcceptBlockers(h) ==
    LET b        == booking[frame[h].res]
        blockers == FindBlockers(b.table, b.slot.start, frame[h].res)
    IN  /\ pc[h] = "acceptBlockers"
        /\ IF \E q \in blockers : booking[q].status \in Blocking THEN Finish(h)
           ELSE /\ Goto(h, "capture")
                /\ frame' = [frame EXCEPT ![h].todo = blockers]
        /\ DatabaseUnchanged

\* captureForAcceptedReservation: without an authorized row there is nothing to
\* capture; a refused call parks the row and the acceptance fails.
Capture(h) ==
    LET r == frame[h].res
    IN  /\ pc[h] = "capture"
        /\ \/ /\ pay[r] = "authorized"
              /\ \/ pay' = [pay EXCEPT ![r] = "captured"] /\ Goto(h, "acceptWrite") /\ UNCHANGED frame
                 \/ Refusals /\ pay' = [pay EXCEPT ![r] = "parked"] /\ Finish(h)
           \/ /\ pay[r] # "authorized"
              /\ Goto(h, "acceptWrite")
              /\ UNCHANGED <<pay, frame>>
        /\ UNCHANGED <<now, booking, change, penalties>>

AcceptWrite(h) ==
    /\ pc[h] = "acceptWrite"
    /\ LET r == frame[h].res
           b == booking[r]
       IN  booking' = [booking EXCEPT ![r] =
             IF b.type = "LIVE"
             THEN [b EXCEPT !.status = "CHECK_IN_PENDING", !.confirmExp = NoTime, !.custIn = TRUE,
                            !.window = [opens  |-> b.slot.start,
                                        closes |-> Rules(b.slot)!NightLockUntil(FALSE)]]
             ELSE [b EXCEPT !.status = "CONFIRMED", !.confirmExp = NoTime]]
    /\ Goto(h, "compete")
    /\ UNCHANGED <<frame, now, pay, change, penalties>>

\* The next competitor is read again and declined if it still waits.
Compete(h) ==
    /\ pc[h] = "compete"
    /\ \/ frame[h].todo = {} /\ Finish(h)
       \/ \E q \in frame[h].todo :
             IF booking[q].status = "PENDING_VENUE_CONFIRMATION"
             THEN /\ Goto(h, "endWrite")
                  /\ frame' = [frame EXCEPT ![h].todo = @ \ {q}, ![h].hit = {q},
                                            ![h].target = "DECLINED", ![h].ret = "compete"]
             ELSE /\ frame' = [frame EXCEPT ![h].todo = @ \ {q}]
                  /\ UNCHANGED pc
    /\ DatabaseUnchanged

-----------------------------------------------------------------------------
(* declineReservation and the two cancellations.                           *)

\* A handler whose first read decides: it goes on to end reservation r.
BeginEnd(h, o, label, r, target) ==
    /\ Begin(h, o, label, [IdleFrame EXCEPT !.res = r, !.hit = {r}, !.target = target])
    /\ DatabaseUnchanged

Decline(h, r) ==
    /\ booking[r].status = "PENDING_VENUE_CONFIRMATION"
    /\ BeginEnd(h, "decline", "endWrite", r, "DECLINED")

CancelByCustomer(h, r) ==
    /\ booking[r].status \notin Terminal \cup Seated
    /\ now < booking[r].slot.start
    /\ BeginEnd(h, "cancelByCustomer", "endWrite", r, "CANCELLED_BY_USER")

CancelByVenue(h, r) ==
    /\ booking[r].status \notin Terminal \cup {"PENDING_VENUE_CONFIRMATION"}
    /\ BeginEnd(h, "cancelByVenue", "usageRead", r, "CANCELLED")

\* getVenueCancellationUsage
UsageRead(h) ==
    /\ pc[h] = "usageRead"
    /\ IF penalties[WeekOf(now)] < CancelLimit
       THEN Goto(h, "venueCancelWrite") /\ UNCHANGED frame
       ELSE Finish(h)
    /\ DatabaseUnchanged

EndReservations(h) ==
    /\ booking' = [r \in Reservations |->
                      IF r \in frame[h].hit
                      THEN [booking[r] EXCEPT !.status = frame[h].target, !.confirmExp = NoTime]
                      ELSE booking[r]]
    /\ Goto(h, "void")
    /\ UNCHANGED <<frame, now, pay, change>>

EndWrite(h) ==
    /\ pc[h] = "endWrite"
    /\ EndReservations(h)
    /\ UNCHANGED penalties

VenueCancelWrite(h) ==
    /\ pc[h] = "venueCancelWrite"
    /\ EndReservations(h)
    /\ penalties' = [penalties EXCEPT ![WeekOf(now)] = @ + 1]

-----------------------------------------------------------------------------
(* Check-in by the venue and by the guest.                                 *)

CheckInRead(h) ==
    LET b == booking[frame[h].res]
    IN  /\ pc[h] = "checkInRead"
        /\ IF b.status \in Accepted /\ b.slot.start <= now
           THEN Goto(h, "checkInWrite") /\ UNCHANGED frame
           ELSE Finish(h)
        /\ DatabaseUnchanged

CheckInWrite(h) ==
    /\ pc[h] = "checkInWrite"
    /\ LET r == frame[h].res
       IN  booking' = [booking EXCEPT ![r].status = "CHECKED_IN", ![r].venueIn = TRUE,
                                      ![r].confirmExp = NoTime]
    /\ Finish(h)
    /\ UNCHANGED <<now, pay, change, penalties>>

CustomerCheckInRead(h) ==
    LET b == booking[frame[h].res]
    IN  /\ pc[h] = "customerCheckInRead"
        /\ IF /\ b.status \in Accepted /\ ~b.custIn
              /\ b.window.opens <= now /\ now <= b.window.closes
           THEN Goto(h, "customerCheckInWrite") /\ UNCHANGED frame
           ELSE Finish(h)
        /\ DatabaseUnchanged

CustomerCheckInWrite(h) ==
    /\ pc[h] = "customerCheckInWrite"
    /\ LET r == frame[h].res
       IN  booking' = [booking EXCEPT ![r].status = "CHECK_IN_PENDING", ![r].custIn = TRUE]
    /\ Finish(h)
    /\ UNCHANGED <<now, pay, change, penalties>>

-----------------------------------------------------------------------------
(* Requests to move an accepted reservation to another time.               *)

Pending(r) == {c \in Changes : change[c].res = r /\ change[c].status = "PENDING"}

ChangeCreateBegin(h, r) ==
    LET b == booking[r]
    IN  \E s \in Slots \ {b.slot} :
            /\ b.type = "ADVANCE" /\ b.status \in Accepted
            /\ ~b.custIn /\ ~b.venueIn
            /\ now < b.window.opens
            /\ Pending(r) = {}
            /\ now < s.start
            /\ Begin(h, "changeCreate", "changeBlockers",
                     [IdleFrame EXCEPT !.res = r, !.draft = Draft(b.guest, b.table, s, b.type)])
            /\ DatabaseUnchanged

\* The table must be free at the requested time, when the guest asks for it and
\* again when the venue agrees.
FreeAt(h, start, next) ==
    LET r == frame[h].res
    IN  /\ IF FindBlockers(booking[r].table, start, r) = {}
           THEN Goto(h, next) /\ UNCHANGED frame
           ELSE Finish(h)
        /\ DatabaseUnchanged

ChangeBlockers(h) ==
    /\ pc[h] = "changeBlockers"
    /\ FreeAt(h, frame[h].draft.slot.start, "changeCreate")

UnusedChanges == {c \in Changes : change[c].status = "NONE"}

ChangeCreate(h) ==
    /\ pc[h] = "changeCreate"
    /\ change' = IF UnusedChanges = {} THEN change    \* bound: every identity is used
                 ELSE [change EXCEPT ![CHOOSE c \in UnusedChanges : TRUE] =
                          [status |-> "PENDING", res |-> frame[h].res,
                           slot |-> frame[h].draft.slot, window |-> frame[h].draft.window]]
    /\ Finish(h)
    /\ UNCHANGED <<now, booking, pay, penalties>>

ChangeAcceptBegin(h, c) ==
    LET r == change[c].res
    IN  /\ change[c].status = "PENDING"
        /\ booking[r].type = "ADVANCE" /\ booking[r].status \in Accepted
        /\ Begin(h, "changeAccept", "changeAcceptBlockers",
                 [IdleFrame EXCEPT !.res = r, !.change = c])
        /\ DatabaseUnchanged

\* Seeded fault: the table is not looked at again when the venue agrees.
ChangeAcceptUnchecked(h) ==
    /\ pc[h] = "changeAcceptBlockers"
    /\ Goto(h, "changeAccept")
    /\ UNCHANGED frame
    /\ DatabaseUnchanged

ChangeAcceptBlockers(h) ==
    /\ pc[h] = "changeAcceptBlockers"
    /\ FreeAt(h, change[frame[h].change].slot.start, "changeAccept")

\* Seeded fault: the reservation keeps its old time.
ChangeAcceptUnmoved(h) ==
    LET c == frame[h].change
    IN  /\ pc[h] = "changeAccept"
        /\ change' = [change EXCEPT ![c].status = "ACCEPTED"]
        /\ Finish(h)
        /\ UNCHANGED <<now, booking, pay, penalties>>

\* One transaction: the request accepted, every other one of the reservation
\* cancelled, the reservation moved.
ChangeAccept(h) ==
    LET c == frame[h].change
        r == frame[h].res
    IN  /\ pc[h] = "changeAccept"
        /\ change' = [d \in Changes |->
                         IF d = c THEN [change[c] EXCEPT !.status = "ACCEPTED"]
                         ELSE IF d \in Pending(r) THEN [change[d] EXCEPT !.status = "CANCELLED"]
                         ELSE change[d]]
        /\ booking' = [booking EXCEPT ![r].slot = change[c].slot, ![r].window = change[c].window]
        /\ Finish(h)
        /\ UNCHANGED <<now, pay, penalties>>

ChangeDeclineBegin(h, c) ==
    /\ change[c].status = "PENDING"
    /\ Begin(h, "changeDecline", "changeDecline", [IdleFrame EXCEPT !.change = c])
    /\ DatabaseUnchanged

ChangeDecline(h) ==
    /\ pc[h] = "changeDecline"
    /\ change' = [change EXCEPT ![frame[h].change].status = "DECLINED"]
    /\ Finish(h)
    /\ UNCHANGED <<now, booking, pay, penalties>>

-----------------------------------------------------------------------------
(* The specification.                                                      *)

Tick ==
    /\ now < MaxTime
    /\ now' = now + 1
    /\ UNCHANGED <<booking, pay, change, penalties, pc, frame>>

Init ==
    /\ now = 0
    /\ booking = [r \in Reservations |-> NoBooking]
    /\ pay = [r \in Reservations |-> "none"]
    /\ change = [c \in Changes |-> NoChange]
    /\ penalties = [w \in Weeks |-> 0]
    /\ pc = [h \in Handlers |-> "idle"]
    /\ frame = [h \in Handlers |-> IdleFrame]

Arrives(h) ==
    \/ CreateBegin(h)
    \/ \E r \in Booked : \/ Decline(h, r) \/ CancelByCustomer(h, r) \/ CancelByVenue(h, r)
                         \/ ChangeCreateBegin(h, r)
    \/ \E c \in Changes : ChangeAcceptBegin(h, c) \/ ChangeDeclineBegin(h, c)

GoesOn(h) ==
    \/ ExpireFind(h) \/ ExpireWrite(h) \/ ArrivalFind(h) \/ ArrivalWrite(h)
    \/ NightFind(h) \/ NightWrite(h) \/ Void(h)
    \/ CreateBlockers(h) \/ CreateDaily(h) \/ CreateWrite(h)
    \/ AcceptRead(h) \/ AcceptExpire(h) \/ AcceptBlockers(h) \/ Capture(h) \/ AcceptWrite(h)
    \/ Compete(h) \/ EndWrite(h) \/ UsageRead(h) \/ VenueCancelWrite(h)
    \/ CheckInRead(h) \/ CheckInWrite(h) \/ CustomerCheckInRead(h) \/ CustomerCheckInWrite(h)
    \/ ChangeBlockers(h) \/ ChangeCreate(h)
    \/ ChangeAcceptBlockers(h) \/ ChangeAccept(h) \/ ChangeDecline(h)

Next ==
    \/ Tick
    \/ \E r \in Reservations : Checkout(r) \/ Claim(r)
    \/ \E h \in Handlers : CleanupBegin(h) \/ Arrives(h) \/ GoesOn(h)

Spec == Init /\ [][Next]_vars

\* Answered calls resume, the timer fires again and again and finds a free
\* handler, and time passes.
Fairness ==
    /\ \A h \in Handlers : WF_vars(GoesOn(h))
    /\ SF_vars(CleanupBegin(Scheduler))
    /\ WF_vars(Tick)

FairSpec == Spec /\ Fairness

-----------------------------------------------------------------------------
(* Properties of requests served one at a time (MaxActive = 1).            *)

Days == {DayOf(s.start) : s \in Slots}

\* The tables given away.
Held == {[res |-> r, table |-> booking[r].table, day |-> DayOf(booking[r].slot.start)] :
            r \in {q \in Booked : booking[q].status \in Blocking}}

Assignment == INSTANCE TableAssignment WITH holds <- Held

\* A table is given to one reservation a day and changes hands only through a
\* release: what the Conflict exceptions of createReservation, acceptReservation
\* and the time changes are there for, whatever order requests, answers, moves
\* and releases come in.
TablesAssigned == Assignment!Spec

Taken(r) ==
    \/ booking[r].status = "NONE" /\ booking'[r].status # "NONE"
    \/ booking[r].status \notin Blocking /\ booking'[r].status \in Blocking

FreeFor(r, table, start) ==
    \A q \in Booked \ {r} :
        ~(/\ booking[q].table = table
          /\ booking[q].status \in Blocking
          /\ SameDay(q, start) \/ (booking[q].status \in Seated /\ NightLock(q) > start))

TakesFreeTable ==
    \A r \in Reservations : Taken(r) => FreeFor(r, booking'[r].table, booking'[r].slot.start)

\* A reservation is made or accepted only for a table that nobody has been given
\* for that day and that last night's guest will have left: the blockers read
\* some steps earlier still decide rightly.
TableFreeWhenTaken == [][TakesFreeTable]_vars

\* A venue cancels at most CancelLimit reservations in a week, although the
\* cancellation that exhausts the limit and the week may end between its count
\* and its write.
WeeklyLimitKept == \A w \in Weeks : penalties[w] <= CancelLimit

\* No sequence of requests, payments, answers and cancellations takes a guest over
\* the limit of reservations under way.  (Moving a reservation to another time
\* can: a guest who checked in and was never seated keeps a reservation whose slot
\* is over and not counted, until the venue agrees to move it into the future.)
GuestLimitKept == \A g \in Guests : Cardinality(UnderwayOf(g)) <= GuestLimit

\* Both limits.
LimitsKept == WeeklyLimitKept /\ GuestLimitKept

\* A reservation moves only to the time of a request that was still waiting and
\* is accepted by the same step, and no request of it is left waiting; an answer
\* is final.
MovedByAgreement ==
    [][/\ \A r \in Booked :
             booking'[r].slot # booking[r].slot =>
                 /\ \E c \in Pending(r) : /\ change'[c].status = "ACCEPTED"
                                          /\ change'[c].slot = booking'[r].slot
                 /\ Pending(r)' = {}
       /\ \A c \in Changes :
             change[c].status = "PENDING" /\ change'[c].status = "ACCEPTED" =>
                 booking'[change[c].res].slot = change[c].slot
       /\ \A c \in Changes :
             change[c].status \in {"ACCEPTED", "DECLINED", "CANCELLED"} =>
                 change'[c] = change[c]]_vars

-----------------------------------------------------------------------------
(* What the repository says of itself, and the code does not do.           *)

\* acceptReservation answers Conflict, "the selected table is already reserved
\* for this slot".  The test and the write are statements apart, with the call to
\* the payment provider between them: two acceptances both pass the test.
NoDoubleBooking ==
    \A r, q \in Booked :
        /\ booking[r].status \in Blocking /\ booking[q].status \in Blocking
        /\ booking[r].table = booking[q].table
        /\ SameDay(r, booking[q].slot.start)
        => r = q

-----------------------------------------------------------------------------
(* Liveness.                                                               *)

\* The table of a seated guest is released after the night, although refused
\* voids and refunds cut cleanups short.
TableReleased ==
    \A r \in Reservations : booking[r].status \in Seated ~> booking[r].status \notin Seated

\* A confirmed reservation nobody has checked in does not stay so: its guest checks
\* in, somebody cancels, or the cleanup releases it as a no-show.  (Nothing
\* releases one that is confirmed with a check-in on it, which takes a refused
\* capture, a second acceptance without it, a check-in and a new checkout.)
ConfirmedResolved ==
    LET waiting(r) == booking[r].status = "CONFIRMED" /\ ~booking[r].custIn /\ ~booking[r].venueIn
    IN  \A r \in Reservations : waiting(r) ~> ~waiting(r)
=============================================================================

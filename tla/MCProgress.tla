------------------------------ MODULE MCProgress ------------------------------
(* Small instances for TLC of what the timer brings to an end: LiveMode,       *)
(* CleanupTimer, and ReservationPayments with one handler at a time and a      *)
(* provider that does its work.  A behaviour is of one of them.                *)
EXTENDS LiveMode, TLC

CONSTANTS garden, hall, g1, g2, w1, Venues, Broken, Take, MaxStray, p1, NoPayment

VARIABLES
    scenario,
    matched, due, isRunning, awaited, stray,        \* CleanupTimer
    clock, type, createdAt, status, refundCents, confirmExp, custIn, venueIn, rows, payStatus,
    captured, refunded, checkouts, prov, provRefunded, ledger, invoice, verified,
    step, local                                     \* ReservationPayments

timerVars == <<matched, due, isRunning, awaited, stray>>
moneyVars == <<clock, type, createdAt, status, refundCents, confirmExp, custIn, venueIn, rows,
               payStatus, captured, refunded, checkouts, prov, provRefunded, ledger, invoice,
               verified, step, local>>
allVars   == <<scenario, vars, timerVars, moneyVars>>

Cleanup == INSTANCE CleanupTimer

ASSUME TimerBounds == MaxStray \in Nat

\* What guests, venues and support do, short of the administrative overrides.
GuestAndVenueOps ==
    {"checkout", "payStored", "assert", "notify", "accept", "decline", "cancelByCustomer",
     "cancelByVenue", "checkIn", "customerCheckIn", "noShowReport", "adminRefund"}

Money == INSTANCE ReservationPayments WITH
    now <- clock, pc <- step, frame <- local,
    Payments <- {p1}, Scheduler <- Timer, Ops <- GuestAndVenueOps, AdminTargets <- {},
    RefundAmounts <- {3}, Faults <- {}, BookableTypes <- {"LIVE", "ADVANCE"},
    BookingTimes <- {0, 2}, ConfirmWindow <- 1, ReportDelay <- 1, MaxTime <- 5,
    Fee <- 3, SlotStart <- 3, SlotEnd <- 4, DayStart <- 1, OpensBefore <- 2, WindowLen <- 1,
    UnlockSeen <- 4, UnlockUnseen <- 5, CommissionBps <- 5000, FirstReservationBps <- 10000

\* The hall is a temporary space: half of its tables may be live at a time.
TwoRooms    == {garden, hall}
FiveAndFour == (garden :> 5) @@ (hall :> 4)
Approved    == (garden :> {g1, g2}) @@ (hall :> {w1})

Payload(on, chosen, ahead, shown, room) ==
    [isLive |-> on, live |-> chosen, advance |-> ahead, listed |-> shown, room |-> room]

\* Live everywhere, live in one room, stop, an older application's selection, and a
\* selection for reservations in advance.
OwnerPayloads ==
    {Payload(TRUE, {g1, w1}, None, None, None), Payload(TRUE, {w1}, None, None, hall),
     Payload(FALSE, None, None, None, None), Payload(FALSE, {g1}, None, TRUE, garden),
     Payload(FALSE, None, {g1}, TRUE, garden)}

InLive  == scenario = "live" /\ UNCHANGED <<scenario, timerVars, moneyVars>>
InTimer == scenario = "timer" /\ UNCHANGED <<scenario, vars, moneyVars>>
InMoney == scenario = "money" /\ UNCHANGED <<scenario, vars, timerVars>>

\* The reservation of the other behaviours is one of the four that may be made.
MCInit ==
    /\ scenario \in {"live", "timer", "money"}
    /\ Init /\ Cleanup!Init /\ Money!Init
    /\ scenario # "money" => type = "ADVANCE" /\ createdAt = 0
MCNext == (InLive /\ Next) \/ (InTimer /\ Cleanup!Next) \/ (InMoney /\ Money!Next)

\* What each of the modules assumes of its own behaviours.
MCFairness ==
    /\ WF_allVars(InLive /\ Tick) /\ WF_allVars(InLive /\ AutoDisableIfNeeded(Timer))
    /\ \A h \in Requests : /\ WF_allVars(InLive /\ (AutoCount(h) \/ AutoDisable(h)))
                          /\ WF_allVars(InLive /\ UpdateWrite(h))
    /\ WF_timerVars(InTimer /\ Cleanup!Fires)
    /\ \A v \in Venues : /\ WF_timerVars(InTimer /\ (Cleanup!Rejected(v) \/ Cleanup!Resolved(v)))
                         /\ WF_timerVars(InTimer /\ Cleanup!StrayEnds(v))
    /\ \A h \in Handlers : WF_allVars(InMoney /\ Money!Step(h))
    /\ SF_allVars(InMoney /\ Money!CleanupBegin(Timer))
    /\ WF_allVars(InMoney /\ Money!Tick)

MCSpec == MCInit /\ [][MCNext]_allVars /\ MCFairness

\* Columns, handlers and runs of the timer stay in their range.
SessionTypes == LiveTypes /\ Cleanup!TimerTypes

\* Cleanups that throw do not keep other venues from being cleaned up, while the timer's
\* queries take all they match.
DueServed == Cleanup!DueServed

\* ReservationPayments: a request the venue never answers does not wait for ever.
RequestResolved == Money!RequestResolved

\* ReservationPayments: every authorization is captured or given back.
AuthorizationSettled == Money!AuthorizationSettled
=============================================================================

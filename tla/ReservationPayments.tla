------------------------- MODULE ReservationPayments -------------------------
(***************************************************************************)
(* One reservation, its payment rows, the payment provider and the books,  *)
(* driven by the request handlers of ReservationsService and               *)
(* PaymentsService and by the scheduled cleanup.                           *)
(*                                                                         *)
(* Node runs a handler without interruption between two awaits, and every  *)
(* await is a database statement, a transaction or a provider call.  So a  *)
(* handler is a sequence of steps, one per await, and handlers in flight   *)
(* interleave between steps.  What a handler has read and still uses later *)
(* lives in its frame, as stale as the code's local variables are.  Where  *)
(* the code writes "update where id", the step writes whatever the row has *)
(* become in the meantime; where it writes "updateMany where status in",   *)
(* the guard is part of the step.                                          *)
(***************************************************************************)
EXTENDS ReservationPolicy, Allocation, Sequences, FiniteSets

CONSTANTS
    Payments,       \* identities of ReservationPayment rows
    NoPayment,      \* findFirst found no row
    Requests,       \* HTTP requests that can be in flight
    Scheduler,      \* the cleanup timer: single-flight, runs the cleanup only
    MaxActive,      \* bound: handlers in flight at once
    Ops,            \* the operations the requests may ask for
    AdminTargets,   \* bound: the statuses updateReservationStatus is asked for
    RefundAmounts,  \* bound: amounts an admin refund asks for
    Faults,         \* what may go wrong: "reject", "timeout", "crash"
    BookableTypes,  \* the kinds of reservation an instance considers
    BookingTimes,   \* ticks at which the reservation may have been made
    ConfirmWindow,  \* VENUE_CONFIRMATION_WINDOW_SECONDS
    ReportDelay,    \* VENUE_NO_SHOW_REPORT_DELAY_MINUTES
    MaxTime         \* bound: the last tick, unless a confirmation is still awaited

AllOps == {"checkout", "payStored", "assert", "notify", "accept", "decline",
           "cancelByCustomer", "cancelByVenue", "checkIn", "customerCheckIn",
           "adminCustomerCheckIn", "adminVenueCheckIn", "noShowReport",
           "problemResolved", "adminRefund", "adminCancel", "setStatus"}

Handlers == Requests \cup {Scheduler}

ASSUME IdentityAssumption ==
    /\ NoPayment \notin Payments
    /\ Scheduler \notin Requests
    /\ Ops \subseteq AllOps
    /\ BookableTypes \subseteq Types
ASSUME BoundAssumption ==
    /\ MaxActive \in Nat /\ MaxTime \in Nat /\ ConfirmWindow \in Nat /\ ReportDelay \in Nat
    /\ BookingTimes \subseteq 0..MaxTime
    /\ RefundAmounts \subseteq Nat
    /\ AdminTargets \subseteq Statuses

NoTime == -1

VARIABLES
    now,
    type, createdAt,                        \* Reservation, fixed columns
    status, refundCents, confirmExp,        \* Reservation
    custIn, venueIn,                        \* customerCheckedInAt, checkedInAt / seatedAt set
    rows,                                   \* ReservationPayment rows by createdAt
    payStatus, captured, refunded,          \* ReservationPayment columns
    checkouts,                              \* rows with a providerCheckoutId
    prov, provRefunded,                     \* Saferpay's side of each transaction
    ledger, invoice, verified,              \* LedgerEntry, CustomerInvoice, PaymentWebhookEvent
    pc, frame                               \* handlers

bookingVars  == <<type, createdAt>>
resVars      == <<status, refundCents, confirmExp, custIn, venueIn>>
payVars      == <<rows, payStatus, captured, refunded, checkouts>>
provVars     == <<prov, provRefunded>>
bookVars     == <<ledger, invoice, verified>>
handlerVars  == <<pc, frame>>
vars == <<now, bookingVars, resVars, payVars, provVars, bookVars, handlerVars>>

-----------------------------------------------------------------------------
(* Types. *)

PayStatuses == {"NONE", "AUTH_PENDING", "AUTHORIZED", "CAPTURE_PENDING", "CAPTURED",
                "VOID_PENDING", "VOIDED", "REFUND_PENDING", "PARTIALLY_REFUNDED",
                "REFUNDED"}
ProvStates == {"NONE", "OPEN", "AUTHORIZED", "CAPTURED", "CANCELLED"}

CaptureTypes == {"CUSTOMER_CAPTURE", "CHIN_CHIN_FEE", "VENUE_SHARE"}
EntryTypes   == CaptureTypes \cup {"CUSTOMER_REFUND", "PAYMENT_VOID"}
Invoices     == {"NONE", "ISSUED", "PARTIALLY_REFUNDED", "REFUNDED"}

Labels == {"idle", "expFind", "expWrite", "arrFind", "arrWrite", "nightFind", "nightWrite",
           "checkoutProvider", "checkoutCreate", "assertRead", "assertProvider", "claim",
           "recordEvent", "acceptRead", "acceptExpire", "acceptWrite", "declineWrite",
           "captureFind", "captureMark", "captureProvider", "captureTx",
           "voidFind", "voidLocal", "voidMark", "voidProvider", "voidWrite", "voidLedger",
           "refundFind", "refundMark", "refundProvider", "refundTx",
           "customerCancelWrite", "venueCancelWrite", "cancelWrite", "setStatusWrite",
           "checkInRead", "checkInWrite", "customerCheckInRead", "customerCheckInWrite",
           "adminCustomerCheckInRead", "adminCustomerCheckInWrite",
           "adminVenueCheckInRead", "adminVenueCheckInWrite", "noShowWrite"}

\* Where a handler that begins with releaseExpiredReservationLocks goes on.
AfterCleanup == [accept               |-> "acceptRead",
                 checkIn              |-> "checkInRead",
                 customerCheckIn      |-> "customerCheckInRead",
                 adminCustomerCheckIn |-> "adminCustomerCheckInRead",
                 adminVenueCheckIn    |-> "adminVenueCheckInRead",
                 cleanup              |-> "idle"]

Frames == [op: AllOps \cup {"none", "cleanup"}, ret: Labels,
           pay: Payments \cup {NoPayment}, event: Payments \cup {NoPayment},
           snap: 0..Fee, amt: 0..Fee, target: Statuses \cup {"none"}]

IdleFrame == [op |-> "none", ret |-> "idle", pay |-> NoPayment, event |-> NoPayment,
              snap |-> 0, amt |-> 0, target |-> "none"]

Ledgers     == [types: SUBSET EntryTypes, sum: [EntryTypes -> Int]]
EmptyLedger == [types |-> {}, sum |-> [t \in EntryTypes |-> 0]]

ReservationTyped ==
    /\ now \in Nat
    /\ type \in Types /\ createdAt \in BookingTimes
    /\ status \in Statuses
    /\ refundCents \in 0..Fee
    /\ confirmExp \in {NoTime} \cup Nat
    /\ custIn \in BOOLEAN /\ venueIn \in BOOLEAN

PaymentsTyped ==
    /\ rows \in Seq(Payments)
    /\ payStatus \in [Payments -> PayStatuses]
    /\ captured \in [Payments -> {0, Fee}]
    /\ refunded \in [Payments -> 0..Fee]
    /\ checkouts \subseteq Payments

ProviderTyped ==
    /\ prov \in [Payments -> ProvStates]
    /\ provRefunded \in [Payments -> 0..Fee]

BooksTyped ==
    /\ ledger \in [Payments -> Ledgers]
    /\ invoice \in [Payments -> Invoices]
    /\ verified \subseteq Payments

HandlersTyped ==
    /\ pc \in [Handlers -> Labels]
    /\ frame \in [Handlers -> Frames]

\* Every column and every local variable stays in its range.  What could break it
\* is the money: refundCents, refunded and what Saferpay returned never exceed
\* the fee, however many refunds, no-shows and cancellations follow each other.
TypeOK ==
    ReservationTyped /\ PaymentsTyped /\ ProviderTyped /\ BooksTyped /\ HandlersTyped

-----------------------------------------------------------------------------
(* Queries. *)

\* findFirst over the rows in S, orderBy createdAt desc.
Latest(S) ==
    LET last == {i \in DOMAIN rows :
                    /\ rows[i] \in S
                    /\ \A j \in DOMAIN rows : j > i => rows[j] \notin S}
    IN  IF last = {} THEN NoPayment ELSE rows[CHOOSE i \in last : TRUE]

LatestIn(stats) == Latest({p \in Payments : payStatus[p] \in stats})

Idle(h)     == pc[h] = "idle"
Active      == {h \in Handlers : pc[h] # "idle"}
MayBegin(h) == Idle(h) /\ Cardinality(Active) < MaxActive

-----------------------------------------------------------------------------
(* Control of a handler. *)

Goto(h, label) == pc' = [pc EXCEPT ![h] = label]

\* The handler answers its caller, or an exception leaves it.
Finish(h) ==
    /\ Goto(h, "idle")
    /\ frame' = [frame EXCEPT ![h] = IdleFrame]

\* A shared procedure (void, refund) ends and its caller goes on.
Return(h) ==
    IF frame[h].ret = "idle" THEN Finish(h)
    ELSE /\ Goto(h, frame[h].ret)
         /\ frame' = [frame EXCEPT ![h] = [IdleFrame EXCEPT !.op = frame[h].op,
                                                            !.event = frame[h].event]]

\* A handler whose first await is the read that decides everything: it goes on
\* with its first write, or ends there without an effect (not shown as a step).
BeginAt(h, o, label, f) ==
    /\ MayBegin(h) /\ h \in Requests /\ o \in Ops
    /\ Goto(h, label)
    /\ frame' = [frame EXCEPT ![h] = [f EXCEPT !.op = o]]

Call(f, ret) == [f EXCEPT !.ret = ret]

\* "update where id" of a payment row, whatever its status has become.
SetPayStatus(h, label, new, next) ==
    /\ pc[h] = label
    /\ payStatus' = [payStatus EXCEPT ![frame[h].pay] = new]
    /\ Goto(h, next)
    /\ UNCHANGED <<frame, now, bookingVars, resVars, rows, captured, refunded, checkouts,
                   provVars, bookVars>>

DatabaseUnchanged == UNCHANGED <<now, bookingVars, resVars, payVars, provVars, bookVars>>

-----------------------------------------------------------------------------
(* releaseExpiredReservationLocks: expire requests the venue left          *)
(* unanswered, release no-shows, complete last night's guests.             *)

\* Handlers that clean up before they read: accept and the check-ins, and the
\* timer, which does nothing else.
CleanupBegin(h) ==
    /\ MayBegin(h)
    /\ \E o \in DOMAIN AfterCleanup :
          /\ IF h = Scheduler THEN o = "cleanup" ELSE o \in Ops
          /\ frame' = [frame EXCEPT ![h].op = o]
    /\ Goto(h, "expFind")
    /\ DatabaseUnchanged

\* Seeded fault: the unanswered ADVANCE requests are forgotten.
ConfirmationExpiredLiveOnly ==
    /\ status = "PENDING_VENUE_CONFIRMATION"
    /\ type = "LIVE"
    /\ IF confirmExp = NoTime THEN SlotEnd < now ELSE confirmExp < now

ConfirmationExpired ==
    /\ status = "PENDING_VENUE_CONFIRMATION"
    /\ \/ /\ type = "LIVE"
          /\ IF confirmExp = NoTime THEN SlotEnd < now ELSE confirmExp < now
       \/ type = "ADVANCE" /\ SlotStart <= now

ExpireFind(h) ==
    /\ pc[h] = "expFind"
    /\ Goto(h, IF ConfirmationExpired THEN "expWrite" ELSE "arrFind")
    /\ UNCHANGED frame
    /\ DatabaseUnchanged

\* Seeded fault: the authorization of an expired request is not voided.
ExpireWriteWithoutVoid(h) ==
    /\ pc[h] = "expWrite"
    /\ status' = "EXPIRED"
    /\ Goto(h, "arrFind")
    /\ UNCHANGED <<frame, now, bookingVars, refundCents, confirmExp, custIn, venueIn,
                   payVars, provVars, bookVars>>

ExpireWrite(h) ==
    /\ pc[h] = "expWrite"
    /\ status' = "EXPIRED"
    /\ Goto(h, "voidFind")
    /\ frame' = [frame EXCEPT ![h] = Call(@, "arrFind")]
    /\ UNCHANGED <<now, bookingVars, refundCents, confirmExp, custIn, venueIn,
                   payVars, provVars, bookVars>>

ArrivalLockExpired ==
    /\ type = "ADVANCE"
    /\ status \in Accepted
    /\ ~venueIn /\ ~custIn
    /\ SlotStart - OpensBefore <= now
    /\ EffectiveCustomerCheckInWindow(type, createdAt).closes <= now

ArrivalFind(h) ==
    /\ pc[h] = "arrFind"
    /\ IF ArrivalLockExpired
       THEN /\ Goto(h, "arrWrite")
            /\ frame' = [frame EXCEPT ![h].amt = NoShowRefundCents(type, custIn, venueIn)]
       ELSE Goto(h, "nightFind") /\ UNCHANGED frame
    /\ DatabaseUnchanged

ArrivalWrite(h) ==
    /\ pc[h] = "arrWrite"
    /\ status' = "NO_SHOW"
    /\ refundCents' = frame[h].amt
    /\ Goto(h, "refundFind")
    /\ frame' = [frame EXCEPT ![h] = Call(@, "nightFind")]
    /\ UNCHANGED <<now, bookingVars, confirmExp, custIn, venueIn, payVars, provVars, bookVars>>

NightLockExpired == status \in Seated /\ NightLockUntil(custIn) <= now

CleanupDone(h) ==
    LET next == AfterCleanup[frame[h].op]
    IN  IF next = "idle" THEN Finish(h) ELSE Goto(h, next) /\ UNCHANGED frame

NightFind(h) ==
    /\ pc[h] = "nightFind"
    /\ IF NightLockExpired THEN Goto(h, "nightWrite") /\ UNCHANGED frame ELSE CleanupDone(h)
    /\ DatabaseUnchanged

NightWrite(h) ==
    /\ pc[h] = "nightWrite"
    /\ status' = "COMPLETED"
    /\ CleanupDone(h)
    /\ UNCHANGED <<now, bookingVars, refundCents, confirmExp, custIn, venueIn,
                   payVars, provVars, bookVars>>

-----------------------------------------------------------------------------
(* createReservationCheckout, with a redirect or with a saved card.        *)

\* Seeded fault: a captured payment does not stop a second checkout.
CheckoutBeginAgain(h, o) ==
    /\ o \in {"checkout", "payStored"}
    /\ status \notin Terminal
    /\ LatestIn({"AUTH_PENDING", "AUTHORIZED"}) = NoPayment
    /\ BeginAt(h, o, "checkoutProvider", IdleFrame)
    /\ DatabaseUnchanged

CheckoutBegin(h, o) ==
    /\ o \in {"checkout", "payStored"}
    /\ status \notin Terminal
    /\ LatestIn({"AUTH_PENDING", "AUTHORIZED", "CAPTURED"}) = NoPayment
    /\ BeginAt(h, o, "checkoutProvider", IdleFrame)
    /\ DatabaseUnchanged

\* Saferpay opens a payment page, or authorizes the saved card at once; an
\* answer that is lost leaves a transaction no row will ever refer to.
CheckoutProvider(h) ==
    /\ pc[h] = "checkoutProvider"
    /\ \/ \E p \in Payments :
            /\ prov[p] = "NONE"
            /\ prov' = [prov EXCEPT ![p] =
                          IF frame[h].op = "checkout" THEN "OPEN" ELSE "AUTHORIZED"]
            /\ \/ Goto(h, "checkoutCreate") /\ frame' = [frame EXCEPT ![h].pay = p]
               \/ "timeout" \in Faults /\ Finish(h)
       \/ "reject" \in Faults /\ Finish(h) /\ UNCHANGED prov
       \* every identity of Payments is used: the bound of the model
       \/ (\A p \in Payments : prov[p] # "NONE") /\ Finish(h) /\ UNCHANGED prov
    /\ UNCHANGED <<now, bookingVars, resVars, payVars, provRefunded, bookVars>>

CheckoutCreate(h) ==
    /\ pc[h] = "checkoutCreate"
    /\ LET p == frame[h].pay
       IN  /\ rows' = Append(rows, p)
           /\ payStatus' = [payStatus EXCEPT ![p] = "AUTH_PENDING"]
           /\ checkouts' = IF frame[h].op = "checkout" THEN checkouts \cup {p} ELSE checkouts
    /\ status' = "REQUESTED"
    /\ confirmExp' = NoTime
    /\ IF frame[h].op = "checkout" THEN Finish(h) ELSE Goto(h, "claim") /\ UNCHANGED frame
    /\ UNCHANGED <<now, bookingVars, refundCents, custIn, venueIn, captured, refunded,
                   provVars, bookVars>>

\* The guest completes the payment page, whatever became of the reservation.
GuestPays(p) ==
    /\ prov[p] = "OPEN"
    /\ prov' = [prov EXCEPT ![p] = "AUTHORIZED"]
    /\ UNCHANGED <<now, bookingVars, resVars, payVars, provRefunded, bookVars, handlerVars>>

-----------------------------------------------------------------------------
(* assertReservationCheckout and handleWorldlineWebhook.                   *)

AssertBegin(h) ==
    /\ BeginAt(h, "assert", "assertRead", IdleFrame)
    /\ DatabaseUnchanged

\* A notification names one pending row, but the assertion that follows reads
\* the reservation's latest row again.
NotifyBegin(h, p) ==
    /\ payStatus[p] = "AUTH_PENDING" /\ p \in checkouts
    /\ BeginAt(h, "notify", "assertRead", [IdleFrame EXCEPT !.event = p])
    /\ DatabaseUnchanged

AfterAssert(h) ==
    IF frame[h].op = "notify" THEN Goto(h, "recordEvent") /\ UNCHANGED frame ELSE Finish(h)

AssertRead(h) ==
    /\ pc[h] = "assertRead"
    /\ LET p == LatestIn(PayStatuses)
       IN  IF p = NoPayment THEN Finish(h)
           ELSE IF payStatus[p] # "AUTH_PENDING" THEN AfterAssert(h)
           ELSE IF p \notin checkouts THEN Finish(h)
           ELSE Goto(h, "assertProvider") /\ frame' = [frame EXCEPT ![h].pay = p]
    /\ DatabaseUnchanged

\* Seeded fault: the answer of PaymentPage/Assert is not looked at.
AssertProviderUnread(h) ==
    /\ pc[h] = "assertProvider"
    /\ Goto(h, "claim") /\ UNCHANGED frame
    /\ DatabaseUnchanged

AssertProvider(h) ==
    /\ pc[h] = "assertProvider"
    /\ \/ prov[frame[h].pay] = "AUTHORIZED" /\ Goto(h, "claim") /\ UNCHANGED frame
       \/ /\ prov[frame[h].pay] # "AUTHORIZED" \/ Faults \cap {"reject", "timeout"} # {}
          /\ Finish(h)
    /\ DatabaseUnchanged

\* Seeded fault: the claim overwrites whatever status the row has.
ClaimUnguarded(h) ==
    /\ pc[h] = "claim"
    /\ payStatus' = [payStatus EXCEPT ![frame[h].pay] = "AUTHORIZED"]
    /\ status' = "PENDING_VENUE_CONFIRMATION"
    /\ confirmExp' = now + ConfirmWindow
    /\ AfterAssert(h)
    /\ UNCHANGED <<now, bookingVars, refundCents, custIn, venueIn, rows, captured, refunded,
                   checkouts, provVars, bookVars>>

\* markPaymentAuthorized: claims a pending authorization, once.
Claim(h) ==
    /\ pc[h] = "claim"
    /\ LET p == frame[h].pay
       IN  IF payStatus[p] = "AUTH_PENDING"
           THEN /\ payStatus' = [payStatus EXCEPT ![p] = "AUTHORIZED"]
                /\ status' = "PENDING_VENUE_CONFIRMATION"
                /\ confirmExp' = now + ConfirmWindow
           ELSE UNCHANGED <<payStatus, status, confirmExp>>
    /\ AfterAssert(h)
    /\ UNCHANGED <<now, bookingVars, refundCents, custIn, venueIn, rows, captured, refunded,
                   checkouts, provVars, bookVars>>

RecordEvent(h) ==
    /\ pc[h] = "recordEvent"
    /\ verified' = verified \cup {frame[h].event}
    /\ Finish(h)
    /\ UNCHANGED <<now, bookingVars, resVars, payVars, provVars, ledger, invoice>>

-----------------------------------------------------------------------------
(* acceptReservation, after its cleanup.                                   *)

AcceptRead(h) ==
    /\ pc[h] = "acceptRead"
    /\ IF status # "PENDING_VENUE_CONFIRMATION" THEN Finish(h)
       ELSE IF \/ type = "ADVANCE" /\ SlotStart <= now
               \/ type = "LIVE" /\ confirmExp # NoTime /\ confirmExp < now
            THEN Goto(h, "acceptExpire") /\ UNCHANGED frame
       ELSE \/ Goto(h, "captureFind") /\ UNCHANGED frame
            \/ Finish(h)         \* another reservation holds the table: Conflict
    /\ DatabaseUnchanged

AcceptExpire(h) ==
    /\ pc[h] = "acceptExpire"
    /\ status' = "EXPIRED"
    /\ confirmExp' = IF type = "ADVANCE" THEN NoTime ELSE confirmExp
    /\ Goto(h, "voidFind")
    /\ UNCHANGED <<frame, now, bookingVars, refundCents, custIn, venueIn,
                   payVars, provVars, bookVars>>

AcceptWrite(h) ==
    /\ pc[h] = "acceptWrite"
    /\ status' = IF type = "LIVE" THEN "CHECK_IN_PENDING" ELSE "CONFIRMED"
    /\ custIn' = (custIn \/ type = "LIVE")
    /\ confirmExp' = NoTime
    /\ Finish(h)
    /\ UNCHANGED <<now, bookingVars, refundCents, venueIn, payVars, provVars, bookVars>>

\* declineReservation; declineCompetingPendingReservations takes the same three
\* steps when another reservation wins the table.
DeclineBegin(h) ==
    /\ status = "PENDING_VENUE_CONFIRMATION"
    /\ BeginAt(h, "decline", "declineWrite", IdleFrame)
    /\ DatabaseUnchanged

DeclineWrite(h) ==
    /\ pc[h] = "declineWrite"
    /\ status' = "DECLINED"
    /\ confirmExp' = NoTime
    /\ Goto(h, "voidFind")
    /\ UNCHANGED <<frame, now, bookingVars, refundCents, custIn, venueIn,
                   payVars, provVars, bookVars>>

-----------------------------------------------------------------------------
(* captureForAcceptedReservation.                                          *)

CaptureFind(h) ==
    /\ pc[h] = "captureFind"
    /\ LET p == LatestIn({"AUTHORIZED"})
       IN  IF p = NoPayment
           THEN Goto(h, "acceptWrite") /\ UNCHANGED frame
           ELSE Goto(h, "captureMark") /\ frame' = [frame EXCEPT ![h].pay = p]
    /\ DatabaseUnchanged

CaptureMark(h) == SetPayStatus(h, "captureMark", "CAPTURE_PENDING", "captureProvider")

CaptureProvider(h) ==
    /\ pc[h] = "captureProvider"
    /\ LET p == frame[h].pay
       IN  \/ /\ prov[p] = "AUTHORIZED"
              /\ prov' = [prov EXCEPT ![p] = "CAPTURED"]
              /\ \/ Goto(h, "captureTx") /\ UNCHANGED frame
                 \/ "timeout" \in Faults /\ Finish(h)
           \/ /\ prov[p] # "AUTHORIZED" \/ "reject" \in Faults
              /\ Finish(h) /\ UNCHANGED prov
    /\ UNCHANGED <<now, bookingVars, resVars, payVars, provRefunded, bookVars>>

\* createCaptureLedgerEntries adds the capture entries whose type is missing.
CaptureEntries(l, allocation) ==
    LET amount(t) == CASE t = "CUSTOMER_CAPTURE" -> Fee
                       [] t = "CHIN_CHIN_FEE"    -> allocation.fee
                       [] t = "VENUE_SHARE"      -> allocation.share
        missing == CaptureTypes \ l.types
    IN  [types |-> l.types \cup CaptureTypes,
         sum   |-> [t \in EntryTypes |-> IF t \in missing THEN l.sum[t] + amount(t)
                                                          ELSE l.sum[t]]]

InvoiceStatus(paid, returned) ==
    IF returned >= paid THEN "REFUNDED"
    ELSE IF returned > 0 THEN "PARTIALLY_REFUNDED"
    ELSE "ISSUED"

\* One transaction.  Whether this is the guest's first reservation at the venue
\* depends on rows of other reservations.
CaptureTx(h) ==
    /\ pc[h] = "captureTx"
    /\ LET p == frame[h].pay
       IN  /\ payStatus' = [payStatus EXCEPT ![p] = "CAPTURED"]
           /\ captured' = [captured EXCEPT ![p] = Fee]
           /\ \E isFirst \in BOOLEAN :
                 ledger' = [ledger EXCEPT ![p] =
                              CaptureEntries(@, ReservationAllocation(Fee, isFirst))]
           /\ invoice' = [invoice EXCEPT ![p] =
                            IF Fee <= 0 THEN @ ELSE InvoiceStatus(Fee, refunded[p])]
    /\ Goto(h, "acceptWrite")
    /\ UNCHANGED <<frame, now, bookingVars, resVars, rows, refunded, checkouts, provVars, verified>>

-----------------------------------------------------------------------------
(* voidForInactiveReservation.                                             *)

\* Seeded fault: only authorized rows are voided, pending ones stay.
VoidFindAuthorized(h) ==
    /\ pc[h] = "voidFind"
    /\ LET p == LatestIn({"AUTHORIZED"})
       IN  IF p = NoPayment THEN Return(h)
           ELSE Goto(h, "voidMark") /\ frame' = [frame EXCEPT ![h].pay = p]
    /\ DatabaseUnchanged

VoidFind(h) ==
    /\ pc[h] = "voidFind"
    /\ LET p == LatestIn({"AUTH_PENDING", "AUTHORIZED"})
       IN  IF p = NoPayment THEN Return(h)
           ELSE /\ Goto(h, IF payStatus[p] = "AUTH_PENDING" THEN "voidLocal" ELSE "voidMark")
                /\ frame' = [frame EXCEPT ![h].pay = p]
    /\ DatabaseUnchanged

\* The payment page stays open at Saferpay.
VoidLocal(h) == SetPayStatus(h, "voidLocal", "VOIDED", "voidLedger")
VoidMark(h)  == SetPayStatus(h, "voidMark", "VOID_PENDING", "voidProvider")
VoidWrite(h) == SetPayStatus(h, "voidWrite", "VOIDED", "voidLedger")

VoidProvider(h) ==
    /\ pc[h] = "voidProvider"
    /\ LET p == frame[h].pay
       IN  \/ /\ prov[p] = "AUTHORIZED"
              /\ prov' = [prov EXCEPT ![p] = "CANCELLED"]
              /\ \/ Goto(h, "voidWrite") /\ UNCHANGED frame
                 \/ "timeout" \in Faults /\ Finish(h)
           \/ /\ prov[p] # "AUTHORIZED" \/ "reject" \in Faults
              /\ Finish(h) /\ UNCHANGED prov
    /\ UNCHANGED <<now, bookingVars, resVars, payVars, provRefunded, bookVars>>

AddEntry(l, t, signedCents) ==
    [types |-> l.types \cup {t}, sum |-> [l.sum EXCEPT ![t] = @ + signedCents]]

VoidLedger(h) ==
    /\ pc[h] = "voidLedger"
    /\ ledger' = [ledger EXCEPT ![frame[h].pay] = AddEntry(@, "PAYMENT_VOID", -Fee)]
    /\ Return(h)
    /\ UNCHANGED <<now, bookingVars, resVars, payVars, provVars, invoice, verified>>

-----------------------------------------------------------------------------
(* refundCapturedReservation: `amt` of the frame is what the caller asks   *)
(* for, then what is left to refund of it.                                 *)

RefundFind(h) ==
    /\ pc[h] = "refundFind"
    /\ LET p    == LatestIn({"CAPTURED", "PARTIALLY_REFUNDED"})
           next == SmallerOf(frame[h].amt, captured[p] - refunded[p])
       IN  IF frame[h].amt <= 0 \/ p = NoPayment THEN Return(h)
           ELSE IF next <= 0 THEN Return(h)
           ELSE /\ Goto(h, "refundMark")
                /\ frame' = [frame EXCEPT ![h] = [@ EXCEPT !.pay = p, !.amt = next,
                                                           !.snap = refunded[p]]]
    /\ DatabaseUnchanged

\* Seeded fault: the row is not marked before Saferpay is called.
RefundMarkNothing(h) == SetPayStatus(h, "refundMark", payStatus[frame[h].pay], "refundProvider")

RefundMark(h) == SetPayStatus(h, "refundMark", "REFUND_PENDING", "refundProvider")

\* Saferpay returns at most what it captured.
RefundProvider(h) ==
    /\ pc[h] = "refundProvider"
    /\ LET p       == frame[h].pay
           allowed == prov[p] = "CAPTURED" /\ provRefunded[p] + frame[h].amt <= Fee
       IN  \/ /\ allowed
              /\ provRefunded' = [provRefunded EXCEPT ![p] = @ + frame[h].amt]
              /\ \/ Goto(h, "refundTx") /\ UNCHANGED frame
                 \/ "timeout" \in Faults /\ Finish(h)
           \/ /\ ~allowed \/ "reject" \in Faults
              /\ Finish(h) /\ UNCHANGED provRefunded
    /\ UNCHANGED <<now, bookingVars, resVars, payVars, prov, bookVars>>

\* Seeded fault: each refund takes back its own split, instead of adjusting what
\* the parties hold to what is retained.
RefundAllocationEntriesByDelta(l, paid, returned) ==
    LET back  == CalculateAllocation(-l.sum["CUSTOMER_REFUND"], CommissionBps)
        first == CalculateAllocation(paid, CommissionBps)
    IN  [l EXCEPT !.sum["CHIN_CHIN_FEE"] = first.fee - back.fee,
                  !.sum["VENUE_SHARE"]   = first.share - back.share]

\* createRefundAllocationLedgerEntries: one entry per party whose share of what
\* is retained differs from what the ledger says it holds.
RefundAllocationEntries(l, paid, returned) ==
    LET target  == RefundAdjustedAllocation(paid, returned)
        current == CurrentLedgerAllocation(l.sum["CHIN_CHIN_FEE"], l.sum["VENUE_SHARE"])
        delta   == [t \in EntryTypes |-> CASE t = "CHIN_CHIN_FEE" -> target.fee - current.fee
                                           [] t = "VENUE_SHARE"   -> target.share - current.share
                                           [] OTHER               -> 0]
    IN  [types |-> l.types \cup {t \in EntryTypes : delta[t] # 0},
         sum   |-> [t \in EntryTypes |-> l.sum[t] + delta[t]]]

\* Seeded faults: the total is added to a row that holds its first part; it
\* forgets the earlier refunds; the reservation row is told the last refund only;
\* the invoice looks at it alone.
RefundTxBooking(h, total, promise, invoiced) ==
    /\ pc[h] = "refundTx"
    /\ LET p == frame[h].pay
       IN  /\ payStatus' = [payStatus EXCEPT ![p] =
                              IF total >= captured[p] THEN "REFUNDED" ELSE "PARTIALLY_REFUNDED"]
           /\ refunded' = [refunded EXCEPT ![p] = total]
           /\ ledger' = [ledger EXCEPT ![p] =
                           RefundAllocationEntries(
                               AddEntry(@, "CUSTOMER_REFUND", -frame[h].amt), captured[p], total)]
           /\ invoice' = [invoice EXCEPT ![p] =
                            IF invoiced >= captured[p] THEN "REFUNDED" ELSE "PARTIALLY_REFUNDED"]
           /\ refundCents' = promise
    /\ Return(h)
    /\ UNCHANGED <<now, bookingVars, status, confirmExp, custIn, venueIn, rows, captured,
                   checkouts, provVars, verified>>

RefundTxCumulative(h) ==
    LET total == refunded[frame[h].pay] + frame[h].snap + frame[h].amt
    IN  RefundTxBooking(h, total, total, total)
RefundTxForgetful(h) == RefundTxBooking(h, frame[h].amt, frame[h].amt, frame[h].amt)
RefundTxLastPromise(h) ==
    LET total == frame[h].snap + frame[h].amt IN RefundTxBooking(h, total, frame[h].amt, total)
RefundTxLastInvoice(h) ==
    LET total == frame[h].snap + frame[h].amt IN RefundTxBooking(h, total, total, frame[h].amt)

\* One transaction, computed from the row as refundFind read it.
RefundTx(h) ==
    /\ pc[h] = "refundTx"
    /\ LET p     == frame[h].pay
           total == frame[h].snap + frame[h].amt
       IN  /\ payStatus' = [payStatus EXCEPT ![p] =
                              IF total >= captured[p] THEN "REFUNDED" ELSE "PARTIALLY_REFUNDED"]
           /\ refunded' = [refunded EXCEPT ![p] = total]
           /\ ledger' = [ledger EXCEPT ![p] =
                           RefundAllocationEntries(
                               AddEntry(@, "CUSTOMER_REFUND", -frame[h].amt), captured[p], total)]
           /\ invoice' = [invoice EXCEPT ![p] =
                            IF @ = "NONE" THEN @
                            ELSE IF total >= captured[p] THEN "REFUNDED" ELSE "PARTIALLY_REFUNDED"]
           /\ refundCents' = total
    /\ Return(h)
    /\ UNCHANGED <<now, bookingVars, status, confirmExp, custIn, venueIn, rows, captured,
                   checkouts, provVars, verified>>

-----------------------------------------------------------------------------
(* Cancellations: the reservation row first, then the money.               *)

\* Seeded fault: whoever is refunded has nothing voided.
PayBackOrVoid(h, cents) ==
    /\ Goto(h, IF cents > 0 THEN "refundFind" ELSE "voidFind")
    /\ UNCHANGED frame

PayBackAndVoid(h, cents) ==
    IF cents > 0
    THEN Goto(h, "refundFind") /\ frame' = [frame EXCEPT ![h] = Call(@, "voidFind")]
    ELSE Goto(h, "voidFind") /\ UNCHANGED frame

CustomerCancelBegin(h) ==
    /\ status \notin Terminal \cup Seated
    /\ now < SlotStart
    /\ BeginAt(h, "cancelByCustomer", "customerCancelWrite",
               [IdleFrame EXCEPT !.amt =
                   IF status \in {"REQUESTED", "PENDING_VENUE_CONFIRMATION"} THEN 0
                   ELSE CustomerCancellationRefundCents(status, custIn, now)])
    /\ DatabaseUnchanged

CustomerCancelWrite(h) ==
    /\ pc[h] = "customerCancelWrite"
    /\ status' = "CANCELLED_BY_USER"
    /\ refundCents' = frame[h].amt
    /\ confirmExp' = NoTime
    /\ PayBackAndVoid(h, frame[h].amt)
    /\ UNCHANGED <<now, bookingVars, custIn, venueIn, payVars, provVars, bookVars>>

\* A venue that used up its weekly cancellations is refused; the count is over
\* rows of other reservations, so the refusal is always possible.
VenueCancelBegin(h) ==
    /\ status \notin Terminal \cup {"PENDING_VENUE_CONFIRMATION"}
    /\ BeginAt(h, "cancelByVenue", "venueCancelWrite", [IdleFrame EXCEPT !.amt = Fee])
    /\ DatabaseUnchanged

VenueCancelWrite(h) ==
    /\ pc[h] = "venueCancelWrite"
    /\ status' = "CANCELLED"
    /\ refundCents' = Fee
    /\ confirmExp' = NoTime
    /\ PayBackAndVoid(h, frame[h].amt)
    /\ UNCHANGED <<now, bookingVars, custIn, venueIn, payVars, provVars, bookVars>>

-----------------------------------------------------------------------------
(* Check-in by the venue, the guest, an admin for either.                  *)

CheckInWrite(h, label, new) ==
    /\ pc[h] = label
    /\ status' = new
    /\ IF new = "CHECKED_IN"
       THEN venueIn' = TRUE /\ confirmExp' = NoTime /\ UNCHANGED custIn
       ELSE custIn' = TRUE /\ UNCHANGED <<venueIn, confirmExp>>
    /\ Finish(h)
    /\ UNCHANGED <<now, bookingVars, refundCents, payVars, provVars, bookVars>>

CheckInIf(h, label, allowed, write) ==
    /\ pc[h] = label
    /\ IF allowed THEN Goto(h, write) /\ UNCHANGED frame ELSE Finish(h)
    /\ DatabaseUnchanged

CheckInRead(h) ==
    CheckInIf(h, "checkInRead", status \in Accepted /\ SlotStart <= now, "checkInWrite")

CustomerCheckInRead(h) ==
    LET window == EffectiveCustomerCheckInWindow(type, createdAt)
        opens  == SmallerOf(window.opens, window.closes)
    IN  CheckInIf(h, "customerCheckInRead",
                  status \in Accepted /\ ~custIn /\ now \in opens..window.closes,
                  "customerCheckInWrite")

AdminCustomerCheckInRead(h) ==
    CheckInIf(h, "adminCustomerCheckInRead", status \notin Terminal, "adminCustomerCheckInWrite")

AdminVenueCheckInRead(h) ==
    CheckInIf(h, "adminVenueCheckInRead", status \notin Terminal, "adminVenueCheckInWrite")

CheckIn(h) ==
    \/ CheckInRead(h)
    \/ CheckInWrite(h, "checkInWrite", "CHECKED_IN")
    \/ CustomerCheckInRead(h)
    \/ CheckInWrite(h, "customerCheckInWrite", "CHECK_IN_PENDING")
    \/ AdminCustomerCheckInRead(h)
    \/ CheckInWrite(h, "adminCustomerCheckInWrite", "CHECK_IN_PENDING")
    \/ AdminVenueCheckInRead(h)
    \/ CheckInWrite(h, "adminVenueCheckInWrite", "CHECKED_IN")

-----------------------------------------------------------------------------
(* Problem reports and administration.                                     *)

\* createVenueRefundRequest with releaseNoShowTable: the write is guarded.
NoShowReportBegin(h) ==
    /\ status \in Accepted
    /\ SlotStart + ReportDelay <= now
    /\ BeginAt(h, "noShowReport", "noShowWrite", IdleFrame)
    /\ DatabaseUnchanged

NoShowReportWrite(h) ==
    /\ pc[h] = "noShowWrite"
    /\ status' = IF status \in Accepted THEN "NO_SHOW" ELSE status
    /\ Finish(h)
    /\ UNCHANGED <<now, bookingVars, refundCents, confirmExp, custIn, venueIn,
                   payVars, provVars, bookVars>>

\* markVenueProblemReportRefundedByChinChin with an amount: one guarded write.
ProblemResolved(h) ==
    /\ MayBegin(h) /\ h \in Requests /\ "problemResolved" \in Ops
    /\ status \in Accepted
    /\ status' = "RELEASED"
    /\ UNCHANGED <<now, bookingVars, refundCents, confirmExp, custIn, venueIn,
                   payVars, provVars, bookVars, handlerVars>>

\* adminManualRefund to the customer; a customer problem report answered with
\* an amount takes the same steps.  The amount checked here is checked again
\* by refundFind, on a row that may have moved.
AdminRefundBegin(h) ==
    /\ LET p == LatestIn({"CAPTURED", "PARTIALLY_REFUNDED"})
       IN  /\ p # NoPayment
           /\ \E asked \in RefundAmounts :
                 LET cents == SmallerOf(asked, captured[p] - refunded[p])
                 IN  /\ cents > 0
                     /\ BeginAt(h, "adminRefund", "refundFind",
                                [IdleFrame EXCEPT !.amt = cents, !.ret = "cancelWrite"])
    /\ DatabaseUnchanged

CancelRow(h) ==
    /\ status' = "CANCELLED"
    /\ confirmExp' = NoTime
    /\ UNCHANGED <<now, bookingVars, refundCents, custIn, venueIn, payVars, provVars, bookVars>>

AdminRefundCancel(h) == pc[h] = "cancelWrite" /\ CancelRow(h) /\ Finish(h)

\* adminCancelReservation: any status, and no payment is looked at.
AdminCancel(h) ==
    /\ MayBegin(h) /\ h \in Requests /\ "adminCancel" \in Ops
    /\ CancelRow(h)
    /\ UNCHANGED handlerVars

\* updateReservationStatus: any status to any status, no payment is looked at;
\* the refund it promises is computed from the row it read.
SetStatusBegin(h) ==
    /\ \E target \in AdminTargets :
          BeginAt(h, "setStatus", "setStatusWrite",
                  [IdleFrame EXCEPT
                      !.target = target,
                      !.amt    = CASE target \in {"CANCELLED", "CANCELLED_BY_USER"} ->
                                        RefundForCancellation(type, status)
                                   [] target = "NO_SHOW" ->
                                        NoShowRefundCents(type, custIn, venueIn)
                                   [] OTHER -> 0])
    /\ DatabaseUnchanged

SetStatusWrite(h) ==
    /\ pc[h] = "setStatusWrite"
    /\ LET target == frame[h].target
       IN  /\ status' = target
           /\ refundCents' = IF target \in {"CANCELLED", "CANCELLED_BY_USER", "NO_SHOW"}
                             THEN frame[h].amt ELSE refundCents
           /\ confirmExp' = IF target \in {"CONFIRMED", "DECLINED", "EXPIRED"}
                            THEN NoTime ELSE confirmExp
           /\ venueIn' = (venueIn \/ target \in Seated)
    /\ Finish(h)
    /\ UNCHANGED <<now, bookingVars, custIn, payVars, provVars, bookVars>>

-----------------------------------------------------------------------------
(* The process can die between any two steps; nothing resumes a handler.   *)

Crash(h) ==
    /\ "crash" \in Faults
    /\ ~Idle(h)
    /\ Finish(h)
    /\ DatabaseUnchanged

\* Time goes on to MaxTime, and beyond it while the venue still has time to
\* answer, so that no window stays open because the model's clock stopped.
Tick ==
    /\ now < MaxTime \/ now <= confirmExp
    /\ now' = now + 1
    /\ UNCHANGED <<bookingVars, resVars, payVars, provVars, bookVars, handlerVars>>

-----------------------------------------------------------------------------

\* createReservation has made the row; no payment exists yet.
Init ==
    /\ createdAt \in BookingTimes /\ now = createdAt
    /\ type \in BookableTypes
    /\ status = "REQUESTED"
    /\ refundCents = 0
    /\ confirmExp = NoTime
    /\ custIn = FALSE /\ venueIn = FALSE
    /\ rows = <<>>
    /\ payStatus = [p \in Payments |-> "NONE"]
    /\ captured = [p \in Payments |-> 0]
    /\ refunded = [p \in Payments |-> 0]
    /\ checkouts = {}
    /\ prov = [p \in Payments |-> "NONE"]
    /\ provRefunded = [p \in Payments |-> 0]
    /\ ledger = [p \in Payments |-> EmptyLedger]
    /\ invoice = [p \in Payments |-> "NONE"]
    /\ verified = {}
    /\ pc = [h \in Handlers |-> "idle"]
    /\ frame = [h \in Handlers |-> IdleFrame]

Begin(h) ==
    \/ CleanupBegin(h)
    \/ CheckoutBegin(h, "checkout")
    \/ CheckoutBegin(h, "payStored")
    \/ AssertBegin(h)
    \/ \E p \in Payments : NotifyBegin(h, p)
    \/ DeclineBegin(h)
    \/ CustomerCancelBegin(h)
    \/ VenueCancelBegin(h)
    \/ NoShowReportBegin(h)
    \/ ProblemResolved(h)
    \/ AdminRefundBegin(h)
    \/ AdminCancel(h)
    \/ SetStatusBegin(h)

Cleanup(h) ==
    \/ ExpireFind(h)  \/ ExpireWrite(h)
    \/ ArrivalFind(h) \/ ArrivalWrite(h)
    \/ NightFind(h)   \/ NightWrite(h)

Authorize(h) ==
    \/ CheckoutProvider(h) \/ CheckoutCreate(h)
    \/ AssertRead(h) \/ AssertProvider(h) \/ Claim(h) \/ RecordEvent(h)

Accept(h)  == AcceptRead(h) \/ AcceptExpire(h) \/ AcceptWrite(h)
Capture(h) == CaptureFind(h) \/ CaptureMark(h) \/ CaptureProvider(h) \/ CaptureTx(h)
Void(h)    == VoidFind(h) \/ VoidLocal(h) \/ VoidMark(h) \/ VoidProvider(h) \/ VoidWrite(h)
              \/ VoidLedger(h)
Refund(h)  == RefundFind(h) \/ RefundMark(h) \/ RefundProvider(h) \/ RefundTx(h)
Cancel(h)  == DeclineWrite(h) \/ CustomerCancelWrite(h) \/ VenueCancelWrite(h)
              \/ NoShowReportWrite(h) \/ AdminRefundCancel(h) \/ SetStatusWrite(h)

Step(h) ==
    \/ Cleanup(h) \/ Authorize(h) \/ Accept(h) \/ Capture(h)
    \/ Void(h) \/ Refund(h) \/ Cancel(h) \/ CheckIn(h)

Next ==
    \/ \E h \in Handlers : Begin(h) \/ Step(h) \/ Crash(h)
    \/ \E p \in Payments : GuestPays(p)
    \/ Tick

Spec == Init /\ [][Next]_vars

\* Timers fire and answered promises resume: a handler in flight goes on, the
\* cleanup starts again and again however busy the requests keep the process,
\* and the clock advances.  No request is ever owed, and no guest has to pay.
Fairness ==
    /\ \A h \in Handlers : WF_vars(Step(h))
    /\ SF_vars(CleanupBegin(Scheduler))
    /\ WF_vars(Tick)

FairSpec == Spec /\ Fairness

-----------------------------------------------------------------------------
(* Properties that hold however handlers interleave, fail and die.         *)

AtRest == Active = {}

\* Once a capture is booked, what the ledger credits to Chin-Chin and to the
\* venue is what the guest paid less what was refunded, and neither party is
\* ever in debt to the other: captures, refunds and their corrections add up in
\* whatever order the accepting and refunding handlers commit.
LedgerBalanced ==
    \A p \in Payments :
        LET sum == ledger[p].sum
        IN  /\ sum["CUSTOMER_CAPTURE"] = captured[p]
            /\ sum["CHIN_CHIN_FEE"] + sum["VENUE_SHARE"] = captured[p] - refunded[p]
            /\ sum["CHIN_CHIN_FEE"] >= 0 /\ sum["VENUE_SHARE"] >= 0

\* The customer's invoice tells the same story as the payment row: issued,
\* partially refunded or refunded, also when a second capture or a second
\* refund of the same payment commits late.
InvoiceAgrees ==
    \A p \in Payments :
        captured[p] > 0 => invoice[p] = InvoiceStatus(captured[p], refunded[p])

\* No row is ahead of Saferpay: an AUTHORIZED row has a live authorization
\* behind it, a row that counts as captured has captured money behind it, and
\* no refund is booked that Saferpay did not return.
BackedByProvider ==
    \A p \in Payments :
        /\ payStatus[p] = "AUTHORIZED" => prov[p] = "AUTHORIZED"
        /\ payStatus[p] \in {"CAPTURED", "REFUND_PENDING", "PARTIALLY_REFUNDED", "REFUNDED"}
              => prov[p] = "CAPTURED"
        /\ refunded[p] <= provRefunded[p]

\* README: repeated or concurrent authorization cannot reset a captured or
\* refunded payment.  Whatever is replayed, a row leaves AUTH_PENDING once, and
\* the venue is asked again only together with such a fresh authorization.
AuthorizedOnce ==
    [][/\ \A p \in Payments :
              payStatus'[p] = "AUTHORIZED" => payStatus[p] \in {"AUTH_PENDING", "AUTHORIZED"}
       /\ \A p \in Payments :
              payStatus'[p] = "AUTH_PENDING" => payStatus[p] \in {"NONE", "AUTH_PENDING"}
       /\ status' = "PENDING_VENUE_CONFIRMATION" /\ status # "PENDING_VENUE_CONFIRMATION"
              => \E p \in Payments : payStatus[p] = "AUTH_PENDING" /\ payStatus'[p] = "AUTHORIZED"
      ]_vars

-----------------------------------------------------------------------------
(* Properties of requests served one at a time.                            *)

\* Books and provider agree to the cent once no handler is under way: what the
\* row, the ledger and Saferpay say was refunded, and what was captured.
BooksExact ==
    AtRest =>
        \A p \in Payments :
            /\ refunded[p] = provRefunded[p]
            /\ ledger[p].sum["CUSTOMER_REFUND"] = -refunded[p]
            /\ (captured[p] > 0) <=> (prov[p] = "CAPTURED")

\* A reservation that is over holds no guest's money: every row of it has been
\* voided, or captured and then settled.
FundsReleased ==
    AtRest /\ status \in Terminal =>
        \A p \in Payments :
            payStatus[p] \in {"NONE", "VOIDED", "CAPTURED", "PARTIALLY_REFUNDED", "REFUNDED"}

\* A table is given away only for money that was really captured and kept, and
\* no guest is charged through two rows.
ConfirmedIsPaid ==
    AtRest =>
        /\ status \in Accepted \cup Seated \cup {"COMPLETED"}
              => \E p \in Payments : payStatus[p] = "CAPTURED" /\ provRefunded[p] = 0
        /\ \A p, q \in Payments : captured[p] > 0 /\ captured[q] > 0 => p = q

\* The refund the reservation row promises is the refund the guest received.
PromiseKept ==
    AtRest /\ status \in {"CANCELLED", "CANCELLED_BY_USER", "NO_SHOW"} =>
        \A p \in Payments : captured[p] > 0 => provRefunded[p] = refundCents

\* With a provider that refuses calls or whose answers get lost, nothing is
\* repaired, but nothing is hidden either: wherever the three properties above
\* fail, a row is left in the CAPTURE_PENDING, VOID_PENDING or REFUND_PENDING
\* its handler died in, for support to reconcile with Saferpay.
FailureLeavesTrace ==
    AtRest =>
        /\ status \in Terminal =>
              \A p \in Payments : payStatus[p] \notin {"AUTH_PENDING", "AUTHORIZED"}
        /\ status \in Accepted \cup Seated \cup {"COMPLETED"} =>
              \E p \in Payments :
                  payStatus[p] \in {"CAPTURED", "CAPTURE_PENDING", "REFUND_PENDING"}
        /\ status \in {"CANCELLED", "CANCELLED_BY_USER", "NO_SHOW"} =>
              \A p \in Payments : captured[p] > 0 =>
                  provRefunded[p] = refundCents \/ payStatus[p] = "REFUND_PENDING"

\* A process that dies between a provider call and the transaction that books
\* it leaves the row saying so: wherever Saferpay captured, cancelled or returned
\* something the books do not show, the row is still in the pending status that
\* was written before the call.  (A saved-card authorization is the exception:
\* its row is created after the call, and dies with the handler.)
DivergenceMarked ==
    AtRest =>
        \A p \in Payments :
            /\ prov[p] = "CAPTURED" /\ captured[p] = 0 => payStatus[p] = "CAPTURE_PENDING"
            /\ prov[p] = "CANCELLED" => payStatus[p] \in {"VOID_PENDING", "VOIDED"}
            /\ provRefunded[p] # refunded[p] => payStatus[p] = "REFUND_PENDING"

-----------------------------------------------------------------------------
(* What the repository says of itself, and the code does not do.           *)

\* Comment in markPaymentAuthorized: "A repeated/concurrent callback must not
\* reopen a reservation".  The claim tests the payment's status and never the
\* reservation's, so a callback that overlaps a cancellation does reopen it.
CallbackNeverReopens ==
    [][(status \in Terminal) => status' # "PENDING_VENUE_CONFIRMATION"]_vars

\* README: the server verifies the notified payment with PaymentPage/Assert
\* before it records SAFERPAY_AUTHORIZATION_VERIFIED for it.  The handler asserts
\* whatever row of the reservation is the latest, and records the notified one.
VerifiedWasPaid == \A p \in verified : prov[p] # "OPEN"

-----------------------------------------------------------------------------
(* Liveness. *)

\* A request the venue never answers does not stay pending: the cleanup expires
\* it, in spite of requests that run into it.
RequestResolved ==
    status = "PENDING_VENUE_CONFIRMATION" ~> status # "PENDING_VENUE_CONFIRMATION"

\* An authorization is settled: captured by an acceptance or given back.
AuthorizationSettled ==
    \A p \in Payments : payStatus[p] = "AUTHORIZED" ~> payStatus[p] \in {"CAPTURED", "VOIDED"}
=============================================================================

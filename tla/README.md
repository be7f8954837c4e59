# A verification project for the Chin-Chin backend

The Chin-Chin backend (`src/`, NestJS, Prisma/PostgreSQL, Saferpay) lets guests reserve tables
in venues against a fee. This directory holds TLA+ models of the parts of it whose behaviour
depends on order, time and failure, the TLC configurations that check them on small instances,
and proofs, checked by TLAPS, of what holds for every instance.

Contents: [Inventory](#inventory) · [How handlers are modelled](#how-handlers-are-modelled) ·
[Modules](#modules) · [Runs](#runs) · [Bounds](#bounds) · [Fairness](#fairness) ·
[Proofs](#proofs) · [Findings](#findings) · [Not modelled](#not-modelled)

## Inventory

| component | source | state it keeps | operations |
|---|---|---|---|
| reservation lifecycle | `reservations/reservations.service.ts` | `Reservation` row: status, promised refund, confirmation deadline, check-in times | create, accept, decline, cancel (guest, venue, admin), check in (guest, venue, admin), set status |
| reservation cleanup | `releaseExpiredReservationLocks`, `reservation-cleanup.scheduler.ts` | a single-flight flag in memory | expire requests, release no-shows, complete last night's guests, reminders, end live sessions |
| check-in reminders | `notifyDueCustomerCheckInReminders` | two claim columns of `Reservation` | claim and push a first and a final reminder |
| reservation payments | `payments/payments.service.ts` | `ReservationPayment`, `LedgerEntry`, `CustomerInvoice`, `PaymentWebhookEvent` rows | checkout, saved-card payment, assert, notification, capture, void, refund, admin refund |
| problem reports | `payments/payments.service.ts` | `VenueRefundRequest`, `CustomerProblemReport` | report, answer with or without a refund, resolve |
| provider | `payments/worldline-payment.provider.ts` | Saferpay's transactions (external) | initialize, authorize, assert, capture, cancel, refund |
| commission split | `payments.service.ts` (pure functions) | none | split a fee, correct the split after a refund |
| table availability | `reservations.service.ts` | several `Reservation` rows, time-change requests, penalties | blockers, one reservation per guest and day, competing requests, time changes |
| live mode, documents | `reservations.service.ts`, `venue-documents/…` | `Venue`'s live columns, `VenueDocumentRequest` | go live, choose tables, automatic end; submit, review |
| payment methods | `payments.service.ts` | `CustomerPaymentMethod` | save, make default, disable |
| authentication | `auth/auth.service.ts` | accounts, refresh tokens, e-mail links, phone codes, attempts in memory | register, verify, log in, refresh, change address or number, delete |
| device tokens | `device-tokens/…` | `DevicePushToken`, `PushNotificationLog` | register, take over, disable, send |
| space layouts | `space-layouts/…` | `SpaceLayoutProject` rows | save, submit, ask for a change, review, approve |
| panel, event notifications | `venue-chin-chin-panel/…` | panel, followers, `VenueEventNotification` | save events, follow, schedule, send |
| realtime, e-mail, SMS, monitoring | | none | forwarding and formatting |

Interaction. HTTP handlers of one Node process share little but the database; each handler is a
sequence of awaited statements, transactions and provider calls. `acceptReservation` and the
check-ins run the venue's cleanup first and then read the row; acceptance calls
`captureForAcceptedReservation`, every ending calls `voidForInactiveReservation` or
`refundCapturedReservation`; Saferpay calls back with a notification that makes the server assert
the payment. A timer runs the cleanup of venues with due reservations, and each cleanup sends the
reminders and ends the venue's live session. Live mode asks for an approved document, uses the tables
of the layout approved last and the reservations of the day; the panel shows the same session. Support's answers
refund through the payments. All of them push through the device tokens.

What is hard:

- handlers of the guest, the venue, the administrator, the provider and the timer interleave
  between awaits, and most writes are `update where id`, so a decision is carried out on a row that
  may have changed since it was read;
- three provider operations (capture, cancel, refund) are neither in a database transaction nor
  idempotent; they are bracketed by a pending status before and a transaction after;
- provider calls can be refused, or succeed while their answer is lost; the process can die;
- notifications are repeated, late, or overlap the browser's return;
- money is split and re-split in integer cents;
- windows reach past midnight while days are counted from midnight;
- credentials that were mailed or sent earlier are used after the account changed;
- identities made of contents (events) or of names (tables) collide when contents are edited or
  merged.

What makes each part correct:

- payments: the ledger balances, the invoice agrees with the payment, no row claims what the
  provider did not do, an authorization is claimed once, every authorization is settled;
- lifecycle: a table is given for captured money, an ended reservation keeps no money, the promised
  refund is the paid one, an unanswered request ends;
- tables: one accepted reservation holds a table on a day, it gets there only when the table is free
  and leaves it only by a release, a move is agreed by both sides, tables come free in the end, and
  the limits of guests and venues hold;
- live mode: everybody agrees on who is live, a session ends for a reason, and it ends;
- accounts: a session has one token, an address or number is proved before it is trusted, what was
  mailed does not outlive the account, guesses are bounded;
- messages: a reminder, a push and an announcement reach those they are for, once, and not when they
  are obsolete;
- layouts: a table's identity names one table, and an approval changes what it is about.

## How handlers are modelled

Each handler is a process with a program counter `pc[h]` and a `frame[h]`, its local variables. A
step is what the code does between two awaits: one database statement, one transaction, or one
provider call. What was read before an await and is used after it is in the frame. A write is
conditional exactly where the code's is (`updateMany where status in …`), and unconditional where
the code writes `update where id`.

`releaseExpiredReservationLocks`, `voidForInactiveReservation` and `refundCapturedReservation` are
called from several handlers; `frame[h].op` (for the cleanup) and `frame[h].ret` say where the
handler goes on. A handler that finds nothing to do answers its caller; an exception ends it.

Handlers that start with a read that decides everything begin with that read; a read that refuses
is not a step, since it leaves no trace.

## Modules

**`ReservationStatus`** – the status and type enumerations and the groups of statuses the code tests.

**`ReservationPolicy`** – the pure rules of `ReservationsService`: check-in windows
(`customerCheckInWindowFor`, `effectiveCustomerCheckInWindow`), the night lock, what a cancellation
costs, what a no-show gives back. The clock is a tick; the Zagreb calendar day of the slot enters
as `DayStart`.

**`Allocation`** – `calculateAllocation`, `previewReservationAllocation`,
`refundAdjustedAllocation`, `currentLedgerAllocation`: integer cents and basis points.

**`ReservationPayments`** – one reservation, its payment rows, Saferpay's transactions, ledger,
invoice and verified notifications, under every operation of the two services that changes them.

| variables | code |
|---|---|
| `type`, `createdAt`, `status`, `refundCents`, `confirmExp`, `custIn`, `venueIn` | columns of `Reservation` |
| `rows` | the reservation's `ReservationPayment` rows by `createdAt`; `findFirst … orderBy createdAt desc` is `Latest` |
| `payStatus`, `captured`, `refunded`, `checkouts` | `status`, `capturedCents`, `refundedCents`, `providerCheckoutId` |
| `prov`, `provRefunded` | what Saferpay did (external) |
| `ledger` | per payment, the entry types present and the signed sum of each |
| `invoice`, `verified` | `CustomerInvoice.status`, `PaymentWebhookEvent` |
| `pc`, `frame` | handlers in flight |

| actions | code |
|---|---|
| `CleanupBegin`, `ExpireFind/Write`, `ArrivalFind/Write`, `NightFind/Write` | `releaseExpiredReservationLocks` and its three releases |
| `CheckoutBegin/Provider/Create` | `createReservationCheckout`, with a redirect or a saved card |
| `AssertBegin/Read/Provider`, `Claim`, `NotifyBegin`, `RecordEvent` | `assertReservationCheckout`, `markPaymentAuthorized`, `handleWorldlineWebhook` |
| `AcceptRead/Expire/Write`, `CaptureFind/Mark/Provider/Tx` | `acceptReservation`, `captureForAcceptedReservation` |
| `VoidFind/Local/Mark/Provider/Write/Ledger` | `voidForInactiveReservation` |
| `RefundFind/Mark/Provider/Tx` | `refundCapturedReservation` |
| `DeclineBegin/Write`, `CustomerCancelBegin/Write`, `VenueCancelBegin/Write` | `declineReservation`, `cancelReservationByCustomer`, `cancelReservationByVenue` |
| `CheckInRead`, `CustomerCheckInRead`, `Admin…CheckInRead`, `CheckInWrite` | the four check-ins |
| `NoShowReport…`, `ProblemResolved`, `AdminRefund…`, `AdminCancel`, `SetStatus…` | problem reports and administration |
| `GuestPays`, `Tick`, `Crash` | the payment page, the clock, the process |

**`TableBookings`** – all reservations of one venue, for its tables. Payments are reduced to what
decides about tables (`pay`: open, authorized, captured, voided, or parked by a refused provider
call); in exchange there are several rows, guests, tables, slots and requests to change the time.
Weeks and days are divisions of the clock (`startOfLocalWeek`, `startOfLocalCalendarDay`), slots may
cross midnight, and each slot takes its check-in window and night lock from `ReservationPolicy`
(`Rules(s)`). There is one calendar: the code compares Zagreb's days, and sets the hour of the night lock by the
server's clock.

| variables | code |
|---|---|
| `booking` | `Reservation` rows: status, type, guest, table, slot, stored check-in window, deadline, check-ins |
| `pay` | the latest payment of each |
| `change` | `ReservationTimeChangeRequest` rows |
| `penalties` | `VenueReservationPenalty` rows of each week |
| `pc`, `frame` | handlers in flight |

| actions | code |
|---|---|
| `CreateBegin/Blockers/Daily/Write` | `createCustomerReservation`, `createReservation` |
| `Checkout`, `Claim` | payment and its authorization, one step each |
| `AcceptRead/Expire/Blockers/Write`, `Capture`, `Compete` | `acceptReservation`, `declineCompetingPendingReservations` |
| `Decline`, `CancelByCustomer`, `CancelByVenue`, `UsageRead`, `EndWrite`, `VenueCancelWrite` | decline and cancellations, the weekly limit |
| `CheckInRead/Write`, `CustomerCheckInRead/Write` | check-ins |
| `ChangeCreate…`, `ChangeAccept…`, `ChangeDecline…` | requests to change the time and their answers |
| `CleanupBegin`, `Expire…`, `Arrival…`, `Night…`, `Void` | the cleanup; a refusal of the provider ends it |

**`TableAssignment`** – the abstract specification: a set of holdings (reservation, table, day), to
which one is added when the table is free on that day, from which holdings are released, and in
which a reservation moves to another day when the table is free then. `TableBookings` maps its
accepted and seated rows to holdings; `TablesAssigned` says that the mapped behaviour is one of
`TableAssignment`.

**`LiveMode`** – one venue's live session and the documents that allow it.

| variables | code |
|---|---|
| `isLive`, `startedAt`, `endedAt`, `live`, `advance`, `listed`, `windowEnd` | columns of `Venue`: the session, its live tables, the tables offered in advance, whether the venue is listed, the end of its window |
| `document` | `VenueDocumentRequest.status` |
| `holds` | `LIVE` reservations that hold a table today, or whose guest still sits (by other handlers) |

| actions | code |
|---|---|
| `UpdateBegin/Write` | `updateVenueLiveStatus`: what it reads and tests, and its write by id |
| `SettingsUpdate` | `updateVenueReservationSettings` |
| `AutoRead/Count/Disable` | `autoDisableVenueLiveIfNeeded` with `countFreeLiveTables` |
| `DocumentsSubmit/Review` | `VenueDocumentsService` |

`ShownLive` is the panel's own test (`isVenueEffectivelyLive`), a second definition of the same idea
in another service.

**`CleanupTimer`** – the scheduler: a run takes what its two queries find, for reservations and for live
venues, at most `Take` each (`Fires`, `Found`), cleans it all up at once, and ends with the first cleanup
that throws (`Rejected`) while the others go on (`stray`). `matched` is what a query finds, `due` the venues
among them with something to do: a query goes on matching a venue after a cleanup (a guest is seated, a
session is on). What a cleanup does is in the modules above.

**`CheckInReminders`** – `notifyDueCustomerCheckInReminders` as a step of several cleanups of one venue, and
of the acceptances that run it:
`FindFinal/FindFirst` (the query), `ClaimFinal/ClaimFirst` (the conditional update), `Push`. The reservation
is read and written by `ReadRequest`, `AcceptWrite` and `MoveWrite` (`acceptReservation`,
`acceptReservationTimeChangeRequest`: a move clears both marks), and by `Book`, `CheckIn`, `RequestMove`,
`DeclineMove` and `End` in one step each. Windows come from `ReservationPolicy`.

**`AccountSessions`** – `AuthService`'s accounts (`account`), mailed links (`link`) and refresh tokens
(`token`): `Register…`, `ResendBegin`, `LoginLinkBegin`, `LinkWrite`, `Mail`, `Verify…`, `LoginBegin`,
`StoreToken`, `RefreshBegin`, `Rotate`, `ChangeEmail…`, `Delete…`. A unique constraint or a missing
parent makes a write fail, which ends the handler.

**`PhoneVerification`** – SMS codes for a registration and for a change of number: `Issue…` with the
cooldown, `Check…` with the counter of attempts, `ConsumeToken`, `CreateWrite`.

**`AdminLogin`** – the counters `adminLogin` keeps in memory by address and network address: `Begin`
(`assertAdminLoginAllowed`), `Failed`, `Succeeded`.

**`DeviceTokens`** – which account a device's token belongs to (`owner`), and `sendToUser` step by step
(`push`, `log`) against what Firebase shows to whom (`installed`, `holder`, `shown`, external). The query's
filter by app is left out: tokens and pushes are those of one app.

**`EventNotifications`** – the panel's events, and their notifications: a save (`SaveWrite`,
`SavePending`, `SaveEdit`, `SaveRemove`, `SaveAdd` – `scheduleNotificationsForAddedEvents` statement by
statement) and two senders, the timer's and the one a save starts. A sender takes all rows that are due
(the code the 25 oldest, and the others in its next run) and pushes to all followers in one step.

**`PaymentMethods`** – saved cards: `owner`, `status`, `isDefault`; `Save…`, `AddTest`, `Disable…`,
`Default…`.

**`SupportReports`** – problem reports and support's answers, over the refund that is left of one payment.
An e-mail (`Mail`) is sent, or refused, which fails the request, or skipped where the settings name no mail
server (`transport`) or the guest has deleted the account (`deleted`).

**`LayoutTables`** – layouts as values: unique table identities, photos, merges of rooms.
**`LayoutReview`** – the projects of one venue through submissions, change requests, reviews
and approvals, using `LayoutTables`. `project` is the row (`asked` and `saved` are the change that
`reviewSubmission` and `savedLayout` name), `frame` what an approval carries from its reads to its write.
Every operation that writes a status is an action, `generateSuggestion` too, which takes an approved project out of force.

**`MCReservationPayments`**, **`MCTableBookings`** – instances for TLC. **`MCReservationSerial`**,
**`MCProgress`**, **`MCPlatform`** – compositions whose behaviours are each of one instance, chosen in
the initial state (`scenario`) and never left; variables of the others stand still. A property of such
a module speaks of the behaviours of one scenario.

**`ReservationPayments_proofs`**, **`MCReservationSerial_proofs`**, **`TableBookings_proofs`**,
**`MCProgress_proofs`**, **`AccountSessions_proofs`**, **`PhoneVerification_proofs`**,
**`EventNotifications_proofs`**, **`MCPlatform_proofs`** – proofs. `MCPlatform` instantiates
`AccountSessions_proofs`, `PhoneVerification_proofs` and `EventNotifications_proofs`, which extend the modules
they are about, so that their lemmas can be cited of its scenarios; its constants are sets, so that what is proved of it is
proved for any sets. `MCPlatform_proofs` also holds the proofs about `DeviceTokens`, `PaymentMethods`,
`CheckInReminders`, `AdminLogin` and `LayoutReview`, and `MCProgress_proofs` those about `LiveMode` and `CleanupTimer`.

Operators introduced as *Seeded fault* are not part of any behaviour: they are plausible mistakes
in the definition that follows them. Each property has one that it detects, which shows that the
property depends on the code.

## Runs

| run | question | result |
|---|---|---|
| `reservation_serial` | one handler at a time, with every operation: are row, ledger and provider equal to the cent, is an ended reservation free of money, a table given only for captured money, the promised refund the paid one? | `SerialBooksExact`, `SagaReleasesFunds`, `SagaConfirmsPaid`, `SagaKeepsPromise` hold, the last three short of an administrative override |
| | with refused calls and lost answers: is money left behind marked by a pending status? | `RefusalLeavesTrace` holds |
| | do support's answers stand for money given back, although e-mails are refused, and is one mailed wherever there is a guest and a mail server? | `ReportsHold` holds |
| `crash_recovery` | when the process dies between any two steps, overrides included, does a row still say where books and provider differ? | `DivergenceMarked` holds |
| `interleaved` | two requests and the timer in flight, with faults: do ledger, invoice, provider backing and the single claim survive? | `TypeOK`, `LedgerBalanced`, `InvoiceAgrees`, `BackedByProvider`, `AuthorizedOnce` hold |
| `callback_after_cancel` | can a callback reopen a reservation that was cancelled? | violated: finding 1 |
| `notified_payment` | is a notified payment recorded as verified only when it was paid? | violated: finding 2 |
| `tables_serial` | served one at a time, is a table given to one reservation a day, and only when last night's guest will be gone; do the weekly limit of the venue and the limit of the guests hold? | `TypeOK`, `TablesAssigned`, `TableFreeWhenTaken`, `LimitsKept` hold |
| `time_changes` | and with moves, their answers, cancellations and check-ins? | `TablesAssigned`, `MovedByAgreement` hold |
| `tables_liveness` | do tables come free although refusals cut cleanups short? | `TableReleased`, `ConfirmedResolved` hold |
| `concurrent_accepts` | can two overlapping acceptances give one table away twice? | violated: finding 3 |
| `progress` | across midnights and with owners who stop, restart and change tables: do panel and reservations agree on who is live, does a session end for a reason, and does it end? Does the timer serve every venue, as long as its queries match no more than they take? | `SessionTypes`, `PanelAgrees`, `AutoEndJustified`, `SessionEnds`, `DueServed` hold |
| | does a request the venue leaves unanswered end, and is every authorization captured or returned? | `RequestResolved`, `AuthorizationSettled` hold, one request at a time and without faults |
| `live_ends_with_window` | does a session that is left on end with its window? | violated: finding 4 |
| `platform` | accounts: one token a session, verified addresses and numbers proved, deleted accounts gone, guesses bounded | `OneLiveToken`, `LinksTrusted`, `NumbersProved`, `DeletedStaysDeleted`, `GuessesBounded` hold |
| | messages: pushes to their addressee, reminders once for every slot and nobody forgotten, announcements once, of every event added and of none removed | `NotificationsShown`, `GuestsReminded`, `EventsAnnounced`, `RemovedNotAnnounced` hold |
| | one default card for a guest | `OneDefault`, `PlatformTypes` hold |
| | layouts: do tables keep identities of their own, does an added room join the layout in force as it is, and does an edited one leave the others alone, when approvals are of requests that began before others? | `TableIdsUnique`, `RoomsKept` hold |

The properties of the serial runs are false when handlers overlap or fail, and the code repairs
nothing afterwards; the fault runs therefore state what is left to support: a row in
`CAPTURE_PENDING`, `VOID_PENDING` or `REFUND_PENDING`.

## Bounds

`MaxTime` ticks of clock, in two layouts: a long one that has every window open and close (the
check-in window, the slot, the night lock, the no-show report) with a reservation made before or
after the regular window closed, and a short one for interleavings. `Fee = 3` cents is odd, so half
fees and splits round; commissions are 50 % and 100 %. Two payment identities let a second checkout
follow or compete with the first; `MaxActive` limits handlers in flight (1 for the serial runs, 2
otherwise). Refunds ask for 1 cent or everything, so that partial refunds accumulate.
`AdminTargets` limits administrative statuses to the ones that make a promise. The clock goes past
`MaxTime` while the venue still has time to answer, so that no window stays open because the clock
stopped.

`reservation_serial` has a behaviour for each environment: a working provider with every operation,
and one that refuses or loses answers, which leaves out what only begins a payment in another way.
`crash_recovery` has one payment of a reservation in advance and every operation. The reservations of
`progress` have one payment and no override. In `interleaved` the requests are the
operations that touch money, support refunds 1 cent at a time, and the notification, whose steps are
an assertion's, is left out. Support answers with nothing, a part, or the whole fee, in up to three
reports, so that answers follow answers; the guest may delete the account at any time, and the settings name a mail
server or not. Symmetry is used only in safety runs.

The table runs have three or five ticks a day, two reservation identities – a conflict needs two, and
which of two comes first is left open –, one table, and one guest (two in `tables_serial`, whose limit
of one reservation a guest would otherwise prevent every conflict); the tests relate no more than one
table or guest at a time. Slots are chosen for the question: two evenings, or one that crosses midnight
and one that begins the day after, before the first is over. Two change requests let one be accepted
while another waits. They leave out `LIVE` reservations, whose competition for tables is the same and
whose other rules belong to live mode.

Live sessions: days of three ticks, a window of 2 to 4 (it passes midnight), requests in the first day
and the window that follows it, time enough for the latest session to end; two rooms, one of them a
temporary space, live together or one alone. Three venues for the
timer, of which a query takes two, one of them always throwing: the limit binds as soon as all three are matched.

`platform`: one or two accounts, addresses and numbers, enough links, codes and tokens for a
credential that is superseded by another, used late, or used twice; in the scenarios called *racing*
two requests overlap. Three failed logins lock for as long as the window, in six ticks. Two devices
shared by two accounts and one push. Two cards and a test card. A reservation made before or after
the regular window opened, for one of two slots, moved once to the other; a request that answers or cleans up beside
the timer, and crashes at any step, in six ticks. Three events, so that lists
grow, shrink, and are edited at equal length; announcements a tick later, or at once with a crash. Two layout projects
and two approvals or saves – the second approval is of a request that began before the first –, two rooms whose tables
share a name and a photo. The admin may draw a third room in place of the second, or the first one anew with a table that has
the name of one of the second's, and changes are asked for the first, so that an edit takes the identity of a table behind it. Nobody asks for
more once the last decision is made (`MayDecide`).

`CHECK_DEADLOCK FALSE` is set because clock, identities and approvals run out.

## Fairness

`FairSpec` assumes that a handler in flight goes on (timers fire and answered promises resume), that
the cleanup starts again and again (`SF`, since it starts only when a handler slot is free; the
scheduler is an interval with a single-flight flag), and that the clock advances. Nothing is assumed about
guests, venues or the provider's answers; `tables_liveness` assumes the same. `LiveMode`'s `Fairness`
assumes that time passes, that the timer comes round to the venue, and that a request once begun goes
on; `CleanupTimer`'s that the interval fires and that a cleanup ends, one way or the other – nothing
is assumed about new work, nor about owners. `DueServed` is promised only while a query that would find the
venue matches no more than it takes (100 in the code): the queries have no order, and beyond that the same venues, throwing
or merely matched, may be taken run after run. `progress` takes
each module's own fairness for the behaviours of that module. `RequestResolved` and
`AuthorizationSettled` need a provider that answers and handlers that do not overlap: an authorized
row that a second checkout hides from `findFirst` is never settled, which is why the run is serial.

## Proofs

`ReservationPayments_proofs` proves, for every fee, pair of commissions, clock, set of payments,
requests, faults and number of handlers in flight:

- `TypeCorrect`: `Spec => []TypeOK`;
- `LedgerAlwaysBalanced`: `Spec => []LedgerBalanced`;
- `InvoiceAlwaysAgrees`: `Spec => []InvoiceAgrees`.

They rest on the assumptions `FeeAssumption`, `BpsAssumption`, `IdentityAssumption` and
`BoundAssumption` of the modules; TLC evaluates them in every run. The two safety invariants are not
inductive: a refund's transaction books what a *frame* says. `IInv` adds what each frame holds at
each step (`FramesGood`), that a refund under way asks for a positive amount within the capture
(`RefundsGood`), and that a payment is either not booked at all or has all three capture entries, the
full amount and an invoice (`Booked`). The lemmas about operators say that a commission splits an
amount without losing a cent (`AllocationSplits`), that no rule promises more than the fee
(`RefundsWithinFee`), and what booking a capture, an entry and a refund does to a ledger
(`FirstCapture`, `CaptureBookedOnce`, `EntryAdded`, `RefundSplits`); the control lemmas
(`HandlerGoes`, `HandlerTakes`, `HandlerCalls`, `HandlerReturns`, …) say that moving one handler keeps
every frame good. One lemma per group of actions combines them.

`ReservationPayments_proofs` goes on from `IInv` and proves, just as generally,

- `RowsBackedByProvider`: `Spec => []BackedByProvider`;
- `RowsAuthorizedOnce`: `Spec => AuthorizedOnce` when `PENDING_VENUE_CONFIRMATION` is not among
  `AdminTargets` – an administrator may set that status without any payment.

Neither holds of the rows alone: handlers act on what they read some statements before, and answers of
Saferpay come late or not at all. `BInv` says what a handler at each label relies on about its row and
its transaction (`RowHeld`): after the mark that precedes a capture, a release or a refund the row is
past `AUTHORIZED`; with a capture's or a refund's answer in hand Saferpay has the money and has returned
at least what will be booked. Rows only move forward (`Forward`: from `NONE` through `AUTH_PENDING` and
`AUTHORIZED` to the rest), and Saferpay's side leaves `AUTHORIZED` only for a row that was marked first;
every fact a handler relies on is kept by every such step of the others, and that is the whole
interference argument. `CreatedOnce` adds that two handlers about to create a row have different
transactions.

The second half of `ReservationPayments_proofs`, and `MCReservationSerial_proofs`, take `MaxActive = 1`: one handler in
flight, while the clock, the guest at the payment page and Saferpay go on, and a crash may end the handler anywhere.
Money is then not merely backed but accounted for. Along `Spec` they prove

- `DivergenceAlwaysMarked`: `Spec => []DivergenceMarked` for `Fee > 0`, whatever is refused, unanswered or cut
  short by a crash;
- `BooksAlwaysExact`: `Spec => []BooksExact` when `Faults = {}`;
- `FailureAlwaysLeavesTrace`: without overrides, and with everything but crashes.

`RowsInv` says where the money of a row is, for each status (`Lifecycle`: an authorized row has a live
authorization, a `CAPTURE_PENDING` row an authorization or captured money, …), and what the one handler
under way knows of its row (`RowAt`): what it read is still so, and between a provider call and its
transaction Saferpay is ahead by exactly that call. Without faults `OwnedInv` adds that a pending
row is the row of the handler under way, at the step that follows its mark, so that none is left when it
ends. `SagaInv` ties the status of the reservation to all this: which rows an ended, a confirmed and a
waiting reservation may have, and what the handler in flight still has to do to get them there.

`MCReservationSerial_proofs` carries these over to `SerialSpec`, where overrides may come at any moment,
and proves the six invariants of the run `reservation_serial`: `BooksExactForEveryOperation`
(`SerialBooksExact`; `Faults = {}`, `Fee > 0`), `FundsAlwaysReleased`, `ConfirmedAlwaysPaid` and
`PromisesAlwaysKept` (`SagaReleasesFunds`, `SagaConfirmsPaid`, `SagaKeepsPromise`; `Faults = {}`),
`RefusalAlwaysLeavesTrace` (`RefusalLeavesTrace`, of the instance whose provider fails) and
`ReportsAlwaysHold` (`ReportsHold`). An override is on the record from the step that begins it
(`OverrideSeen`), so that the saga holds up to there. For the reports `AnswersInv` says what an answer read
and still holds, and how much of an answer has been given at each of its steps. The hypotheses are about
constants that the run `reservation_serial` has: one handler at a time, a working provider for the
scenario of that name, and a fee that is not nothing.

`TableBookings_proofs` proves `TypeCorrect`, `Spec => []TypeOK`, for every number of handlers in flight,
reservations, changes, guests, tables and slots. The invariant `TInv` adds what a frame holds at each
label (`FrameGood`): an acceptance or check-in names a reservation from its first step on, even while
the cleanup it begins with runs; the cleanup's caller is one that waits for it; what ends a reservation
writes a terminal status; an answer names a request and its reservation. It also needs that a request
that is waiting has a reservation.

With `MaxActive = 1` as a hypothesis – handlers do not overlap; the clock may tick between any two
steps – the same module proves

- `ImplementsAssignment`: `Spec => TablesAssigned`, the refinement of `TableAssignment`;
- `TablesTakenWhenFree`: `Spec => TableFreeWhenTaken`;
- `TablesGivenOnce`: `Spec => []NoDoubleBooking`, the invariant that `concurrent_accepts` violates
  when the hypothesis is dropped;
- `MovesAreAgreed`: `Spec => MovedByAgreement`;
- `LimitsAlwaysKept`: `Spec => []LimitsKept` when `changeAccept` is not among `Ops` – the acceptance of a
  time change counts nothing, and can take a guest over the limit, as observed below.

The code decides in one statement and writes in a later one, so the invariant `SerialInv` says what was
decided and still holds (`Decision`): between the test for blockers and the write of a creation, an
acceptance or a time change nobody has the table for that evening (`FreeIn`), an acceptance is of a
waiting reservation, a check-in and an answer of an accepted one, and rows found by a cleanup are rows
that were made. It also needs that payments belong to reservations that were made (`PaidIn`): a claim
would otherwise bring a reservation into being. Each step then lets tables go or leaves them
(`Quiet`), gives one (`AcceptanceGives`), moves a holder (`ChangeMoves`), or makes a reservation that
holds none (`CreationShrinks`); `StepsOfTables` is that case split, `StepsOfAssignment` its image in
the abstract specification. `MovesAreAgreed` adds `AgreeInv`: a request that was read as waiting still
waits when its answer is written, and is of the reservation that is moved. `LimitsAlwaysKept` adds
`LimitInv`: what a creation or a cancellation counted still holds at its write (`Limited`), since nothing else
that can come in between adds a reservation under way or a penalty. Assumptions: `IdentityAssumption`, `CalendarAssumption`,
`BoundAssumption`, which TLC evaluates in the table runs.

`MCProgress_proofs` proves, for every layout, selection, window and length of a day,

- `PanelAlwaysAgrees`: `Spec => []PanelAgrees`, for any number of overlapping requests. The panel's
  test has two conjuncts more than the reservation service's; that they follow from the others
  (`SessionWhole`) needs that the columns of a session are written together and that a request about to
  write a session has tables (`GoesLiveWithTables`);
- `SessionsEndForAReason`: `Spec => AutoEndJustified` under `MaxActive = 1`. `SerialInv` says what the
  timer's handler found and still holds when it writes (`ReasonToEnd`): a session that was over stays
  over whatever the clock does, which is arithmetic on days and minutes (`WindowStaysOver`), and the
  tables it counted are those that are live;
- `SessionsTyped`: `MCSpec => []SessionTypes`, the ranges of the composition that `progress` runs: of a session's
  columns and handlers, however requests overlap, and of the timer, its runs and the cleanups they leave behind.

Assumptions: `LiveBounds` (a window ends no earlier than it begins), `LiveIdentities`, `LiveSelections`, `LivePayloads`
(what a request may ask) and `TimerBounds`, which TLC evaluates in `progress`.

`AccountSessions_proofs` proves, for every set of users, addresses, links, tokens and requests,

- `OneTokenPerSession`: `Spec => []OneLiveToken`, however requests overlap. A rotation revokes the token and
  stores its successor in one transaction, on the condition that the token is still live; `SessionInv` adds
  what links, tokens and frames must be for that (a session is named by a token that exists, and a token
  about to be stored is not there yet);
- `VerifiedAddressesWereMailed`, `LinksOpenOneSession` and `DeletedAccountsStayDeleted`: `[]AddressVerified`,
  `[]LinkOpensOneSession` and `[][KeepsDeletedDeleted]_vars`, one request at a time. `SerialInv` says that a link that
  can still be opened is of an account that is not deleted and was mailed to the address the account still
  has – every change and deletion takes the open links away –, that a link that opened a session is used, and
  what the request in flight read and still holds.

`PhoneVerification_proofs` proves `NumbersAreProved` (`PhoneTypes /\ NumberProved`) and `GuessesAreBounded`
(`AttemptsBounded`) for requests that overlap in any way, and `NumbersHaveOneOwner` one request at a time.
The limit on guesses is tested before the code is compared and counted after, so `TriesInv` counts beside
the tries written down those that passed the test and may still be written: a handler joins them only while
fewer than `AttemptLimit` are written, and never are more than `MaxActive` of them in flight, which bounds the
sum by `AttemptLimit + MaxActive - 1`. `NumberProved` needs that a frame on its way to a write of a number
holds one that a code was sent to; the serial invariant adds that a number found free is still free.

`EventNotifications_proofs` proves `EventsAreAnnounced` (`AnnouncedOnce /\ AddedScheduled`) and
`OnlyListedAreAnnounced` (`OnlyListedAnnounced`), for every set of events, rows and followers, any delay and number of
crashes, with one save or run of the sender at a time. `NotificationInv` joins three arguments:

- a push beyond one for every crash has a row that says it was sent, or is about to (`PushesCounted`); a crash
  between push and mark is what lets a push repeat, and it counts;
- what a save found waiting still waits when it comes to it, and what it has passed of the new list is
  scheduled (`SaveGood`), which is why removing, adding again and editing events before the delay is over loses none;
- a row that waits is of an event the panel lists, or of one the save under way is about to drop (`PanelListed`), until
  a crash cuts a save short.

An event has one row at most, so there is always a row left for a new one (`RowIsFree`), by counting; and the list of a set
of events names all of them (`ListedAll`), by induction over finite sets, for which the library's well-founded ordering
of them stands in (`FS_StrictSubsetOrderingWellFounded`). Assumptions: `NotificationIdentities`, `NotificationBounds`.

`MCPlatform_proofs` proves everything `platform` checks, for any values of its constants that its assumptions admit:

| theorem | property |
|---|---|
| `SessionsHaveOneLiveToken`, `LinksAreTrusted`, `AccountsStayDeleted` | `OneLiveToken`, `LinksTrusted`, `DeletedStaysDeleted` |
| `HeldNumbersAreProved`, `GuessesAlwaysBounded` | `NumbersProved`, `GuessesBounded` |
| `NotificationsReachAddressees`, `GuestsHaveOneDefault`, `GuestsAreReminded` | `NotificationsShown`, `OneDefault`, `GuestsReminded` |
| `EventsAreAnnouncedOnce`, `RemovedAreNotAnnounced` | `EventsAnnounced`, `RemovedNotAnnounced` |
| `TablesHaveIdentities`; `RoomsAreKept`, from `AddedRoomsAreWhole` and `OtherRoomsAreKept` | `TableIdsUnique`; `RoomsKept` |
| `PlatformTyped` | `PlatformTypes` |

`PlatformInv` is, for each scenario, the invariant of its module:

- `PushInv`: a token that is enabled belongs to the account signed in on its device, and what a call of
  `sendToUser` still has to send goes to devices whose account is the addressee, or that changed hands since the call
  began; and an answer that says *sent* is of a message that was shown. It holds however calls overlap.
- `CardsInv`: defaults are active cards, one for each guest, and what a request read of them still holds. It needs
  requests one at a time.
- `RemindInv`: a reminder that was pushed is claimed, and a claim is pushed by the cleanup that made it alone, so
  none is pushed twice for one slot (`ClaimsGood`, which counts the moves that cleared the marks); nobody is forgotten
  because in the last tick of a window the timer's cleanup
  has every expected guest of it on its list until it has claimed the reminder (`TimerGood`, `Remembered`). That
  argument needs the arithmetic of `ReservationPolicy`'s windows, and that the timer comes round once a tick
  (`ReminderClock` and the guard of `Tick`).
- `LoginInv`: for each address, what its counter says of the failures since the last success. A window holds no more
  failures than it has counted, the window before it leaves fewer than a full count of recent ones, and what is
  counted and still under way stays within `Limit + MaxActive - 1` (`LoginGood`). A lock outlasts the window, and
  attempts that passed the test before it was set may still fail: counted on, or as the first of a new window when the
  old one is over, which replaces the entry and with it the lock. That is why the bound is twice
  `Limit + MaxActive - 2` and not the limit; TLC reaches it for one, two and three attempts at once. The bound holds
  however attempts overlap, for `Limit >= 2` and a lock no shorter than the window (5, and 15 minutes each, in the code).
- `LayoutInv`: tables of layouts the panel approved have identities of their own, approvals have an order, and an
  approval under way carries a layout that fits the one in force (`CarriesGood`): all of its rooms and the new ones
  (`RoomsAdded`), or all of its other rooms, table for table (`OthersThere`). It is kept because one approval is served at
  a time. A table's new identity is the old one unless a table in front has it, which is shown along the same functions.

The layouts are sequences of rooms and of tables that functions walk from the front, each with what the elements before
it used up (`TakenInRoom`, `TakenInRooms`, `PhotosUsed`, `WithLabels`). The proofs climb along these functions
by `Climbs`, induction over an interval for a set of places, which follows from the well-ordering of finite
intervals, since the induction theorem of the library takes an operator. On that way `NextUnique` is
shown to find a number that is free – among one more numbers than there are names in use –, a room's new identities to be
apart from each other and from all that were used before, photos to be apart from each other, and the filters by label to
keep what they should.

Assumptions: `FiniteRequests`, `SessionConstants`, `PhoneConstants`, `AdminConstants`, `DeviceConstants`, `MethodConstants`,
`ReminderConstants` (requests that clean up are finitely many), `NotificationConstants`, `LayoutConstants`, which TLC
evaluates in `platform`.

Only model-checked:

- liveness (`TableReleased`, `ConfirmedResolved`, `SessionEnds`, `DueServed`, `RequestResolved`,
  `AuthorizationSettled`), which is out of the prover's reach.

Every invariant and every action property of the passing runs is stated by a theorem.

## Findings

1. `markPaymentAuthorized` claims a payment that is still `AUTH_PENDING` and then writes
   `PENDING_VENUE_CONFIRMATION` to the reservation by id. An assertion that was past its read when the
   guest cancelled reopens the cancelled reservation, against the comment above the claim. Run
   `callback_after_cancel`.
2. The notification handler looks up the notified payment, asserts the reservation's *latest* payment,
   and records the notified one as verified. Run `notified_payment`.
3. `acceptReservation` looks for blocking reservations and confirms in different statements, with the
   capture between them: two acceptances both confirm. Run `concurrent_accepts`.
4. A live session started or renewed between midnight and the end of its window stays live until the
   window of the following night is over, although the owner is told that a session left on ends with
   its window: `isVenueLiveWithinGraceWindow` counts from midnight of the day the session started. Run
   `live_ends_with_window`.

Further observations, which the properties are worded around and no listed run shows.

Reservations and payments:

- `acceptReservation` refuses an `ADVANCE` request only once its slot has begun; the check-in period
  the e-mail of the acceptance quotes may be over by then, and the next cleanup makes the guest a
  no-show.
- Blocking reservations are looked for by the calendar day they start on, so a slot after midnight is
  accepted over one of the evening before that has not ended (`TablesAssigned` therefore speaks of
  days).
- Unpaid requests do not count against one reservation per guest and day, and paying tests nothing: a
  guest who pays two requests after making both has two active reservations on one day.
- A request to change the time is refused after check-in, its acceptance is not: the check-in stays on
  the moved reservation.
- A reservation opened again by a new checkout after its guest checked in stays confirmed for ever
  (`ConfirmedResolved` leaves it out), and a late acceptance of a time change can take a guest over the
  limit of two (`LimitsKept` is checked without changes).
- A cleanup that dies between the claim of a reminder and its push loses the reminder; `GuestsReminded`
  promises at most one push for every slot, and a claim.
- The claim of a reminder compares the marks and not the slot. A cleanup that found a reservation due, and claims it after
  it was moved and its marks were cleared, marks the new slot: the guest gets the old slot's reminder and none
  when the new window opens (`GuestsReminded` excepts a reservation that was moved while a cleanup had it on its list).
- An answer of support that cannot be mailed, because the guest deleted the account or the settings name no mail
  server, is recorded as sent (`ReportsHold` promises the e-mail only where there are both).
- Support's answer to a guest refunds before it mails. When the mail server refuses, the report stays
  `PENDING` and the answer can be given again, which refunds again; and the amount recorded is the one
  entered, not the one that was left to refund.
- Making a card the default while another request disables it leaves a disabled default, and two first cards
  saved at once are both the default (`OneDefault` is checked for requests one at a time).

Live mode, panel, layouts:

- `autoDisableVenueLiveIfNeeded` ends a session by id: one that the owner restarted after the count is
  ended too (`AutoEndJustified` is checked for handlers one at a time).
- A selection is accepted room by room, each room that has one by its own least number; listing the venue and
  offering its tables ask for the least number of all rooms together, so a saved selection of one room
  may offer nothing.
- An event that is edited into another that had been announced, or into one that stays on the list, is
  not announced; of two lists of the same length the second counts as an edit of the first
  (`AddedScheduled` is about lists that change their length). With a delay of 0 the run a save starts
  overlaps the timer's, and both push (`AnnouncedOnce` is checked one at a time).
- `saveLayout` on an approved project takes the approval away: until the next approval the venue
  has the layout approved before, or none. `ensureNoPendingSpaceReviewForVenue` reads in one statement and the
  request is created in another. An added room is merged with two readings of the layout in force, one
  for its tables and one for its photos.
- A request about a table that the layout has no more is approved without changing it.
- An edited room may bring a table whose identity a table of a later room has; that one is renamed, though
  nobody edited it (`OtherRoomsKept` allows an identity to change where a table in front has taken it). Reservations and live
  selections made under the old identity then mean the edited room's table.
- `generateSuggestion` takes an approved project out of force, as `saveLayout` does.

Accounts:

- A deleted owner's venue is taken offline in the same transaction, which `AccountSessions` leaves out.
- With requests that overlap, a link may open several sessions and an address verified by an old link
  counts as the new one's (`LinksTrusted` and `DeletedStaysDeleted` are checked one request at a time);
  two registrations at once may take one number, for nothing in the database keeps numbers unique.

## Not modelled

Formatting, e-mail, SMS and monitoring (no state that matters; a refused e-mail is modelled where it
fails a request); the HTTP layer; geometry of layouts, uploads, and the jobs that suggest layouts;
images and public listings of the panel; profile fields and consents. Of reservations and payments:
rate limits, blocked guests, party sizes, deletion of rows by administrators, adjustments of a venue's
payout, and the backfill of ledgers. Their state is disjoint from what the properties speak of, except for
deletion, after which a row has no state, and for the adjustments, which enter the ledger of a payment on purpose unbalanced.

What would come next: an abstract payment lifecycle that `ReservationPayments` implements one handler at a time; the
adjustments of payouts.

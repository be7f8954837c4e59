---------------------------- MODULE SupportReports ----------------------------
(***************************************************************************)
(* Problem reports of one paid reservation in PaymentsService: the venue's *)
(* VenueRefundRequest rows and the guest's CustomerProblemReport rows, and *)
(* what the admin panel answers to them.  An answer to a guest may refund  *)
(* a part of the payment; it is mailed, and only then recorded.  An e-mail *)
(* the server refuses fails the request where it stands; without a         *)
(* recipient, or without a mail server in the settings, the answer is      *)
(* recorded all the same.                                                  *)
(*                                                                         *)
(* The refund itself is ReservationPayments' refund operation, here the    *)
(* amount that is left to give back.                                       *)
(***************************************************************************)
EXTENDS Naturals, FiniteSets

CONSTANTS
    Reports,        \* identities of report rows
    Handlers,       \* requests that can be in flight
    MaxActive,      \* bound: requests in flight at a time
    Captured,       \* what the guest paid
    Amounts,        \* amounts an admin may enter, 0 for none
    NoReport

VARIABLES
    report,         \* report rows; `by` is the side that reported
    reservation,    \* Reservation.status: "ACCEPTED" for the ones an answer may release
    refunded,       \* ReservationPayment.refundedCents
    paidBack,       \* per report, what the provider has given back for it
    mailed,         \* reports whose answer has been mailed
    transport,      \* the settings name a mail server: never changed while the process runs
    deleted,        \* the guest deleted the account
    pc, frame       \* handlers

contactVars == <<transport, deleted>>
vars == <<report, reservation, refunded, paidBack, mailed, contactVars, pc, frame>>

SupportBounds == Captured \in Nat /\ MaxActive \in Nat /\ Amounts \subseteq Nat

Sides     == {"venue", "customer"}
NoRow     == [by |-> "venue", status |-> "NONE", amount |-> 0]
Idle      == [report |-> NoReport, by |-> "venue", amount |-> 0, cents |-> 0, left |-> 0,
              to |-> FALSE]

Init ==
    /\ report = [r \in Reports |-> NoRow]
    /\ reservation = "ACCEPTED"
    /\ refunded = 0
    /\ paidBack = [r \in Reports |-> 0] /\ mailed = {}
    /\ transport \in BOOLEAN /\ deleted = FALSE
    /\ pc = [h \in Handlers |-> "idle"]
    /\ frame = [h \in Handlers |-> Idle]

-----------------------------------------------------------------------------

Rows(by)    == {r \in Reports : report[r].status # "NONE" /\ report[r].by = by}
Unused      == {r \in Reports : report[r].status = "NONE"}
Pending(by) == {r \in Rows(by) : report[r].status = "PENDING"}
SmallerOf(a, b) == IF a <= b THEN a ELSE b

Goto(h, label) == pc' = [pc EXCEPT ![h] = label]
Finish(h)      == Goto(h, "idle") /\ frame' = [frame EXCEPT ![h] = Idle]
Begin(h, label, f) ==
    /\ pc[h] = "idle" /\ Cardinality({k \in Handlers : pc[k] # "idle"}) < MaxActive
    /\ Goto(h, label)
    /\ frame' = [frame EXCEPT ![h] = f]
    /\ UNCHANGED <<report, reservation, refunded, paidBack, mailed, contactVars>>

-----------------------------------------------------------------------------
(* A report is made, or the pending one is written over. *)

\* createVenueRefundRequest without releaseNoShowTable, createCustomerProblemReport.  The
\* reservation of a deleted account is nobody's any more.
ReportRead(h, by) ==
    /\ by = "customer" => ~deleted
    /\ \/ Pending(by) = {} /\ Unused # {} /\ Begin(h, "insert", [Idle EXCEPT !.by = by])
       \/ \E r \in Pending(by) : Begin(h, "overwrite", [Idle EXCEPT !.report = r, !.by = by])

\* A row of a user who was deleted since is refused by the database.
ReportInsert(h) ==
    LET refused == frame[h].by = "customer" /\ deleted
        new     == [by |-> frame[h].by, status |-> "PENDING", amount |-> 0] IN
    /\ pc[h] = "insert"
    /\ \/ refused /\ UNCHANGED report
       \/ ~refused /\ \E r \in Unused : report' = [report EXCEPT ![r] = new]
    /\ Finish(h)
    /\ UNCHANGED <<reservation, refunded, paidBack, mailed, contactVars>>

\* Only the description changes.
ReportOverwrite(h) ==
    /\ pc[h] = "overwrite"
    /\ Finish(h)
    /\ UNCHANGED <<report, reservation, refunded, paidBack, mailed, contactVars>>

-----------------------------------------------------------------------------
(* The venue is answered: markVenueProblemReportRefundedByChinChin, whatever the state of *)
(* the report.                                                                            *)

\* A venue always has an owner, and an owner an address, if only an invalid one.
AnswerVenue(h, r, amount) ==
    /\ r \in Rows("venue")
    /\ Begin(h, "mail", [Idle EXCEPT !.report = r, !.amount = amount, !.to = TRUE])

VenueWrite(h) ==
    LET amount == frame[h].amount IN
    /\ pc[h] = "write" /\ frame[h].by = "venue"
    /\ report' = [report EXCEPT ![frame[h].report] = [@ EXCEPT !.amount = amount,
                    !.status = IF amount > 0 THEN "REFUNDED_BY_CHIN_CHIN" ELSE "CLOSED_NO_REFUND"]]
    /\ reservation' = IF amount > 0 /\ reservation = "ACCEPTED" THEN "RELEASED" ELSE reservation
    /\ Finish(h)
    /\ UNCHANGED <<refunded, paidBack, mailed, contactVars>>

-----------------------------------------------------------------------------
(* The guest is answered: sendCustomerProblemReportResponse, whatever the state of the    *)
(* report.                                                                                *)

\* Seeded fault: an amount is answered when nothing is left to refund.
AnswerAnyway(left, amount) == TRUE

\* No amount, or something left of the payment.
Answerable(left, amount) == amount = 0 \/ SmallerOf(left, amount) > 0

\* The guest's address is read with the report: deleting an account clears it.
AnswerGuest(h, r, amount) ==
    LET left == Captured - refunded IN
    /\ r \in Rows("customer") /\ Answerable(left, amount)
    /\ Begin(h, IF amount = 0 THEN "mail" ELSE "refundRead",
             [Idle EXCEPT !.report = r, !.by = "customer", !.amount = amount,
                          !.cents = SmallerOf(left, amount), !.to = ~deleted])

\* refundCapturedReservation reads the payment again and takes what is left.
RefundRead(h) ==
    /\ pc[h] = "refundRead"
    /\ \/ refunded < Captured /\ Goto(h, "refund")
       \/ refunded = Captured /\ Goto(h, "cancel")
    /\ frame' = [frame EXCEPT ![h].cents = SmallerOf(@, Captured - refunded), ![h].left = refunded]
    /\ UNCHANGED <<report, reservation, refunded, paidBack, mailed, contactVars>>

RefundWrite(h) ==
    /\ pc[h] = "refund"
    /\ refunded' = frame[h].left + frame[h].cents
    /\ paidBack' = [paidBack EXCEPT ![frame[h].report] = @ + frame[h].cents]
    /\ Goto(h, "cancel")
    /\ UNCHANGED <<report, reservation, mailed, contactVars, frame>>

GuestCancel(h) ==
    /\ pc[h] = "cancel"
    /\ reservation' = "CANCELLED"
    /\ Goto(h, "mail")
    /\ UNCHANGED <<report, refunded, paidBack, mailed, contactVars, frame>>

\* Seeded fault: the answer is recorded although the mail server refused it.
MailCaught(h) ==
    /\ pc[h] = "mail"
    /\ Goto(h, "write") /\ UNCHANGED frame
    /\ mailed' = mailed \/ mailed' = mailed \cup {frame[h].report}
    /\ UNCHANGED <<report, reservation, refunded, paidBack, contactVars>>

\* The answer is mailed, or the mail server refuses it and the request fails.  With nobody
\* to mail it to, or no mail server in the settings, the request goes on without.
Mail(h) ==
    LET possible == frame[h].to /\ transport IN
    /\ pc[h] = "mail"
    /\ \/ possible /\ mailed' = mailed \cup {frame[h].report} /\ Goto(h, "write") /\ UNCHANGED frame
       \/ possible /\ mailed' = mailed /\ Finish(h)
       \/ ~possible /\ mailed' = mailed /\ Goto(h, "write") /\ UNCHANGED frame
    /\ UNCHANGED <<report, reservation, refunded, paidBack, contactVars>>

GuestWrite(h) ==
    LET amount == frame[h].amount IN
    /\ pc[h] = "write" /\ frame[h].by = "customer"
    /\ report' = [report EXCEPT ![frame[h].report] = [@ EXCEPT !.amount = amount,
                    !.status = IF amount > 0 THEN "REFUNDED_BY_CHIN_CHIN" ELSE "RESPONSE_SENT"]]
    /\ Finish(h)
    /\ UNCHANGED <<reservation, refunded, paidBack, mailed, contactVars>>

\* markCustomerProblemReportResolved: not before an answer was sent.
Resolve(r) ==
    /\ r \in Rows("customer") \ Pending("customer")
    /\ report' = [report EXCEPT ![r].status = "RESOLVED"]
    /\ UNCHANGED <<reservation, refunded, paidBack, mailed, contactVars, pc, frame>>

\* deleteCustomerAccount: the reservation and the reports lose their customer and address.
DeleteGuest ==
    /\ ~deleted /\ deleted' = TRUE
    /\ UNCHANGED <<report, reservation, refunded, paidBack, mailed, transport, pc, frame>>

-----------------------------------------------------------------------------

Answers(h) ==
    \E r \in Reports, amount \in Amounts : AnswerVenue(h, r, amount) \/ AnswerGuest(h, r, amount)

Next ==
    \/ \E h \in Handlers :
          \/ \E by \in Sides : ReportRead(h, by)
          \/ ReportInsert(h) \/ ReportOverwrite(h)
          \/ Answers(h) \/ RefundRead(h) \/ RefundWrite(h) \/ GuestCancel(h)
          \/ Mail(h) \/ VenueWrite(h) \/ GuestWrite(h)
    \/ \E r \in Reports : Resolve(r)
    \/ DeleteGuest

Spec == Init /\ [][Next]_vars

-----------------------------------------------------------------------------

SupportTypes ==
    /\ \A r \in Reports : report[r].by \in Sides /\ report[r].amount \in Amounts
    /\ refunded \in 0..Captured

\* A guest's report that says money was given back stands for money that was: whatever was
\* answered before, however often, and whichever e-mails were lost in between.  A report
\* that is not pending any more was answered by mail, unless there was no mail server to
\* hand it to, or no guest.
AnsweredReportsHold ==
    \A r \in Reports :
        /\ report[r].status \notin {"NONE", "PENDING"} =>
              r \in mailed \/ ~transport \/ (report[r].by = "customer" /\ deleted)
        /\ report[r].by = "customer" /\ report[r].amount > 0 => paidBack[r] > 0
=============================================================================

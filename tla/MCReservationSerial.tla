-------------------------- MODULE MCReservationSerial --------------------------
(* ReservationPayments for TLC, one handler at a time: with a provider that    *)
(* does its work and every operation support has, and with one that refuses or *)
(* does not answer.  In behaviours of their own, SupportReports.               *)
EXTENDS MCReservationPayments

CONSTANTS s1, s2, s3, NoReport

VARIABLES
    scenario,
    overridden,                             \* support used an administrative override
    report, reservation, paidBack,          \* SupportReports, with refunded, pc and frame
    mailed, transport, deleted

supportVars == <<report, reservation, paidBack, mailed, transport, deleted>>
moneyVars   == <<now, bookingVars, resVars, rows, payStatus, captured, checkouts, provVars, bookVars>>

\* The instance this module extends works; here the provider does not always.
Failing == INSTANCE ReservationPayments WITH
               Ops <- FaultOps, AdminTargets <- {}, Faults <- {"reject", "timeout"}

Support == INSTANCE SupportReports WITH
               Reports <- {s1, s2, s3}, Handlers <- Requests, Captured <- Fee,
               Amounts <- {0, 2, 3}

ASSUME SupportConstants == Support!SupportBounds

\* What a scenario does not use is NoReport for good.
NoSupport ==
    /\ report = NoReport /\ reservation = NoReport /\ paidBack = NoReport
    /\ mailed = NoReport /\ transport = NoReport /\ deleted = NoReport
NoMoney ==
    /\ now = NoReport /\ type = NoReport /\ createdAt = NoReport /\ status = NoReport
    /\ refundCents = NoReport /\ confirmExp = NoReport /\ custIn = NoReport /\ venueIn = NoReport
    /\ rows = NoReport /\ payStatus = NoReport /\ captured = NoReport /\ checkouts = NoReport
    /\ prov = NoReport /\ provRefunded = NoReport /\ ledger = NoReport /\ invoice = NoReport
    /\ verified = NoReport

\* An override may leave a reservation in a state its payments do not match.  Two of them
\* take a single step, the others go on for a while.
Overriding ==
    \E h \in Handlers :
        \/ AdminCancel(h) \/ ProblemResolved(h)
        \/ frame'[h].op \in {"setStatus", "adminCustomerCheckIn", "adminVenueCheckIn"}

SerialInit ==
    /\ overridden = FALSE
    /\ \/ scenario = "working" /\ Init /\ NoSupport
       \/ scenario = "faults" /\ Failing!Init /\ NoSupport
       \/ scenario = "support" /\ Support!Init /\ NoMoney

InMoney(s) == scenario = s /\ UNCHANGED <<scenario, supportVars>>
InSupport  == scenario = "support" /\ UNCHANGED <<scenario, overridden, moneyVars>>

SerialNext ==
    \/ InMoney("working") /\ Next /\ overridden' = (overridden \/ Overriding)
    \/ InMoney("faults") /\ Failing!Next /\ UNCHANGED overridden
    \/ InSupport /\ Support!Next

SerialSpec == SerialInit /\ [][SerialNext]_<<scenario, overridden, supportVars, vars>>

-----------------------------------------------------------------------------

\* Every operation: books and provider agree to the cent once no handler is under way.
SerialBooksExact == scenario = "working" => BooksExact

\* Without overrides, a reservation that is over holds no guest's money.
SagaReleasesFunds == scenario = "working" /\ ~overridden => FundsReleased

\* Without overrides, a table is given away only for money that was captured and kept.
SagaConfirmsPaid == scenario = "working" /\ ~overridden => ConfirmedIsPaid

\* Without overrides, the refund the reservation promises is the one the guest received.
SagaKeepsPromise == scenario = "working" /\ ~overridden => PromiseKept

\* With a provider that refuses or does not answer, wherever the three above fail a row is
\* left in the pending status its handler died in.
RefusalLeavesTrace == scenario = "faults" => Failing!FailureLeavesTrace

\* SupportReports, with mail that is refused, settings without a mail server and guests who
\* delete their account: a report that says money was given back stands for money that was,
\* and none is settled without an answer by mail as long as there is somebody to mail to.
ReportsHold == scenario = "support" => Support!SupportTypes /\ Support!AnsweredReportsHold
=============================================================================

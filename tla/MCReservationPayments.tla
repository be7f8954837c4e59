------------------------ MODULE MCReservationPayments ------------------------
(* Small instances of ReservationPayments for TLC. *)
EXTENDS ReservationPayments, TLC

CONSTANTS p1, p2, r1, r2

MCPayments == {p1, p2}
OnePayment == {p1}

OneRequest  == {r1}
TwoRequests == {r1, r2}

Symmetry == Permutations(MCPayments) \cup Permutations(TwoRequests)
PaymentSymmetry == Permutations(MCPayments)
RequestSymmetry == Permutations(TwoRequests)

\* What guests, venues and support do, without the two administrative
\* overrides that change the status column alone.
SagaOps == AllOps \ {"adminCancel", "setStatus", "problemResolved",
                     "adminCustomerCheckIn", "adminVenueCheckIn"}
\* The same without saved cards and notifications, which only begin a payment
\* in another way.
FaultOps == SagaOps \ {"payStored", "notify"}
\* Everything that moves money, and the override that ends a reservation
\* without looking at its payments; a notification takes the steps of an
\* assertion.
MoneyOps == {"checkout", "payStored", "assert", "accept", "decline",
             "cancelByCustomer", "cancelByVenue", "adminRefund", "adminCancel"}
=============================================================================

-------------------------- MODULE ReservationStatus --------------------------
(***************************************************************************)
(* The status column of Reservation and the groups of statuses the code    *)
(* tests.                                                                  *)
(***************************************************************************)

Terminal == {"CANCELLED", "CANCELLED_BY_USER", "COMPLETED", "DECLINED",
             "EXPIRED", "NO_SHOW", "RELEASED"}
Accepted == {"CONFIRMED", "RESERVED", "CHECK_IN_PENDING"}
Seated   == {"CHECKED_IN", "SEATED"}
Statuses == {"REQUESTED", "PENDING_VENUE_CONFIRMATION"} \cup Accepted \cup Seated \cup Terminal

Types == {"LIVE", "ADVANCE"}
=============================================================================

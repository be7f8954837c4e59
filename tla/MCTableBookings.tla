--------------------------- MODULE MCTableBookings ---------------------------
(* Instances of TableBookings for TLC: five ticks a day, or three. *)
EXTENDS TableBookings, TLC

CONSTANTS r1, r2, c1, c2, h1, h2

TwoReservations == {r1, r2}
TwoChanges == {c1, c2}
OneRequest  == {h1}
TwoRequests == {h1, h2}

RequestSymmetry == Permutations(TwoRequests)

Evening(d)   == [start |-> 5 * d + 3, end |-> 5 * d + 4]
TwoEvenings  == {Evening(0), Evening(1)}
OneEvening   == {Evening(0)}
\* With three ticks a day; the second night's slot crosses midnight, and the other
\* one begins before it ends.
ShortDay     == {[start |-> 2, end |-> 3]}
ShortNight   == {[start |-> 2, end |-> 4], [start |-> 3, end |-> 4]}

BookingOps == {"create", "accept", "decline", "cancelByCustomer", "cancelByVenue",
               "checkIn", "customerCheckIn"}
LivenessOps == {"create", "accept", "checkIn", "customerCheckIn"}
ChangeOps  == {"create", "accept", "cancelByVenue", "customerCheckIn",
               "changeCreate", "changeAccept", "changeDecline"}
=============================================================================

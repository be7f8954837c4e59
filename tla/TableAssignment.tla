--------------------------- MODULE TableAssignment ---------------------------
(***************************************************************************)
(* What the booking of tables promises: on a calendar day a table belongs  *)
(* to at most one reservation, a reservation holds at most one table, and  *)
(* a table changes hands only by being released first.                     *)
(***************************************************************************)
CONSTANTS Reservations, Tables, Days

VARIABLE holds      \* the tables given away: [res, table, day]

Holdings == [res: Reservations, table: Tables, day: Days]

FreeFor(r, t, d, others) == \A a \in others : ~(a.table = t /\ a.day = d) /\ a.res # r

Init == holds = {}

\* A reservation that holds nothing takes a table that is free that day.
Assign == \E a \in Holdings : /\ FreeFor(a.res, a.table, a.day, holds)
                              /\ holds' = holds \cup {a}

\* The holder moves, with the table, to a day on which that table is free.
Move == \E a \in holds, d \in Days :
            /\ FreeFor(a.res, a.table, d, holds \ {a})
            /\ holds' = (holds \ {a}) \cup {[a EXCEPT !.day = d]}

\* Cancellations, no-shows and the end of the night release any number at once.
Release == \E S \in SUBSET holds : holds' = holds \ S

Next == Assign \/ Move \/ Release

Spec == Init /\ [][Next]_holds
=============================================================================

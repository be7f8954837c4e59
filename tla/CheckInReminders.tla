--------------------------- MODULE CheckInReminders ---------------------------
(***************************************************************************)
(* notifyDueCustomerCheckInReminders: guests of ADVANCE reservations are   *)
(* reminded to check in, once when their window is open and once more      *)
(* before it closes.  It runs in each cleanup of the venue - the timer's,  *)
(* and one in each request an owner makes - and after an acceptance, of a  *)
(* request or of a move to another slot; these overlap, so a reminder is   *)
(* claimed with a conditional update before it is pushed.                  *)
(***************************************************************************)
EXTENDS Naturals, FiniteSets

CONSTANTS
    Guests,         \* ADVANCE reservations of one venue
    Owners, Timer,  \* requests of the owner, and the timer
    Slots,          \* the ticks reservations may start at
    OpensBefore, WindowLen,
    FinalBefore,    \* ADVANCE_CUSTOMER_CHECK_IN_FINAL_REMINDER_BEFORE_MINUTES
    BookingTimes,   \* bound: the ticks at which guests book
    LastTick,       \* bound: the last tick of the model, after every slot has begun
    MaxMoves,       \* bound: once moved so often, a reservation is asked to move no more
    None

Policy(s) == INSTANCE ReservationPolicy WITH Fee <- 0, SlotStart <- s, DayStart <- 0, SlotEnd <- s + 1,
                                             UnlockSeen <- s + 1, UnlockUnseen <- s + 1

VARIABLES
    now,
    booking,        \* the reservations
    cleanup,        \* cleanups and answers in flight
    ran,            \* the timer's cleanup of this tick is over
    pushed          \* how often each reminder of a reservation was pushed

vars == <<now, booking, cleanup, ran, pushed>>

Kinds    == {"first", "final"}
Cleanups == Owners \cup {Timer}
Ticks    == 0..LastTick

ReminderIdentities == None \notin Guests \cup Ticks /\ Timer \notin Owners /\ IsFiniteSet(Owners)
ReminderClock == /\ {OpensBefore, WindowLen, FinalBefore, LastTick} \subseteq Nat
                 /\ WindowLen <= OpensBefore
                 /\ \A s \in Slots : s \in Nat /\ OpensBefore <= s /\ s < LastTick

\* What parseSlot makes of a slot asked for at an instant.  The window it stores is the one
\* effectiveCustomerCheckInWindow gives back: it closes after the row was created, if it can.
TermAt(s, t) == LET window == Policy(s)!CustomerCheckInWindowFor(t)
                IN  [slot |-> s, opens |-> window.opens, closes |-> window.closes]
Terms        == {TermAt(s, t) : s \in Slots, t \in Ticks}

\* `asked`: the slot of a pending request to move.  Kept for the properties: when the venue
\* last agreed to the slot (`settled`), how often the reservation was moved, and whether a
\* cleanup had it on its list when it was moved last (`overtaken`).
Rows     == [status: {"NONE", "PENDING_VENUE_CONFIRMATION", "CONFIRMED", "CHECK_IN_PENDING", "ENDED"},
             term: Terms \cup {None}, checkedIn: BOOLEAN, asked: Terms \cup {None},
             first: Ticks \cup {None}, final: Ticks \cup {None},
             settled: Ticks \cup {None}, moves: Nat, overtaken: BOOLEAN]
NoRow    == [status |-> "NONE", term |-> None, checkedIn |-> FALSE, asked |-> None, first |-> None,
             final |-> None, settled |-> None, moves |-> 0, overtaken |-> FALSE]

Steps    == {"idle", "accept", "move", "remind", "final", "pushFinal", "findFirst", "first", "pushFirst"}
\* `guest`: whom the step is about; `to`: the slot a request to move asks for; `blank`:
\* candidates whose first reminder was not claimed when they were read.
Frames   == [step: Steps, clock: Ticks, todo: SUBSET Guests, blank: SUBSET Guests,
             guest: Guests \cup {None}, to: Terms \cup {None}]
Idle     == [step |-> "idle", clock |-> 0, todo |-> {}, blank |-> {}, guest |-> None, to |-> None]

ReminderTypes ==
    /\ now \in Ticks /\ ran \in BOOLEAN
    /\ booking \in [Guests -> Rows]
    /\ cleanup \in [Cleanups -> Frames]
    /\ pushed \in [Guests -> [Kinds -> Nat]]

Init ==
    /\ now = 0 /\ ran = FALSE
    /\ booking = [g \in Guests |-> NoRow]
    /\ cleanup = [c \in Cleanups |-> Idle]
    /\ pushed = [g \in Guests |-> [k \in Kinds |-> 0]]

-----------------------------------------------------------------------------
(* What guests do to a reservation, in one step each: after a check-in or  *)
(* an ending no reminder is due, whatever was read before it was written.  *)

Change(g, row) ==
    booking' = [booking EXCEPT ![g] = row] /\ UNCHANGED <<now, cleanup, ran, pushed>>

Book(g) ==
    /\ booking[g].status = "NONE" /\ now \in BookingTimes
    /\ \E s \in Slots :
          /\ now < s
          /\ Change(g, [NoRow EXCEPT !.status = "PENDING_VENUE_CONFIRMATION", !.term = TermAt(s, now)])

CheckIn(g) ==
    LET b == booking[g] IN
    /\ b.status = "CONFIRMED" /\ ~b.checkedIn /\ b.term.opens <= now /\ now <= b.term.closes
    /\ Change(g, [b EXCEPT !.status = "CHECK_IN_PENDING", !.checkedIn = TRUE])

\* Declined, cancelled, expired or released as a no-show.
End(g) ==
    /\ booking[g].status \in {"PENDING_VENUE_CONFIRMATION", "CONFIRMED", "CHECK_IN_PENDING"}
    /\ Change(g, [booking[g] EXCEPT !.status = "ENDED"])

RequestMove(g) ==
    LET b == booking[g] IN
    /\ b.status = "CONFIRMED" /\ ~b.checkedIn /\ now < b.term.opens /\ b.asked = None
    /\ b.moves < MaxMoves
    /\ \E s \in Slots : s # b.term.slot /\ now < s /\ Change(g, [b EXCEPT !.asked = TermAt(s, now)])

\* The venue declines the move.
DeclineMove(g) ==
    booking[g].asked # None /\ Change(g, [booking[g] EXCEPT !.asked = None])

-----------------------------------------------------------------------------
(* The venue's answers.  The row is read, blockers and payments are looked *)
(* after, and then it is written by id.                                    *)

Set(c, f)  == cleanup' = [cleanup EXCEPT ![c] = f]

\* acceptReservation, acceptReservationTimeChangeRequest: also of a guest who has checked in.
ReadRequest(c, g) ==
    /\ cleanup[c].step = "idle"
    /\ \/ /\ booking[g].status = "PENDING_VENUE_CONFIRMATION" /\ now < booking[g].term.slot
          /\ Set(c, [Idle EXCEPT !.step = "accept", !.guest = g])
       \/ /\ booking[g].asked # None /\ booking[g].status \in {"CONFIRMED", "CHECK_IN_PENDING"}
          /\ Set(c, [Idle EXCEPT !.step = "move", !.guest = g, !.to = booking[g].asked])
    /\ UNCHANGED <<now, booking, ran, pushed>>

\* A blocker, or a payment that is refused.
GiveUp(c) ==
    /\ cleanup[c].step \in {"accept", "move"}
    /\ Set(c, Idle)
    /\ UNCHANGED <<now, booking, ran, pushed>>

AcceptWrite(c) ==
    /\ cleanup[c].step = "accept"
    /\ booking' = [booking EXCEPT ![cleanup[c].guest].status = "CONFIRMED",
                                  ![cleanup[c].guest].settled = now]
    /\ Set(c, [Idle EXCEPT !.step = "remind"])
    /\ UNCHANGED <<now, ran, pushed>>

OnAList(g) == \E c \in Cleanups : g \in cleanup[c].todo

\* Both reminders are due anew for the new slot.
Moved(g, term) == [booking[g] EXCEPT !.term = term, !.asked = None, !.first = None, !.final = None,
                                     !.settled = now, !.moves = @ + 1, !.overtaken = OnAList(g)]

MoveWrite(c) ==
    /\ cleanup[c].step = "move"
    /\ booking' = [booking EXCEPT ![cleanup[c].guest] = Moved(cleanup[c].guest, cleanup[c].to)]
    /\ Set(c, [Idle EXCEPT !.step = "remind"])
    /\ UNCHANGED <<now, ran, pushed>>

-----------------------------------------------------------------------------
(* A cleanup. *)

Awaiting(g) ==
    booking[g].status = "CONFIRMED" /\ ~booking[g].checkedIn /\ booking[g].final = None

\* The query's bounds on timeSlotStart.
Near(term, clock) == clock <= term.slot /\ term.slot <= clock + OpensBefore

FirstDue(term, clock) == Near(term, clock) /\ term.opens <= clock /\ clock <= term.closes
FinalDue(term, clock) == FirstDue(term, clock) /\ term.closes <= clock + FinalBefore

\* `todo`: of the candidates the query finds, those that are due as they were read.
FindFinal(c) ==
    /\ cleanup[c].step \in {"idle", "remind"}
    /\ c = Timer => ~ran
    /\ LET due == {g \in Guests : Awaiting(g) /\ FinalDue(booking[g].term, now)} IN
       Set(c, [Idle EXCEPT !.step = "final", !.clock = now, !.todo = due,
                           !.blank = {g \in due : booking[g].first = None}])
    /\ UNCHANGED <<now, booking, ran, pushed>>

\* Seeded fault: the reminder is claimed by id.
ClaimFinalById(c, g) ==
    /\ cleanup[c].step = "final" /\ g \in cleanup[c].todo
    /\ booking' = [booking EXCEPT ![g].final = cleanup[c].clock,
                      ![g].first = IF g \in cleanup[c].blank THEN cleanup[c].clock ELSE @]
    /\ Set(c, [cleanup[c] EXCEPT !.step = "pushFinal", !.todo = @ \ {g}, !.guest = g])
    /\ UNCHANGED <<now, ran, pushed>>

\* updateMany: only if the row still awaits it.  The slot is not compared.
ClaimFinal(c, g) ==
    /\ cleanup[c].step = "final" /\ g \in cleanup[c].todo
    /\ \/ /\ Awaiting(g)
          /\ booking' = [booking EXCEPT ![g].final = cleanup[c].clock,
                            ![g].first = IF g \in cleanup[c].blank THEN cleanup[c].clock ELSE @]
          /\ Set(c, [cleanup[c] EXCEPT !.step = "pushFinal", !.todo = @ \ {g}, !.guest = g])
       \/ /\ ~Awaiting(g)
          /\ Set(c, [cleanup[c] EXCEPT !.todo = @ \ {g}])
          /\ UNCHANGED booking
    /\ UNCHANGED <<now, ran, pushed>>

FinalsDone(c) ==
    /\ cleanup[c].step = "final" /\ cleanup[c].todo = {}
    /\ Set(c, [cleanup[c] EXCEPT !.step = "findFirst", !.guest = None])
    /\ UNCHANGED <<now, booking, ran, pushed>>

FindFirst(c) ==
    /\ cleanup[c].step = "findFirst"
    /\ Set(c, [cleanup[c] EXCEPT !.step = "first",
           !.todo = {g \in Guests : /\ Awaiting(g) /\ booking[g].first = None
                                    /\ FirstDue(booking[g].term, cleanup[c].clock)}])
    /\ UNCHANGED <<now, booking, ran, pushed>>

ClaimFirst(c, g) ==
    /\ cleanup[c].step = "first" /\ g \in cleanup[c].todo
    /\ \/ /\ Awaiting(g) /\ booking[g].first = None
          /\ booking' = [booking EXCEPT ![g].first = cleanup[c].clock]
          /\ Set(c, [cleanup[c] EXCEPT !.step = "pushFirst", !.todo = @ \ {g}, !.guest = g])
       \/ /\ ~(Awaiting(g) /\ booking[g].first = None)
          /\ Set(c, [cleanup[c] EXCEPT !.todo = @ \ {g}])
          /\ UNCHANGED booking
    /\ UNCHANGED <<now, ran, pushed>>

\* notifyCustomer; whether the device shows it is DeviceTokens' matter.
Push(c) ==
    /\ cleanup[c].step \in {"pushFinal", "pushFirst"}
    /\ LET kind == IF cleanup[c].step = "pushFinal" THEN "final" ELSE "first" IN
       /\ pushed' = [pushed EXCEPT ![cleanup[c].guest][kind] = @ + 1]
       /\ Set(c, [cleanup[c] EXCEPT !.step = kind, !.guest = None])
    /\ UNCHANGED <<now, booking, ran>>

FirstsDone(c) ==
    /\ cleanup[c].step = "first" /\ cleanup[c].todo = {}
    /\ Set(c, Idle)
    /\ ran' = (ran \/ c = Timer)
    /\ UNCHANGED <<now, booking, pushed>>

\* The process dies; the timer starts again with the next process.
Crash ==
    /\ \E c \in Cleanups : cleanup[c].step # "idle"
    /\ cleanup' = [c \in Cleanups |-> Idle]
    /\ UNCHANGED <<now, booking, ran, pushed>>

\* The timer fires every minute and windows are hours: it runs in every tick.
Tick ==
    /\ now < LastTick /\ ran /\ cleanup[Timer] = Idle
    /\ now' = now + 1 /\ ran' = FALSE
    /\ UNCHANGED <<booking, cleanup, pushed>>

-----------------------------------------------------------------------------

Clean(c) ==
    \/ FindFinal(c) \/ FinalsDone(c) \/ FindFirst(c) \/ Push(c) \/ FirstsDone(c)
    \/ \E g \in Guests : ClaimFinal(c, g) \/ ClaimFirst(c, g)

Answer(c) ==
    GiveUp(c) \/ AcceptWrite(c) \/ MoveWrite(c) \/ \E g \in Guests : ReadRequest(c, g)

Next ==
    \/ \E g \in Guests : Book(g) \/ CheckIn(g) \/ End(g) \/ RequestMove(g) \/ DeclineMove(g)
    \/ \E c \in Owners : Answer(c)
    \/ \E c \in Cleanups : Clean(c)
    \/ Crash \/ Tick

Spec == Init /\ [][Next]_vars

-----------------------------------------------------------------------------

\* However cleanups, answers and moves overlap and wherever the process dies, a guest is
\* sent each of the two reminders at most once for every slot the reservation has had.
RemindedOnce == \A g \in Guests, k \in Kinds : pushed[g][k] <= 1 + booking[g].moves

\* A guest with whom the venue agreed on a slot while there was still a tick of its check-in
\* window to come, and who neither checked in nor lost the table, has had a reminder
\* claimed while that window was open, wherever the process dies - unless the reservation
\* was moved while a cleanup had it on its list: the claim then marks the new slot.
NobodyForgotten ==
    \A g \in Guests :
        LET b == booking[g] IN
        /\ b.status = "CONFIRMED" /\ ~b.checkedIn /\ ~b.overtaken
        /\ b.settled < b.term.closes /\ b.term.closes < now
        => b.first # None /\ b.term.opens <= b.first /\ b.first <= b.term.closes
=============================================================================

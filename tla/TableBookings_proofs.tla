------------------------- MODULE TableBookings_proofs -------------------------
(***************************************************************************)
(* Proofs about TableBookings: types for every number of handlers in       *)
(* flight; tables for handlers served one at a time (MaxActive = 1), with  *)
(* any number of guests, tables, slots, reservations and time changes.     *)
(***************************************************************************)
EXTENDS TableBookings, FiniteSetTheorems, TLAPS

-----------------------------------------------------------------------------
(* The inductive invariant of every interleaving: what a frame holds.      *)

CleanupLabels == {"expFind", "expWrite", "arrFind", "arrWrite", "nightFind", "nightWrite"}
CreateLabels  == {"createBlockers", "createDaily", "createWrite"}
AcceptLabels  == {"acceptRead", "acceptExpire", "acceptBlockers", "capture", "acceptWrite", "compete"}
EndLabels     == {"endWrite", "usageRead", "venueCancelWrite"}
AnswerLabels  == {"changeAcceptBlockers", "changeAccept"}
Ends          == {"DECLINED", "CANCELLED_BY_USER", "CANCELLED"}

\* The operations that are about a reservation from their first step on.
AboutReservation == {"accept", "checkIn", "customerCheckIn"}

\* What the frame of a handler holds, wherever the handler is.
FieldsGood(f) ==
    /\ f \in Frames
    /\ f.ret \in {"idle", "arrFind", "compete"}
    /\ f.ret = "arrFind" => f.op \in DOMAIN AfterCleanup
    /\ f.ret = "compete" => f.op = "accept"
    /\ f.op \in AboutReservation => f.res \in Reservations
    /\ f.op = "create" => f.draft.status = "REQUESTED"

\* What it holds at label l.
LabelGood(l, f) ==
    /\ l \in Labels
    /\ l = "idle" => f = IdleFrame
    /\ l \in CleanupLabels => f.op \in DOMAIN AfterCleanup
    /\ l \in CreateLabels => f.op = "create"
    /\ l \in AcceptLabels => f.op = "accept"
    /\ l \in {"checkInRead", "checkInWrite"} => f.op = "checkIn"
    /\ l \in {"customerCheckInRead", "customerCheckInWrite"} => f.op = "customerCheckIn"
    /\ l \in EndLabels => f.target \in Ends
    /\ l \in {"changeBlockers", "changeCreate"} \cup AnswerLabels => f.res \in Reservations
    /\ l \in {"changeDecline"} \cup AnswerLabels => f.change \in Changes

FrameGood(l, f) == FieldsGood(f) /\ LabelGood(l, f)

ControlInv ==
    /\ pc \in [Handlers -> Labels]
    /\ frame \in [Handlers -> Frames]
    /\ \A h \in Handlers : FrameGood(pc[h], frame[h])

RowsTyped ==
    /\ now \in Nat
    /\ booking \in [Reservations -> Bookings]
    /\ pay \in [Reservations -> PayStates]
    /\ change \in [Changes -> ChangeRows]
    /\ \A c \in Changes : change[c].status = "PENDING" => change[c].res \in Reservations
    /\ penalties \in [Weeks -> Nat]

TInv == RowsTyped /\ ControlInv

-----------------------------------------------------------------------------
(* Records.                                                                *)

\* Values that are chosen from a set that is not empty are in it.
LEMMA NoBookingTyped == NoBooking \in Bookings /\ NoBooking.slot \in Slots
<1>1. PICK g \in Guests : g = CHOOSE x \in Guests : TRUE
  BY IdentityAssumption
<1>2. PICK t \in Tables : t = CHOOSE x \in Tables : TRUE
  BY IdentityAssumption
<1>3. PICK s \in Slots : s = CHOOSE x \in Slots : TRUE
  BY CalendarAssumption
<1> QED
  BY <1>1, <1>2, <1>3 DEF NoBooking, Bookings, Types, Windows, NoTime

LEMMA IdleFrameGood == FrameGood("idle", IdleFrame) /\ IdleFrame \in Frames
<1>1. IdleFrame \in Frames
  BY NoBookingTyped DEF IdleFrame, Frames, Labels
<1>2. IdleFrame.op = "none" /\ IdleFrame.ret = "idle"
  BY DEF IdleFrame
<1>3. FieldsGood(IdleFrame)
  BY <1>1, <1>2 DEF FieldsGood, AboutReservation
<1>4. LabelGood("idle", IdleFrame)
  BY DEF LabelGood, Labels, CleanupLabels, CreateLabels, AcceptLabels, EndLabels, AnswerLabels
<1> QED
  BY <1>1, <1>3, <1>4 DEF FrameGood

\* The fields of a frame.
LEMMA FrameFields ==
    ASSUME NEW f \in Frames
    PROVE  /\ f.op \in AllOps \cup {"none", "cleanup"} /\ f.ret \in Labels
           /\ f.res \in Reservations \cup {None} /\ f.change \in Changes \cup {None}
           /\ f.hit \in SUBSET Reservations /\ f.todo \in SUBSET Reservations
           /\ f.target \in Statuses \cup {"NONE"} /\ f.draft \in Bookings
BY DEF Frames

\* Replacing the rows it found, its return label, its target keeps a frame in range.
LEMMA FrameWith ==
    ASSUME NEW f \in Frames
    PROVE  /\ \A S \in SUBSET Reservations : [f EXCEPT !.hit = S] \in Frames
           /\ \A S \in SUBSET Reservations : [f EXCEPT !.todo = S] \in Frames
           /\ \A l \in Labels : [f EXCEPT !.ret = l] \in Frames
           /\ \A t \in Statuses : [f EXCEPT !.target = t] \in Frames
           /\ \A o \in AllOps \cup {"none", "cleanup"} : [f EXCEPT !.op = o] \in Frames
           /\ \A r \in Reservations : [f EXCEPT !.res = r] \in Frames
           /\ \A c \in Changes : [f EXCEPT !.change = c] \in Frames
           /\ \A b \in Bookings : [f EXCEPT !.draft = b] \in Frames
BY DEF Frames

-----------------------------------------------------------------------------
(* Control: one handler moves, the others stay.                            *)

\* Whatever handler h is replaced by, if it is good all handlers are.
LEMMA HandlerMoves ==
    ASSUME ControlInv, NEW h \in Handlers, NEW l, NEW f, FrameGood(l, f),
           pc' = [pc EXCEPT ![h] = l], frame' = [frame EXCEPT ![h] = f]
    PROVE  ControlInv'
<1>1. \A k \in Handlers : /\ pc'[k] = (IF k = h THEN l ELSE pc[k])
                          /\ frame'[k] = (IF k = h THEN f ELSE frame[k])
  BY DEF ControlInv
<1>2. \A k \in Handlers : FrameGood(pc'[k], frame'[k])
  BY <1>1 DEF ControlInv
<1>3. l \in Labels /\ f \in Frames
  BY DEF FrameGood, FieldsGood, LabelGood
<1>4. pc' \in [Handlers -> Labels] /\ frame' \in [Handlers -> Frames]
  BY <1>3 DEF ControlInv
<1> QED
  BY <1>2, <1>4 DEF ControlInv

\* What a handler knows.
LEMMA HandlerKnows ==
    ASSUME ControlInv, NEW h \in Handlers
    PROVE  /\ frame[h] \in Frames /\ FieldsGood(frame[h]) /\ LabelGood(pc[h], frame[h])
           /\ pc[h] \in Labels
           /\ frame = [frame EXCEPT ![h] = frame[h]]
BY DEF ControlInv, FrameGood

\* The handler ends.
LEMMA HandlerFinishes ==
    ASSUME ControlInv, NEW h \in Handlers, Finish(h)
    PROVE  ControlInv'
BY IdleFrameGood, HandlerMoves DEF Finish, Goto

\* The handler goes on to a label that its frame is good for.
LEMMA HandlerGoes ==
    ASSUME ControlInv, NEW h \in Handlers, NEW l, LabelGood(l, frame[h]),
           Goto(h, l), UNCHANGED frame
    PROVE  ControlInv'
BY HandlerKnows, HandlerMoves DEF Goto, FrameGood

\* The cleanup ends and its caller goes on.
LEMMA CleanupEnds ==
    ASSUME ControlInv, NEW h \in Handlers, pc[h] \in CleanupLabels, CleanupDone(h)
    PROVE  ControlInv'
<1> DEFINE next == AfterCleanup[frame[h].op]
           f == [frame[h] EXCEPT !.hit = {}]
<1>1. frame[h] \in Frames /\ FieldsGood(frame[h]) /\ frame[h].op \in DOMAIN AfterCleanup
  BY HandlerKnows DEF LabelGood
<1>2. CASE next = "idle"
  BY <1>2, HandlerFinishes DEF CleanupDone
<1>3. CASE next # "idle"
  <2>1. f \in Frames
    BY <1>1, FrameWith
  <2>2. /\ f.op = frame[h].op /\ f.ret = frame[h].ret /\ f.res = frame[h].res
        /\ f.draft = frame[h].draft
    BY <1>1 DEF Frames
  <2>3. pc' = [pc EXCEPT ![h] = next] /\ frame' = [frame EXCEPT ![h] = f]
    BY <1>3 DEF CleanupDone, Goto
  <2>4. \/ f.op = "create" /\ next = "createBlockers"
        \/ f.op = "accept" /\ next = "acceptRead"
        \/ f.op = "checkIn" /\ next = "checkInRead"
        \/ f.op = "customerCheckIn" /\ next = "customerCheckInRead"
    BY <1>1, <1>3, <2>2 DEF AfterCleanup
  <2> HIDE DEF f, next
  <2>5. FieldsGood(f)
    BY <1>1, <2>1, <2>2 DEF FieldsGood
  <2>6. LabelGood(next, f)
    BY <2>4 DEF LabelGood, Labels, CleanupLabels, CreateLabels, AcceptLabels, EndLabels, AnswerLabels
  <2> QED
    BY <2>3, <2>5, <2>6, HandlerMoves DEF FrameGood
<1> QED
  BY <1>2, <1>3

\* A handler that keeps everything the invariant speaks of but its label, the rows
\* it found, the competitors left and its target.
LEMMA HandlerCarries ==
    ASSUME ControlInv, NEW h \in Handlers, NEW l, NEW f \in Frames,
           f.op = frame[h].op, f.res = frame[h].res, f.draft = frame[h].draft,
           f.change = frame[h].change,
           f.ret \in {"idle", "arrFind", "compete"},
           f.ret = "arrFind" => f.op \in DOMAIN AfterCleanup,
           f.ret = "compete" => f.op = "accept",
           LabelGood(l, f),
           Goto(h, l), frame' = [frame EXCEPT ![h] = f]
    PROVE  ControlInv'
<1>1. FieldsGood(f)
  BY HandlerKnows DEF FieldsGood
<1> QED
  BY <1>1, HandlerMoves DEF Goto, FrameGood

\* A request enters with frame f.
LEMMA HandlerBegins ==
    ASSUME ControlInv, NEW h \in Handlers, NEW o, NEW l, NEW f \in Frames, Begin(h, o, l, f),
           f.ret = "idle",
           o \in AboutReservation => f.res \in Reservations,
           o = "create" => f.draft.status = "REQUESTED",
           LabelGood(l, [f EXCEPT !.op = o])
    PROVE  ControlInv'
<1> DEFINE g == [f EXCEPT !.op = o]
<1>1. o \in AllOps
  BY IdentityAssumption DEF Begin
<1>2. g \in Frames
  BY <1>1, FrameWith
<1>3. g.op = o /\ g.ret = f.ret /\ g.res = f.res /\ g.draft = f.draft
  BY DEF Frames
<1>4. pc' = [pc EXCEPT ![h] = l] /\ frame' = [frame EXCEPT ![h] = g]
  BY DEF Begin, Goto
<1>5. LabelGood(l, g)
  OBVIOUS
<1> HIDE DEF g
<1>6. FieldsGood(g)
  BY <1>2, <1>3 DEF FieldsGood
<1> QED
  BY <1>4, <1>5, <1>6, HandlerMoves DEF FrameGood

-----------------------------------------------------------------------------
(* Rows keep their ranges.                                                 *)

LEMMA RowsStay == ASSUME RowsTyped, DatabaseUnchanged PROVE RowsTyped'
BY DEF RowsTyped, DatabaseUnchanged

\* Only booking rows are written.
LEMMA BookingWritten ==
    ASSUME RowsTyped, booking' \in [Reservations -> Bookings],
           UNCHANGED <<now, pay, change, penalties>>
    PROVE  RowsTyped'
BY DEF RowsTyped

\* A row stays one when its status, deadline, check-ins, slot or window change.
LEMMA RowWith ==
    ASSUME NEW b \in Bookings
    PROVE  /\ \A s \in Statuses : [b EXCEPT !.status = s] \in Bookings
           /\ \A t \in {NoTime} \cup Nat : [b EXCEPT !.confirmExp = t] \in Bookings
           /\ [b EXCEPT !.custIn = TRUE] \in Bookings
           /\ [b EXCEPT !.venueIn = TRUE] \in Bookings
           /\ \A s \in Slots : [b EXCEPT !.slot = s] \in Bookings
           /\ \A w \in Windows : [b EXCEPT !.window = w] \in Bookings
           /\ b.slot \in Slots /\ b.table \in Tables /\ b.guest \in Guests /\ b.type \in Types
           /\ b.window \in Windows /\ b.confirmExp \in {NoTime} \cup Nat
BY DEF Bookings

\* updateMany of the status.
LEMMA StatusWritten ==
    ASSUME RowsTyped, NEW S, NEW new \in Statuses, SetStatus(S, new)
    PROVE  booking' \in [Reservations -> Bookings]
<1>1. \A r \in Reservations : [booking[r] EXCEPT !.status = new] \in Bookings
  BY RowWith DEF RowsTyped
<1> QED
  BY <1>1 DEF SetStatus, RowsTyped

\* The window a reservation is made with, and the night lock, are instants.
LEMMA RulesTyped ==
    ASSUME NEW s \in Slots, NEW t \in Int
    PROVE  Rules(s)!CustomerCheckInWindowFor(t) \in Windows
<1>1. s.start \in Int /\ OpensBefore \in Int /\ WindowLen \in Int
  BY CalendarAssumption
<1>2. Rules(s)!CustomerCheckInClosesAt \in Int /\ Rules(s)!CustomerCheckInOpensAt \in Int
  BY <1>1 DEF Rules!CustomerCheckInClosesAt, Rules!CustomerCheckInOpensAt
<1>3. Rules(s)!SmallerOf(t + WindowLen, s.start) \in Int
  BY <1>1 DEF Rules!SmallerOf
<1> QED
  BY <1>2, <1>3 DEF Rules!CustomerCheckInWindowFor, Windows

LEMMA NightLockTyped ==
    ASSUME NEW s \in Slots, NEW seen
    PROVE  Rules(s)!NightLockUntil(seen) \in Int
<1>1. s.start \in Int /\ DayLen \in Nat \ {0} /\ SeenUnlock \in Int /\ UnseenUnlock \in Int
  BY CalendarAssumption
<1>2. DayOf(s.start) \in Int
  BY <1>1 DEF DayOf
<1>3. NextDayOf(s.start) \in Int
  BY <1>1, <1>2 DEF NextDayOf, DayStartOf
<1> QED
  BY <1>1, <1>3 DEF Rules!NightLockUntil

\* What a guest asks for is a row.
LEMMA DraftTyped ==
    ASSUME now \in Nat, NEW g \in Guests, NEW t \in Tables, NEW s \in Slots, NEW ty \in Types,
           NEW d, d = Draft(g, t, s, ty)
    PROVE  d \in Bookings /\ d.status = "REQUESTED" /\ d.table = t /\ d.slot = s
<1>1. Rules(s)!CustomerCheckInWindowFor(now) \in Windows
  BY RulesTyped
<1> QED
  BY <1>1 DEF Draft, Bookings, Statuses, NoTime

-----------------------------------------------------------------------------
(* Every step keeps the types: the cleanup.                                *)

\* A release found its rows, or nothing.
LEMMA FoundKeeps ==
    ASSUME TInv, NEW h \in Handlers, pc[h] \in CleanupLabels, NEW S \in SUBSET Reservations,
           NEW write \in CleanupLabels, NEW next \in CleanupLabels, Found(h, S, write, next)
    PROVE  TInv'
<1> USE DEF TInv
<1>1. RowsTyped'
  BY RowsStay DEF Found
<1>2. CASE S = {}
  <2>1. LabelGood(next, frame[h])
    BY HandlerKnows DEF LabelGood, Labels, CleanupLabels, CreateLabels, AcceptLabels, EndLabels, AnswerLabels
  <2> QED
    BY <1>1, <1>2, <2>1, HandlerGoes DEF Found
<1>3. CASE S # {}
  <2> DEFINE f == [frame[h] EXCEPT !.hit = S]
  <2>1. frame[h] \in Frames
    BY HandlerKnows
  <2>2. f \in Frames
    BY <2>1, FrameWith
  <2>3. /\ f.op = frame[h].op /\ f.ret = frame[h].ret /\ f.res = frame[h].res
        /\ f.draft = frame[h].draft /\ f.change = frame[h].change
    BY <2>1 DEF Frames
  <2>4. Goto(h, write) /\ frame' = [frame EXCEPT ![h] = f]
    BY <1>3 DEF Found
  <2>5. f.op \in DOMAIN AfterCleanup
    BY <2>3, HandlerKnows DEF LabelGood
  <2> HIDE DEF f
  <2>6. LabelGood(write, f)
    BY <2>5 DEF LabelGood, Labels, CleanupLabels, CreateLabels, AcceptLabels, EndLabels, AnswerLabels
  <2>7. FieldsGood(f)
    BY <2>2, <2>3, HandlerKnows DEF FieldsGood
  <2> QED
    BY <1>1, <2>4, <2>6, <2>7, HandlerMoves DEF FrameGood, Goto
<1> QED
  BY <1>2, <1>3

LEMMA ExpireFindKeeps == ASSUME TInv, NEW h \in Handlers, ExpireFind(h) PROVE TInv'
<1>1. {r \in Booked : ConfirmationExpired(r)} \in SUBSET Reservations
  BY DEF Booked
<1> QED
  BY <1>1, FoundKeeps DEF ExpireFind, CleanupLabels

LEMMA ArrivalFindKeeps == ASSUME TInv, NEW h \in Handlers, ArrivalFind(h) PROVE TInv'
<1>1. {r \in Booked : ArrivalLockExpired(r)} \in SUBSET Reservations
  BY DEF Booked
<1> QED
  BY <1>1, FoundKeeps DEF ArrivalFind, CleanupLabels

LEMMA ExpireWriteKeeps == ASSUME TInv, NEW h \in Handlers, ExpireWrite(h) PROVE TInv'
<1> USE DEF TInv
<1>1. RowsTyped'
  <2>1. "EXPIRED" \in Statuses
    BY DEF Statuses, Terminal
  <2> QED
    BY <2>1, StatusWritten, BookingWritten DEF ExpireWrite
<1> DEFINE f == [frame[h] EXCEPT !.ret = "arrFind"]
<1>2. frame[h] \in Frames /\ FieldsGood(frame[h]) /\ frame[h].op \in DOMAIN AfterCleanup
  BY HandlerKnows DEF ExpireWrite, LabelGood, CleanupLabels
<1>3. "arrFind" \in Labels
  BY DEF Labels
<1>4. f \in Frames
  BY <1>2, <1>3, FrameWith
<1>5. /\ f.op = frame[h].op /\ f.ret = "arrFind" /\ f.res = frame[h].res
      /\ f.draft = frame[h].draft
  BY <1>2 DEF Frames
<1>6. Goto(h, "void") /\ frame' = [frame EXCEPT ![h] = f]
  BY DEF ExpireWrite
<1> HIDE DEF f
<1>7. LabelGood("void", f)
  BY DEF LabelGood, Labels, CleanupLabels, CreateLabels, AcceptLabels, EndLabels, AnswerLabels
<1>8. FieldsGood(f)
  BY <1>2, <1>4, <1>5 DEF FieldsGood
<1> QED
  BY <1>1, <1>6, <1>7, <1>8, HandlerMoves DEF FrameGood, Goto

LEMMA ArrivalWriteKeeps == ASSUME TInv, NEW h \in Handlers, ArrivalWrite(h) PROVE TInv'
<1> USE DEF TInv
<1>1. RowsTyped'
  <2>1. "NO_SHOW" \in Statuses
    BY DEF Statuses, Terminal
  <2> QED
    BY <2>1, StatusWritten, BookingWritten DEF ArrivalWrite
<1>2. LabelGood("nightFind", frame[h])
  BY HandlerKnows DEF ArrivalWrite, LabelGood, Labels, CleanupLabels, CreateLabels, AcceptLabels,
     EndLabels, AnswerLabels
<1> QED
  BY <1>1, <1>2, HandlerGoes, HandlerFinishes DEF ArrivalWrite

LEMMA NightFindKeeps == ASSUME TInv, NEW h \in Handlers, NightFind(h) PROVE TInv'
<1> DEFINE over == {r \in Booked : booking[r].status \in Seated /\ NightLock(r) <= now}
<1>1. over \in SUBSET Reservations
  BY DEF Booked
<1>2. CASE over = {}
  BY <1>2, RowsStay, CleanupEnds DEF NightFind, TInv, CleanupLabels
<1>3. CASE over # {}
  <2>1. Found(h, over, "nightWrite", "nightFind")
    BY <1>3 DEF NightFind, Found
  <2> QED
    BY <1>1, <2>1, FoundKeeps DEF NightFind, CleanupLabels
<1> QED
  BY <1>2, <1>3

LEMMA NightWriteKeeps == ASSUME TInv, NEW h \in Handlers, NightWrite(h) PROVE TInv'
<1> USE DEF TInv
<1>1. RowsTyped'
  <2>1. "COMPLETED" \in Statuses
    BY DEF Statuses, Terminal
  <2> QED
    BY <2>1, StatusWritten, BookingWritten DEF NightWrite
<1> QED
  BY <1>1, CleanupEnds DEF NightWrite, CleanupLabels

LEMMA CleanupBeginKeeps == ASSUME TInv, NEW h \in Handlers, CleanupBegin(h) PROVE TInv'
<1> USE DEF TInv
<1>1. RowsTyped'
  BY RowsStay DEF CleanupBegin
<1>2. frame[h] = IdleFrame /\ frame[h] \in Frames
  BY HandlerKnows DEF CleanupBegin, Idle, LabelGood
<1>3. ASSUME NEW f \in Frames, FieldsGood(f), f.op \in DOMAIN AfterCleanup,
             frame' = [frame EXCEPT ![h] = f]
      PROVE  ControlInv'
  <2>1. LabelGood("expFind", f)
    BY <1>3 DEF LabelGood, Labels, CleanupLabels, CreateLabels, AcceptLabels, EndLabels, AnswerLabels
  <2> QED
    BY <1>3, <2>1, HandlerMoves DEF FrameGood, CleanupBegin, Goto
<1>4. CASE frame' = [frame EXCEPT ![h].op = "cleanup"]
  <2> DEFINE f == [frame[h] EXCEPT !.op = "cleanup"]
  <2>1. f \in Frames
    BY <1>2, FrameWith
  <2>2. f.op = "cleanup" /\ f.ret = "idle"
    BY <1>2 DEF Frames, IdleFrame
  <2>3. frame' = [frame EXCEPT ![h] = f]
    BY <1>4
  <2> HIDE DEF f
  <2>4. FieldsGood(f)
    BY <2>1, <2>2 DEF FieldsGood, AboutReservation
  <2> QED
    BY <1>1, <1>3, <2>1, <2>2, <2>3, <2>4 DEF AfterCleanup
<1>5. ASSUME NEW o \in (Ops \cap DOMAIN AfterCleanup) \ {"create"}, NEW r \in Booked,
             frame' = [frame EXCEPT ![h].op = o, ![h].res = r]
      PROVE  TInv'
  <2> DEFINE f == [frame[h] EXCEPT !.op = o, !.res = r]
             e == [frame[h] EXCEPT !.op = o]
  <2>1. r \in Reservations /\ o \in AllOps
    BY IdentityAssumption DEF Booked
  <2>2. e \in Frames /\ e.op = o /\ e.ret = "idle"
    BY <1>2, <2>1, FrameWith DEF IdleFrame, Frames
  <2>3. f = [e EXCEPT !.res = r]
    OBVIOUS
  <2>4. frame' = [frame EXCEPT ![h] = f]
    BY <1>5
  <2> HIDE DEF e
  <2>5. [e EXCEPT !.res = r] \in Frames
    BY <2>1, <2>2, FrameWith
  <2>6. [e EXCEPT !.res = r].op = o /\ [e EXCEPT !.res = r].ret = "idle" /\ [e EXCEPT !.res = r].res = r
    BY <2>2 DEF Frames
  <2> HIDE DEF f
  <2>7. FieldsGood(f)
    BY <2>1, <2>3, <2>5, <2>6 DEF FieldsGood
  <2> QED
    BY <1>1, <1>3, <2>3, <2>4, <2>5, <2>6, <2>7
<1> QED
  BY <1>4, <1>5 DEF CleanupBegin

LEMMA VoidKeeps == ASSUME TInv, NEW h \in Handlers, Void(h) PROVE TInv'
<1> USE DEF TInv
<1> DEFINE due == {r \in frame[h].hit : pay[r] \in {"open", "authorized"}}
           f   == [frame[h] EXCEPT !.hit = {}, !.ret = "idle"]
           e   == [frame[h] EXCEPT !.hit = {}]
<1> DEFINE back == frame[h].ret # "idle"
           done == [frame EXCEPT ![h].hit = {}, ![h].ret = "idle"]
<1>a. PICK refused \in SUBSET {r \in due : Refusals /\ pay[r] = "authorized"} :
         /\ pay' = [r \in Reservations |-> IF r \in refused THEN "parked"
                                           ELSE IF r \in due THEN "voided" ELSE pay[r]]
         /\ IF back /\ (refused = {} \/ frame[h].ret = "compete")
            THEN Goto(h, frame[h].ret) /\ frame' = done
            ELSE Finish(h)
  BY DEF Void
<1>b. done = [frame EXCEPT ![h] = f]
  OBVIOUS
<1>1. /\ pay' = [r \in Reservations |-> IF r \in refused THEN "parked"
                                           ELSE IF r \in due THEN "voided" ELSE pay[r]]
      /\ IF frame[h].ret # "idle" /\ (refused = {} \/ frame[h].ret = "compete")
         THEN Goto(h, frame[h].ret) /\ frame' = [frame EXCEPT ![h] = f]
         ELSE Finish(h)
  <2> HIDE DEF f, due
  <2> QED
    BY <1>a, <1>b
<1>2. RowsTyped'
  <2>1. pay' \in [Reservations -> PayStates]
    BY <1>1 DEF RowsTyped, PayStates
  <2> QED
    BY <2>1 DEF RowsTyped, Void
<1>3. frame[h] \in Frames /\ FieldsGood(frame[h])
  BY HandlerKnows
<1>4. CASE Finish(h)
  BY <1>2, <1>4, HandlerFinishes
<1>5. CASE frame[h].ret # "idle" /\ Goto(h, frame[h].ret) /\ frame' = [frame EXCEPT ![h] = f]
  <2>1. e \in Frames
    BY <1>3, FrameWith
  <2>2. f = [e EXCEPT !.ret = "idle"]
    OBVIOUS
  <2>3. /\ e.op = frame[h].op /\ e.res = frame[h].res /\ e.draft = frame[h].draft
        /\ e.change = frame[h].change
    BY <1>3 DEF Frames
  <2> HIDE DEF e
  <2>4. f \in Frames
    BY <2>1, <2>2, FrameWith DEF Labels
  <2>5. /\ f.op = e.op /\ f.res = e.res /\ f.draft = e.draft /\ f.change = e.change
        /\ f.ret = "idle"
    BY <2>1, <2>2 DEF Frames
  <2> HIDE DEF f
  <2>6. \/ frame[h].ret = "arrFind" /\ f.op \in DOMAIN AfterCleanup
        \/ frame[h].ret = "compete" /\ f.op = "accept"
    BY <1>3, <1>5, <2>3, <2>5 DEF FieldsGood
  <2>7. LabelGood(frame[h].ret, f)
    BY <2>6 DEF LabelGood, Labels, CleanupLabels, CreateLabels, AcceptLabels, EndLabels, AnswerLabels
  <2> QED
    BY <1>2, <1>5, <2>3, <2>4, <2>5, <2>7, HandlerCarries
<1> QED
  BY <1>1, <1>4, <1>5

-----------------------------------------------------------------------------
(* Creation and payment.                                                   *)

LEMMA CreateBeginKeeps == ASSUME TInv, NEW h \in Handlers, CreateBegin(h) PROVE TInv'
<1> USE DEF TInv
<1>1. PICK g \in Guests, t \in Tables, s \in Slots, ty \in BookableTypes :
         /\ Begin(h, "create", "expFind", [IdleFrame EXCEPT !.draft = Draft(g, t, s, ty)])
         /\ DatabaseUnchanged
  BY DEF CreateBegin
<1> DEFINE d == Draft(g, t, s, ty)
           f == [IdleFrame EXCEPT !.draft = d]
           k == [f EXCEPT !.op = "create"]
<1>2. d \in Bookings /\ d.status = "REQUESTED"
  BY DraftTyped, IdentityAssumption DEF RowsTyped
<1> HIDE DEF d
<1>3. f \in Frames /\ f.ret = "idle" /\ f.draft = d
  <2>1. f \in Frames
    BY <1>2, IdleFrameGood, FrameWith
  <2> QED
    BY <2>1 DEF IdleFrame
<1>4. k.op = "create"
  BY <1>3 DEF Frames
<1>5. Begin(h, "create", "expFind", f)
  BY <1>1 DEF d
<1> HIDE DEF f, k
<1>6. LabelGood("expFind", k)
  BY <1>4 DEF LabelGood, Labels, CleanupLabels, CreateLabels, AcceptLabels, EndLabels, AnswerLabels,
     AfterCleanup
<1>7. LabelGood("expFind", [f EXCEPT !.op = "create"])
  BY <1>6 DEF k
<1>8. ControlInv'
  BY <1>2, <1>3, <1>5, <1>7, HandlerBegins DEF AboutReservation
<1> QED
  BY <1>1, <1>8, RowsStay

\* A test that lets the handler go on to a label, or ends it.
LEMMA TestKeeps ==
    ASSUME TInv, NEW h \in Handlers, NEW l, LabelGood(l, frame[h]),
           \/ Goto(h, l) /\ UNCHANGED frame
           \/ Finish(h),
           DatabaseUnchanged
    PROVE  TInv'
BY RowsStay, HandlerGoes, HandlerFinishes DEF TInv

LEMMA CreateTestsKeep ==
    ASSUME TInv, NEW h \in Handlers, CreateBlockers(h) \/ CreateDaily(h)
    PROVE  TInv'
<1>1. LabelGood("createDaily", frame[h]) /\ LabelGood("createWrite", frame[h])
  BY HandlerKnows DEF TInv, CreateBlockers, CreateDaily, LabelGood, Labels, CleanupLabels,
     CreateLabels, AcceptLabels, EndLabels, AnswerLabels
<1> QED
  BY <1>1, TestKeeps DEF CreateBlockers, CreateDaily

LEMMA CreateWriteKeeps == ASSUME TInv, NEW h \in Handlers, CreateWrite(h) PROVE TInv'
<1> USE DEF TInv
<1>1. frame[h].draft \in Bookings
  BY HandlerKnows, FrameFields
<1>2. booking' \in [Reservations -> Bookings]
  BY <1>1 DEF CreateWrite, RowsTyped
<1> QED
  BY <1>2, BookingWritten, HandlerFinishes DEF CreateWrite

\* A row in another status, with or without a deadline, is a row.
LEMMA RowMarked ==
    ASSUME NEW b \in Bookings, NEW st \in Statuses, NEW t \in {NoTime} \cup Nat
    PROVE  [b EXCEPT !.status = st, !.confirmExp = t] \in Bookings
<1> DEFINE e == [b EXCEPT !.status = st]
<1>1. e \in Bookings
  BY RowWith
<1>2. [b EXCEPT !.status = st, !.confirmExp = t] = [e EXCEPT !.confirmExp = t]
  OBVIOUS
<1> HIDE DEF e
<1> QED
  BY <1>1, <1>2, RowWith

\* Checkout and claim write one row and its payment.
LEMMA PaidKeeps ==
    ASSUME TInv, NEW r \in Reservations, NEW st \in Statuses, NEW t \in {NoTime} \cup Nat,
           NEW p \in PayStates,
           pay' = [pay EXCEPT ![r] = p],
           booking' = [booking EXCEPT ![r].status = st, ![r].confirmExp = t],
           UNCHANGED <<now, change, penalties, pc, frame>>
    PROVE  TInv'
<1>1. [booking[r] EXCEPT !.status = st, !.confirmExp = t] \in Bookings
  BY RowMarked DEF TInv, RowsTyped
<1>2. booking' = [booking EXCEPT ![r] = [booking[r] EXCEPT !.status = st, !.confirmExp = t]]
  OBVIOUS
<1> DEFINE b == [booking[r] EXCEPT !.status = st, !.confirmExp = t]
<1> HIDE DEF b
<1>3. booking' \in [Reservations -> Bookings]
  BY <1>1, <1>2 DEF TInv, RowsTyped
<1>4. RowsTyped'
  BY <1>3 DEF TInv, RowsTyped
<1> QED
  BY <1>4 DEF TInv, ControlInv

LEMMA CheckoutKeeps == ASSUME TInv, NEW r \in Reservations, Checkout(r) PROVE TInv'
<1>1. "REQUESTED" \in Statuses /\ "open" \in PayStates
  BY DEF Statuses, PayStates
<1> QED
  BY <1>1, PaidKeeps DEF Checkout

LEMMA ClaimKeeps == ASSUME TInv, NEW r \in Reservations, Claim(r) PROVE TInv'
<1>1. "PENDING_VENUE_CONFIRMATION" \in Statuses /\ "authorized" \in PayStates
  BY DEF Statuses, PayStates
<1>2. now + ConfirmWindow \in Nat
  BY CalendarAssumption DEF TInv, RowsTyped
<1> QED
  BY <1>1, <1>2, PaidKeeps DEF Claim

-----------------------------------------------------------------------------
(* Acceptance.                                                             *)

LEMMA AcceptReadKeeps == ASSUME TInv, NEW h \in Handlers, AcceptRead(h) PROVE TInv'
<1>1. LabelGood("acceptExpire", frame[h]) /\ LabelGood("acceptBlockers", frame[h])
  BY HandlerKnows DEF TInv, AcceptRead, LabelGood, Labels, CleanupLabels,
     CreateLabels, AcceptLabels, EndLabels, AnswerLabels
<1> QED
  BY <1>1, TestKeeps DEF AcceptRead

LEMMA AcceptingKnows ==
    ASSUME TInv, NEW h \in Handlers, pc[h] \in AcceptLabels
    PROVE  /\ frame[h] \in Frames /\ FieldsGood(frame[h])
           /\ frame[h].op = "accept" /\ frame[h].res \in Reservations
           /\ booking[frame[h].res] \in Bookings
BY HandlerKnows DEF TInv, LabelGood, FieldsGood, AboutReservation, RowsTyped

LEMMA AcceptExpireKeeps == ASSUME TInv, NEW h \in Handlers, AcceptExpire(h) PROVE TInv'
<1> USE DEF TInv
<1> DEFINE r == frame[h].res
           t == IF booking[r].type = "ADVANCE" THEN NoTime ELSE booking[r].confirmExp
           b == [booking[r] EXCEPT !.status = "EXPIRED", !.confirmExp = t]
           f == [frame[h] EXCEPT !.hit = {r}]
<1>1. /\ frame[h] \in Frames /\ FieldsGood(frame[h])
      /\ frame[h].op = "accept" /\ r \in Reservations /\ booking[r] \in Bookings
  BY AcceptingKnows DEF AcceptExpire, AcceptLabels
<1>2. "EXPIRED" \in Statuses /\ t \in {NoTime} \cup Nat
  BY <1>1, RowWith DEF Statuses, Terminal
<1>3. booking' = [booking EXCEPT ![r] = b]
  BY <1>1 DEF AcceptExpire, Bookings
<1>4. b \in Bookings
  <2> HIDE DEF t, r
  <2> QED BY <1>1, <1>2, RowMarked
<1>5. booking' \in [Reservations -> Bookings]
  <2> HIDE DEF b, r
  <2> QED BY <1>1, <1>3, <1>4 DEF RowsTyped
<1>6. f \in Frames
  BY <1>1, FrameWith
<1>7. f.op = "accept" /\ f.res = frame[h].res /\ f.ret = frame[h].ret /\ f.draft = frame[h].draft
  BY <1>1 DEF Frames
<1>8. Goto(h, "void") /\ frame' = [frame EXCEPT ![h] = f]
  BY DEF AcceptExpire
<1> HIDE DEF f, r
<1>9. LabelGood("void", f)
  BY DEF LabelGood, Labels, CleanupLabels, CreateLabels, AcceptLabels, EndLabels, AnswerLabels
<1>10. FieldsGood(f)
  BY <1>1, <1>6, <1>7 DEF FieldsGood, r
<1>11. RowsTyped'
  BY <1>5, BookingWritten DEF AcceptExpire
<1> QED
  BY <1>8, <1>9, <1>10, <1>11, HandlerMoves DEF FrameGood, Goto

LEMMA AcceptBlockersKeeps == ASSUME TInv, NEW h \in Handlers, AcceptBlockers(h) PROVE TInv'
<1> USE DEF TInv
<1> DEFINE B == FindBlockers(booking[frame[h].res].table, booking[frame[h].res].slot.start,
                             frame[h].res)
           f == [frame[h] EXCEPT !.todo = B]
<1>1. /\ frame[h] \in Frames /\ FieldsGood(frame[h]) /\ frame[h].op = "accept"
  BY AcceptingKnows DEF AcceptBlockers, AcceptLabels
<1>2. RowsTyped'
  BY RowsStay DEF AcceptBlockers
<1>3. CASE Finish(h)
  BY <1>2, <1>3, HandlerFinishes
<1>4. CASE Goto(h, "capture") /\ frame' = [frame EXCEPT ![h].todo = B]
  <2>1. B \in SUBSET Reservations
    BY DEF FindBlockers, Booked
  <2>2. frame' = [frame EXCEPT ![h] = f]
    BY <1>4
  <2> HIDE DEF B
  <2>3. f \in Frames
    BY <1>1, <2>1, FrameWith
  <2>4. f.op = "accept" /\ f.res = frame[h].res /\ f.ret = frame[h].ret /\ f.draft = frame[h].draft
        /\ f.change = frame[h].change
    BY <1>1 DEF Frames
  <2> HIDE DEF f
  <2>5. LabelGood("capture", f)
    BY <2>4 DEF LabelGood, Labels, CleanupLabels, CreateLabels, AcceptLabels, EndLabels, AnswerLabels
  <2>6. FieldsGood(f)
    BY <1>1, <2>3, <2>4 DEF FieldsGood
  <2> QED
    BY <1>2, <1>4, <2>2, <2>5, <2>6, HandlerMoves DEF FrameGood, Goto
<1> QED
  BY <1>3, <1>4 DEF AcceptBlockers

LEMMA CaptureKeeps == ASSUME TInv, NEW h \in Handlers, Capture(h) PROVE TInv'
<1> USE DEF TInv
<1>1. LabelGood("acceptWrite", frame[h])
  BY HandlerKnows DEF Capture, LabelGood, Labels, CleanupLabels,
     CreateLabels, AcceptLabels, EndLabels, AnswerLabels
<1>2. pay' \in [Reservations -> PayStates]
  BY DEF Capture, RowsTyped, PayStates
<1>3. RowsTyped'
  BY <1>2 DEF Capture, RowsTyped
<1> QED
  BY <1>1, <1>3, HandlerGoes, HandlerFinishes DEF Capture

\* The row an acceptance writes.
LEMMA AcceptedRow ==
    ASSUME NEW b \in Bookings
    PROVE  /\ [b EXCEPT !.status = "CONFIRMED", !.confirmExp = NoTime] \in Bookings
           /\ [b EXCEPT !.status = "CHECK_IN_PENDING", !.confirmExp = NoTime, !.custIn = TRUE,
                        !.window = [opens  |-> b.slot.start,
                                    closes |-> Rules(b.slot)!NightLockUntil(FALSE)]] \in Bookings
<1> DEFINE w == [opens |-> b.slot.start, closes |-> Rules(b.slot)!NightLockUntil(FALSE)]
           e1 == [b EXCEPT !.status = "CHECK_IN_PENDING", !.confirmExp = NoTime]
           e2 == [e1 EXCEPT !.custIn = TRUE]
           e3 == [e2 EXCEPT !.window = w]
<1>1. "CONFIRMED" \in Statuses /\ "CHECK_IN_PENDING" \in Statuses
  BY DEF Statuses, Accepted
<1>2. b.slot \in Slots /\ b.slot.start \in Int
  <2>1. PICK s \in Slots : s = b.slot
    BY RowWith
  <2>2. s.start \in Int
    BY CalendarAssumption
  <2> QED
    BY <2>1, <2>2
<1>3. Rules(b.slot)!NightLockUntil(FALSE) \in Int
  BY <1>2, NightLockTyped
<1>4. w \in Windows
  BY <1>2, <1>3 DEF Windows
<1>5. e1 \in Bookings
  BY <1>1, RowMarked
<1>6. e2 \in Bookings
  <2> HIDE DEF e1
  <2> QED BY <1>5, RowWith
<1>7. e3 \in Bookings
  <2> HIDE DEF e2, w
  <2> QED BY <1>4, <1>6, RowWith
<1>8. [b EXCEPT !.status = "CHECK_IN_PENDING", !.confirmExp = NoTime, !.custIn = TRUE,
                !.window = w] = e3
  OBVIOUS
<1>9. [b EXCEPT !.status = "CONFIRMED", !.confirmExp = NoTime] \in Bookings
  BY <1>1, RowMarked
<1> QED
  BY <1>7, <1>8, <1>9

LEMMA AcceptWriteKeeps == ASSUME TInv, NEW h \in Handlers, AcceptWrite(h) PROVE TInv'
<1> USE DEF TInv
<1> DEFINE r == frame[h].res
           b == booking[r]
           a == [b EXCEPT !.status = "CHECK_IN_PENDING", !.confirmExp = NoTime, !.custIn = TRUE,
                          !.window = [opens  |-> b.slot.start,
                                      closes |-> Rules(b.slot)!NightLockUntil(FALSE)]]
           c == [b EXCEPT !.status = "CONFIRMED", !.confirmExp = NoTime]
<1>1. r \in Reservations /\ b \in Bookings
  BY AcceptingKnows DEF AcceptWrite, AcceptLabels
<1>2. a \in Bookings /\ c \in Bookings
  BY <1>1, AcceptedRow
<1>3. booking' = [booking EXCEPT ![r] = IF b.type = "LIVE" THEN a ELSE c]
  BY DEF AcceptWrite
<1>4. booking' \in [Reservations -> Bookings]
  <2> HIDE DEF a, c, b, r
  <2> QED BY <1>1, <1>2, <1>3 DEF RowsTyped
<1>5. LabelGood("compete", frame[h])
  BY HandlerKnows DEF AcceptWrite, LabelGood, Labels, CleanupLabels,
     CreateLabels, AcceptLabels, EndLabels, AnswerLabels
<1>6. RowsTyped'
  BY <1>4, BookingWritten DEF AcceptWrite
<1> QED
  BY <1>5, <1>6, HandlerGoes DEF AcceptWrite

LEMMA CompeteKeeps == ASSUME TInv, NEW h \in Handlers, Compete(h) PROVE TInv'
<1> USE DEF TInv
<1>1. /\ frame[h] \in Frames /\ FieldsGood(frame[h]) /\ frame[h].op = "accept"
      /\ pc[h] = "compete"
  BY AcceptingKnows DEF Compete, AcceptLabels
<1>2. RowsTyped'
  BY RowsStay DEF Compete
<1>3. CASE Finish(h)
  BY <1>2, <1>3, HandlerFinishes
<1>4. ASSUME NEW q \in frame[h].todo,
             Goto(h, "endWrite"),
             frame' = [frame EXCEPT ![h].todo = @ \ {q}, ![h].hit = {q},
                                    ![h].target = "DECLINED", ![h].ret = "compete"]
      PROVE  TInv'
  <2> DEFINE T  == frame[h].todo \ {q}
             e1 == [frame[h] EXCEPT !.todo = T]
             e2 == [e1 EXCEPT !.hit = {q}]
             e3 == [e2 EXCEPT !.target = "DECLINED"]
             f  == [e3 EXCEPT !.ret = "compete"]
  <2>1. T \in SUBSET Reservations /\ {q} \in SUBSET Reservations
    BY <1>1, FrameFields
  <2>2. frame' = [frame EXCEPT ![h] = f]
    BY <1>4
  <2> HIDE DEF T
  <2>3. e1 \in Frames /\ e1.op = frame[h].op /\ e1.res = frame[h].res /\ e1.draft = frame[h].draft
        /\ e1.change = frame[h].change
    BY <1>1, <2>1, FrameWith DEF Frames
  <2> HIDE DEF e1
  <2>4. e2 \in Frames /\ e2.op = e1.op /\ e2.res = e1.res /\ e2.draft = e1.draft
        /\ e2.change = e1.change
    BY <2>1, <2>3, FrameWith DEF Frames
  <2> HIDE DEF e2
  <2>5. "DECLINED" \in Statuses /\ "compete" \in Labels
    BY DEF Statuses, Terminal, Labels
  <2>6. e3 \in Frames /\ e3.op = e2.op /\ e3.res = e2.res /\ e3.draft = e2.draft
        /\ e3.target = "DECLINED" /\ e3.change = e2.change
    BY <2>4, <2>5, FrameWith DEF Frames
  <2> HIDE DEF e3
  <2>7. f \in Frames /\ f.op = e3.op /\ f.res = e3.res /\ f.draft = e3.draft
        /\ f.target = "DECLINED" /\ f.change = e3.change /\ f.ret = "compete"
    BY <2>5, <2>6, FrameWith DEF Frames
  <2> HIDE DEF f
  <2>8. LabelGood("endWrite", f)
    BY <2>7 DEF LabelGood, Labels, CleanupLabels, CreateLabels, AcceptLabels, EndLabels,
       AnswerLabels, Ends
  <2>9. Goto(h, "endWrite")
    BY <1>4
  <2>10. ControlInv'
    BY <1>1, <2>9, <2>2, <2>3, <2>4, <2>6, <2>7, <2>8, HandlerCarries
  <2> QED
    BY <1>2, <2>10
<1>5. ASSUME NEW q \in frame[h].todo,
             frame' = [frame EXCEPT ![h].todo = @ \ {q}], UNCHANGED pc
      PROVE  TInv'
  <2> DEFINE T == frame[h].todo \ {q}
             f == [frame[h] EXCEPT !.todo = T]
  <2>1. T \in SUBSET Reservations
    BY <1>1, FrameFields
  <2>2. frame' = [frame EXCEPT ![h] = f]
    BY <1>5
  <2> HIDE DEF T
  <2>3. f \in Frames /\ f.op = frame[h].op /\ f.res = frame[h].res /\ f.draft = frame[h].draft
        /\ f.change = frame[h].change /\ f.ret = frame[h].ret
    BY <1>1, <2>1, FrameWith DEF Frames
  <2> HIDE DEF f
  <2>4. LabelGood("compete", f)
    BY <1>1, <2>3 DEF LabelGood, Labels, CleanupLabels, CreateLabels, AcceptLabels, EndLabels,
       AnswerLabels
  <2>5. FieldsGood(f)
    BY <1>1, <2>3 DEF FieldsGood
  <2>6. pc' = [pc EXCEPT ![h] = "compete"]
    BY <1>1, <1>5 DEF ControlInv
  <2> QED
    BY <1>2, <2>2, <2>4, <2>5, <2>6, HandlerMoves DEF FrameGood
<1> QED
  BY <1>3, <1>4, <1>5 DEF Compete

-----------------------------------------------------------------------------
(* Declining, cancelling, checking in.                                     *)

\* A request that ends a reservation enters with a frame that names it.
LEMMA BeginEndKeeps ==
    ASSUME TInv, NEW h \in Handlers, NEW r \in Reservations, NEW label \in EndLabels,
           NEW target \in Ends, NEW o \in {"decline", "cancelByCustomer", "cancelByVenue"},
           BeginEnd(h, o, label, r, target)
    PROVE  TInv'
<1> USE DEF TInv
<1> DEFINE e1 == [IdleFrame EXCEPT !.res = r]
           e2 == [e1 EXCEPT !.hit = {r}]
           f  == [e2 EXCEPT !.target = target]
           k  == [f EXCEPT !.op = o]
<1>1. e1 \in Frames /\ e1.ret = "idle"
  BY IdleFrameGood, FrameWith DEF IdleFrame
<1>2. e2 \in Frames /\ e2.ret = "idle"
  <2> HIDE DEF e1
  <2> QED BY <1>1, FrameWith DEF Frames
<1>3. target \in Statuses
  BY DEF Ends, Statuses, Terminal
<1>4. f \in Frames /\ f.ret = "idle" /\ f.target = target
  <2> HIDE DEF e2
  <2> QED BY <1>2, <1>3, FrameWith DEF Frames
<1>5. Begin(h, o, label, f)
  BY DEF BeginEnd
<1>6. k.target = target
  <2> HIDE DEF f
  <2> QED BY <1>4 DEF Frames
<1>7. LabelGood(label, k)
  <2> HIDE DEF k
  <2> QED BY <1>6 DEF LabelGood, Labels, CleanupLabels, CreateLabels, AcceptLabels, EndLabels,
             AnswerLabels
<1>8. ControlInv'
  <2>1. LabelGood(label, [f EXCEPT !.op = o])
    BY <1>7
  <2> HIDE DEF f
  <2> QED BY <1>4, <1>5, <2>1, HandlerBegins DEF AboutReservation
<1>9. DatabaseUnchanged
  BY DEF BeginEnd
<1> QED
  BY <1>8, <1>9, RowsStay

LEMMA EndsBeginKeep ==
    ASSUME TInv, NEW h \in Handlers, NEW r \in Booked,
           Decline(h, r) \/ CancelByCustomer(h, r) \/ CancelByVenue(h, r)
    PROVE  TInv'
<1>1. r \in Reservations
  BY DEF Booked
<1> QED
  BY <1>1, BeginEndKeeps DEF Decline, CancelByCustomer, CancelByVenue, EndLabels, Ends

LEMMA UsageReadKeeps == ASSUME TInv, NEW h \in Handlers, UsageRead(h) PROVE TInv'
<1>1. LabelGood("venueCancelWrite", frame[h])
  BY HandlerKnows DEF TInv, UsageRead, LabelGood, Labels, CleanupLabels,
     CreateLabels, AcceptLabels, EndLabels, AnswerLabels
<1> QED
  BY <1>1, TestKeeps DEF UsageRead

\* Reservations end.
LEMMA EndReservationsKeeps ==
    ASSUME TInv, NEW h \in Handlers, pc[h] \in EndLabels, EndReservations(h)
    PROVE  booking' \in [Reservations -> Bookings] /\ ControlInv'
<1> USE DEF TInv
<1>1. frame[h].target \in Statuses /\ NoTime \in {NoTime} \cup Nat
  BY HandlerKnows DEF LabelGood, Ends, Statuses, Terminal
<1>2. \A r \in Reservations :
         [booking[r] EXCEPT !.status = frame[h].target, !.confirmExp = NoTime] \in Bookings
  BY <1>1, RowMarked DEF RowsTyped
<1>3. booking' \in [Reservations -> Bookings]
  BY <1>2 DEF EndReservations, RowsTyped
<1>4. LabelGood("void", frame[h])
  BY DEF LabelGood, Labels, CleanupLabels, CreateLabels, AcceptLabels, EndLabels, AnswerLabels
<1> QED
  BY <1>3, <1>4, HandlerGoes DEF EndReservations

LEMMA EndWriteKeeps == ASSUME TInv, NEW h \in Handlers, EndWrite(h) PROVE TInv'
<1>1. booking' \in [Reservations -> Bookings] /\ ControlInv'
  BY EndReservationsKeeps DEF EndWrite, EndLabels
<1> QED
  BY <1>1 DEF TInv, EndWrite, EndReservations, RowsTyped

LEMMA VenueCancelWriteKeeps == ASSUME TInv, NEW h \in Handlers, VenueCancelWrite(h) PROVE TInv'
<1>1. booking' \in [Reservations -> Bookings] /\ ControlInv'
  BY EndReservationsKeeps DEF VenueCancelWrite, EndLabels
<1> DEFINE week == WeekOf(now)
<1>2. penalties \in [Weeks -> Nat] /\ penalties' = [penalties EXCEPT ![week] = @ + 1]
  BY DEF VenueCancelWrite, TInv, RowsTyped
<1> HIDE DEF week
<1>3. \A w \in Weeks : penalties'[w] \in Nat
  <2> TAKE w \in Weeks
  <2>1. penalties[w] \in Nat
    BY <1>2
  <2>2. penalties'[w] = IF w = week THEN penalties[w] + 1 ELSE penalties[w]
    BY <1>2
  <2> QED
    BY <2>1, <2>2
<1>4. penalties' \in [Weeks -> Nat]
  BY <1>2, <1>3
<1> QED
  BY <1>1, <1>4 DEF TInv, VenueCancelWrite, EndReservations, RowsTyped

LEMMA CheckInReadsKeep ==
    ASSUME TInv, NEW h \in Handlers, CheckInRead(h) \/ CustomerCheckInRead(h)
    PROVE  TInv'
<1>1. \/ CheckInRead(h) /\ LabelGood("checkInWrite", frame[h])
      \/ CustomerCheckInRead(h) /\ LabelGood("customerCheckInWrite", frame[h])
  BY HandlerKnows DEF TInv, CheckInRead, CustomerCheckInRead, LabelGood, Labels, CleanupLabels,
     CreateLabels, AcceptLabels, EndLabels, AnswerLabels
<1> QED
  BY <1>1, TestKeeps DEF CheckInRead, CustomerCheckInRead

LEMMA CheckInWriteKeeps == ASSUME TInv, NEW h \in Handlers, CheckInWrite(h) PROVE TInv'
<1> USE DEF TInv
<1> DEFINE r  == frame[h].res
           e1 == [booking[r] EXCEPT !.status = "CHECKED_IN"]
           e2 == [e1 EXCEPT !.venueIn = TRUE]
           e  == [e2 EXCEPT !.confirmExp = NoTime]
<1>1. r \in Reservations /\ booking[r] \in Bookings
  BY HandlerKnows DEF CheckInWrite, LabelGood, FieldsGood, AboutReservation, RowsTyped
<1>2. e1 \in Bookings
  BY <1>1, RowWith DEF Statuses, Seated
<1>3. e2 \in Bookings
  <2> HIDE DEF e1
  <2> QED BY <1>2, RowWith
<1>4. e \in Bookings
  <2> HIDE DEF e2
  <2> QED BY <1>3, RowWith
<1>5. booking' = [booking EXCEPT ![r] = e]
  BY DEF CheckInWrite
<1>6. booking' \in [Reservations -> Bookings]
  <2> HIDE DEF e, r
  <2> QED BY <1>1, <1>4, <1>5 DEF RowsTyped
<1> QED
  BY <1>6, BookingWritten, HandlerFinishes DEF CheckInWrite

LEMMA CustomerCheckInWriteKeeps ==
    ASSUME TInv, NEW h \in Handlers, CustomerCheckInWrite(h) PROVE TInv'
<1> USE DEF TInv
<1> DEFINE r  == frame[h].res
           e1 == [booking[r] EXCEPT !.status = "CHECK_IN_PENDING"]
           e  == [e1 EXCEPT !.custIn = TRUE]
<1>1. r \in Reservations /\ booking[r] \in Bookings
  BY HandlerKnows DEF CustomerCheckInWrite, LabelGood, FieldsGood, AboutReservation, RowsTyped
<1>2. e1 \in Bookings
  BY <1>1, RowWith DEF Statuses, Accepted
<1>3. e \in Bookings
  <2> HIDE DEF e1
  <2> QED BY <1>2, RowWith
<1>4. booking' = [booking EXCEPT ![r] = e]
  BY DEF CustomerCheckInWrite
<1>5. booking' \in [Reservations -> Bookings]
  <2> HIDE DEF e, r
  <2> QED BY <1>1, <1>3, <1>4 DEF RowsTyped
<1> QED
  BY <1>5, BookingWritten, HandlerFinishes DEF CustomerCheckInWrite

-----------------------------------------------------------------------------
(* Time changes.                                                           *)

\* The fields of a request.
LEMMA ChangeFields ==
    ASSUME RowsTyped, NEW c \in Changes
    PROVE  /\ change[c] \in ChangeRows
           /\ change[c].res \in Reservations \cup {None} /\ change[c].slot \in Slots
           /\ change[c].window \in Windows
           /\ \A st \in ChangeStatuses : [change[c] EXCEPT !.status = st] \in ChangeRows
BY DEF RowsTyped, ChangeRows

LEMMA ChangeCreateBeginKeeps ==
    ASSUME TInv, NEW h \in Handlers, NEW r \in Booked, ChangeCreateBegin(h, r) PROVE TInv'
<1> USE DEF TInv
<1>1. PICK s \in Slots \ {booking[r].slot} :
         /\ Begin(h, "changeCreate", "changeBlockers",
                  [IdleFrame EXCEPT !.res = r,
                     !.draft = Draft(booking[r].guest, booking[r].table, s, booking[r].type)])
         /\ DatabaseUnchanged
  BY DEF ChangeCreateBegin
<1>2. r \in Reservations /\ booking[r] \in Bookings
  BY DEF Booked, RowsTyped
<1> DEFINE d == Draft(booking[r].guest, booking[r].table, s, booking[r].type)
           e == [IdleFrame EXCEPT !.res = r]
           f == [e EXCEPT !.draft = d]
           k == [f EXCEPT !.op = "changeCreate"]
<1>3. d \in Bookings
  <2>1. /\ booking[r].guest \in Guests /\ booking[r].table \in Tables
        /\ booking[r].type \in Types /\ s \in Slots /\ now \in Nat
    BY <1>2, RowWith DEF RowsTyped
  <2> QED
    BY <2>1, DraftTyped
<1> HIDE DEF d
<1>4. e \in Frames /\ e.ret = "idle" /\ e.res = r
  <2>1. e \in Frames
    BY <1>2, IdleFrameGood, FrameWith
  <2> QED
    BY <2>1 DEF IdleFrame
<1>5. f \in Frames /\ f.ret = "idle" /\ f.res = r
  <2> HIDE DEF e
  <2> QED BY <1>3, <1>4, FrameWith DEF Frames
<1>6. Begin(h, "changeCreate", "changeBlockers", f)
  BY <1>1 DEF d
<1> HIDE DEF f
<1>7. k.res = r
  BY <1>5 DEF Frames
<1>8. LabelGood("changeBlockers", k)
  <2> HIDE DEF k
  <2> QED BY <1>2, <1>7 DEF LabelGood, Labels, CleanupLabels, CreateLabels, AcceptLabels, EndLabels,
             AnswerLabels
<1>9. LabelGood("changeBlockers", [f EXCEPT !.op = "changeCreate"])
  BY <1>8 DEF k
<1>10. ControlInv'
  BY <1>5, <1>6, <1>9, HandlerBegins DEF AboutReservation
<1> QED
  BY <1>1, <1>10, RowsStay

\* A test for blockers.
LEMMA FreeAtKeeps ==
    ASSUME TInv, NEW h \in Handlers, NEW start, NEW next, LabelGood(next, frame[h]),
           FreeAt(h, start, next)
    PROVE  TInv'
BY TestKeeps DEF FreeAt

LEMMA ChangeBlockersKeeps == ASSUME TInv, NEW h \in Handlers, ChangeBlockers(h) PROVE TInv'
<1>1. LabelGood("changeCreate", frame[h])
  BY HandlerKnows DEF TInv, ChangeBlockers, LabelGood, Labels, CleanupLabels,
     CreateLabels, AcceptLabels, EndLabels, AnswerLabels
<1> QED
  BY <1>1, FreeAtKeeps DEF ChangeBlockers

LEMMA ChangeCreateKeeps == ASSUME TInv, NEW h \in Handlers, ChangeCreate(h) PROVE TInv'
<1> USE DEF TInv
<1>1. frame[h].draft \in Bookings /\ frame[h].res \in Reservations
  BY HandlerKnows, FrameFields DEF ChangeCreate, LabelGood
<1>2. frame[h].draft.slot \in Slots /\ frame[h].draft.window \in Windows
  BY <1>1, RowWith
<1> DEFINE n == [status |-> "PENDING", res |-> frame[h].res,
                 slot |-> frame[h].draft.slot, window |-> frame[h].draft.window]
<1>3. n \in ChangeRows /\ n.res \in Reservations
  BY <1>1, <1>2 DEF ChangeRows, ChangeStatuses
<1>4. CASE UnusedChanges = {}
  BY <1>4, HandlerFinishes DEF ChangeCreate, RowsTyped
<1>5. CASE UnusedChanges # {}
  <2>1. PICK c \in UnusedChanges : c = CHOOSE x \in UnusedChanges : TRUE
    BY <1>5
  <2>2. change' = [change EXCEPT ![c] = n]
    BY <1>5, <2>1 DEF ChangeCreate
  <2> HIDE DEF n
  <2>3. change' \in [Changes -> ChangeRows]
    BY <1>3, <2>2 DEF RowsTyped
  <2>4. \A d \in Changes : change'[d].status = "PENDING" => change'[d].res \in Reservations
    BY <1>3, <2>2 DEF RowsTyped
  <2>5. RowsTyped'
    BY <2>3, <2>4 DEF ChangeCreate, RowsTyped
  <2> QED
    BY <2>5, HandlerFinishes DEF ChangeCreate
<1> QED
  BY <1>4, <1>5

\* An answer begins with the request, and with its reservation.
LEMMA AnswerBegins ==
    ASSUME TInv, NEW h \in Handlers, NEW c \in Changes,
           ChangeAcceptBegin(h, c) \/ ChangeDeclineBegin(h, c)
    PROVE  TInv'
<1> USE DEF TInv
<1>1. RowsTyped'
  BY RowsStay DEF ChangeAcceptBegin, ChangeDeclineBegin
<1>2. CASE ChangeAcceptBegin(h, c)
  <2> DEFINE r == change[c].res
             e == [IdleFrame EXCEPT !.res = r]
             f == [e EXCEPT !.change = c]
             k == [f EXCEPT !.op = "changeAccept"]
  <2>1. Begin(h, "changeAccept", "changeAcceptBlockers", f)
    BY <1>2 DEF ChangeAcceptBegin
  <2>2. r \in Reservations
    BY <1>2 DEF RowsTyped, ChangeAcceptBegin
  <2> HIDE DEF r
  <2>3. e \in Frames /\ e.ret = "idle" /\ e.res = r
    <3>1. e \in Frames
      BY <2>2, IdleFrameGood, FrameWith
    <3> QED
      BY <3>1 DEF IdleFrame
  <2>4. f \in Frames /\ f.ret = "idle" /\ f.res = r /\ f.change = c
    <3> HIDE DEF e
    <3> QED BY <2>3, FrameWith DEF Frames
  <2> HIDE DEF f
  <2>5. k.res = r /\ k.change = c
    BY <2>4 DEF Frames
  <2>6. LabelGood("changeAcceptBlockers", k)
    <3> HIDE DEF k
    <3> QED BY <2>2, <2>5 DEF LabelGood, Labels, CleanupLabels, CreateLabels, AcceptLabels,
               EndLabels, AnswerLabels
  <2>7. LabelGood("changeAcceptBlockers", [f EXCEPT !.op = "changeAccept"])
    BY <2>6 DEF k
  <2> QED
    BY <1>1, <2>1, <2>4, <2>7, HandlerBegins DEF AboutReservation
<1>3. CASE ChangeDeclineBegin(h, c)
  <2> DEFINE f == [IdleFrame EXCEPT !.change = c]
             k == [f EXCEPT !.op = "changeDecline"]
  <2>1. Begin(h, "changeDecline", "changeDecline", f)
    BY <1>3 DEF ChangeDeclineBegin
  <2>2. f \in Frames /\ f.ret = "idle" /\ f.change = c
    <3>1. f \in Frames
      BY IdleFrameGood, FrameWith
    <3> QED
      BY <3>1 DEF IdleFrame
  <2> HIDE DEF f
  <2>3. k.change = c
    BY <2>2 DEF Frames
  <2>4. LabelGood("changeDecline", k)
    <3> HIDE DEF k
    <3> QED BY <2>3 DEF LabelGood, Labels, CleanupLabels, CreateLabels, AcceptLabels,
               EndLabels, AnswerLabels
  <2>5. LabelGood("changeDecline", [f EXCEPT !.op = "changeDecline"])
    BY <2>4 DEF k
  <2> QED
    BY <1>1, <2>1, <2>2, <2>5, HandlerBegins DEF AboutReservation
<1> QED
  BY <1>2, <1>3

\* Requests that are answered or withdrawn.
LEMMA ChangesWritten ==
    ASSUME RowsTyped, NEW D \in SUBSET Changes,
           NEW st \in [D -> ChangeStatuses \ {"PENDING"}],
           change' = [d \in Changes |-> IF d \in D THEN [change[d] EXCEPT !.status = st[d]]
                                                   ELSE change[d]]
    PROVE  /\ change' \in [Changes -> ChangeRows]
           /\ \A d \in Changes : change'[d].status = "PENDING" => change'[d].res \in Reservations
<1>1. \A d \in D : [change[d] EXCEPT !.status = st[d]] \in ChangeRows
  BY ChangeFields
<1>2. change' \in [Changes -> ChangeRows]
  BY <1>1 DEF RowsTyped
<1>3. \A d \in D : [change[d] EXCEPT !.status = st[d]].status # "PENDING"
  BY DEF RowsTyped, ChangeRows
<1>4. \A d \in Changes : change'[d].status = "PENDING" => d \notin D /\ change'[d] = change[d]
  BY <1>3
<1> QED
  BY <1>2, <1>4 DEF RowsTyped

LEMMA ChangeAcceptBlockersKeeps ==
    ASSUME TInv, NEW h \in Handlers, ChangeAcceptBlockers(h) PROVE TInv'
<1>1. LabelGood("changeAccept", frame[h])
  BY HandlerKnows DEF TInv, ChangeAcceptBlockers, LabelGood, Labels, CleanupLabels,
     CreateLabels, AcceptLabels, EndLabels, AnswerLabels
<1> QED
  BY <1>1, FreeAtKeeps DEF ChangeAcceptBlockers

LEMMA ChangeDeclineKeeps == ASSUME TInv, NEW h \in Handlers, ChangeDecline(h) PROVE TInv'
<1> USE DEF TInv
<1> DEFINE c  == frame[h].change
           st == [d \in {c} |-> "DECLINED"]
<1>1. c \in Changes
  BY HandlerKnows DEF ChangeDecline, LabelGood
<1>2. st \in [{c} -> ChangeStatuses \ {"PENDING"}]
  BY DEF ChangeStatuses
<1>3. change' = [d \in Changes |-> IF d \in {c} THEN [change[d] EXCEPT !.status = "DECLINED"]
                                                ELSE change[d]]
  BY DEF ChangeDecline, RowsTyped
<1>4. change' = [d \in Changes |-> IF d \in {c} THEN [change[d] EXCEPT !.status = st[d]]
                                                ELSE change[d]]
  BY <1>3
<1>5. {c} \in SUBSET Changes
  BY <1>1
<1> HIDE DEF st, c
<1>6. /\ change' \in [Changes -> ChangeRows]
      /\ \A d \in Changes : change'[d].status = "PENDING" => change'[d].res \in Reservations
  BY <1>2, <1>4, <1>5, ChangesWritten
<1>7. RowsTyped'
  BY <1>6 DEF RowsTyped, ChangeDecline
<1> QED
  BY <1>7, HandlerFinishes DEF ChangeDecline

LEMMA ChangeAcceptKeeps == ASSUME TInv, NEW h \in Handlers, ChangeAccept(h) PROVE TInv'
<1> USE DEF TInv
<1> DEFINE c  == frame[h].change
           r  == frame[h].res
           D  == {c} \cup Pending(r)
           st == [d \in D |-> IF d = c THEN "ACCEPTED" ELSE "CANCELLED"]
           e1 == [booking[r] EXCEPT !.slot = change[c].slot]
           e  == [e1 EXCEPT !.window = change[c].window]
<1>1. c \in Changes /\ r \in Reservations
  BY HandlerKnows DEF ChangeAccept, LabelGood, AnswerLabels
<1>2. D \in SUBSET Changes
  BY <1>1 DEF Pending
<1>3. change' = [d \in Changes |->
                    IF d = c THEN [change[c] EXCEPT !.status = "ACCEPTED"]
                    ELSE IF d \in Pending(r) THEN [change[d] EXCEPT !.status = "CANCELLED"]
                    ELSE change[d]]
  BY DEF ChangeAccept
<1>4. booking' = [booking EXCEPT ![r] = e]
  BY DEF ChangeAccept
<1>5. e1 \in Bookings /\ e \in Bookings
  <2>1. booking[r] \in Bookings /\ change[c].slot \in Slots /\ change[c].window \in Windows
    BY <1>1, ChangeFields DEF RowsTyped
  <2>2. e1 \in Bookings
    <3> HIDE DEF c, r
    <3> QED BY <2>1, RowWith
  <2>3. e \in Bookings
    <3> HIDE DEF e1, c, r
    <3> QED BY <2>1, <2>2, RowWith
  <2> QED
    BY <2>2, <2>3
<1>6. st \in [D -> ChangeStatuses \ {"PENDING"}]
  BY DEF ChangeStatuses
<1>7. change' = [d \in Changes |-> IF d \in D THEN [change[d] EXCEPT !.status = st[d]]
                                              ELSE change[d]]
  <2> HIDE DEF c, r
  <2> QED BY <1>3
<1>8. booking' \in [Reservations -> Bookings]
  <2> HIDE DEF e, r
  <2> QED BY <1>1, <1>4, <1>5 DEF RowsTyped
<1> HIDE DEF st, D, c, r, e, e1
<1>9. /\ change' \in [Changes -> ChangeRows]
      /\ \A d \in Changes : change'[d].status = "PENDING" => change'[d].res \in Reservations
  BY <1>2, <1>6, <1>7, ChangesWritten
<1>10. RowsTyped'
  BY <1>8, <1>9 DEF RowsTyped, ChangeAccept
<1> QED
  BY <1>10, HandlerFinishes DEF ChangeAccept

-----------------------------------------------------------------------------
(* The type invariant.                                                     *)

LEMMA InitInv == Init => TInv
<1> SUFFICES ASSUME Init PROVE TInv
  OBVIOUS
<1>1. booking \in [Reservations -> Bookings] /\ NoBooking.slot \in Slots
  BY NoBookingTyped DEF Init
<1>2. NoChange \in ChangeRows /\ NoChange.status = "NONE"
  <2>1. NoBooking.window \in Windows
    BY DEF NoBooking, Windows
  <2> QED
    BY <1>1, <2>1 DEF NoChange, ChangeRows, ChangeStatuses
<1>3. RowsTyped
  BY <1>1, <1>2 DEF Init, RowsTyped, PayStates
<1>4. ControlInv
  BY IdleFrameGood DEF Init, ControlInv, Labels
<1> QED
  BY <1>3, <1>4 DEF TInv

LEMMA StepKeeps == ASSUME TInv, NEW h \in Handlers, GoesOn(h) PROVE TInv'
<1>1. CASE \/ ExpireFind(h) \/ ExpireWrite(h) \/ ArrivalFind(h) \/ ArrivalWrite(h)
           \/ NightFind(h) \/ NightWrite(h) \/ Void(h)
  BY <1>1, ExpireFindKeeps, ExpireWriteKeeps, ArrivalFindKeeps, ArrivalWriteKeeps,
     NightFindKeeps, NightWriteKeeps, VoidKeeps
<1>2. CASE CreateBlockers(h) \/ CreateDaily(h) \/ CreateWrite(h)
  BY <1>2, CreateTestsKeep, CreateWriteKeeps
<1>3. CASE \/ AcceptRead(h) \/ AcceptExpire(h) \/ AcceptBlockers(h) \/ Capture(h)
           \/ AcceptWrite(h) \/ Compete(h)
  BY <1>3, AcceptReadKeeps, AcceptExpireKeeps, AcceptBlockersKeeps, CaptureKeeps,
     AcceptWriteKeeps, CompeteKeeps
<1>4. CASE EndWrite(h) \/ UsageRead(h) \/ VenueCancelWrite(h)
  BY <1>4, EndWriteKeeps, UsageReadKeeps, VenueCancelWriteKeeps
<1>5. CASE \/ CheckInRead(h) \/ CheckInWrite(h) \/ CustomerCheckInRead(h)
           \/ CustomerCheckInWrite(h)
  BY <1>5, CheckInReadsKeep, CheckInWriteKeeps, CustomerCheckInWriteKeeps
<1>6. CASE \/ ChangeBlockers(h) \/ ChangeCreate(h) \/ ChangeAcceptBlockers(h)
           \/ ChangeAccept(h) \/ ChangeDecline(h)
  BY <1>6, ChangeBlockersKeeps, ChangeCreateKeeps, ChangeAcceptBlockersKeeps,
     ChangeAcceptKeeps, ChangeDeclineKeeps
<1> QED
  BY <1>1, <1>2, <1>3, <1>4, <1>5, <1>6 DEF GoesOn

LEMMA ArrivalKeeps == ASSUME TInv, NEW h \in Handlers, Arrives(h) PROVE TInv'
<1>1. CASE CreateBegin(h)
  BY <1>1, CreateBeginKeeps
<1>2. ASSUME NEW r \in Booked,
             \/ Decline(h, r) \/ CancelByCustomer(h, r) \/ CancelByVenue(h, r)
             \/ ChangeCreateBegin(h, r)
      PROVE  TInv'
  BY <1>2, EndsBeginKeep, ChangeCreateBeginKeeps
<1>3. ASSUME NEW c \in Changes, ChangeAcceptBegin(h, c) \/ ChangeDeclineBegin(h, c)
      PROVE  TInv'
  BY <1>3, AnswerBegins
<1> QED
  BY <1>1, <1>2, <1>3 DEF Arrives

LEMMA NextInv == TInv /\ [Next]_vars => TInv'
<1> SUFFICES ASSUME TInv, [Next]_vars PROVE TInv'
  OBVIOUS
<1>1. CASE UNCHANGED vars
  BY <1>1 DEF vars, TInv, RowsTyped, ControlInv
<1>2. CASE Tick
  BY <1>2 DEF Tick, TInv, RowsTyped, ControlInv
<1>3. ASSUME NEW r \in Reservations, Checkout(r) \/ Claim(r) PROVE TInv'
  BY <1>3, CheckoutKeeps, ClaimKeeps
<1>4. ASSUME NEW h \in Handlers, CleanupBegin(h) \/ Arrives(h) \/ GoesOn(h) PROVE TInv'
  BY <1>4, CleanupBeginKeeps, ArrivalKeeps, StepKeeps
<1> QED
  BY <1>1, <1>2, <1>3, <1>4 DEF Next

\* Whatever handlers do to each other's rows, a handler keeps what it read in the
\* range its later steps need: a reservation to accept, a target to write, a
\* request to answer.
THEOREM Invariance == Spec => []TInv
BY InitInv, NextInv, PTL DEF Spec

\* Rows and local variables stay in their ranges, for any number of handlers in
\* flight, reservations, guests, tables, slots and requests.
THEOREM TypeCorrect == Spec => []TypeOK
<1>1. TInv => TypeOK
  BY DEF TInv, RowsTyped, ControlInv, TypeOK
<1> QED
  BY <1>1, Invariance, PTL
-----------------------------------------------------------------------------
(* Handlers served one at a time (MaxActive = 1) implement TableAssignment: *)
(* the decision a handler took in an earlier step still holds when it      *)
(* writes.  On the same ground reservations move only by agreement, and no *)
(* guest and no venue gets past its limit.                                 *)

(* The inductive invariant.  Its parts take the rows as parameters, to     *)
(* speak of the rows before and after a step alike.                        *)

BookedIn(b) == {r \in Reservations : b[r].status # "NONE"}

\* Clashes of reservation q with a table taken for an evening that starts then.
Clashes(b, q, table, start) ==
    /\ b[q].table = table
    /\ b[q].status \in Blocking
    /\ \/ DayOf(b[q].slot.start) = DayOf(start)
       \/ b[q].status \in Seated /\ Rules(b[q].slot)!NightLockUntil(b[q].custIn) > start

FreeIn(b, table, start, except) ==
    \A q \in BookedIn(b) \ {except} : ~Clashes(b, q, table, start)

NoDoubleIn(b) ==
    \A r, q \in Reservations :
        /\ b[r].status \in Blocking /\ b[q].status \in Blocking
        /\ b[r].table = b[q].table
        /\ DayOf(b[r].slot.start) = DayOf(b[q].slot.start)
        => r = q

\* Only reservations that were made are paid for.
PaidIn(p, b) == \A r \in Reservations : p[r] # "none" => r \in BookedIn(b)

\* What a handler names was made.
NamesBooked(f, b) ==
    /\ f.hit \subseteq BookedIn(b)
    /\ f.op \in AboutReservation => f.res \in BookedIn(b)

\* The decision a handler at label l is about to write.
Decided(l, f, b, c) ==
    /\ l \in {"acceptBlockers", "capture", "acceptWrite"} =>
          b[f.res].status = "PENDING_VENUE_CONFIRMATION"
    /\ l \in {"capture", "acceptWrite"} =>
          FreeIn(b, b[f.res].table, b[f.res].slot.start, f.res)
    /\ l \in {"checkInWrite", "customerCheckInWrite"} => b[f.res].status \in Accepted
    /\ l \in {"createDaily", "createWrite"} =>
          FreeIn(b, f.draft.table, f.draft.slot.start, None)
    /\ l \in AnswerLabels => b[f.res].status \in Accepted
    /\ l = "changeAccept" =>
          FreeIn(b, b[f.res].table, c[f.change].slot.start, f.res)

Decision(l, f, b, c) == NamesBooked(f, b) /\ Decided(l, f, b, c)

OneActive == \A h, g \in Handlers : pc[h] # "idle" /\ pc[g] # "idle" => h = g

SerialInv ==
    /\ OneActive
    /\ PaidIn(pay, booking)
    /\ NoDoubleIn(booking)
    /\ \A h \in Handlers : Decision(pc[h], frame[h], booking, change)

Alone(h) == \A g \in Handlers : g # h => pc[g] = "idle"

\* The labels at which nothing is decided yet.
Plain == Labels \ ({"acceptBlockers", "capture", "acceptWrite", "checkInWrite",
                    "customerCheckInWrite", "createDaily", "createWrite"} \cup AnswerLabels)

\* No reservation takes a table or another evening.
Shrinks(b, e) ==
    \A r \in Reservations : e[r].status \in Blocking =>
        /\ b[r].status \in Blocking
        /\ e[r].table = b[r].table /\ e[r].slot = b[r].slot

-----------------------------------------------------------------------------
(* One handler at a time.                                                  *)

LEMMA MoverIsAlone == ASSUME SerialInv, NEW h \in Handlers, pc[h] # "idle" PROVE Alone(h)
BY DEF SerialInv, OneActive, Alone

\* A handler is let in when none is in flight.
LEMMA EntersAlone ==
    ASSUME MaxActive = 1, SerialInv, CanRun
    PROVE  \A g \in Handlers : pc[g] = "idle"
<1> SUFFICES ASSUME NEW g \in Handlers, pc[g] # "idle" PROVE FALSE
  OBVIOUS
<1>1. Active = {g}
  BY DEF Active, SerialInv, OneActive
<1>2. Cardinality({g}) = 1
  BY FS_Singleton
<1> QED
  BY <1>1, <1>2 DEF CanRun

LEMMA IdleDecides ==
    ASSUME NEW b, NEW c PROVE Decision("idle", IdleFrame, b, c)
<1>1. IdleFrame.hit = {} /\ IdleFrame.op = "none"
  BY DEF IdleFrame
<1> QED
  BY <1>1 DEF Decision, NamesBooked, Decided, AboutReservation, AnswerLabels

LEMMA PlainDecides ==
    ASSUME NEW l \in Plain, NEW f, NEW b, NEW c, NamesBooked(f, b)
    PROVE  Decision(l, f, b, c)
BY DEF Decision, Decided, Plain, AnswerLabels

\* A lone handler moves.
LEMMA SerialMoves ==
    ASSUME TInv, SerialInv, NEW h \in Handlers, Alone(h), NEW l, NEW f,
           pc' = [pc EXCEPT ![h] = l], frame' = [frame EXCEPT ![h] = f],
           Decision(l, f, booking', change'), NoDoubleIn(booking'), PaidIn(pay', booking')
    PROVE  SerialInv'
<1>1. \A k \in Handlers : /\ pc'[k] = (IF k = h THEN l ELSE pc[k])
                          /\ frame'[k] = (IF k = h THEN f ELSE frame[k])
  BY DEF TInv, ControlInv
<1>2. \A k \in Handlers : k # h => pc'[k] = "idle" /\ frame'[k] = IdleFrame
  BY <1>1, HandlerKnows DEF Alone, TInv, LabelGood
<1>3. \A k \in Handlers : Decision(pc'[k], frame'[k], booking', change')
  <2> TAKE k \in Handlers
  <2>1. CASE k = h
    BY <1>1, <2>1
  <2>2. CASE k # h
    BY <1>2, <2>2, IdleDecides
  <2> QED
    BY <2>1, <2>2
<1>4. OneActive'
  BY <1>2 DEF OneActive
<1> QED
  BY <1>3, <1>4 DEF SerialInv

LEMMA SerialFinishes ==
    ASSUME TInv, SerialInv, NEW h \in Handlers, Alone(h), Finish(h),
           NoDoubleIn(booking'), PaidIn(pay', booking')
    PROVE  SerialInv'
BY IdleDecides, SerialMoves DEF Finish, Goto

\* It reads and goes on.
LEMMA SerialReads ==
    ASSUME TInv, SerialInv, NEW h \in Handlers, Alone(h), NEW l, NEW f,
           pc' = [pc EXCEPT ![h] = l], frame' = [frame EXCEPT ![h] = f],
           Decision(l, f, booking, change), DatabaseUnchanged
    PROVE  SerialInv'
<1>1. booking' = booking /\ change' = change /\ pay' = pay
  BY DEF DatabaseUnchanged
<1>2. NoDoubleIn(booking) /\ PaidIn(pay, booking)
  BY DEF SerialInv
<1> QED
  BY <1>1, <1>2, SerialMoves

LEMMA SerialStays ==
    ASSUME TInv, SerialInv, NEW h \in Handlers, Alone(h), NEW l,
           Goto(h, l), UNCHANGED frame,
           Decision(l, frame[h], booking, change), DatabaseUnchanged
    PROVE  SerialInv'
<1>1. frame' = [frame EXCEPT ![h] = frame[h]]
  BY HandlerKnows DEF TInv
<1> QED
  BY <1>1, SerialReads DEF Goto

LEMMA SerialGivesUp ==
    ASSUME TInv, SerialInv, NEW h \in Handlers, Alone(h), Finish(h), DatabaseUnchanged
    PROVE  SerialInv'
<1>1. booking' = booking /\ change' = change /\ pay' = pay
  BY DEF DatabaseUnchanged
<1>2. NoDoubleIn(booking) /\ PaidIn(pay, booking)
  BY DEF SerialInv
<1> QED
  BY <1>1, <1>2, SerialFinishes

\* What it knows about itself.
LEMMA SerialKnows ==
    ASSUME SerialInv, NEW h \in Handlers
    PROVE  NamesBooked(frame[h], booking) /\ Decided(pc[h], frame[h], booking, change)
BY DEF SerialInv, Decision

-----------------------------------------------------------------------------
(* Rows that only end.                                                     *)

LEMMA ShrinkingKeeps ==
    ASSUME NEW b, NEW e, NoDoubleIn(b), Shrinks(b, e) PROVE NoDoubleIn(e)
BY DEF NoDoubleIn, Shrinks

LEMMA PaidStays ==
    ASSUME NEW p, NEW q, NEW b, NEW e, PaidIn(p, b), BookedIn(b) \subseteq BookedIn(e),
           \A r \in Reservations : q[r] # "none" => p[r] # "none"
    PROVE  PaidIn(q, e)
BY DEF PaidIn

\* A lone handler ends reservations, or does not touch them, and moves.
LEMMA SerialEnds ==
    ASSUME TInv, SerialInv, NEW h \in Handlers, Alone(h), NEW l \in Plain, NEW f,
           pc' = [pc EXCEPT ![h] = l], frame' = [frame EXCEPT ![h] = f],
           NamesBooked(f, booking),
           Shrinks(booking, booking'), BookedIn(booking) \subseteq BookedIn(booking'),
           \A r \in Reservations : pay'[r] # "none" => pay[r] # "none"
    PROVE  SerialInv'
<1>1. NoDoubleIn(booking')
  BY ShrinkingKeeps DEF SerialInv
<1>2. PaidIn(pay', booking')
  BY PaidStays DEF SerialInv
<1>3. NamesBooked(f, booking')
  BY DEF NamesBooked
<1>4. Decision(l, f, booking', change')
  BY <1>3, PlainDecides
<1> QED
  BY <1>1, <1>2, <1>4, SerialMoves

LEMMA SerialEndsAndFinishes ==
    ASSUME TInv, SerialInv, NEW h \in Handlers, Alone(h), Finish(h),
           Shrinks(booking, booking'), BookedIn(booking) \subseteq BookedIn(booking'),
           \A r \in Reservations : pay'[r] # "none" => pay[r] # "none"
    PROVE  SerialInv'
<1>1. NoDoubleIn(booking')
  BY ShrinkingKeeps DEF SerialInv
<1>2. PaidIn(pay', booking')
  BY PaidStays DEF SerialInv
<1> QED
  BY <1>1, <1>2, SerialFinishes

\* Reservations end, go back to an earlier status or have a guest sit down; none
\* is made.
Quiet(b, e) == Shrinks(b, e) /\ BookedIn(b) = BookedIn(e)

LEMMA UnchangedQuiet == ASSUME NEW b PROVE Quiet(b, b)
BY DEF Quiet, Shrinks

\* Every written row is another row of the same reservation.
LEMMA RowsQuiet ==
    ASSUME NEW b, NEW e,
           \A r \in Reservations :
              \/ e[r] = b[r]
              \/ b[r].status # "NONE" /\ e[r].status # "NONE" /\ e[r].status \notin Blocking
    PROVE  Quiet(b, e)
BY DEF Quiet, Shrinks, BookedIn

LEMMA NotBlocking ==
    /\ \A s \in Terminal : s # "NONE" /\ s \notin Blocking
    /\ \A s \in Ends : s \in Terminal
    /\ \A s \in {"REQUESTED", "PENDING_VENUE_CONFIRMATION"} : s # "NONE" /\ s \notin Blocking
BY DEF Terminal, Ends, Blocking, Accepted, Seated

\* The status an update writes.
LEMMA WrittenStatus ==
    ASSUME NEW b \in Bookings, NEW st, NEW t
    PROVE  /\ [b EXCEPT !.status = st].status = st
           /\ [b EXCEPT !.status = st, !.confirmExp = t].status = st
BY DEF Bookings

LEMMA SetStatusQuiet ==
    ASSUME TInv, NEW S, S \subseteq BookedIn(booking), NEW new \in Terminal, SetStatus(S, new)
    PROVE  Quiet(booking, booking')
<1>1. \A r \in Reservations : r \notin S => booking'[r] = booking[r]
  BY DEF SetStatus
<1>2. \A r \in Reservations \cap S : booking'[r].status = new
  BY WrittenStatus DEF SetStatus, TInv, RowsTyped
<1>3. \A r \in Reservations \cap S : booking[r].status # "NONE"
  BY DEF BookedIn
<1>4. \A r \in Reservations :
      \/ booking'[r] = booking[r]
      \/ /\ booking[r].status # "NONE" /\ booking'[r].status # "NONE"
         /\ booking'[r].status \notin Blocking
  BY <1>1, <1>2, <1>3, NotBlocking
<1> QED
  BY <1>4, RowsQuiet

LEMMA EndingQuiet ==
    ASSUME TInv, SerialInv, NEW h \in Handlers, pc[h] \in EndLabels, EndReservations(h)
    PROVE  Quiet(booking, booking')
<1> DEFINE S == frame[h].hit
<1>1. frame[h].target \in Ends /\ S \subseteq BookedIn(booking)
  BY HandlerKnows, SerialKnows DEF TInv, LabelGood, NamesBooked
<1>2. \A r \in Reservations : r \notin S => booking'[r] = booking[r]
  BY DEF EndReservations
<1>3. \A r \in Reservations \cap S : booking'[r].status = frame[h].target
  <2> DEFINE T == frame[h].target
             e(r) == [booking[r] EXCEPT !.status = T, !.confirmExp = NoTime]
  <2>1. \A r \in Reservations \cap S : booking'[r] = e(r)
    BY DEF EndReservations
  <2> HIDE DEF T
  <2>2. \A r \in Reservations : booking[r] \in Bookings
    BY DEF TInv, RowsTyped
  <2>3. \A r \in Reservations : e(r).status = T
    BY <2>2, WrittenStatus
  <2> HIDE DEF e
  <2>4. \A r \in Reservations \cap S : booking'[r].status = T
    BY <2>1, <2>3
  <2> QED
    BY <2>4 DEF T
<1>4. \A r \in Reservations \cap S : booking[r].status # "NONE"
  BY <1>1 DEF BookedIn
<1> HIDE DEF S
<1>5. \A r \in Reservations :
      \/ booking'[r] = booking[r]
      \/ /\ booking[r].status # "NONE" /\ booking'[r].status # "NONE"
         /\ booking'[r].status \notin Blocking
  BY <1>1, <1>2, <1>3, <1>4, NotBlocking
<1> QED
  BY <1>5, RowsQuiet

\* One row is written, with a status that does not block.
LEMMA OneRowQuiet ==
    ASSUME TInv, NEW r \in BookedIn(booking), NEW e,
           booking' = [booking EXCEPT ![r] = e],
           e.status # "NONE", e.status \notin Blocking
    PROVE  Quiet(booking, booking')
<1>1. r \in Reservations /\ booking[r].status # "NONE"
  BY DEF BookedIn
<1>2. \A q \in Reservations : q \notin {r} => booking'[q] = booking[q]
  BY DEF TInv, RowsTyped
<1>3. \A q \in Reservations \cap {r} : booking'[q] = e
  BY <1>1 DEF TInv, RowsTyped
<1>4. \A q \in Reservations :
      \/ booking'[q] = booking[q]
      \/ /\ booking[q].status # "NONE" /\ booking'[q].status # "NONE"
         /\ booking'[q].status \notin Blocking
  BY <1>1, <1>2, <1>3
<1> QED
  BY <1>4, RowsQuiet

LEMMA AcceptExpireQuiet ==
    ASSUME TInv, SerialInv, NEW h \in Handlers, AcceptExpire(h)
    PROVE  Quiet(booking, booking') /\ frame[h].res \in BookedIn(booking)
<1> DEFINE r == frame[h].res
           t == IF booking[r].type = "ADVANCE" THEN NoTime ELSE booking[r].confirmExp
           e == [booking[r] EXCEPT !.status = "EXPIRED", !.confirmExp = t]
<1>1. r \in BookedIn(booking) /\ booking[r] \in Bookings
  BY AcceptingKnows, SerialKnows DEF AcceptExpire, AcceptLabels, NamesBooked, AboutReservation
<1>2. booking' = [booking EXCEPT ![r] = e]
  BY <1>1 DEF AcceptExpire, Bookings
<1>3. e.status = "EXPIRED"
  <2> HIDE DEF t, r
  <2> QED BY <1>1, WrittenStatus
<1>4. "EXPIRED" \in Terminal
  BY DEF Terminal
<1> HIDE DEF e, r
<1>5. Quiet(booking, booking')
  BY <1>1, <1>2, <1>3, <1>4, NotBlocking, OneRowQuiet
<1> QED
  BY <1>1, <1>5 DEF r

\* Checkout and claim.
LEMMA PaymentQuiet ==
    ASSUME TInv, SerialInv, NEW r \in Reservations, Checkout(r) \/ Claim(r)
    PROVE  /\ Quiet(booking, booking') /\ r \in BookedIn(booking)
           /\ \A q \in Reservations : q # r => pay'[q] = pay[q]
<1>1. r \in BookedIn(booking) /\ booking[r] \in Bookings
  BY DEF Checkout, Claim, Booked, BookedIn, SerialInv, PaidIn, TInv, RowsTyped
<1>2. PICK st \in {"REQUESTED", "PENDING_VENUE_CONFIRMATION"}, t \in {NoTime, now + ConfirmWindow} :
         booking' = [booking EXCEPT ![r].status = st, ![r].confirmExp = t]
  BY DEF Checkout, Claim
<1> DEFINE e == [booking[r] EXCEPT !.status = st, !.confirmExp = t]
<1>3. booking' = [booking EXCEPT ![r] = e]
  BY <1>2
<1>4. e.status = st
  BY <1>1, WrittenStatus
<1> HIDE DEF e
<1>5. Quiet(booking, booking')
  BY <1>1, <1>3, <1>4, NotBlocking, OneRowQuiet
<1>6. \A q \in Reservations : q # r => pay'[q] = pay[q]
  BY DEF Checkout, Claim, TInv, RowsTyped
<1> QED
  BY <1>1, <1>5, <1>6

\* A guest of an accepted reservation checks in, or sits down.
LEMMA CheckingInQuiet ==
    ASSUME TInv, SerialInv, NEW h \in Handlers, CheckInWrite(h) \/ CustomerCheckInWrite(h)
    PROVE  Quiet(booking, booking')
<1> DEFINE r  == frame[h].res
           e1 == [booking[r] EXCEPT !.status = "CHECKED_IN", !.venueIn = TRUE,
                                    !.confirmExp = NoTime]
           e2 == [booking[r] EXCEPT !.status = "CHECK_IN_PENDING", !.custIn = TRUE]
<1>1. booking[r].status \in Accepted /\ r \in Reservations /\ booking[r] \in Bookings
  BY SerialKnows, HandlerKnows DEF CheckInWrite, CustomerCheckInWrite, Decided, TInv, LabelGood,
     FieldsGood, AboutReservation, RowsTyped
<1>2. PICK e \in {e1, e2} : booking' = [booking EXCEPT ![r] = e]
  BY DEF CheckInWrite, CustomerCheckInWrite
<1>3. /\ e1.status = "CHECKED_IN" /\ e1.table = booking[r].table /\ e1.slot = booking[r].slot
      /\ e2.status = "CHECK_IN_PENDING" /\ e2.table = booking[r].table
      /\ e2.slot = booking[r].slot
  <2> HIDE DEF r
  <2> QED BY <1>1 DEF Bookings
<1> HIDE DEF e1, e2, r
<1>4. /\ e.status \in Blocking /\ e.status # "NONE"
      /\ e.table = booking[r].table /\ e.slot = booking[r].slot
  BY <1>2, <1>3 DEF Blocking, Accepted, Seated
<1>5. booking[r].status \in Blocking /\ booking[r].status # "NONE"
  BY <1>1 DEF Blocking, Accepted
<1>6. /\ \A q \in Reservations : q # r => booking'[q] = booking[q]
      /\ booking'[r] = e
  BY <1>1, <1>2 DEF TInv, RowsTyped
<1> QED
  BY <1>4, <1>5, <1>6 DEF Quiet, Shrinks, BookedIn

-----------------------------------------------------------------------------
(* Each step keeps the decisions: the cleanup.                             *)

\* The labels the cleanup goes through are plain.
LEMMA PlainLabels ==
    /\ CleanupLabels \subseteq Plain /\ EndLabels \subseteq Plain
    /\ {"void", "compete", "createBlockers", "acceptRead", "acceptExpire", "checkInRead",
        "customerCheckInRead", "changeBlockers", "changeCreate", "changeDecline"} \subseteq Plain
BY DEF Plain, CleanupLabels, EndLabels, AnswerLabels, Labels

\* Other rows it found, no rows, and what it waits for, do not change whom it names.
LEMMA NamesWith ==
    ASSUME NEW f \in Frames, NEW b, NamesBooked(f, b), NEW S, S \subseteq BookedIn(b)
    PROVE  /\ NamesBooked([f EXCEPT !.hit = S], b)
           /\ \A l : NamesBooked([f EXCEPT !.ret = l], b)
           /\ \A T : NamesBooked([f EXCEPT !.todo = T], b)
           /\ \A t : NamesBooked([f EXCEPT !.target = t], b)
BY DEF NamesBooked, Frames

\* A handler that found rows to end, or none.
LEMMA FoundDecides ==
    ASSUME TInv, SerialInv, NEW h \in Handlers, Alone(h), NEW S, S \subseteq BookedIn(booking),
           NEW write \in Plain, NEW next \in Plain, Found(h, S, write, next)
    PROVE  SerialInv'
<1>1. frame[h] \in Frames /\ NamesBooked(frame[h], booking)
  BY HandlerKnows, SerialKnows DEF TInv
<1>2. CASE S # {}
  <2> DEFINE f == [frame[h] EXCEPT !.hit = S]
  <2>1. NamesBooked(f, booking)
    BY <1>1, NamesWith
  <2>2. frame' = [frame EXCEPT ![h] = f] /\ pc' = [pc EXCEPT ![h] = write]
    BY <1>2 DEF Found, Goto
  <2> HIDE DEF f
  <2>3. Decision(write, f, booking, change)
    BY <2>1, PlainDecides
  <2> QED
    BY <2>2, <2>3, SerialReads DEF Found
<1>3. CASE S = {}
  <2>1. Decision(next, frame[h], booking, change)
    BY <1>1, PlainDecides
  <2> QED
    BY <1>3, <2>1, SerialStays DEF Found
<1> QED
  BY <1>2, <1>3

LEMMA ReleasesFind ==
    ASSUME TInv, SerialInv, NEW h \in Handlers, Alone(h), ExpireFind(h) \/ ArrivalFind(h)
    PROVE  SerialInv'
<1>1. /\ {r \in Booked : ConfirmationExpired(r)} \subseteq BookedIn(booking)
      /\ {r \in Booked : ArrivalLockExpired(r)} \subseteq BookedIn(booking)
  BY DEF Booked, BookedIn
<1>2. {"expWrite", "arrFind", "arrWrite", "nightFind"} \subseteq Plain
  BY PlainLabels DEF CleanupLabels
<1>3. CASE ExpireFind(h)
  BY <1>1, <1>2, <1>3, FoundDecides DEF ExpireFind
<1>4. CASE ArrivalFind(h)
  BY <1>1, <1>2, <1>4, FoundDecides DEF ArrivalFind
<1> QED
  BY <1>3, <1>4

\* The cleanup ends; its caller has decided nothing.
LEMMA CleanupDecides ==
    ASSUME TInv, SerialInv, NEW h \in Handlers, Alone(h), pc[h] \in CleanupLabels, CleanupDone(h),
           Quiet(booking, booking'), pay' = pay
    PROVE  SerialInv'
<1> DEFINE next == AfterCleanup[frame[h].op]
           f    == [frame[h] EXCEPT !.hit = {}]
<1>1. frame[h] \in Frames /\ frame[h].op \in DOMAIN AfterCleanup /\ NamesBooked(frame[h], booking)
  BY HandlerKnows, SerialKnows DEF TInv, LabelGood
<1>2. CASE next = "idle"
  BY <1>2, SerialEndsAndFinishes DEF CleanupDone, Quiet
<1>3. CASE next # "idle"
  <2>1. next \in Plain
    BY <1>1, <1>3, PlainLabels DEF AfterCleanup
  <2>2. NamesBooked(f, booking)
    BY <1>1, NamesWith
  <2>3. pc' = [pc EXCEPT ![h] = next] /\ frame' = [frame EXCEPT ![h] = f]
    BY <1>3 DEF CleanupDone, Goto
  <2> HIDE DEF f, next
  <2> QED
    BY <2>1, <2>2, <2>3, SerialEnds DEF Quiet
<1> QED
  BY <1>2, <1>3

\* The handler goes on to a plain label, with its frame.
LEMMA SerialEndsAndStays ==
    ASSUME TInv, SerialInv, NEW h \in Handlers, Alone(h), NEW l \in Plain, Goto(h, l),
           UNCHANGED frame, Quiet(booking, booking'),
           \A r \in Reservations : pay'[r] # "none" => pay[r] # "none"
    PROVE  SerialInv'
<1>1. frame' = [frame EXCEPT ![h] = frame[h]] /\ NamesBooked(frame[h], booking)
  BY HandlerKnows, SerialKnows DEF TInv
<1> QED
  BY <1>1, SerialEnds DEF Goto, Quiet

LEMMA ReleaseQuiet ==
    ASSUME TInv, SerialInv, NEW h \in Handlers,
           ExpireWrite(h) \/ ArrivalWrite(h) \/ NightWrite(h)
    PROVE  Quiet(booking, booking')
<1>1. frame[h].hit \subseteq BookedIn(booking)
  BY SerialKnows DEF NamesBooked
<1>2. {"EXPIRED", "NO_SHOW", "COMPLETED"} \subseteq Terminal
  BY DEF Terminal
<1> QED
  BY <1>1, <1>2, SetStatusQuiet DEF ExpireWrite, ArrivalWrite, NightWrite

LEMMA ExpireWriteDecides ==
    ASSUME TInv, SerialInv, NEW h \in Handlers, Alone(h), ExpireWrite(h) PROVE SerialInv'
<1> DEFINE f == [frame[h] EXCEPT !.ret = "arrFind"]
<1>1. frame[h] \in Frames /\ NamesBooked(frame[h], booking)
  BY HandlerKnows, SerialKnows DEF TInv
<1>2. NamesBooked(f, booking)
  BY <1>1, NamesWith DEF NamesBooked
<1>3. pc' = [pc EXCEPT ![h] = "void"] /\ frame' = [frame EXCEPT ![h] = f] /\ pay' = pay
  BY DEF ExpireWrite, Goto
<1> HIDE DEF f
<1> QED
  BY <1>2, <1>3, ReleaseQuiet, PlainLabels, SerialEnds DEF Quiet

LEMMA ReleasesWrite ==
    ASSUME TInv, SerialInv, NEW h \in Handlers, Alone(h), ArrivalWrite(h) \/ NightWrite(h)
    PROVE  SerialInv'
<1>1. Quiet(booking, booking') /\ pay' = pay
  BY ReleaseQuiet DEF ArrivalWrite, NightWrite
<1>2. "nightFind" \in Plain
  BY PlainLabels DEF CleanupLabels
<1>3. CASE Goto(h, "nightFind") /\ UNCHANGED frame
  BY <1>1, <1>2, <1>3, SerialEndsAndStays
<1>4. CASE Finish(h)
  BY <1>1, <1>4, SerialEndsAndFinishes DEF Quiet
<1>5. CASE NightWrite(h)
  BY <1>1, <1>5, CleanupDecides DEF NightWrite, CleanupLabels
<1> QED
  BY <1>3, <1>4, <1>5 DEF ArrivalWrite

LEMMA NightFindDecides ==
    ASSUME TInv, SerialInv, NEW h \in Handlers, Alone(h), NightFind(h) PROVE SerialInv'
<1> DEFINE over == {r \in Booked : booking[r].status \in Seated /\ NightLock(r) <= now}
<1>1. over \subseteq BookedIn(booking)
  BY DEF Booked, BookedIn
<1>2. {"nightWrite", "nightFind"} \subseteq Plain
  BY PlainLabels DEF CleanupLabels
<1>3. CASE over # {}
  <2>1. Found(h, over, "nightWrite", "nightFind")
    BY <1>3 DEF NightFind, Found
  <2> QED
    BY <1>1, <1>2, <2>1, FoundDecides
<1>4. CASE over = {}
  <2>1. CleanupDone(h) /\ pc[h] \in CleanupLabels
    BY <1>4 DEF NightFind, CleanupLabels
  <2>2. Quiet(booking, booking') /\ pay' = pay
    BY UnchangedQuiet DEF NightFind, DatabaseUnchanged
  <2> QED
    BY <2>1, <2>2, CleanupDecides
<1> QED
  BY <1>3, <1>4

LEMMA CleanupBeginDecides ==
    ASSUME MaxActive = 1, TInv, SerialInv, NEW h \in Handlers, CleanupBegin(h) PROVE SerialInv'
<1>1. Alone(h) /\ frame[h] = IdleFrame /\ frame[h] \in Frames /\ NamesBooked(frame[h], booking)
  BY EntersAlone, HandlerKnows, SerialKnows DEF CleanupBegin, Idle, Alone, TInv, LabelGood
<1>2. ASSUME NEW f, NamesBooked(f, booking), frame' = [frame EXCEPT ![h] = f]
      PROVE  SerialInv'
  <2>1. pc' = [pc EXCEPT ![h] = "expFind"] /\ DatabaseUnchanged
    BY DEF CleanupBegin, Goto
  <2>2. Decision("expFind", f, booking, change)
    BY <1>2, PlainDecides, PlainLabels DEF CleanupLabels
  <2> QED
    BY <1>1, <1>2, <2>1, <2>2, SerialReads
<1>3. CASE frame' = [frame EXCEPT ![h].op = "cleanup"]
  <2> DEFINE f == [frame[h] EXCEPT !.op = "cleanup"]
  <2>1. frame' = [frame EXCEPT ![h] = f]
    BY <1>3
  <2>2. f.op = "cleanup" /\ f.hit = frame[h].hit
    BY <1>1 DEF Frames
  <2> HIDE DEF f
  <2>3. NamesBooked(f, booking)
    BY <1>1, <2>2 DEF NamesBooked, AboutReservation
  <2> QED
    BY <1>2, <2>1, <2>3
<1>4. ASSUME NEW o, NEW r \in Booked, frame' = [frame EXCEPT ![h].op = o, ![h].res = r]
      PROVE  SerialInv'
  <2> DEFINE f == [frame[h] EXCEPT !.op = o, !.res = r]
             e == [frame[h] EXCEPT !.op = o]
  <2>1. frame' = [frame EXCEPT ![h] = f]
    BY <1>4
  <2>2. f = [e EXCEPT !.res = r]
    OBVIOUS
  <2>3. e.hit = frame[h].hit /\ DOMAIN e = DOMAIN frame[h]
    BY <1>1 DEF Frames
  <2>4. e.hit = frame[h].hit /\ [e EXCEPT !.res = r].hit = e.hit /\ [e EXCEPT !.res = r].res = r
    BY <1>1 DEF Frames
  <2> HIDE DEF e
  <2>5. f.hit = frame[h].hit /\ f.res = r
    BY <2>2, <2>4
  <2> HIDE DEF f
  <2>6. NamesBooked(f, booking)
    BY <1>1, <2>5 DEF NamesBooked, Booked, BookedIn
  <2> QED
    BY <1>2, <2>1, <2>6
<1> QED
  BY <1>3, <1>4 DEF CleanupBegin

LEMMA VoidDecides ==
    ASSUME TInv, SerialInv, NEW h \in Handlers, Alone(h), Void(h) PROVE SerialInv'
<1> DEFINE due == {r \in frame[h].hit : pay[r] \in {"open", "authorized"}}
           e   == [frame[h] EXCEPT !.hit = {}]
           f   == [frame[h] EXCEPT !.hit = {}, !.ret = "idle"]
<1> DEFINE back == frame[h].ret # "idle"
           done == [frame EXCEPT ![h].hit = {}, ![h].ret = "idle"]
<1>a. PICK refused \in SUBSET {r \in due : Refusals /\ pay[r] = "authorized"} :
         /\ pay' = [r \in Reservations |-> IF r \in refused THEN "parked"
                                           ELSE IF r \in due THEN "voided" ELSE pay[r]]
         /\ IF back /\ (refused = {} \/ frame[h].ret = "compete")
            THEN Goto(h, frame[h].ret) /\ frame' = done
            ELSE Finish(h)
  BY DEF Void
<1>b. done = [frame EXCEPT ![h] = f]
  OBVIOUS
<1>1. /\ pay' = [r \in Reservations |-> IF r \in refused THEN "parked"
                                           ELSE IF r \in due THEN "voided" ELSE pay[r]]
      /\ IF frame[h].ret # "idle" /\ (refused = {} \/ frame[h].ret = "compete")
         THEN Goto(h, frame[h].ret) /\ frame' = [frame EXCEPT ![h] = f]
         ELSE Finish(h)
  <2> HIDE DEF f, due
  <2> QED
    BY <1>a, <1>b
<1>2. \A r \in Reservations : pay'[r] # "none" => pay[r] # "none"
  BY <1>1
<1>3. Quiet(booking, booking')
  BY UnchangedQuiet DEF Void
<1>4. CASE Finish(h)
  BY <1>2, <1>3, <1>4, SerialEndsAndFinishes DEF Quiet
<1>5. CASE frame[h].ret # "idle" /\ Goto(h, frame[h].ret) /\ frame' = [frame EXCEPT ![h] = f]
  <2>1. /\ frame[h] \in Frames /\ NamesBooked(frame[h], booking)
        /\ frame[h].ret \in {"idle", "arrFind", "compete"}
    BY HandlerKnows, SerialKnows DEF TInv, FieldsGood
  <2>2. e \in Frames /\ NamesBooked(e, booking)
    BY <2>1, FrameWith, NamesWith
  <2>3. f = [e EXCEPT !.ret = "idle"]
    OBVIOUS
  <2> HIDE DEF e
  <2>4. NamesBooked(f, booking)
    BY <2>2, <2>3, NamesWith DEF NamesBooked
  <2>5. frame[h].ret \in Plain
    BY <1>5, <2>1, PlainLabels DEF CleanupLabels
  <2> HIDE DEF f
  <2> QED
    BY <1>2, <1>3, <1>5, <2>4, <2>5, SerialEnds DEF Goto, Quiet
<1> QED
  BY <1>1, <1>4, <1>5

-----------------------------------------------------------------------------
(* Creation and acceptance.                                                *)

\* findBlockingReservations misses nobody who has the table.
LEMMA BlockersAreAll ==
    ASSUME NEW t, NEW s, NEW x,
           \A q \in FindBlockers(t, s, x) : booking[q].status \notin Blocking
    PROVE  FreeIn(booking, t, s, x)
BY DEF FindBlockers, FreeIn, Clashes, HoldsOrAwaits, SameDay, NightLock, Booked, BookedIn

\* A request enters with no rows found and an operation that is not about a
\* reservation, or is about one that was made.
LEMMA EntersDeciding ==
    ASSUME MaxActive = 1, TInv, SerialInv, NEW h \in Handlers, NEW o, NEW l, NEW f \in Frames,
           Begin(h, o, l, f), DatabaseUnchanged,
           o \notin AboutReservation, f.hit \subseteq BookedIn(booking),
           Decided(l, [f EXCEPT !.op = o], booking, change)
    PROVE  SerialInv'
<1> DEFINE k == [f EXCEPT !.op = o]
<1>1. Alone(h)
  BY EntersAlone DEF Begin, Alone
<1>2. k.op = o /\ k.hit = f.hit
  BY DEF Frames
<1>3. pc' = [pc EXCEPT ![h] = l] /\ frame' = [frame EXCEPT ![h] = k]
  BY DEF Begin, Goto
<1>4. Decided(l, k, booking, change)
  OBVIOUS
<1> HIDE DEF k
<1>5. Decision(l, k, booking, change)
  BY <1>2, <1>4 DEF Decision, NamesBooked
<1> QED
  BY <1>1, <1>3, <1>5, SerialReads

LEMMA PlainDecided ==
    ASSUME NEW l \in Plain, NEW f, NEW b, NEW c PROVE Decided(l, f, b, c)
BY DEF Decided, Plain, AnswerLabels

LEMMA CreateBeginDecides ==
    ASSUME MaxActive = 1, TInv, SerialInv, NEW h \in Handlers, CreateBegin(h) PROVE SerialInv'
<1>1. PICK g \in Guests, t \in Tables, s \in Slots, ty \in BookableTypes :
         /\ Begin(h, "create", "expFind", [IdleFrame EXCEPT !.draft = Draft(g, t, s, ty)])
         /\ DatabaseUnchanged
  BY DEF CreateBegin
<1> DEFINE d == Draft(g, t, s, ty)
           f == [IdleFrame EXCEPT !.draft = d]
<1>2. d \in Bookings
  BY DraftTyped, IdentityAssumption DEF TInv, RowsTyped
<1> HIDE DEF d
<1>3. f \in Frames
  BY <1>2, IdleFrameGood, FrameWith
<1>4. f.hit = {}
  BY DEF IdleFrame
<1>5. Begin(h, "create", "expFind", f)
  BY <1>1 DEF d
<1> HIDE DEF f
<1>6. Decided("expFind", [f EXCEPT !.op = "create"], booking, change)
  BY PlainLabels, PlainDecided DEF CleanupLabels
<1> QED
  BY <1>1, <1>3, <1>4, <1>5, <1>6, EntersDeciding DEF AboutReservation

\* A test after which a handler goes on with a decision, or gives up.
LEMMA TestDecides ==
    ASSUME TInv, SerialInv, NEW h \in Handlers, Alone(h), NEW l, DatabaseUnchanged,
           \/ Goto(h, l) /\ UNCHANGED frame /\ Decided(l, frame[h], booking, change)
           \/ Finish(h)
    PROVE  SerialInv'
<1>1. NamesBooked(frame[h], booking)
  BY SerialKnows
<1> QED
  BY <1>1, SerialStays, SerialGivesUp DEF Decision

LEMMA CreateTestsDecide ==
    ASSUME TInv, SerialInv, NEW h \in Handlers, Alone(h), CreateBlockers(h) \/ CreateDaily(h)
    PROVE  SerialInv'
<1> DEFINE d == frame[h].draft
<1>1. CASE CreateBlockers(h)
  <2>1. CASE Goto(h, "createDaily") /\ UNCHANGED frame /\ FindBlockers(d.table, d.slot.start, None) = {}
    <3>1. FreeIn(booking, d.table, d.slot.start, None)
      BY <2>1, BlockersAreAll
    <3>2. Decided("createDaily", frame[h], booking, change)
      BY <3>1 DEF Decided, AnswerLabels
    <3> QED
      BY <1>1, <2>1, <3>2, TestDecides DEF CreateBlockers
  <2>2. CASE Finish(h)
    BY <1>1, <2>2, SerialGivesUp DEF CreateBlockers
  <2> QED
    BY <1>1, <2>1, <2>2 DEF CreateBlockers
<1>2. CASE CreateDaily(h)
  <2>1. FreeIn(booking, d.table, d.slot.start, None)
    BY <1>2, SerialKnows DEF CreateDaily, Decided
  <2>2. Decided("createWrite", frame[h], booking, change)
    BY <2>1 DEF Decided, AnswerLabels
  <2> QED
    BY <1>2, <2>2, TestDecides DEF CreateDaily
<1> QED
  BY <1>1, <1>2

\* The row that is made does not have the table yet.
LEMMA CreationShrinks ==
    ASSUME TInv, NEW h \in Handlers, CreateWrite(h)
    PROVE  /\ Shrinks(booking, booking') /\ BookedIn(booking) \subseteq BookedIn(booking')
           /\ \A r \in Reservations :
                 booking'[r] = booking[r] \/ (r \notin Booked /\ booking'[r] = frame[h].draft)
<1>1. frame[h].draft.status = "REQUESTED"
  BY HandlerKnows DEF CreateWrite, TInv, LabelGood, FieldsGood, CreateLabels
<1>2. \A r \in Reservations :
         booking'[r] = booking[r] \/ (r \notin Booked /\ booking'[r] = frame[h].draft)
  <2> DEFINE N == CHOOSE r \in Reservations \ Booked : TRUE
             d == frame[h].draft
             made == [booking EXCEPT ![N] = d]
  <2>1. booking' = IF Booked = Reservations THEN booking ELSE made
    BY DEF CreateWrite
  <2>2. Booked # Reservations => N \in Reservations \ Booked
    <3>1. Booked # Reservations => \E r \in Reservations \ Booked : TRUE
      BY DEF Booked
    <3> QED
      BY <3>1
  <2> HIDE DEF N, d
  <2>3. \A r \in Reservations : made[r] = IF r = N THEN d ELSE booking[r]
    BY DEF TInv, RowsTyped
  <2> HIDE DEF made
  <2>4. \A r \in Reservations : booking'[r] = booking[r] \/ (r \notin Booked /\ booking'[r] = d)
    BY <2>1, <2>2, <2>3
  <2> QED
    BY <2>4 DEF d
<1>3. Shrinks(booking, booking')
  BY <1>1, <1>2, NotBlocking DEF Shrinks
<1>4. BookedIn(booking) \subseteq BookedIn(booking')
  BY <1>1, <1>2, NotBlocking DEF BookedIn
<1> QED
  BY <1>2, <1>3, <1>4

LEMMA CreateWriteDecides ==
    ASSUME TInv, SerialInv, NEW h \in Handlers, Alone(h), CreateWrite(h) PROVE SerialInv'
<1>1. pay' = pay /\ Finish(h)
  BY DEF CreateWrite
<1> QED
  BY <1>1, CreationShrinks, SerialEndsAndFinishes

LEMMA PaymentDecides ==
    ASSUME MaxActive = 1, TInv, SerialInv, NEW r \in Reservations, Checkout(r) \/ Claim(r)
    PROVE  SerialInv'
<1>1. /\ Quiet(booking, booking') /\ r \in BookedIn(booking)
      /\ \A q \in Reservations : q # r => pay'[q] = pay[q]
  BY PaymentQuiet
<1>2. PaidIn(pay', booking')
  BY <1>1 DEF PaidIn, Quiet, SerialInv
<1>3. NoDoubleIn(booking')
  BY <1>1, ShrinkingKeeps DEF Quiet, SerialInv
<1>4. pc' = pc /\ frame' = frame
  BY DEF Checkout, Claim
<1>5. \A h \in Handlers : pc[h] = "idle" /\ frame[h] = IdleFrame
  BY EntersAlone, HandlerKnows DEF Checkout, Claim, TInv, LabelGood
<1>6. \A h \in Handlers : Decision(pc'[h], frame'[h], booking', change')
  BY <1>4, <1>5, IdleDecides
<1>7. OneActive'
  BY <1>4, <1>5 DEF OneActive
<1> QED
  BY <1>2, <1>3, <1>6, <1>7 DEF SerialInv

LEMMA AcceptReadDecides ==
    ASSUME TInv, SerialInv, NEW h \in Handlers, Alone(h), AcceptRead(h) PROVE SerialInv'
<1>1. CASE Finish(h)
  BY <1>1, SerialGivesUp DEF AcceptRead
<1>2. CASE Goto(h, "acceptExpire") /\ UNCHANGED frame
  BY <1>2, PlainLabels, PlainDecided, TestDecides DEF AcceptRead
<1>3. CASE /\ Goto(h, "acceptBlockers") /\ UNCHANGED frame
           /\ booking[frame[h].res].status = "PENDING_VENUE_CONFIRMATION"
  <2>1. Decided("acceptBlockers", frame[h], booking, change)
    BY <1>3 DEF Decided, AnswerLabels
  <2> QED
    BY <1>3, <2>1, TestDecides DEF AcceptRead
<1> QED
  BY <1>1, <1>2, <1>3 DEF AcceptRead

LEMMA AcceptExpireDecides ==
    ASSUME TInv, SerialInv, NEW h \in Handlers, Alone(h), AcceptExpire(h) PROVE SerialInv'
<1> DEFINE R == {frame[h].res}
           f == [frame[h] EXCEPT !.hit = R]
<1>1. frame[h] \in Frames /\ NamesBooked(frame[h], booking)
  BY HandlerKnows, SerialKnows DEF TInv
<1>2. Quiet(booking, booking') /\ R \subseteq BookedIn(booking)
  BY AcceptExpireQuiet
<1>3. pc' = [pc EXCEPT ![h] = "void"] /\ frame' = [frame EXCEPT ![h] = f] /\ pay' = pay
  BY DEF AcceptExpire, Goto
<1> HIDE DEF R
<1>4. NamesBooked(f, booking)
  BY <1>1, <1>2, NamesWith
<1> HIDE DEF f
<1> QED
  BY <1>2, <1>3, <1>4, PlainLabels, SerialEnds DEF Quiet

LEMMA AcceptBlockersDecides ==
    ASSUME TInv, SerialInv, NEW h \in Handlers, Alone(h), AcceptBlockers(h) PROVE SerialInv'
<1> DEFINE r == frame[h].res
           B == FindBlockers(booking[r].table, booking[r].slot.start, r)
           f == [frame[h] EXCEPT !.todo = B]
<1>1. /\ frame[h] \in Frames /\ NamesBooked(frame[h], booking)
      /\ booking[r].status = "PENDING_VENUE_CONFIRMATION"
  BY HandlerKnows, SerialKnows DEF AcceptBlockers, TInv, Decided
<1>2. CASE Finish(h)
  BY <1>2, SerialGivesUp DEF AcceptBlockers
<1>3. CASE /\ \A q \in B : booking[q].status \notin Blocking
           /\ Goto(h, "capture") /\ frame' = [frame EXCEPT ![h].todo = B]
  <2>1. FreeIn(booking, booking[r].table, booking[r].slot.start, r)
    BY <1>3, BlockersAreAll
  <2>2. pc' = [pc EXCEPT ![h] = "capture"] /\ frame' = [frame EXCEPT ![h] = f]
    BY <1>3 DEF Goto
  <2> HIDE DEF B
  <2>3. NamesBooked(f, booking)
    BY <1>1, NamesWith DEF NamesBooked
  <2>4. f.res = r
    BY <1>1 DEF Frames
  <2> HIDE DEF f, r
  <2>5. Decision("capture", f, booking, change)
    BY <1>1, <2>1, <2>3, <2>4 DEF Decision, Decided, AnswerLabels
  <2> QED
    BY <2>2, <2>5, SerialReads DEF AcceptBlockers
<1> QED
  BY <1>2, <1>3 DEF AcceptBlockers

LEMMA CaptureDecides ==
    ASSUME TInv, SerialInv, NEW h \in Handlers, Alone(h), Capture(h) PROVE SerialInv'
<1>1. Quiet(booking, booking') /\ booking' = booking /\ change' = change
  BY UnchangedQuiet DEF Capture
<1>2. \A r \in Reservations : pay'[r] # "none" => pay[r] # "none"
  BY DEF Capture, TInv, RowsTyped
<1>3. CASE Finish(h)
  BY <1>1, <1>2, <1>3, SerialEndsAndFinishes DEF Quiet
<1>4. CASE Goto(h, "acceptWrite") /\ UNCHANGED frame
  <2>1. Decision("acceptWrite", frame[h], booking, change)
    BY SerialKnows DEF Capture, Decision, Decided, AnswerLabels
  <2>2. /\ pc' = [pc EXCEPT ![h] = "acceptWrite"] /\ frame' = [frame EXCEPT ![h] = frame[h]]
        /\ Decision("acceptWrite", frame[h], booking', change')
    BY <1>1, <1>4, <2>1, HandlerKnows DEF TInv, Goto
  <2>3. NoDoubleIn(booking') /\ PaidIn(pay', booking')
    BY <1>1, <1>2, PaidStays DEF SerialInv
  <2> QED
    BY <2>2, <2>3, SerialMoves
<1> QED
  BY <1>3, <1>4 DEF Capture

\* What an acceptance writes: one row, with the table and the slot it had.
LEMMA AcceptanceWrites ==
    ASSUME TInv, SerialInv, NEW h \in Handlers, AcceptWrite(h), NEW r, r = frame[h].res
    PROVE  /\ r \in Reservations /\ booking[r].status = "PENDING_VENUE_CONFIRMATION"
           /\ FreeIn(booking, booking[r].table, booking[r].slot.start, r)
           /\ \A q \in Reservations : q # r => booking'[q] = booking[q]
           /\ booking'[r].status \in Accepted
           /\ booking'[r].table = booking[r].table /\ booking'[r].slot = booking[r].slot
<1> DEFINE b == booking[r]
           w == [opens |-> b.slot.start, closes |-> Rules(b.slot)!NightLockUntil(FALSE)]
           e1 == [b EXCEPT !.status = "CHECK_IN_PENDING", !.confirmExp = NoTime, !.custIn = TRUE,
                           !.window = w]
           e2 == [b EXCEPT !.status = "CONFIRMED", !.confirmExp = NoTime]
           e  == IF b.type = "LIVE" THEN e1 ELSE e2
<1>1. r \in Reservations /\ b \in Bookings
  BY AcceptingKnows DEF AcceptWrite, AcceptLabels
<1>2. /\ booking[r].status = "PENDING_VENUE_CONFIRMATION"
      /\ FreeIn(booking, booking[r].table, booking[r].slot.start, r)
  BY SerialKnows DEF AcceptWrite, Decided
<1>3. booking' = [booking EXCEPT ![r] = e]
  BY DEF AcceptWrite
<1>4. e1.status = "CHECK_IN_PENDING" /\ e1.table = b.table /\ e1.slot = b.slot
  <2> HIDE DEF b, w
  <2> QED BY <1>1 DEF Bookings
<1>5. e2.status = "CONFIRMED" /\ e2.table = b.table /\ e2.slot = b.slot
  <2> HIDE DEF b
  <2> QED BY <1>1 DEF Bookings
<1> HIDE DEF e1, e2
<1>6. e.status \in Accepted /\ e.table = b.table /\ e.slot = b.slot
  BY <1>4, <1>5 DEF Accepted
<1> HIDE DEF e
<1>7. booking'[r] = e /\ \A q \in Reservations : q # r => booking'[q] = booking[q]
  BY <1>1, <1>3 DEF TInv, RowsTyped
<1> QED
  BY <1>1, <1>2, <1>6, <1>7

\* A reservation that takes a table or another evening, where nobody is.
LEMMA TakingKeeps ==
    ASSUME NoDoubleIn(booking), NEW r \in Reservations, NEW t, NEW start,
           FreeIn(booking, t, start, r),
           \A q \in Reservations : q # r => booking'[q] = booking[q],
           booking'[r].table = t, booking'[r].slot.start = start
    PROVE  NoDoubleIn(booking')
<1>1. \A q \in Reservations \ {r} :
         booking[q].status \in Blocking /\ booking[q].table = t =>
            DayOf(booking[q].slot.start) # DayOf(start)
  BY DEF FreeIn, Clashes, BookedIn, Blocking, Accepted, Seated
<1> QED
  BY <1>1 DEF NoDoubleIn

LEMMA AcceptWriteDecides ==
    ASSUME TInv, SerialInv, NEW h \in Handlers, Alone(h), AcceptWrite(h) PROVE SerialInv'
<1> DEFINE r == frame[h].res
<1>1. /\ r \in Reservations /\ booking[r].status = "PENDING_VENUE_CONFIRMATION"
      /\ FreeIn(booking, booking[r].table, booking[r].slot.start, r)
      /\ \A q \in Reservations : q # r => booking'[q] = booking[q]
      /\ booking'[r].status \in Accepted
      /\ booking'[r].table = booking[r].table /\ booking'[r].slot = booking[r].slot
  BY AcceptanceWrites
<1>2. /\ Goto(h, "compete") /\ UNCHANGED frame /\ pay' = pay
      /\ frame' = [frame EXCEPT ![h] = frame[h]] /\ NamesBooked(frame[h], booking)
  BY HandlerKnows, SerialKnows DEF AcceptWrite, TInv
<1> HIDE DEF r
<1>3. NoDoubleIn(booking')
  BY <1>1, TakingKeeps DEF SerialInv
<1>4. BookedIn(booking) \subseteq BookedIn(booking')
  BY <1>1 DEF BookedIn, Accepted
<1>5. PaidIn(pay', booking')
  BY <1>2, <1>4 DEF PaidIn, SerialInv
<1>6. Decision("compete", frame[h], booking', change')
  BY <1>2, <1>4, PlainLabels, PlainDecides DEF NamesBooked
<1> QED
  BY <1>2, <1>3, <1>5, <1>6, SerialMoves DEF Goto

LEMMA CompeteDecides ==
    ASSUME TInv, SerialInv, NEW h \in Handlers, Alone(h), Compete(h) PROVE SerialInv'
<1>1. frame[h] \in Frames /\ NamesBooked(frame[h], booking)
  BY HandlerKnows, SerialKnows DEF TInv
<1>2. CASE Finish(h)
  BY <1>2, SerialGivesUp DEF Compete
<1>3. ASSUME NEW q \in frame[h].todo,
             booking[q].status = "PENDING_VENUE_CONFIRMATION", Goto(h, "endWrite"),
             frame' = [frame EXCEPT ![h].todo = @ \ {q}, ![h].hit = {q},
                                    ![h].target = "DECLINED", ![h].ret = "compete"]
      PROVE  SerialInv'
  <2> DEFINE T  == frame[h].todo \ {q}
             Q  == {q}
             e1 == [frame[h] EXCEPT !.todo = T]
             e2 == [e1 EXCEPT !.hit = Q]
             e3 == [e2 EXCEPT !.target = "DECLINED"]
             f  == [e3 EXCEPT !.ret = "compete"]
  <2>1. q \in Reservations /\ T \in SUBSET Reservations
    BY <1>1, FrameFields
  <2>2. frame' = [frame EXCEPT ![h] = f] /\ pc' = [pc EXCEPT ![h] = "endWrite"]
    BY <1>3 DEF Goto
  <2>3. Q \subseteq BookedIn(booking) /\ Q \in SUBSET Reservations
    BY <1>3, <2>1 DEF BookedIn
  <2> HIDE DEF T, Q
  <2>4. e1 \in Frames /\ NamesBooked(e1, booking)
    BY <1>1, <2>1, FrameWith, NamesWith DEF NamesBooked
  <2> HIDE DEF e1
  <2>5. e2 \in Frames /\ NamesBooked(e2, booking)
    BY <2>3, <2>4, FrameWith, NamesWith
  <2> HIDE DEF e2
  <2>6. e3 \in Frames /\ NamesBooked(e3, booking)
    BY <2>5, FrameWith, NamesWith DEF NamesBooked, Statuses, Terminal
  <2> HIDE DEF e3
  <2>7. NamesBooked(f, booking)
    BY <2>6, NamesWith DEF NamesBooked
  <2> HIDE DEF f
  <2>8. Decision("endWrite", f, booking, change) /\ DatabaseUnchanged
    BY <2>7, PlainLabels, PlainDecides DEF EndLabels, Compete
  <2> QED
    BY <2>2, <2>8, SerialReads
<1>4. ASSUME NEW q \in frame[h].todo, frame' = [frame EXCEPT ![h].todo = @ \ {q}], UNCHANGED pc
      PROVE  SerialInv'
  <2> DEFINE T == frame[h].todo \ {q}
             f == [frame[h] EXCEPT !.todo = T]
  <2>1. frame' = [frame EXCEPT ![h] = f] /\ pc' = [pc EXCEPT ![h] = "compete"]
    BY <1>4 DEF Compete, TInv, ControlInv
  <2> HIDE DEF T
  <2>2. NamesBooked(f, booking)
    BY <1>1, NamesWith DEF NamesBooked
  <2> HIDE DEF f
  <2>3. Decision("compete", f, booking, change) /\ DatabaseUnchanged
    BY <2>2, PlainLabels, PlainDecides DEF Compete
  <2> QED
    BY <2>1, <2>3, SerialReads
<1> QED
  BY <1>2, <1>3, <1>4 DEF Compete

-----------------------------------------------------------------------------
(* Endings, check-ins, time changes.                                       *)

LEMMA EndsBeginDecide ==
    ASSUME MaxActive = 1, TInv, SerialInv, NEW h \in Handlers, NEW r \in Booked,
           Decline(h, r) \/ CancelByCustomer(h, r) \/ CancelByVenue(h, r)
    PROVE  SerialInv'
<1>1. PICK o \in {"decline", "cancelByCustomer", "cancelByVenue"}, l \in EndLabels,
           t \in Ends : BeginEnd(h, o, l, r, t)
  BY DEF Decline, CancelByCustomer, CancelByVenue, EndLabels, Ends
<1> DEFINE R  == {r}
           e1 == [IdleFrame EXCEPT !.res = r]
           e2 == [e1 EXCEPT !.hit = R]
           f  == [e2 EXCEPT !.target = t]
<1>2. r \in Reservations /\ R \subseteq BookedIn(booking) /\ R \in SUBSET Reservations
  BY DEF Booked, BookedIn
<1>3. Begin(h, o, l, f) /\ DatabaseUnchanged
  BY <1>1 DEF BeginEnd
<1> HIDE DEF R
<1>4. e1 \in Frames
  BY <1>2, IdleFrameGood, FrameWith
<1> HIDE DEF e1
<1>5. e2 \in Frames /\ e2.hit = R
  BY <1>2, <1>4, FrameWith DEF Frames
<1> HIDE DEF e2
<1>6. f \in Frames /\ f.hit = R
  BY <1>5, FrameWith DEF Frames, Ends, Statuses, Terminal
<1> HIDE DEF f
<1>7. Decided(l, [f EXCEPT !.op = o], booking, change)
  BY PlainLabels, PlainDecided
<1> QED
  BY <1>2, <1>3, <1>6, <1>7, EntersDeciding DEF AboutReservation

LEMMA UsageReadDecides ==
    ASSUME TInv, SerialInv, NEW h \in Handlers, Alone(h), UsageRead(h) PROVE SerialInv'
<1>1. Decided("venueCancelWrite", frame[h], booking, change)
  BY PlainLabels, PlainDecided DEF EndLabels
<1> QED
  BY <1>1, TestDecides DEF UsageRead

LEMMA EndsWrite ==
    ASSUME TInv, SerialInv, NEW h \in Handlers, Alone(h), EndWrite(h) \/ VenueCancelWrite(h)
    PROVE  SerialInv'
<1>1. EndReservations(h) /\ pc[h] \in EndLabels
  BY DEF EndWrite, VenueCancelWrite, EndLabels
<1>2. Quiet(booking, booking') /\ Goto(h, "void") /\ UNCHANGED frame /\ pay' = pay
  BY <1>1, EndingQuiet DEF EndReservations
<1> QED
  BY <1>2, PlainLabels, SerialEndsAndStays

LEMMA CheckInReadsDecide ==
    ASSUME TInv, SerialInv, NEW h \in Handlers, Alone(h),
           CheckInRead(h) \/ CustomerCheckInRead(h)
    PROVE  SerialInv'
<1>1. CASE Finish(h)
  BY <1>1, SerialGivesUp DEF CheckInRead, CustomerCheckInRead
<1>2. ASSUME NEW l \in {"checkInWrite", "customerCheckInWrite"}, Goto(h, l), UNCHANGED frame,
             booking[frame[h].res].status \in Accepted
      PROVE  SerialInv'
  <2>1. Decided(l, frame[h], booking, change)
    BY <1>2 DEF Decided, AnswerLabels
  <2> QED
    BY <1>2, <2>1, TestDecides DEF CheckInRead, CustomerCheckInRead
<1> QED
  BY <1>1, <1>2 DEF CheckInRead, CustomerCheckInRead

LEMMA CheckInsWrite ==
    ASSUME TInv, SerialInv, NEW h \in Handlers, Alone(h),
           CheckInWrite(h) \/ CustomerCheckInWrite(h)
    PROVE  SerialInv'
<1>1. Quiet(booking, booking')
  BY CheckingInQuiet
<1>2. Finish(h) /\ pay' = pay
  BY DEF CheckInWrite, CustomerCheckInWrite
<1> QED
  BY <1>1, <1>2, SerialEndsAndFinishes DEF Quiet

LEMMA ChangeCreateBeginDecides ==
    ASSUME MaxActive = 1, TInv, SerialInv, NEW h \in Handlers, NEW r \in Booked,
           ChangeCreateBegin(h, r)
    PROVE  SerialInv'
<1>1. PICK s \in Slots \ {booking[r].slot} :
         /\ Begin(h, "changeCreate", "changeBlockers",
                  [IdleFrame EXCEPT !.res = r,
                     !.draft = Draft(booking[r].guest, booking[r].table, s, booking[r].type)])
         /\ DatabaseUnchanged
  BY DEF ChangeCreateBegin
<1> DEFINE d == Draft(booking[r].guest, booking[r].table, s, booking[r].type)
           e == [IdleFrame EXCEPT !.res = r]
           f == [e EXCEPT !.draft = d]
<1>2. r \in Reservations /\ d \in Bookings
  <2>1. r \in Reservations /\ booking[r] \in Bookings /\ now \in Nat /\ s \in Slots
    BY DEF Booked, TInv, RowsTyped
  <2>2. booking[r].guest \in Guests /\ booking[r].table \in Tables /\ booking[r].type \in Types
    BY <2>1, RowWith
  <2> QED
    BY <2>1, <2>2, DraftTyped
<1>3. Begin(h, "changeCreate", "changeBlockers", f)
  BY <1>1
<1> HIDE DEF d
<1>4. e \in Frames /\ e.hit = {}
  <2>1. e \in Frames
    BY <1>2, IdleFrameGood, FrameWith
  <2> QED
    BY <2>1 DEF IdleFrame
<1> HIDE DEF e
<1>5. f \in Frames /\ f.hit = {}
  BY <1>2, <1>4, FrameWith DEF Frames
<1> HIDE DEF f
<1>6. Decided("changeBlockers", [f EXCEPT !.op = "changeCreate"], booking, change)
  BY PlainLabels, PlainDecided
<1> QED
  BY <1>1, <1>3, <1>5, <1>6, EntersDeciding DEF AboutReservation

LEMMA AnswersBeginDecide ==
    ASSUME MaxActive = 1, TInv, SerialInv, NEW h \in Handlers, NEW c \in Changes,
           ChangeAcceptBegin(h, c) \/ ChangeDeclineBegin(h, c)
    PROVE  SerialInv'
<1>1. CASE ChangeAcceptBegin(h, c)
  <2> DEFINE r == change[c].res
             e == [IdleFrame EXCEPT !.res = r]
             f == [e EXCEPT !.change = c]
             k == [f EXCEPT !.op = "changeAccept"]
  <2>1. /\ Begin(h, "changeAccept", "changeAcceptBlockers", f) /\ DatabaseUnchanged
        /\ booking[r].status \in Accepted /\ r \in Reservations
    BY <1>1 DEF ChangeAcceptBegin, TInv, RowsTyped
  <2> HIDE DEF r
  <2>2. e \in Frames /\ e.hit = {} /\ e.res = r
    <3>1. e \in Frames
      BY <2>1, IdleFrameGood, FrameWith
    <3> QED
      BY <3>1 DEF IdleFrame
  <2> HIDE DEF e
  <2>3. f \in Frames /\ f.hit = {} /\ f.res = r
    BY <2>2, FrameWith DEF Frames
  <2> HIDE DEF f
  <2>4. k.res = r
    BY <2>3 DEF Frames
  <2>5. Decided("changeAcceptBlockers", k, booking, change)
    <3> HIDE DEF k
    <3> QED BY <2>1, <2>4 DEF Decided, AnswerLabels
  <2> QED
    BY <2>1, <2>3, <2>5, EntersDeciding DEF AboutReservation
<1>2. CASE ChangeDeclineBegin(h, c)
  <2> DEFINE f == [IdleFrame EXCEPT !.change = c]
  <2>1. Begin(h, "changeDecline", "changeDecline", f) /\ DatabaseUnchanged
    BY <1>2 DEF ChangeDeclineBegin
  <2>2. f \in Frames /\ f.hit = {}
    <3>1. f \in Frames
      BY IdleFrameGood, FrameWith
    <3> QED
      BY <3>1 DEF IdleFrame
  <2> HIDE DEF f
  <2>3. Decided("changeDecline", [f EXCEPT !.op = "changeDecline"], booking, change)
    BY PlainLabels, PlainDecided
  <2> QED
    BY <2>1, <2>2, <2>3, EntersDeciding DEF AboutReservation
<1> QED
  BY <1>1, <1>2

LEMMA ChangeTestsDecide ==
    ASSUME TInv, SerialInv, NEW h \in Handlers, Alone(h),
           ChangeBlockers(h) \/ ChangeAcceptBlockers(h)
    PROVE  SerialInv'
<1>1. CASE ChangeBlockers(h)
  <2>1. Decided("changeCreate", frame[h], booking, change)
    BY PlainLabels, PlainDecided
  <2> QED
    BY <1>1, <2>1, TestDecides DEF ChangeBlockers, FreeAt
<1>2. CASE ChangeAcceptBlockers(h)
  <2> DEFINE r == frame[h].res
             start == change[frame[h].change].slot.start
  <2>1. CASE Finish(h)
    BY <1>2, <2>1, SerialGivesUp DEF ChangeAcceptBlockers, FreeAt
  <2>2. CASE /\ FindBlockers(booking[r].table, start, r) = {}
             /\ Goto(h, "changeAccept") /\ UNCHANGED frame
    <3>1. FreeIn(booking, booking[r].table, start, r)
      BY <2>2, BlockersAreAll
    <3>2. booking[r].status \in Accepted
      BY <1>2, SerialKnows DEF ChangeAcceptBlockers, Decided, AnswerLabels
    <3>3. Decided("changeAccept", frame[h], booking, change)
      BY <3>1, <3>2 DEF Decided
    <3> QED
      BY <1>2, <2>2, <3>3, TestDecides DEF ChangeAcceptBlockers, FreeAt
  <2> QED
    BY <1>2, <2>1, <2>2 DEF ChangeAcceptBlockers, FreeAt
<1> QED
  BY <1>1, <1>2

\* Writes of requests alone.
LEMMA ChangesWriteDecide ==
    ASSUME TInv, SerialInv, NEW h \in Handlers, Alone(h), ChangeCreate(h) \/ ChangeDecline(h)
    PROVE  SerialInv' /\ booking' = booking
<1>1. Finish(h) /\ pay' = pay /\ booking' = booking
  BY DEF ChangeCreate, ChangeDecline
<1>2. Quiet(booking, booking')
  BY <1>1, UnchangedQuiet
<1> QED
  BY <1>1, <1>2, SerialEndsAndFinishes DEF Quiet

\* What an agreed change writes: the evening of one reservation that has its table.
LEMMA ChangeWrites ==
    ASSUME TInv, SerialInv, NEW h \in Handlers, ChangeAccept(h),
           NEW r, r = frame[h].res, NEW s, s = change[frame[h].change].slot
    PROVE  /\ r \in Reservations /\ booking[r].status \in Accepted /\ s \in Slots
           /\ FreeIn(booking, booking[r].table, s.start, r)
           /\ \A q \in Reservations : q # r => booking'[q] = booking[q]
           /\ booking'[r].status = booking[r].status
           /\ booking'[r].table = booking[r].table /\ booking'[r].slot = s
<1> DEFINE b == booking[r]
           w == change[frame[h].change].window
           e == [b EXCEPT !.slot = s, !.window = w]
<1>1. r \in Reservations /\ frame[h].change \in Changes /\ b \in Bookings
  BY HandlerKnows DEF ChangeAccept, TInv, LabelGood, AnswerLabels, RowsTyped
<1>2. /\ booking[r].status \in Accepted
      /\ FreeIn(booking, booking[r].table, s.start, r)
  BY SerialKnows DEF ChangeAccept, Decided, AnswerLabels
<1>3. s \in Slots
  BY <1>1, ChangeFields DEF TInv
<1>4. booking' = [booking EXCEPT ![r] = e]
  BY DEF ChangeAccept
<1>5. e.status = b.status /\ e.table = b.table /\ e.slot = s
  <2> HIDE DEF b, w
  <2> QED BY <1>1 DEF Bookings
<1> HIDE DEF e
<1>6. booking'[r] = e /\ \A q \in Reservations : q # r => booking'[q] = booking[q]
  BY <1>1, <1>4 DEF TInv, RowsTyped
<1> QED
  BY <1>1, <1>2, <1>3, <1>5, <1>6

LEMMA ChangeAcceptDecides ==
    ASSUME TInv, SerialInv, NEW h \in Handlers, Alone(h), ChangeAccept(h) PROVE SerialInv'
<1> DEFINE r == frame[h].res
           s == change[frame[h].change].slot
<1>1. /\ r \in Reservations /\ booking[r].status \in Accepted /\ s \in Slots
      /\ FreeIn(booking, booking[r].table, s.start, r)
      /\ \A q \in Reservations : q # r => booking'[q] = booking[q]
      /\ booking'[r].status = booking[r].status
      /\ booking'[r].table = booking[r].table /\ booking'[r].slot = s
  BY ChangeWrites
<1>2. Finish(h) /\ pay' = pay
  BY DEF ChangeAccept
<1> HIDE DEF r, s
<1>3. NoDoubleIn(booking')
  BY <1>1, TakingKeeps DEF SerialInv
<1>4. BookedIn(booking) \subseteq BookedIn(booking')
  BY <1>1 DEF BookedIn
<1>5. PaidIn(pay', booking')
  BY <1>2, <1>4 DEF PaidIn, SerialInv
<1> QED
  BY <1>2, <1>3, <1>5, SerialFinishes

-----------------------------------------------------------------------------
(* The invariant of serial service.                                        *)

LEMMA InitSerial == Init => SerialInv
<1> SUFFICES ASSUME Init PROVE SerialInv
  OBVIOUS
<1>1. OneActive
  BY DEF Init, OneActive
<1>2. PaidIn(pay, booking)
  BY DEF Init, PaidIn
<1>3. NoDoubleIn(booking)
  BY DEF Init, NoDoubleIn, NoBooking, Blocking, Accepted, Seated
<1>4. \A h \in Handlers : Decision(pc[h], frame[h], booking, change)
  BY IdleDecides DEF Init
<1> QED
  BY <1>1, <1>2, <1>3, <1>4 DEF SerialInv

LEMMA StepDecides == ASSUME TInv, SerialInv, NEW h \in Handlers, GoesOn(h) PROVE SerialInv'
<1>1. pc[h] # "idle"
  BY DEF GoesOn, ExpireFind, ExpireWrite, ArrivalFind, ArrivalWrite, NightFind, NightWrite, Void,
     CreateBlockers, CreateDaily, CreateWrite, AcceptRead, AcceptExpire, AcceptBlockers, Capture,
     AcceptWrite, Compete, EndWrite, UsageRead, VenueCancelWrite, CheckInRead, CheckInWrite,
     CustomerCheckInRead, CustomerCheckInWrite, ChangeBlockers, ChangeCreate,
     ChangeAcceptBlockers, ChangeAccept, ChangeDecline
<1>2. Alone(h)
  BY <1>1, MoverIsAlone
<1>3. CASE \/ ExpireFind(h) \/ ExpireWrite(h) \/ ArrivalFind(h) \/ ArrivalWrite(h)
           \/ NightFind(h) \/ NightWrite(h) \/ Void(h)
  BY <1>2, <1>3, ReleasesFind, ExpireWriteDecides, ReleasesWrite, NightFindDecides, VoidDecides
<1>4. CASE CreateBlockers(h) \/ CreateDaily(h) \/ CreateWrite(h)
  BY <1>2, <1>4, CreateTestsDecide, CreateWriteDecides
<1>5. CASE \/ AcceptRead(h) \/ AcceptExpire(h) \/ AcceptBlockers(h) \/ Capture(h)
           \/ AcceptWrite(h) \/ Compete(h)
  BY <1>2, <1>5, AcceptReadDecides, AcceptExpireDecides, AcceptBlockersDecides, CaptureDecides,
     AcceptWriteDecides, CompeteDecides
<1>6. CASE EndWrite(h) \/ UsageRead(h) \/ VenueCancelWrite(h)
  BY <1>2, <1>6, EndsWrite, UsageReadDecides
<1>7. CASE \/ CheckInRead(h) \/ CheckInWrite(h) \/ CustomerCheckInRead(h)
           \/ CustomerCheckInWrite(h)
  BY <1>2, <1>7, CheckInReadsDecide, CheckInsWrite
<1>8. CASE \/ ChangeBlockers(h) \/ ChangeCreate(h) \/ ChangeAcceptBlockers(h)
           \/ ChangeAccept(h) \/ ChangeDecline(h)
  BY <1>2, <1>8, ChangeTestsDecide, ChangesWriteDecide, ChangeAcceptDecides
<1> QED
  BY <1>3, <1>4, <1>5, <1>6, <1>7, <1>8 DEF GoesOn

LEMMA ArrivalDecides ==
    ASSUME MaxActive = 1, TInv, SerialInv, NEW h \in Handlers, Arrives(h) PROVE SerialInv'
<1>1. CASE CreateBegin(h)
  BY <1>1, CreateBeginDecides
<1>2. ASSUME NEW r \in Booked,
             \/ Decline(h, r) \/ CancelByCustomer(h, r) \/ CancelByVenue(h, r)
             \/ ChangeCreateBegin(h, r)
      PROVE  SerialInv'
  BY <1>2, EndsBeginDecide, ChangeCreateBeginDecides
<1>3. ASSUME NEW c \in Changes, ChangeAcceptBegin(h, c) \/ ChangeDeclineBegin(h, c)
      PROVE  SerialInv'
  BY <1>3, AnswersBeginDecide
<1> QED
  BY <1>1, <1>2, <1>3 DEF Arrives

LEMMA NextSerial == MaxActive = 1 /\ TInv /\ SerialInv /\ [Next]_vars => SerialInv'
<1> SUFFICES ASSUME MaxActive = 1, TInv, SerialInv, [Next]_vars PROVE SerialInv'
  OBVIOUS
<1>1. CASE UNCHANGED <<booking, pay, change, pc, frame>>
  BY <1>1 DEF SerialInv, OneActive
<1>2. ASSUME NEW r \in Reservations, Checkout(r) \/ Claim(r) PROVE SerialInv'
  BY <1>2, PaymentDecides
<1>3. ASSUME NEW h \in Handlers, CleanupBegin(h) \/ Arrives(h) \/ GoesOn(h) PROVE SerialInv'
  BY <1>3, CleanupBeginDecides, ArrivalDecides, StepDecides
<1> QED
  BY <1>1, <1>2, <1>3 DEF Next, Tick, vars

\* Served one at a time, handlers write what they decided while it still holds.
THEOREM DecisionsHold == MaxActive = 1 => (Spec => [](TInv /\ SerialInv))
<1> SUFFICES ASSUME MaxActive = 1 PROVE Spec => [](TInv /\ SerialInv)
  OBVIOUS
<1>1. Init => TInv /\ SerialInv
  BY InitInv, InitSerial
<1>2. TInv /\ SerialInv /\ [Next]_vars => (TInv /\ SerialInv)'
  BY NextInv, NextSerial
<1> QED
  BY <1>1, <1>2, PTL DEF Spec

\* Requests served one at a time give no table to two reservations a day, which the
\* Conflict exceptions of acceptReservation and of the time changes promise: the
\* blockers found some statements before the write are still all there are.
THEOREM TablesGivenOnce == MaxActive = 1 => (Spec => []NoDoubleBooking)
<1> SUFFICES ASSUME MaxActive = 1 PROVE Spec => []NoDoubleBooking
  OBVIOUS
<1>1. SerialInv => NoDoubleBooking
  BY DEF SerialInv, NoDoubleIn, NoDoubleBooking, Booked, SameDay
<1> QED
  BY <1>1, DecisionsHold, PTL

-----------------------------------------------------------------------------
(* What each step does to tables.                                          *)

\* A step gives a table, moves a holder, makes a reservation, or lets tables go.
LEMMA StepsOfTables ==
    ASSUME MaxActive = 1, TInv, SerialInv, [Next]_vars
    PROVE  \/ Quiet(booking, booking')
           \/ \E h \in Handlers : CreateWrite(h) \/ AcceptWrite(h) \/ ChangeAccept(h)
<1>1. CASE UNCHANGED booking
  BY <1>1, UnchangedQuiet
<1>2. ASSUME NEW r \in Reservations, Checkout(r) \/ Claim(r)
      PROVE  Quiet(booking, booking')
  BY <1>2, PaymentQuiet
<1>3. ASSUME NEW h \in Handlers, CleanupBegin(h) \/ Arrives(h)
      PROVE  UNCHANGED booking
  BY <1>3 DEF CleanupBegin, Arrives, CreateBegin, Decline, CancelByCustomer, CancelByVenue,
     BeginEnd, ChangeCreateBegin, ChangeAcceptBegin, ChangeDeclineBegin, DatabaseUnchanged
<1>4. ASSUME NEW h \in Handlers, GoesOn(h)
      PROVE  \/ Quiet(booking, booking')
             \/ CreateWrite(h) \/ AcceptWrite(h) \/ ChangeAccept(h)
  <2>1. CASE ExpireWrite(h) \/ ArrivalWrite(h) \/ NightWrite(h)
    BY <2>1, ReleaseQuiet
  <2>2. CASE AcceptExpire(h)
    BY <2>2, AcceptExpireQuiet
  <2>3. CASE EndWrite(h) \/ VenueCancelWrite(h)
    BY <2>3, EndingQuiet DEF EndWrite, VenueCancelWrite, EndLabels
  <2>4. CASE CheckInWrite(h) \/ CustomerCheckInWrite(h)
    BY <2>4, CheckingInQuiet
  <2>5. CASE \/ ExpireFind(h) \/ ArrivalFind(h) \/ NightFind(h) \/ Void(h) \/ CreateBlockers(h)
             \/ CreateDaily(h) \/ AcceptRead(h) \/ AcceptBlockers(h) \/ Capture(h) \/ Compete(h)
             \/ UsageRead(h) \/ CheckInRead(h) \/ CustomerCheckInRead(h) \/ ChangeBlockers(h)
             \/ ChangeCreate(h) \/ ChangeAcceptBlockers(h) \/ ChangeDecline(h)
    <3>1. UNCHANGED booking
      BY <2>5 DEF ExpireFind, ArrivalFind, NightFind, Found, Void, CreateBlockers, CreateDaily,
         AcceptRead, AcceptBlockers, Capture, Compete, UsageRead, CheckInRead,
         CustomerCheckInRead, ChangeBlockers, ChangeCreate, ChangeAcceptBlockers, ChangeDecline,
         FreeAt, DatabaseUnchanged
    <3> QED
      BY <3>1, UnchangedQuiet
  <2> QED
    BY <1>4, <2>1, <2>2, <2>3, <2>4, <2>5 DEF GoesOn
<1> QED
  BY <1>1, <1>2, <1>3, <1>4 DEF Next, Tick, vars

\* A table is taken only where nobody is: what createReservation and
\* acceptReservation found in an earlier statement still decides rightly.
LEMMA TakenIsFree ==
    ASSUME MaxActive = 1, TInv, SerialInv, [Next]_vars, NEW r \in Reservations,
           \/ booking[r].status = "NONE" /\ booking'[r].status # "NONE"
           \/ booking[r].status \notin Blocking /\ booking'[r].status \in Blocking
    PROVE  FreeIn(booking, booking'[r].table, booking'[r].slot.start, r)
<1>1. ~Quiet(booking, booking')
  BY DEF Quiet, Shrinks, BookedIn
<1>2. PICK h \in Handlers : CreateWrite(h) \/ AcceptWrite(h) \/ ChangeAccept(h)
  BY <1>1, StepsOfTables
<1>3. CASE CreateWrite(h)
  <2>1. booking'[r] = frame[h].draft
    BY <1>3, CreationShrinks DEF Shrinks
  <2>2. FreeIn(booking, frame[h].draft.table, frame[h].draft.slot.start, None)
    BY <1>3, SerialKnows DEF CreateWrite, Decided
  <2> QED
    BY <2>1, <2>2, IdentityAssumption DEF FreeIn, BookedIn
<1>4. CASE AcceptWrite(h)
  <2> DEFINE n == frame[h].res
  <2>1. /\ FreeIn(booking, booking[n].table, booking[n].slot.start, n)
        /\ \A q \in Reservations : q # n => booking'[q] = booking[q]
        /\ booking'[n].table = booking[n].table /\ booking'[n].slot = booking[n].slot
    BY <1>4, AcceptanceWrites
  <2> HIDE DEF n
  <2>2. r = n
    BY <2>1
  <2> QED
    BY <2>1, <2>2
<1>5. CASE ChangeAccept(h)
  <2> DEFINE n == frame[h].res
  <2>1. /\ \A q \in Reservations : q # n => booking'[q] = booking[q]
        /\ booking'[n].status = booking[n].status
    BY <1>5, ChangeWrites
  <2> HIDE DEF n
  <2>2. booking'[r].status = booking[r].status
    BY <2>1
  <2> QED
    BY <2>2
<1> QED
  BY <1>2, <1>3, <1>4, <1>5

\* TableFreeWhenTaken for handlers served one at a time.
THEOREM TablesTakenWhenFree == MaxActive = 1 => (Spec => TableFreeWhenTaken)
<1> SUFFICES ASSUME MaxActive = 1 PROVE Spec => TableFreeWhenTaken
  OBVIOUS
<1>1. ASSUME TInv, SerialInv, [Next]_vars PROVE TakesFreeTable
  <2> SUFFICES ASSUME NEW r \in Reservations, Taken(r)
               PROVE  FreeFor(r, booking'[r].table, booking'[r].slot.start)
    BY DEF TakesFreeTable
  <2>1. FreeIn(booking, booking'[r].table, booking'[r].slot.start, r)
    BY <1>1, TakenIsFree DEF Taken
  <2> QED
    BY <2>1 DEF FreeFor, FreeIn, Clashes, BookedIn, Booked, SameDay, NightLock
<1>2. TInv /\ SerialInv /\ [Next]_vars => [TakesFreeTable]_vars
  BY <1>1
<1> QED
  BY <1>2, DecisionsHold, PTL DEF Spec, TableFreeWhenTaken

-----------------------------------------------------------------------------
(* TableBookings implements TableAssignment.                               *)

Holding(b, r) == [res |-> r, table |-> b[r].table, day |-> DayOf(b[r].slot.start)]

HeldIn(b) == {Holding(b, r) : r \in {q \in Reservations : b[q].status \in Blocking}}

\* The holdings of the abstract specification.
LEMMA HoldsAreHeld == Held = HeldIn(booking)
<1>1. {q \in Booked : booking[q].status \in Blocking} =
      {q \in Reservations : booking[q].status \in Blocking}
  BY DEF Booked, Blocking, Accepted, Seated
<1> QED
  BY <1>1 DEF Held, HeldIn, Holding

LEMMA HoldingFields ==
    ASSUME NEW b, NEW r
    PROVE  /\ Holding(b, r).res = r /\ Holding(b, r).table = b[r].table
           /\ Holding(b, r).day = DayOf(b[r].slot.start)
BY DEF Holding

\* Rows that only end release tables.
LEMMA ShrinkingReleases ==
    ASSUME NEW b, NEW e, Shrinks(b, e) PROVE \E S \in SUBSET HeldIn(b) : HeldIn(e) = HeldIn(b) \ S
<1>1. HeldIn(e) \subseteq HeldIn(b)
  BY DEF Shrinks, HeldIn, Holding
<1>2. HeldIn(e) = HeldIn(b) \ (HeldIn(b) \ HeldIn(e))
  BY <1>1
<1> QED
  BY <1>2

\* A reservation whose table is free does not share it.
LEMMA FreeOfOthers ==
    ASSUME NEW b, NEW t, NEW start, NEW r, FreeIn(b, t, start, r), NEW q \in Reservations \ {r},
           b[q].status \in Blocking
    PROVE  ~(Holding(b, q).table = t /\ Holding(b, q).day = DayOf(start)) /\ Holding(b, q).res # r
BY HoldingFields DEF FreeIn, Clashes, BookedIn, Blocking, Accepted, Seated

\* An acceptance gives the table.
LEMMA AcceptanceGives ==
    ASSUME TInv, SerialInv, NEW h \in Handlers, AcceptWrite(h)
    PROVE  \E a \in [res: Reservations, table: Tables, day: Days] :
              /\ \A x \in HeldIn(booking) : ~(x.table = a.table /\ x.day = a.day) /\ x.res # a.res
              /\ HeldIn(booking') = HeldIn(booking) \cup {a}
<1> DEFINE r == frame[h].res
           a == Holding(booking, r)
<1>1. /\ r \in Reservations /\ booking[r].status = "PENDING_VENUE_CONFIRMATION"
      /\ FreeIn(booking, booking[r].table, booking[r].slot.start, r)
      /\ \A q \in Reservations : q # r => booking'[q] = booking[q]
      /\ booking'[r].status \in Accepted
      /\ booking'[r].table = booking[r].table /\ booking'[r].slot = booking[r].slot
  BY AcceptanceWrites
<1> HIDE DEF r
<1>2. booking[r].table \in Tables /\ booking[r].slot \in Slots
  BY <1>1, RowWith DEF TInv, RowsTyped
<1>3. a \in [res: Reservations, table: Tables, day: Days]
  BY <1>1, <1>2 DEF Holding, Days
<1>4. a.res = r /\ a.table = booking[r].table /\ a.day = DayOf(booking[r].slot.start)
  BY HoldingFields
<1>5. \A x \in HeldIn(booking) : ~(x.table = a.table /\ x.day = a.day) /\ x.res # a.res
  <2> SUFFICES ASSUME NEW q \in Reservations, booking[q].status \in Blocking, NEW x,
                      x = Holding(booking, q)
               PROVE  ~(x.table = a.table /\ x.day = a.day) /\ x.res # a.res
    BY DEF HeldIn
  <2>1. q # r
    BY <1>1, NotBlocking
  <2> QED
    BY <1>1, <1>4, <2>1, FreeOfOthers
<1>6. Holding(booking', r) = a /\ \A q \in Reservations : q # r => Holding(booking', q) = Holding(booking, q)
  BY <1>1 DEF Holding
<1>7. {q \in Reservations : booking'[q].status \in Blocking} =
      {q \in Reservations : booking[q].status \in Blocking} \cup {r}
  BY <1>1 DEF Blocking
<1>8. HeldIn(booking') = HeldIn(booking) \cup {a}
  <2> DEFINE B == {q \in Reservations : booking[q].status \in Blocking}
  <2>1. r \notin B /\ B \subseteq Reservations
    BY <1>1, NotBlocking
  <2>2. {Holding(booking', q) : q \in B \cup {r}} = {Holding(booking, q) : q \in B} \cup {a}
    <3> HIDE DEF B, a
    <3> QED BY <1>6, <2>1
  <2> QED
    BY <1>7, <2>2 DEF HeldIn
<1> HIDE DEF a
<1> QED
  BY <1>3, <1>5, <1>8

\* An agreed time change moves the holder.
LEMMA ChangeMoves ==
    ASSUME TInv, SerialInv, NEW h \in Handlers, ChangeAccept(h)
    PROVE  \E a \in HeldIn(booking), d \in Days :
              /\ \A x \in HeldIn(booking) \ {a} : ~(x.table = a.table /\ x.day = d) /\ x.res # a.res
              /\ HeldIn(booking') = (HeldIn(booking) \ {a}) \cup {[a EXCEPT !.day = d]}
<1> DEFINE r == frame[h].res
           s == change[frame[h].change].slot
           a == Holding(booking, r)
           d == DayOf(s.start)
           B == {q \in Reservations : booking[q].status \in Blocking}
<1>1. /\ r \in Reservations /\ booking[r].status \in Accepted /\ s \in Slots
      /\ FreeIn(booking, booking[r].table, s.start, r)
      /\ \A q \in Reservations : q # r => booking'[q] = booking[q]
      /\ booking'[r].status = booking[r].status
      /\ booking'[r].table = booking[r].table /\ booking'[r].slot = s
  BY ChangeWrites
<1> HIDE DEF r, s
<1>2. r \in B /\ B \subseteq Reservations
  BY <1>1 DEF Blocking
<1>3. a \in HeldIn(booking) /\ d \in Days
  BY <1>1, <1>2 DEF HeldIn, Days
<1>4. a.res = r /\ a.table = booking[r].table
  BY HoldingFields
<1>5. \A x \in HeldIn(booking) \ {a} : ~(x.table = a.table /\ x.day = d) /\ x.res # a.res
  <2> SUFFICES ASSUME NEW q \in Reservations, booking[q].status \in Blocking, NEW x,
                      x = Holding(booking, q), x # a
               PROVE  ~(x.table = a.table /\ x.day = d) /\ x.res # a.res
    BY DEF HeldIn
  <2>1. q # r
    OBVIOUS
  <2> QED
    BY <1>1, <1>4, <2>1, FreeOfOthers
<1>6. [a EXCEPT !.day = d] = Holding(booking', r)
  BY <1>1 DEF Holding
<1>7. \A q \in Reservations : q # r => Holding(booking', q) = Holding(booking, q)
  BY <1>1 DEF Holding
<1>8. {q \in Reservations : booking'[q].status \in Blocking} = B
  BY <1>1
<1>9. \A q \in Reservations : q # r => Holding(booking, q) # a
  BY HoldingFields
<1>10. HeldIn(booking') = (HeldIn(booking) \ {a}) \cup {[a EXCEPT !.day = d]}
  <2> DEFINE n == Holding(booking', r)
  <2>1. {Holding(booking', q) : q \in B} = ({Holding(booking, q) : q \in B} \ {a}) \cup {n}
    <3> DEFINE old(q) == Holding(booking, q)
               new(q) == Holding(booking', q)
    <3>1. /\ n = new(r) /\ a = old(r)
          /\ \A q \in B : q # r => new(q) = old(q) /\ old(q) # a
      BY <1>2, <1>7, <1>9
    <3> HIDE DEF B, old, new, n, a
    <3>2. {new(q) : q \in B} = ({old(q) : q \in B} \ {a}) \cup {n}
      BY <1>2, <3>1
    <3> QED
      BY <3>2 DEF old, new
  <2>2. HeldIn(booking') = {Holding(booking', q) : q \in B}
    BY <1>8 DEF HeldIn
  <2>3. HeldIn(booking) = {Holding(booking, q) : q \in B}
    BY DEF HeldIn
  <2> HIDE DEF B, n
  <2>4. n = [a EXCEPT !.day = d]
    BY <1>6 DEF n
  <2> HIDE DEF a
  <2> QED
    BY <2>1, <2>2, <2>3, <2>4
<1> HIDE DEF a, d
<1> QED
  BY <1>3, <1>5, <1>10

LEMMA HeldAfter == Held' = HeldIn(booking')
<1>1. {q \in Booked' : booking'[q].status \in Blocking} =
      {q \in Reservations : booking'[q].status \in Blocking}
  BY DEF Booked, Blocking, Accepted, Seated
<1> QED
  BY <1>1 DEF Held, HeldIn, Holding

\* Every step of TableBookings is a step of TableAssignment or leaves it alone.
LEMMA StepsOfAssignment ==
    ASSUME MaxActive = 1, TInv, SerialInv, [Next]_vars
    PROVE  Assignment!Next \/ UNCHANGED Held
<1>1. Held = HeldIn(booking) /\ Held' = HeldIn(booking')
  BY HoldsAreHeld, HeldAfter
<1>2. ASSUME Shrinks(booking, booking') PROVE Assignment!Next
  <2>1. \E S \in SUBSET HeldIn(booking) : HeldIn(booking') = HeldIn(booking) \ S
    BY <1>2, ShrinkingReleases
  <2>2. Assignment!Release
    BY <1>1, <2>1 DEF Assignment!Release
  <2> QED
    BY <2>2 DEF Assignment!Next
<1>3. ASSUME NEW h \in Handlers, AcceptWrite(h) PROVE Assignment!Next
  <2>1. Assignment!Assign
    BY <1>1, <1>3, AcceptanceGives DEF Assignment!Assign, Assignment!FreeFor, Assignment!Holdings
  <2> QED
    BY <2>1 DEF Assignment!Next
<1>4. ASSUME NEW h \in Handlers, ChangeAccept(h) PROVE Assignment!Next
  <2>1. Assignment!Move
    BY <1>1, <1>4, ChangeMoves DEF Assignment!Move, Assignment!FreeFor
  <2> QED
    BY <2>1 DEF Assignment!Next
<1> QED
  BY <1>2, <1>3, <1>4, StepsOfTables, CreationShrinks DEF Quiet

\* Handlers served one at a time implement TableAssignment: a table is given to
\* one reservation a day and changes hands only through a release, with any number
\* of requests, tables, slots and reservations.
THEOREM ImplementsAssignment == MaxActive = 1 => (Spec => TablesAssigned)
<1> SUFFICES ASSUME MaxActive = 1 PROVE Spec => TablesAssigned
  OBVIOUS
<1>1. Init => Assignment!Init
  <2> SUFFICES ASSUME Init PROVE Held = {}
    BY DEF Assignment!Init
  <2>1. Booked = {}
    BY DEF Init, Booked, NoBooking
  <2> QED
    BY <2>1 DEF Held
<1>2. TInv /\ SerialInv /\ [Next]_vars => [Assignment!Next]_Held
  BY StepsOfAssignment
<1> QED
  BY <1>1, <1>2, DecisionsHold, PTL DEF Spec, TablesAssigned, Assignment!Spec

-----------------------------------------------------------------------------
(* Time changes.                                                           *)

\* Reservations that were made keep their evening and their guest.
Keeps(b, e) ==
    \A r \in Reservations : b[r].status # "NONE" =>
        e[r].slot = b[r].slot /\ e[r].guest = b[r].guest

\* Every row that is written, but for a time change, keeps them.
LEMMA WrittenKeeps ==
    ASSUME NEW b \in Bookings, NEW st, NEW t, NEW w
    PROVE  \A e \in {[b EXCEPT !.status = st], [b EXCEPT !.status = st, !.confirmExp = t],
                     [b EXCEPT !.status = st, !.venueIn = TRUE, !.confirmExp = t],
                     [b EXCEPT !.status = st, !.custIn = TRUE],
                     [b EXCEPT !.status = st, !.confirmExp = t, !.custIn = TRUE, !.window = w]} :
              e.status = st /\ e.slot = b.slot /\ e.guest = b.guest
<1>1. /\ [b EXCEPT !.status = st].slot = b.slot /\ [b EXCEPT !.status = st].guest = b.guest
      /\ [b EXCEPT !.status = st].status = st
  BY DEF Bookings
<1>2. ASSUME NEW e, e = [b EXCEPT !.status = st, !.confirmExp = t]
      PROVE  e.status = st /\ e.slot = b.slot /\ e.guest = b.guest
  BY <1>2 DEF Bookings
<1>3. ASSUME NEW e, e = [b EXCEPT !.status = st, !.venueIn = TRUE, !.confirmExp = t]
      PROVE  e.status = st /\ e.slot = b.slot /\ e.guest = b.guest
  BY <1>3 DEF Bookings
<1>4. ASSUME NEW e, e = [b EXCEPT !.status = st, !.custIn = TRUE]
      PROVE  e.status = st /\ e.slot = b.slot /\ e.guest = b.guest
  BY <1>4 DEF Bookings
<1>5. ASSUME NEW e,
             e = [b EXCEPT !.status = st, !.confirmExp = t, !.custIn = TRUE, !.window = w]
      PROVE  e.status = st /\ e.slot = b.slot /\ e.guest = b.guest
  BY <1>5 DEF Bookings
<1> QED
  BY <1>1, <1>2, <1>3, <1>4, <1>5

LEMMA UnchangedKeeps == ASSUME NEW b PROVE Keeps(b, b)
BY DEF Keeps

\* One row is written.
LEMMA RowKeeps ==
    ASSUME TInv, NEW r \in Reservations, NEW e, booking' = [booking EXCEPT ![r] = e],
           e.slot = booking[r].slot, e.guest = booking[r].guest
    PROVE  Keeps(booking, booking')
BY DEF Keeps, TInv, RowsTyped

\* Releases, cancellations and refusals.
LEMMA EndingsKeep ==
    ASSUME TInv, NEW h \in Handlers,
           \/ ExpireWrite(h) \/ ArrivalWrite(h) \/ NightWrite(h)
           \/ EndWrite(h) \/ VenueCancelWrite(h)
    PROVE  Keeps(booking, booking')
<1>1. \A r \in Reservations : booking[r] \in Bookings
  BY DEF TInv, RowsTyped
<1>2. ASSUME NEW S, NEW st, SetStatus(S, st) PROVE Keeps(booking, booking')
  <2> DEFINE e(r) == [booking[r] EXCEPT !.status = st]
  <2>1. \A r \in Reservations : booking'[r] = IF r \in S THEN e(r) ELSE booking[r]
    BY <1>2 DEF SetStatus
  <2>2. \A r \in Reservations : e(r).slot = booking[r].slot /\ e(r).guest = booking[r].guest
    BY <1>1, WrittenKeeps
  <2> HIDE DEF e
  <2> QED
    BY <2>1, <2>2 DEF Keeps
<1>3. ASSUME EndReservations(h) PROVE Keeps(booking, booking')
  <2> DEFINE S  == frame[h].hit
             st == frame[h].target
             e(r) == [booking[r] EXCEPT !.status = st, !.confirmExp = NoTime]
  <2>1. \A r \in Reservations : booking'[r] = IF r \in S THEN e(r) ELSE booking[r]
    BY <1>3 DEF EndReservations
  <2> HIDE DEF S, st
  <2>2. \A r \in Reservations : e(r).slot = booking[r].slot /\ e(r).guest = booking[r].guest
    BY <1>1, WrittenKeeps
  <2> HIDE DEF e
  <2> QED
    BY <2>1, <2>2 DEF Keeps
<1> QED
  BY <1>2, <1>3 DEF ExpireWrite, ArrivalWrite, NightWrite, EndWrite, VenueCancelWrite

LEMMA AnswersKeep ==
    ASSUME TInv, NEW h \in Handlers,
           AcceptExpire(h) \/ AcceptWrite(h) \/ CheckInWrite(h) \/ CustomerCheckInWrite(h)
    PROVE  Keeps(booking, booking')
<1> DEFINE r == frame[h].res
           b == booking[r]
           t == IF b.type = "ADVANCE" THEN NoTime ELSE b.confirmExp
           w == [opens |-> b.slot.start, closes |-> Rules(b.slot)!NightLockUntil(FALSE)]
<1>1. r \in Reservations /\ b \in Bookings
  BY HandlerKnows DEF AcceptExpire, AcceptWrite, CheckInWrite, CustomerCheckInWrite, TInv,
     LabelGood, FieldsGood, AcceptLabels, AboutReservation, RowsTyped
<1>2. ASSUME NEW e, booking' = [booking EXCEPT ![r] = e],
             e.slot = b.slot, e.guest = b.guest
      PROVE  Keeps(booking, booking')
  BY <1>1, <1>2, RowKeeps
<1>3. CASE AcceptExpire(h)
  <2> DEFINE e == [b EXCEPT !.status = "EXPIRED", !.confirmExp = t]
  <2>1. booking' = [booking EXCEPT ![r] = e]
    BY <1>1, <1>3 DEF AcceptExpire, Bookings
  <2>2. e.slot = b.slot /\ e.guest = b.guest
    <3> HIDE DEF t, b
    <3> QED BY <1>1, WrittenKeeps
  <2> HIDE DEF e, r
  <2> QED
    BY <1>2, <2>1, <2>2
<1>4. CASE AcceptWrite(h)
  <2> DEFINE e1 == [b EXCEPT !.status = "CHECK_IN_PENDING", !.confirmExp = NoTime,
                             !.custIn = TRUE, !.window = w]
             e2 == [b EXCEPT !.status = "CONFIRMED", !.confirmExp = NoTime]
  <2>1. booking' = [booking EXCEPT ![r] = IF b.type = "LIVE" THEN e1 ELSE e2]
    BY <1>4 DEF AcceptWrite
  <2>2. e1.slot = b.slot /\ e1.guest = b.guest
    <3> HIDE DEF w, b
    <3> QED BY <1>1, WrittenKeeps
  <2>3. e2.slot = b.slot /\ e2.guest = b.guest
    <3> HIDE DEF b
    <3> QED BY <1>1, WrittenKeeps
  <2> HIDE DEF e1, e2, r
  <2> QED
    BY <1>2, <2>1, <2>2, <2>3
<1>5. CASE CheckInWrite(h)
  <2> DEFINE e == [b EXCEPT !.status = "CHECKED_IN", !.venueIn = TRUE, !.confirmExp = NoTime]
  <2>1. booking' = [booking EXCEPT ![r] = e]
    BY <1>5 DEF CheckInWrite
  <2>2. e.slot = b.slot /\ e.guest = b.guest
    <3> HIDE DEF b
    <3> QED BY <1>1, WrittenKeeps
  <2> HIDE DEF e, r
  <2> QED
    BY <1>2, <2>1, <2>2
<1>6. CASE CustomerCheckInWrite(h)
  <2> DEFINE e == [b EXCEPT !.status = "CHECK_IN_PENDING", !.custIn = TRUE]
  <2>1. booking' = [booking EXCEPT ![r] = e]
    BY <1>6 DEF CustomerCheckInWrite
  <2>2. e.slot = b.slot /\ e.guest = b.guest
    <3> HIDE DEF b
    <3> QED BY <1>1, WrittenKeeps
  <2> HIDE DEF e, r
  <2> QED
    BY <1>2, <2>1, <2>2
<1> QED
  BY <1>3, <1>4, <1>5, <1>6

LEMMA PaymentKeeps ==
    ASSUME TInv, SerialInv, NEW r \in Reservations, Checkout(r) \/ Claim(r)
    PROVE  Keeps(booking, booking')
<1>1. booking[r] \in Bookings
  BY DEF TInv, RowsTyped
<1>2. PICK st \in {"REQUESTED", "PENDING_VENUE_CONFIRMATION"}, t \in {NoTime, now + ConfirmWindow} :
         booking' = [booking EXCEPT ![r].status = st, ![r].confirmExp = t]
  BY DEF Checkout, Claim
<1> DEFINE e == [booking[r] EXCEPT !.status = st, !.confirmExp = t]
<1>3. booking' = [booking EXCEPT ![r] = e]
  BY <1>2
<1>4. e.slot = booking[r].slot /\ e.guest = booking[r].guest
  BY <1>1, WrittenKeeps
<1> HIDE DEF e
<1> QED
  BY <1>3, <1>4, RowKeeps

\* The steps that write no reservation.
ReadsOnly(h) ==
    \/ ExpireFind(h) \/ ArrivalFind(h) \/ NightFind(h) \/ Void(h) \/ CreateBlockers(h)
    \/ CreateDaily(h) \/ AcceptRead(h) \/ AcceptBlockers(h) \/ Capture(h) \/ Compete(h)
    \/ UsageRead(h) \/ CheckInRead(h) \/ CustomerCheckInRead(h) \/ ChangeBlockers(h)
    \/ ChangeCreate(h) \/ ChangeAcceptBlockers(h) \/ ChangeDecline(h)

LEMMA ReadsOnlyReads == ASSUME NEW h, ReadsOnly(h) PROVE UNCHANGED booking
BY DEF ReadsOnly, ExpireFind, ArrivalFind, NightFind, Found, Void, CreateBlockers, CreateDaily,
   AcceptRead, AcceptBlockers, Capture, Compete, UsageRead, CheckInRead, CustomerCheckInRead,
   ChangeBlockers, ChangeCreate, ChangeAcceptBlockers, ChangeDecline, FreeAt, DatabaseUnchanged

LEMMA ArrivingReads ==
    ASSUME NEW h, CleanupBegin(h) \/ Arrives(h)
    PROVE  UNCHANGED <<now, booking, pay, change, penalties>>
BY DEF CleanupBegin, Arrives, CreateBegin, Decline, CancelByCustomer, CancelByVenue,
   BeginEnd, ChangeCreateBegin, ChangeAcceptBegin, ChangeDeclineBegin, DatabaseUnchanged

\* A handler moves a reservation only by agreeing to a time change.
LEMMA GoingOnKeeps ==
    ASSUME TInv, NEW h \in Handlers, GoesOn(h)
    PROVE  Keeps(booking, booking') \/ ChangeAccept(h)
<1>1. CASE ReadsOnly(h)
  BY <1>1, ReadsOnlyReads, UnchangedKeeps
<1>2. CASE CreateWrite(h)
  BY <1>2, CreationShrinks DEF Keeps, Booked
<1>3. CASE \/ ExpireWrite(h) \/ ArrivalWrite(h) \/ NightWrite(h)
           \/ EndWrite(h) \/ VenueCancelWrite(h)
  BY <1>3, EndingsKeep
<1>4. CASE AcceptExpire(h) \/ AcceptWrite(h) \/ CheckInWrite(h) \/ CustomerCheckInWrite(h)
  BY <1>4, AnswersKeep
<1> QED
  BY <1>1, <1>2, <1>3, <1>4 DEF GoesOn, ReadsOnly

LEMMA EveningsKept ==
    ASSUME TInv, SerialInv, [Next]_vars
    PROVE  Keeps(booking, booking') \/ \E h \in Handlers : ChangeAccept(h)
<1>1. CASE UNCHANGED booking
  BY <1>1, UnchangedKeeps
<1>2. ASSUME NEW r \in Reservations, Checkout(r) \/ Claim(r) PROVE Keeps(booking, booking')
  BY <1>2, PaymentKeeps
<1> QED
  BY <1>1, <1>2, ArrivingReads, GoingOnKeeps DEF Next, Tick, vars

-----------------------------------------------------------------------------
(* The request an answer is about still waits.                             *)

AnsweringLabels == AnswerLabels \cup {"changeDecline"}

Answering(l, f, c) ==
    /\ l \in AnsweringLabels => c[f.change].status = "PENDING"
    /\ l \in AnswerLabels => c[f.change].res = f.res

AgreeInv == \A h \in Handlers : Answering(pc[h], frame[h], change)

\* A lone handler goes to a label where nothing is answered.
LEMMA NothingAnswered ==
    ASSUME TInv, NEW h \in Handlers, Alone(h), NEW l, l \notin AnsweringLabels,
           pc' = [pc EXCEPT ![h] = l]
    PROVE  AgreeInv'
<1>1. \A k \in Handlers : pc'[k] = "idle" \/ pc'[k] = l
  BY DEF Alone, TInv, ControlInv
<1> QED
  BY <1>1 DEF AgreeInv, Answering, AnsweringLabels, AnswerLabels

\* Only the test of an agreement leads on to an answer.
LEMMA GoingOnAnswers ==
    ASSUME TInv, NEW h \in Handlers, GoesOn(h)
    PROVE  \/ ChangeAcceptBlockers(h)
           \/ \E l : l \notin AnsweringLabels /\ pc' = [pc EXCEPT ![h] = l]
<1> DEFINE Goes == \E l : l \notin AnsweringLabels /\ pc' = [pc EXCEPT ![h] = l]
<1> DEFINE Free(l) == l \notin AnsweringLabels
<1>1. /\ Free("idle") /\ Free("void") /\ Free("endWrite") /\ Free("venueCancelWrite")
      /\ Free("expWrite") /\ Free("arrFind") /\ Free("arrWrite") /\ Free("nightFind")
      /\ Free("nightWrite") /\ Free("createBlockers") /\ Free("createDaily")
      /\ Free("createWrite") /\ Free("acceptRead") /\ Free("acceptExpire")
      /\ Free("acceptBlockers") /\ Free("capture") /\ Free("acceptWrite") /\ Free("compete")
      /\ Free("checkInRead") /\ Free("checkInWrite") /\ Free("customerCheckInRead")
      /\ Free("customerCheckInWrite") /\ Free("changeCreate")
  BY DEF AnsweringLabels, AnswerLabels
<1>2. ASSUME NEW l, Free(l), Goto(h, l) PROVE Goes
  BY <1>2 DEF Goto
<1> HIDE DEF Free
<1>3. ASSUME Finish(h) PROVE Goes
  BY <1>1, <1>2, <1>3 DEF Finish
<1>4. ASSUME CleanupDone(h), pc[h] \in CleanupLabels PROVE Goes
  <2>1. frame[h].op \in DOMAIN AfterCleanup
    BY <1>4, HandlerKnows DEF TInv, LabelGood
  <2>2. Free(AfterCleanup[frame[h].op])
    BY <1>1, <2>1 DEF AfterCleanup
  <2> QED
    BY <1>2, <1>3, <1>4, <2>2 DEF CleanupDone
<1>5. ASSUME Void(h) PROVE Goes
  <2>1. frame[h].ret \in {"idle", "arrFind", "compete"}
    BY HandlerKnows DEF TInv, FieldsGood
  <2>2. Free(frame[h].ret)
    BY <1>1, <2>1
  <2>3. Goto(h, frame[h].ret) \/ Finish(h)
    BY <1>5 DEF Void
  <2> QED
    BY <1>2, <1>3, <2>2, <2>3
<1>6. ASSUME Compete(h) PROVE Goes
  <2>1. CASE UNCHANGED pc
    <3>1. pc' = [pc EXCEPT ![h] = "compete"]
      BY <1>6, <2>1 DEF Compete, TInv, ControlInv
    <3> QED
      BY <3>1 DEF AnsweringLabels, AnswerLabels
  <2> QED
    BY <1>1, <1>2, <1>3, <1>6, <2>1 DEF Compete
<1> SUFFICES ASSUME ~ChangeAcceptBlockers(h) PROVE Goes
  OBVIOUS
<1> HIDE DEF Goes
<1>7. CASE ExpireFind(h) \/ ExpireWrite(h) \/ ArrivalFind(h)
  BY <1>1, <1>2, <1>7 DEF ExpireFind, ExpireWrite, ArrivalFind, Found
<1>8. CASE ArrivalWrite(h) \/ NightFind(h) \/ NightWrite(h)
  BY <1>1, <1>2, <1>3, <1>4, <1>8 DEF ArrivalWrite, NightFind, NightWrite, CleanupLabels
<1>9. CASE CreateBlockers(h) \/ CreateDaily(h) \/ CreateWrite(h)
  BY <1>1, <1>2, <1>3, <1>9 DEF CreateBlockers, CreateDaily, CreateWrite
<1>10. CASE AcceptRead(h) \/ AcceptExpire(h) \/ AcceptBlockers(h)
  BY <1>1, <1>2, <1>3, <1>10 DEF AcceptRead, AcceptExpire, AcceptBlockers
<1>11. CASE Capture(h) \/ AcceptWrite(h)
  BY <1>1, <1>2, <1>3, <1>11 DEF Capture, AcceptWrite
<1>12. CASE EndWrite(h) \/ UsageRead(h) \/ VenueCancelWrite(h)
  <2>1. Goto(h, "void") \/ Goto(h, "venueCancelWrite") \/ Finish(h)
    <3>1. CASE EndWrite(h) \/ VenueCancelWrite(h)
      BY <3>1 DEF EndWrite, VenueCancelWrite, EndReservations
    <3>2. CASE UsageRead(h)
      BY <3>2 DEF UsageRead
    <3> QED
      BY <1>12, <3>1, <3>2
  <2> QED
    BY <1>1, <1>2, <1>3, <2>1
<1>13. CASE \/ CheckInRead(h) \/ CheckInWrite(h) \/ CustomerCheckInRead(h)
            \/ CustomerCheckInWrite(h)
  BY <1>1, <1>2, <1>3, <1>13 DEF CheckInRead, CheckInWrite, CustomerCheckInRead,
     CustomerCheckInWrite
<1>14. CASE ChangeBlockers(h) \/ ChangeCreate(h) \/ ChangeAccept(h) \/ ChangeDecline(h)
  BY <1>1, <1>2, <1>3, <1>14 DEF ChangeBlockers, FreeAt, ChangeCreate, ChangeAccept, ChangeDecline
<1> QED
  BY <1>5, <1>6, <1>7, <1>8, <1>9, <1>10, <1>11, <1>12, <1>13, <1>14 DEF GoesOn

LEMMA GoingOnAgrees ==
    ASSUME TInv, SerialInv, AgreeInv, NEW h \in Handlers, GoesOn(h), Alone(h)
    PROVE  AgreeInv'
<1>1. CASE ChangeAcceptBlockers(h)
  <2>1. CASE Finish(h)
    BY <2>1, NothingAnswered DEF Finish, Goto, AnsweringLabels, AnswerLabels
  <2>2. CASE Goto(h, "changeAccept") /\ UNCHANGED <<frame, change>>
    <3>1. /\ change[frame[h].change].status = "PENDING"
          /\ change[frame[h].change].res = frame[h].res
      BY <1>1 DEF ChangeAcceptBlockers, AgreeInv, Answering, AnsweringLabels, AnswerLabels
    <3>2. \A k \in Handlers : pc'[k] = IF k = h THEN "changeAccept" ELSE "idle"
      BY <2>2 DEF Goto, Alone, TInv, ControlInv
    <3> QED
      BY <2>2, <3>1, <3>2 DEF AgreeInv, Answering, AnsweringLabels, AnswerLabels
  <2> QED
    BY <1>1, <2>1, <2>2 DEF ChangeAcceptBlockers, FreeAt, DatabaseUnchanged
<1> QED
  BY <1>1, GoingOnAnswers, NothingAnswered

LEMMA ArrivingAgrees ==
    ASSUME MaxActive = 1, TInv, SerialInv, NEW h \in Handlers, CleanupBegin(h) \/ Arrives(h)
    PROVE  AgreeInv'
<1>1. ASSUME NEW o, NEW l, NEW f, Begin(h, o, l, f)
      PROVE  /\ Alone(h) /\ pc' = [pc EXCEPT ![h] = l]
             /\ frame' = [frame EXCEPT ![h] = [f EXCEPT !.op = o]]
  BY <1>1, EntersAlone DEF Begin, Alone, Goto
<1>2. CASE CleanupBegin(h)
  <2>1. Alone(h) /\ pc' = [pc EXCEPT ![h] = "expFind"]
    BY <1>2, EntersAlone DEF CleanupBegin, Alone, Goto
  <2> QED
    BY <2>1, NothingAnswered DEF AnsweringLabels, AnswerLabels
<1>3. CASE \/ CreateBegin(h)
           \/ \E r \in Booked : \/ Decline(h, r) \/ CancelByCustomer(h, r) \/ CancelByVenue(h, r)
                                \/ ChangeCreateBegin(h, r)
  <2>1. \E o, f, l : /\ l \in {"expFind", "endWrite", "usageRead", "changeBlockers"}
                     /\ Begin(h, o, l, f)
    BY <1>3 DEF CreateBegin, Decline, CancelByCustomer, CancelByVenue, BeginEnd,
       ChangeCreateBegin
  <2> QED
    BY <1>1, <2>1, NothingAnswered DEF AnsweringLabels, AnswerLabels
<1>4. ASSUME NEW c \in Changes, ChangeAcceptBegin(h, c) \/ ChangeDeclineBegin(h, c)
      PROVE  AgreeInv'
  <2> DEFINE r == change[c].res
             f1 == [IdleFrame EXCEPT !.res = r, !.change = c]
             f2 == [IdleFrame EXCEPT !.change = c]
             g1 == [f1 EXCEPT !.op = "changeAccept"]
             g2 == [f2 EXCEPT !.op = "changeDecline"]
  <2>1. g1.change = c /\ g1.res = r /\ g2.change = c
    BY DEF IdleFrame
  <2> HIDE DEF g1, g2
  <2>2. change[c].status = "PENDING" /\ UNCHANGED change
    BY <1>4 DEF ChangeAcceptBegin, ChangeDeclineBegin, DatabaseUnchanged
  <2>3. CASE ChangeAcceptBegin(h, c)
    <3>1. /\ Alone(h) /\ pc' = [pc EXCEPT ![h] = "changeAcceptBlockers"]
          /\ frame' = [frame EXCEPT ![h] = g1]
      BY <2>3, <1>1 DEF ChangeAcceptBegin, g1
    <3>2. /\ \A k \in Handlers : pc'[k] = IF k = h THEN "changeAcceptBlockers" ELSE "idle"
          /\ frame'[h] = g1
      BY <3>1 DEF Alone, TInv, ControlInv
    <3> QED
      BY <2>1, <2>2, <3>2 DEF AgreeInv, Answering, AnsweringLabels, AnswerLabels
  <2>4. CASE ChangeDeclineBegin(h, c)
    <3>1. /\ Alone(h) /\ pc' = [pc EXCEPT ![h] = "changeDecline"]
          /\ frame' = [frame EXCEPT ![h] = g2]
      BY <2>4, <1>1 DEF ChangeDeclineBegin, g2
    <3>2. /\ \A k \in Handlers : pc'[k] = IF k = h THEN "changeDecline" ELSE "idle"
          /\ frame'[h] = g2
      BY <3>1 DEF Alone, TInv, ControlInv
    <3> QED
      BY <2>1, <2>2, <3>2 DEF AgreeInv, Answering, AnsweringLabels, AnswerLabels
  <2> QED
    BY <1>4, <2>3, <2>4
<1> QED
  BY <1>2, <1>3, <1>4 DEF Arrives

LEMMA MoverNotIdle == ASSUME NEW h, GoesOn(h) PROVE pc[h] # "idle"
BY DEF GoesOn, ExpireFind, ExpireWrite, ArrivalFind, ArrivalWrite, NightFind, NightWrite, Void,
   CreateBlockers, CreateDaily, CreateWrite, AcceptRead, AcceptExpire, AcceptBlockers, Capture,
   AcceptWrite, Compete, EndWrite, UsageRead, VenueCancelWrite, CheckInRead, CheckInWrite,
   CustomerCheckInRead, CustomerCheckInWrite, ChangeBlockers, ChangeCreate,
   ChangeAcceptBlockers, ChangeAccept, ChangeDecline

LEMMA AgreementsWait ==
    /\ Init => AgreeInv
    /\ MaxActive = 1 /\ TInv /\ SerialInv /\ AgreeInv /\ [Next]_vars => AgreeInv'
<1>1. Init => AgreeInv
  BY DEF Init, AgreeInv, Answering, AnsweringLabels, AnswerLabels
<1>2. ASSUME MaxActive = 1, TInv, SerialInv, AgreeInv, [Next]_vars PROVE AgreeInv'
  <2>1. CASE UNCHANGED <<pc, frame, change>>
    BY <1>2, <2>1 DEF AgreeInv
  <2>2. ASSUME NEW r \in Reservations, Checkout(r) \/ Claim(r) PROVE AgreeInv'
    <3>1. UNCHANGED <<pc, frame, change>>
      BY <2>2 DEF Checkout, Claim
    <3> QED
      BY <2>1, <3>1
  <2>3. ASSUME NEW h \in Handlers, CleanupBegin(h) \/ Arrives(h) \/ GoesOn(h) PROVE AgreeInv'
    BY <1>2, <2>3, ArrivingAgrees, GoingOnAgrees, MoverNotIdle, MoverIsAlone
  <2> QED
    BY <1>2, <2>1, <2>2, <2>3 DEF Next, Tick, vars
<1> QED
  BY <1>1, <1>2

\* Requests are written by three steps only.
LEMMA RequestsKept ==
    ASSUME [Next]_vars
    PROVE  \/ UNCHANGED change
           \/ \E h \in Handlers : ChangeCreate(h) \/ ChangeAccept(h) \/ ChangeDecline(h)
<1>1. ASSUME NEW h \in Handlers, GoesOn(h)
      PROVE  UNCHANGED change \/ ChangeCreate(h) \/ ChangeAccept(h) \/ ChangeDecline(h)
  BY <1>1 DEF GoesOn, ExpireFind, ExpireWrite, ArrivalFind, ArrivalWrite, NightFind, NightWrite,
     Void, CreateBlockers, CreateDaily, CreateWrite, AcceptRead, AcceptExpire, AcceptBlockers,
     Capture, AcceptWrite, Compete, EndWrite, UsageRead, VenueCancelWrite, CheckInRead,
     CheckInWrite, CustomerCheckInRead, CustomerCheckInWrite, ChangeBlockers,
     ChangeAcceptBlockers, Found, FreeAt, EndReservations, DatabaseUnchanged
<1>2. ASSUME NEW r \in Reservations, Checkout(r) \/ Claim(r) PROVE UNCHANGED change
  BY <1>2 DEF Checkout, Claim
<1> QED
  BY <1>1, <1>2, ArrivingReads DEF Next, Tick, vars

\* What one step may do to reservations and to requests.
Final(c, d) ==
    \A x \in Changes : c[x].status \in {"ACCEPTED", "DECLINED", "CANCELLED"} => d[x] = c[x]

LEMMA ChangeAcceptAgrees ==
    ASSUME TInv, SerialInv, AgreeInv, NEW h \in Handlers, ChangeAccept(h)
    PROVE  /\ \A r \in Booked :
                 booking'[r].slot # booking[r].slot =>
                     /\ \E c \in Pending(r) : /\ change'[c].status = "ACCEPTED"
                                              /\ change'[c].slot = booking'[r].slot
                     /\ Pending(r)' = {}
           /\ \A c \in Changes :
                 change[c].status = "PENDING" /\ change'[c].status = "ACCEPTED" =>
                     booking'[change[c].res].slot = change[c].slot
           /\ Final(change, change')
<1>0. PICK c, r : c = frame[h].change /\ r = frame[h].res
  OBVIOUS
<1> DEFINE acc == [change[c] EXCEPT !.status = "ACCEPTED"]
           can(d) == [change[d] EXCEPT !.status = "CANCELLED"]
<1>1. /\ c \in Changes /\ change[c].status = "PENDING" /\ change[c].res = r
  BY <1>0, HandlerKnows DEF ChangeAccept, TInv, LabelGood, AgreeInv, Answering, AnsweringLabels,
     AnswerLabels
<1>2. /\ r \in Reservations
      /\ \A q \in Reservations : q # r => booking'[q] = booking[q]
      /\ booking'[r].slot = change[c].slot
  BY <1>0, ChangeWrites
<1>3. \A d \in Changes : change'[d] = IF d = c THEN acc
                                      ELSE IF d \in Pending(r) THEN can(d) ELSE change[d]
  BY <1>0 DEF ChangeAccept
<1>4. \A d \in Changes : change[d] \in ChangeRows
  BY DEF TInv, RowsTyped
<1>5. /\ acc.status = "ACCEPTED" /\ acc.slot = change[c].slot /\ acc.res = r
      /\ \A d \in Changes : can(d).status = "CANCELLED"
  BY <1>1, <1>4 DEF ChangeRows
<1> HIDE DEF acc, can
<1>6. c \in Pending(r) /\ change'[c] = acc
  BY <1>1, <1>3 DEF Pending
<1>7. Pending(r)' = {}
  <2> SUFFICES ASSUME NEW d \in Changes, change'[d].res = r, change'[d].status = "PENDING"
               PROVE  FALSE
    BY DEF Pending
  <2> QED
    BY <1>3, <1>5 DEF Pending
<1>8. \A d \in Changes : change[d].status = "PENDING" /\ change'[d].status = "ACCEPTED" => d = c
  BY <1>3, <1>5
<1>9. Final(change, change')
  BY <1>1, <1>3 DEF Final, Pending
<1> QED
  BY <1>1, <1>2, <1>5, <1>6, <1>7, <1>8, <1>9 DEF Booked

LEMMA RequestsAgree ==
    ASSUME TInv, AgreeInv, NEW h \in Handlers, ChangeCreate(h) \/ ChangeDecline(h)
    PROVE  /\ \A c \in Changes : ~(change[c].status = "PENDING" /\ change'[c].status = "ACCEPTED")
           /\ Final(change, change')
<1>1. CASE ChangeCreate(h)
  <2> DEFINE n   == CHOOSE c \in UnusedChanges : TRUE
             row == [status |-> "PENDING", res |-> frame[h].res,
                     slot |-> frame[h].draft.slot, window |-> frame[h].draft.window]
  <2>1. change' = change \/ (UnusedChanges # {} /\ change' = [change EXCEPT ![n] = row])
    BY <1>1 DEF ChangeCreate
  <2>2. UnusedChanges # {} => n \in Changes /\ change[n].status = "NONE"
    BY DEF UnusedChanges
  <2> HIDE DEF n, row
  <2> QED
    BY <2>1, <2>2 DEF Final, TInv, RowsTyped
<1>2. CASE ChangeDecline(h)
  <2> DEFINE c == frame[h].change
             e == [change[c] EXCEPT !.status = "DECLINED"]
  <2>1. c \in Changes /\ change[c].status = "PENDING"
    BY <1>2, HandlerKnows DEF ChangeDecline, TInv, LabelGood, AgreeInv, Answering,
       AnsweringLabels
  <2>2. change' = [change EXCEPT ![c] = e]
    BY <1>2 DEF ChangeDecline
  <2> HIDE DEF c
  <2>3. e.status = "DECLINED"
    BY <2>1 DEF TInv, RowsTyped, ChangeRows
  <2> HIDE DEF e
  <2> QED
    BY <2>1, <2>2, <2>3 DEF Final, TInv, RowsTyped
<1> QED
  BY <1>1, <1>2

\* Handlers served one at a time move a reservation only to the time of a request that was
\* waiting and is accepted by the same step, leave no other request of it waiting, and never
\* change an answer: the request read before the blockers are looked up still waits when the
\* venue's answer is written.
THEOREM MovesAreAgreed == MaxActive = 1 => (Spec => MovedByAgreement)
<1> SUFFICES ASSUME MaxActive = 1 PROVE Spec => MovedByAgreement
  OBVIOUS
<1> DEFINE Moves ==
      /\ \A r \in Booked :
             booking'[r].slot # booking[r].slot =>
                 /\ \E c \in Pending(r) : /\ change'[c].status = "ACCEPTED"
                                          /\ change'[c].slot = booking'[r].slot
                 /\ Pending(r)' = {}
      /\ \A c \in Changes :
             change[c].status = "PENDING" /\ change'[c].status = "ACCEPTED" =>
                 booking'[change[c].res].slot = change[c].slot
      /\ \A c \in Changes :
             change[c].status \in {"ACCEPTED", "DECLINED", "CANCELLED"} =>
                 change'[c] = change[c]
<1>1. ASSUME TInv, SerialInv, AgreeInv, [Next]_vars PROVE Moves
  <2>1. CASE \E h \in Handlers : ChangeAccept(h)
    BY <1>1, <2>1, ChangeAcceptAgrees DEF Final
  <2>2. CASE ~\E h \in Handlers : ChangeAccept(h)
    <3>1. Keeps(booking, booking')
      BY <1>1, <2>2, EveningsKept
    <3>2. /\ \A c \in Changes :
                ~(change[c].status = "PENDING" /\ change'[c].status = "ACCEPTED")
          /\ Final(change, change')
      BY <1>1, <2>2, RequestsKept, RequestsAgree DEF Final
    <3> QED
      BY <3>1, <3>2 DEF Keeps, Booked, Final
  <2> QED
    BY <2>1, <2>2
<1>2. Init => AgreeInv
  BY AgreementsWait
<1>3. TInv /\ SerialInv /\ AgreeInv /\ [Next]_vars => AgreeInv'
  BY AgreementsWait
<1>4. TInv /\ SerialInv /\ AgreeInv /\ [Next]_vars => [Moves]_vars
  BY <1>1
<1>5. MovedByAgreement <=> [][Moves]_vars
  BY DEF MovedByAgreement
<1> QED
  BY <1>2, <1>3, <1>4, <1>5, DecisionsHold, PTL DEF Spec

-----------------------------------------------------------------------------
(* The limits of guests and venues.                                        *)

\* Reservations that are refused, cancelled, released or over stay so.
Falls(b, e) ==
    \A r \in Reservations : e[r].status \in Underway => b[r].status \in Underway

GuestsWithin ==
    \A g \in Guests : /\ IsFiniteSet(UnderwayOf(g))
                      /\ Cardinality(UnderwayOf(g)) <= GuestLimit

\* A payment is open while its reservation waits for it; one that ended since is about to
\* be voided.
OpenWaits ==
    \A r \in Reservations : pay[r] = "open" =>
        \/ booking[r].status = "REQUESTED"
        \/ \E h \in Handlers : pc[h] = "void" /\ r \in frame[h].hit

\* No penalty is written ahead of time.
WeeksWithin ==
    /\ now <= MaxTime
    /\ \A w \in Weeks : /\ penalties[w] <= CancelLimit
                        /\ w > WeekOf(now) => penalties[w] = 0

\* What a handler found still holds.
Limited(l, f) ==
    /\ l = "arrWrite" => \A r \in f.hit : booking[r].status \in Accepted
    /\ l = "nightWrite" => \A r \in f.hit : booking[r].status \in Seated
    /\ l = "venueCancelWrite" => penalties[WeekOf(now)] < CancelLimit
    /\ f.op = "create" => Cardinality(UnderwayOf(f.draft.guest)) < GuestLimit
    /\ l \notin AnswerLabels

LimitInv ==
    /\ GuestsWithin /\ OpenWaits /\ WeeksWithin
    /\ \A h \in Handlers : Limited(pc[h], frame[h])

LEMMA UnderwayStatuses ==
    /\ Underway = Statuses \ Terminal /\ "NONE" \notin Underway
    /\ Accepted \subseteq Underway /\ Seated \subseteq Underway
    /\ "REQUESTED" \notin Accepted \cup Seated
BY DEF Underway, Statuses, Terminal, Blocking, Accepted, Seated

\* No guest gets a reservation more.
LEMMA LessUnderway ==
    ASSUME TInv, TInv', now <= now', Keeps(booking, booking'), Falls(booking, booking')
    PROVE  \A g : UnderwayOf(g)' \subseteq UnderwayOf(g)
<1> SUFFICES ASSUME NEW g, NEW r \in Reservations, booking'[r].guest = g,
                    booking'[r].status \in Underway, booking'[r].slot.end > now'
             PROVE  r \in UnderwayOf(g)
  BY DEF UnderwayOf, Booked
<1>1. booking[r].status \in Underway /\ booking[r].status # "NONE"
  BY UnderwayStatuses DEF Falls
<1>2. booking[r].guest = g /\ booking[r].slot = booking'[r].slot
  BY <1>1 DEF Keeps
<1>3. booking[r].slot.end \in Nat /\ now \in Nat /\ now' \in Nat
  BY RowWith, CalendarAssumption DEF TInv, RowsTyped
<1>4. booking[r].slot.end > now
  BY <1>2, <1>3
<1> QED
  BY <1>1, <1>2, <1>4 DEF UnderwayOf, Booked

LEMMA GuestsStay ==
    ASSUME GuestsWithin, \A g \in Guests : UnderwayOf(g)' \subseteq UnderwayOf(g)
    PROVE  /\ GuestsWithin'
           /\ \A g \in Guests : \A n \in Nat : Cardinality(UnderwayOf(g)) < n =>
                 Cardinality(UnderwayOf(g)') < n
<1>1. ASSUME NEW g \in Guests
      PROVE  /\ IsFiniteSet(UnderwayOf(g)')
             /\ Cardinality(UnderwayOf(g)') <= Cardinality(UnderwayOf(g))
             /\ Cardinality(UnderwayOf(g)) \in Nat /\ Cardinality(UnderwayOf(g)') \in Nat
  <2> DEFINE S == UnderwayOf(g)
             T == UnderwayOf(g)'
  <2>1. IsFiniteSet(S) /\ T \subseteq S
    BY DEF GuestsWithin
  <2> HIDE DEF S, T
  <2>2. IsFiniteSet(T) /\ Cardinality(T) <= Cardinality(S)
    BY <2>1, FS_Subset
  <2>3. Cardinality(S) \in Nat /\ Cardinality(T) \in Nat
    BY <2>1, <2>2, FS_CardinalityType
  <2> QED
    BY <2>2, <2>3 DEF S, T
<1>2. GuestsWithin'
  BY <1>1, BoundAssumption DEF GuestsWithin
<1>3. ASSUME NEW g \in Guests, NEW n \in Nat, Cardinality(UnderwayOf(g)) < n
      PROVE  Cardinality(UnderwayOf(g)') < n
  BY <1>1, <1>3
<1> QED
  BY <1>2, <1>3

\* The guest of a draft is a guest.
LEMMA DraftGuest == ASSUME NEW f \in Frames PROVE f.draft.guest \in Guests
BY FrameFields, RowWith

LEMMA IdleLimited == Limited("idle", IdleFrame)'
<1>1. IdleFrame.op = "none"
  BY DEF IdleFrame
<1> QED
  BY <1>1 DEF Limited, AnswerLabels

\* A lone handler moves, and nobody gets a reservation more.
LEMMA LimitWrites ==
    ASSUME TInv, TInv', LimitInv, NEW h \in Handlers, Alone(h), NEW l, NEW f,
           pc' = [pc EXCEPT ![h] = l], frame' = [frame EXCEPT ![h] = f],
           now' = now, WeeksWithin', Keeps(booking, booking'), Falls(booking, booking'),
           \A r \in Reservations : pay'[r] = "open" =>
              booking'[r].status = "REQUESTED" \/ (l = "void" /\ r \in f.hit),
           l = "arrWrite" => \A r \in f.hit : booking'[r].status \in Accepted,
           l = "nightWrite" => \A r \in f.hit : booking'[r].status \in Seated,
           l = "venueCancelWrite" => penalties'[WeekOf(now)] < CancelLimit,
           f.op = "create" =>
              \/ frame[h].op = "create" /\ f.draft = frame[h].draft
              \/ f.draft.guest \in Guests /\ Cardinality(UnderwayOf(f.draft.guest)) < GuestLimit,
           l \notin AnswerLabels
    PROVE  LimitInv'
<1>1. /\ \A k \in Handlers : /\ pc'[k] = (IF k = h THEN l ELSE pc[k])
                             /\ frame'[k] = (IF k = h THEN f ELSE frame[k])
      /\ \A k \in Handlers : k # h => pc'[k] = "idle" /\ frame'[k] = IdleFrame
  BY HandlerKnows DEF TInv, ControlInv, Alone, LabelGood
<1>2. now <= now' /\ WeekOf(now)' = WeekOf(now)
  BY DEF TInv, RowsTyped, WeekOf
<1>3. \A g : UnderwayOf(g)' \subseteq UnderwayOf(g)
  BY <1>2, LessUnderway
<1>4. /\ GuestsWithin'
      /\ \A g \in Guests : Cardinality(UnderwayOf(g)) < GuestLimit =>
            Cardinality(UnderwayOf(g)') < GuestLimit
  BY <1>3, GuestsStay, BoundAssumption DEF LimitInv
<1>6. OpenWaits'
  BY <1>1 DEF OpenWaits
<1>7. f.op = "create" => Cardinality(UnderwayOf(f.draft.guest)') < GuestLimit
  <2>1. CASE frame[h].op = "create" /\ f.draft = frame[h].draft
    <3>1. f.draft.guest \in Guests
      BY <2>1, HandlerKnows, DraftGuest DEF TInv
    <3>2. Cardinality(UnderwayOf(f.draft.guest)) < GuestLimit
      BY <2>1 DEF LimitInv, Limited
    <3> QED
      BY <3>1, <3>2, <1>4
  <2> QED
    BY <2>1, <1>4
<1>8. ASSUME NEW k \in Handlers PROVE Limited(pc[k], frame[k])'
  <2>1. CASE k = h
    BY <1>1, <1>2, <1>7, <2>1 DEF Limited
  <2>2. CASE k # h
    BY <1>1, <2>2, IdleLimited DEF Limited
  <2> QED
    BY <2>1, <2>2
<1> QED
  BY <1>4, <1>6, <1>8 DEF LimitInv

LEMMA LimitMoves ==
    ASSUME TInv, TInv', LimitInv, NEW h \in Handlers, Alone(h), NEW l, NEW f,
           pc' = [pc EXCEPT ![h] = l], frame' = [frame EXCEPT ![h] = f],
           UNCHANGED <<now, penalties>>, Keeps(booking, booking'), Falls(booking, booking'),
           \A r \in Reservations : pay'[r] = "open" =>
              booking'[r].status = "REQUESTED" \/ (l = "void" /\ r \in f.hit),
           l = "arrWrite" => \A r \in f.hit : booking'[r].status \in Accepted,
           l = "nightWrite" => \A r \in f.hit : booking'[r].status \in Seated,
           l = "venueCancelWrite" => penalties[WeekOf(now)] < CancelLimit,
           f.op = "create" =>
              \/ frame[h].op = "create" /\ f.draft = frame[h].draft
              \/ f.draft.guest \in Guests /\ Cardinality(UnderwayOf(f.draft.guest)) < GuestLimit,
           l \notin AnswerLabels
    PROVE  LimitInv'
<1>1. now' = now /\ penalties' = penalties /\ WeeksWithin'
  BY DEF LimitInv, WeeksWithin, WeekOf
<1> QED
  BY <1>1, LimitWrites

\* Outside a void, what is open waits.
LEMMA OpenIsRequested ==
    ASSUME LimitInv, NEW h \in Handlers, Alone(h), pc[h] # "void"
    PROVE  \A r \in Reservations : pay[r] = "open" => booking[r].status = "REQUESTED"
BY DEF LimitInv, OpenWaits, Alone

\* A lone handler reads and goes on.
LEMMA LimitReads ==
    ASSUME TInv, TInv', LimitInv, NEW h \in Handlers, Alone(h), pc[h] # "void", NEW l, NEW f,
           pc' = [pc EXCEPT ![h] = l], frame' = [frame EXCEPT ![h] = f], DatabaseUnchanged,
           l = "arrWrite" => \A r \in f.hit : booking[r].status \in Accepted,
           l = "nightWrite" => \A r \in f.hit : booking[r].status \in Seated,
           l = "venueCancelWrite" => penalties[WeekOf(now)] < CancelLimit,
           f.op = "create" =>
              \/ frame[h].op = "create" /\ f.draft = frame[h].draft
              \/ f.draft.guest \in Guests /\ Cardinality(UnderwayOf(f.draft.guest)) < GuestLimit,
           l \notin AnswerLabels
    PROVE  LimitInv'
<1>1. booking' = booking /\ pay' = pay /\ UNCHANGED <<now, penalties>>
  BY DEF DatabaseUnchanged
<1>2. Keeps(booking, booking') /\ Falls(booking, booking')
  BY <1>1, UnchangedKeeps DEF Falls
<1>3. \A r \in Reservations : pay'[r] = "open" => booking'[r].status = "REQUESTED"
  BY <1>1, OpenIsRequested
<1> QED
  BY <1>1, <1>2, <1>3, LimitMoves

LEMMA LimitStays ==
    ASSUME TInv, TInv', LimitInv, NEW h \in Handlers, Alone(h), pc[h] # "void", NEW l,
           Goto(h, l), UNCHANGED frame, DatabaseUnchanged,
           l \notin AnswerLabels \cup {"arrWrite", "nightWrite"},
           l = "venueCancelWrite" => penalties[WeekOf(now)] < CancelLimit
    PROVE  LimitInv'
<1>1. frame' = [frame EXCEPT ![h] = frame[h]]
  BY HandlerKnows DEF TInv
<1> QED
  BY <1>1, LimitReads DEF Goto

\* It ends reservations, or does not touch them, and goes on with its frame, or finishes.
LEMMA LimitGoes ==
    ASSUME TInv, TInv', LimitInv, NEW h \in Handlers, Alone(h), NEW l,
           \/ Goto(h, l) /\ UNCHANGED frame
           \/ l = "idle" /\ Finish(h),
           l \notin AnswerLabels \cup {"arrWrite", "nightWrite", "venueCancelWrite"},
           UNCHANGED <<now, penalties>>, Keeps(booking, booking'), Falls(booking, booking'),
           \A r \in Reservations : pay'[r] = "open" =>
              booking'[r].status = "REQUESTED" \/ (l = "void" /\ r \in frame[h].hit)
    PROVE  LimitInv'
<1>1. frame = [frame EXCEPT ![h] = frame[h]] /\ IdleFrame.op = "none"
  BY HandlerKnows DEF TInv, IdleFrame
<1>2. CASE Goto(h, l) /\ UNCHANGED frame
  BY <1>1, <1>2, LimitMoves DEF Goto
<1>3. CASE l = "idle" /\ Finish(h)
  BY <1>1, <1>3, LimitMoves DEF Finish, Goto
<1> QED
  BY <1>2, <1>3

LEMMA LimitGivesUp ==
    ASSUME TInv, TInv', LimitInv, NEW h \in Handlers, Alone(h), pc[h] # "void", Finish(h),
           DatabaseUnchanged
    PROVE  LimitInv'
<1>1. IdleFrame.op = "none" /\ "idle" \notin AnswerLabels
  BY DEF IdleFrame, AnswerLabels
<1>2. pc' = [pc EXCEPT ![h] = "idle"] /\ frame' = [frame EXCEPT ![h] = IdleFrame]
  BY DEF Finish, Goto
<1>3. PICK f : f = IdleFrame
  OBVIOUS
<1> QED
  BY <1>1, <1>2, <1>3, LimitReads

\* What a frame keeps when the rows it found, its return label, its competitors or its
\* target are replaced.
LEMMA FrameKeeps ==
    ASSUME NEW f \in Frames, NEW S, NEW l, NEW T, NEW t
    PROVE  \A g \in {[f EXCEPT !.hit = S], [f EXCEPT !.ret = l], [f EXCEPT !.todo = T],
                     [f EXCEPT !.hit = S, !.ret = l],
                     [f EXCEPT !.todo = T, !.hit = S, !.target = t, !.ret = l]} :
              g.op = f.op /\ g.draft = f.draft
<1>1. ASSUME NEW g, g = [f EXCEPT !.hit = S, !.ret = l] PROVE g.op = f.op /\ g.draft = f.draft
  BY <1>1 DEF Frames
<1>2. ASSUME NEW g, g = [f EXCEPT !.todo = T, !.hit = S, !.target = t, !.ret = l]
      PROVE  g.op = f.op /\ g.draft = f.draft
  BY <1>2 DEF Frames
<1>3. ASSUME NEW g, g = [f EXCEPT !.hit = S] PROVE g.op = f.op /\ g.draft = f.draft
  BY <1>3 DEF Frames
<1>4. ASSUME NEW g, g = [f EXCEPT !.ret = l] PROVE g.op = f.op /\ g.draft = f.draft
  BY <1>4 DEF Frames
<1>5. ASSUME NEW g, g = [f EXCEPT !.todo = T] PROVE g.op = f.op /\ g.draft = f.draft
  BY <1>5 DEF Frames
<1> QED
  BY <1>1, <1>2, <1>3, <1>4, <1>5

LEMMA HitReplaced ==
    ASSUME NEW f \in Frames, NEW S
    PROVE  [f EXCEPT !.hit = S].hit = S /\ \A l : [f EXCEPT !.ret = l].hit = f.hit
BY DEF Frames

\* A release found its rows, or nothing.
LEMMA LimitFound ==
    ASSUME TInv, TInv', LimitInv, NEW h \in Handlers, Alone(h), pc[h] # "void", NEW S,
           NEW write, NEW next, Found(h, S, write, next),
           next \in {"arrFind", "nightFind"},
           \/ write = "expWrite"
           \/ write = "arrWrite" /\ \A r \in S : booking[r].status \in Accepted
           \/ write = "nightWrite" /\ \A r \in S : booking[r].status \in Seated
    PROVE  LimitInv'
<1>1. frame[h] \in Frames
  BY HandlerKnows DEF TInv
<1>2. CASE S # {}
  <2> DEFINE f == [frame[h] EXCEPT !.hit = S]
  <2>1. f.op = frame[h].op /\ f.draft = frame[h].draft /\ f.hit = S
    BY <1>1, FrameKeeps, HitReplaced
  <2>2. frame' = [frame EXCEPT ![h] = f] /\ pc' = [pc EXCEPT ![h] = write]
    BY <1>2 DEF Found, Goto
  <2> HIDE DEF f
  <2> QED
    BY <2>1, <2>2, LimitReads DEF Found, AnswerLabels
<1>3. CASE S = {}
  BY <1>3, LimitStays DEF Found, AnswerLabels
<1> QED
  BY <1>2, <1>3

\* The cleanup ends and its caller goes on.
LEMMA LimitCleanupEnds ==
    ASSUME TInv, TInv', LimitInv, NEW h \in Handlers, Alone(h), pc[h] \in CleanupLabels,
           CleanupDone(h), UNCHANGED <<now, pay, penalties>>,
           Keeps(booking, booking'), Falls(booking, booking'),
           \A r \in Reservations : pay[r] = "open" => booking'[r].status = "REQUESTED"
    PROVE  LimitInv'
<1> DEFINE next == AfterCleanup[frame[h].op]
           f    == [frame[h] EXCEPT !.hit = {}]
<1>1. frame[h] \in Frames /\ frame[h].op \in DOMAIN AfterCleanup
  BY HandlerKnows DEF TInv, LabelGood
<1>2. next \in {"createBlockers", "acceptRead", "checkInRead", "customerCheckInRead", "idle"}
  BY <1>1 DEF AfterCleanup
<1>3. f.op = frame[h].op /\ f.draft = frame[h].draft
  BY <1>1, FrameKeeps
<1>4. CASE next = "idle"
  BY <1>4, LimitGoes DEF CleanupDone, AnswerLabels
<1>5. CASE next # "idle"
  <2>1. pc' = [pc EXCEPT ![h] = next] /\ frame' = [frame EXCEPT ![h] = f]
    BY <1>5 DEF CleanupDone, Goto
  <2> HIDE DEF f, next
  <2> QED
    BY <1>2, <1>3, <2>1, LimitMoves DEF AnswerLabels
<1> QED
  BY <1>4, <1>5

LEMMA FindsWithin ==
    ASSUME TInv, TInv', SerialInv, LimitInv, NEW h \in Handlers, Alone(h),
           ExpireFind(h) \/ ArrivalFind(h) \/ NightFind(h)
    PROVE  LimitInv'
<1>1. CASE ExpireFind(h)
  BY <1>1, LimitFound DEF ExpireFind
<1>2. CASE ArrivalFind(h)
  <2>1. \A r \in {r \in Booked : ArrivalLockExpired(r)} : booking[r].status \in Accepted
    BY DEF ArrivalLockExpired
  <2> QED
    BY <1>2, <2>1, LimitFound DEF ArrivalFind
<1>3. CASE NightFind(h)
  <2> DEFINE over == {r \in Booked : booking[r].status \in Seated /\ NightLock(r) <= now}
  <2>1. CASE over # {}
    <3>1. Found(h, over, "nightWrite", "nightFind")
      BY <1>3, <2>1 DEF NightFind, Found
    <3>2. \A r \in over : booking[r].status \in Seated
      OBVIOUS
    <3> HIDE DEF over
    <3> QED
      BY <1>3, <3>1, <3>2, LimitFound DEF NightFind
  <2>2. CASE over = {}
    <3>1. CleanupDone(h) /\ pc[h] \in CleanupLabels /\ pc[h] # "void" /\ DatabaseUnchanged
      BY <1>3, <2>2 DEF NightFind, CleanupLabels
    <3>2. booking' = booking /\ UNCHANGED <<now, pay, penalties>>
      BY <3>1 DEF DatabaseUnchanged
    <3>3. Keeps(booking, booking') /\ Falls(booking, booking')
      BY <3>2, UnchangedKeeps DEF Falls
    <3> QED
      BY <3>1, <3>2, <3>3, OpenIsRequested, LimitCleanupEnds
  <2> QED
    BY <2>1, <2>2
<1> QED
  BY <1>1, <1>2, <1>3

\* Rows that only end.
LEMMA EndedRows ==
    ASSUME TInv, NEW S, NEW st \in Terminal,
           \/ SetStatus(S, st)
           \/ \E h \in Handlers : /\ EndReservations(h) /\ frame[h].hit = S
                                  /\ frame[h].target = st
    PROVE  /\ \A r \in Reservations : r \notin S => booking'[r] = booking[r]
           /\ \A r \in Reservations \cap S : booking'[r].status = st
           /\ Falls(booking, booking')
<1>1. \A r \in Reservations : booking[r] \in Bookings
  BY DEF TInv, RowsTyped
<1>2. CASE SetStatus(S, st)
  <2> DEFINE e(r) == [booking[r] EXCEPT !.status = st]
  <2>1. \A r \in Reservations : booking'[r] = IF r \in S THEN e(r) ELSE booking[r]
    BY <1>2 DEF SetStatus
  <2>2. \A r \in Reservations : e(r).status = st
    BY <1>1, WrittenKeeps
  <2> HIDE DEF e
  <2> QED
    BY <2>1, <2>2, UnderwayStatuses DEF Falls
<1>3. ASSUME NEW h \in Handlers, EndReservations(h), frame[h].hit = S, frame[h].target = st
      PROVE  /\ \A r \in Reservations : r \notin S => booking'[r] = booking[r]
             /\ \A r \in Reservations \cap S : booking'[r].status = st
             /\ Falls(booking, booking')
  <2> DEFINE e(r) == [booking[r] EXCEPT !.status = st, !.confirmExp = NoTime]
  <2>1. \A r \in Reservations : booking'[r] = IF r \in S THEN e(r) ELSE booking[r]
    BY <1>3 DEF EndReservations
  <2>2. \A r \in Reservations : e(r).status = st
    BY <1>1, WrittenKeeps
  <2> HIDE DEF e
  <2> QED
    BY <2>1, <2>2, UnderwayStatuses DEF Falls
<1> QED
  BY <1>2, <1>3

LEMMA ReleasesWithin ==
    ASSUME TInv, TInv', SerialInv, LimitInv, NEW h \in Handlers, Alone(h),
           ExpireWrite(h) \/ ArrivalWrite(h) \/ NightWrite(h)
    PROVE  LimitInv'
<1> DEFINE S == frame[h].hit
<1>1. /\ pc[h] \in CleanupLabels /\ pc[h] # "void" /\ Keeps(booking, booking')
      /\ UNCHANGED <<now, pay, penalties>>
  BY EndingsKeep DEF ExpireWrite, ArrivalWrite, NightWrite, CleanupLabels
<1>2. PICK st \in Terminal : SetStatus(S, st)
  BY DEF ExpireWrite, ArrivalWrite, NightWrite, Terminal
<1>3. /\ \A r \in Reservations : r \notin S => booking'[r] = booking[r]
      /\ Falls(booking, booking')
  BY <1>2, EndedRows
<1>4. \A r \in Reservations : pay[r] = "open" => booking[r].status = "REQUESTED"
  BY <1>1, OpenIsRequested
<1>5. CASE ExpireWrite(h)
  <2> DEFINE f == [frame[h] EXCEPT !.ret = "arrFind"]
  <2>1. f.op = frame[h].op /\ f.draft = frame[h].draft /\ f.hit = S
    BY HandlerKnows, FrameKeeps, HitReplaced DEF TInv
  <2>2. frame' = [frame EXCEPT ![h] = f] /\ pc' = [pc EXCEPT ![h] = "void"]
    BY <1>5 DEF ExpireWrite, Goto
  <2> HIDE DEF f, S
  <2>3. \A r \in Reservations : pay'[r] = "open" =>
           booking'[r].status = "REQUESTED" \/ r \in f.hit
    BY <1>1, <1>3, <1>4, <2>1
  <2> QED
    BY <1>1, <1>3, <2>1, <2>2, <2>3, LimitMoves DEF AnswerLabels
<1>6. CASE ArrivalWrite(h) \/ NightWrite(h)
  <2>1. \A r \in S : booking[r].status \in Accepted \cup Seated
    BY <1>6 DEF ArrivalWrite, NightWrite, LimitInv, Limited
  <2> HIDE DEF S
  <2>2. \A r \in Reservations : pay[r] = "open" => booking'[r].status = "REQUESTED"
    BY <1>3, <1>4, <2>1, UnderwayStatuses
  <2>3. CASE NightWrite(h)
    BY <1>1, <1>3, <2>2, <2>3, LimitCleanupEnds DEF NightWrite
  <2>4. CASE ArrivalWrite(h)
    BY <1>1, <1>3, <2>2, <2>4, LimitGoes DEF ArrivalWrite, AnswerLabels
  <2> QED
    BY <1>6, <2>3, <2>4
<1> QED
  BY <1>5, <1>6

LEMMA VoidWithin ==
    ASSUME TInv, TInv', SerialInv, LimitInv, NEW h \in Handlers, Alone(h), Void(h)
    PROVE  LimitInv'
<1> DEFINE due == {r \in frame[h].hit : pay[r] \in {"open", "authorized"}}
           f   == [frame[h] EXCEPT !.hit = {}, !.ret = "idle"]
<1> DEFINE back == frame[h].ret # "idle"
           done == [frame EXCEPT ![h].hit = {}, ![h].ret = "idle"]
<1>a. PICK refused \in SUBSET {r \in due : Refusals /\ pay[r] = "authorized"} :
         /\ pay' = [r \in Reservations |-> IF r \in refused THEN "parked"
                                           ELSE IF r \in due THEN "voided" ELSE pay[r]]
         /\ IF back /\ (refused = {} \/ frame[h].ret = "compete")
            THEN Goto(h, frame[h].ret) /\ frame' = done
            ELSE Finish(h)
  BY DEF Void
<1>b. done = [frame EXCEPT ![h] = f]
  OBVIOUS
<1>1. /\ pay' = [r \in Reservations |-> IF r \in refused THEN "parked"
                                           ELSE IF r \in due THEN "voided" ELSE pay[r]]
      /\ IF frame[h].ret # "idle" /\ (refused = {} \/ frame[h].ret = "compete")
         THEN Goto(h, frame[h].ret) /\ frame' = [frame EXCEPT ![h] = f]
         ELSE Finish(h)
  <2> HIDE DEF f, due
  <2> QED
    BY <1>a, <1>b
<1>2. booking' = booking /\ UNCHANGED <<now, penalties>> /\ pc[h] = "void"
  BY DEF Void
<1>3. Keeps(booking, booking') /\ Falls(booking, booking')
  BY <1>2, UnchangedKeeps DEF Falls
<1>4. \A r \in Reservations : pay'[r] = "open" => booking'[r].status = "REQUESTED"
  <2> SUFFICES ASSUME NEW r \in Reservations, pay'[r] = "open"
               PROVE  booking[r].status = "REQUESTED"
    BY <1>2
  <2>1. pay[r] = "open" /\ r \notin due
    BY <1>1
  <2>2. r \notin frame[h].hit
    BY <2>1
  <2>3. \A k \in Handlers : pc[k] = "void" => k = h
    BY DEF Alone
  <2> QED
    BY <2>1, <2>2, <2>3 DEF LimitInv, OpenWaits
<1>5. CASE Finish(h)
  BY <1>2, <1>3, <1>4, <1>5, LimitGoes DEF AnswerLabels
<1>6. CASE frame[h].ret # "idle" /\ Goto(h, frame[h].ret) /\ frame' = [frame EXCEPT ![h] = f]
  <2>1. frame[h] \in Frames /\ frame[h].ret \in {"idle", "arrFind", "compete"}
    BY HandlerKnows DEF TInv, FieldsGood
  <2>2. f.op = frame[h].op /\ f.draft = frame[h].draft
    BY <2>1, FrameKeeps
  <2>3. PICK l : l = frame[h].ret
    OBVIOUS
  <2>4. l \notin AnswerLabels \cup {"void", "arrWrite", "nightWrite", "venueCancelWrite"}
    BY <2>1, <2>3 DEF AnswerLabels
  <2>5. pc' = [pc EXCEPT ![h] = l]
    BY <1>6, <2>3 DEF Goto
  <2> HIDE DEF f
  <2> QED
    BY <1>2, <1>3, <1>4, <1>6, <2>2, <2>4, <2>5, LimitMoves
<1> QED
  BY <1>1, <1>5, <1>6

\* The tests of a creation, an acceptance, a check-in and a time change.
LEMMA TestsWithin ==
    ASSUME TInv, TInv', SerialInv, LimitInv, NEW h \in Handlers, Alone(h),
           \/ CreateBlockers(h) \/ CreateDaily(h) \/ AcceptRead(h) \/ UsageRead(h)
           \/ CheckInRead(h) \/ CustomerCheckInRead(h) \/ ChangeBlockers(h)
    PROVE  LimitInv'
<1>1. pc[h] # "void" /\ DatabaseUnchanged
  BY DEF CreateBlockers, CreateDaily, AcceptRead, UsageRead, CheckInRead, CustomerCheckInRead,
     ChangeBlockers, FreeAt
<1>2. CASE Finish(h)
  BY <1>1, <1>2, LimitGivesUp
<1>3. ASSUME NEW l, Goto(h, l), UNCHANGED frame,
             l \in {"createDaily", "createWrite", "acceptExpire", "acceptBlockers",
                    "checkInWrite", "customerCheckInWrite", "changeCreate"}
      PROVE  LimitInv'
  BY <1>1, <1>3, LimitStays DEF AnswerLabels
<1>4. CASE UsageRead(h)
  BY <1>1, <1>2, <1>4, LimitStays DEF UsageRead, AnswerLabels
<1>5. CASE CreateBlockers(h) \/ CreateDaily(h)
  BY <1>2, <1>3, <1>5 DEF CreateBlockers, CreateDaily
<1>6. CASE AcceptRead(h)
  BY <1>2, <1>3, <1>6 DEF AcceptRead
<1>7. CASE CheckInRead(h) \/ CustomerCheckInRead(h)
  BY <1>2, <1>3, <1>7 DEF CheckInRead, CustomerCheckInRead
<1>8. CASE ChangeBlockers(h)
  BY <1>2, <1>3, <1>8 DEF ChangeBlockers, FreeAt
<1> QED
  BY <1>4, <1>5, <1>6, <1>7, <1>8

\* A reservation is made where there is room for one more.
LEMMA CreationWithin ==
    ASSUME TInv, TInv', SerialInv, LimitInv, NEW h \in Handlers, Alone(h), CreateWrite(h)
    PROVE  LimitInv'
<1>1. PICK d : d = frame[h].draft
  OBVIOUS
<1>2. /\ UNCHANGED <<now, pay, change, penalties>> /\ Finish(h)
      /\ pc[h] = "createWrite" /\ frame[h].op = "create"
  BY HandlerKnows DEF CreateWrite, TInv, LabelGood, CreateLabels
<1>3. /\ d.guest \in Guests /\ d.status = "REQUESTED"
      /\ Cardinality(UnderwayOf(d.guest)) < GuestLimit
  BY <1>1, <1>2, HandlerKnows, DraftGuest DEF TInv, FieldsGood, LimitInv, Limited
<1>4. \E n : \A r \in Reservations \ {n} : booking'[r] = booking[r]
  <2> DEFINE N == CHOOSE r \in Reservations \ Booked : TRUE
  <2>1. booking' = booking \/ booking' = [booking EXCEPT ![N] = d]
    BY <1>1 DEF CreateWrite
  <2> HIDE DEF N
  <2> QED
    BY <2>1 DEF TInv, RowsTyped
<1>5. PICK n : \A r \in Reservations \ {n} : booking'[r] = booking[r]
  BY <1>4
<1>6. /\ \A r \in Reservations :
            booking'[r] = booking[r] \/ (r \notin Booked /\ booking'[r] = d)
  BY <1>1, CreationShrinks
<1>7. \A g \in Guests : /\ UnderwayOf(g)' \subseteq UnderwayOf(g) \cup {n}
                        /\ g # d.guest => UnderwayOf(g)' \subseteq UnderwayOf(g)
  <2> SUFFICES ASSUME NEW g \in Guests, NEW r \in UnderwayOf(g)', r \notin UnderwayOf(g)
               PROVE  r = n /\ g = d.guest
    OBVIOUS
  <2>1. /\ r \in Reservations /\ booking'[r].guest = g /\ booking'[r].status \in Underway
        /\ booking'[r].slot.end > now /\ booking'[r] # booking[r]
    BY <1>2 DEF UnderwayOf, Booked
  <2> QED
    BY <2>1, <1>5, <1>6
<1>8. ASSUME NEW g \in Guests
      PROVE  IsFiniteSet(UnderwayOf(g)') /\ Cardinality(UnderwayOf(g)') <= GuestLimit
  <2> DEFINE S == UnderwayOf(g)
             T == UnderwayOf(g)'
  <2>1. /\ IsFiniteSet(S) /\ Cardinality(S) <= GuestLimit /\ T \subseteq S \cup {n}
        /\ T \subseteq S \/ Cardinality(S) < GuestLimit
    BY <1>3, <1>7 DEF LimitInv, GuestsWithin
  <2> HIDE DEF S, T
  <2>2. IsFiniteSet(S \cup {n}) /\ Cardinality(S) \in Nat /\ Cardinality(S \cup {n}) <= Cardinality(S) + 1
    <3>1. Cardinality(S) \in Nat
      BY <2>1, FS_CardinalityType
    <3>2. CASE n \in S
      <4>1. S \cup {n} = S
        BY <3>2
      <4>2. Cardinality(S \cup {n}) = Cardinality(S) /\ IsFiniteSet(S \cup {n})
        BY <2>1, <4>1, Zenon
      <4> QED
        BY <3>1, <4>2
    <3>3. CASE n \notin S
      <4>1. IsFiniteSet(S \cup {n}) /\ Cardinality(S \cup {n}) = Cardinality(S) + 1
        BY <2>1, <3>3, FS_AddElement
      <4> QED
        BY <3>1, <4>1
    <3> QED
      BY <3>2, <3>3
  <2>3. IsFiniteSet(T) /\ Cardinality(T) \in Nat /\ Cardinality(T) <= Cardinality(S \cup {n})
        /\ Cardinality(S \cup {n}) \in Nat
    BY <2>1, <2>2, FS_Subset, FS_CardinalityType
  <2>4. T \subseteq S => Cardinality(T) <= Cardinality(S)
    BY <2>1, FS_Subset
  <2>5. Cardinality(T) <= GuestLimit
    BY <2>1, <2>2, <2>3, <2>4, BoundAssumption
  <2> QED
    BY <2>3, <2>5 DEF S, T
<1>9. GuestsWithin'
  BY <1>8 DEF GuestsWithin
<1>10. OpenWaits'
  <2> SUFFICES ASSUME NEW r \in Reservations, pay[r] = "open"
               PROVE  booking'[r].status = "REQUESTED"
    BY <1>2 DEF OpenWaits
  <2>1. booking[r].status = "REQUESTED"
    BY <1>2, OpenIsRequested
  <2> QED
    BY <1>6, <2>1 DEF Booked
<1>11. WeeksWithin'
  BY <1>2 DEF LimitInv, WeeksWithin, WeekOf
<1>12. \A k \in Handlers : pc'[k] = "idle" /\ frame'[k] = IdleFrame
  BY <1>2, HandlerKnows DEF Finish, Goto, TInv, ControlInv, Alone, LabelGood
<1>13. \A k \in Handlers : Limited(pc[k], frame[k])'
  BY <1>12, IdleLimited DEF Limited
<1> QED
  BY <1>9, <1>10, <1>11, <1>13 DEF LimitInv

\* One row is written, of a reservation that was under way or is not any more.
LEMMA RowFalls ==
    ASSUME TInv, NEW r \in Reservations, NEW e, booking' = [booking EXCEPT ![r] = e],
           e.status \in Underway => booking[r].status \in Underway
    PROVE  /\ Falls(booking, booking')
           /\ booking'[r] = e /\ \A q \in Reservations : q # r => booking'[q] = booking[q]
BY DEF Falls, TInv, RowsTyped

LEMMA AcceptanceWithin ==
    ASSUME TInv, TInv', SerialInv, LimitInv, NEW h \in Handlers, Alone(h),
           AcceptExpire(h) \/ AcceptWrite(h)
    PROVE  LimitInv'
<1>0. PICK r : r = frame[h].res
  OBVIOUS
<1>1. /\ pc[h] # "void" /\ Keeps(booking, booking') /\ UNCHANGED <<now, pay, penalties>>
      /\ r \in Reservations /\ booking[r] \in Bookings
  BY <1>0, AnswersKeep, AcceptingKnows DEF AcceptExpire, AcceptWrite, AcceptLabels
<1>2. \A q \in Reservations : pay[q] = "open" => booking[q].status = "REQUESTED"
  BY <1>1, OpenIsRequested
<1>3. CASE AcceptWrite(h)
  <2>1. /\ booking[r].status = "PENDING_VENUE_CONFIRMATION"
        /\ \A q \in Reservations : q # r => booking'[q] = booking[q]
    BY <1>0, <1>3, AcceptanceWrites
  <2>2. Falls(booking, booking')
    BY <2>1 DEF Falls, Underway
  <2>3. \A q \in Reservations : pay'[q] = "open" => booking'[q].status = "REQUESTED"
    BY <1>1, <1>2, <2>1
  <2>4. Goto(h, "compete") /\ UNCHANGED frame
    BY <1>3 DEF AcceptWrite
  <2>5. "compete" \notin AnswerLabels \cup {"arrWrite", "nightWrite", "venueCancelWrite"}
    BY DEF AnswerLabels
  <2> QED
    BY <1>1, <2>2, <2>3, <2>4, <2>5, LimitGoes
<1>4. CASE AcceptExpire(h)
  <2> DEFINE t == IF booking[r].type = "ADVANCE" THEN NoTime ELSE booking[r].confirmExp
             e == [booking[r] EXCEPT !.status = "EXPIRED", !.confirmExp = t]
             f == [frame[h] EXCEPT !.hit = {r}]
  <2>1. booking' = [booking EXCEPT ![r] = e]
    BY <1>0, <1>1, <1>4 DEF AcceptExpire, Bookings
  <2>2. e.status = "EXPIRED"
    <3> HIDE DEF t
    <3> QED BY <1>1, WrittenKeeps
  <2>3. f.op = frame[h].op /\ f.draft = frame[h].draft /\ f.hit = {r}
    BY HandlerKnows, FrameKeeps, HitReplaced DEF TInv
  <2>4. frame' = [frame EXCEPT ![h] = f] /\ pc' = [pc EXCEPT ![h] = "void"]
    BY <1>0, <1>4 DEF AcceptExpire, Goto
  <2> HIDE DEF e, f
  <2>5. /\ Falls(booking, booking')
        /\ \A q \in Reservations : q # r => booking'[q] = booking[q]
    BY <1>1, <2>1, <2>2, RowFalls DEF Underway, Blocking, Accepted, Seated
  <2>6. \A q \in Reservations : pay'[q] = "open" =>
           booking'[q].status = "REQUESTED" \/ q \in f.hit
    BY <1>1, <1>2, <2>3, <2>5
  <2> QED
    BY <1>1, <2>3, <2>4, <2>5, <2>6, LimitMoves DEF AnswerLabels
<1> QED
  BY <1>3, <1>4

LEMMA AcceptTestsWithin ==
    ASSUME TInv, TInv', SerialInv, LimitInv, NEW h \in Handlers, Alone(h),
           AcceptBlockers(h) \/ Capture(h)
    PROVE  LimitInv'
<1>1. frame[h] \in Frames /\ pc[h] # "void"
  BY HandlerKnows DEF TInv, AcceptBlockers, Capture
<1>2. CASE AcceptBlockers(h)
  <2>1. CASE Finish(h)
    BY <1>1, <1>2, <2>1, LimitGivesUp DEF AcceptBlockers
  <2>2. ASSUME NEW T, Goto(h, "capture"), frame' = [frame EXCEPT ![h].todo = T]
        PROVE  LimitInv'
    <3> DEFINE f == [frame[h] EXCEPT !.todo = T]
    <3>1. f.op = frame[h].op /\ f.draft = frame[h].draft
      BY <1>1, FrameKeeps
    <3>2. frame' = [frame EXCEPT ![h] = f] /\ pc' = [pc EXCEPT ![h] = "capture"]
      BY <2>2 DEF Goto
    <3>3. DatabaseUnchanged /\ "capture" \notin AnswerLabels
      BY <1>2 DEF AcceptBlockers, AnswerLabels
    <3>4. PICK g : g = f
      OBVIOUS
    <3> HIDE DEF f
    <3> QED
      BY <1>1, <3>1, <3>2, <3>3, <3>4, LimitReads
  <2> QED
    BY <1>2, <2>1, <2>2 DEF AcceptBlockers
<1>3. CASE Capture(h)
  <2>1. booking' = booking /\ UNCHANGED <<now, penalties>>
    BY <1>3 DEF Capture
  <2>2. Keeps(booking, booking') /\ Falls(booking, booking')
    BY <2>1, UnchangedKeeps DEF Falls
  <2>3. \A r \in Reservations : pay'[r] = "open" => pay[r] = "open"
    BY <1>3 DEF Capture, TInv, RowsTyped
  <2>4. \A r \in Reservations : pay'[r] = "open" => booking'[r].status = "REQUESTED"
    BY <1>1, <2>1, <2>3, OpenIsRequested
  <2>5. (Goto(h, "acceptWrite") /\ UNCHANGED frame) \/ Finish(h)
    BY <1>3 DEF Capture
  <2> QED
    BY <2>1, <2>2, <2>4, <2>5, LimitGoes DEF AnswerLabels
<1> QED
  BY <1>2, <1>3

LEMMA CompeteWithin ==
    ASSUME TInv, TInv', SerialInv, LimitInv, NEW h \in Handlers, Alone(h), Compete(h)
    PROVE  LimitInv'
<1>1. frame[h] \in Frames /\ pc[h] = "compete" /\ DatabaseUnchanged
  BY HandlerKnows DEF TInv, Compete
<1>2. CASE Finish(h)
  BY <1>1, <1>2, LimitGivesUp
<1>3. ASSUME NEW q \in frame[h].todo,
             IF booking[q].status = "PENDING_VENUE_CONFIRMATION"
             THEN /\ Goto(h, "endWrite")
                  /\ frame' = [frame EXCEPT ![h].todo = @ \ {q}, ![h].hit = {q},
                                            ![h].target = "DECLINED", ![h].ret = "compete"]
             ELSE /\ frame' = [frame EXCEPT ![h].todo = @ \ {q}]
                  /\ UNCHANGED pc
      PROVE  LimitInv'
  <2> DEFINE T  == frame[h].todo \ {q}
             f1 == [frame[h] EXCEPT !.todo = T, !.hit = {q}, !.target = "DECLINED",
                                    !.ret = "compete"]
             f2 == [frame[h] EXCEPT !.todo = T]
  <2>1. /\ f1.op = frame[h].op /\ f1.draft = frame[h].draft
        /\ f2.op = frame[h].op /\ f2.draft = frame[h].draft
    <3> HIDE DEF T
    <3> QED BY <1>1, FrameKeeps
  <2>2. CASE booking[q].status = "PENDING_VENUE_CONFIRMATION"
    <3>1. frame' = [frame EXCEPT ![h] = f1] /\ pc' = [pc EXCEPT ![h] = "endWrite"]
      BY <1>3, <2>2 DEF Goto
    <3>2. PICK g : g = f1
      OBVIOUS
    <3>3. "endWrite" \notin AnswerLabels
      BY DEF AnswerLabels
    <3> HIDE DEF f1
    <3> QED
      BY <1>1, <2>1, <3>1, <3>2, <3>3, LimitReads
  <2>3. CASE booking[q].status # "PENDING_VENUE_CONFIRMATION"
    <3>1. frame' = [frame EXCEPT ![h] = f2]
      BY <1>3, <2>3
    <3>2. pc' = [pc EXCEPT ![h] = "compete"]
      BY <1>1, <1>3, <2>3 DEF TInv, ControlInv
    <3>3. PICK g : g = f2
      OBVIOUS
    <3>4. "compete" \notin AnswerLabels
      BY DEF AnswerLabels
    <3> HIDE DEF f2
    <3> QED
      BY <1>1, <2>1, <3>1, <3>2, <3>3, <3>4, LimitReads
  <2> QED
    BY <2>2, <2>3
<1> QED
  BY <1>2, <1>3 DEF Compete

\* Cancellations and refusals.
LEMMA EndsWithin ==
    ASSUME TInv, TInv', SerialInv, LimitInv, NEW h \in Handlers, Alone(h),
           EndWrite(h) \/ VenueCancelWrite(h)
    PROVE  LimitInv'
<1>1. PICK S, st : S = frame[h].hit /\ st = frame[h].target
  OBVIOUS
<1>2. /\ pc[h] \in EndLabels /\ pc[h] # "void" /\ EndReservations(h)
      /\ UNCHANGED <<now, pay>> /\ Goto(h, "void") /\ UNCHANGED frame
  BY DEF EndWrite, VenueCancelWrite, EndReservations, EndLabels
<1>3. st \in Terminal
  BY <1>1, <1>2, HandlerKnows DEF TInv, LabelGood, Ends, Terminal
<1>4. /\ \A r \in Reservations : r \notin S => booking'[r] = booking[r]
      /\ Falls(booking, booking')
  <2>1. EndReservations(h) /\ frame[h].hit = S /\ frame[h].target = st
    BY <1>1, <1>2
  <2> QED
    BY <1>3, <2>1, EndedRows
<1>5. Keeps(booking, booking')
  BY EndingsKeep
<1>6. \A r \in Reservations : pay'[r] = "open" => booking'[r].status = "REQUESTED" \/ r \in S
  BY <1>2, <1>4, OpenIsRequested
<1>7. WeeksWithin'
  <2>1. CASE EndWrite(h)
    BY <1>2, <2>1 DEF EndWrite, LimitInv, WeeksWithin, WeekOf
  <2>2. CASE VenueCancelWrite(h)
    <3>1. PICK w : w = WeekOf(now)
      OBVIOUS
    <3>2. WeekOf(now)' = w /\ now' = now
      BY <1>2, <3>1 DEF WeekOf
    <3>3. penalties[w] < CancelLimit
      BY <2>2, <3>1 DEF VenueCancelWrite, LimitInv, Limited
    <3>4. \A v \in Weeks : penalties'[v] = IF v = w THEN penalties[v] + 1 ELSE penalties[v]
      BY <2>2, <3>1 DEF VenueCancelWrite, TInv, RowsTyped
    <3>5. /\ now <= MaxTime
          /\ \A v \in Weeks : /\ penalties[v] <= CancelLimit /\ penalties[v] \in Nat
                              /\ v > w => penalties[v] = 0
      BY <3>1 DEF LimitInv, WeeksWithin, TInv, RowsTyped
    <3>6. w \in Int
      BY <3>1, CalendarAssumption DEF TInv, RowsTyped, WeekOf
    <3>7. \A v \in Weeks : /\ penalties'[v] <= CancelLimit
                           /\ v > w => penalties'[v] = 0
      BY <3>3, <3>4, <3>5, <3>6, BoundAssumption
    <3> QED
      BY <3>2, <3>5, <3>7 DEF WeeksWithin
  <2> QED
    BY <2>1, <2>2
<1>8. PICK f : f = frame[h]
  OBVIOUS
<1>9. /\ pc' = [pc EXCEPT ![h] = "void"] /\ frame' = [frame EXCEPT ![h] = f] /\ now' = now
      /\ "void" \notin AnswerLabels
  BY <1>2, <1>8, HandlerKnows DEF Goto, TInv, AnswerLabels
<1> QED
  BY <1>1, <1>4, <1>5, <1>6, <1>7, <1>8, <1>9, LimitWrites

LEMMA CheckInsWithin ==
    ASSUME TInv, TInv', SerialInv, LimitInv, NEW h \in Handlers, Alone(h),
           CheckInWrite(h) \/ CustomerCheckInWrite(h)
    PROVE  LimitInv'
<1>1. PICK r : r = frame[h].res
  OBVIOUS
<1>2. /\ pc[h] # "void" /\ Keeps(booking, booking') /\ UNCHANGED <<now, pay, penalties>>
      /\ Finish(h)
  <2>1. Keeps(booking, booking')
    BY AnswersKeep
  <2> QED
    BY <2>1 DEF CheckInWrite, CustomerCheckInWrite
<1>3. booking[r].status \in Accepted
  BY <1>1, SerialKnows DEF CheckInWrite, CustomerCheckInWrite, Decided
<1>4. \A q \in Reservations : q # r => booking'[q] = booking[q]
  BY <1>1 DEF CheckInWrite, CustomerCheckInWrite, TInv, RowsTyped
<1>5. Falls(booking, booking')
  BY <1>3, <1>4, UnderwayStatuses DEF Falls
<1>6. \A q \in Reservations : pay'[q] = "open" => booking'[q].status = "REQUESTED"
  BY <1>2, <1>3, <1>4, OpenIsRequested, UnderwayStatuses
<1> QED
  BY <1>2, <1>5, <1>6, LimitGoes DEF AnswerLabels

\* Requests for another time, which the venue may only decline here.
LEMMA ChangesWithin ==
    ASSUME TInv, TInv', SerialInv, LimitInv, NEW h \in Handlers, Alone(h),
           \/ ChangeCreate(h) \/ ChangeDecline(h)
           \/ ChangeAcceptBlockers(h) \/ ChangeAccept(h)
    PROVE  LimitInv'
<1>1. pc[h] \notin AnswerLabels
  BY DEF LimitInv, Limited
<1>2. /\ pc[h] # "void" /\ Finish(h) /\ booking' = booking /\ UNCHANGED <<now, pay, penalties>>
  BY <1>1 DEF ChangeCreate, ChangeDecline, ChangeAcceptBlockers, ChangeAccept, AnswerLabels
<1>3. Keeps(booking, booking') /\ Falls(booking, booking')
  BY <1>2, UnchangedKeeps DEF Falls
<1>4. \A q \in Reservations : pay'[q] = "open" => booking'[q].status = "REQUESTED"
  BY <1>2, OpenIsRequested
<1> QED
  BY <1>2, <1>3, <1>4, LimitGoes DEF AnswerLabels

LEMMA GoingOnWithin ==
    ASSUME TInv, TInv', SerialInv, LimitInv, NEW h \in Handlers, GoesOn(h)
    PROVE  LimitInv'
<1>1. Alone(h)
  BY MoverNotIdle, MoverIsAlone
<1> QED
  BY <1>1, FindsWithin, ReleasesWithin, VoidWithin, TestsWithin, CreationWithin, AcceptanceWithin,
     AcceptTestsWithin, CompeteWithin, EndsWithin, CheckInsWithin, ChangesWithin DEF GoesOn

\* A handler is let in.
LEMMA EntersLimited ==
    ASSUME MaxActive = 1, TInv, TInv', SerialInv, LimitInv, NEW h \in Handlers, NEW o, NEW l,
           NEW f \in Frames, Begin(h, o, l, f), DatabaseUnchanged,
           l \notin AnswerLabels \cup {"arrWrite", "nightWrite", "venueCancelWrite"},
           o = "create" => /\ f.draft.guest \in Guests
                           /\ Cardinality(UnderwayOf(f.draft.guest)) < GuestLimit
    PROVE  LimitInv'
<1> DEFINE k == [f EXCEPT !.op = o]
<1>1. Alone(h) /\ pc[h] # "void"
  BY EntersAlone DEF Begin, Alone
<1>2. k.op = o /\ k.draft = f.draft
  BY DEF Frames
<1>3. pc' = [pc EXCEPT ![h] = l] /\ frame' = [frame EXCEPT ![h] = k]
  BY DEF Begin, Goto
<1>4. PICK g : g = k
  OBVIOUS
<1> HIDE DEF k
<1> QED
  BY <1>1, <1>2, <1>3, <1>4, LimitReads

LEMMA CreateBeginWithin ==
    ASSUME MaxActive = 1, TInv, TInv', SerialInv, LimitInv, NEW h \in Handlers, CreateBegin(h)
    PROVE  LimitInv'
<1>1. PICK g \in Guests, t \in Tables, s \in Slots, ty \in BookableTypes :
         /\ Cardinality(UnderwayOf(g)) < GuestLimit
         /\ Begin(h, "create", "expFind", [IdleFrame EXCEPT !.draft = Draft(g, t, s, ty)])
         /\ DatabaseUnchanged
  BY DEF CreateBegin
<1> DEFINE d == Draft(g, t, s, ty)
           f == [IdleFrame EXCEPT !.draft = d]
<1>2. d \in Bookings /\ d.guest = g
  BY DraftTyped, IdentityAssumption DEF TInv, RowsTyped, Draft
<1>3. Begin(h, "create", "expFind", f)
  BY <1>1
<1> HIDE DEF d
<1>4. f \in Frames /\ f.draft = d
  <2>1. f \in Frames
    BY <1>2, IdleFrameGood, FrameWith
  <2> QED
    BY <2>1 DEF IdleFrame
<1>5. PICK e : e = f
  OBVIOUS
<1> HIDE DEF f
<1>6. "expFind" \notin AnswerLabels \cup {"arrWrite", "nightWrite", "venueCancelWrite"}
  BY DEF AnswerLabels
<1>7. e.draft.guest \in Guests /\ Cardinality(UnderwayOf(e.draft.guest)) < GuestLimit
  BY <1>1, <1>2, <1>4, <1>5
<1> QED
  BY <1>1, <1>3, <1>4, <1>5, <1>6, <1>7, EntersLimited

LEMMA CleanupBeginWithin ==
    ASSUME MaxActive = 1, TInv, TInv', SerialInv, LimitInv, NEW h \in Handlers, CleanupBegin(h)
    PROVE  LimitInv'
<1>1. /\ Alone(h) /\ frame[h] \in Frames /\ pc[h] # "void"
      /\ pc' = [pc EXCEPT ![h] = "expFind"] /\ DatabaseUnchanged
      /\ "expFind" \notin AnswerLabels
  BY EntersAlone, HandlerKnows DEF CleanupBegin, Idle, Alone, TInv, Goto, AnswerLabels
<1>2. ASSUME NEW f, f.op # "create", frame' = [frame EXCEPT ![h] = f]
      PROVE  LimitInv'
  BY <1>1, <1>2, LimitReads
<1>3. CASE frame' = [frame EXCEPT ![h].op = "cleanup"]
  <2> DEFINE f == [frame[h] EXCEPT !.op = "cleanup"]
  <2>1. frame' = [frame EXCEPT ![h] = f]
    BY <1>3
  <2>2. f.op = "cleanup"
    BY <1>1 DEF Frames
  <2>3. PICK g : g = f
    OBVIOUS
  <2> HIDE DEF f
  <2> QED
    BY <1>2, <2>1, <2>2, <2>3
<1>4. ASSUME NEW o, o # "create", NEW r, frame' = [frame EXCEPT ![h].op = o, ![h].res = r]
      PROVE  LimitInv'
  <2> DEFINE f == [frame[h] EXCEPT !.op = o, !.res = r]
             e == [frame[h] EXCEPT !.op = o]
  <2>1. frame' = [frame EXCEPT ![h] = f]
    BY <1>4
  <2>2. f = [e EXCEPT !.res = r]
    OBVIOUS
  <2>3. e.op = o /\ [e EXCEPT !.res = r].op = e.op
    BY <1>1 DEF Frames
  <2>4. PICK g : g = f
    OBVIOUS
  <2> HIDE DEF e
  <2>5. f.op = o
    BY <2>2, <2>3
  <2> HIDE DEF f
  <2> QED
    BY <1>2, <1>4, <2>1, <2>4, <2>5
<1> QED
  BY <1>3, <1>4 DEF CleanupBegin

LEMMA EndsBeginWithin ==
    ASSUME MaxActive = 1, TInv, TInv', SerialInv, LimitInv, NEW h \in Handlers,
           NEW r \in Booked, Decline(h, r) \/ CancelByCustomer(h, r) \/ CancelByVenue(h, r)
    PROVE  LimitInv'
<1>1. PICK o \in {"decline", "cancelByCustomer", "cancelByVenue"}, l \in {"endWrite", "usageRead"},
           t \in Ends : BeginEnd(h, o, l, r, t)
  BY DEF Decline, CancelByCustomer, CancelByVenue, Ends
<1> DEFINE R  == {r}
           e1 == [IdleFrame EXCEPT !.res = r]
           e2 == [e1 EXCEPT !.hit = R]
           f  == [e2 EXCEPT !.target = t]
<1>2. r \in Reservations /\ R \in SUBSET Reservations
  BY DEF Booked
<1>3. Begin(h, o, l, f) /\ DatabaseUnchanged
  BY <1>1 DEF BeginEnd
<1> HIDE DEF R
<1>4. e1 \in Frames
  BY <1>2, IdleFrameGood, FrameWith
<1> HIDE DEF e1
<1>5. e2 \in Frames
  BY <1>2, <1>4, FrameWith
<1> HIDE DEF e2
<1>6. f \in Frames
  BY <1>5, FrameWith DEF Ends, Statuses, Terminal
<1>7. l \notin AnswerLabels \cup {"arrWrite", "nightWrite", "venueCancelWrite"}
  BY DEF AnswerLabels
<1>8. PICK g : g = f
  OBVIOUS
<1> HIDE DEF f
<1> QED
  BY <1>3, <1>6, <1>7, <1>8, EntersLimited

LEMMA ChangesBeginWithin ==
    ASSUME MaxActive = 1, "changeAccept" \notin Ops, TInv, TInv', SerialInv, LimitInv,
           NEW h \in Handlers,
           \/ \E r \in Booked : ChangeCreateBegin(h, r)
           \/ \E c \in Changes : ChangeAcceptBegin(h, c) \/ ChangeDeclineBegin(h, c)
    PROVE  LimitInv'
<1>1. "changeBlockers" \notin AnswerLabels /\ "changeDecline" \notin AnswerLabels
  BY DEF AnswerLabels
<1>2. ASSUME NEW r \in Booked, ChangeCreateBegin(h, r) PROVE LimitInv'
  <2>1. PICK s \in Slots :
           /\ Begin(h, "changeCreate", "changeBlockers",
                    [IdleFrame EXCEPT !.res = r,
                       !.draft = Draft(booking[r].guest, booking[r].table, s, booking[r].type)])
           /\ DatabaseUnchanged
    BY <1>2 DEF ChangeCreateBegin
  <2> DEFINE d == Draft(booking[r].guest, booking[r].table, s, booking[r].type)
             e == [IdleFrame EXCEPT !.res = r]
             f == [e EXCEPT !.draft = d]
  <2>2. r \in Reservations /\ d \in Bookings
    <3>1. r \in Reservations /\ booking[r] \in Bookings /\ now \in Nat
      BY DEF Booked, TInv, RowsTyped
    <3>2. booking[r].guest \in Guests /\ booking[r].table \in Tables /\ booking[r].type \in Types
      BY <3>1, RowWith
    <3> QED
      BY <3>1, <3>2, DraftTyped
  <2>3. Begin(h, "changeCreate", "changeBlockers", f)
    BY <2>1
  <2> HIDE DEF d
  <2>4. e \in Frames
    BY <2>2, IdleFrameGood, FrameWith
  <2> HIDE DEF e
  <2>5. f \in Frames
    BY <2>2, <2>4, FrameWith
  <2>6. PICK g : g = f
    OBVIOUS
  <2> HIDE DEF f
  <2> QED
    BY <1>1, <2>1, <2>3, <2>5, <2>6, EntersLimited
<1>3. ASSUME NEW c \in Changes, ChangeDeclineBegin(h, c) PROVE LimitInv'
  <2> DEFINE f == [IdleFrame EXCEPT !.change = c]
  <2>1. Begin(h, "changeDecline", "changeDecline", f) /\ DatabaseUnchanged
    BY <1>3 DEF ChangeDeclineBegin
  <2>2. f \in Frames
    BY IdleFrameGood, FrameWith
  <2>3. PICK g : g = f
    OBVIOUS
  <2> HIDE DEF f
  <2> QED
    BY <1>1, <2>1, <2>2, <2>3, EntersLimited
<1>4. ASSUME NEW c \in Changes PROVE ~ChangeAcceptBegin(h, c)
  BY DEF ChangeAcceptBegin, Begin
<1> QED
  BY <1>2, <1>3, <1>4

\* Between the handlers: payments, and time.
LEMMA LimitBetween ==
    ASSUME TInv, TInv', LimitInv, \A h \in Handlers : pc[h] = "idle",
           UNCHANGED <<now, penalties, pc, frame>>,
           Keeps(booking, booking'), Falls(booking, booking'),
           \A r \in Reservations : pay'[r] = "open" => booking'[r].status = "REQUESTED"
    PROVE  LimitInv'
<1>1. \A k \in Handlers : pc'[k] = "idle" /\ frame'[k] = IdleFrame
  BY HandlerKnows DEF TInv, LabelGood
<1>2. now <= now'
  BY DEF TInv, RowsTyped
<1>3. GuestsWithin'
  BY <1>2, LessUnderway, GuestsStay DEF LimitInv
<1>4. OpenWaits'
  BY DEF OpenWaits
<1>5. WeeksWithin'
  BY DEF LimitInv, WeeksWithin, WeekOf
<1>6. \A k \in Handlers : Limited(pc[k], frame[k])'
  BY <1>1, IdleLimited DEF Limited
<1> QED
  BY <1>3, <1>4, <1>5, <1>6 DEF LimitInv

LEMMA PaymentsWithin ==
    ASSUME MaxActive = 1, TInv, TInv', SerialInv, LimitInv, NEW r \in Reservations,
           Checkout(r) \/ Claim(r)
    PROVE  LimitInv'
<1>1. \A k \in Handlers : pc[k] = "idle"
  BY EntersAlone DEF Checkout, Claim
<1>2. \A q \in Reservations : pay[q] = "open" => booking[q].status = "REQUESTED"
  BY <1>1 DEF LimitInv, OpenWaits
<1> DEFINE n  == now + ConfirmWindow
           e1 == [booking[r] EXCEPT !.status = "REQUESTED", !.confirmExp = NoTime]
           e2 == [booking[r] EXCEPT !.status = "PENDING_VENUE_CONFIRMATION", !.confirmExp = n]
<1>3. booking[r] \in Bookings
  BY DEF TInv, RowsTyped
<1>4. /\ e1.status = "REQUESTED" /\ e1.slot = booking[r].slot /\ e1.guest = booking[r].guest
      /\ e2.status = "PENDING_VENUE_CONFIRMATION" /\ e2.slot = booking[r].slot
      /\ e2.guest = booking[r].guest
  <2> HIDE DEF n
  <2> QED BY <1>3, WrittenKeeps
<1>5. UNCHANGED <<now, penalties, pc, frame>>
  BY DEF Checkout, Claim
<1>6. booking[r].status \in Underway
  <2>1. booking[r].status \in Statuses \cup {"NONE"}
    BY <1>3 DEF Bookings
  <2>2. CASE Checkout(r)
    BY <2>1, <2>2, UnderwayStatuses DEF Checkout, Booked
  <2>3. CASE Claim(r)
    BY <1>2, <2>3 DEF Claim, Underway
  <2> QED
    BY <2>2, <2>3
<1>7. ASSUME NEW e, booking' = [booking EXCEPT ![r] = e],
             e.slot = booking[r].slot, e.guest = booking[r].guest,
             pay'[r] = "open" => e.status = "REQUESTED",
             \A q \in Reservations : q # r => pay'[q] = pay[q]
      PROVE  LimitInv'
  <2>1. Keeps(booking, booking')
    BY <1>7, RowKeeps
  <2>2. /\ Falls(booking, booking')
        /\ booking'[r] = e /\ \A q \in Reservations : q # r => booking'[q] = booking[q]
    BY <1>6, <1>7, RowFalls
  <2>3. \A q \in Reservations : pay'[q] = "open" => booking'[q].status = "REQUESTED"
    BY <1>2, <1>7, <2>2
  <2> QED
    BY <1>1, <1>5, <2>1, <2>2, <2>3, LimitBetween
<1>8. CASE Checkout(r)
  <2>1. booking' = [booking EXCEPT ![r] = e1]
    BY <1>8 DEF Checkout
  <2>2. \A q \in Reservations : q # r => pay'[q] = pay[q]
    BY <1>8 DEF Checkout, TInv, RowsTyped
  <2>3. PICK e : e = e1
    OBVIOUS
  <2> HIDE DEF e1
  <2> QED
    BY <1>4, <1>7, <2>1, <2>2, <2>3
<1>9. CASE Claim(r)
  <2>1. booking' = [booking EXCEPT ![r] = e2]
    BY <1>9 DEF Claim
  <2>2. pay'[r] # "open" /\ \A q \in Reservations : q # r => pay'[q] = pay[q]
    BY <1>9 DEF Claim, TInv, RowsTyped
  <2>3. PICK e : e = e2
    OBVIOUS
  <2> HIDE DEF e2
  <2> QED
    BY <1>4, <1>7, <2>1, <2>2, <2>3
<1> QED
  BY <1>8, <1>9

\* Weeks do not go backwards.
LEMMA QuotientGrows ==
    ASSUME NEW n \in Nat, NEW w \in Nat \ {0}
    PROVE  n \div w \in Nat /\ (n + 1) \div w \in Nat /\ n \div w <= (n + 1) \div w
<1>1. PICK q : q = n \div w
  OBVIOUS
<1>2. PICK p : p = (n + 1) \div w
  OBVIOUS
<1>3. q \in Nat /\ w * q <= n /\ n < w * q + w
  BY <1>1
<1>4. p \in Nat /\ w * p <= n + 1 /\ n + 1 < w * p + w
  BY <1>2
<1>5. ASSUME q >= p + 1 PROVE FALSE
  <2>1. w * q >= w * (p + 1) /\ w * (p + 1) = w * p + w
    BY <1>3, <1>4, <1>5
  <2>2. w * q \in Int /\ w * p \in Int
    BY <1>3, <1>4
  <2> QED
    BY <1>3, <1>4, <2>1, <2>2
<1> QED
  BY <1>1, <1>2, <1>3, <1>4, <1>5

LEMMA TimeWithin ==
    ASSUME TInv, TInv', LimitInv, Tick
    PROVE  LimitInv'
<1>1. /\ now' = now + 1 /\ now' <= MaxTime /\ now \in Nat
      /\ UNCHANGED <<booking, pay, change, penalties, pc, frame>>
  BY BoundAssumption DEF Tick, TInv, RowsTyped
<1>2. Keeps(booking, booking') /\ Falls(booking, booking') /\ now <= now'
  BY <1>1, UnchangedKeeps DEF Falls
<1>3. /\ GuestsWithin'
      /\ \A g \in Guests : Cardinality(UnderwayOf(g)) < GuestLimit =>
            Cardinality(UnderwayOf(g)') < GuestLimit
  BY <1>2, LessUnderway, GuestsStay, BoundAssumption DEF LimitInv
<1>4. OpenWaits'
  BY <1>1 DEF LimitInv, OpenWaits
<1>5. PICK v, w : v = WeekOf(now) /\ w = WeekOf(now')
  OBVIOUS
<1>6. v \in Nat /\ w \in Nat /\ v <= w /\ WeekOf(now)' = w
  BY <1>1, <1>5, QuotientGrows, CalendarAssumption DEF WeekOf
<1>7. v \in Weeks /\ w \in Weeks
  BY <1>1, <1>5, BoundAssumption DEF Weeks
<1>8. \A u \in Weeks : u \in Int
  BY CalendarAssumption DEF Weeks, WeekOf
<1>9. WeeksWithin'
  <2>1. \A u \in Weeks : /\ penalties[u] <= CancelLimit
                         /\ u > w => penalties[u] = 0
    BY <1>5, <1>6, <1>8 DEF LimitInv, WeeksWithin
  <2> QED
    BY <1>1, <1>6, <2>1 DEF WeeksWithin
<1>10. penalties[v] < CancelLimit => penalties[w] < CancelLimit
  BY <1>5, <1>6, <1>7, BoundAssumption DEF LimitInv, WeeksWithin, TInv, RowsTyped
<1>11. ASSUME NEW k \in Handlers PROVE Limited(pc[k], frame[k])'
  <2>1. Limited(pc[k], frame[k]) /\ frame[k].draft.guest \in Guests
    BY HandlerKnows, DraftGuest DEF LimitInv, TInv
  <2>2. frame[k].op = "create" => Cardinality(UnderwayOf(frame[k].draft.guest)') < GuestLimit
    <3>1. PICK g : g = frame[k].draft.guest
      OBVIOUS
    <3>2. g \in Guests
      BY <2>1, <3>1
    <3>3. frame[k].op = "create" => Cardinality(UnderwayOf(g)) < GuestLimit
      BY <2>1, <3>1 DEF Limited
    <3>4. frame[k].op = "create" => Cardinality(UnderwayOf(g)') < GuestLimit
      BY <1>3, <3>2, <3>3
    <3>5. frame'[k].draft.guest = g
      BY <1>1, <3>1
    <3> QED
      BY <3>4, <3>5
  <2>3. pc[k] = "venueCancelWrite" => penalties'[w] < CancelLimit
    BY <1>1, <1>5, <1>10, <2>1 DEF Limited
  <2> QED
    <3>1. (frame[k].op = "create" => Cardinality(UnderwayOf(frame[k].draft.guest)) < GuestLimit)'
      BY <1>1, <2>2
    <3> QED
      BY <1>1, <1>6, <2>1, <2>3, <3>1 DEF Limited
<1> QED
  BY <1>3, <1>4, <1>9, <1>11 DEF LimitInv

LEMMA InitLimits == Init => LimitInv
<1> SUFFICES ASSUME Init PROVE LimitInv
  OBVIOUS
<1>1. Booked = {}
  BY DEF Init, Booked, NoBooking
<1>2. \A g : UnderwayOf(g) = {}
  BY <1>1 DEF UnderwayOf
<1>3. GuestsWithin
  <2>1. IsFiniteSet({}) /\ Cardinality({}) = 0
    BY FS_EmptySet
  <2> QED
    BY <1>2, <2>1, BoundAssumption DEF GuestsWithin
<1>4. OpenWaits
  BY DEF Init, OpenWaits
<1>5. WeeksWithin
  BY BoundAssumption DEF Init, WeeksWithin
<1>6. IdleFrame.op = "none"
  BY DEF IdleFrame
<1>7. ASSUME NEW h \in Handlers PROVE Limited(pc[h], frame[h])
  BY <1>6 DEF Init, Limited, AnswerLabels
<1> QED
  BY <1>3, <1>4, <1>5, <1>7 DEF LimitInv

LEMMA NextLimits ==
    ASSUME MaxActive = 1, "changeAccept" \notin Ops, TInv, TInv', SerialInv, LimitInv, [Next]_vars
    PROVE  LimitInv'
<1>1. CASE UNCHANGED vars
  BY <1>1 DEF vars, LimitInv, GuestsWithin, OpenWaits, WeeksWithin, Limited, WeekOf, UnderwayOf,
     Booked
<1>2. CASE Tick
  BY <1>2, TimeWithin
<1>3. ASSUME NEW r \in Reservations, Checkout(r) \/ Claim(r) PROVE LimitInv'
  BY <1>3, PaymentsWithin
<1>4. ASSUME NEW h \in Handlers, CleanupBegin(h) \/ Arrives(h) \/ GoesOn(h) PROVE LimitInv'
  <2>1. CASE Arrives(h)
    BY <2>1, CreateBeginWithin, EndsBeginWithin, ChangesBeginWithin DEF Arrives
  <2> QED
    BY <1>4, <2>1, CleanupBeginWithin, GoingOnWithin
<1> QED
  BY <1>1, <1>2, <1>3, <1>4 DEF Next

\* Requests served one at a time take no guest over the limit of reservations under way, and no
\* venue over its weekly limit of cancellations, whatever payments, answers, releases and
\* cancellations come in between the count and the write; where the venue does not agree to
\* other times (an agreement can take a guest over the limit).
THEOREM LimitsAlwaysKept ==
    MaxActive = 1 /\ "changeAccept" \notin Ops => (Spec => []LimitsKept)
<1> SUFFICES ASSUME MaxActive = 1, "changeAccept" \notin Ops PROVE Spec => []LimitsKept
  OBVIOUS
<1>1. TInv /\ TInv' /\ SerialInv /\ LimitInv /\ [Next]_vars => LimitInv'
  BY NextLimits
<1>2. Init => LimitInv
  BY InitLimits
<1>3. LimitInv => LimitsKept
  BY DEF LimitInv, GuestsWithin, WeeksWithin, LimitsKept, WeeklyLimitKept, GuestLimitKept
<1> QED
  BY <1>1, <1>2, <1>3, DecisionsHold, PTL DEF Spec
=============================================================================

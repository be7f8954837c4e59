------------------------------- MODULE LiveMode -------------------------------
(***************************************************************************)
(* A venue's live session (ReservationsService) and the documents that     *)
(* allow it (VenueDocumentsService).  The owner's application goes live,   *)
(* stops and saves table selections with one endpoint that reads the       *)
(* venue, tests, and then writes by id; the end of the session is noticed  *)
(* by autoDisableVenueLiveIfNeeded, called by the timer and after changes. *)
(*                                                                         *)
(* A day has DayLength ticks; windows are counted from midnight and may    *)
(* reach into the next day, as in the code (18:00 to 26:00).               *)
(***************************************************************************)
EXTENDS Integers, FiniteSets, FiniteSetsExt

CONSTANTS
    Rooms,          \* rooms of the approved layout
    TableCount,     \* tables in each room
    Temporary,      \* rooms of a temporary space
    ChinChin,       \* approved Chin-Chin tables of each room
    Documents,      \* identities of VenueDocumentRequest rows
    Payloads,       \* bodies of the requests the owner's application sends
    Requests, Timer,
    MaxActive,      \* bound: handlers in flight at once
    DayLength, LiveStart, LiveEnd,
    LastStart,      \* bound: the last tick of the owner's requests
    MaxTime,        \* bound: the last tick
    None            \* not given, no room, no tick

ASSUME LiveBounds ==
    /\ MaxTime \in Nat /\ DayLength \in Nat \ {0}
    /\ LiveStart \in Nat /\ LiveEnd \in Nat /\ LiveStart <= LiveEnd
    /\ IsFiniteSet(Requests)
ASSUME LiveIdentities == Timer \notin Requests /\ None \notin Nat
ASSUME LiveSelections == \A chosen \in SUBSET (UNION {ChinChin[r] : r \in Rooms}) : chosen # None
ASSUME LivePayloads ==
    \A p \in Payloads : p.isLive \in BOOLEAN /\ p.listed \in BOOLEAN \cup {None}

VARIABLES
    now,
    isLive, startedAt, endedAt, live, advance, listed,   \* Venue
    windowEnd,      \* Venue.liveReservationWindowEndMinutes
    document,       \* VenueDocumentRequest rows
    holds,          \* LIVE reservations: by table, the day of the slot and whether the guest sits
    pc, frame       \* handlers

vars == <<now, isLive, startedAt, endedAt, live, advance, listed, windowEnd, document, holds, pc, frame>>
venue == <<isLive, startedAt, endedAt, live, advance, listed>>
others == <<windowEnd, document, holds>>

Tables     == UNION {ChinChin[r] : r \in Rooms}
Selections == SUBSET Tables
Ticks      == 0..MaxTime
Handlers   == Requests \cup {Timer}
Reviews    == {"NONE", "PENDING_REVIEW", "APPROVED", "CHANGES_REQUESTED"}
NoHold     == [day |-> None, seated |-> FALSE]
Holds      == [day: {None} \cup (0..(MaxTime \div DayLength)), seated: BOOLEAN]

\* What a handler carries from its reads to its write.
Frames    == [isLive: BOOLEAN, live: Selections \cup {None}, advance: Selections \cup {None},
              listed: BOOLEAN \cup {None}, counted: Ticks \cup {None}]
IdleFrame == [isLive |-> FALSE, live |-> None, advance |-> None, listed |-> None, counted |-> None]

\* Columns and handlers stay in their range.
LiveTypes ==
    /\ now \in Ticks /\ isLive \in BOOLEAN /\ listed \in BOOLEAN
    /\ startedAt \in Ticks \cup {None} /\ endedAt \in Ticks \cup {None}
    /\ live \in Selections /\ advance \in Selections
    /\ windowEnd \in LiveStart..LiveEnd
    /\ document \in [Documents -> Reviews]
    /\ holds \in [Tables -> Holds]
    /\ pc \in [Handlers -> {"idle", "write", "count", "disable"}]
    /\ frame \in [Handlers -> Frames]

Init ==
    /\ now = 0 /\ isLive = FALSE /\ startedAt = None /\ endedAt = None
    /\ live = {} /\ advance = {} /\ listed = FALSE
    /\ windowEnd = LiveEnd
    /\ document = [d \in Documents |-> "NONE"]
    /\ holds = [t \in Tables |-> NoHold]
    /\ pc = [h \in Handlers |-> "idle"]
    /\ frame = [h \in Handlers |-> IdleFrame]

-----------------------------------------------------------------------------
(* The clock. *)

Day(t)      == t \div DayLength
Minute(t)   == t % DayLength

\* The part after midnight of a window that began the day before counts on from it.
WindowMinute(t, start, end) ==
    IF end > DayLength /\ Minute(t) < start /\ Minute(t) < end % DayLength
    THEN Minute(t) + DayLength ELSE Minute(t)

CanStartNow == WindowMinute(now, LiveStart, windowEnd) \in LiveStart..(windowEnd - 1)

\* Seeded fault: the days since the start are not counted.
WithinGraceToday(end, started) == Minute(now) < end

\* isVenueLiveWithinGraceWindow, counted from midnight of the day the session began.
WithinGrace(end, started) == (Day(now) - Day(started)) * DayLength + Minute(now) < end

EffectivelyLive == isLive /\ startedAt # None /\ WithinGrace(windowEnd, startedAt)

-----------------------------------------------------------------------------
(* Table selections. *)

Largest(a, b)  == IF a > b THEN a ELSE b
Allowed(r)     == Largest(1, (TableCount[r] * (IF r \in Temporary THEN 5 ELSE 4)) \div 10)
\* Math.round(allowed * 0.3)
Least(n)       == Largest(1, (6 * n + 10) \div 20)

\* One room's selection replaces that room's part of the stored one.
Merged(stored, chosen, room) ==
    IF room = None THEN chosen
    ELSE chosen \cup {t \in stored : \E r \in Rooms \ {room} : t \in ChinChin[r]}

\* validateLiveChinChinTableSelection
Valid(chosen, public) ==
    /\ chosen # {}
    /\ chosen \subseteq Tables
    /\ \A r \in Rooms :
          LET n == Cardinality(chosen \cap ChinChin[r]) IN
          n > 0 => n <= Allowed(r) /\ (public => n >= Least(Allowed(r)))

-----------------------------------------------------------------------------
(* updateVenueLiveStatus *)

Quiet       == Cardinality({g \in Handlers : pc[g] # "idle"}) < MaxActive
CanBegin(h) == pc[h] = "idle" /\ Quiet

Goto(h, label) == pc' = [pc EXCEPT ![h] = label]
Finish(h) == Goto(h, "idle") /\ frame' = [frame EXCEPT ![h] = IdleFrame]

DocumentsApproved == \E d \in Documents : document[d] = "APPROVED"

\* The older application saves the advance selection of a room in the live field.
Legacy(p) == ~p.isLive /\ p.advance = None /\ p.live # None /\ p.room # None

ChosenAdvance(p) ==
    LET chosen == IF Legacy(p) THEN p.live ELSE p.advance IN
    IF chosen = None THEN None ELSE Merged(advance, chosen, p.room)

ChosenLive(p) ==
    IF p.isLive THEN Merged(live, IF p.live = None THEN {} ELSE p.live, p.room)
    ELSE IF Legacy(p) THEN None ELSE p.live

UpdateBegin(h, p) ==
    /\ now < LastStart
    /\ CanBegin(h)
    /\ p.isLive /\ ~EffectivelyLive => CanStartNow
    /\ p.isLive \/ p.listed # None \/ p.advance # None \/ p.live # None => DocumentsApproved
    /\ ChosenAdvance(p) # None => Valid(ChosenAdvance(p), TRUE)
    /\ p.listed = TRUE /\ ChosenAdvance(p) = None => Valid(advance, TRUE)
    /\ p.isLive => Valid(ChosenLive(p), FALSE)
    /\ Goto(h, "write")
    /\ frame' = [frame EXCEPT ![h] = [isLive |-> p.isLive, advance |-> ChosenAdvance(p),
                    live |-> IF p.isLive \/ Legacy(p) THEN ChosenLive(p) ELSE {},
                    listed |-> p.listed, counted |-> None]]
    /\ UNCHANGED <<now, venue, others>>

\* Seeded fault: a field that is not given empties its column.
GivenOrNot(value, old) == value

Given(value, old) == IF value = None THEN old ELSE value

\* Seeded fault: the end of the session before is kept.
UpdateWriteKeepsEnd(h) ==
    /\ pc[h] = "write"
    /\ isLive' = frame[h].isLive
    /\ live' = Given(frame[h].live, live)
    /\ advance' = Given(frame[h].advance, advance)
    /\ listed' = Given(frame[h].listed, listed)
    /\ startedAt' = IF frame[h].isLive THEN now ELSE startedAt
    /\ endedAt' = IF frame[h].isLive THEN endedAt ELSE now
    /\ Finish(h)
    /\ UNCHANGED <<now, others>>

\* By id, whatever became of the venue since it was read.
UpdateWrite(h) ==
    /\ pc[h] = "write"
    /\ isLive' = frame[h].isLive
    /\ live' = Given(frame[h].live, live)
    /\ advance' = Given(frame[h].advance, advance)
    /\ listed' = Given(frame[h].listed, listed)
    /\ startedAt' = IF frame[h].isLive THEN now ELSE startedAt
    /\ endedAt' = IF frame[h].isLive THEN None ELSE now
    /\ Finish(h)
    /\ UNCHANGED <<now, others>>

\* updateVenueReservationSettings
SettingsUpdate(end) ==
    /\ now <= LastStart /\ Quiet
    /\ end \in LiveStart..LiveEnd
    /\ windowEnd' = end
    /\ UNCHANGED <<now, venue, document, holds, pc, frame>>

-----------------------------------------------------------------------------
(* autoDisableVenueLiveIfNeeded *)

AutoRead(h) ==
    /\ CanBegin(h)
    /\ isLive
    /\ IF live = {} \/ ~EffectivelyLive
       THEN Goto(h, "disable") /\ UNCHANGED frame
       ELSE Goto(h, "count") /\ frame' = [frame EXCEPT ![h].live = live]
    /\ UNCHANGED <<now, venue, others>>

\* Seeded fault: reservations of other days hold the table too.
TakenAnyDay(t) == holds[t].day # None

\* countFreeLiveTables: reservations of today, and guests who still sit there.
TakenToday(t) == holds[t].day = Day(now) \/ holds[t].seated

AutoCount(h) ==
    /\ pc[h] = "count"
    /\ \/ /\ \A t \in frame[h].live : TakenToday(t)
          /\ Goto(h, "disable") /\ frame' = [frame EXCEPT ![h].counted = now]
       \/ /\ \E t \in frame[h].live : ~TakenToday(t)
          /\ Finish(h)
    /\ UNCHANGED <<now, venue, others>>

AutoDisable(h) ==
    /\ pc[h] = "disable"
    /\ isLive' = FALSE
    /\ endedAt' = IF isLive THEN now ELSE endedAt
    /\ Finish(h)
    /\ UNCHANGED <<now, startedAt, live, advance, listed, others>>

-----------------------------------------------------------------------------
(* Around it. *)

\* VenueDocumentsService: submitted, and reviewed whatever the state.
DocumentsSubmit(d) ==
    /\ document[d] = "NONE"
    /\ document' = [document EXCEPT ![d] = "PENDING_REVIEW"]
    /\ UNCHANGED <<now, venue, windowEnd, holds, pc, frame>>

DocumentsReview(d, review) ==
    /\ document[d] # "NONE"
    /\ document' = [document EXCEPT ![d] = review]
    /\ UNCHANGED <<now, venue, windowEnd, holds, pc, frame>>

\* What other handlers do to LIVE reservations: a guest asks for a live table, sits
\* down at it, and leaves it.
Ask(t) ==
    /\ Quiet /\ EffectivelyLive /\ t \in live /\ ~TakenToday(t)
    /\ holds' = [holds EXCEPT ![t] = [day |-> Day(now), seated |-> FALSE]]
    /\ UNCHANGED <<now, venue, windowEnd, document, pc, frame>>
Sit(t) ==
    /\ Quiet /\ holds[t].day = Day(now)
    /\ holds' = [holds EXCEPT ![t].seated = TRUE]
    /\ UNCHANGED <<now, venue, windowEnd, document, pc, frame>>
Leave(t) ==
    /\ Quiet /\ holds[t].day # None
    /\ holds' = [holds EXCEPT ![t] = NoHold]
    /\ UNCHANGED <<now, venue, windowEnd, document, pc, frame>>

\* Requests that were begun by LastStart are over by then, so that every session's end
\* lies within MaxTime.
Tick ==
    /\ now < MaxTime
    /\ now = LastStart => \A h \in Requests : pc[h] # "write"
    /\ now' = now + 1
    /\ UNCHANGED <<venue, others, pc, frame>>

-----------------------------------------------------------------------------

AutoDisableIfNeeded(h) == AutoRead(h) \/ AutoCount(h) \/ AutoDisable(h)

Next ==
    \/ \E h \in Requests : UpdateWrite(h) \/ \E p \in Payloads : UpdateBegin(h, p)
    \/ \E h \in Handlers : AutoDisableIfNeeded(h)
    \/ \E end \in {LiveStart + 1, LiveEnd} : SettingsUpdate(end)
    \/ \E d \in Documents : DocumentsSubmit(d)
    \/ \E d \in Documents, review \in {"APPROVED", "CHANGES_REQUESTED"} : DocumentsReview(d, review)
    \/ \E t \in Tables : Ask(t) \/ Sit(t) \/ Leave(t)
    \/ Tick

\* Time passes, the timer fires again and again, and a request once begun goes on.
Fairness ==
    /\ WF_vars(Tick)
    /\ WF_vars(AutoDisableIfNeeded(Timer))
    /\ \A h \in Requests : WF_vars(AutoCount(h) \/ AutoDisable(h)) /\ WF_vars(UpdateWrite(h))

Spec == Init /\ [][Next]_vars /\ Fairness

-----------------------------------------------------------------------------

\* isVenueEffectivelyLive of VenueChinChinPanelService
ShownLive ==
    /\ isLive /\ live # {} /\ startedAt # None /\ endedAt = None
    /\ WithinGrace(windowEnd, startedAt)

\* However handlers interleave, the panel shows a venue as live exactly while the
\* reservation service takes live reservations for it.
PanelAgrees == ShownLive <=> EffectivelyLive

\* Handlers one at a time: the server ends a session only when it is over, or when no
\* live table was left for a guest to take on the day it counted them.
AutoEndJustified ==
    [][\A h \in Handlers : isLive /\ ~isLive' /\ pc[h] = "disable" /\ pc'[h] = "idle"
        => \/ ~EffectivelyLive
           \/ \A t \in live : holds[t].day = Day(frame[h].counted) \/ holds[t].seated]_vars

\* A session ends, whether or not the owner ends it.
SessionEnds == isLive ~> ~isLive

\* liveStartWindowMessage: a session that is left on ends at the end of its window.
\* The window a session was started in is the one that holds its start.
EndsWithWindow ==
    EffectivelyLive /\ windowEnd = LiveEnd =>
        now < LiveEnd + DayLength * (IF Minute(startedAt) < LiveEnd - DayLength
                                     THEN Day(startedAt) - 1 ELSE Day(startedAt))
=============================================================================

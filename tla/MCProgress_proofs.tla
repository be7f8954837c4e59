--------------------------- MODULE MCProgress_proofs ---------------------------
(***************************************************************************)
(* Proofs about LiveMode, for every venue, window and day, and every       *)
(* interleaving of the owner's requests with the timer, and of the types   *)
(* of LiveMode and CleanupTimer, which MCProgress checks together.         *)
(***************************************************************************)
EXTENDS MCProgress, FiniteSetTheorems, TLAPS

-----------------------------------------------------------------------------
(* The panel and the reservation service agree.                            *)

HandlersShaped ==
    /\ pc \in [Handlers -> {"idle", "write", "count", "disable"}]
    /\ DOMAIN frame = Handlers

\* What a request writes as live has tables.
GoesLiveWithTables ==
    \A h \in Handlers : pc[h] = "write" /\ frame[h].isLive
        => frame[h].live # None /\ frame[h].live # {}

\* The columns of a session are written together.
SessionWhole == isLive => startedAt # None /\ endedAt = None /\ live # {}

LInv == now \in Nat /\ HandlersShaped /\ GoesLiveWithTables /\ SessionWhole

OthersStay(h) == \A k \in Handlers \ {h} : pc'[k] = pc[k] /\ frame'[k] = frame[k]

\* A handler that does not go on to a write.
LEMMA OthersWrite ==
    ASSUME LInv, NEW h \in Handlers, OthersStay(h), pc'[h] # "write"
    PROVE  GoesLiveWithTables'
BY DEF LInv, GoesLiveWithTables, OthersStay

LEMMA InitPanel == Init => LInv
BY DEF Init, LInv, HandlersShaped, GoesLiveWithTables, SessionWhole

LEMMA NextPanel == LInv /\ [Next]_vars => LInv'
<1> SUFFICES ASSUME LInv, [Next]_vars PROVE LInv'
  OBVIOUS
<1>1. ASSUME NEW h \in Requests, NEW p \in Payloads, UpdateBegin(h, p) PROVE LInv'
  <2> DEFINE chosen == IF p.isLive \/ Legacy(p) THEN ChosenLive(p) ELSE {}
             f == [isLive |-> p.isLive, advance |-> ChosenAdvance(p), live |-> chosen,
                   listed |-> p.listed, counted |-> None]
  <2>1. h \in Handlers
    BY DEF Handlers
  <2>2. p.isLive => chosen # {} /\ chosen # None
    BY <1>1, LiveSelections DEF UpdateBegin, Valid, Tables
  <2>3. pc' = [pc EXCEPT ![h] = "write"] /\ frame' = [frame EXCEPT ![h] = f]
    BY <1>1 DEF UpdateBegin, Goto
  <2>4. f.isLive = p.isLive /\ f.live = chosen
    OBVIOUS
  <2> HIDE DEF f, chosen
  <2>5. HandlersShaped' /\ GoesLiveWithTables'
    BY <2>1, <2>2, <2>3, <2>4 DEF LInv, HandlersShaped, GoesLiveWithTables
  <2>6. now' = now /\ SessionWhole'
    BY <1>1 DEF UpdateBegin, venue, LInv, SessionWhole
  <2> QED
    BY <2>5, <2>6 DEF LInv
<1>2. ASSUME NEW h \in Requests, UpdateWrite(h) PROVE LInv'
  <2>1. h \in Handlers
    BY DEF Handlers
  <2>2. HandlersShaped' /\ GoesLiveWithTables'
    <3>1. pc' = [pc EXCEPT ![h] = "idle"] /\ frame' = [frame EXCEPT ![h] = IdleFrame]
      BY <1>2 DEF UpdateWrite, Finish, Goto
    <3>2. HandlersShaped' /\ OthersStay(h) /\ pc'[h] = "idle"
      BY <2>1, <3>1 DEF LInv, HandlersShaped, OthersStay
    <3> QED
      BY <2>1, <3>2, OthersWrite
  <2>3. SessionWhole'
    <3>1. CASE frame[h].isLive
      BY <1>2, <2>1, <3>1, LiveIdentities
         DEF UpdateWrite, Given, LInv, GoesLiveWithTables, SessionWhole
    <3>2. CASE ~frame[h].isLive
      BY <1>2, <3>2 DEF UpdateWrite, SessionWhole
    <3> QED
      BY <3>1, <3>2
  <2> QED
    BY <1>2, <2>2, <2>3 DEF UpdateWrite, LInv
<1>3. ASSUME NEW h \in Handlers, AutoDisableIfNeeded(h) PROVE LInv'
  <2>1. HandlersShaped' /\ GoesLiveWithTables'
    <3>1. PICK l \in {"idle", "count", "disable"} : pc' = [pc EXCEPT ![h] = l]
      BY <1>3 DEF AutoDisableIfNeeded, AutoRead, AutoCount, AutoDisable, Goto, Finish
    <3>2. frame' = frame \/ \E f : frame' = [frame EXCEPT ![h] = f]
      BY <1>3 DEF AutoDisableIfNeeded, AutoRead, AutoCount, AutoDisable, Finish
    <3>3. HandlersShaped' /\ OthersStay(h) /\ pc'[h] # "write"
      BY <3>1, <3>2 DEF LInv, HandlersShaped, OthersStay
    <3> QED
      BY <3>3, OthersWrite
  <2>2. now' = now
    BY <1>3 DEF AutoDisableIfNeeded, AutoRead, AutoCount, AutoDisable
  <2>3. SessionWhole'
    BY <1>3 DEF AutoDisableIfNeeded, AutoRead, AutoCount, AutoDisable, venue, LInv, SessionWhole
  <2> QED
    BY <2>1, <2>2, <2>3 DEF LInv
<1>4. CASE /\ UNCHANGED <<venue, pc, frame>> /\ now' \in {now, now + 1}
  BY <1>4 DEF venue, LInv, HandlersShaped, GoesLiveWithTables, SessionWhole
<1>5. ASSUME NEW end, SettingsUpdate(end) PROVE LInv'
  BY <1>4, <1>5 DEF SettingsUpdate
<1>6. ASSUME NEW d, DocumentsSubmit(d) \/ \E review : DocumentsReview(d, review) PROVE LInv'
  BY <1>4, <1>6 DEF DocumentsSubmit, DocumentsReview
<1>7. ASSUME NEW t, Ask(t) \/ Sit(t) \/ Leave(t) PROVE LInv'
  BY <1>4, <1>7 DEF Ask, Sit, Leave
<1>8. CASE Tick
  BY <1>4, <1>8 DEF Tick
<1>9. CASE UNCHANGED vars
  BY <1>4, <1>9 DEF vars, venue
<1> QED
  BY <1>1, <1>2, <1>3, <1>5, <1>6, <1>7, <1>8, <1>9 DEF Next

\* The panel shows a venue as live exactly while reservations are taken for it, whatever
\* requests overlap the timer.
THEOREM PanelAlwaysAgrees == Spec => []PanelAgrees
<1>1. LInv => PanelAgrees
  BY DEF LInv, SessionWhole, PanelAgrees, ShownLive, EffectivelyLive
<1> QED
  BY <1>1, InitPanel, NextPanel, PTL DEF Spec

-----------------------------------------------------------------------------
(* One handler at a time, the server ends a session for a reason.          *)

OneAtATime == \A g \in Handlers, h \in Handlers : pc[g] # "idle" /\ pc[h] # "idle" => g = h

ClockShaped == now \in Nat /\ startedAt \in Nat \cup {None} /\ windowEnd \in Int

ReasonToEnd(h) ==
    \/ ~EffectivelyLive
    \/ \A t \in live : holds[t].day = Day(frame[h].counted) \/ holds[t].seated

CountsWhatIsLive == \A h \in Handlers : pc[h] = "count" => frame[h].live = live
EndsForAReason   == \A h \in Handlers : pc[h] = "disable" => ReasonToEnd(h)

SerialInv == /\ HandlersShaped /\ ClockShaped
             /\ OneAtATime /\ CountsWhatIsLive /\ EndsForAReason

\* A handler begins, and others act on the venue, only between two handlers.
LEMMA QuietIsIdle ==
    ASSUME MaxActive = 1, Quiet
    PROVE  \A h \in Handlers : pc[h] = "idle"
<1> DEFINE Busy == {g \in Handlers : pc[g] # "idle"}
<1>1. IsFiniteSet(Handlers)
  BY LiveBounds, FS_AddElement DEF Handlers
<1>2. IsFiniteSet(Busy)
  BY <1>1, FS_Subset
<1>3. Cardinality(Busy) \in Nat /\ Cardinality(Busy) < 1
  BY <1>2, FS_CardinalityType DEF Quiet
<1>4. Busy = {}
  BY <1>2, <1>3, FS_EmptySet
<1> QED
  BY <1>4

LEMMA DaysAndMinutes ==
    ASSUME NEW t \in Nat
    PROVE  Day(t) * DayLength + Minute(t) = t /\ Day(t) \in Nat /\ Minute(t) \in Nat
BY LiveBounds DEF Day, Minute

\* A window that is over stays over.
LEMMA WindowStaysOver ==
    ASSUME NEW t \in Nat, NEW s \in Nat, NEW e \in Int,
           (Day(t + 1) - Day(s)) * DayLength + Minute(t + 1) < e
    PROVE  (Day(t) - Day(s)) * DayLength + Minute(t) < e
<1> DEFINE a == Day(t)  b == Day(s)  c == Day(t + 1)  m == Minute(t)  n == Minute(t + 1)
<1>1. /\ a * DayLength + m = t /\ a \in Nat /\ m \in Nat
      /\ c * DayLength + n = t + 1 /\ c \in Nat /\ n \in Nat /\ b \in Nat
  BY DaysAndMinutes
<1>2. (c - b) * DayLength + n < e
  OBVIOUS
<1> HIDE DEF a, b, c, m, n
<1>3. (c - b) * DayLength = c * DayLength - b * DayLength
  BY <1>1, LiveBounds
<1>4. (a - b) * DayLength = a * DayLength - b * DayLength
  BY <1>1, LiveBounds
<1>5. /\ a * DayLength \in Int /\ b * DayLength \in Int /\ c * DayLength \in Int
  BY <1>1, LiveBounds
<1>6. (a - b) * DayLength + m < e
  BY <1>1, <1>2, <1>3, <1>4, <1>5
<1> QED
  BY <1>6 DEF a, b, m

LEMMA InitSerial == Init => SerialInv
BY LiveBounds DEF Init, SerialInv, HandlersShaped, ClockShaped, OneAtATime, CountsWhatIsLive, EndsForAReason

\* The venue, its tables and its handlers do not change; the clock may.
LEMMA TimePasses ==
    ASSUME SerialInv, UNCHANGED <<venue, windowEnd, holds, pc, frame>>, now' \in {now, now + 1}
    PROVE  SerialInv'
<1>1. (HandlersShaped /\ ClockShaped /\ OneAtATime /\ CountsWhatIsLive)'
  BY DEF SerialInv, HandlersShaped, ClockShaped, OneAtATime, CountsWhatIsLive, venue
<1>2. EffectivelyLive' => EffectivelyLive
  <2> SUFFICES ASSUME EffectivelyLive', now' = now + 1 PROVE EffectivelyLive
    BY DEF EffectivelyLive, WithinGrace, venue
  <2>1. isLive /\ startedAt # None /\ startedAt \in Nat /\ startedAt' = startedAt
    BY DEF EffectivelyLive, venue, SerialInv, ClockShaped
  <2>2. now \in Nat /\ windowEnd \in Int
    BY DEF SerialInv, ClockShaped
  <2>3. (Day(now + 1) - Day(startedAt)) * DayLength + Minute(now + 1) < windowEnd
    BY <2>1 DEF EffectivelyLive, WithinGrace, venue
  <2>4. (Day(now) - Day(startedAt)) * DayLength + Minute(now) < windowEnd
    BY <2>1, <2>2, <2>3, WindowStaysOver
  <2> QED
    BY <2>1, <2>4 DEF EffectivelyLive, WithinGrace
<1>3. EndsForAReason'
  <2> SUFFICES ASSUME NEW h \in Handlers, pc'[h] = "disable" PROVE ReasonToEnd(h)'
    BY DEF EndsForAReason
  <2>1. ReasonToEnd(h)
    BY DEF SerialInv, EndsForAReason
  <2> QED
    BY <2>1, <1>2 DEF ReasonToEnd, venue
<1> QED
  BY <1>1, <1>3 DEF SerialInv

\* When all handlers are idle again, or none was busy, nothing is relied upon.
LEMMA AllIdle ==
    ASSUME HandlersShaped', ClockShaped', \A h \in Handlers : pc'[h] \notin {"count", "disable"},
           \A g \in Handlers, h \in Handlers : pc'[g] # "idle" /\ pc'[h] # "idle" => g = h
    PROVE  SerialInv'
BY DEF SerialInv, OneAtATime, CountsWhatIsLive, EndsForAReason

LEMMA NextSerial ==
    ASSUME MaxActive = 1, SerialInv, [Next]_vars
    PROVE  SerialInv'
<1>1. ASSUME NEW h \in Requests, NEW p \in Payloads, UpdateBegin(h, p) PROVE SerialInv'
  <2>1. h \in Handlers /\ \A k \in Handlers : pc[k] = "idle"
    BY <1>1, QuietIsIdle DEF UpdateBegin, CanBegin, Handlers
  <2>2. PICK f : pc' = [pc EXCEPT ![h] = "write"] /\ frame' = [frame EXCEPT ![h] = f]
    BY <1>1 DEF UpdateBegin, Goto
  <2>3. ClockShaped'
    BY <1>1 DEF UpdateBegin, venue, others, SerialInv, ClockShaped
  <2>4. HandlersShaped'
    BY <2>1, <2>2 DEF SerialInv, HandlersShaped
  <2>5. \A k \in Handlers : pc'[k] = IF k = h THEN "write" ELSE "idle"
    BY <2>1, <2>2 DEF SerialInv, HandlersShaped
  <2> QED
    BY <2>3, <2>4, <2>5, AllIdle
<1>2. ASSUME NEW h \in Handlers, UpdateWrite(h) \/ AutoDisable(h) PROVE SerialInv'
  <2>1. pc[h] # "idle" /\ pc' = [pc EXCEPT ![h] = "idle"] /\ frame' = [frame EXCEPT ![h] = IdleFrame]
    BY <1>2 DEF UpdateWrite, AutoDisable, Finish, Goto
  <2>2. ClockShaped'
    BY <1>2 DEF UpdateWrite, AutoDisable, others, SerialInv, ClockShaped
  <2>3. HandlersShaped'
    BY <2>1 DEF SerialInv, HandlersShaped
  <2>4. \A k \in Handlers : pc'[k] = "idle"
    BY <2>1 DEF SerialInv, HandlersShaped, OneAtATime
  <2> QED
    BY <2>2, <2>3, <2>4, AllIdle
<1>3. ASSUME NEW h \in Handlers, AutoRead(h) PROVE SerialInv'
  <2>1. /\ \A k \in Handlers : pc[k] = "idle"
        /\ UNCHANGED <<now, venue, others>>
    BY <1>3, QuietIsIdle DEF AutoRead, CanBegin
  <2>2. ClockShaped'
    BY <2>1 DEF venue, others, SerialInv, ClockShaped
  <2>3. CASE live = {} \/ ~EffectivelyLive
    <3>1. pc' = [pc EXCEPT ![h] = "disable"] /\ frame' = frame
      BY <1>3, <2>3 DEF AutoRead, Goto
    <3>2. HandlersShaped' /\ \A k \in Handlers : pc'[k] = IF k = h THEN "disable" ELSE "idle"
      BY <2>1, <3>1 DEF SerialInv, HandlersShaped
    <3>3. ReasonToEnd(h)'
      BY <2>1, <2>3 DEF ReasonToEnd, EffectivelyLive, WithinGrace, venue, others
    <3> QED
      BY <2>2, <3>2, <3>3 DEF SerialInv, OneAtATime, CountsWhatIsLive, EndsForAReason
  <2>4. CASE ~(live = {} \/ ~EffectivelyLive)
    <3> DEFINE f == [frame[h] EXCEPT !.live = live]
    <3>1. pc' = [pc EXCEPT ![h] = "count"] /\ frame' = [frame EXCEPT ![h].live = live]
      BY <1>3, <2>4 DEF AutoRead, Goto
    <3>2. HandlersShaped' /\ \A k \in Handlers : pc'[k] = IF k = h THEN "count" ELSE "idle"
      BY <2>1, <3>1 DEF SerialInv, HandlersShaped
    <3>3. frame'[h].live = live'
      BY <2>1, <3>1 DEF SerialInv, HandlersShaped, venue
    <3> QED
      BY <2>2, <3>2, <3>3 DEF SerialInv, OneAtATime, CountsWhatIsLive, EndsForAReason
  <2> QED
    BY <2>3, <2>4
<1>4. ASSUME NEW h \in Handlers, AutoCount(h) PROVE SerialInv'
  <2>1. pc[h] = "count" /\ UNCHANGED <<now, venue, others>> /\ frame[h].live = live
    BY <1>4 DEF AutoCount, SerialInv, CountsWhatIsLive
  <2>2. ClockShaped'
    BY <2>1 DEF venue, others, SerialInv, ClockShaped
  <2>3. ASSUME Goto(h, "disable"), frame' = [frame EXCEPT ![h].counted = now],
               \A t \in frame[h].live : TakenToday(t)
        PROVE  SerialInv'
    <3>1. HandlersShaped' /\ \A k \in Handlers : pc'[k] = IF k = h THEN "disable" ELSE "idle"
      BY <2>1, <2>3 DEF Goto, SerialInv, HandlersShaped, OneAtATime
    <3>2. frame'[h].counted = now
      BY <2>3 DEF SerialInv, HandlersShaped
    <3>3. ReasonToEnd(h)'
      BY <2>1, <2>3, <3>2 DEF ReasonToEnd, TakenToday, venue, others
    <3> QED
      BY <2>2, <3>1, <3>3 DEF SerialInv, OneAtATime, CountsWhatIsLive, EndsForAReason
  <2>4. ASSUME Finish(h) PROVE SerialInv'
    <3>1. HandlersShaped' /\ \A k \in Handlers : pc'[k] = "idle"
      BY <2>1, <2>4 DEF Finish, Goto, SerialInv, HandlersShaped, OneAtATime
    <3> QED
      BY <2>2, <3>1, AllIdle
  <2> QED
    BY <1>4, <2>3, <2>4 DEF AutoCount
<1>5. ASSUME NEW end \in {LiveStart + 1, LiveEnd}, SettingsUpdate(end) PROVE SerialInv'
  <2>1. \A h \in Handlers : pc[h] = "idle"
    BY <1>5, QuietIsIdle DEF SettingsUpdate
  <2>2. HandlersShaped' /\ ClockShaped' /\ \A h \in Handlers : pc'[h] = "idle"
    BY <1>5, <2>1, LiveBounds DEF SettingsUpdate, venue, SerialInv, HandlersShaped, ClockShaped
  <2> QED
    BY <2>2, AllIdle
<1>6. ASSUME NEW d, DocumentsSubmit(d) \/ \E review : DocumentsReview(d, review) PROVE SerialInv'
  BY <1>6, TimePasses DEF DocumentsSubmit, DocumentsReview, SerialInv, ClockShaped
<1>7. ASSUME NEW t, Ask(t) \/ Sit(t) \/ Leave(t) PROVE SerialInv'
  <2>1. Quiet /\ UNCHANGED <<now, venue, windowEnd, pc, frame>>
    BY <1>7 DEF Ask, Sit, Leave
  <2>2. \A h \in Handlers : pc[h] = "idle"
    BY <2>1, QuietIsIdle
  <2>3. HandlersShaped' /\ ClockShaped' /\ \A h \in Handlers : pc'[h] = "idle"
    BY <2>1, <2>2 DEF venue, SerialInv, HandlersShaped, ClockShaped
  <2> QED
    BY <2>3, AllIdle
<1>8. CASE Tick
  BY <1>8, TimePasses DEF Tick, others
<1>9. CASE UNCHANGED vars
  BY <1>9, TimePasses DEF vars, venue
<1> QED
  BY <1>1, <1>2, <1>3, <1>4, <1>5, <1>6, <1>7, <1>8, <1>9 DEF Next, AutoDisableIfNeeded, Handlers

\* One handler at a time, whatever the clock does meanwhile, the server ends a session
\* only when it is over, or when no live table was free on the day it counted them.
THEOREM SessionsEndForAReason ==
    ASSUME MaxActive = 1
    PROVE  Spec => AutoEndJustified
<1>1. Init => SerialInv
  BY InitSerial
<1>2. SerialInv /\ [Next]_vars => SerialInv'
  BY NextSerial
<1>3. SerialInv /\ [Next]_vars =>
        [\A h \in Handlers : isLive /\ ~isLive' /\ pc[h] = "disable" /\ pc'[h] = "idle"
           => \/ ~EffectivelyLive
              \/ \A t \in live : holds[t].day = Day(frame[h].counted) \/ holds[t].seated]_vars
  BY DEF SerialInv, EndsForAReason, ReasonToEnd
<1> QED
  BY <1>1, <1>2, <1>3, PTL DEF Spec, AutoEndJustified

-----------------------------------------------------------------------------
(* Types.                                                                      *)

LEMMA DaysGrow ==
    ASSUME NEW a \in Nat, NEW b \in Nat, a <= b
    PROVE  Day(a) \in 0..(b \div DayLength)
<1> DEFINE m == a \div DayLength
           n == b \div DayLength
<1>1. DayLength \in Nat \ {0}
  BY LiveBounds
<1>2. /\ m \in Nat /\ n \in Nat
      /\ DayLength * m <= a /\ b < DayLength * (n + 1)
  BY <1>1
<1>3. m <= n
  <2> SUFFICES ASSUME m >= n + 1 PROVE FALSE
    BY <1>2
  <2>1. DayLength * m >= DayLength * (n + 1)
    BY <1>1, <1>2
  <2> HIDE DEF m, n
  <2> QED
    BY <1>1, <1>2, <2>1
<1> QED
  BY <1>2, <1>3 DEF Day

LEMMA LiveTypesInit == Init => LiveTypes
<1> SUFFICES ASSUME Init PROVE LiveTypes
  OBVIOUS
<1>1. IdleFrame \in Frames /\ NoHold \in Holds
  BY DEF IdleFrame, Frames, NoHold, Holds, Selections
<1>2. now \in Ticks /\ windowEnd \in LiveStart..LiveEnd
  BY LiveBounds DEF Init, Ticks
<1>3. /\ isLive \in BOOLEAN /\ listed \in BOOLEAN
      /\ startedAt \in Ticks \cup {None} /\ endedAt \in Ticks \cup {None}
      /\ live \in Selections /\ advance \in Selections
  BY DEF Init, Selections
<1>4. /\ document \in [Documents -> Reviews] /\ holds \in [Tables -> Holds]
      /\ pc \in [Handlers -> {"idle", "write", "count", "disable"}]
      /\ frame \in [Handlers -> Frames]
  BY <1>1 DEF Init, Reviews
<1> QED
  BY <1>2, <1>3, <1>4 DEF LiveTypes

\* A handler goes on, or ends, with what its frame may hold.
LEMMA HandlerMoves ==
    ASSUME LiveTypes, NEW h \in Handlers, NEW l \in {"idle", "write", "count", "disable"},
           NEW f \in Frames, Goto(h, l), frame' = [frame EXCEPT ![h] = f]
    PROVE  /\ pc' \in [Handlers -> {"idle", "write", "count", "disable"}]
           /\ frame' \in [Handlers -> Frames]
BY DEF LiveTypes, Goto

LEMMA LiveTypesNext ==
    ASSUME LiveTypes, [Next]_vars
    PROVE  LiveTypes'
<1>1. IdleFrame \in Frames /\ NoHold \in Holds /\ None \notin Nat
  BY LiveIdentities DEF IdleFrame, Frames, NoHold, Holds, Selections
<1>2. ASSUME NEW h \in Requests, NEW p \in Payloads, UpdateBegin(h, p) PROVE LiveTypes'
  <2>1. PICK f : f = [isLive |-> p.isLive, advance |-> ChosenAdvance(p),
                      live |-> IF p.isLive \/ Legacy(p) THEN ChosenLive(p) ELSE {},
                      listed |-> p.listed, counted |-> None]
    OBVIOUS
  <2>2. ChosenAdvance(p) \in Selections \cup {None}
    BY <1>2 DEF UpdateBegin, Valid, Selections
  <2>3. (IF p.isLive \/ Legacy(p) THEN ChosenLive(p) ELSE {}) \in Selections \cup {None}
    <3>1. p.isLive => ChosenLive(p) \in Selections
      BY <1>2 DEF UpdateBegin, Valid, Selections
    <3>2. ~p.isLive /\ Legacy(p) => ChosenLive(p) = None
      BY DEF ChosenLive
    <3> QED
      BY <3>1, <3>2 DEF Selections
  <2>4. f \in Frames
    BY <2>1, <2>2, <2>3, LivePayloads DEF Frames
  <2>5. Goto(h, "write") /\ frame' = [frame EXCEPT ![h] = f] /\ h \in Handlers
    BY <1>2, <2>1 DEF UpdateBegin, Handlers
  <2>6. /\ pc' \in [Handlers -> {"idle", "write", "count", "disable"}]
        /\ frame' \in [Handlers -> Frames]
    BY <2>4, <2>5, HandlerMoves
  <2> QED
    BY <1>2, <2>6 DEF UpdateBegin, LiveTypes, venue, others
<1>3. ASSUME NEW h \in Requests, UpdateWrite(h) PROVE LiveTypes'
  <2>1. h \in Handlers /\ frame[h] \in Frames
    BY DEF Handlers, LiveTypes
  <2>2. /\ pc' \in [Handlers -> {"idle", "write", "count", "disable"}]
        /\ frame' \in [Handlers -> Frames]
    BY <1>1, <1>3, <2>1, HandlerMoves DEF UpdateWrite, Finish
  <2>3. /\ isLive' \in BOOLEAN /\ listed' \in BOOLEAN
        /\ live' \in Selections /\ advance' \in Selections
    BY <1>3, <2>1 DEF UpdateWrite, LiveTypes, Frames, Given
  <2>4. startedAt' \in Ticks \cup {None} /\ endedAt' \in Ticks \cup {None}
    BY <1>3 DEF UpdateWrite, LiveTypes
  <2> QED
    BY <1>3, <2>2, <2>3, <2>4 DEF UpdateWrite, LiveTypes, others
<1>4. ASSUME NEW h \in Handlers, AutoRead(h) PROVE LiveTypes'
  <2>1. frame[h] \in Frames /\ frame = [frame EXCEPT ![h] = frame[h]]
    BY DEF LiveTypes
  <2>2. [frame[h] EXCEPT !.live = live] \in Frames
    BY <2>1 DEF LiveTypes, Frames
  <2>3. CASE Goto(h, "disable") /\ UNCHANGED frame
    <3>1. pc' \in [Handlers -> {"idle", "write", "count", "disable"}]
      BY <2>3 DEF Goto, LiveTypes
    <3> QED
      BY <1>4, <2>3, <3>1 DEF AutoRead, LiveTypes, venue, others
  <2>4. CASE Goto(h, "count") /\ frame' = [frame EXCEPT ![h].live = live]
    <3>1. /\ pc' \in [Handlers -> {"idle", "write", "count", "disable"}]
          /\ frame' \in [Handlers -> Frames]
      BY <2>2, <2>4, HandlerMoves
    <3> QED
      BY <1>4, <3>1 DEF AutoRead, LiveTypes, venue, others
  <2> QED
    BY <1>4, <2>3, <2>4 DEF AutoRead
<1>5. ASSUME NEW h \in Handlers, AutoCount(h) PROVE LiveTypes'
  <2>1. [frame[h] EXCEPT !.counted = now] \in Frames
    BY DEF LiveTypes, Frames
  <2>2. /\ pc' \in [Handlers -> {"idle", "write", "count", "disable"}]
        /\ frame' \in [Handlers -> Frames]
    <3>1. CASE Goto(h, "disable") /\ frame' = [frame EXCEPT ![h].counted = now]
      BY <2>1, <3>1, HandlerMoves
    <3>2. CASE Finish(h)
      BY <1>1, <3>2, HandlerMoves DEF Finish
    <3> QED
      BY <1>5, <3>1, <3>2 DEF AutoCount
  <2> QED
    BY <1>5, <2>2 DEF AutoCount, LiveTypes, venue, others
<1>6. ASSUME NEW h \in Handlers, AutoDisable(h) PROVE LiveTypes'
  <2>1. /\ pc' \in [Handlers -> {"idle", "write", "count", "disable"}]
        /\ frame' \in [Handlers -> Frames]
    BY <1>1, <1>6, HandlerMoves DEF AutoDisable, Finish
  <2> QED
    BY <1>6, <2>1 DEF AutoDisable, LiveTypes, others
<1>7. ASSUME NEW end \in {LiveStart + 1, LiveEnd}, SettingsUpdate(end) PROVE LiveTypes'
  BY <1>7 DEF SettingsUpdate, LiveTypes, venue
<1>8. ASSUME NEW d \in Documents, DocumentsSubmit(d) PROVE LiveTypes'
  BY <1>8 DEF DocumentsSubmit, LiveTypes, venue, Reviews
<1>9. ASSUME NEW d \in Documents, NEW review \in {"APPROVED", "CHANGES_REQUESTED"},
             DocumentsReview(d, review)
      PROVE  LiveTypes'
  BY <1>9 DEF DocumentsReview, LiveTypes, venue, Reviews
<1>10. ASSUME NEW t \in Tables, Ask(t) \/ Sit(t) \/ Leave(t) PROVE LiveTypes'
  <2>1. /\ UNCHANGED <<now, isLive, startedAt, endedAt, live, advance, listed, windowEnd,
                        document, pc, frame>>
        /\ \/ holds' = [holds EXCEPT ![t] = [day |-> Day(now), seated |-> FALSE]]
           \/ holds' = [holds EXCEPT ![t].seated = TRUE]
           \/ holds' = [holds EXCEPT ![t] = NoHold]
    BY <1>10 DEF Ask, Sit, Leave, venue
  <2>2. Day(now) \in 0..(MaxTime \div DayLength)
    <3>1. now \in Nat /\ MaxTime \in Nat /\ now <= MaxTime
      BY LiveBounds DEF LiveTypes, Ticks
    <3> QED
      BY <3>1, DaysGrow
  <2>3. [day |-> Day(now), seated |-> FALSE] \in Holds
    BY <2>2 DEF Holds
  <2>4. holds' \in [Tables -> Holds]
    <3>1. holds \in [Tables -> Holds] /\ [holds[t] EXCEPT !.seated = TRUE] \in Holds
      BY DEF LiveTypes, Holds
    <3> QED
      BY <1>1, <2>1, <2>3, <3>1
  <2> QED
    BY <2>1, <2>4 DEF LiveTypes
<1>11. CASE Tick
  BY <1>11, LiveBounds DEF Tick, LiveTypes, Ticks, venue, others
<1>12. CASE UNCHANGED vars
  BY <1>12 DEF vars, LiveTypes
<1> QED
  BY <1>2, <1>3, <1>4, <1>5, <1>6, <1>7, <1>8, <1>9, <1>10, <1>11, <1>12
  DEF Next, AutoDisableIfNeeded

LEMMA TimerTypesNext ==
    ASSUME Cleanup!TimerTypes, [Cleanup!Next]_timerVars
    PROVE  Cleanup!TimerTypes'
<1> USE TimerBounds
<1>1. CASE Cleanup!Fires
  BY <1>1 DEF Cleanup!Fires, Cleanup!Found, Cleanup!TimerTypes, Cleanup!Queries
<1>2. ASSUME NEW q \in Cleanup!Queries, NEW v \in Venues,
             Cleanup!Appears(q, v) \/ Cleanup!FallsDue(q, v) \/ Cleanup!Ends(q, v)
      PROVE  Cleanup!TimerTypes'
  BY <1>2 DEF Cleanup!Appears, Cleanup!FallsDue, Cleanup!Ends, Cleanup!TimerTypes
<1>3. ASSUME NEW v \in Venues, Cleanup!Rejected(v) PROVE Cleanup!TimerTypes'
  <2>1. /\ due' = due /\ matched' = matched /\ isRunning' = FALSE /\ awaited' = {} /\ awaited \subseteq Venues
        /\ stray' = [w \in Venues |-> IF w \in awaited \ {v} THEN stray[w] + 1 ELSE stray[w]]
    BY <1>3 DEF Cleanup!Rejected, Cleanup!TimerTypes
  <2>2. \A w \in Venues : /\ stray[w] \in 0..MaxStray
                          /\ w \in awaited \ {v} => stray[w] + 1 \in 0..MaxStray
    BY <1>3 DEF Cleanup!Rejected, Cleanup!TimerTypes
  <2> QED
    BY <2>1, <2>2 DEF Cleanup!TimerTypes
<1>4. ASSUME NEW v \in Venues, Cleanup!Resolved(v) PROVE Cleanup!TimerTypes'
  BY <1>4 DEF Cleanup!Resolved, Cleanup!Served, Cleanup!TimerTypes
<1>5. ASSUME NEW v \in Venues, Cleanup!StrayEnds(v) PROVE Cleanup!TimerTypes'
  BY <1>5 DEF Cleanup!StrayEnds, Cleanup!Served, Cleanup!TimerTypes
<1>6. CASE UNCHANGED timerVars
  BY <1>6 DEF timerVars, Cleanup!TimerTypes
<1> QED
  BY <1>1, <1>2, <1>3, <1>4, <1>5, <1>6 DEF Cleanup!Next

\* Columns, handlers and runs of the timer stay in their range, for every venue, window and
\* number of cleanups.
THEOREM SessionsTyped == MCSpec => []SessionTypes
<1>1. MCInit => SessionTypes
  <2> SUFFICES ASSUME MCInit PROVE SessionTypes
    OBVIOUS
  <2>1. Cleanup!TimerTypes
    <3>1. /\ matched = [q \in Cleanup!Queries |-> {}] /\ due = [q \in Cleanup!Queries |-> {}]
          /\ isRunning = FALSE /\ awaited = {}
          /\ stray = [v \in Venues |-> 0] /\ 0 \in 0..MaxStray
      BY TimerBounds DEF MCInit, Cleanup!Init
    <3> QED
      BY <3>1 DEF Cleanup!TimerTypes
  <2> QED
    BY <2>1, LiveTypesInit DEF MCInit, SessionTypes
<1>2. SessionTypes /\ [MCNext]_allVars => SessionTypes'
  <2> SUFFICES ASSUME SessionTypes, [MCNext]_allVars PROVE SessionTypes'
    OBVIOUS
  <2>1. [Next]_vars /\ [Cleanup!Next]_timerVars
    BY DEF MCNext, allVars, InLive, InTimer, InMoney
  <2> QED
    BY <2>1, LiveTypesNext, TimerTypesNext DEF SessionTypes
<1> QED
  BY <1>1, <1>2, PTL DEF MCSpec
===============================================================================

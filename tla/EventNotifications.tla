-------------------------- MODULE EventNotifications --------------------------
(***************************************************************************)
(* VenueChinChinPanelService: events an owner lists on the panel, and the  *)
(* notifications about them.  Saving the panel schedules one notification  *)
(* per added event, moves a pending one when its event was edited, and     *)
(* drops those of removed events; a timer pushes what is due to everybody  *)
(* who follows the venue.                                                  *)
(*                                                                         *)
(* An event is a number: createEventId makes its identity from its day,    *)
(* hours and content, and lists are sorted by time.  A save that edits an  *)
(* event is one that replaces it by another.                               *)
(***************************************************************************)
EXTENDS Naturals, FiniteSets

CONSTANTS
    Events,         \* a set of numbers, in the order of their times
    Rows,           \* identities of VenueEventNotification rows
    Users,
    Delay,          \* VENUE_EVENT_PUSH_DELAY_HOURS
    MaxActive,      \* bound: saves and runs of the sender in flight at once
    MaxCrashes,     \* bound
    MaxTime,        \* bound: the last tick
    None            \* no event, no row

NotificationIdentities == None \notin Events \cup Rows

\* There is a row for each event: rows are made as they are needed.
NotificationBounds ==
    /\ Events \subseteq Nat /\ IsFiniteSet(Events)
    /\ IsFiniteSet(Rows) /\ Cardinality(Events) <= Cardinality(Rows)
    /\ Delay \in Nat /\ MaxTime \in Nat

VARIABLES
    now,
    panel,          \* VenueChinChinPanel.events
    followers,      \* VenueFollower rows
    row,            \* VenueEventNotification rows
    save,           \* the save in flight
    sender,         \* runs of the sender: the timer's, and one a save starts
    asked,          \* a save scheduled something with no delay
    pushed,         \* how often each user was sent each event
    added, crashes  \* kept for the properties: what the last save that was no edit added

vars == <<now, panel, followers, row, save, sender, asked, pushed, added, crashes>>

Senders  == {"timer", "immediate"}
Ticks    == 0..(MaxTime + Delay)
Reasons  == {"no", "removed", "nobody"}
Entries  == [event: Events \cup {None}, due: Ticks, sent: BOOLEAN, skipped: Reasons]
NoEntry  == [event |-> None, due |-> 0, sent |-> FALSE, skipped |-> "no"]
Saves    == [step: {"idle", "write", "pending", "edit", "remove", "add"},
             before: SUBSET Events, after: SUBSET Events, moved: SUBSET Events,
             waiting: [Events -> Rows \cup {None}], index: Nat, due: Ticks]
NoSave   == [step |-> "idle", before |-> {}, after |-> {}, moved |-> {},
             waiting |-> [e \in Events |-> None], index |-> 1, due |-> 0]
Sends    == [step: {"idle", "send", "mark"}, todo: SUBSET Rows, row: Rows \cup {None},
             about: [Rows -> Events \cup {None}], audience: SUBSET Users]
NoSend   == [step |-> "idle", todo |-> {}, row |-> None, about |-> [r \in Rows |-> None],
             audience |-> {}]

\* Rows and handlers stay in their range, and an event has one row at most.
NotificationTypes ==
    /\ now \in 0..MaxTime /\ panel \subseteq Events /\ followers \subseteq Users
    /\ row \in [Rows -> Entries]
    /\ \A r, s \in Rows : row[r].event = row[s].event /\ row[r].event # None => r = s
    /\ save \in Saves
    /\ sender \in [Senders -> Sends]

Init ==
    /\ now = 0 /\ panel = {} /\ followers = {} /\ crashes = 0
    /\ row = [r \in Rows |-> NoEntry]
    /\ save = NoSave /\ sender = [s \in Senders |-> NoSend] /\ asked = FALSE
    /\ pushed = [u \in Users |-> [e \in Events |-> 0]]
    /\ added = {}

-----------------------------------------------------------------------------

\* A list of events, in the order of their times.
Listed(S) == CHOOSE f \in [1..Cardinality(S) -> S] : \A i, j \in DOMAIN f : i < j => f[i] < f[j]

\* Seeded fault: a row that was dropped is not found by its event any more.
RowOfListed(e) == {r \in Rows : row[r].event = e /\ row[r].skipped # "removed"}

RowOf(e)   == {r \in Rows : row[r].event = e}
Pending(r) == row[r].event # None /\ ~row[r].sent /\ row[r].skipped = "no"

InFlight == Cardinality({s \in Senders : sender[s].step # "idle"})
                + (IF save.step # "idle" THEN 1 ELSE 0)
Quiet    == InFlight < MaxActive

-----------------------------------------------------------------------------
(* upsertForVenue and scheduleNotificationsForAddedEvents *)

SaveBegin(events) ==
    /\ save.step = "idle" /\ Quiet
    /\ save' = [NoSave EXCEPT !.step = "write", !.before = panel, !.after = events]
    /\ UNCHANGED <<now, panel, followers, row, sender, asked, pushed, added, crashes>>

SaveWrite ==
    /\ save.step = "write"
    /\ panel' = save.after
    /\ save' = [save EXCEPT !.step = "pending", !.due = now + Delay]
    /\ UNCHANGED <<now, followers, row, sender, asked, pushed, added, crashes>>

\* As many events as before are taken for the same ones, some of them edited.
EditLike == Cardinality(save.before) = Cardinality(save.after) /\ save.before # {}

SavePending ==
    /\ save.step = "pending"
    /\ save' = [save EXCEPT
          !.step = IF EditLike THEN "edit" ELSE "remove",
          !.waiting = [e \in Events |->
              IF \E r \in RowOf(e) : Pending(r) THEN CHOOSE r \in RowOf(e) : TRUE ELSE None]]
    /\ UNCHANGED <<now, panel, followers, row, sender, asked, pushed, added, crashes>>

\* The two lists are compared place by place.
SaveEdit ==
    /\ save.step = "edit"
    /\ \/ /\ save.index <= Cardinality(save.after)
          /\ LET old == Listed(save.before)[save.index]
                 new == Listed(save.after)[save.index]
                 r   == save.waiting[old]
                 moves == /\ old # new /\ r # None
                          /\ save.waiting[new] = None /\ new \notin save.moved
                          /\ RowOf(new) \subseteq {r}
             IN  IF moves
                 THEN /\ row' = [row EXCEPT ![r].event = new]
                      /\ save' = [save EXCEPT !.index = @ + 1, !.moved = @ \cup {new},
                                     !.waiting = [@ EXCEPT ![old] = None, ![new] = r]]
                 ELSE save' = [save EXCEPT !.index = @ + 1] /\ UNCHANGED row
       \/ /\ save.index > Cardinality(save.after)
          /\ save' = [save EXCEPT !.step = "remove"]
          /\ UNCHANGED row
    /\ UNCHANGED <<now, panel, followers, sender, asked, pushed, added, crashes>>

\* Seeded fault: notifications about removed events stay.
SaveRemoveKeeps ==
    /\ save.step = "remove"
    /\ save' = [save EXCEPT !.step = "add", !.index = 1]
    /\ UNCHANGED <<now, panel, followers, row, sender, asked, pushed, added, crashes>>

\* What was waiting about an event that is not listed any more is dropped, by id.
SaveRemove ==
    /\ save.step = "remove"
    /\ row' = [r \in Rows |-> IF \E e \in Events \ save.after : save.waiting[e] = r
                              THEN [row[r] EXCEPT !.skipped = "removed"] ELSE row[r]]
    /\ save' = [save EXCEPT !.step = "add", !.index = 1]
    /\ UNCHANGED <<now, panel, followers, sender, asked, pushed, added, crashes>>

\* An event with a row that waits, or one the panel had before, needs nothing more.
Settled(e) == save.waiting[e] # None \/ e \in save.before \/ e \in save.moved

\* A row of an event that was not sent is used again.
Scheduled(e, r) == [row[r] EXCEPT !.event = e, !.due = save.due, !.skipped = "no"]

SaveAdd ==
    /\ save.step = "add"
    /\ \/ /\ save.index <= Cardinality(save.after)
          /\ LET e == Listed(save.after)[save.index] IN
             IF Settled(e) \/ \E r \in RowOf(e) : row[r].sent
             THEN UNCHANGED <<row, asked>>
             ELSE /\ LET r == CHOOSE r \in Rows : row[r].event = (IF RowOf(e) # {} THEN e ELSE None)
                     IN  row' = [row EXCEPT ![r] = Scheduled(e, r)]
                  /\ asked' = (asked \/ Delay = 0)
          /\ save' = [save EXCEPT !.index = @ + 1]
          /\ UNCHANGED added
       \/ /\ save.index > Cardinality(save.after)
          /\ save' = NoSave
          /\ added' = IF EditLike THEN {} ELSE save.after \ save.before
          /\ UNCHANGED <<row, asked>>
    /\ UNCHANGED <<now, panel, followers, sender, pushed, crashes>>

Follow(u)   == followers' = followers \cup {u}
               /\ UNCHANGED <<now, panel, row, save, sender, asked, pushed, added, crashes>>
Unfollow(u) == followers' = followers \ {u}
               /\ UNCHANGED <<now, panel, row, save, sender, asked, pushed, added, crashes>>

-----------------------------------------------------------------------------
(* runScheduledEventNotifications *)

\* Seeded fault: rows that were sent are found again.
DueAgain(r) == row[r].event # None /\ row[r].skipped = "no" /\ row[r].due <= now

Due(r) == Pending(r) /\ row[r].due <= now

\* Rows, their texts and the followers are read once for the run.  The timer skips
\* its turn while its last run goes on.  The code takes the 25 rows that have been due
\* longest and leaves the others to its next runs; here a run takes all.
SendFind(s) ==
    /\ sender[s].step = "idle" /\ Quiet
    /\ s = "immediate" => asked
    /\ \E r \in Rows : Due(r)
    /\ asked' = (asked /\ s # "immediate")
    /\ sender' = [sender EXCEPT ![s] = [NoSend EXCEPT !.step = "send",
                      !.todo = {r \in Rows : Due(r)},
                      !.about = [r \in Rows |-> row[r].event], !.audience = followers]]
    /\ UNCHANGED <<now, panel, followers, row, save, pushed, added, crashes>>

\* The followers are pushed one after the other, of which a crash between row and mark
\* repeats the whole: one step.
SendRow(s, r) ==
    /\ sender[s].step = "send" /\ r \in sender[s].todo
    /\ \/ /\ sender[s].audience = {}
          /\ row' = [row EXCEPT ![r].skipped = "nobody"]
          /\ sender' = [sender EXCEPT ![s].todo = @ \ {r}]
          /\ UNCHANGED pushed
       \/ /\ sender[s].audience # {}
          /\ pushed' = [u \in Users |-> IF u \in sender[s].audience
                                        THEN [pushed[u] EXCEPT ![sender[s].about[r]] = @ + 1]
                                        ELSE pushed[u]]
          /\ sender' = [sender EXCEPT ![s].step = "mark", ![s].row = r]
          /\ UNCHANGED row
    /\ UNCHANGED <<now, panel, followers, save, asked, added, crashes>>

SendMark(s) ==
    /\ sender[s].step = "mark"
    /\ row' = [row EXCEPT ![sender[s].row].sent = TRUE]
    /\ sender' = [sender EXCEPT ![s].step = "send", ![s].todo = @ \ {sender[s].row},
                                ![s].row = None]
    /\ UNCHANGED <<now, panel, followers, save, asked, pushed, added, crashes>>

SendDone(s) ==
    /\ sender[s].step = "send" /\ sender[s].todo = {}
    /\ sender' = [sender EXCEPT ![s] = NoSend]
    /\ UNCHANGED <<now, panel, followers, row, save, asked, pushed, added, crashes>>

Crash ==
    /\ crashes < MaxCrashes /\ InFlight > 0
    /\ crashes' = crashes + 1
    /\ save' = NoSave /\ sender' = [s \in Senders |-> NoSend] /\ asked' = FALSE
    /\ added' = {}
    /\ UNCHANGED <<now, panel, followers, row, pushed>>

Tick ==
    /\ now < MaxTime /\ now' = now + 1
    /\ UNCHANGED <<panel, followers, row, save, sender, asked, pushed, added, crashes>>

-----------------------------------------------------------------------------

Send(s) == SendFind(s) \/ SendMark(s) \/ SendDone(s) \/ \E r \in Rows : SendRow(s, r)

Next ==
    \/ \E events \in SUBSET Events : SaveBegin(events)
    \/ SaveWrite \/ SavePending \/ SaveEdit \/ SaveRemove \/ SaveAdd
    \/ \E u \in Users : Follow(u) \/ Unfollow(u)
    \/ \E s \in Senders : Send(s)
    \/ Crash \/ Tick

Spec == Init /\ [][Next]_vars

-----------------------------------------------------------------------------
(* One save or run of the sender at a time. *)

\* A follower is told of an event once, however often the panel is saved with the event
\* removed, added again or edited; a crash may repeat what it cut short.
AnnouncedOnce == \A u \in Users, e \in Events : pushed[u][e] <= 1 + crashes

\* Followers are not told of an event that was taken off the panel, or edited into
\* another, before the announcement; a crash may leave one behind.
OnlyListedAnnounced ==
    crashes = 0 => \A u \in Users, e \in Events : pushed'[u][e] > pushed[u][e] => e \in panel

\* When the number of events changes, each one that was added is announced unless nobody
\* follows the venue, also when it had been taken off the panel earlier.
AddedScheduled ==
    save.step = "idle" =>
        \A e \in added : \E r \in RowOf(e) : row[r].sent \/ row[r].skipped # "removed"
=============================================================================

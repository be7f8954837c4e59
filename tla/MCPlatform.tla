------------------------------ MODULE MCPlatform ------------------------------
(* Small instances for TLC of the modules around reservations: accounts,      *)
(* phone numbers, push notifications, saved cards, and what goes on behind a  *)
(* venue's panel.  A behaviour is of one of them, the scenario.  In the       *)
(* scenarios whose name begins with "racing" requests overlap.                *)
(*                                                                            *)
(* Sessions, numbers and announcements are instances of the modules with the  *)
(* proofs about them, so that what is proved there can be cited of the        *)
(* scenarios.                                                                 *)
EXTENDS Naturals, Sequences, FiniteSets, TLC

CONSTANTS
    Users, Emails, Links, Tokens, Phones, Codes, Requests,    \* one request at a time
    RacingUsers, RacingEmails, RacingLinks, RacingTokens, RacingCodes, RacingRequests,
    Addresses, LoginsAtOnce, LoginLimit, LoginWindow, LoginLock, LoginTime,
    Devices, Pushes, Cards, TestCards, Notices, FewNotices,
    Guests, Owners, Slots, LastTick, MaxMoves, OpensBefore, WindowLen, FinalBefore, BookingTimes,
    MaxProjects, MaxLayouts, RoomNames, TableNames, Shots,    \* of layouts
    Packages, Drafts, AskedRooms, AskedTables, Photos,
    garden, hall, terrace, x, y, shot1, shot2,
    Timer, NoPhoto, None

VARIABLES
    scenario,
    account, link, token,                           \* AccountSessions
    phoneOf, deleted, code,                         \* PhoneVerification
    attempts, tally, trying,                        \* AdminLogin
    installed, holder, push, log, shown,            \* DeviceTokens
    status, isDefault,                              \* PaymentMethods
    booking, cleanup, ran,                          \* CheckInReminders
    panel, followers, row, save, sender, asked, added, crashes,   \* EventNotifications
    project, approvals, saves,                      \* LayoutReview
    owner, pushed, now, pc, frame                   \* of several of them

sessionVars  == <<account, link, token>>
phoneVars    == <<phoneOf, deleted, code>>
adminVars    == <<attempts, tally, trying>>
deviceVars   == <<installed, holder, push, log, shown>>
cardVars     == <<status, isDefault>>
reminderVars == <<booking, cleanup, ran>>
eventVars    == <<panel, followers, row, save, sender, asked, added, crashes>>
layoutVars   == <<project, approvals, saves>>
allVars      == <<scenario, sessionVars, phoneVars, adminVars, deviceVars, cardVars, reminderVars,
                  eventVars, layoutVars, owner, pushed, now, pc, frame>>

OneAtATime == 1
InPairs    == 2

Sessions == INSTANCE AccountSessions_proofs WITH
    MaxActive <- OneAtATime
RacingSessions == INSTANCE AccountSessions_proofs WITH
    Users <- RacingUsers, Emails <- RacingEmails, Links <- RacingLinks, Tokens <- RacingTokens,
    Requests <- RacingRequests, MaxActive <- InPairs

Numbers == INSTANCE PhoneVerification_proofs WITH
    MaxActive <- OneAtATime, Cooldown <- 1, Ttl <- 0, AttemptLimit <- 2, MaxTime <- 1
RacingNumbers == INSTANCE PhoneVerification_proofs WITH
    Users <- RacingUsers, Codes <- RacingCodes, Requests <- RacingRequests,
    MaxActive <- InPairs, Cooldown <- 1, Ttl <- 0, AttemptLimit <- 2, MaxTime <- 1

Admins == INSTANCE AdminLogin WITH
    Emails <- RacingEmails, Requests <- RacingRequests, MaxActive <- LoginsAtOnce,
    Limit <- LoginLimit, Window <- LoginWindow, Lock <- LoginLock, MaxTime <- LoginTime

Pushed == INSTANCE DeviceTokens WITH MaxActive <- OneAtATime

Methods == INSTANCE PaymentMethods WITH
    Guests <- Users, Handlers <- Requests, MaxActive <- OneAtATime, NoGuest <- None

Due == INSTANCE CheckInReminders

\* Announcements a tick after the panel was saved, without crashes, and at once, with one.
Later == INSTANCE EventNotifications_proofs WITH
    Events <- 1..3, Rows <- Notices, Users <- RacingUsers, Delay <- 1, MaxActive <- 1,
    MaxCrashes <- 0, MaxTime <- 1
AtOnce == INSTANCE EventNotifications_proofs WITH
    Events <- 1..2, Rows <- FewNotices, Users <- RacingUsers, Delay <- 0, MaxActive <- 1,
    MaxCrashes <- 1, MaxTime <- 0

Table(id, chinChin, photo) == [id |-> <<id>>, chinChin |-> chinChin, photo |-> photo]
RoomOf(label, tables)      == [label |-> label, hidden |-> FALSE, tables |-> tables]

\* Two rooms with a table of the same name each; the hall's two Chin-Chin tables came with
\* the same photo.
TwoRooms ==
    [layout |-> <<RoomOf(garden, <<Table(x, FALSE, NoPhoto)>>),
                  RoomOf(hall, <<Table(x, TRUE, shot1), Table(y, TRUE, shot1)>>)>>,
     space  |-> <<[label |-> hall, photos |-> <<shot1, shot2>>]>>]
Terrace == RoomOf(terrace, <<Table(y, FALSE, NoPhoto)>>)
\* The first room drawn anew, with a table that has the name of one of the hall's.
Garden  == RoomOf(garden, <<Table(y, FALSE, NoPhoto)>>)

\* What the owner submits, what the admin draws and what changes are asked for.
OnePackage == {TwoRooms}
TwoDrafts  == {<<TwoRooms.layout[1], Terrace>>, <<Garden, TwoRooms.layout[2]>>}
OneTable   == {<<y>>}

Layouts == INSTANCE LayoutReview WITH Handlers <- Requests, Interleaved <- FALSE

ASSUME FiniteRequests == IsFiniteSet(Requests)
ASSUME SessionConstants ==
    Sessions!SessionIdentities /\ RacingSessions!SessionIdentities /\ Sessions!SessionBound
ASSUME PhoneConstants ==
    /\ Numbers!PhoneIdentities /\ RacingNumbers!PhoneIdentities
    /\ Numbers!PhoneBounds /\ RacingNumbers!PhoneBounds
ASSUME AdminConstants == Admins!AdminLoginBounds
ASSUME DeviceConstants == Pushed!DeviceIdentities /\ Pushed!DeviceBounds
ASSUME MethodConstants == Methods!MethodIdentities
ASSUME ReminderConstants == Due!ReminderIdentities /\ Due!ReminderClock
ASSUME NotificationConstants ==
    /\ Later!NotificationIdentities /\ AtOnce!NotificationIdentities
    /\ Later!NotificationBounds /\ AtOnce!NotificationBounds
ASSUME LayoutConstants == Layouts!LayoutReviewBounds

\* What a scenario does not use is None for good.
NoSessions  == account = None /\ link = None /\ token = None
NoPhones    == phoneOf = None /\ deleted = None /\ code = None
NoAdmins    == attempts = None /\ tally = None /\ trying = None
NoDevices   == installed = None /\ holder = None /\ push = None /\ log = None /\ shown = None
NoCards     == status = None /\ isDefault = None
NoReminders == booking = None /\ cleanup = None /\ ran = None
NoEvents    == /\ panel = None /\ followers = None /\ row = None /\ save = None
               /\ sender = None /\ asked = None /\ added = None /\ crashes = None
NoLayouts   == project = None /\ approvals = None /\ saves = None
NoOwner     == owner = None
NoPushes    == pushed = None
NoTime      == now = None
NoHandlers  == pc = None /\ frame = None

\* A step of a scenario leaves the variables of the others alone.
InSessions(s) ==
    /\ scenario = s
    /\ UNCHANGED <<scenario, phoneVars, adminVars, deviceVars, cardVars, reminderVars,
                    eventVars, layoutVars, owner, pushed, now>>
InPhones(s) ==
    /\ scenario = s
    /\ UNCHANGED <<scenario, sessionVars, adminVars, deviceVars, cardVars, reminderVars,
                    eventVars, layoutVars, owner, pushed>>
InAdmins ==
    /\ scenario = "admins"
    /\ UNCHANGED <<scenario, sessionVars, phoneVars, deviceVars, cardVars, reminderVars,
                    eventVars, layoutVars, owner, pushed, <<pc, frame>>>>
InDevices ==
    /\ scenario = "devices"
    /\ UNCHANGED <<scenario, sessionVars, phoneVars, adminVars, cardVars, reminderVars,
                    eventVars, layoutVars, pushed, now, <<pc, frame>>>>
InMethods ==
    /\ scenario = "methods"
    /\ UNCHANGED <<scenario, sessionVars, phoneVars, adminVars, deviceVars, reminderVars,
                    eventVars, layoutVars, pushed, now>>
InReminders ==
    /\ scenario = "reminders"
    /\ UNCHANGED <<scenario, sessionVars, phoneVars, adminVars, deviceVars, cardVars,
                    eventVars, layoutVars, owner, <<pc, frame>>>>
InEvents(s) ==
    /\ scenario = s
    /\ UNCHANGED <<scenario, sessionVars, phoneVars, adminVars, deviceVars, cardVars,
                    reminderVars, layoutVars, owner, <<pc, frame>>>>
InLayouts ==
    /\ scenario = "layouts"
    /\ UNCHANGED <<scenario, sessionVars, phoneVars, adminVars, deviceVars, cardVars,
                    reminderVars, eventVars, owner, pushed, now>>

Init ==
    \/ /\ scenario = "sessions" /\ Sessions!Init
       /\ NoPhones /\ NoAdmins /\ NoDevices /\ NoCards /\ NoReminders /\ NoEvents
       /\ NoLayouts /\ NoOwner /\ NoPushes /\ NoTime
    \/ /\ scenario = "racing sessions" /\ RacingSessions!Init
       /\ NoPhones /\ NoAdmins /\ NoDevices /\ NoCards /\ NoReminders /\ NoEvents
       /\ NoLayouts /\ NoOwner /\ NoPushes /\ NoTime
    \/ /\ scenario = "phones" /\ Numbers!Init
       /\ NoSessions /\ NoAdmins /\ NoDevices /\ NoCards /\ NoReminders /\ NoEvents
       /\ NoLayouts /\ NoOwner /\ NoPushes
    \/ /\ scenario = "racing phones" /\ RacingNumbers!Init
       /\ NoSessions /\ NoAdmins /\ NoDevices /\ NoCards /\ NoReminders /\ NoEvents
       /\ NoLayouts /\ NoOwner /\ NoPushes
    \/ /\ scenario = "admins" /\ Admins!Init
       /\ NoSessions /\ NoPhones /\ NoDevices /\ NoCards /\ NoReminders /\ NoEvents
       /\ NoLayouts /\ NoOwner /\ NoPushes /\ NoHandlers
    \/ /\ scenario = "devices" /\ Pushed!Init
       /\ NoSessions /\ NoPhones /\ NoAdmins /\ NoCards /\ NoReminders /\ NoEvents
       /\ NoLayouts /\ NoPushes /\ NoTime /\ NoHandlers
    \/ /\ scenario = "methods" /\ Methods!Init
       /\ NoSessions /\ NoPhones /\ NoAdmins /\ NoDevices /\ NoReminders /\ NoEvents
       /\ NoLayouts /\ NoPushes /\ NoTime
    \/ /\ scenario = "reminders" /\ Due!Init
       /\ NoSessions /\ NoPhones /\ NoAdmins /\ NoDevices /\ NoCards /\ NoEvents
       /\ NoLayouts /\ NoOwner /\ NoHandlers
    \/ /\ scenario = "later" /\ Later!Init
       /\ NoSessions /\ NoPhones /\ NoAdmins /\ NoDevices /\ NoCards /\ NoReminders
       /\ NoLayouts /\ NoOwner /\ NoHandlers
    \/ /\ scenario = "at once" /\ AtOnce!Init
       /\ NoSessions /\ NoPhones /\ NoAdmins /\ NoDevices /\ NoCards /\ NoReminders
       /\ NoLayouts /\ NoOwner /\ NoHandlers
    \/ /\ scenario = "layouts" /\ Layouts!Init
       /\ NoSessions /\ NoPhones /\ NoAdmins /\ NoDevices /\ NoCards /\ NoReminders
       /\ NoEvents /\ NoOwner /\ NoPushes /\ NoTime

Next ==
    \/ InSessions("sessions") /\ Sessions!Next
    \/ InSessions("racing sessions") /\ RacingSessions!Next
    \/ InPhones("phones") /\ Numbers!Next
    \/ InPhones("racing phones") /\ RacingNumbers!Next
    \/ InAdmins /\ Admins!Next
    \/ InDevices /\ Pushed!Next
    \/ InMethods /\ Methods!Next
    \/ InReminders /\ Due!Next
    \/ InEvents("later") /\ Later!Next
    \/ InEvents("at once") /\ AtOnce!Next
    \/ InLayouts /\ Layouts!Next

Spec == Init /\ [][Next]_allVars

Symmetry == Permutations(Users) \cup Permutations(RacingCodes) \cup Permutations(Phones)

-----------------------------------------------------------------------------

\* Rows, handlers, counters and logs of every module stay in their range.
PlatformTypes ==
    CASE scenario = "sessions"        -> Sessions!SessionTypes
      [] scenario = "racing sessions" -> RacingSessions!SessionTypes
      [] scenario = "phones"          -> Numbers!PhoneTypes
      [] scenario = "racing phones"   -> RacingNumbers!PhoneTypes
      [] scenario = "admins"          -> Admins!AdminLoginTypes
      [] scenario = "devices"         -> Pushed!DeviceTypes
      [] scenario = "methods"         -> Methods!MethodTypes
      [] scenario = "reminders"       -> Due!ReminderTypes
      [] scenario = "later"           -> Later!NotificationTypes
      [] scenario = "at once"         -> AtOnce!NotificationTypes
      [] scenario = "layouts"         -> Layouts!LayoutTypes

\* AccountSessions: of refreshes that race, and of a refresh repeated because its answer
\* was lost, one is served.
OneLiveToken ==
    /\ scenario = "sessions" => Sessions!OneLiveToken
    /\ scenario = "racing sessions" => RacingSessions!OneLiveToken

\* AccountSessions, one request at a time: an address counts as verified only if a link
\* mailed to it was opened, and a link opens one session.
LinksTrusted == scenario = "sessions" => Sessions!AddressVerified /\ Sessions!LinkOpensOneSession

\* AccountSessions, one request at a time: nothing mailed before brings a deleted account back.
DeletedStaysDeleted == [][scenario = "sessions" => Sessions!KeepsDeletedDeleted]_allVars

\* PhoneVerification: a number an account holds was proved by a code sent to it, and one
\* request at a time it belongs to one account.
NumbersProved ==
    /\ scenario = "phones" => Numbers!NumberProved /\ Numbers!NumberHasOneOwner
    /\ scenario = "racing phones" => RacingNumbers!NumberProved

\* PhoneVerification and AdminLogin: however requests overlap, a code is tried as often as
\* the limit says and once more for each of them, and passwords as often as two windows
\* allow and those under way.
GuessesBounded ==
    /\ scenario = "phones" => Numbers!AttemptsBounded
    /\ scenario = "racing phones" => RacingNumbers!AttemptsBounded
    /\ scenario = "admins" => Admins!FailuresBounded

\* DeviceTokens: a notification is shown to its addressee alone, and a log that says SENT
\* is about one that was shown.
NotificationsShown ==
    scenario = "devices" => Pushed!ShownToAddressee /\ Pushed!SentWasShown

\* PaymentMethods, one request at a time: a guest has at most one default card, an active one.
OneDefault == scenario = "methods" => Methods!OneDefault

\* CheckInReminders: however cleanups, answers and moves overlap and wherever the process
\* dies, a guest is reminded once of each kind for every slot the reservation has had, and
\* nobody is forgotten with whom the venue agreed on a slot in time - unless the reservation
\* was moved while a cleanup had it on its list.
GuestsReminded == scenario = "reminders" => Due!RemindedOnce /\ Due!NobodyForgotten

\* EventNotifications, one save or run of the sender at a time: a follower is told of an
\* event once, and of each event that was added.
EventsAnnounced ==
    /\ scenario = "later" => Later!AnnouncedOnce /\ Later!AddedScheduled
    /\ scenario = "at once" => AtOnce!AnnouncedOnce /\ AtOnce!AddedScheduled

\* EventNotifications, one save or run of the sender at a time: nobody is told of an event
\* that was taken off the panel before; a crash may leave one behind.
RemovedNotAnnounced ==
    [][/\ scenario = "later" => Later!OnlyListedAnnounced
       /\ scenario = "at once" => AtOnce!OnlyListedAnnounced]_allVars

\* LayoutReview: tables of a layout the panel approved have identities of their own.
TableIdsUnique == scenario = "layouts" => Layouts!TableIdsUnique

\* LayoutReview, one approval at a time: an added room joins the layout in force as it is,
\* each of its photos on one table.
AddedRoomWhole == [][scenario = "layouts" => Layouts!RoomAddedWhole]_allVars

\* LayoutReview, one approval at a time: an edited room leaves the others of the layout in
\* force as they are, but for tables whose identity the edited room has taken.
OtherRoomsKept == [][scenario = "layouts" => Layouts!OtherRoomsKept]_allVars

\* LayoutReview: both, of what an approval does to the rooms it is not about.
RoomsKept == AddedRoomWhole /\ OtherRoomsKept
=============================================================================

CONSTANTS
  Users = {u1, u2}
  Emails = {e1, e2}
  Links = {l1, l2}
  Tokens = {t1, t2}
  Phones = {f1, f2}
  Codes = {c1, c2, c3}
  Requests = {h1}
  RacingUsers = {u3}
  RacingEmails = {e3}
  RacingLinks = {l3}
  RacingTokens = {t1, t2, t3}
  RacingCodes = {c1, c2}
  RacingRequests = {h1, h2}
  Addresses = {i1}
  LoginsAtOnce = 2
  LoginLimit = 3
  LoginWindow = 2
  LoginLock = 2
  LoginTime = 5
  Devices = {d1, d2}
  Pushes = {s1}
  Cards = {k1, k2}
  TestCards = {k3}
  Guests = {g1}
  Owners = {o1}
  Notices = {n1, n2, n3}
  FewNotices = {n1, n2}
  Slots = {3, 4}
  OpensBefore = 2
  WindowLen = 1
  FinalBefore = 0
  BookingTimes = {0, 2}
  LastTick = 5
  MaxMoves = 1
  MaxProjects = 2
  MaxLayouts = 2
  RoomNames = {garden, hall, terrace}
  TableNames = {x, y}
  Shots = {shot1, shot2}
  Packages <- OnePackage
  Drafts <- TwoDrafts
  AskedRooms = {garden}
  AskedTables <- OneTable
  Photos = {NoPhoto}
  garden = garden
  hall = hall
  terrace = terrace
  x = x
  y = y
  shot1 = shot1
  shot2 = shot2
  Timer = Timer
  NoPhoto = NoPhoto
  None = None
SPECIFICATION Spec
SYMMETRY Symmetry
INVARIANT PlatformTypes
INVARIANT OneLiveToken
INVARIANT LinksTrusted
INVARIANT NumbersProved
INVARIANT GuessesBounded
INVARIANT NotificationsShown
INVARIANT OneDefault
INVARIANT GuestsReminded
INVARIANT EventsAnnounced
INVARIANT TableIdsUnique
PROPERTY DeletedStaysDeleted
PROPERTY RemovedNotAnnounced
PROPERTY RoomsKept
CHECK_DEADLOCK FALSE

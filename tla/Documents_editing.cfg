SPECIFICATION AllSpec
CONSTANTS
  Editors = {e1, e2}
  Requests = {r1, r2}
  t1 = t1
  t2 = t2
  b1 = b1
  b2 = b2
  Titles = {t1, t2}
  Bodies = {b1, b2}
  Typed <- TypedTexts
  First <- FirstText
  Empty = Empty
  None = None
  ana = ana
  bo = bo
  cy = cy
  v1 = v1
  Talkers = {ana, bo, cy}
  Rooms = {c1, c2}
  Notes = {n1, n2}
  Calls = {k1, k2}
  Openings <- Pair
  Writers = {ana}
  Reactors = {bo}
  Named = {bo, cy}
  MaxEdits = 1
  Views = {v1}
  Viewer <- Reader
  Everything = Everything
  Nothing = Nothing
  Addressees = {ana}
  Notices = {n1}
  Sweeps = {r1, r2}
  HoursPerDay = 2
  Hours = {0, 1}
  Window <- DigestWindows
  Never = Never
  NoNotice = NoNotice
  NoSweep = NoSweep
SYMMETRY Symmetry
CONSTRAINT FewRevisions
INVARIANTS HistoryHoldsPage NewestIsPage ConversationsAgree DigestsKeepTheirPace
PROPERTY TypingIsKept

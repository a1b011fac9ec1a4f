SPECIFICATION AllSpec
CONSTANTS
  u1 = u1
  u2 = u2
  Users = {u1, u2}
  Workers = {w1, w2}
  Rules <- SomeRules
  Answers <- SomeAnswers
  Patches <- SomePatches
  MaxRequests = 2
  MaxFaults = 1
  None = None
  ana = ana
  bo = bo
  x1 = x1
  x2 = x2
  y1 = y1
  Tabs = {x1, x2, y1}
  Owner <- Whose
  Channels = {ch}
  Typists = {ana}
  Observers = {y1}
  Presence = Presence
  Expiry = Expiry
  Unsent = Unsent
  MaxAnnouncing = 2
INVARIANTS AlertedOnce AcceptedOnce AcceptedAsShown
  TypingIsOnline OnlineListIsRight
PROPERTIES RulesKeepAssignees NothingLeftOver AllAnswered IndicatorGoesOff
CHECK_DEADLOCK FALSE

SPECIFICATION FairSpec
CONSTANTS
  Files = {f1, f2, f3}
  Tasks = {}
  Messages = {m1}
  Sweepers = {r1}
  Batch = 2
  TaskLimit = 2
  Refused = {f1, f2}
  MaxAttempts = 3
  StoreFaults = TRUE
  Hangups = FALSE
  Crashes = FALSE
  LostReplies = FALSE
  NoOwner = NoOwner
  NoFile = NoFile
PROPERTY ImplementsLedger
CHECK_DEADLOCK FALSE

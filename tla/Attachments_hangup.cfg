SPECIFICATION Spec
CONSTANTS
  Files = {f1, f2}
  Tasks = {t1}
  Messages = {m1}
  Sweepers = {r1, r2}
  Batch = 1
  TaskLimit = 1
  Refused = {}
  MaxAttempts = 2
  StoreFaults = FALSE
  Hangups = TRUE
  Crashes = FALSE
  LostReplies = FALSE
  NoOwner = NoOwner
  NoFile = NoFile
SYMMETRY Symmetry
PROPERTY CleanupRemoves
CHECK_DEADLOCK FALSE

SPECIFICATION Spec
CONSTANTS
  Files = {f1, f2}
  Tasks = {t1}
  Messages = {m1}
  Sweepers = {r1, r2}
  Batch = 1
  TaskLimit = 1
  Refused = {}
  MaxAttempts = 2
  StoreFaults = TRUE
  Hangups = TRUE
  Crashes = TRUE
  LostReplies = TRUE
  NoOwner = NoOwner
  NoFile = NoFile
SYMMETRY Symmetry
INVARIANTS NoDanglingRow DeletedIsQueued WithinTaskLimit
CHECK_DEADLOCK FALSE

SPECIFICATION SessionsSpec
CONSTANTS
  Users = {usr}
  Admins = {}
  SessionIds = {s1, s2, s3}
  Workers = {w1, w2}
  Passwords = {pw1}
  NoPassword = NoPassword
  Nobody = Nobody
  NoSession = NoSession
  Faults = TRUE
  MaxEnds = 1
  Accounts = {a1, a2}
  Requests = {r1, r2}
  Patches <- SomePatches
  None = None
SYMMETRY Symmetry
INVARIANT TokenUsedOnce
CHECK_DEADLOCK FALSE

SPECIFICATION BothSpec
CONSTANTS
  Users = {adm, usr}
  Admins = {adm}
  SessionIds = {s1, s2, s3}
  Workers = {w1, w2}
  Passwords = {pw1}
  NoPassword = NoPassword
  Nobody = Nobody
  NoSession = NoSession
  Faults = TRUE
  MaxEnds = 1
  Accounts = {a1, a2}
  Requests = {w1, w2}  \* the workers, so that one symmetry serves both
  Patches <- SomePatches
  None = None
SYMMETRY Symmetry
CONSTRAINT Bounds
INVARIANTS EndedAccountGetsNoService ExchangedTokenIsDead OneLivePerSignIn
  AdministratorRemains ErasedHasNoKey
PROPERTY RevocationIsFinal
CHECK_DEADLOCK FALSE

SPECIFICATION AccountsSpec
CONSTANTS
  Accounts = {a1, a2}
  Requests = {r1, r2}
  Patches <- SomePatches
  None = None
SYMMETRY Alike
INVARIANTS LastAdministratorKept

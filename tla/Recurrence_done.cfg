SPECIFICATION Spec
CONSTANTS
  Tasks = {t1, t2}
  First = {t1}
  Requests = {h1}
  Replicas = {r1}
  Batch = 1
  Limits = {2}
  Untils = {"ahead"}
  Patches = {"none", "done"}
  MaxRules = 1
  Faults = TRUE
  None = None
INVARIANT ClonesStartOpen
CHECK_DEADLOCK FALSE

SPECIFICATION Spec
CONSTANTS
  Tasks = {t1, t2, t3}
  First = {t1}
  Requests = {h1, h2}
  Replicas = {r1, r2}
  Batch = 1
  Limits = {2}
  Untils = {"ahead"}
  Patches = {"none", "done"}
  MaxRules = 1
  Faults = TRUE
  None = None
SYMMETRY Symmetry
CONSTRAINT OneMishap
INVARIANTS OneCarrier OneSuccessor ScheduledHasItsMoment
  CountWithinLimit FinishedSeriesGoesOn
PROPERTY SeriesEndsForAReason
CHECK_DEADLOCK FALSE

SPECIFICATION Spec
CONSTANTS
 adm = adm
 mgr = mgr
 t1 = t1
 t2 = t2
 t3 = t3
 t4 = t4
 cron = cron
 prune = prune
 days = days
 secret = secret
 v1 = v1
 v2 = v2
 Users = {adm, mgr}
 GlobalRole <- Roles
 Spaces = {sp}
 Folders = {f}
 Teams = {tm}
 Projects = {p}
 Goals = {g}
 Requests = {r1, r2}
 GrantLists <- NoGrants
 GivenRoles = {3}
 Absent = Absent
 Tasks = {t1, t2, t3, t4}
 Parent <- SubTasks
 Duration <- Days
 Adders = {a1, a2}
 MaxEdges = 3
 NoTask = NoTask
 People = {adm}
 TimedTasks = {t1, t2}
 Fields = {days}
 FieldValues = {v1}
 Clips = {c1}
 NoRow = NoRow
 OfProject = OfProject
 MaxClock = 2
 MaxByHand = 1
 Servers = {s1, s2}
 Keys = {cron, prune, days, secret}
 Kind <- Kinds
 Schedule <- Crons
 DayCounts = {days}
 Positive = {v2}
 Values = {v1, v2, Blank}
 Blank = Blank
 Baseline <- Environment
 Saves = {w1, w2}
 Changes <- Asked
 Clear = Clear
 Keep = Keep
 Unset = Unset
 Starters = {b1, b2}
 Migrations = 3
 MaxStarts = 2
SYMMETRY Alike
INVARIANTS WorkHangsTogether Acyclic CriticalPathIsLongest KeptIsRight SavedIsInForce MigratedInOrder
PROPERTIES WorkIsDeletedOnPurpose
CHECK_DEADLOCK FALSE

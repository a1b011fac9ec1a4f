------------------------------ MODULE Structure ------------------------------
(* Where work lives: spaces with their grants, folders, teams, projects with *)
(* their members and chat channel, goals and what they measure.  A handler   *)
(* judges its caller on what it reads and writes afterwards, each write      *)
(* being one statement or one transaction, so another request may come in    *)
(* between.                                                                  *)
(*                                                                           *)
(* A patch of several columns is one of each here: no property reads two.    *)
(* Names, colours, positions, archiving and dates decide nothing here.       *)
(* Manual key results refer to nothing and are left out.                     *)
EXTENDS Naturals, FiniteSets

CONSTANTS Users, GlobalRole,     \* accounts and what each may do anywhere
          Spaces, Folders, Teams, Projects, Goals, Requests,
          GrantLists,            \* the grants a new space may be sent with
          GivenRoles,            \* the ranks of the roles that are given out
          Absent                 \* no row, no reference, no request

ASSUME StructureAssumption ==
  /\ GlobalRole \in [Users -> {"admin", "manager", "member"}]
  /\ GivenRoles \subseteq 1..4
  /\ Absent \notin Users \cup Spaces \cup Folders \cup Teams \cup Projects \cup Goals

VARIABLES
  space,      \* space -> is it private, or Absent
  grants,     \* space -> user -> rank of the role held on it, 0 for none
  folder,     \* folder -> its space, or Absent
  team,       \* team -> lead and members, or Absent
  project,    \* project -> owner, members, team, space and folder, or Absent
  channel,    \* project -> members and team of its chat channel, or Absent
  goal,       \* goal -> owner and space, or Absent
  measures,   \* pairs of a goal and the project a derived key result reads
  asked,      \* request -> what it has been allowed to do, or Absent
  used,       \* ids drawn so far: uuid.New() never draws one twice
  unopened,   \* history: projects whose channel was not created with them
  taken       \* history: pairs of a project and the team its channel went with

structureVars == <<space, grants, folder, team, project, channel, goal, measures, asked, used,
                   unopened, taken>>

NoRole == 0
Guest == 1
Member == 2
Admin == 3
Owner == 4

Team == [lead : Users \cup {Absent}, members : SUBSET Users]
Project == [owner : Users, members : SUBSET Users, team : Teams \cup {Absent},
            space : Spaces \cup {Absent}, folder : Folders \cup {Absent}]
Channel == [members : SUBSET Users, team : Teams \cup {Absent}]
Goal == [owner : Users, space : Spaces \cup {Absent}]
Opening == [kind : {"openChannel"}, project : Projects, row : Channel]

ASSUME RowsAssumption ==
  /\ Absent \notin BOOLEAN \cup Team \cup Project \cup Channel \cup Goal \cup Opening
  /\ GrantLists \subseteq [Users -> NoRole..Owner]

StructureInit ==
  /\ space = [s \in Spaces |-> Absent] /\ folder = [f \in Folders |-> Absent]
  /\ grants = [s \in Spaces |-> [u \in Users |-> NoRole]]
  /\ project = [p \in Projects |-> Absent] /\ channel = [p \in Projects |-> Absent]
  /\ team = [t \in Teams |-> Absent] /\ goal = [g \in Goals |-> Absent] /\ measures = {}
  /\ asked = [r \in Requests |-> Absent] /\ used = {} /\ unopened = {} /\ taken = {}

-----------------------------------------------------------------------------
(* Who may do what *)

IsAdmin(u) == GlobalRole[u] = "admin"

CanAdministerStructure(u) == GlobalRole[u] \in {"admin", "manager"}

RoleFor(s, u) == grants[s][u]

\* A private space is there only for those who hold a grant on it.
RequireSpaceRead(u, s) ==
  space[s] # Absent /\ (IsAdmin(u) \/ ~space[s] \/ RoleFor(s, u) # NoRole)

RequireSpaceRole(u, s, least) ==
  RequireSpaceRead(u, s) /\ (IsAdmin(u) \/ RoleFor(s, u) >= least)

RequireFolderRole(u, f, least) ==
  folder[f] # Absent /\ (IsAdmin(u) \/ RoleFor(folder[f], u) >= least)

IsProjectMember(u, p) == u \in project[p].members \cup {project[p].owner}

\* What a grant on the enclosing space gives over a project.
InheritedProjectRole(u, p) ==
  IF project[p].space = Absent THEN NoRole ELSE RoleFor(project[p].space, u)

RequireProjectWork(u, p) ==
  /\ project[p] # Absent
  /\ IsAdmin(u) \/ IsProjectMember(u, p) \/ InheritedProjectRole(u, p) >= Member

RequireProjectManage(u, p) ==
  /\ project[p] # Absent
  /\ \/ IsAdmin(u) \/ project[p].owner = u
     \/ GlobalRole[u] = "manager" /\ IsProjectMember(u, p)
     \/ InheritedProjectRole(u, p) >= Admin

RequireTeamManage(u, t) == team[t] # Absent /\ (IsAdmin(u) \/ team[t].lead = u)

LoadGoal(u, g) ==
  goal[g] # Absent /\ (goal[g].space # Absent => RequireSpaceRead(u, goal[g].space))

MayManageGoal(u, g) ==
  /\ LoadGoal(u, g)
  /\ \/ IsAdmin(u) \/ goal[g].owner = u
     \/ goal[g].space # Absent /\ RequireSpaceRole(u, goal[g].space, Admin)

-----------------------------------------------------------------------------
(* Requests: judged first *)

\* r is handled for its caller and has passed its checks; do is what it will
\* write.
Begin(r, do) == asked[r] = Absent /\ asked' = [asked EXCEPT ![r] = do]

History == <<unopened, taken>>
Rows == <<space, grants, folder, team, project, channel, goal, measures, History>>

Fresh(id) == id \notin used /\ used' = used \cup {id}

BeginCreateSpace(r, u, s, private, list) ==
  /\ CanAdministerStructure(u) /\ Fresh(s)
  /\ Begin(r, [kind |-> "createSpace", space |-> s, private |-> private,
               grants |-> [list EXCEPT ![u] = Owner]])
  /\ UNCHANGED Rows

BeginSpace(r, u, s) ==
  /\ \/ /\ RequireSpaceRole(u, s, Admin)
        /\ \/ \E private \in BOOLEAN :
                 Begin(r, [kind |-> "updateSpace", space |-> s, private |-> private])
           \/ \E to \in Users : \E rank \in GivenRoles :
                 Begin(r, [kind |-> "setMember", space |-> s, to |-> to, rank |-> rank])
           \/ \E to \in Users : Begin(r, [kind |-> "removeMember", space |-> s, to |-> to])
     \/ /\ RequireSpaceRole(u, s, Owner)
        /\ Begin(r, [kind |-> "deleteSpace", space |-> s])
  /\ UNCHANGED <<Rows, used>>

BeginFolder(r, u, f) ==
  /\ \/ \E s \in Spaces :
          /\ Fresh(f) /\ RequireSpaceRole(u, s, Member)
          /\ Begin(r, [kind |-> "createFolder", folder |-> f, space |-> s])
     \/ /\ RequireFolderRole(u, f, Admin)
        /\ Begin(r, [kind |-> "deleteFolder", folder |-> f])
        /\ UNCHANGED used
  /\ UNCHANGED Rows

\* Making a team asks for a manager, running it for its lead, and deleting it
\* for an administrator.
BeginTeam(r, u, t) ==
  /\ \/ /\ CanAdministerStructure(u) /\ Fresh(t)
        /\ \E row \in Team : Begin(r, [kind |-> "createTeam", team |-> t, row |-> row])
     \/ /\ RequireTeamManage(u, t)
        /\ \/ \E lead \in Users \cup {Absent} :
                Begin(r, [kind |-> "setLead", team |-> t, lead |-> lead])
           \/ \E members \in SUBSET Users :
                Begin(r, [kind |-> "setTeamMembers", team |-> t, members |-> members])
           \/ \E to \in Users : \E kind \in {"addToTeam", "removeFromTeam"} :
                Begin(r, [kind |-> kind, team |-> t, to |-> to])
        /\ UNCHANGED used
     \/ /\ IsAdmin(u)
        /\ Begin(r, [kind |-> "deleteTeam", team |-> t])
        /\ UNCHANGED used
  /\ UNCHANGED Rows

\* Whoever names no space gets the first that is not archived, or none when
\* there is no such space or looking for it failed.  The folder and the team
\* are taken from the request as they are.
BeginCreateProject(r, u, p, s, f, t, others) ==
  /\ CanAdministerStructure(u) /\ Fresh(p)
  /\ Begin(r, [kind |-> "createProject", project |-> p,
               row |-> [owner |-> u, members |-> others \cup {u}, team |-> t, space |-> s,
                        folder |-> f]])
  /\ UNCHANGED Rows

\* A template knows no space and no team.
BeginApplyTemplate(r, u, p) ==
  /\ CanAdministerStructure(u) /\ Fresh(p)
  /\ Begin(r, [kind |-> "applyTemplate", project |-> p,
               row |-> [owner |-> u, members |-> {u}, team |-> Absent, space |-> Absent,
                        folder |-> Absent]])
  /\ UNCHANGED Rows

BeginProject(r, u, p) ==
  /\ RequireProjectManage(u, p)
  /\ \/ \E others \in SUBSET Users :
          Begin(r, [kind |-> "updateProject", project |-> p,
                    members |-> others \cup {project[p].owner}])
     \/ \E t \in Teams \cup {Absent} :
          Begin(r, [kind |-> "setTeam", project |-> p, team |-> t])
     \/ Begin(r, [kind |-> "deleteProject", project |-> p])
  /\ UNCHANGED <<Rows, used>>

BeginCreateGoal(r, u, g, s, owner) ==
  /\ Fresh(g)
  /\ IF s # Absent THEN RequireSpaceRole(u, s, Member) ELSE CanAdministerStructure(u)
  /\ Begin(r, [kind |-> "createGoal", goal |-> g, row |-> [owner |-> owner, space |-> s]])
  /\ UNCHANGED Rows

BeginGoal(r, u, g) ==
  /\ MayManageGoal(u, g)
  /\ \/ \E owner \in Users : Begin(r, [kind |-> "updateGoal", goal |-> g, owner |-> owner])
     \/ Begin(r, [kind |-> "deleteGoal", goal |-> g])
  /\ UNCHANGED <<Rows, used>>

\* A key result is deleted by its own id; the goal in the address is the one
\* the caller is judged by.
BeginKeyResult(r, u, g) ==
  /\ MayManageGoal(u, g)
  /\ \/ \E p \in Projects : /\ RequireProjectWork(u, p)
                            /\ Begin(r, [kind |-> "addKeyResult", measure |-> <<g, p>>])
     \/ \E m \in measures : Begin(r, [kind |-> "deleteKeyResult", measure |-> m])
  /\ UNCHANGED <<Rows, used>>

-----------------------------------------------------------------------------
(* ... and written after *)

\* r performs what it was allowed, which was of this kind.
Performs(r, kind) == asked[r] # Absent /\ asked[r].kind = kind

Done(r) == asked' = [asked EXCEPT ![r] = Absent] /\ UNCHANGED used

CreateSpace(r) ==
  LET do == asked[r] IN
  /\ Performs(r, "createSpace")
  /\ space' = [space EXCEPT ![do.space] = do.private]
  /\ grants' = [grants EXCEPT ![do.space] = do.grants]
  /\ Done(r) /\ UNCHANGED <<folder, team, project, channel, goal, measures, History>>

UpdateSpace(r) ==
  LET do == asked[r] IN
  /\ Performs(r, "updateSpace") /\ space[do.space] # Absent
  /\ space' = [space EXCEPT ![do.space] = do.private]
  /\ Done(r) /\ UNCHANGED <<grants, folder, team, project, channel, goal, measures, History>>

SetMember(r) ==
  LET do == asked[r] IN
  /\ Performs(r, "setMember") /\ space[do.space] # Absent
  /\ grants' = [grants EXCEPT ![do.space][do.to] = do.rank]
  /\ Done(r) /\ UNCHANGED <<space, folder, team, project, channel, goal, measures, History>>

RemoveMember(r) ==
  LET do == asked[r] IN
  /\ Performs(r, "removeMember")
  /\ grants' = [grants EXCEPT ![do.space][do.to] = NoRole]
  /\ Done(r) /\ UNCHANGED <<space, folder, team, project, channel, goal, measures, History>>

\* ON DELETE SET NULL of a derived key result's project runs into the
\* constraint that it has one: the deletion fails, whatever started it.
Measured(ps) == \E m \in measures : m[2] \in ps

\* What deleting projects takes with it.
Cleared(f, gone) == [p \in Projects |-> IF p \in gone THEN Absent ELSE f[p]]

DeleteSpace(r) ==
  LET s == asked[r].space
      inside == {p \in Projects : project[p] # Absent /\ project[p].space = s}
      goals == {g \in Goals : goal[g] # Absent /\ goal[g].space = s} IN
  /\ Performs(r, "deleteSpace") /\ space[s] # Absent /\ ~Measured(inside)
  /\ space' = [space EXCEPT ![s] = Absent]
  /\ grants' = [grants EXCEPT ![s] = [u \in Users |-> NoRole]]
  /\ folder' = [f \in Folders |-> IF folder[f] = s THEN Absent ELSE folder[f]]
  /\ project' = Cleared(project, inside) /\ channel' = Cleared(channel, inside)
  /\ goal' = [g \in Goals |-> IF g \in goals THEN Absent ELSE goal[g]]
  /\ measures' = {m \in measures : m[1] \notin goals}
  /\ Done(r) /\ UNCHANGED <<team, History>>

CreateFolder(r) ==
  LET do == asked[r] IN
  /\ Performs(r, "createFolder") /\ space[do.space] # Absent
  /\ folder' = [folder EXCEPT ![do.folder] = do.space]
  /\ Done(r) /\ UNCHANGED <<space, grants, team, project, channel, goal, measures, History>>

\* Mutation: the projects go with their folder.
DeleteFolderAndLists(r) ==
  LET f == asked[r].folder
      inside == {p \in Projects : project[p] # Absent /\ project[p].folder = f} IN
  /\ Performs(r, "deleteFolder") /\ folder[f] # Absent
  /\ folder' = [folder EXCEPT ![f] = Absent]
  /\ project' = Cleared(project, inside) /\ channel' = Cleared(channel, inside)
  /\ Done(r) /\ UNCHANGED <<space, grants, team, goal, measures, History>>

\* Its projects fall back to the space.
DeleteFolder(r) ==
  LET f == asked[r].folder IN
  /\ Performs(r, "deleteFolder") /\ folder[f] # Absent
  /\ folder' = [folder EXCEPT ![f] = Absent]
  /\ project' = [p \in Projects |->
                   IF project[p] # Absent /\ project[p].folder = f
                   THEN [project[p] EXCEPT !.folder = Absent] ELSE project[p]]
  /\ Done(r) /\ UNCHANGED <<space, grants, team, channel, goal, measures, History>>

CreateTeam(r) ==
  LET do == asked[r] IN
  /\ Performs(r, "createTeam")
  /\ team' = [team EXCEPT ![do.team] = do.row]
  /\ Done(r) /\ UNCHANGED <<space, grants, folder, project, channel, goal, measures, History>>

UpdateTeam(r) ==
  LET do == asked[r] IN
  /\ \/ /\ Performs(r, "setLead") /\ team[do.team] # Absent
        /\ team' = [team EXCEPT ![do.team].lead = do.lead]
     \/ /\ Performs(r, "setTeamMembers") /\ team[do.team] # Absent
        /\ team' = [team EXCEPT ![do.team].members = do.members]
  /\ Done(r) /\ UNCHANGED <<space, grants, folder, project, channel, goal, measures, History>>

AddTeamMember(r) ==
  LET do == asked[r] IN
  /\ Performs(r, "addToTeam") /\ team[do.team] # Absent
  /\ team' = [team EXCEPT ![do.team].members = @ \cup {do.to}]
  /\ Done(r) /\ UNCHANGED <<space, grants, folder, project, channel, goal, measures, History>>

RemoveTeamMember(r) ==
  LET do == asked[r] IN
  /\ Performs(r, "removeFromTeam") /\ team[do.team] # Absent
  /\ team' = [team EXCEPT ![do.team].members = @ \ {do.to}]
  /\ Done(r) /\ UNCHANGED <<space, grants, folder, project, channel, goal, measures, History>>

\* The team's projects go on without one.  The channel of a project created
\* for the team goes, with every message in it, wherever the project is now.
DeleteTeam(r) ==
  LET t == asked[r].team
      its == {p \in Projects : channel[p] # Absent /\ channel[p].team = t} IN
  /\ Performs(r, "deleteTeam") /\ team[t] # Absent
  /\ team' = [team EXCEPT ![t] = Absent]
  /\ project' = [p \in Projects |->
                   IF project[p] # Absent /\ project[p].team = t
                   THEN [project[p] EXCEPT !.team = Absent] ELSE project[p]]
  /\ channel' = Cleared(channel, its)
  /\ taken' = taken \cup (its \X {t})
  /\ Done(r) /\ UNCHANGED <<space, grants, folder, goal, measures, unopened>>

\* Mutation: the folder has only to exist.
FolderExists(row) == row.folder # Absent => folder[row.folder] # Absent

\* The trigger on projects: a folder must be in the space the project is in.
FolderMatchesSpace(row) ==
  row.folder # Absent => folder[row.folder] # Absent /\ folder[row.folder] = row.space

\* The project, its members and its columns are one transaction; the chat
\* channel is another, with the members and the team of then.
CreateProject(r) ==
  LET do == asked[r] IN
  /\ Performs(r, "createProject")
  /\ do.row.space # Absent => space[do.row.space] # Absent
  /\ do.row.team # Absent => team[do.row.team] # Absent
  /\ FolderMatchesSpace(do.row)
  /\ project' = [project EXCEPT ![do.project] = do.row]
  /\ asked' = [asked EXCEPT ![r] = [kind |-> "openChannel", project |-> do.project,
                                    row |-> [members |-> do.row.members, team |-> do.row.team]]]
  /\ UNCHANGED <<space, grants, folder, team, channel, goal, measures, used, History>>

\* A project made from a template gets its tasks, and no chat channel.
ApplyTemplate(r) ==
  LET do == asked[r] IN
  /\ Performs(r, "applyTemplate")
  /\ project' = [project EXCEPT ![do.project] = do.row]
  /\ unopened' = unopened \cup {do.project}
  /\ Done(r) /\ UNCHANGED <<space, grants, folder, team, channel, goal, measures, taken>>

OpenChannel(r) ==
  LET do == asked[r] IN
  /\ Performs(r, "openChannel") /\ project[do.project] # Absent
  /\ do.row.team # Absent => team[do.row.team] # Absent
  /\ channel' = [channel EXCEPT ![do.project] = do.row]
  /\ Done(r) /\ UNCHANGED <<space, grants, folder, team, project, goal, measures, History>>

\* Members are replaced; the channel keeps the ones it was created with, and
\* its team.
UpdateProject(r) ==
  LET do == asked[r] IN
  /\ Performs(r, "updateProject") /\ project[do.project] # Absent
  /\ project' = [project EXCEPT ![do.project].members = do.members]
  /\ Done(r) /\ UNCHANGED <<space, grants, folder, team, channel, goal, measures, History>>

SetTeam(r) ==
  LET do == asked[r] IN
  /\ Performs(r, "setTeam") /\ project[do.project] # Absent
  /\ do.team # Absent => team[do.team] # Absent
  /\ project' = [project EXCEPT ![do.project].team = do.team]
  /\ Done(r) /\ UNCHANGED <<space, grants, folder, team, channel, goal, measures, History>>

DeleteProject(r) ==
  LET p == asked[r].project IN
  /\ Performs(r, "deleteProject") /\ project[p] # Absent /\ ~Measured({p})
  /\ project' = Cleared(project, {p}) /\ channel' = Cleared(channel, {p})
  /\ Done(r) /\ UNCHANGED <<space, grants, folder, team, goal, measures, History>>

CreateGoal(r) ==
  LET do == asked[r] IN
  /\ Performs(r, "createGoal")
  /\ do.row.space # Absent => space[do.row.space] # Absent
  /\ goal' = [goal EXCEPT ![do.goal] = do.row]
  /\ Done(r) /\ UNCHANGED <<space, grants, folder, team, project, channel, measures, History>>

UpdateGoal(r) ==
  LET do == asked[r] IN
  /\ Performs(r, "updateGoal") /\ goal[do.goal] # Absent
  /\ goal' = [goal EXCEPT ![do.goal].owner = do.owner]
  /\ Done(r) /\ UNCHANGED <<space, grants, folder, team, project, channel, measures, History>>

DeleteGoal(r) ==
  LET do == asked[r] IN
  /\ Performs(r, "deleteGoal") /\ goal[do.goal] # Absent
  /\ goal' = [goal EXCEPT ![do.goal] = Absent]
  /\ measures' = {m \in measures : m[1] # do.goal}
  /\ Done(r) /\ UNCHANGED <<space, grants, folder, team, project, channel, History>>

AddKeyResult(r) ==
  LET m == asked[r].measure IN
  /\ Performs(r, "addKeyResult") /\ goal[m[1]] # Absent /\ project[m[2]] # Absent
  /\ measures' = measures \cup {m}
  /\ Done(r) /\ UNCHANGED <<space, grants, folder, team, project, channel, goal, History>>

DeleteKeyResult(r) ==
  /\ Performs(r, "deleteKeyResult") /\ measures' = measures \ {asked[r].measure}
  /\ Done(r) /\ UNCHANGED <<space, grants, folder, team, project, channel, goal, History>>

\* A statement fails, its target has gone, a constraint refuses it, the
\* client hangs up or the process dies.
Fail(r) ==
  /\ asked[r] # Absent /\ Done(r)
  /\ unopened' = unopened \cup {p \in Projects : Performs(r, "openChannel") /\ asked[r].project = p}
  /\ UNCHANGED <<space, grants, folder, team, project, channel, goal, measures, taken>>

Write(r) ==
  \/ CreateSpace(r) \/ UpdateSpace(r) \/ DeleteSpace(r) \/ SetMember(r) \/ RemoveMember(r)
  \/ CreateFolder(r) \/ DeleteFolder(r)
  \/ CreateTeam(r) \/ UpdateTeam(r) \/ AddTeamMember(r) \/ RemoveTeamMember(r) \/ DeleteTeam(r)
  \/ CreateProject(r) \/ ApplyTemplate(r) \/ OpenChannel(r) \/ UpdateProject(r) \/ SetTeam(r) \/ DeleteProject(r)
  \/ CreateGoal(r) \/ UpdateGoal(r) \/ DeleteGoal(r) \/ AddKeyResult(r) \/ DeleteKeyResult(r)
  \/ Fail(r)

Ask(r, u) ==
  \/ \E s \in Spaces :
       \/ \E private \in BOOLEAN : \E list \in GrantLists : BeginCreateSpace(r, u, s, private, list)
       \/ BeginSpace(r, u, s)
  \/ \E f \in Folders : BeginFolder(r, u, f)
  \/ \E t \in Teams : BeginTeam(r, u, t)
  \/ \E p \in Projects :
       \/ \E s \in Spaces \cup {Absent} : \E f \in Folders \cup {Absent} :
            \E t \in Teams \cup {Absent} : \E others \in SUBSET Users :
              BeginCreateProject(r, u, p, s, f, t, others)
       \/ BeginApplyTemplate(r, u, p) \/ BeginProject(r, u, p)
  \/ \E g \in Goals :
       \/ \E s \in Spaces \cup {Absent} : \E owner \in Users : BeginCreateGoal(r, u, g, s, owner)
       \/ BeginGoal(r, u, g) \/ BeginKeyResult(r, u, g)

StructureNext == \E r \in Requests : Write(r) \/ \E u \in Users : Ask(r, u)

StructureSpec == StructureInit /\ [][StructureNext]_structureVars

-----------------------------------------------------------------------------
(* Properties *)

\* Rows have their shape, and nothing is held on a space that is not there.
StructureTypeOK ==
  /\ space \in [Spaces -> BOOLEAN \cup {Absent}]
  /\ grants \in [Spaces -> [Users -> NoRole..Owner]]
  /\ folder \in [Folders -> Spaces \cup {Absent}]
  /\ project \in [Projects -> Project \cup {Absent}]
  /\ team \in [Teams -> Team \cup {Absent}] /\ taken \subseteq Projects \X Teams
  /\ channel \in [Projects -> Channel \cup {Absent}]
  /\ goal \in [Goals -> Goal \cup {Absent}]
  /\ measures \subseteq Goals \X Projects /\ unopened \subseteq Projects
  /\ \A s \in Spaces : space[s] = Absent => \A u \in Users : grants[s][u] = NoRole

FolderInSpace(row) ==
  /\ row.space # Absent => space[row.space] # Absent
  /\ row.folder # Absent => folder[row.folder] # Absent /\ folder[row.folder] = row.space

RefersToWhatIsThere ==
  /\ \A p \in Projects : project[p] # Absent =>
       FolderInSpace(project[p]) /\ (project[p].team # Absent => team[project[p].team] # Absent)
  /\ \A x \in measures : goal[x[1]] # Absent /\ project[x[2]] # Absent

HasChannel(p) ==
  \/ channel[p] # Absent \/ p \in unopened
  \/ \E t \in Teams : <<p, t>> \in taken
  \/ \E r \in Requests : Performs(r, "openChannel") /\ asked[r].project = p

\* Work hangs together.  A project is in the folder of no space but its own,
\* although the folder is the request's and is read before it is used
\* (0003_search_and_hierarchy.sql:96-113); a key result taken from tasks keeps
\* the project it reads, however goals, projects and spaces are deleted
\* meanwhile (0006_enterprise.sql:46-52); and a project has its chat channel,
\* unless the request that created it failed or died between the two
\* transactions (handlers/project_handler.go:183-203), a template created it
\* (handlers/template_handler.go:266-282), or the team it was created for was
\* deleted (0001_init.sql:180).
WorkHangsTogether ==
  RefersToWhatIsThere /\ \A p \in Projects : project[p] # Absent => HasChannel(p)

\* Work is deleted only by whoever was allowed to delete it or its space:
\* losing a folder, a team, a goal or a grant never takes a project with it
\* (handlers/space_handler.go:381).
WorkIsDeletedOnPurpose ==
  [][\A p \in Projects : project[p] # Absent /\ project'[p] = Absent =>
       \E r \in Requests :
         \/ Performs(r, "deleteProject") /\ asked[r].project = p
         \/ Performs(r, "deleteSpace") /\ asked[r].space = project[p].space]_structureVars
=============================================================================

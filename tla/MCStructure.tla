------------------------------ MODULE MCStructure ------------------------------
(* Five components that share no state, checked side by side: which one runs *)
(* is chosen at the start, and the others stay as they begin.  The structure *)
(* runs three times, its projects with spaces and folders, with spaces and   *)
(* goals, and with teams: folders, goals and teams meet only in projects and *)
(* in the deletion of a space.                                               *)
EXTENDS Structure, Planning, Tracking, Settings, Schema, TLC

CONSTANTS adm, mgr, t1, t2, t3, t4, cron, prune, days, secret, v1, v2

VARIABLE part

vars == <<structureVars, planningVars, trackingVars, settingsVars, schemaVars, part>>

Roles == adm :> "admin" @@ mgr :> "manager"
NoGrants == { [x \in Users |-> 0] }

SubTasks == t1 :> NoTask @@ t2 :> NoTask @@ t3 :> NoTask @@ t4 :> t1
Days == t1 :> 1 @@ t2 :> 3 @@ t3 :> 2 @@ t4 :> 9

Kinds == cron :> "text" @@ prune :> "text" @@ days :> "number" @@ secret :> "secret"
Crons == [alerts |-> cron, retention |-> prune]
\* v1 is no positive number: nothing is purged by default.
Environment == [k \in Keys |-> v1]
Asked == LET nothing == [k \in Keys |-> Keep] IN
  { [nothing EXCEPT ![cron] = v2, ![days] = v2],
    [nothing EXCEPT ![cron] = Blank, ![secret] = v2],
    [nothing EXCEPT ![days] = v2, ![prune] = v2, ![secret] = Blank],
    [nothing EXCEPT ![days] = Blank, ![cron] = Clear],
    [nothing EXCEPT ![days] = Clear, ![prune] = Blank] }

SpaceKinds == {"createSpace", "deleteSpace"}
GrantKinds == {"setMember", "removeMember"}
FolderKinds == {"createFolder", "deleteFolder"}
TeamKinds == {"createTeam", "setLead", "setTeamMembers", "addToTeam", "removeFromTeam",
              "deleteTeam", "setTeam"}
ProjectKinds == {"createProject", "applyTemplate", "openChannel", "deleteProject"}
GoalKinds == {"createGoal", "updateGoal", "deleteGoal", "addKeyResult", "deleteKeyResult"}
Updates == {"updateSpace", "updateProject"}
Only(kinds) == \A r \in Requests : asked'[r] # Absent => asked'[r].kind \in kinds

\* Where there is never a folder, or a team, no project is asked for in one:
\* the insertion could only fail.
Without(column) ==
  \A r \in Requests : asked'[r] # Absent /\ asked'[r].kind = "createProject" =>
    asked'[r].row[column] = Absent

Init ==
  /\ part \in {"folders", "goals", "teams", "planning", "tracking", "settings", "schema"}
  /\ StructureInit /\ PlanningInit /\ TrackingInit /\ SettingsInit /\ SchemaInit
  /\ part # "planning" => present = {}

Next ==
  \/ /\ \/ part = "folders" /\ StructureNext /\ Without("team")
           /\ Only(ProjectKinds \cup Updates \cup SpaceKinds \cup GrantKinds \cup FolderKinds)
        \/ part = "goals" /\ StructureNext /\ Only(ProjectKinds \cup SpaceKinds \cup GoalKinds)
           /\ Without("team") /\ Without("folder")
        \/ part = "teams" /\ StructureNext /\ Only(ProjectKinds \cup Updates \cup TeamKinds)
           /\ Without("folder")
     /\ UNCHANGED <<planningVars, trackingVars, settingsVars, schemaVars, part>>
  \/ /\ part = "planning" /\ PlanningNext
     /\ UNCHANGED <<structureVars, trackingVars, settingsVars, schemaVars, part>>
  \/ /\ part = "tracking" /\ TrackingNext
     /\ UNCHANGED <<structureVars, planningVars, settingsVars, schemaVars, part>>
  \/ /\ part = "settings" /\ SettingsNext
     /\ UNCHANGED <<structureVars, planningVars, trackingVars, schemaVars, part>>
  \/ /\ part = "schema" /\ SchemaNext
     /\ UNCHANGED <<structureVars, planningVars, trackingVars, settingsVars, part>>

Spec == Init /\ [][Next]_vars

Alike == Permutations(Requests)
=============================================================================

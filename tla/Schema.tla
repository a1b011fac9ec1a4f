------------------------------- MODULE Schema -------------------------------
(* The migrations every server applies when it starts: the versions already  *)
(* applied are read once, then each file that is missing runs in a           *)
(* transaction of its own with the row that says so.  No lock keeps two      *)
(* servers from starting together; the second row of a version fails.        *)
EXTENDS Naturals, Sequences, FiniteSets

CONSTANTS Starters,      \* servers that start
          Migrations,    \* files, 1..Migrations in their order
          MaxStarts      \* bound: starts of each server

ASSUME SchemaAssumption == Migrations \in Nat /\ MaxStarts \in Nat

VARIABLES
  run,       \* the scripts whose effect is in the database, in order
  versions,  \* schema_migrations
  starter,   \* server -> where it is
  starts     \* server -> its starts so far

schemaVars == <<run, versions, starter, starts>>

Down == [at |-> 0, applied |-> {}]

SchemaInit ==
  /\ run = <<>> /\ versions = {}
  /\ starter = [s \in Starters |-> Down] /\ starts = [s \in Starters |-> 0]

Up(s) == starter[s].at > Migrations

ReadVersions(s) ==
  /\ starter[s] = Down /\ starts[s] < MaxStarts
  /\ starter' = [starter EXCEPT ![s] = [at |-> 1, applied |-> versions]]
  /\ starts' = [starts EXCEPT ![s] = @ + 1] /\ UNCHANGED <<run, versions>>

Migrating(s) == starter[s].at \in 1..Migrations
Next1(s) == starter' = [starter EXCEPT ![s].at = @ + 1]

SkipApplied(s) ==
  /\ Migrating(s) /\ starter[s].at \in starter[s].applied
  /\ Next1(s) /\ UNCHANGED <<run, versions, starts>>

\* Mutation: the script commits, and the row is written after it.
ScriptThenRow(s) ==
  LET v == starter[s].at IN
  /\ Migrating(s) /\ v \notin starter[s].applied /\ v \notin versions
  /\ run' = Append(run, v)
  /\ \/ versions' = versions \cup {v} /\ Next1(s)
     \/ versions' = versions /\ starter' = [starter EXCEPT ![s] = Down]
  /\ UNCHANGED starts

\* The script and the row of the version, in one transaction: where another
\* server has the row by now, neither stays.
ApplyMigration(s) ==
  LET v == starter[s].at IN
  /\ Migrating(s) /\ v \notin starter[s].applied /\ v \notin versions
  /\ run' = Append(run, v) /\ versions' = versions \cup {v}
  /\ Next1(s) /\ UNCHANGED starts

\* The transaction fails, the row is there already, or the process dies: it is
\* started again by whoever keeps it up.
StartFails(s) ==
  /\ Migrating(s) /\ starter' = [starter EXCEPT ![s] = Down]
  /\ UNCHANGED <<run, versions, starts>>

SchemaNext ==
  \E s \in Starters : ReadVersions(s) \/ SkipApplied(s) \/ ApplyMigration(s) \/ StartFails(s)

SchemaSpec == SchemaInit /\ [][SchemaNext]_schemaVars

-----------------------------------------------------------------------------
(* Properties *)

\* However many servers start together, and fail and start again, every script
\* has run once, in order and as schema_migrations says, and a server that is
\* up has them all (db/db.go:111-181).
MigratedInOrder ==
  /\ \A i \in DOMAIN run : run[i] = i
  /\ versions = {run[i] : i \in DOMAIN run}
  /\ \A s \in Starters : Up(s) => Len(run) = Migrations
=============================================================================

--------------------------- MODULE StructureProofs ---------------------------
(***************************************************************************)
(* What holds of the components of MCStructure for any number of servers,  *)
(* requests, rows, people, tasks and saves: migrations run once and in     *)
(* order, edges added one at a time close no cycle and the critical path   *)
(* is the heaviest there is, no hour is counted twice and every listed     *)
(* recording has its bytes, what is saved is in force, and work hangs      *)
(* together and is deleted on purpose alone.  The five share no variable;  *)
(* each has an inductive invariant of its own.                             *)
(***************************************************************************)
EXTENDS Structure, Planning, Tracking, Settings, Schema, FiniteSetTheorems, WellFoundedInduction, TLAPS

-----------------------------------------------------------------------------
(* Migrations: the versions are those of the scripts that ran, and a server *)
(* is past no version that is not applied.                                  *)

SchemaTypeOK ==
  /\ run \in Seq(Nat) /\ versions \in SUBSET Nat
  /\ starter \in [Starters -> [at : 0 .. Migrations + 1, applied : SUBSET Nat]]
  /\ starts \in [Starters -> Nat]

RunInOrder ==
  /\ \A i \in 1..Len(run) : run[i] = i
  /\ versions = 1..Len(run) /\ Len(run) <= Migrations

PastIsApplied ==
  \A s \in Starters : starter[s].applied \subseteq versions /\ 1 .. starter[s].at - 1 \subseteq versions

SchemaInv == SchemaTypeOK /\ RunInOrder /\ PastIsApplied

LEMMA SchemaBegins == SchemaInit => SchemaInv
  BY SchemaAssumption DEF SchemaInit, SchemaInv, SchemaTypeOK, RunInOrder, PastIsApplied, Down

\* A server that goes on to x, which is past nothing unapplied.
LEMMA StarterGoesOn ==
  ASSUME SchemaTypeOK, PastIsApplied, NEW s \in Starters,
         NEW x \in [at : 0 .. Migrations + 1, applied : SUBSET Nat],
         starter' = [starter EXCEPT ![s] = x], versions \subseteq versions',
         x.applied \subseteq versions', 1 .. x.at - 1 \subseteq versions'
  PROVE  /\ starter' \in [Starters -> [at : 0 .. Migrations + 1, applied : SUBSET Nat]]
         /\ PastIsApplied'
  <1>1. /\ starter' \in [Starters -> [at : 0 .. Migrations + 1, applied : SUBSET Nat]]
        /\ starter'[s] = x /\ \A r \in Starters \ {s} : starter'[r] = starter[r]
    BY DEF SchemaTypeOK
  <1>2. ASSUME NEW r \in Starters
        PROVE  starter'[r].applied \subseteq versions' /\ 1 .. starter'[r].at - 1 \subseteq versions'
    <2>1. CASE r = s
      BY <1>1, <2>1
    <2>2. CASE r # s
      BY <1>1, <2>2 DEF PastIsApplied
    <2> QED BY <2>1, <2>2
  <1> QED BY <1>1, <1>2 DEF PastIsApplied

LEMMA DownIsDown ==
  /\ Down \in [at : 0 .. Migrations + 1, applied : SUBSET Nat]
  /\ Down.applied = {} /\ 1 .. Down.at - 1 = {}
  BY SchemaAssumption DEF Down

LEMMA SchemaStepKeeps ==
  ASSUME SchemaInv, [SchemaNext]_schemaVars
  PROVE  SchemaInv'
  <1> USE DEF SchemaInv
  <1>1. CASE UNCHANGED schemaVars
    BY <1>1 DEF schemaVars, SchemaTypeOK, RunInOrder, PastIsApplied
  <1>2. ASSUME NEW s \in Starters, ReadVersions(s)
        PROVE  SchemaInv'
    <2> DEFINE x == [at |-> 1, applied |-> versions]
    <2>1. x \in [at : 0 .. Migrations + 1, applied : SUBSET Nat] /\ x.applied = versions /\ x.at = 1
      BY SchemaAssumption DEF SchemaTypeOK
    <2>2. starter' = [starter EXCEPT ![s] = x] /\ UNCHANGED <<run, versions>>
      BY <1>2 DEF ReadVersions
    <2>3. starts' \in [Starters -> Nat]
      BY <1>2 DEF ReadVersions, SchemaTypeOK
    <2> HIDE DEF x
    <2>4. 1 .. x.at - 1 = {}
      BY <2>1
    <2> QED BY <2>1, <2>2, <2>3, <2>4, StarterGoesOn DEF SchemaTypeOK, RunInOrder
  <1>3. ASSUME NEW s \in Starters, Migrating(s), starter[s].at \in versions', Next1(s),
               versions \subseteq versions'
        PROVE  /\ starter' \in [Starters -> [at : 0 .. Migrations + 1, applied : SUBSET Nat]]
               /\ PastIsApplied'
    <2> DEFINE y == starter[s]
               x == [y EXCEPT !.at = y.at + 1]
    <2>1. y \in [at : 0 .. Migrations + 1, applied : SUBSET Nat] /\ y.at \in 1..Migrations
      BY <1>3 DEF SchemaTypeOK, Migrating
    <2>2. starter' = [starter EXCEPT ![s] = x]
      BY <1>3 DEF Next1
    <2>3. y.applied \subseteq versions' /\ 1 .. y.at - 1 \subseteq versions' /\ y.at \in versions'
      BY <1>3 DEF PastIsApplied
    <2> HIDE DEF y
    <2>4. /\ x \in [at : 0 .. Migrations + 1, applied : SUBSET Nat]
          /\ x.applied = y.applied /\ x.at = y.at + 1
      BY <2>1, SchemaAssumption
    <2> HIDE DEF x
    <2>5. 1 .. x.at - 1 \subseteq versions'
      BY <2>1, <2>3, <2>4, SchemaAssumption
    <2> QED BY <1>3, <2>2, <2>3, <2>4, <2>5, StarterGoesOn
  <1>4. ASSUME NEW s \in Starters, SkipApplied(s)
        PROVE  SchemaInv'
    <2>1. Migrating(s) /\ Next1(s) /\ UNCHANGED <<run, versions, starts>>
      BY <1>4 DEF SkipApplied
    <2>2. starter[s].at \in versions'
      BY <1>4, <2>1 DEF SkipApplied, PastIsApplied
    <2> QED BY <1>3, <2>1, <2>2 DEF SchemaTypeOK, RunInOrder
  <1>5. ASSUME NEW s \in Starters, ApplyMigration(s)
        PROVE  SchemaInv'
    <2> DEFINE v == starter[s].at
    <2>1. /\ v \in 1..Migrations /\ v \notin versions /\ run' = Append(run, v)
          /\ versions' = versions \cup {v} /\ Next1(s) /\ Migrating(s) /\ starts' = starts
      BY <1>5 DEF ApplyMigration, Migrating
    <2>2. 1 .. v - 1 \subseteq versions
      BY DEF PastIsApplied
    <2> HIDE DEF v
    <2>3. v = Len(run) + 1
      BY <2>1, <2>2, SchemaAssumption DEF RunInOrder, SchemaTypeOK
    <2>4. RunInOrder'
      BY <2>1, <2>3, SchemaAssumption DEF RunInOrder, SchemaTypeOK
    <2>5. run' \in Seq(Nat) /\ versions' \in SUBSET Nat
      BY <2>1, SchemaAssumption DEF SchemaTypeOK
    <2> USE DEF v
    <2>6. starter[s].at \in versions' /\ versions \subseteq versions'
      BY <2>1
    <2> QED BY <1>3, <2>1, <2>4, <2>5, <2>6 DEF SchemaTypeOK
  <1>6. ASSUME NEW s \in Starters, StartFails(s)
        PROVE  SchemaInv'
    <2>1. starter' = [starter EXCEPT ![s] = Down] /\ UNCHANGED <<run, versions, starts>>
      BY <1>6 DEF StartFails
    <2> QED BY <2>1, DownIsDown, StarterGoesOn DEF SchemaTypeOK, RunInOrder
  <1> QED BY <1>1, <1>2, <1>4, <1>5, <1>6 DEF SchemaNext

\* However many servers start together, and fail and start again, every script
\* has run once and in order, and a server that is up has them all.
THEOREM SchemaIsMigratedInOrder == SchemaSpec => []MigratedInOrder
  <1>1. SchemaInv => MigratedInOrder
    <2> SUFFICES ASSUME SchemaInv PROVE MigratedInOrder
      OBVIOUS
    <2>1. DOMAIN run = 1..Len(run) /\ Len(run) \in Nat
      BY DEF SchemaInv, SchemaTypeOK
    <2>2. versions = {run[i] : i \in DOMAIN run}
      BY <2>1 DEF SchemaInv, RunInOrder
    <2>3. ASSUME NEW s \in Starters, Up(s) PROVE Len(run) = Migrations
      <3>1. Migrations \in 1 .. starter[s].at - 1 \/ Migrations = 0
        BY <2>3, SchemaAssumption DEF Up, SchemaInv, SchemaTypeOK
      <3>2. Migrations \in 1..Len(run) \/ Migrations = 0
        BY <3>1 DEF SchemaInv, RunInOrder, PastIsApplied
      <3>3. Len(run) <= Migrations
        BY DEF SchemaInv, RunInOrder
      <3> DEFINE n == Len(run)
      <3>4. n \in Nat /\ n <= Migrations /\ (Migrations \in 1..n \/ Migrations = 0)
        BY <2>1, <3>2, <3>3
      <3>5. Migrations \in Nat
        BY SchemaAssumption
      <3> HIDE DEF n
      <3>6. n = Migrations
        BY <3>4, <3>5
      <3> QED BY <3>6 DEF n
    <2> QED BY <2>1, <2>2, <2>3 DEF SchemaInv, RunInOrder, MigratedInOrder
  <1>2. SchemaInit => SchemaInv
    BY SchemaBegins
  <1>3. SchemaInv /\ [SchemaNext]_schemaVars => SchemaInv'
    BY SchemaStepKeeps
  <1> QED BY <1>1, <1>2, <1>3, PTL DEF SchemaSpec

-----------------------------------------------------------------------------
(* Dependencies: what a task depends on is the least set that is closed     *)
(* under the edges, so a set that is closed and leaves a task out shows     *)
(* that it is not waited for.                                               *)

Edge == Tasks \X Tasks

Closed(E, S) == \A e \in E : e[1] \in S => e[2] \in S

\* A closed set with the task in it holds all the task depends on.
LEMMA ChainIsLeast ==
  ASSUME NEW E, NEW t, NEW S \in SUBSET Tasks, t \in S, Closed(E, S)
  PROVE  Chain(E, t) \subseteq S
  BY DEF Chain, Closed

\* What a task depends on is closed, and has the task itself in it.
LEMMA ChainIsClosed ==
  ASSUME NEW E \in SUBSET Edge, NEW t \in Tasks
  PROVE  t \in Chain(E, t) /\ Closed(E, Chain(E, t)) /\ Chain(E, t) \in SUBSET Tasks
  <1>1. t \in Chain(E, t) /\ Chain(E, t) \in SUBSET Tasks
    BY DEF Chain
  <1>2. ASSUME NEW e \in E, e[1] \in Chain(E, t) PROVE e[2] \in Chain(E, t)
    <2>1. e[2] \in Tasks
      BY DEF Edge
    <2>2. ASSUME NEW S \in SUBSET Tasks, t \in S, \A d \in E : d[1] \in S => d[2] \in S
          PROVE  e[2] \in S
      BY <1>2, <2>2 DEF Chain
    <2> QED BY <2>1, <2>2 DEF Chain
  <1> QED BY <1>1, <1>2 DEF Closed

\* With fewer edges a task depends on no more.
LEMMA ChainGrows ==
  ASSUME NEW E \in SUBSET Edge, NEW D \in SUBSET E, NEW t \in Tasks
  PROVE  Chain(D, t) \subseteq Chain(E, t)
  BY ChainIsClosed, ChainIsLeast DEF Closed

LEMMA FewerHaveNoLoop ==
  ASSUME NEW E \in SUBSET Edge, NEW D \in SUBSET E, NoLoop(E)
  PROVE  NoLoop(D)
  <1> SUFFICES ASSUME NEW e \in D PROVE e[1] \notin Chain(D, e[2])
    BY DEF NoLoop
  <1>1. e[2] \in Tasks /\ e[1] \notin Chain(E, e[2])
    BY DEF NoLoop, Edge
  <1> QED BY <1>1, ChainGrows

\* An edge whose blocker does not wait for the blocked closes no loop.
LEMMA OneMoreHasNoLoop ==
  ASSUME NEW E \in SUBSET Edge, NoLoop(E),
         NEW t \in Tasks, NEW b \in Tasks, t \notin Chain(E, b)
  PROVE  NoLoop(E \cup {<<t, b>>})
  <1> DEFINE F == E \cup {<<t, b>>}
  <1>1. /\ Closed(E, Chain(E, b)) /\ b \in Chain(E, b) /\ Chain(E, b) \in SUBSET Tasks
    BY ChainIsClosed
  <1>2. Closed(F, Chain(E, b))
    BY <1>1 DEF Closed
  <1>3. t \notin Chain(F, b)
    BY <1>1, <1>2, ChainIsLeast
  <1>4. ASSUME NEW e \in E PROVE e[1] \notin Chain(F, e[2])
    <2> DEFINE C == Chain(E, e[2])
    <2>1. e[2] \in Tasks /\ e[1] \in Tasks /\ e[1] \notin C
      BY DEF NoLoop, Edge
    <2>2. Closed(E, C) /\ e[2] \in C /\ C \in SUBSET Tasks
      BY <2>1, ChainIsClosed
    <2>3. CASE t \notin C
      <3>1. Closed(F, C)
        BY <2>2, <2>3 DEF Closed
      <3> QED BY <2>1, <2>2, <3>1, ChainIsLeast
    <2>4. CASE t \in C
      <3>1. Closed(F, C \cup Chain(E, b))
        BY <1>1, <2>2 DEF Closed
      <3>2. Chain(F, e[2]) \subseteq C \cup Chain(E, b)
        BY <1>1, <2>2, <3>1, ChainIsLeast
      <3>3. e[1] \notin Chain(E, b)
        <4> SUFFICES ASSUME e[1] \in Chain(E, b) PROVE FALSE
          OBVIOUS
        <4>1. e[2] \in Chain(E, b)
          BY <1>1 DEF Closed
        <4>2. C \subseteq Chain(E, b)
          BY <1>1, <4>1, ChainIsLeast
        <4> QED BY <2>4, <4>2
      <3> QED BY <2>1, <3>2, <3>3
    <2> QED BY <2>3, <2>4
  <1> HIDE DEF F
  <1>5. ASSUME NEW e \in F PROVE e[1] \notin Chain(F, e[2])
    <2>1. CASE e \in E
      BY <1>4, <2>1
    <2>2. CASE e = <<t, b>>
      BY <1>3, <2>2
    <2> QED BY <2>1, <2>2 DEF F
  <1>6. NoLoop(F)
    BY <1>5 DEF NoLoop
  <1> QED BY <1>6 DEF F

\* An insertion under way alone closes no loop yet.
Insertion == [edge : Edge, alone : BOOLEAN]

PlanningTypeOK ==
  /\ edges \in SUBSET Edge
  /\ adding \in [Adders -> Insertion \cup {NoTask}]

AloneIsSafe ==
  \A a \in Pending : adding[a].alone =>
    Pending = {a} /\ adding[a].edge[1] \notin Chain(edges, adding[a].edge[2])

PlanningInv == PlanningTypeOK /\ AloneIsSafe /\ Acyclic

LEMMA PlanningBegins == PlanningInit => PlanningInv
  BY DEF PlanningInit, PlanningInv, PlanningTypeOK, AloneIsSafe, Acyclic, NoLoop, Pending

\* Where edges only go, and those that raced with them, nothing closes a loop.
LEMMA EdgesGo ==
  ASSUME PlanningInv, edges' \subseteq edges, edges' \ raced' \subseteq edges \ raced,
         adding' = adding \/ \E a \in Adders : adding' = [adding EXCEPT ![a] = NoTask]
  PROVE  PlanningInv'
  <1>1. PlanningTypeOK'
    BY DEF PlanningInv, PlanningTypeOK
  <1>2. Acyclic'
    <2>1. NoLoop(edges' \ raced')
      BY FewerHaveNoLoop DEF PlanningInv, PlanningTypeOK, Acyclic
    <2> QED BY <2>1 DEF Acyclic, NoLoop, Chain
  <1>3. \A a \in Pending' : a \in Pending /\ adding'[a] = adding[a]
    BY DEF Pending, PlanningInv, PlanningTypeOK
  <1>4. ASSUME NEW a \in Pending', adding'[a].alone
        PROVE  Pending' = {a} /\ adding'[a].edge[1] \notin Chain(edges', adding'[a].edge[2])
    <2>1. a \in Pending /\ adding[a] = adding'[a] /\ Pending' \subseteq Pending
      BY <1>3
    <2>2. Pending = {a} /\ adding[a].edge[1] \notin Chain(edges, adding[a].edge[2])
      BY <1>4, <2>1 DEF PlanningInv, AloneIsSafe
    <2>3. adding[a].edge[2] \in Tasks
      BY <2>1 DEF PlanningInv, PlanningTypeOK, Pending, Insertion, Edge
    <2>4. Chain(edges', adding[a].edge[2]) \subseteq Chain(edges, adding[a].edge[2])
      BY <2>3, ChainGrows DEF PlanningInv, PlanningTypeOK
    <2> QED BY <2>1, <2>2, <2>4
  <1>5. AloneIsSafe'
    BY <1>4 DEF AloneIsSafe, Chain
  <1> QED BY <1>1, <1>2, <1>5 DEF PlanningInv

LEMMA CheckDependencyKeeps ==
  ASSUME PlanningInv, NEW a \in Adders, NEW t \in Tasks, NEW b \in Tasks, CheckDependency(a, t, b)
  PROVE  PlanningInv'
  <1> DEFINE do == [edge |-> <<t, b>>, alone |-> Pending = {}]
  <1>0. adding \in [Adders -> Insertion \cup {NoTask}] /\ edges \in SUBSET Edge
    BY DEF PlanningInv, PlanningTypeOK
  <1>1. UNCHANGED <<edges, raced>> /\ t \notin Chain(edges, b)
    BY DEF CheckDependency, ClosesLoop
  <1>2. do \in Insertion /\ do.edge = <<t, b>> /\ (do.alone <=> Pending = {})
    BY DEF Insertion, Edge
  <1>3. /\ DOMAIN adding' = Adders /\ adding' = [x \in Adders |-> adding'[x]]
        /\ adding'[a] = do /\ adding[a] = NoTask
        /\ \A x \in Adders \ {a} :
             adding'[x] = IF x \in Pending THEN [adding[x] EXCEPT !.alone = FALSE] ELSE NoTask
    BY DEF CheckDependency
  <1> HIDE DEF do
  <1>4. ASSUME NEW x \in Pending
        PROVE  /\ x \in Adders \ {a} /\ adding'[x] \in Insertion /\ ~adding'[x].alone
    <2>1. x \in Adders \ {a} /\ adding[x] \in Insertion
      BY <1>0, <1>3 DEF Pending
    <2> QED BY <1>3, <2>1 DEF Insertion
  <1>5. PlanningTypeOK'
    BY <1>0, <1>1, <1>2, <1>3, <1>4 DEF PlanningTypeOK
  <1>6. ASSUME NEW x \in Pending', adding'[x].alone
        PROVE  Pending' = {x} /\ adding'[x].edge[1] \notin Chain(edges, adding'[x].edge[2])
    <2>1. x = a
      BY <1>3, <1>4, <1>6 DEF Pending
    <2>2. Pending = {}
      BY <1>2, <1>3, <1>6, <2>1
    <2>3. Pending' = {a}
      BY <1>3, <1>6, <2>1, <2>2 DEF Pending
    <2> QED BY <1>1, <1>2, <1>3, <2>1, <2>3
  <1>7. AloneIsSafe'
    BY <1>1, <1>6 DEF AloneIsSafe, Chain
  <1>8. Acyclic'
    BY <1>1 DEF PlanningInv, Acyclic, NoLoop, Chain
  <1> QED BY <1>5, <1>7, <1>8 DEF PlanningInv

LEMMA AddDependencyKeeps ==
  ASSUME PlanningInv, NEW a \in Adders, AddDependency(a)
  PROVE  PlanningInv'
  <1> DEFINE add == adding[a]
  <1>0. /\ adding \in [Adders -> Insertion \cup {NoTask}] /\ edges \in SUBSET Edge
        /\ a \in Pending /\ add \in Insertion
    BY DEF PlanningInv, PlanningTypeOK, AddDependency, Pending
  <1>1. PICK t \in Tasks, b \in Tasks : add.edge = <<t, b>>
    BY <1>0 DEF Insertion, Edge
  <1>2. /\ edges' = edges \cup {<<t, b>>} /\ adding' = [adding EXCEPT ![a] = NoTask]
        /\ raced' = IF add.alone THEN raced \ {<<t, b>>}
                    ELSE IF <<t, b>> \in edges THEN raced ELSE raced \cup {<<t, b>>}
    BY <1>1 DEF AddDependency
  <1>3. PlanningTypeOK'
    BY <1>0, <1>2 DEF PlanningTypeOK, Edge
  <1>4. Acyclic'
    <2>1. CASE add.alone
      <3>1. t \notin Chain(edges, b)
        BY <1>0, <1>1, <2>1 DEF PlanningInv, AloneIsSafe
      <3>2. t \notin Chain(edges \ raced, b)
        BY <1>0, <3>1, ChainGrows
      <3>3. NoLoop((edges \ raced) \cup {<<t, b>>})
        BY <1>0, <3>2, OneMoreHasNoLoop DEF PlanningInv, Acyclic
      <3>4. edges' \ raced' = (edges \ raced) \cup {<<t, b>>}
        BY <1>2, <2>1
      <3> QED BY <3>3, <3>4 DEF Acyclic, NoLoop, Chain
    <2>2. CASE ~add.alone
      <3>1. edges' \ raced' = edges \ raced
        BY <1>2, <2>2
      <3> QED BY <3>1 DEF PlanningInv, Acyclic, NoLoop, Chain
    <2> QED BY <2>1, <2>2
  <1>5. \A x \in Pending' : x \in Pending /\ x # a /\ adding'[x] = adding[x]
    BY <1>0, <1>2 DEF Pending
  <1>6. AloneIsSafe'
    BY <1>0, <1>5 DEF PlanningInv, AloneIsSafe
  <1> QED BY <1>3, <1>4, <1>6 DEF PlanningInv

LEMMA PlanningStepKeeps ==
  ASSUME PlanningInv, [PlanningNext]_planningVars
  PROVE  PlanningInv'
  <1>1. CASE UNCHANGED planningVars
    BY <1>1, EdgesGo DEF planningVars
  <1>2. CASE \E a \in Adders : AddFails(a)
    BY <1>2, EdgesGo DEF AddFails
  <1>3. CASE \E e \in edges : RemoveDependency(e)
    BY <1>3, EdgesGo DEF RemoveDependency
  <1>4. CASE \E t \in Tasks : RemoveTask(t)
    <2>1. PICK t \in Tasks : RemoveTask(t)
      BY <1>4
    <2>2. edges' \subseteq edges /\ edges' \ raced' \subseteq edges \ raced /\ adding' = adding
      BY <2>1 DEF RemoveTask
    <2> QED BY <2>2, EdgesGo
  <1> QED BY <1>1, <1>2, <1>3, <1>4, CheckDependencyKeeps, AddDependencyKeeps DEF PlanningNext

\* However edges come and go, those whose adding overlapped no other's form no
\* cycle, for any number of tasks, edges and requests.
THEOREM EdgesAreAcyclic == PlanningSpec => []Acyclic
  <1>1. PlanningInv => Acyclic
    BY DEF PlanningInv
  <1>2. PlanningInit => PlanningInv
    BY PlanningBegins
  <1>3. PlanningInv /\ [PlanningNext]_planningVars => PlanningInv'
    BY PlanningStepKeeps
  <1> QED BY <1>1, <1>2, <1>3, PTL DEF PlanningSpec

-----------------------------------------------------------------------------
(* Sums over finite sets.  MapThenSumSet recurs over the subsets; what holds *)
(* of it for a finite set is shown of a smallest set for which it might fail.*)

AnyOf(s) == CHOOSE x \in s : TRUE

Summed(g, S) == MapThenSumSet(LAMBDA x : g[x], S)

\* f is the recursion of the sum of g over the subsets of S.
Sums(f, g, S) ==
  f = [s \in SUBSET S |-> IF s = {} THEN 0 ELSE g[AnyOf(s)] + f[s \ {AnyOf(s)}]]

SumsOver(g, S) == CHOOSE f : Sums(f, g, S)

LEMMA SummedDef ==
  ASSUME NEW g, NEW S
  PROVE  Summed(g, S) = SumsOver(g, S)[S]
  BY DEF Summed, SumsOver, Sums, AnyOf, MapThenSumSet, MapThenFoldSet

\* A family of finite sets has one with none of them strictly inside.
LEMMA SmallestSet ==
  ASSUME NEW F, F # {}, \A S \in F : IsFiniteSet(S)
  PROVE  \E S \in F : \A R \in F : ~(R \subseteq S /\ R # S)
  <1> DEFINE T == UNION F
  <1>1. F \subseteq FiniteSubsetsOf(T)
    BY DEF FiniteSubsetsOf
  <1>2. \E S \in F : \A R \in F : <<R, S>> \notin StrictSubsetOrdering(T)
    BY <1>1, FS_StrictSubsetOrderingWellFounded, WFMin
  <1>3. \A R, S \in F : <<R, S>> \in StrictSubsetOrdering(T) <=> R \subseteq S /\ R # S
    BY DEF StrictSubsetOrdering
  <1> QED BY <1>2, <1>3

LEMMA AnyOfIsIn ==
  ASSUME NEW s, s # {}
  PROVE  AnyOf(s) \in s /\ s \ {AnyOf(s)} \subseteq s /\ s \ {AnyOf(s)} # s
  BY DEF AnyOf

\* The recursion has one value for a set, over whichever set it is done.
LEMMA SumsAgree ==
  ASSUME NEW g, NEW S, NEW R, IsFiniteSet(R), R \subseteq S, NEW f, NEW h, Sums(f, g, R), Sums(h, g, S)
  PROVE  f[R] = h[R]
  <1> DEFINE Bad == {s \in SUBSET R : f[s] # h[s]}
  <1> SUFFICES ASSUME Bad # {} PROVE FALSE
    OBVIOUS
  <1>1. \A s \in Bad : IsFiniteSet(s)
    BY FS_Subset
  <1>2. PICK s \in Bad : \A r \in Bad : ~(r \subseteq s /\ r # s)
    <2> HIDE DEF Bad
    <2> QED BY <1>1, SmallestSet
  <1>3. /\ f[s] = IF s = {} THEN 0 ELSE g[AnyOf(s)] + f[s \ {AnyOf(s)}]
        /\ h[s] = IF s = {} THEN 0 ELSE g[AnyOf(s)] + h[s \ {AnyOf(s)}]
    BY DEF Sums
  <1>4. s # {}
    BY <1>3
  <1>5. s \ {AnyOf(s)} \notin Bad
    BY <1>2, <1>4, AnyOfIsIn
  <1>6. f[s \ {AnyOf(s)}] = h[s \ {AnyOf(s)}]
    BY <1>5
  <1> QED BY <1>3, <1>4, <1>6

\* There is such a recursion.
LEMMA SumsExist ==
  ASSUME NEW g, NEW T, IsFiniteSet(T)
  PROVE  Sums(SumsOver(g, T), g, T)
  <1> DEFINE Bad == {S \in SUBSET T : ~ \E f : Sums(f, g, S)}
  <1>1. Bad = {}
    <2> SUFFICES ASSUME Bad # {} PROVE FALSE
      OBVIOUS
    <2>1. PICK S \in Bad : \A R \in Bad : ~(R \subseteq S /\ R # S)
      <3>1. \A S \in Bad : IsFiniteSet(S)
        BY FS_Subset
      <3> HIDE DEF Bad
      <3> QED BY <3>1, SmallestSet
    <2>2. ASSUME NEW R \in SUBSET S, R # S PROVE Sums(SumsOver(g, R), g, R)
      <3>1. \E f : Sums(f, g, R)
        BY <2>1, <2>2
      <3> QED BY <3>1 DEF SumsOver
    <2> DEFINE Below(s) == SumsOver(g, s)[s]
               f == [s \in SUBSET S |-> IF s = {} THEN 0 ELSE g[AnyOf(s)] + Below(s \ {AnyOf(s)})]
    <2>3. ASSUME NEW R \in SUBSET S, R # S PROVE f[R] = Below(R)
      <3>1. Below(R) = IF R = {} THEN 0 ELSE g[AnyOf(R)] + SumsOver(g, R)[R \ {AnyOf(R)}]
        <4>1. Sums(SumsOver(g, R), g, R)
          BY <2>2, <2>3
        <4> HIDE DEF f
        <4> DEFINE h == SumsOver(g, R)
        <4>2. h = [s \in SUBSET R |-> IF s = {} THEN 0 ELSE g[AnyOf(s)] + h[s \ {AnyOf(s)}]]
          BY <4>1 DEF Sums
        <4> HIDE DEF h
        <4>3. h[R] = IF R = {} THEN 0 ELSE g[AnyOf(R)] + h[R \ {AnyOf(R)}]
          BY <4>2
        <4> QED BY <4>3 DEF h
      <3>2. CASE R = {}
        BY <3>1, <3>2
      <3>3. CASE R # {}
        <4> DEFINE Q == R \ {AnyOf(R)}
        <4>1. Q \in SUBSET R /\ Q \in SUBSET S /\ Q # S /\ IsFiniteSet(Q)
          BY <3>3, AnyOfIsIn, FS_Subset
        <4>2. Sums(SumsOver(g, Q), g, Q) /\ Sums(SumsOver(g, R), g, R)
          BY <2>2, <2>3, <4>1
        <4>3. SumsOver(g, Q)[Q] = SumsOver(g, R)[Q]
          BY <4>1, <4>2, SumsAgree
        <4> QED BY <3>1, <3>3, <4>3
      <3> QED BY <3>2, <3>3
    <2>4. ASSUME NEW s \in SUBSET S, s # {} PROVE f[s \ {AnyOf(s)}] = Below(s \ {AnyOf(s)})
      <3>1. s \ {AnyOf(s)} \in SUBSET S /\ s \ {AnyOf(s)} # S
        BY <2>4, AnyOfIsIn
      <3> HIDE DEF f, Below
      <3> QED BY <2>3, <3>1
    <2>5. Sums(f, g, S)
      <3> DEFINE Right == [s \in SUBSET S |-> IF s = {} THEN 0 ELSE g[AnyOf(s)] + f[s \ {AnyOf(s)}]]
      <3>1. ASSUME NEW s \in SUBSET S PROVE f[s] = Right[s]
        BY <2>4
      <3>2. f = Right
        BY <3>1
      <3> QED BY <3>2 DEF Sums
    <2> QED BY <2>1, <2>5
  <1>2. \E f : Sums(f, g, T)
    BY <1>1
  <1> QED BY <1>2 DEF SumsOver

LEMMA SumOfNone == ASSUME NEW g PROVE Summed(g, {}) = 0
  <1>1. IsFiniteSet({})
    BY FS_EmptySet
  <1>2. Sums(SumsOver(g, {}), g, {})
    BY <1>1, SumsExist
  <1> QED BY <1>2, SummedDef DEF Sums

\* The sum of a set is that of what is left without the one the recursion takes.
LEMMA SumUnfolds ==
  ASSUME NEW g, NEW S, IsFiniteSet(S), S # {}
  PROVE  Summed(g, S) = g[AnyOf(S)] + Summed(g, S \ {AnyOf(S)})
  <1> DEFINE R == S \ {AnyOf(S)}
             h == SumsOver(g, S)
  <1>1. IsFiniteSet(R) /\ R \in SUBSET S
    BY FS_Subset
  <1>2. Sums(h, g, S) /\ Sums(SumsOver(g, R), g, R)
    BY <1>1, SumsExist
  <1>3. h[R] = SumsOver(g, R)[R]
    BY <1>1, <1>2, SumsAgree
  <1>4. h[S] = g[AnyOf(S)] + h[R]
    <2> HIDE DEF h
    <2> QED BY <1>2 DEF Sums
  <1> QED BY <1>3, <1>4, SummedDef

LEMMA SumIsNat ==
  ASSUME NEW T, IsFiniteSet(T), NEW g, \A x \in T : g[x] \in Nat
  PROVE  Summed(g, T) \in Nat
  <1> DEFINE Bad == {S \in SUBSET T : Summed(g, S) \notin Nat}
  <1>1. Bad = {}
    <2> SUFFICES ASSUME Bad # {} PROVE FALSE
      OBVIOUS
    <2>1. \A S \in Bad : IsFiniteSet(S)
      BY FS_Subset
    <2>2. PICK S \in Bad : \A R \in Bad : ~(R \subseteq S /\ R # S)
      <3> HIDE DEF Bad
      <3> QED BY <2>1, SmallestSet
    <2>3. S # {}
      <3>1. Summed(g, {}) \in Nat
        BY SumOfNone
      <3> QED BY <2>2, <3>1
    <2>4. Summed(g, S \ {AnyOf(S)}) \in Nat
      BY <2>2, <2>3, AnyOfIsIn
    <2>5. g[AnyOf(S)] \in Nat /\ Summed(g, S) = g[AnyOf(S)] + Summed(g, S \ {AnyOf(S)})
      BY <2>1, <2>3, AnyOfIsIn, SumUnfolds
    <2> QED BY <2>4, <2>5
  <1> QED BY <1>1

\* Whichever member is taken out first.
LEMMA SumWithout ==
  ASSUME NEW T, IsFiniteSet(T), NEW g, \A x \in T : g[x] \in Nat, NEW x \in T
  PROVE  Summed(g, T) = g[x] + Summed(g, T \ {x})
  <1> DEFINE Bad == {S \in SUBSET T : \E y \in S : Summed(g, S) # g[y] + Summed(g, S \ {y})}
  <1>1. Bad = {}
    <2> SUFFICES ASSUME Bad # {} PROVE FALSE
      OBVIOUS
    <2>1. \A S \in Bad : IsFiniteSet(S)
      BY FS_Subset
    <2>2. PICK S \in Bad : \A R \in Bad : ~(R \subseteq S /\ R # S)
      <3> HIDE DEF Bad
      <3> QED BY <2>1, SmallestSet
    <2>3. PICK y \in S : Summed(g, S) # g[y] + Summed(g, S \ {y})
      BY <2>2
    <2> DEFINE c == AnyOf(S)
    <2>4. c \in S /\ Summed(g, S) = g[c] + Summed(g, S \ {c})
      BY <2>1, AnyOfIsIn, SumUnfolds
    <2> HIDE DEF c
    <2>5. c # y
      BY <2>3, <2>4
    <2>6. S \ {c} \notin Bad /\ S \ {y} \notin Bad
      BY <2>2, <2>4
    <2>7. Summed(g, S \ {c}) = g[y] + Summed(g, (S \ {c}) \ {y})
      BY <2>4, <2>5, <2>6
    <2>8. Summed(g, S \ {y}) = g[c] + Summed(g, (S \ {y}) \ {c})
      BY <2>4, <2>5, <2>6
    <2>9. (S \ {c}) \ {y} = (S \ {y}) \ {c}
      OBVIOUS
    <2>10. Summed(g, (S \ {y}) \ {c}) \in Nat /\ g[c] \in Nat /\ g[y] \in Nat
      <3>1. IsFiniteSet((S \ {y}) \ {c})
        BY <2>1, <2>2, FS_Subset
      <3> QED BY <2>4, <3>1, SumIsNat
    <2> QED BY <2>3, <2>4, <2>7, <2>8, <2>9, <2>10
  <1> QED BY <1>1

\* Functions that are the same on a set have the same sum over it.
LEMMA SumIsLocal ==
  ASSUME NEW T, IsFiniteSet(T), NEW g, NEW h, \A x \in T : g[x] = h[x]
  PROVE  Summed(g, T) = Summed(h, T)
  <1> DEFINE Bad == {S \in SUBSET T : Summed(g, S) # Summed(h, S)}
  <1>1. Bad = {}
    <2> SUFFICES ASSUME Bad # {} PROVE FALSE
      OBVIOUS
    <2>1. \A S \in Bad : IsFiniteSet(S)
      BY FS_Subset
    <2>2. PICK S \in Bad : \A R \in Bad : ~(R \subseteq S /\ R # S)
      <3> HIDE DEF Bad
      <3> QED BY <2>1, SmallestSet
    <2>3. S # {}
      BY <2>2, SumOfNone
    <2>4. Summed(g, S \ {AnyOf(S)}) = Summed(h, S \ {AnyOf(S)})
      BY <2>2, <2>3, AnyOfIsIn
    <2>5. /\ g[AnyOf(S)] = h[AnyOf(S)]
          /\ Summed(g, S) = g[AnyOf(S)] + Summed(g, S \ {AnyOf(S)})
          /\ Summed(h, S) = h[AnyOf(S)] + Summed(h, S \ {AnyOf(S)})
      BY <2>1, <2>3, AnyOfIsIn, SumUnfolds
    <2> QED BY <2>2, <2>4, <2>5
  <1> QED BY <1>1

LEMMA SumOfZeros ==
  ASSUME NEW T, IsFiniteSet(T), NEW g, \A x \in T : g[x] = 0
  PROVE  Summed(g, T) = 0
  <1> DEFINE Bad == {S \in SUBSET T : Summed(g, S) # 0}
  <1>1. Bad = {}
    <2> SUFFICES ASSUME Bad # {} PROVE FALSE
      OBVIOUS
    <2>1. \A S \in Bad : IsFiniteSet(S)
      BY FS_Subset
    <2>2. PICK S \in Bad : \A R \in Bad : ~(R \subseteq S /\ R # S)
      <3> HIDE DEF Bad
      <3> QED BY <2>1, SmallestSet
    <2>3. S # {}
      BY <2>2, SumOfNone
    <2>4. Summed(g, S \ {AnyOf(S)}) = 0
      BY <2>2, <2>3, AnyOfIsIn
    <2>5. g[AnyOf(S)] = 0 /\ Summed(g, S) = g[AnyOf(S)] + Summed(g, S \ {AnyOf(S)})
      BY <2>1, <2>3, AnyOfIsIn, SumUnfolds
    <2> QED BY <2>2, <2>4, <2>5
  <1> QED BY <1>1

\* What is added to one of the terms is added to the sum.
LEMMA SumGrowsBy ==
  ASSUME NEW T, IsFiniteSet(T), NEW g, NEW h, \A x \in T : g[x] \in Nat,
         NEW y \in T, NEW d \in Nat, h[y] = g[y] + d, \A x \in T \ {y} : h[x] = g[x]
  PROVE  Summed(h, T) = Summed(g, T) + d
  <1> DEFINE R == T \ {y}
  <1>1. IsFiniteSet(R)
    BY FS_Subset
  <1>2. \A x \in T : h[x] \in Nat
    OBVIOUS
  <1>3. Summed(g, T) = g[y] + Summed(g, R) /\ Summed(h, T) = h[y] + Summed(h, R)
    BY <1>2, SumWithout
  <1>4. Summed(h, R) = Summed(g, R) /\ Summed(g, R) \in Nat
    BY <1>1, SumIsLocal, SumIsNat
  <1> QED BY <1>3, <1>4

-----------------------------------------------------------------------------
(* The critical path.  On edges without a loop every set of tasks has one   *)
(* that waits for none of them: so the walk is defined on every task of the *)
(* schedule, and what holds of a task as soon as it holds of its blockers    *)
(* holds of all.                                                            *)

Planned == edges \in SUBSET Edge /\ present \in SUBSET Tasks /\ NoLoop(edges)

LEMMA FirstOfSome ==
  ASSUME Planned, NEW S \in SUBSET Known, S # {}
  PROVE  \E t \in S : Blockers(t) \cap S = {}
  <1> DEFINE F == {Chain(edges, t) : t \in S}
  <1>1. Known \in SUBSET Tasks /\ edges \in SUBSET Edge
    BY DEF Planned, Known
  <1>2. \A C \in F : IsFiniteSet(C)
    BY <1>1, FS_Subset, ChainIsClosed, PlanningAssumption
  <1>3. F # {}
    OBVIOUS
  <1>4. PICK C \in F : \A D \in F : ~(D \subseteq C /\ D # C)
    <2> HIDE DEF F
    <2> QED BY <1>2, <1>3, SmallestSet
  <1>5. PICK t \in S : C = Chain(edges, t)
    OBVIOUS
  <1>6. ASSUME NEW b \in Blockers(t), b \in S PROVE FALSE
    <2>1. b \in Tasks /\ t \in Tasks /\ <<t, b>> \in edges
      BY <1>1, <1>6 DEF Blockers
    <2>2. t \in Chain(edges, t) /\ Closed(edges, Chain(edges, t)) /\ Chain(edges, t) \in SUBSET Tasks
      BY <1>1, <2>1, ChainIsClosed
    <2>3. b \in Chain(edges, t)
      BY <2>1, <2>2 DEF Closed
    <2>4. Chain(edges, b) \subseteq Chain(edges, t)
      BY <2>2, <2>3, ChainIsLeast
    <2>5. t \notin Chain(edges, b)
      BY <2>1 DEF Planned, NoLoop
    <2> QED BY <1>4, <1>5, <1>6, <2>2, <2>4, <2>5
  <1> QED BY <1>5, <1>6

\* What the walk finds for a task, given what it found for the blockers.
Found(t, w) ==
  IF Blockers(t) = {} THEN [weight |-> Duration[t], path |-> <<t>>]
  ELSE [weight |-> Best(t, w).weight + Duration[t], path |-> Append(Best(t, w).path, t)]

Walks(w, S) == w = [t \in S |-> Found(t, w)]

LEMMA FoundIsLocal ==
  ASSUME NEW t, NEW w, NEW v, \A b \in Blockers(t) : w[b] = v[b]
  PROVE  Found(t, w) = Found(t, v)
  <1>1. {w[b] : b \in Blockers(t)} = {v[b] : b \in Blockers(t)}
    OBVIOUS
  <1>2. Best(t, w) = Best(t, v)
    BY <1>1 DEF Best
  <1> QED BY <1>2 DEF Found

LEMMA WalkWalks == ASSUME Planned PROVE Walks(Walk, Known)
  <1> DEFINE Walkable(S) == (\A t \in S : Blockers(t) \subseteq S) /\ \E w : Walks(w, S)
             F == {R \in SUBSET Known : Walkable(Known \ R)}
  <1>1. IsFiniteSet(Known)
    BY FS_Subset, PlanningAssumption DEF Planned, Known
  <1>2. Known \in F
    <2> DEFINE w == [t \in {} |-> 0]
    <2>1. Walks(w, {})
      BY DEF Walks
    <2>2. Known \ Known = {}
      OBVIOUS
    <2>3. Walkable({})
      BY <2>1
    <2> HIDE DEF Walkable
    <2> QED BY <2>2, <2>3
  <1>3. PICK R \in F : \A Q \in F : ~(Q \subseteq R /\ Q # R)
    <2>1. \A Q \in F : IsFiniteSet(Q)
      BY <1>1, FS_Subset
    <2> HIDE DEF F
    <2> QED BY <1>2, <2>1, SmallestSet
  <1>4. R = {}
    <2> SUFFICES ASSUME R # {} PROVE FALSE
      OBVIOUS
    <2>1. PICK t \in R : Blockers(t) \cap R = {}
      BY FirstOfSome
    <2> DEFINE S == Known \ R
               T == Known \ (R \ {t})
    <2>2. Blockers(t) \subseteq S /\ T = S \cup {t} /\ t \notin S
      BY <2>1 DEF Blockers
    <2>3. PICK w : Walks(w, S)
      OBVIOUS
    <2>4. \A x \in T : Blockers(x) \subseteq S
      BY <2>2
    <2> DEFINE v == [x \in T |-> IF x = t THEN Found(t, w) ELSE w[x]]
    <2>5. ASSUME NEW x \in T PROVE v[x] = Found(x, v)
      <3>1. \A b \in Blockers(x) : w[b] = v[b]
        BY <2>2, <2>4
      <3>2. Found(x, w) = Found(x, v)
        <4> HIDE DEF v
        <4> QED BY <3>1, FoundIsLocal
      <3>3. v[x] = Found(x, w)
        <4>1. CASE x = t
          BY <4>1
        <4>2. CASE x # t
          <5>1. x \in S
            BY <2>2, <4>2
          <5> QED BY <2>3, <4>2, <5>1 DEF Walks
        <4> QED BY <4>1, <4>2
      <3> QED BY <3>2, <3>3
    <2>6. Walks(v, T)
      <3>1. v = [x \in T |-> v[x]]
        OBVIOUS
      <3>2. [x \in T |-> v[x]] = [x \in T |-> Found(x, v)]
        <4> HIDE DEF v
        <4> QED BY <2>5
      <3> HIDE DEF v
      <3> QED BY <3>1, <3>2 DEF Walks
    <2>7. Walkable(T)
      <3>1. \A x \in T : Blockers(x) \subseteq T
        BY <2>2, <2>4
      <3> QED BY <2>6, <3>1
    <2>8. R \ {t} \in F /\ R \ {t} # R
      <3> HIDE DEF Walkable
      <3> QED BY <2>1, <2>7
    <2> QED BY <1>3, <2>8
  <1>5. \E w : Walks(w, Known)
    BY <1>3, <1>4
  <1>6. Walk = CHOOSE w : Walks(w, Known)
    BY DEF Walk, Walks, Found
  <1> QED BY <1>5, <1>6

\* The days of a sequence of tasks, place by place.
DaysOf(c) == [i \in DOMAIN c |-> Duration[c[i]]]

LEMMA WeightIsSum ==
  ASSUME NEW n \in Nat, NEW c \in [1..n -> Tasks]
  PROVE  Weight(c) = Summed(DaysOf(c), 1..n) /\ Weight(c) \in Nat
  <1> DEFINE g == DaysOf(c)
             S == 1..n
             Right(f) == [s \in SUBSET S |-> IF s = {} THEN 0 ELSE Duration[c[AnyOf(s)]] + f[s \ {AnyOf(s)}]]
  <1>1. IsFiniteSet(S) /\ DOMAIN c = S
    BY FS_Interval
  <1>2. \A i \in S : g[i] = Duration[c[i]] /\ g[i] \in Nat
    BY PlanningAssumption DEF DaysOf
  <1>3. Weight(c) = (CHOOSE f : f = Right(f))[S]
    BY <1>1 DEF Weight, MapThenSumSet, MapThenFoldSet, AnyOf
  <1>4. ASSUME NEW f PROVE (f = Right(f)) <=> Sums(f, g, S)
    <2> DEFINE Other == [s \in SUBSET S |-> IF s = {} THEN 0 ELSE g[AnyOf(s)] + f[s \ {AnyOf(s)}]]
    <2>1. ASSUME NEW s \in SUBSET S PROVE Right(f)[s] = Other[s]
      <3>1. CASE s = {}
        BY <3>1
      <3>2. CASE s # {}
        <4>1. g[AnyOf(s)] = Duration[c[AnyOf(s)]]
          BY <1>2, <3>2, AnyOfIsIn
        <4> QED BY <3>2, <4>1
      <3> QED BY <3>1, <3>2
    <2>2. Right(f) = Other
      BY <2>1
    <2> QED BY <2>2 DEF Sums
  <1>5. Sums(SumsOver(g, S), g, S)
    BY <1>1, SumsExist
  <1> DEFINE h == CHOOSE f : f = Right(f)
  <1>6. h = Right(h)
    <2> HIDE DEF Right
    <2> QED BY <1>4, <1>5
  <1>7. Sums(h, g, S)
    BY <1>4, <1>6
  <1>8. h[S] = SumsOver(g, S)[S]
    <2> HIDE DEF h, g, S
    <2> QED BY <1>1, <1>5, <1>7, SumsAgree
  <1>9. Summed(g, S) \in Nat
    <2> HIDE DEF g, S
    <2> QED BY <1>1, <1>2, SumIsNat
  <1> QED BY <1>3, <1>8, <1>9, SummedDef

\* A task more weighs its days more.
LEMMA WeightGrows ==
  ASSUME NEW n \in Nat, NEW c \in [1 .. n + 1 -> Tasks]
  PROVE  Weight(c) = Weight([i \in 1..n |-> c[i]]) + Duration[c[n + 1]]
  <1> DEFINE d == [i \in 1..n |-> c[i]]
             S == 1 .. n + 1
             g == DaysOf(c)
  <1>1. IsFiniteSet(S) /\ IsFiniteSet(1..n) /\ S \ {n + 1} = 1..n /\ n + 1 \in S
    <2>1. 1 \in Int /\ n \in Int /\ n + 1 \in Int
      OBVIOUS
    <2>2. IsFiniteSet(S) /\ IsFiniteSet(1..n)
      BY <2>1, FS_Interval
    <2>3. S \ {n + 1} = 1..n /\ n + 1 \in S
      OBVIOUS
    <2> QED BY <2>2, <2>3
  <1>2. \A i \in S : g[i] = Duration[c[i]] /\ g[i] \in Nat
    BY PlanningAssumption DEF DaysOf
  <1>3. \A i \in 1..n : g[i] = DaysOf(d)[i]
    BY <1>2 DEF DaysOf
  <1>4. Weight(c) = Summed(g, S) /\ Weight(d) = Summed(DaysOf(d), 1..n)
    <2>1. n + 1 \in Nat /\ d \in [1..n -> Tasks]
      OBVIOUS
    <2> QED BY <2>1, WeightIsSum
  <1>5. Summed(g, S) = g[n + 1] + Summed(g, 1..n)
    <2> HIDE DEF g, S
    <2> QED BY <1>1, <1>2, SumWithout
  <1>6. Summed(g, 1..n) = Summed(DaysOf(d), 1..n) /\ Summed(g, 1..n) \in Nat
    <2>1. \A i \in 1..n : g[i] \in Nat
      BY <1>2
    <2> HIDE DEF g, d
    <2> QED BY <1>1, <1>3, <2>1, SumIsLocal, SumIsNat
  <1>7. g[n + 1] = Duration[c[n + 1]] /\ Duration[c[n + 1]] \in Nat
    BY <1>1, <1>2
  <1> HIDE DEF d, g
  <1>8. Weight(c) = Weight(d) + Duration[c[n + 1]]
    BY <1>4, <1>5, <1>6, <1>7
  <1> QED BY <1>8 DEF d

LEMMA WeightOfOne ==
  ASSUME NEW c \in [1..1 -> Tasks]
  PROVE  Weight(c) = Duration[c[1]]
  <1> DEFINE d == [i \in 1..0 |-> c[i]]
  <1>1. c \in [1 .. 0 + 1 -> Tasks] /\ d \in [1..0 -> Tasks] /\ 1..0 = {}
    OBVIOUS
  <1>2. Weight(c) = Weight(d) + Duration[c[0 + 1]]
    BY <1>1, WeightGrows
  <1>3. Weight(d) = 0
    <2> HIDE DEF d
    <2> QED BY <1>1, WeightIsSum, SumOfNone
  <1>4. Duration[c[1]] \in Nat
    BY PlanningAssumption
  <1> QED BY <1>2, <1>3, <1>4

LEMMA ImagesAreFinite ==
  ASSUME NEW S, IsFiniteSet(S), NEW w
  PROVE  IsFiniteSet({w[x] : x \in S})
  <1> DEFINE f == [x \in S |-> w[x]]
             T == {w[x] : x \in S}
  <1>1. f \in Surjection(S, T)
    BY DEF Surjection
  <1> QED BY <1>1, FS_Surjection

\* Of results there is a heaviest.
LEMMA HeaviestIsOne ==
  ASSUME NEW R, IsFiniteSet(R), R # {}, \A r \in R : r.weight \in Nat
  PROVE  Heaviest(R) \in R /\ \A r \in R : r.weight <= Heaviest(R).weight
  <1> DEFINE Above(r) == {s \in R : s.weight > r.weight}
             F == {Above(r) : r \in R}
  <1>1. \A S \in F : IsFiniteSet(S)
    BY FS_Subset
  <1>2. PICK S \in F : \A Q \in F : ~(Q \subseteq S /\ Q # S)
    <2>1. F # {}
      OBVIOUS
    <2> HIDE DEF F
    <2> QED BY <1>1, <2>1, SmallestSet
  <1>3. PICK r \in R : S = Above(r)
    OBVIOUS
  <1>4. ASSUME NEW s \in R PROVE s.weight <= r.weight
    <2> SUFFICES ASSUME s.weight > r.weight PROVE FALSE
      BY <1>3
    <2>1. Above(s) \subseteq Above(r) /\ s \in Above(r) /\ s \notin Above(s)
      OBVIOUS
    <2> QED BY <1>2, <1>3, <2>1
  <1>5. \E x \in R : \A other \in R : other.weight <= x.weight
    BY <1>4
  <1> QED BY <1>5 DEF Heaviest

\* A sequence of tasks each of which waits for the one before, t the last.
EndsAt(c, t) == \E n \in Nat \ {0} : c \in [1..n -> Known] /\ IsChain(c) /\ c[n] = t

LEMMA ChainGoesOn ==
  ASSUME Planned, NEW t \in Known, NEW b \in Blockers(t), NEW p, EndsAt(p, b)
  PROVE  EndsAt(Append(p, t), t) /\ Weight(Append(p, t)) = Weight(p) + Duration[t]
  <1> DEFINE c == Append(p, t)
  <1>1. PICK n \in Nat \ {0} : p \in [1..n -> Known] /\ IsChain(p) /\ p[n] = b
    BY DEF EndsAt
  <1>2. p \in Seq(Known) /\ Len(p) = n /\ DOMAIN p = 1..n
    BY <1>1
  <1>3. c \in Seq(Known) /\ Len(c) = n + 1 /\ c[n + 1] = t /\ \A i \in 1..n : c[i] = p[i]
    BY <1>2
  <1>4. /\ c \in [1 .. n + 1 -> Known] /\ DOMAIN c = 1 .. n + 1 /\ c[n + 1] = t
        /\ \A i \in 1..n : c[i] = p[i]
    <2> HIDE DEF c
    <2> QED BY <1>1, <1>3
  <1> HIDE DEF c
  <1>5. <<t, b>> \in edges
    BY DEF Blockers
  <1>6. ASSUME NEW i \in 1 .. n + 1 PROVE c[i] \in Known /\ (i > 1 => <<c[i], c[i - 1]>> \in edges)
    <2>1. CASE i = n + 1
      <3>1. i - 1 = n /\ n \in 1..n
        BY <2>1
      <3>2. c[i] = t /\ c[i - 1] = b
        BY <1>1, <1>4, <2>1, <3>1
      <3> QED BY <1>5, <3>2
    <2>2. CASE i \in 1..n
      <3>1. c[i] = p[i] /\ (i > 1 => c[i - 1] = p[i - 1])
        BY <1>4, <2>2
      <3>2. p[i] \in Known /\ (i > 1 => <<p[i], p[i - 1]>> \in edges)
        BY <1>1, <1>2, <2>2 DEF IsChain
      <3> QED BY <3>1, <3>2
    <2> QED BY <2>1, <2>2
  <1>7. IsChain(c)
    BY <1>4, <1>6 DEF IsChain
  <1>8. EndsAt(c, t)
    <2>1. n + 1 \in Nat \ {0}
      OBVIOUS
    <2> QED BY <1>4, <1>7, <2>1 DEF EndsAt
  <1>9. [i \in 1..n |-> c[i]] = p
    BY <1>1, <1>4
  <1>10. Weight(c) = Weight(p) + Duration[t]
    <2>1. c \in [1 .. n + 1 -> Tasks]
      BY <1>4 DEF Known, Planned
    <2>2. Weight(c) = Weight([i \in 1..n |-> c[i]]) + Duration[c[n + 1]]
      BY <2>1, WeightGrows
    <2> QED BY <1>4, <1>9, <2>2
  <1> QED BY <1>8, <1>10 DEF c

LEMMA ChainWithoutLast ==
  ASSUME Planned, NEW n \in Nat \ {0}, NEW c \in [1 .. n + 1 -> Known], IsChain(c)
  PROVE  LET d == [i \in 1..n |-> c[i]] IN
         /\ EndsAt(d, c[n]) /\ c[n] \in Blockers(c[n + 1])
         /\ Weight(c) = Weight(d) + Duration[c[n + 1]]
  <1> DEFINE d == [i \in 1..n |-> c[i]]
  <1>1. DOMAIN c = 1 .. n + 1 /\ n \in 1 .. n + 1 /\ n + 1 \in 1 .. n + 1 /\ (n + 1) - 1 = n /\ n + 1 > 1
    OBVIOUS
  <1>2. c[n] \in Known /\ <<c[n + 1], c[n]>> \in edges
    <2>1. \A i \in 1 .. n + 1 : c[i] \in Known /\ (i > 1 => <<c[i], c[i - 1]>> \in edges)
      BY <1>1 DEF IsChain
    <2> QED BY <1>1, <2>1
  <1>3. d \in [1..n -> Known] /\ d[n] = c[n] /\ DOMAIN d = 1..n
    BY <1>1
  <1>4. IsChain(d)
    <2>1. ASSUME NEW i \in 1..n PROVE d[i] \in Known /\ (i > 1 => <<d[i], d[i - 1]>> \in edges)
      <3>1. d[i] = c[i] /\ (i > 1 => d[i - 1] = c[i - 1])
        OBVIOUS
      <3>2. i \in DOMAIN c
        BY <1>1
      <3> HIDE DEF d
      <3> QED BY <3>1, <3>2 DEF IsChain
    <2> HIDE DEF d
    <2> QED BY <1>3, <2>1 DEF IsChain
  <1>5. EndsAt(d, c[n])
    <2> HIDE DEF d
    <2> QED BY <1>3, <1>4 DEF EndsAt
  <1>6. Weight(c) = Weight(d) + Duration[c[n + 1]]
    <2>1. c \in [1 .. n + 1 -> Tasks]
      BY DEF Known, Planned
    <2> QED BY <2>1, WeightGrows
  <1> QED BY <1>2, <1>5, <1>6 DEF Blockers

\* The walk finds a chain to the task, and there is none heavier to it.
HeaviestTo(t) ==
  /\ EndsAt(Walk[t].path, t)
  /\ Walk[t].weight = Weight(Walk[t].path)
  /\ \A c : EndsAt(c, t) => Weight(c) <= Walk[t].weight

LEMMA WeightsAreNat ==
  ASSUME Planned, NEW t, NEW c, EndsAt(c, t)
  PROVE  Weight(c) \in Nat
  BY WeightIsSum DEF EndsAt, Known, Planned

\* So it is for a task as soon as it is for its blockers.
LEMMA HeaviestComesFromBlockers ==
  ASSUME Planned, NEW t \in Known, \A b \in Blockers(t) : HeaviestTo(b)
  PROVE  HeaviestTo(t)
  <1> DEFINE B == Blockers(t)
             R == {Walk[b] : b \in B}
             r == Best(t, Walk)
  <1>1. Walk[t] = Found(t, Walk)
    BY WalkWalks DEF Walks
  <1>2. t \in Tasks /\ B \subseteq Known /\ B \subseteq Tasks /\ IsFiniteSet(B) /\ Duration[t] \in Nat
    BY FS_Subset, PlanningAssumption DEF Known, Planned, Blockers
  <1>3. CASE B = {}
    <2>1. Walk[t].weight = Duration[t] /\ Walk[t].path = <<t>>
      BY <1>1, <1>3 DEF Found
    <2>2. ASSUME NEW c, EndsAt(c, t) PROVE c \in [1..1 -> Tasks] /\ c[1] = t
      <3>1. PICK n \in Nat \ {0} : c \in [1..n -> Known] /\ IsChain(c) /\ c[n] = t
        BY <2>2 DEF EndsAt
      <3>2. ASSUME n # 1 PROVE FALSE
        <4>1. n - 1 \in Nat \ {0} /\ c \in [1 .. (n - 1) + 1 -> Known] /\ (n - 1) + 1 = n
          BY <3>1, <3>2
        <4>2. c[n - 1] \in Blockers(c[(n - 1) + 1])
          BY <3>1, <4>1, ChainWithoutLast
        <4> QED BY <1>3, <3>1, <4>1, <4>2
      <3> QED BY <3>1, <3>2 DEF Known, Planned
    <2>3. EndsAt(<<t>>, t)
      <3>1. <<t>> \in [1..1 -> Known] /\ IsChain(<<t>>) /\ <<t>>[1] = t
        BY DEF IsChain
      <3> QED BY <3>1 DEF EndsAt
    <2>4. \A c : EndsAt(c, t) => Weight(c) = Duration[t]
      BY <2>2, WeightOfOne
    <2> QED BY <1>2, <2>1, <2>3, <2>4 DEF HeaviestTo
  <1>4. CASE B # {}
    <2>1. Walk[t].weight = r.weight + Duration[t] /\ Walk[t].path = Append(r.path, t)
      BY <1>1, <1>4 DEF Found
    <2>2. \A b \in B : Walk[b].weight \in Nat
      BY WeightsAreNat DEF HeaviestTo
    <2>3. r \in R /\ \A s \in R : s.weight <= r.weight
      <3>1. IsFiniteSet(R)
        BY <1>2, ImagesAreFinite
      <3>2. R # {} /\ \A s \in R : s.weight \in Nat
        BY <1>4, <2>2
      <3>3. r = Heaviest(R)
        BY DEF Best
      <3> HIDE DEF R, r
      <3> QED BY <3>1, <3>2, <3>3, HeaviestIsOne
    <2>4. PICK b \in B : r = Walk[b]
      BY <2>3
    <2> HIDE DEF r
    <2>5. EndsAt(r.path, b) /\ r.weight = Weight(r.path) /\ r.weight \in Nat
      BY <2>2, <2>4 DEF HeaviestTo
    <2>6. EndsAt(Walk[t].path, t) /\ Weight(Walk[t].path) = Walk[t].weight
      BY <2>1, <2>5, ChainGoesOn
    <2>7. ASSUME NEW c, EndsAt(c, t) PROVE Weight(c) <= Walk[t].weight
      <3>1. PICK n \in Nat \ {0} : c \in [1..n -> Known] /\ IsChain(c) /\ c[n] = t
        BY <2>7 DEF EndsAt
      <3>2. CASE n = 1
        <4>1. c \in [1..1 -> Tasks] /\ c[1] = t
          BY <3>1, <3>2 DEF Known, Planned
        <4>2. Weight(c) = Duration[t]
          BY <4>1, WeightOfOne
        <4> QED BY <1>2, <2>1, <2>5, <4>2
      <3>3. CASE n # 1
        <4> DEFINE m == n - 1
                   d == [i \in 1..m |-> c[i]]
        <4>1. m \in Nat \ {0} /\ m + 1 = n
          BY <3>3
        <4> HIDE DEF m
        <4>2. c \in [1 .. m + 1 -> Known] /\ c[m + 1] = t
          BY <3>1, <4>1
        <4>3. EndsAt(d, c[m]) /\ c[m] \in B /\ Weight(c) = Weight(d) + Duration[t]
          BY <3>1, <4>1, <4>2, ChainWithoutLast
        <4> HIDE DEF d
        <4>4. Weight(d) <= Walk[c[m]].weight /\ Weight(d) \in Nat /\ Walk[c[m]].weight \in Nat
          BY <2>2, <4>3, WeightsAreNat DEF HeaviestTo
        <4>5. Walk[c[m]].weight <= r.weight
          BY <2>3, <4>3
        <4> QED BY <1>2, <2>1, <2>5, <4>3, <4>4, <4>5
      <3> QED BY <3>2, <3>3
    <2> QED BY <2>6, <2>7 DEF HeaviestTo
  <1> QED BY <1>3, <1>4

LEMMA WalkIsHeaviest ==
  ASSUME Planned
  PROVE  \A t \in Known : HeaviestTo(t)
  <1> DEFINE Bad == {t \in Known : ~HeaviestTo(t)}
  <1> SUFFICES ASSUME Bad # {} PROVE FALSE
    OBVIOUS
  <1>1. PICK t \in Bad : Blockers(t) \cap Bad = {}
    <2> HIDE DEF Bad
    <2>1. Bad \in SUBSET Known
      BY DEF Bad
    <2> QED BY <2>1, FirstOfSome
  <1>2. \A b \in Blockers(t) : HeaviestTo(b)
    BY <1>1 DEF Blockers
  <1> QED BY <1>1, <1>2, HeaviestComesFromBlockers

\* No chain has a task twice: the tasks before one are tasks it depends on.
LEMMA ChainsDepend ==
  ASSUME Planned, NEW n \in Nat, NEW c \in [1..n -> Known], IsChain(c), NEW j \in 1..n, NEW i \in 1..j
  PROVE  c[i] \in Chain(edges, c[j])
  <1> DEFINE C == Chain(edges, c[j])
             Bad == {k \in 1..j : c[k] \notin C}
             F == {k..j : k \in Bad}
  <1> SUFFICES ASSUME Bad # {} PROVE FALSE
    OBVIOUS
  <1>1. edges \in SUBSET Edge /\ c[j] \in Tasks
    BY DEF Planned, Known
  <1>2. c[j] \in C /\ Closed(edges, C)
    BY <1>1, ChainIsClosed
  <1>3. PICK S \in F : \A Q \in F : ~(Q \subseteq S /\ Q # S)
    <2>1. ASSUME NEW k \in Bad PROVE IsFiniteSet(k..j)
      <3>1. k \in Int /\ j \in Int
        OBVIOUS
      <3> QED BY <3>1, FS_Interval
    <2>2. F # {}
      OBVIOUS
    <2>3. \A Q \in F : IsFiniteSet(Q)
      <3> HIDE DEF Bad
      <3> QED BY <2>1
    <2> HIDE DEF F
    <2> QED BY <2>2, <2>3, SmallestSet
  <1>4. PICK k \in Bad : S = k..j
    OBVIOUS
  <1>5. k \in 1..j /\ k # j /\ k + 1 \in 1..j
    BY <1>2
  <1>6. k + 1 \notin Bad
    <2>1. ((k + 1) .. j) \subseteq k..j /\ k \in k..j /\ k \notin (k + 1) .. j
      BY <1>5
    <2> QED BY <1>3, <1>4, <2>1
  <1>7. c[k + 1] \in C
    BY <1>5, <1>6
  <1>8. <<c[k + 1], c[k]>> \in edges
    <2>1. k + 1 \in DOMAIN c /\ k + 1 > 1 /\ (k + 1) - 1 = k
      BY <1>5
    <2>2. <<c[k + 1], c[(k + 1) - 1]>> \in edges
      BY <2>1 DEF IsChain
    <2> QED BY <2>1, <2>2
  <1>9. c[k] \in C
    BY <1>2, <1>7, <1>8 DEF Closed
  <1> QED BY <1>9

LEMMA ChainsAreShort ==
  ASSUME Planned, NEW n \in Nat, NEW c \in [1..n -> Known], IsChain(c)
  PROVE  n <= Cardinality(Known)
  <1>1. ASSUME NEW i \in 1..n, NEW j \in 1..n, i < j PROVE c[i] # c[j]
    <2> DEFINE h == j - 1
    <2>1. h \in 1..n /\ i \in 1..h /\ j \in DOMAIN c /\ j > 1
      BY <1>1
    <2>2. <<c[j], c[h]>> \in edges
      BY <2>1 DEF IsChain
    <2>3. c[j] \notin Chain(edges, c[h])
      <3> HIDE DEF h
      <3> QED BY <2>2 DEF Planned, NoLoop
    <2> HIDE DEF h
    <2>4. c[i] \in Chain(edges, c[h])
      BY <2>1, ChainsDepend
    <2> QED BY <2>3, <2>4
  <1>2. c \in Injection(1..n, Known)
    <2>1. \A i, j \in 1..n : c[i] = c[j] => i = j
      <3> SUFFICES ASSUME NEW i \in 1..n, NEW j \in 1..n, c[i] = c[j], i # j PROVE FALSE
        OBVIOUS
      <3>1. i < j \/ j < i
        OBVIOUS
      <3> QED BY <1>1, <3>1
    <2> QED BY <2>1 DEF Injection, IsInjective
  <1>3. IsFiniteSet(Known)
    BY FS_Subset, PlanningAssumption DEF Planned, Known
  <1>4. Cardinality(1..n) <= Cardinality(Known)
    BY <1>2, <1>3, FS_Injection
  <1>5. Cardinality(1..n) = n
    BY FS_Interval
  <1> QED BY <1>4, <1>5

\* The chains of the property are those that end at some task.
AChain(c) == c \in UNION {[1..n -> Known] : n \in 1..Cardinality(Known)} /\ IsChain(c)

LEMMA ChainsEnd ==
  ASSUME Planned, NEW c
  PROVE  AChain(c) <=> \E t \in Known : EndsAt(c, t)
  <1>1. ASSUME AChain(c) PROVE \E t \in Known : EndsAt(c, t)
    <2>1. PICK n \in 1..Cardinality(Known) : c \in [1..n -> Known] /\ IsChain(c)
      BY <1>1 DEF AChain
    <2>2. n \in Nat \ {0} /\ c[n] \in Known
      <3>1. IsFiniteSet(Known)
        BY FS_Subset, PlanningAssumption DEF Planned, Known
      <3>2. Cardinality(Known) \in Nat
        BY <3>1, FS_CardinalityType
      <3> QED BY <2>1, <3>2
    <2> QED BY <2>1, <2>2 DEF EndsAt
  <1>2. ASSUME NEW t \in Known, EndsAt(c, t) PROVE AChain(c)
    <2>1. PICK n \in Nat \ {0} : c \in [1..n -> Known] /\ IsChain(c)
      BY <1>2 DEF EndsAt
    <2>2. n <= Cardinality(Known)
      BY <2>1, ChainsAreShort
    <2>3. n \in 1..Cardinality(Known)
      <3>1. IsFiniteSet(Known)
        BY FS_Subset, PlanningAssumption DEF Planned, Known
      <3>2. Cardinality(Known) \in Nat
        BY <3>1, FS_CardinalityType
      <3> QED BY <2>2, <3>2
    <2> QED BY <2>1, <2>3 DEF AChain
  <1> QED BY <1>1, <1>2

LEMMA TheHeaviestIsFound ==
  ASSUME Planned
  PROVE  CriticalPathIsLongest
  <1> DEFINE chains == {c \in UNION {[1..n -> Known] : n \in 1..Cardinality(Known)} : IsChain(c)}
             heaviest == {c \in chains : \A d \in chains : Weight(d) <= Weight(c)}
             R == {Walk[t] : t \in Known}
             longest == Heaviest(R)
  <1>1. IsFiniteSet(Known)
    BY FS_Subset, PlanningAssumption DEF Planned, Known
  <1>2. \A c : c \in chains <=> \E t \in Known : EndsAt(c, t)
    <2>1. \A c : c \in chains <=> AChain(c)
      BY DEF AChain
    <2> QED BY <2>1, ChainsEnd
  <1>3. CASE Known = {}
    <2>1. CriticalPath = <<>>
      BY <1>3 DEF CriticalPath
    <2>2. heaviest = {}
      BY <1>2, <1>3
    <2> QED BY <2>1, <2>2 DEF CriticalPathIsLongest
  <1>4. CASE Known # {}
    <2>1. \A t \in Known : Walk[t].weight \in Nat
      BY WalkIsHeaviest, WeightsAreNat DEF HeaviestTo
    <2>2. longest \in R /\ \A r \in R : r.weight <= longest.weight
      <3>1. IsFiniteSet(R)
        BY <1>1, ImagesAreFinite
      <3>2. R # {} /\ \A r \in R : r.weight \in Nat
        BY <1>4, <2>1
      <3> HIDE DEF R
      <3> QED BY <3>1, <3>2, HeaviestIsOne
    <2>3. PICK t \in Known : longest = Walk[t]
      BY <2>2
    <2>4. CriticalPath = IF Len(longest.path) < 2 THEN <<>> ELSE longest.path
      BY <1>4 DEF CriticalPath
    <2> HIDE DEF longest, heaviest
    <2>5. EndsAt(longest.path, t) /\ longest.weight = Weight(longest.path) /\ longest.weight \in Nat
      BY <2>1, <2>3, WalkIsHeaviest DEF HeaviestTo
    <2>6. longest.path \in heaviest
      <3>1. longest.path \in chains
        BY <1>2, <2>5
      <3>2. ASSUME NEW d \in chains PROVE Weight(d) <= Weight(longest.path)
        <4> HIDE DEF chains
        <4>1. PICK u \in Known : EndsAt(d, u)
          BY <1>2, <3>2
        <4>2. Weight(d) <= Walk[u].weight /\ Weight(d) \in Nat /\ Walk[u].weight \in Nat
          BY <2>1, <4>1, WalkIsHeaviest, WeightsAreNat DEF HeaviestTo
        <4>3. Walk[u].weight <= longest.weight
          BY <2>2
        <4> QED BY <2>5, <4>2, <4>3
      <3> HIDE DEF chains
      <3> QED BY <3>1, <3>2 DEF heaviest
    <2>7. PICK n \in Nat \ {0} : longest.path \in [1..n -> Known]
      BY <2>5 DEF EndsAt
    <2>8. Len(longest.path) = n /\ DOMAIN longest.path = 1..n
      BY <2>7
    <2>9. CASE n = 1
      <3>1. CriticalPath = <<>> /\ Len(longest.path) = 1
        BY <2>4, <2>8, <2>9
      <3> HIDE DEF chains
      <3> QED BY <2>6, <3>1 DEF CriticalPathIsLongest, heaviest, chains
    <2>10. CASE n # 1
      <3>1. CriticalPath = longest.path /\ 1 \in DOMAIN longest.path
        BY <2>4, <2>7, <2>8, <2>10
      <3>2. CriticalPath # <<>>
        BY <3>1
      <3>3. CriticalPath \in heaviest
        BY <2>6, <3>1
      <3> QED BY <3>2, <3>3 DEF CriticalPathIsLongest, heaviest, chains
    <2> QED BY <2>7, <2>9, <2>10
  <1> QED BY <1>3, <1>4

\* Edges and tasks are those of the project.
LEMMA PlanStaysTyped ==
  PlanningInv /\ present \in SUBSET Tasks /\ [PlanningNext]_planningVars => (present \in SUBSET Tasks)'
  <1> SUFFICES ASSUME PlanningInv, present \in SUBSET Tasks, [PlanningNext]_planningVars
               PROVE  present' \in SUBSET Tasks
    OBVIOUS
  <1> USE DEF planningVars
  <1>1. ASSUME NEW a \in Adders, NEW t \in Tasks, NEW b \in Tasks, CheckDependency(a, t, b)
        PROVE  present' \in SUBSET Tasks
    BY <1>1 DEF CheckDependency
  <1>2. ASSUME NEW a \in Adders, AddDependency(a) \/ AddFails(a) PROVE present' \in SUBSET Tasks
    BY <1>2 DEF AddDependency, AddFails
  <1>3. ASSUME NEW e \in edges, RemoveDependency(e) PROVE present' \in SUBSET Tasks
    BY <1>3 DEF RemoveDependency
  <1>4. ASSUME NEW t \in Tasks, RemoveTask(t) PROVE present' \in SUBSET Tasks
    BY <1>4 DEF RemoveTask
  <1>5. CASE UNCHANGED planningVars
    BY <1>5
  <1> QED BY <1>1, <1>2, <1>3, <1>4, <1>5 DEF PlanningNext

\* On edges without a cycle, however they came about, the walk over the
\* blockers finds a chain that no other outweighs, and no path is shown only
\* where one task outweighs them all (repo/dependencies.go:233-285).
THEOREM CriticalPathIsRight == PlanningSpec => []CriticalPathIsLongest
  <1>1. PlanningInv /\ present \in SUBSET Tasks => CriticalPathIsLongest
    <2> SUFFICES ASSUME PlanningInv, present \in SUBSET Tasks PROVE CriticalPathIsLongest
      OBVIOUS
    <2>1. CASE NoLoop(edges)
      <3>1. Planned
        BY <2>1 DEF Planned, PlanningInv, PlanningTypeOK
      <3> QED BY <3>1, TheHeaviestIsFound
    <2>2. CASE ~NoLoop(edges)
      BY <2>2 DEF CriticalPathIsLongest
    <2> QED BY <2>1, <2>2
  <1>2. PlanningInit => PlanningInv /\ present \in SUBSET Tasks
    BY PlanningBegins DEF PlanningInit
  <1>3. PlanningInv /\ present \in SUBSET Tasks /\ [PlanningNext]_planningVars
          => PlanningInv' /\ (present \in SUBSET Tasks)'
    BY PlanningStepKeeps, PlanStaysTyped
  <1> QED BY <1>1, <1>2, <1>3, PTL DEF PlanningSpec

-----------------------------------------------------------------------------
(* Time and recordings.                                                     *)

Timer == [person : People, task : TimedTasks, since : Nat]
ClipUpload == [at : {"start", "read", "stored", "refused", "end"}, task : TimedTasks \cup {OfProject}]

TrackingTypeOK ==
  /\ clock \in Nat
  /\ timers \in SUBSET Timer /\ \A r \in timers : r.since <= clock
  /\ entries \in [People -> [TimedTasks -> Nat]]
  /\ clip \in [Clips -> TimedTasks \cup {OfProject, NoRow}]
  /\ uploads \in [Clips -> ClipUpload]

OneTimerEach == \A q, r \in timers : q.person = r.person => q = r

\* An upload has its bytes stored and no row until it is over; what is being
\* removed has no row.
UploadsComeFirst ==
  \A c \in Clips :
    /\ uploads[c].at \in {"start", "read", "stored"} => clip[c] = NoRow /\ c \notin removals
    /\ uploads[c].at = "stored" => c \in objects
    /\ uploads[c].at = "refused" /\ clip[c] # NoRow => c \in unsure
    /\ c \in removals => clip[c] = NoRow

TrackingInv == TrackingTypeOK /\ OneTimerEach /\ UploadsComeFirst /\ NoHourTwice /\ ClipsPlay

\* What entries running since then have measured by now.
TimeOf(now, R) == MapThenSumSet(LAMBDA r : now - r.since, R)

LEMMA MeasuredIsTime ==
  /\ \A p \in People : MapThenSumSet(Elapsed, RunningOf(p)) = TimeOf(clock, RunningOf(p))
  /\ \A p \in People, t \in TimedTasks :
       MapThenSumSet(Elapsed, {r \in RunningOf(p) : r.task = t})
         = TimeOf(clock, {r \in RunningOf(p) : r.task = t})
  BY DEF TimeOf, Elapsed, MapThenSumSet, MapThenFoldSet

LEMMA TimeOfNone == ASSUME NEW now PROVE TimeOf(now, {}) = 0
  <1> DEFINE Right(f) == [s \in SUBSET {} |-> IF s = {} THEN 0
                            ELSE (now - AnyOf(s).since) + f[s \ {AnyOf(s)}]]
             f0 == [s \in SUBSET {} |-> 0]
  <1>1. TimeOf(now, {}) = (CHOOSE f : f = Right(f))[{}]
    BY DEF TimeOf, MapThenSumSet, MapThenFoldSet, AnyOf
  <1>2. f0 = Right(f0)
    OBVIOUS
  <1> DEFINE f == CHOOSE h : h = Right(h)
  <1>3. f = Right(f)
    <2> HIDE DEF Right, f0
    <2> QED BY <1>2
  <1>4. f[{}] = 0
    <2> HIDE DEF f
    <2> QED BY <1>3
  <1> QED BY <1>1, <1>4

LEMMA TimeOfOne ==
  ASSUME NEW now \in Nat, NEW r, r.since \in Nat
  PROVE  TimeOf(now, {r}) = now - r.since
  <1> DEFINE Right(f) == [s \in SUBSET {r} |-> IF s = {} THEN 0
                            ELSE (now - AnyOf(s).since) + f[s \ {AnyOf(s)}]]
             f1 == [s \in SUBSET {r} |-> IF s = {} THEN 0 ELSE now - r.since]
  <1>1. TimeOf(now, {r}) = (CHOOSE f : f = Right(f))[{r}]
    BY DEF TimeOf, MapThenSumSet, MapThenFoldSet, AnyOf
  <1>2. AnyOf({r}) = r /\ {r} \ {r} = {}
    BY DEF AnyOf
  <1>3. f1 = Right(f1)
    <2>1. ASSUME NEW s \in SUBSET {r} PROVE f1[s] = Right(f1)[s]
      <3>1. CASE s = {}
        BY <3>1
      <3>2. CASE s = {r}
        <4>1. f1[{}] = 0 /\ f1[{r}] = now - r.since
          OBVIOUS
        <4>2. AnyOf({r}).since = r.since /\ {r} \ {AnyOf({r})} = {}
          BY <1>2
        <4> DEFINE first == AnyOf({r}).since
                   others == {r} \ {AnyOf({r})}
        <4>3. Right(f1)[{r}] = (now - first) + f1[others]
          <5> HIDE DEF f1
          <5> QED OBVIOUS
        <4> HIDE DEF first, others, Right, f1
        <4>4. first = r.since /\ others = {}
          BY <4>2 DEF first, others
        <4>5. (now - first) + f1[others] = now - r.since
          BY <4>1, <4>4
        <4> QED BY <3>2, <4>1, <4>3, <4>5
      <3> QED BY <3>1, <3>2
    <2> QED BY <2>1
  <1> DEFINE f == CHOOSE h : h = Right(h)
  <1>4. f = Right(f)
    <2> HIDE DEF Right, f1
    <2> QED BY <1>3
  <1>5. f[{r}] = (now - r.since) + f[{}] /\ f[{}] = 0
    <2> HIDE DEF f
    <2> QED BY <1>2, <1>4
  <1> QED BY <1>1, <1>5

HoursFit == \A p \in People : Summed(entries[p], TimedTasks) + TimeOf(clock, RunningOf(p)) <= clock

LEMMA HoursMean == (NoHourTwice <=> HoursFit) /\ (NoHourTwice' <=> HoursFit')
  BY DEF NoHourTwice, HoursFit, Summed, TimeOf, Elapsed, RunningOf, MapThenSumSet, MapThenFoldSet

\* A person has at most one timer, so what is measured is zero or one term.
LEMMA RunningIsOne ==
  ASSUME OneTimerEach, NEW p
  PROVE  RunningOf(p) = {} \/ \E r \in timers : RunningOf(p) = {r} /\ r.person = p
  BY DEF OneTimerEach, RunningOf

\* What a person's sums are, and that they are numbers.
LEMMA SumsAreNat ==
  ASSUME TrackingTypeOK, OneTimerEach, NEW p \in People
  PROVE  Summed(entries[p], TimedTasks) \in Nat /\ TimeOf(clock, RunningOf(p)) \in Nat
  <1>1. Summed(entries[p], TimedTasks) \in Nat
    BY SumIsNat, TrackingAssumption DEF TrackingTypeOK
  <1>2. TimeOf(clock, RunningOf(p)) \in Nat
    <2>1. CASE RunningOf(p) = {}
      BY <2>1, TimeOfNone
    <2>2. ASSUME NEW r \in timers, RunningOf(p) = {r} PROVE TimeOf(clock, RunningOf(p)) \in Nat
      <3>1. r.since \in Nat /\ r.since <= clock /\ clock \in Nat
        BY DEF TrackingTypeOK, Timer
      <3> QED BY <2>2, <3>1, TimeOfOne
    <2> QED BY <2>1, <2>2, RunningIsOne
  <1> QED BY <1>1, <1>2

LEMMA TickKeepsHours ==
  ASSUME TrackingInv, Tick
  PROVE  HoursFit'
  <1> SUFFICES ASSUME NEW p \in People
               PROVE  Summed(entries[p], TimedTasks) + TimeOf(clock + 1, RunningOf(p)) <= clock + 1
    BY DEF HoursFit, Tick, RunningOf
  <1>1. Summed(entries[p], TimedTasks) + TimeOf(clock, RunningOf(p)) <= clock
    BY HoursMean DEF TrackingInv, HoursFit
  <1>2. Summed(entries[p], TimedTasks) \in Nat /\ clock \in Nat
    BY SumsAreNat DEF TrackingInv, TrackingTypeOK
  <1>3. CASE RunningOf(p) = {}
    BY <1>1, <1>2, <1>3, TimeOfNone
  <1>4. ASSUME NEW r \in timers, RunningOf(p) = {r} PROVE TimeOf(clock + 1, RunningOf(p)) = TimeOf(clock, RunningOf(p)) + 1
    <2>1. r.since \in Nat /\ r.since <= clock
      BY DEF TrackingInv, TrackingTypeOK, Timer
    <2>2. TimeOf(clock, {r}) = clock - r.since /\ TimeOf(clock + 1, {r}) = (clock + 1) - r.since
      BY <1>2, <2>1, TimeOfOne
    <2> QED BY <1>2, <1>4, <2>1, <2>2
  <1>5. TimeOf(clock, RunningOf(p)) \in Nat
    BY SumsAreNat DEF TrackingInv
  <1> QED BY <1>1, <1>2, <1>3, <1>4, <1>5, RunningIsOne DEF TrackingInv

LEMMA StartKeepsHours ==
  ASSUME TrackingInv, NEW q \in People, NEW t \in TimedTasks, StartTimer(q, t)
  PROVE  HoursFit'
  <1> DEFINE new == [person |-> q, task |-> t, since |-> clock]
             Now(p) == {r \in timers' : r.person = p}
  <1> SUFFICES ASSUME NEW p \in People
               PROVE  Summed(entries[p], TimedTasks) + TimeOf(clock, Now(p)) <= clock
    BY DEF HoursFit, StartTimer, timeVars, RunningOf
  <1>1. Summed(entries[p], TimedTasks) + TimeOf(clock, RunningOf(p)) <= clock
    BY HoursMean DEF TrackingInv, HoursFit
  <1>2. new.person = q /\ new.since = clock
    OBVIOUS
  <1>3. timers' = timers \cup {new}
    BY DEF StartTimer
  <1> HIDE DEF new
  <1>4. CASE p # q
    BY <1>1, <1>2, <1>3, <1>4 DEF RunningOf
  <1>5. CASE p = q
    <2>1. RunningOf(p) = {} /\ Now(p) = {new}
      BY <1>2, <1>3, <1>5 DEF StartTimer, RunningOf
    <2>2. TimeOf(clock, {new}) = 0 /\ TimeOf(clock, {}) = 0
      BY <1>2, TimeOfOne, TimeOfNone DEF TrackingInv, TrackingTypeOK
    <2> QED BY <1>1, <2>1, <2>2
  <1> QED BY <1>4, <1>5

LEMMA StopKeepsHours ==
  ASSUME TrackingInv, NEW q \in People, StopTimer(q)
  PROVE  HoursFit'
  <1> DEFINE Now(p) == {r \in timers' : r.person = p}
  <1> SUFFICES ASSUME NEW p \in People
               PROVE  Summed(entries'[p], TimedTasks) + TimeOf(clock, Now(p)) <= clock
    BY DEF HoursFit, StopTimer, RunningOf
  <1>1. Summed(entries[p], TimedTasks) + TimeOf(clock, RunningOf(p)) <= clock
    BY HoursMean DEF TrackingInv, HoursFit
  <1>2. CASE p # q
    <2>1. entries'[p] = entries[p] /\ Now(p) = RunningOf(p)
      BY <1>2 DEF StopTimer, RunningOf, TrackingInv, TrackingTypeOK
    <2> QED BY <1>1, <2>1
  <1>3. CASE p = q
    <2>1. PICK r \in timers : RunningOf(p) = {r}
      BY <1>3, RunningIsOne DEF StopTimer, TrackingInv
    <2>2. r.since \in Nat /\ r.since <= clock /\ clock \in Nat /\ r.task \in TimedTasks
      BY DEF TrackingInv, TrackingTypeOK, Timer
    <2>3. Now(p) = {}
      BY <1>3 DEF StopTimer, RunningOf
    <2> DEFINE Adds(t) == TimeOf(clock, {x \in RunningOf(p) : x.task = t})
               g == entries[p]
               h == entries'[p]
    <2>4. g \in [TimedTasks -> Nat]
      BY DEF TrackingInv, TrackingTypeOK
    <2>5. h = [t \in TimedTasks |-> g[t] + Adds(t)]
      <3>1. h = [t \in TimedTasks |-> g[t] + MapThenSumSet(Elapsed, {x \in RunningOf(p) : x.task = t})]
        BY <1>3 DEF StopTimer, TrackingInv, TrackingTypeOK
      <3> HIDE DEF g, h
      <3> QED BY <3>1, MeasuredIsTime
    <2>6. Adds(r.task) = clock - r.since
      <3>1. {x \in RunningOf(p) : x.task = r.task} = {r}
        BY <2>1
      <3> QED BY <2>2, <3>1, TimeOfOne
    <2>7. ASSUME NEW t \in TimedTasks \ {r.task} PROVE Adds(t) = 0
      <3>1. {x \in RunningOf(p) : x.task = t} = {}
        BY <2>1
      <3> QED BY <3>1, TimeOfNone
    <2> HIDE DEF Adds, g, h
    <2>8. h[r.task] = g[r.task] + (clock - r.since) /\ \A t \in TimedTasks \ {r.task} : h[t] = g[t]
      BY <2>2, <2>4, <2>5, <2>6, <2>7
    <2>9. Summed(h, TimedTasks) = Summed(g, TimedTasks) + (clock - r.since)
      <3>1. clock - r.since \in Nat
        BY <2>2
      <3> QED BY <2>2, <2>4, <2>8, <3>1, SumGrowsBy, TrackingAssumption
    <2>10. TimeOf(clock, RunningOf(p)) = clock - r.since /\ TimeOf(clock, Now(p)) = 0
      BY <2>1, <2>2, <2>3, TimeOfOne, TimeOfNone
    <2>11. Summed(g, TimedTasks) \in Nat
      BY <2>4, SumIsNat, TrackingAssumption
    <2>12. Summed(g, TimedTasks) + (clock - r.since) <= clock
      BY <1>1, <2>10 DEF g
    <2> HIDE DEF Now
    <2>13. Summed(h, TimedTasks) + TimeOf(clock, Now(p)) <= clock
      BY <2>2, <2>9, <2>10, <2>11, <2>12
    <2> QED BY <2>13 DEF h
  <1> QED BY <1>2, <1>3

LEMMA LosingATaskKeepsHours ==
  ASSUME TrackingInv, NEW lost \in TimedTasks, LoseTask(lost)
  PROVE  HoursFit'
  <1> DEFINE Now(p) == {r \in timers' : r.person = p}
  <1> SUFFICES ASSUME NEW p \in People
               PROVE  Summed(entries'[p], TimedTasks) + TimeOf(clock, Now(p)) <= clock
    BY DEF HoursFit, LoseTask, RunningOf
  <1>1. Summed(entries[p], TimedTasks) + TimeOf(clock, RunningOf(p)) <= clock
    BY HoursMean DEF TrackingInv, HoursFit
  <1> DEFINE g == entries[p]
             h == entries'[p]
  <1>2. g \in [TimedTasks -> Nat] /\ h = [g EXCEPT ![lost] = 0]
    BY DEF LoseTask, TrackingInv, TrackingTypeOK
  <1>3. Summed(g, TimedTasks) \in Nat /\ TimeOf(clock, RunningOf(p)) \in Nat /\ clock \in Nat
    BY SumsAreNat DEF TrackingInv, TrackingTypeOK
  <1>4. Now(p) = {r \in RunningOf(p) : r.task # lost}
    BY DEF LoseTask, RunningOf
  <1>5. Now(p) = RunningOf(p) \/ Now(p) = {}
    BY <1>4, RunningIsOne DEF TrackingInv
  <1>6. TimeOf(clock, Now(p)) \in Nat /\ TimeOf(clock, Now(p)) <= TimeOf(clock, RunningOf(p))
    BY <1>3, <1>5, TimeOfNone
  <1> HIDE DEF g, h
  <1>7. Summed(g, TimedTasks) = Summed(h, TimedTasks) + g[lost]
    <2>1. \A t \in TimedTasks : h[t] \in Nat
      BY <1>2
    <2>2. h[lost] = 0 /\ \A t \in TimedTasks \ {lost} : g[t] = h[t]
      BY <1>2
    <2>3. g[lost] \in Nat /\ g[lost] = h[lost] + g[lost]
      BY <1>2, <2>2
    <2> QED BY <2>1, <2>2, <2>3, SumGrowsBy, TrackingAssumption
  <1>8. Summed(h, TimedTasks) \in Nat /\ g[lost] \in Nat
    <2>1. \A t \in TimedTasks : h[t] \in Nat
      BY <1>2
    <2> QED BY <1>2, <2>1, SumIsNat, TrackingAssumption
  <1>9. Summed(g, TimedTasks) + TimeOf(clock, RunningOf(p)) <= clock
    BY <1>1 DEF g
  <1> HIDE DEF Now
  <1>10. Summed(h, TimedTasks) + TimeOf(clock, Now(p)) <= clock
    BY <1>3, <1>6, <1>7, <1>8, <1>9
  <1> QED BY <1>10 DEF h

\* With nothing recorded and no timer, nothing is counted.
LEMMA NothingIsCounted ==
  ASSUME NEW p \in People
  PROVE  Summed(None[p], TimedTasks) + TimeOf(clock, {}) = 0
  <1>1. \A t \in TimedTasks : None[p][t] = 0
    BY DEF None
  <1>2. Summed(None[p], TimedTasks) = 0
    BY <1>1, SumOfZeros, TrackingAssumption
  <1> QED BY <1>2, TimeOfNone

LEMMA TrackingStarts == TrackingInit => TrackingInv
  <1> SUFFICES ASSUME TrackingInit PROVE TrackingInv
    OBVIOUS
  <1>1. TrackingTypeOK
    BY DEF TrackingInit, TrackingTypeOK, None, ClipUpload
  <1>2. OneTimerEach /\ UploadsComeFirst /\ ClipsPlay
    BY DEF TrackingInit, OneTimerEach, UploadsComeFirst, ClipsPlay
  <1>3. HoursFit
    <2> SUFFICES ASSUME NEW p \in People
                 PROVE  Summed(entries[p], TimedTasks) + TimeOf(clock, RunningOf(p)) <= clock
      BY DEF HoursFit
    <2>1. entries[p] = None[p] /\ RunningOf(p) = {} /\ clock = 0
      BY DEF TrackingInit, RunningOf
    <2> QED BY <2>1, NothingIsCounted
  <1> QED BY <1>1, <1>2, <1>3, HoursMean DEF TrackingInv

\* What a step leaves of the types and of the order of uploads and removals.
LEMMA TimeStepsAreTyped ==
  ASSUME TrackingInv, UNCHANGED clipVars,
         \/ Tick \/ \E p \in People : StopTimer(p)
         \/ \E p \in People, t \in TimedTasks : StartTimer(p, t)
         \/ UNCHANGED <<clock, timers, entries>>
  PROVE  TrackingTypeOK' /\ OneTimerEach' /\ UploadsComeFirst' /\ ClipsPlay'
  <1>1. UploadsComeFirst' /\ ClipsPlay'
    BY DEF TrackingInv, UploadsComeFirst, ClipsPlay, clipVars
  <1>2. clip' \in [Clips -> TimedTasks \cup {OfProject, NoRow}] /\ uploads' \in [Clips -> ClipUpload]
    BY DEF TrackingInv, TrackingTypeOK, clipVars
  <1>3. CASE Tick
    <2>1. clock' \in Nat /\ \A r \in timers' : r.since <= clock'
      BY <1>3 DEF TrackingInv, TrackingTypeOK, Timer, Tick
    <2> QED BY <1>1, <1>2, <1>3, <2>1 DEF TrackingInv, TrackingTypeOK, OneTimerEach, Tick
  <1>4. CASE \E p \in People : StopTimer(p)
    <2> PICK p \in People : StopTimer(p)
      BY <1>4
    <2>1. PICK r \in timers : RunningOf(p) = {r}
      BY RunningIsOne DEF TrackingInv, StopTimer
    <2>2. ASSUME NEW t \in TimedTasks
          PROVE  entries[p][t] + MapThenSumSet(Elapsed, {x \in RunningOf(p) : x.task = t}) \in Nat
      <3>1. r.since \in Nat /\ r.since <= clock /\ clock \in Nat /\ entries[p][t] \in Nat
        BY DEF TrackingInv, TrackingTypeOK, Timer
      <3> DEFINE R == {x \in RunningOf(p) : x.task = t}
      <3>2. R = {} \/ R = {r}
        BY <2>1
      <3> HIDE DEF R
      <3>3. TimeOf(clock, R) \in Nat
        BY <3>1, <3>2, TimeOfOne, TimeOfNone
      <3>4. MapThenSumSet(Elapsed, R) = TimeOf(clock, R)
        BY MeasuredIsTime DEF R
      <3>5. entries[p][t] + MapThenSumSet(Elapsed, R) \in Nat
        BY <3>1, <3>3, <3>4
      <3> QED BY <3>5 DEF R
    <2>3. entries' \in [People -> [TimedTasks -> Nat]]
      <3> DEFINE more == [t \in TimedTasks |->
                   entries[p][t] + MapThenSumSet(Elapsed, {x \in RunningOf(p) : x.task = t})]
      <3>1. more \in [TimedTasks -> Nat]
        BY <2>2
      <3>2. entries' = [entries EXCEPT ![p] = more]
        BY DEF StopTimer
      <3> HIDE DEF more
      <3> QED BY <3>1, <3>2 DEF TrackingInv, TrackingTypeOK
    <2>4. clock' = clock /\ timers' \subseteq timers
      BY DEF StopTimer
    <2> QED BY <1>1, <1>2, <2>3, <2>4 DEF TrackingInv, TrackingTypeOK, OneTimerEach
  <1>5. CASE \E p \in People, t \in TimedTasks : StartTimer(p, t)
    <2> PICK p \in People, t \in TimedTasks : StartTimer(p, t)
      BY <1>5
    <2> DEFINE new == [person |-> p, task |-> t, since |-> clock]
    <2>1. new \in Timer /\ new.person = p /\ new.since = clock /\ timers' = timers \cup {new}
      BY DEF StartTimer, Timer, TrackingInv, TrackingTypeOK
    <2>2. \A r \in timers : r.person # p
      BY DEF StartTimer, RunningOf
    <2>3. clock' = clock /\ entries' = entries
      BY DEF StartTimer
    <2> HIDE DEF new
    <2>4. OneTimerEach'
      BY <2>1, <2>2 DEF TrackingInv, OneTimerEach
    <2>5. timers' \subseteq Timer /\ \A r \in timers' : r.since <= clock'
      BY <2>1, <2>3 DEF TrackingInv, TrackingTypeOK
    <2> QED BY <1>1, <1>2, <2>3, <2>4, <2>5 DEF TrackingInv, TrackingTypeOK
  <1>6. CASE UNCHANGED <<clock, timers, entries>>
    BY <1>1, <1>2, <1>6 DEF TrackingInv, TrackingTypeOK, OneTimerEach
  <1> QED BY <1>3, <1>4, <1>5, <1>6

\* The steps of one recording.
ClipStep(c) ==
  \/ \E t \in TimedTasks \cup {OfProject} : UploadClip(c, t)
  \/ PutClip(c) \/ CreateClip(c) \/ CreateFails(c) \/ CleanUp(c) \/ UploadDies(c)
  \/ DeleteClip(c) \/ DeleteObject(c)

LEMMA ClipStepsAreTyped ==
  ASSUME TrackingInv, NEW c \in Clips, ClipStep(c)
  PROVE  TrackingTypeOK' /\ OneTimerEach' /\ UploadsComeFirst' /\ ClipsPlay' /\ UNCHANGED timeVars
  <1>1. UNCHANGED timeVars
    BY DEF ClipStep, UploadClip, PutClip, CreateClip, CreateFails, CleanUp, UploadDies, DeleteClip, DeleteObject
  <1>2. clock' \in Nat /\ timers' \in SUBSET Timer /\ (\A r \in timers' : r.since <= clock')
        /\ entries' \in [People -> [TimedTasks -> Nat]] /\ OneTimerEach'
    BY <1>1 DEF TrackingInv, TrackingTypeOK, OneTimerEach, timeVars
  <1> DEFINE IsAt(at, t) == uploads' \in [Clips -> ClipUpload] /\ uploads'[c].at = at /\ uploads'[c].task = t
                            /\ \A x \in Clips \ {c} : uploads'[x] = uploads[x]
  <1>3. ASSUME NEW at \in {"start", "read", "stored", "refused", "end"}, Upload(c, at)
        PROVE  IsAt(at, uploads[c].task)
    BY <1>3 DEF Upload, TrackingInv, TrackingTypeOK, ClipUpload
  <1>4. ASSUME NEW t \in TimedTasks \cup {OfProject}, uploads' = [uploads EXCEPT ![c] = [at |-> "read", task |-> t]]
        PROVE  IsAt("read", t)
    BY <1>4 DEF TrackingInv, TrackingTypeOK, ClipUpload
  <1>5. uploads[c].task \in TimedTasks \cup {OfProject} /\ NoRow \notin TimedTasks \cup {OfProject}
        /\ clip \in [Clips -> TimedTasks \cup {OfProject, NoRow}] /\ uploads \in [Clips -> ClipUpload]
    BY TrackingAssumption DEF TrackingInv, TrackingTypeOK, ClipUpload
  <1>6. UploadsComeFirst /\ ClipsPlay
    BY DEF TrackingInv
  <1> DEFINE Rest == clip' \in [Clips -> TimedTasks \cup {OfProject, NoRow}]
                     /\ uploads' \in [Clips -> ClipUpload] /\ UploadsComeFirst' /\ ClipsPlay'
  <1>7. ASSUME \E t \in TimedTasks \cup {OfProject} : UploadClip(c, t) PROVE Rest
    <2> PICK t \in TimedTasks \cup {OfProject} : UploadClip(c, t)
      BY <1>7
    <2>1. IsAt("read", t)
      BY <1>4 DEF UploadClip
    <2> QED BY <1>5, <1>6, <2>1 DEF UploadClip, UploadsComeFirst, ClipsPlay
  <1>8. ASSUME PutClip(c) PROVE Rest
    <2>1. ASSUME Upload(c, "stored"), objects' = objects \cup {c} PROVE Rest
      <3>1. IsAt("stored", uploads[c].task)
        BY <1>3, <2>1
      <3> QED BY <1>5, <1>6, <1>8, <2>1, <3>1 DEF PutClip, UploadsComeFirst, ClipsPlay
    <2>2. ASSUME Upload(c, "end"), objects' \in {objects, objects \cup {c}} PROVE Rest
      <3>1. IsAt("end", uploads[c].task)
        BY <1>3, <2>2
      <3> QED BY <1>5, <1>6, <1>8, <2>2, <3>1 DEF PutClip, UploadsComeFirst, ClipsPlay
    <2> QED BY <1>8, <2>1, <2>2 DEF PutClip
  <1>9. ASSUME CreateClip(c) PROVE Rest
    <2>1. clip' \in [Clips -> TimedTasks \cup {OfProject, NoRow}] /\ clip'[c] = uploads[c].task
          /\ \A x \in Clips \ {c} : clip'[x] = clip[x]
      BY <1>5, <1>9 DEF CreateClip
    <2>2. ASSUME Upload(c, "end"), UNCHANGED unsure PROVE Rest
      <3>1. IsAt("end", uploads[c].task)
        BY <1>3, <2>2
      <3> QED BY <1>5, <1>6, <1>9, <2>1, <2>2, <3>1 DEF CreateClip, UploadsComeFirst, ClipsPlay
    <2>3. ASSUME Upload(c, "refused"), unsure' = unsure \cup {c} PROVE Rest
      <3>1. IsAt("refused", uploads[c].task)
        BY <1>3, <2>3
      <3> QED BY <1>5, <1>6, <1>9, <2>1, <2>3, <3>1 DEF CreateClip, UploadsComeFirst, ClipsPlay
    <2> QED BY <1>9, <2>2, <2>3 DEF CreateClip
  <1>10. ASSUME CreateFails(c) PROVE Rest
    <2>1. IsAt("refused", uploads[c].task)
      BY <1>3, <1>10 DEF CreateFails
    <2> QED BY <1>5, <1>6, <1>10, <2>1 DEF CreateFails, UploadsComeFirst, ClipsPlay
  <1>11. ASSUME CleanUp(c) PROVE Rest
    <2>1. IsAt("end", uploads[c].task)
      BY <1>3, <1>11 DEF CleanUp
    <2> QED BY <1>5, <1>6, <1>11, <2>1 DEF CleanUp, UploadsComeFirst, ClipsPlay
  <1>12. ASSUME UploadDies(c) PROVE Rest
    <2>1. IsAt("end", uploads[c].task)
      BY <1>3, <1>12 DEF UploadDies
    <2> QED BY <1>5, <1>6, <1>12, <2>1 DEF UploadDies, UploadsComeFirst, ClipsPlay
  <1>13. ASSUME DeleteClip(c) PROVE Rest
    BY <1>5, <1>6, <1>13 DEF DeleteClip, UploadsComeFirst, ClipsPlay
  <1>14. ASSUME DeleteObject(c) PROVE Rest
    BY <1>5, <1>6, <1>14 DEF DeleteObject, UploadsComeFirst, ClipsPlay
  <1> HIDE DEF Rest
  <1>15. Rest
    BY <1>7, <1>8, <1>9, <1>10, <1>11, <1>12, <1>13, <1>14 DEF ClipStep
  <1> QED BY <1>1, <1>2, <1>15 DEF Rest, TrackingTypeOK

\* The steps that take rows away with a task or with the project.
LEMMA LossesAreTyped ==
  ASSUME TrackingInv, LoseProject \/ \E t \in TimedTasks : LoseTask(t)
  PROVE  TrackingTypeOK' /\ OneTimerEach' /\ UploadsComeFirst' /\ ClipsPlay'
  <1>1. CASE LoseProject
    BY <1>1 DEF LoseProject, TrackingInv, TrackingTypeOK, None, OneTimerEach, UploadsComeFirst, ClipsPlay
  <1>2. CASE \E t \in TimedTasks : LoseTask(t)
    <2> PICK t \in TimedTasks : LoseTask(t)
      BY <1>2
    <2>1. clock' = clock /\ timers' \subseteq timers /\ OneTimerEach'
      BY DEF LoseTask, TrackingInv, OneTimerEach
    <2>2. entries' \in [People -> [TimedTasks -> Nat]]
      BY DEF LoseTask, TrackingInv, TrackingTypeOK
    <2>3. clip' \in [Clips -> TimedTasks \cup {OfProject, NoRow}] /\ \A c \in Clips : clip'[c] = NoRow <=> clip[c] = NoRow
      BY TrackingAssumption DEF LoseTask, TrackingInv, TrackingTypeOK
    <2>4. uploads' = uploads /\ objects' = objects /\ removals' = removals /\ unsure' = unsure
      BY DEF LoseTask
    <2> QED BY <2>1, <2>2, <2>3, <2>4 DEF TrackingInv, TrackingTypeOK, UploadsComeFirst, ClipsPlay
  <1> QED BY <1>1, <1>2

LEMMA TrackingIsInductive == TrackingInv /\ [TrackingNext]_trackingVars => TrackingInv'
  <1> SUFFICES ASSUME TrackingInv, [TrackingNext]_trackingVars
               PROVE  TrackingInv'
    OBVIOUS
  <1>1. ASSUME UNCHANGED timeVars PROVE HoursFit'
    <2>1. HoursFit' <=> HoursFit
      BY <1>1 DEF timeVars, HoursFit, RunningOf
    <2> QED BY <2>1, HoursMean DEF TrackingInv
  <1>2. CASE Tick
    <2>1. UNCHANGED clipVars
      BY <1>2 DEF Tick
    <2> QED BY <1>2, <2>1, TimeStepsAreTyped, TickKeepsHours, HoursMean DEF TrackingInv
  <1>3. CASE LoseProject
    <2>1. HoursFit'
      <3> SUFFICES ASSUME NEW p \in People
                   PROVE  Summed(entries'[p], TimedTasks) + TimeOf(clock', {r \in timers' : r.person = p}) <= clock'
        BY DEF HoursFit, RunningOf
      <3>1. entries'[p] = None[p] /\ {r \in timers' : r.person = p} = {} /\ clock' = clock /\ clock \in Nat
        BY <1>3 DEF LoseProject, TrackingInv, TrackingTypeOK
      <3>2. TimeOf(clock', {r \in timers' : r.person = p}) = TimeOf(clock, {})
        BY <3>1
      <3>3. Summed(entries'[p], TimedTasks) = Summed(None[p], TimedTasks)
        BY <3>1
      <3> HIDE DEF None
      <3> QED BY <3>1, <3>2, <3>3, NothingIsCounted
    <2> QED BY <1>3, <2>1, LossesAreTyped, HoursMean DEF TrackingInv
  <1>4. ASSUME NEW p \in People, StopTimer(p) PROVE TrackingInv'
    <2>1. UNCHANGED clipVars
      BY <1>4 DEF StopTimer
    <2> QED BY <1>4, <2>1, TimeStepsAreTyped, StopKeepsHours, HoursMean DEF TrackingInv
  <1>5. ASSUME NEW p \in People, NEW t \in TimedTasks, StartTimer(p, t) PROVE TrackingInv'
    <2>1. UNCHANGED clipVars
      BY <1>5 DEF StartTimer
    <2> QED BY <1>5, <2>1, TimeStepsAreTyped, StartKeepsHours, HoursMean DEF TrackingInv
  <1>6. ASSUME UNCHANGED <<clock, timers, entries, clipVars>> PROVE TrackingInv'
    <2>1. HoursFit' <=> HoursFit
      BY <1>6 DEF HoursFit, RunningOf
    <2> QED BY <1>6, <2>1, TimeStepsAreTyped, HoursMean DEF TrackingInv
  <1>7. ASSUME NEW p \in People, NEW t \in TimedTasks,
               WatchTask(p, t) \/ UnwatchTask(p, t) \/ \E ticks \in 1..MaxByHand : LogTime(p, t, ticks)
        PROVE  TrackingInv'
    BY <1>6, <1>7 DEF WatchTask, UnwatchTask, LogTime, timeVars
  <1>8. ASSUME NEW t \in TimedTasks, NEW f \in Fields, NEW v \in FieldValues, SetValues(t, f, v) PROVE TrackingInv'
    BY <1>6, <1>8 DEF SetValues, timeVars
  <1>9. ASSUME NEW t \in TimedTasks, LoseTask(t) PROVE TrackingInv'
    BY <1>9, LossesAreTyped, LosingATaskKeepsHours, HoursMean DEF TrackingInv
  <1>10. ASSUME NEW c \in Clips, ClipStep(c) PROVE TrackingInv'
    BY <1>1, <1>10, ClipStepsAreTyped, HoursMean DEF TrackingInv
  <1>11. CASE UNCHANGED trackingVars
    BY <1>6, <1>11 DEF trackingVars, timeVars
  <1> QED BY <1>2, <1>3, <1>4, <1>5, <1>7, <1>8, <1>9, <1>10, <1>11 DEF TrackingNext, ClipStep

\* No hour a timer measured is counted twice, and every recording that is
\* listed can be played.
THEOREM KeptStaysRight == TrackingSpec => []KeptIsRight
  <1>1. TrackingInv => KeptIsRight
    BY DEF TrackingInv, KeptIsRight
  <1> QED BY <1>1, TrackingStarts, TrackingIsInductive, PTL DEF TrackingSpec

-----------------------------------------------------------------------------
(* Settings.                                                                 *)

SettingsTypeOK ==
  /\ stored \in Overrides /\ running \in [Servers -> [Keys -> Values]] /\ mirror \in [Servers -> [Keys -> Values]]
  /\ ticking \in [Servers -> [Sweeps -> SUBSET Timetables]]
  /\ current \in [Servers -> [Sweeps -> Timetables \cup {Unset}]]
  /\ saving \in [Saves -> SaveStates \cup {Unset}]
  /\ doubts \subseteq Servers \X Aspects

\* A save that is marked alone is the only one under way, anywhere.
AloneIsAlone == \A w \in UnderWay : saving[w].alone => UnderWay = {w}

\* Two saves on one server leave doubt about all of it.
MeetingsAreDoubtful(s) == \A w, x \in UnderWayOn(s) : w = x \/ {s} \X Aspects \subseteq doubts

\* How far a save that nothing came between has brought the values: its copy
\* is what is stored, and from its Apply on what is stored is in force.
ValuesOnTheWay(s) ==
  /\ UnderWayOn(s) = {} => <<s, "values">> \in doubts \/ ValuesInForce(s)
  /\ \A w \in UnderWayOn(s) : saving[w].alone \/ <<s, "values">> \notin doubts =>
       /\ saving[w].step = "read" => saving[w].overrides = stored
       /\ saving[w].step \in {"applied", "alertsOff", "alertsOn", "retentionOff", "retentionOn"} => ValuesInForce(s)

Undisturbed(s, j) == current[s][j] \in Timetables \cup {Unset} /\ ticking[s][j] = Runs(current[s][j])
Steady(s, j) == /\ \E by \in Saves \cup {"boot"} : current[s][j] = Built(by, j, running[s])
                /\ Undisturbed(s, j)

\* ... and the schedules: between Apply and its stop a sweep's is the earlier
\* one, between stop and start there is none.
Rebuilt(j) == {"saved", "read", "retentionOn"} \cup (IF j = "alerts" THEN {"alertsOn", "retentionOff"} ELSE {})
Waiting(j) == {"applied"} \cup (IF j = "alerts" THEN {} ELSE {"alertsOff", "alertsOn"})
TimetableOnTheWay(s) ==
  <<s, "timetable">> \notin doubts =>
    \A j \in Sweeps :
      /\ UnderWayOn(s) = {} => Steady(s, j)
      /\ \A w \in UnderWayOn(s) :
           /\ saving[w].step \in Rebuilt(j) => Steady(s, j)
           /\ saving[w].step \in Waiting(j) => Undisturbed(s, j)
           /\ saving[w].step = Off[j] => ticking[s][j] = {} /\ current[s][j] = Unset

MirrorOnTheWay(s) == UnderWayOn(s) = {} => <<s, "mirror">> \in doubts \/ MirrorInForce(s)

OnTheWay(s) ==
  MeetingsAreDoubtful(s) /\ ValuesOnTheWay(s) /\ TimetableOnTheWay(s) /\ MirrorOnTheWay(s)

SettingsInv == SettingsTypeOK /\ AloneIsAlone /\ \A s \in Servers : OnTheWay(s)

LEMMA BuiltIsTyped ==
  ASSUME NEW by \in Saves \cup {"boot"}, NEW j \in Sweeps, NEW inForce \in [Keys -> Values]
  PROVE  /\ Built(by, j, inForce) \in Timetables \cup {Unset}
         /\ Runs(Built(by, j, inForce)) \in SUBSET Timetables
  BY SettingsAssumption DEF Built, Timetables, Runs

LEMMA SettingsStart == SettingsInit => SettingsInv
  <1> SUFFICES ASSUME SettingsInit PROVE SettingsInv
    OBVIOUS
  <1>1. NothingStored \in Overrides
    BY DEF NothingStored, Overrides
  <1> DEFINE boot(j) == Built("boot", j, Baseline)
  <1>2. ASSUME NEW j \in Sweeps PROVE boot(j) \in Timetables \cup {Unset} /\ Runs(boot(j)) \in SUBSET Timetables
    BY BuiltIsTyped, SettingsAssumption
  <1>3. /\ running = [s \in Servers |-> Baseline] /\ current = [s \in Servers |-> [j \in Sweeps |-> boot(j)]]
        /\ ticking = [s \in Servers |-> [j \in Sweeps |-> Runs(boot(j))]]
    BY DEF SettingsInit
  <1> HIDE DEF boot
  <1>4. SettingsTypeOK
    BY <1>1, <1>2, <1>3, SettingsAssumption DEF SettingsInit, SettingsTypeOK
  <1>5. Merge(stored, Baseline) = Baseline
    BY SettingsAssumption DEF Merge, SettingsInit, NothingStored
  <1>6. UnderWay = {} /\ \A s \in Servers : UnderWayOn(s) = {}
    BY DEF SettingsInit, UnderWay, UnderWayOn
  <1>7. ASSUME NEW s \in Servers PROVE OnTheWay(s)
    <2>1. ASSUME NEW j \in Sweeps PROVE Steady(s, j)
      BY <1>2, <1>3 DEF Steady, Undisturbed, boot
    <2> QED BY <1>5, <1>6, <2>1 DEF SettingsInit, OnTheWay, MeetingsAreDoubtful, ValuesOnTheWay, TimetableOnTheWay,
                                    MirrorOnTheWay, ValuesInForce, MirrorInForce
  <1> QED BY <1>4, <1>6, <1>7 DEF SettingsInv, AloneIsAlone

\* What a save's move to its next step leaves of the saves.
LEMMA SaveGoes ==
  ASSUME SettingsTypeOK, NEW w \in UnderWay,
         NEW step \in SaveSteps, Goes(w, step)
  PROVE  /\ saving' \in [Saves -> SaveStates \cup {Unset}] /\ w \in Saves /\ saving[w] \in SaveStates
         /\ saving'[w].server = saving[w].server /\ saving'[w].alone = saving[w].alone
         /\ saving'[w].overrides = saving[w].overrides /\ saving'[w].step = step
         /\ \A x \in Saves \ {w} : saving'[x] = saving[x]
         /\ step # "answered" => UnderWay' = UnderWay /\ \A s \in Servers : UnderWayOn(s)' = UnderWayOn(s)
         /\ step = "answered" => UnderWay' = UnderWay \ {w} /\ \A s \in Servers : UnderWayOn(s)' = UnderWayOn(s) \ {w}
  <1> DEFINE was == saving[w]
             is == [was EXCEPT !.step = step]
  <1>1. w \in Saves /\ was \in SaveStates
    BY DEF UnderWay, SettingsTypeOK
  <1>2. is \in SaveStates /\ is.server = was.server /\ is.alone = was.alone /\ is.overrides = was.overrides /\ is.step = step
    BY <1>1 DEF SaveStates
  <1>3. saving' = [saving EXCEPT ![w] = is]
    BY DEF Goes
  <1> HIDE DEF is
  <1>4. saving' \in [Saves -> SaveStates \cup {Unset}] /\ saving'[w] = is /\ \A x \in Saves \ {w} : saving'[x] = saving[x]
    BY <1>1, <1>2, <1>3 DEF SettingsTypeOK
  <1>5. saving'[w] # Unset
    BY <1>2, <1>4, UnsetAssumption
  <1>6. step # "answered" => UnderWay' = UnderWay
    BY <1>1, <1>2, <1>4, <1>5 DEF UnderWay
  <1>7. step = "answered" => UnderWay' = UnderWay \ {w}
    BY <1>1, <1>2, <1>4, <1>5 DEF UnderWay
  <1>8. \A x \in UnderWay : saving'[x].server = saving[x].server
    BY <1>2, <1>4 DEF UnderWay
  <1>9. step # "answered" => \A s \in Servers : UnderWayOn(s)' = UnderWayOn(s)
    BY <1>6, <1>8 DEF UnderWayOn
  <1>10. step = "answered" => \A s \in Servers : UnderWayOn(s)' = UnderWayOn(s) \ {w}
    BY <1>7, <1>8 DEF UnderWayOn
  <1> QED BY <1>1, <1>2, <1>4, <1>6, <1>7, <1>9, <1>10

\* A server nothing happens to stays as it is.
LEMMA OthersStay ==
  ASSUME NEW s \in Servers, OnTheWay(s), stored' = stored, running'[s] = running[s], ticking'[s] = ticking[s],
         current'[s] = current[s], mirror'[s] = mirror[s], UnderWayOn(s)' = UnderWayOn(s),
         \A w \in UnderWayOn(s) : saving'[w] = saving[w],
         \A a \in Aspects : <<s, a>> \in doubts' <=> <<s, a>> \in doubts
  PROVE  OnTheWay(s)'
  <1>1. ({s} \X Aspects \subseteq doubts') <=> ({s} \X Aspects \subseteq doubts)
    OBVIOUS
  <1>2. \A a \in {"values", "timetable", "mirror"} : <<s, a>> \in doubts' <=> <<s, a>> \in doubts
    BY DEF Aspects
  <1>3. MeetingsAreDoubtful(s)'
    BY <1>1 DEF OnTheWay, MeetingsAreDoubtful
  <1>4. ValuesInForce(s)' <=> ValuesInForce(s)
    BY DEF ValuesInForce
  <1>5. ValuesOnTheWay(s)'
    BY <1>2, <1>4 DEF OnTheWay, ValuesOnTheWay
  <1>6. ASSUME NEW j \in Sweeps PROVE (Steady(s, j)' <=> Steady(s, j)) /\ (Undisturbed(s, j)' <=> Undisturbed(s, j))
    BY DEF Steady, Undisturbed
  <1>7. TimetableOnTheWay(s)'
    BY <1>2, <1>6 DEF OnTheWay, TimetableOnTheWay
  <1>8. MirrorOnTheWay(s)'
    BY <1>2 DEF OnTheWay, MirrorOnTheWay, MirrorInForce
  <1> QED BY <1>3, <1>5, <1>7, <1>8 DEF OnTheWay

LEMMA AloneStays ==
  ASSUME AloneIsAlone, UnderWay' \subseteq UnderWay, \A w \in UnderWay' : saving'[w].alone = saving[w].alone
  PROVE  AloneIsAlone'
  BY DEF AloneIsAlone

LEMMA MergeIsTyped ==
  ASSUME NEW o \in Overrides, NEW before
  PROVE  Merge(o, before) \in [Keys -> Values] /\ Merge(o, before) = Merge(o, Baseline)
  BY SettingsAssumption DEF Merge, Overrides

LEMMA ReadingKeepsOnTheWay ==
  ASSUME SettingsInv, NEW w \in Saves, NEW s \in Servers, s = saving[w].server, ReadOverrides(w)
  PROVE  SettingsInv'
  <1> DEFINE was == saving[w]
             is == [was EXCEPT !.step = "read", !.overrides = stored]
  <1>1. SettingsTypeOK /\ AloneIsAlone /\ w \in UnderWay /\ was.step = "saved" /\ was \in SaveStates
    BY DEF SettingsInv, ReadOverrides, At, UnderWay, SettingsTypeOK
  <1>2. /\ is \in SaveStates /\ is # Unset /\ is.server = s /\ is.alone = was.alone
        /\ is.overrides = stored /\ is.step = "read"
    BY <1>1, UnsetAssumption DEF SaveStates, SaveSteps, SettingsTypeOK
  <1>3. saving' = [saving EXCEPT ![w] = is] /\ UNCHANGED <<stored, running, ticking, current, mirror, doubts>>
    BY DEF ReadOverrides
  <1> HIDE DEF is, was
  <1>4. saving' \in [Saves -> SaveStates \cup {Unset}] /\ saving'[w] = is /\ \A x \in Saves \ {w} : saving'[x] = saving[x]
    BY <1>1, <1>2, <1>3 DEF SettingsTypeOK
  <1>5. SettingsTypeOK'
    BY <1>1, <1>3, <1>4 DEF SettingsTypeOK
  <1>6. UnderWay' = UnderWay
    BY <1>1, <1>2, <1>4 DEF UnderWay
  <1>7. \A x \in UnderWay : saving'[x].server = saving[x].server /\ saving'[x].alone = saving[x].alone
    BY <1>2, <1>4 DEF UnderWay, was
  <1>8. \A z \in Servers : UnderWayOn(z)' = UnderWayOn(z)
    BY <1>6, <1>7 DEF UnderWayOn
  <1>9. ASSUME NEW z \in Servers, z # s PROVE OnTheWay(z)'
    <2>1. \A x \in UnderWayOn(z) : saving'[x] = saving[x]
      BY <1>4, <1>9 DEF UnderWayOn, UnderWay, was
    <2> QED BY <1>3, <1>8, <2>1, OthersStay DEF SettingsInv
  <1>10. OnTheWay(s)'
    <2>1. OnTheWay(s) /\ w \in UnderWayOn(s) /\ UnderWayOn(s)' = UnderWayOn(s)
      BY <1>1, <1>8 DEF SettingsInv, UnderWayOn, was
    <2>2. saving[w].step = "saved" /\ saving'[w].step = "read" /\ saving'[w].alone = saving[w].alone /\ saving'[w].overrides = stored
      BY <1>1, <1>2, <1>4 DEF was
    <2>3. \A x \in UnderWayOn(s) \ {w} : saving'[x] = saving[x]
      BY <1>4 DEF UnderWayOn, UnderWay
    <2>4. MeetingsAreDoubtful(s)'
      BY <1>3, <2>1 DEF OnTheWay, MeetingsAreDoubtful
    <2>5. ValuesOnTheWay(s)'
      BY <1>3, <2>1, <2>2, <2>3 DEF OnTheWay, ValuesOnTheWay, ValuesInForce
    <2>6. TimetableOnTheWay(s)'
      <3>1. ASSUME NEW j \in Sweeps PROVE Steady(s, j)' <=> Steady(s, j)
        BY <1>3 DEF Steady, Undisturbed
      <3>2. \A j \in Sweeps : {"saved", "read"} \subseteq Rebuilt(j) /\ "read" \notin Waiting(j) /\ "read" # Off[j]
        BY DEF Rebuilt, Waiting, Off, Sweeps
      <3>3. \A j \in Sweeps : \A x \in UnderWayOn(s) : Undisturbed(s, j)' <=> Undisturbed(s, j)
        BY <1>3 DEF Undisturbed
      <3>4. ASSUME <<s, "timetable">> \notin doubts, NEW j \in Sweeps, NEW x \in UnderWayOn(s)
            PROVE  /\ saving'[x].step \in Rebuilt(j) => Steady(s, j)
                   /\ saving'[x].step \in Waiting(j) => Undisturbed(s, j)
                   /\ saving'[x].step = Off[j] => ticking[s][j] = {} /\ current[s][j] = Unset
        BY <2>1, <2>2, <2>3, <3>2, <3>4 DEF OnTheWay, TimetableOnTheWay
      <3> QED BY <1>3, <2>1, <3>1, <3>3, <3>4 DEF TimetableOnTheWay
    <2>7. MirrorOnTheWay(s)'
      BY <1>3, <2>1 DEF OnTheWay, MirrorOnTheWay, MirrorInForce
    <2> QED BY <2>4, <2>5, <2>6, <2>7 DEF OnTheWay
  <1>11. AloneIsAlone'
    BY <1>1, <1>6, <1>7, AloneStays
  <1> QED BY <1>5, <1>9, <1>10, <1>11 DEF SettingsInv

\* A move of a save w on s that is not its last, and that touches s alone, is
\* right if it leaves s on the way.
LEMMA MovesKeepOthers ==
  ASSUME SettingsInv, NEW w \in UnderWay, NEW s \in Servers, s = saving[w].server,
         NEW step \in SaveSteps,
         Goes(w, step), stored' = stored,
         \A z \in Servers \ {s} :
           /\ running'[z] = running[z] /\ ticking'[z] = ticking[z] /\ current'[z] = current[z] /\ mirror'[z] = mirror[z]
           /\ \A a \in Aspects : <<z, a>> \in doubts' <=> <<z, a>> \in doubts,
         SettingsTypeOK',
         OnTheWay(s)'
  PROVE  SettingsInv'
  <1>1. SettingsTypeOK /\ AloneIsAlone
    BY DEF SettingsInv
  <1>2. /\ w \in Saves /\ saving'[w].server = s /\ saving'[w].alone = saving[w].alone
        /\ \A x \in Saves \ {w} : saving'[x] = saving[x]
        /\ UnderWay' \subseteq UnderWay
        /\ \A z \in Servers : UnderWayOn(z)' = UnderWayOn(z) \/ UnderWayOn(z)' = UnderWayOn(z) \ {w}
    BY <1>1, SaveGoes
  <1>3. AloneIsAlone'
    BY <1>1, <1>2, AloneStays DEF UnderWay
  <1>4. ASSUME NEW z \in Servers, z # s PROVE OnTheWay(z)'
    <2>1. w \notin UnderWayOn(z)
      BY <1>4 DEF UnderWayOn
    <2>2. UnderWayOn(z)' = UnderWayOn(z) /\ \A x \in UnderWayOn(z) : saving'[x] = saving[x]
      BY <1>2, <2>1 DEF UnderWayOn, UnderWay
    <2> QED BY <1>4, <2>2, OthersStay DEF SettingsInv
  <1> QED BY <1>3, <1>4 DEF SettingsInv

LEMMA ApplyKeepsOnTheWay ==
  ASSUME SettingsInv, NEW w \in Saves, NEW s \in Servers, s = saving[w].server, Apply(w)
  PROVE  SettingsInv'
  <1> DEFINE inForce == Merge(saving[w].overrides, running[s])
  <1>1. /\ SettingsTypeOK /\ AloneIsAlone /\ w \in UnderWay /\ saving[w].step = "read" /\ saving[w] \in SaveStates
        /\ Goes(w, "applied")
    BY DEF SettingsInv, Apply, At, UnderWay, SettingsTypeOK
  <1>2. s \in Servers /\ saving[w].overrides \in Overrides /\ OnTheWay(s) /\ w \in UnderWayOn(s)
    BY <1>1 DEF SaveStates, SettingsInv, UnderWayOn
  <1>3. /\ inForce \in [Keys -> Values] /\ inForce = Merge(saving[w].overrides, Baseline)
    BY <1>2, MergeIsTyped
  <1>4. running' = [running EXCEPT ![s] = inForce] /\ UNCHANGED <<stored, ticking, current, mirror, doubts>>
    BY DEF Apply
  <1> HIDE DEF inForce
  <1>5. running' \in [Servers -> [Keys -> Values]] /\ running'[s] = inForce /\ \A z \in Servers \ {s} : running'[z] = running[z]
    BY <1>1, <1>2, <1>3, <1>4 DEF SettingsTypeOK
  <1>6. /\ saving' \in [Saves -> SaveStates \cup {Unset}] /\ saving'[w].alone = saving[w].alone /\ saving'[w].step = "applied"
        /\ \A x \in Saves \ {w} : saving'[x] = saving[x]
        /\ UnderWayOn(s)' = UnderWayOn(s)
    BY <1>1, <1>2, SaveGoes DEF SaveSteps
  <1>7. SettingsTypeOK'
    BY <1>1, <1>4, <1>5, <1>6 DEF SettingsTypeOK
  <1>8. MeetingsAreDoubtful(s)'
    BY <1>2, <1>4, <1>6 DEF OnTheWay, MeetingsAreDoubtful
  <1>9. ValuesOnTheWay(s)'
    <2> SUFFICES ASSUME NEW x \in UnderWayOn(s), saving'[x].alone \/ <<s, "values">> \notin doubts
                 PROVE  x = w /\ ValuesInForce(s)'
      BY <1>2, <1>4, <1>6 DEF ValuesOnTheWay
    <2>1. saving[x].alone \/ <<s, "values">> \notin doubts
      BY <1>6 DEF UnderWayOn, UnderWay
    <2>2. x = w
      <3>1. CASE saving[x].alone
        BY <1>1, <3>1 DEF AloneIsAlone, UnderWayOn
      <3>2. CASE <<s, "values">> \notin doubts
        BY <1>2, <3>2 DEF OnTheWay, MeetingsAreDoubtful, Aspects
      <3> QED BY <2>1, <3>1, <3>2
    <2>3. saving[w].overrides = stored
      BY <1>1, <1>2, <2>1, <2>2 DEF OnTheWay, ValuesOnTheWay
    <2> QED BY <1>3, <1>4, <1>5, <2>2, <2>3 DEF ValuesInForce
  <1>10. TimetableOnTheWay(s)'
    <2> SUFFICES ASSUME <<s, "timetable">> \notin doubts, NEW j \in Sweeps
                 PROVE  Undisturbed(s, j) /\ UnderWayOn(s) = {w}
      <3>1. ASSUME NEW i \in Sweeps PROVE "applied" \notin Rebuilt(i) /\ "applied" # Off[i]
        BY DEF Rebuilt, Off, Sweeps
      <3>2. ASSUME NEW i \in Sweeps PROVE Undisturbed(s, i)' <=> Undisturbed(s, i)
        BY <1>4 DEF Undisturbed
      <3> QED BY <1>2, <1>4, <1>6, <3>1, <3>2 DEF TimetableOnTheWay
    <2>1. UnderWayOn(s) = {w}
      BY <1>2 DEF OnTheWay, MeetingsAreDoubtful, Aspects
    <2>2. "read" \in Rebuilt(j)
      BY DEF Rebuilt
    <2> QED BY <1>1, <1>2, <2>1, <2>2 DEF OnTheWay, TimetableOnTheWay, Steady
  <1>11. MirrorOnTheWay(s)'
    BY <1>2, <1>6 DEF MirrorOnTheWay
  <1>12. OnTheWay(s)'
    BY <1>8, <1>9, <1>10, <1>11 DEF OnTheWay
  <1> QED BY <1>1, <1>4, <1>5, <1>7, <1>12, MovesKeepOthers DEF SaveSteps

\* The only save on a server, if it is alone or there is an aspect without doubt.
LEMMA OneOnTheWay ==
  ASSUME SettingsInv, NEW s \in Servers, NEW w \in UnderWayOn(s), NEW x \in UnderWayOn(s),
         saving[x].alone \/ \E a \in Aspects : <<s, a>> \notin doubts
  PROVE  x = w
  <1>1. CASE saving[x].alone
    BY <1>1 DEF SettingsInv, AloneIsAlone, UnderWayOn
  <1>2. CASE \E a \in Aspects : <<s, a>> \notin doubts
    BY <1>2 DEF SettingsInv, OnTheWay, MeetingsAreDoubtful
  <1> QED BY <1>1, <1>2

\* Starting or stopping a schedule leaves values and mirror where they were.
LEMMA ScheduleStepsKeepValues ==
  ASSUME SettingsInv, NEW w \in Saves, NEW s \in Servers, s = saving[w].server, NEW j \in Sweeps,
         StopSchedule(w, j) \/ StartSchedule(w, j)
  PROVE  MeetingsAreDoubtful(s)' /\ ValuesOnTheWay(s)' /\ MirrorOnTheWay(s)'
  <1> DEFINE Middle == {"applied", "alertsOff", "alertsOn", "retentionOff", "retentionOn"}
  <1>1. Before[j] \in Middle /\ Off[j] \in Middle /\ On[j] \in Middle /\ Middle \subseteq SaveSteps \ {"answered"}
    BY DEF Before, Off, On, Sweeps, SaveSteps
  <1>2. /\ SettingsTypeOK /\ AloneIsAlone /\ w \in UnderWay /\ saving[w].step \in Middle
        /\ Goes(w, Off[j]) \/ Goes(w, On[j])
        /\ UNCHANGED <<stored, running, mirror, doubts>>
    BY <1>1 DEF SettingsInv, StopSchedule, StartSchedule, At
  <1>3. OnTheWay(s) /\ w \in UnderWayOn(s)
    BY <1>2 DEF SettingsInv, UnderWayOn
  <1>4. /\ saving'[w].alone = saving[w].alone /\ saving'[w].step \in Middle
        /\ \A x \in Saves \ {w} : saving'[x] = saving[x]
        /\ UnderWayOn(s)' = UnderWayOn(s)
    BY <1>1, <1>2, SaveGoes
  <1>5. UnderWayOn(s) \subseteq Saves
    BY DEF UnderWayOn, UnderWay
  <1>6. MeetingsAreDoubtful(s)'
    BY <1>2, <1>3, <1>4 DEF OnTheWay, MeetingsAreDoubtful
  <1>7. ValuesInForce(s)' <=> ValuesInForce(s)
    BY <1>2 DEF ValuesInForce
  <1>8. ValuesOnTheWay(s)'
    BY <1>2, <1>3, <1>4, <1>5, <1>7 DEF OnTheWay, ValuesOnTheWay
  <1>9. MirrorOnTheWay(s)'
    BY <1>3, <1>4 DEF MirrorOnTheWay
  <1> QED BY <1>6, <1>8, <1>9

\* Where a step of one sweep's schedule leads for both sweeps.
LEMMA OneSweepAtATime ==
  ASSUME NEW j \in Sweeps, NEW i \in Sweeps
  PROVE  /\ Before[j] \in Waiting(j) /\ Off[j] \notin Rebuilt(j) \cup Waiting(j) /\ On[j] \in Rebuilt(j)
         /\ On[j] \notin Waiting(j) /\ On[j] # Off[i]
         /\ i # j => /\ Off[j] # Off[i]
                     /\ (Before[j] \in Rebuilt(i) <=> Off[j] \in Rebuilt(i))
                     /\ (Before[j] \in Waiting(i) <=> Off[j] \in Waiting(i))
                     /\ (Off[j] \in Rebuilt(i) <=> On[j] \in Rebuilt(i))
                     /\ (Off[j] \in Waiting(i) <=> On[j] \in Waiting(i))
  BY DEF Before, Off, On, Rebuilt, Waiting, Sweeps

LEMMA StopKeepsOnTheWay ==
  ASSUME SettingsInv, NEW w \in Saves, NEW s \in Servers, s = saving[w].server, NEW j \in Sweeps, StopSchedule(w, j)
  PROVE  SettingsInv'
  <1>1. /\ SettingsTypeOK /\ w \in UnderWay /\ saving[w].step = Before[j] /\ Goes(w, Off[j])
        /\ UNCHANGED <<stored, running, mirror, doubts>>
        /\ ticking' = [ticking EXCEPT ![s][j] = @ \ {current[s][j]}] /\ current' = [current EXCEPT ![s][j] = Unset]
    BY DEF SettingsInv, StopSchedule, At
  <1>2. OnTheWay(s) /\ w \in UnderWayOn(s) /\ Off[j] \in SaveSteps \ {"answered"}
    BY <1>1 DEF SettingsInv, UnderWayOn, Off, Sweeps, SaveSteps
  <1>3. /\ saving' \in [Saves -> SaveStates \cup {Unset}] /\ saving'[w].step = Off[j]
        /\ UnderWayOn(s)' = UnderWayOn(s)
    BY <1>1, <1>2, SaveGoes
  <1>4. /\ ticking' \in [Servers -> [Sweeps -> SUBSET Timetables]] /\ ticking'[s][j] = ticking[s][j] \ {current[s][j]}
        /\ current' \in [Servers -> [Sweeps -> Timetables \cup {Unset}]] /\ current'[s][j] = Unset
        /\ \A i \in Sweeps \ {j} : ticking'[s][i] = ticking[s][i] /\ current'[s][i] = current[s][i]
        /\ \A z \in Servers \ {s} : ticking'[z] = ticking[z] /\ current'[z] = current[z]
    BY <1>1 DEF SettingsTypeOK
  <1>5. SettingsTypeOK'
    BY <1>1, <1>3, <1>4 DEF SettingsTypeOK
  <1>6. TimetableOnTheWay(s)'
    <2> SUFFICES ASSUME <<s, "timetable">> \notin doubts, NEW i \in Sweeps
                 PROVE  /\ UnderWayOn(s) = {w}
                        /\ Off[j] \in Rebuilt(i) => Steady(s, i)'
                        /\ Off[j] \in Waiting(i) => Undisturbed(s, i)'
                        /\ Off[j] = Off[i] => ticking'[s][i] = {} /\ current'[s][i] = Unset
      BY <1>1, <1>2, <1>3 DEF TimetableOnTheWay
    <2>1. UnderWayOn(s) = {w}
      <3>1. \E a \in Aspects : <<s, a>> \notin doubts
        BY DEF Aspects
      <3> QED BY <1>2, <3>1, OneOnTheWay
    <2>2. CASE i = j
      <3>1. Undisturbed(s, j)
        BY <1>1, <1>2, OneSweepAtATime DEF OnTheWay, TimetableOnTheWay
      <3>2. ticking[s][j] \ {current[s][j]} = {}
        BY <3>1 DEF Undisturbed, Runs
      <3> QED BY <1>4, <2>1, <2>2, <3>2, OneSweepAtATime
    <2>3. CASE i # j
      <3>1. (Steady(s, i)' <=> Steady(s, i)) /\ (Undisturbed(s, i)' <=> Undisturbed(s, i))
        BY <1>1, <1>4, <2>3 DEF Steady, Undisturbed
      <3>2. /\ Before[j] \in Rebuilt(i) => Steady(s, i)
            /\ Before[j] \in Waiting(i) => Undisturbed(s, i)
        BY <1>1, <1>2 DEF OnTheWay, TimetableOnTheWay
      <3> QED BY <2>1, <2>3, <3>1, <3>2, OneSweepAtATime
    <2> QED BY <2>2, <2>3
  <1>7. OnTheWay(s)'
    BY <1>6, ScheduleStepsKeepValues DEF OnTheWay
  <1> QED BY <1>1, <1>2, <1>4, <1>5, <1>7, MovesKeepOthers

LEMMA StartKeepsOnTheWay ==
  ASSUME SettingsInv, NEW w \in Saves, NEW s \in Servers, s = saving[w].server, NEW j \in Sweeps, StartSchedule(w, j)
  PROVE  SettingsInv'
  <1> DEFINE schedule == Built(w, j, running[s])
  <1>1. /\ SettingsTypeOK /\ w \in UnderWay /\ saving[w].step = Off[j] /\ Goes(w, On[j])
        /\ UNCHANGED <<stored, running, mirror, doubts>>
        /\ ticking' = [ticking EXCEPT ![s][j] = @ \cup Runs(schedule)]
        /\ current' = IF schedule = Unset THEN current ELSE [current EXCEPT ![s][j] = schedule]
    BY DEF SettingsInv, StartSchedule, At
  <1>2. OnTheWay(s) /\ w \in UnderWayOn(s) /\ On[j] \in SaveSteps \ {"answered"}
    BY <1>1 DEF SettingsInv, UnderWayOn, On, Sweeps, SaveSteps
  <1>3. /\ saving' \in [Saves -> SaveStates \cup {Unset}] /\ saving'[w].step = On[j]
        /\ UnderWayOn(s)' = UnderWayOn(s)
    BY <1>1, <1>2, SaveGoes
  <1>4. schedule \in Timetables \cup {Unset} /\ Runs(schedule) \in SUBSET Timetables
    BY <1>1, BuiltIsTyped DEF SettingsTypeOK
  <1>5. schedule = Built(w, j, running'[s])
    BY <1>1
  <1> HIDE DEF schedule
  <1>6. /\ ticking' \in [Servers -> [Sweeps -> SUBSET Timetables]] /\ ticking'[s][j] = ticking[s][j] \cup Runs(schedule)
        /\ \A i \in Sweeps \ {j} : ticking'[s][i] = ticking[s][i]
        /\ \A z \in Servers \ {s} : ticking'[z] = ticking[z]
    BY <1>1, <1>4 DEF SettingsTypeOK
  <1>7. /\ current' \in [Servers -> [Sweeps -> Timetables \cup {Unset}]]
        /\ current[s][j] = Unset \/ schedule # Unset => current'[s][j] = schedule
        /\ \A i \in Sweeps \ {j} : current'[s][i] = current[s][i]
        /\ \A z \in Servers \ {s} : current'[z] = current[z]
    BY <1>1, <1>4 DEF SettingsTypeOK
  <1>8. SettingsTypeOK'
    BY <1>1, <1>3, <1>6, <1>7 DEF SettingsTypeOK
  <1>9. TimetableOnTheWay(s)'
    <2> SUFFICES ASSUME <<s, "timetable">> \notin doubts, NEW i \in Sweeps
                 PROVE  /\ UnderWayOn(s) = {w}
                        /\ On[j] \in Rebuilt(i) => Steady(s, i)'
                        /\ On[j] \in Waiting(i) => Undisturbed(s, i)'
      BY <1>1, <1>2, <1>3, OneSweepAtATime DEF TimetableOnTheWay
    <2>1. UnderWayOn(s) = {w}
      <3>1. \E a \in Aspects : <<s, a>> \notin doubts
        BY DEF Aspects
      <3> QED BY <1>2, <3>1, OneOnTheWay
    <2>2. CASE i = j
      <3>1. ticking[s][j] = {} /\ current[s][j] = Unset
        BY <1>1, <1>2 DEF OnTheWay, TimetableOnTheWay
      <3>2. ticking'[s][j] = Runs(schedule) /\ current'[s][j] = schedule
        BY <1>6, <1>7, <3>1
      <3>3. Steady(s, j)'
        BY <1>4, <1>5, <3>2 DEF Steady, Undisturbed
      <3> QED BY <2>1, <2>2, <3>3, OneSweepAtATime
    <2>3. CASE i # j
      <3>1. (Steady(s, i)' <=> Steady(s, i)) /\ (Undisturbed(s, i)' <=> Undisturbed(s, i))
        BY <1>1, <1>6, <1>7, <2>3 DEF Steady, Undisturbed
      <3>2. /\ Off[j] \in Rebuilt(i) => Steady(s, i)
            /\ Off[j] \in Waiting(i) => Undisturbed(s, i)
        BY <1>1, <1>2 DEF OnTheWay, TimetableOnTheWay
      <3> QED BY <2>1, <2>3, <3>1, <3>2, OneSweepAtATime
    <2> QED BY <2>2, <2>3
  <1>10. OnTheWay(s)'
    BY <1>9, ScheduleStepsKeepValues DEF OnTheWay
  <1> QED BY <1>1, <1>2, <1>6, <1>7, <1>8, <1>10, MovesKeepOthers

\* The last step of a save: what was in force stays, and what is no longer
\* doubted is what an undisturbed save has reached.
LEMMA AnsweringKeepsOnTheWay ==
  ASSUME SettingsInv, NEW w \in Saves, NEW s \in Servers, s = saving[w].server, WriteMirror(w) \/ MirrorFails(w)
  PROVE  SettingsInv'
  <1>1. /\ SettingsTypeOK /\ w \in UnderWay /\ saving[w].step = "retentionOn" /\ Goes(w, "answered")
        /\ UNCHANGED <<stored, running, ticking, current>>
    BY DEF SettingsInv, WriteMirror, MirrorFails, At
  <1>2. OnTheWay(s) /\ w \in UnderWayOn(s)
    BY <1>1 DEF SettingsInv, UnderWayOn
  <1>3. /\ saving' \in [Saves -> SaveStates \cup {Unset}]
        /\ \A x \in Saves \ {w} : saving'[x] = saving[x]
        /\ UnderWayOn(s)' = UnderWayOn(s) \ {w}
    BY <1>1, SaveGoes DEF SaveSteps
  <1>4. UnderWayOn(s) \subseteq Saves
    BY DEF UnderWayOn, UnderWay
  <1>5. /\ mirror' \in [Servers -> [Keys -> Values]]
        /\ \A z \in Servers \ {s} : mirror'[z] = mirror[z]
        /\ mirror'[s] = running[s] \/ <<s, "mirror">> \in doubts'
    BY <1>1 DEF SettingsTypeOK, WriteMirror, MirrorFails
  <1>6. /\ doubts' \subseteq Servers \X Aspects
        /\ \A z \in Servers \ {s} : \A a \in Aspects : <<z, a>> \in doubts' <=> <<z, a>> \in doubts
        /\ <<s, "timetable">> \in doubts' <=> <<s, "timetable">> \in doubts
    BY <1>1 DEF SettingsTypeOK, WriteMirror, MirrorFails, Aspects
  <1>7. ~saving[w].alone => doubts \subseteq doubts'
    BY DEF WriteMirror, MirrorFails
  <1>8. saving[w].alone => UnderWayOn(s) = {w}
    BY <1>2, OneOnTheWay DEF SettingsInv, AloneIsAlone, UnderWayOn
  <1>9. SettingsTypeOK'
    BY <1>1, <1>3, <1>5, <1>6 DEF SettingsTypeOK
  <1>10. MeetingsAreDoubtful(s)'
    BY <1>2, <1>3, <1>7, <1>8 DEF OnTheWay, MeetingsAreDoubtful
  <1>11. ValuesInForce(s)' <=> ValuesInForce(s)
    BY <1>1 DEF ValuesInForce
  <1>12. ValuesOnTheWay(s)'
    <2>1. CASE saving[w].alone
      BY <1>1, <1>2, <1>3, <1>8, <1>11, <2>1 DEF OnTheWay, ValuesOnTheWay
    <2>2. CASE ~saving[w].alone
      <3>1. UnderWayOn(s)' = {} => <<s, "values">> \in doubts' \/ ValuesInForce(s)'
        BY <1>1, <1>2, <1>3, <1>7, <1>11, <2>2 DEF OnTheWay, ValuesOnTheWay
      <3>2. ASSUME NEW x \in UnderWayOn(s) \ {w}
            PROVE  saving'[x] = saving[x] /\ <<s, "values">> \in doubts /\ ~saving[x].alone
        BY <1>2, <1>3, <1>4, <3>2, OneOnTheWay DEF Aspects
      <3> QED BY <1>1, <1>3, <1>7, <2>2, <3>1, <3>2 DEF ValuesOnTheWay
    <2> QED BY <2>1, <2>2
  <1>13. TimetableOnTheWay(s)'
    <2> SUFFICES ASSUME <<s, "timetable">> \notin doubts, NEW j \in Sweeps
                 PROVE  Steady(s, j) /\ UnderWayOn(s) = {w}
      BY <1>1, <1>3, <1>6 DEF TimetableOnTheWay, Steady, Undisturbed
    <2>1. UnderWayOn(s) = {w}
      <3>1. \E a \in Aspects : <<s, a>> \notin doubts
        BY DEF Aspects
      <3> QED BY <1>2, <3>1, OneOnTheWay
    <2>2. "retentionOn" \in Rebuilt(j)
      BY DEF Rebuilt
    <2> QED BY <1>1, <1>2, <2>1, <2>2 DEF OnTheWay, TimetableOnTheWay
  <1>14. MirrorOnTheWay(s)'
    BY <1>1, <1>5 DEF MirrorOnTheWay, MirrorInForce
  <1>15. OnTheWay(s)'
    BY <1>10, <1>12, <1>13, <1>14 DEF OnTheWay
  <1> QED BY <1>1, <1>5, <1>6, <1>9, <1>15, MovesKeepOthers DEF SaveSteps

LEMMA FailingKeepsOnTheWay ==
  ASSUME SettingsInv, NEW w \in Saves, NEW s \in Servers, s = saving[w].server, ReloadFails(w)
  PROVE  SettingsInv'
  <1>1. /\ SettingsTypeOK /\ w \in UnderWay /\ Goes(w, "answered")
        /\ UNCHANGED <<stored, running, ticking, current, mirror>>
        /\ doubts' = doubts \cup ({s} \X Aspects)
    BY DEF SettingsInv, ReloadFails
  <1>2. OnTheWay(s) /\ w \in UnderWayOn(s)
    BY <1>1 DEF SettingsInv, UnderWayOn
  <1>3. /\ saving' \in [Saves -> SaveStates \cup {Unset}]
        /\ \A x \in Saves \ {w} : saving'[x] = saving[x]
        /\ UnderWayOn(s)' = UnderWayOn(s) \ {w}
    BY <1>1, SaveGoes DEF SaveSteps
  <1>4. /\ doubts' \subseteq Servers \X Aspects /\ \A a \in Aspects : <<s, a>> \in doubts'
        /\ \A z \in Servers \ {s} : \A a \in Aspects : <<z, a>> \in doubts' <=> <<z, a>> \in doubts
    BY <1>1 DEF SettingsTypeOK
  <1>5. SettingsTypeOK'
    BY <1>1, <1>3, <1>4 DEF SettingsTypeOK
  <1>6. <<s, "values">> \in doubts' /\ <<s, "timetable">> \in doubts' /\ <<s, "mirror">> \in doubts'
    BY <1>4 DEF Aspects
  <1>7. ASSUME NEW x \in UnderWayOn(s) \ {w} PROVE saving'[x] = saving[x] /\ ~saving[x].alone
    BY <1>2, <1>3, <1>7, OneOnTheWay DEF UnderWayOn, UnderWay
  <1>8. MeetingsAreDoubtful(s)' /\ ValuesOnTheWay(s)' /\ TimetableOnTheWay(s)' /\ MirrorOnTheWay(s)'
    BY <1>3, <1>4, <1>6, <1>7 DEF MeetingsAreDoubtful, ValuesOnTheWay, TimetableOnTheWay, MirrorOnTheWay
  <1>9. OnTheWay(s)'
    BY <1>8 DEF OnTheWay
  <1> QED BY <1>1, <1>4, <1>5, <1>9, MovesKeepOthers DEF SaveSteps

LEMMA RestartKeepsOnTheWay ==
  ASSUME SettingsInv, NEW s \in Servers, Restart(s)
  PROVE  SettingsInv'
  <1> PICK loaded \in BOOLEAN :
        LET inForce == IF loaded THEN Merge(stored, Baseline) ELSE Baseline IN
        /\ running' = [running EXCEPT ![s] = inForce]
        /\ current' = [current EXCEPT ![s] = [j \in Sweeps |-> Built("boot", j, inForce)]]
        /\ ticking' = [ticking EXCEPT ![s] = [j \in Sweeps |-> Runs(Built("boot", j, inForce))]]
        /\ doubts' = (doubts \ ({s} \X {"values", "timetable"}))
                       \cup (IF loaded THEN {} ELSE {<<s, "values">>})
                       \cup (IF mirror[s] # inForce THEN {<<s, "mirror">>} ELSE {})
    BY DEF Restart
  <1> DEFINE inForce == IF loaded THEN Merge(stored, Baseline) ELSE Baseline
             boot(j) == Built("boot", j, inForce)
             ended(w) == [saving[w] EXCEPT !.step = "answered"]
  <1>1. SettingsTypeOK /\ AloneIsAlone
    BY DEF SettingsInv
  <1>2. UNCHANGED <<stored, mirror>>
        /\ saving' = [w \in Saves |-> IF w \in UnderWayOn(s) THEN ended(w) ELSE saving[w]]
    BY DEF Restart
  <1>3. inForce \in [Keys -> Values]
    BY <1>1, MergeIsTyped, SettingsAssumption DEF SettingsTypeOK
  <1>4. ASSUME NEW j \in Sweeps
        PROVE  /\ boot(j) \in Timetables \cup {Unset} /\ Runs(boot(j)) \in SUBSET Timetables
               /\ boot(j) = Built("boot", j, inForce)
    BY <1>3, BuiltIsTyped
  <1>5. \A w \in UnderWayOn(s) : ended(w) \in SaveStates /\ ended(w).step = "answered"
    BY <1>1 DEF UnderWayOn, UnderWay, SettingsTypeOK, SaveStates, SaveSteps
  <1>6. loaded => inForce = Merge(stored, Baseline)
    OBVIOUS
  <1>7. /\ running' = [running EXCEPT ![s] = inForce] /\ current' = [current EXCEPT ![s] = [j \in Sweeps |-> boot(j)]]
        /\ ticking' = [ticking EXCEPT ![s] = [j \in Sweeps |-> Runs(boot(j))]]
        /\ doubts' = (doubts \ ({s} \X {"values", "timetable"}))
                       \cup (IF loaded THEN {} ELSE {<<s, "values">>})
                       \cup (IF mirror[s] # inForce THEN {<<s, "mirror">>} ELSE {})
    OBVIOUS
  <1> HIDE DEF inForce, boot, ended
  <1>8. /\ saving' \in [Saves -> SaveStates \cup {Unset}]
        /\ \A w \in UnderWayOn(s) : saving'[w] = ended(w)
        /\ \A w \in Saves \ UnderWayOn(s) : saving'[w] = saving[w]
    BY <1>1, <1>2, <1>5 DEF SettingsTypeOK, UnderWayOn, UnderWay
  <1>9. /\ running' \in [Servers -> [Keys -> Values]] /\ running'[s] = inForce
        /\ current' \in [Servers -> [Sweeps -> Timetables \cup {Unset}]]
        /\ ticking' \in [Servers -> [Sweeps -> SUBSET Timetables]]
        /\ \A j \in Sweeps : current'[s][j] = boot(j) /\ ticking'[s][j] = Runs(boot(j))
        /\ \A z \in Servers \ {s} : running'[z] = running[z] /\ current'[z] = current[z] /\ ticking'[z] = ticking[z]
    BY <1>1, <1>3, <1>4, <1>7 DEF SettingsTypeOK
  <1>10. /\ doubts' \subseteq Servers \X Aspects
         /\ \A z \in Servers \ {s} : \A a \in Aspects : <<z, a>> \in doubts' <=> <<z, a>> \in doubts
         /\ ~loaded => <<s, "values">> \in doubts'
         /\ mirror[s] # inForce => <<s, "mirror">> \in doubts'
    BY <1>1, <1>7 DEF SettingsTypeOK, Aspects
  <1>11. SettingsTypeOK'
    BY <1>1, <1>2, <1>8, <1>9, <1>10 DEF SettingsTypeOK
  <1>12. UnderWay' = UnderWay \ UnderWayOn(s)
    BY <1>5, <1>8 DEF UnderWay, UnderWayOn
  <1>13. \A w \in UnderWay' : saving'[w] = saving[w]
    BY <1>8, <1>12 DEF UnderWay
  <1>14. AloneIsAlone'
    BY <1>1, <1>12, <1>13, AloneStays
  <1>15. UnderWayOn(s)' = {}
    BY <1>12, <1>13 DEF UnderWayOn
  <1>16. ASSUME NEW z \in Servers, z # s PROVE OnTheWay(z)'
    <2>1. UnderWayOn(z)' = UnderWayOn(z)
      BY <1>12, <1>13, <1>16 DEF UnderWayOn
    <2>2. \A w \in UnderWayOn(z) : saving'[w] = saving[w]
      BY <1>13, <2>1 DEF UnderWayOn
    <2>3. OnTheWay(z)
      BY DEF SettingsInv
    <2> QED BY <1>2, <1>9, <1>10, <1>16, <2>1, <2>2, <2>3, OthersStay
  <1>17. OnTheWay(s)'
    <2>1. MeetingsAreDoubtful(s)'
      BY <1>15 DEF MeetingsAreDoubtful
    <2>2. ValuesOnTheWay(s)'
      BY <1>2, <1>6, <1>9, <1>10, <1>15 DEF ValuesOnTheWay, ValuesInForce
    <2>3. TimetableOnTheWay(s)'
      <3>1. ASSUME NEW j \in Sweeps PROVE Steady(s, j)'
        BY <1>4, <1>9 DEF Steady, Undisturbed
      <3> QED BY <1>15, <3>1 DEF TimetableOnTheWay
    <2>4. MirrorOnTheWay(s)'
      BY <1>2, <1>9, <1>10 DEF MirrorOnTheWay, MirrorInForce
    <2> QED BY <2>1, <2>2, <2>3, <2>4 DEF OnTheWay
  <1> QED BY <1>11, <1>14, <1>16, <1>17 DEF SettingsInv

LEMMA ChangedIsTyped ==
  ASSUME SettingsTypeOK, NEW request \in Changes
  PROVE  [k \in Keys |-> Changed(k, request)] \in Overrides
  BY SettingsAssumption DEF SettingsTypeOK, Changed, Overrides

\* A save raises every doubt it can: its own server's if another is under way
\* there, the other servers' values always.
LEMMA SavingKeepsOnTheWay ==
  ASSUME SettingsInv, NEW w \in Saves, NEW s \in Servers, NEW request \in Changes, SaveSettings(w, s, request)
  PROVE  SettingsInv'
  <1> DEFINE new == [server |-> s, step |-> "saved", overrides |-> NothingStored, alone |-> UnderWay = {}]
             met(x) == [saving[x] EXCEPT !.alone = FALSE]
  <1>1. SettingsTypeOK /\ AloneIsAlone /\ saving[w] = Unset
    BY DEF SettingsInv, SaveSettings
  <1>2. /\ new \in SaveStates /\ new # Unset /\ new.server = s /\ new.step = "saved"
        /\ (new.alone <=> UnderWay = {})
    <2>1. NothingStored \in Overrides
      BY DEF NothingStored, Overrides
    <2>2. (UnderWay = {}) \in BOOLEAN
      OBVIOUS
    <2>3. new \in SaveStates
      BY <2>1, <2>2, Zenon DEF SaveStates, SaveSteps
    <2>4. new.server = s /\ new.step = "saved"
      OBVIOUS
    <2>5. new.alone <=> UnderWay = {}
      BY Zenon
    <2> QED BY <2>3, <2>4, <2>5, UnsetAssumption
  <1>3. ASSUME NEW x \in UnderWay
        PROVE  /\ met(x) \in SaveStates /\ met(x) # Unset /\ met(x).server = saving[x].server /\ met(x).step = saving[x].step
               /\ met(x).overrides = saving[x].overrides /\ ~met(x).alone
    BY <1>1, UnsetAssumption DEF UnderWay, SettingsTypeOK, SaveStates
  <1>4. /\ saving' = [x \in Saves |-> IF x = w THEN new ELSE IF x \in UnderWay THEN met(x) ELSE saving[x]]
        /\ UNCHANGED <<running, ticking, current, mirror>>
        /\ stored' \in Overrides
    BY <1>1, ChangedIsTyped DEF SaveSettings
  <1>5. /\ doubts' \subseteq Servers \X Aspects /\ doubts \subseteq doubts'
        /\ UnderWayOn(s) # {} => {s} \X Aspects \subseteq doubts'
        /\ \A z \in Servers \ {s} : <<z, "values">> \in doubts'
    BY <1>1 DEF SaveSettings, SettingsTypeOK, Aspects
  <1> HIDE DEF new, met
  <1>6. /\ saving' \in [Saves -> SaveStates \cup {Unset}] /\ saving'[w] = new
        /\ \A x \in UnderWay : saving'[x] = met(x)
    BY <1>1, <1>2, <1>3, <1>4 DEF SettingsTypeOK, UnderWay
  <1>7. SettingsTypeOK'
    BY <1>1, <1>4, <1>5, <1>6 DEF SettingsTypeOK
  <1>8. w \notin UnderWay /\ UnderWay \subseteq Saves
    BY <1>1 DEF UnderWay
  <1>9. UnderWay' = UnderWay \cup {w}
    <2>1. \A x \in Saves : x \in UnderWay' <=> (saving'[x] # Unset /\ saving'[x].step # "answered")
      BY DEF UnderWay
    <2>2. \A x \in Saves : x \in UnderWay <=> (saving[x] # Unset /\ saving[x].step # "answered")
      BY DEF UnderWay
    <2>3. \A x \in Saves \ (UnderWay \cup {w}) : saving'[x] = saving[x]
      BY <1>4
    <2>4. UnderWay' \subseteq Saves
      BY DEF UnderWay
    <2> QED BY <1>2, <1>3, <1>6, <1>8, <2>1, <2>2, <2>3, <2>4
  <1>10. AloneIsAlone'
    BY <1>2, <1>3, <1>6, <1>9 DEF AloneIsAlone
  <1>11. \A z \in Servers : UnderWayOn(z)' = IF z = s THEN UnderWayOn(z) \cup {w} ELSE UnderWayOn(z)
    BY <1>2, <1>3, <1>6, <1>9 DEF UnderWayOn
  <1>12. ASSUME NEW z \in Servers, z # s PROVE OnTheWay(z)'
    <2>1. OnTheWay(z) /\ UnderWayOn(z)' = UnderWayOn(z)
      BY <1>11, <1>12 DEF SettingsInv
    <2>2. \A x \in UnderWayOn(z) : saving'[x] = met(x) /\ x \in UnderWay
      BY <1>6 DEF UnderWayOn
    <2>3. MeetingsAreDoubtful(z)'
      BY <1>5, <2>1 DEF OnTheWay, MeetingsAreDoubtful
    <2>4. ValuesOnTheWay(z)'
      BY <1>3, <1>5, <1>12, <2>1, <2>2 DEF ValuesOnTheWay
    <2>5. TimetableOnTheWay(z)'
      <3>1. ASSUME NEW j \in Sweeps PROVE (Steady(z, j)' <=> Steady(z, j)) /\ (Undisturbed(z, j)' <=> Undisturbed(z, j))
        BY <1>4 DEF Steady, Undisturbed
      <3> QED BY <1>3, <1>4, <1>5, <2>1, <2>2, <3>1 DEF OnTheWay, TimetableOnTheWay
    <2>6. MirrorOnTheWay(z)'
      BY <1>4, <1>5, <2>1 DEF OnTheWay, MirrorOnTheWay, MirrorInForce
    <2> QED BY <2>3, <2>4, <2>5, <2>6 DEF OnTheWay
  <1>13. OnTheWay(s)'
    <2>1. OnTheWay(s) /\ UnderWayOn(s)' = UnderWayOn(s) \cup {w}
      BY <1>11 DEF SettingsInv
    <2>2. MirrorOnTheWay(s)'
      BY <2>1 DEF MirrorOnTheWay
    <2>3. CASE UnderWayOn(s) = {}
      <3>1. UnderWayOn(s)' = {w}
        BY <2>1, <2>3
      <3>2. ASSUME <<s, "timetable">> \notin doubts', NEW j \in Sweeps
            PROVE  Steady(s, j)' /\ "saved" \notin Waiting(j) /\ "saved" # Off[j]
        BY <1>4, <1>5, <2>1, <2>3, <3>2 DEF OnTheWay, TimetableOnTheWay, Steady, Undisturbed, Waiting, Off, Sweeps
      <3>3. MeetingsAreDoubtful(s)' /\ ValuesOnTheWay(s)' /\ TimetableOnTheWay(s)'
        BY <1>2, <1>5, <1>6, <3>1, <3>2 DEF MeetingsAreDoubtful, ValuesOnTheWay, TimetableOnTheWay
      <3> QED BY <2>2, <3>3 DEF OnTheWay
    <2>4. CASE UnderWayOn(s) # {}
      <3>1. {s} \X Aspects \subseteq doubts' /\ <<s, "values">> \in doubts' /\ <<s, "timetable">> \in doubts'
        BY <1>5, <2>4 DEF Aspects
      <3>2. \A x \in UnderWayOn(s)' : ~saving'[x].alone
        <4>1. UnderWay # {}
          BY <2>4 DEF UnderWayOn
        <4>2. \A x \in UnderWayOn(s) : x \in UnderWay
          BY DEF UnderWayOn
        <4> QED BY <1>2, <1>3, <1>6, <2>1, <4>1, <4>2
      <3>3. MeetingsAreDoubtful(s)' /\ ValuesOnTheWay(s)' /\ TimetableOnTheWay(s)'
        BY <2>1, <3>1, <3>2 DEF MeetingsAreDoubtful, ValuesOnTheWay, TimetableOnTheWay
      <3> QED BY <2>2, <3>3 DEF OnTheWay
    <2> QED BY <2>3, <2>4
  <1> QED BY <1>7, <1>10, <1>12, <1>13 DEF SettingsInv

LEMMA SettingsAreInductive == SettingsInv /\ [SettingsNext]_settingsVars => SettingsInv'
  <1> SUFFICES ASSUME SettingsInv, [SettingsNext]_settingsVars PROVE SettingsInv'
    OBVIOUS
  <1>1. ASSUME NEW w \in UnderWay PROVE w \in Saves /\ saving[w].server \in Servers
    BY DEF SettingsInv, SettingsTypeOK, UnderWay, SaveStates
  <1>2. ASSUME NEW w \in Saves,
               \/ ReadOverrides(w) \/ Apply(w)
               \/ \E j \in Sweeps : StopSchedule(w, j) \/ StartSchedule(w, j)
               \/ WriteMirror(w) \/ MirrorFails(w) \/ ReloadFails(w)
        PROVE  SettingsInv'
    <2>1. w \in UnderWay
      BY <1>2 DEF ReadOverrides, Apply, StopSchedule, StartSchedule, WriteMirror, MirrorFails, ReloadFails, At
    <2> PICK s \in Servers : s = saving[w].server
      BY <1>1, <2>1
    <2> QED BY <1>2, ReadingKeepsOnTheWay, ApplyKeepsOnTheWay, StopKeepsOnTheWay, StartKeepsOnTheWay,
               AnsweringKeepsOnTheWay, FailingKeepsOnTheWay
  <1>3. CASE UNCHANGED settingsVars
    <2> USE <1>3 DEF settingsVars
    <2>1. SettingsTypeOK'
      BY DEF SettingsInv, SettingsTypeOK
    <2>2. UnderWay' = UnderWay /\ \A s \in Servers : UnderWayOn(s)' = UnderWayOn(s)
      BY DEF UnderWay, UnderWayOn
    <2>3. AloneIsAlone'
      BY <2>2 DEF SettingsInv, AloneIsAlone
    <2>4. ASSUME NEW s \in Servers PROVE OnTheWay(s)'
      <3>1. OnTheWay(s)
        BY DEF SettingsInv
      <3> QED BY <2>2, <3>1, OthersStay
    <2> QED BY <2>1, <2>3, <2>4 DEF SettingsInv
  <1> QED BY <1>2, <1>3, SavingKeepsOnTheWay, RestartKeepsOnTheWay DEF SettingsNext

\* Where the schedules are steady, those in force run, and none for a sweep
\* that is not called for or an expression that does not parse.
LEMMA SteadyIsInForce ==
  ASSUME NEW s \in Servers, running[s] \in [Keys -> Values], \A j \in Sweeps : Steady(s, j)
  PROVE  TimetableInForce(s)
  <1> SUFFICES ASSUME NEW j \in Sweeps
               PROVE  /\ {t.at : t \in ticking[s][j]} = Times(j, running[s])
                      /\ Cardinality(ticking[s][j]) <= 1
    BY DEF TimetableInForce
  <1>1. PICK by \in Saves \cup {"boot"} : current[s][j] = Built(by, j, running[s])
    BY DEF Steady
  <1> DEFINE inForce == running[s]
             schedule == [by |-> by, at |-> inForce[Schedule[j]]]
  <1>2. ticking[s][j] = Runs(current[s][j])
    BY DEF Steady, Undisturbed
  <1>3. CASE ~CalledFor(j, inForce) \/ schedule.at = Blank
    <2>1. ticking[s][j] = {} /\ Times(j, inForce) = {}
      BY <1>1, <1>2, <1>3 DEF Built, Runs, Times
    <2> QED BY <2>1, FS_EmptySet
  <1>4. CASE CalledFor(j, inForce) /\ schedule.at # Blank
    <2>1. current[s][j] = schedule
      BY <1>1, <1>4 DEF Built
    <2>2. ticking[s][j] \in {{}, {schedule}} /\ (schedule # Unset => ticking[s][j] = {schedule})
      BY <1>2, <1>4, <2>1 DEF Runs
    <2>3. schedule # Unset
      BY <1>4, UnsetAssumption, SettingsAssumption DEF Timetables
    <2>4. Cardinality(ticking[s][j]) = 1
      BY <2>2, <2>3, FS_Singleton
    <2>5. schedule.at = inForce[Schedule[j]]
      OBVIOUS
    <2>6. Times(j, inForce) = {schedule.at}
      BY <1>4, <2>5 DEF Times
    <2> HIDE DEF schedule
    <2>7. {t.at : t \in ticking[s][j]} = {schedule.at}
      BY <2>2, <2>3
    <2> QED BY <2>4, <2>6, <2>7
  <1> QED BY <1>3, <1>4

\* On a server that is handling no save, the values, the alerts' schedule, the
\* retention's where a count of days calls for one, and the file are those of
\* what is stored, but for the aspects that saves which met, failures, another
\* server's saves or a start have put in doubt.
THEOREM SavedStaysInForce == SettingsSpec => []SavedIsInForce
  <1>1. SettingsInv => SavedIsInForce
    <2> SUFFICES ASSUME SettingsInv, NEW s \in Servers, UnderWayOn(s) = {}
                 PROVE  /\ <<s, "values">> \in doubts \/ ValuesInForce(s)
                        /\ <<s, "timetable">> \in doubts \/ TimetableInForce(s)
                        /\ <<s, "mirror">> \in doubts \/ MirrorInForce(s)
      BY DEF SavedIsInForce
    <2>1. OnTheWay(s) /\ running[s] \in [Keys -> Values]
      BY DEF SettingsInv, SettingsTypeOK
    <2>2. <<s, "timetable">> \notin doubts => TimetableInForce(s)
      BY <2>1, SteadyIsInForce DEF OnTheWay, TimetableOnTheWay
    <2> QED BY <2>1, <2>2 DEF OnTheWay, ValuesOnTheWay, MirrorOnTheWay
  <1> QED BY <1>1, SettingsStart, SettingsAreInductive, PTL DEF SettingsSpec

-----------------------------------------------------------------------------
(* Structure.                                                                *)

\* What requests have been allowed to do.
SpaceAsks ==
  [kind : {"createSpace"}, space : Spaces, private : BOOLEAN, grants : [Users -> NoRole..Owner]]
  \cup [kind : {"updateSpace"}, space : Spaces, private : BOOLEAN]
  \cup [kind : {"setMember"}, space : Spaces, to : Users, rank : NoRole..Owner]
  \cup [kind : {"removeMember"}, space : Spaces, to : Users]
  \cup [kind : {"deleteSpace"}, space : Spaces]
FolderAsks ==
  [kind : {"createFolder"}, folder : Folders, space : Spaces] \cup [kind : {"deleteFolder"}, folder : Folders]
TeamAsks ==
  [kind : {"createTeam"}, team : Teams, row : Team]
  \cup [kind : {"setLead"}, team : Teams, lead : Users \cup {Absent}]
  \cup [kind : {"setTeamMembers"}, team : Teams, members : SUBSET Users]
  \cup [kind : {"addToTeam", "removeFromTeam"}, team : Teams, to : Users]
  \cup [kind : {"deleteTeam"}, team : Teams]
Unplaced == [owner : Users, members : SUBSET Users, team : {Absent}, space : {Absent}, folder : {Absent}]
ProjectAsks ==
  [kind : {"createProject"}, project : Projects, row : Project]
  \cup [kind : {"applyTemplate"}, project : Projects, row : Unplaced]
  \cup Opening
  \cup [kind : {"updateProject"}, project : Projects, members : SUBSET Users]
  \cup [kind : {"setTeam"}, project : Projects, team : Teams \cup {Absent}]
  \cup [kind : {"deleteProject"}, project : Projects]
GoalAsks ==
  [kind : {"createGoal"}, goal : Goals, row : Goal]
  \cup [kind : {"updateGoal"}, goal : Goals, owner : Users]
  \cup [kind : {"deleteGoal"}, goal : Goals]
  \cup [kind : {"addKeyResult", "deleteKeyResult"}, measure : Goals \X Projects]
Asks == SpaceAsks \cup FolderAsks \cup TeamAsks \cup ProjectAsks \cup GoalAsks

AskedOK == asked \in [Requests -> Asks \cup {Absent}]

\* A folder that is still to be inserted has an id nothing refers to.
FoldersAreFresh ==
  /\ \A f \in Folders : folder[f] # Absent => f \in used
  /\ \A r \in Requests : Performs(r, "createFolder") =>
       /\ asked[r].folder \in used /\ folder[asked[r].folder] = Absent
       /\ \A q \in Requests : Performs(q, "createFolder") /\ asked[q].folder = asked[r].folder => q = r

HaveChannels == \A p \in Projects : project[p] # Absent => HasChannel(p)

StructureInv ==
  StructureTypeOK /\ AskedOK /\ FoldersAreFresh /\ RefersToWhatIsThere /\ HaveChannels

LEMMA StructureStarts == StructureInit => StructureInv
  <1> SUFFICES ASSUME StructureInit PROVE StructureInv
    OBVIOUS
  <1>1. StructureTypeOK
    BY DEF StructureInit, StructureTypeOK, NoRole, Owner
  <1>2. AskedOK /\ FoldersAreFresh
    BY DEF StructureInit, AskedOK, FoldersAreFresh, Performs
  <1>3. RefersToWhatIsThere /\ HaveChannels
    BY DEF StructureInit, RefersToWhatIsThere, HaveChannels
  <1> QED BY <1>1, <1>2, <1>3 DEF StructureInv

\* What a request of each kind names.
LEMMA SpaceAsksName ==
  ASSUME AskedOK, NEW r \in Requests
  PROVE  /\ Performs(r, "createSpace") => /\ asked[r].space \in Spaces /\ asked[r].private \in BOOLEAN
                                          /\ asked[r].grants \in [Users -> NoRole..Owner]
         /\ Performs(r, "updateSpace") => asked[r].space \in Spaces /\ asked[r].private \in BOOLEAN
         /\ Performs(r, "setMember") => /\ asked[r].space \in Spaces /\ asked[r].to \in Users
                                        /\ asked[r].rank \in NoRole..Owner
         /\ Performs(r, "removeMember") => asked[r].space \in Spaces /\ asked[r].to \in Users
         /\ Performs(r, "deleteSpace") => asked[r].space \in Spaces
  <1>1. asked[r] # Absent => asked[r] \in SpaceAsks \cup FolderAsks \cup TeamAsks \cup ProjectAsks \cup GoalAsks
    BY DEF AskedOK, Asks
  <1> QED BY <1>1 DEF Performs, SpaceAsks, FolderAsks, TeamAsks, ProjectAsks, GoalAsks, Opening

LEMMA FolderAsksName ==
  ASSUME AskedOK, NEW r \in Requests
  PROVE  /\ Performs(r, "createFolder") => asked[r].folder \in Folders /\ asked[r].space \in Spaces
         /\ Performs(r, "deleteFolder") => asked[r].folder \in Folders
  <1>1. asked[r] # Absent => asked[r] \in SpaceAsks \cup FolderAsks \cup TeamAsks \cup ProjectAsks \cup GoalAsks
    BY DEF AskedOK, Asks
  <1> QED BY <1>1 DEF Performs, SpaceAsks, FolderAsks, TeamAsks, ProjectAsks, GoalAsks, Opening

LEMMA TeamAsksName ==
  ASSUME AskedOK, NEW r \in Requests
  PROVE  /\ Performs(r, "createTeam") => asked[r].team \in Teams /\ asked[r].row \in Team
         /\ Performs(r, "setLead") => asked[r].team \in Teams /\ asked[r].lead \in Users \cup {Absent}
         /\ Performs(r, "setTeamMembers") => asked[r].team \in Teams /\ asked[r].members \in SUBSET Users
         /\ Performs(r, "addToTeam") \/ Performs(r, "removeFromTeam") => asked[r].team \in Teams /\ asked[r].to \in Users
         /\ Performs(r, "deleteTeam") => asked[r].team \in Teams
  <1>1. asked[r] # Absent => asked[r] \in SpaceAsks \cup FolderAsks \cup TeamAsks \cup ProjectAsks \cup GoalAsks
    BY DEF AskedOK, Asks
  <1> QED BY <1>1 DEF Performs, SpaceAsks, FolderAsks, TeamAsks, ProjectAsks, GoalAsks, Opening

LEMMA ProjectAsksName ==
  ASSUME AskedOK, NEW r \in Requests
  PROVE  /\ Performs(r, "createProject") => asked[r].project \in Projects /\ asked[r].row \in Project
         /\ Performs(r, "applyTemplate") => asked[r].project \in Projects /\ asked[r].row \in Unplaced
         /\ Performs(r, "openChannel") => asked[r].project \in Projects /\ asked[r].row \in Channel
         /\ Performs(r, "updateProject") => asked[r].project \in Projects /\ asked[r].members \in SUBSET Users
         /\ Performs(r, "setTeam") => asked[r].project \in Projects /\ asked[r].team \in Teams \cup {Absent}
         /\ Performs(r, "deleteProject") => asked[r].project \in Projects
  <1>1. asked[r] # Absent => asked[r] \in SpaceAsks \cup FolderAsks \cup TeamAsks \cup ProjectAsks \cup GoalAsks
    BY DEF AskedOK, Asks
  <1> QED BY <1>1 DEF Performs, SpaceAsks, FolderAsks, TeamAsks, ProjectAsks, GoalAsks, Opening

LEMMA GoalAsksName ==
  ASSUME AskedOK, NEW r \in Requests
  PROVE  /\ Performs(r, "createGoal") => asked[r].goal \in Goals /\ asked[r].row \in Goal
         /\ Performs(r, "updateGoal") => asked[r].goal \in Goals /\ asked[r].owner \in Users
         /\ Performs(r, "deleteGoal") => asked[r].goal \in Goals
         /\ Performs(r, "addKeyResult") \/ Performs(r, "deleteKeyResult") => asked[r].measure \in Goals \X Projects
  <1>1. asked[r] # Absent => asked[r] \in SpaceAsks \cup FolderAsks \cup TeamAsks \cup ProjectAsks \cup GoalAsks
    BY DEF AskedOK, Asks
  <1> QED BY <1>1 DEF Performs, SpaceAsks, FolderAsks, TeamAsks, ProjectAsks, GoalAsks, Opening

\* A request that is done is forgotten.
LEMMA DoneForgets ==
  ASSUME AskedOK, NEW r \in Requests, Done(r)
  PROVE  /\ AskedOK' /\ used' = used
         /\ \A q \in Requests : asked'[q] = IF q = r THEN Absent ELSE asked[q]
         /\ \A q \in Requests : \A k : Performs(q, k)' => Performs(q, k) /\ asked'[q] = asked[q] /\ q # r
  <1>1. AskedOK' /\ used' = used /\ \A q \in Requests : asked'[q] = IF q = r THEN Absent ELSE asked[q]
    BY DEF Done, AskedOK
  <1> QED BY <1>1 DEF Performs

\* Folders that are inserted stay new if no folder appears.
LEMMA FoldersStayFresh ==
  ASSUME AskedOK, FoldersAreFresh, NEW r \in Requests, Done(r),
         \A f \in Folders : folder'[f] = folder[f] \/ folder'[f] = Absent
  PROVE  FoldersAreFresh'
  <1>1. \A q \in Requests : \A k : Performs(q, k)' => Performs(q, k) /\ asked'[q] = asked[q] /\ q # r
    BY DoneForgets
  <1>2. \A q \in Requests : Performs(q, "createFolder") => asked[q].folder \in Folders
    BY FolderAsksName
  <1>3. used' = used
    BY DEF Done
  <1> QED BY <1>1, <1>2, <1>3 DEF FoldersAreFresh

\* A project keeps what it has of a channel.
LEMMA ChannelsStay ==
  ASSUME HaveChannels, \A p \in Projects : project'[p] # Absent => project[p] # Absent,
         \A p \in Projects : project'[p] # Absent /\ channel[p] # Absent =>
           channel'[p] # Absent \/ \E t \in Teams : <<p, t>> \in taken',
         unopened \subseteq unopened', taken \subseteq taken',
         \A q \in Requests : Performs(q, "openChannel") =>
           \/ asked'[q] = asked[q]
           \/ channel'[asked[q].project] # Absent \/ asked[q].project \in unopened'
  PROVE  HaveChannels'
  <1> SUFFICES ASSUME NEW p \in Projects, project'[p] # Absent PROVE HasChannel(p)'
    BY DEF HaveChannels
  <1>1. HasChannel(p)
    BY DEF HaveChannels
  <1>2. CASE channel[p] # Absent \/ p \in unopened \/ \E t \in Teams : <<p, t>> \in taken
    BY <1>2 DEF HasChannel
  <1>3. CASE \E q \in Requests : Performs(q, "openChannel") /\ asked[q].project = p
    BY <1>3 DEF HasChannel, Performs
  <1> QED BY <1>1, <1>2, <1>3 DEF HasChannel

\* Nothing that is referred to goes.
LEMMA ReferencesStay ==
  ASSUME StructureTypeOK, RefersToWhatIsThere,
         \A s \in Spaces : space[s] # Absent => space'[s] # Absent,
         \A f \in Folders : folder[f] # Absent => folder'[f] = folder[f],
         \A t \in Teams : team[t] # Absent => team'[t] # Absent,
         \A g \in Goals : goal[g] # Absent => goal'[g] # Absent,
         \A p \in Projects :
           /\ project[p] # Absent => project'[p] # Absent
           /\ project'[p] # Absent =>
                /\ project[p] # Absent /\ project'[p].space = project[p].space
                /\ project'[p].folder = project[p].folder \/ project'[p].folder = Absent
                /\ \/ project'[p].team = project[p].team \/ project'[p].team = Absent
                   \/ project'[p].team \in Teams /\ team'[project'[p].team] # Absent,
         measures' \subseteq measures
  PROVE  RefersToWhatIsThere'
  <1>1. ASSUME NEW p \in Projects, project'[p] # Absent
        PROVE  /\ FolderInSpace(project[p])' /\ (project'[p].team # Absent => team'[project'[p].team] # Absent)
    <2>1. project[p] \in Project
      BY <1>1 DEF StructureTypeOK
    <2>2. FolderInSpace(project[p]) /\ (project[p].team # Absent => team[project[p].team] # Absent)
      BY <1>1 DEF RefersToWhatIsThere
    <2>3. project[p].space # Absent => project[p].space \in Spaces
      BY <2>1 DEF Project
    <2>4. project[p].folder # Absent => project[p].folder \in Folders
      BY <2>1 DEF Project
    <2>5. project[p].team # Absent => project[p].team \in Teams
      BY <2>1 DEF Project
    <2>6. FolderInSpace(project[p])'
      BY <1>1, <2>2, <2>3, <2>4 DEF FolderInSpace
    <2> QED BY <1>1, <2>2, <2>5, <2>6
  <1>2. \A x \in measures' : goal'[x[1]] # Absent /\ project'[x[2]] # Absent
    BY DEF RefersToWhatIsThere, StructureTypeOK
  <1> QED BY <1>1, <1>2 DEF RefersToWhatIsThere

LEMMA BeginningKeeps ==
  ASSUME StructureInv, NEW r \in Requests, NEW do \in Asks, Begin(r, do), UNCHANGED Rows, used \subseteq used',
         do.kind = "createFolder" => do.folder \notin used /\ do.folder \in used' /\ do.folder \in Folders
  PROVE  StructureInv'
  <1>1. /\ StructureTypeOK /\ AskedOK /\ FoldersAreFresh /\ RefersToWhatIsThere /\ HaveChannels
        /\ asked[r] = Absent /\ asked' = [asked EXCEPT ![r] = do]
        /\ UNCHANGED <<space, grants, folder, team, project, channel, goal, measures, unopened, taken>>
    BY DEF StructureInv, Begin, Rows, History
  <1>2. AskedOK' /\ asked'[r] = do /\ \A q \in Requests \ {r} : asked'[q] = asked[q]
    BY <1>1 DEF AskedOK
  <1>3. StructureTypeOK'
    BY <1>1 DEF StructureTypeOK
  <1>4. FoldersAreFresh'
    BY <1>1, <1>2 DEF FoldersAreFresh, Performs
  <1>5. RefersToWhatIsThere'
    BY <1>1 DEF RefersToWhatIsThere, FolderInSpace
  <1>6. \A q \in Requests : Performs(q, "openChannel") => asked'[q] = asked[q]
    BY <1>1, <1>2 DEF Performs
  <1>7. HaveChannels'
    BY <1>1, <1>6, ChannelsStay
  <1> QED BY <1>2, <1>3, <1>4, <1>5, <1>7 DEF StructureInv

LEMMA SpaceAsksKeep ==
  ASSUME StructureInv, NEW r \in Requests, NEW u \in Users, NEW s \in Spaces,
         \/ BeginSpace(r, u, s)
         \/ \E private \in BOOLEAN : \E list \in GrantLists : BeginCreateSpace(r, u, s, private, list)
  PROVE  StructureInv'
  <1>1. CASE \E private \in BOOLEAN : \E list \in GrantLists : BeginCreateSpace(r, u, s, private, list)
    <2> PICK private \in BOOLEAN, list \in GrantLists : BeginCreateSpace(r, u, s, private, list)
      BY <1>1
    <2> DEFINE g == [list EXCEPT ![u] = Owner]
               do == [kind |-> "createSpace", space |-> s, private |-> private, grants |-> g]
    <2>1. g \in [Users -> NoRole..Owner]
      BY RowsAssumption DEF Owner, NoRole
    <2>2. Begin(r, do) /\ UNCHANGED Rows /\ used \subseteq used'
      BY DEF BeginCreateSpace, Fresh
    <2> HIDE DEF g
    <2>3. do \in SpaceAsks
      BY <2>1 DEF SpaceAsks
    <2>4. do.kind # "createFolder"
      OBVIOUS
    <2> HIDE DEF do
    <2> QED BY <2>2, <2>3, <2>4, BeginningKeeps DEF Asks
  <1>2. CASE BeginSpace(r, u, s)
    <2>1. UNCHANGED <<Rows, used>>
      BY <1>2 DEF BeginSpace
    <2>2. ASSUME NEW do \in SpaceAsks, Begin(r, do) PROVE StructureInv'
      <3>1. do.kind # "createFolder"
        BY <2>2 DEF SpaceAsks
      <3> QED BY <2>1, <2>2, <3>1, BeginningKeeps DEF Asks
    <2>3. ASSUME NEW private \in BOOLEAN PROVE [kind |-> "updateSpace", space |-> s, private |-> private] \in SpaceAsks
      BY DEF SpaceAsks
    <2>4. ASSUME NEW to \in Users, NEW rank \in GivenRoles
          PROVE  [kind |-> "setMember", space |-> s, to |-> to, rank |-> rank] \in SpaceAsks
      <3>1. rank \in NoRole..Owner
        BY StructureAssumption DEF NoRole, Owner
      <3> QED BY <3>1 DEF SpaceAsks
    <2>5. ASSUME NEW to \in Users PROVE [kind |-> "removeMember", space |-> s, to |-> to] \in SpaceAsks
      BY DEF SpaceAsks
    <2>6. [kind |-> "deleteSpace", space |-> s] \in SpaceAsks
      BY DEF SpaceAsks
    <2> QED BY <1>2, <2>2, <2>3, <2>4, <2>5, <2>6 DEF BeginSpace
  <1> QED BY <1>1, <1>2

LEMMA FolderAsksKeep ==
  ASSUME StructureInv, NEW r \in Requests, NEW u \in Users, NEW f \in Folders, BeginFolder(r, u, f)
  PROVE  StructureInv'
  <1>1. UNCHANGED Rows
    BY DEF BeginFolder
  <1>2. ASSUME NEW s \in Spaces, Fresh(f), Begin(r, [kind |-> "createFolder", folder |-> f, space |-> s])
        PROVE  StructureInv'
    <2> DEFINE do == [kind |-> "createFolder", folder |-> f, space |-> s]
    <2>1. do \in FolderAsks /\ do.folder = f
      BY DEF FolderAsks
    <2>2. Begin(r, do) /\ f \notin used /\ f \in used' /\ used \subseteq used'
      BY <1>2 DEF Fresh
    <2> HIDE DEF do
    <2> QED BY <1>1, <2>1, <2>2, BeginningKeeps DEF Asks
  <1>3. ASSUME Begin(r, [kind |-> "deleteFolder", folder |-> f]), UNCHANGED used PROVE StructureInv'
    <2> DEFINE do == [kind |-> "deleteFolder", folder |-> f]
    <2>1. do \in FolderAsks /\ do.kind # "createFolder"
      BY DEF FolderAsks
    <2>2. Begin(r, do) /\ used \subseteq used'
      BY <1>3
    <2> HIDE DEF do
    <2> QED BY <1>1, <2>1, <2>2, BeginningKeeps DEF Asks
  <1> QED BY <1>2, <1>3 DEF BeginFolder

LEMMA TeamAsksKeep ==
  ASSUME StructureInv, NEW r \in Requests, NEW u \in Users, NEW t \in Teams, BeginTeam(r, u, t)
  PROVE  StructureInv'
  <1>1. UNCHANGED Rows /\ used \subseteq used'
    BY DEF BeginTeam, Fresh
  <1>2. ASSUME NEW do \in TeamAsks, Begin(r, do) PROVE StructureInv'
    <2>1. do.kind # "createFolder"
      BY <1>2 DEF TeamAsks
    <2> QED BY <1>1, <1>2, <2>1, BeginningKeeps DEF Asks
  <1>3. ASSUME NEW row \in Team PROVE [kind |-> "createTeam", team |-> t, row |-> row] \in TeamAsks
    BY DEF TeamAsks
  <1>4. ASSUME NEW lead \in Users \cup {Absent} PROVE [kind |-> "setLead", team |-> t, lead |-> lead] \in TeamAsks
    BY DEF TeamAsks
  <1>5. ASSUME NEW members \in SUBSET Users
        PROVE  [kind |-> "setTeamMembers", team |-> t, members |-> members] \in TeamAsks
    BY DEF TeamAsks
  <1>6. ASSUME NEW to \in Users, NEW kind \in {"addToTeam", "removeFromTeam"}
        PROVE  [kind |-> kind, team |-> t, to |-> to] \in TeamAsks
    BY DEF TeamAsks
  <1>7. [kind |-> "deleteTeam", team |-> t] \in TeamAsks
    BY DEF TeamAsks
  <1> QED BY <1>2, <1>3, <1>4, <1>5, <1>6, <1>7 DEF BeginTeam

LEMMA ProjectAsksKeep ==
  ASSUME StructureInv, NEW r \in Requests, NEW u \in Users, NEW p \in Projects,
         \/ \E s \in Spaces \cup {Absent} : \E f \in Folders \cup {Absent} :
              \E t \in Teams \cup {Absent} : \E others \in SUBSET Users :
                BeginCreateProject(r, u, p, s, f, t, others)
         \/ BeginApplyTemplate(r, u, p) \/ BeginProject(r, u, p)
  PROVE  StructureInv'
  <1>1. UNCHANGED Rows /\ used \subseteq used'
    BY DEF BeginCreateProject, BeginApplyTemplate, BeginProject, Fresh
  <1>2. ASSUME NEW do \in ProjectAsks, Begin(r, do) PROVE StructureInv'
    <2>1. do.kind # "createFolder"
      BY <1>2 DEF ProjectAsks, Opening
    <2> QED BY <1>1, <1>2, <2>1, BeginningKeeps DEF Asks
  <1>3. /\ \A row \in Project : [kind |-> "createProject", project |-> p, row |-> row] \in ProjectAsks
        /\ \A row \in Unplaced : [kind |-> "applyTemplate", project |-> p, row |-> row] \in ProjectAsks
    BY DEF ProjectAsks
  <1>4. ASSUME NEW s \in Spaces \cup {Absent}, NEW f \in Folders \cup {Absent}, NEW t \in Teams \cup {Absent},
               NEW others \in SUBSET Users, BeginCreateProject(r, u, p, s, f, t, others)
        PROVE  StructureInv'
    <2> DEFINE row == [owner |-> u, members |-> others \cup {u}, team |-> t, space |-> s, folder |-> f]
    <2>1. row \in Project
      BY DEF Project
    <2>2. Begin(r, [kind |-> "createProject", project |-> p, row |-> row])
      BY <1>4 DEF BeginCreateProject
    <2> HIDE DEF row
    <2> QED BY <1>2, <1>3, <2>1, <2>2
  <1>5. ASSUME BeginApplyTemplate(r, u, p) PROVE StructureInv'
    <2> DEFINE row == [owner |-> u, members |-> {u}, team |-> Absent, space |-> Absent, folder |-> Absent]
    <2>1. row \in Unplaced
      BY DEF Unplaced
    <2>2. Begin(r, [kind |-> "applyTemplate", project |-> p, row |-> row])
      BY <1>5 DEF BeginApplyTemplate
    <2> HIDE DEF row
    <2> QED BY <1>2, <1>3, <2>1, <2>2
  <1>6. ASSUME BeginProject(r, u, p) PROVE StructureInv'
    <2>1. project[p].owner \in Users
      BY <1>6 DEF BeginProject, RequireProjectManage, StructureInv, StructureTypeOK, Project
    <2>2. ASSUME NEW members \in SUBSET Users
          PROVE  [kind |-> "updateProject", project |-> p, members |-> members] \in ProjectAsks
      BY DEF ProjectAsks
    <2>3. ASSUME NEW others \in SUBSET Users PROVE others \cup {project[p].owner} \in SUBSET Users
      BY <2>1
    <2>4. ASSUME NEW t \in Teams \cup {Absent} PROVE [kind |-> "setTeam", project |-> p, team |-> t] \in ProjectAsks
      BY DEF ProjectAsks
    <2>5. [kind |-> "deleteProject", project |-> p] \in ProjectAsks
      BY DEF ProjectAsks
    <2> QED BY <1>2, <1>6, <2>2, <2>3, <2>4, <2>5 DEF BeginProject
  <1> QED BY <1>4, <1>5, <1>6

LEMMA GoalAsksKeep ==
  ASSUME StructureInv, NEW r \in Requests, NEW u \in Users, NEW g \in Goals,
         \/ \E s \in Spaces \cup {Absent} : \E owner \in Users : BeginCreateGoal(r, u, g, s, owner)
         \/ BeginGoal(r, u, g) \/ BeginKeyResult(r, u, g)
  PROVE  StructureInv'
  <1>1. UNCHANGED Rows /\ used \subseteq used'
    BY DEF BeginCreateGoal, BeginGoal, BeginKeyResult, Fresh
  <1>2. ASSUME NEW do \in GoalAsks, Begin(r, do) PROVE StructureInv'
    <2>1. do.kind # "createFolder"
      BY <1>2 DEF GoalAsks
    <2> QED BY <1>1, <1>2, <2>1, BeginningKeeps DEF Asks
  <1>3. ASSUME NEW row \in Goal PROVE [kind |-> "createGoal", goal |-> g, row |-> row] \in GoalAsks
    BY DEF GoalAsks
  <1>4. ASSUME NEW s \in Spaces \cup {Absent}, NEW owner \in Users PROVE [owner |-> owner, space |-> s] \in Goal
    BY DEF Goal
  <1>5. ASSUME NEW owner \in Users PROVE [kind |-> "updateGoal", goal |-> g, owner |-> owner] \in GoalAsks
    BY DEF GoalAsks
  <1>6. [kind |-> "deleteGoal", goal |-> g] \in GoalAsks
    BY DEF GoalAsks
  <1>7. ASSUME NEW kind \in {"addKeyResult", "deleteKeyResult"}, NEW m \in Goals \X Projects
        PROVE  [kind |-> kind, measure |-> m] \in GoalAsks
    BY DEF GoalAsks
  <1>8. measures \subseteq Goals \X Projects
    BY DEF StructureInv, StructureTypeOK
  <1>9. CASE \E s \in Spaces \cup {Absent} : \E owner \in Users : BeginCreateGoal(r, u, g, s, owner)
    BY <1>2, <1>3, <1>4, <1>9 DEF BeginCreateGoal
  <1>10. CASE BeginGoal(r, u, g)
    BY <1>2, <1>5, <1>6, <1>10 DEF BeginGoal
  <1>11. CASE BeginKeyResult(r, u, g)
    <2>1. \A p \in Projects : <<g, p>> \in Goals \X Projects
      OBVIOUS
    <2> QED BY <1>2, <1>7, <1>8, <1>11, <2>1 DEF BeginKeyResult
  <1> QED BY <1>9, <1>10, <1>11

LEMMA AskingKeeps ==
  ASSUME StructureInv, NEW r \in Requests, NEW u \in Users, Ask(r, u)
  PROVE  StructureInv'
  BY SpaceAsksKeep, FolderAsksKeep, TeamAsksKeep, ProjectAsksKeep, GoalAsksKeep DEF Ask

\* Writes that leave folders, teams, projects, channels and goals alone.
LEMMA SpaceWritesKeep ==
  ASSUME StructureInv, NEW r \in Requests,
         CreateSpace(r) \/ UpdateSpace(r) \/ SetMember(r) \/ RemoveMember(r)
  PROVE  StructureInv'
  <1>1. /\ StructureTypeOK /\ AskedOK /\ FoldersAreFresh /\ RefersToWhatIsThere /\ HaveChannels
    BY DEF StructureInv
  <1>2. Done(r) /\ UNCHANGED <<folder, team, project, channel, goal, measures, unopened, taken>>
    BY DEF CreateSpace, UpdateSpace, SetMember, RemoveMember, History
  <1> DEFINE Spaced == /\ space' \in [Spaces -> BOOLEAN \cup {Absent}] /\ grants' \in [Spaces -> [Users -> NoRole..Owner]]
                       /\ \A s \in Spaces : space'[s] = Absent => \A u \in Users : grants'[s][u] = NoRole
                       /\ \A s \in Spaces : space[s] # Absent => space'[s] # Absent
  <1>3. Absent \notin BOOLEAN
    BY RowsAssumption
  <1>4. ASSUME CreateSpace(r) PROVE Spaced
    <2>1. /\ asked[r].space \in Spaces /\ asked[r].private \in BOOLEAN
          /\ asked[r].grants \in [Users -> NoRole..Owner]
      BY <1>1, <1>4, SpaceAsksName DEF CreateSpace
    <2> QED BY <1>1, <1>3, <1>4, <2>1 DEF CreateSpace, StructureTypeOK
  <1>5. ASSUME UpdateSpace(r) PROVE Spaced
    <2>1. asked[r].space \in Spaces /\ asked[r].private \in BOOLEAN
      BY <1>1, <1>5, SpaceAsksName DEF UpdateSpace
    <2> QED BY <1>1, <1>3, <1>5, <2>1 DEF UpdateSpace, StructureTypeOK
  <1>6. ASSUME SetMember(r) PROVE Spaced
    <2>1. asked[r].space \in Spaces /\ asked[r].to \in Users /\ asked[r].rank \in NoRole..Owner
      BY <1>1, <1>6, SpaceAsksName DEF SetMember
    <2> QED BY <1>1, <1>6, <2>1 DEF SetMember, StructureTypeOK
  <1>7. ASSUME RemoveMember(r) PROVE Spaced
    <2>1. asked[r].space \in Spaces /\ asked[r].to \in Users /\ NoRole \in NoRole..Owner
      BY <1>1, <1>7, SpaceAsksName DEF RemoveMember, NoRole, Owner
    <2> QED BY <1>1, <1>7, <2>1 DEF RemoveMember, StructureTypeOK
  <1>8. Spaced
    BY <1>4, <1>5, <1>6, <1>7
  <1>9. AskedOK' /\ FoldersAreFresh'
    BY <1>1, <1>2, DoneForgets, FoldersStayFresh
  <1>10. StructureTypeOK'
    BY <1>1, <1>2, <1>8 DEF StructureTypeOK
  <1>11. RefersToWhatIsThere'
    BY <1>1, <1>2, <1>8, ReferencesStay
  <1>12. \A q \in Requests : Performs(q, "openChannel") => asked'[q] = asked[q]
    <2>1. ~Performs(r, "openChannel")
      BY DEF CreateSpace, UpdateSpace, SetMember, RemoveMember, Performs
    <2> QED BY <1>1, <1>2, <2>1, DoneForgets
  <1>13. HaveChannels'
    BY <1>1, <1>2, <1>12, ChannelsStay
  <1> QED BY <1>9, <1>10, <1>11, <1>13 DEF StructureInv

LEMMA DeletingASpaceKeeps ==
  ASSUME StructureInv, NEW r \in Requests, DeleteSpace(r)
  PROVE  StructureInv'
  <1>1. /\ StructureTypeOK /\ AskedOK /\ FoldersAreFresh /\ RefersToWhatIsThere /\ HaveChannels
    BY DEF StructureInv
  <1> PICK s \in Spaces : s = asked[r].space
    BY <1>1, SpaceAsksName DEF DeleteSpace
  <1> DEFINE inside == {p \in Projects : project[p] # Absent /\ project[p].space = s}
             goals == {g \in Goals : goal[g] # Absent /\ goal[g].space = s}
  <1>2. /\ Performs(r, "deleteSpace") /\ Done(r) /\ UNCHANGED <<team, unopened, taken>> /\ ~Measured(inside)
        /\ space' = [space EXCEPT ![s] = Absent]
        /\ grants' = [grants EXCEPT ![s] = [u \in Users |-> NoRole]]
        /\ folder' = [f \in Folders |-> IF folder[f] = s THEN Absent ELSE folder[f]]
        /\ project' = [p \in Projects |-> IF p \in inside THEN Absent ELSE project[p]]
        /\ channel' = [p \in Projects |-> IF p \in inside THEN Absent ELSE channel[p]]
        /\ goal' = [g \in Goals |-> IF g \in goals THEN Absent ELSE goal[g]]
        /\ measures' = {m \in measures : m[1] \notin goals}
    BY DEF DeleteSpace, Cleared, History
  <1>3. /\ \A p \in Projects : p \in inside <=> project[p] # Absent /\ project[p].space = s
        /\ \A m \in measures : m[2] \notin inside
    BY <1>2 DEF Measured
  <1> HIDE DEF inside, goals
  <1>4. AskedOK' /\ FoldersAreFresh'
    BY <1>1, <1>2, DoneForgets, FoldersStayFresh
  <1>5. StructureTypeOK'
    <2>1. /\ space' \in [Spaces -> BOOLEAN \cup {Absent}]
          /\ \A x \in Spaces : space'[x] = Absent => x = s \/ space[x] = Absent
      BY <1>1, <1>2 DEF StructureTypeOK
    <2>2. [u \in Users |-> NoRole] \in [Users -> NoRole..Owner]
      BY DEF NoRole, Owner
    <2>3. /\ grants' \in [Spaces -> [Users -> NoRole..Owner]] /\ grants'[s] = [u \in Users |-> NoRole]
          /\ \A x \in Spaces \ {s} : grants'[x] = grants[x]
      BY <1>1, <1>2, <2>2 DEF StructureTypeOK
    <2>4. \A x \in Spaces : space'[x] = Absent => \A u \in Users : grants'[x][u] = NoRole
      BY <1>1, <2>1, <2>3 DEF StructureTypeOK
    <2>5. /\ folder' \in [Folders -> Spaces \cup {Absent}] /\ project' \in [Projects -> Project \cup {Absent}]
          /\ channel' \in [Projects -> Channel \cup {Absent}] /\ goal' \in [Goals -> Goal \cup {Absent}]
          /\ measures' \subseteq Goals \X Projects
      BY <1>1, <1>2 DEF StructureTypeOK
    <2> QED BY <1>1, <1>2, <2>1, <2>3, <2>4, <2>5 DEF StructureTypeOK
  <1>6. RefersToWhatIsThere'
    <2>1. ASSUME NEW p \in Projects, project'[p] # Absent
          PROVE  FolderInSpace(project[p])' /\ (project'[p].team # Absent => team'[project'[p].team] # Absent)
      <3>1. /\ project'[p] = project[p] /\ project[p] # Absent /\ project[p] \in Project /\ project[p].space # s
        BY <1>1, <1>2, <1>3, <2>1 DEF StructureTypeOK
      <3>2. FolderInSpace(project[p]) /\ (project[p].team # Absent => team[project[p].team] # Absent)
        BY <1>1, <3>1 DEF RefersToWhatIsThere
      <3>3. /\ project[p].space # Absent => project[p].space \in Spaces
            /\ project[p].folder # Absent => project[p].folder \in Folders
        BY <3>1 DEF Project
      <3>4. project[p].space # Absent => space'[project[p].space] # Absent
        BY <1>1, <1>2, <3>1, <3>2, <3>3 DEF FolderInSpace, StructureTypeOK
      <3>5. project[p].folder # Absent => folder'[project[p].folder] = folder[project[p].folder]
        BY <1>2, <3>1, <3>2, <3>3 DEF FolderInSpace
      <3>6. FolderInSpace(project[p])'
        BY <3>1, <3>2, <3>4, <3>5 DEF FolderInSpace
      <3> QED BY <1>2, <3>1, <3>2, <3>6
    <2>2. \A x \in measures' : goal'[x[1]] # Absent /\ project'[x[2]] # Absent
      BY <1>1, <1>2, <1>3 DEF RefersToWhatIsThere, StructureTypeOK
    <2> QED BY <2>1, <2>2 DEF RefersToWhatIsThere
  <1>7. HaveChannels'
    <2>1. \A q \in Requests : Performs(q, "openChannel") => asked'[q] = asked[q]
      BY <1>1, <1>2, DoneForgets DEF Performs
    <2>2. \A p \in Projects : project'[p] # Absent => project[p] # Absent /\ channel'[p] = channel[p]
      BY <1>2
    <2> QED BY <1>1, <1>2, <2>1, <2>2, ChannelsStay
  <1> QED BY <1>4, <1>5, <1>6, <1>7 DEF StructureInv

LEMMA FolderWritesKeep ==
  ASSUME StructureInv, NEW r \in Requests, CreateFolder(r) \/ DeleteFolder(r)
  PROVE  StructureInv'
  <1>1. /\ StructureTypeOK /\ AskedOK /\ FoldersAreFresh /\ RefersToWhatIsThere /\ HaveChannels
    BY DEF StructureInv
  <1>2. /\ Done(r) /\ UNCHANGED <<space, grants, team, channel, goal, measures, unopened, taken>>
        /\ ~Performs(r, "openChannel")
    BY DEF CreateFolder, DeleteFolder, History, Performs
  <1>3. \A q \in Requests : Performs(q, "openChannel") => asked'[q] = asked[q]
    BY <1>1, <1>2, DoneForgets
  <1>4. CASE CreateFolder(r)
    <2> PICK f \in Folders, s \in Spaces : f = asked[r].folder /\ s = asked[r].space
      BY <1>1, <1>4, FolderAsksName DEF CreateFolder
    <2>1. Performs(r, "createFolder") /\ folder' = [folder EXCEPT ![f] = s] /\ project' = project /\ space[s] # Absent
      BY <1>4 DEF CreateFolder
    <2>2. folder[f] = Absent /\ f \in used
      BY <1>1, <2>1 DEF FoldersAreFresh
    <2>3. folder' \in [Folders -> Spaces \cup {Absent}] /\ folder'[f] = s /\ \A x \in Folders \ {f} : folder'[x] = folder[x]
      BY <1>1, <2>1 DEF StructureTypeOK
    <2>4. StructureTypeOK'
      BY <1>1, <1>2, <2>1, <2>3 DEF StructureTypeOK
    <2>5. AskedOK' /\ used' = used /\ \A q \in Requests : \A k : Performs(q, k)' => Performs(q, k) /\ asked'[q] = asked[q] /\ q # r
      BY <1>1, <1>2, DoneForgets
    <2>6. FoldersAreFresh'
      <3>1. \A x \in Folders : folder'[x] # Absent => x \in used'
        BY <1>1, <2>2, <2>3, <2>5 DEF FoldersAreFresh
      <3>2. ASSUME NEW q \in Requests, Performs(q, "createFolder")'
            PROVE  /\ asked'[q].folder \in used' /\ folder'[asked'[q].folder] = Absent
                   /\ \A x \in Requests : Performs(x, "createFolder")' /\ asked'[x].folder = asked'[q].folder => x = q
        <4>1. Performs(q, "createFolder") /\ asked'[q] = asked[q] /\ q # r /\ asked[q].folder \in Folders
          BY <1>1, <2>5, <3>2, FolderAsksName
        <4>2. asked[q].folder # f
          BY <1>1, <2>1, <4>1 DEF FoldersAreFresh
        <4>3. asked[q].folder \in used /\ folder[asked[q].folder] = Absent
          BY <1>1, <4>1 DEF FoldersAreFresh
        <4>4. \A x \in Requests : Performs(x, "createFolder")' /\ asked'[x].folder = asked'[q].folder => x = q
          BY <1>1, <2>5, <4>1 DEF FoldersAreFresh
        <4> QED BY <2>3, <2>5, <4>1, <4>2, <4>3, <4>4
      <3> QED BY <3>1, <3>2 DEF FoldersAreFresh
    <2>7. RefersToWhatIsThere'
      BY <1>1, <1>2, <2>1, <2>2, <2>3, ReferencesStay
    <2>8. HaveChannels'
      BY <1>1, <1>2, <1>3, <2>1, ChannelsStay
    <2> QED BY <2>4, <2>5, <2>6, <2>7, <2>8 DEF StructureInv
  <1>5. CASE DeleteFolder(r)
    <2> PICK f \in Folders : f = asked[r].folder
      BY <1>1, <1>5, FolderAsksName DEF DeleteFolder
    <2> DEFINE out(p) == [project[p] EXCEPT !.folder = Absent]
    <2>1. /\ folder' = [folder EXCEPT ![f] = Absent]
          /\ project' = [p \in Projects |-> IF project[p] # Absent /\ project[p].folder = f THEN out(p) ELSE project[p]]
      BY <1>5 DEF DeleteFolder
    <2>2. ASSUME NEW p \in Projects, project[p] # Absent
          PROVE  /\ out(p) \in Project /\ out(p) # Absent /\ out(p).space = project[p].space /\ out(p).folder = Absent
                 /\ out(p).team = project[p].team
      <3>1. project[p] \in Project
        BY <1>1, <2>2 DEF StructureTypeOK
      <3>2. /\ out(p) \in Project /\ out(p).space = project[p].space /\ out(p).folder = Absent
            /\ out(p).team = project[p].team
        BY <3>1 DEF Project
      <3>3. Absent \notin Project
        BY RowsAssumption
      <3> QED BY <3>2, <3>3
    <2> HIDE DEF out
    <2>3. /\ project' \in [Projects -> Project \cup {Absent}]
          /\ \A p \in Projects : project[p] # Absent <=> project'[p] # Absent
      BY <1>1, <2>1, <2>2 DEF StructureTypeOK
    <2>4. folder' \in [Folders -> Spaces \cup {Absent}] /\ folder'[f] = Absent /\ \A x \in Folders \ {f} : folder'[x] = folder[x]
      BY <1>1, <2>1 DEF StructureTypeOK
    <2>5. StructureTypeOK'
      BY <1>1, <1>2, <2>3, <2>4 DEF StructureTypeOK
    <2>6. AskedOK' /\ FoldersAreFresh'
      BY <1>1, <1>2, <2>4, DoneForgets, FoldersStayFresh
    <2>7. RefersToWhatIsThere'
      <3>1. ASSUME NEW p \in Projects, project'[p] # Absent
            PROVE  FolderInSpace(project[p])' /\ (project'[p].team # Absent => team'[project'[p].team] # Absent)
        <4>1. project[p] # Absent /\ project[p] \in Project
          BY <1>1, <2>3, <3>1 DEF StructureTypeOK
        <4>2. FolderInSpace(project[p]) /\ (project[p].team # Absent => team[project[p].team] # Absent)
          BY <1>1, <4>1 DEF RefersToWhatIsThere
        <4>3. project'[p].space = project[p].space /\ project'[p].team = project[p].team
          BY <2>1, <2>2, <4>1
        <4>4. project'[p].folder # Absent => project'[p].folder = project[p].folder /\ project[p].folder # f
          BY <2>1, <2>2, <4>1
        <4>5. project[p].folder # Absent => project[p].folder \in Folders
          BY <4>1 DEF Project
        <4> QED BY <1>2, <2>4, <4>2, <4>3, <4>4, <4>5 DEF FolderInSpace
      <3>2. \A x \in measures' : goal'[x[1]] # Absent /\ project'[x[2]] # Absent
        BY <1>1, <1>2, <2>3 DEF RefersToWhatIsThere, StructureTypeOK
      <3> QED BY <3>1, <3>2 DEF RefersToWhatIsThere
    <2>8. HaveChannels'
      BY <1>1, <1>2, <1>3, <2>3, ChannelsStay
    <2> QED BY <2>5, <2>6, <2>7, <2>8 DEF StructureInv
  <1> QED BY <1>4, <1>5

LEMMA TeamWritesKeep ==
  ASSUME StructureInv, NEW r \in Requests,
         CreateTeam(r) \/ UpdateTeam(r) \/ AddTeamMember(r) \/ RemoveTeamMember(r)
  PROVE  StructureInv'
  <1>1. /\ StructureTypeOK /\ AskedOK /\ FoldersAreFresh /\ RefersToWhatIsThere /\ HaveChannels
    BY DEF StructureInv
  <1>2. /\ Done(r) /\ UNCHANGED <<space, grants, folder, project, channel, goal, measures, unopened, taken>>
        /\ ~Performs(r, "openChannel")
    BY DEF CreateTeam, UpdateTeam, AddTeamMember, RemoveTeamMember, History, Performs
  <1>3. Absent \notin Team
    BY RowsAssumption
  <1> DEFINE Teamed == team' \in [Teams -> Team \cup {Absent}] /\ \A t \in Teams : team[t] # Absent => team'[t] # Absent
  <1>4. ASSUME NEW t \in Teams, NEW row \in Team, team' = [team EXCEPT ![t] = row] PROVE Teamed
    BY <1>1, <1>3, <1>4 DEF StructureTypeOK
  <1>5. ASSUME NEW t \in Teams, team[t] # Absent, NEW lead \in Users \cup {Absent}, NEW members \in SUBSET Users
        PROVE  /\ [team[t] EXCEPT !.lead = lead] \in Team /\ [team[t] EXCEPT !.members = members] \in Team
               /\ team[t].members \in SUBSET Users
    BY <1>1, <1>5 DEF StructureTypeOK, Team
  <1>6. ASSUME CreateTeam(r) PROVE Teamed
    <2>1. asked[r].team \in Teams /\ asked[r].row \in Team
      BY <1>1, <1>6, TeamAsksName DEF CreateTeam
    <2> QED BY <1>4, <1>6, <2>1 DEF CreateTeam
  <1>7. ASSUME UpdateTeam(r) PROVE Teamed
    <2>1. CASE Performs(r, "setLead")
      <3> PICK t \in Teams, lead \in Users \cup {Absent} : t = asked[r].team /\ lead = asked[r].lead
        BY <1>1, <2>1, TeamAsksName
      <3>1. team[t] # Absent /\ team' = [team EXCEPT ![t] = [team[t] EXCEPT !.lead = lead]]
        BY <1>7, <2>1 DEF UpdateTeam, Performs
      <3> QED BY <1>4, <1>5, <3>1
    <2>2. CASE Performs(r, "setTeamMembers")
      <3> PICK t \in Teams, members \in SUBSET Users : t = asked[r].team /\ members = asked[r].members
        BY <1>1, <2>2, TeamAsksName
      <3>1. team[t] # Absent /\ team' = [team EXCEPT ![t] = [team[t] EXCEPT !.members = members]]
        BY <1>7, <2>2 DEF UpdateTeam, Performs
      <3> QED BY <1>4, <1>5, <3>1
    <2> QED BY <1>7, <2>1, <2>2 DEF UpdateTeam
  <1>8. ASSUME AddTeamMember(r) PROVE Teamed
    <2> PICK t \in Teams, to \in Users : t = asked[r].team /\ to = asked[r].to
      BY <1>1, <1>8, TeamAsksName DEF AddTeamMember
    <2>1. team[t] # Absent /\ team' = [team EXCEPT ![t] = [team[t] EXCEPT !.members = team[t].members \cup {to}]]
      BY <1>8 DEF AddTeamMember
    <2>2. team[t].members \cup {to} \in SUBSET Users
      BY <1>5, <2>1
    <2> QED BY <1>4, <1>5, <2>1, <2>2
  <1>9. ASSUME RemoveTeamMember(r) PROVE Teamed
    <2> PICK t \in Teams, to \in Users : t = asked[r].team /\ to = asked[r].to
      BY <1>1, <1>9, TeamAsksName DEF RemoveTeamMember
    <2>1. team[t] # Absent /\ team' = [team EXCEPT ![t] = [team[t] EXCEPT !.members = team[t].members \ {to}]]
      BY <1>9 DEF RemoveTeamMember
    <2>2. team[t].members \ {to} \in SUBSET Users
      BY <1>5, <2>1
    <2> QED BY <1>4, <1>5, <2>1, <2>2
  <1>10. Teamed
    BY <1>6, <1>7, <1>8, <1>9
  <1>11. AskedOK' /\ FoldersAreFresh'
    BY <1>1, <1>2, DoneForgets, FoldersStayFresh
  <1>12. StructureTypeOK'
    BY <1>1, <1>2, <1>10 DEF StructureTypeOK
  <1>13. RefersToWhatIsThere'
    BY <1>1, <1>2, <1>10, ReferencesStay
  <1>14. \A q \in Requests : Performs(q, "openChannel") => asked'[q] = asked[q]
    BY <1>1, <1>2, DoneForgets
  <1>15. HaveChannels'
    BY <1>1, <1>2, <1>14, ChannelsStay
  <1> QED BY <1>11, <1>12, <1>13, <1>15 DEF StructureInv

LEMMA DeletingATeamKeeps ==
  ASSUME StructureInv, NEW r \in Requests, DeleteTeam(r)
  PROVE  StructureInv'
  <1>1. /\ StructureTypeOK /\ AskedOK /\ FoldersAreFresh /\ RefersToWhatIsThere /\ HaveChannels
    BY DEF StructureInv
  <1> PICK t \in Teams : t = asked[r].team
    BY <1>1, TeamAsksName DEF DeleteTeam
  <1> DEFINE its == {p \in Projects : channel[p] # Absent /\ channel[p].team = t}
             without(p) == [project[p] EXCEPT !.team = Absent]
  <1>2. /\ Done(r) /\ UNCHANGED <<space, grants, folder, goal, measures, unopened>> /\ ~Performs(r, "openChannel")
        /\ team' = [team EXCEPT ![t] = Absent]
        /\ project' = [p \in Projects |-> IF project[p] # Absent /\ project[p].team = t THEN without(p) ELSE project[p]]
        /\ channel' = [p \in Projects |-> IF p \in its THEN Absent ELSE channel[p]]
        /\ taken' = taken \cup (its \X {t})
    BY DEF DeleteTeam, Cleared, Performs
  <1>3. ASSUME NEW p \in Projects, project[p] # Absent
        PROVE  /\ without(p) \in Project /\ without(p) # Absent /\ without(p).space = project[p].space
               /\ without(p).folder = project[p].folder /\ without(p).team = Absent
    <2>1. project[p] \in Project
      BY <1>1, <1>3 DEF StructureTypeOK
    <2>2. /\ without(p) \in Project /\ without(p).space = project[p].space
          /\ without(p).folder = project[p].folder /\ without(p).team = Absent
      BY <2>1 DEF Project
    <2>3. Absent \notin Project
      BY RowsAssumption
    <2> QED BY <2>2, <2>3
  <1>4. its \subseteq Projects
    OBVIOUS
  <1> HIDE DEF its, without
  <1>5. /\ project' \in [Projects -> Project \cup {Absent}]
        /\ \A p \in Projects : project[p] # Absent <=> project'[p] # Absent
        /\ \A p \in Projects : project[p] # Absent =>
             /\ project'[p].space = project[p].space /\ project'[p].folder = project[p].folder
             /\ project'[p].team # Absent => project'[p].team = project[p].team /\ project[p].team # t
    BY <1>1, <1>2, <1>3 DEF StructureTypeOK
  <1>6. /\ team' \in [Teams -> Team \cup {Absent}] /\ \A x \in Teams \ {t} : team'[x] = team[x]
        /\ channel' \in [Projects -> Channel \cup {Absent}] /\ taken' \subseteq Projects \X Teams
    BY <1>1, <1>2, <1>4 DEF StructureTypeOK
  <1>7. StructureTypeOK'
    BY <1>1, <1>2, <1>5, <1>6 DEF StructureTypeOK
  <1>8. AskedOK' /\ FoldersAreFresh'
    BY <1>1, <1>2, DoneForgets, FoldersStayFresh
  <1>9. RefersToWhatIsThere'
    <2>1. ASSUME NEW p \in Projects, project'[p] # Absent
          PROVE  FolderInSpace(project[p])' /\ (project'[p].team # Absent => team'[project'[p].team] # Absent)
      <3>1. project[p] # Absent /\ project[p] \in Project
        BY <1>1, <1>5, <2>1 DEF StructureTypeOK
      <3>2. FolderInSpace(project[p]) /\ (project[p].team # Absent => team[project[p].team] # Absent)
        BY <1>1, <3>1 DEF RefersToWhatIsThere
      <3>3. project[p].team # Absent => project[p].team \in Teams
        BY <3>1 DEF Project
      <3>4. FolderInSpace(project[p])'
        BY <1>2, <1>5, <3>1, <3>2 DEF FolderInSpace
      <3> QED BY <1>5, <1>6, <3>1, <3>2, <3>3, <3>4
    <2>2. \A x \in measures' : goal'[x[1]] # Absent /\ project'[x[2]] # Absent
      BY <1>1, <1>2, <1>5 DEF RefersToWhatIsThere, StructureTypeOK
    <2> QED BY <2>1, <2>2 DEF RefersToWhatIsThere
  <1>10. HaveChannels'
    <2>1. \A q \in Requests : Performs(q, "openChannel") => asked'[q] = asked[q]
      BY <1>1, <1>2, DoneForgets
    <2>2. \A p \in Projects : channel[p] # Absent => channel'[p] # Absent \/ <<p, t>> \in taken'
      BY <1>2
    <2> QED BY <1>1, <1>2, <1>5, <2>1, <2>2, ChannelsStay
  <1> QED BY <1>7, <1>8, <1>9, <1>10 DEF StructureInv

\* A new project is in a folder of its space, with a team that is there.
LEMMA NewProjectRefers ==
  ASSUME StructureTypeOK, RefersToWhatIsThere, NEW p \in Projects, NEW row \in Project,
         project' = [project EXCEPT ![p] = row], UNCHANGED <<space, folder, team, goal, measures>>,
         FolderInSpace(row), row.team # Absent => team[row.team] # Absent
  PROVE  RefersToWhatIsThere' /\ project' \in [Projects -> Project \cup {Absent}]
  <1>1. Absent \notin Project
    BY RowsAssumption
  <1>2. /\ project' \in [Projects -> Project \cup {Absent}] /\ project'[p] = row
        /\ \A x \in Projects \ {p} : project'[x] = project[x]
    BY DEF StructureTypeOK
  <1>3. ASSUME NEW x \in Projects, project'[x] # Absent
        PROVE  FolderInSpace(project[x])' /\ (project'[x].team # Absent => team'[project'[x].team] # Absent)
    <2>1. CASE x = p
      BY <1>2, <2>1 DEF FolderInSpace
    <2>2. CASE x # p
      BY <1>2, <1>3, <2>2 DEF RefersToWhatIsThere, FolderInSpace
    <2> QED BY <2>1, <2>2
  <1>4. \A x \in measures' : goal'[x[1]] # Absent /\ project'[x[2]] # Absent
    BY <1>1, <1>2 DEF RefersToWhatIsThere, StructureTypeOK
  <1> QED BY <1>2, <1>3, <1>4 DEF RefersToWhatIsThere

LEMMA CreatingAProjectKeeps ==
  ASSUME StructureInv, NEW r \in Requests, CreateProject(r)
  PROVE  StructureInv'
  <1>1. /\ StructureTypeOK /\ AskedOK /\ FoldersAreFresh /\ RefersToWhatIsThere /\ HaveChannels
    BY DEF StructureInv
  <1> PICK p \in Projects, row \in Project : p = asked[r].project /\ row = asked[r].row
    BY <1>1, ProjectAsksName DEF CreateProject
  <1> DEFINE chat == [members |-> row.members, team |-> row.team]
             opening == [kind |-> "openChannel", project |-> p, row |-> chat]
  <1>2. /\ Performs(r, "createProject") /\ project' = [project EXCEPT ![p] = row]
        /\ asked' = [asked EXCEPT ![r] = opening]
        /\ row.space # Absent => space[row.space] # Absent
        /\ row.team # Absent => team[row.team] # Absent
        /\ FolderInSpace(row)
        /\ UNCHANGED <<space, grants, folder, team, channel, goal, measures, used, unopened, taken>>
    BY DEF CreateProject, FolderMatchesSpace, FolderInSpace, History
  <1>3. chat \in Channel
    BY DEF Project, Channel
  <1> HIDE DEF chat
  <1>4. opening \in Opening /\ opening.kind = "openChannel" /\ opening.project = p
    BY <1>3 DEF Opening
  <1>5. opening # Absent /\ opening \in Asks
    BY <1>4, RowsAssumption DEF Asks, ProjectAsks
  <1> HIDE DEF opening
  <1>6. AskedOK' /\ asked'[r] = opening /\ \A q \in Requests \ {r} : asked'[q] = asked[q]
    BY <1>1, <1>2, <1>5 DEF AskedOK
  <1>7. FoldersAreFresh'
    <2>1. \A q \in Requests : Performs(q, "createFolder")' => Performs(q, "createFolder") /\ asked'[q] = asked[q]
      BY <1>4, <1>6 DEF Performs
    <2> QED BY <1>1, <1>2, <2>1 DEF FoldersAreFresh
  <1>8. RefersToWhatIsThere' /\ project' \in [Projects -> Project \cup {Absent}]
    BY <1>1, <1>2, NewProjectRefers
  <1>9. StructureTypeOK'
    BY <1>1, <1>2, <1>8 DEF StructureTypeOK
  <1>10. HaveChannels'
    <2>1. HasChannel(p)'
      BY <1>4, <1>5, <1>6 DEF HasChannel, Performs
    <2>2. ASSUME NEW x \in Projects, x # p, project'[x] # Absent PROVE HasChannel(x)'
      <3>1. project'[x] = project[x] /\ HasChannel(x)
        BY <1>1, <1>2, <2>2 DEF HaveChannels, StructureTypeOK
      <3>2. \A q \in Requests : Performs(q, "openChannel") => q # r
        BY <1>2 DEF Performs
      <3> QED BY <1>2, <1>6, <3>1, <3>2 DEF HasChannel, Performs
    <2> QED BY <2>1, <2>2 DEF HaveChannels
  <1> QED BY <1>6, <1>7, <1>8, <1>9, <1>10 DEF StructureInv

LEMMA ProjectWritesKeep ==
  ASSUME StructureInv, NEW r \in Requests, ApplyTemplate(r) \/ OpenChannel(r) \/ UpdateProject(r) \/ SetTeam(r)
  PROVE  StructureInv'
  <1>1. /\ StructureTypeOK /\ AskedOK /\ FoldersAreFresh /\ RefersToWhatIsThere /\ HaveChannels
    BY DEF StructureInv
  <1>2. Done(r) /\ UNCHANGED <<space, grants, folder, team, goal, measures, taken>>
    BY DEF ApplyTemplate, OpenChannel, UpdateProject, SetTeam, History
  <1>3. AskedOK' /\ FoldersAreFresh'
    BY <1>1, <1>2, DoneForgets, FoldersStayFresh
  <1>4. \A q \in Requests : q # r => asked'[q] = asked[q]
    BY <1>1, <1>2, DoneForgets
  <1>5. Absent \notin Project /\ Absent \notin Channel
    BY RowsAssumption
  <1>6. CASE ApplyTemplate(r)
    <2> PICK p \in Projects, row \in Unplaced : p = asked[r].project /\ row = asked[r].row
      BY <1>1, <1>6, ProjectAsksName DEF ApplyTemplate
    <2>1. /\ Performs(r, "applyTemplate") /\ project' = [project EXCEPT ![p] = row]
          /\ unopened' = unopened \cup {p} /\ channel' = channel
      BY <1>6 DEF ApplyTemplate
    <2>2. row \in Project /\ FolderInSpace(row) /\ row.team = Absent
      BY DEF Unplaced, Project, FolderInSpace
    <2>3. RefersToWhatIsThere' /\ project' \in [Projects -> Project \cup {Absent}]
      BY <1>1, <1>2, <2>1, <2>2, NewProjectRefers
    <2>4. StructureTypeOK'
      BY <1>1, <1>2, <2>1, <2>3 DEF StructureTypeOK
    <2>5. HaveChannels'
      <3>1. \A x \in Projects : x # p => project'[x] = project[x]
        BY <1>1, <2>1 DEF StructureTypeOK
      <3>2. \A q \in Requests : Performs(q, "openChannel") => q # r
        BY <2>1 DEF Performs
      <3> QED BY <1>1, <1>2, <1>4, <2>1, <3>1, <3>2 DEF HaveChannels, HasChannel, Performs
    <2> QED BY <1>3, <2>3, <2>4, <2>5 DEF StructureInv
  <1>7. CASE OpenChannel(r)
    <2> PICK p \in Projects, row \in Channel : p = asked[r].project /\ row = asked[r].row
      BY <1>1, <1>7, ProjectAsksName DEF OpenChannel
    <2>1. channel' = [channel EXCEPT ![p] = row] /\ project' = project /\ unopened' = unopened
      BY <1>7 DEF OpenChannel, History
    <2>2. /\ channel' \in [Projects -> Channel \cup {Absent}] /\ channel'[p] # Absent
          /\ \A x \in Projects : channel[x] # Absent => channel'[x] # Absent
      BY <1>1, <1>5, <2>1 DEF StructureTypeOK
    <2>3. StructureTypeOK'
      BY <1>1, <1>2, <2>1, <2>2 DEF StructureTypeOK
    <2>4. RefersToWhatIsThere'
      BY <1>1, <1>2, <2>1 DEF RefersToWhatIsThere, FolderInSpace
    <2>5. HaveChannels'
      BY <1>1, <1>2, <1>4, <2>1, <2>2, ChannelsStay
    <2> QED BY <1>3, <2>3, <2>4, <2>5 DEF StructureInv
  <1>8. ASSUME NEW p \in Projects, project[p] # Absent, NEW row \in Project, project' = [project EXCEPT ![p] = row],
               row.space = project[p].space, row.folder = project[p].folder,
               row.team = project[p].team \/ (row.team # Absent => row.team \in Teams /\ team[row.team] # Absent),
               ~Performs(r, "openChannel"), UNCHANGED <<channel, unopened>>
        PROVE  StructureInv'
    <2>1. /\ project' \in [Projects -> Project \cup {Absent}] /\ project'[p] = row /\ row # Absent
          /\ \A x \in Projects \ {p} : project'[x] = project[x]
      BY <1>1, <1>5, <1>8 DEF StructureTypeOK
    <2>2. StructureTypeOK'
      BY <1>1, <1>2, <1>8, <2>1 DEF StructureTypeOK
    <2>3. RefersToWhatIsThere'
      BY <1>1, <1>2, <1>8, <2>1, ReferencesStay
    <2>4. HaveChannels'
      BY <1>1, <1>2, <1>4, <1>8, <2>1, ChannelsStay
    <2> QED BY <1>3, <2>2, <2>3, <2>4 DEF StructureInv
  <1>9. CASE UpdateProject(r)
    <2> PICK p \in Projects, members \in SUBSET Users : p = asked[r].project /\ members = asked[r].members
      BY <1>1, <1>9, ProjectAsksName DEF UpdateProject
    <2> DEFINE row == [project[p] EXCEPT !.members = members]
    <2>1. /\ project[p] # Absent /\ project' = [project EXCEPT ![p] = row]
          /\ ~Performs(r, "openChannel") /\ UNCHANGED <<channel, unopened>>
      BY <1>9 DEF UpdateProject, Performs, History
    <2>2. project[p] \in Project
      BY <1>1, <2>1 DEF StructureTypeOK
    <2>3. /\ row \in Project /\ row.space = project[p].space /\ row.folder = project[p].folder
          /\ row.team = project[p].team
      BY <2>2 DEF Project
    <2> HIDE DEF row
    <2> QED BY <1>8, <2>1, <2>3
  <1>10. CASE SetTeam(r)
    <2> PICK p \in Projects, t \in Teams \cup {Absent} : p = asked[r].project /\ t = asked[r].team
      BY <1>1, <1>10, ProjectAsksName DEF SetTeam
    <2> DEFINE row == [project[p] EXCEPT !.team = t]
    <2>1. /\ project[p] # Absent /\ project' = [project EXCEPT ![p] = row] /\ (t # Absent => team[t] # Absent)
          /\ ~Performs(r, "openChannel") /\ UNCHANGED <<channel, unopened>>
      BY <1>10 DEF SetTeam, Performs, History
    <2>2. project[p] \in Project
      BY <1>1, <2>1 DEF StructureTypeOK
    <2>3. /\ row \in Project /\ row.space = project[p].space /\ row.folder = project[p].folder
          /\ row.team = t
      BY <2>2 DEF Project
    <2> HIDE DEF row
    <2> QED BY <1>8, <2>1, <2>3
  <1> QED BY <1>6, <1>7, <1>9, <1>10

LEMMA DeletingAProjectKeeps ==
  ASSUME StructureInv, NEW r \in Requests, DeleteProject(r)
  PROVE  StructureInv'
  <1>1. /\ StructureTypeOK /\ AskedOK /\ FoldersAreFresh /\ RefersToWhatIsThere /\ HaveChannels
    BY DEF StructureInv
  <1> PICK p \in Projects : p = asked[r].project
    BY <1>1, ProjectAsksName DEF DeleteProject
  <1>2. /\ Done(r) /\ ~Performs(r, "openChannel") /\ (\A m \in measures : m[2] # p)
        /\ project' = [x \in Projects |-> IF x \in {p} THEN Absent ELSE project[x]]
        /\ channel' = [x \in Projects |-> IF x \in {p} THEN Absent ELSE channel[x]]
        /\ UNCHANGED <<space, grants, folder, team, goal, measures, unopened, taken>>
    BY DEF DeleteProject, Cleared, Measured, Performs, History
  <1>3. AskedOK' /\ FoldersAreFresh'
    BY <1>1, <1>2, DoneForgets, FoldersStayFresh
  <1>4. StructureTypeOK'
    BY <1>1, <1>2 DEF StructureTypeOK
  <1>5. RefersToWhatIsThere'
    BY <1>1, <1>2 DEF RefersToWhatIsThere, FolderInSpace, StructureTypeOK
  <1>6. HaveChannels'
    <2>1. \A q \in Requests : Performs(q, "openChannel") => asked'[q] = asked[q]
      BY <1>1, <1>2, DoneForgets
    <2>2. \A x \in Projects : project'[x] # Absent => project[x] # Absent /\ channel'[x] = channel[x]
      BY <1>2
    <2> QED BY <1>1, <1>2, <2>1, <2>2, ChannelsStay
  <1> QED BY <1>3, <1>4, <1>5, <1>6 DEF StructureInv

LEMMA GoalWritesKeep ==
  ASSUME StructureInv, NEW r \in Requests,
         CreateGoal(r) \/ UpdateGoal(r) \/ DeleteGoal(r) \/ AddKeyResult(r) \/ DeleteKeyResult(r) \/ Fail(r)
  PROVE  StructureInv'
  <1>1. /\ StructureTypeOK /\ AskedOK /\ FoldersAreFresh /\ RefersToWhatIsThere /\ HaveChannels
    BY DEF StructureInv
  <1>2. Done(r) /\ UNCHANGED <<space, grants, folder, team, project, channel, taken>>
    BY DEF CreateGoal, UpdateGoal, DeleteGoal, AddKeyResult, DeleteKeyResult, Fail, History
  <1>3. AskedOK' /\ FoldersAreFresh'
    BY <1>1, <1>2, DoneForgets, FoldersStayFresh
  <1>4. /\ unopened \subseteq unopened' /\ unopened' \subseteq Projects
        /\ \A q \in Requests : Performs(q, "openChannel") => asked'[q] = asked[q] \/ asked[q].project \in unopened'
    <2>1. \A q \in Requests : q # r => asked'[q] = asked[q]
      BY <1>1, <1>2, DoneForgets
    <2>2. CASE Fail(r)
      <3>1. Performs(r, "openChannel") => asked[r].project \in Projects
        BY <1>1, ProjectAsksName
      <3> QED BY <1>1, <2>1, <2>2, <3>1 DEF Fail, StructureTypeOK
    <2>3. CASE ~Fail(r)
      <3>1. unopened' = unopened /\ ~Performs(r, "openChannel")
        BY <2>3 DEF CreateGoal, UpdateGoal, DeleteGoal, AddKeyResult, DeleteKeyResult, History, Performs
      <3> QED BY <1>1, <2>1, <3>1 DEF StructureTypeOK
    <2> QED BY <2>2, <2>3
  <1>5. HaveChannels'
    BY <1>1, <1>2, <1>4, ChannelsStay
  <1>6. \A p \in Projects : project[p] # Absent =>
           FolderInSpace(project[p])' /\ (project'[p].team # Absent => team'[project'[p].team] # Absent)
    BY <1>1, <1>2 DEF RefersToWhatIsThere, FolderInSpace
  <1> DEFINE Measuring == /\ goal' \in [Goals -> Goal \cup {Absent}] /\ measures' \subseteq Goals \X Projects
                          /\ \A x \in measures' : goal'[x[1]] # Absent /\ project[x[2]] # Absent
  <1>7. Absent \notin Goal
    BY RowsAssumption
  <1>8. ASSUME NEW g \in Goals, NEW row \in Goal, goal' = [goal EXCEPT ![g] = row], measures' = measures
        PROVE  Measuring
    BY <1>1, <1>7, <1>8 DEF RefersToWhatIsThere, StructureTypeOK
  <1>9. ASSUME CreateGoal(r) PROVE Measuring
    <2> PICK g \in Goals, row \in Goal : g = asked[r].goal /\ row = asked[r].row
      BY <1>1, <1>9, GoalAsksName DEF CreateGoal
    <2> QED BY <1>8, <1>9 DEF CreateGoal
  <1>10. ASSUME UpdateGoal(r) PROVE Measuring
    <2> PICK g \in Goals, owner \in Users : g = asked[r].goal /\ owner = asked[r].owner
      BY <1>1, <1>10, GoalAsksName DEF UpdateGoal
    <2> DEFINE row == [goal[g] EXCEPT !.owner = owner]
    <2>1. goal' = [goal EXCEPT ![g] = row] /\ measures' = measures /\ goal[g] # Absent
      BY <1>10 DEF UpdateGoal
    <2>2. row \in Goal
      BY <1>1, <2>1 DEF StructureTypeOK, Goal
    <2> HIDE DEF row
    <2> QED BY <1>8, <2>1, <2>2
  <1>11. ASSUME DeleteGoal(r) PROVE Measuring
    <2> PICK g \in Goals : g = asked[r].goal
      BY <1>1, <1>11, GoalAsksName DEF DeleteGoal
    <2>1. goal' = [goal EXCEPT ![g] = Absent] /\ measures' = {m \in measures : m[1] # g}
      BY <1>11 DEF DeleteGoal
    <2> QED BY <1>1, <2>1 DEF RefersToWhatIsThere, StructureTypeOK
  <1>12. ASSUME AddKeyResult(r) PROVE Measuring
    <2> PICK m \in Goals \X Projects : m = asked[r].measure
      BY <1>1, <1>12, GoalAsksName DEF AddKeyResult
    <2>1. goal' = goal /\ measures' = measures \cup {m} /\ goal[m[1]] # Absent /\ project[m[2]] # Absent
      BY <1>12 DEF AddKeyResult
    <2> QED BY <1>1, <2>1 DEF RefersToWhatIsThere, StructureTypeOK
  <1>13. ASSUME DeleteKeyResult(r) \/ Fail(r) PROVE Measuring
    <2>1. goal' = goal /\ measures' \subseteq measures
      BY <1>13 DEF DeleteKeyResult, Fail
    <2> QED BY <1>1, <2>1 DEF RefersToWhatIsThere, StructureTypeOK
  <1>14. Measuring
    BY <1>9, <1>10, <1>11, <1>12, <1>13
  <1>15. StructureTypeOK'
    BY <1>1, <1>2, <1>4, <1>14 DEF StructureTypeOK
  <1>16. RefersToWhatIsThere'
    BY <1>2, <1>6, <1>14 DEF RefersToWhatIsThere
  <1> QED BY <1>3, <1>5, <1>15, <1>16 DEF StructureInv

LEMMA StructureIsInductive == StructureInv /\ [StructureNext]_structureVars => StructureInv'
  <1> SUFFICES ASSUME StructureInv, [StructureNext]_structureVars PROVE StructureInv'
    OBVIOUS
  <1>1. ASSUME NEW r \in Requests, Write(r) PROVE StructureInv'
    BY <1>1, SpaceWritesKeep, DeletingASpaceKeeps, FolderWritesKeep, TeamWritesKeep, DeletingATeamKeeps,
       CreatingAProjectKeeps, ProjectWritesKeep, DeletingAProjectKeeps, GoalWritesKeep DEF Write
  <1>2. CASE UNCHANGED structureVars
    <2> USE <1>2 DEF structureVars
    <2>1. StructureTypeOK' /\ AskedOK'
      BY DEF StructureInv, StructureTypeOK, AskedOK
    <2>2. FoldersAreFresh'
      BY DEF StructureInv, FoldersAreFresh, Performs
    <2>3. RefersToWhatIsThere'
      BY DEF StructureInv, RefersToWhatIsThere, FolderInSpace
    <2>4. HaveChannels'
      BY DEF StructureInv, HaveChannels, HasChannel, Performs
    <2> QED BY <2>1, <2>2, <2>3, <2>4 DEF StructureInv
  <1> QED BY <1>1, <1>2, AskingKeeps DEF StructureNext

LEMMA StructureHolds == StructureSpec => []StructureInv
  BY StructureStarts, StructureIsInductive, PTL DEF StructureSpec

\* Rows have their shape, and nothing is held on a space that is not there.
THEOREM StructureIsTyped == StructureSpec => []StructureTypeOK
  <1>1. StructureInv => StructureTypeOK
    BY DEF StructureInv
  <1> QED BY <1>1, StructureHolds, PTL

\* Projects, folders, spaces and teams, key results and channels refer to what
\* is there, whatever other requests delete between a judgement and its write.
THEOREM WorkStaysTogether == StructureSpec => []WorkHangsTogether
  <1>1. StructureInv => WorkHangsTogether
    BY DEF StructureInv, WorkHangsTogether, HaveChannels
  <1> QED BY <1>1, StructureHolds, PTL

\* The writes that can take a project away are the ones meant to.
LEMMA OnlyDeletionsDelete ==
  ASSUME StructureInv, NEW r \in Requests, Write(r), NEW p \in Projects, project[p] # Absent, project'[p] = Absent
  PROVE  \/ Performs(r, "deleteProject") /\ asked[r].project = p
         \/ Performs(r, "deleteSpace") /\ asked[r].space = project[p].space
  <1>1. StructureTypeOK /\ AskedOK /\ Absent \notin Project /\ project[p] \in Project
    BY RowsAssumption DEF StructureInv, StructureTypeOK
  <1>2. ASSUME NEW x, NEW row \in Project, project' = [project EXCEPT ![x] = row] PROVE FALSE
    BY <1>1, <1>2 DEF StructureTypeOK
  <1>3. CASE UNCHANGED project
    BY <1>3
  <1>4. CASE CreateProject(r) \/ ApplyTemplate(r)
    <2>1. asked[r].row \in Project
      BY <1>1, <1>4, ProjectAsksName DEF CreateProject, ApplyTemplate, Unplaced, Project
    <2> QED BY <1>2, <1>4, <2>1 DEF CreateProject, ApplyTemplate
  <1>5. CASE UpdateProject(r)
    <2> PICK x \in Projects, members \in SUBSET Users : x = asked[r].project /\ members = asked[r].members
      BY <1>1, <1>5, ProjectAsksName DEF UpdateProject
    <2>1. project[x] \in Project /\ project' = [project EXCEPT ![x] = [project[x] EXCEPT !.members = members]]
      BY <1>1, <1>5 DEF UpdateProject, StructureTypeOK
    <2>2. [project[x] EXCEPT !.members = members] \in Project
      BY <2>1 DEF Project
    <2> QED BY <1>2, <2>1, <2>2
  <1>6. CASE SetTeam(r)
    <2> PICK x \in Projects, t \in Teams \cup {Absent} : x = asked[r].project /\ t = asked[r].team
      BY <1>1, <1>6, ProjectAsksName DEF SetTeam
    <2>1. project[x] \in Project /\ project' = [project EXCEPT ![x] = [project[x] EXCEPT !.team = t]]
      BY <1>1, <1>6 DEF SetTeam, StructureTypeOK
    <2>2. [project[x] EXCEPT !.team = t] \in Project
      BY <2>1 DEF Project
    <2> QED BY <1>2, <2>1, <2>2
  <1>7. CASE DeleteProject(r)
    BY <1>7 DEF DeleteProject, Cleared
  <1>8. CASE DeleteSpace(r)
    BY <1>8 DEF DeleteSpace, Cleared
  <1>9. CASE DeleteTeam(r)
    <2>1. [project[p] EXCEPT !.team = Absent] \in Project
      BY <1>1 DEF Project
    <2> QED BY <1>1, <1>9, <2>1 DEF DeleteTeam
  <1>10. CASE DeleteFolder(r)
    <2>1. [project[p] EXCEPT !.folder = Absent] \in Project
      BY <1>1 DEF Project
    <2> QED BY <1>1, <1>10, <2>1 DEF DeleteFolder
  <1>11. \/ UNCHANGED project \/ CreateProject(r) \/ ApplyTemplate(r) \/ UpdateProject(r) \/ SetTeam(r)
         \/ DeleteProject(r) \/ DeleteSpace(r) \/ DeleteTeam(r) \/ DeleteFolder(r)
    BY DEF Write, CreateSpace, UpdateSpace, SetMember, RemoveMember, CreateFolder, CreateTeam, UpdateTeam,
           AddTeamMember, RemoveTeamMember, OpenChannel, CreateGoal, UpdateGoal, DeleteGoal, AddKeyResult,
           DeleteKeyResult, Fail
  <1> QED BY <1>3, <1>4, <1>5, <1>6, <1>7, <1>8, <1>9, <1>10, <1>11

LEMMA AskingDeletesNothing ==
  ASSUME NEW r \in Requests, NEW u \in Users, Ask(r, u)
  PROVE  UNCHANGED project
  BY DEF Ask, BeginCreateSpace, BeginSpace, BeginFolder, BeginTeam, BeginCreateProject, BeginApplyTemplate,
         BeginProject, BeginCreateGoal, BeginGoal, BeginKeyResult, Rows

\* Whatever else is deleted, a project goes only by its own deletion or that
\* of the space it is in.
THEOREM WorkIsOnlyDeletedOnPurpose == StructureSpec => WorkIsDeletedOnPurpose
  <1>1. ASSUME StructureInv, [StructureNext]_structureVars
        PROVE  [\A p \in Projects : project[p] # Absent /\ project'[p] = Absent =>
                  \E r \in Requests :
                    \/ Performs(r, "deleteProject") /\ asked[r].project = p
                    \/ Performs(r, "deleteSpace") /\ asked[r].space = project[p].space]_structureVars
    <2>1. CASE UNCHANGED structureVars
      BY <2>1
    <2>2. ASSUME NEW r \in Requests, Write(r), NEW p \in Projects, project[p] # Absent, project'[p] = Absent
          PROVE  \/ Performs(r, "deleteProject") /\ asked[r].project = p
                 \/ Performs(r, "deleteSpace") /\ asked[r].space = project[p].space
      BY <1>1, <2>2, OnlyDeletionsDelete
    <2>3. ASSUME NEW r \in Requests, NEW u \in Users, Ask(r, u) PROVE UNCHANGED project
      BY <2>3, AskingDeletesNothing
    <2> QED BY <1>1, <2>1, <2>2, <2>3 DEF StructureNext
  <1> QED BY <1>1, StructureHolds, PTL DEF StructureSpec, WorkIsDeletedOnPurpose
=============================================================================

------------------------------ MODULE Planning ------------------------------
(* The dependencies between the tasks of a project, the trigger that keeps   *)
(* them free of cycles, and the critical path.  A cycle is looked for on     *)
(* what has been committed when an edge is added; the edge itself is         *)
(* committed later, and other edges may be between the two.                  *)
(*                                                                           *)
(* Types of dependency and lag are stored and read by nothing.               *)
EXTENDS Naturals, Sequences, FiniteSets, FiniteSetsExt

CONSTANTS Tasks,
          Parent,       \* task -> the task it is a sub-task of, or NoTask
          Duration,     \* task -> its days, at least one
          Adders,       \* requests that add a dependency
          NoTask,
          MaxEdges      \* bound: edges of the project

ASSUME PlanningAssumption ==
  /\ NoTask \notin Tasks /\ IsFiniteSet(Tasks) /\ Parent \in [Tasks -> Tasks \cup {NoTask}]
  /\ Duration \in [Tasks -> Nat \ {0}]

VARIABLES
  present,    \* tasks that exist
  edges,      \* <<t, b>>: t depends on b
  adding,     \* request -> the edge the trigger has let pass, or NoTask
  raced       \* history: edges whose adding overlapped another's

planningVars == <<present, edges, adding, raced>>

Pending == {a \in Adders : adding[a] # NoTask}

PlanningInit ==
  /\ present \in {P \in SUBSET Tasks : \A t \in P : Parent[t] \in P \cup {NoTask}}
  /\ edges = {} /\ adding = [a \in Adders |-> NoTask] /\ raced = {}

\* The recursive query of the trigger: what t depends on, however far, and t.
Chain(E, t) ==
  {x \in Tasks : \A S \in SUBSET Tasks :
     t \in S /\ (\A e \in E : e[1] \in S => e[2] \in S) => x \in S}

\* Mutation: only what b itself waits for is looked at.
ClosesPair(t, b) == t = b \/ <<b, t>> \in edges

\* The edge closes a loop when its blocker waits for the blocked task.
ClosesLoop(t, b) == t \in Chain(edges, b)

\* Both tasks are there, and the trigger has found no loop.
CheckDependency(a, t, b) ==
  /\ adding[a] = NoTask /\ t # b /\ {t, b} \subseteq present /\ ~ClosesLoop(t, b)
  /\ Cardinality(edges) + Cardinality(Pending) < MaxEdges
  /\ adding' = [x \in Adders |->
       IF x = a THEN [edge |-> <<t, b>>, alone |-> Pending = {}]
       ELSE IF x \in Pending THEN [adding[x] EXCEPT !.alone = FALSE]
       ELSE NoTask]
  /\ UNCHANGED <<present, edges, raced>>

\* The insertion commits.  Where the edge is there by now it is updated
\* instead, and the trigger looks again.
AddDependency(a) ==
  LET add == adding[a] IN
  /\ add # NoTask
  /\ add.edge \in edges => ~ClosesLoop(add.edge[1], add.edge[2])
  /\ edges' = edges \cup {add.edge}
  /\ raced' = IF add.alone THEN raced \ {add.edge}
              ELSE IF add.edge \in edges THEN raced
              ELSE raced \cup {add.edge}
  /\ adding' = [adding EXCEPT ![a] = NoTask] /\ UNCHANGED present

AddFails(a) ==
  /\ adding[a] # NoTask /\ adding' = [adding EXCEPT ![a] = NoTask]
  /\ UNCHANGED <<present, edges, raced>>

RemoveDependency(e) ==
  /\ e \in edges /\ edges' = edges \ {e} /\ raced' = raced \ {e}
  /\ UNCHANGED <<present, adding>>

\* A task goes with its sub-tasks and every edge at one of them.  An insertion
\* under way holds the two tasks it refers to.
RemoveTask(t) ==
  LET gone == {x \in present : t \in Chain({<<y, Parent[y]>> : y \in {z \in present : Parent[z] # NoTask}}, x)}
      At(e) == e[1] \in gone \/ e[2] \in gone IN
  /\ t \in present /\ \A a \in Pending : ~At(adding[a].edge)
  /\ present' = present \ gone
  /\ edges' = {e \in edges : ~At(e)} /\ raced' = {e \in raced : ~At(e)}
  /\ UNCHANGED adding

PlanningNext ==
  \/ \E a \in Adders :
       \/ \E t, b \in Tasks : CheckDependency(a, t, b)
       \/ AddDependency(a) \/ AddFails(a)
  \/ \E e \in edges : RemoveDependency(e)
  \/ \E t \in Tasks : RemoveTask(t)

PlanningSpec == PlanningInit /\ [][PlanningNext]_planningVars

-----------------------------------------------------------------------------
(* The critical path *)

\* The schedule is of the tasks that are nobody's sub-task.
Known == {t \in present : Parent[t] = NoTask}

Blockers(t) == {b \in Known : <<t, b>> \in edges}

\* Of equally heavy ones the rows' order decides, which the query leaves open.
Heaviest(results) == CHOOSE r \in results : \A other \in results : other.weight <= r.weight

\* Mutation: the blocker that takes longest by itself.
NextLongest(t, walk) ==
  walk[CHOOSE b \in Blockers(t) : \A other \in Blockers(t) : Duration[other] <= Duration[b]]

\* The heaviest of the chains that end at t's blockers.
Best(t, walk) == Heaviest({walk[b] : b \in Blockers(t)})

\* The heaviest chain that ends at a task, for every task.
Walk ==
  LET walk[t \in Known] ==
        IF Blockers(t) = {} THEN [weight |-> Duration[t], path |-> <<t>>]
        ELSE LET best == Best(t, walk) IN
             [weight |-> best.weight + Duration[t], path |-> Append(best.path, t)]
  IN walk

\* One task alone is no path.
CriticalPath ==
  IF Known = {} THEN <<>>
  ELSE LET longest == Heaviest({Walk[t] : t \in Known}) IN
       IF Len(longest.path) < 2 THEN <<>> ELSE longest.path

-----------------------------------------------------------------------------
(* Properties *)

NoLoop(E) == \A e \in E : e[1] \notin Chain(E, e[2])

\* However edges come and go, those whose adding overlapped no other's form no
\* cycle, nor do they with each other's later updates
\* (0004_product_engine.sql:27-56).
Acyclic == NoLoop(edges \ raced)

\* A sequence of tasks of the schedule each of which waits for the one before.
IsChain(c) ==
  \A i \in DOMAIN c : c[i] \in Known /\ (i > 1 => <<c[i], c[i - 1]>> \in edges)

Weight(c) == MapThenSumSet(LAMBDA i : Duration[c[i]], DOMAIN c)

\* Where there is no cycle, the memoised walk finds a chain that no other
\* outweighs, of all the sequences of tasks there are; it returns none only
\* when one task outweighs them (repo/dependencies.go:233-285).
CriticalPathIsLongest ==
  NoLoop(edges) =>
    LET chains == {c \in UNION {[1..n -> Known] : n \in 1..Cardinality(Known)} : IsChain(c)}
        heaviest == {c \in chains : \A d \in chains : Weight(d) <= Weight(c)} IN
    IF CriticalPath = <<>>
    THEN heaviest = {} \/ \E c \in heaviest : Len(c) = 1
    ELSE CriticalPath \in heaviest
=============================================================================

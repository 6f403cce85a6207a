------------------------------ MODULE Planner ------------------------------
(***************************************************************************)
(* planExecutionStages of harness/shared/start.cjs: the runnable tests of  *)
(* all branches are layered into stages by counting prerequisites down.    *)
(* Targets that can never run are set aside as blocked, with an issue that *)
(* says why.  The module steps once per round of the layering loop.        *)
(*                                                                         *)
(* An issue names its type, its target and, for the runtime types, the     *)
(* target that caused it.  The id a missing-dependency issue quotes is     *)
(* left out: nothing but its being non-blank is told apart downstream.     *)
(***************************************************************************)
EXTENDS DiscoveredForest, ExecutionPlan

CONSTANT Forests   \* the forests discovery may hand over

ASSUME ForestsAssumption == \A f \in Forests : IsForest(f)

VARIABLES
  forest,     \* the discovered branches (never changes)
  edges,      \* adjacency
  prereq,     \* prereqCounts
  ready,      \* readyTargets
  stages,     \* plannedStages, a sequence of sets ordered by Before
  blocked,    \* blockedKeys
  issues,     \* the planner's issues
  phase       \* "unplanned", "layering", "planned"

vars == <<forest, edges, prereq, ready, stages, blocked, issues, phase>>

Targets == forest.runnable

Predecessors(t) == {a \in Targets : <<a, t>> \in edges}

Staged == UNION {stages[k] : k \in DOMAIN stages}

\* propagateBlockedTargets: the least set over S closed under successors.
Downstream(E, S) ==
  {t \in Targets : \A C \in SUBSET Targets :
     S \subseteq C /\ (\A e \in E : e[1] \in C => e[2] \in C) => t \in C}

\* hasMalformedDependencyMetadata and the missing dependencies.
Unresolvable == {t \in Targets : Malformed(forest, t) \/ MissingIds(forest, t) # {}}

DependencyIssues ==
  {Issue(IF Malformed(forest, t) THEN "invalid-constraint" ELSE "missing-dependency",
         t, NoNode) : t \in Unresolvable}

SequenceIssues ==
  {Issue("invalid-constraint", t, NoNode) : t \in InvalidSequence(forest)}

\* collectIgnoredHintIssues: every node that declares an unsupported hint.
HintIssues ==
  {Issue("ignored-hint", n, NoNode) :
     n \in {m \in forest.nodes : \/ forest.mode[m] = "unsupported"
                                 \/ forest.policy[m] = "unsupported"}}

-----------------------------------------------------------------------------

Init ==
  /\ forest \in Forests
  /\ edges = {}
  /\ prereq = [t \in Targets |-> 0]
  /\ ready = {}
  /\ stages = <<>>
  /\ blocked = {}
  /\ issues = {}
  /\ phase = "unplanned"

\* Mutant of BuildDependencies: blocked targets enter the first stage.
BuildWithBlocked ==
  /\ phase = "unplanned"
  /\ edges' = Edges(forest)
  /\ prereq' = [t \in Targets |-> Cardinality({e \in edges' : e[2] = t})]
  /\ blocked' = Downstream(edges', Unresolvable) \cup InvalidSequence(forest)
  /\ ready' = {t \in Targets : prereq'[t] = 0}
  /\ issues' = DependencyIssues
  /\ phase' = "layering"
  /\ UNCHANGED <<forest, stages>>

\* createExecutionTargetMap, buildExecutionDependencies and the first ready
\* targets: those without prerequisites that are not blocked.
BuildDependencies ==
  /\ phase = "unplanned"
  /\ edges' = Edges(forest)
  /\ prereq' = [t \in Targets |-> Cardinality({e \in edges' : e[2] = t})]
  /\ blocked' = Downstream(edges', Unresolvable) \cup InvalidSequence(forest)
  /\ ready' = {t \in Targets \ blocked' : prereq'[t] = 0}
  /\ issues' = DependencyIssues
  /\ phase' = "layering"
  /\ UNCHANGED <<forest, stages>>

\* Mutant of LayerStage: a target is ready when any prerequisite is staged.
EagerLayerStage ==
  /\ phase = "layering"
  /\ ready # {}
  /\ stages' = Append(stages, ready)
  /\ prereq' = [t \in Targets |-> prereq[t] - Cardinality(Predecessors(t) \cap ready)]
  /\ ready' = {t \in Targets : prereq'[t] < prereq[t]}
  /\ UNCHANGED <<forest, edges, blocked, issues, phase>>

\* One round: the ready targets become a stage, and every successor whose
\* last prerequisite is in it becomes ready, blocked or not.
LayerStage ==
  /\ phase = "layering"
  /\ ready # {}
  /\ stages' = Append(stages, ready)
  /\ prereq' = [t \in Targets |-> prereq[t] - Cardinality(Predecessors(t) \cap ready)]
  /\ ready' = {t \in Targets : prereq'[t] = 0 /\ prereq[t] # 0}
  /\ UNCHANGED <<forest, edges, blocked, issues, phase>>

\* Mutant of FinishPlan: cycles are reported but not blocked.
FinishPlanUnblocked ==
  /\ phase = "layering"
  /\ ready = {}
  /\ issues' = issues \cup SequenceIssues \cup HintIssues \cup
        {Issue("dependency-cycle", t, NoNode) : t \in {u \in Targets \ blocked : prereq[u] > 0}}
  /\ phase' = "planned"
  /\ UNCHANGED <<forest, edges, prereq, ready, stages, blocked>>

\* Whatever is left with a prerequisite is reported as a cycle.
FinishPlan ==
  /\ phase = "layering"
  /\ ready = {}
  /\ LET cycle == {t \in Targets \ blocked : prereq[t] > 0}
     IN  /\ blocked' = blocked \cup cycle
         /\ issues' = issues \cup {Issue("dependency-cycle", t, NoNode) : t \in cycle}
                        \cup SequenceIssues \cup HintIssues
  /\ phase' = "planned"
  /\ UNCHANGED <<forest, edges, prereq, ready, stages>>

\* Mutant of PlannedTargets: only targets with an issue of their own count as
\* blocked.
PlannedWithIssues ==
  [targets |-> Targets,
   rank |-> [t \in Targets |-> Cardinality({u \in Targets : Before(forest, u, t)})],
   edges |-> edges, stages |-> stages, blocked |-> {i.target : i \in issues} \cap Targets,
   invalid |-> InvalidSequence(forest),
   bailScope |-> [t \in Targets |-> BailScope(forest, t)],
   expectFailure |-> forest.expectFailure \cap Targets, issues |-> issues]

\* What planExecutionStages returns once the plan is made.
PlannedTargets ==
  [targets |-> Targets,
   rank |-> [t \in Targets |-> Cardinality({u \in Targets : Before(forest, u, t)})],
   edges |-> edges, stages |-> stages, blocked |-> blocked,
   invalid |-> InvalidSequence(forest),
   bailScope |-> [t \in Targets |-> BailScope(forest, t)],
   expectFailure |-> forest.expectFailure \cap Targets, issues |-> issues]

Next == BuildDependencies \/ LayerStage \/ FinishPlan

Spec == Init /\ [][Next]_vars /\ WF_vars(Next)

-----------------------------------------------------------------------------
(***************************************************************************)
(* What the layering promises.                                             *)
(***************************************************************************)

\* A target is staged only behind all of its prerequisites, however the
\* countdown got there (planExecutionStages, the nextCount === 0 test).
StagedAfterPrerequisites ==
  \A k \in DOMAIN stages : \A t \in stages[k] : \A a \in Predecessors(t) :
    \E j \in 1..(k - 1) : a \in stages[j]

\* A finished plan loses nothing and repeats nothing: a runnable test is
\* blocked or has a stage, and never two.
EachTargetPlannedOnce ==
  /\ \A j, k \in DOMAIN stages : j # k => stages[j] \cap stages[k] = {}
  /\ phase = "planned" => Targets = Staged \cup blocked

\* The runnable members of a sequential scope run one after another, in the
\* order the host sorts them (collectSequentialScopeTargets).
SequentialScopesAreSerial ==
  \A s \in forest.nodes : forest.sequence[s] = "sequential" =>
    \A j, k \in DOMAIN stages : \A a \in stages[j] : \A b \in stages[k] :
      InScope(forest, a, s) /\ InScope(forest, b, s) /\ Before(forest, a, b) => j < k

\* The executor relies on what it is handed over without looking: stages that
\* are apart and in the order of the edges, every target in one or blocked, and
\* what depends on a blocked target blocked (executePlannedStages).
PlanIsWellFormed == phase = "planned" => WellFormedPlan(PlannedTargets)

-----------------------------------------------------------------------------
(***************************************************************************)
(* A reference for which targets end up blocked, over the paths of the     *)
(* graph instead of the countdown.                                         *)
(***************************************************************************)

\* What t waits for, directly or not: the least set of targets that holds the
\* predecessors of t and of each of its members.
Above(t) ==
  {a \in Targets : \A C \in SUBSET Targets :
     Predecessors(t) \subseteq C /\ (\A c \in C : Predecessors(c) \subseteq C) => a \in C}

OnCycle(t) == t \in Above(t)

AtOrAbove(t) == {t} \cup Above(t)

\* The countdown reaches t: nothing above it is on a cycle, and every
\* prerequisite-free target above it was allowed into the first stage.
Reachable(t) ==
  \A a \in AtOrAbove(t) :
    /\ ~ OnCycle(a)
    /\ Predecessors(a) = {} =>
         /\ Unresolvable \cap AtOrAbove(a) = {}
         /\ a \notin InvalidSequence(forest)

\* The stages are exactly the targets the reference reaches.
StagedExactlyWhenReachable ==
  phase = "planned" => Staged = {t \in Targets : Reachable(t)}

=============================================================================

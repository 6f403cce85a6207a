---------------------------- MODULE StartHarness ----------------------------
(***************************************************************************)
(* startHarness of harness/shared/start.cjs, from the first discover call  *)
(* to the run summary: breadth-first discovery of every branch, the plan   *)
(* (module Planner), its execution (module PlanExecution) and the verdict  *)
(* of the run.                                                             *)
(*                                                                         *)
(* A guest is a record: the forest it declares, which of its nodes are     *)
(* tests, and the nodes (NoNode for the module itself) whose discover call *)
(* returns false because their body throws.                                *)
(***************************************************************************)
EXTENDS DiscoveredForest, Sequences

CONSTANT Guests

IsGuest(g) ==
  /\ IsForest(g.forest)
  /\ g.forest.runnable \subseteq g.tests
  /\ g.tests \subseteq g.forest.nodes
  /\ g.throws \subseteq g.forest.nodes \cup {NoNode}

ASSUME GuestsAssumption == \A g \in Guests : IsGuest(g)

VARIABLES
  guest,        \* the module under test (never changes)
  step,         \* "open", "discover", "plan", "execute",
                \* "summarise", "done", "rejected"
  roots,        \* branches whose discovery has not begun
  queue,        \* the queue of discoverBranch
  found,        \* branch.discovery.nodes of all branches
  failed,       \* the roots of the branches whose discovery failed
  discoveryOk,  \* discoveryOk
  summary       \* the run metadata start() resolves to

\* The variables of Planner and of PlanExecution.
VARIABLES edges, prereq, ready, stages, planBlocked, planIssues, planPhase
VARIABLES plan, stage, batch, results, outcome, blocked, issues, runPhase

discoveryVars == <<guest, roots, queue, found, failed, discoveryOk>>
planVars == <<edges, prereq, ready, stages, planBlocked, planIssues, planPhase>>
runVars == <<plan, stage, batch, results, outcome, blocked, issues, runPhase>>
vars == <<discoveryVars, step, summary, planVars, runVars>>

\* The part of a forest that discovery has found.
Part(f, N) == [f EXCEPT !.nodes = N, !.runnable = @ \cap N, !.expectFailure = @ \cap N]

Discovered == Part(guest.forest, found)

P == INSTANCE Planner WITH
       Forests <- {Part(g.forest, {}) : g \in Guests}, forest <- Discovered,
       blocked <- planBlocked, issues <- planIssues, phase <- planPhase

E == INSTANCE PlanExecution WITH Plans <- {}, NoScope <- NoNode, phase <- runPhase

NoPlan == [targets |-> {}, rank |-> <<>>, edges |-> {}, stages |-> <<>>, blocked |-> {},
           invalid |-> {}, bailScope |-> <<>>, expectFailure |-> {}, issues |-> {}]

\* The nodes of S as the guest declares them: the n-th has n - 1 before it.
InOrder(f, S) ==
  [i \in 1..Cardinality(S) |->
     CHOOSE n \in S : Cardinality({m \in S : Before(f, m, n)}) = i - 1]

-----------------------------------------------------------------------------

Init ==
  /\ guest \in Guests
  /\ step = "open"
  /\ roots = {} /\ queue = <<>> /\ found = {} /\ failed = {}
  /\ discoveryOk = TRUE
  /\ summary = [ok |-> FALSE, planningOk |-> FALSE, blocked |-> <<>>]
  /\ P!Init
  /\ plan = NoPlan /\ stage = 1 /\ batch = {} /\ results = <<>> /\ outcome = <<>>
  /\ blocked = {} /\ issues = {} /\ runPhase = "select"

\* discoverImmediateChildren(harness, []): a module that throws may have
\* declared some of its top-level nodes.
DiscoverTopLevel ==
  /\ step = "open"
  /\ LET top == Children(guest.forest, NoNode)
     IN  IF NoNode \in guest.throws
         THEN /\ discoveryOk' = FALSE
              /\ \E n \in top \cup {0} : roots' = {r \in top : r <= n}
         ELSE roots' = top /\ UNCHANGED discoveryOk
  /\ step' = "discover"
  /\ UNCHANGED <<guest, queue, found, failed, summary, planVars, runVars>>

OpenBranch ==
  /\ step = "discover"
  /\ queue = <<>>
  /\ roots # {}
  /\ LET root == Head(InOrder(guest.forest, roots))
     IN  /\ roots' = roots \ {root}
         /\ queue' = <<root>>
         /\ found' = found \cup {root}
  /\ UNCHANGED <<guest, step, failed, discoveryOk, summary, planVars, runVars>>

\* Mutant of DiscoverNode: a suite that throws is passed over like a test.
DiscoverNodeLeniently ==
  /\ step = "discover"
  /\ queue # <<>>
  /\ LET parent == Head(queue)
         children == IF parent \in guest.throws THEN {} ELSE Children(guest.forest, parent)
     IN  /\ found' = found \cup children
         /\ queue' = Tail(queue) \o InOrder(guest.forest, children)
  /\ UNCHANGED <<guest, step, roots, failed, discoveryOk, summary, planVars, runVars>>

\* One turn of discoverBranch: a suite whose discovery fails ends its branch,
\* a test whose discovery fails is kept without children.
DiscoverNode ==
  /\ step = "discover"
  /\ queue # <<>>
  /\ LET parent == Head(queue)
         children == Children(guest.forest, parent)
     IN  \/ /\ parent \notin guest.throws
            /\ found' = found \cup children
            /\ queue' = Tail(queue) \o InOrder(guest.forest, children)
            /\ UNCHANGED <<failed, discoveryOk>>
         \/ /\ parent \in guest.throws \cap guest.tests
            /\ queue' = Tail(queue)
            /\ UNCHANGED <<found, failed, discoveryOk>>
         \/ /\ parent \in guest.throws \ guest.tests
            /\ queue' = <<>>
            /\ failed' = failed \cup {Min(Lineage(guest.forest, parent))}
            /\ discoveryOk' = FALSE
            /\ UNCHANGED found
  /\ UNCHANGED <<guest, step, roots, summary, planVars, runVars>>

\* Tests are planned and run only if all of the discovery succeeded.
CloseDiscovery ==
  /\ step = "discover"
  /\ queue = <<>>
  /\ roots = {}
  /\ step' = IF discoveryOk THEN "plan" ELSE "summarise"
  /\ UNCHANGED <<discoveryVars, summary, planVars, runVars>>

PlanStages ==
  /\ step = "plan"
  /\ UNCHANGED <<discoveryVars, step, summary, runVars>>
  /\ P!Next

BeginExecution ==
  /\ step = "plan"
  /\ planPhase = "planned"
  /\ plan' = P!PlannedTargets
  /\ results' = [t \in plan'.targets |-> "none"]
  /\ outcome' = [t \in plan'.targets |-> IF t \in planBlocked THEN "blocked" ELSE "none"]
  /\ blocked' = planBlocked
  /\ issues' = planIssues
  /\ step' = "execute"
  /\ UNCHANGED <<discoveryVars, summary, planVars, stage, batch, runPhase>>

ExecuteStages ==
  /\ step = "execute"
  /\ E!Next
  /\ step' = CASE runPhase' = "rejected" -> "rejected"
               [] runPhase' = "done" -> "summarise"
               [] OTHER -> step
  /\ UNCHANGED <<discoveryVars, summary, planVars>>

\* comparePlanIssues orders the issues of a target by dependency key (blank
\* first, as in the first three types), hint name and type.
IssueOrder == <<"dependency-cycle", "invalid-constraint", "ignored-hint",
                "missing-dependency", "blocked-dependency", "bailed">>

\* createBlockedNodeIssueMap and toBlockedNode: the first issue of a target.
PrimaryIssue(t) ==
  LET own == {k \in DOMAIN IssueOrder :
                \E i \in issues : i.target = t /\ i.type = IssueOrder[k]}
  IN  IF own = {} THEN "blocked-dependency" ELSE IssueOrder[Min(own)]

\* Mutant of PlanningOk: every issue counts.
NoIssues == issues = {}

\* isPlanningIssueType.
PlanningOk == \A i \in issues : i.type \in {"bailed", "ignored-hint"}

\* Mutant of RunOk: only executions count.
RunOkByExecutions ==
  /\ discoveryOk
  /\ \A t \in plan.targets : results[t] # "none" => E!Satisfied(t)

RunOk ==
  /\ discoveryOk
  /\ PlanningOk
  /\ blocked = {}
  /\ \A t \in plan.targets : results[t] # "none" => E!Satisfied(t)

Summarise ==
  /\ step = "summarise"
  /\ summary' = [ok |-> RunOk, planningOk |-> PlanningOk,
                 blocked |-> [t \in blocked |-> PrimaryIssue(t)]]
  /\ step' = "done"
  /\ UNCHANGED <<discoveryVars, planVars, runVars>>

Next ==
  \/ DiscoverTopLevel
  \/ OpenBranch
  \/ DiscoverNode
  \/ CloseDiscovery
  \/ PlanStages
  \/ BeginExecution
  \/ ExecuteStages
  \/ Summarise

Spec == Init /\ [][Next]_vars /\ WF_vars(Next)

-----------------------------------------------------------------------------

\* Nodes under a test whose body throws during discovery stay unknown.
Hidden(n) == (Lineage(guest.forest, n) \ {n}) \cap guest.throws \cap guest.tests # {}

\* A branch whose discovery did not fail is known in full when the discovery
\* ends, whatever happened to the branches before and after it.
BranchesAreComplete ==
  step \notin {"open", "discover"} =>
    \A n \in guest.forest.nodes :
      LET root == Min(Lineage(guest.forest, n))
      IN  root \in found \ failed => n \in found \/ Hidden(n)

\* A green run has run every declared test and each came out as declared;
\* only tests nested in one that throws during discovery may be missing.
GreenRunRanEverything ==
  step = "done" /\ summary.ok =>
    \A t \in guest.forest.runnable :
      Hidden(t) \/ (t \in found /\ results[t] # "none" /\ E!Satisfied(t))

\* A red run has a culprit a developer can find: a body that throws during
\* discovery, bad metadata, or a test that ran and came out wrong.  A bail or
\* an ignored hint alone never fails a run.
RedRunHasCulprit ==
  step = "done" /\ ~ summary.ok =>
    \/ NoNode \in guest.throws \/ (guest.throws \cap found) \ guest.tests # {}
    \/ \E i \in planIssues : i.type # "ignored-hint"
    \/ \E t \in plan.targets : results[t] # "none" /\ ~ E!Satisfied(t)

=============================================================================

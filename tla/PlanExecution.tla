--------------------------- MODULE PlanExecution ---------------------------
(***************************************************************************)
(* executePlannedStages of harness/shared/start.cjs: the planned stages    *)
(* are run batch by batch, the results are recorded in declaration order,  *)
(* and a failure blocks what depends on it and, in a bail scope, what is   *)
(* left of the scope.  The targets of a batch run in worker threads and on *)
(* the main thread and finish in any order (WorkerPool models how).        *)
(***************************************************************************)
EXTENDS ExecutionPlan, Integers, FiniteSets

CONSTANTS
  Plans,     \* the plans that may be executed
  NoScope    \* the bail scope of a target that has none

Outcomes == {"none", "blocked", "satisfied", "unsatisfied"}

ASSUME PlansAssumption == \A p \in Plans : WellFormedPlan(p)

VARIABLES
  plan,      \* the plan (never changes)
  stage,     \* the index of the stage under way
  batch,     \* the dispatched targets whose results are not recorded yet
  results,   \* the raw verdicts: branch.executions
  outcome,   \* outcomesByIdentity
  blocked,   \* blockedKeys and blockedTargets
  issues,    \* the planner's issues and those of the run
  phase      \* "select", "running", "done", "rejected"

vars == <<plan, stage, batch, results, outcome, blocked, issues, phase>>

Targets == plan.targets

Settled(t) == outcome[t] # "none"

\* isExecutionSatisfied: a test declared expectFailure passes by failing.
Satisfied(t) == (results[t] = "pass") # (t \in plan.expectFailure)

\* Mutant of Eligible: blocked targets are not left out.
EligibleIfUnrun == {t \in plan.stages[stage] : results[t] = "none"}

\* The stage targets createStageExecutionBatch may still pick.
Eligible == {t \in plan.stages[stage] : t \notin blocked /\ ~ Settled(t)}

\* All of them, but of each bail scope only the first.
NextBatch ==
  {t \in Eligible :
     plan.bailScope[t] # NoScope =>
       \A u \in Eligible :
         plan.bailScope[u] = plan.bailScope[t] => plan.rank[t] <= plan.rank[u]}

\* Mutant of BlockedBehind: only direct successors.
BlockedNext(t) == {u \in Targets \ blocked : <<t, u>> \in plan.edges}

\* Mutant of BlockedBehind: only successors in the next stage.
BlockedNextStage(t) ==
  {u \in Targets \ blocked : /\ <<t, u>> \in plan.edges
                             /\ stage < Len(plan.stages)
                             /\ u \in plan.stages[stage + 1]}

\* What blockDependentTargets adds for t: its successors, and theirs, up to
\* targets that are already blocked.
BlockedBehind(t) ==
  {u \in Targets \ blocked :
     \A C \in SUBSET (Targets \ blocked) :
       (\A e \in plan.edges :
          (e[1] = t \/ e[1] \in C) /\ e[2] \notin blocked => e[2] \in C) => u \in C}

\* Mutant of BailedWith: the scope is stopped in the current stage only.
BailedInStage(t) ==
  {u \in plan.stages[stage] \ (blocked \cup BlockedBehind(t) \cup {t}) :
     /\ plan.bailScope[t] # NoScope
     /\ plan.bailScope[u] = plan.bailScope[t]
     /\ ~ Settled(u)}

\* What blockBailedTargets adds for t: the scope's targets not settled yet.
BailedWith(t) ==
  {u \in Targets \ (blocked \cup BlockedBehind(t) \cup {t}) :
     /\ plan.bailScope[t] # NoScope
     /\ plan.bailScope[u] = plan.bailScope[t]
     /\ ~ Settled(u)}

-----------------------------------------------------------------------------

Init ==
  /\ plan \in Plans
  /\ stage = 1
  /\ batch = {}
  /\ results = [t \in Targets |-> "none"]
  /\ outcome = [t \in Targets |-> IF t \in plan.blocked THEN "blocked" ELSE "none"]
  /\ blocked = plan.blocked
  /\ issues = plan.issues
  /\ phase = "select"

\* Mutant of NextStage: it waits for the blocked targets of the stage.
NextStageWhenRun ==
  /\ phase = "select"
  /\ stage <= Len(plan.stages)
  /\ \A t \in plan.stages[stage] : results[t] # "none"
  /\ stage' = stage + 1
  /\ UNCHANGED <<plan, batch, results, outcome, blocked, issues, phase>>

NextStage ==
  /\ phase = "select"
  /\ stage <= Len(plan.stages)
  /\ NextBatch = {}
  /\ stage' = stage + 1
  /\ UNCHANGED <<plan, batch, results, outcome, blocked, issues, phase>>

StartBatch ==
  /\ phase = "select"
  /\ stage <= Len(plan.stages)
  /\ NextBatch # {}
  /\ batch' = NextBatch
  /\ phase' = "running"
  /\ UNCHANGED <<plan, stage, results, outcome, blocked, issues>>

\* The result of target t of the batch reaches the main thread.
FinishTarget(t, verdict) ==
  /\ phase = "running"
  /\ t \in batch
  /\ results[t] = "none"
  /\ results' = [results EXCEPT ![t] = verdict]
  /\ UNCHANGED <<plan, stage, batch, outcome, blocked, issues, phase>>

\* The batch fails as a whole: a worker reports an error or the main thread
\* throws.  start() rejects and records nothing of the batch.
RejectBatch ==
  /\ phase = "running"
  /\ \E t \in batch : results[t] = "none"
  /\ phase' = "rejected"
  /\ UNCHANGED <<plan, stage, batch, results, outcome, blocked, issues>>

\* Mutant of RecordResult: the raw verdict decides, not isExecutionSatisfied,
\* and it is recorded as it is.
RecordVerdict(t) ==
  /\ phase = "running"
  /\ t \in batch
  /\ \A u \in batch : results[u] # "none" /\ plan.rank[t] <= plan.rank[u]
  /\ outcome' = [outcome EXCEPT ![t] = results[t]]
  /\ batch' = batch \ {t}
  /\ phase' = IF batch' = {} THEN "select" ELSE "running"
  /\ UNCHANGED <<plan, stage, results, blocked, issues>>

\* One turn of the loop over the finished batch.
RecordResult(t) ==
  /\ phase = "running"
  /\ t \in batch
  /\ \A u \in batch : results[u] # "none" /\ plan.rank[t] <= plan.rank[u]
  /\ IF Satisfied(t)
     THEN /\ outcome' = [outcome EXCEPT ![t] = "satisfied"]
          /\ UNCHANGED <<blocked, issues>>
     ELSE LET behind == BlockedBehind(t)
              bailed == BailedWith(t)
          IN  /\ outcome' = [u \in Targets |->
                   IF u \in behind \cup bailed THEN "blocked"
                   ELSE IF u = t THEN "unsatisfied" ELSE outcome[u]]
              /\ blocked' = blocked \cup behind \cup bailed
              /\ issues' = issues
                   \cup {Issue("blocked-dependency", u, t) : u \in behind}
                   \cup {Issue("bailed", u, t) : u \in bailed}
  /\ batch' = batch \ {t}
  /\ phase' = IF batch' = {} THEN "select" ELSE "running"
  /\ UNCHANGED <<plan, stage, results>>

Finish ==
  /\ phase = "select"
  /\ stage > Len(plan.stages)
  /\ phase' = "done"
  /\ UNCHANGED <<plan, stage, batch, results, outcome, blocked, issues>>

Next ==
  \/ NextStage
  \/ StartBatch
  \/ \E t \in batch, v \in {"pass", "fail"} : FinishTarget(t, v)
  \/ RejectBatch
  \/ \E t \in batch : RecordResult(t)
  \/ Finish

Spec == Init /\ [][Next]_vars /\ WF_vars(Next)

-----------------------------------------------------------------------------
(***************************************************************************)
(* Correctness.                                                            *)
(***************************************************************************)

TypeOK ==
  /\ WellFormedPlan(plan)
  /\ stage \in Nat \ {0}
  /\ batch \subseteq Targets
  /\ results \in [Targets -> {"none", "pass", "fail"}]
  /\ outcome \in [Targets -> Outcomes]
  /\ blocked \subseteq Targets
  /\ phase \in {"select", "running", "done", "rejected"}

Bailed(t) == \E i \in issues : i.type = "bailed" /\ i.target = t

Executed(t) == t \in batch \/ results[t] # "none"

\* A failed target takes everything that depends on it down with it, at once
\* and through targets blocked earlier in the run (blockDependentTargets
\* stops at those).  What depends on a target blocked by a bail or for its
\* scope's sequence mode still runs: docs/009:256 would have it blocked too.
FailureBlocksDependents ==
  \A e \in plan.edges :
    \/ outcome[e[1]] = "unsatisfied"
    \/ e[1] \in blocked \ plan.invalid /\ ~ Bailed(e[1])
    => e[2] \in blocked

\* Whatever is dispatched has its prerequisites behind it: each of them has
\* passed, or was stopped by a bail or for its scope's sequence mode.
StartsBehindPrerequisites ==
  \A e \in plan.edges : Executed(e[2]) =>
    \/ outcome[e[1]] = "satisfied"
    \/ e[1] \in blocked /\ (Bailed(e[1]) \/ e[1] \in plan.invalid)

\* A blocked target has not run, and does not: no result is ever overwritten
\* by a block, however far the blocking reaches.
BlockedNeverRuns == \A t \in blocked : ~ Executed(t) /\ outcome[t] = "blocked"

\* Once a member of a bail scope has failed, every other member is settled:
\* none is left to run in a later batch, and none was under way beside it
\* (createStageExecutionBatch picks one member at a time).
BailStopsScope ==
  \A t, u \in Targets :
    /\ plan.bailScope[t] # NoScope /\ plan.bailScope[t] = plan.bailScope[u]
    /\ outcome[t] = "unsatisfied"
    => Settled(u) /\ u \notin batch

\* Every run ends, and unless the batch at hand is rejected no target is left
\* without an outcome, provided that each harness.run returns.
Terminates ==
  <>(\/ phase = "rejected"
     \/ phase = "done" /\ \A t \in Targets : Settled(t))

-----------------------------------------------------------------------------
(***************************************************************************)
(* The promise the executor implements, over one status per target.        *)
(***************************************************************************)

Status ==
  [t \in Targets |-> IF Settled(t) THEN outcome[t]
                     ELSE IF t \in batch THEN "running" ELSE "waiting"]

Promise == INSTANCE DependencyRun WITH targets <- plan.targets, edges <- plan.edges,
                                       status <- Status

ImplementsPromise == Promise!Spec

=============================================================================

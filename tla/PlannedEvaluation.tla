------------------------- MODULE PlannedEvaluation -------------------------
(***************************************************************************)
(* evaluatePlannedExecution of harness/shared/start.cjs: the outcomes of a *)
(* plan computed from finished executions, by a second copy of the loop    *)
(* that executePlannedStages runs.  Here it is the reference for what the  *)
(* concurrent run must come to.  It is written turn by turn of its loops,  *)
(* over a state s:                                                         *)
(*   s.stage     the index of the stage                                    *)
(*   s.todo      what is left of batchTargets                              *)
(*   s.outcome   outcomesByIdentity                                        *)
(*   s.blocked   blockedKeys                                               *)
(***************************************************************************)
EXTENDS PlanExecution

\* blockDependentTargets as the breadth-first search it is, one round for each
\* length of a path: the keys that are blocked behind target t.
Frontier(p, t, keys, found) ==
  {e[2] : e \in {d \in p.edges : (d[1] = t \/ d[1] \in found) /\ d[2] \notin keys}}

BlockBehind(p, t, keys) ==
  LET found[n \in 0..Cardinality(p.targets)] ==
        IF n = 0 THEN {} ELSE found[n - 1] \cup Frontier(p, t, keys, found[n - 1])
  IN  found[Cardinality(p.targets)]

BailBlocked(p, s, t) ==
  {u \in p.targets \ {t} :
     /\ p.bailScope[t] # NoScope /\ p.bailScope[u] = p.bailScope[t]
     /\ u \notin s.blocked /\ s.outcome[u] = "none"}

MarkBlocked(s, keys) ==
  [s EXCEPT !.outcome = [u \in DOMAIN @ |-> IF u \in keys \ s.blocked THEN "blocked" ELSE @[u]],
            !.blocked = @ \cup keys]

\* classifyDependencyOutcome: a missing execution counts as blocked.
Classify(p, verdict, t) ==
  IF verdict[t] = "none" THEN "blocked"
  ELSE IF (verdict[t] = "pass") # (t \in p.expectFailure)
       THEN "satisfied" ELSE "unsatisfied"

RecordTarget(p, verdict, s, t) ==
  LET o == Classify(p, verdict, t)
      s1 == [s EXCEPT !.todo = @ \ {t}, !.outcome = [@ EXCEPT ![t] = o]]
      s2 == MarkBlocked(s1, BlockBehind(p, t, s1.blocked))
  IN  IF o = "satisfied" THEN s1 ELSE MarkBlocked(s2, BailBlocked(p, s2, t))

\* createStageExecutionBatch
BatchOf(p, s) ==
  LET open == {t \in p.stages[s.stage] : t \notin s.blocked /\ s.outcome[t] = "none"}
  IN  {t \in open : p.bailScope[t] # NoScope =>
         \A u \in open : p.bailScope[u] = p.bailScope[t] => p.rank[t] <= p.rank[u]}

First(p, todo) == CHOOSE x \in todo : \A y \in todo : p.rank[x] <= p.rank[y]

\* One turn of the innermost loop that has one: over a batch, over the batches of
\* a stage, over the stages.
Turn(p, verdict, s) ==
  IF s.todo # {} THEN RecordTarget(p, verdict, s, First(p, s.todo))
  ELSE IF s.stage > Len(p.stages) THEN s
  ELSE IF BatchOf(p, s) = {} THEN [s EXCEPT !.stage = @ + 1]
  ELSE [s EXCEPT !.todo = BatchOf(p, s)]

Start(p) ==
  [stage |-> 1, todo |-> {}, blocked |-> p.blocked,
   outcome |-> [t \in p.targets |-> IF t \in p.blocked THEN "blocked" ELSE "none"]]

\* Each stage is left once, each target is recorded at most once, and each batch
\* has a target.
Turns(p) == Len(p.stages) + 2 * Cardinality(p.targets)

Evaluate(p, verdict) ==
  LET after[n \in 0..Turns(p)] ==
        IF n = 0 THEN Start(p) ELSE Turn(p, verdict, after[n - 1])
  IN  after[Turns(p)]

-----------------------------------------------------------------------------

\* The order in which workers finish leaves no trace: a completed run comes
\* to the outcomes evaluatePlannedExecution computes from its verdicts, and
\* blocks the same targets.
RunAgreesWithEvaluation ==
  phase = "done" =>
    LET s == Evaluate(plan, results)
    IN  s.outcome = outcome /\ s.blocked = blocked

=============================================================================

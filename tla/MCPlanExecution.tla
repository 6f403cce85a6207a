-------------------------- MODULE MCPlanExecution --------------------------
(* Plans over four targets for PlanExecution. *)
EXTENDS PlannedEvaluation, SequencesExt

N == 1..4

\* The plan the planner makes of a graph whose edges lead to larger numbers,
\* with some targets unresolvable and some under an invalid sequence scope.
MakePlan(E, unresolvable, invalid, scope, failing) ==
  LET pred(t) == {a \in N : <<a, t>> \in E}
      down[t \in N] == t \in unresolvable \/ \E a \in pred(t) : down[a]
      staged[t \in N] ==
        IF pred(t) = {} THEN ~ down[t] /\ t \notin invalid ELSE \A a \in pred(t) : staged[a]
      level[t \in N] == IF pred(t) = {} THEN 1 ELSE 1 + Max({level[a] : a \in pred(t)})
  IN  [targets |-> N, rank |-> [t \in N |-> t], edges |-> E,
       stages |-> SelectSeq([k \in N |-> {t \in N : staged[t] /\ level[t] = k}],
                            LAMBDA S : S # {}),
       blocked |-> {t \in N : down[t] \/ t \in invalid \/ ~ staged[t]},
       invalid |-> invalid, bailScope |-> scope, expectFailure |-> failing,
       issues |-> {}]

Graphs4 == SUBSET {<<1, 2>>, <<1, 3>>, <<1, 4>>, <<2, 3>>, <<2, 4>>, <<3, 4>>}

\* Every graph with every bail scope.
BailPlans == {MakePlan(E, {}, {}, s, {}) : E \in Graphs4, s \in [N -> {0, 1}]}

\* Graphs with blocked targets and tests that are expected to fail.
BlockedPlans ==
  {MakePlan(E, u, i, [t \in N |-> 0], x) :
     E \in Graphs4, u \in {{}, {1}, {2}, {3}}, i \in {{}, {1}, {2}, {3}}, x \in {{}, {2}}}

BailAndBlockedPlans == BailPlans \cup BlockedPlans

=============================================================================

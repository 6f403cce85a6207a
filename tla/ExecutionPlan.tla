--------------------------- MODULE ExecutionPlan ---------------------------
(***************************************************************************)
(* What planExecutionStages of harness/shared/start.cjs hands over to      *)
(* executePlannedStages.  A plan is a record:                              *)
(*   targets    the runnable tests                                         *)
(*   rank       their position in declaration order                        *)
(*   edges      <<a, b>>: a is a prerequisite of b                         *)
(*   stages     the stages, a sequence of sets                             *)
(*   blocked    the targets the planner blocked                            *)
(*   invalid    those under a scope with an unsupported sequence mode      *)
(*   bailScope  the scope that stops after a failure, if any               *)
(*   expectFailure  the targets that pass by failing                       *)
(*   issues     the planner's issues                                       *)
(***************************************************************************)
EXTENDS Naturals, Sequences, FiniteSets

Issue(type, target, dep) == [type |-> type, target |-> target, dep |-> dep]

IsStaged(p, t) == \E k \in DOMAIN p.stages : t \in p.stages[k]

\* The planner makes such plans (PlanIsWellFormed of Planner), and the
\* executor is specified for them (PlansAssumption of PlanExecution).
WellFormedPlan(p) ==
  /\ IsFiniteSet(p.targets)
  /\ p.edges \subseteq p.targets \X p.targets
  /\ p.rank \in [p.targets -> Nat]
  /\ \A t, u \in p.targets : p.rank[t] = p.rank[u] => t = u
  /\ p.stages \in Seq(SUBSET p.targets)
  /\ p.blocked \subseteq p.targets
  /\ p.expectFailure \subseteq p.targets
  /\ \A t \in p.targets : IsStaged(p, t) \/ t \in p.blocked
  /\ \A j, k \in DOMAIN p.stages : j # k => p.stages[j] \cap p.stages[k] = {}
  /\ \A k \in DOMAIN p.stages : \A t \in p.stages[k] : \A a \in p.targets :
       <<a, t>> \in p.edges => \E j \in 1..(k - 1) : a \in p.stages[j]
  /\ \A e \in p.edges : e[1] \in p.blocked \ p.invalid => e[2] \in p.blocked

=============================================================================

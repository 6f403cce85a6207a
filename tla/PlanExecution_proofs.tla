------------------------ MODULE PlanExecution_proofs ------------------------
(***************************************************************************)
(* Proofs about PlanExecution, for every set of well-formed plans: types,  *)
(* the safety invariants, and that the execution implements DependencyRun. *)
(***************************************************************************)
EXTENDS PlannedEvaluation, TLAPS, WellFoundedInduction, FiniteSetTheorems

\* What the two ways of blocking add are unblocked targets of the plan.
LEMMA NewlyBlocked ==
  ASSUME NEW t
  PROVE  /\ BlockedBehind(t) \subseteq Targets \ blocked
         /\ BailedWith(t) \subseteq Targets \ (blocked \cup BlockedBehind(t) \cup {t})
BY DEF BlockedBehind, BailedWith

\* The next batch is part of the current stage and neither blocked nor settled.
LEMMA NextBatchIsOpen ==
  NextBatch \subseteq {t \in plan.stages[stage] : t \notin blocked /\ ~ Settled(t)}
BY DEF NextBatch, Eligible

\* Every step of executePlannedStages keeps the types of the variables.
LEMMA TypeStep == TypeOK /\ [Next]_vars => TypeOK'
<1> SUFFICES ASSUME TypeOK, [Next]_vars PROVE TypeOK'
  OBVIOUS
<1>0. /\ plan' = plan
      /\ WellFormedPlan(plan)'
  BY DEF TypeOK, WellFormedPlan, IsStaged, Next, vars, NextStage, StartBatch, FinishTarget,
         RejectBatch, RecordResult, Finish
<1>1. CASE NextStage
  BY <1>0, <1>1 DEF TypeOK, NextStage, Targets
<1>2. CASE StartBatch
  <2>1. stage \in DOMAIN plan.stages /\ plan.stages[stage] \subseteq Targets
    BY <1>2 DEF StartBatch, TypeOK, WellFormedPlan, Targets
  <2> QED BY <1>0, <1>2, <2>1, NextBatchIsOpen DEF TypeOK, StartBatch, Targets
<1>3. ASSUME NEW t \in batch, NEW v \in {"pass", "fail"}, FinishTarget(t, v)
      PROVE  TypeOK'
  BY <1>0, <1>3 DEF TypeOK, FinishTarget, Targets
<1>4. CASE RejectBatch
  BY <1>0, <1>4 DEF TypeOK, RejectBatch, Targets
<1>5. ASSUME NEW t \in batch, RecordResult(t)
      PROVE  TypeOK'
  <2>1. outcome' \in [Targets -> Outcomes] /\ blocked' \subseteq Targets
    <3>1. CASE Satisfied(t)
      BY <1>5, <3>1 DEF RecordResult, TypeOK, Outcomes
    <3>2. CASE ~ Satisfied(t)
      BY <1>5, <3>2, NewlyBlocked DEF RecordResult, TypeOK, Outcomes
    <3> QED BY <3>1, <3>2
  <2>2. phase' \in {"select", "running"} /\ batch' \subseteq Targets
    BY <1>5 DEF RecordResult, TypeOK
  <2> QED BY <1>0, <1>5, <2>1, <2>2 DEF TypeOK, RecordResult, Targets
<1>6. CASE Finish
  BY <1>0, <1>6 DEF TypeOK, Finish, Targets
<1>7. CASE UNCHANGED vars
  BY <1>0, <1>7 DEF TypeOK, vars, Targets
<1> QED BY <1>1, <1>2, <1>3, <1>4, <1>5, <1>6, <1>7 DEF Next

\* The variables keep their types (and the plan stays well formed) in every
\* run of executePlannedStages.
THEOREM TypeCorrect == Spec => []TypeOK
<1>1. Init => TypeOK
  <2> SUFFICES ASSUME Init PROVE TypeOK
    OBVIOUS
  <2>1. WellFormedPlan(plan)
    BY PlansAssumption DEF Init
  <2>2. plan.blocked \subseteq Targets
    BY <2>1 DEF WellFormedPlan, Targets
  <2> QED BY <2>1, <2>2 DEF Init, TypeOK, Outcomes
<1> QED BY <1>1, TypeStep, PTL DEF Spec

(***************************************************************************)
(* The inductive invariant.                                                *)
(***************************************************************************)

\* A batch is under way exactly in the running phase, as part of its stage.
BatchInStage ==
  /\ batch # {} => /\ phase \in {"running", "rejected"}
                   /\ stage <= Len(plan.stages)
                   /\ batch \subseteq plan.stages[stage]
  /\ \A t, u \in batch : /\ plan.bailScope[t] = plan.bailScope[u]
                          /\ plan.bailScope[t] # NoScope
                          => t = u

\* Blocked keys and outcomes agree, and nothing the planner blocked is freed.
BlockedAgrees ==
  /\ \A t \in Targets : t \in blocked <=> outcome[t] = "blocked"
  /\ plan.blocked \subseteq blocked

\* A target has a recorded verdict or is in the batch if it has run, and has
\* run only if it is in a stage already reached.
ExecutedAgrees ==
  \A t \in Targets :
    /\ t \in batch => ~ Settled(t)
    /\ results[t] # "none" => t \in batch \/ outcome[t] \in {"satisfied", "unsatisfied"}
    /\ outcome[t] \in {"satisfied", "unsatisfied"} => results[t] # "none"
    /\ Executed(t) => \E k \in DOMAIN plan.stages : k <= stage /\ t \in plan.stages[k]

\* The stages left behind are settled.
EarlierStagesSettled ==
  \A k \in DOMAIN plan.stages : k < stage => \A t \in plan.stages[k] : Settled(t)

IInv ==
  /\ TypeOK
  /\ BatchInStage
  /\ BlockedAgrees
  /\ ExecutedAgrees
  /\ EarlierStagesSettled
  /\ FailureBlocksDependents
  /\ StartsBehindPrerequisites
  /\ BailStopsScope

(***************************************************************************)
(* What a well-formed plan gives.                                          *)
(***************************************************************************)

LEMMA PlanStages ==
  ASSUME TypeOK
  PROVE  /\ Len(plan.stages) \in Nat
         /\ DOMAIN plan.stages = 1..Len(plan.stages)
         /\ \A k \in DOMAIN plan.stages : plan.stages[k] \subseteq Targets
         /\ \A t \in Targets : t \in plan.blocked \/ \E k \in DOMAIN plan.stages : t \in plan.stages[k]
         /\ \A j, k \in DOMAIN plan.stages : \A t \in plan.stages[j] : t \in plan.stages[k] => j = k
BY DEF TypeOK, WellFormedPlan, IsStaged, Targets

LEMMA PlanEdges ==
  ASSUME TypeOK, NEW e \in plan.edges
  PROVE  /\ e[1] \in Targets /\ e[2] \in Targets
         /\ \A k \in DOMAIN plan.stages : e[2] \in plan.stages[k] =>
              \E j \in DOMAIN plan.stages : j < k /\ e[1] \in plan.stages[j]
         /\ e[1] \in plan.blocked \ plan.invalid => e[2] \in plan.blocked
<1>1. e = <<e[1], e[2]>> /\ e[1] \in Targets /\ e[2] \in Targets
  BY DEF TypeOK, WellFormedPlan, Targets
<1>2. ASSUME NEW k \in DOMAIN plan.stages, e[2] \in plan.stages[k]
      PROVE  \E j \in DOMAIN plan.stages : j < k /\ e[1] \in plan.stages[j]
  <2>1. PICK j \in 1..(k - 1) : e[1] \in plan.stages[j]
    BY <1>1, <1>2 DEF TypeOK, WellFormedPlan, Targets
  <2> QED BY <2>1, PlanStages
<1>3. e[1] \in plan.blocked \ plan.invalid => e[2] \in plan.blocked
  BY DEF TypeOK, WellFormedPlan
<1> QED BY <1>1, <1>2, <1>3

\* The prerequisites of a target of a stage already reached are settled.
LEMMA PrerequisitesSettled ==
  ASSUME IInv, NEW e \in plan.edges,
         NEW k \in DOMAIN plan.stages, k <= stage, e[2] \in plan.stages[k]
  PROVE  Settled(e[1])
<1>1. PICK j \in DOMAIN plan.stages : j < k /\ e[1] \in plan.stages[j]
  BY PlanEdges DEF IInv
<1>2. j < stage
  BY <1>1, PlanStages DEF IInv, TypeOK
<1> QED BY <1>1, <1>2 DEF IInv, EarlierStagesSettled

(***************************************************************************)
(* Blocking.                                                               *)
(***************************************************************************)

\* BlockedBehind(t) is closed: it misses no unblocked dependent of t or of
\* its own members.
LEMMA BlockedBehindIsClosed ==
  ASSUME TypeOK, NEW t, NEW e \in plan.edges,
         e[1] = t \/ e[1] \in BlockedBehind(t), e[2] \notin blocked
  PROVE  e[2] \in BlockedBehind(t)
<1>1. e[2] \in Targets \ blocked
  BY PlanEdges
<1>2. ASSUME NEW C \in SUBSET (Targets \ blocked),
             \A d \in plan.edges : (d[1] = t \/ d[1] \in C) /\ d[2] \notin blocked => d[2] \in C
      PROVE  e[2] \in C
  BY <1>2 DEF BlockedBehind
<1> QED BY <1>1, <1>2 DEF BlockedBehind

\* A target that is not blocked and has not run is not settled.
LEMMA WaitingIsUnsettled ==
  ASSUME IInv, NEW u \in Targets \ blocked, ~ Executed(u)
  PROVE  ~ Settled(u)
<1>1. outcome[u] \in Outcomes /\ outcome[u] # "blocked"
  BY DEF IInv, TypeOK, BlockedAgrees
<1>2. results[u] = "none"
  BY DEF Executed
<1>3. outcome[u] \notin {"satisfied", "unsatisfied"}
  BY <1>2 DEF IInv, ExecutedAgrees
<1> QED BY <1>1, <1>3 DEF Settled, Outcomes

\* Nothing that depends on a target of the batch has run or is settled,
\* unless it is blocked already.
LEMMA BehindIsWaiting ==
  ASSUME IInv, NEW t \in batch
  PROVE  \A u \in BlockedBehind(t) : ~ Executed(u) /\ ~ Settled(u)
<1> DEFINE C == {u \in Targets \ blocked : ~ Executed(u)}
<1>1. ASSUME NEW e \in plan.edges, e[1] = t \/ e[1] \in C, e[2] \notin blocked
      PROVE  e[2] \in C
  <2>1. e[1] \in Targets /\ e[2] \in Targets
    BY PlanEdges DEF IInv
  <2>2. ~ Settled(e[1])
    <3>1. CASE e[1] = t
      BY <2>1, <3>1 DEF IInv, ExecutedAgrees
    <3>2. CASE e[1] \in C
      BY <3>2, WaitingIsUnsettled
    <3> QED BY <1>1, <3>1, <3>2
  <2>3. SUFFICES ASSUME Executed(e[2]) PROVE FALSE
    BY <1>1, <2>1
  <2>4. PICK k \in DOMAIN plan.stages : k <= stage /\ e[2] \in plan.stages[k]
    BY <2>1, <2>3 DEF IInv, ExecutedAgrees
  <2> QED BY <2>2, <2>4, PrerequisitesSettled
<1>2. BlockedBehind(t) \subseteq C
  <2>1. C \in SUBSET (Targets \ blocked)
    OBVIOUS
  <2> HIDE DEF C
  <2> QED BY <1>1, <2>1 DEF BlockedBehind
<1>3. ASSUME NEW u \in C PROVE ~ Settled(u)
  BY <1>3, WaitingIsUnsettled
<1> QED BY <1>2, <1>3

\* No member of the bail scope of a target of the batch has run, unless it is
\* settled: the batch holds one member of each scope.
LEMMA BailedIsWaiting ==
  ASSUME IInv, NEW t \in batch
  PROVE  \A u \in BailedWith(t) : ~ Executed(u) /\ ~ Settled(u)
<1> SUFFICES ASSUME NEW u \in BailedWith(t) PROVE ~ Executed(u) /\ ~ Settled(u)
  OBVIOUS
<1>1. /\ u \in Targets /\ u # t /\ ~ Settled(u)
      /\ plan.bailScope[t] # NoScope /\ plan.bailScope[u] = plan.bailScope[t]
  BY DEF BailedWith
<1>2. u \notin batch
  BY <1>1 DEF IInv, BatchInStage
<1>3. results[u] = "none"
  BY <1>1, <1>2 DEF IInv, ExecutedAgrees, Settled
<1> QED BY <1>1, <1>2, <1>3 DEF Executed

(***************************************************************************)
(* Selecting batches.                                                      *)
(***************************************************************************)

\* Every set of naturals has a least member.
LEMMA LeastNatural ==
  ASSUME NEW S \in SUBSET Nat, S # {}
  PROVE  \E m \in S : \A n \in S : m <= n
<1> DEFINE Less == {ss \in Nat \X Nat : ss[1] < ss[2]}
<1>1. IsWellFoundedOn(Less, Nat)
  BY NatLessThanWellFounded, Zenon DEF OpToRel
<1>2. PICK m \in S : \A n \in S : ~ (<<n, m>> \in Less)
  <2> HIDE DEF Less
  <2> QED BY <1>1, WFMin
<1>3. ASSUME NEW n \in S PROVE m <= n
  <2>1. ~ (n < m)
    BY <1>2
  <2> QED BY <2>1
<1> QED BY <1>3

\* While a stage has an open target, a batch can be selected from it: of each
\* bail scope the open target that comes first.
LEMMA OpenStageHasBatch ==
  ASSUME TypeOK, stage \in DOMAIN plan.stages, NextBatch = {}
  PROVE  Eligible = {}
<1> SUFFICES ASSUME NEW t \in Eligible PROVE FALSE
  OBVIOUS
<1>1. Eligible \subseteq Targets
  BY PlanStages DEF Eligible
<1>2. plan.bailScope[t] # NoScope
  BY DEF NextBatch
<1> DEFINE Peers == {u \in Eligible : plan.bailScope[u] = plan.bailScope[t]}
           Ranks == {plan.rank[u] : u \in Peers}
<1>3. Ranks \subseteq Nat /\ Ranks # {}
  BY <1>1 DEF TypeOK, WellFormedPlan, Targets
<1>4. PICK m \in Ranks : \A r \in Ranks : m <= r
  <2> HIDE DEF Ranks
  <2> QED BY <1>3, LeastNatural
<1>5. PICK u \in Peers : plan.rank[u] = m
  OBVIOUS
<1>6. u \in NextBatch
  BY <1>4, <1>5 DEF NextBatch
<1> QED BY <1>6

\* Of one bail scope at most one target is selected.
LEMMA OnePerBailScope ==
  ASSUME TypeOK, stage \in DOMAIN plan.stages, NEW t \in NextBatch, NEW u \in NextBatch,
         plan.bailScope[t] # NoScope, plan.bailScope[t] = plan.bailScope[u]
  PROVE  t = u
<1>1. t \in Targets /\ u \in Targets /\ t \in Eligible /\ u \in Eligible
  BY PlanStages DEF NextBatch, Eligible
<1>2. plan.rank[t] <= plan.rank[u] /\ plan.rank[u] <= plan.rank[t]
  BY <1>1 DEF NextBatch
<1>3. plan.rank[t] \in Nat /\ plan.rank[u] \in Nat
  BY <1>1 DEF TypeOK, WellFormedPlan, Targets
<1>4. plan.rank[t] = plan.rank[u]
  BY <1>2, <1>3
<1> QED BY <1>1, <1>4 DEF TypeOK, WellFormedPlan, Targets

(***************************************************************************)
(* Recording a result.                                                     *)
(***************************************************************************)

\* What RecordResult(t) does to a target: t itself gets a verdict, some
\* waiting targets become blocked, all others are left alone.
LEMMA Recorded ==
  ASSUME IInv, NEW t \in batch, RecordResult(t), NEW u \in Targets
  PROVE  \/ u = t /\ outcome'[u] \in {"satisfied", "unsatisfied"} /\ u \notin blocked'
         \/ u # t /\ outcome'[u] = outcome[u] /\ (u \in blocked' <=> u \in blocked)
         \/ /\ u # t /\ ~ Settled(u) /\ ~ Executed(u) /\ u \notin blocked
            /\ outcome'[u] = "blocked" /\ u \in blocked'
<1> DEFINE B == BlockedBehind(t) \cup BailedWith(t)
<1>1. t \in Targets /\ t \notin blocked /\ outcome \in [Targets -> Outcomes]
  BY DEF IInv, TypeOK, BlockedAgrees, ExecutedAgrees, Settled
<1>2. CASE Satisfied(t)
  <2>1. outcome' = [outcome EXCEPT ![t] = "satisfied"] /\ blocked' = blocked
    BY <1>2 DEF RecordResult
  <2> QED BY <1>1, <2>1
<1>3. CASE ~ Satisfied(t)
  <2>1. /\ outcome' = [v \in Targets |-> IF v \in B THEN "blocked"
                                         ELSE IF v = t THEN "unsatisfied" ELSE outcome[v]]
        /\ blocked' = blocked \cup B
    BY <1>3 DEF RecordResult
  <2>2. \A v \in B : ~ Executed(v) /\ ~ Settled(v) /\ v \notin blocked
    BY BehindIsWaiting, BailedIsWaiting, NewlyBlocked
  <2>3. t \notin B
    BY <2>2 DEF Executed
  <2> HIDE DEF B
  <2> QED BY <1>1, <2>1, <2>2, <2>3
<1> QED BY <1>2, <1>3

\* Blocked keys and issues only grow, and the rest of the scope is bailed in
\* the issues.
LEMMA RecordGrows ==
  ASSUME IInv, NEW t \in batch, RecordResult(t)
  PROVE  /\ blocked \subseteq blocked'
         /\ \A u : Bailed(u) => Bailed(u)'
         /\ \A u \in blocked' \ blocked :
              /\ u \in BlockedBehind(t) \cup BailedWith(t)
              /\ outcome'[t] = "unsatisfied"
              /\ u \in BailedWith(t) => Bailed(u)'
<1>1. CASE Satisfied(t)
  BY <1>1 DEF RecordResult, Bailed
<1>2. CASE ~ Satisfied(t)
  <2>1. /\ blocked' = blocked \cup BlockedBehind(t) \cup BailedWith(t)
        /\ \A u \in BailedWith(t) : Issue("bailed", u, t) \in issues'
        /\ issues \subseteq issues'
    BY <1>2 DEF RecordResult
  <2>2. outcome'[t] = "unsatisfied"
    <3>1. t \notin BlockedBehind(t) \cup BailedWith(t)
      BY BehindIsWaiting, BailedIsWaiting DEF Executed
    <3>2. t \in Targets
      BY DEF IInv, TypeOK
    <3> QED BY <1>2, <3>1, <3>2 DEF RecordResult
  <2>3. \A u \in BailedWith(t) : Bailed(u)'
    BY <2>1 DEF Bailed, Issue
  <2> QED BY <2>1, <2>2, <2>3 DEF Bailed
<1> QED BY <1>1, <1>2

(***************************************************************************)
(* The invariant holds initially and is kept by every action.              *)
(***************************************************************************)

\* A run that begins, on whatever well-formed plan.
Fresh ==
  /\ WellFormedPlan(plan)
  /\ stage = 1 /\ batch = {} /\ phase = "select"
  /\ results = [t \in Targets |-> "none"]
  /\ outcome = [t \in Targets |-> IF t \in plan.blocked THEN "blocked" ELSE "none"]
  /\ blocked = plan.blocked /\ issues = plan.issues

LEMMA FreshEstablishes == Fresh => IInv
<1> SUFFICES ASSUME Fresh PROVE IInv
  OBVIOUS
<1>1. TypeOK
  <2>1. plan.blocked \subseteq Targets
    BY DEF Fresh, WellFormedPlan, Targets
  <2> QED BY <2>1 DEF Fresh, TypeOK, Outcomes
<1>2. BatchInStage /\ BlockedAgrees /\ ExecutedAgrees
  BY <1>1 DEF Fresh, TypeOK, BatchInStage, BlockedAgrees, ExecutedAgrees, Executed
<1>3. EarlierStagesSettled
  BY <1>1, PlanStages DEF Fresh, EarlierStagesSettled
<1>4. FailureBlocksDependents
  <2> SUFFICES ASSUME NEW e \in plan.edges,
                      \/ outcome[e[1]] = "unsatisfied"
                      \/ e[1] \in blocked \ plan.invalid
               PROVE  e[2] \in blocked
    BY DEF FailureBlocksDependents
  <2>1. e[1] \in Targets /\ (e[1] \in plan.blocked \ plan.invalid => e[2] \in plan.blocked)
    BY <1>1, PlanEdges
  <2>2. outcome[e[1]] # "unsatisfied"
    BY <2>1 DEF Fresh
  <2> QED BY <2>1, <2>2 DEF Fresh
<1>5. StartsBehindPrerequisites
  BY <1>1, PlanEdges DEF Fresh, StartsBehindPrerequisites, Executed
<1>6. BailStopsScope
  BY DEF Fresh, BailStopsScope
<1> QED BY <1>1, <1>2, <1>3, <1>4, <1>5, <1>6 DEF IInv

LEMMA InitEstablishes == Init => IInv
BY PlansAssumption, FreshEstablishes DEF Init, Fresh

LEMMA NextStageKeeps ==
  ASSUME IInv, NextStage
  PROVE  IInv'
<1>0. TypeOK /\ TypeOK' /\ Targets' = Targets /\ stage \in Nat /\ batch = {}
  BY TypeStep DEF IInv, TypeOK, Next, NextStage, Targets, BatchInStage
<1>1. BatchInStage' /\ BlockedAgrees'
  BY <1>0 DEF IInv, NextStage, BatchInStage, BlockedAgrees
<1>2. ExecutedAgrees'
  BY <1>0, PlanStages DEF IInv, NextStage, ExecutedAgrees, Executed, Settled
<1>3. EarlierStagesSettled'
  <2> SUFFICES ASSUME NEW k \in DOMAIN plan.stages, k < stage + 1, NEW t \in plan.stages[k]
               PROVE  outcome[t] # "none"
    BY DEF NextStage, EarlierStagesSettled, Settled
  <2>1. k \in Nat /\ stage \in DOMAIN plan.stages /\ t \in Targets
    BY <1>0, PlanStages DEF NextStage, IInv, TypeOK
  <2>2. CASE k < stage
    BY <2>2 DEF IInv, EarlierStagesSettled, Settled
  <2>3. CASE k = stage
    <3>1. t \notin Eligible
      BY <1>0, <2>1, OpenStageHasBatch DEF NextStage
    <3>2. t \in blocked \/ Settled(t)
      BY <2>3, <3>1 DEF Eligible
    <3> QED BY <2>1, <3>2 DEF IInv, BlockedAgrees, Settled
  <2> QED BY <1>0, <2>1, <2>2, <2>3
<1>4. FailureBlocksDependents' /\ StartsBehindPrerequisites' /\ BailStopsScope'
  BY <1>0 DEF IInv, NextStage, FailureBlocksDependents, StartsBehindPrerequisites,
              BailStopsScope, Executed, Bailed, Settled
<1> QED BY <1>0, <1>1, <1>2, <1>3, <1>4 DEF IInv

LEMMA StartBatchKeeps ==
  ASSUME IInv, StartBatch
  PROVE  IInv'
<1>0. /\ TypeOK /\ TypeOK' /\ Targets' = Targets /\ batch = {}
      /\ stage \in DOMAIN plan.stages /\ stage \in Nat
  BY TypeStep, PlanStages DEF IInv, TypeOK, Next, StartBatch, Targets, BatchInStage
<1>1. \A t \in NextBatch : /\ t \in Targets /\ t \in plan.stages[stage]
                           /\ t \notin blocked /\ ~ Settled(t)
  BY <1>0, NextBatchIsOpen, PlanStages
<1>2. BatchInStage'
  BY <1>0, <1>1, OnePerBailScope DEF StartBatch, BatchInStage
<1>3. BlockedAgrees' /\ EarlierStagesSettled' /\ FailureBlocksDependents'
  BY <1>0 DEF IInv, StartBatch, BlockedAgrees, EarlierStagesSettled, FailureBlocksDependents,
              Bailed, Settled
<1>4. ExecutedAgrees'
  BY <1>0, <1>1 DEF IInv, StartBatch, ExecutedAgrees, Executed, Settled
<1>5. StartsBehindPrerequisites'
  <2> SUFFICES ASSUME NEW e \in plan.edges, e[2] \in NextBatch
               PROVE  \/ outcome[e[1]] = "satisfied"
                      \/ e[1] \in blocked /\ (Bailed(e[1]) \/ e[1] \in plan.invalid)
    BY DEF IInv, StartBatch, StartsBehindPrerequisites, Executed, Bailed
  <2>1. e[1] \in Targets /\ Settled(e[1])
    BY <1>0, <1>1, PlanEdges, PrerequisitesSettled
  <2>2. e[2] \notin blocked
    BY <1>1
  <2>3. outcome[e[1]] \in {"satisfied", "blocked"}
    BY <2>1, <2>2 DEF IInv, TypeOK, FailureBlocksDependents, Settled, Outcomes
  <2> QED BY <2>1, <2>2, <2>3 DEF IInv, FailureBlocksDependents, BlockedAgrees
<1>6. BailStopsScope'
  BY <1>0, <1>1 DEF IInv, StartBatch, BailStopsScope, Settled
<1> QED BY <1>0, <1>2, <1>3, <1>4, <1>5, <1>6 DEF IInv

LEMMA FinishTargetKeeps ==
  ASSUME IInv, NEW t \in batch, NEW v \in {"pass", "fail"}, FinishTarget(t, v)
  PROVE  IInv'
<1>0. TypeOK /\ TypeOK' /\ Targets' = Targets /\ t \in Targets
  BY TypeStep DEF IInv, TypeOK, Next, FinishTarget, Targets
<1>1. results' = [results EXCEPT ![t] = v] /\ results \in [Targets -> {"none", "pass", "fail"}]
  BY <1>0 DEF FinishTarget, TypeOK
<1>2. \A u \in Targets : Executed(u)' <=> Executed(u)
  BY <1>0, <1>1 DEF Executed, FinishTarget
<1>3. /\ BatchInStage' /\ BlockedAgrees' /\ EarlierStagesSettled'
      /\ FailureBlocksDependents' /\ BailStopsScope'
  BY <1>0 DEF IInv, FinishTarget, BatchInStage, BlockedAgrees, EarlierStagesSettled,
              FailureBlocksDependents, BailStopsScope, Bailed, Settled
<1>4. ExecutedAgrees'
  BY <1>0, <1>1, <1>2 DEF IInv, FinishTarget, ExecutedAgrees, Settled
<1>5. StartsBehindPrerequisites'
  BY <1>0, <1>2, PlanEdges DEF IInv, FinishTarget, StartsBehindPrerequisites, Bailed
<1> QED BY <1>0, <1>3, <1>4, <1>5 DEF IInv

LEMMA RecordResultKeeps ==
  ASSUME IInv, NEW t \in batch, RecordResult(t)
  PROVE  IInv'
<1>0. /\ TypeOK /\ TypeOK' /\ Targets' = Targets /\ t \in Targets
      /\ plan' = plan /\ stage' = stage /\ results' = results /\ batch' = batch \ {t}
      /\ results[t] # "none" /\ ~ Settled(t)
  BY TypeStep DEF IInv, TypeOK, Next, RecordResult, Targets, ExecutedAgrees
<1>1. \A u \in Targets : Executed(u)' <=> Executed(u)
  BY <1>0 DEF Executed
<1>2. \A u \in Targets : Settled(u) => outcome'[u] = outcome[u]
  BY <1>0, Recorded DEF Settled
<1>3. \A u \in Targets : Settled(u) => Settled(u)'
  BY <1>2 DEF Settled
<1>4. BatchInStage'
  BY <1>0 DEF IInv, RecordResult, BatchInStage
<1>5. BlockedAgrees'
  <2>1. ASSUME NEW u \in Targets PROVE u \in blocked' <=> outcome'[u] = "blocked"
    BY Recorded DEF IInv, BlockedAgrees
  <2> QED BY <1>0, <2>1, RecordGrows DEF IInv, BlockedAgrees
<1>6. ExecutedAgrees'
  <2> SUFFICES ASSUME NEW u \in Targets
               PROVE  /\ u \in batch' => outcome'[u] = "none"
                      /\ results[u] # "none" =>
                           u \in batch' \/ outcome'[u] \in {"satisfied", "unsatisfied"}
                      /\ outcome'[u] \in {"satisfied", "unsatisfied"} => results[u] # "none"
                      /\ Executed(u) =>
                           \E k \in DOMAIN plan.stages : k <= stage /\ u \in plan.stages[k]
    BY <1>0, <1>1 DEF ExecutedAgrees, Settled
  <2> QED BY <1>0, Recorded DEF IInv, ExecutedAgrees, Executed, Settled
<1>7. EarlierStagesSettled'
  BY <1>0, <1>3, PlanStages DEF IInv, EarlierStagesSettled
<1>8. FailureBlocksDependents'
  <2> SUFFICES ASSUME NEW e \in plan.edges,
                      \/ outcome'[e[1]] = "unsatisfied"
                      \/ e[1] \in blocked' \ plan.invalid /\ ~ Bailed(e[1])',
                      e[2] \notin blocked'
               PROVE  FALSE
    BY <1>0 DEF FailureBlocksDependents
  <2>1. e[1] \in Targets /\ e[2] \in Targets /\ e[2] \notin blocked
    BY <1>0, PlanEdges, RecordGrows
  <2>2. ~ Satisfied(t) => BlockedBehind(t) \subseteq blocked'
    BY DEF RecordResult
  <2>3. CASE e[1] = t
    <3>1. outcome'[t] = "unsatisfied"
      BY <2>3, <1>0, Recorded
    <3>2. ~ Satisfied(t)
      BY <1>0, <3>1 DEF RecordResult, TypeOK
    <3> QED BY <1>0, <2>1, <2>2, <2>3, <3>2, BlockedBehindIsClosed
  <2>4. CASE e[1] # t /\ e[1] \in blocked' \ blocked
    <3>1. e[1] \in BlockedBehind(t) /\ outcome'[t] = "unsatisfied"
      BY <1>0, <2>1, <2>4, RecordGrows, Recorded
    <3>2. ~ Satisfied(t)
      BY <1>0, <3>1 DEF RecordResult, TypeOK
    <3> QED BY <1>0, <2>1, <2>2, <3>1, <3>2, BlockedBehindIsClosed
  <2>5. CASE e[1] # t /\ e[1] \notin blocked' \ blocked
    <3>1. \/ outcome[e[1]] = "unsatisfied"
          \/ e[1] \in blocked \ plan.invalid /\ ~ Bailed(e[1])
      BY <2>1, <2>5, Recorded, RecordGrows
    <3> QED BY <2>1, <3>1 DEF IInv, FailureBlocksDependents
  <2> QED BY <2>3, <2>4, <2>5
<1>9. StartsBehindPrerequisites'
  <2> SUFFICES ASSUME NEW e \in plan.edges, Executed(e[2])
               PROVE  \/ outcome'[e[1]] = "satisfied"
                      \/ e[1] \in blocked' /\ (Bailed(e[1])' \/ e[1] \in plan.invalid)
    BY <1>0, <1>1, PlanEdges DEF StartsBehindPrerequisites
  <2>1. e[1] \in Targets
    BY <1>0, PlanEdges
  <2>2. \/ outcome[e[1]] = "satisfied"
        \/ e[1] \in blocked /\ (Bailed(e[1]) \/ e[1] \in plan.invalid)
    BY DEF IInv, StartsBehindPrerequisites
  <2> QED BY <1>2, <2>1, <2>2, RecordGrows DEF Settled
<1>10. BailStopsScope'
  <2> SUFFICES ASSUME NEW a \in Targets, NEW u \in Targets,
                      plan.bailScope[a] # NoScope, plan.bailScope[a] = plan.bailScope[u],
                      outcome'[a] = "unsatisfied"
               PROVE  outcome'[u] # "none" /\ u \notin batch'
    BY <1>0 DEF BailStopsScope, Settled
  <2>1. CASE a # t
    <3>1. outcome[a] = "unsatisfied"
      BY <2>1, Recorded
    <3>2. Settled(u) /\ u \notin batch
      BY <3>1 DEF IInv, BailStopsScope
    <3> QED BY <1>0, <1>3, <3>2 DEF Settled
  <2>2. CASE a = t /\ u = t
    BY <1>0, <2>2, Recorded
  <2>3. CASE a = t /\ u # t
    <3>1. u \notin batch
      BY <2>3 DEF IInv, BatchInStage
    <3>2. ~ Satisfied(t)
      BY <1>0, <2>3 DEF RecordResult, TypeOK
    <3>3. Settled(u) \/ u \in blocked \/ u \in BlockedBehind(t) \cup BailedWith(t)
      BY <2>3 DEF BailedWith
    <3>4. u \in blocked' \/ Settled(u)
      BY <3>2, <3>3 DEF RecordResult
    <3>5. outcome'[u] # "none"
      BY <1>3, <1>5, <1>0, <3>4 DEF BlockedAgrees, Settled
    <3> QED BY <1>0, <3>1, <3>5
  <2> QED BY <2>1, <2>2, <2>3
<1> QED BY <1>0, <1>4, <1>5, <1>6, <1>7, <1>8, <1>9, <1>10 DEF IInv

LEMMA StutterKeeps ==
  ASSUME IInv, RejectBatch \/ Finish \/ UNCHANGED vars
  PROVE  IInv'
<1>0. TypeOK' /\ Targets' = Targets
  BY TypeStep DEF IInv, TypeOK, Next, RejectBatch, Finish, vars, Targets
<1>1. UNCHANGED <<plan, stage, batch, results, outcome, blocked, issues>>
  BY DEF RejectBatch, Finish, vars
<1>2. BatchInStage'
  BY <1>1 DEF IInv, BatchInStage, RejectBatch, Finish, vars
<1> QED BY <1>0, <1>1, <1>2
        DEF IInv, BlockedAgrees, ExecutedAgrees, EarlierStagesSettled, FailureBlocksDependents,
            StartsBehindPrerequisites, BailStopsScope, Executed, Bailed, Settled

LEMMA InvStep == IInv /\ [Next]_vars => IInv'
BY NextStageKeeps, StartBatchKeeps, FinishTargetKeeps, RecordResultKeeps, StutterKeeps DEF Next

LEMMA InvHolds == Spec => []IInv
BY InitEstablishes, InvStep, PTL DEF Spec

(***************************************************************************)
(* Safety.                                                                 *)
(***************************************************************************)

\* In every run a failed target has blocked what depends on it, directly or
\* through other targets (blockDependentTargets).
THEOREM FailureBlocks == Spec => []FailureBlocksDependents
BY InvHolds, PTL DEF IInv

\* In every run whatever has been dispatched has its prerequisites behind it,
\* and none of them failed.
THEOREM StartsBehind == Spec => []StartsBehindPrerequisites
BY InvHolds, PTL DEF IInv

\* In every run the members of a bail scope stop after the first failure
\* (createStageExecutionBatch and blockBailedTargets together).
THEOREM BailStops == Spec => []BailStopsScope
BY InvHolds, PTL DEF IInv

\* In no run is a target both run and blocked, so no result is overwritten.
THEOREM BlockedStaysUnrun == Spec => []BlockedNeverRuns
<1>1. IInv => BlockedNeverRuns
  <2> SUFFICES ASSUME IInv, NEW t \in blocked
               PROVE  ~ Executed(t) /\ outcome[t] = "blocked"
    BY DEF BlockedNeverRuns
  <2>1. t \in Targets /\ outcome[t] = "blocked"
    BY DEF IInv, TypeOK, BlockedAgrees
  <2> QED BY <2>1 DEF IInv, ExecutedAgrees, Executed, Settled
<1> QED BY <1>1, InvHolds, PTL

(***************************************************************************)
(* Refinement: the batches, stages and in-order recording implement the    *)
(* promise of DependencyRun.                                               *)
(***************************************************************************)

LEMMA InitImplements == Init => Promise!Init
<1> SUFFICES ASSUME Init PROVE Promise!Init
  OBVIOUS
<1> QED BY DEF Init, Promise!Init, Status, Settled, Targets

LEMMA StartBatchImplements ==
  ASSUME IInv, StartBatch
  PROVE  Promise!Start(NextBatch) /\ NextBatch \subseteq plan.targets
<1>0. /\ TypeOK /\ Targets' = Targets /\ batch = {} /\ Targets = plan.targets
      /\ stage \in DOMAIN plan.stages /\ stage \in Nat
  BY PlanStages DEF IInv, TypeOK, StartBatch, Targets, BatchInStage
<1>1. \A t \in NextBatch : /\ t \in Targets /\ t \in plan.stages[stage]
                           /\ t \notin blocked /\ ~ Settled(t)
  BY <1>0, NextBatchIsOpen, PlanStages
<1>2. ASSUME NEW t \in NextBatch PROVE Status[t] = "waiting"
  BY <1>0, <1>1 DEF Status
<1>3. ASSUME NEW e \in plan.edges, e[2] \in NextBatch
      PROVE  Status[e[1]] \in {"satisfied", "blocked"}
  <2>1. e[1] \in Targets /\ Settled(e[1])
    BY <1>0, <1>1, <1>3, PlanEdges, PrerequisitesSettled
  <2>2. outcome[e[1]] # "unsatisfied"
    BY <1>1, <1>3 DEF IInv, FailureBlocksDependents
  <2> QED BY <1>0, <2>1, <2>2 DEF Status, TypeOK, Outcomes, Settled
<1>4. Status' = [t \in plan.targets |-> IF t \in NextBatch THEN "running" ELSE Status[t]]
  BY <1>0, <1>1 DEF Status, StartBatch, Settled, Targets
<1> QED BY <1>0, <1>1, <1>2, <1>3, <1>4 DEF Promise!Start, Promise!Behind, StartBatch

LEMMA RecordResultImplements ==
  ASSUME IInv, NEW t \in batch, RecordResult(t)
  PROVE  Promise!Next
<1> DEFINE B == BlockedBehind(t) \cup BailedWith(t)
<1>0. /\ TypeOK /\ Targets' = Targets /\ t \in Targets /\ Targets = plan.targets
      /\ plan' = plan /\ batch' = batch \ {t} /\ batch \subseteq Targets
      /\ ~ Settled(t)
  BY DEF IInv, TypeOK, RecordResult, Targets, ExecutedAgrees
<1>1. Status[t] = "running"
  BY <1>0 DEF Status
<1>2. CASE Satisfied(t)
  <2>1. outcome' = [outcome EXCEPT ![t] = "satisfied"]
    BY <1>2 DEF RecordResult
  <2>2. Status' = [Status EXCEPT ![t] = "satisfied"]
    BY <1>0, <2>1 DEF Status, Settled, TypeOK
  <2> QED BY <1>0, <1>1, <2>2 DEF Promise!Next, Promise!Succeed
<1>3. CASE ~ Satisfied(t)
  <2>1. \A u \in B : u \in Targets /\ ~ Executed(u) /\ ~ Settled(u)
    BY BehindIsWaiting, BailedIsWaiting, NewlyBlocked
  <2>2. outcome' = [u \in Targets |-> IF u \in B THEN "blocked"
                                      ELSE IF u = t THEN "unsatisfied" ELSE outcome[u]]
    BY <1>3 DEF RecordResult
  <2>3. \A u \in B : Status[u] = "waiting"
    BY <1>0, <2>1 DEF Status, Executed
  <2>4. ASSUME NEW e \in plan.edges, e[1] = t
        PROVE  e[2] \in B \/ Status[e[2]] = "blocked"
    <3>1. CASE e[2] \in blocked
      BY <1>0, <3>1, PlanEdges DEF IInv, BlockedAgrees, Status, Settled
    <3>2. CASE e[2] \notin blocked
      BY <1>0, <2>4, <3>2, BlockedBehindIsClosed
    <3> QED BY <3>1, <3>2
  <2>5. Status' = [u \in plan.targets |-> IF u \in B THEN "blocked"
                                         ELSE IF u = t THEN "unsatisfied" ELSE Status[u]]
    <3> HIDE DEF B
    <3> QED BY <1>0, <2>1, <2>2 DEF Status, Settled, Executed
  <2>6. Promise!Fail(t, B)
    <3> HIDE DEF B
    <3> QED BY <1>0, <1>1, <2>3, <2>4, <2>5 DEF Promise!Fail
  <2> QED BY <1>0, <2>1, <2>6 DEF Promise!Next
<1> QED BY <1>2, <1>3

\* executePlannedStages implements the promise of DependencyRun: a target
\* starts behind its prerequisites, a failure blocks its dependents in the
\* same step, and no outcome is revised.
THEOREM ExecutionImplementsPromise == Spec => ImplementsPromise
<1>1. IInv /\ [Next]_vars => [Promise!Next]_(Promise!vars)
  <2> SUFFICES ASSUME IInv, [Next]_vars PROVE [Promise!Next]_(Promise!vars)
    OBVIOUS
  <2>1. CASE StartBatch
    BY <2>1, StartBatchImplements DEF Promise!Next
  <2>2. ASSUME NEW t \in batch, RecordResult(t) PROVE Promise!Next
    BY <2>2, RecordResultImplements
  <2>3. ASSUME UNCHANGED <<plan, outcome, batch>> PROVE UNCHANGED Promise!vars
    BY <2>3 DEF Promise!vars, Status, Settled, Targets
  <2>4. ASSUME \/ NextStage \/ RejectBatch \/ Finish \/ UNCHANGED vars
               \/ \E t \in batch, v \in {"pass", "fail"} : FinishTarget(t, v)
        PROVE  UNCHANGED <<plan, outcome, batch>>
    BY <2>4 DEF NextStage, RejectBatch, Finish, FinishTarget, vars
  <2> QED BY <2>1, <2>2, <2>3, <2>4 DEF Next
<1>2. QED
  BY <1>1, InitImplements, InvHolds, PTL DEF Spec, ImplementsPromise, Promise!Spec

-----------------------------------------------------------------------------

\* Induction up to m, over a set.
LEMMA UpTo ==
  ASSUME NEW m \in Nat, NEW S, 0 \in S, \A n \in 0..m : n < m /\ n \in S => n + 1 \in S
  PROVE  \A n \in 0..m : n \in S
<1> SUFFICES ASSUME \E n \in 0..m : n \notin S PROVE FALSE
  OBVIOUS
<1> DEFINE Bad == {n \in 0..m : n \notin S}
<1>1. PICK b \in Bad : \A n \in Bad : b <= n
  <2>1. Bad \subseteq Nat /\ Bad # {}
    OBVIOUS
  <2> HIDE DEF Bad
  <2> QED BY <2>1, LeastNatural
<1>2. b # 0 /\ b \in 0..m
  OBVIOUS
<1>3. b - 1 \in 0..m /\ b - 1 < m /\ b - 1 + 1 = b
  BY <1>2
<1>4. b - 1 \in S
  BY <1>1, <1>3
<1>5. b \in S
  BY <1>3, <1>4
<1> QED BY <1>5

\* f is the first m iterates of step, from a.
Iterates(f, m, a, step) == f[0] = a /\ \A n \in 1..m : f[n] = step[f[n - 1]]

\* Iterating a function on a set, as often as one likes.
LEMMA IterationExists ==
  ASSUME NEW m \in Nat, NEW S, NEW a \in S, NEW step \in [S -> S]
  PROVE  \E f \in [0..m -> S] : Iterates(f, m, a, step)
<1> DEFINE Good == {k \in 0..m : \E f \in [0..k -> S] : Iterates(f, k, a, step)}
<1>1. 0 \in Good
  <2> DEFINE f == [n \in 0..0 |-> a]
  <2>1. f \in [0..0 -> S] /\ Iterates(f, 0, a, step)
    BY DEF Iterates
  <2>2. 0 \in 0..m
    OBVIOUS
  <2> HIDE DEF f
  <2> QED BY <2>1, <2>2
<1>2. ASSUME NEW k \in 0..m, k < m, k \in Good PROVE k + 1 \in Good
  <2>1. PICK f \in [0..k -> S] : Iterates(f, k, a, step)
    BY <1>2
  <2> DEFINE g == [n \in 0..(k + 1) |-> IF n = k + 1 THEN step[f[k]] ELSE f[n]]
  <2>2. g \in [0..(k + 1) -> S]
    OBVIOUS
  <2>3. g[0] = a
    BY <2>1 DEF Iterates
  <2>4. ASSUME NEW n \in 1..(k + 1) PROVE g[n] = step[g[n - 1]]
    <3>1. n - 1 \in 0..k /\ n - 1 \in 0..(k + 1) /\ n - 1 # k + 1 /\ n \in 0..(k + 1)
      OBVIOUS
    <3>2. g[n - 1] = f[n - 1]
      BY <3>1
    <3>3. CASE n = k + 1
      BY <3>1, <3>2, <3>3
    <3>4. CASE n # k + 1
      <4>1. n \in 1..k /\ g[n] = f[n]
        BY <3>1, <3>4
      <4> QED BY <2>1, <3>2, <4>1 DEF Iterates
    <3> QED BY <3>3, <3>4
  <2>5. Iterates(g, k + 1, a, step)
    BY <2>3, <2>4 DEF Iterates
  <2>6. k + 1 \in 0..m
    BY <1>2
  <2> HIDE DEF g
  <2> QED BY <2>2, <2>5, <2>6
<1> HIDE DEF Good
<1>3. \A k \in 0..m : k \in Good
  BY <1>1, <1>2, UpTo
<1>4. m \in Good
  BY <1>3
<1> QED BY <1>4 DEF Good

\* What the search finds: the least set that the successors of t are in, and those
\* of its members, save the keys that were blocked before.
LEMMA SearchIsClosure ==
  ASSUME NEW p, IsFiniteSet(p.targets), p.edges \subseteq p.targets \X p.targets, NEW t, NEW keys
  PROVE  /\ BlockBehind(p, t, keys) \subseteq p.targets \ keys
         /\ Frontier(p, t, keys, BlockBehind(p, t, keys)) \subseteq BlockBehind(p, t, keys)
         /\ \A C : Frontier(p, t, keys, C) \subseteq C => BlockBehind(p, t, keys) \subseteq C
<1> DEFINE N == Cardinality(p.targets)
           S == SUBSET p.targets
           F(X) == Frontier(p, t, keys, X)
           step == [X \in S |-> X \cup F(X)]
           Is(g) == g = [n \in 0..N |-> IF n = 0 THEN {} ELSE g[n - 1] \cup F(g[n - 1])]
           found == CHOOSE g : Is(g)
<1>1. N \in Nat
  BY FS_CardinalityType
<1>2. \A X : F(X) \subseteq p.targets \ keys
  BY DEF Frontier
<1>3. BlockBehind(p, t, keys) = found[N]
  BY DEF BlockBehind
<1>4. \A X, Y : X \subseteq Y => F(X) \subseteq F(Y)
  BY DEF Frontier
<1> HIDE DEF N, F
<1>5. step \in [S -> S]
  BY <1>2
<1>6. \E g : Is(g)
  <2>1. PICK g \in [0..N -> S] : g[0] = {} /\ \A n \in 1..N : g[n] = step[g[n - 1]]
    <3> HIDE DEF step
    <3>1. PICK a \in S : a = {}
      OBVIOUS
    <3> HIDE DEF S
    <3>2. \E f \in [0..N -> S] : Iterates(f, N, a, step)
      BY <1>1, <1>5, <3>1, IterationExists
    <3> QED BY <3>1, <3>2 DEF Iterates
  <2>2. ASSUME NEW n \in 0..N
        PROVE  g[n] = IF n = 0 THEN {} ELSE g[n - 1] \cup F(g[n - 1])
    <3>1. CASE n = 0
      BY <2>1, <3>1
    <3>2. CASE n # 0
      <4>1. n \in 1..N /\ n - 1 \in 0..N
        BY <1>1, <3>2
      <4> QED BY <2>1, <3>2, <4>1
    <3> QED BY <3>1, <3>2
  <2>3. g = [n \in 0..N |-> g[n]]
    BY <2>1
  <2>4. g = [n \in 0..N |-> IF n = 0 THEN {} ELSE g[n - 1] \cup F(g[n - 1])]
    BY <2>2, <2>3, Zenon
  <2> QED BY <2>4
<1>7. found = [n \in 0..N |-> IF n = 0 THEN {} ELSE found[n - 1] \cup F(found[n - 1])]
  <2>1. Is(found)
    <3> HIDE DEF Is
    <3> QED BY <1>6
  <2> HIDE DEF found
  <2> QED BY <2>1
<1>8. /\ found[0] = {}
      /\ \A n \in 0..N : n < N => found[n + 1] = found[n] \cup F(found[n])
  <2> HIDE DEF found
  <2>1. found[0] = {}
    <3>1. 0 \in 0..N
      BY <1>1
    <3> QED BY <1>7, <3>1
  <2>2. ASSUME NEW n \in 0..N, n < N PROVE found[n + 1] = found[n] \cup F(found[n])
    <3> DEFINE k == n + 1
    <3>1. k \in 0..N /\ k # 0 /\ k - 1 = n
      BY <1>1, <2>2
    <3> HIDE DEF k
    <3>2. found[k] = found[k - 1] \cup F(found[k - 1])
      BY <1>7, <3>1
    <3> QED BY <3>1, <3>2 DEF k
  <2> QED BY <2>1, <2>2
<1> HIDE DEF found
<1>9. found[N] \subseteq p.targets \ keys
  <2> DEFINE Good == {n \in 0..N : found[n] \subseteq p.targets \ keys}
  <2>1. 0 \in Good
    BY <1>1, <1>8
  <2>2. \A n \in 0..N : n < N /\ n \in Good => n + 1 \in Good
    BY <1>1, <1>2, <1>8
  <2> HIDE DEF Good
  <2>3. \A n \in 0..N : n \in Good
    BY <1>1, <2>1, <2>2, UpTo
  <2> QED BY <1>1, <2>3 DEF Good
<1>10. ASSUME NEW C, F(C) \subseteq C PROVE found[N] \subseteq C
  <2> DEFINE Good == {n \in 0..N : found[n] \subseteq C}
  <2>1. 0 \in Good
    BY <1>1, <1>8
  <2>2. ASSUME NEW n \in 0..N, n < N, n \in Good PROVE n + 1 \in Good
    <3>1. F(found[n]) \subseteq C
      BY <1>4, <1>10, <2>2
    <3> QED BY <1>1, <1>8, <2>2, <3>1
  <2> HIDE DEF Good
  <2>3. \A n \in 0..N : n \in Good
    BY <1>1, <2>1, <2>2, UpTo
  <2> QED BY <1>1, <2>3 DEF Good
<1>11. F(found[N]) \subseteq found[N]
  <2> DEFINE Done(n) == F(found[n]) \subseteq found[n]
             Good == {n \in 0..N : /\ IsFiniteSet(found[n]) /\ found[n] \subseteq p.targets
                                   /\ Done(n) \/ Cardinality(found[n]) >= n}
  <2>1. 0 \in Good
    BY <1>1, <1>8, FS_EmptySet
  <2>2. ASSUME NEW n \in 0..N, n < N, n \in Good PROVE n + 1 \in Good
    <3>1. /\ found[n + 1] = found[n] \cup F(found[n]) /\ n \in Nat /\ n + 1 \in 0..N
          /\ found[n] \subseteq p.targets /\ IsFiniteSet(found[n])
          /\ Done(n) \/ Cardinality(found[n]) >= n
      BY <1>1, <1>8, <2>2
    <3>2. found[n + 1] \subseteq p.targets
      BY <1>2, <3>1
    <3>3. IsFiniteSet(found[n + 1])
      BY <3>2, FS_Subset
    <3>4. CASE Done(n)
      <4>1. found[n + 1] = found[n]
        BY <3>1, <3>4
      <4> QED BY <3>1, <3>4, <4>1
    <3>5. CASE ~ Done(n)
      <4>1. found[n] \subseteq found[n + 1] /\ found[n] # found[n + 1]
        BY <3>1, <3>5
      <4>2. /\ Cardinality(found[n]) < Cardinality(found[n + 1])
            /\ Cardinality(found[n]) \in Nat /\ Cardinality(found[n + 1]) \in Nat
        BY <3>1, <3>3, <4>1, FS_Subset, FS_CardinalityType
      <4>3. Cardinality(found[n + 1]) >= n + 1
        BY <3>1, <3>5, <4>2
      <4> QED BY <3>1, <3>2, <3>3, <4>3
    <3> QED BY <3>4, <3>5
  <2> HIDE DEF Good
  <2>3. N \in Good
    BY <1>1, <2>1, <2>2, UpTo
  <2>4. CASE Cardinality(found[N]) >= N
    <3>1. found[N] \subseteq p.targets /\ IsFiniteSet(found[N])
      BY <2>3 DEF Good
    <3>2. found[N] = p.targets
      <4>1. /\ Cardinality(found[N]) \in Nat /\ Cardinality(found[N]) <= N
            /\ N = Cardinality(found[N]) => p.targets = found[N]
        BY <3>1, FS_CardinalityType, FS_Subset DEF N
      <4>2. N = Cardinality(found[N])
        BY <1>1, <2>4, <4>1
      <4> QED BY <4>1, <4>2
    <3> QED BY <1>2, <3>2
  <2> QED BY <2>3, <2>4 DEF Good
<1> QED BY <1>3, <1>9, <1>10, <1>11 DEF F

\* It is what blocking behind a target means in the executor.
LEMMA SearchIsBlocking ==
  ASSUME TypeOK, NEW t
  PROVE  BlockBehind(plan, t, blocked) = BlockedBehind(t)
<1> DEFINE B == BlockBehind(plan, t, blocked)
           Closed(C) == \A e \in plan.edges :
             (e[1] = t \/ e[1] \in C) /\ e[2] \notin blocked => e[2] \in C
<1>1. /\ B \subseteq Targets \ blocked /\ Frontier(plan, t, blocked, B) \subseteq B
      /\ \A C : Frontier(plan, t, blocked, C) \subseteq C => B \subseteq C
  <2>1. IsFiniteSet(plan.targets) /\ plan.edges \subseteq plan.targets \X plan.targets
    BY DEF TypeOK, WellFormedPlan
  <2> QED BY <2>1, SearchIsClosure DEF Targets
<1> HIDE DEF B
<1>2. \A C : Frontier(plan, t, blocked, C) \subseteq C <=> Closed(C)
  BY DEF Frontier
<1>3. BlockedBehind(t) = {u \in Targets \ blocked :
                            \A C \in SUBSET (Targets \ blocked) : Closed(C) => u \in C}
  BY DEF BlockedBehind
<1> HIDE DEF Closed
<1>4. BlockedBehind(t) \subseteq B
  BY <1>1, <1>2, <1>3
<1>5. B \subseteq BlockedBehind(t)
  BY <1>1, <1>2, <1>3
<1> QED BY <1>4, <1>5 DEF B

\* The state of evaluatePlannedExecution that the executor is in.
Moment == [stage |-> stage, todo |-> batch, blocked |-> blocked, outcome |-> outcome]

\* The targets whose results are recorded.
Verdicted == {t \in Targets : outcome[t] \in {"satisfied", "unsatisfied"}}

\* The evaluation picks the batches that the executor dispatches,
LEMMA SameBatch ==
  BatchOf(plan, Moment) = NextBatch
BY DEF BatchOf, NextBatch, Eligible, Moment, Settled

LEMMA NextStageIsTurn ==
  ASSUME NextStage, batch = {}, stage \in Nat, Len(plan.stages) \in Nat, NEW v
  PROVE  Turn(plan, v, Moment) = Moment'
<1>1. Moment.todo = {} /\ Moment.stage = stage /\ ~ (stage > Len(plan.stages))
  BY DEF Moment, NextStage
<1>2. BatchOf(plan, Moment) = {}
  BY SameBatch DEF NextStage
<1>3. Turn(plan, v, Moment) = [Moment EXCEPT !.stage = Moment.stage + 1]
  BY <1>1, <1>2 DEF Turn
<1> QED BY <1>3 DEF Moment, NextStage

LEMMA StartBatchIsTurn ==
  ASSUME StartBatch, batch = {}, stage \in Nat, Len(plan.stages) \in Nat, NEW v
  PROVE  Turn(plan, v, Moment) = Moment'
<1>1. Moment.todo = {} /\ Moment.stage = stage /\ ~ (stage > Len(plan.stages))
  BY DEF Moment, StartBatch
<1>2. BatchOf(plan, Moment) = NextBatch /\ NextBatch # {}
  BY SameBatch DEF StartBatch
<1>3. Turn(plan, v, Moment) = [Moment EXCEPT !.todo = NextBatch]
  BY <1>1, <1>2 DEF Turn
<1> QED BY <1>3 DEF Moment, StartBatch

\* records their results in the same order, and blocks the same targets for them.
LEMMA RecordIsTurn ==
  ASSUME IInv, NEW t \in batch, RecordResult(t), NEW v, v[t] = results[t]
  PROVE  Turn(plan, v, Moment) = Moment'
<1>1. /\ TypeOK /\ batch \subseteq Targets /\ t \in Targets /\ results[t] # "none"
      /\ outcome = [u \in Targets |-> outcome[u]] /\ DOMAIN outcome = Targets
  BY DEF IInv, TypeOK, RecordResult
<1>2. First(plan, batch) = t
  <2>1. \A u \in batch : plan.rank[t] <= plan.rank[u]
    BY DEF RecordResult
  <2>2. ASSUME NEW x \in batch, \A y \in batch : plan.rank[x] <= plan.rank[y] PROVE x = t
    <3>1. x \in Targets /\ plan.rank[x] \in Nat /\ plan.rank[t] \in Nat
      BY <1>1 DEF TypeOK, WellFormedPlan, Targets
    <3>2. plan.rank[x] = plan.rank[t]
      BY <2>1, <2>2, <3>1
    <3> QED BY <1>1, <3>1, <3>2 DEF TypeOK, WellFormedPlan, Targets
  <2> QED BY <2>1, <2>2 DEF First
<1> DEFINE o == Classify(plan, v, t)
           s1 == [stage |-> stage, todo |-> batch \ {t}, blocked |-> blocked,
                  outcome |-> [u \in Targets |-> IF u = t THEN o ELSE outcome[u]]]
           B == BlockedBehind(t)
           s2 == [stage |-> stage, todo |-> batch \ {t}, blocked |-> blocked \cup B,
                  outcome |-> [u \in Targets |-> IF u \in B THEN "blocked"
                                                 ELSE IF u = t THEN o ELSE outcome[u]]]
           D == BailedWith(t)
           s3 == [stage |-> stage, todo |-> batch \ {t}, blocked |-> (blocked \cup B) \cup D,
                  outcome |-> [u \in Targets |-> IF u \in B \cup D THEN "blocked"
                                                 ELSE IF u = t THEN o ELSE outcome[u]]]
<1>3. o = (IF Satisfied(t) THEN "satisfied" ELSE "unsatisfied")
  BY <1>1 DEF Classify, Satisfied
<1>4. /\ B \subseteq Targets \ blocked
      /\ D \subseteq Targets \ (blocked \cup B \cup {t})
  BY NewlyBlocked
<1> HIDE DEF o
<1>5. [Moment EXCEPT !.todo = Moment.todo \ {t}, !.outcome = [Moment.outcome EXCEPT ![t] = o]] = s1
  <2>1. [outcome EXCEPT ![t] = o] = [u \in Targets |-> IF u = t THEN o ELSE outcome[u]]
    BY <1>1
  <2>2. [Moment EXCEPT !.todo = Moment.todo \ {t}, !.outcome = [Moment.outcome EXCEPT ![t] = o]]
          = [stage |-> stage, todo |-> batch \ {t}, blocked |-> blocked,
             outcome |-> [outcome EXCEPT ![t] = o]]
    <3>1. /\ Moment = [stage |-> stage, todo |-> batch, blocked |-> blocked, outcome |-> outcome]
          /\ Moment.todo = batch /\ Moment.outcome = outcome
      BY DEF Moment
    <3>2. PICK x : x = batch \ {t}
      OBVIOUS
    <3>3. PICK y : y = [outcome EXCEPT ![t] = o]
      OBVIOUS
    <3>4. PICK r : r = Moment
      OBVIOUS
    <3>5. r = [stage |-> stage, todo |-> batch, blocked |-> blocked, outcome |-> outcome]
      BY <3>1, <3>4
    <3>6. [r EXCEPT !.todo = x, !.outcome = y]
            = [stage |-> stage, todo |-> x, blocked |-> blocked, outcome |-> y]
      <4> DEFINE q == [r EXCEPT !.todo = x]
      <4>1. q = [stage |-> stage, todo |-> x, blocked |-> blocked, outcome |-> outcome]
        BY <3>5
      <4>2. [r EXCEPT !.todo = x, !.outcome = y] = [q EXCEPT !.outcome = y]
        BY <3>5
      <4> HIDE DEF q
      <4>3. [q EXCEPT !.outcome = y]
              = [stage |-> stage, todo |-> x, blocked |-> blocked, outcome |-> y]
        BY <4>1
      <4> QED BY <4>2, <4>3
    <3> QED BY <3>1, <3>2, <3>3, <3>4, <3>6
  <2> QED BY <2>1, <2>2
<1>6. BlockBehind(plan, t, s1.blocked) = B
  BY <1>1, SearchIsBlocking
<1>7. MarkBlocked(s1, B) = s2
  <2> HIDE DEF B
  <2>1. MarkBlocked(s1, B) = [s1 EXCEPT
            !.outcome = [u \in DOMAIN s1.outcome |-> IF u \in B \ s1.blocked THEN "blocked"
                                                     ELSE s1.outcome[u]],
            !.blocked = s1.blocked \cup B]
    BY DEF MarkBlocked
  <2>2. [u \in DOMAIN s1.outcome |-> IF u \in B \ s1.blocked THEN "blocked" ELSE s1.outcome[u]]
          = s2.outcome
    BY <1>4
  <2> QED BY <2>1, <2>2
<1>8. BailBlocked(plan, s2, t) = D
  <2>1. ASSUME NEW u \in Targets
        PROVE  u \in BailBlocked(plan, s2, t) <=> u \in D
    <3> HIDE DEF B
    <3>1. s2.blocked = blocked \cup B /\ (u \notin B /\ u # t => s2.outcome[u] = outcome[u])
      OBVIOUS
    <3> HIDE DEF s2
    <3> QED BY <3>1 DEF BailBlocked, BailedWith, Settled, Targets, B
  <2>2. BailBlocked(plan, s2, t) \subseteq Targets
    BY DEF BailBlocked, Targets
  <2> QED BY <1>4, <2>1, <2>2
<1>9. MarkBlocked(s2, D) = s3
  <2> HIDE DEF B, D
  <2>1. MarkBlocked(s2, D) = [s2 EXCEPT
            !.outcome = [u \in DOMAIN s2.outcome |-> IF u \in D \ s2.blocked THEN "blocked"
                                                     ELSE s2.outcome[u]],
            !.blocked = s2.blocked \cup D]
    BY DEF MarkBlocked
  <2>2. [u \in DOMAIN s2.outcome |-> IF u \in D \ s2.blocked THEN "blocked" ELSE s2.outcome[u]]
          = s3.outcome
    BY <1>4
  <2> QED BY <2>1, <2>2
<1>10. Turn(plan, v, Moment) = IF o = "satisfied" THEN s1 ELSE s3
  <2>1. Moment.todo = batch /\ batch # {}
    BY DEF Moment
  <2>2. Turn(plan, v, Moment) = RecordTarget(plan, v, Moment, t)
    BY <1>2, <2>1 DEF Turn
  <2>3. RecordTarget(plan, v, Moment, t) = IF o = "satisfied" THEN s1 ELSE s3
    <3> DEFINE z1 == [Moment EXCEPT !.todo = Moment.todo \ {t}, !.outcome = [Moment.outcome EXCEPT ![t] = o]]
               z2 == MarkBlocked(z1, BlockBehind(plan, t, z1.blocked))
    <3>1. RecordTarget(plan, v, Moment, t)
            = IF o = "satisfied" THEN z1 ELSE MarkBlocked(z2, BailBlocked(plan, z2, t))
      BY DEF RecordTarget, o
    <3>2. z1 = s1
      BY <1>5
    <3> HIDE DEF s1, s2, s3, B, D, z1
    <3>3. z2 = s2
      BY <1>6, <1>7, <3>2
    <3> HIDE DEF z2
    <3> QED BY <1>8, <1>9, <3>1, <3>2, <3>3
  <2> QED BY <2>2, <2>3
<1>11. CASE Satisfied(t)
  <2>1. Moment' = s1
    BY <1>1, <1>3, <1>11 DEF Moment, RecordResult
  <2> QED BY <1>3, <1>10, <1>11, <2>1
<1>12. CASE ~ Satisfied(t)
  <2>1. /\ outcome' = [u \in Targets |-> IF u \in B \cup D THEN "blocked"
                                         ELSE IF u = t THEN "unsatisfied" ELSE outcome[u]]
        /\ blocked' = blocked \cup B \cup D /\ stage' = stage /\ batch' = batch \ {t}
    BY <1>12 DEF RecordResult
  <2> HIDE DEF B, D
  <2>2. Moment' = s3
    BY <1>3, <1>12, <2>1 DEF Moment
  <2> QED BY <1>3, <1>10, <1>12, <2>2
<1> QED BY <1>11, <1>12

\* f holds the first n turns of the evaluation of p.
Walk(p, v, f, n) ==
  /\ f = [k \in 0..n |-> f[k]] /\ f[0] = Start(p)
  /\ \A k \in 1..n : f[k] = Turn(p, v, f[k - 1])

ComesTo(p, v, n, s) == \E f : Walk(p, v, f, n) /\ f[n] = s

LEMMA WalkOn ==
  ASSUME NEW p, NEW v, NEW n \in Nat, NEW s, ComesTo(p, v, n, s)
  PROVE  ComesTo(p, v, n + 1, Turn(p, v, s))
<1>1. PICK f : Walk(p, v, f, n) /\ f[n] = s
  BY DEF ComesTo
<1> DEFINE g == [k \in 0..(n + 1) |-> IF k = n + 1 THEN Turn(p, v, s) ELSE f[k]]
<1>2. g = [k \in 0..(n + 1) |-> g[k]] /\ g[0] = Start(p) /\ g[n + 1] = Turn(p, v, s)
  BY <1>1 DEF Walk
<1>3. ASSUME NEW k \in 1..(n + 1) PROVE g[k] = Turn(p, v, g[k - 1])
  <2>1. k - 1 \in 0..n /\ k - 1 \in 0..(n + 1) /\ k - 1 # n + 1 /\ k \in 0..(n + 1)
    OBVIOUS
  <2>2. g[k - 1] = f[k - 1]
    BY <2>1
  <2>3. CASE k = n + 1
    BY <1>1, <1>2, <2>2, <2>3
  <2>4. CASE k # n + 1
    <3>1. k \in 1..n /\ g[k] = f[k]
      BY <2>1, <2>4
    <3> QED BY <1>1, <2>2, <3>1 DEF Walk
  <2> QED BY <2>3, <2>4
<1> HIDE DEF g
<1> QED BY <1>2, <1>3 DEF Walk, ComesTo

\* When a state that no turn changes is reached in time, the evaluation ends there.
LEMMA EndsThere ==
  ASSUME NEW p, NEW v, NEW n \in Nat, Turns(p) \in Nat, n <= Turns(p),
         NEW s, ComesTo(p, v, n, s), Turn(p, v, s) = s
  PROVE  Evaluate(p, v) = s
<1> DEFINE T == Turns(p)
           Is(g) == g = [k \in 0..T |-> IF k = 0 THEN Start(p) ELSE Turn(p, v, g[k - 1])]
           after == CHOOSE g : Is(g)
<1>1. Evaluate(p, v) = after[T]
  BY DEF Evaluate
<1> HIDE DEF T
<1>2. PICK f : Walk(p, v, f, n) /\ f[n] = s
  BY DEF ComesTo
<1>3. T \in Nat /\ n <= T
  BY DEF T
<1> DEFINE g == [k \in 0..T |-> IF k <= n THEN f[k] ELSE s]
<1>4. g[0] = Start(p) /\ g[T] = s
  BY <1>2, <1>3 DEF Walk
<1>5. ASSUME NEW k \in 0..T, k # 0 PROVE g[k] = Turn(p, v, g[k - 1])
  <2>1. k - 1 \in 0..T /\ k \in Nat
    BY <1>3, <1>5
  <2>2. CASE k <= n
    <3>1. k \in 1..n /\ k - 1 <= n
      BY <1>5, <2>1, <2>2
    <3>2. g[k] = f[k] /\ g[k - 1] = f[k - 1]
      BY <2>1, <2>2, <3>1
    <3> QED BY <1>2, <3>1, <3>2 DEF Walk
  <2>3. CASE ~ (k <= n)
    <3>1. g[k] = s
      BY <2>3
    <3>2. k - 1 <= n => k - 1 = n
      BY <2>1, <2>3
    <3>3. g[k - 1] = s
      BY <1>2, <2>1, <3>2
    <3> QED BY <3>1, <3>3
  <2> QED BY <2>2, <2>3
<1>6. Is(g)
  <2>1. g = [k \in 0..T |-> g[k]]
    OBVIOUS
  <2>2. ASSUME NEW k \in 0..T PROVE g[k] = IF k = 0 THEN Start(p) ELSE Turn(p, v, g[k - 1])
    <3> HIDE DEF g
    <3> QED BY <1>4, <1>5
  <2> HIDE DEF g
  <2>3. g = [k \in 0..T |-> IF k = 0 THEN Start(p) ELSE Turn(p, v, g[k - 1])]
    BY <2>1, <2>2, Zenon
  <2> QED BY <2>3
<1>7. after = [k \in 0..T |-> IF k = 0 THEN Start(p) ELSE Turn(p, v, after[k - 1])]
  <2>1. Is(after)
    <3> HIDE DEF Is, g
    <3> QED BY <1>6
  <2> HIDE DEF after
  <2> QED BY <2>1
<1> HIDE DEF g, after
<1> DEFINE Same == {k \in 0..T : after[k] = g[k]}
<1>8. 0 \in Same
  <2>1. 0 \in 0..T
    BY <1>3
  <2> QED BY <1>4, <1>7, <2>1
<1>9. ASSUME NEW k \in 0..T, k < T, k \in Same PROVE k + 1 \in Same
  <2> DEFINE j == k + 1
  <2>1. j \in 0..T /\ j # 0 /\ j - 1 = k
    BY <1>3, <1>9
  <2> HIDE DEF j
  <2>2. after[j] = Turn(p, v, after[j - 1]) /\ g[j] = Turn(p, v, g[j - 1])
    BY <1>5, <1>7, <2>1
  <2>3. after[j] = g[j]
    BY <1>9, <2>1, <2>2
  <2> QED BY <2>1, <2>3 DEF j
<1> HIDE DEF Same
<1>10. \A k \in 0..T : k \in Same
  <2>1. T \in Nat /\ \A k \in 0..T : k < T /\ k \in Same => k + 1 \in Same
    BY <1>3, <1>9
  <2> HIDE DEF T
  <2> QED BY <1>8, <2>1, UpTo
<1>11. T \in Same
  <2>1. T \in 0..T
    BY <1>3
  <2> QED BY <1>10, <2>1
<1> QED BY <1>1, <1>4, <1>11 DEF Same

\* Whatever the targets not settled yet will say, the evaluation comes to where the
\* executor is, in as many turns as it has made steps.
Steps == stage - 1 + 2 * Cardinality(Verdicted) + (IF batch = {} THEN 0 ELSE 1)

Known(v) == \A t \in Verdicted : v[t] = results[t]

Follows == \A v : Known(v) => \E n \in Nat : n <= Steps /\ ComesTo(plan, v, n, Moment)

EvalInv ==
  /\ stage <= Len(plan.stages) + 1
  /\ phase = "select" => batch = {}
  /\ phase = "done" => batch = {} /\ stage > Len(plan.stages)
  /\ Follows

\* Counting what is recorded.
LEMMA VerdictedIsFinite ==
  ASSUME TypeOK
  PROVE  /\ IsFiniteSet(Verdicted) /\ Cardinality(Verdicted) \in Nat
         /\ Cardinality(Targets) \in Nat /\ Cardinality(Verdicted) <= Cardinality(Targets)
         /\ stage \in Nat \ {0} /\ Len(plan.stages) \in Nat
<1>1. IsFiniteSet(Targets) /\ stage \in Nat \ {0}
  BY DEF TypeOK, WellFormedPlan, Targets
<1>2. Verdicted \subseteq Targets
  BY DEF Verdicted
<1> QED BY <1>1, <1>2, FS_Subset, FS_CardinalityType, PlanStages

\* A step that is a turn keeps what the evaluation comes to,
LEMMA TurnFollows ==
  ASSUME IInv, EvalInv, plan' = plan, Steps' \in Nat, Steps + 1 <= Steps',
         \A v : Known(v)' => Known(v) /\ Turn(plan, v, Moment) = Moment'
  PROVE  Follows'
<1> SUFFICES ASSUME NEW v, Known(v)'
             PROVE  (\E n \in Nat : n <= Steps /\ ComesTo(plan, v, n, Moment))'
  BY DEF Follows
<1>1. PICK n \in Nat : n <= Steps /\ ComesTo(plan, v, n, Moment)
  BY DEF EvalInv, Follows
<1>2. Steps \in Nat
  <2> HIDE DEF Steps
  <2>1. TypeOK
    BY DEF IInv
  <2> QED BY <2>1, VerdictedIsFinite DEF Steps
<1>3. ComesTo(plan, v, n + 1, Turn(plan, v, Moment))
  BY <1>1, WalkOn
<1>4. Turn(plan, v, Moment) = Moment'
  OBVIOUS
<1>5. ComesTo(plan, v, n + 1, Moment')
  BY <1>3, <1>4
<1>6. n + 1 \in Nat /\ n + 1 <= Steps'
  BY <1>1, <1>2
<1>7. (ComesTo(plan, v, n + 1, Moment))'
  BY <1>5 DEF ComesTo, Walk
<1> QED BY <1>6, <1>7

\* and so does one that the evaluation does not see.
LEMMA StillFollows ==
  ASSUME IInv, EvalInv, plan' = plan, Moment' = Moment, Verdicted' = Verdicted,
         \A t \in Verdicted : results'[t] = results[t]
  PROVE  Follows'
<1>1. Steps' = Steps
  BY DEF Steps, Moment
<1>2. \A v : Known(v)' => Known(v)
  BY DEF Known
<1> SUFFICES ASSUME NEW v, Known(v)'
             PROVE  (\E n \in Nat : n <= Steps /\ ComesTo(plan, v, n, Moment))'
  BY DEF Follows
<1>3. PICK n \in Nat : n <= Steps /\ ComesTo(plan, v, n, Moment)
  BY <1>2 DEF EvalInv, Follows
<1>4. (ComesTo(plan, v, n, Moment))'
  BY <1>3 DEF ComesTo, Walk
<1> QED BY <1>1, <1>3, <1>4

\* Both begin at the same place.
LEMMA InitFollows ==
  ASSUME Init
  PROVE  EvalInv
<1>1. TypeOK
  BY InitEstablishes DEF IInv
<1>2. Moment = Start(plan)
  BY DEF Init, Moment, Start, Targets
<1>3. ASSUME NEW v PROVE ComesTo(plan, v, 0, Moment)
  <2> DEFINE f == [k \in 0..0 |-> Start(plan)]
  <2>1. Walk(plan, v, f, 0) /\ f[0] = Start(plan)
    BY DEF Walk
  <2> HIDE DEF f
  <2> QED BY <1>2, <2>1 DEF ComesTo
<1>4. Steps \in Nat
  BY <1>1, VerdictedIsFinite DEF Steps
<1>5. Follows
  BY <1>3, <1>4 DEF Follows
<1> QED BY <1>1, <1>5, VerdictedIsFinite DEF EvalInv, Init

\* Every step of the executor is a turn of the evaluation or none.
LEMMA StepFollows ==
  ASSUME IInv, EvalInv, [Next]_vars
  PROVE  EvalInv'
<1>1. IInv' /\ TypeOK /\ TypeOK'
  BY InvStep DEF IInv
<1>2. /\ Cardinality(Verdicted) \in Nat /\ stage \in Nat \ {0} /\ Len(plan.stages) \in Nat
      /\ IsFiniteSet(Verdicted)
  BY <1>1, VerdictedIsFinite
<1>3. CASE NextStage
  <2>1. /\ plan' = plan /\ stage' = stage + 1 /\ stage <= Len(plan.stages)
        /\ batch = {} /\ batch' = {} /\ phase' = "select"
        /\ outcome' = outcome /\ results' = results
    BY <1>3 DEF NextStage, EvalInv
  <2>2. Verdicted' = Verdicted
    BY <2>1 DEF Verdicted, Targets
  <2>3. Steps' \in Nat /\ Steps + 1 <= Steps'
    BY <1>2, <2>1, <2>2 DEF Steps
  <2>4. \A v : Known(v)' => Known(v) /\ Turn(plan, v, Moment) = Moment'
    BY <1>2, <1>3, <2>1, <2>2, NextStageIsTurn DEF Known
  <2>5. Follows'
    BY <2>1, <2>3, <2>4, TurnFollows
  <2> QED BY <1>2, <2>1, <2>5 DEF EvalInv
<1>4. CASE StartBatch
  <2>1. /\ plan' = plan /\ stage' = stage /\ batch = {} /\ batch' # {} /\ phase' = "running"
        /\ outcome' = outcome /\ results' = results
    BY <1>4 DEF StartBatch, EvalInv
  <2>2. Verdicted' = Verdicted
    BY <2>1 DEF Verdicted, Targets
  <2>3. Steps' \in Nat /\ Steps + 1 <= Steps'
    BY <1>2, <2>1, <2>2 DEF Steps
  <2>4. \A v : Known(v)' => Known(v) /\ Turn(plan, v, Moment) = Moment'
    BY <1>2, <1>4, <2>1, <2>2, StartBatchIsTurn DEF Known
  <2>5. Follows'
    BY <2>1, <2>3, <2>4, TurnFollows
  <2> QED BY <2>1, <2>5 DEF EvalInv
<1>5. ASSUME NEW t \in batch, NEW x \in {"pass", "fail"}, FinishTarget(t, x)
      PROVE  EvalInv'
  <2>1. /\ plan' = plan /\ stage' = stage /\ batch' = batch /\ phase' = phase /\ outcome' = outcome
        /\ blocked' = blocked /\ results' = [results EXCEPT ![t] = x]
    BY <1>5 DEF FinishTarget
  <2>2. Verdicted' = Verdicted /\ Moment' = Moment
    BY <2>1 DEF Verdicted, Targets, Moment
  <2>3. t \notin Verdicted
    BY <1>5 DEF Verdicted, IInv, ExecutedAgrees, Settled
  <2>4. \A u \in Verdicted : results'[u] = results[u]
    BY <1>1, <2>1, <2>3 DEF Verdicted, TypeOK
  <2>5. Follows'
    BY <2>1, <2>2, <2>4, StillFollows
  <2> QED BY <2>1, <2>5 DEF EvalInv
<1>6. CASE RejectBatch
  <2>1. /\ plan' = plan /\ stage' = stage /\ batch' = batch /\ phase' = "rejected"
        /\ outcome' = outcome /\ blocked' = blocked /\ results' = results
    BY <1>6 DEF RejectBatch
  <2>2. Verdicted' = Verdicted /\ Moment' = Moment
    BY <2>1 DEF Verdicted, Targets, Moment
  <2>3. Follows'
    BY <2>1, <2>2, StillFollows
  <2> QED BY <2>1, <2>3 DEF EvalInv
<1>7. ASSUME NEW t \in batch, RecordResult(t)
      PROVE  EvalInv'
  <2>1. /\ plan' = plan /\ stage' = stage /\ batch' = batch \ {t} /\ results' = results
        /\ phase' = IF batch' = {} THEN "select" ELSE "running"
    BY <1>7 DEF RecordResult
  <2>2. t \in Targets /\ t \notin Verdicted
    BY <1>1 DEF TypeOK, Verdicted, IInv, ExecutedAgrees, Settled
  <2>3. Verdicted' = Verdicted \cup {t}
    <3>1. \A u \in Targets : u \in Verdicted' <=> u = t \/ u \in Verdicted
      <4> SUFFICES ASSUME NEW u \in Targets PROVE u \in Verdicted' <=> u = t \/ u \in Verdicted
        OBVIOUS
      <4>1. \/ u = t /\ outcome'[u] \in {"satisfied", "unsatisfied"}
            \/ u # t /\ outcome'[u] = outcome[u]
            \/ u # t /\ ~ Settled(u) /\ outcome'[u] = "blocked"
        BY <1>7, Recorded
      <4> QED BY <2>1, <4>1 DEF Verdicted, Targets, Settled
    <3>2. Verdicted' \subseteq Targets /\ Verdicted \subseteq Targets
      BY <2>1 DEF Verdicted, Targets
    <3> QED BY <2>2, <3>1, <3>2
  <2>4. Cardinality(Verdicted') = Cardinality(Verdicted) + 1
    BY <1>2, <2>2, <2>3, FS_AddElement
  <2>5. Steps' \in Nat /\ Steps + 1 <= Steps'
    <3>1. batch # {}
      OBVIOUS
    <3> QED BY <1>2, <2>1, <2>4, <3>1 DEF Steps
  <2>6. \A v : Known(v)' => Known(v) /\ Turn(plan, v, Moment) = Moment'
    <3> SUFFICES ASSUME NEW v, Known(v)' PROVE Known(v) /\ Turn(plan, v, Moment) = Moment'
      OBVIOUS
    <3>1. Known(v) /\ v[t] = results[t]
      BY <2>1, <2>3 DEF Known
    <3> QED BY <1>7, <3>1, RecordIsTurn
  <2>7. Follows'
    BY <2>1, <2>5, <2>6, TurnFollows
  <2>8. stage <= Len(plan.stages) + 1
    BY DEF EvalInv
  <2> QED BY <2>1, <2>7, <2>8 DEF EvalInv
<1>8. CASE Finish
  <2>1. /\ plan' = plan /\ stage' = stage /\ batch' = batch /\ phase' = "done" /\ batch = {}
        /\ outcome' = outcome /\ blocked' = blocked /\ results' = results
        /\ stage > Len(plan.stages)
    BY <1>8 DEF Finish, EvalInv
  <2>2. Verdicted' = Verdicted /\ Moment' = Moment
    BY <2>1 DEF Verdicted, Targets, Moment
  <2>3. Follows'
    BY <2>1, <2>2, StillFollows
  <2> QED BY <2>1, <2>3 DEF EvalInv
<1>9. CASE UNCHANGED vars
  <2>1. /\ plan' = plan /\ stage' = stage /\ batch' = batch /\ phase' = phase
        /\ outcome' = outcome /\ blocked' = blocked /\ results' = results
    BY <1>9 DEF vars
  <2>2. Verdicted' = Verdicted /\ Moment' = Moment
    BY <2>1 DEF Verdicted, Targets, Moment
  <2>3. Follows'
    BY <2>1, <2>2, StillFollows
  <2> QED BY <2>1, <2>3 DEF EvalInv
<1> QED BY <1>3, <1>4, <1>5, <1>6, <1>7, <1>8, <1>9 DEF Next

\* In whatever order the results of a batch come in, a run that is done has the
\* outcomes and blocked targets that evaluatePlannedExecution computes of its
\* verdicts, for every plan.
THEOREM EvaluationAgrees == Spec => []RunAgreesWithEvaluation
<1>1. IInv /\ EvalInv => RunAgreesWithEvaluation
  <2> SUFFICES ASSUME IInv, EvalInv, phase = "done"
               PROVE  LET s == Evaluate(plan, results)
                      IN  s.outcome = outcome /\ s.blocked = blocked
    BY DEF RunAgreesWithEvaluation
  <2>1. PICK n \in Nat : n <= Steps /\ ComesTo(plan, results, n, Moment)
    BY DEF EvalInv, Follows, Known
  <2>2. batch = {} /\ stage > Len(plan.stages) /\ stage <= Len(plan.stages) + 1
    BY DEF EvalInv
  <2>3. /\ Cardinality(Verdicted) \in Nat /\ Cardinality(Targets) \in Nat
        /\ Cardinality(Verdicted) <= Cardinality(Targets)
        /\ stage \in Nat \ {0} /\ Len(plan.stages) \in Nat
    BY VerdictedIsFinite DEF IInv
  <2>4. Turns(plan) \in Nat /\ n <= Turns(plan)
    <3>1. Turns(plan) = Len(plan.stages) + 2 * Cardinality(Targets)
      BY DEF Turns, Targets
    <3>2. Steps = stage - 1 + 2 * Cardinality(Verdicted)
      BY <2>2, <2>3 DEF Steps
    <3> QED BY <2>1, <2>2, <2>3, <3>1, <3>2
  <2>5. Turn(plan, results, Moment) = Moment
    BY <2>2 DEF Turn, Moment
  <2>6. Evaluate(plan, results) = Moment
    BY <2>1, <2>4, <2>5, EndsThere
  <2> QED BY <2>6 DEF Moment
<1>2. Init => IInv /\ EvalInv
  BY InitEstablishes, InitFollows
<1>3. (IInv /\ EvalInv) /\ [Next]_vars => (IInv /\ EvalInv)'
  BY InvStep, StepFollows
<1> QED BY <1>1, <1>2, <1>3, PTL DEF Spec

=============================================================================

--------------------------- MODULE Planner_proofs ---------------------------
(***************************************************************************)
(* That the layering of Planner stages every target behind its             *)
(* prerequisites, loses and repeats none, keeps sequential scopes serial,  *)
(* blocks what depends on a blocked target and stages exactly what the     *)
(* paths of the graph allow, for every set of forests of any size.         *)
(***************************************************************************)
EXTENDS Planner, FiniteSetTheorems, FiniteSetsExt, TLAPS

\* Every set of naturals has a least member.
LEMMA LeastNatural ==
  ASSUME NEW S \in SUBSET Nat, S # {}
  PROVE  \E m \in S : \A n \in S : m <= n
<1> DEFINE Less == {ss \in Nat \X Nat : ss[1] < ss[2]}
<1>1. IsWellFoundedOn(Less, Nat)
  BY NatLessThanWellFounded, Zenon DEF OpToRel
<1>2. PICK m \in S : \A n \in S : ~ (<<n, m>> \in Less)
  <2> HIDE DEF Less
  <2> QED BY <1>1, WFMin
<1>3. ASSUME NEW n \in S PROVE m <= n
  <2>1. ~ (n < m)
    BY <1>2
  <2> QED BY <2>1
<1> QED BY <1>3

\* A part of a finite set that misses something of it is smaller.
LEMMA ProperSubset ==
  ASSUME NEW S, IsFiniteSet(S), NEW T \in SUBSET S, T # S
  PROVE  /\ Cardinality(T) \in Nat /\ Cardinality(S) \in Nat
         /\ Cardinality(T) < Cardinality(S)
<1>1. IsFiniteSet(T) /\ Cardinality(T) <= Cardinality(S) /\ Cardinality(T) # Cardinality(S)
  BY FS_Subset
<1>2. Cardinality(T) \in Nat /\ Cardinality(S) \in Nat
  BY <1>1, FS_CardinalityType
<1> QED BY <1>1, <1>2

\* Every finite set has a member that a transitive and irreflexive relation
\* relates to no other.
LEMMA Topmost ==
  ASSUME NEW S, IsFiniteSet(S), S # {}, NEW R,
         \A x, y, z \in S : <<x, y>> \in R /\ <<y, z>> \in R => <<x, z>> \in R,
         \A x \in S : <<x, x>> \notin R
  PROVE  \E m \in S : \A n \in S : <<m, n>> \notin R
<1> DEFINE Over(x) == {y \in S : <<x, y>> \in R}
           Sizes == {Cardinality(Over(x)) : x \in S}
<1>1. \A x \in S : IsFiniteSet(Over(x)) /\ Cardinality(Over(x)) \in Nat
  BY FS_Subset, FS_CardinalityType
<1>2. Sizes \in SUBSET Nat /\ Sizes # {}
  <2> HIDE DEF Over
  <2> QED BY <1>1
<1>3. PICK k \in Sizes : \A n \in Sizes : k <= n
  <2> HIDE DEF Sizes
  <2> QED BY <1>2, LeastNatural
<1>4. PICK m \in S : k = Cardinality(Over(m))
  OBVIOUS
<1>5. ASSUME NEW n \in S, <<m, n>> \in R PROVE FALSE
  <2>1. Over(n) \in SUBSET Over(m) /\ Over(n) # Over(m)
    BY <1>5
  <2>2. Cardinality(Over(n)) < k
    <3> HIDE DEF Over
    <3> QED BY <1>1, <1>4, <2>1, ProperSubset
  <2>3. Cardinality(Over(n)) \in Sizes /\ Cardinality(Over(n)) \in Nat /\ k \in Nat
    <3> HIDE DEF Over
    <3> QED BY <1>1, <1>2
  <2>4. k <= Cardinality(Over(n))
    <3> HIDE DEF Over, Sizes
    <3> QED BY <1>3, <2>3
  <2> HIDE DEF Over, Sizes
  <2> QED BY <2>2, <2>3, <2>4
<1> QED BY <1>5

\* Max of a finite set of naturals is one of its members.
LEMMA MaxIsMember ==
  ASSUME NEW S \in SUBSET Nat, IsFiniteSet(S), S # {}
  PROVE  Max(S) \in S /\ \A n \in S : Max(S) >= n
<1> DEFINE Less == {ss \in Nat \X Nat : ss[1] < ss[2]}
<1>1. PICK m \in S : \A n \in S : <<m, n>> \notin Less
  <2>1. \A x, y, z \in S : <<x, y>> \in Less /\ <<y, z>> \in Less => <<x, z>> \in Less
    OBVIOUS
  <2>2. \A x \in S : <<x, x>> \notin Less
    OBVIOUS
  <2> HIDE DEF Less
  <2> QED BY <2>1, <2>2, Topmost
<1>2. \A n \in S : m >= n
  <2> SUFFICES ASSUME NEW n \in S PROVE m >= n
    OBVIOUS
  <2>1. ~ (m < n)
    BY <1>1
  <2> QED BY <2>1
<1> QED BY <1>2 DEF Max

\* The countdown counts the prerequisites that have no stage yet.
Counted ==
  \A t \in Targets : prereq[t] = Cardinality(Predecessors(t) \ Staged)

\* A target that is ready or has a stage waits for nothing, and a target that
\* is neither, nor blocked, waits for something.
ReadyWhenCounted ==
  /\ ready \cap Staged = {}
  /\ \A t \in ready \cup Staged : prereq[t] = 0
  /\ \A t \in Targets : t \in ready \cup Staged \cup blocked \/ prereq[t] > 0

\* What depends on a target that was blocked for anything but its scope's
\* sequence mode is blocked.
DependentsBlocked ==
  \A e \in edges : e[1] \in blocked \ InvalidSequence(forest) => e[2] \in blocked

StagesDisjoint ==
  \A j, k \in DOMAIN stages : j # k => stages[j] \cap stages[k] = {}

\* The inductive invariant, for whatever finite forest is at hand.
PlanInv ==
  /\ IsForest(forest)
  /\ phase \in {"unplanned", "layering", "planned"}
  /\ stages \in Seq(SUBSET Targets)
  /\ phase = "unplanned" => stages = <<>>
  /\ phase # "unplanned" =>
       /\ edges = Edges(forest)
       /\ prereq \in [Targets -> Nat] /\ ready \subseteq Targets /\ blocked \subseteq Targets
       /\ Counted /\ ReadyWhenCounted /\ DependentsBlocked
  /\ phase = "planned" => ready = {}
  /\ StagedAfterPrerequisites /\ EachTargetPlannedOnce /\ StagesDisjoint

-----------------------------------------------------------------------------
(***************************************************************************)
(* The edges.                                                              *)
(***************************************************************************)

LEMMA RunnableFinite ==
  ASSUME NEW f, IsForest(f)
  PROVE  /\ IsFiniteSet(f.runnable) /\ f.runnable \subseteq f.nodes
         /\ f.nodes \subseteq Nat /\ NoNode \notin f.runnable
BY FS_Subset DEF IsForest, NoNode

\* The nearest of some runnable nodes is one of them.
LEMMA NearestIsMember ==
  ASSUME NEW f, IsForest(f), NEW S \in SUBSET f.runnable
  PROVE  Nearest(S) \in f.runnable \cup {NoNode}
<1>1. CASE S = {}
  BY <1>1 DEF Nearest
<1>2. CASE S # {}
  <2>1. S \subseteq Nat /\ IsFiniteSet(S)
    BY RunnableFinite, FS_Subset
  <2>2. Max(S) \in S
    BY <1>2, <2>1, MaxIsMember
  <2> QED BY <1>2, <2>2 DEF Nearest
<1> QED BY <1>1, <1>2

\* A dependency that resolves does so to a runnable test.
LEMMA ResolvedIsRunnable ==
  ASSUME NEW f, IsForest(f), NEW t, NEW id
  PROVE  Resolve(f, t, id) \in f.runnable \cup {NoNode}
<1> DEFINE scopes == {s \in ScopeChain(f, t) : Registered(f, s, id) # {}}
<1>1. CASE scopes = {}
  BY <1>1 DEF Resolve
<1>2. CASE scopes # {}
  <2>1. \A s \in scopes : s \in f.nodes \cup {NoNode}
    BY RunnableFinite DEF Registered, IsForest
  <2>2. IsFiniteSet(f.nodes \cup {NoNode}) /\ f.nodes \cup {NoNode} \subseteq Nat
    BY FS_AddElement DEF IsForest, NoNode
  <2>3. scopes \in SUBSET Nat /\ IsFiniteSet(scopes)
    <3> HIDE DEF scopes
    <3> QED BY <2>1, <2>2, FS_Subset
  <2>4. Max(scopes) \in scopes
    <3> HIDE DEF scopes
    <3> QED BY <1>2, <2>3, MaxIsMember
  <2>5. Registered(f, Max(scopes), id) # {}
    BY <2>4
  <2>6. (CHOOSE u \in Registered(f, Max(scopes), id) : TRUE) \in f.runnable
    BY <2>5 DEF Registered
  <2> QED BY <1>2, <2>6 DEF Resolve
<1> QED BY <1>1, <1>2

\* Whatever adds an edge, it is one between two targets.
LEMMA EdgesBetweenTargets ==
  ASSUME NEW f, IsForest(f)
  PROVE  Edges(f) \subseteq f.runnable \X f.runnable
<1>1. \A e \in AncestorEdges(f) : e[1] # NoNode => e \in f.runnable \X f.runnable
  <2> DEFINE above(t) == Nearest((Lineage(f, t) \ {t}) \cap f.runnable)
  <2>1. \A t \in f.runnable : above(t) \in f.runnable \cup {NoNode}
    BY NearestIsMember
  <2>2. \A e \in AncestorEdges(f) : \E t \in f.runnable : e = <<above(t), t>>
    BY DEF AncestorEdges
  <2> HIDE DEF above
  <2> QED BY <2>1, <2>2
<1>2. \A e \in SequentialEdges(f) : e \in f.runnable \X f.runnable
  BY DEF SequentialEdges
<1>3. \A e \in DependencyEdges(f) : e[1] # NoNode => e \in f.runnable \X f.runnable
  <2> SUFFICES ASSUME NEW t \in f.runnable, NEW d \in Dependencies(f, t)
               PROVE  d \in f.runnable
    BY DEF DependencyEdges
  <2> QED BY ResolvedIsRunnable DEF Dependencies
<1> QED BY <1>1, <1>2, <1>3 DEF Edges

Into(E, t) == {e \in E : e[2] = t}
From(T, E, t) == {a \in T : <<a, t>> \in E}

\* Counting the edges into a target counts its prerequisites.
LEMMA EdgesCountPredecessors ==
  ASSUME NEW T, IsFiniteSet(T), NEW E, E \subseteq T \X T, NEW t
  PROVE  /\ IsFiniteSet(From(T, E, t)) /\ Cardinality(From(T, E, t)) \in Nat
         /\ Cardinality(Into(E, t)) = Cardinality(From(T, E, t))
<1> DEFINE into == {e \in E : e[2] = t}
           from == {a \in T : <<a, t>> \in E}
           pair == [a \in from |-> <<a, t>>]
<1>1. IsFiniteSet(from)
  BY FS_Subset
<1>2. pair \in Bijection(from, into)
  <2>1. pair \in [from -> into]
    OBVIOUS
  <2>2. \A a, b \in from : pair[a] = pair[b] => a = b
    OBVIOUS
  <2>3. \A e \in into : \E a \in from : pair[a] = e
    <3> TAKE e \in into
    <3>1. e \in T \X T /\ e = <<e[1], e[2]>> /\ e[2] = t
      OBVIOUS
    <3>2. e[1] \in from /\ pair[e[1]] = e
      BY <3>1
    <3> QED BY <3>2
  <2> HIDE DEF pair, from, into
  <2>4. DOMAIN pair = from
    BY <2>1
  <2> QED BY <2>1, <2>2, <2>3, <2>4 DEF Bijection, Injection, Surjection, IsInjective
<1>3. ExistsBijection(from, into)
  BY <1>2 DEF ExistsBijection
<1> HIDE DEF pair, from, into
<1>4. Cardinality(into) = Cardinality(from) /\ Cardinality(from) \in Nat
  BY <1>1, <1>3, FS_Bijection, FS_CardinalityType
<1> QED BY <1>1, <1>4 DEF from, into, From, Into

-----------------------------------------------------------------------------
(***************************************************************************)
(* One step at a time.                                                     *)
(***************************************************************************)

\* All that is asked of the stages holds when there is none.
LEMMA NoStages ==
  ASSUME stages = <<>>
  PROVE  /\ Staged = {} /\ StagedAfterPrerequisites /\ StagesDisjoint
         /\ phase # "planned" => EachTargetPlannedOnce
<1>1. DOMAIN stages = {}
  OBVIOUS
<1> QED BY <1>1 DEF Staged, StagedAfterPrerequisites, StagesDisjoint, EachTargetPlannedOnce

LEMMA StagedAreTargets ==
  ASSUME stages \in Seq(SUBSET Targets)
  PROVE  Staged \subseteq Targets /\ \A k \in DOMAIN stages : stages[k] \subseteq Staged
<1>1. \A k \in DOMAIN stages : stages[k] \in SUBSET Targets
  OBVIOUS
<1> QED BY <1>1 DEF Staged

LEMMA BuildInv ==
  ASSUME PlanInv, BuildDependencies
  PROVE  PlanInv'
<1>1. /\ forest' = forest /\ stages' = <<>> /\ phase' = "layering" /\ phase = "unplanned"
      /\ Targets' = Targets /\ stages' \in Seq(SUBSET Targets) /\ IsForest(forest)
  BY DEF PlanInv, BuildDependencies, Targets
<1>2. edges' = Edges(forest) /\ edges' \subseteq Targets \X Targets /\ IsFiniteSet(Targets)
  BY <1>1, EdgesBetweenTargets, RunnableFinite DEF BuildDependencies, Targets
<1> DEFINE from(t) == From(Targets, edges', t)
           into(t) == Into(edges', t)
<1>3. \A t \in Targets : /\ IsFiniteSet(from(t)) /\ Cardinality(from(t)) \in Nat
                         /\ Cardinality(into(t)) = Cardinality(from(t))
  <2> TAKE t \in Targets
  <2>1. edges' \subseteq Targets \X Targets /\ IsFiniteSet(Targets)
    BY <1>2
  <2> QED BY <2>1, EdgesCountPredecessors
<1>4. prereq' = [t \in Targets |-> Cardinality(into(t))]
  BY DEF BuildDependencies, Into
<1>5. /\ prereq' \in [Targets -> Nat]
      /\ \A t \in Targets : prereq'[t] = Cardinality(from(t))
  <2> HIDE DEF from, into
  <2> QED BY <1>3, <1>4
<1>6. /\ blocked' = Downstream(edges', Unresolvable) \cup InvalidSequence(forest)
      /\ ready' = {t \in Targets \ blocked' : prereq'[t] = 0}
      /\ blocked' \subseteq Targets
  BY DEF BuildDependencies, Downstream, InvalidSequence, Targets
<1>7. Staged' = {}
  BY <1>1 DEF Staged
<1>8. Counted'
  BY <1>1, <1>5, <1>7 DEF Counted, Predecessors, From
<1>9. ReadyWhenCounted'
  BY <1>1, <1>5, <1>6, <1>7 DEF ReadyWhenCounted
<1>10. DependentsBlocked'
  <2> SUFFICES ASSUME NEW e \in edges', e[1] \in Downstream(edges', Unresolvable)
               PROVE  e[2] \in Downstream(edges', Unresolvable)
    BY <1>1, <1>6 DEF DependentsBlocked
  <2> SUFFICES ASSUME NEW C \in SUBSET Targets, Unresolvable \subseteq C,
                      \A d \in edges' : d[1] \in C => d[2] \in C
               PROVE  e[2] \in C
    BY <1>2 DEF Downstream
  <2> QED BY DEF Downstream
<1>11. DOMAIN stages' = {}
  BY <1>1
<1>12. StagedAfterPrerequisites' /\ StagesDisjoint' /\ EachTargetPlannedOnce'
  BY <1>1, <1>11 DEF StagedAfterPrerequisites, StagesDisjoint, EachTargetPlannedOnce
<1> QED BY <1>1, <1>2, <1>5, <1>6, <1>8, <1>9, <1>10, <1>12 DEF PlanInv

\* A round stages what is ready: nothing of it has a stage already, and
\* everything it waits for has one.
LEMMA ReadyIsNext ==
  ASSUME PlanInv, phase = "layering"
  PROVE  /\ IsFiniteSet(Targets) /\ ready \subseteq Targets /\ Staged \subseteq Targets
         /\ ready \cap Staged = {}
         /\ \A t \in ready : Predecessors(t) \subseteq Staged
<1>1. IsFiniteSet(Targets)
  BY RunnableFinite DEF PlanInv, Targets
<1>2. Staged \subseteq Targets
  BY StagedAreTargets DEF PlanInv
<1>3. ready \subseteq Targets /\ ready \cap Staged = {}
  BY DEF PlanInv, ReadyWhenCounted
<1>4. ASSUME NEW t \in ready PROVE Predecessors(t) \subseteq Staged
  <2>1. IsFiniteSet(Predecessors(t) \ Staged)
    BY <1>1, FS_Subset DEF Predecessors
  <2>2. Cardinality(Predecessors(t) \ Staged) = 0
    BY <1>3 DEF PlanInv, Counted, ReadyWhenCounted
  <2> QED BY <2>1, <2>2, FS_EmptySet
<1> QED BY <1>1, <1>2, <1>3, <1>4

LEMMA LayerInv ==
  ASSUME PlanInv, LayerStage
  PROVE  PlanInv'
<1>1. /\ forest' = forest /\ phase' = "layering" /\ phase = "layering" /\ IsForest(forest)
      /\ edges' = edges /\ blocked' = blocked /\ Targets' = Targets
      /\ stages \in Seq(SUBSET Targets) /\ ready \subseteq Targets
      /\ edges = Edges(forest) /\ prereq \in [Targets -> Nat] /\ blocked \subseteq Targets
      /\ stages' = Append(stages, ready)
  BY DEF PlanInv, LayerStage, Targets
<1>2. /\ stages' \in Seq(SUBSET Targets) /\ Len(stages) \in Nat
      /\ DOMAIN stages = 1..Len(stages) /\ DOMAIN stages' = 1..(Len(stages) + 1)
      /\ \A k \in 1..Len(stages) : stages'[k] = stages[k]
      /\ stages'[Len(stages) + 1] = ready
  BY <1>1
<1>3. Staged' = Staged \cup ready
  BY <1>2 DEF Staged
<1>4. \A t : Predecessors(t)' = Predecessors(t)
  BY <1>1 DEF Predecessors
<1>5. /\ IsFiniteSet(Targets) /\ Staged \subseteq Targets /\ ready \cap Staged = {}
      /\ \A t \in ready : Predecessors(t) \subseteq Staged
  BY <1>1, ReadyIsNext
<1>6. Counted /\ ReadyWhenCounted /\ DependentsBlocked
  BY <1>1 DEF PlanInv
<1>7. \A t \in Targets :
        /\ prereq'[t] = Cardinality(Predecessors(t) \ Staged')
        /\ prereq'[t] \in Nat /\ prereq'[t] <= prereq[t]
  <2> TAKE t \in Targets
  <2> DEFINE open == Predecessors(t) \ Staged
             now == Predecessors(t) \cap ready
  <2>1. IsFiniteSet(open) /\ IsFiniteSet(now)
    BY <1>5, FS_Subset DEF Predecessors
  <2>2. now \subseteq open
    BY <1>5
  <2>3. prereq'[t] = prereq[t] - Cardinality(now)
    BY <1>1 DEF LayerStage
  <2>4. prereq[t] = Cardinality(open) /\ prereq[t] \in Nat
    BY <1>1, <1>6 DEF Counted
  <2>5. Predecessors(t) \ Staged' = open \ now
    BY <1>3
  <2> HIDE DEF open, now
  <2>6. open \cap now = now
    BY <2>2
  <2>7. Cardinality(open \ now) = Cardinality(open) - Cardinality(now)
    BY <2>1, <2>6, FS_Difference
  <2>8. IsFiniteSet(open \ now) /\ Cardinality(open \ now) \in Nat /\ Cardinality(now) \in Nat
    BY <2>1, FS_Subset, FS_CardinalityType
  <2>9. prereq'[t] = Cardinality(open \ now)
    BY <2>3, <2>4, <2>7
  <2>10. prereq'[t] <= prereq[t]
    BY <2>3, <2>4, <2>8
  <2> QED BY <2>5, <2>8, <2>9, <2>10
<1>8. ready' = {t \in Targets : prereq'[t] = 0 /\ prereq[t] # 0}
  BY DEF LayerStage
<1>9. Counted'
  BY <1>1, <1>4, <1>7 DEF Counted
<1>10. ReadyWhenCounted'
  <2>1. ASSUME NEW t \in Targets PROVE t \in ready' \cup Staged' \cup blocked' \/ prereq'[t] > 0
    <3>1. t \in Staged' \cup blocked' \/ prereq[t] # 0
      BY <1>1, <1>3, <1>6 DEF ReadyWhenCounted
    <3>2. prereq'[t] = 0 => t \in ready' \/ prereq[t] = 0
      BY <1>8
    <3>3. prereq'[t] \in Nat /\ prereq'[t] <= prereq[t] /\ prereq[t] \in Nat
      BY <1>1, <1>7
    <3> QED BY <1>3, <3>1, <3>2, <3>3
  <2>2. ASSUME NEW t \in Staged' PROVE t \notin ready' /\ prereq'[t] = 0
    <3>1. t \in Targets /\ prereq[t] = 0
      BY <1>1, <1>3, <1>5, <1>6 DEF ReadyWhenCounted
    <3>2. prereq'[t] \in Nat /\ prereq'[t] <= prereq[t]
      BY <1>7, <3>1
    <3> QED BY <1>8, <3>1, <3>2
  <2>3. \A t \in ready' : prereq'[t] = 0
    BY <1>8
  <2> QED BY <1>1, <2>1, <2>2, <2>3 DEF ReadyWhenCounted
<1>11. DependentsBlocked'
  BY <1>1, <1>6 DEF DependentsBlocked
<1>12. prereq' \in [Targets -> Nat] /\ ready' \subseteq Targets
  <2>1. prereq' = [t \in Targets |-> prereq'[t]]
    BY DEF LayerStage
  <2> QED BY <1>7, <1>8, <2>1
<1>13. StagesDisjoint'
  <2> SUFFICES ASSUME NEW j \in 1..(Len(stages) + 1), NEW k \in 1..(Len(stages) + 1), j # k
               PROVE  stages'[j] \cap stages'[k] = {}
    BY <1>2 DEF StagesDisjoint
  <2>1. \A i \in 1..Len(stages) : stages[i] \cap ready = {}
    BY <1>1, <1>2, <1>5, StagedAreTargets
  <2>2. CASE j \in 1..Len(stages) /\ k \in 1..Len(stages)
    BY <1>2, <2>2 DEF PlanInv, StagesDisjoint
  <2>3. CASE j = Len(stages) + 1
    <3>1. k \in 1..Len(stages)
      BY <1>2, <2>3
    <3> QED BY <1>2, <2>1, <2>3, <3>1
  <2>4. CASE k = Len(stages) + 1
    <3>1. j \in 1..Len(stages)
      BY <1>2, <2>4
    <3> QED BY <1>2, <2>1, <2>4, <3>1
  <2> QED BY <1>2, <2>2, <2>3, <2>4
<1>14. StagedAfterPrerequisites'
  <2> SUFFICES ASSUME NEW k \in 1..(Len(stages) + 1), NEW t \in stages'[k],
                      NEW a \in Predecessors(t)
               PROVE  \E j \in 1..(k - 1) : a \in stages'[j]
    BY <1>2, <1>4 DEF StagedAfterPrerequisites
  <2>1. CASE k \in 1..Len(stages)
    <3>1. PICK j \in 1..(k - 1) : a \in stages[j]
      BY <1>2, <2>1 DEF PlanInv, StagedAfterPrerequisites
    <3>2. j \in 1..Len(stages)
      BY <1>2, <2>1
    <3> QED BY <1>2, <3>1, <3>2
  <2>2. CASE k = Len(stages) + 1
    <3>1. a \in Staged
      BY <1>2, <1>5, <2>2
    <3>2. PICK j \in 1..Len(stages) : a \in stages[j]
      BY <1>2, <3>1 DEF Staged
    <3> QED BY <1>2, <2>2, <3>2
  <2> QED BY <1>2, <2>1, <2>2
<1>15. EachTargetPlannedOnce'
  BY <1>1, <1>13 DEF EachTargetPlannedOnce, StagesDisjoint
<1> QED
  BY <1>1, <1>2, <1>9, <1>10, <1>11, <1>12, <1>13, <1>14, <1>15 DEF PlanInv

LEMMA FinishInv ==
  ASSUME PlanInv, FinishPlan
  PROVE  PlanInv'
<1> DEFINE cycle == {t \in Targets \ blocked : prereq[t] > 0}
<1>1. /\ forest' = forest /\ phase' = "planned" /\ phase = "layering" /\ ready = {}
      /\ edges' = edges /\ prereq' = prereq /\ ready' = ready /\ stages' = stages
      /\ Targets' = Targets /\ Staged' = Staged /\ blocked' = blocked \cup cycle
  BY DEF FinishPlan, Targets, Staged
<1>2. \A t : Predecessors(t)' = Predecessors(t)
  BY <1>1 DEF Predecessors
<1>3. /\ Counted /\ ReadyWhenCounted /\ DependentsBlocked
      /\ edges = Edges(forest) /\ IsForest(forest)
      /\ blocked \subseteq Targets /\ prereq \in [Targets -> Nat]
      /\ stages \in Seq(SUBSET Targets)
  BY <1>1 DEF PlanInv
<1>4. Counted' /\ ReadyWhenCounted'
  BY <1>1, <1>2, <1>3 DEF Counted, ReadyWhenCounted
<1>5. DependentsBlocked'
  <2> SUFFICES ASSUME NEW e \in edges, e[1] \in cycle, e[2] \notin blocked
               PROVE  e[2] \in cycle
    BY <1>1, <1>3 DEF DependentsBlocked
  <2>1. e[1] \in Targets /\ e[2] \in Targets /\ e = <<e[1], e[2]>>
    BY <1>3, EdgesBetweenTargets DEF Targets
  <2>2. e[1] \in Predecessors(e[2]) \ Staged
    BY <1>3, <2>1 DEF Predecessors, ReadyWhenCounted
  <2>3. IsFiniteSet(Predecessors(e[2]) \ Staged)
    BY <1>3, RunnableFinite, FS_Subset DEF Predecessors, Targets
  <2>4. Cardinality(Predecessors(e[2]) \ Staged) # 0
    BY <2>2, <2>3, FS_EmptySet
  <2>5. prereq[e[2]] # 0 /\ prereq[e[2]] \in Nat
    BY <1>3, <2>1, <2>4 DEF Counted
  <2> QED BY <2>1, <2>5
<1>6. Targets = Staged \cup blocked'
  <2>1. Staged \subseteq Targets
    BY <1>3, StagedAreTargets
  <2>2. \A t \in Targets : t \in Staged \cup blocked \cup cycle
    BY <1>1, <1>3 DEF ReadyWhenCounted
  <2> QED BY <1>1, <1>3, <2>1, <2>2
<1>7. StagedAfterPrerequisites' /\ StagesDisjoint' /\ EachTargetPlannedOnce'
  BY <1>1, <1>2, <1>6 DEF PlanInv, StagedAfterPrerequisites, StagesDisjoint, EachTargetPlannedOnce
<1>8. blocked' \subseteq Targets
  BY <1>1, <1>3
<1> QED BY <1>1, <1>3, <1>4, <1>5, <1>7, <1>8 DEF PlanInv

-----------------------------------------------------------------------------

\* The invariant is inductive.
LEMMA StepInv ==
  ASSUME PlanInv, [Next]_vars
  PROVE  PlanInv'
<1>1. CASE UNCHANGED vars
  BY <1>1 DEF PlanInv, vars, Targets, Staged, Predecessors, Counted, ReadyWhenCounted,
     DependentsBlocked, StagedAfterPrerequisites, EachTargetPlannedOnce, StagesDisjoint
<1> QED BY <1>1, BuildInv, LayerInv, FinishInv DEF Next

LEMMA InitInv ==
  ASSUME Init
  PROVE  PlanInv
<1>1. IsForest(forest) /\ stages = <<>> /\ phase = "unplanned" /\ ready = {}
  BY ForestsAssumption DEF Init
<1>2. stages \in Seq(SUBSET Targets)
  BY <1>1
<1> QED BY <1>1, <1>2, NoStages DEF PlanInv

THEOREM Invariance == Spec => []PlanInv
<1>1. Init => PlanInv
  BY InitInv
<1>2. PlanInv /\ [Next]_vars => PlanInv'
  BY StepInv
<1> QED BY <1>1, <1>2, PTL DEF Spec

\* However the edges came about and in whatever order the countdown reaches a
\* target, it is staged behind all of its prerequisites.
THEOREM PrerequisitesFirst == Spec => []StagedAfterPrerequisites
<1>1. PlanInv => StagedAfterPrerequisites
  BY DEF PlanInv
<1> QED BY <1>1, Invariance, PTL

\* No runnable test is lost or repeated.
THEOREM NothingLost == Spec => []EachTargetPlannedOnce
<1>1. PlanInv => EachTargetPlannedOnce
  BY DEF PlanInv
<1> QED BY <1>1, Invariance, PTL

-----------------------------------------------------------------------------
(***************************************************************************)
(* Sequential scopes.                                                      *)
(***************************************************************************)

\* The order of declarations is a strict total order of the nodes.
LEMMA BeforeIsOrder ==
  ASSUME NEW f, IsForest(f)
  PROVE  /\ \A a \in f.nodes : ~ Before(f, a, a)
         /\ \A a, b, c \in f.nodes : Before(f, a, b) /\ Before(f, b, c) => Before(f, a, c)
         /\ \A a, b \in f.nodes : a = b \/ Before(f, a, b) \/ Before(f, b, a)
<1>1. \A a \in f.nodes : f.order[a] \in Nat /\ a \in Nat
  BY DEF IsForest
<1> QED BY <1>1 DEF Before

\* Every member of a sequential scope but the first has its immediate
\* predecessor in the scope as a prerequisite.
LEMMA ChainedToPredecessor ==
  ASSUME NEW f, IsForest(f), NEW s \in f.nodes, f.sequence[s] = "sequential",
         NEW a \in f.runnable, NEW b \in f.runnable,
         InScope(f, a, s), InScope(f, b, s), Before(f, a, b)
  PROVE  \E c \in f.runnable : /\ <<c, b>> \in Edges(f) /\ InScope(f, c, s) /\ Before(f, c, b)
                               /\ a = c \/ Before(f, a, c)
<1> DEFINE members == {t \in f.runnable : InScope(f, t, s)}
           under == {c \in members : Before(f, c, b)}
           R == {e \in members \X members : Before(f, e[1], e[2])}
<1>1. /\ IsFiniteSet(under) /\ a \in under /\ under \subseteq f.nodes /\ members \subseteq f.nodes
      /\ a \in members /\ b \in members
  BY RunnableFinite, FS_Subset
<1>2. PICK c \in under : \A d \in under : <<c, d>> \notin R
  <2>1. \A x, y, z \in under : <<x, y>> \in R /\ <<y, z>> \in R => <<x, z>> \in R
    BY <1>1, BeforeIsOrder
  <2>2. \A x \in under : <<x, x>> \notin R
    BY <1>1, BeforeIsOrder
  <2> HIDE DEF R, under
  <2> QED BY <1>1, <2>1, <2>2, Topmost
<1>3. \A d \in members : ~ (Before(f, c, d) /\ Before(f, d, b))
  BY <1>2
<1>4. c \in members /\ Before(f, c, b) /\ c \in f.runnable /\ c # b /\ c # NoNode
  BY <1>1, BeforeIsOrder, RunnableFinite
<1>5. <<c, b>> \in SequentialEdges(f)
  <2>1. <<c, b>> \in {e \in members \X members :
                        /\ Before(f, e[1], e[2])
                        /\ ~ \E d \in members : Before(f, e[1], d) /\ Before(f, d, e[2])}
    BY <1>1, <1>3, <1>4
  <2> QED BY <2>1 DEF SequentialEdges
<1>6. <<c, b>> \in Edges(f)
  BY <1>4, <1>5 DEF Edges
<1>7. a = c \/ Before(f, a, c)
  <2>1. ~ Before(f, c, a)
    BY <1>1, <1>2, <1>4
  <2> QED BY <1>1, <1>4, <2>1, BeforeIsOrder
<1> QED BY <1>4, <1>6, <1>7

LEMMA ScopesSerial ==
  ASSUME PlanInv
  PROVE  SequentialScopesAreSerial
<1> SUFFICES ASSUME NEW s \in forest.nodes, forest.sequence[s] = "sequential"
             PROVE  \A j, k \in DOMAIN stages : \A a \in stages[j] : \A b \in stages[k] :
                      InScope(forest, a, s) /\ InScope(forest, b, s) /\ Before(forest, a, b)
                        => j < k
  BY DEF SequentialScopesAreSerial
<1> DEFINE Late(k) == \E j \in DOMAIN stages : \E a \in stages[j] : \E b \in stages[k] :
                        /\ InScope(forest, a, s) /\ InScope(forest, b, s) /\ Before(forest, a, b)
                        /\ ~ (j < k)
           Lates == {k \in DOMAIN stages : Late(k)}
<1>1. SUFFICES ASSUME Lates # {} PROVE FALSE
  OBVIOUS
<1>2. /\ stages \in Seq(SUBSET Targets) /\ DOMAIN stages \subseteq Nat
      /\ \A k \in DOMAIN stages : stages[k] \subseteq Targets
      /\ IsForest(forest) /\ phase # "unplanned" /\ edges = Edges(forest)
  <2>1. stages # <<>>
    BY <1>1
  <2> QED BY <2>1 DEF PlanInv
<1>3. PICK k \in Lates : \A n \in Lates : k <= n
  <2>1. Lates \in SUBSET Nat /\ Lates # {}
    BY <1>1, <1>2
  <2> HIDE DEF Lates, Late
  <2>2. \E k \in Lates : \A n \in Lates : k <= n
    BY <2>1, LeastNatural
  <2> QED BY <2>2
<1>4. PICK j \in DOMAIN stages : \E a \in stages[j] : \E b \in stages[k] :
        /\ InScope(forest, a, s) /\ InScope(forest, b, s) /\ Before(forest, a, b)
        /\ ~ (j < k)
  BY <1>3
<1>5. PICK a \in stages[j] : \E b \in stages[k] :
        /\ InScope(forest, a, s) /\ InScope(forest, b, s) /\ Before(forest, a, b)
        /\ ~ (j < k)
  BY <1>4
<1>6. PICK b \in stages[k] :
        /\ InScope(forest, a, s) /\ InScope(forest, b, s) /\ Before(forest, a, b)
        /\ ~ (j < k)
  BY <1>5
<1>7. k \in DOMAIN stages /\ a \in Targets /\ b \in Targets
  BY <1>2, <1>3, <1>6
<1>8. PICK c \in Targets : /\ <<c, b>> \in edges /\ InScope(forest, c, s) /\ Before(forest, c, b)
                           /\ a = c \/ Before(forest, a, c)
  BY <1>2, <1>6, <1>7, ChainedToPredecessor DEF Targets
<1>9. PICK i \in 1..(k - 1) : c \in stages[i]
  BY <1>7, <1>8 DEF PlanInv, StagedAfterPrerequisites, Predecessors
<1>10. i \in DOMAIN stages /\ i < k /\ ~ (j < i) /\ i # j
  BY <1>2, <1>6, <1>7, <1>9
<1>11. CASE a = c
  BY <1>6, <1>9, <1>10, <1>11 DEF PlanInv, StagesDisjoint
<1>12. CASE Before(forest, a, c)
  <2>1. Late(i)
    BY <1>6, <1>8, <1>9, <1>10, <1>12
  <2>2. i \in Lates
    BY <1>10, <2>1
  <2> HIDE DEF Lates
  <2>3. k <= i
    BY <1>3, <2>2
  <2> QED BY <1>2, <1>7, <1>10, <2>3
<1> QED BY <1>8, <1>11, <1>12

\* Whatever order the host derives from the declarations, nested scopes and
\* enclosing tests included, the members of a sequential scope have stages in
\* that order.
THEOREM SequencesAreSerial == Spec => []SequentialScopesAreSerial
<1> QED BY Invariance, ScopesSerial, PTL

-----------------------------------------------------------------------------
(***************************************************************************)
(* What the executor gets.                                                 *)
(***************************************************************************)

\* A node's position in declaration order is its own.
LEMMA RankIsOwn ==
  ASSUME NEW f, IsForest(f), NEW t \in f.runnable, NEW u \in f.runnable,
         Before(f, t, u)
  PROVE  /\ Cardinality({r \in f.runnable : Before(f, r, t)}) \in Nat
         /\ Cardinality({r \in f.runnable : Before(f, r, u)}) \in Nat
         /\ Cardinality({r \in f.runnable : Before(f, r, t)})
              < Cardinality({r \in f.runnable : Before(f, r, u)})
<1> DEFINE below(n) == {r \in f.runnable : Before(f, r, n)}
<1>1. IsFiniteSet(below(u)) /\ f.runnable \subseteq f.nodes
  BY RunnableFinite, FS_Subset
<1>2. below(t) \in SUBSET below(u) /\ t \in below(u) /\ t \notin below(t)
  BY <1>1, BeforeIsOrder
<1> HIDE DEF below
<1>3. below(t) # below(u)
  BY <1>2
<1>4. /\ Cardinality(below(t)) \in Nat /\ Cardinality(below(u)) \in Nat
      /\ Cardinality(below(t)) < Cardinality(below(u))
  BY <1>1, <1>2, <1>3, ProperSubset
<1> QED BY <1>4 DEF below

LEMMA PlannedIsWellFormed ==
  ASSUME PlanInv
  PROVE  PlanIsWellFormed
<1> SUFFICES ASSUME phase = "planned" PROVE WellFormedPlan(PlannedTargets)
  BY DEF PlanIsWellFormed
<1> DEFINE p == PlannedTargets
<1>1. /\ p.targets = Targets /\ p.edges = edges /\ p.stages = stages /\ p.blocked = blocked
      /\ p.invalid = InvalidSequence(forest) /\ p.expectFailure \subseteq Targets
      /\ p.rank = [t \in Targets |-> Cardinality({u \in Targets : Before(forest, u, t)})]
  BY DEF PlannedTargets
<1>2. /\ IsForest(forest) /\ stages \in Seq(SUBSET Targets) /\ blocked \subseteq Targets
      /\ edges = Edges(forest) /\ Targets = forest.runnable
  BY DEF PlanInv, Targets
<1>3. edges \subseteq Targets \X Targets
  BY <1>2, EdgesBetweenTargets
<1>4. p.rank \in [Targets -> Nat]
  <2>1. \A t \in Targets : Cardinality({u \in Targets : Before(forest, u, t)}) \in Nat
    BY <1>2, RunnableFinite, FS_Subset, FS_CardinalityType
  <2> QED BY <1>1, <2>1
<1>5. ASSUME NEW t \in Targets, NEW u \in Targets, p.rank[t] = p.rank[u]
      PROVE  t = u
  <2>1. Cardinality({r \in Targets : Before(forest, r, t)})
          = Cardinality({r \in Targets : Before(forest, r, u)})
    BY <1>1, <1>5
  <2>2. ~ Before(forest, t, u)
    <3> SUFFICES ASSUME Before(forest, t, u) PROVE FALSE
      OBVIOUS
    <3>1. /\ Cardinality({r \in Targets : Before(forest, r, t)}) \in Nat
          /\ Cardinality({r \in Targets : Before(forest, r, t)})
               < Cardinality({r \in Targets : Before(forest, r, u)})
      BY <1>2, RankIsOwn
    <3> QED BY <2>1, <3>1
  <2>3. ~ Before(forest, u, t)
    <3> SUFFICES ASSUME Before(forest, u, t) PROVE FALSE
      OBVIOUS
    <3>1. /\ Cardinality({r \in Targets : Before(forest, r, u)}) \in Nat
          /\ Cardinality({r \in Targets : Before(forest, r, u)})
               < Cardinality({r \in Targets : Before(forest, r, t)})
      BY <1>2, RankIsOwn
    <3> QED BY <2>1, <3>1
  <2>4. t \in forest.nodes /\ u \in forest.nodes
    BY <1>2, RunnableFinite
  <2> QED BY <1>2, <2>2, <2>3, <2>4, BeforeIsOrder
<1>6. \A t \in Targets : IsStaged(p, t) \/ t \in blocked
  <2>1. Targets = Staged \cup blocked
    BY DEF PlanInv, EachTargetPlannedOnce
  <2> QED BY <1>1, <2>1 DEF IsStaged, Staged
<1>7. \A j, k \in DOMAIN stages : j # k => stages[j] \cap stages[k] = {}
  BY DEF PlanInv, EachTargetPlannedOnce
<1>8. \A k \in DOMAIN stages : \A t \in stages[k] : \A a \in Targets :
        <<a, t>> \in edges => \E j \in 1..(k - 1) : a \in stages[j]
  BY DEF PlanInv, StagedAfterPrerequisites, Predecessors
<1>9. \A e \in edges : e[1] \in blocked \ InvalidSequence(forest) => e[2] \in blocked
  BY DEF PlanInv, DependentsBlocked
<1> HIDE DEF p
<1>10. WellFormedPlan(p)
  <2>1. /\ IsFiniteSet(p.targets)
        /\ p.edges \subseteq p.targets \X p.targets
        /\ p.rank \in [p.targets -> Nat]
        /\ \A t, u \in p.targets : p.rank[t] = p.rank[u] => t = u
    BY <1>1, <1>2, <1>3, <1>4, <1>5, RunnableFinite
  <2>2. /\ p.stages \in Seq(SUBSET p.targets)
        /\ p.blocked \subseteq p.targets
        /\ p.expectFailure \subseteq p.targets
        /\ \A t \in p.targets : IsStaged(p, t) \/ t \in p.blocked
    BY <1>1, <1>2, <1>6
  <2>3. \A j, k \in DOMAIN p.stages : j # k => p.stages[j] \cap p.stages[k] = {}
    BY <1>1, <1>7
  <2>4. \A k \in DOMAIN p.stages : \A t \in p.stages[k] : \A a \in p.targets :
          <<a, t>> \in p.edges => \E j \in 1..(k - 1) : a \in p.stages[j]
    BY <1>1, <1>8
  <2>5. \A e \in p.edges : e[1] \in p.blocked \ p.invalid => e[2] \in p.blocked
    BY <1>1, <1>9
  <2> QED BY <2>1, <2>2, <2>3, <2>4, <2>5 DEF WellFormedPlan
<1> QED BY <1>10 DEF p

\* Every plan is one the executor is specified for, whatever the forest: this
\* is what PlansAssumption of PlanExecution takes for granted.
THEOREM PlansAreWellFormed == Spec => []PlanIsWellFormed
<1> QED BY Invariance, PlannedIsWellFormed, PTL

-----------------------------------------------------------------------------
(***************************************************************************)
(* Which targets are staged.                                               *)
(***************************************************************************)

\* The first stage takes the targets without prerequisites, save those that
\* were blocked by then; of the others, blocked or not, everything whose
\* prerequisites are all staged is ready.
CountdownReaches ==
  /\ \A t \in Targets : Predecessors(t) = {} =>
       (t \in ready \cup Staged
          <=> t \notin Downstream(edges, Unresolvable) \cup InvalidSequence(forest))
  /\ \A t \in Targets : Predecessors(t) # {} /\ prereq[t] = 0 => t \in ready \cup Staged

CountdownInv == PlanInv /\ (phase # "unplanned" => CountdownReaches)

\* A target that waits for nothing counts no prerequisites.
LEMMA SourcesCountNothing ==
  ASSUME PlanInv, phase # "unplanned", NEW t \in Targets, Predecessors(t) = {}
  PROVE  prereq[t] = 0
<1>1. prereq[t] = Cardinality({})
  BY DEF PlanInv, Counted
<1> QED BY <1>1, FS_EmptySet

LEMMA BuildReaches ==
  ASSUME PlanInv, BuildDependencies
  PROVE  CountdownReaches'
<1>1. PlanInv' /\ phase' # "unplanned"
  BY BuildInv DEF BuildDependencies
<1>2. /\ Targets' = Targets /\ forest' = forest /\ Staged' = {} /\ Unresolvable' = Unresolvable
      /\ blocked' = Downstream(edges', Unresolvable) \cup InvalidSequence(forest)
      /\ ready' = {t \in Targets \ blocked' : prereq'[t] = 0}
  BY DEF PlanInv, BuildDependencies, Targets, Staged, Unresolvable
<1>3. Downstream(edges, Unresolvable)' = Downstream(edges', Unresolvable)
  BY <1>2 DEF Downstream
<1>4. \A t \in Targets : prereq'[t] = Cardinality(Predecessors(t)')
  BY <1>1, <1>2 DEF PlanInv, Counted
<1>5. \A t \in Targets : Predecessors(t)' = {} => prereq'[t] = 0
  BY <1>4, FS_EmptySet
<1>6. \A t \in Targets : IsFiniteSet(Predecessors(t)')
  <2>1. IsFiniteSet(Targets)
    BY RunnableFinite DEF PlanInv, Targets
  <2> QED BY <1>2, <2>1, FS_Subset DEF Predecessors
<1>7. \A t \in Targets : Predecessors(t)' # {} => prereq'[t] # 0
  BY <1>4, <1>6, FS_EmptySet
<1> QED BY <1>2, <1>3, <1>5, <1>7 DEF CountdownReaches

LEMMA LayerReaches ==
  ASSUME PlanInv, CountdownReaches, LayerStage
  PROVE  CountdownReaches'
<1>1. /\ forest' = forest /\ edges' = edges /\ Targets' = Targets /\ phase = "layering"
      /\ ready' = {t \in Targets : prereq'[t] = 0 /\ prereq[t] # 0}
      /\ Unresolvable' = Unresolvable
  BY DEF LayerStage, Targets, Unresolvable
<1>2. Staged' = Staged \cup ready
  <2>1. stages \in Seq(SUBSET Targets) /\ stages' = Append(stages, ready)
    BY DEF PlanInv, LayerStage
  <2>2. /\ DOMAIN stages = 1..Len(stages) /\ DOMAIN stages' = 1..(Len(stages) + 1)
        /\ \A k \in 1..Len(stages) : stages'[k] = stages[k]
        /\ stages'[Len(stages) + 1] = ready /\ Len(stages) \in Nat
    BY <2>1
  <2> QED BY <2>2 DEF Staged
<1>3. \A t : Predecessors(t)' = Predecessors(t)
  BY <1>1 DEF Predecessors
<1>4. Downstream(edges, Unresolvable)' = Downstream(edges, Unresolvable)
  BY <1>1 DEF Downstream
<1>5. \A t \in Targets : Predecessors(t) = {} => prereq[t] = 0
  BY <1>1, SourcesCountNothing
<1>6. ASSUME NEW t \in Targets, Predecessors(t) = {}
      PROVE  t \in ready' \cup Staged'
               <=> t \notin Downstream(edges, Unresolvable) \cup InvalidSequence(forest)
  <2>1. t \in ready' \cup Staged' <=> t \in ready \cup Staged
    BY <1>1, <1>2, <1>5, <1>6
  <2> QED BY <1>6, <2>1 DEF CountdownReaches
<1>7. ASSUME NEW t \in Targets, Predecessors(t) # {}, prereq'[t] = 0
      PROVE  t \in ready' \cup Staged'
  BY <1>1, <1>2, <1>7 DEF CountdownReaches
<1> QED BY <1>1, <1>3, <1>4, <1>6, <1>7 DEF CountdownReaches

LEMMA CountdownStep ==
  ASSUME CountdownInv, [Next]_vars
  PROVE  CountdownInv'
<1>1. PlanInv /\ PlanInv'
  BY StepInv DEF CountdownInv
<1>2. CASE BuildDependencies
  BY <1>1, <1>2, BuildReaches DEF CountdownInv
<1>3. CASE LayerStage
  BY <1>1, <1>3, LayerReaches DEF CountdownInv, LayerStage
<1>4. CASE FinishPlan \/ UNCHANGED vars
  <2>1. /\ Targets' = Targets /\ forest' = forest /\ edges' = edges /\ prereq' = prereq
        /\ ready' = ready /\ Staged' = Staged /\ Unresolvable' = Unresolvable
        /\ phase' # "unplanned" => phase # "unplanned"
    BY <1>4 DEF FinishPlan, vars, Targets, Staged, Unresolvable
  <2>2. \A t : Predecessors(t)' = Predecessors(t)
    BY <2>1 DEF Predecessors
  <2>3. Downstream(edges, Unresolvable)' = Downstream(edges, Unresolvable)
    BY <2>1 DEF Downstream
  <2>4. CountdownReaches => CountdownReaches'
    BY <2>1, <2>2, <2>3 DEF CountdownReaches
  <2> QED BY <1>1, <2>1, <2>4 DEF CountdownInv
<1> QED BY <1>2, <1>3, <1>4 DEF Next

\* What is above a target: everything it waits for, and what that waits for.
LEMMA AboveIsClosed ==
  ASSUME NEW t \in Targets
  PROVE  /\ Above(t) \subseteq Targets
         /\ Predecessors(t) \subseteq Above(t)
         /\ \A x \in Above(t) : Predecessors(x) \subseteq Above(t) /\ Above(x) \subseteq Above(t)
<1>1. \A x : Predecessors(x) \subseteq Targets
  BY DEF Predecessors
<1>2. Above(t) \in SUBSET Targets /\ Predecessors(t) \subseteq Above(t)
  BY <1>1 DEF Above
<1>3. \A x \in Above(t) : Predecessors(x) \subseteq Above(t)
  <2> SUFFICES ASSUME NEW x \in Above(t), NEW a \in Predecessors(x), NEW C \in SUBSET Targets,
                      Predecessors(t) \subseteq C, \A c \in C : Predecessors(c) \subseteq C
               PROVE  a \in C
    BY <1>1 DEF Above
  <2>1. x \in C
    BY DEF Above
  <2> QED BY <2>1
<1>4. \A x \in Above(t) : Above(x) \subseteq Above(t)
  <2> TAKE x \in Above(t)
  <2>1. \A C \in SUBSET Targets :
          Predecessors(x) \subseteq C /\ (\A c \in C : Predecessors(c) \subseteq C)
            => Above(x) \subseteq C
    BY DEF Above
  <2> QED BY <1>2, <1>3, <2>1
<1> QED BY <1>2, <1>3, <1>4

\* A set that holds what t waits for, and what its members wait for, holds all
\* there is above t.
LEMMA AboveIsLeast ==
  ASSUME NEW t, NEW C \in SUBSET Targets, Predecessors(t) \subseteq C,
         \A c \in C : Predecessors(c) \subseteq C
  PROVE  Above(t) \subseteq C
BY DEF Above

\* All there is above a staged target is staged, and earlier.
LEMMA StagedAboveEarlier ==
  ASSUME PlanInv, NEW k \in DOMAIN stages, NEW t \in stages[k]
  PROVE  t \notin Above(t) /\ Above(t) \subseteq Staged
<1>1. /\ stages \in Seq(SUBSET Targets) /\ DOMAIN stages = 1..Len(stages) /\ Len(stages) \in Nat
      /\ k \in 1..Len(stages)
      /\ \A j \in DOMAIN stages : stages[j] \subseteq Staged /\ stages[j] \subseteq Targets
  BY StagedAreTargets DEF PlanInv
<1> DEFINE Earlier == UNION {stages[j] : j \in 1..(k - 1)}
<1>2. \A j \in 1..(k - 1) : j \in DOMAIN stages /\ j # k
  BY <1>1
<1>3. Earlier \in SUBSET Targets /\ Earlier \subseteq Staged
  BY <1>1, <1>2
<1>4. Predecessors(t) \subseteq Earlier
  BY DEF PlanInv, StagedAfterPrerequisites
<1>5. \A c \in Earlier : Predecessors(c) \subseteq Earlier
  <2> SUFFICES ASSUME NEW j \in 1..(k - 1), NEW c \in stages[j], NEW a \in Predecessors(c)
               PROVE  a \in Earlier
    OBVIOUS
  <2>1. PICK i \in 1..(j - 1) : a \in stages[i]
    BY <1>2 DEF PlanInv, StagedAfterPrerequisites
  <2>2. i \in 1..(k - 1)
    BY <1>1
  <2> QED BY <2>1, <2>2
<1>6. t \notin Earlier
  <2> SUFFICES ASSUME NEW j \in 1..(k - 1), t \in stages[j] PROVE FALSE
    OBVIOUS
  <2>1. stages[j] \cap stages[k] = {}
    BY <1>2 DEF PlanInv, StagesDisjoint
  <2> QED BY <2>1
<1> HIDE DEF Earlier
<1>7. Above(t) \subseteq Earlier
  BY <1>3, <1>4, <1>5, AboveIsLeast
<1> QED BY <1>3, <1>6, <1>7

\* Nothing is above a target that waits for nothing.
LEMMA NothingAboveSources ==
  ASSUME NEW t, Predecessors(t) = {}
  PROVE  Above(t) = {}
<1> DEFINE none == {}
<1>1. none \in SUBSET Targets /\ Predecessors(t) \subseteq none /\ \A c \in none : Predecessors(c) \subseteq none
  OBVIOUS
<1> HIDE DEF none
<1>2. Above(t) \subseteq none
  BY <1>1, AboveIsLeast
<1> QED BY <1>2 DEF none

\* A target blocked by nothing it waits for is blocked by nothing.
LEMMA SourceNotDownstream ==
  ASSUME NEW t \in Targets, Predecessors(t) = {}, t \notin Unresolvable,
         edges \subseteq Targets \X Targets
  PROVE  t \notin Downstream(edges, Unresolvable)
<1> DEFINE C == Targets \ {t}
<1>1. C \in SUBSET Targets /\ Unresolvable \subseteq C
  BY DEF Unresolvable
<1>2. ASSUME NEW e \in edges, e[1] \in C PROVE e[2] \in C
  <2>1. e[1] \in Targets /\ e[2] \in Targets /\ e = <<e[1], e[2]>>
    OBVIOUS
  <2>2. e[2] # t
    BY <2>1 DEF Predecessors
  <2> QED BY <2>1, <2>2
<1>3. t \notin C
  OBVIOUS
<1> HIDE DEF C
<1> QED BY <1>1, <1>2, <1>3 DEF Downstream

LEMMA StagedIsReachable ==
  ASSUME CountdownInv, phase # "unplanned", NEW t \in Staged
  PROVE  Reachable(t)
<1>1. PlanInv /\ CountdownReaches /\ Staged \subseteq Targets
  BY StagedAreTargets DEF CountdownInv, PlanInv
<1>2. \A u \in Staged : u \notin Above(u) /\ Above(u) \subseteq Staged
  <2> SUFFICES ASSUME NEW k \in DOMAIN stages, NEW u \in stages[k]
               PROVE  u \notin Above(u) /\ Above(u) \subseteq Staged
    BY DEF Staged
  <2> QED BY <1>1, StagedAboveEarlier
<1> SUFFICES ASSUME NEW a \in AtOrAbove(t)
             PROVE  /\ ~ OnCycle(a)
                    /\ Predecessors(a) = {} =>
                         /\ Unresolvable \cap AtOrAbove(a) = {}
                         /\ a \notin InvalidSequence(forest)
  BY DEF Reachable
<1>3. a \in Staged /\ a \in Targets
  BY <1>1, <1>2 DEF AtOrAbove
<1>4. ASSUME Predecessors(a) = {}
      PROVE  Unresolvable \cap AtOrAbove(a) = {} /\ a \notin InvalidSequence(forest)
  <2>1. AtOrAbove(a) = {a}
    BY <1>4, NothingAboveSources DEF AtOrAbove
  <2>2. a \notin Downstream(edges, Unresolvable) \cup InvalidSequence(forest)
    BY <1>1, <1>3, <1>4 DEF CountdownReaches
  <2>3. Unresolvable \subseteq Downstream(edges, Unresolvable)
    BY DEF Downstream, Unresolvable
  <2> QED BY <2>1, <2>2, <2>3
<1> QED BY <1>2, <1>3, <1>4 DEF OnCycle

\* Of the targets at or above a reachable one that have no stage, a topmost one
\* would have all it waits for staged.
LEMMA ReachableIsStaged ==
  ASSUME CountdownInv, phase = "planned", NEW t \in Targets, Reachable(t)
  PROVE  t \in Staged
<1> SUFFICES ASSUME t \notin Staged PROVE FALSE
  OBVIOUS
<1>1. /\ PlanInv /\ CountdownReaches /\ ready = {}
      /\ IsFiniteSet(Targets) /\ edges \subseteq Targets \X Targets
  <2>1. PlanInv /\ CountdownReaches
    BY DEF CountdownInv
  <2> QED BY <2>1, RunnableFinite, EdgesBetweenTargets DEF PlanInv, Targets
<1> DEFINE U == AtOrAbove(t) \ Staged
           R == {p \in U \X U : p[2] \in Above(p[1])}
<1>2. AtOrAbove(t) \subseteq Targets
  BY AboveIsClosed DEF AtOrAbove
<1>3. IsFiniteSet(U) /\ U # {} /\ U \subseteq Targets
  BY <1>1, <1>2, FS_Subset DEF AtOrAbove
<1>4. \A x, y, z \in U : <<x, y>> \in R /\ <<y, z>> \in R => <<x, z>> \in R
  <2> SUFFICES ASSUME NEW x \in U, NEW y \in U, NEW z \in U, y \in Above(x), z \in Above(y)
               PROVE  z \in Above(x)
    OBVIOUS
  <2>1. x \in Targets
    BY <1>3
  <2> QED BY <2>1, AboveIsClosed
<1>5. \A x \in U : <<x, x>> \notin R
  BY DEF Reachable, OnCycle
<1>6. PICK m \in U : \A n \in U : <<m, n>> \notin R
  <2> HIDE DEF U, R
  <2> QED BY <1>3, <1>4, <1>5, Topmost
<1>7. m \in Targets /\ m \in AtOrAbove(t) /\ m \notin Staged
  BY <1>3
<1>8. Predecessors(m) \subseteq Staged
  <2> SUFFICES ASSUME NEW a \in Predecessors(m), a \notin Staged PROVE FALSE
    OBVIOUS
  <2>1. a \in Above(m)
    BY <1>7, AboveIsClosed
  <2>2. a \in AtOrAbove(t)
    BY <1>7, AboveIsClosed DEF AtOrAbove
  <2>3. a \in U /\ <<m, a>> \in R
    BY <2>1, <2>2
  <2> QED BY <1>6, <2>3
<1>9. prereq[m] = 0
  <2>1. Predecessors(m) \ Staged = {}
    BY <1>8
  <2>2. prereq[m] = Cardinality(Predecessors(m) \ Staged)
    BY <1>1, <1>7 DEF PlanInv, Counted
  <2> QED BY <2>1, <2>2, FS_EmptySet
<1>10. CASE Predecessors(m) # {}
  BY <1>1, <1>7, <1>9, <1>10 DEF CountdownReaches
<1>11. CASE Predecessors(m) = {}
  <2>1. m \notin Unresolvable /\ m \notin InvalidSequence(forest)
    BY <1>7, <1>11 DEF Reachable, AtOrAbove
  <2>2. m \notin Downstream(edges, Unresolvable)
    BY <1>1, <1>7, <1>11, <2>1, SourceNotDownstream
  <2> QED BY <1>1, <1>7, <1>11, <2>1, <2>2 DEF CountdownReaches
<1> QED BY <1>10, <1>11

\* The countdown stages exactly the targets the paths of the graph allow: those
\* with no cycle above them and no blocked target at the top of them.
THEOREM StagesAreTheReachable == Spec => []StagedExactlyWhenReachable
<1>1. Init => CountdownInv
  BY InitInv DEF Init, CountdownInv
<1>2. CountdownInv /\ [Next]_vars => CountdownInv'
  BY CountdownStep
<1>3. CountdownInv => StagedExactlyWhenReachable
  <2> SUFFICES ASSUME CountdownInv, phase = "planned"
               PROVE  Staged = {t \in Targets : Reachable(t)}
    BY DEF StagedExactlyWhenReachable
  <2>1. Staged \subseteq Targets
    BY StagedAreTargets DEF CountdownInv, PlanInv
  <2> QED BY <2>1, StagedIsReachable, ReachableIsStaged
<1> QED BY <1>1, <1>2, <1>3, PTL DEF Spec

=============================================================================

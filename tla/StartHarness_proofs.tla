------------------------ MODULE StartHarness_proofs ------------------------
(***************************************************************************)
(* That discovery, one branch at a time and with bodies that throw, leaves *)
(* no gap in a branch it reports as discovered (BranchesAreComplete), and  *)
(* that the verdict of a run is right in both directions, for every set of *)
(* guests and forests of any depth and width.  The verdict rests on what   *)
(* is proved of the planner and of the executor alone: their invariants    *)
(* are taken from Planner_proofs and PlanExecution_proofs.                 *)
(***************************************************************************)
EXTENDS StartHarness, FiniteSetTheorems, FiniteSetsExt, SequenceTheorems, TLAPS

(***************************************************************************)
(* The planner and the executor, with what is proved about them alone.     *)
(***************************************************************************)

PP == INSTANCE Planner_proofs WITH
        Forests <- {Part(g.forest, {}) : g \in Guests}, forest <- Discovered,
        blocked <- planBlocked, issues <- planIssues, phase <- planPhase

EE == INSTANCE PlanExecution_proofs WITH Plans <- {}, NoScope <- NoNode, phase <- runPhase

LEMMA SameForests == \A f : PP!IsForest(f) <=> IsForest(f)
BY DEF PP!IsForest, IsForest, PP!IsFiniteSet, IsFiniteSet, PP!NoNode, NoNode, PP!SequenceModes,
   SequenceModes, PP!RunnerModes, RunnerModes, PP!FailurePolicies, FailurePolicies

\* A part of a forest that is closed under parents is one.
LEMMA PartIsForest ==
  ASSUME NEW f, IsForest(f), NEW N \in SUBSET f.nodes,
         \A n \in N : f.parent[n] \in N \cup {NoNode}
  PROVE  IsForest(Part(f, N)) /\ Part(f, N).runnable = f.runnable \cap N
<1> DEFINE g == Part(f, N)
<1>1. /\ DOMAIN g = DOMAIN f /\ g.nodes = N /\ g.runnable = f.runnable \cap N
      /\ g.expectFailure = f.expectFailure \cap N
      /\ g.parent = f.parent /\ g.order = f.order /\ g.sequence = f.sequence
      /\ g.nodeId = f.nodeId /\ g.depIds = f.depIds /\ g.mode = f.mode /\ g.policy = f.policy
  BY DEF Part, IsForest
<1>2. IsFiniteSet(N)
  BY FS_Subset DEF IsForest
<1> HIDE DEF g
<1> QED BY <1>1, <1>2 DEF IsForest, g

\* What the two components assume of their constants.
LEMMA ComponentAssumptions == PP!ForestsAssumption /\ EE!PlansAssumption
<1>1. ASSUME NEW g \in Guests PROVE PP!IsForest(Part(g.forest, {}))
  <2>1. IsForest(g.forest)
    BY GuestsAssumption DEF IsGuest
  <2>2. IsForest(Part(g.forest, {}))
    BY <2>1, PartIsForest
  <2> QED BY <2>2, SameForests
<1> QED BY <1>1 DEF PP!ForestsAssumption, EE!PlansAssumption

\* Facts about sets of numbers that the planner's proof rests on too.
LEMMA LeastNatural ==
  ASSUME NEW S \in SUBSET Nat, S # {}
  PROVE  \E m \in S : \A n \in S : m <= n
BY PP!LeastNatural, ComponentAssumptions

\* A part of a finite set that misses something of it is smaller.
LEMMA ProperSubset ==
  ASSUME NEW S, IsFiniteSet(S), NEW T \in SUBSET S, T # S
  PROVE  /\ Cardinality(T) \in Nat /\ Cardinality(S) \in Nat
         /\ Cardinality(T) < Cardinality(S)
BY PP!ProperSubset, ComponentAssumptions
   DEF PP!Cardinality, Cardinality, PP!IsFiniteSet, IsFiniteSet

\* Max of a finite set of naturals is one of its members.
LEMMA MaxIsMember ==
  ASSUME NEW S \in SUBSET Nat, IsFiniteSet(S), S # {}
  PROVE  Max(S) \in S /\ \A n \in S : Max(S) >= n
BY PP!MaxIsMember, ComponentAssumptions DEF PP!Max, Max, PP!IsFiniteSet, IsFiniteSet

(***************************************************************************)
(* The lineage of a node.                                                  *)
(***************************************************************************)

LineageDomain(f) == f.nodes \cup {NoNode}

\* One step of the recursion of Lineage.
Up(f, g, m) == IF m = NoNode THEN {} ELSE {m} \cup g[f.parent[m]]

LEMMA DomainFacts ==
  ASSUME NEW f, IsForest(f)
  PROVE  /\ LineageDomain(f) \in SUBSET Nat /\ IsFiniteSet(LineageDomain(f))
         /\ NoNode \in LineageDomain(f)
         /\ \A m \in f.nodes : /\ f.parent[m] \in LineageDomain(f) /\ f.parent[m] < m
                               /\ m \in LineageDomain(f) /\ m # NoNode
<1>1. IsFiniteSet(f.nodes \cup {NoNode})
  BY FS_AddElement DEF IsForest
<1>2. f.nodes \cup {NoNode} \in SUBSET Nat
  BY DEF IsForest, NoNode
<1> QED BY <1>1, <1>2 DEF IsForest, LineageDomain

\* The recursion is well founded, for a parent has the smaller number.
LEMMA LineageExists ==
  ASSUME NEW f, IsForest(f)
  PROVE  \E g \in [LineageDomain(f) -> SUBSET f.nodes] :
           \A m \in LineageDomain(f) : g[m] = Up(f, g, m)
<1> DEFINE D == LineageDomain(f)
           Upto(g, k) == \A m \in D : m <= k => g[m] = Up(f, g, m)
           Bad == {k \in Nat : ~ \E g \in [D -> SUBSET f.nodes] : Upto(g, k)}
<1>1. Bad = {}
  <2> SUFFICES ASSUME Bad # {} PROVE FALSE
    OBVIOUS
  <2>1. PICK k \in Bad : \A n \in Bad : k <= n
    <3>1. Bad \in SUBSET Nat /\ Bad # {}
      OBVIOUS
    <3> HIDE DEF Bad
    <3> QED BY <3>1, LeastNatural
  <2>2. k \in Nat /\ ~ \E g \in [D -> SUBSET f.nodes] : Upto(g, k)
    OBVIOUS
  <2>3. CASE k = 0
    <3> DEFINE g == [m \in D |-> {}]
    <3>1. g \in [D -> SUBSET f.nodes]
      OBVIOUS
    <3>2. Upto(g, k)
      BY <2>3, DomainFacts DEF Up, NoNode
    <3> QED BY <2>2, <3>1, <3>2
  <2>4. CASE k # 0
    <3>1. k - 1 \in Nat /\ k - 1 < k
      BY <2>2, <2>4
    <3>2. k - 1 \notin Bad
      <4> HIDE DEF Bad
      <4> QED BY <2>1, <2>2, <3>1
    <3>3. PICK g \in [D -> SUBSET f.nodes] : Upto(g, k - 1)
      BY <3>1, <3>2
    <3> DEFINE h == IF k \in D THEN [g EXCEPT ![k] = {k} \cup g[f.parent[k]]] ELSE g
    <3>4. k \in D => k \in f.nodes /\ f.parent[k] \in D /\ f.parent[k] < k /\ k # NoNode
      BY <2>4, DomainFacts DEF NoNode, LineageDomain
    <3>5. h \in [D -> SUBSET f.nodes]
      BY <3>4
    <3>6. Upto(h, k)
      <4> SUFFICES ASSUME NEW m \in D, m <= k PROVE h[m] = Up(f, h, m)
        OBVIOUS
      <4>1. m \in Nat
        BY DomainFacts
      <4>2. CASE m = k
        BY <3>4, <4>2 DEF Up
      <4>3. CASE m # k
        <5>1. m <= k - 1 /\ h[m] = g[m]
          BY <2>2, <4>1, <4>3
        <5>2. g[m] = Up(f, g, m)
          BY <3>3, <5>1
        <5>3. CASE m = NoNode
          BY <5>1, <5>2, <5>3 DEF Up
        <5>4. CASE m # NoNode
          <6>1. m \in f.nodes /\ f.parent[m] \in D /\ f.parent[m] < m /\ f.parent[m] \in Nat
            BY <5>4, DomainFacts DEF LineageDomain
          <6>2. f.parent[m] # k
            BY <2>2, <4>1, <5>1, <6>1
          <6>3. h[f.parent[m]] = g[f.parent[m]]
            BY <6>1, <6>2
          <6> QED BY <5>1, <5>2, <5>4, <6>3 DEF Up
        <5> QED BY <5>3, <5>4
      <4> QED BY <4>2, <4>3
    <3> QED BY <2>2, <3>5, <3>6
  <2> QED BY <2>3, <2>4
<1>2. Max(D) \in Nat /\ \A m \in D : m <= Max(D)
  <2>1. D \in SUBSET Nat /\ IsFiniteSet(D) /\ D # {}
    BY DomainFacts
  <2> HIDE DEF D
  <2> QED BY <2>1, MaxIsMember
<1>3. PICK g \in [D -> SUBSET f.nodes] : Upto(g, Max(D))
  <2> HIDE DEF D, Upto
  <2> QED BY <1>1, <1>2
<1> QED BY <1>2, <1>3

\* Lineage unfolds along the parents.
LEMMA LineageStep ==
  ASSUME NEW f, IsForest(f)
  PROVE  /\ Lineage(f, NoNode) = {}
         /\ \A n \in f.nodes : Lineage(f, n) = {n} \cup Lineage(f, f.parent[n])
<1> DEFINE D == f.nodes \cup {NoNode}
           IsUp(g) == g = [m \in D |-> IF m = NoNode THEN {} ELSE {m} \cup g[f.parent[m]]]
           up == CHOOSE g : IsUp(g)
<1>1. PICK g \in [D -> SUBSET f.nodes] : \A m \in D : g[m] = Up(f, g, m)
  BY LineageExists DEF LineageDomain
<1>2. IsUp(g)
  BY <1>1 DEF Up
<1>3. IsUp(up)
  <2> HIDE DEF IsUp
  <2> QED BY <1>2
<1>4. \A n : Lineage(f, n) = up[n]
  BY DEF Lineage
<1>5. \A m \in D : up[m] = IF m = NoNode THEN {} ELSE {m} \cup up[f.parent[m]]
  <2> HIDE DEF up
  <2> QED BY <1>3
<1>6. up[NoNode] = {}
  <2> HIDE DEF up
  <2> QED BY <1>5
<1>7. ASSUME NEW n \in f.nodes PROVE up[n] = {n} \cup up[f.parent[n]]
  <2> HIDE DEF up
  <2>1. n # NoNode
    BY DomainFacts
  <2> QED BY <1>5, <2>1
<1> HIDE DEF up
<1> QED BY <1>4, <1>6, <1>7

\* A lineage ends in its node and leads up from there.
LEMMA LineageBelow ==
  ASSUME NEW f, IsForest(f), NEW n \in f.nodes
  PROVE  /\ n \in Lineage(f, n) /\ Lineage(f, n) \subseteq f.nodes
         /\ \A m \in Lineage(f, n) : m <= n
<1> DEFINE Below(m) == Lineage(f, m) \subseteq f.nodes /\ \A k \in Lineage(f, m) : k <= m
           Bad == {m \in LineageDomain(f) : ~ Below(m)}
<1>1. Bad = {}
  <2> SUFFICES ASSUME Bad # {} PROVE FALSE
    OBVIOUS
  <2>1. PICK m \in Bad : \A k \in Bad : m <= k
    <3>1. Bad \in SUBSET Nat /\ Bad # {}
      BY DomainFacts
    <3> HIDE DEF Bad
    <3> QED BY <3>1, LeastNatural
  <2>2. m \in LineageDomain(f) /\ ~ Below(m)
    OBVIOUS
  <2>3. m # NoNode
    BY <2>2, LineageStep
  <2>4. m \in f.nodes
    BY <2>2, <2>3 DEF LineageDomain
  <2>5. /\ f.parent[m] \in LineageDomain(f) /\ f.parent[m] < m
        /\ f.parent[m] \in Nat /\ m \in Nat
    BY <2>4, DomainFacts
  <2>6. Below(f.parent[m])
    <3>1. f.parent[m] \notin Bad
      <4> HIDE DEF Bad
      <4> QED BY <2>1, <2>5
    <3> QED BY <2>5, <3>1
  <2>7. Lineage(f, m) = {m} \cup Lineage(f, f.parent[m])
    BY <2>4, LineageStep
  <2>8. \A k \in Lineage(f, f.parent[m]) : k \in Nat /\ k <= f.parent[m]
    BY <2>6, DomainFacts DEF LineageDomain
  <2>9. \A k \in Lineage(f, m) : k <= m
    BY <2>5, <2>7, <2>8
  <2> QED BY <2>2, <2>4, <2>6, <2>7, <2>9
<1>2. n \in LineageDomain(f)
  BY DEF LineageDomain
<1>3. Below(n)
  BY <1>1, <1>2
<1> QED BY <1>3, LineageStep

\* The branch of a node is that of its parent, or its own.
Root(f, n) == Min(Lineage(f, n))

LEMMA RootStep ==
  ASSUME NEW f, IsForest(f), NEW n \in f.nodes
  PROVE  /\ f.parent[n] = NoNode => Root(f, n) = n
         /\ f.parent[n] # NoNode => Root(f, n) = Root(f, f.parent[n])
<1>1. CASE f.parent[n] = NoNode
  <2>1. Lineage(f, n) = {n} /\ n \in Nat
    BY <1>1, LineageStep, DomainFacts
  <2>2. Min({n}) = n
    BY <2>1 DEF Min
  <2> QED BY <1>1, <2>1, <2>2 DEF Root
<1>2. CASE f.parent[n] # NoNode
  <2> DEFINE p == f.parent[n]
             above == Lineage(f, p)
  <2>1. p \in f.nodes /\ p < n /\ n \in Nat
    BY <1>2, DomainFacts DEF LineageDomain
  <2>2. Lineage(f, n) = {n} \cup above
    BY LineageStep
  <2>3. p \in above /\ above \subseteq f.nodes /\ \A m \in above : m <= p
    BY <2>1, LineageBelow
  <2>4. above \in SUBSET Nat /\ p \in Nat
    BY <2>1, <2>3, DomainFacts DEF LineageDomain
  <2> HIDE DEF above, p
  <2>5. PICK r \in above : \A m \in above : r <= m
    BY <2>3, <2>4, LeastNatural
  <2>6. \A x : (x \in above /\ \A y \in above : x =< y) => x = r
    BY <2>4, <2>5
  <2>7. Min(above) = r
    BY <2>5, <2>6 DEF Min
  <2>8. r \in {n} \cup above /\ \A m \in {n} \cup above : r =< m
    BY <2>1, <2>3, <2>4, <2>5
  <2>9. \A x : (x \in {n} \cup above /\ \A y \in {n} \cup above : x =< y) => x = r
    BY <2>1, <2>4, <2>5, <2>8
  <2>10. Min({n} \cup above) = r
    BY <2>8, <2>9 DEF Min
  <2>11. Root(f, n) = Root(f, p)
    BY <2>2, <2>7, <2>10 DEF Root, above
  <2> QED BY <1>2, <2>11 DEF p
<1> QED BY <1>1, <1>2

-----------------------------------------------------------------------------
(***************************************************************************)
(* The queue of discoverBranch.                                            *)
(***************************************************************************)

\* Siblings enter the queue in declaration order, each once.
LEMMA InOrderEnumerates ==
  ASSUME NEW f, IsForest(f), NEW S \in SUBSET f.nodes
  PROVE  InOrder(f, S) \in Seq(S) /\ Range(InOrder(f, S)) = S
<1> DEFINE lower(n) == {m \in S : Before(f, m, n)}
           size == Cardinality(S)
           pos == [n \in S |-> Cardinality(lower(n)) + 1]
<1>1. IsFiniteSet(S) /\ size \in Nat
  BY FS_Subset, FS_CardinalityType DEF IsForest
<1>2. \A a \in f.nodes : a \in Nat /\ f.order[a] \in Nat
  BY DEF IsForest
<1>3. ASSUME NEW n \in S
      PROVE  Cardinality(lower(n)) \in Nat /\ Cardinality(lower(n)) < size
  <2>1. lower(n) \in SUBSET S /\ n \notin lower(n)
    BY <1>2 DEF Before
  <2>2. lower(n) # S
    BY <2>1
  <2> HIDE DEF lower
  <2> QED BY <1>1, <2>1, <2>2, ProperSubset
<1>4. ASSUME NEW n \in S, NEW m \in S, Before(f, m, n)
      PROVE  Cardinality(lower(m)) < Cardinality(lower(n))
  <2>1. lower(m) \in SUBSET lower(n) /\ m \in lower(n) /\ m \notin lower(m)
    BY <1>2, <1>4 DEF Before
  <2>2. lower(m) # lower(n) /\ IsFiniteSet(lower(n))
    BY <1>1, <2>1, FS_Subset
  <2> HIDE DEF lower
  <2> QED BY <2>1, <2>2, ProperSubset
<1>5. ASSUME NEW n \in S, NEW m \in S, Cardinality(lower(m)) = Cardinality(lower(n))
      PROVE  m = n
  <2>1. ~ Before(f, m, n) /\ ~ Before(f, n, m)
    <3> HIDE DEF lower
    <3> QED BY <1>3, <1>4, <1>5
  <2> QED BY <1>2, <2>1 DEF Before
<1>6. pos \in Injection(S, 1..size)
  <2> HIDE DEF lower, size
  <2>1. \A n \in S : Cardinality(lower(n)) + 1 \in 1..size
    BY <1>1, <1>3
  <2>2. pos \in [S -> 1..size]
    BY <2>1
  <2>3. \A n, m \in S : pos[n] = pos[m] => n = m
    <3> SUFFICES ASSUME NEW n \in S, NEW m \in S, pos[n] = pos[m] PROVE n = m
      OBVIOUS
    <3>1. Cardinality(lower(n)) + 1 = Cardinality(lower(m)) + 1
      OBVIOUS
    <3>2. Cardinality(lower(n)) = Cardinality(lower(m))
      BY <1>3, <3>1
    <3> QED BY <1>5, <3>2
  <2> HIDE DEF pos
  <2> QED BY <2>2, <2>3 DEF Injection, IsInjective
<1>7. \A i \in 1..size : \E n \in S : pos[n] = i
  <2>1. IsFiniteSet(1..size) /\ Cardinality(1..size) = size
    BY <1>1, FS_Interval
  <2> HIDE DEF pos
  <2>2. pos \in Surjection(S, 1..size)
    BY <1>6, <2>1, FS_Injection
  <2> QED BY <2>2 DEF Surjection
<1> DEFINE nth(i) == CHOOSE n \in S : Cardinality(lower(n)) = i - 1
<1>8. \A i \in 1..size : nth(i) \in S
  <2> TAKE i \in 1..size
  <2>1. \E n \in S : Cardinality(lower(n)) = i - 1
    <3>1. PICK n \in S : pos[n] = i
      BY <1>7
    <3>2. Cardinality(lower(n)) + 1 = i /\ Cardinality(lower(n)) \in Nat
      BY <1>3, <3>1
    <3>3. Cardinality(lower(n)) = i - 1
      <4> HIDE DEF lower
      <4> QED BY <3>2
    <3> HIDE DEF lower
    <3> QED BY <3>3
  <2> HIDE DEF lower
  <2> QED BY <2>1
<1>9. \A n \in S : \E i \in 1..size : nth(i) = n
  <2> TAKE n \in S
  <2> DEFINE i == Cardinality(lower(n)) + 1
  <2>1. i \in 1..size /\ i - 1 = Cardinality(lower(n))
    <3> HIDE DEF lower, size
    <3> QED BY <1>1, <1>3
  <2>2. \A m \in S : Cardinality(lower(m)) = i - 1 => m = n
    <3> HIDE DEF lower
    <3> QED BY <1>5, <2>1
  <2>3. nth(i) = n
    <3> HIDE DEF lower, i
    <3> QED BY <2>1, <2>2
  <2> HIDE DEF nth
  <2> QED BY <2>1, <2>3
<1>10. InOrder(f, S) = [i \in 1..size |-> nth(i)]
  BY DEF InOrder
<1> HIDE DEF nth, size
<1> QED BY <1>1, <1>8, <1>9, <1>10 DEF Range

\* Taking a node from the queue and adding its children.
LEMMA QueueStep ==
  ASSUME NEW S, NEW q \in Seq(S), q # <<>>, NEW t \in Seq(S)
  PROVE  /\ Head(q) \in S /\ Tail(q) \in Seq(S) /\ Tail(q) \o t \in Seq(S)
         /\ Range(q) = {Head(q)} \cup Range(Tail(q))
         /\ Range(Tail(q) \o t) = Range(Tail(q)) \cup Range(t)
<1>1. /\ Head(q) \in S /\ Tail(q) \in Seq(S) /\ Len(Tail(q)) = Len(q) - 1 /\ Len(q) \in Nat \ {0}
      /\ \A i \in 1..Len(Tail(q)) : Tail(q)[i] = q[i + 1]
      /\ DOMAIN q = 1..Len(q) /\ DOMAIN Tail(q) = 1..(Len(q) - 1) /\ Head(q) = q[1]
  BY HeadTailProperties
<1>2. Tail(q) \o t \in Seq(S) /\ Range(Tail(q) \o t) = Range(Tail(q)) \cup Range(t)
  <2>1. Tail(q) \o t \in Seq(S)
    BY <1>1, ConcatProperties
  <2>2. Tail(q) \in Seq(S)
    BY <1>1
  <2>3. Range(Tail(q) \o t) = Range(Tail(q)) \cup Range(t)
    <3> DEFINE rest == Tail(q)
    <3> HIDE DEF rest
    <3>1. rest \in Seq(S)
      BY <2>2 DEF rest
    <3>2. Range(rest \o t) = Range(rest) \cup Range(t)
      BY <3>1, RangeConcatenation
    <3> QED BY <3>2 DEF rest
  <2> QED BY <2>1, <2>3
<1>3. Range(q) \subseteq {Head(q)} \cup Range(Tail(q))
  <2> SUFFICES ASSUME NEW i \in 1..Len(q) PROVE q[i] = Head(q) \/ q[i] \in Range(Tail(q))
    BY <1>1 DEF Range
  <2>1. CASE i = 1
    BY <1>1, <2>1
  <2>2. CASE i # 1
    <3>1. i - 1 \in 1..(Len(q) - 1) /\ (i - 1) + 1 = i
      BY <1>1, <2>2
    <3>2. Tail(q)[i - 1] = q[i]
      BY <1>1, <3>1
    <3> QED BY <1>1, <3>1, <3>2 DEF Range
  <2> QED BY <2>1, <2>2
<1>4. {Head(q)} \cup Range(Tail(q)) \subseteq Range(q)
  <2>1. 1 \in 1..Len(q)
    BY <1>1
  <2>2. \A i \in 1..(Len(q) - 1) : i + 1 \in 1..Len(q) /\ Tail(q)[i] = q[i + 1]
    BY <1>1
  <2> QED BY <1>1, <2>1, <2>2 DEF Range
<1> QED BY <1>1, <1>2, <1>3, <1>4

-----------------------------------------------------------------------------
(***************************************************************************)
(* The inductive invariant of the discovery.                               *)
(***************************************************************************)

\* The children of p are known, or will be, or p is why they are not.
Known(p) ==
  \/ Root(guest.forest, p) \in failed
  \/ p \in Range(queue)
  \/ p \in guest.throws \cap guest.tests
  \/ Children(guest.forest, p) \subseteq found

DiscoveryInv ==
  /\ IsGuest(guest)
  /\ found \subseteq guest.forest.nodes
  /\ roots \subseteq guest.forest.nodes
  /\ queue \in Seq(found)
  /\ \A p, q \in Range(queue) : Root(guest.forest, p) = Root(guest.forest, q)
  /\ \A p \in found : Known(p)
  /\ step # "discover" => queue = <<>>

LEMMA NothingQueued == Range(<<>>) = {}
BY DEF Range

LEMMA InitDiscovery == Init => DiscoveryInv
<1> SUFFICES ASSUME Init PROVE DiscoveryInv
  OBVIOUS
<1>1. IsGuest(guest)
  BY GuestsAssumption DEF Init
<1> QED BY <1>1, NothingQueued DEF Init, DiscoveryInv

LEMMA OpenedRoot ==
  ASSUME DiscoveryInv, OpenBranch
  PROVE  \E root \in roots :
           roots' = roots \ {root} /\ queue' = <<root>> /\ found' = found \cup {root}
<1> DEFINE root == Head(InOrder(guest.forest, roots))
<1>1. IsForest(guest.forest) /\ roots \in SUBSET guest.forest.nodes /\ roots # {}
  BY DEF DiscoveryInv, IsGuest, OpenBranch
<1>2. InOrder(guest.forest, roots) \in Seq(roots) /\ Range(InOrder(guest.forest, roots)) = roots
  BY <1>1, InOrderEnumerates
<1>3. InOrder(guest.forest, roots) # <<>>
  BY <1>1, <1>2, NothingQueued
<1>4. root \in roots
  BY <1>2, <1>3, QueueStep
<1> QED BY <1>4 DEF OpenBranch

LEMMA OpenBranchInv ==
  ASSUME DiscoveryInv, OpenBranch
  PROVE  DiscoveryInv'
<1> DEFINE f == guest.forest
<1>1. IsForest(f) /\ roots \in SUBSET f.nodes
  BY DEF DiscoveryInv, IsGuest
<1>2. PICK root \in roots :
        roots' = roots \ {root} /\ queue' = <<root>> /\ found' = found \cup {root}
  BY OpenedRoot
<1>3. queue = <<>> /\ UNCHANGED <<guest, step, failed>> /\ step = "discover"
  BY DEF OpenBranch
<1>4. Range(queue') = {root} /\ queue' \in Seq(found')
  <2>1. DOMAIN <<root>> = {1} /\ <<root>>[1] = root
    OBVIOUS
  <2> QED BY <1>2, <2>1 DEF Range
<1>5. ASSUME NEW p \in found' PROVE Known(p)'
  <2>1. CASE p = root
    BY <1>4, <2>1 DEF Known
  <2>2. CASE p # root
    <3>1. Known(p) /\ p \notin Range(queue)
      BY <1>2, <1>3, <2>2, NothingQueued DEF DiscoveryInv
    <3> QED BY <1>2, <1>3, <3>1 DEF Known
  <2> QED BY <2>1, <2>2
<1> QED BY <1>1, <1>2, <1>3, <1>4, <1>5 DEF DiscoveryInv

LEMMA DiscoverNodeInv ==
  ASSUME DiscoveryInv, DiscoverNode
  PROVE  DiscoveryInv'
<1> DEFINE f == guest.forest
           parent == Head(queue)
           children == Children(f, parent)
<1>1. /\ IsForest(f) /\ queue \in Seq(found) /\ queue # <<>> /\ found \subseteq f.nodes
      /\ step = "discover" /\ UNCHANGED <<guest, step, roots>> /\ children \in SUBSET f.nodes
  BY DEF DiscoveryInv, IsGuest, DiscoverNode, Children
<1>2. /\ parent \in found /\ parent \in f.nodes /\ Tail(queue) \in Seq(found)
      /\ Range(queue) = {parent} \cup Range(Tail(queue))
  <2>1. <<>> \in Seq(found)
    OBVIOUS
  <2> QED BY <1>1, <2>1, QueueStep
<1>3. \A p, q \in Range(queue) : Root(f, p) = Root(f, q)
  BY DEF DiscoveryInv
<1>4. \A p \in found : Known(p)
  BY DEF DiscoveryInv
<1>5. CASE /\ found' = found \cup children
           /\ queue' = Tail(queue) \o InOrder(f, children)
           /\ UNCHANGED <<failed, discoveryOk>>
  <2>1. InOrder(f, children) \in Seq(children) /\ Range(InOrder(f, children)) = children
    BY <1>1, InOrderEnumerates
  <2>2. InOrder(f, children) \in Seq(found') /\ queue \in Seq(found')
    BY <1>1, <1>5, <2>1
  <2>3. queue' \in Seq(found') /\ Range(queue') = Range(Tail(queue)) \cup children
    <3> HIDE DEF children, f
    <3> QED BY <1>1, <1>5, <2>1, <2>2, QueueStep
  <2>4. \A c \in children : Root(f, c) = Root(f, parent)
    <3> TAKE c \in children
    <3>1. c \in f.nodes /\ f.parent[c] = parent /\ parent # NoNode
      BY <1>1, <1>2, DomainFacts DEF Children
    <3> HIDE DEF f, parent
    <3> QED BY <1>1, <3>1, RootStep
  <2>5. \A p \in Range(queue') : Root(f, p) = Root(f, parent)
    <3> HIDE DEF children, parent, f
    <3> QED BY <1>2, <1>3, <2>3, <2>4
  <2>6. ASSUME NEW p \in found' PROVE Known(p)'
    <3>1. CASE p = parent
      BY <1>1, <1>5, <3>1 DEF Known
    <3>2. CASE p \in children
      <4>1. p \in Range(queue')
        BY <2>3, <3>2
      <4> QED BY <4>1 DEF Known
    <3>3. CASE p \in found /\ p # parent
      <4>1. Known(p)
        BY <1>4, <3>3
      <4>2. p \in Range(queue) => p \in Range(queue')
        BY <1>2, <2>3, <3>3
      <4>3. found \subseteq found'
        BY <1>5
      <4> QED BY <1>1, <1>5, <4>1, <4>2, <4>3 DEF Known
    <3> QED BY <1>5, <3>1, <3>2, <3>3
  <2>7. found' \subseteq f.nodes
    BY <1>1, <1>5
  <2>8. (\A p, q \in Range(queue) : Root(guest.forest, p) = Root(guest.forest, q))'
    BY <1>1, <2>5
  <2> QED BY <1>1, <2>3, <2>6, <2>7, <2>8 DEF DiscoveryInv
<1>6. CASE /\ parent \in guest.throws \cap guest.tests
           /\ queue' = Tail(queue)
           /\ UNCHANGED <<found, failed, discoveryOk>>
  <2>1. ASSUME NEW p \in found' PROVE Known(p)'
    <3>1. CASE p = parent
      BY <1>1, <1>6, <3>1 DEF Known
    <3>2. CASE p # parent
      <4>1. Known(p)
        BY <1>4, <1>6
      <4>2. p \in Range(queue) => p \in Range(queue')
        BY <1>2, <1>6, <3>2
      <4> QED BY <1>1, <1>6, <4>1, <4>2 DEF Known
    <3> QED BY <3>1, <3>2
  <2>2. (\A p, q \in Range(queue) : Root(guest.forest, p) = Root(guest.forest, q))'
    BY <1>1, <1>2, <1>3, <1>6
  <2> QED BY <1>1, <1>2, <1>6, <2>1, <2>2 DEF DiscoveryInv
<1>7. CASE /\ queue' = <<>>
           /\ failed' = failed \cup {Min(Lineage(f, parent))}
           /\ UNCHANGED found
  <2>1. ASSUME NEW p \in found' PROVE Known(p)'
    <3>1. Known(p)
      BY <1>4, <1>7
    <3>2. p \in Range(queue) => Root(f, p) \in failed'
      BY <1>2, <1>3, <1>7 DEF Root
    <3>3. failed \subseteq failed'
      BY <1>7
    <3> QED BY <1>1, <1>7, <3>1, <3>2, <3>3 DEF Known
  <2>2. Range(queue') = {} /\ queue' \in Seq(found')
    BY <1>7, NothingQueued
  <2> QED BY <1>1, <1>7, <2>1, <2>2 DEF DiscoveryInv
<1> QED BY <1>5, <1>6, <1>7 DEF DiscoverNode

LEMMA StepDiscovery == DiscoveryInv /\ [Next]_vars => DiscoveryInv'
<1> SUFFICES ASSUME DiscoveryInv, [Next]_vars PROVE DiscoveryInv'
  OBVIOUS
<1>1. CASE DiscoverTopLevel
  <2>1. /\ roots' \subseteq Children(guest.forest, NoNode) /\ queue = <<>>
        /\ UNCHANGED <<guest, queue, found, failed>>
    BY <1>1 DEF DiscoverTopLevel, DiscoveryInv
  <2>2. roots' \subseteq guest.forest.nodes
    BY <2>1 DEF Children
  <2>3. (\A p \in found : Known(p))'
    BY <2>1 DEF DiscoveryInv, Known
  <2> QED BY <2>1, <2>2, <2>3 DEF DiscoveryInv
<1>2. CASE OpenBranch
  BY <1>2, OpenBranchInv
<1>3. CASE DiscoverNode
  BY <1>3, DiscoverNodeInv
<1>4. CASE /\ queue = <<>>
           /\ UNCHANGED discoveryVars
  <2>1. (\A p \in found : Known(p))'
    BY <1>4 DEF DiscoveryInv, Known, discoveryVars
  <2> QED BY <1>4, <2>1 DEF DiscoveryInv, discoveryVars
<1>5. CASE CloseDiscovery \/ PlanStages \/ BeginExecution \/ ExecuteStages \/ Summarise
  <2>1. queue = <<>> /\ UNCHANGED discoveryVars
    BY <1>5 DEF DiscoveryInv, CloseDiscovery, PlanStages, BeginExecution, ExecuteStages,
       Summarise, discoveryVars
  <2> QED BY <1>4, <2>1
<1>6. CASE UNCHANGED vars
  <2>1. (\A p \in found : Known(p))'
    BY <1>6 DEF DiscoveryInv, Known, vars, discoveryVars
  <2> QED BY <1>6, <2>1 DEF DiscoveryInv, vars, discoveryVars
<1> QED BY <1>1, <1>2, <1>3, <1>5, <1>6 DEF Next

\* The first gap on a path would lie right below a known node.
LEMMA NoGaps == DiscoveryInv => BranchesAreComplete
<1> DEFINE f == guest.forest
           Missing(n) == Root(f, n) \in found \ failed /\ ~ (n \in found \/ Hidden(n))
           Gaps == {n \in f.nodes : Missing(n)}
<1> SUFFICES ASSUME DiscoveryInv, step \notin {"open", "discover"}, Gaps # {}
             PROVE  FALSE
  BY DEF BranchesAreComplete, Root
<1>1. IsForest(f) /\ queue = <<>> /\ Range(queue) = {}
  BY NothingQueued DEF DiscoveryInv, IsGuest
<1>2. PICK n \in Gaps : \A m \in Gaps : n <= m
  <2>1. Gaps \in SUBSET Nat /\ Gaps # {}
    BY <1>1 DEF IsForest
  <2> HIDE DEF Gaps
  <2> QED BY <2>1, LeastNatural
<1>3. n \in f.nodes /\ Root(f, n) \in found \ failed /\ n \notin found /\ ~ Hidden(n)
  OBVIOUS
<1> DEFINE p == f.parent[n]
<1>4. p # NoNode
  <2> HIDE DEF f
  <2> QED BY <1>1, <1>3, RootStep DEF f
<1>5. p \in f.nodes /\ p < n /\ p \in Nat /\ n \in Nat
  BY <1>1, <1>3, <1>4, DomainFacts DEF LineageDomain
<1>6. Root(f, p) = Root(f, n)
  BY <1>1, <1>3, <1>4, RootStep
<1>7. Lineage(f, n) = {n} \cup Lineage(f, p) /\ p \in Lineage(f, p) /\ n \notin Lineage(f, p)
  <2>1. Lineage(f, n) = {n} \cup Lineage(f, p)
    BY <1>1, <1>3, LineageStep
  <2>2. p \in Lineage(f, p) /\ \A m \in Lineage(f, p) : m <= p
    BY <1>1, <1>5, LineageBelow
  <2> HIDE DEF p, f
  <2>3. n \notin Lineage(f, p)
    BY <1>5, <2>2
  <2> QED BY <2>1, <2>2, <2>3
<1>8. ~ Hidden(p) /\ p \notin guest.throws \cap guest.tests
  <2>1. p \in Lineage(f, n) \ {n} /\ Lineage(f, p) \ {p} \subseteq Lineage(f, n) \ {n}
    BY <1>7
  <2> QED BY <1>3, <2>1 DEF Hidden
<1>9. p \in found
  <2>1. p \notin Gaps
    <3> HIDE DEF Gaps, p
    <3> QED BY <1>2, <1>5
  <2> QED BY <1>3, <1>5, <1>6, <1>8, <2>1
<1>10. Children(f, p) \subseteq found
  BY <1>1, <1>3, <1>6, <1>8, <1>9 DEF DiscoveryInv, Known
<1> QED BY <1>3, <1>10 DEF Children

\* Whichever bodies throw, and in whatever branch, a branch that is not
\* reported as failed is known in full when discovery ends.
THEOREM DiscoveryIsComplete == Spec => []BranchesAreComplete
<1> QED BY InitDiscovery, StepDiscovery, NoGaps, PTL DEF Spec

-----------------------------------------------------------------------------
(***************************************************************************)
(* The steps of the components in the composed module are those of the     *)
(* instances whose theorems are used.                                      *)
(***************************************************************************)

LEMMA SamePlanner == P!Next <=> PP!Next
BY DEF P!Next, PP!Next, P!BuildDependencies, PP!BuildDependencies, P!LayerStage, PP!LayerStage,
   P!FinishPlan, PP!FinishPlan, P!Targets, PP!Targets, P!Predecessors, PP!Predecessors,
   P!Downstream, PP!Downstream, P!Unresolvable, PP!Unresolvable, P!DependencyIssues,
   PP!DependencyIssues, P!SequenceIssues, PP!SequenceIssues, P!HintIssues, PP!HintIssues,
   P!Issue, PP!Issue, P!NoNode, PP!NoNode, P!Malformed, PP!Malformed, P!MissingIds,
   PP!MissingIds, P!Resolve, PP!Resolve, P!ScopeChain, PP!ScopeChain, P!Registered,
   PP!Registered, P!Lineage, PP!Lineage, P!Nearest, PP!Nearest, P!Max, PP!Max, P!Edges,
   PP!Edges, P!AncestorEdges, PP!AncestorEdges, P!SequentialEdges, PP!SequentialEdges,
   P!DependencyEdges, PP!DependencyEdges, P!Dependencies, PP!Dependencies, P!InScope,
   PP!InScope, P!Before, PP!Before, P!InvalidSequence, PP!InvalidSequence, P!Cardinality,
   PP!Cardinality

LEMMA SamePlan == P!PlannedTargets = PP!PlannedTargets
BY DEF P!PlannedTargets, PP!PlannedTargets, P!Targets, PP!Targets, P!Before, PP!Before,
   P!InvalidSequence, PP!InvalidSequence, P!BailScope, PP!BailScope, P!PolicyScope,
   PP!PolicyScope, P!Nearest, PP!Nearest, P!Max, PP!Max, P!Lineage, PP!Lineage, P!NoNode,
   PP!NoNode, P!Cardinality, PP!Cardinality

LEMMA SameExecutor == E!Next <=> EE!Next
BY DEF E!Next, EE!Next, E!NextStage, EE!NextStage, E!StartBatch, EE!StartBatch, E!FinishTarget,
   EE!FinishTarget, E!RejectBatch, EE!RejectBatch, E!RecordResult, EE!RecordResult,
   E!Finish, EE!Finish, E!NextBatch, EE!NextBatch, E!Eligible, EE!Eligible, E!Settled,
   EE!Settled, E!BlockedBehind, EE!BlockedBehind, E!BailedWith, EE!BailedWith, E!Satisfied,
   EE!Satisfied, E!Targets, EE!Targets, E!Issue, EE!Issue

LEMMA SamePlans == \A p : PP!WellFormedPlan(p) <=> EE!WellFormedPlan(p)
BY DEF PP!WellFormedPlan, EE!WellFormedPlan, PP!IsStaged, EE!IsStaged, PP!IsFiniteSet,
   EE!IsFiniteSet

-----------------------------------------------------------------------------
(***************************************************************************)
(* The inductive invariant of a whole run.                                 *)
(***************************************************************************)

FoundIsClosed ==
  /\ \A n \in found : guest.forest.parent[n] \in found \cup {NoNode}
  /\ \A n \in roots : guest.forest.parent[n] = NoNode

\* discoveryOk says that every body was entered, and no branch is forgotten.
DiscoveryIsHonest ==
  /\ discoveryOk =>
       /\ failed = {}
       /\ step # "open" => /\ NoNode \notin guest.throws
                           /\ Children(guest.forest, NoNode) \subseteq found \cup roots
  /\ ~ discoveryOk => NoNode \in guest.throws \/ (guest.throws \cap found) \ guest.tests # {}
  /\ step \notin {"open", "discover"} => roots = {}
  /\ step \in {"plan", "execute", "rejected"} => discoveryOk

\* Something more than an ignored hint is reported by the planner.
Blame == \E i \in planIssues : i.type # "ignored-hint"

\* The planner starts from what discovery has found, and never blocks a target
\* without saying why.
PlannerInv ==
  /\ step \in {"open", "discover"} => planPhase = "unplanned"
  /\ planPhase = "unplanned" => stages = <<>> /\ planBlocked = {}
  /\ planPhase # "unplanned" => PP!PlanInv
  /\ planPhase = "layering" /\ planBlocked # {} => Blame \/ P!InvalidSequence(Discovered) # {}
  /\ planPhase = "planned" /\ planBlocked # {} => Blame

\* A test that has run and came out wrong.
Culprit == \E t \in plan.targets : results[t] # "none" /\ ~ E!Satisfied(t)

\* The executor runs the plan that was made, and adds blocked targets and issues
\* to it only behind a culprit.
ExecutorInv ==
  /\ step \in {"open", "discover", "plan"} => stage = 1 /\ batch = {} /\ runPhase = "select"
  /\ step \notin {"open", "discover", "plan"} /\ discoveryOk =>
       /\ planPhase = "planned" /\ plan = P!PlannedTargets
       /\ EE!Fresh \/ EE!IInv
       /\ (blocked = planBlocked /\ issues = planIssues) \/ Culprit
       /\ runPhase = "done" => stage > Len(plan.stages)
       /\ step \in {"summarise", "done"} => runPhase = "done"
  /\ step = "done" => summary.ok = RunOk

RunInv == DiscoveryInv /\ FoundIsClosed /\ DiscoveryIsHonest /\ PlannerInv /\ ExecutorInv

LEMMA InitRun == Init => RunInv
<1> SUFFICES ASSUME Init PROVE RunInv
  OBVIOUS
<1>1. planPhase = "unplanned" /\ stages = <<>> /\ planBlocked = {}
  BY DEF Init, P!Init
<1> QED BY <1>1, InitDiscovery DEF Init, RunInv, FoundIsClosed, DiscoveryIsHonest, PlannerInv,
        ExecutorInv

\* Discovery.
LEMMA DiscoveryStep ==
  ASSUME DiscoveryInv, FoundIsClosed, DiscoveryIsHonest, [Next]_vars
  PROVE  FoundIsClosed' /\ DiscoveryIsHonest'
<1> DEFINE f == guest.forest
<1>1. CASE DiscoverTopLevel
  <2>1. /\ roots' \subseteq Children(f, NoNode) /\ step = "open" /\ step' = "discover"
        /\ UNCHANGED <<guest, found, failed>>
        /\ \/ NoNode \in guest.throws /\ discoveryOk' = FALSE
           \/ NoNode \notin guest.throws /\ discoveryOk' = discoveryOk /\ roots' = Children(f, NoNode)
    BY <1>1 DEF DiscoverTopLevel
  <2>2. \A n \in roots' : f.parent[n] = NoNode
    BY <2>1 DEF Children
  <2> QED BY <2>1, <2>2 DEF FoundIsClosed, DiscoveryIsHonest
<1>2. CASE OpenBranch
  <2>1. PICK root \in roots :
          roots' = roots \ {root} /\ queue' = <<root>> /\ found' = found \cup {root}
    BY <1>2, OpenedRoot
  <2>2. step = "discover" /\ UNCHANGED <<guest, step, failed, discoveryOk>>
    BY <1>2 DEF OpenBranch
  <2> QED BY <2>1, <2>2 DEF FoundIsClosed, DiscoveryIsHonest
<1>3. CASE DiscoverNode
  <2> DEFINE parent == Head(queue)
  <2>1. /\ step = "discover" /\ parent \in found
        /\ UNCHANGED <<guest, step, roots>>
        /\ \/ found' = found \cup Children(f, parent) /\ UNCHANGED <<failed, discoveryOk>>
           \/ UNCHANGED <<found, failed, discoveryOk>>
           \/ parent \in guest.throws \ guest.tests /\ discoveryOk' = FALSE /\ found' = found
    BY <1>3 DEF DiscoverNode, DiscoveryInv
  <2> HIDE DEF parent
  <2>2. CASE found' = found \cup Children(f, parent) /\ UNCHANGED <<failed, discoveryOk>>
    BY <2>1, <2>2 DEF FoundIsClosed, DiscoveryIsHonest, Children
  <2>3. CASE UNCHANGED <<found, failed, discoveryOk>>
    BY <2>1, <2>3 DEF FoundIsClosed, DiscoveryIsHonest
  <2>4. CASE parent \in guest.throws \ guest.tests /\ discoveryOk' = FALSE /\ found' = found
    BY <2>1, <2>4 DEF FoundIsClosed, DiscoveryIsHonest
  <2> QED BY <2>1, <2>2, <2>3, <2>4
<1>4. CASE CloseDiscovery
  BY <1>4 DEF CloseDiscovery, discoveryVars, FoundIsClosed, DiscoveryIsHonest
<1>5. CASE PlanStages \/ BeginExecution \/ ExecuteStages \/ Summarise \/ UNCHANGED vars
  <2>1. UNCHANGED <<guest, roots, found, failed, discoveryOk>>
    BY <1>5 DEF PlanStages, BeginExecution, ExecuteStages, Summarise, vars, discoveryVars
  <2>2. \/ step' = step
        \/ step = "plan" /\ step' = "execute"
        \/ step = "execute" /\ step' \in {"rejected", "summarise"}
        \/ step = "summarise" /\ step' = "done"
    BY <1>5 DEF PlanStages, BeginExecution, ExecuteStages, Summarise, vars
  <2> QED BY <2>1, <2>2 DEF FoundIsClosed, DiscoveryIsHonest
<1> QED BY <1>1, <1>2, <1>3, <1>4, <1>5 DEF Next

\* The planner.
LEMMA PlanBegins ==
  ASSUME DiscoveryInv, FoundIsClosed, planPhase = "unplanned", stages = <<>>
  PROVE  PP!PlanInv
<1>1. IsForest(guest.forest) /\ found \in SUBSET guest.forest.nodes
  BY DEF DiscoveryInv, IsGuest
<1>2. IsForest(Discovered)
  BY <1>1, PartIsForest DEF FoundIsClosed, Discovered
<1>3. PP!IsForest(Discovered)
  BY <1>2, SameForests
<1>4. PP!StagedAfterPrerequisites /\ PP!StagesDisjoint /\ PP!EachTargetPlannedOnce
  BY PP!NoStages, ComponentAssumptions
<1> QED BY <1>3, <1>4 DEF PP!PlanInv

\* A round of the planner, with the reason for whatever it blocks.
LEMMA PlannerBlames ==
  ASSUME P!Next, planPhase = "unplanned" => planBlocked = {},
         planPhase = "layering" /\ planBlocked # {} => Blame \/ P!InvalidSequence(Discovered) # {}
  PROVE  /\ planPhase' \in {"layering", "planned"}
         /\ planPhase' = "layering" /\ planBlocked' # {} =>
              Blame' \/ P!InvalidSequence(Discovered) # {}
         /\ planPhase' = "planned" /\ planBlocked' # {} => Blame'
<1>1. CASE P!BuildDependencies
  <2>1. /\ planPhase' = "layering" /\ planIssues' = P!DependencyIssues
        /\ planBlocked' = P!Downstream(edges', P!Unresolvable) \cup P!InvalidSequence(Discovered)
    BY <1>1 DEF P!BuildDependencies
  <2>2. P!Downstream(edges', {}) = {}
    <3>1. {} \in SUBSET P!Targets /\ {} \subseteq {} /\ \A e \in edges' : e[1] \in {} => e[2] \in {}
      OBVIOUS
    <3> QED BY <3>1 DEF P!Downstream
  <2>3. ASSUME NEW t \in P!Unresolvable PROVE Blame'
    <3> DEFINE type == IF P!Malformed(Discovered, t) THEN "invalid-constraint" ELSE "missing-dependency"
    <3>1. P!Issue(type, t, P!NoNode) \in planIssues'
      BY <2>1 DEF P!DependencyIssues
    <3>2. P!Issue(type, t, P!NoNode).type # "ignored-hint"
      BY DEF P!Issue
    <3> QED BY <3>1, <3>2 DEF Blame
  <2> QED BY <2>1, <2>2, <2>3
<1>2. CASE P!LayerStage
  BY <1>2 DEF P!LayerStage, Blame
<1>3. CASE P!FinishPlan
  <2> DEFINE cycle == {t \in P!Targets \ planBlocked : prereq[t] > 0}
  <2>1. /\ planPhase = "layering" /\ planPhase' = "planned" /\ planBlocked' = planBlocked \cup cycle
        /\ planIssues' = planIssues \cup {P!Issue("dependency-cycle", t, P!NoNode) : t \in cycle}
                           \cup P!SequenceIssues \cup P!HintIssues
    BY <1>3 DEF P!FinishPlan
  <2> HIDE DEF cycle
  <2>2. ASSUME NEW t \in cycle PROVE Blame'
    <3>1. P!Issue("dependency-cycle", t, P!NoNode) \in planIssues'
      BY <2>1
    <3>2. P!Issue("dependency-cycle", t, P!NoNode).type # "ignored-hint"
      BY DEF P!Issue
    <3> QED BY <3>1, <3>2 DEF Blame
  <2>3. ASSUME NEW t \in P!InvalidSequence(Discovered) PROVE Blame'
    <3>1. P!Issue("invalid-constraint", t, P!NoNode) \in planIssues'
      BY <2>1 DEF P!SequenceIssues
    <3>2. P!Issue("invalid-constraint", t, P!NoNode).type # "ignored-hint"
      BY DEF P!Issue
    <3> QED BY <3>1, <3>2 DEF Blame
  <2>4. Blame => Blame'
    BY <2>1 DEF Blame
  <2> QED BY <2>1, <2>2, <2>3, <2>4
<1> QED BY <1>1, <1>2, <1>3 DEF P!Next

LEMMA PlannerStep ==
  ASSUME DiscoveryInv, FoundIsClosed, PlannerInv, [Next]_vars
  PROVE  PlannerInv'
<1>1. CASE PlanStages
  <2>1. P!Next /\ UNCHANGED <<step, guest, found>> /\ step = "plan"
    BY <1>1 DEF PlanStages, discoveryVars
  <2>2. Discovered' = Discovered /\ P!InvalidSequence(Discovered)' = P!InvalidSequence(Discovered)
    BY <2>1 DEF Discovered, P!InvalidSequence, P!Lineage
  <2>3. PP!PlanInv
    BY PlanBegins DEF PlannerInv
  <2>4. PP!PlanInv'
    <3>1. [PP!Next]_(PP!vars)
      BY <2>1, SamePlanner
    <3> QED BY <2>3, <3>1, ComponentAssumptions, PP!StepInv
  <2> QED BY <2>1, <2>2, <2>4, PlannerBlames DEF PlannerInv
<1>2. CASE UNCHANGED planVars /\ planPhase = "unplanned"
           /\ (step \in {"open", "discover"} \/ step' \notin {"open", "discover"})
  BY <1>2 DEF PlannerInv, planVars
<1>3. CASE UNCHANGED <<planVars, guest, found>> /\ planPhase # "unplanned"
           /\ (step \in {"open", "discover"} \/ step' \notin {"open", "discover"})
  <2>1. Discovered' = Discovered /\ P!InvalidSequence(Discovered)' = P!InvalidSequence(Discovered)
    BY <1>3 DEF Discovered, P!InvalidSequence, P!Lineage
  <2>2. PP!PlanInv'
    <3>1. UNCHANGED PP!vars
      BY <1>3, <2>1 DEF PP!vars, planVars
    <3>2. [PP!Next]_(PP!vars)
      BY <3>1
    <3>3. PP!PlanInv
      BY <1>3 DEF PlannerInv
    <3> QED BY <3>2, <3>3, ComponentAssumptions, PP!StepInv
  <2> QED BY <1>3, <2>1, <2>2 DEF PlannerInv, planVars, Blame
<1>4. CASE DiscoverTopLevel \/ OpenBranch \/ DiscoverNode
  <2>1. step \in {"open", "discover"} /\ UNCHANGED planVars
    BY <1>4 DEF DiscoverTopLevel, OpenBranch, DiscoverNode
  <2> QED BY <1>2, <2>1 DEF PlannerInv
<1>5. CASE CloseDiscovery \/ BeginExecution \/ ExecuteStages \/ Summarise \/ UNCHANGED vars
  <2>1. UNCHANGED <<planVars, guest, found>>
        /\ (step \in {"open", "discover"} \/ step' \notin {"open", "discover"})
    BY <1>5 DEF CloseDiscovery, BeginExecution, ExecuteStages, Summarise, vars, discoveryVars
  <2> QED BY <1>2, <1>3, <2>1
<1> QED BY <1>1, <1>4, <1>5 DEF Next

\* The executor: only a culprit makes it block a target or report an issue.
LEMMA CulpritStep ==
  ASSUME E!Next, EE!TypeOK, UNCHANGED planVars,
         (blocked = planBlocked /\ issues = planIssues) \/ Culprit,
         runPhase = "done" => stage > Len(plan.stages)
  PROVE  /\ plan' = plan
         /\ (blocked' = planBlocked' /\ issues' = planIssues') \/ Culprit'
         /\ runPhase' = "done" => stage' > Len(plan'.stages)
<1>1. UNCHANGED <<planBlocked, planIssues>> /\ batch \subseteq plan.targets
  BY DEF planVars, EE!TypeOK, EE!Targets
<1>2. CASE E!NextStage \/ E!StartBatch \/ E!RejectBatch \/ E!Finish
  BY <1>1, <1>2 DEF E!NextStage, E!StartBatch, E!RejectBatch, E!Finish, Culprit, E!Satisfied
<1>3. ASSUME NEW t \in batch, NEW v \in {"pass", "fail"}, E!FinishTarget(t, v)
      PROVE  /\ plan' = plan
             /\ (blocked' = planBlocked' /\ issues' = planIssues') \/ Culprit'
             /\ runPhase' = "done" => stage' > Len(plan'.stages)
  <2>1. /\ results[t] = "none" /\ results' = [results EXCEPT ![t] = v]
        /\ UNCHANGED <<plan, stage, blocked, issues, runPhase>>
    BY <1>3 DEF E!FinishTarget
  <2>2. ASSUME NEW u \in plan.targets, results[u] # "none", ~ E!Satisfied(u)
        PROVE  Culprit'
    <3>1. results'[u] = results[u]
      BY <2>1, <2>2
    <3>2. ~ E!Satisfied(u)' /\ results'[u] # "none"
      BY <2>1, <2>2, <3>1 DEF E!Satisfied
    <3> QED BY <2>1, <3>2 DEF Culprit
  <2>3. Culprit => Culprit'
    BY <2>2 DEF Culprit
  <2> QED BY <1>1, <2>1, <2>3
<1>4. ASSUME NEW t \in batch, E!RecordResult(t)
      PROVE  /\ plan' = plan
             /\ (blocked' = planBlocked' /\ issues' = planIssues') \/ Culprit'
             /\ runPhase' = "done" => stage' > Len(plan'.stages)
  <2>1. /\ results[t] # "none" /\ UNCHANGED <<plan, stage, results>> /\ runPhase' # "done"
        /\ E!Satisfied(t) => UNCHANGED <<blocked, issues>>
    BY <1>4 DEF E!RecordResult
  <2>2. \A u : E!Satisfied(u)' <=> E!Satisfied(u)
    BY <2>1 DEF E!Satisfied
  <2>3. Culprit => Culprit'
    BY <2>1, <2>2 DEF Culprit
  <2>4. ~ E!Satisfied(t) => Culprit'
    BY <1>1, <2>1, <2>2 DEF Culprit
  <2> QED BY <1>1, <2>1, <2>3, <2>4
<1> QED BY <1>2, <1>3, <1>4 DEF E!Next

LEMMA ExecutionStep ==
  ASSUME ExecutorInv, DiscoveryIsHonest, ExecuteStages
  PROVE  ExecutorInv'
<1>1. /\ step = "execute" /\ E!Next /\ UNCHANGED <<guest, found, discoveryOk, summary, planVars>>
      /\ step' \in {"execute", "rejected", "summarise"}
      /\ step' = "summarise" => runPhase' = "done"
  BY DEF ExecuteStages, discoveryVars
<1>2. /\ discoveryOk /\ planPhase = "planned" /\ plan = P!PlannedTargets
      /\ EE!Fresh \/ EE!IInv
      /\ (blocked = planBlocked /\ issues = planIssues) \/ Culprit
      /\ runPhase = "done" => stage > Len(plan.stages)
  BY <1>1 DEF ExecutorInv, DiscoveryIsHonest
<1>3. EE!IInv
  BY <1>2, ComponentAssumptions, EE!FreshEstablishes
<1>4. EE!IInv'
  <2>1. [EE!Next]_(EE!vars)
    BY <1>1, SameExecutor
  <2> QED BY <1>3, <2>1, ComponentAssumptions, EE!InvStep
<1>5. /\ plan' = plan
      /\ (blocked' = planBlocked' /\ issues' = planIssues') \/ Culprit'
      /\ runPhase' = "done" => stage' > Len(plan'.stages)
  <2>1. EE!TypeOK
    BY <1>3 DEF EE!IInv
  <2> QED BY <1>1, <1>2, <2>1, CulpritStep
<1>6. P!PlannedTargets' = P!PlannedTargets /\ planPhase' = planPhase
  BY <1>1 DEF P!PlannedTargets, P!Targets, Discovered, planVars
<1> QED BY <1>1, <1>2, <1>4, <1>5, <1>6 DEF ExecutorInv

LEMMA BeginStep ==
  ASSUME DiscoveryInv, FoundIsClosed, PlannerInv, ExecutorInv, BeginExecution
  PROVE  ExecutorInv'
<1>1. /\ step = "plan" /\ step' = "execute" /\ planPhase = "planned" /\ plan' = P!PlannedTargets
      /\ results' = [t \in plan'.targets |-> "none"]
      /\ outcome' = [t \in plan'.targets |-> IF t \in planBlocked THEN "blocked" ELSE "none"]
      /\ blocked' = planBlocked /\ issues' = planIssues
      /\ UNCHANGED <<guest, found, discoveryOk, summary, planVars, stage, batch, runPhase>>
  BY DEF BeginExecution, discoveryVars
<1>2. stage = 1 /\ batch = {} /\ runPhase = "select"
  BY <1>1 DEF ExecutorInv
<1>3. P!PlannedTargets' = P!PlannedTargets /\ UNCHANGED <<planPhase, planBlocked, planIssues>>
  BY <1>1 DEF P!PlannedTargets, P!Targets, Discovered, planVars
<1>4. P!PlannedTargets.blocked = planBlocked /\ P!PlannedTargets.issues = planIssues
  BY DEF P!PlannedTargets
<1>5. EE!WellFormedPlan(P!PlannedTargets)
  <2>1. PP!PlanInv
    BY <1>1 DEF PlannerInv
  <2>2. PP!WellFormedPlan(PP!PlannedTargets)
    BY <1>1, <2>1, ComponentAssumptions, PP!PlannedIsWellFormed DEF PP!PlanIsWellFormed
  <2> QED BY <2>2, SamePlan, SamePlans
<1>6. EE!Fresh'
  BY <1>1, <1>2, <1>4, <1>5 DEF EE!Fresh, EE!Targets, EE!WellFormedPlan, EE!IsStaged
<1> QED BY <1>1, <1>2, <1>3, <1>6 DEF ExecutorInv

LEMMA ExecutorStep ==
  ASSUME DiscoveryInv, FoundIsClosed, DiscoveryIsHonest, PlannerInv, ExecutorInv, [Next]_vars
  PROVE  ExecutorInv'
<1>1. CASE DiscoverTopLevel \/ OpenBranch \/ DiscoverNode \/ CloseDiscovery \/ PlanStages
  <2>1. UNCHANGED runVars /\ step \in {"open", "discover", "plan"}
    BY <1>1 DEF DiscoverTopLevel, OpenBranch, DiscoverNode, CloseDiscovery, PlanStages
  <2>2. step' \in {"open", "discover", "plan"} \/ (step' = "summarise" /\ ~ discoveryOk')
    <3>1. CASE CloseDiscovery
      BY <3>1 DEF CloseDiscovery, discoveryVars
    <3>2. CASE DiscoverTopLevel \/ OpenBranch \/ DiscoverNode \/ PlanStages
      BY <3>2 DEF DiscoverTopLevel, OpenBranch, DiscoverNode, PlanStages
    <3> QED BY <1>1, <3>1, <3>2
  <2> QED BY <2>1, <2>2 DEF ExecutorInv, runVars
<1>2. CASE BeginExecution
  BY <1>2, BeginStep
<1>3. CASE ExecuteStages
  BY <1>3, ExecutionStep
<1>4. CASE Summarise \/ UNCHANGED vars
  <2>1. /\ UNCHANGED <<runVars, planVars, guest, found, discoveryOk>>
        /\ \/ step = "summarise" /\ step' = "done" /\ summary'.ok = RunOk
           \/ UNCHANGED <<step, summary>>
    BY <1>4 DEF Summarise, vars, discoveryVars
  <2>2. /\ P!PlannedTargets' = P!PlannedTargets
        /\ RunOk' = RunOk /\ Culprit' = Culprit
    BY <2>1 DEF P!PlannedTargets, P!Targets, Discovered, planVars, runVars, RunOk, PlanningOk,
       Culprit, E!Satisfied
  <2>3. EE!Fresh \/ EE!IInv => EE!Fresh' \/ EE!IInv'
    <3>1. EE!Fresh => EE!IInv
      BY ComponentAssumptions, EE!FreshEstablishes
    <3>2. [EE!Next]_(EE!vars)
      BY <2>1 DEF EE!vars, runVars
    <3> QED BY <3>1, <3>2, ComponentAssumptions, EE!InvStep
  <2>4. UNCHANGED <<plan, stage, batch, blocked, issues, runPhase, planPhase, planBlocked, planIssues>>
    BY <2>1 DEF runVars, planVars
  <2>5. step' = "done" => summary'.ok = RunOk'
    BY <2>1, <2>2 DEF ExecutorInv
  <2>6. CASE step \in {"open", "discover", "plan"}
    BY <2>1, <2>4, <2>5, <2>6 DEF ExecutorInv
  <2>7. CASE step \notin {"open", "discover", "plan"}
    BY <2>1, <2>2, <2>3, <2>4, <2>5, <2>7 DEF ExecutorInv
  <2> QED BY <2>6, <2>7
<1> QED BY <1>1, <1>2, <1>3, <1>4 DEF Next

LEMMA RunStep == RunInv /\ [Next]_vars => RunInv'
BY StepDiscovery, DiscoveryStep, PlannerStep, ExecutorStep DEF RunInv

LEMMA RunInvHolds == Spec => []RunInv
BY InitRun, RunStep, PTL DEF Spec

-----------------------------------------------------------------------------
(***************************************************************************)
(* The verdict of a run.                                                   *)
(***************************************************************************)

\* Every branch begins at the top.
LEMMA RootIsTop ==
  ASSUME NEW f, IsForest(f), NEW n \in f.nodes
  PROVE  Root(f, n) \in Children(f, NoNode)
<1> DEFINE Bad == {m \in f.nodes : Root(f, m) \notin Children(f, NoNode)}
<1>1. Bad = {}
  <2> SUFFICES ASSUME Bad # {} PROVE FALSE
    OBVIOUS
  <2>1. PICK m \in Bad : \A k \in Bad : m <= k
    <3>1. Bad \in SUBSET Nat /\ Bad # {}
      BY DEF IsForest
    <3> HIDE DEF Bad
    <3> QED BY <3>1, LeastNatural
  <2>2. m \in f.nodes /\ Root(f, m) \notin Children(f, NoNode)
    OBVIOUS
  <2>3. f.parent[m] # NoNode
    <3>1. f.parent[m] = NoNode => m \in Children(f, NoNode) /\ Root(f, m) = m
      BY <2>2, RootStep DEF Children
    <3> QED BY <2>2, <3>1
  <2>4. f.parent[m] \in f.nodes /\ f.parent[m] < m /\ f.parent[m] \in Nat /\ m \in Nat
    BY <2>2, <2>3, DomainFacts DEF LineageDomain
  <2>5. f.parent[m] \notin Bad
    <3> HIDE DEF Bad
    <3> QED BY <2>1, <2>4
  <2>6. Root(f, m) = Root(f, f.parent[m])
    BY <2>2, <2>3, RootStep
  <2> QED BY <2>2, <2>4, <2>5, <2>6
<1> QED BY <1>1

\* What was planned has run when the executor is done and nothing is blocked.
LEMMA PlannedHasRun ==
  ASSUME EE!IInv, stage > Len(plan.stages), blocked = {}, NEW t \in plan.targets
  PROVE  results[t] # "none"
<1>1. t \notin plan.blocked /\ outcome[t] # "blocked"
  BY DEF EE!IInv, EE!BlockedAgrees, EE!Targets
<1>2. PICK k \in DOMAIN plan.stages : t \in plan.stages[k]
  BY <1>1 DEF EE!IInv, EE!TypeOK, EE!WellFormedPlan, EE!IsStaged
<1>3. k < stage
  BY DEF EE!IInv, EE!TypeOK, EE!WellFormedPlan
<1>4. outcome[t] # "none"
  BY <1>2, <1>3 DEF EE!IInv, EE!EarlierStagesSettled, EE!Settled
<1>5. outcome[t] \in {"satisfied", "unsatisfied"}
  BY <1>1, <1>4 DEF EE!IInv, EE!TypeOK, EE!Outcomes, EE!Targets
<1> QED BY <1>5 DEF EE!IInv, EE!ExecutedAgrees, EE!Targets

LEMMA GreenRun == RunInv => GreenRunRanEverything
<1> SUFFICES ASSUME RunInv, step = "done", summary.ok, NEW t \in guest.forest.runnable, ~ Hidden(t)
             PROVE  t \in found /\ results[t] # "none" /\ E!Satisfied(t)
  BY DEF GreenRunRanEverything
<1>1. RunOk /\ discoveryOk /\ blocked = {}
  BY DEF RunInv, ExecutorInv, RunOk
<1>2. /\ plan = P!PlannedTargets
      /\ EE!Fresh \/ EE!IInv
      /\ stage > Len(plan.stages)
  BY <1>1 DEF RunInv, ExecutorInv
<1>3. EE!IInv
  BY <1>2, ComponentAssumptions, EE!FreshEstablishes
<1>4. IsForest(guest.forest) /\ t \in guest.forest.nodes /\ found \in SUBSET guest.forest.nodes
  BY DEF RunInv, DiscoveryInv, IsGuest, IsForest
<1>5. t \in found
  <2>1. Root(guest.forest, t) \in found \ failed
    BY <1>1, <1>4, RootIsTop DEF RunInv, DiscoveryIsHonest
  <2> QED BY <1>4, <2>1, NoGaps DEF RunInv, BranchesAreComplete, Root
<1>6. t \in plan.targets
  <2>1. Discovered.runnable = guest.forest.runnable \cap found
    BY <1>4, PartIsForest DEF RunInv, FoundIsClosed, Discovered
  <2>2. plan.targets = Discovered.runnable
    BY <1>2 DEF P!PlannedTargets, P!Targets
  <2> QED BY <1>5, <2>1, <2>2
<1>7. results[t] # "none"
  BY <1>1, <1>2, <1>3, <1>6, PlannedHasRun
<1> QED BY <1>1, <1>5, <1>6, <1>7 DEF RunOk

\* A green run has run every declared test, and each came out as declared.
THEOREM GreenRunsAreComplete == Spec => []GreenRunRanEverything
BY RunInvHolds, GreenRun, PTL

LEMMA RedRun == RunInv => RedRunHasCulprit
<1> SUFFICES ASSUME RunInv, step = "done", ~ summary.ok
             PROVE  \/ NoNode \in guest.throws \/ (guest.throws \cap found) \ guest.tests # {}
                    \/ Blame \/ Culprit
  BY DEF RedRunHasCulprit, Blame, Culprit
<1>1. ~ RunOk
  BY DEF RunInv, ExecutorInv
<1>2. CASE ~ discoveryOk
  BY <1>2 DEF RunInv, DiscoveryIsHonest
<1>3. CASE discoveryOk /\ blocked = planBlocked /\ issues = planIssues
  <2>1. planPhase = "planned"
    BY <1>3 DEF RunInv, ExecutorInv
  <2>2. CASE ~ PlanningOk
    BY <1>3, <2>2 DEF PlanningOk, Blame
  <2>3. CASE blocked # {}
    BY <1>3, <2>1, <2>3 DEF RunInv, PlannerInv
  <2>4. CASE PlanningOk /\ blocked = {}
    BY <1>1, <1>3, <2>4 DEF RunOk, Culprit
  <2> QED BY <2>2, <2>3, <2>4
<1>4. CASE discoveryOk /\ ~ (blocked = planBlocked /\ issues = planIssues)
  BY <1>4 DEF RunInv, ExecutorInv
<1> QED BY <1>2, <1>3, <1>4

\* A red run has a culprit: a body that throws during discovery, bad metadata,
\* or a test that ran and came out wrong.
THEOREM RedRunsAreExplained == Spec => []RedRunHasCulprit
BY RunInvHolds, RedRun, PTL

=============================================================================

------------------------- MODULE DiscoveredForest -------------------------
(***************************************************************************)
(* What discovery hands to the planner of harness/shared/start.cjs: the    *)
(* nodes of all top-level branches with the metadata the guest declared.   *)
(* A node is a positive number, 0 stands for "no node" (the parent of a    *)
(* branch root, the scope of an absent hint).  Numbers follow the identity *)
(* keys: a child's key extends its parent's, so a parent has the smaller   *)
(* number, and numbers break ties of the declaration order as              *)
(* localeCompare on identity keys does.                                    *)
(*                                                                         *)
(* A forest is a record:                                                   *)
(*   nodes      the discovered nodes                                       *)
(*   parent     the parent of each node (0 for a branch root)              *)
(*   order      declarationOrder, local to one guest instance              *)
(*   runnable   the test nodes declared in mode Normal                     *)
(*   sequence   sequenceMode: "inherit", "sequential", "unsupported"       *)
(*   nodeId     the guest's stable node id                                 *)
(*   depIds     dependencyNodeIds, 0 being a malformed entry               *)
(*   mode       preferredRunnerMode: "default", "in-band", "unsupported"   *)
(*   policy     preferredFailurePolicy: "inherit", "continue", "bail",     *)
(*              "unsupported"                                              *)
(*   expectFailure  the nodes declared with expectFailure                  *)
(***************************************************************************)
EXTENDS Naturals, FiniteSets, FiniteSetsExt

NoNode == 0

SequenceModes == {"inherit", "sequential", "unsupported"}
RunnerModes == {"default", "in-band", "unsupported"}
FailurePolicies == {"inherit", "continue", "bail", "unsupported"}

IsForest(f) ==
  /\ DOMAIN f = {"nodes", "parent", "order", "runnable", "sequence", "nodeId", "depIds",
                 "mode", "policy", "expectFailure"}
  /\ f.nodes \subseteq Nat \ {NoNode}
  /\ IsFiniteSet(f.nodes)
  /\ f.runnable \subseteq f.nodes
  /\ f.expectFailure \subseteq f.nodes
  /\ \A n \in f.nodes :
       /\ f.parent[n] \in f.nodes \cup {NoNode}
       /\ f.parent[n] < n
       /\ f.order[n] \in Nat
       /\ f.sequence[n] \in SequenceModes
       /\ f.nodeId[n] \in Nat
       /\ f.depIds[n] \subseteq Nat
       /\ f.mode[n] \in RunnerModes
       /\ f.policy[n] \in FailurePolicies
       /\ \A m \in f.nodes :
            m # n /\ f.parent[m] = f.parent[n] => f.nodeId[m] # f.nodeId[n]

(***************************************************************************)
(* The tree.                                                               *)
(***************************************************************************)

\* The nodes on the path from n to its branch root, n included.
Lineage(f, n) ==
  LET up[m \in f.nodes \cup {NoNode}] ==
        IF m = NoNode THEN {} ELSE {m} \cup up[f.parent[m]]
  IN  up[n]

InScope(f, n, scope) == scope \in Lineage(f, n)

\* compareNodeDeclarationOrder: declaration order, then identity.
Before(f, a, b) ==
  \/ f.order[a] < f.order[b]
  \/ f.order[a] = f.order[b] /\ a < b

\* A deeper node of a lineage has the larger number.
Nearest(S) == IF S = {} THEN NoNode ELSE Max(S)

\* Discovery replays one path of the tree in a fresh guest instance, which
\* numbers the declarations it meets: all children of the root and of every
\* ancestor above the parent of n, then the siblings of n.
Children(f, p) == {n \in f.nodes : f.parent[n] = p}

DeclaredBefore(f, n) ==
  LET p == f.parent[n]
      above == IF p = NoNode THEN {} ELSE (Lineage(f, p) \ {p}) \cup {NoNode}
  IN  Cardinality({m \in f.nodes : f.parent[m] \in above})
        + Cardinality({m \in Children(f, p) : m < n})

(***************************************************************************)
(* Hints: the nearest declaration that is not the default decides, whether *)
(* or not the host supports its value.                                     *)
(***************************************************************************)

PolicyScope(f, n) == Nearest({a \in Lineage(f, n) : f.policy[a] # "inherit"})

ModeScope(f, n) == Nearest({a \in Lineage(f, n) : f.mode[a] # "default"})

\* The scope whose members stop after one of them fails, 0 if n has none.
BailScope(f, n) ==
  LET s == PolicyScope(f, n)
  IN  IF s # NoNode /\ f.policy[s] = "bail" THEN s ELSE NoNode

InBand(f, n) ==
  LET s == ModeScope(f, n) IN s # NoNode /\ f.mode[s] = "in-band"

(***************************************************************************)
(* Dependencies: an id names a runnable test declared in the dependent's   *)
(* own scope or else in the nearest enclosing one.                         *)
(***************************************************************************)

Malformed(f, t) == 0 \in f.depIds[t]

ScopeChain(f, t) == (Lineage(f, t) \ {t}) \cup {NoNode}

Registered(f, scope, id) ==
  {u \in f.runnable : f.parent[u] = scope /\ f.nodeId[u] = id}

Resolve(f, t, id) ==
  LET scopes == {s \in ScopeChain(f, t) : Registered(f, s, id) # {}}
  IN  IF scopes = {} THEN NoNode
      ELSE CHOOSE u \in Registered(f, Max(scopes), id) : TRUE

Dependencies(f, t) == {Resolve(f, t, id) : id \in f.depIds[t]} \ {NoNode}

MissingIds(f, t) == {id \in f.depIds[t] : Resolve(f, t, id) = NoNode}

(***************************************************************************)
(* The execution graph: an edge <<a, b>> means a must be settled before b. *)
(***************************************************************************)

AncestorEdges(f) ==
  {<<Nearest((Lineage(f, t) \ {t}) \cap f.runnable), t>> : t \in f.runnable}

\* Mutant of SequentialEdges: the members of nested suites are not chained.
DirectSequentialEdges(f) ==
  UNION {LET members == {t \in f.runnable : s \in {t, f.parent[t]}}
         IN  {e \in members \X members :
                /\ Before(f, e[1], e[2])
                /\ ~ \E c \in members : Before(f, e[1], c) /\ Before(f, c, e[2])}
         : s \in {n \in f.nodes : f.sequence[n] = "sequential"}}

SequentialEdges(f) ==
  UNION {LET members == {t \in f.runnable : InScope(f, t, s)}
         IN  {e \in members \X members :
                /\ Before(f, e[1], e[2])
                /\ ~ \E c \in members : Before(f, e[1], c) /\ Before(f, c, e[2])}
         : s \in {n \in f.nodes : f.sequence[n] = "sequential"}}

DependencyEdges(f) ==
  UNION {{<<d, t>> : d \in Dependencies(f, t)} :
           t \in {u \in f.runnable : ~ Malformed(f, u)}}

\* addExecutionDependency ignores an absent source and a self edge.
Edges(f) ==
  {e \in AncestorEdges(f) \cup SequentialEdges(f) \cup DependencyEdges(f) :
     e[1] # NoNode /\ e[1] # e[2]}

\* Targets under a scope whose sequenceMode the host does not know.
InvalidSequence(f) ==
  {t \in f.runnable : \E s \in Lineage(f, t) : f.sequence[s] = "unsupported"}

=============================================================================

----------------------------- MODULE MCPlanner -----------------------------
(* Small sets of discovered forests for Planner. *)
EXTENDS Planner

Plain(N) ==
  [nodes |-> N, parent |-> [n \in N |-> 0], order |-> [n \in N |-> n - 1],
   runnable |-> N, sequence |-> [n \in N |-> "inherit"],
   nodeId |-> [n \in N |-> n], depIds |-> [n \in N |-> {}],
   mode |-> [n \in N |-> "default"], policy |-> [n \in N |-> "inherit"],
   expectFailure |-> {}]

\* Three top-level tests with any dependency ids, bad and unknown ones too.
GraphForests ==
  {[Plain(1..3) EXCEPT !.depIds = d] : d \in [1..3 -> SUBSET (1..4) \cup {{0, 1}}]}

\* Numbers run in preorder, as identity keys sort.
IsPreorder(p) ==
  \A n \in DOMAIN p : n > 1 =>
    \/ p[n] \in {0, n - 1}
    \/ \E m \in 1..(n - 2) : p[n] = p[m + 1] /\ \A i \in (m + 1)..(n - 1) : p[i] >= p[n]

Parents(k) == {p \in [1..k -> 0..(k - 1)] : (\A n \in 1..k : p[n] < n) /\ IsPreorder(p)}

\* The forest a guest with these declarations reports.
Numbered(f) ==
  [f EXCEPT !.order = [n \in f.nodes |-> DeclaredBefore(f, n)],
            !.nodeId = [n \in f.nodes |-> DeclaredBefore(f, n) + 1]]

AtMostOne(N, default, S) ==
  {[n \in N |-> default]} \cup
    {[[n \in N |-> default] EXCEPT ![m] = v] : m \in N, v \in S}

\* Every tree of four nodes, at most one sequence mode and one dependency.
TreeForests ==
  {[Numbered([Plain(1..4) EXCEPT !.parent = p]) EXCEPT
      !.runnable = r, !.sequence = s, !.depIds = d] :
     p \in Parents(4), r \in {R \in SUBSET (1..4) : Cardinality(R) >= 2},
     s \in AtMostOne(1..4, "inherit", {"sequential", "unsupported"}),
     d \in AtMostOne(1..4, {}, {{i} : i \in 1..4})}

GraphAndTreeForests == GraphForests \cup TreeForests

=============================================================================

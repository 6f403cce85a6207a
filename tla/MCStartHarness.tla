--------------------------- MODULE MCStartHarness ---------------------------
(* Small guests for StartHarness. *)
EXTENDS StartHarness

Numbered(f) ==
  [f EXCEPT !.order = [n \in f.nodes |-> DeclaredBefore(f, n)],
            !.nodeId = [n \in f.nodes |-> DeclaredBefore(f, n) + 1]]

MakeForest(N, parent, tests) ==
  Numbered([nodes |-> N, parent |-> parent, order |-> [n \in N |-> 0],
            runnable |-> tests, sequence |-> [n \in N |-> "inherit"],
            nodeId |-> [n \in N |-> n], depIds |-> [n \in N |-> {}],
            mode |-> [n \in N |-> "default"], policy |-> [n \in N |-> "inherit"],
            expectFailure |-> {}])

\* Two branches, a nested suite, any of the nodes throwing in discovery.
Shapes ==
  {<<0, 1, 2, 0>>, <<0, 1, 1, 0>>, <<0, 0, 2, 2>>, <<0, 0, 2, 3>>}

DiscoveryGuests ==
  {[forest |-> MakeForest(1..4, p, t), tests |-> t, throws |-> x] :
     p \in Shapes, t \in {{2, 3, 4}, {3, 4}, {1, 4}, {1, 2, 3, 4}}, x \in SUBSET (0..4)}

\* A bail suite of two tests and one of its own, with dependencies among
\* them, an unsupported hint and a test that is expected to fail.
PlanGuests ==
  {[forest |-> [MakeForest(1..4, <<0, 1, 1, 0>>, {2, 3, 4}) EXCEPT
                  !.policy = <<p, "inherit", "inherit", "inherit">>,
                  !.mode = <<"default", "default", q, "default">>, !.depIds = [n \in 1..4 |->
                     IF n = 4 THEN d ELSE IF n = 3 THEN e ELSE {}],
                  !.sequence = <<s, "inherit", "inherit", "inherit">>,
                  !.expectFailure = x],
    tests |-> {2, 3, 4}, throws |-> {}] :
     p \in {"inherit", "bail"}, q \in {"default", "unsupported"},
     d \in {{}, {1}, {9}, {2}}, e \in {{}, {1}, {9}, {0}, {2}},
     s \in {"inherit", "sequential", "unsupported"}, x \in {{}, {2}}}

DiscoveryAndPlanGuests == DiscoveryGuests \cup PlanGuests

=============================================================================

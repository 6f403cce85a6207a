---------------------------- MODULE MCHostEvents ----------------------------
(* Events of a guest with tests [0] and [1], and [1,0] below the second. *)
EXTENDS HostEvents

Nodes == {[nodeIndex |-> <<>>, nodeId |-> 0], [nodeIndex |-> <<0>>, nodeId |-> 1],
          [nodeIndex |-> <<1>>, nodeId |-> 2], [nodeIndex |-> <<1, 0>>, nodeId |-> 3]}

Event(kind, n, rest) == [kind |-> kind, nodeIndex |-> n.nodeIndex, nodeId |-> n.nodeId] @@ rest

Found(n, deps, name) ==
  Event("nodeFound", n,
        [parentNodeId |-> 2, declarationOrder |-> 300, nodeKind |-> 1, declarationMode |-> 2,
         sequenceMode |-> 1, only |-> TRUE, expectFailure |-> FALSE, preferredRunnerMode |-> 1,
         preferredFailurePolicy |-> 2, dependencyNodeIds |-> deps, name |-> name])

Crumb(file) ==
  [kind |-> 2, nodeKind |-> 1, hookKind |-> 0, nodeIndex |-> <<1, 0>>, name |-> <<97>>,
   sourceFile |-> file, sourceLine |-> 258, sourceColumn |-> 0]

Debug(crumbs, values, file) ==
  [kind |-> "debug", source |-> 2, values |-> values, crumbs |-> crumbs, message |-> <<98, 99>>,
   locationFile |-> file, locationLine |-> 7, locationColumn |-> 0]

SomeEvents ==
  {Event("nodeStart", n, <<>>) : n \in Nodes}
    \cup {Event("callbackStart", n, [hook |-> 2]) : n \in Nodes}
    \cup {Event("callbackFail", n, [hook |-> 3, failureKind |-> 1]) : n \in Nodes}
    \cup {Event("nodeFail", n, [failureKind |-> 2]) : n \in Nodes}
    \cup {Found([nodeIndex |-> <<1, 0>>, nodeId |-> 3], <<1, 256>>, <<97, 98, 99>>),
          Found([nodeIndex |-> <<0>>, nodeId |-> 1], <<>>, <<>>)}
    \cup {[kind |-> "failMessage", message |-> <<>>], [kind |-> "failMessage", message |-> <<97>>]}
    \cup {[kind |-> "diagnostic", nodeIndex |-> <<1>>, message |-> <<97, 98, 99, 100, 101>>]}
    \cup {Debug(<<Crumb(<<>>), Crumb(<<102>>)>>, <<5, 6>>, <<103>>), Debug(<<>>, <<>>, <<>>)}

TraceCalls ==
  {[message |-> <<97>>, n |-> n, args |-> <<1, 2, 3, 4, 5>>] : n \in {-1, 0, 2, 6}}

Listening ==
  {{"nodeStart", "nodeFail", "nodeFound", "log", "debug"},
   {"callbackStart", "callbackFail", "diagnostic", "failMessage"}}
=============================================================================

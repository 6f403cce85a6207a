------------------------------ MODULE MCValues ------------------------------
(* Two families of object graphs: rings of class instances, and collections of  *)
(* strings and instances that hold the collections in turn.                     *)
EXTENDS PartialMatch

CONSTANTS n1, n2, n3, c1, c2, null

Nodes == {n1, n2, n3}
SomeRefs == Nodes \cup {c1, c2}
Texts == {"a", "ab"}
SomeClasses == {"Node", "Derived"}
SomeShapes == [c \in {"Node[]", "Set of Node", "Map to Node"} |->
                 CASE c = "Node[]" -> "Array" [] c = "Set of Node" -> "Set" [] OTHER -> "Map"]
SomeCollections == DOMAIN SomeShapes
SomeLineage == [c \in SomeClasses |-> {c, "Node"}]
SomeIncludes == {<<"a", "a">>, <<"ab", "ab">>, <<"ab", "a">>}

Empty(kind) == [type |-> kind, items |-> <<>>]

\* Rings: each instance has a text and a next one; two of them may be derived.
Rings ==
  {[r \in SomeRefs |-> IF r \in Nodes THEN [type |-> class[r], items |-> <<text[r], next[r]>>]
                                      ELSE Empty("Node[]")] :
     class \in {f \in [Nodes -> SomeClasses] : f[n3] = "Node"},
     text \in {f \in [Nodes -> Texts] : f[n1] = "a"}, next \in [Nodes -> Nodes \cup {null}]}

\* Collections of up to two elements, or entries.
Contents(kind) ==
  CASE Shape[kind] = "Array" -> {<<>>} \cup [1..1 -> Nodes] \cup [1..2 -> Nodes]
    [] Shape[kind] = "Set" -> {<<>>} \cup [1..1 -> Nodes] \cup {s \in [1..2 -> Nodes] : s[1] # s[2]}
    [] Shape[kind] = "Map" -> {<<>>} \cup {<<k, v>> : k \in Texts, v \in Nodes \ {n3}}
                         \cup {<<"a", v, "ab", w>> : v, w \in Nodes \ {n3}}
                         \cup {<<"ab", v, "a", w>> : v, w \in Nodes \ {n3}}

Shelves ==
  UNION {
    {[r \in SomeRefs |->
        CASE r \in Nodes -> [type |-> "Node", items |-> <<text[r], IF held[r] THEN IF r = n1 THEN c1 ELSE c2 ELSE null>>]
          [] r = c1 -> [type |-> kind, items |-> one]
          [] r = c2 -> [type |-> kind, items |-> two]] :
       text \in {f \in [Nodes -> Texts] : f[n1] = "a"},
       held \in {f \in [Nodes -> BOOLEAN] : f[n1] = f[n2] /\ ~f[n3]},
       one \in Contents(kind), two \in Contents(kind)} : kind \in Collection}

SomeHeaps == Rings \cup Shelves
=============================================================================

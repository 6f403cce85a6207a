---------------------------- MODULE PartialMatch ----------------------------
(****************************************************************************)
(* The partial match of the guest's assertions (internal/partial-match.ts)  *)
(* over the reflected copies of two values (internal/reflected-value.ts),   *)
(* beside the deep equality it shares its object graphs with.  A reflected  *)
(* copy is a finite tree: a reference met again below itself is shown as a  *)
(* circular reference, of which only the type is kept.  The copies are not  *)
(* built here; what a copy shows of a value is read off the graph and the   *)
(* references above it (activeReflectedValueReferences).                    *)
(****************************************************************************)
EXTENDS DeepEquality, FiniteSetsExt

CONSTANTS
  Shape,      \* what each collection type is: an array, a set or a map
  Includes    \* the pairs <<a, e>> of primitives with a matching e: the
              \* same, or a string and a part of it

\* The values here have a reflected copy: functions, of which it shows nothing
\* and which match nothing, are left out.
ASSUME ShapeAssumption == Shape \in [Collection -> {"Array", "Set", "Map"}]
ASSUME NameAssumption ==
  Class \cap {"Null", "Primitive", "CircularReference", "Array", "Set", "Map"} = {}
ASSUME IncludesAssumption == \A p \in Prim : <<p, p>> \in Includes

\* A value as it is met in a copy: with the references above it.
Sight == Value \X SUBSET Ref
Sights == Sight \X Sight

\* What the copy says it is.
Circular(s) == s[1] \in s[2]
KindOf(r) == IF heap[r].type \in Collection THEN Shape[heap[r].type] ELSE heap[r].type
Kind(s) ==
  CASE s[1] = Null -> "Null"
    [] s[1] \in Prim \ {Null} -> "Primitive"
    [] s[1] \in Ref /\ Circular(s) -> "CircularReference"
    [] s[1] \in Ref /\ ~Circular(s) -> KindOf(s[1])

Held(s) == Items(s[1])
Below(s, n) == <<Held(s)[n], s[2] \cup {s[1]}>>

\* The parts a collection is matched by: the elements, or the entries of a map.
Parts(r) ==
  IF KindOf(r) = "Map"
  THEN [n \in 1..(Len(Items(r)) \div 2) |-> {2 * n - 1, 2 * n}]
  ELSE [n \in 1..Len(Items(r)) |-> {n}]

\* Parts 1..count of the expected collection in turn take the first unused part
\* of the actual one that matches, and keep it: fits holds the matching pairs.
FirstFitReused(fits, count) == \A n \in 1..count : \E fit \in fits : fit[2] = n

LastFit(fits, count) ==
  LET used[n \in 0..count] ==
        IF n = 0 THEN {}
        ELSE LET free == {fit[1] : fit \in {x \in fits : x[2] = n}} \ used[n - 1]
             IN  used[n - 1] \cup (IF free = {} THEN {} ELSE {Max(free)})
  IN  Cardinality(used[count]) = count

FirstFit(fits, count) ==
  LET used[n \in 0..count] ==
        IF n = 0 THEN {}
        ELSE LET free == {fit[1] : fit \in {x \in fits : x[2] = n}} \ used[n - 1]
             IN  used[n - 1] \cup (IF free = {} THEN {} ELSE {Min(free)})
  IN  Cardinality(used[count]) = count
-----------------------------------------------------------------------------
\* Item n of what is expected, e, matches item m of what is there, a, as matches
\* says of the pairs of values below a and e.
Part(matches, a, m, e, n) == matches[<<Below(a, m), Below(e, n)>>]

\* The expected elements are the first of the actual ones.
ArrayLikeMatches(matches, a, e) ==
  /\ Len(Held(a)) >= Len(Held(e))
  /\ \A n \in DOMAIN Held(e) : Part(matches, a, n, e, n)

\* Elements, or entries with both their key and their value, in any order.
KeyedMatches(matches, a, e) ==
  LET Fits(ms, ns) == /\ Part(matches, a, Min(ms), e, Min(ns))
                      /\ Part(matches, a, Max(ms), e, Max(ns))
  IN  /\ Len(Held(a)) >= Len(Held(e))
      /\ FirstFit({x \in (DOMAIN Parts(a[1])) \X (DOMAIN Parts(e[1])) :
                     Fits(Parts(a[1])[x[1]], Parts(e[1])[x[2]])}, Len(Parts(e[1])))

\* Instances of one class, which have the same members.
ClassMatches(matches, a, e) == \A n \in DOMAIN Held(e) : Part(matches, a, n, e, n)

Matches(matches, a, e) ==
  /\ Kind(a) = Kind(e)
  /\ CASE Kind(e) = "Null" -> TRUE
       [] Kind(e) = "Primitive" -> <<a[1], e[1]>> \in Includes
       [] Kind(e) = "CircularReference" -> heap[a[1]].type = heap[e[1]].type
       [] Kind(e) = "Array" -> ArrayLikeMatches(matches, a, e)
       [] Kind(e) \in {"Set", "Map"} -> KeyedMatches(matches, a, e)
       [] Kind(e) \in Class -> ClassMatches(matches, a, e)

IsPartialMatch(a, e) ==
  LET matches[q \in Sights] == Matches(matches, q[1], q[2])
  IN  matches[<< <<a, {}>>, <<e, {}>> >>]
-----------------------------------------------------------------------------
\* Expected p[2] is a part of actual p[1], the parts being taken from R: some
\* assignment of the parts of the one to different parts of the other fits.
PartOf(p, R) ==
  LET Within(a, e) ==
        \/ a = Null /\ e = Null
        \/ <<a, e>> \in R \cup Includes
      ItemsFit(m, n) == Within(Items(p[1])[m], Items(p[2])[n])
      Assigns(f) ==
        /\ \A n, o \in DOMAIN f : f[n] = f[o] => n = o
        /\ \A n \in DOMAIN f : /\ ItemsFit(Min(Parts(p[1])[f[n]]), Min(Parts(p[2])[n]))
                               /\ ItemsFit(Max(Parts(p[1])[f[n]]), Max(Parts(p[2])[n]))
  IN  /\ KindOf(p[1]) = KindOf(p[2])
      /\ IF KindOf(p[2]) \in {"Set", "Map"}
         THEN \E f \in [DOMAIN Parts(p[2]) -> DOMAIN Parts(p[1])] : Assigns(f)
         ELSE /\ Len(Items(p[1])) >= Len(Items(p[2]))
              /\ \A n \in DOMAIN Items(p[2]) : ItemsFit(n, n)

\* The pairs of which the one is in the other when references are followed
\* without end: of all pairs, those are dropped that rest on a dropped one.
Contained ==
  LET largest[R \in SUBSET Pair] ==
        LET kept == {p \in R : PartOf(p, R)} IN IF kept = R THEN R ELSE largest[kept]
  IN  largest[Pair]

\* No path from r comes back to where it was: there is no set of references
\* with r that each hold another of the set.
CircleFree(r) ==
  ~ \E S \in SUBSET Ref : r \in S /\ \A s \in S : Elements(Items(s)) \cap S # {}

\* A partial match that succeeds is right: there is a way to find all of the
\* expected value in the actual one (matchesReflectedPartial), as long as neither
\* is circular, for of a circular reference only the type is compared.
PartialMatchIsContained ==
  /\ Answered(Result)
  /\ CircleFree(question[1]) /\ CircleFree(question[2])
  /\ IsPartialMatch(question[1], question[2])
  => question \in Contained

\* Values that are deeply equal match each other partially, and every value
\* matches itself, circular or not: the first-fit search through sets and maps
\* (findMatchingSetValueIndex) may miss a match, but not one in the same order.
EqualValuesMatchPartially ==
  /\ Answered({"Match"})
  /\ Same(question) \/ (CircleFree(question[1]) /\ CircleFree(question[2]))
  => IsPartialMatch(question[1], question[2])
=============================================================================

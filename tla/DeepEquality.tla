---------------------------- MODULE DeepEquality ----------------------------
(****************************************************************************)
(* The deep strict equality of the guest, as the assertions use it          *)
(* (internal/strict-equality.ts, isDeepStrictlyEqual of assert-bridge.ts,   *)
(* and the class hook that createStrictEqualsMember.ts generates): a        *)
(* depth-first walk over two object graphs that may be cyclic.  Two arrays  *)
(* kept in the guest's globals steer it: the pairs whose comparison is in   *)
(* progress (met again, they are deferred) and the pairs that came out      *)
(* equal.  A getter that the walk reads may trap, which abandons the walk   *)
(* and leaves both arrays as they are for the next comparison to reset.     *)
(*                                                                          *)
(* An object is a type and the sequence of the values it holds: elements,   *)
(* the keys and values of a map alternately, or the members of a class,     *)
(* those of its base first.  What has no parts that are compared in turn    *)
(* (numbers, strings, buffers, functions) is a primitive value.             *)
(****************************************************************************)
EXTENDS Integers, Sequences, FiniteSets

CONSTANTS
  Ref,        \* references of objects
  Prim,       \* primitive values
  Null,       \* the null reference
  Collection, \* the array, set and map types of the guest's program
  Class,      \* its classes
  Lineage,    \* for each class: itself and the classes it extends
  Heaps       \* the object graphs a comparison may be given

Value == Ref \cup Prim \cup {Null}
Object == [type : Class \cup Collection, items : Seq(Value)]

\* Two references of one static type: instances, or collections of one type.
OneKind(h, l, r) == {h[l].type, h[r].type} \subseteq Class \/ h[l].type = h[r].type

\* What two objects of one type hold at one place has one static type, and the
\* objects of a class have the same members.
Typed(h) == \A l, r \in Ref : h[l].type = h[r].type =>
  /\ h[l].type \in Class => Len(h[l].items) = Len(h[r].items)
  /\ \A i \in DOMAIN h[l].items \cap DOMAIN h[r].items :
       {h[l].items[i], h[r].items[i]} \subseteq Ref => OneKind(h, h[l].items[i], h[r].items[i])

ASSUME RefAssumption == IsFiniteSet(Ref)
ASSUME ValueAssumption == Ref \cap (Prim \cup {Null}) = {}
ASSUME ClassAssumption ==
  /\ Class \cap Collection = {}
  /\ Lineage \in [Class -> SUBSET Class]
  /\ \A c \in Class : c \in Lineage[c]
ASSUME HeapAssumption == \A h \in Heaps : h \in [Ref -> Object] /\ Typed(h)

VARIABLES
  heap,       \* the object graph
  question,   \* the pair asked about, or Idle
  active,     \* activeStrictEqualityReferencePairs
  proven,     \* provenStrictEqualityReferencePairs
  frames,     \* the comparisons in progress, outermost first
  ret         \* what the comparison that ended last returns

vars == <<heap, question, active, proven, frames, ret>>

Idle == <<>>
Pair == Ref \X Ref
Frame == [left : Ref, right : Ref, next : Nat \ {0}]
Result == {"Match", "Defer", "Fail"}
Pending == "Pending"

Items(r) == heap[r].items
Top == frames[Len(frames)]
Item(l, r, i) == <<Items(l)[i], Items(r)[i]>>
Same(p) == p[1] = p[2]
Elements(s) == {s[i] : i \in DOMAIN s}

\* Collections need the same number of elements; the hook of a class wants the
\* other object to be of the class itself, and then calls the hook of the base
\* class, which wants it to be of the base class.
Admitted(l, r) ==
  IF heap[l].type \in Class
  THEN \A c \in Lineage[heap[l].type] : heap[r].type = c
  ELSE Len(Items(l)) = Len(Items(r))

Init ==
  /\ heap \in Heaps
  /\ question = Idle
  /\ active = <<>>
  /\ proven = {}
  /\ frames = <<>>
  /\ ret = Pending
-----------------------------------------------------------------------------
\* The tests that open every comparison: the answers that need no walk.
AnswersByLeft(p, ps, known) ==
  IF Same(p) THEN "Match"
  ELSE IF p \notin Pair THEN "Fail"
  ELSE IF \E q \in known : q[1] = p[1] THEN "Match"
  ELSE IF p \in Elements(ps) THEN "Defer"
  ELSE Pending

Answers(p, ps, known) ==
  IF Same(p) THEN "Match"
  ELSE IF p \notin Pair THEN "Fail"
  ELSE IF p \in known THEN "Match"
  ELSE IF p \in Elements(ps) THEN "Defer"
  ELSE Pending

\* A comparison of p begins on top of fs, with the pairs ps in progress.
Compare(p, fs, ps, known) ==
  /\ ret' = Answers(p, ps, known)
  /\ proven' = known
  /\ IF ret' = Pending
     THEN /\ frames' = Append(fs, [left |-> p[1], right |-> p[2], next |-> 1])
          /\ active' = Append(ps, p)
     ELSE /\ frames' = fs
          /\ active' = ps

\* Both sides of an assertion have one static type.
Alike(p) == OneKind(heap, p[1], p[2])

\* An assertion asks whether two objects are equal: the tracking is reset.
AskUnreset(p) ==
  /\ question = Idle
  /\ Alike(p)
  /\ question' = p
  /\ Compare(p, <<>>, active, proven)
  /\ UNCHANGED heap

Ask(p) ==
  /\ question = Idle
  /\ Alike(p)
  /\ question' = p
  /\ Compare(p, <<>>, <<>>, {})
  /\ UNCHANGED heap

Walking == frames # <<>> /\ ret = Pending

\* The next elements, entries or members are compared.
CompareItem ==
  /\ Walking
  /\ Admitted(Top.left, Top.right)
  /\ Top.next <= Len(Items(Top.left))
  /\ Compare(Item(Top.left, Top.right, Top.next), frames, active, proven)
  /\ UNCHANGED <<heap, question>>

\* They did not differ: a deferred pair counts as equal here.
Accepted(result) == result # "Fail"

TakeItem ==
  /\ frames # <<>>
  /\ ret # Pending
  /\ Accepted(ret)
  /\ frames' = [frames EXCEPT ![Len(frames)].next = @ + 1]
  /\ ret' = Pending
  /\ UNCHANGED <<heap, question, active, proven>>

\* The innermost comparison ends: its pair is no longer in progress.
Leave(result) ==
  /\ ret' = result
  /\ frames' = SubSeq(frames, 1, Len(frames) - 1)
  /\ active' = SubSeq(active, 1, Len(active) - 1)
  /\ UNCHANGED <<heap, question>>

\* All parts are equal: the pair is recorded.
Close ==
  /\ Walking
  /\ Admitted(Top.left, Top.right)
  /\ Top.next > Len(Items(Top.left))
  /\ proven' = proven \cup {<<Top.left, Top.right>>}
  /\ Leave("Match")

\* Sizes or types differ, or one of the parts does.
Differ ==
  /\ frames # <<>>
  /\ \/ Walking /\ ~Admitted(Top.left, Top.right)
     \/ ret # Pending /\ ~Accepted(ret)
  /\ UNCHANGED proven
  /\ Leave("Fail")

\* A getter of a class traps: the walk is gone, its tracking stays.
Trap ==
  /\ Walking
  /\ heap[Top.left].type \in Class
  /\ Top.next <= Len(Items(Top.left))
  /\ question' = Idle
  /\ frames' = <<>>
  /\ UNCHANGED <<heap, active, proven, ret>>

\* The assertion has its answer; the tracking is reset once more.
Answer ==
  /\ question # Idle
  /\ frames = <<>>
  /\ question' = Idle
  /\ active' = <<>>
  /\ proven' = {}
  /\ ret' = Pending
  /\ UNCHANGED <<heap, frames>>

Next ==
  \/ \E p \in Pair : Ask(p)
  \/ CompareItem \/ TakeItem \/ Close \/ Differ \/ Trap \/ Answer

Spec == Init /\ [][Next]_vars
-----------------------------------------------------------------------------
\* What equality of a pair rests on: the objects are alike, and their parts are
\* the same or pairs of R.
Supported(p, R) ==
  /\ Admitted(p[1], p[2])
  /\ \A i \in DOMAIN Items(p[1]) :
       Same(Item(p[1], p[2], i)) \/ Item(p[1], p[2], i) \in R

\* A set of pairs, each equal if the others are: the objects of each pair cannot
\* be told apart by following their parts, however often.
Bisimulation(R) == \A p \in R : Supported(p, R)

\* The pairs that cannot be told apart: of all pairs, those are dropped that
\* rest on a dropped one, until none is left.
Bisimilar ==
  LET largest[R \in SUBSET Pair] ==
        LET kept == {p \in R : Supported(p, R)} IN IF kept = R THEN R ELSE largest[kept]
  IN  largest[Pair]

Answered(results) == question # Idle /\ frames = <<>> /\ ret \in results

TypeOK ==
  /\ heap \in Heaps
  /\ question \in Pair \cup {Idle}
  /\ active \in Seq(Pair)
  /\ proven \in SUBSET Pair
  /\ frames \in Seq(Frame)
  /\ ret \in Result \cup {Pending}

\* A comparison that ends with "equal" has a proof of it: the pairs recorded on
\* the way hold each other up, without the pairs that were taken on credit while
\* they were in progress (the deferred results of hasActiveStrictEqualityReferencePair),
\* and without anything left over from a comparison that trapped.
MatchIsProved ==
  Answered({"Match", "Defer"}) =>
    /\ Same(question) \/ question \in proven
    /\ Bisimulation(proven)

\* Deep equality answers what following the references without end would answer
\* (compareStrictEqualityValue and the generated hooks), for cyclic objects too,
\* and in whatever state a trapped comparison left the tracking.
AgreesWithUnfolding ==
  Answered(Result) => ((ret # "Fail") = (Same(question) \/ question \in Bisimilar))

\* No pair is in progress twice, so that a walk over cyclic objects comes to an
\* end: the check against activeStrictEqualityReferencePairs, which outlives
\* the traps of earlier walks, sees every comparison on the stack.
NoPairTwice ==
  question # Idle =>
    \A i, j \in DOMAIN frames :
      frames[i].left = frames[j].left /\ frames[i].right = frames[j].right => i = j
=============================================================================

------------------------ MODULE DeepEquality_proofs ------------------------
(****************************************************************************)
(* For every set of object graphs, cyclic or not: an answer "equal" is held *)
(* up by the recorded pairs alone, no pair is compared inside itself, and   *)
(* an answer "different" is never given of objects that cannot be told      *)
(* apart.  The invariant is about credit: the pairs in progress and the     *)
(* recorded ones together back every part that was accepted so far, and     *)
(* when the walk is over no pair is in progress any more.                   *)
(*                                                                          *)
(* Of the partial match: its first-fit search gives each expected part one  *)
(* of its own, what it finds is contained all the way down, and what is     *)
(* equal matches.                                                           *)
(****************************************************************************)
EXTENDS PartialMatch, FiniteSetTheorems, TLAPS

\* Every set of naturals has a least member.
LEMMA LeastNatural ==
  ASSUME NEW S \in SUBSET Nat, S # {}
  PROVE  \E m \in S : \A n \in S : m <= n
<1> DEFINE Less == {ss \in Nat \X Nat : ss[1] < ss[2]}
<1>1. IsWellFoundedOn(Less, Nat)
  BY NatLessThanWellFounded, Zenon DEF OpToRel
<1>2. PICK m \in S : \A n \in S : ~ (<<n, m>> \in Less)
  <2> HIDE DEF Less
  <2> QED BY <1>1, WFMin
<1>3. ASSUME NEW n \in S PROVE m <= n
  <2>1. ~ (n < m)
    BY <1>2
  <2> QED BY <2>1
<1> QED BY <1>3

\* A part of a finite set that misses something of it is smaller.
LEMMA ProperSubset ==
  ASSUME NEW S, IsFiniteSet(S), NEW T \in SUBSET S, T # S
  PROVE  /\ Cardinality(T) \in Nat /\ Cardinality(S) \in Nat
         /\ Cardinality(T) < Cardinality(S)
<1>1. IsFiniteSet(T) /\ Cardinality(T) <= Cardinality(S) /\ Cardinality(T) # Cardinality(S)
  BY FS_Subset
<1>2. Cardinality(T) \in Nat /\ Cardinality(S) \in Nat
  BY <1>1, FS_CardinalityType
<1> QED BY <1>1, <1>2

PairOf(f) == <<f.left, f.right>>
ItemPair(h, l, r, i) == <<h[l].items[i], h[r].items[i]>>
NextPair(h, f, i) == ItemPair(h, f.left, f.right, i)
Backed(p, known, ps) == Same(p) \/ p \in known \/ p \in Elements(ps)

\* The pairs in progress are those of the frames.
Stacked ==
  question # Idle => /\ Len(active) = Len(frames)
                     /\ \A k \in DOMAIN frames : active[k] = PairOf(frames[k])

\* The outermost comparison is the question, and every other the part that the
\* one around it is at.
Chained ==
  /\ frames # <<>> => question # Idle /\ PairOf(frames[1]) = question
  /\ \A k \in 1..(Len(frames) - 1) : PairOf(frames[k + 1]) = NextPair(heap, frames[k], frames[k].next)

\* Unless a difference was found, what was accepted is backed.
ProvenBacked ==
  question # Idle /\ ret # "Fail" =>
    \A p \in proven : /\ Admitted(p[1], p[2])
                      /\ \A i \in DOMAIN heap[p[1]].items :
                           Backed(ItemPair(heap, p[1], p[2], i), proven, active)
FramesBacked ==
  question # Idle /\ ret # "Fail" =>
    \A k \in DOMAIN frames : \A i \in 1..(frames[k].next - 1) :
      Backed(NextPair(heap, frames[k], i), proven, active)
Returned ==
  question # Idle /\ ret \in {"Match", "Defer"} =>
    IF frames = <<>> THEN Same(question) \/ question \in proven
                     ELSE Backed(NextPair(heap, Top, Top.next), proven, active)

IInv == TypeOK /\ Stacked /\ Chained /\ ProvenBacked /\ FramesBacked /\ Returned /\ NoPairTwice

\* Objects that cannot be told apart are never found different: for every
\* bisimulation that holds the question.
DifferenceIsReal ==
  \A R \in SUBSET Pair : question \in R /\ Bisimulation(R) => ret # "Fail"
-----------------------------------------------------------------------------
LEMMA Appended ==
  ASSUME NEW S, NEW s \in Seq(S), NEW e \in S
  PROVE  /\ Append(s, e) \in Seq(S) /\ Len(Append(s, e)) = Len(s) + 1
         /\ \A k \in 1..Len(s) : Append(s, e)[k] = s[k]
         /\ Append(s, e)[Len(s) + 1] = e
         /\ Elements(Append(s, e)) = Elements(s) \cup {e}
<1>1. /\ Append(s, e) \in Seq(S) /\ Len(Append(s, e)) = Len(s) + 1
      /\ \A k \in 1..Len(s) : Append(s, e)[k] = s[k]
      /\ Append(s, e)[Len(s) + 1] = e
  OBVIOUS
<1>2. DOMAIN s = 1..Len(s) /\ DOMAIN Append(s, e) = 1..(Len(s) + 1) /\ Len(s) \in Nat
  BY <1>1
<1>3. Elements(Append(s, e)) = Elements(s) \cup {e}
  BY <1>1, <1>2 DEF Elements
<1> QED BY <1>1, <1>3

LEMMA Dropped ==
  ASSUME NEW S, NEW s \in Seq(S), s # <<>>
  PROVE  LET f == SubSeq(s, 1, Len(s) - 1)
         IN  /\ Len(s) \in Nat /\ Len(s) > 0 /\ s[Len(s)] \in S
             /\ f \in Seq(S) /\ Len(f) = Len(s) - 1
             /\ \A k \in 1..(Len(s) - 1) : f[k] = s[k]
             /\ Elements(s) = Elements(f) \cup {s[Len(s)]}
<1> DEFINE f == SubSeq(s, 1, Len(s) - 1)
<1>1. Len(s) \in Nat /\ Len(s) > 0 /\ s[Len(s)] \in S /\ DOMAIN s = 1..Len(s)
  OBVIOUS
<1>2. f \in Seq(S) /\ Len(f) = Len(s) - 1 /\ \A k \in 1..(Len(s) - 1) : f[k] = s[k]
  BY <1>1
<1>3. DOMAIN f = 1..(Len(s) - 1)
  BY <1>1, <1>2
<1> HIDE DEF f
<1>4. Elements(s) = Elements(f) \cup {s[Len(s)]}
  BY <1>1, <1>2, <1>3 DEF Elements
<1> QED BY <1>1, <1>2, <1>4 DEF f

LEMMA PairIsNotIdle == ASSUME NEW p \in Pair PROVE p # Idle
BY DEF Pair, Idle

\* What a comparison that needs no walk has found.
LEMMA AnswersAreBacked ==
  ASSUME NEW p, NEW ps, NEW known
  PROVE  /\ Answers(p, ps, known) \in Result \cup {Pending}
         /\ Answers(p, ps, known) \in {"Match", "Defer"} =>
              Same(p) \/ p \in known \/ p \in Elements(ps)
         /\ Answers(p, ps, known) = Pending => p \in Pair /\ p \notin Elements(ps)
         /\ Answers(p, ps, known) = "Fail" => ~Same(p) /\ p \notin Pair
BY DEF Answers, Result, Pending

-----------------------------------------------------------------------------
LEMMA Initially == Init => IInv
<1> SUFFICES ASSUME Init PROVE IInv
  OBVIOUS
<1>1. frames = <<>> /\ active = <<>> /\ proven = {} /\ question = Idle /\ ret = Pending
  BY DEF Init
<1>2. TypeOK
  BY <1>1 DEF Init, TypeOK
<1>3. Len(frames) = 0 /\ DOMAIN frames = {}
  BY <1>1
<1> QED BY <1>1, <1>2, <1>3 DEF IInv, Stacked, Chained, ProvenBacked, FramesBacked, Returned, NoPairTwice

\* What a comparison that begins adds to the credit, and to the frames.
LEMMA ComparePreserves ==
  ASSUME NEW p, NEW fs \in Seq(Frame), NEW ps \in Seq(Pair), NEW known \in SUBSET Pair,
         Compare(p, fs, ps, known)
  PROVE  /\ proven' = known /\ ret' \in Result \cup {Pending}
         /\ \/ /\ ret' # Pending /\ frames' = fs /\ active' = ps
            \/ /\ ret' = Pending /\ p \in Pair /\ p \notin Elements(ps)
               /\ frames' = Append(fs, [left |-> p[1], right |-> p[2], next |-> 1])
               /\ active' = Append(ps, p)
               /\ [left |-> p[1], right |-> p[2], next |-> 1] \in Frame
         /\ ret' \in {"Match", "Defer"} => Same(p) \/ p \in known \/ p \in Elements(ps)
         /\ ret' = "Fail" => ~Same(p) /\ p \notin Pair
<1>1. ret' = Answers(p, ps, known) /\ proven' = known
  BY DEF Compare
<1>2. ret' \in Result \cup {Pending}
      /\ (ret' \in {"Match", "Defer"} => Same(p) \/ p \in known \/ p \in Elements(ps))
      /\ (ret' = Pending => p \in Pair /\ p \notin Elements(ps))
      /\ (ret' = "Fail" => ~Same(p) /\ p \notin Pair)
  BY <1>1, AnswersAreBacked
<1>3. CASE ret' = Pending
  <2>1. p \in Pair /\ [left |-> p[1], right |-> p[2], next |-> 1] \in Frame
    BY <1>2, <1>3 DEF Pair, Frame
  <2> QED BY <1>1, <1>2, <1>3, <2>1 DEF Compare
<1>4. CASE ret' # Pending
  BY <1>1, <1>2, <1>4 DEF Compare
<1> QED BY <1>3, <1>4

\* The graph never changes, and with it neither do the parts of its objects.
LEMMA GraphStays ==
  ASSUME heap' = heap
  PROVE  /\ \A l, r : Admitted(l, r)' = Admitted(l, r)
         /\ \A p, R : Supported(p, R)' = Supported(p, R)
         /\ \A R : Bisimulation(R)' = Bisimulation(R)
<1>1. \A r : Items(r)' = Items(r)
  BY DEF Items
<1>2. \A l, r : Admitted(l, r)' = Admitted(l, r)
  BY DEF Items, Admitted
<1>3. \A l, r, i : Item(l, r, i)' = Item(l, r, i)
  BY DEF Items, Item
<1>4. \A p, R : Supported(p, R)' = Supported(p, R)
  BY <1>1, <1>2, <1>3 DEF Supported, Same
<1> QED BY <1>2, <1>4 DEF Bisimulation

LEMMA AskPreserves ==
  ASSUME IInv, NEW p \in Pair, Ask(p)
  PROVE  IInv'
<1>1. heap' = heap /\ question' = p /\ Compare(p, <<>>, <<>>, {})
  BY DEF Ask
<1>2. p # Idle
  BY PairIsNotIdle
<1>3. <<>> \in Seq(Frame) /\ <<>> \in Seq(Pair) /\ Elements(<<>>) = {}
  BY DEF Elements
<1>4. /\ proven' = {} /\ ret' \in Result \cup {Pending}
      /\ \/ ret' # Pending /\ frames' = <<>> /\ active' = <<>>
         \/ /\ ret' = Pending
            /\ frames' = <<[left |-> p[1], right |-> p[2], next |-> 1]>>
            /\ active' = <<p>>
            /\ [left |-> p[1], right |-> p[2], next |-> 1] \in Frame
      /\ ret' \in {"Match", "Defer"} => Same(p)
  <2>1. Append(<<>>, p) = <<p>>
        /\ Append(<<>>, [left |-> p[1], right |-> p[2], next |-> 1])
             = <<[left |-> p[1], right |-> p[2], next |-> 1]>>
    OBVIOUS
  <2>2. {} \in SUBSET Pair
    OBVIOUS
  <2>3. /\ proven' = {} /\ ret' \in Result \cup {Pending}
        /\ \/ /\ ret' # Pending /\ frames' = <<>> /\ active' = <<>>
           \/ /\ ret' = Pending /\ p \in Pair /\ p \notin Elements(<<>>)
              /\ frames' = Append(<<>>, [left |-> p[1], right |-> p[2], next |-> 1])
              /\ active' = Append(<<>>, p)
              /\ [left |-> p[1], right |-> p[2], next |-> 1] \in Frame
        /\ ret' \in {"Match", "Defer"} => Same(p) \/ p \in {} \/ p \in Elements(<<>>)
    BY <1>1, <1>3, <2>2, ComparePreserves
  <2> QED BY <1>3, <2>1, <2>3
<1>5. TypeOK'
  <2>1. \A f \in Frame : <<f>> \in Seq(Frame)
    OBVIOUS
  <2>2. <<p>> \in Seq(Pair)
    OBVIOUS
  <2>3. frames' \in Seq(Frame) /\ active' \in Seq(Pair)
    BY <1>3, <1>4, <2>1, <2>2
  <2> QED BY <1>1, <1>4, <2>3 DEF TypeOK, IInv
<1>6. CASE frames' = <<>>
  <2>1. Len(frames') = 0 /\ DOMAIN frames' = {} /\ active' = <<>>
    BY <1>4, <1>6
  <2>2. Stacked' /\ Chained' /\ FramesBacked' /\ NoPairTwice' /\ ProvenBacked'
    BY <1>4, <1>6, <2>1 DEF Stacked, Chained, FramesBacked, NoPairTwice, ProvenBacked
  <2>3. Returned'
    BY <1>1, <1>4, <1>6 DEF Returned, Same
  <2> QED BY <1>5, <2>2, <2>3 DEF IInv
<1>7. CASE frames' # <<>>
  <2> DEFINE f == [left |-> p[1], right |-> p[2], next |-> 1]
  <2>1. ret' = Pending /\ frames' = <<f>> /\ active' = <<p>>
    BY <1>4, <1>7
  <2>2. /\ Len(frames') = 1 /\ DOMAIN frames' = {1} /\ frames'[1] = f
        /\ Len(active') = 1 /\ active'[1] = p
    BY <2>1
  <2>3. PairOf(f) = p /\ f.next = 1
    BY DEF PairOf, Pair
  <2> HIDE DEF f
  <2>4. Stacked'
    BY <2>2, <2>3 DEF Stacked, PairOf
  <2>5. Chained'
    BY <1>1, <1>2, <2>2, <2>3 DEF Chained, PairOf
  <2>6. ProvenBacked' /\ NoPairTwice'
    BY <1>4, <2>2 DEF ProvenBacked, NoPairTwice
  <2>7. FramesBacked'
    <3>1. ASSUME NEW k \in DOMAIN frames' PROVE 1..(frames'[k].next - 1) = {}
      BY <2>2, <2>3
    <3> QED BY <3>1 DEF FramesBacked
  <2>8. Returned'
    BY <2>1 DEF Returned, Pending
  <2> QED BY <1>5, <2>4, <2>5, <2>6, <2>7, <2>8 DEF IInv
<1> QED BY <1>6, <1>7

LEMMA CompareItemPreserves ==
  ASSUME IInv, CompareItem
  PROVE  IInv'
<1> DEFINE p == NextPair(heap, Top, Top.next)
           f == [left |-> p[1], right |-> p[2], next |-> 1]
<1>1. /\ heap' = heap /\ question' = question /\ frames # <<>> /\ ret = Pending
      /\ Compare(p, frames, active, proven)
  BY DEF CompareItem, Walking, ItemPair, NextPair, Item, Items
<1>2. /\ TypeOK /\ frames \in Seq(Frame) /\ active \in Seq(Pair) /\ proven \in SUBSET Pair
      /\ question # Idle
  BY <1>1 DEF IInv, TypeOK, Chained
<1>3. /\ proven' = proven /\ ret' \in Result \cup {Pending}
      /\ \/ ret' # Pending /\ frames' = frames /\ active' = active
         \/ /\ ret' = Pending /\ p \in Pair /\ p \notin Elements(active)
            /\ frames' = Append(frames, f) /\ active' = Append(active, p) /\ f \in Frame
      /\ ret' \in {"Match", "Defer"} => Backed(p, proven, active)
  BY <1>1, <1>2, ComparePreserves DEF Backed
<1>4. ret # "Fail"
  BY <1>1 DEF Pending
<1> HIDE DEF p
<1>5. CASE ret' # Pending
  <2>1. frames' = frames /\ active' = active
    BY <1>3, <1>5
  <2>2. TypeOK'
    BY <1>1, <1>2, <1>3, <2>1 DEF TypeOK
  <2>3. Stacked' /\ NoPairTwice'
    BY <1>1, <2>1 DEF IInv, Stacked, NoPairTwice, PairOf
  <2>4. Chained'
    BY <1>1, <2>1 DEF IInv, Chained, PairOf
  <2>5. ProvenBacked'
    BY <1>1, <1>2, <1>3, <1>4, <2>1, GraphStays DEF IInv, ProvenBacked
  <2>6. FramesBacked'
    BY <1>1, <1>2, <1>3, <1>4, <2>1 DEF IInv, FramesBacked
  <2>7. Returned'
    BY <1>1, <1>3, <2>1 DEF Returned, Top, p
  <2> QED BY <2>2, <2>3, <2>4, <2>5, <2>6, <2>7 DEF IInv
<1>6. CASE ret' = Pending
  <2>1. /\ p \in Pair /\ p \notin Elements(active) /\ f \in Frame
        /\ frames' = Append(frames, f) /\ active' = Append(active, p)
    BY <1>3, <1>6
  <2>2. PairOf(f) = p /\ f.next = 1
    BY <2>1 DEF PairOf, Pair
  <2> HIDE DEF f
  <2>3. /\ frames' \in Seq(Frame) /\ Len(frames') = Len(frames) + 1 /\ Len(frames) \in Nat
        /\ DOMAIN frames = 1..Len(frames) /\ DOMAIN frames' = 1..(Len(frames) + 1)
        /\ \A k \in 1..Len(frames) : frames'[k] = frames[k]
        /\ frames'[Len(frames) + 1] = f /\ frames' # <<>>
    <3>1. /\ Append(frames, f) \in Seq(Frame) /\ Len(Append(frames, f)) = Len(frames) + 1
          /\ \A k \in 1..Len(frames) : Append(frames, f)[k] = frames[k]
          /\ Append(frames, f)[Len(frames) + 1] = f
      BY <1>2, <2>1, Appended
    <3> QED BY <1>2, <2>1, <3>1
  <2>4. /\ active' \in Seq(Pair) /\ Len(active') = Len(active) + 1
        /\ \A k \in 1..Len(active) : active'[k] = active[k]
        /\ active'[Len(active) + 1] = p /\ Elements(active') = Elements(active) \cup {p}
    BY <1>2, <2>1, Appended
  <2>5. TypeOK'
    BY <1>1, <1>2, <1>3, <2>3, <2>4 DEF TypeOK
  <2>6. Len(active) = Len(frames) /\ \A k \in 1..Len(frames) : active[k] = PairOf(frames[k])
    BY <1>2, <2>3 DEF IInv, Stacked
  <2>7. Stacked'
    BY <2>2, <2>3, <2>4, <2>6 DEF Stacked, PairOf
  <2>8. \A k \in 1..Len(frames) : PairOf(frames[k]) # p
    BY <1>2, <2>1, <2>6 DEF Elements
  <2>9. NoPairTwice'
    <3>1. \A i, j \in 1..Len(frames) : PairOf(frames[i]) = PairOf(frames[j]) => i = j
      BY <1>2, <2>3 DEF IInv, NoPairTwice, PairOf
    <3>2. \A i, j \in DOMAIN frames' : PairOf(frames'[i]) = PairOf(frames'[j]) => i = j
      BY <2>2, <2>3, <2>8, <3>1
    <3> QED BY <3>2 DEF NoPairTwice, PairOf
  <2>10. Chained'
    <3>1. frames'[1] = frames[1] /\ PairOf(frames[1]) = question
      BY <1>1, <1>2, <2>3 DEF IInv, Chained
    <3>2. ASSUME NEW k \in 1..Len(frames)
          PROVE  PairOf(frames'[k + 1]) = NextPair(heap, frames'[k], frames'[k].next)
      <4>1. CASE k = Len(frames)
        BY <2>2, <2>3, <4>1 DEF p, Top
      <4>2. CASE k # Len(frames)
        <5> Len(frames) \in Nat
          BY <2>3
        <5>1. k \in 1..(Len(frames) - 1) /\ k + 1 \in 1..Len(frames)
          BY <3>2, <4>2
        <5>2. frames'[k] = frames[k] /\ frames'[k + 1] = frames[k + 1]
          BY <2>3, <5>1
        <5> QED BY <5>1, <5>2 DEF IInv, Chained
      <4> QED BY <4>1, <4>2
    <3> QED BY <1>1, <1>2, <2>3, <3>1, <3>2 DEF Chained
  <2>11. \A q : Backed(q, proven, active) => Backed(q, proven', active')
    BY <1>3, <2>4 DEF Backed
  <2>12. ProvenBacked'
    BY <1>1, <1>2, <1>3, <1>4, <2>11, GraphStays DEF IInv, ProvenBacked
  <2>13. FramesBacked'
    <3>1. ASSUME NEW k \in DOMAIN frames', NEW i \in 1..(frames'[k].next - 1)
          PROVE  Backed(NextPair(heap', frames'[k], i), proven', active')
      <4>1. k # Len(frames) + 1
        BY <2>2, <2>3
      <4>2. k \in DOMAIN frames /\ frames'[k] = frames[k]
        BY <2>3, <4>1
      <4>3. Backed(NextPair(heap, frames[k], i), proven, active)
        BY <1>2, <1>4, <4>2 DEF IInv, FramesBacked
      <4> QED BY <1>1, <2>11, <4>2, <4>3
    <3> QED BY <3>1 DEF FramesBacked
  <2>14. Returned'
    BY <1>6 DEF Returned, Pending
  <2> QED BY <2>5, <2>7, <2>9, <2>10, <2>12, <2>13, <2>14 DEF IInv
<1> QED BY <1>5, <1>6

LEMMA TakeItemPreserves ==
  ASSUME IInv, TakeItem
  PROVE  IInv'
<1>1. /\ frames # <<>> /\ ret # Pending /\ ret # "Fail" /\ ret' = Pending
      /\ frames' = [frames EXCEPT ![Len(frames)].next = @ + 1]
      /\ heap' = heap /\ question' = question /\ active' = active /\ proven' = proven
  BY DEF TakeItem, Accepted
<1>2. /\ TypeOK /\ frames \in Seq(Frame) /\ question # Idle
      /\ Len(frames) \in Nat /\ Len(frames) > 0 /\ DOMAIN frames = 1..Len(frames)
  BY <1>1 DEF IInv, TypeOK, Chained
<1>3. ret \in {"Match", "Defer"} /\ Top \in Frame
  BY <1>1, <1>2 DEF TypeOK, Result, Top
<1>4. /\ DOMAIN frames' = 1..Len(frames) /\ Len(frames') = Len(frames) /\ frames' \in Seq(Frame)
      /\ \A k \in 1..(Len(frames) - 1) : frames'[k] = frames[k]
      /\ \A k \in 1..Len(frames) : PairOf(frames'[k]) = PairOf(frames[k])
      /\ frames'[Len(frames)].next = Top.next + 1
  <2>1. /\ frames'[Len(frames)].next = Top.next + 1
        /\ \A k \in 1..(Len(frames) - 1) : frames'[k] = frames[k]
        /\ \A k \in 1..Len(frames) : PairOf(frames'[k]) = PairOf(frames[k])
        /\ DOMAIN frames' = 1..Len(frames)
    BY <1>1, <1>2 DEF Frame, PairOf, Top
  <2>2. [Top EXCEPT !.next = @ + 1] \in Frame
    BY <1>3 DEF Frame
  <2>3. frames' = [frames EXCEPT ![Len(frames)] = [Top EXCEPT !.next = @ + 1]]
    BY <1>1, <1>2 DEF Top
  <2>4. frames' \in Seq(Frame) /\ Len(frames') = Len(frames)
    BY <1>2, <2>2, <2>3
  <2> QED BY <2>1, <2>4
<1>5. TypeOK'
  BY <1>1, <1>2, <1>4 DEF TypeOK
<1>6. Stacked'
  BY <1>1, <1>2, <1>4 DEF IInv, Stacked
<1>7. Chained'
  <2>1. frames' # <<>> /\ PairOf(frames'[1]) = question
    BY <1>1, <1>2, <1>4 DEF IInv, Chained
  <2>2. ASSUME NEW k \in 1..(Len(frames) - 1)
        PROVE  PairOf(frames'[k + 1]) = NextPair(heap, frames'[k], frames'[k].next)
    <3>1. k + 1 \in 1..Len(frames)
      BY <1>2, <2>2
    <3> QED BY <1>4, <2>2, <3>1 DEF IInv, Chained
  <2> QED BY <1>1, <1>2, <1>4, <2>1, <2>2 DEF Chained
<1>8. ProvenBacked'
  BY <1>1, <1>2, GraphStays DEF IInv, ProvenBacked
<1>9. FramesBacked'
  <2>1. ASSUME NEW k \in 1..Len(frames), NEW i \in 1..(frames'[k].next - 1)
        PROVE  Backed(NextPair(heap, frames'[k], i), proven, active)
    <3>1. CASE k = Len(frames)
      <4>1. NextPair(heap, frames'[k], i) = NextPair(heap, Top, i)
        BY <1>2, <1>4, <3>1 DEF NextPair, PairOf, Top
      <4>2. Backed(NextPair(heap, Top, Top.next), proven, active)
        BY <1>1, <1>2, <1>3 DEF IInv, Returned
      <4>3. i \in 1..Top.next
        BY <1>3, <1>4, <2>1, <3>1 DEF Frame
      <4>4. ASSUME i # Top.next PROVE Backed(NextPair(heap, Top, i), proven, active)
        <5>1. i \in 1..(Top.next - 1)
          BY <1>3, <4>3, <4>4 DEF Frame
        <5> QED BY <1>1, <1>2, <5>1 DEF IInv, FramesBacked, Top
      <4> QED BY <4>1, <4>2, <4>4
    <3>2. CASE k # Len(frames)
      <4> Len(frames) \in Nat
        BY <1>2
      <4>1. k \in 1..(Len(frames) - 1)
        BY <3>2
      <4>2. frames'[k] = frames[k]
        BY <1>4, <4>1
      <4> QED BY <1>1, <1>2, <2>1, <4>2 DEF IInv, FramesBacked
    <3> QED BY <3>1, <3>2
  <2> QED BY <1>1, <1>4, <2>1 DEF FramesBacked
<1>10. Returned'
  BY <1>1 DEF Returned, Pending
<1>11. NoPairTwice'
  <2>1. \A i, j \in 1..Len(frames) : PairOf(frames[i]) = PairOf(frames[j]) => i = j
    BY <1>2 DEF IInv, NoPairTwice, PairOf
  <2>2. \A i, j \in 1..Len(frames) : PairOf(frames'[i]) = PairOf(frames'[j]) => i = j
    BY <1>4, <2>1
  <2> QED BY <1>4, <2>2 DEF NoPairTwice, PairOf
<1> QED BY <1>5, <1>6, <1>7, <1>8, <1>9, <1>10, <1>11 DEF IInv

\* The innermost frame is left: what stays of the stack.
LEMMA LeaveKeeps ==
  ASSUME IInv, frames # <<>>, NEW result \in {"Match", "Fail"}, Leave(result),
         proven' \in SUBSET Pair
  PROVE  /\ TypeOK' /\ Stacked' /\ Chained' /\ NoPairTwice'
         /\ question # Idle /\ heap' = heap /\ question' = question /\ ret' = result
         /\ Len(frames) \in Nat /\ Len(frames) > 0 /\ Len(frames') = Len(frames) - 1
         /\ DOMAIN frames = 1..Len(frames) /\ DOMAIN frames' = 1..(Len(frames) - 1)
         /\ \A k \in 1..(Len(frames) - 1) : frames'[k] = frames[k]
         /\ PairOf(Top) \in Pair /\ Elements(active) = Elements(active') \cup {PairOf(Top)}
<1>1. /\ ret' = result /\ heap' = heap /\ question' = question
      /\ frames' = SubSeq(frames, 1, Len(frames) - 1)
      /\ active' = SubSeq(active, 1, Len(active) - 1)
  BY DEF Leave
<1>2. /\ TypeOK /\ frames \in Seq(Frame) /\ active \in Seq(Pair) /\ question # Idle
  BY DEF IInv, TypeOK, Chained
<1>3. /\ Len(frames) \in Nat /\ Len(frames) > 0 /\ Top \in Frame
      /\ frames' \in Seq(Frame) /\ Len(frames') = Len(frames) - 1
      /\ \A k \in 1..(Len(frames) - 1) : frames'[k] = frames[k]
  BY <1>1, <1>2, Dropped DEF Top
<1>4. DOMAIN frames = 1..Len(frames) /\ DOMAIN frames' = 1..(Len(frames) - 1)
  BY <1>2, <1>3
<1>5. Len(active) = Len(frames) /\ \A k \in 1..Len(frames) : active[k] = PairOf(frames[k])
  BY <1>2, <1>4 DEF IInv, Stacked
<1>6. active # <<>>
  BY <1>3, <1>5
<1>7. /\ active' \in Seq(Pair) /\ Len(active') = Len(active) - 1
      /\ \A k \in 1..(Len(active) - 1) : active'[k] = active[k]
      /\ Elements(active) = Elements(active') \cup {active[Len(active)]}
  BY <1>1, <1>2, <1>6, Dropped
<1>8. PairOf(Top) \in Pair /\ active[Len(active)] = PairOf(Top)
  BY <1>3, <1>5 DEF Top, Frame, PairOf, Pair
<1>9. TypeOK'
  BY <1>1, <1>2, <1>3, <1>7 DEF TypeOK, Result
<1>10. Stacked'
  BY <1>1, <1>3, <1>4, <1>5, <1>7 DEF Stacked
<1>11. Chained'
  <2>1. ASSUME frames' # <<>> PROVE PairOf(frames'[1]) = question
    <3>1. 1 \in 1..(Len(frames) - 1)
      BY <1>3, <2>1
    <3> QED BY <1>3, <3>1 DEF IInv, Chained
  <2>2. ASSUME NEW k \in 1..(Len(frames) - 2)
        PROVE  PairOf(frames'[k + 1]) = NextPair(heap, frames'[k], frames'[k].next)
    <3>1. k \in 1..(Len(frames) - 1) /\ k + 1 \in 1..(Len(frames) - 1)
      BY <1>3, <2>2
    <3> QED BY <1>3, <3>1 DEF IInv, Chained
  <2>3. Len(frames') - 1 = Len(frames) - 2
    BY <1>3
  <2> QED BY <1>1, <1>2, <2>1, <2>2, <2>3 DEF Chained
<1>12. NoPairTwice'
  <2>1. \A i, j \in 1..Len(frames) : PairOf(frames[i]) = PairOf(frames[j]) => i = j
    BY <1>2, <1>4 DEF IInv, NoPairTwice, PairOf
  <2>2. \A i, j \in 1..(Len(frames) - 1) : PairOf(frames'[i]) = PairOf(frames'[j]) => i = j
    BY <1>3, <2>1
  <2> QED BY <1>4, <2>2 DEF NoPairTwice, PairOf
<1> QED BY <1>1, <1>2, <1>3, <1>4, <1>7, <1>8, <1>9, <1>10, <1>11, <1>12

LEMMA ClosePreserves ==
  ASSUME IInv, Close
  PROVE  IInv'
<1> DEFINE p == PairOf(Top)
<1>1. /\ frames # <<>> /\ ret = Pending /\ Leave("Match")
      /\ Admitted(Top.left, Top.right) /\ Top.next > Len(Items(Top.left))
      /\ proven' = proven \cup {p}
  BY DEF Close, Walking, PairOf
<1>2. /\ TypeOK /\ frames \in Seq(Frame) /\ proven \in SUBSET Pair /\ heap \in [Ref -> Object]
  BY HeapAssumption DEF IInv, TypeOK
<1>3. Top \in Frame /\ p \in Pair
  <2>1. Top \in Frame
    BY <1>1, <1>2, Dropped DEF Top
  <2> QED BY <2>1 DEF Frame, PairOf, Pair
<1>4. proven' \in SUBSET Pair
  BY <1>1, <1>2, <1>3
<1>5. /\ TypeOK' /\ Stacked' /\ Chained' /\ NoPairTwice'
      /\ question # Idle /\ heap' = heap /\ question' = question /\ ret' = "Match"
      /\ Len(frames) \in Nat /\ Len(frames) > 0 /\ Len(frames') = Len(frames) - 1
      /\ DOMAIN frames = 1..Len(frames) /\ DOMAIN frames' = 1..(Len(frames) - 1)
      /\ \A k \in 1..(Len(frames) - 1) : frames'[k] = frames[k]
      /\ Elements(active) = Elements(active') \cup {p}
  BY <1>1, <1>4, LeaveKeeps
<1>6. ret # "Fail"
  BY <1>1 DEF Pending
<1>7. \A q : Backed(q, proven, active) => Backed(q, proven', active')
  BY <1>1, <1>5 DEF Backed
<1>8. \A i \in DOMAIN heap[p[1]].items : Backed(ItemPair(heap, p[1], p[2], i), proven, active)
  <2>1. p[1] = Top.left /\ p[2] = Top.right /\ Top.left \in Ref
    BY <1>3 DEF PairOf, Frame
  <2>2. heap[Top.left].items \in Seq(Value)
    BY <1>2, <2>1 DEF Object
  <2>3. DOMAIN heap[Top.left].items = 1..Len(heap[Top.left].items)
        /\ Len(heap[Top.left].items) \in Nat
    BY <2>2
  <2>4. \A i \in DOMAIN heap[Top.left].items : i \in 1..(Top.next - 1)
    BY <1>1, <1>3, <2>3 DEF Items, Frame
  <2>5. \A i \in 1..(Top.next - 1) : Backed(NextPair(heap, Top, i), proven, active)
    BY <1>5, <1>6 DEF IInv, FramesBacked, Top
  <2> QED BY <2>1, <2>4, <2>5 DEF NextPair
<1>9. ProvenBacked'
  <2>1. Admitted(p[1], p[2])
    BY <1>1 DEF PairOf
  <2>2. \A q \in proven' : Admitted(q[1], q[2]) /\
          \A i \in DOMAIN heap[q[1]].items : Backed(ItemPair(heap, q[1], q[2], i), proven, active)
    BY <1>1, <1>5, <1>6, <1>8, <2>1 DEF IInv, ProvenBacked
  <2> HIDE DEF p
  <2> QED BY <1>5, <1>7, <2>2, GraphStays DEF ProvenBacked
<1>10. FramesBacked'
  <2>1. ASSUME NEW k \in 1..(Len(frames) - 1), NEW i \in 1..(frames[k].next - 1)
        PROVE  Backed(NextPair(heap, frames[k], i), proven', active')
    <3>1. k \in DOMAIN frames
      BY <1>5
    <3> QED BY <1>5, <1>6, <1>7, <2>1, <3>1 DEF IInv, FramesBacked
  <2> QED BY <1>5, <2>1 DEF FramesBacked
<1>11. Returned'
  <2>1. CASE frames' = <<>>
    <3>1. Len(frames) = 1
      BY <1>5, <2>1
    <3>2. p = question
      BY <1>1, <3>1 DEF IInv, Chained, Top
    <3> QED BY <1>1, <1>5, <2>1, <3>2 DEF Returned
  <2>2. CASE frames' # <<>>
    <3>1. frames' \in Seq(Frame)
      BY <1>5 DEF TypeOK
    <3>2. Len(frames) - 1 \in 1..(Len(frames) - 1)
      BY <1>5, <2>2, <3>1
    <3> DEFINE k == Len(frames) - 1
    <3>3. k + 1 = Len(frames)
      BY <1>5
    <3>4. PairOf(frames[k + 1]) = NextPair(heap, frames[k], frames[k].next)
      BY <3>2 DEF IInv, Chained
    <3>5. Top' = frames[k] /\ p = PairOf(frames[k + 1])
      BY <1>5, <3>2, <3>3 DEF Top
    <3>6. Backed(p, proven', active')
      BY <1>1 DEF Backed
    <3> HIDE DEF k
    <3>7. Backed(NextPair(heap', Top', Top'.next), proven', active')
      BY <1>5, <3>4, <3>5, <3>6
    <3> QED BY <2>2, <3>7 DEF Returned
  <2> QED BY <2>1, <2>2
<1> QED BY <1>5, <1>9, <1>10, <1>11 DEF IInv

LEMMA DifferPreserves ==
  ASSUME IInv, Differ
  PROVE  IInv'
<1>1. frames # <<>> /\ proven' = proven /\ Leave("Fail")
  BY DEF Differ
<1>2. proven' \in SUBSET Pair
  BY <1>1 DEF IInv, TypeOK
<1>3. TypeOK' /\ Stacked' /\ Chained' /\ NoPairTwice' /\ ret' = "Fail"
  BY <1>1, <1>2, LeaveKeeps
<1>4. ProvenBacked' /\ FramesBacked' /\ Returned'
  BY <1>3 DEF ProvenBacked, FramesBacked, Returned
<1> QED BY <1>3, <1>4 DEF IInv

\* With no question asked there is nothing to keep.
LEMMA IdlePreserves ==
  ASSUME IInv, Trap \/ Answer
  PROVE  IInv'
<1>1. /\ question' = Idle /\ frames' = <<>> /\ heap' = heap /\ ret' = Pending
      /\ proven' \in SUBSET Pair /\ active' \in Seq(Pair)
  BY DEF Trap, Answer, Walking, IInv, TypeOK
<1>2. TypeOK'
  BY <1>1 DEF IInv, TypeOK
<1>3. Len(frames') = 0
  BY <1>1
<1> QED BY <1>1, <1>2, <1>3 DEF IInv, Stacked, Chained, ProvenBacked, FramesBacked, Returned, NoPairTwice

LEMMA StepPreserves == IInv /\ [Next]_vars => IInv'
<1> SUFFICES ASSUME IInv, [Next]_vars PROVE IInv'
  OBVIOUS
<1>1. ASSUME NEW p \in Pair, Ask(p) PROVE IInv'
  BY <1>1, AskPreserves
<1>2. CASE CompareItem
  BY <1>2, CompareItemPreserves
<1>3. CASE TakeItem
  BY <1>3, TakeItemPreserves
<1>4. CASE Close
  BY <1>4, ClosePreserves
<1>5. CASE Differ
  BY <1>5, DifferPreserves
<1>6. CASE Trap \/ Answer
  BY <1>6, IdlePreserves
<1>7. CASE UNCHANGED vars
  BY <1>7 DEF vars, IInv, TypeOK, Stacked, Chained, ProvenBacked, FramesBacked, Returned, NoPairTwice,
              Admitted, Items, Top
<1> QED BY <1>1, <1>2, <1>3, <1>4, <1>5, <1>6, <1>7 DEF Next

LEMMA Invariance == Spec => []IInv
BY Initially, StepPreserves, PTL DEF Spec
-----------------------------------------------------------------------------
\* An answer "equal" rests on recorded pairs that hold each other up: nothing is
\* taken on credit from comparisons in progress, or from a walk that trapped.
THEOREM MatchRestsOnProof == Spec => []MatchIsProved
<1>1. IInv => MatchIsProved
  <2> SUFFICES ASSUME IInv, Answered({"Match", "Defer"})
               PROVE  (Same(question) \/ question \in proven) /\ Bisimulation(proven)
    BY DEF MatchIsProved
  <2>1. question # Idle /\ frames = <<>> /\ ret \in {"Match", "Defer"} /\ active \in Seq(Pair)
    BY DEF Answered, IInv, TypeOK
  <2>2. Elements(active) = {}
    <3>1. Len(active) = 0
      BY <2>1 DEF IInv, Stacked
    <3> QED BY <2>1, <3>1 DEF Elements
  <2>3. Same(question) \/ question \in proven
    BY <2>1 DEF IInv, Returned
  <2>4. ASSUME NEW p \in proven PROVE Supported(p, proven)
    BY <2>1, <2>2 DEF IInv, ProvenBacked, Supported, Backed, ItemPair, Item, Items
  <2> QED BY <2>3, <2>4 DEF Bisimulation
<1> QED BY <1>1, Invariance, PTL

\* A pair is never compared inside its own comparison, however the objects are
\* linked, so that the stack of a walk is bounded by the number of pairs.
THEOREM NoPairInsideItself == Spec => []NoPairTwice
<1>1. IInv => NoPairTwice
  BY DEF IInv
<1> QED BY <1>1, Invariance, PTL

\* Every comparison in progress lies on a path of parts from the question, so
\* that a difference is one that a bisimulation excludes: compareStrictEqualityValue
\* tells apart only what can be told apart.
THEOREM DifferencesAreReal == Spec => []DifferenceIsReal
<1> DEFINE Within == \A R \in SUBSET Pair : question \in R /\ Bisimulation(R) =>
                       ret # "Fail" /\ \A k \in DOMAIN frames : PairOf(frames[k]) \in R
<1>1. Init => Within
  BY DEF Init, Pending
<1>2. IInv /\ Within /\ [Next]_vars => Within'
  <2> SUFFICES ASSUME IInv, Within, [Next]_vars,
                      NEW R \in SUBSET Pair, question' \in R, Bisimulation(R)'
               PROVE  ret' # "Fail" /\ \A k \in DOMAIN frames' : PairOf(frames'[k]) \in R
    OBVIOUS
  <2>1. heap' = heap
    BY DEF Next, Ask, CompareItem, TakeItem, Close, Differ, Leave, Trap, Answer, vars
  <2>2. Bisimulation(R)
    BY <2>1, GraphStays
  <2>3. /\ TypeOK /\ frames \in Seq(Frame) /\ active \in Seq(Pair) /\ proven \in SUBSET Pair
        /\ heap \in [Ref -> Object] /\ Len(frames) \in Nat /\ DOMAIN frames = 1..Len(frames)
    BY HeapAssumption DEF IInv, TypeOK
  <2>4. ASSUME question \in R
        PROVE  ret # "Fail" /\ \A k \in DOMAIN frames : PairOf(frames[k]) \in R
    BY <2>2, <2>4
  <2> HIDE DEF Within
  <2>5. ASSUME NEW p \in Pair, Ask(p) PROVE ret' # "Fail" /\ \A k \in DOMAIN frames' : PairOf(frames'[k]) \in R
    <3>1. question' = p /\ Compare(p, <<>>, <<>>, {})
      BY <2>5 DEF Ask
    <3>2. ret' = Answers(p, <<>>, {}) /\ ret' # "Fail"
      BY <3>1, AnswersAreBacked DEF Compare
    <3>3. frames' = <<>> \/ frames' = <<[left |-> p[1], right |-> p[2], next |-> 1]>>
      <4>1. Append(<<>>, [left |-> p[1], right |-> p[2], next |-> 1])
              = <<[left |-> p[1], right |-> p[2], next |-> 1]>>
        OBVIOUS
      <4> QED BY <3>1, <4>1 DEF Compare
    <3>4. PairOf([left |-> p[1], right |-> p[2], next |-> 1]) = p
      BY DEF PairOf, Pair
    <3>5. CASE frames' = <<>>
      BY <3>2, <3>5
    <3>6. CASE frames' = <<[left |-> p[1], right |-> p[2], next |-> 1]>>
      <4>1. DOMAIN frames' = {1} /\ frames'[1] = [left |-> p[1], right |-> p[2], next |-> 1]
        BY <3>6
      <4> QED BY <3>1, <3>2, <3>4, <4>1
    <3> QED BY <3>3, <3>5, <3>6
  <2>6. CASE CompareItem
    <3> DEFINE p == Item(Top.left, Top.right, Top.next)
               f == [left |-> p[1], right |-> p[2], next |-> 1]
    <3>1. /\ question' = question /\ frames # <<>> /\ Top.next <= Len(Items(Top.left))
          /\ Compare(p, frames, active, proven)
      BY <2>6 DEF CompareItem, Walking
    <3>2. Top \in Frame /\ PairOf(Top) \in R
      BY <2>3, <2>4, <3>1 DEF Top
    <3>3. Same(p) \/ p \in R
      <4>1. Supported(PairOf(Top), R)
        BY <2>2, <3>2 DEF Bisimulation
      <4>2. PairOf(Top)[1] = Top.left /\ PairOf(Top)[2] = Top.right /\ Top.left \in Ref /\ Top.next \in Nat \ {0}
        BY <3>2 DEF PairOf, Frame
      <4>3. Items(Top.left) \in Seq(Value)
        BY <2>3, <4>2 DEF Items, Object
      <4>4. Top.next \in DOMAIN Items(Top.left)
        BY <3>1, <4>2, <4>3
      <4> QED BY <4>1, <4>2, <4>4 DEF Supported
    <3> HIDE DEF p
    <3>4. /\ \/ ret' # Pending /\ frames' = frames
             \/ p \in Pair /\ frames' = Append(frames, f) /\ f \in Frame
          /\ ret' = "Fail" => ~Same(p) /\ p \notin Pair
      BY <2>3, <3>1, ComparePreserves
    <3>5. ret' # "Fail"
      BY <3>3, <3>4
    <3>6. CASE frames' = frames
      BY <2>4, <3>1, <3>5, <3>6
    <3>7. CASE p \in Pair /\ frames' = Append(frames, f) /\ f \in Frame
      <4>1. Same(p) => ret' # Pending /\ frames' = frames
        BY <3>1 DEF Compare, Answers, Pending
      <4>2. PairOf(f) = p
        BY <3>7 DEF PairOf, Pair
      <4> HIDE DEF f
      <4>3. /\ Append(frames, f) \in Seq(Frame) /\ Len(Append(frames, f)) = Len(frames) + 1
            /\ \A k \in 1..Len(frames) : Append(frames, f)[k] = frames[k]
            /\ Append(frames, f)[Len(frames) + 1] = f
        BY <2>3, <3>7, Appended
      <4>4. DOMAIN frames' = 1..(Len(frames) + 1)
        BY <3>7, <4>3
      <4>5. CASE Same(p)
        BY <2>4, <3>1, <3>5, <4>1, <4>5
      <4>6. CASE p \in R
        BY <2>3, <2>4, <3>1, <3>5, <3>7, <4>2, <4>3, <4>4, <4>6
      <4> QED BY <3>3, <4>5, <4>6
    <3> QED BY <3>4, <3>6, <3>7
  <2>7. CASE TakeItem
    <3>1. /\ question' = question /\ frames' = [frames EXCEPT ![Len(frames)].next = @ + 1]
          /\ ret' = Pending /\ frames # <<>>
      BY <2>7 DEF TakeItem
    <3>2. DOMAIN frames' = DOMAIN frames /\ \A k \in DOMAIN frames : PairOf(frames'[k]) = PairOf(frames[k])
      BY <2>3, <3>1 DEF PairOf, Frame
    <3> QED BY <2>4, <3>1, <3>2 DEF Pending
  <2>8. CASE Close
    <3>1. Leave("Match") /\ frames # <<>>
      BY <2>8 DEF Close, Walking
    <3> QED BY <2>3, <2>4, <3>1, Dropped DEF Leave
  <2>9. CASE Differ
    <3>1. Leave("Fail") /\ frames # <<>> /\ question' = question
      BY <2>9 DEF Differ, Leave
    <3>2. Top \in Frame /\ PairOf(Top) \in R
      BY <2>3, <2>4, <3>1 DEF Top
    <3>3. Admitted(Top.left, Top.right)
      BY <2>2, <3>2 DEF Bisimulation, Supported, PairOf
    <3>4. ret = "Fail"
      BY <2>9, <3>3 DEF Differ, Accepted
    <3> QED BY <2>4, <3>1, <3>4
  <2>10. CASE Trap \/ Answer
    BY <2>10 DEF Trap, Answer, Walking, Pending
  <2>11. CASE UNCHANGED vars
    BY <2>4, <2>11 DEF vars
  <2> QED BY <2>5, <2>6, <2>7, <2>8, <2>9, <2>10, <2>11 DEF Next
<1>3. Within => DifferenceIsReal
  BY DEF DifferenceIsReal
<1> HIDE DEF Within
<1> QED BY <1>1, <1>2, <1>3, Invariance, PTL DEF Spec
-----------------------------------------------------------------------------
(****************************************************************************)
(* The pairs that cannot be told apart, computed by dropping pairs.         *)
(****************************************************************************)
Kept(R) == {p \in R : Supported(p, R)}

\* What the recursion of Bisimilar says of a function.
Refines(g) == g = [R \in SUBSET Pair |-> IF Kept(R) = R THEN R ELSE g[Kept(R)]]

\* Dropping the pairs that rest on nothing drops no bisimulation.
LEMMA KeptHoldsBisimulations ==
  ASSUME NEW R \in SUBSET Pair, NEW B \in SUBSET R, Bisimulation(B)
  PROVE  B \subseteq Kept(R)
BY DEF Bisimulation, Kept, Supported

\* The recursion has a solution: the union of the bisimulations of a set.
LEMMA RefinementExists == \E g : Refines(g)
<1> DEFINE Within(R) == {B \in SUBSET R : Bisimulation(B)}
           g == [R \in SUBSET Pair |-> UNION Within(R)]
<1>1. ASSUME NEW R \in SUBSET Pair
      PROVE  g[R] = IF Kept(R) = R THEN R ELSE g[Kept(R)]
  <2>1. Kept(R) \in SUBSET R /\ Kept(R) \in SUBSET Pair
    BY DEF Kept
  <2>2. CASE Kept(R) = R
    <3>1. R \in Within(R)
      BY <2>2 DEF Kept, Bisimulation
    <3> QED BY <2>2, <3>1
  <2>3. CASE Kept(R) # R
    <3>1. Within(R) = Within(Kept(R))
      BY <2>1, KeptHoldsBisimulations
    <3> QED BY <2>1, <2>3, <3>1
  <2> QED BY <2>2, <2>3
<1> HIDE DEF Within
<1> QED BY <1>1 DEF Refines

\* Whatever solves the recursion ends with the largest bisimulation, for the
\* pairs are finitely many.
LEMMA RefinementIsLargest ==
  ASSUME NEW g, Refines(g), NEW S \in SUBSET Pair
  PROVE  /\ g[S] \in SUBSET S /\ Bisimulation(g[S])
         /\ \A B \in SUBSET S : Bisimulation(B) => B \subseteq g[S]
<1> DEFINE Right(R) == /\ g[R] \in SUBSET R /\ Bisimulation(g[R])
                       /\ \A B \in SUBSET R : Bisimulation(B) => B \subseteq g[R]
           Wrong == {R \in SUBSET Pair : ~ Right(R)}
           Sizes == {Cardinality(R) : R \in Wrong}
<1>1. \A R \in SUBSET Pair : g[R] = IF Kept(R) = R THEN R ELSE g[Kept(R)]
  BY DEF Refines
<1>2. \A R \in SUBSET Pair : IsFiniteSet(R) /\ Cardinality(R) \in Nat
  <2>1. IsFiniteSet(Pair)
    BY RefAssumption, FS_Product DEF Pair
  <2> QED BY <2>1, FS_Subset, FS_CardinalityType
<1>3. Wrong = {}
  <2> SUFFICES ASSUME Wrong # {} PROVE FALSE
    OBVIOUS
  <2>1. Sizes \in SUBSET Nat /\ Sizes # {}
    <3> HIDE DEF Right
    <3> QED BY <1>2
  <2>2. PICK n \in Sizes : \A m \in Sizes : n <= m
    <3> HIDE DEF Sizes
    <3> QED BY <2>1, LeastNatural
  <2>3. PICK R \in Wrong : n = Cardinality(R)
    <3> HIDE DEF Wrong
    <3> QED BY <2>2
  <2>4. R \in SUBSET Pair /\ ~ Right(R) /\ Kept(R) \in SUBSET R /\ Kept(R) \in SUBSET Pair
    <3> HIDE DEF Right
    <3> QED BY <2>3 DEF Kept
  <2>5. CASE Kept(R) = R
    <3>1. g[R] = R
      BY <1>1, <2>4, <2>5
    <3>2. Bisimulation(R)
      BY <2>5 DEF Kept, Bisimulation
    <3> QED BY <2>4, <3>1, <3>2
  <2>6. CASE Kept(R) # R
    <3>1. g[R] = g[Kept(R)]
      BY <1>1, <2>4, <2>6
    <3>2. Right(Kept(R))
      <4>1. Cardinality(Kept(R)) < Cardinality(R)
        BY <1>2, <2>4, <2>6, ProperSubset
      <4>2. Cardinality(Kept(R)) \in Nat /\ Cardinality(R) \in Nat
        BY <1>2, <2>4
      <4>3. Cardinality(Kept(R)) \notin Sizes
        <5> HIDE DEF Sizes
        <5> QED BY <2>2, <2>3, <4>1, <4>2
      <4> HIDE DEF Right
      <4> QED BY <2>4, <4>3
    <3>3. \A B \in SUBSET R : Bisimulation(B) => B \in SUBSET Kept(R)
      BY <2>4, KeptHoldsBisimulations
    <3> QED BY <2>4, <3>1, <3>2, <3>3
  <2> QED BY <2>5, <2>6
<1> HIDE DEF Right
<1>4. Right(S)
  BY <1>3
<1> QED BY <1>4 DEF Right

\* Bisimilar is the largest bisimulation.
LEMMA BisimilarIsLargest ==
  /\ Bisimilar \in SUBSET Pair /\ Bisimulation(Bisimilar)
  /\ \A B \in SUBSET Pair : Bisimulation(B) => B \subseteq Bisimilar
<1> DEFINE g == CHOOSE f : Refines(f)
<1>1. Refines(g)
  <2> HIDE DEF g
  <2>1. \E f : Refines(f)
    BY RefinementExists
  <2> QED BY <2>1 DEF g
<1>2. Bisimilar = g[Pair]
  BY DEF Bisimilar, Refines, Kept
<1> HIDE DEF g
<1> QED BY <1>1, <1>2, RefinementIsLargest

\* A question about one object is answered at once.
SameIsMatch == question # Idle /\ Same(question) => frames = <<>> /\ ret = "Match"

LEMMA SameMatches == Spec => []SameIsMatch
<1>1. Init => SameIsMatch
  BY DEF Init, SameIsMatch
<1>2. SameIsMatch /\ [Next]_vars => SameIsMatch'
  <2> SUFFICES ASSUME SameIsMatch, [Next]_vars, (question # Idle /\ Same(question))'
               PROVE  frames' = <<>> /\ ret' = "Match"
    BY DEF SameIsMatch
  <2>1. ASSUME NEW p \in Pair, Ask(p) PROVE frames' = <<>> /\ ret' = "Match"
    BY <2>1 DEF Ask, Compare, Answers, Same, Pending
  <2>2. CASE CompareItem
    BY <2>2 DEF CompareItem, Walking, SameIsMatch, Same
  <2>3. CASE TakeItem
    BY <2>3 DEF TakeItem, SameIsMatch, Same
  <2>4. CASE Close
    BY <2>4 DEF Close, Walking, Leave, SameIsMatch, Same
  <2>5. CASE Differ
    BY <2>5 DEF Differ, Leave, Walking, SameIsMatch, Same
  <2>6. CASE Trap \/ Answer
    BY <2>6 DEF Trap, Answer
  <2>7. CASE UNCHANGED vars
    BY <2>7 DEF vars, SameIsMatch, Same
  <2> QED BY <2>1, <2>2, <2>3, <2>4, <2>5, <2>6, <2>7 DEF Next
<1> QED BY <1>1, <1>2, PTL DEF Spec

\* The walk answers exactly what following the references without end would
\* answer, for every heap and every question: an answer "equal" is held up by a
\* bisimulation, and no bisimulation holds a question that is answered
\* "different".
THEOREM EqualityIsUnfolding == Spec => []AgreesWithUnfolding
<1>1. IInv /\ MatchIsProved /\ DifferenceIsReal /\ SameIsMatch => AgreesWithUnfolding
  <2> SUFFICES ASSUME IInv, MatchIsProved, DifferenceIsReal, SameIsMatch, Answered(Result)
               PROVE  (ret # "Fail") = (Same(question) \/ question \in Bisimilar)
    BY DEF AgreesWithUnfolding
  <2>1. question # Idle /\ frames = <<>> /\ ret \in Result /\ proven \in SUBSET Pair
    BY DEF Answered, IInv, TypeOK
  <2>2. ASSUME ret # "Fail" PROVE Same(question) \/ question \in Bisimilar
    <3>1. Answered({"Match", "Defer"})
      BY <2>1, <2>2 DEF Answered, Result
    <3>2. (Same(question) \/ question \in proven) /\ Bisimulation(proven)
      BY <3>1 DEF MatchIsProved
    <3> QED BY <2>1, <3>2, BisimilarIsLargest
  <2>3. ASSUME Same(question) PROVE ret # "Fail"
    BY <2>1, <2>3 DEF SameIsMatch
  <2>4. ASSUME question \in Bisimilar PROVE ret # "Fail"
    BY <2>4, BisimilarIsLargest DEF DifferenceIsReal
  <2> QED BY <2>2, <2>3, <2>4
<1> QED BY <1>1, Invariance, MatchRestsOnProof, DifferencesAreReal, SameMatches, PTL
-----------------------------------------------------------------------------
\* Induction over the naturals up to m.
LEMMA UpTo ==
  ASSUME NEW m \in Nat, NEW S, 0 \in S, \A n \in 0..m : n < m /\ n \in S => n + 1 \in S
  PROVE  \A n \in 0..m : n \in S
<1> SUFFICES ASSUME \E n \in 0..m : n \notin S PROVE FALSE
  OBVIOUS
<1> DEFINE Bad == {n \in 0..m : n \notin S}
<1>1. PICK b \in Bad : \A n \in Bad : b <= n
  <2>1. Bad \subseteq Nat /\ Bad # {}
    OBVIOUS
  <2> HIDE DEF Bad
  <2> QED BY <2>1, LeastNatural
<1>2. b # 0 /\ b \in 0..m
  OBVIOUS
<1>3. b - 1 \in 0..m /\ b - 1 < m /\ b - 1 + 1 = b
  BY <1>2
<1>4. b - 1 \in S
  BY <1>1, <1>3
<1>5. b \in S
  BY <1>3, <1>4
<1> QED BY <1>5

\* f is what m steps make of a, the n-th step being step[n, .].
Steps(f, m, a, step) == f[0] = a /\ \A n \in 1..m : f[n] = step[<<n, f[n - 1]>>]

LEMMA StepsExist ==
  ASSUME NEW m \in Nat, NEW S, NEW a \in S, NEW step \in [(1..m) \X S -> S]
  PROVE  \E f \in [0..m -> S] : Steps(f, m, a, step)
<1> DEFINE Good == {k \in 0..m : \E f \in [0..k -> S] : Steps(f, k, a, step)}
<1>1. 0 \in Good
  <2> DEFINE f == [n \in 0..0 |-> a]
  <2>1. f \in [0..0 -> S] /\ Steps(f, 0, a, step)
    BY DEF Steps
  <2>2. 0 \in 0..m
    OBVIOUS
  <2> HIDE DEF f
  <2> QED BY <2>1, <2>2
<1>2. ASSUME NEW k \in 0..m, k < m, k \in Good PROVE k + 1 \in Good
  <2>1. PICK f \in [0..k -> S] : Steps(f, k, a, step)
    BY <1>2
  <2> DEFINE z == step[<<k + 1, f[k]>>]
             g == [n \in 0..(k + 1) |-> IF n = k + 1 THEN z ELSE f[n]]
  <2>2. z \in S
    <3>1. k + 1 \in 1..m /\ f[k] \in S
      BY <1>2
    <3> QED BY <3>1
  <2> HIDE DEF z
  <2>3. g \in [0..(k + 1) -> S]
    BY <2>2
  <2>4. g[0] = a
    BY <2>1 DEF Steps
  <2>5. ASSUME NEW n \in 1..(k + 1) PROVE g[n] = step[<<n, g[n - 1]>>]
    <3>1. n - 1 \in 0..k /\ n - 1 \in 0..(k + 1) /\ n - 1 # k + 1 /\ n \in 0..(k + 1)
      OBVIOUS
    <3>2. g[n - 1] = f[n - 1]
      BY <3>1
    <3>3. CASE n = k + 1
      BY <3>1, <3>2, <3>3 DEF z
    <3>4. CASE n # k + 1
      <4>1. n \in 1..k /\ g[n] = f[n]
        BY <3>1, <3>4
      <4> QED BY <2>1, <3>2, <4>1 DEF Steps
    <3> QED BY <3>3, <3>4
  <2>6. Steps(g, k + 1, a, step)
    BY <2>4, <2>5 DEF Steps
  <2>7. k + 1 \in 0..m
    BY <1>2
  <2> HIDE DEF g
  <2> QED BY <2>3, <2>6, <2>7
<1> HIDE DEF Good
<1>3. \A k \in 0..m : k \in Good
  BY <1>1, <1>2, UpTo
<1>4. m \in Good
  BY <1>3
<1> QED BY <1>4 DEF Good
-----------------------------------------------------------------------------
(****************************************************************************)
(* The first-fit search through the elements of sets and the entries of     *)
(* maps.                                                                    *)
(****************************************************************************)
Free(fits, n, used) == {fit[1] : fit \in {x \in fits : x[2] = n}} \ used
Use(fits, n, used) == used \cup (IF Free(fits, n, used) = {} THEN {} ELSE {Min(Free(fits, n, used))})

\* u[n] is what the first n expected parts have taken.
Uses(fits, count, m, u) ==
  /\ u \in [0..count -> SUBSET (1..m)]
  /\ u[0] = {}
  /\ \A n \in 1..count : u[n] = Use(fits, n, u[n - 1])
  /\ FirstFit(fits, count) <=> Cardinality(u[count]) = count

LEMMA MinIsLeast ==
  ASSUME NEW S \in SUBSET Nat, S # {}
  PROVE  Min(S) \in S /\ \A n \in S : Min(S) <= n
<1>1. \E x \in S : \A y \in S : x <= y
  BY LeastNatural
<1>2. Min(S) \in {x \in S : \A y \in S : x <= y}
  BY <1>1 DEF Min
<1> QED BY <1>2

LEMMA FirstFitUses ==
  ASSUME NEW m \in Nat, NEW count \in Nat, NEW fits \in SUBSET ((1..m) \X (1..count))
  PROVE  \E u : Uses(fits, count, m, u)
<1> DEFINE S == SUBSET (1..m)
           step == [x \in (1..count) \X S |-> Use(fits, x[1], x[2])]
           Next1(r, n) == IF n = 0 THEN {} ELSE Use(fits, n, r[n - 1])
           Is(r) == r = [n \in 0..count |-> Next1(r, n)]
           used == CHOOSE r : Is(r)
<1>1. ASSUME NEW n \in 1..count, NEW w \in S PROVE Use(fits, n, w) \in S
  <2>1. Free(fits, n, w) \in SUBSET Nat /\ Free(fits, n, w) \in S
    BY DEF Free
  <2>2. Free(fits, n, w) # {} => Min(Free(fits, n, w)) \in 1..m
    BY <2>1, MinIsLeast
  <2> QED BY <2>2 DEF Use
<1>2. step \in [(1..count) \X S -> S]
  BY <1>1
<1>3. PICK f \in [0..count -> S] : Steps(f, count, {}, step)
  <2>1. {} \in S
    OBVIOUS
  <2> HIDE DEF S, step
  <2> QED BY <1>2, <2>1, StepsExist
<1>4. f[0] = {} /\ \A n \in 1..count : f[n] = Use(fits, n, f[n - 1])
  <2>1. ASSUME NEW n \in 1..count PROVE f[n] = Use(fits, n, f[n - 1])
    <3>1. n - 1 \in 0..count
      OBVIOUS
    <3>2. f[n] = step[<<n, f[n - 1]>>] /\ f[n - 1] \in S
      BY <1>3, <3>1 DEF Steps
    <3> QED BY <3>2
  <2> QED BY <1>3, <2>1 DEF Steps
<1>5. FirstFit(fits, count) <=> Cardinality(used[count]) = count
  BY DEF FirstFit, Use, Free
<1> HIDE DEF used
<1>6. Is(f)
  <2>1. ASSUME NEW n \in 0..count PROVE f[n] = Next1(f, n)
    <3>1. CASE n = 0
      BY <1>4, <3>1
    <3>2. CASE n # 0
      <4>1. n \in 1..count
        BY <3>2
      <4> QED BY <1>4, <3>2, <4>1
    <3> QED BY <3>1, <3>2
  <2> HIDE DEF Next1
  <2> QED BY <1>3, <2>1
<1>7. Is(used)
  <2> HIDE DEF Is
  <2> QED BY <1>6 DEF used
<1>8. ASSUME NEW n \in 0..count PROVE used[n] = Next1(used, n)
  <2> HIDE DEF Next1
  <2> QED BY <1>7
<1>9. DOMAIN used = 0..count /\ used = [n \in 0..count |-> used[n]]
  <2> HIDE DEF Next1
  <2> QED BY <1>7
<1> HIDE DEF Is
<1>10. used[0] = {} /\ \A n \in 1..count : used[n] = Use(fits, n, used[n - 1])
  BY <1>8
<1> HIDE DEF Next1
<1>11. \A n \in 0..count : n \in {k \in 0..count : used[k] \in S}
  <2> DEFINE Good == {k \in 0..count : used[k] \in S}
  <2>1. 0 \in Good
    BY <1>10
  <2>2. ASSUME NEW n \in 0..count, n < count, n \in Good PROVE n + 1 \in Good
    <3>1. n + 1 \in 1..count /\ n + 1 \in 0..count /\ (n + 1) - 1 = n
      BY <2>2
    <3>2. used[n + 1] = Use(fits, n + 1, used[n])
      BY <1>10, <3>1
    <3> QED BY <1>1, <2>2, <3>1, <3>2
  <2> HIDE DEF Good
  <2>3. \A n \in 0..count : n \in Good
    BY <2>1, <2>2, UpTo
  <2> QED BY <2>3 DEF Good
<1>12. used \in [0..count -> S]
  BY <1>9, <1>11
<1> QED BY <1>5, <1>10, <1>12 DEF Uses

\* One part more is used by each expected part that finds one, so that a search
\* that succeeds gives each a part of its own.
LEMMA FirstFitAssigns ==
  ASSUME NEW m \in Nat, NEW count \in Nat, NEW fits \in SUBSET ((1..m) \X (1..count)),
         FirstFit(fits, count)
  PROVE  \E f \in [1..count -> 1..m] :
           /\ \A n, o \in 1..count : f[n] = f[o] => n = o
           /\ \A n \in 1..count : <<f[n], n>> \in fits
<1>1. PICK u : Uses(fits, count, m, u)
  BY FirstFitUses
<1>2. /\ u \in [0..count -> SUBSET (1..m)] /\ u[0] = {} /\ Cardinality(u[count]) = count
      /\ \A n \in 1..count : u[n] = Use(fits, n, u[n - 1])
  BY <1>1 DEF Uses
<1>3. \A n \in 0..count : IsFiniteSet(u[n]) /\ Cardinality(u[n]) \in Nat
  <2>1. IsFiniteSet(1..m)
    BY FS_Interval
  <2> QED BY <1>2, <2>1, FS_Subset, FS_CardinalityType
<1>4. ASSUME NEW n \in 1..count
      PROVE  /\ n - 1 \in 0..count /\ n \in 0..count
             /\ u[n - 1] \subseteq u[n]
             /\ Free(fits, n, u[n - 1]) = {} => u[n] = u[n - 1]
             /\ Cardinality(u[n]) <= Cardinality(u[n - 1]) + 1
  <2>1. n - 1 \in 0..count /\ n \in 0..count
    OBVIOUS
  <2>2. u[n] = Use(fits, n, u[n - 1])
    BY <1>2
  <2>3. Cardinality(u[n]) <= Cardinality(u[n - 1]) + 1
    <3>1. PICK x : u[n] = u[n - 1] \/ u[n] = u[n - 1] \cup {x}
      BY <2>2 DEF Use
    <3>2. IsFiniteSet(u[n - 1]) /\ Cardinality(u[n - 1]) \in Nat
      BY <1>3, <2>1
    <3>3. Cardinality(u[n - 1] \cup {x})
            = IF x \in u[n - 1] THEN Cardinality(u[n - 1]) ELSE Cardinality(u[n - 1]) + 1
      BY <3>2, FS_AddElement
    <3>4. CASE u[n] = u[n - 1]
      BY <3>2, <3>4
    <3>5. CASE u[n] = u[n - 1] \cup {x}
      BY <3>2, <3>3, <3>5
    <3> QED BY <3>1, <3>4, <3>5
  <2> QED BY <2>1, <2>2, <2>3 DEF Use
<1>5. \A n \in 0..count : n \in {k \in 0..count : Cardinality(u[k]) <= k}
  <2> DEFINE Good == {k \in 0..count : Cardinality(u[k]) <= k}
  <2>1. 0 \in Good
    <3>1. Cardinality(u[0]) = 0 /\ 0 \in 0..count
      BY <1>2, FS_EmptySet
    <3> QED BY <3>1
  <2>2. ASSUME NEW n \in 0..count, n < count, n \in Good PROVE n + 1 \in Good
    <3>1. n + 1 \in 1..count /\ n + 1 \in 0..count /\ (n + 1) - 1 = n
      BY <2>2
    <3>2. Cardinality(u[n + 1]) <= Cardinality(u[n]) + 1
      BY <1>4, <3>1
    <3> QED BY <1>3, <2>2, <3>1, <3>2
  <2> HIDE DEF Good
  <2>3. \A n \in 0..count : n \in Good
    BY <2>1, <2>2, UpTo
  <2> QED BY <2>3 DEF Good
<1>6. \A n \in 0..count : n \in {k \in 0..count : Cardinality(u[count - k]) = count - k}
  <2> DEFINE Good == {k \in 0..count : Cardinality(u[count - k]) = count - k}
  <2>1. 0 \in Good
    <3>1. count - 0 = count
      OBVIOUS
    <3> QED BY <1>2, <3>1
  <2>2. ASSUME NEW n \in 0..count, n < count, n \in Good PROVE n + 1 \in Good
    <3>1. PICK i \in 1..count : i = count - n
      BY <2>2
    <3>2. i - 1 = count - (n + 1) /\ n + 1 \in 0..count /\ i - 1 \in 0..count /\ i \in 0..count
      BY <2>2, <3>1
    <3>3. Cardinality(u[i]) = i
      BY <2>2, <3>1
    <3>4. Cardinality(u[i]) <= Cardinality(u[i - 1]) + 1
      BY <1>4
    <3>5. Cardinality(u[i - 1]) <= i - 1 /\ Cardinality(u[i - 1]) \in Nat
      BY <1>3, <1>5, <3>2
    <3>6. Cardinality(u[i - 1]) = i - 1
      BY <3>3, <3>4, <3>5
    <3> QED BY <3>2, <3>6
  <2> HIDE DEF Good
  <2>3. \A n \in 0..count : n \in Good
    BY <2>1, <2>2, UpTo
  <2> QED BY <2>3 DEF Good
<1>7. ASSUME NEW n \in 0..count PROVE Cardinality(u[n]) = n
  <2>1. PICK k \in 0..count : n = count - k
    <3>1. count - n \in 0..count /\ n = count - (count - n)
      OBVIOUS
    <3> QED BY <3>1
  <2> QED BY <1>6, <2>1
<1>8. ASSUME NEW n \in 1..count
      PROVE  /\ Min(Free(fits, n, u[n - 1])) \in u[n]
             /\ Min(Free(fits, n, u[n - 1])) \notin u[n - 1]
             /\ <<Min(Free(fits, n, u[n - 1])), n>> \in fits
  <2>1. Free(fits, n, u[n - 1]) # {}
    <3>1. n - 1 \in 0..count /\ n \in 0..count
      OBVIOUS
    <3>2. Cardinality(u[n]) # Cardinality(u[n - 1])
      <4>1. Cardinality(u[n]) = n /\ Cardinality(u[n - 1]) = n - 1
        BY <1>7, <3>1
      <4>2. n # n - 1
        OBVIOUS
      <4> QED BY <4>1, <4>2
    <3> QED BY <1>4, <3>2
  <2>2. Free(fits, n, u[n - 1]) \in SUBSET Nat
    BY DEF Free
  <2>3. Min(Free(fits, n, u[n - 1])) \in Free(fits, n, u[n - 1])
    BY <2>1, <2>2, MinIsLeast
  <2>4. u[n] = Use(fits, n, u[n - 1])
    BY <1>2
  <2>5. PICK x \in fits : x[2] = n /\ x[1] = Min(Free(fits, n, u[n - 1]))
    BY <2>3 DEF Free
  <2>6. x = <<x[1], x[2]>>
    OBVIOUS
  <2> QED BY <2>1, <2>3, <2>4, <2>5, <2>6 DEF Use, Free
<1> DEFINE f == [n \in 1..count |-> Min(Free(fits, n, u[n - 1]))]
<1>9. \A n \in 1..count : f[n] \in u[n] /\ f[n] \notin u[n - 1] /\ <<f[n], n>> \in fits
  BY <1>8
<1>10. f \in [1..count -> 1..m]
  <2>1. \A n \in 1..count : <<f[n], n>> \in (1..m) \X (1..count)
    <3> HIDE DEF f
    <3> QED BY <1>9
  <2>2. \A n \in 1..count : f[n] \in 1..m
    <3> HIDE DEF f
    <3> QED BY <2>1
  <2> QED BY <2>2
<1> HIDE DEF f
<1>11. ASSUME NEW n \in 1..count, NEW d \in 0..count, n + d <= count PROVE u[n] \subseteq u[n + d]
  <2> DEFINE Good == {k \in 0..d : u[n] \subseteq u[n + k]}
  <2>1. 0 \in Good
    OBVIOUS
  <2>2. ASSUME NEW k \in 0..d, k < d, k \in Good PROVE k + 1 \in Good
    <3>1. PICK i \in 1..count : i = n + (k + 1)
      BY <1>11, <2>2
    <3>2. i - 1 = n + k /\ k + 1 \in 0..d
      BY <2>2, <3>1
    <3>3. u[i - 1] \subseteq u[i]
      BY <1>4
    <3> QED BY <2>2, <3>1, <3>2, <3>3
  <2> HIDE DEF Good
  <2>3. d \in Nat /\ \A k \in 0..d : k \in Good
    BY <2>1, <2>2, UpTo
  <2>4. d \in Good
    BY <2>3
  <2> QED BY <2>4 DEF Good
<1>12. ASSUME NEW n \in 1..count, NEW o \in 1..count, n < o PROVE f[n] # f[o]
  <2>1. PICK d \in 0..count : o - 1 = n + d /\ n + d <= count
    <3>1. (o - 1) - n \in 0..count /\ o - 1 = n + ((o - 1) - n)
      BY <1>12
    <3> QED BY <3>1
  <2>2. u[n] \subseteq u[o - 1]
    BY <1>11, <2>1
  <2> QED BY <1>9, <2>2
<1>13. \A n, o \in 1..count : f[n] = f[o] => n = o
  <2> SUFFICES ASSUME NEW n \in 1..count, NEW o \in 1..count, f[n] = f[o] PROVE n = o
    OBVIOUS
  <2>1. n < o \/ o < n \/ n = o
    OBVIOUS
  <2> QED BY <1>12, <2>1
<1> QED BY <1>9, <1>10, <1>13

\* The search finds a match when each part fits the one in its own place.
LEMMA FirstFitDiagonal ==
  ASSUME NEW m \in Nat, NEW count \in Nat, NEW fits \in SUBSET ((1..m) \X (1..count)),
         count <= m, \A n \in 1..count : <<n, n>> \in fits
  PROVE  FirstFit(fits, count)
<1>1. PICK u : Uses(fits, count, m, u)
  BY FirstFitUses
<1>2. /\ u \in [0..count -> SUBSET (1..m)] /\ u[0] = {}
      /\ \A n \in 1..count : u[n] = Use(fits, n, u[n - 1])
  BY <1>1 DEF Uses
<1> DEFINE Good == {k \in 0..count : u[k] \subseteq 1..k /\ IsFiniteSet(u[k]) /\ Cardinality(u[k]) = k}
<1>3. 0 \in Good
  BY <1>2, FS_EmptySet
<1>4. ASSUME NEW n \in 0..count, n < count, n \in Good PROVE n + 1 \in Good
  <2>1. PICK i \in 1..count : i = n + 1 /\ i - 1 = n
    BY <1>4
  <2>2. u[n] \subseteq 1..n /\ IsFiniteSet(u[n]) /\ Cardinality(u[n]) = n
    BY <1>4
  <2>3. i \notin u[n]
    BY <2>1, <2>2
  <2> DEFINE free == Free(fits, i, u[n])
  <2>4. i \in free
    <3>1. <<i, i>> \in fits /\ <<i, i>>[1] = i /\ <<i, i>>[2] = i
      OBVIOUS
    <3>2. i \in {fit[1] : fit \in {x \in fits : x[2] = i}}
      BY <3>1
    <3> QED BY <2>3, <3>2 DEF Free
  <2>5. free \in SUBSET Nat /\ \A x \in free : x \in 1..m /\ x \notin u[n]
    BY DEF Free
  <2>6. u[i] = u[n] \cup {Min(free)}
    BY <1>2, <2>1, <2>4 DEF Use
  <2> HIDE DEF free
  <2>7. Min(free) \in free /\ Min(free) <= i
    BY <2>4, <2>5, MinIsLeast
  <2>8. PICK x \in 1..m : x = Min(free) /\ x <= i /\ x \notin u[n]
    BY <2>5, <2>7
  <2>9. u[i] \subseteq 1..i
    BY <2>1, <2>2, <2>6, <2>8
  <2>10. IsFiniteSet(u[i]) /\ Cardinality(u[i]) = n + 1
    <3>1. u[i] = u[n] \cup {x}
      BY <2>6, <2>8
    <3> QED BY <2>2, <2>8, <3>1, FS_AddElement
  <2> QED BY <2>1, <2>9, <2>10
<1> HIDE DEF Good
<1>5. \A n \in 0..count : n \in Good
  BY <1>3, <1>4, UpTo
<1>6. Cardinality(u[count]) = count
  BY <1>5 DEF Good
<1> QED BY <1>1, <1>6 DEF Uses
-----------------------------------------------------------------------------
(****************************************************************************)
(* The recursion of the partial match goes down the reflected copies, which *)
(* end where a reference is met again: it has a solution.                   *)
(****************************************************************************)
Kinds == {"Array", "Set", "Map"} \cup Class

LEMMA HeldValues ==
  ASSUME heap \in Heaps, NEW r \in Ref
  PROVE  /\ heap[r].type \in Class \cup Collection
         /\ KindOf(r) \in Kinds
         /\ Len(Items(r)) \in Nat /\ DOMAIN Items(r) = 1..Len(Items(r))
         /\ \A n \in DOMAIN Items(r) : Items(r)[n] \in Value
<1>1. heap[r] \in Object
  BY HeapAssumption
<1>2. heap[r].type \in Class \cup Collection /\ Items(r) \in Seq(Value)
  BY <1>1 DEF Object, Items
<1>3. KindOf(r) \in Kinds
  BY <1>2, ShapeAssumption DEF KindOf, Kinds
<1> QED BY <1>2, <1>3

LEMMA Extremes ==
  ASSUME NEW m \in Nat, NEW n \in Nat, m <= n
  PROVE  Min({m, n}) = m /\ Max({m, n}) = n
<1>1. Min({m, n}) \in {m, n} /\ \A y \in {m, n} : Min({m, n}) <= y
  BY MinIsLeast
<1>2. Max({m, n}) \in {x \in {m, n} : \A y \in {m, n} : x >= y}
  <2>1. n \in {x \in {m, n} : \A y \in {m, n} : x >= y}
    OBVIOUS
  <2> QED BY <2>1 DEF Max
<1> QED BY <1>1, <1>2

\* A part is one item, or the two of an entry.
LEMMA PartsAreItems ==
  ASSUME heap \in Heaps, NEW r \in Ref
  PROVE  /\ Len(Parts(r)) \in Nat /\ DOMAIN Parts(r) = 1..Len(Parts(r))
         /\ \A n \in DOMAIN Parts(r) : /\ Min(Parts(r)[n]) \in DOMAIN Items(r)
                                       /\ Max(Parts(r)[n]) \in DOMAIN Items(r)
<1>1. Len(Items(r)) \in Nat /\ DOMAIN Items(r) = 1..Len(Items(r))
  BY HeldValues
<1>2. PICK l \in Nat : l = Len(Items(r))
  BY <1>1
<1>3. CASE KindOf(r) = "Map"
  <2>1. PICK k \in Nat : k = l \div 2 /\ 2 * k <= l
    <3>1. l \div 2 \in Nat /\ 2 * (l \div 2) <= l
      OBVIOUS
    <3> QED BY <3>1
  <2>2. Parts(r) = [n \in 1..k |-> {2 * n - 1, 2 * n}]
    BY <1>2, <1>3, <2>1 DEF Parts
  <2>3. ASSUME NEW n \in 1..k
        PROVE  Min(Parts(r)[n]) \in 1..l /\ Max(Parts(r)[n]) \in 1..l
    <3>1. 2 * n - 1 \in Nat /\ 2 * n \in Nat /\ 2 * n - 1 <= 2 * n /\ 2 * n - 1 \in 1..l /\ 2 * n \in 1..l
      BY <2>1
    <3>2. Parts(r)[n] = {2 * n - 1, 2 * n}
      BY <2>2
    <3>3. PICK i \in Nat, j \in Nat : i = 2 * n - 1 /\ j = 2 * n
      BY <3>1
    <3>4. Min({i, j}) = i /\ Max({i, j}) = j
      BY <3>1, <3>3, Extremes
    <3> QED BY <3>1, <3>2, <3>3, <3>4
  <2>4. DOMAIN Parts(r) = 1..k /\ Len(Parts(r)) = k
    BY <2>2
  <2> QED BY <1>1, <1>2, <2>3, <2>4
<1>4. CASE KindOf(r) # "Map"
  <2>2. Parts(r) = [n \in 1..l |-> {n}]
    BY <1>2, <1>4 DEF Parts
  <2>3. ASSUME NEW n \in 1..l
        PROVE  Min(Parts(r)[n]) \in 1..l /\ Max(Parts(r)[n]) \in 1..l
    <3>1. n \in Nat /\ n <= n /\ Parts(r)[n] = {n, n}
      BY <2>2
    <3>2. Min({n, n}) = n /\ Max({n, n}) = n
      BY <3>1, Extremes
    <3> QED BY <3>1, <3>2
  <2>4. DOMAIN Parts(r) = 1..l /\ Len(Parts(r)) = l
    BY <2>2
  <2> QED BY <1>1, <1>2, <2>3, <2>4
<1> QED BY <1>3, <1>4

\* What a copy says of a value tells which it is.
LEMMA KindCases ==
  ASSUME heap \in Heaps, NEW s \in Sight
  PROVE  /\ s[1] \in Value /\ s[2] \in SUBSET Ref
         /\ s[1] \in Ref => s[1] # Null /\ s[1] \notin Prim
         /\ s[1] = Null => Kind(s) = "Null"
         /\ s[1] \in Prim \ {Null} => Kind(s) = "Primitive"
         /\ s[1] \in Ref /\ Circular(s) => Kind(s) = "CircularReference"
         /\ s[1] \in Ref /\ ~Circular(s) => Kind(s) = KindOf(s[1]) /\ Kind(s) \in Kinds
         /\ s[1] = Null \/ s[1] \in Prim \ {Null} \/ s[1] \in Ref
         /\ Kind(s) \in Kinds <=> s[1] \in Ref /\ ~Circular(s)
         /\ Kind(s) \notin Kinds => Kind(s) \in {"Null", "Primitive", "CircularReference"}
<1>1. s[1] \in Value /\ s[2] \in SUBSET Ref
  BY DEF Sight
<1>2. s[1] \in Ref => s[1] # Null /\ s[1] \notin Prim
  BY ValueAssumption
<1>3. s[1] = Null \/ s[1] \in Prim \ {Null} \/ s[1] \in Ref
  BY <1>1 DEF Value
<1>4. s[1] = Null => Kind(s) = "Null"
  BY <1>2 DEF Kind
<1>5. s[1] \in Prim \ {Null} => Kind(s) = "Primitive"
  BY <1>2 DEF Kind
<1>6. s[1] \in Ref /\ Circular(s) => Kind(s) = "CircularReference"
  BY <1>2 DEF Kind
<1>7. s[1] \in Ref /\ ~Circular(s) => Kind(s) = KindOf(s[1]) /\ Kind(s) \in Kinds
  BY <1>2, HeldValues DEF Kind
<1>8. {"Null", "Primitive", "CircularReference"} \cap Kinds = {}
  BY NameAssumption DEF Kinds
<1> QED BY <1>1, <1>2, <1>3, <1>4, <1>5, <1>6, <1>7, <1>8

\* The match of two values, kind by kind.
LEMMA MatchesByKind ==
  ASSUME heap \in Heaps, NEW g, NEW a \in Sight, NEW e \in Sight
  PROVE  /\ Matches(g, a, e) => Kind(a) = Kind(e)
         /\ Kind(a) = "Null" /\ Kind(e) = "Null" => Matches(g, a, e)
         /\ Kind(a) = "Primitive" /\ Kind(e) = "Primitive" =>
              (Matches(g, a, e) <=> <<a[1], e[1]>> \in Includes)
         /\ Kind(a) = "CircularReference" /\ Kind(e) = "CircularReference" =>
              (Matches(g, a, e) <=> heap[a[1]].type = heap[e[1]].type)
         /\ Kind(a) = "Array" /\ Kind(e) = "Array" =>
              (Matches(g, a, e) <=> ArrayLikeMatches(g, a, e))
         /\ Kind(a) = Kind(e) /\ Kind(e) \in {"Set", "Map"} =>
              (Matches(g, a, e) <=> KeyedMatches(g, a, e))
         /\ Kind(a) = Kind(e) /\ Kind(e) \in Class =>
              (Matches(g, a, e) <=> ClassMatches(g, a, e))
<1>1. Matches(g, a, e) => Kind(a) = Kind(e)
  BY DEF Matches
<1>2. Kind(a) = "Null" /\ Kind(e) = "Null" => Matches(g, a, e)
  BY NameAssumption DEF Matches
<1>3. Kind(a) = "Primitive" /\ Kind(e) = "Primitive" =>
        (Matches(g, a, e) <=> <<a[1], e[1]>> \in Includes)
  BY NameAssumption DEF Matches
<1>4. Kind(a) = "CircularReference" /\ Kind(e) = "CircularReference" =>
        (Matches(g, a, e) <=> heap[a[1]].type = heap[e[1]].type)
  BY NameAssumption DEF Matches
<1>5. Kind(a) = "Array" /\ Kind(e) = "Array" => (Matches(g, a, e) <=> ArrayLikeMatches(g, a, e))
  BY NameAssumption DEF Matches
<1>6. Kind(a) = Kind(e) /\ Kind(e) \in {"Set", "Map"} => (Matches(g, a, e) <=> KeyedMatches(g, a, e))
  BY NameAssumption DEF Matches
<1>7. Kind(a) = Kind(e) /\ Kind(e) \in Class => (Matches(g, a, e) <=> ClassMatches(g, a, e))
  BY NameAssumption DEF Matches
<1> QED BY <1>1, <1>2, <1>3, <1>4, <1>5, <1>6, <1>7

\* The match looks no further than one reference down.
SameBelow(g, h, a, e) ==
  \A m \in DOMAIN Held(a), n \in DOMAIN Held(e) :
    g[<<Below(a, m), Below(e, n)>>] = h[<<Below(a, m), Below(e, n)>>]

Fitting(g, a, e) ==
  {x \in (DOMAIN Parts(a[1])) \X (DOMAIN Parts(e[1])) :
     /\ Part(g, a, Min(Parts(a[1])[x[1]]), e, Min(Parts(e[1])[x[2]]))
     /\ Part(g, a, Max(Parts(a[1])[x[1]]), e, Max(Parts(e[1])[x[2]]))}

LEMMA KeyedByFitting ==
  ASSUME NEW g, NEW a, NEW e
  PROVE  KeyedMatches(g, a, e) <=> /\ Len(Held(a)) >= Len(Held(e))
                                   /\ FirstFit(Fitting(g, a, e), Len(Parts(e[1])))
BY DEF KeyedMatches, Fitting

LEMMA MatchesLocally ==
  ASSUME heap \in Heaps, NEW g, NEW h, NEW a \in Sight, NEW e \in Sight,
         a[1] \in Ref /\ e[1] \in Ref /\ ~Circular(e) => SameBelow(g, h, a, e)
  PROVE  Matches(g, a, e) <=> Matches(h, a, e)
<1>1. CASE Kind(a) = Kind(e) /\ Kind(e) \in Kinds
  <2>1. a[1] \in Ref /\ e[1] \in Ref /\ SameBelow(g, h, a, e)
    BY <1>1, KindCases
  <2>2. /\ Len(Held(a)) \in Nat /\ DOMAIN Held(a) = 1..Len(Held(a))
        /\ Len(Held(e)) \in Nat /\ DOMAIN Held(e) = 1..Len(Held(e))
    BY <2>1, HeldValues DEF Held
  <2>3. \A m \in DOMAIN Held(a), n \in DOMAIN Held(e) : Part(g, a, m, e, n) = Part(h, a, m, e, n)
    BY <2>1 DEF Part, SameBelow
  <2>4. ArrayLikeMatches(g, a, e) <=> ArrayLikeMatches(h, a, e)
    <3>1. Len(Held(a)) >= Len(Held(e)) => DOMAIN Held(e) \subseteq DOMAIN Held(a)
      BY <2>2
    <3> QED BY <2>3, <3>1 DEF ArrayLikeMatches
  <2>5. KeyedMatches(g, a, e) <=> KeyedMatches(h, a, e)
    <3>1. ASSUME NEW x \in (DOMAIN Parts(a[1])) \X (DOMAIN Parts(e[1]))
          PROVE  x \in Fitting(g, a, e) <=> x \in Fitting(h, a, e)
      <4>1. /\ Min(Parts(a[1])[x[1]]) \in DOMAIN Held(a) /\ Max(Parts(a[1])[x[1]]) \in DOMAIN Held(a)
            /\ Min(Parts(e[1])[x[2]]) \in DOMAIN Held(e) /\ Max(Parts(e[1])[x[2]]) \in DOMAIN Held(e)
        BY <2>1, PartsAreItems DEF Held
      <4> QED BY <2>3, <4>1 DEF Fitting
    <3>2. Fitting(g, a, e) = Fitting(h, a, e)
      BY <3>1 DEF Fitting
    <3> QED BY <3>2, KeyedByFitting
  <2>6. Kind(e) \in Class => (ClassMatches(g, a, e) <=> ClassMatches(h, a, e))
    <3> SUFFICES ASSUME Kind(e) \in Class PROVE ClassMatches(g, a, e) <=> ClassMatches(h, a, e)
      OBVIOUS
    <3>1. Kind(a) = KindOf(a[1]) /\ Kind(e) = KindOf(e[1])
      BY <1>1, KindCases
    <3>2. heap[a[1]].type = heap[e[1]].type /\ heap[a[1]].type \in Class
      BY <1>1, <3>1, ShapeAssumption, NameAssumption DEF KindOf
    <3>3. Len(Held(a)) = Len(Held(e))
      BY <2>1, <3>2, HeapAssumption DEF Typed, Held, Items
    <3> QED BY <2>2, <2>3, <3>3 DEF ClassMatches
  <2> QED BY <1>1, <2>4, <2>5, <2>6, MatchesByKind DEF Kinds
<1>2. CASE Kind(a) = Kind(e) /\ Kind(e) \notin Kinds
  BY <1>2, KindCases, MatchesByKind
<1>3. CASE Kind(a) # Kind(e)
  BY <1>3, MatchesByKind
<1> QED BY <1>1, <1>2, <1>3

LEMMA MatchesIsBoolean == \A g, a, e : Matches(g, a, e) \in BOOLEAN
BY DEF Matches

\* How many references an expected copy may still go down.
Room(q) == Cardinality(Ref \ q[2][2])

LEMMA RoomShrinks ==
  ASSUME heap \in Heaps, NEW a \in Sight, NEW e \in Sight,
         a[1] \in Ref, e[1] \in Ref, ~Circular(e),
         NEW m \in DOMAIN Held(a), NEW n \in DOMAIN Held(e)
  PROVE  /\ Below(a, m) \in Sight /\ Below(e, n) \in Sight
         /\ <<Below(a, m), Below(e, n)>> \in Sights
         /\ Room(<<Below(a, m), Below(e, n)>>) < Room(<<a, e>>)
<1>1. a[2] \in SUBSET Ref /\ e[2] \in SUBSET Ref
  BY DEF Sight
<1>2. Held(a)[m] \in Value /\ Held(e)[n] \in Value
  BY HeldValues DEF Held
<1>3. Below(a, m) \in Sight /\ Below(e, n) \in Sight
  BY <1>1, <1>2 DEF Below, Sight
<1>4. Ref \ (e[2] \cup {e[1]}) \in SUBSET (Ref \ e[2]) /\ Ref \ (e[2] \cup {e[1]}) # Ref \ e[2]
  BY DEF Circular
<1>5. IsFiniteSet(Ref \ e[2])
  BY RefAssumption, FS_Subset
<1>6. Cardinality(Ref \ (e[2] \cup {e[1]})) < Cardinality(Ref \ e[2])
  BY <1>4, <1>5, ProperSubset
<1> QED BY <1>3, <1>6 DEF Below, Room, Sights

LEMMA RoomIsNatural ==
  ASSUME NEW q \in Sights
  PROVE  Room(q) \in 0..Cardinality(Ref) /\ Cardinality(Ref) \in Nat
<1>1. IsFiniteSet(Ref \ q[2][2]) /\ Cardinality(Ref \ q[2][2]) <= Cardinality(Ref)
  BY RefAssumption, FS_Subset
<1>2. Cardinality(Ref) \in Nat /\ Cardinality(Ref \ q[2][2]) \in Nat
  BY <1>1, RefAssumption, FS_CardinalityType
<1> QED BY <1>1, <1>2 DEF Room

\* What the recursion of IsPartialMatch says of a function.
Recurs(g) == g = [q \in Sights |-> Matches(g, q[1], q[2])]

LEMMA RecursionExists ==
  ASSUME heap \in Heaps
  PROVE  \E g : Recurs(g)
<1> DEFINE RightTo(g, k) == \A q \in Sights : Room(q) < k => g[q] = Matches(g, q[1], q[2])
           N == Cardinality(Ref) + 1
           Good == {k \in 0..N : \E g : RightTo(g, k)}
<1>1. N \in Nat
  BY RefAssumption, FS_CardinalityType
<1>2. 0 \in Good
  <2>1. RightTo(<<>>, 0)
    BY RoomIsNatural
  <2> QED BY <1>1, <2>1
<1>3. ASSUME NEW k \in 0..N, k < N, k \in Good PROVE k + 1 \in Good
  <2>1. PICK g : RightTo(g, k)
    BY <1>3
  <2> DEFINE h == [q \in Sights |-> IF Room(q) < k THEN g[q] ELSE Matches(g, q[1], q[2])]
  <2>2. ASSUME NEW q \in Sights, Room(q) < k + 1
        PROVE  h[q] = Matches(h, q[1], q[2])
    <3>1. PICK a \in Sight, e \in Sight : q = <<a, e>>
      BY DEF Sights
    <3>2. ASSUME a[1] \in Ref, e[1] \in Ref, ~Circular(e) PROVE SameBelow(g, h, a, e)
      <4> SUFFICES ASSUME NEW m \in DOMAIN Held(a), NEW n \in DOMAIN Held(e)
                   PROVE  g[<<Below(a, m), Below(e, n)>>] = h[<<Below(a, m), Below(e, n)>>]
        BY DEF SameBelow
      <4>1. PICK p \in Sights : p = <<Below(a, m), Below(e, n)>> /\ Room(p) < Room(q)
        <5>1. <<Below(a, m), Below(e, n)>> \in Sights /\ Room(<<Below(a, m), Below(e, n)>>) < Room(<<a, e>>)
          BY <3>2, RoomShrinks
        <5> QED BY <3>1, <5>1
      <4>2. Room(p) < k
        <5>1. Room(p) \in Nat /\ Room(q) \in Nat
          BY RoomIsNatural
        <5> QED BY <2>2, <4>1, <5>1
      <4> QED BY <4>1, <4>2
    <3>3. Matches(g, a, e) = Matches(h, a, e)
      <4> HIDE DEF h
      <4> QED BY <3>2, MatchesLocally, MatchesIsBoolean
    <3>4. h[q] = Matches(g, a, e)
      <4>1. q[1] = a /\ q[2] = e
        BY <3>1
      <4>2. h[q] = IF Room(q) < k THEN g[q] ELSE Matches(g, a, e)
        BY <4>1
      <4>3. Room(q) < k => g[q] = Matches(g, a, e)
        BY <2>1, <4>1
      <4> HIDE DEF h
      <4> QED BY <4>2, <4>3
    <3> HIDE DEF h
    <3> QED BY <3>1, <3>3, <3>4
  <2> HIDE DEF h
  <2>3. RightTo(h, k + 1)
    BY <2>2
  <2>4. k + 1 \in 0..N
    BY <1>1, <1>3
  <2> HIDE DEF RightTo
  <2> QED BY <2>3, <2>4
<1>4. N \in Good
  <2> HIDE DEF Good, N
  <2> QED BY <1>1, <1>2, <1>3, UpTo
<1>5. PICK g : RightTo(g, N)
  <2> HIDE DEF RightTo, N
  <2> QED BY <1>4
<1>6. \A q \in Sights : g[q] = Matches(g, q[1], q[2])
  <2> SUFFICES ASSUME NEW q \in Sights PROVE g[q] = Matches(g, q[1], q[2])
    OBVIOUS
  <2>1. Room(q) < N
    BY RoomIsNatural
  <2> QED BY <1>5, <2>1
<1> DEFINE G == [q \in Sights |-> g[q]]
<1>7. ASSUME NEW q \in Sights PROVE G[q] = Matches(G, q[1], q[2])
  <2>1. PICK a \in Sight, e \in Sight : q = <<a, e>>
    BY DEF Sights
  <2>2. ASSUME a[1] \in Ref, e[1] \in Ref, ~Circular(e) PROVE SameBelow(g, G, a, e)
    <3> SUFFICES ASSUME NEW m \in DOMAIN Held(a), NEW n \in DOMAIN Held(e)
                 PROVE  g[<<Below(a, m), Below(e, n)>>] = G[<<Below(a, m), Below(e, n)>>]
      BY DEF SameBelow
    <3> QED BY <2>2, RoomShrinks
  <2>3. Matches(g, a, e) = Matches(G, a, e)
    <3> HIDE DEF G
    <3> QED BY <2>2, MatchesLocally, MatchesIsBoolean
  <2>4. q[1] = a /\ q[2] = e /\ G[q] = g[q]
    BY <2>1
  <2> HIDE DEF G
  <2> QED BY <1>6, <2>3, <2>4
<1>8. G = [q \in Sights |-> G[q]]
  OBVIOUS
<1> HIDE DEF G
<1>9. G = [q \in Sights |-> Matches(G, q[1], q[2])]
  BY <1>7, <1>8
<1> QED BY <1>9 DEF Recurs

\* A function that solves the recursion, and what the partial match asks it.
Solves(g) == \A q \in Sights : g[q] = Matches(g, q[1], q[2])
Asked(g) == \A a, e \in Value : IsPartialMatch(a, e) = g[<< <<a, {}>>, <<e, {}>> >>]

LEMMA PartialMatchRecurs ==
  ASSUME heap \in Heaps
  PROVE  \E g : Solves(g) /\ Asked(g)
<1> DEFINE g == CHOOSE f : Recurs(f)
<1>1. Asked(g)
  BY DEF IsPartialMatch, Recurs, Asked
<1> HIDE DEF g
<1>2. Recurs(g)
  BY RecursionExists DEF g
<1>3. Solves(g)
  BY <1>2 DEF Recurs, Solves
<1> QED BY <1>1, <1>3
-----------------------------------------------------------------------------
(****************************************************************************)
(* Values without circles: a copy of one shows no circular reference.       *)
(****************************************************************************)
\* Each reference above a value holds the next one on the way to it.
Open(s) ==
  /\ CircleFree(s[1])
  /\ \A c \in s[2] : Elements(Items(c)) \cap (s[2] \cup {s[1]}) # {}

LEMMA OpenAtTheTop == \A v \in Value : CircleFree(v) => <<v, {}>> \in Sight /\ Open(<<v, {}>>)
BY DEF Open, Sight

LEMMA OpenIsNotCircular == \A s \in Sight : Open(s) => ~Circular(s)
<1> SUFFICES ASSUME NEW s \in Sight, Open(s), Circular(s) PROVE FALSE
  OBVIOUS
<1>1. s[2] \in SUBSET Ref /\ s[1] \in s[2]
  BY DEF Sight, Circular
<1>2. \A c \in s[2] : Elements(Items(c)) \cap s[2] # {}
  BY <1>1 DEF Open
<1> QED BY <1>1, <1>2 DEF Open, CircleFree

LEMMA OpenBelow ==
  ASSUME heap \in Heaps, NEW s \in Sight, s[1] \in Ref, Open(s), NEW n \in DOMAIN Held(s)
  PROVE  Open(Below(s, n))
<1> DEFINE w == Held(s)[n]
<1>1. w \in Elements(Items(s[1]))
  BY DEF Held, Elements
<1>2. Below(s, n)[1] = w /\ Below(s, n)[2] = s[2] \cup {s[1]}
  BY DEF Below
<1> HIDE DEF w
<1>3. CircleFree(w)
  <2> SUFFICES ASSUME NEW S \in SUBSET Ref, w \in S, \A r \in S : Elements(Items(r)) \cap S # {}
               PROVE  FALSE
    BY DEF CircleFree
  <2>1. \A r \in S \cup {s[1]} : Elements(Items(r)) \cap (S \cup {s[1]}) # {}
    BY <1>1
  <2>2. S \cup {s[1]} \in SUBSET Ref /\ s[1] \in S \cup {s[1]}
    OBVIOUS
  <2>3. ~CircleFree(s[1])
    BY <2>1, <2>2 DEF CircleFree
  <2> QED BY <2>3 DEF Open
<1>4. ASSUME NEW c \in s[2] \cup {s[1]}
      PROVE  Elements(Items(c)) \cap ((s[2] \cup {s[1]}) \cup {w}) # {}
  BY <1>1 DEF Open
<1> QED BY <1>2, <1>3, <1>4 DEF Open
-----------------------------------------------------------------------------
(****************************************************************************)
(* What a partial match finds is there.                                     *)
(****************************************************************************)
Holding(R) == {p \in R : PartOf(p, R)}
Contains(B) == \A p \in B : PartOf(p, B)
Drops(g) == g = [R \in SUBSET Pair |-> IF Holding(R) = R THEN R ELSE g[Holding(R)]]

Within(a, e, R) == (a = Null /\ e = Null) \/ <<a, e>> \in R \cup Includes
ItemFits(p, m, n, R) == Within(Items(p[1])[m], Items(p[2])[n], R)
Assigned(p, f, R) ==
  /\ \A n, o \in DOMAIN f : f[n] = f[o] => n = o
  /\ \A n \in DOMAIN f : /\ ItemFits(p, Min(Parts(p[1])[f[n]]), Min(Parts(p[2])[n]), R)
                         /\ ItemFits(p, Max(Parts(p[1])[f[n]]), Max(Parts(p[2])[n]), R)

LEMMA PartOfIs ==
  \A p, R : PartOf(p, R) <=>
    /\ KindOf(p[1]) = KindOf(p[2])
    /\ IF KindOf(p[2]) \in {"Set", "Map"}
       THEN \E f \in [DOMAIN Parts(p[2]) -> DOMAIN Parts(p[1])] : Assigned(p, f, R)
       ELSE /\ Len(Items(p[1])) >= Len(Items(p[2]))
            /\ \A n \in DOMAIN Items(p[2]) : ItemFits(p, n, n, R)
BY DEF PartOf, Assigned, ItemFits, Within

LEMMA PartOfGrows == \A p, R, S : R \subseteq S /\ PartOf(p, R) => PartOf(p, S)
<1> SUFFICES ASSUME NEW p, NEW R, NEW S, R \subseteq S, PartOf(p, R) PROVE PartOf(p, S)
  OBVIOUS
<1>1. \A m, n : ItemFits(p, m, n, R) => ItemFits(p, m, n, S)
  BY DEF ItemFits, Within
<1>2. \A f : Assigned(p, f, R) => Assigned(p, f, S)
  BY <1>1 DEF Assigned
<1> QED BY <1>1, <1>2, PartOfIs

LEMMA DropsExists == \E g : Drops(g)
<1> DEFINE Kept1(R) == {B \in SUBSET R : Contains(B)}
           g == [R \in SUBSET Pair |-> UNION Kept1(R)]
<1>1. ASSUME NEW R \in SUBSET Pair
      PROVE  g[R] = IF Holding(R) = R THEN R ELSE g[Holding(R)]
  <2>1. Holding(R) \in SUBSET R /\ Holding(R) \in SUBSET Pair
    BY DEF Holding
  <2>2. CASE Holding(R) = R
    <3>1. R \in Kept1(R)
      BY <2>2 DEF Holding, Contains
    <3> QED BY <2>2, <3>1
  <2>3. CASE Holding(R) # R
    <3>1. \A B \in SUBSET R : Contains(B) => B \subseteq Holding(R)
      BY PartOfGrows DEF Contains, Holding
    <3>2. Kept1(R) = Kept1(Holding(R))
      BY <2>1, <3>1
    <3> QED BY <2>1, <2>3, <3>2
  <2> QED BY <2>2, <2>3
<1>2. g = [R \in SUBSET Pair |-> g[R]]
  OBVIOUS
<1> HIDE DEF g
<1>3. g = [R \in SUBSET Pair |-> IF Holding(R) = R THEN R ELSE g[Holding(R)]]
  BY <1>1, <1>2
<1> QED BY <1>3 DEF Drops

\* A set of pairs each of which is a part within the set is among those kept.
LEMMA ContainedHolds ==
  ASSUME NEW B \in SUBSET Pair, Contains(B)
  PROVE  B \subseteq Contained
<1> DEFINE g == CHOOSE f : Drops(f)
           Wrong == {R \in SUBSET Pair : B \subseteq R /\ ~ (B \subseteq g[R])}
           Sizes == {Cardinality(R) : R \in Wrong}
<1>1. Contained = g[Pair]
  BY DEF Contained, Drops, Holding
<1>2. Drops(g)
  <2> HIDE DEF g
  <2> QED BY DropsExists DEF g
<1> HIDE DEF g
<1>3. \A R \in SUBSET Pair : g[R] = IF Holding(R) = R THEN R ELSE g[Holding(R)]
  BY <1>2 DEF Drops
<1>4. \A R \in SUBSET Pair : IsFiniteSet(R) /\ Cardinality(R) \in Nat
  <2>1. IsFiniteSet(Pair)
    BY RefAssumption, FS_Product DEF Pair
  <2> QED BY <2>1, FS_Subset, FS_CardinalityType
<1>5. Wrong = {}
  <2> SUFFICES ASSUME Wrong # {} PROVE FALSE
    OBVIOUS
  <2>1. Sizes \in SUBSET Nat /\ Sizes # {}
    BY <1>4
  <2>2. PICK n \in Sizes : \A m \in Sizes : n <= m
    <3> HIDE DEF Sizes
    <3> QED BY <2>1, LeastNatural
  <2>3. PICK R \in Wrong : n = Cardinality(R)
    <3> HIDE DEF Wrong
    <3> QED BY <2>2
  <2>4. R \in SUBSET Pair /\ B \subseteq R /\ Holding(R) \in SUBSET R /\ Holding(R) \in SUBSET Pair
    BY DEF Holding
  <2>5. Holding(R) # R
    BY <1>3, <2>4
  <2>6. g[R] = g[Holding(R)]
    BY <1>3, <2>4, <2>5
  <2>7. B \subseteq Holding(R)
    BY <2>4, PartOfGrows DEF Contains, Holding
  <2>8. Holding(R) \in Wrong
    BY <2>4, <2>6, <2>7
  <2>9. Cardinality(Holding(R)) < Cardinality(R)
    BY <1>4, <2>4, <2>5, ProperSubset
  <2>10. Cardinality(Holding(R)) \in Nat /\ Cardinality(R) \in Nat
    BY <1>4, <2>4
  <2>11. Cardinality(Holding(R)) \in Sizes
    <3> HIDE DEF Wrong
    <3> QED BY <2>8
  <2> HIDE DEF Sizes
  <2> QED BY <2>2, <2>3, <2>9, <2>10, <2>11
<1> QED BY <1>1, <1>5

\* The pairs whose copies, with no circular reference in them, match.
Found(g) ==
  {p \in Pair : \E a, e \in Sight : p = <<a[1], e[1]>> /\ Open(a) /\ Open(e) /\ g[<<a, e>>]}

LEMMA ItemsFound ==
  ASSUME heap \in Heaps, NEW g, Solves(g), NEW x \in Sight, NEW y \in Sight,
         Open(x), Open(y), g[<<x, y>>]
  PROVE  Within(x[1], y[1], Found(g))
<1>1. Matches(g, x, y)
  BY DEF Solves, Sights
<1>2. Kind(x) = Kind(y)
  BY <1>1, MatchesByKind
<1>3. ~Circular(x) /\ ~Circular(y)
  BY OpenIsNotCircular
<1>4. {"Null", "Primitive", "CircularReference"} \cap Kinds = {}
  BY NameAssumption DEF Kinds
<1>5. CASE y[1] = Null
  <2>1. Kind(y) = "Null"
    BY <1>5, KindCases
  <2>2. x[1] = Null
    BY <1>2, <1>3, <1>4, <2>1, KindCases
  <2> QED BY <1>5, <2>2 DEF Within
<1>6. CASE y[1] \in Prim \ {Null}
  <2>1. Kind(y) = "Primitive"
    BY <1>6, KindCases
  <2>2. <<x[1], y[1]>> \in Includes
    BY <1>1, <1>2, <2>1, MatchesByKind
  <2> QED BY <2>2 DEF Within
<1>7. CASE y[1] \in Ref
  <2>1. Kind(y) \in Kinds
    BY <1>3, <1>7, KindCases
  <2>2. x[1] \in Ref
    BY <1>2, <2>1, KindCases
  <2>3. <<x[1], y[1]>> \in Found(g)
    BY <1>7, <2>2 DEF Found, Pair
  <2> QED BY <2>3 DEF Within
<1> QED BY <1>5, <1>6, <1>7, KindCases

LEMMA FoundContains ==
  ASSUME heap \in Heaps, NEW g, Solves(g)
  PROVE  Contains(Found(g))
<1> SUFFICES ASSUME NEW p \in Found(g) PROVE PartOf(p, Found(g))
  BY DEF Contains
<1>1. PICK a \in Sight, e \in Sight : p = <<a[1], e[1]>> /\ Open(a) /\ Open(e) /\ g[<<a, e>>]
  BY DEF Found
<1>2. a[1] \in Ref /\ e[1] \in Ref /\ p[1] = a[1] /\ p[2] = e[1]
  BY <1>1 DEF Found, Pair
<1>3. Matches(g, a, e) /\ Kind(a) = Kind(e)
  <2>1. Matches(g, a, e)
    BY <1>1 DEF Solves, Sights
  <2> QED BY <2>1, MatchesByKind
<1>4. ~Circular(a) /\ ~Circular(e)
  BY <1>1, OpenIsNotCircular
<1>5. Kind(a) = KindOf(p[1]) /\ Kind(e) = KindOf(p[2]) /\ Kind(e) \in Kinds
  BY <1>2, <1>4, KindCases
<1>6. \A m \in DOMAIN Held(a), n \in DOMAIN Held(e) : Part(g, a, m, e, n) => ItemFits(p, m, n, Found(g))
  <2> SUFFICES ASSUME NEW m \in DOMAIN Held(a), NEW n \in DOMAIN Held(e), Part(g, a, m, e, n)
               PROVE  ItemFits(p, m, n, Found(g))
    OBVIOUS
  <2>1. Below(a, m) \in Sight /\ Below(e, n) \in Sight
    BY <1>2, <1>4, RoomShrinks
  <2>2. Open(Below(a, m)) /\ Open(Below(e, n))
    BY <1>1, <1>2, OpenBelow
  <2>3. g[<<Below(a, m), Below(e, n)>>]
    BY DEF Part
  <2>4. Within(Below(a, m)[1], Below(e, n)[1], Found(g))
    BY <2>1, <2>2, <2>3, ItemsFound
  <2>5. Below(a, m)[1] = Items(p[1])[m] /\ Below(e, n)[1] = Items(p[2])[n]
    BY <1>2 DEF Below, Held
  <2> QED BY <2>4, <2>5 DEF ItemFits
<1>7. /\ Held(a) = Items(p[1]) /\ Held(e) = Items(p[2])
      /\ Len(Held(a)) \in Nat /\ DOMAIN Held(a) = 1..Len(Held(a))
      /\ Len(Held(e)) \in Nat /\ DOMAIN Held(e) = 1..Len(Held(e))
  BY <1>2, HeldValues DEF Held
<1>8. CASE Kind(e) = "Array" \/ Kind(e) \in Class
  <2>1. Kind(e) \notin {"Set", "Map"}
    BY <1>8, NameAssumption
  <2>2. Len(Held(a)) >= Len(Held(e)) /\ \A n \in DOMAIN Held(e) : Part(g, a, n, e, n)
    <3>1. CASE Kind(e) = "Array"
      BY <1>3, <3>1, MatchesByKind DEF ArrayLikeMatches
    <3>2. CASE Kind(e) \in Class
      <4>1. heap[a[1]].type = heap[e[1]].type /\ heap[a[1]].type \in Class
        BY <1>2, <1>3, <1>5, <3>2, ShapeAssumption, NameAssumption DEF KindOf
      <4>2. Len(Held(a)) = Len(Held(e))
        BY <1>2, <4>1, HeapAssumption DEF Typed, Held, Items
      <4>3. ClassMatches(g, a, e)
        BY <1>3, <3>2, MatchesByKind
      <4> QED BY <1>7, <4>2, <4>3 DEF ClassMatches
    <3> QED BY <1>8, <3>1, <3>2
  <2>3. DOMAIN Held(e) \subseteq DOMAIN Held(a)
    BY <1>7, <2>2
  <2>4. \A n \in DOMAIN Items(p[2]) : ItemFits(p, n, n, Found(g))
    BY <1>6, <1>7, <2>2, <2>3
  <2> QED BY <1>3, <1>5, <1>7, <2>1, <2>2, <2>4, PartOfIs
<1>9. CASE Kind(e) \in {"Set", "Map"}
  <2> DEFINE fits == Fitting(g, a, e)
  <2>1. PICK m \in Nat, count \in Nat :
          /\ m = Len(Parts(a[1])) /\ count = Len(Parts(e[1]))
          /\ DOMAIN Parts(a[1]) = 1..m /\ DOMAIN Parts(e[1]) = 1..count
    BY <1>2, PartsAreItems
  <2>2. KeyedMatches(g, a, e)
    BY <1>3, <1>9, MatchesByKind
  <2>3. FirstFit(fits, count)
    BY <2>1, <2>2, KeyedByFitting
  <2>4. fits \in SUBSET ((1..m) \X (1..count))
    BY <2>1 DEF Fitting
  <2>5. \A x \in fits : /\ x[1] \in DOMAIN Parts(p[1]) /\ x[2] \in DOMAIN Parts(p[2])
                        /\ ItemFits(p, Min(Parts(p[1])[x[1]]), Min(Parts(p[2])[x[2]]), Found(g))
                        /\ ItemFits(p, Max(Parts(p[1])[x[1]]), Max(Parts(p[2])[x[2]]), Found(g))
    <3> SUFFICES ASSUME NEW x \in fits
                 PROVE  /\ x[1] \in DOMAIN Parts(p[1]) /\ x[2] \in DOMAIN Parts(p[2])
                        /\ ItemFits(p, Min(Parts(p[1])[x[1]]), Min(Parts(p[2])[x[2]]), Found(g))
                        /\ ItemFits(p, Max(Parts(p[1])[x[1]]), Max(Parts(p[2])[x[2]]), Found(g))
      OBVIOUS
    <3>1. /\ x[1] \in DOMAIN Parts(a[1]) /\ x[2] \in DOMAIN Parts(e[1])
          /\ Part(g, a, Min(Parts(a[1])[x[1]]), e, Min(Parts(e[1])[x[2]]))
          /\ Part(g, a, Max(Parts(a[1])[x[1]]), e, Max(Parts(e[1])[x[2]]))
      BY DEF Fitting
    <3>2. /\ Min(Parts(a[1])[x[1]]) \in DOMAIN Held(a) /\ Max(Parts(a[1])[x[1]]) \in DOMAIN Held(a)
          /\ Min(Parts(e[1])[x[2]]) \in DOMAIN Held(e) /\ Max(Parts(e[1])[x[2]]) \in DOMAIN Held(e)
      BY <1>2, <3>1, PartsAreItems DEF Held
    <3> QED BY <1>2, <1>6, <3>1, <3>2
  <2> HIDE DEF fits
  <2>6. PICK f \in [1..count -> 1..m] :
          /\ \A n, o \in 1..count : f[n] = f[o] => n = o
          /\ \A n \in 1..count : <<f[n], n>> \in fits
    BY <2>3, <2>4, FirstFitAssigns
  <2>7. f \in [DOMAIN Parts(p[2]) -> DOMAIN Parts(p[1])] /\ DOMAIN f = 1..count
    BY <1>2, <2>1
  <2>8. Assigned(p, f, Found(g))
    <3> SUFFICES ASSUME NEW n \in 1..count
                 PROVE  /\ ItemFits(p, Min(Parts(p[1])[f[n]]), Min(Parts(p[2])[n]), Found(g))
                        /\ ItemFits(p, Max(Parts(p[1])[f[n]]), Max(Parts(p[2])[n]), Found(g))
      BY <2>6, <2>7 DEF Assigned
    <3>1. <<f[n], n>> \in fits /\ <<f[n], n>>[1] = f[n] /\ <<f[n], n>>[2] = n
      BY <2>6
    <3> QED BY <2>5, <3>1
  <2> QED BY <1>3, <1>5, <1>9, <2>7, <2>8, PartOfIs
<1> QED BY <1>5, <1>8, <1>9 DEF Kinds

\* A partial match that succeeds is right, for every heap: an assignment of the
\* parts of the expected value to different parts of the actual one is there all
\* the way down, as long as neither value is circular.
LEMMA MatchesAreContained ==
  ASSUME heap \in Heaps, NEW p \in Pair, CircleFree(p[1]), CircleFree(p[2]), IsPartialMatch(p[1], p[2])
  PROVE  p \in Contained
<1>1. p = <<p[1], p[2]>> /\ p[1] \in Value /\ p[2] \in Value
  BY DEF Pair, Value
<1>2. PICK g : Solves(g) /\ Asked(g)
  BY PartialMatchRecurs
<1>3. g[<< <<p[1], {}>>, <<p[2], {}>> >>]
  BY <1>1, <1>2 DEF Asked
<1>4. p \in Found(g)
  <2>1. /\ <<p[1], {}>> \in Sight /\ Open(<<p[1], {}>>)
        /\ <<p[2], {}>> \in Sight /\ Open(<<p[2], {}>>)
    BY <1>1, OpenAtTheTop
  <2> QED BY <1>1, <1>3, <2>1 DEF Found
<1>5. Found(g) \in SUBSET Pair
  BY DEF Found
<1> QED BY <1>2, <1>4, <1>5, FoundContains, ContainedHolds
-----------------------------------------------------------------------------
(****************************************************************************)
(* What is equal matches.                                                   *)
(****************************************************************************)
\* One value, or two that cannot be told apart, of one static type.
Twins(a, e) == a = e \/ (<<a, e>> \in Bisimilar /\ OneKind(heap, a, e))
Twinned(q) == q[1] = q[2] \/ (Open(q[1]) /\ Open(q[2]) /\ Twins(q[1][1], q[2][1]))

LEMMA TwinsAlike ==
  ASSUME heap \in Heaps, NEW a \in Ref, NEW e \in Ref, Twins(a, e)
  PROVE  /\ heap[a].type = heap[e].type /\ KindOf(a) = KindOf(e)
         /\ Len(Items(a)) = Len(Items(e)) /\ DOMAIN Items(a) = DOMAIN Items(e)
         /\ \A n \in DOMAIN Items(e) : Twins(Items(a)[n], Items(e)[n])
<1>1. CASE a = e
  BY <1>1 DEF Twins
<1>2. CASE a # e
  <2>1. <<a, e>> \in Bisimilar /\ OneKind(heap, a, e) /\ Bisimilar \in SUBSET Pair
    BY <1>2, BisimilarIsLargest DEF Twins
  <2>2. Supported(<<a, e>>, Bisimilar)
    BY <2>1, BisimilarIsLargest DEF Bisimulation
  <2>3. Admitted(a, e) /\ \A i \in DOMAIN Items(a) :
          Items(a)[i] = Items(e)[i] \/ <<Items(a)[i], Items(e)[i]>> \in Bisimilar
    BY <2>2 DEF Supported, Item, Same
  <2>4. heap[a].type = heap[e].type
    <3>1. CASE heap[a].type \in Class
      BY <2>3, <3>1, ClassAssumption DEF Admitted
    <3>2. CASE heap[a].type \notin Class
      BY <2>1, <3>2 DEF OneKind
    <3> QED BY <3>1, <3>2
  <2>5. Len(Items(a)) = Len(Items(e))
    <3>1. heap[a].type \in Class => Len(heap[a].items) = Len(heap[e].items)
      BY <2>4, HeapAssumption DEF Typed
    <3> QED BY <2>3, <3>1 DEF Admitted, Items
  <2>6. DOMAIN Items(a) = 1..Len(Items(a)) /\ DOMAIN Items(e) = 1..Len(Items(e))
    BY HeldValues
  <2>7. ASSUME NEW n \in DOMAIN Items(e) PROVE Twins(Items(a)[n], Items(e)[n])
    <3>1. n \in DOMAIN Items(a)
      BY <2>5, <2>6
    <3>2. CASE Items(a)[n] = Items(e)[n]
      BY <3>2 DEF Twins
    <3>3. CASE <<Items(a)[n], Items(e)[n]>> \in Bisimilar
      <4>1. {Items(a)[n], Items(e)[n]} \subseteq Ref
        BY <2>1, <3>3 DEF Pair
      <4>2. n \in DOMAIN heap[a].items \cap DOMAIN heap[e].items
        BY <3>1 DEF Items
      <4>3. Typed(heap)
        BY HeapAssumption
      <4>4. OneKind(heap, heap[a].items[n], heap[e].items[n])
        BY <2>4, <4>1, <4>2, <4>3 DEF Typed, Items
      <4> QED BY <3>3, <4>4 DEF Twins, Items
    <3> QED BY <2>3, <3>1, <3>2, <3>3
  <2>8. KindOf(a) = KindOf(e)
    BY <2>4 DEF KindOf
  <2> QED BY <2>4, <2>5, <2>6, <2>7, <2>8
<1> QED BY <1>1, <1>2

LEMMA TwinnedMatch ==
  ASSUME heap \in Heaps, NEW g, Solves(g), NEW a \in Sight, NEW e \in Sight, Twinned(<<a, e>>),
         \A p \in Sights : Twinned(p) /\ Room(p) < Room(<<a, e>>) => g[p]
  PROVE  Matches(g, a, e)
<1>1. a[1] = e[1] \/ (a[1] \in Ref /\ e[1] \in Ref)
  <2>1. Bisimilar \in SUBSET Pair
    BY BisimilarIsLargest
  <2> QED BY <2>1 DEF Twinned, Twins, Pair
<1>2. CASE a[1] = Null \/ a[1] \in Prim \ {Null}
  <2>1. a[1] = e[1]
    BY <1>1, <1>2, KindCases
  <2>2. CASE a[1] = Null
    BY <2>1, <2>2, KindCases, MatchesByKind
  <2>3. CASE a[1] \in Prim \ {Null}
    <3>1. Kind(a) = "Primitive" /\ Kind(e) = "Primitive"
      BY <2>1, <2>3, KindCases
    <3>2. <<a[1], e[1]>> \in Includes
      BY <2>1, <2>3, IncludesAssumption
    <3> QED BY <3>1, <3>2, MatchesByKind
  <2> QED BY <1>2, <2>2, <2>3
<1>3. CASE a[1] \in Ref /\ Circular(e)
  <2>1. a = e
    BY <1>3, OpenIsNotCircular DEF Twinned
  <2>2. Kind(a) = "CircularReference" /\ Kind(e) = "CircularReference"
    BY <1>3, <2>1, KindCases
  <2> QED BY <2>1, <2>2, MatchesByKind
<1>4. CASE a[1] \in Ref /\ ~Circular(e)
  <2>1. e[1] \in Ref
    BY <1>1, <1>4
  <2>2. ~Circular(a)
    BY <1>4, OpenIsNotCircular DEF Twinned
  <2>3. Twins(a[1], e[1])
    BY DEF Twinned, Twins
  <2>4. /\ heap[a[1]].type = heap[e[1]].type /\ KindOf(a[1]) = KindOf(e[1])
        /\ Len(Held(a)) = Len(Held(e)) /\ DOMAIN Held(a) = DOMAIN Held(e)
        /\ \A n \in DOMAIN Held(e) : Twins(Held(a)[n], Held(e)[n])
    BY <1>4, <2>1, <2>3, TwinsAlike DEF Held
  <2>5. Kind(a) = KindOf(a[1]) /\ Kind(e) = KindOf(e[1]) /\ Kind(a) = Kind(e) /\ Kind(e) \in Kinds
    BY <1>4, <2>1, <2>2, <2>4, KindCases
  <2>6. ASSUME NEW n \in DOMAIN Held(e) PROVE Part(g, a, n, e, n)
    <3>1. n \in DOMAIN Held(a)
      BY <2>4
    <3>2. /\ <<Below(a, n), Below(e, n)>> \in Sights
          /\ Room(<<Below(a, n), Below(e, n)>>) < Room(<<a, e>>)
      BY <1>4, <2>1, <3>1, RoomShrinks
    <3>3. Twinned(<<Below(a, n), Below(e, n)>>)
      <4>1. CASE a = e
        BY <4>1 DEF Twinned
      <4>2. CASE Open(a) /\ Open(e)
        <5>1. Open(Below(a, n)) /\ Open(Below(e, n))
          BY <1>4, <2>1, <3>1, <4>2, OpenBelow
        <5>2. Twins(Below(a, n)[1], Below(e, n)[1])
          BY <2>4 DEF Below
        <5> QED BY <5>1, <5>2 DEF Twinned
      <4> QED BY <4>1, <4>2 DEF Twinned
    <3> QED BY <3>2, <3>3 DEF Part
  <2>7. Len(Held(a)) \in Nat /\ Len(Held(e)) \in Nat
    BY <1>4, <2>1, HeldValues DEF Held
  <2>8. CASE Kind(e) = "Array"
    <3>1. ArrayLikeMatches(g, a, e)
      BY <2>4, <2>6, <2>7 DEF ArrayLikeMatches
    <3> QED BY <2>5, <2>8, <3>1, MatchesByKind
  <2>9. CASE Kind(e) \in Class
    <3>1. ClassMatches(g, a, e)
      BY <2>6 DEF ClassMatches
    <3> QED BY <2>5, <2>9, <3>1, MatchesByKind
  <2>10. CASE Kind(e) \in {"Set", "Map"}
    <3>1. Parts(a[1]) = Parts(e[1])
      BY <2>4 DEF Parts, Held
    <3>2. PICK m \in Nat : m = Len(Parts(e[1])) /\ DOMAIN Parts(e[1]) = 1..m
      BY <2>1, PartsAreItems
    <3>3. \A n \in 1..m : <<n, n>> \in Fitting(g, a, e)
      <4> SUFFICES ASSUME NEW n \in 1..m PROVE <<n, n>> \in Fitting(g, a, e)
        OBVIOUS
      <4>1. /\ Min(Parts(e[1])[n]) \in DOMAIN Held(e) /\ Max(Parts(e[1])[n]) \in DOMAIN Held(e)
        BY <2>1, <3>2, PartsAreItems DEF Held
      <4>2. /\ Part(g, a, Min(Parts(a[1])[n]), e, Min(Parts(e[1])[n]))
            /\ Part(g, a, Max(Parts(a[1])[n]), e, Max(Parts(e[1])[n]))
        BY <2>6, <3>1, <4>1
      <4> QED BY <3>1, <3>2, <4>2 DEF Fitting
    <3>4. Fitting(g, a, e) \in SUBSET ((1..m) \X (1..m))
      BY <3>1, <3>2 DEF Fitting
    <3>5. FirstFit(Fitting(g, a, e), m)
      BY <3>3, <3>4, FirstFitDiagonal
    <3>6. KeyedMatches(g, a, e)
      BY <2>4, <2>7, <3>2, <3>5, KeyedByFitting
    <3> QED BY <2>5, <2>10, <3>6, MatchesByKind
  <2> QED BY <2>5, <2>8, <2>9, <2>10 DEF Kinds
<1> QED BY <1>2, <1>3, <1>4, KindCases

LEMMA TwinnedMatchAll ==
  ASSUME heap \in Heaps, NEW g, Solves(g), NEW q \in Sights, Twinned(q)
  PROVE  g[q]
<1> DEFINE Wrong == {p \in Sights : Twinned(p) /\ ~ g[p]}
           Rooms == {Room(p) : p \in Wrong}
<1>1. Wrong = {}
  <2> SUFFICES ASSUME Wrong # {} PROVE FALSE
    OBVIOUS
  <2>1. Rooms \in SUBSET Nat /\ Rooms # {}
    BY RoomIsNatural
  <2>2. PICK n \in Rooms : \A m \in Rooms : n <= m
    <3> HIDE DEF Rooms
    <3> QED BY <2>1, LeastNatural
  <2>3. PICK p \in Wrong : n = Room(p)
    <3> HIDE DEF Wrong
    <3> QED BY <2>2
  <2>4. p \in Sights /\ Twinned(p) /\ ~ g[p]
    OBVIOUS
  <2>5. PICK a \in Sight, e \in Sight : p = <<a, e>>
    BY <2>4 DEF Sights
  <2>6. ASSUME NEW r \in Sights, Twinned(r), Room(r) < Room(p) PROVE g[r]
    <3> SUFFICES ASSUME ~ g[r] PROVE FALSE
      OBVIOUS
    <3>1. Room(r) \in Rooms
      BY <2>6
    <3>2. Room(r) \in Nat /\ Room(p) \in Nat
      BY <2>4, RoomIsNatural
    <3> HIDE DEF Rooms
    <3> QED BY <2>2, <2>3, <2>6, <3>1, <3>2
  <2>7. Matches(g, a, e)
    <3> HIDE DEF Wrong
    <3> QED BY <2>4, <2>5, <2>6, TwinnedMatch
  <2> QED BY <2>4, <2>5, <2>7 DEF Solves
<1> QED BY <1>1

LEMMA TwinsMatchPartially ==
  ASSUME heap \in Heaps, NEW p \in Pair, Twins(p[1], p[2]),
         Same(p) \/ (CircleFree(p[1]) /\ CircleFree(p[2]))
  PROVE  IsPartialMatch(p[1], p[2])
<1>1. p[1] \in Value /\ p[2] \in Value
  BY DEF Pair, Value
<1>2. PICK g : Solves(g) /\ Asked(g)
  BY PartialMatchRecurs
<1> DEFINE a == <<p[1], {}>>
           e == <<p[2], {}>>
<1>3. a \in Sight /\ e \in Sight /\ a[1] = p[1] /\ e[1] = p[2]
  BY <1>1 DEF Sight
<1>4. Twinned(<<a, e>>)
  <2>1. CASE Same(p)
    BY <2>1 DEF Same, Twinned
  <2>2. CASE CircleFree(p[1]) /\ CircleFree(p[2])
    <3>1. Open(a) /\ Open(e)
      BY <1>1, <2>2, OpenAtTheTop
    <3> HIDE DEF a, e
    <3> QED BY <1>3, <3>1 DEF Twinned
  <2> QED BY <2>1, <2>2
<1>5. g[<<a, e>>]
  <2>1. <<a, e>> \in Sights
    BY <1>3 DEF Sights
  <2> HIDE DEF a, e
  <2> QED BY <1>2, <1>4, <2>1, TwinnedMatchAll
<1> QED BY <1>1, <1>2, <1>5 DEF Asked
-----------------------------------------------------------------------------
\* A partial match that succeeds is right, for every heap: all of the expected
\* value is in the actual one, with different elements and entries for different
\* ones, as long as neither value is circular.
THEOREM PartialMatchesAreReal == Spec => []PartialMatchIsContained
<1>1. IInv => PartialMatchIsContained
  <2> SUFFICES ASSUME IInv, Answered(Result), CircleFree(question[1]), CircleFree(question[2]),
                      IsPartialMatch(question[1], question[2])
               PROVE  question \in Contained
    BY DEF PartialMatchIsContained
  <2>1. heap \in Heaps /\ question \in Pair
    BY DEF IInv, TypeOK, Answered
  <2> QED BY <2>1, MatchesAreContained
<1> QED BY <1>1, Invariance, PTL

\* Only values of one static type are compared.
QuestionAlike == question # Idle => question \in Pair /\ Alike(question)

LEMMA QuestionsAlike == Spec => []QuestionAlike
<1>1. Init => QuestionAlike
  BY DEF Init, QuestionAlike
<1>2. QuestionAlike /\ [Next]_vars => QuestionAlike'
  BY DEF QuestionAlike, Next, Ask, CompareItem, TakeItem, Close, Differ, Leave, Trap, Answer, vars,
         Alike, OneKind
<1> QED BY <1>1, <1>2, PTL DEF Spec

\* Values that deep equality finds equal match each other partially, for every
\* heap: the greedy search finds each element and entry one of its own, for the
\* one in its own place is always left.
THEOREM EqualityImpliesPartialMatch == Spec => []EqualValuesMatchPartially
<1>1. IInv /\ AgreesWithUnfolding /\ QuestionAlike => EqualValuesMatchPartially
  <2> SUFFICES ASSUME IInv, AgreesWithUnfolding, QuestionAlike, Answered({"Match"}),
                      Same(question) \/ (CircleFree(question[1]) /\ CircleFree(question[2]))
               PROVE  IsPartialMatch(question[1], question[2])
    BY DEF EqualValuesMatchPartially
  <2>1. heap \in Heaps /\ question \in Pair /\ OneKind(heap, question[1], question[2])
    BY DEF IInv, TypeOK, Answered, QuestionAlike, Alike
  <2>2. Same(question) \/ question \in Bisimilar
    BY DEF AgreesWithUnfolding, Answered, Result
  <2>3. question = <<question[1], question[2]>>
    BY <2>1 DEF Pair
  <2>4. Twins(question[1], question[2])
    BY <2>1, <2>2, <2>3 DEF Twins, Same
  <2> QED BY <2>1, <2>4, TwinsMatchPartially
<1> QED BY <1>1, Invariance, EqualityIsUnfolding, QuestionsAlike, PTL
=============================================================================

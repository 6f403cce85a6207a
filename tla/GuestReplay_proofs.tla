------------------------- MODULE GuestReplay_proofs -------------------------
(***************************************************************************)
(* For every set of programs and any number of calls and misbehaving       *)
(* bodies: no replay state outlives its call, a path keeps the id it was   *)
(* first shown with, an answer rests on bodies that declared what the      *)
(* durable nodes say, and a call is answered as if it were the first.  The *)
(* invariant of the first three is about the shape of the registry: the    *)
(* durable nodes are a tree, the walk is below resolved nodes only, and    *)
(* only a node that is not resolved ever loses its children.  The fourth   *)
(* adds what the nodes have to do with the text of the program, and the    *)
(* walk with its path.                                                     *)
(***************************************************************************)
EXTENDS GuestReplay, FiniteSetTheorems, TLAPS

(***************************************************************************)
(* Paths, nodes and the tree.                                              *)
(***************************************************************************)

Path == Seq(Nat)

Slot == [id : Nat, code : Path, kind : Kinds, base : Modes, mode : Modes, only : BOOLEAN,
         hinted : BOOLEAN, resolved : BOOLEAN, hooks : Nat, count : Nat]

\* The durable nodes are a tree: every node but the root is one of the counted
\* children of another, and all of those exist.
Tree(S) ==
  /\ DOMAIN S \subseteq Path /\ S \in [DOMAIN S -> Slot]
  /\ <<>> \in DOMAIN S /\ S[<<>>].resolved
  /\ \A p \in DOMAIN S : \A i \in 1..S[p].count : Append(p, i) \in DOMAIN S
  /\ \A q \in DOMAIN S : q # <<>> =>
       \E p \in DOMAIN S : \E i \in 1..S[p].count : q = Append(p, i)

\* What appending an ordinal does to a path.
LEMMA Appended ==
  ASSUME NEW p \in Path, NEW i \in Nat
  PROVE  /\ Append(p, i) \in Path /\ Len(Append(p, i)) = Len(p) + 1 /\ Len(p) \in Nat
         /\ Append(p, i)[Len(p) + 1] = i /\ Append(p, i) # <<>>
         /\ \A k \in 1..Len(p) : Append(p, i)[k] = p[k]
BY DEF Path

\* A child path has one parent and one ordinal.
LEMMA AppendInjective ==
  ASSUME NEW p \in Path, NEW i \in Nat, NEW q \in Path, NEW j \in Nat, Append(p, i) = Append(q, j)
  PROVE  p = q /\ i = j
<1> DEFINE a == Append(p, i)
           b == Append(q, j)
<1>1. /\ Len(a) = Len(p) + 1 /\ Len(p) \in Nat /\ a[Len(p) + 1] = i
      /\ \A k \in 1..Len(p) : a[k] = p[k]
  BY Appended
<1>2. /\ Len(b) = Len(q) + 1 /\ Len(q) \in Nat /\ b[Len(q) + 1] = j
      /\ \A k \in 1..Len(q) : b[k] = q[k]
  BY Appended
<1>3. a = b
  OBVIOUS
<1> HIDE DEF a, b
<1>4. Len(p) = Len(q)
  BY <1>1, <1>2, <1>3
<1>5. i = j
  BY <1>1, <1>2, <1>3, <1>4
<1>6. \A k \in 1..Len(p) : p[k] = q[k]
  BY <1>1, <1>2, <1>3, <1>4
<1>7. p = q
  BY <1>4, <1>6, SMTT(30) DEF Path
<1> QED BY <1>5, <1>7

\* The prefixes of a path are prefixes of its children.
LEMMA PrefixOfAppended ==
  ASSUME NEW p \in Path, NEW i \in Nat, NEW k \in 0..Len(p)
  PROVE  /\ SubSeq(Append(p, i), 1, k) = SubSeq(p, 1, k)
         /\ SubSeq(p, 1, Len(p)) = p /\ SubSeq(p, 1, k) \in Path /\ Len(SubSeq(p, 1, k)) = k
<1>1. SubSeq(p, 1, k) \in Path /\ Len(SubSeq(p, 1, k)) = k /\ SubSeq(p, 1, Len(p)) = p
  BY DEF Path
<1>2. SubSeq(Append(p, i), 1, k) \in Path /\ Len(SubSeq(Append(p, i), 1, k)) = k
  BY Appended DEF Path
<1>3. \A j \in 1..k : SubSeq(Append(p, i), 1, k)[j] = SubSeq(p, 1, k)[j]
  BY DEF Path
<1>4. SubSeq(Append(p, i), 1, k) = SubSeq(p, 1, k)
  BY <1>1, <1>2, <1>3 DEF Path
<1> QED BY <1>1, <1>4

\* A child is under its parent and what that is under, and nothing else.
LEMMA UnderAppended ==
  ASSUME NEW p \in Path, NEW q \in Path, NEW i \in Nat
  PROVE  Under(p, Append(q, i)) <=> p = q \/ Under(p, q)
<1>1. CASE Len(p) <= Len(q)
  <2>1. SubSeq(Append(q, i), 1, Len(p)) = SubSeq(q, 1, Len(p)) /\ Len(p) \in Nat /\ Len(q) \in Nat
    BY <1>1, PrefixOfAppended DEF Path
  <2>2. Len(p) = Len(q) => SubSeq(q, 1, Len(p)) = q
    BY PrefixOfAppended, <2>1
  <2>3. Len(Append(q, i)) = Len(q) + 1 /\ p # Append(q, i)
    BY <1>1, <2>1, Appended
  <2> HIDE DEF Path
  <2> QED BY <1>1, <2>1, <2>2, <2>3 DEF Under
<1>2. CASE Len(p) > Len(q)
  BY <1>2, Appended DEF Under, Path
<1> QED BY <1>1, <1>2, Appended

\* The prefix that is one longer is a child of the prefix.
LEMMA NextPrefix ==
  ASSUME NEW p \in Path, NEW k \in 0..Len(p), k < Len(p)
  PROVE  /\ SubSeq(p, 1, k + 1) = Append(SubSeq(p, 1, k), p[k + 1])
         /\ SubSeq(p, 1, k) \in Path /\ p[k + 1] \in Nat /\ Len(SubSeq(p, 1, k)) = k
<1>1. /\ SubSeq(p, 1, k) \in Path /\ p[k + 1] \in Nat /\ Len(SubSeq(p, 1, k)) = k
      /\ SubSeq(p, 1, k + 1) \in Path /\ Len(SubSeq(p, 1, k + 1)) = k + 1 /\ k \in Nat
  BY DEF Path
<1>2. \A j \in 1..(k + 1) : SubSeq(p, 1, k + 1)[j] = Append(SubSeq(p, 1, k), p[k + 1])[j]
  <2> TAKE j \in 1..(k + 1)
  <2>1. SubSeq(p, 1, k + 1)[j] = p[j]
    BY <1>1 DEF Path
  <2>2. CASE j = k + 1
    <3>1. Append(SubSeq(p, 1, k), p[k + 1])[k + 1] = p[k + 1]
      <4> DEFINE s == SubSeq(p, 1, k)
                 x == p[k + 1]
      <4>1. s \in Path /\ x \in Nat /\ Len(s) = k
        BY <1>1
      <4> HIDE DEF s, x
      <4>2. Append(s, x)[Len(s) + 1] = x
        BY <4>1, Appended
      <4> QED BY <4>1, <4>2 DEF s, x
    <3> QED BY <2>1, <2>2, <3>1
  <2>3. CASE j # k + 1
    <3>1. j \in 1..k /\ SubSeq(p, 1, k)[j] = p[j]
      BY <2>3, <1>1 DEF Path
    <3> QED BY <1>1, <2>1, <3>1, Appended
  <2> QED BY <2>2, <2>3
<1>3. Append(SubSeq(p, 1, k), p[k + 1]) \in Path /\ Len(Append(SubSeq(p, 1, k), p[k + 1])) = k + 1
  BY <1>1, Appended
<1>4. SubSeq(p, 1, k + 1) = Append(SubSeq(p, 1, k), p[k + 1])
  BY <1>1, <1>2, <1>3 DEF Path
<1> QED BY <1>1, <1>4

\* Counting children changes nothing else of a node.
LEMMA CountChanged ==
  ASSUME NEW s \in Slot, NEW n \in Nat
  PROVE  /\ [s EXCEPT !.count = n] \in Slot /\ [s EXCEPT !.count = n].count = n
         /\ [s EXCEPT !.count = n].id = s.id /\ [s EXCEPT !.count = n].kind = s.kind
         /\ [s EXCEPT !.count = n].base = s.base /\ [s EXCEPT !.count = n].only = s.only
         /\ [s EXCEPT !.count = n].resolved = s.resolved
BY DEF Slot

\* A new node has what was declared, and no children.
LEMMA NewSlotType ==
  ASSUME NEW code \in Path, NEW id \in Nat, NEW d \in Declaration
  PROVE  /\ NewSlot(code, id, d) \in Slot
         /\ NewSlot(code, id, d).count = 0
         /\ NewSlot(code, id, d).kind = d.kind /\ NewSlot(code, id, d).base = d.mode
         /\ NewSlot(code, id, d).only = d.only
BY DEF NewSlot, Slot, Declaration

\* What a body that runs on the durable node p can change of the tree: it adds
\* children to p that have none themselves.
Grows(S, T, p) ==
  /\ DOMAIN S \subseteq DOMAIN T
  /\ \A q \in DOMAIN S :
       /\ T[q].id = S[q].id /\ T[q].kind = S[q].kind /\ T[q].base = S[q].base
       /\ T[q].only = S[q].only /\ (S[q].resolved => T[q].resolved)
       /\ q # p => T[q].count = S[q].count /\ T[q].resolved = S[q].resolved
  /\ \A q \in DOMAIN T \ DOMAIN S : T[q].count = 0

\* T is the tree S with the children of p that ds declares.
Made(S, T, p, ds) ==
  LET born(i) == Append(p, S[p].count + i)
  IN  /\ DOMAIN T = DOMAIN S \cup {born(i) : i \in DOMAIN ds}
      /\ \A i \in DOMAIN ds :
           /\ born(i) \notin DOMAIN S
           /\ T[born(i)] = NewSlot(Append(S[p].code, i), nextId + i - 1, ds[i])
      /\ \A q \in DOMAIN S : q # p => T[q] = S[q]

\* createChild: the children of p come behind those it has, with new ids.
LEMMA ChildrenMade ==
  ASSUME NEW S, Tree(S), NEW p \in DOMAIN S, NEW ds \in Seq(Declaration), nextId \in Nat,
         NEW T, T = AddChildren(S, p, ds)
  PROVE  /\ Made(S, T, p, ds) /\ T = [q \in DOMAIN T |-> T[q]]
         /\ T[p] = [S[p] EXCEPT !.count = S[p].count + Len(ds)]
<1> DEFINE n == S[p].count
           born == {Append(p, n + i) : i \in DOMAIN ds}
           child(i) == NewSlot(Append(S[p].code, i), nextId + i - 1, ds[i])
<1>1. /\ DOMAIN S \subseteq Path /\ S \in [DOMAIN S -> Slot] /\ p \in Path /\ S[p] \in Slot
      /\ n \in Nat /\ DOMAIN ds = 1..Len(ds) /\ Len(ds) \in Nat /\ S[p].code \in Path
      /\ \A i \in DOMAIN ds : ds[i] \in Declaration
  BY DEF Tree, Slot
<1>2. ASSUME NEW i \in DOMAIN ds
      PROVE  /\ Append(p, n + i) \in Path /\ n + i \in Nat /\ i \in Nat
             /\ Append(p, n + i)[Len(Append(p, n + i))] - n = i
             /\ Append(S[p].code, i) \in Path /\ nextId + i - 1 \in Nat
  <2>1. i \in Nat /\ i >= 1 /\ n + i \in Nat
    BY <1>1
  <2>2. /\ Append(p, n + i) \in Path /\ Len(Append(p, n + i)) = Len(p) + 1
        /\ Append(p, n + i)[Len(p) + 1] = n + i
    BY <1>1, <2>1, Appended
  <2>3. Append(S[p].code, i) \in Path
    BY <1>1, <2>1, Appended
  <2> HIDE DEF n
  <2> QED BY <1>1, <2>1, <2>2, <2>3
<1>3. DOMAIN T = DOMAIN S \cup born
  BY DEF AddChildren
<1>4. \A i \in DOMAIN ds : Append(p, n + i) \notin DOMAIN S
  <2> SUFFICES ASSUME NEW i \in DOMAIN ds, Append(p, n + i) \in DOMAIN S PROVE FALSE
    OBVIOUS
  <2>1. Append(p, n + i) # <<>> /\ n + i \in Nat
    BY <1>1, <1>2, Appended
  <2>2. PICK q \in DOMAIN S : \E j \in 1..S[q].count : Append(p, n + i) = Append(q, j)
    BY <2>1 DEF Tree
  <2>3. PICK j \in 1..S[q].count : Append(p, n + i) = Append(q, j)
    BY <2>2
  <2>4. q \in Path /\ S[q].count \in Nat /\ j \in Nat /\ j <= S[q].count
    BY <1>1 DEF Slot
  <2>5. p = q /\ n + i = j
    BY <1>1, <2>1, <2>3, <2>4, AppendInjective, SMTT(30)
  <2> HIDE DEF born, child
  <2> QED BY <1>1, <2>4, <2>5
<1>5. ASSUME NEW i \in DOMAIN ds PROVE T[Append(p, n + i)] = child(i)
  <2>1. Append(p, n + i) \in born
    OBVIOUS
  <2> DEFINE q == Append(p, n + i)
  <2>2. q[Len(q)] - n = i /\ q \in born
    BY <1>2, <2>1
  <2>3. T[q] = NewSlot(Append(S[p].code, q[Len(q)] - n), nextId + (q[Len(q)] - n) - 1,
                       ds[q[Len(q)] - n])
    <3> HIDE DEF q
    <3> QED BY <2>2 DEF AddChildren
  <2> HIDE DEF q
  <2>4. T[q] = child(i)
    BY <2>2, <2>3
  <2> QED BY <2>4 DEF q
<1>6. \A q \in DOMAIN S : q # p => T[q] = S[q]
  BY <1>4 DEF AddChildren
<1>7. T[p] = [S[p] EXCEPT !.count = n + Len(ds)]
  BY <1>4 DEF AddChildren
<1>8. T = [q \in DOMAIN T |-> T[q]]
  BY DEF AddChildren
<1>9. Made(S, T, p, ds)
  BY <1>3, <1>4, <1>5, <1>6 DEF Made
<1> QED BY <1>7, <1>8, <1>9

\* The tree grows at p by what was declared.
LEMMA ChildrenAdded ==
  ASSUME NEW S, Tree(S), NEW p \in DOMAIN S, NEW ds \in Seq(Declaration), nextId \in Nat,
         NEW T, T = AddChildren(S, p, ds)
  PROVE  /\ Tree(T) /\ Grows(S, T, p) /\ T[p].count = S[p].count + Len(ds)
         /\ T[p].resolved = S[p].resolved
         /\ \A i \in DOMAIN ds :
              LET s == T[Append(p, S[p].count + i)]
              IN  s.kind = ds[i].kind /\ s.base = ds[i].mode /\ s.only = ds[i].only
<1>0. /\ Made(S, T, p, ds) /\ T = [q \in DOMAIN T |-> T[q]]
      /\ T[p] = [S[p] EXCEPT !.count = S[p].count + Len(ds)]
  BY ChildrenMade
<1> DEFINE n == S[p].count
           born == {Append(p, n + i) : i \in DOMAIN ds}
           child(i) == NewSlot(Append(S[p].code, i), nextId + i - 1, ds[i])
<1>1. /\ DOMAIN S \subseteq Path /\ S \in [DOMAIN S -> Slot] /\ p \in Path /\ S[p] \in Slot
      /\ n \in Nat /\ DOMAIN ds = 1..Len(ds) /\ Len(ds) \in Nat /\ S[p].code \in Path
      /\ \A i \in DOMAIN ds : ds[i] \in Declaration
  BY DEF Tree, Slot
<1>2. ASSUME NEW i \in DOMAIN ds
      PROVE  /\ Append(p, n + i) \in Path /\ n + i \in Nat /\ i \in Nat
             /\ Append(p, n + i)[Len(Append(p, n + i))] - n = i
             /\ Append(S[p].code, i) \in Path /\ nextId + i - 1 \in Nat
  <2>1. i \in Nat /\ i >= 1 /\ n + i \in Nat
    BY <1>1
  <2>2. /\ Append(p, n + i) \in Path /\ Len(Append(p, n + i)) = Len(p) + 1
        /\ Append(p, n + i)[Len(p) + 1] = n + i
    BY <1>1, <2>1, Appended
  <2>3. Append(S[p].code, i) \in Path
    BY <1>1, <2>1, Appended
  <2> HIDE DEF n
  <2> QED BY <1>1, <2>1, <2>2, <2>3
<1>3. DOMAIN T = DOMAIN S \cup born
  BY <1>0 DEF Made
<1>4. \A i \in DOMAIN ds : Append(p, n + i) \notin DOMAIN S
  BY <1>0 DEF Made
<1>5. \A i \in DOMAIN ds : T[Append(p, n + i)] = child(i)
  BY <1>0 DEF Made
<1>6. \A q \in DOMAIN S : q # p => T[q] = S[q]
  BY <1>0 DEF Made
<1>7. T[p] = [S[p] EXCEPT !.count = n + Len(ds)]
  BY <1>0
<1>8. /\ T[p] \in Slot /\ T[p].count = n + Len(ds) /\ T[p].id = S[p].id /\ T[p].kind = S[p].kind
      /\ T[p].base = S[p].base /\ T[p].only = S[p].only /\ T[p].resolved = S[p].resolved
  <2> DEFINE m == n + Len(ds)
  <2>1. m \in Nat /\ T[p] = [S[p] EXCEPT !.count = m]
    BY <1>1, <1>7
  <2> HIDE DEF m, n
  <2>2. /\ T[p] \in Slot /\ T[p].count = m /\ T[p].id = S[p].id /\ T[p].kind = S[p].kind
        /\ T[p].base = S[p].base /\ T[p].only = S[p].only /\ T[p].resolved = S[p].resolved
    BY <1>1, <2>1, CountChanged
  <2> QED BY <2>2 DEF m
<1>9. \A i \in DOMAIN ds :
        /\ child(i) \in Slot /\ child(i).count = 0 /\ child(i).kind = ds[i].kind
        /\ child(i).base = ds[i].mode /\ child(i).only = ds[i].only
  BY <1>1, <1>2, NewSlotType
<1>10. T = [q \in DOMAIN T |-> T[q]]
  BY <1>0
<1> HIDE DEF child
<1>11. \A q \in DOMAIN T : T[q] \in Slot /\ q \in Path
  <2>1. \A q \in DOMAIN S : T[q] \in Slot /\ q \in Path
    BY <1>1, <1>6, <1>8
  <2>2. \A i \in DOMAIN ds : T[Append(p, n + i)] \in Slot /\ Append(p, n + i) \in Path
    BY <1>2, <1>5, <1>9
  <2> HIDE DEF n
  <2> QED BY <1>3, <2>1, <2>2
<1>12. \A q \in born : T[q].count = 0
  BY <1>5, <1>9
<1>13. Grows(S, T, p)
  BY <1>3, <1>6, <1>8, <1>12 DEF Grows
<1>14. \A q \in DOMAIN T : \A i \in 1..T[q].count : Append(q, i) \in DOMAIN T
  <2> SUFFICES ASSUME NEW q \in DOMAIN T, NEW i \in 1..T[q].count
               PROVE  Append(q, i) \in DOMAIN T
    OBVIOUS
  <2>1. CASE q \in born
    BY <1>12, <2>1
  <2>2. CASE q \in DOMAIN S /\ q # p
    BY <1>3, <1>6, <2>2 DEF Tree
  <2>3. CASE q = p /\ i <= n
    BY <1>1, <1>3, <1>8, <2>3 DEF Tree
  <2>4. CASE q = p /\ i > n
    <3>1. i - n \in DOMAIN ds /\ n + (i - n) = i
      BY <1>1, <1>8, <2>4
    <3>2. Append(p, n + (i - n)) \in born
      BY <3>1
    <3> QED BY <1>3, <2>4, <3>1, <3>2
  <2> QED BY <1>1, <1>3, <1>8, <2>1, <2>2, <2>3, <2>4
<1>15. \A q \in DOMAIN T : q # <<>> => \E r \in DOMAIN T : \E i \in 1..T[r].count : q = Append(r, i)
  <2> SUFFICES ASSUME NEW q \in DOMAIN T, q # <<>>
               PROVE  \E r \in DOMAIN T : \E i \in 1..T[r].count : q = Append(r, i)
    OBVIOUS
  <2>1. CASE q \in DOMAIN S
    <3>1. PICK r \in DOMAIN S : \E i \in 1..S[r].count : q = Append(r, i)
      BY <2>1 DEF Tree
    <3>2. PICK i \in 1..S[r].count : q = Append(r, i)
      BY <3>1
    <3>3. S[r].count \in Nat /\ T[r].count \in Nat /\ S[r].count <= T[r].count
      <4>1. S[r].count \in Nat
        BY <1>1 DEF Slot
      <4>2. CASE r = p
        <5> DEFINE k == Len(ds)
        <5>1. k \in Nat /\ T[r].count = S[r].count + k
          BY <1>1, <1>8, <4>2
        <5> HIDE DEF k
        <5> QED BY <4>1, <5>1
      <4>3. CASE r # p
        BY <1>6, <4>1, <4>3
      <4> QED BY <4>2, <4>3
    <3>4. i \in 1..T[r].count /\ r \in DOMAIN T
      BY <1>3, <3>3
    <3> QED BY <3>2, <3>4
  <2>2. CASE q \in born
    <3>1. PICK i \in DOMAIN ds : q = Append(p, n + i)
      BY <2>2
    <3>2. n + i \in 1..T[p].count /\ p \in DOMAIN T
      BY <1>1, <1>3, <1>8
    <3> QED BY <3>1, <3>2
  <2> QED BY <1>3, <2>1, <2>2
<1>16. <<>> \in DOMAIN T /\ T[<<>>].resolved
  BY <1>3, <1>6, <1>8 DEF Tree
<1>17. Tree(T)
  <2> HIDE DEF n, born
  <2> QED BY <1>10, <1>11, <1>14, <1>15, <1>16 DEF Tree
<1>18. \A i \in DOMAIN ds :
         LET s == T[Append(p, n + i)]
         IN  s.kind = ds[i].kind /\ s.base = ds[i].mode /\ s.only = ds[i].only
  BY <1>5, <1>9
<1> QED BY <1>8, <1>13, <1>17, <1>18

\* What changes neither the tree nor what was declared of its nodes.
Alike(S, T, p) ==
  /\ DOMAIN T = DOMAIN S /\ T \in [DOMAIN S -> Slot]
  /\ \A q \in DOMAIN S :
       /\ T[q].id = S[q].id /\ T[q].kind = S[q].kind /\ T[q].base = S[q].base
       /\ T[q].only = S[q].only /\ T[q].count = S[q].count
       /\ (S[q].resolved => T[q].resolved) /\ (q # p => T[q].resolved = S[q].resolved)

\* Such a change leaves a tree a tree.
LEMMA AlikeIsTree ==
  ASSUME NEW S, Tree(S), NEW p, NEW T, Alike(S, T, p)
  PROVE  Tree(T) /\ Grows(S, T, p)
<1>1. Grows(S, T, p)
  BY DEF Alike, Grows
<1>2. /\ DOMAIN T = DOMAIN S /\ T \in [DOMAIN S -> Slot] /\ DOMAIN S \subseteq Path
      /\ <<>> \in DOMAIN T /\ T[<<>>].resolved
      /\ \A q \in DOMAIN S : T[q].count = S[q].count
  BY DEF Alike, Tree
<1>3. /\ \A q \in DOMAIN T : \A i \in 1..T[q].count : Append(q, i) \in DOMAIN T
      /\ \A q \in DOMAIN T : q # <<>> =>
           \E r \in DOMAIN T : \E i \in 1..T[r].count : q = Append(r, i)
  BY <1>2 DEF Tree
<1> QED BY <1>1, <1>2, <1>3 DEF Tree

\* Such a change, wherever it is.
LEMMA AlikeGrows ==
  ASSUME NEW S, Tree(S), NEW T, Alike(S, T, <<>>), NEW p
  PROVE  Tree(T) /\ Grows(S, T, p)
<1>1. Tree(T) /\ Grows(S, T, <<>>)
  BY AlikeIsTree
<1>2. \A q \in DOMAIN S : T[q].count = S[q].count /\ (S[q].resolved => T[q].resolved)
  BY DEF Alike
<1>3. \A q \in DOMAIN S : S[q].resolved \in BOOLEAN /\ T[q].resolved \in BOOLEAN
  BY DEF Alike, Tree, Slot
<1>4. \A q \in DOMAIN S : T[q].resolved = S[q].resolved
  BY <1>2, <1>3 DEF Alike, Tree
<1> QED BY <1>1, <1>2, <1>4 DEF Grows

\* Growing at p and then changing nothing of the tree.
LEMMA GrowsThenAlike ==
  ASSUME NEW S, NEW T, NEW U, NEW p, Grows(S, T, p), Alike(T, U, p)
  PROVE  Grows(S, U, p)
<1>1. DOMAIN S \subseteq DOMAIN U /\ DOMAIN U = DOMAIN T
  BY DEF Grows, Alike
<1>2. \A q \in DOMAIN S :
        /\ U[q].id = S[q].id /\ U[q].kind = S[q].kind /\ U[q].base = S[q].base
        /\ U[q].only = S[q].only /\ (S[q].resolved => U[q].resolved)
        /\ q # p => U[q].count = S[q].count /\ U[q].resolved = S[q].resolved
  BY DEF Grows, Alike
<1>3. \A q \in DOMAIN U \ DOMAIN S : U[q].count = 0
  BY DEF Grows, Alike
<1> QED BY <1>1, <1>2, <1>3 DEF Grows

\* A body, or the empty one of a path the program does not have.
LEMMA BodyIsBody ==
  ASSUME guest \in Guests, NEW code
  PROVE  IsBody(Body(code))
<1>1. CASE code \in DOMAIN guest
  BY <1>1, GuestAssumption DEF Body
<1>2. CASE code \notin DOMAIN guest
  <2>1. Body(code) = Quiet
    BY <1>2 DEF Body
  <2>2. Quiet.decls \in Seq(Declaration)
    BY DEF Quiet
  <2>3. Quiet.mark \in Modes /\ Quiet.hint \in BOOLEAN /\ Quiet.hooks \in Nat
        /\ DOMAIN Quiet = {"decls", "mark", "hint", "hooks"}
    BY DEF Quiet, Modes
  <2> QED BY <2>1, <2>2, <2>3 DEF IsBody
<1> QED BY <1>1, <1>2

\* The marks, hints and hooks of a body leave a node a node.
LEMMA Marked ==
  ASSUME NEW s \in Slot, NEW m \in Modes, NEW h \in BOOLEAN, NEW k \in Nat
  PROVE  [s EXCEPT !.mode = m, !.hinted = h, !.hooks = k] \in Slot
BY DEF Slot

\* So does each of the two flags alone.
LEMMA Flagged ==
  ASSUME NEW s \in Slot, NEW h \in BOOLEAN
  PROVE  [s EXCEPT !.hinted = h] \in Slot /\ [s EXCEPT !.resolved = h] \in Slot
BY DEF Slot

\* A body on the durable node p outside of a replay makes the tree grow at p.
LEMMA DurableGrows ==
  ASSUME Tree(slots), guest \in Guests, nextId \in Nat,
         NEW p \in DOMAIN slots, NEW ds \in Seq(Declaration), NEW T, T = OnDurable(p, ds)
  PROVE  /\ Tree(T) /\ Grows(slots, T, p) /\ T[p].count = slots[p].count + Len(ds)
         /\ T[p].resolved = slots[p].resolved
         /\ \A i \in DOMAIN ds :
              LET s == T[Append(p, slots[p].count + i)]
              IN  s.kind = ds[i].kind /\ s.base = ds[i].mode /\ s.only = ds[i].only
<1> DEFINE A == AddChildren(slots, p, ds)
           b == Body(slots[p].code)
           m == IF b.mark = "normal" THEN A[p].mode ELSE b.mark
           h == A[p].hinted \/ b.hint
           k == A[p].hooks + b.hooks
<1>1. /\ Tree(A) /\ Grows(slots, A, p) /\ A[p].count = slots[p].count + Len(ds)
      /\ A[p].resolved = slots[p].resolved
      /\ \A i \in DOMAIN ds :
           LET s == A[Append(p, slots[p].count + i)]
           IN  s.kind = ds[i].kind /\ s.base = ds[i].mode /\ s.only = ds[i].only
  <2> HIDE DEF A
  <2>1. A = AddChildren(slots, p, ds)
    BY DEF A
  <2> QED BY <2>1, ChildrenAdded
<1>2. T = [A EXCEPT ![p] = [A[p] EXCEPT !.mode = m, !.hinted = h, !.hooks = k]]
  BY DEF OnDurable
<1>3. A \in [DOMAIN A -> Slot] /\ p \in DOMAIN A /\ A[p] \in Slot
  BY <1>1 DEF Tree, Grows
<1>4. IsBody(b)
  BY BodyIsBody
<1> HIDE DEF A, b
<1>5. m \in Modes /\ h \in BOOLEAN /\ k \in Nat
  BY <1>3, <1>4 DEF IsBody, Slot
<1> HIDE DEF m, h, k
<1>6. [A[p] EXCEPT !.mode = m, !.hinted = h, !.hooks = k] \in Slot
  BY <1>3, <1>5, Marked
<1>7. Alike(A, T, p)
  BY <1>2, <1>3, <1>6 DEF Alike, Slot
<1>8. Tree(T) /\ Grows(slots, T, p)
  BY <1>1, <1>7, AlikeIsTree, GrowsThenAlike
<1>9. T[p].count = A[p].count /\ T[p].resolved = A[p].resolved
  BY <1>2, <1>3 DEF Slot
<1>10. ASSUME NEW i \in DOMAIN ds
       PROVE  /\ Append(p, slots[p].count + i) \in DOMAIN A
  <2>1. slots[p].count \in Nat /\ i \in 1..Len(ds) /\ Len(ds) \in Nat
    BY DEF Tree, Slot
  <2>2. slots[p].count + i \in 1..A[p].count
    BY <1>1, <2>1
  <2> QED BY <1>1, <1>3, <2>2 DEF Tree
<1>11. \A i \in DOMAIN ds :
         LET s == T[Append(p, slots[p].count + i)]
         IN  s.kind = ds[i].kind /\ s.base = ds[i].mode /\ s.only = ds[i].only
  BY <1>1, <1>7, <1>10 DEF Alike
<1> QED BY <1>1, <1>8, <1>9, <1>11

\* The node s after the body b ran on it and declared n children.
AfterBody(s, b, n) ==
  [s EXCEPT !.count = s.count + n, !.mode = IF b.mark = "normal" THEN s.mode ELSE b.mark,
            !.hinted = s.hinted \/ b.hint, !.hooks = s.hooks + b.hooks]

\* What such a body leaves, in full.
LEMMA DurableMade ==
  ASSUME Tree(slots), guest \in Guests, nextId \in Nat,
         NEW p \in DOMAIN slots, NEW ds \in Seq(Declaration), NEW T, T = OnDurable(p, ds)
  PROVE  /\ Made(slots, T, p, ds)
         /\ T[p] = AfterBody(slots[p], Body(slots[p].code), Len(ds))
<1> DEFINE A == AddChildren(slots, p, ds)
           b == Body(slots[p].code)
           m == IF b.mark = "normal" THEN A[p].mode ELSE b.mark
           h == A[p].hinted \/ b.hint
           k == A[p].hooks + b.hooks
<1>1. Made(slots, A, p, ds) /\ A[p] = [slots[p] EXCEPT !.count = slots[p].count + Len(ds)]
  <2> HIDE DEF A
  <2>1. A = AddChildren(slots, p, ds)
    BY DEF A
  <2> QED BY <2>1, ChildrenMade
<1>2. T = [A EXCEPT ![p] = [A[p] EXCEPT !.mode = m, !.hinted = h, !.hooks = k]]
  BY DEF OnDurable
<1>3. slots[p] \in Slot
  BY DEF Tree
<1> HIDE DEF A, b
<1>4. p \in DOMAIN A
  BY <1>1 DEF Made
<1>5. A[p].mode = slots[p].mode /\ A[p].hinted = slots[p].hinted /\ A[p].hooks = slots[p].hooks
  BY <1>1, <1>3 DEF Slot
<1>6. T[p] = [slots[p] EXCEPT !.count = slots[p].count + Len(ds), !.mode = m, !.hinted = h,
                              !.hooks = k]
  <2>1. T[p] = [A[p] EXCEPT !.mode = m, !.hinted = h, !.hooks = k]
    BY <1>2, <1>4
  <2> HIDE DEF m, h, k
  <2> QED BY <1>1, <1>3, <2>1 DEF Slot
<1>7. DOMAIN T = DOMAIN A /\ \A q \in DOMAIN A : q # p => T[q] = A[q]
  BY <1>2
<1>8. Made(slots, T, p, ds)
  <2> HIDE DEF m, h, k
  <2> QED BY <1>1, <1>7 DEF Made
<1>9. T[p] = AfterBody(slots[p], b, Len(ds))
  <2>1. /\ m = (IF b.mark = "normal" THEN slots[p].mode ELSE b.mark)
        /\ h = (slots[p].hinted \/ b.hint) /\ k = slots[p].hooks + b.hooks
    BY <1>5
  <2> HIDE DEF m, h, k
  <2> QED BY <1>6, <2>1 DEF AfterBody
<1> QED BY <1>8, <1>9 DEF b

\* Taking a node for resolved.
LEMMA ResolvedAlike ==
  ASSUME NEW S, Tree(S), NEW p \in DOMAIN S
  PROVE  Alike(S, [S EXCEPT ![p].resolved = TRUE], p) /\ [S EXCEPT ![p].resolved = TRUE][p].resolved
<1>1. S \in [DOMAIN S -> Slot] /\ S[p] \in Slot
  BY DEF Tree
<1>2. [S[p] EXCEPT !.resolved = TRUE] \in Slot
  BY <1>1, Flagged
<1> QED BY <1>1, <1>2 DEF Alike, Slot

\* The hints that reach through the handles of a replayed body change no shape.
LEMMA HandlesAlike ==
  ASSUME Tree(slots), guest \in Guests, NEW p \in DOMAIN slots, NEW ds \in Seq(Declaration)
  PROVE  Alike(slots, HandleHints(p, ds), <<>>)
<1> DEFINE h(q) == \/ slots[q].hinted
                   \/ \E i \in DOMAIN ds : q = Append(p, i) /\ ds[i].handle
                   \/ q = p /\ depth = 1 /\ Body(slots[p].code).hint
<1>1. \A q \in DOMAIN slots : h(q) \in BOOLEAN
  OBVIOUS
<1>2. HandleHints(p, ds) = [q \in DOMAIN slots |-> [slots[q] EXCEPT !.hinted = h(q)]]
  BY DEF HandleHints
<1>3. slots \in [DOMAIN slots -> Slot]
  BY DEF Tree
<1> HIDE DEF h
<1>4. \A q \in DOMAIN slots : [slots[q] EXCEPT !.hinted = h(q)] \in Slot
  BY <1>1, <1>3, Flagged
<1> QED BY <1>2, <1>3, <1>4 DEF Alike, Slot

\* Nor do those of a body that runs on a copy.
LEMMA CopyAlike ==
  ASSUME Tree(slots), guest \in Guests, NEW p \in DOMAIN slots
  PROVE  Alike(slots, OnCopy(p), <<>>)
<1> DEFINE h == slots[p].hinted \/ Body(slots[p].code).hint
<1>1. h \in BOOLEAN
  OBVIOUS
<1>2. OnCopy(p) = [slots EXCEPT ![p] = [slots[p] EXCEPT !.hinted = h]]
  BY DEF OnCopy
<1>3. slots \in [DOMAIN slots -> Slot]
  BY DEF Tree
<1> HIDE DEF h
<1>4. [slots[p] EXCEPT !.hinted = h] \in Slot
  BY <1>1, <1>3, Flagged
<1> QED BY <1>2, <1>3, <1>4 DEF Alike, Slot

\* T is what is left of the tree S when the children of p are discarded.
Cut(S, T, p) ==
  /\ DOMAIN T = {q \in DOMAIN S : ~ Under(p, q)}
  /\ p \in DOMAIN T /\ T[p].count = 0
  /\ \A q \in DOMAIN T :
       /\ T[q].id = S[q].id /\ T[q].resolved = S[q].resolved
       /\ q # p => T[q].count = S[q].count

\* resetUnresolvedDurableState leaves a tree, cut at p.
LEMMA ResetIsTree ==
  ASSUME NEW S, Tree(S), NEW p \in DOMAIN S
  PROVE  Tree(ResetUnresolved(S, p)) /\ Cut(S, ResetUnresolved(S, p), p)
<1> DEFINE T == ResetUnresolved(S, p)
<1>1. /\ DOMAIN S \subseteq Path /\ S \in [DOMAIN S -> Slot] /\ p \in Path /\ S[p] \in Slot
      /\ Len(p) \in Nat
  BY DEF Tree, Path
<1>2. /\ T = [q \in DOMAIN T |-> T[q]] /\ DOMAIN T = {q \in DOMAIN S : ~ Under(p, q)}
      /\ \A q \in DOMAIN T : q # p => T[q] = S[q]
      /\ p \in DOMAIN T => T[p] = [S[p] EXCEPT !.mode = S[p].base, !.hooks = 0, !.count = 0]
  BY DEF ResetUnresolved
<1>3. ~ Under(p, p) /\ ~ Under(p, <<>>)
  BY <1>1 DEF Under, Path
<1>4. p \in DOMAIN T
  BY <1>2, <1>3
<1>5. /\ T[p] \in Slot /\ T[p].count = 0 /\ T[p].id = S[p].id /\ T[p].kind = S[p].kind
      /\ T[p].base = S[p].base /\ T[p].only = S[p].only /\ T[p].resolved = S[p].resolved
  <2> DEFINE m == S[p].base
  <2>1. m \in Modes /\ T[p] = [S[p] EXCEPT !.mode = m, !.hooks = 0, !.count = 0]
    BY <1>1, <1>2, <1>4 DEF Slot
  <2> DEFINE s == S[p]
             t == T[p]
  <2>2. s \in Slot /\ t = [s EXCEPT !.mode = m, !.hooks = 0, !.count = 0]
    BY <1>1, <2>1
  <2> HIDE DEF m, T, s, t
  <2>3. /\ t \in Slot /\ t.count = 0 /\ t.id = s.id /\ t.kind = s.kind
        /\ t.base = s.base /\ t.only = s.only /\ t.resolved = s.resolved
    BY <2>1, <2>2 DEF Slot
  <2> QED BY <2>3 DEF s, t
<1>6. \A q \in DOMAIN T :
        /\ T[q].id = S[q].id /\ T[q].kind = S[q].kind /\ T[q].base = S[q].base
        /\ T[q].only = S[q].only /\ T[q].resolved = S[q].resolved
        /\ q # p => T[q].count = S[q].count
  BY <1>2, <1>5
<1>7. T \in [DOMAIN T -> Slot] /\ DOMAIN T \subseteq Path
  BY <1>1, <1>2, <1>5
<1>8. ASSUME NEW q \in DOMAIN T, NEW i \in 1..T[q].count
      PROVE  Append(q, i) \in DOMAIN T
  <2>1. q # p /\ q \in DOMAIN S /\ i \in 1..S[q].count /\ ~ Under(p, q)
    BY <1>2, <1>5, <1>6
  <2>2. Append(q, i) \in DOMAIN S /\ q \in Path /\ i \in Nat
    BY <1>1, <2>1 DEF Tree, Slot
  <2>3. ~ Under(p, Append(q, i))
    BY <1>1, <2>1, <2>2, UnderAppended
  <2> QED BY <1>2, <2>2, <2>3
<1>9. ASSUME NEW q \in DOMAIN T, q # <<>>
      PROVE  \E r \in DOMAIN T : \E i \in 1..T[r].count : q = Append(r, i)
  <2>1. q \in DOMAIN S /\ ~ Under(p, q)
    BY <1>2
  <2>2. PICK r \in DOMAIN S : \E i \in 1..S[r].count : q = Append(r, i)
    BY <1>9, <2>1 DEF Tree
  <2>3. PICK i \in 1..S[r].count : q = Append(r, i)
    BY <2>2
  <2>4. r \in Path /\ i \in Nat
    BY <1>1 DEF Slot
  <2>5. ~ Under(p, r) /\ r # p
    BY <1>1, <2>1, <2>3, <2>4, UnderAppended
  <2>6. r \in DOMAIN T /\ i \in 1..T[r].count
    BY <1>2, <1>6, <2>5
  <2> QED BY <2>3, <2>6
<1>10. <<>> \in DOMAIN T /\ T[<<>>].resolved
  BY <1>2, <1>3, <1>6 DEF Tree
<1>11. Tree(T)
  BY <1>7, <1>8, <1>9, <1>10 DEF Tree
<1>12. Cut(S, T, p)
  <2> HIDE DEF T
  <2> QED BY <1>2, <1>4, <1>5, <1>6 DEF Cut
<1> QED BY <1>11, <1>12

-----------------------------------------------------------------------------
(***************************************************************************)
(* What stands.                                                            *)
(***************************************************************************)

\* Every node above p is there and resolved.
Settled(S, p) ==
  \A k \in 0..(Len(p) - 1) :
    SubSeq(p, 1, k) \in DOMAIN S /\ S[SubSeq(p, 1, k)].resolved

\* What was or will be shown stands: it is below resolved nodes only, which
\* keep their children.
Stands(S, p, id) == p \in DOMAIN S /\ S[p].id = id /\ Settled(S, p)

\* What stands stands in a tree that grew.
LEMMA GrowthKeeps ==
  ASSUME NEW S, NEW T, NEW p, Grows(S, T, p), NEW q, NEW id, Stands(S, q, id)
  PROVE  Stands(T, q, id)
BY DEF Grows, Stands, Settled

\* It stands when the children of an unresolved node are discarded: it was below none.
LEMMA ResetKeeps ==
  ASSUME NEW S, Tree(S), NEW p \in DOMAIN S, ~ S[p].resolved, NEW q, NEW id, Stands(S, q, id)
  PROVE  Stands(ResetUnresolved(S, p), q, id)
<1> DEFINE T == ResetUnresolved(S, p)
<1>1. /\ DOMAIN T = {r \in DOMAIN S : ~ Under(p, r)}
      /\ \A r \in DOMAIN T : T[r].id = S[r].id /\ T[r].resolved = S[r].resolved
  <2>1. Cut(S, T, p)
    BY ResetIsTree
  <2> HIDE DEF T
  <2> QED BY <2>1 DEF Cut
<1>2. q \in Path /\ p \in Path /\ Len(q) \in Nat /\ Len(p) \in Nat
  BY DEF Stands, Tree, Path
<1>3. ~ Under(p, q)
  <2> SUFFICES ASSUME Under(p, q) PROVE FALSE
    OBVIOUS
  <2>1. Len(p) \in 0..(Len(q) - 1) /\ SubSeq(q, 1, Len(p)) = p
    BY <1>2 DEF Under
  <2> QED BY <2>1 DEF Stands, Settled
<1>4. ASSUME NEW k \in 0..(Len(q) - 1) PROVE ~ Under(p, SubSeq(q, 1, k))
  <2> SUFFICES ASSUME Under(p, SubSeq(q, 1, k)) PROVE FALSE
    OBVIOUS
  <2>1. Len(SubSeq(q, 1, k)) = k /\ k \in Nat
    BY <1>2 DEF Path
  <2>2. Len(p) < k /\ SubSeq(SubSeq(q, 1, k), 1, Len(p)) = p
    BY <2>1 DEF Under
  <2>3. SubSeq(SubSeq(q, 1, k), 1, Len(p)) = SubSeq(q, 1, Len(p))
    BY <1>2, <2>1, <2>2 DEF Path
  <2> QED BY <1>2, <1>3, <2>1, <2>2, <2>3 DEF Under
<1>5. Settled(T, q)
  <2> HIDE DEF T
  <2> QED BY <1>1, <1>4 DEF Stands, Settled
<1> QED BY <1>1, <1>3, <1>5 DEF Stands

\* The children of a resolved node stand if it does.
LEMMA ChildStands ==
  ASSUME NEW S, Tree(S), NEW p \in DOMAIN S, Settled(S, p), S[p].resolved,
         NEW i \in 1..S[p].count
  PROVE  Append(p, i) \in DOMAIN S /\ Stands(S, Append(p, i), S[Append(p, i)].id)
<1>1. p \in Path /\ i \in Nat /\ Append(p, i) \in DOMAIN S
  BY DEF Tree, Slot
<1>2. Len(Append(p, i)) = Len(p) + 1 /\ Len(p) \in Nat
  BY <1>1, Appended
<1>3. ASSUME NEW k \in 0..Len(p)
      PROVE  SubSeq(Append(p, i), 1, k) \in DOMAIN S /\ S[SubSeq(Append(p, i), 1, k)].resolved
  <2>1. SubSeq(Append(p, i), 1, k) = SubSeq(p, 1, k) /\ SubSeq(p, 1, Len(p)) = p
    BY <1>1, PrefixOfAppended
  <2>2. CASE k = Len(p)
    BY <2>1, <2>2
  <2>3. CASE k # Len(p)
    <3>1. k \in 0..(Len(p) - 1)
      BY <1>2, <2>3
    <3> QED BY <2>1, <3>1 DEF Settled
  <2> QED BY <2>2, <2>3
<1>4. 0..(Len(Append(p, i)) - 1) = 0..Len(p)
  BY <1>2
<1>5. Settled(S, Append(p, i))
  BY <1>3, <1>4 DEF Settled
<1> QED BY <1>1, <1>5 DEF Stands

\* The declarations ds are those the children of p were made from.
DeclaredIn(S, p, ds) ==
  /\ Len(ds) = S[p].count
  /\ \A i \in DOMAIN ds :
       LET s == S[Append(p, i)]
       IN  s.kind = ds[i].kind /\ s.base = ds[i].mode /\ s.only = ds[i].only

\* Declarations stay true of a node that gets no more children.
LEMMA DeclaredStays ==
  ASSUME NEW S, Tree(S), NEW T, NEW p, Grows(S, T, p), NEW q \in DOMAIN S,
         T[q].count = S[q].count, NEW ds \in Seq(Declaration), DeclaredIn(S, q, ds)
  PROVE  DeclaredIn(T, q, ds)
<1>1. \A i \in DOMAIN ds : i \in 1..S[q].count
  BY DEF DeclaredIn
<1>2. \A i \in DOMAIN ds : Append(q, i) \in DOMAIN S
  BY <1>1 DEF Tree
<1> QED BY <1>2 DEF DeclaredIn, Grows

\* Whatever a body does, it declares something.
LEMMA PerformancesAreDeclarations ==
  ASSUME guest \in Guests, NEW code, NEW o \in Performances(code)
  PROVE  o.decls \in Seq(Declaration)
<1> DEFINE d == Body(code).decls
           other == [kind |-> "suite", mode |-> "normal", only |-> FALSE, handle |-> FALSE]
           turned == [d EXCEPT ![1].kind = IF @ = "test" THEN "suite" ELSE "test"]
<1>1. d \in Seq(Declaration)
  BY BodyIsBody DEF IsBody
<1>2. Append(d, other) \in Seq(Declaration)
  <2>1. other \in Declaration
    BY DEF Declaration, Kinds, Modes
  <2> HIDE DEF d, other
  <2> QED BY <1>1, <2>1
<1>3. d # <<>> => SubSeq(d, 1, Len(d) - 1) \in Seq(Declaration) /\ turned \in Seq(Declaration)
  <2> SUFFICES ASSUME d # <<>>
               PROVE  SubSeq(d, 1, Len(d) - 1) \in Seq(Declaration) /\ turned \in Seq(Declaration)
    OBVIOUS
  <2> DEFINE k == IF d[1].kind = "test" THEN "suite" ELSE "test"
             x == [d[1] EXCEPT !.kind = k]
  <2>1. k \in Kinds
    BY DEF Kinds
  <2>2. turned = [d EXCEPT ![1] = x]
    OBVIOUS
  <2> HIDE DEF d, k, turned
  <2>3. 1 \in DOMAIN d /\ d[1] \in Declaration
    BY <1>1
  <2>4. x \in Declaration
    BY <2>1, <2>3 DEF Declaration
  <2> HIDE DEF x
  <2>5. turned \in Seq(Declaration)
    BY <1>1, <2>2, <2>3, <2>4
  <2> QED BY <1>1, <2>5
<1>4. \A k \in 0..Len(d) : SubSeq(d, 1, k) \in Seq(Declaration)
  <2> HIDE DEF d
  <2> QED BY <1>1
<1>5. o.decls \in {d, Append(d, other)} \cup {SubSeq(d, 1, k) : k \in 0..Len(d)}
        \cup IF d = <<>> THEN {} ELSE {SubSeq(d, 1, Len(d) - 1), turned}
  BY DEF Performances, Performance
<1> HIDE DEF d, other, turned
<1> QED BY <1>1, <1>2, <1>3, <1>4, <1>5

-----------------------------------------------------------------------------
(***************************************************************************)
(* The inductive invariant.                                                *)
(***************************************************************************)

TypeInv ==
  /\ guest \in Guests /\ nextId \in Nat /\ Tree(slots)
  /\ phase \in {"idle", "walk", "return"}
  /\ call \in [op : {"none", "discover", "run"}, path : Path]
  /\ depth \in 0..Len(call.path)

\* The walk is at a node below resolved ones only.
WalkInv == phase = "walk" => Here \in DOMAIN slots /\ Settled(slots, Here)

\* What a body declared in this call is what its durable node says.
AllDeclared ==
  \A p \in DOMAIN said :
    /\ p \in DOMAIN slots /\ said[p] \in Seq(Declaration)
    /\ RanBefore(p) \/ DeclaredIn(slots, p, said[p])

SaidInv == (phase = "walk" => AllDeclared) /\ AnswersMatchSlots

\* A replay state is noted as it begins.
NotedInv ==
  /\ replayed \in Seq(Path)
  /\ phase = "idle" => replay = <<>>
  /\ DOMAIN replay \subseteq Range(replayed)

ShownInv ==
  /\ \A p \in DOMAIN shown : Stands(slots, p, shown[p])
  /\ phase = "return" => \A r \in answer.found : Stands(slots, r.path, r.id)

\* A node that is not resolved has children only from a run of its body.
UnresolvedInv ==
  \A p \in DOMAIN slots :
    \/ slots[p].resolved \/ slots[p].count = 0
    \/ Len(p) = 1 /\ (p \in ran \/ (phase = "return" /\ call = [op |-> "run", path |-> p]))

ReplayInv == TypeInv /\ WalkInv /\ SaidInv /\ NotedInv /\ ShownInv /\ UnresolvedInv

\* Once the children of a settled node are there, the walk goes on to one of
\* them or the answer shows them.
LEMMA Continues ==
  ASSUME TypeInv, phase = "walk", call' = call, NEW S, NEW self, Continue(S, self),
         NEW U, Tree(U), Alike(S, U, Here),
         Here \in DOMAIN U, Settled(U, Here), U[Here].resolved,
         \A r \in self : Stands(U, r.path, r.id)
  PROVE  /\ depth' \in 0..Len(call.path)
         /\ \/ phase' = "walk" /\ Here' \in DOMAIN U /\ Settled(U, Here')
            \/ phase' = "return" /\ \A r \in answer'.found : Stands(U, r.path, r.id)
<1>1. call.path \in Path /\ depth \in 0..Len(call.path) /\ Len(call.path) \in Nat
  BY DEF TypeInv, Path
<1>5. /\ S[Here].count = U[Here].count /\ DOMAIN S = DOMAIN U
      /\ \A q \in DOMAIN U : S[q].id = U[q].id
  BY DEF Alike
<1>2. CASE depth < Len(call.path) /\ Visible(S, Here, call.path[depth + 1])
  <2>1. depth' = depth + 1 /\ phase' = "walk"
    BY <1>2 DEF Continue
  <2>2. Here' = Append(Here, call.path[depth + 1])
    <3>1. Here' = SubSeq(call.path, 1, depth + 1)
      BY <2>1 DEF Here
    <3> QED BY <1>1, <1>2, <3>1, NextPrefix DEF Here
  <2>3. call.path[depth + 1] \in 1..U[Here].count
    BY <1>2, <1>5 DEF Visible
  <2>4. Here' \in DOMAIN U /\ Settled(U, Here')
    BY <2>2, <2>3, ChildStands DEF Stands
  <2> QED BY <1>1, <1>2, <2>1, <2>4
<1>3. CASE depth < Len(call.path) /\ ~ Visible(S, Here, call.path[depth + 1])
  <2>1. phase' = "return" /\ answer'.found = {} /\ depth' = depth
    BY <1>3 DEF Continue, Answer, Refused
  <2> QED BY <1>1, <2>1
<1>4. CASE ~ (depth < Len(call.path))
  <2>1. /\ phase' = "return" /\ depth' = depth
        /\ answer'.found = self \cup ReportChildren(S, Here)
    BY <1>4 DEF Continue, Answer
  <2>2. ASSUME NEW r \in ReportChildren(S, Here) PROVE Stands(U, r.path, r.id)
    <3> DEFINE seen == {Append(Here, i) : i \in {j \in 1..S[Here].count : Visible(S, Here, j)}}
    <3>1. PICK c \in seen : r.path = c /\ r.id = S[c].id
      BY DEF ReportChildren, Report
    <3>2. PICK i \in 1..U[Here].count : c = Append(Here, i)
      BY <1>5
    <3> QED BY <1>5, <3>1, <3>2, ChildStands
  <2> QED BY <1>1, <2>1, <2>2
<1> QED BY <1>2, <1>3, <1>4

\* No change is such a change.
LEMMA AlikeItself ==
  ASSUME NEW S, Tree(S), NEW p
  PROVE  Alike(S, S, p)
BY DEF Tree, Alike

\* A step of the walk that leaves the durable nodes alone.
LEMMA SlotsStay ==
  ASSUME ReplayInv, UNCHANGED <<slots, guest, nextId, call, said, ran, shown, replay, replayed>>,
         phase = "walk", depth' \in 0..Len(call.path),
         \/ phase' = "walk" /\ Here' \in DOMAIN slots /\ Settled(slots, Here')
         \/ phase' = "return" /\ \A r \in answer'.found : Stands(slots, r.path, r.id)
  PROVE  ReplayInv'
<1>1. TypeInv' /\ WalkInv'
  BY DEF ReplayInv, TypeInv, WalkInv
<1>2. AllDeclared /\ AllDeclared'
  BY DEF ReplayInv, SaidInv, AllDeclared, RanBefore, DeclaredIn
<1>3. SaidInv'
  BY <1>2 DEF SaidInv, AllDeclared, AnswersMatchSlots, DeclaredIn
<1>4. NotedInv' /\ ShownInv' /\ UnresolvedInv'
  BY DEF ReplayInv, NotedInv, ShownInv, UnresolvedInv
<1> QED BY <1>1, <1>3, <1>4 DEF ReplayInv

\* EnterRoot keeps the invariant.
LEMMA RootStep ==
  ASSUME ReplayInv, EnterRoot
  PROVE  ReplayInv'
<1>1. phase = "walk" /\ call' = call /\ Tree(slots) /\ Continue(slots, {}) /\ depth = 0
  BY DEF EnterRoot, NeedsChildren, ReplayInv, TypeInv
<1>2. Here = <<>>
  BY <1>1 DEF Here, ReplayInv, TypeInv, Path
<1>3. Here \in DOMAIN slots /\ slots[Here].resolved /\ Settled(slots, Here)
  BY <1>1, <1>2 DEF Tree, ReplayInv, WalkInv
<1>4. /\ depth' \in 0..Len(call.path)
      /\ \/ phase' = "walk" /\ Here' \in DOMAIN slots /\ Settled(slots, Here')
         \/ phase' = "return" /\ \A r \in answer'.found : Stands(slots, r.path, r.id)
  <2> DEFINE none == {}
  <2>1. Continue(slots, none) /\ \A r \in none : Stands(slots, r.path, r.id)
    BY <1>1
  <2> HIDE DEF none
  <2> QED BY <1>1, <1>3, <2>1, Continues, AlikeItself DEF ReplayInv
<1> QED BY <1>1, <1>4, SlotsStay DEF EnterRoot, history

\* So do the steps that answer without calling a body.
LEMMA AnswerStep ==
  ASSUME ReplayInv, StopAtSkipped \/ RunSuppressed \/ RunRoot
  PROVE  ReplayInv'
<1>1. /\ UNCHANGED <<slots, guest, nextId, call, said, ran, shown, replay, replayed, depth>>
      /\ phase = "walk" /\ phase' = "return"
  BY DEF StopAtSkipped, RunSuppressed, RunRoot, NeedsChildren, AtTarget, Answer, history
<1>2. Here \in DOMAIN slots /\ Settled(slots, Here)
  BY <1>1 DEF ReplayInv, WalkInv
<1>3. answer'.found = {} \/ \A r \in answer'.found : r.path = Here /\ r.id = slots[Here].id
  BY DEF StopAtSkipped, RunSuppressed, RunRoot, Answer, Refused, Report
<1>4. \A r \in answer'.found : Stands(slots, r.path, r.id)
  BY <1>2, <1>3 DEF Stands
<1>5. depth' \in 0..Len(call.path)
  BY <1>1 DEF ReplayInv, TypeInv
<1> QED BY <1>1, <1>4, <1>5, SlotsStay

\* So does a call of the host,
LEMMA CallStep ==
  ASSUME ReplayInv, NEW op \in {"discover", "run"}, NEW path \in CallPaths, HostCall(op, path)
  PROVE  ReplayInv'
<1>1. path \in Path
  <2>1. \A p \in DOMAIN guest : p \in Path
    BY GuestAssumption DEF ReplayInv, TypeInv, Path
  <2>2. <<9>> \in Path
    BY DEF Path
  <2> QED BY <2>1, <2>2 DEF CallPaths
<1>2. /\ UNCHANGED <<slots, guest, nextId, ran, shown, replay>> /\ phase = "idle"
      /\ phase' = "walk" /\ depth' = 0 /\ replayed' = <<>> /\ said' = <<>>
      /\ call' = [op |-> op, path |-> path]
  BY DEF HostCall, history
<1>3. Here' = <<>>
  BY <1>1, <1>2 DEF Here, Path
<1>4. TypeInv'
  <2>1. depth' \in 0..Len(call'.path)
    BY <1>1, <1>2 DEF Path
  <2> QED BY <1>1, <1>2, <2>1 DEF ReplayInv, TypeInv
<1>5. WalkInv'
  BY <1>2, <1>3 DEF WalkInv, Settled, ReplayInv, TypeInv, Tree
<1>6. SaidInv'
  BY <1>2 DEF SaidInv, AllDeclared, AnswersMatchSlots
<1>7. NotedInv'
  <2>1. DOMAIN replay' = {} /\ replayed' \in Seq(Path)
    BY <1>2 DEF ReplayInv, NotedInv
  <2> QED BY <1>2, <2>1 DEF NotedInv
<1>8. ShownInv' /\ UnresolvedInv'
  BY <1>2 DEF ReplayInv, ShownInv, UnresolvedInv
<1> QED BY <1>4, <1>5, <1>6, <1>7, <1>8 DEF ReplayInv

\* and its return: every replay state was noted, so that all are cleared.
LEMMA ReturnStep ==
  ASSUME ReplayInv, Return
  PROVE  ReplayInv'
<1>1. /\ UNCHANGED <<slots, guest, nextId, call, said, replayed, depth, answer>>
      /\ phase = "return" /\ phase' = "idle"
      /\ replay' = [p \in {q \in DOMAIN replay : Len(q) = 1 /\ q \notin Range(replayed)} |->
                      replay[p]]
      /\ shown' = [p \in DOMAIN shown \cup {r.path : r \in answer.found} |->
                     IF p \in DOMAIN shown THEN shown[p]
                     ELSE (CHOOSE r \in answer.found : r.path = p).id]
      /\ ran' = IF call.op = "run" /\ Len(call.path) = 1 THEN ran \cup {call.path} ELSE ran
  BY DEF Return
<1>2. TypeInv' /\ WalkInv' /\ SaidInv'
  BY <1>1 DEF ReplayInv, TypeInv, WalkInv, SaidInv, AnswersMatchSlots
<1>3. NotedInv'
  <2>1. {q \in DOMAIN replay : Len(q) = 1 /\ q \notin Range(replayed)} = {}
    BY DEF ReplayInv, NotedInv
  <2>2. replay' = <<>> /\ DOMAIN replay' = {}
    BY <1>1, <2>1
  <2> QED BY <1>1, <2>2 DEF ReplayInv, NotedInv
<1>4. ShownInv'
  <2> DEFINE paths == {r.path : r \in answer.found}
             nth(p) == CHOOSE r \in answer.found : r.path = p
  <2>1. /\ DOMAIN shown' = DOMAIN shown \cup paths
        /\ \A p \in DOMAIN shown : shown'[p] = shown[p]
        /\ \A p \in paths \ DOMAIN shown : shown'[p] = nth(p).id
    BY <1>1
  <2>2. \A p \in paths : nth(p) \in answer.found /\ nth(p).path = p
    OBVIOUS
  <2>3. \A r \in answer.found : Stands(slots, r.path, r.id)
    BY <1>1 DEF ReplayInv, ShownInv
  <2> HIDE DEF paths, nth
  <2>4. \A p \in DOMAIN shown' : Stands(slots, p, shown'[p])
    BY <2>1, <2>2, <2>3 DEF ReplayInv, ShownInv
  <2> QED BY <1>1, <2>4 DEF ShownInv
<1>5. UnresolvedInv'
  <2> SUFFICES ASSUME NEW p \in DOMAIN slots, ~ slots[p].resolved, slots[p].count # 0
               PROVE  Len(p) = 1 /\ p \in ran'
    BY <1>1 DEF UnresolvedInv
  <2>1. Len(p) = 1 /\ (p \in ran \/ call = [op |-> "run", path |-> p])
    BY <1>1 DEF ReplayInv, UnresolvedInv
  <2> QED BY <1>1, <2>1
<1> QED BY <1>2, <1>3, <1>4, <1>5 DEF ReplayInv

\* What With changes.
LEMMA WithAt ==
  ASSUME NEW f, NEW x, NEW y
  PROVE  /\ DOMAIN With(f, x, y) = DOMAIN f \cup {x} /\ With(f, x, y)[x] = y
         /\ \A z \in DOMAIN f : z # x => With(f, x, y)[z] = f[z]
BY DEF With

\* A body that declared what the nodes are made from, among those that did
\* before.
LEMMA SaidGrows ==
  ASSUME AllDeclared, Tree(slots), NEW p \in DOMAIN slots, Grows(slots, slots', p),
         NEW ds \in Seq(Declaration), said' = With(said, p, ds), ran' = ran,
         RanBefore(p) \/ DeclaredIn(slots', p, ds)
  PROVE  AllDeclared'
<1> SUFFICES ASSUME NEW q \in DOMAIN said'
             PROVE  /\ q \in DOMAIN slots' /\ said'[q] \in Seq(Declaration)
                    /\ RanBefore(q)' \/ DeclaredIn(slots', q, said'[q])
  BY DEF AllDeclared, DeclaredIn
<1>1. \A r : RanBefore(r)' <=> RanBefore(r)
  BY DEF RanBefore
<1>4. /\ DOMAIN said' = DOMAIN said \cup {p} /\ said'[p] = ds
      /\ \A z \in DOMAIN said : z # p => said'[z] = said[z]
  <2> DEFINE w == With(said, p, ds)
  <2>1. /\ DOMAIN w = DOMAIN said \cup {p} /\ w[p] = ds
        /\ \A z \in DOMAIN said : z # p => w[z] = said[z]
    BY DEF With
  <2> QED BY <2>1
<1>2. CASE q = p
  BY <1>1, <1>2, <1>4 DEF Grows
<1>3. CASE q # p
  <2>1. q \in DOMAIN said /\ said'[q] = said[q]
    BY <1>3, <1>4
  <2>2. /\ q \in DOMAIN slots /\ said[q] \in Seq(Declaration)
        /\ RanBefore(q) \/ DeclaredIn(slots, q, said[q])
    BY <2>1 DEF AllDeclared
  <2>3. q \in DOMAIN slots' /\ slots'[q].count = slots[q].count
    BY <1>3, <2>2 DEF Grows
  <2>4. DeclaredIn(slots, q, said[q]) => DeclaredIn(slots', q, said[q])
    BY <2>2, <2>3, DeclaredStays
  <2> QED BY <1>1, <2>1, <2>2, <2>3, <2>4
<1> QED BY <1>2, <1>3

\* What was shown stands when the tree grows.
LEMMA ShownGrows ==
  ASSUME ReplayInv, NEW p, Grows(slots, slots', p), shown' = shown
  PROVE  \A q \in DOMAIN shown' : Stands(slots', q, shown'[q])
BY GrowthKeeps DEF ReplayInv, ShownInv

\* A node that is not resolved has no children, or was run before.
LEMMA UnresolvedIsBare ==
  ASSUME ReplayInv, phase = "walk", NEW p \in DOMAIN slots, ~ slots[p].resolved
  PROVE  slots[p].count = 0 \/ (Len(p) = 1 /\ p \in ran /\ RanBefore(p))
<1>1. slots[p].count = 0 \/ (Len(p) = 1 /\ p \in ran)
  BY DEF ReplayInv, UnresolvedInv
<1>2. Len(p) = 1 => p = <<p[1]>> /\ p # <<>>
  BY DEF ReplayInv, TypeInv, Tree, Path
<1> QED BY <1>1, <1>2 DEF RanBefore

\* A node that is resolved by growing, or gets no children, keeps UnresolvedInv.
LEMMA UnresolvedGrows ==
  ASSUME ReplayInv, phase = "walk", NEW p, Grows(slots, slots', p), ran' = ran,
         p \in DOMAIN slots => slots'[p].resolved \/ slots'[p].count = slots[p].count
  PROVE  UnresolvedInv'
<1> SUFFICES ASSUME NEW q \in DOMAIN slots', ~ slots'[q].resolved, slots'[q].count # 0
             PROVE  Len(q) = 1 /\ q \in ran'
  BY DEF UnresolvedInv
<1>1. q \in DOMAIN slots
  BY DEF Grows
<1>2. ~ slots[q].resolved /\ slots[q].count # 0
  BY <1>1 DEF Grows
<1> QED BY <1>1, <1>2, UnresolvedIsBare

\* What all steps of a body have in common.
LEMMA BodySteps ==
  ASSUME ReplayInv, phase = "walk", NEW o \in Performances(slots[Here].code), Perform(Here, o)
  PROVE  /\ Here \in DOMAIN slots /\ Settled(slots, Here) /\ Here \in Path
         /\ o.decls \in Seq(Declaration) /\ Len(o.decls) \in Nat
         /\ said' = With(said, Here, o.decls)
         /\ AllDeclared /\ Tree(slots) /\ guest \in Guests /\ nextId \in Nat
<1>1. /\ Here \in DOMAIN slots /\ Settled(slots, Here) /\ Tree(slots) /\ guest \in Guests
      /\ AllDeclared
  BY DEF ReplayInv, WalkInv, TypeInv, SaidInv
<1>2. o.decls \in Seq(Declaration)
  BY <1>1, PerformancesAreDeclarations
<1> QED BY <1>1, <1>2 DEF Perform, ReplayInv, TypeInv, Tree

\* A replay state that begins is noted,
LEMMA ActivatedIsNoted ==
  ASSUME ReplayInv, NEW p \in Path, NEW state, Activate(p, state), phase' # "idle"
  PROVE  NotedInv'
<1>1. replayed \in Seq(Path) /\ DOMAIN replay \subseteq Range(replayed)
  BY DEF ReplayInv, NotedInv
<1>2. replayed' = Append(replayed, p) /\ DOMAIN replay' = DOMAIN replay \cup {p}
  BY WithAt DEF Activate
<1>3. replayed' \in Seq(Path) /\ DOMAIN replayed' = 1..(Len(replayed) + 1)
  BY <1>1, <1>2
<1>4. \A k \in DOMAIN replayed : k \in DOMAIN replayed' /\ replayed'[k] = replayed[k]
  BY <1>1, <1>2
<1>5. replayed'[Len(replayed) + 1] = p /\ Len(replayed) + 1 \in DOMAIN replayed'
  BY <1>1, <1>2
<1>6. Range(replayed) \cup {p} \subseteq Range(replayed')
  BY <1>4, <1>5 DEF Range
<1> QED BY <1>1, <1>2, <1>3, <1>6 DEF NotedInv

\* and a step that begins none leaves all noted.
LEMMA RefusedIsNoted ==
  ASSUME ReplayInv, UNCHANGED <<replay, replayed>>, phase' # "idle"
  PROVE  NotedInv'
BY DEF ReplayInv, NotedInv

\* ResolveFirst keeps the invariant: the body that resolves a node either declares
\* all its children or leaves none.
LEMMA FirstStep ==
  ASSUME ReplayInv, phase = "walk", NEW o \in Performances(slots[Here].code), ResolveFirst(o)
  PROVE  ReplayInv'
<1> DEFINE p == Here
           S == OnDurable(p, o.decls)
           U == [S EXCEPT ![p].resolved = TRUE]
           hinted == IF depth = 1 THEN S[p].hinted ELSE slots[p].hinted
<1>1. /\ p \in DOMAIN slots /\ Settled(slots, p) /\ p \in Path
      /\ o.decls \in Seq(Declaration) /\ Len(o.decls) \in Nat
      /\ said' = With(said, p, o.decls)
      /\ AllDeclared /\ Tree(slots) /\ guest \in Guests /\ nextId \in Nat
  BY BodySteps DEF ResolveFirst
<1>2. /\ UNCHANGED <<guest, call, ran, shown>> /\ ~ slots[p].resolved
      /\ nextId' = nextId + Len(o.decls)
  BY DEF ResolveFirst
<1>3. /\ Tree(S) /\ Grows(slots, S, p) /\ S[p].count = slots[p].count + Len(o.decls)
      /\ S[p].resolved = slots[p].resolved
      /\ \A i \in DOMAIN o.decls :
           LET s == S[Append(p, slots[p].count + i)]
           IN  s.kind = o.decls[i].kind /\ s.base = o.decls[i].mode /\ s.only = o.decls[i].only
  <2> HIDE DEF S, p
  <2>1. S = OnDurable(p, o.decls)
    BY DEF S
  <2> QED BY <1>1, <2>1, DurableGrows
<1>4. p \in DOMAIN S
  BY <1>1, <1>3 DEF Grows
<1>5. CASE o.traps
  <2>1. /\ slots' = ResetUnresolved(S, p) /\ Answer(Refused)
        /\ UNCHANGED <<replay, replayed, depth>>
    BY <1>5 DEF ResolveFirst
  <2>2. phase' = "return" /\ ~ answer'.ok /\ answer'.found = {}
    BY <2>1 DEF Answer, Refused
  <2> HIDE DEF S, p
  <2>3. /\ Tree(slots') /\ slots'[p].count = 0 /\ DOMAIN slots' \subseteq DOMAIN S
        /\ \A q \in DOMAIN slots' :
             slots'[q].resolved = S[q].resolved /\ (q # p => slots'[q].count = S[q].count)
    <3>1. Tree(slots') /\ Cut(S, slots', p)
      BY <1>3, <1>4, <2>1, ResetIsTree
    <3> QED BY <3>1 DEF Cut
  <2>4. TypeInv'
    BY <1>1, <1>2, <2>1, <2>2, <2>3 DEF ReplayInv, TypeInv
  <2>5. WalkInv' /\ SaidInv'
    BY <2>2 DEF WalkInv, SaidInv, AnswersMatchSlots
  <2>6. NotedInv'
    BY <2>1, <2>2, RefusedIsNoted
  <2>7. \A q \in DOMAIN shown : Stands(slots', q, shown[q])
    <3> TAKE q \in DOMAIN shown
    <3>1. Stands(S, q, shown[q])
      BY <1>3, GrowthKeeps DEF ReplayInv, ShownInv
    <3> QED BY <1>2, <1>3, <1>4, <2>1, <3>1, ResetKeeps
  <2>8. ShownInv'
    BY <1>2, <2>2, <2>7 DEF ShownInv
  <2>9. UnresolvedInv'
    <3> SUFFICES ASSUME NEW q \in DOMAIN slots', ~ slots'[q].resolved, slots'[q].count # 0
                 PROVE  Len(q) = 1 /\ q \in ran
      BY <1>2 DEF UnresolvedInv
    <3>1. q # p /\ q \in DOMAIN S /\ ~ S[q].resolved /\ S[q].count # 0
      BY <2>3
    <3>2. q \in DOMAIN slots /\ ~ slots[q].resolved /\ slots[q].count # 0
      BY <1>3, <3>1 DEF Grows
    <3> QED BY <3>2, UnresolvedIsBare
  <2> QED BY <2>4, <2>5, <2>6, <2>8, <2>9 DEF ReplayInv
<1>6. CASE ~ o.traps
  <2>1. /\ slots' = U /\ Activate(p, [mode |-> S[p].base, hooks |-> S[p].hooks])
        /\ Continue(S, {Report(p, S, S[p].base, hinted)})
    BY <1>6 DEF ResolveFirst
  <2>2. Alike(S, U, p) /\ U[p].resolved
    <3> HIDE DEF S, p
    <3> QED BY <1>3, <1>4, ResolvedAlike
  <2>3. Tree(U) /\ Grows(S, U, p) /\ Grows(slots, U, p)
    <3> HIDE DEF S, U, p
    <3> QED BY <1>3, <2>2, AlikeIsTree, GrowsThenAlike
  <2>4. p \in DOMAIN U /\ Settled(U, p) /\ Stands(U, p, S[p].id)
    <3> HIDE DEF S, U, p
    <3>1. Stands(slots, p, slots[p].id)
      BY <1>1 DEF Stands
    <3>2. Stands(U, p, slots[p].id) /\ S[p].id = slots[p].id
      <4>1. Stands(U, p, slots[p].id)
        BY <2>3, <3>1, GrowthKeeps
      <4> QED BY <1>1, <1>3, <4>1 DEF Grows
    <3> QED BY <3>2 DEF Stands
  <2> DEFINE self == {Report(p, S, S[p].base, hinted)}
  <2>5. \A r \in self : Stands(U, r.path, r.id)
    BY <2>4 DEF Report
  <2>6. /\ depth' \in 0..Len(call.path)
        /\ \/ phase' = "walk" /\ Here' \in DOMAIN U /\ Settled(U, Here')
           \/ phase' = "return" /\ \A r \in answer'.found : Stands(U, r.path, r.id)
    <3>1. Continue(S, self)
      BY <2>1
    <3> HIDE DEF S, U, self
    <3> QED BY <1>2, <2>2, <2>3, <2>4, <2>5, <3>1, Continues DEF ReplayInv
  <2>7. RanBefore(p) \/ DeclaredIn(U, p, o.decls)
    <3> HIDE DEF S, p
    <3>1. CASE slots[p].count # 0
      BY <1>1, <1>2, <3>1, UnresolvedIsBare
    <3>2. CASE slots[p].count = 0
      <4>1. Len(o.decls) = U[p].count /\ \A i \in DOMAIN o.decls : slots[p].count + i = i
        <5>1. S[p].count = U[p].count
          BY <1>4, <2>2 DEF Alike
        <5>2. \A i \in DOMAIN o.decls : i \in Nat
          BY <1>1
        <5> QED BY <1>1, <1>3, <3>2, <5>1, <5>2
      <4>2. \A i \in DOMAIN o.decls : Append(p, i) \in DOMAIN S
        BY <1>1, <1>3, <1>4, <3>2 DEF Tree
      <4>3. \A i \in DOMAIN o.decls :
              LET s == S[Append(p, i)]
              IN  s.kind = o.decls[i].kind /\ s.base = o.decls[i].mode /\ s.only = o.decls[i].only
        BY <1>3, <4>1
      <4> HIDE DEF U
      <4> QED BY <2>2, <4>1, <4>2, <4>3 DEF DeclaredIn, Alike
    <3> QED BY <3>1, <3>2
  <2>8. TypeInv'
    <3> HIDE DEF U
    <3> QED BY <1>1, <1>2, <2>1, <2>3, <2>6 DEF ReplayInv, TypeInv
  <2>9. WalkInv'
    <3> HIDE DEF U
    <3> QED BY <2>1, <2>6 DEF WalkInv
  <2>10. AllDeclared'
    <3> HIDE DEF U, p
    <3> QED BY <1>1, <1>2, <2>1, <2>3, <2>7, SaidGrows
  <2>11. SaidInv'
    BY <2>10 DEF SaidInv, AllDeclared, AnswersMatchSlots, DeclaredIn
  <2>12. NotedInv'
    <3> DEFINE state == [mode |-> S[p].base, hooks |-> S[p].hooks]
    <3>1. Activate(p, state) /\ phase' # "idle"
      BY <2>1, <2>6
    <3> HIDE DEF state, p
    <3> QED BY <1>1, <3>1, ActivatedIsNoted
  <2>13. ShownInv'
    <3> HIDE DEF U, p
    <3>1. \A q \in DOMAIN shown' : Stands(slots', q, shown'[q])
      BY <1>2, <2>1, <2>3, ShownGrows
    <3> QED BY <2>1, <2>6, <3>1 DEF ShownInv
  <2>14. UnresolvedInv'
    <3> HIDE DEF U, p
    <3> QED BY <1>2, <2>1, <2>2, <2>3, UnresolvedGrows
  <2> QED BY <2>8, <2>9, <2>11, <2>12, <2>13, <2>14 DEF ReplayInv
<1> QED BY <1>5, <1>6

\* Replay keeps it: a body that did not drift declared what the nodes say.
LEMMA ReplayStep ==
  ASSUME ReplayInv, phase = "walk", NEW o \in Performances(slots[Here].code), Replay(o)
  PROVE  ReplayInv'
<1> DEFINE p == Here
           b == Body(slots[p].code)
           S == HandleHints(p, o.decls)
           state == [mode |-> IF b.mark = "normal" THEN slots[p].base ELSE b.mark,
                     hooks |-> b.hooks]
           self == {Report(p, slots, state.mode, slots[p].hinted \/ b.hint)}
           late == {i \in DOMAIN o.decls : i > slots[p].count}
<1>1. /\ p \in DOMAIN slots /\ Settled(slots, p) /\ p \in Path
      /\ o.decls \in Seq(Declaration) /\ Len(o.decls) \in Nat
      /\ said' = With(said, p, o.decls)
      /\ AllDeclared /\ Tree(slots) /\ guest \in Guests /\ nextId \in Nat
  BY BodySteps DEF Replay
<1>2. /\ UNCHANGED <<guest, call, ran, shown>> /\ slots[p].resolved /\ slots' = S
      /\ nextId' = nextId + Cardinality(late)
  BY DEF Replay, GiveUp
<1>3. nextId' \in Nat
  <2>1. IsFiniteSet(1..Len(o.decls))
    BY <1>1, FS_Interval
  <2>2. late \subseteq 1..Len(o.decls)
    BY <1>1
  <2> HIDE DEF late
  <2>3. Cardinality(late) \in Nat
    BY <2>1, <2>2, FS_Subset, FS_CardinalityType
  <2> QED BY <1>1, <1>2, <2>3
<1>4. Alike(slots, S, <<>>)
  <2> HIDE DEF p
  <2> QED BY <1>1, HandlesAlike
<1> HIDE DEF late
<1>5. Tree(S) /\ Grows(slots, S, p) /\ Grows(slots, S, <<>>)
  <2> HIDE DEF S, p
  <2> QED BY <1>1, <1>4, AlikeGrows
<1>6. /\ S[p].count = slots[p].count /\ S[p].id = slots[p].id /\ S[p].resolved /\ p \in DOMAIN S
  <2> HIDE DEF S, p
  <2> QED BY <1>1, <1>2, <1>4 DEF Alike
<1>7. UnresolvedInv'
  <2> HIDE DEF S, p
  <2> QED BY <1>2, <1>5, <1>6, UnresolvedGrows
<1>8. \A q \in DOMAIN shown' : Stands(slots', q, shown'[q])
  <2> HIDE DEF S, p
  <2> QED BY <1>2, <1>5, ShownGrows
<1>9. CASE o.traps \/ Drifted(p, o.decls)
  <2>1. Answer(Refused) /\ UNCHANGED <<replay, replayed, depth>>
    BY <1>9 DEF Replay, GiveUp
  <2>2. phase' = "return" /\ ~ answer'.ok /\ answer'.found = {}
    BY <2>1 DEF Answer, Refused
  <2> HIDE DEF S, p
  <2>3. TypeInv'
    BY <1>2, <1>3, <1>5, <2>1, <2>2 DEF ReplayInv, TypeInv
  <2>4. WalkInv' /\ SaidInv'
    BY <2>2 DEF WalkInv, SaidInv, AnswersMatchSlots
  <2>5. NotedInv'
    BY <2>1, <2>2, RefusedIsNoted
  <2>6. ShownInv'
    BY <1>8, <2>2 DEF ShownInv
  <2> QED BY <1>7, <2>3, <2>4, <2>5, <2>6 DEF ReplayInv
<1>10. CASE ~ (o.traps \/ Drifted(p, o.decls))
  <2>1. Activate(p, state) /\ Continue(S, self)
    BY <1>10 DEF Replay
  <2>2. Settled(S, p) /\ Stands(S, p, slots[p].id)
    <3> HIDE DEF S, p
    <3>1. Stands(slots, p, slots[p].id)
      BY <1>1 DEF Stands
    <3>2. Stands(S, p, slots[p].id)
      BY <1>5, <3>1, GrowthKeeps
    <3> QED BY <3>2 DEF Stands
  <2>3. \A r \in self : Stands(S, r.path, r.id)
    BY <2>2 DEF Report
  <2>4. /\ depth' \in 0..Len(call.path)
        /\ \/ phase' = "walk" /\ Here' \in DOMAIN S /\ Settled(S, Here')
           \/ phase' = "return" /\ \A r \in answer'.found : Stands(S, r.path, r.id)
    <3> HIDE DEF S, self
    <3>1. Alike(S, S, Here)
      BY <1>5, AlikeItself
    <3> QED BY <1>2, <1>5, <1>6, <2>1, <2>2, <2>3, <3>1, Continues DEF ReplayInv
  <2>5. DeclaredIn(slots, p, o.decls)
    <3> HIDE DEF S, p
    <3> QED BY <1>10 DEF Drifted, DeclaredIn
  <2>6. DeclaredIn(S, p, o.decls)
    <3> HIDE DEF S, p
    <3> QED BY <1>1, <1>5, <1>6, <2>5, DeclaredStays
  <2>7. AllDeclared'
    <3> HIDE DEF S, p
    <3> QED BY <1>1, <1>2, <1>5, <2>6, SaidGrows
  <2>8. SaidInv'
    BY <2>7 DEF SaidInv, AllDeclared, AnswersMatchSlots, DeclaredIn
  <2>9. TypeInv'
    <3> HIDE DEF S
    <3> QED BY <1>2, <1>3, <1>5, <2>4 DEF ReplayInv, TypeInv
  <2>10. WalkInv'
    <3> HIDE DEF S
    <3> QED BY <1>2, <2>4 DEF WalkInv
  <2>11. NotedInv'
    <3>1. phase' # "idle"
      BY <2>4
    <3> HIDE DEF state, p
    <3> QED BY <1>1, <2>1, <3>1, ActivatedIsNoted
  <2>12. ShownInv'
    <3> HIDE DEF S
    <3> QED BY <1>2, <1>8, <2>4 DEF ShownInv
  <2> QED BY <1>7, <2>8, <2>9, <2>10, <2>11, <2>12 DEF ReplayInv
<1> QED BY <1>9, <1>10

\* RunTarget keeps it: it may declare children anew, but only of its own target.
LEMMA RunStep ==
  ASSUME ReplayInv, phase = "walk", NEW o \in Performances(slots[Here].code), RunTarget(o)
  PROVE  ReplayInv'
<1> DEFINE p == Here
<1>1. /\ p \in DOMAIN slots /\ Settled(slots, p) /\ p \in Path
      /\ o.decls \in Seq(Declaration) /\ Len(o.decls) \in Nat
      /\ said' = With(said, p, o.decls)
      /\ AllDeclared /\ Tree(slots) /\ guest \in Guests /\ nextId \in Nat
  BY BodySteps DEF RunTarget
<1>2. /\ UNCHANGED <<guest, replay, replayed, depth, call, ran, shown>>
      /\ nextId' = nextId + Len(o.decls) /\ phase' = "return" /\ answer'.found = {}
      /\ slots' = IF depth = 1 THEN OnDurable(p, o.decls) ELSE OnCopy(p)
  BY DEF RunTarget, Answer, Refused
<1>3. call = [op |-> "run", path |-> p] /\ Len(p) = depth /\ p # <<>>
  <2>1. call.op = "run" /\ depth = Len(call.path) /\ depth > 0
    BY DEF RunTarget, AtTarget
  <2>2. call.path \in Path /\ call = [op |-> call.op, path |-> call.path]
    BY DEF ReplayInv, TypeInv
  <2>3. p = call.path
    BY <2>1, <2>2 DEF Here, Path
  <2>4. Len(p) > 0 => p # <<>>
    BY <1>1 DEF Path
  <2> QED BY <2>1, <2>2, <2>3, <2>4
<1> HIDE DEF p
<1>4. Tree(slots') /\ Grows(slots, slots', p) /\ (depth # 1 => slots'[p].count = slots[p].count)
  <2>1. CASE depth = 1
    <3> DEFINE T == OnDurable(p, o.decls)
    <3>1. slots' = T
      BY <1>2, <2>1
    <3>2. Tree(T) /\ Grows(slots, T, p)
      <4> HIDE DEF T
      <4>1. T = OnDurable(p, o.decls)
        BY DEF T
      <4> QED BY <1>1, <4>1, DurableGrows
    <3> QED BY <2>1, <3>1, <3>2
  <2>2. CASE depth # 1
    <3>1. slots' = OnCopy(p) /\ Alike(slots, OnCopy(p), <<>>)
      BY <1>1, <1>2, <2>2, CopyAlike
    <3>2. Alike(slots, slots', <<>>)
      BY <3>1
    <3>3. Tree(slots') /\ Grows(slots, slots', p)
      BY <1>1, <3>2, AlikeGrows
    <3> QED BY <1>1, <3>2, <3>3 DEF Alike
  <2> QED BY <2>1, <2>2
<1>5. TypeInv'
  BY <1>1, <1>2, <1>4 DEF ReplayInv, TypeInv
<1>6. AnswersMatchSlots'
  <2> SUFFICES ASSUME NEW q \in DOMAIN said'
               PROVE  \/ call' = [op |-> "run", path |-> q] \/ RanBefore(q)'
                      \/ DeclaredIn(slots', q, said'[q])
    BY DEF AnswersMatchSlots, DeclaredIn
  <2>1. /\ DOMAIN said' = DOMAIN said \cup {p}
        /\ \A z \in DOMAIN said : z # p => said'[z] = said[z]
    <3> DEFINE w == With(said, p, o.decls)
    <3>1. /\ DOMAIN w = DOMAIN said \cup {p}
          /\ \A z \in DOMAIN said : z # p => w[z] = said[z]
      BY DEF With
    <3> QED BY <1>1, <3>1
  <2>2. CASE q = p
    BY <1>2, <1>3, <2>2
  <2>3. CASE q # p
    <3>1. q \in DOMAIN said /\ said'[q] = said[q]
      BY <2>1, <2>3
    <3>2. /\ q \in DOMAIN slots /\ said[q] \in Seq(Declaration)
          /\ RanBefore(q) \/ DeclaredIn(slots, q, said[q])
      BY <1>1, <3>1 DEF AllDeclared
    <3>3. slots'[q].count = slots[q].count
      BY <1>4, <2>3, <3>2 DEF Grows
    <3>4. DeclaredIn(slots, q, said[q]) => DeclaredIn(slots', q, said[q])
      BY <1>1, <1>4, <3>2, <3>3, DeclaredStays
    <3>5. RanBefore(q)' <=> RanBefore(q)
      BY <1>2 DEF RanBefore
    <3> QED BY <3>1, <3>2, <3>4, <3>5
  <2> QED BY <2>2, <2>3
<1>7. WalkInv' /\ SaidInv'
  BY <1>2, <1>6 DEF WalkInv, SaidInv
<1>8. NotedInv'
  BY <1>2, RefusedIsNoted
<1>9. ShownInv'
  <2>1. \A q \in DOMAIN shown' : Stands(slots', q, shown'[q])
    BY <1>2, <1>4, ShownGrows
  <2> QED BY <1>2, <2>1 DEF ShownInv
<1>10. UnresolvedInv'
  <2> SUFFICES ASSUME NEW q \in DOMAIN slots', ~ slots'[q].resolved, slots'[q].count # 0
               PROVE  Len(q) = 1 /\ (q \in ran \/ call = [op |-> "run", path |-> q])
    BY <1>2 DEF UnresolvedInv
  <2>1. q \in DOMAIN slots /\ ~ slots[q].resolved
    BY <1>4 DEF Grows
  <2>2. CASE q = p /\ depth = 1
    BY <1>3, <2>2
  <2>3. CASE ~ (q = p /\ depth = 1)
    <3>1. slots[q].count # 0
      BY <1>4, <2>1, <2>3 DEF Grows
    <3> QED BY <2>1, <3>1, UnresolvedIsBare
  <2> QED BY <2>2, <2>3
<1> QED BY <1>5, <1>7, <1>8, <1>9, <1>10 DEF ReplayInv

\* The invariant holds of a fresh instance.
LEMMA InitInv ==
  ASSUME Init
  PROVE  ReplayInv
<1> DEFINE ds == guest[<<>>].decls
           suite == [kind |-> "suite", mode |-> "normal", only |-> FALSE, handle |-> FALSE]
           bare == NewSlot(<<>>, 0, suite)
           n == Len(ds)
           k == guest[<<>>].hooks
           root == [bare EXCEPT !.resolved = TRUE, !.hooks = k, !.count = n]
           nodes == {<<>>} \cup {<<i>> : i \in DOMAIN ds}
<1>1. /\ guest \in Guests /\ phase = "idle" /\ said = <<>> /\ shown = <<>> /\ replay = <<>>
      /\ replayed = <<>> /\ call = [op |-> "none", path |-> <<>>] /\ depth = 0
      /\ nextId = n + 1 /\ DOMAIN slots = nodes
      /\ slots = [p \in nodes |-> IF p = <<>> THEN root ELSE NewSlot(p, p[1], ds[p[1]])]
  BY DEF Init
<1>2. ds \in Seq(Declaration) /\ n \in Nat /\ DOMAIN ds = 1..n /\ k \in Nat
  BY <1>1, GuestAssumption DEF IsBody
<1>3. <<>> \in Path
  BY DEF Path
<1>4. bare \in Slot
  <2>1. suite \in Declaration
    BY DEF Declaration, Kinds, Modes
  <2> HIDE DEF suite
  <2> QED BY <1>3, <2>1, NewSlotType
<1> HIDE DEF bare
<1>5. root \in Slot /\ root.resolved /\ root.count = n
  <2> HIDE DEF n, k
  <2> QED BY <1>2, <1>4 DEF Slot
<1> HIDE DEF root
<1>6. ASSUME NEW i \in DOMAIN ds
      PROVE  /\ <<i>> \in Path /\ <<i>> # <<>> /\ <<i>> = Append(<<>>, i)
             /\ slots[<<i>>] \in Slot /\ slots[<<i>>].count = 0
  <2> HIDE DEF ds, n
  <2>1. i \in Nat /\ ds[i] \in Declaration
    BY <1>2
  <2>2. <<i>> \in Path /\ <<i>> # <<>> /\ <<i>> = Append(<<>>, i) /\ <<i>>[1] = i
    BY <2>1 DEF Path
  <2>3. slots[<<i>>] = NewSlot(<<i>>, i, ds[i])
    BY <1>1, <2>2
  <2>4. NewSlot(<<i>>, i, ds[i]) \in Slot /\ NewSlot(<<i>>, i, ds[i]).count = 0
    <3> DEFINE c == <<i>>
               d == ds[i]
    <3>1. c \in Path /\ d \in Declaration
      BY <2>1, <2>2
    <3> HIDE DEF c, d
    <3>2. NewSlot(c, i, d) \in Slot /\ NewSlot(c, i, d).count = 0
      BY <2>1, <3>1, NewSlotType
    <3> QED BY <3>2 DEF c, d
  <2> QED BY <2>2, <2>3, <2>4
<1>7. slots[<<>>] = root /\ <<>> \in DOMAIN slots
  BY <1>1
<1>8. \A p \in DOMAIN slots : p \in Path /\ slots[p] \in Slot /\ (p # <<>> => slots[p].count = 0)
  <2> HIDE DEF ds, n
  <2> QED BY <1>1, <1>3, <1>5, <1>6, <1>7
<1>9. slots \in [DOMAIN slots -> Slot]
  <2>1. slots = [p \in DOMAIN slots |-> slots[p]]
    BY <1>1
  <2> HIDE DEF nodes
  <2> QED BY <1>8, <2>1
<1>10. ASSUME NEW p \in DOMAIN slots, NEW i \in 1..slots[p].count
       PROVE  Append(p, i) \in DOMAIN slots
  <2>1. p = <<>>
    BY <1>8
  <2>2. i \in DOMAIN ds
    BY <1>2, <1>5, <1>7, <2>1
  <2> QED BY <1>1, <1>6, <2>1, <2>2
<1>11. ASSUME NEW q \in DOMAIN slots, q # <<>>
       PROVE  \E p \in DOMAIN slots : \E i \in 1..slots[p].count : q = Append(p, i)
  <2>1. PICK i \in DOMAIN ds : q = <<i>>
    BY <1>1, <1>11
  <2>2. q = Append(<<>>, i) /\ i \in 1..slots[<<>>].count
    BY <1>2, <1>5, <1>6, <1>7, <2>1
  <2> QED BY <1>7, <2>2
<1>12. Tree(slots)
  <2> HIDE DEF nodes, ds
  <2> QED BY <1>5, <1>7, <1>8, <1>9, <1>10, <1>11 DEF Tree
<1>13. TypeInv
  <2>1. depth \in 0..Len(call.path) /\ nextId \in Nat
    BY <1>1, <1>2
  <2> QED BY <1>1, <1>3, <1>12, <2>1 DEF TypeInv
<1>14. NotedInv
  <2>1. replayed \in Seq(Path) /\ DOMAIN replay = {}
    BY <1>1
  <2> QED BY <1>1, <2>1 DEF NotedInv
<1>15. UnresolvedInv
  BY <1>5, <1>7, <1>8 DEF UnresolvedInv
<1> HIDE DEF nodes, ds, n
<1>16. WalkInv /\ SaidInv /\ ShownInv
  BY <1>1 DEF WalkInv, SaidInv, AnswersMatchSlots, ShownInv
<1> QED BY <1>13, <1>14, <1>15, <1>16 DEF ReplayInv

\* Every step keeps the invariant.
LEMMA StepInv ==
  ASSUME ReplayInv, [Next]_vars
  PROVE  ReplayInv'
<1>1. ASSUME NEW op \in {"discover", "run"}, NEW p \in CallPaths, HostCall(op, p)
      PROVE  ReplayInv'
  BY <1>1, CallStep
<1>2. CASE EnterRoot
  BY <1>2, RootStep
<1>3. CASE StopAtSkipped \/ RunSuppressed \/ RunRoot
  BY <1>3, AnswerStep
<1>4. ASSUME phase = "walk", NEW o \in Performances(slots[Here].code), ResolveFirst(o)
      PROVE  ReplayInv'
  BY <1>4, FirstStep
<1>5. ASSUME phase = "walk", NEW o \in Performances(slots[Here].code), Replay(o)
      PROVE  ReplayInv'
  BY <1>5, ReplayStep
<1>6. ASSUME phase = "walk", NEW o \in Performances(slots[Here].code), RunTarget(o)
      PROVE  ReplayInv'
  BY <1>6, RunStep
<1>7. CASE Return
  BY <1>7, ReturnStep
<1>8. CASE UNCHANGED vars
  <2>1. UNCHANGED <<guest, slots, nextId, replay, replayed, depth, phase, answer, call, said, ran,
                    shown>>
    BY <1>8 DEF vars, walkVars, history
  <2>2. TypeInv' /\ WalkInv' /\ NotedInv' /\ ShownInv' /\ UnresolvedInv'
    BY <2>1 DEF ReplayInv, TypeInv, WalkInv, NotedInv, ShownInv, UnresolvedInv, Here
  <2>3. SaidInv'
    BY <2>1 DEF ReplayInv, SaidInv, AllDeclared, AnswersMatchSlots, RanBefore, DeclaredIn
  <2> QED BY <2>2, <2>3 DEF ReplayInv
<1> QED BY <1>1, <1>2, <1>3, <1>4, <1>5, <1>6, <1>7, <1>8 DEF Next

\* The invariant holds throughout.
THEOREM ReplayInvariant == Spec => []ReplayInv
BY InitInv, StepInv, PTL DEF Spec

\* No replay state is active between two calls, whether the last one was answered,
\* refused, trapped or drifted (clearTraversalReplayNodes).
THEOREM ReplayStatesEnd == Spec => []ReplayStateEndsWithCall
<1>1. ReplayInv => ReplayStateEndsWithCall
  BY DEF ReplayInv, NotedInv, ReplayStateEndsWithCall
<1> QED BY <1>1, ReplayInvariant, PTL

\* A path that is shown again has the id it was first shown with, whatever trapped
\* or drifted in between (createReplayChildFromSlotSource).
THEOREM IdentityIsStable == Spec => []StableIdentity
<1>1. ReplayInv => StableIdentity
  BY DEF ReplayInv, ShownInv, Stands, StableIdentity
<1> QED BY <1>1, ReplayInvariant, PTL

\* A call is answered from bodies that declared, in this call, what the durable
\* nodes say (hasReplayShapeDrift), but for what a run appends to its target.
THEOREM AnswersAreTrue == Spec => []AnswersMatchSlots
<1>1. ReplayInv => AnswersMatchSlots
  BY DEF ReplayInv, SaidInv
<1> QED BY <1>1, ReplayInvariant, PTL

-----------------------------------------------------------------------------
(***************************************************************************)
(* The durable nodes are what the program says of them: every node with no *)
(* straying body above it that was not declared again by a run.            *)
(***************************************************************************)

\* A body whose replay may not agree with what was declared.
Straying(q) == q \in wayward \/ Undeclared(q)

\* A node below a top-level one that was run.
Apart(p) == <<p[1]>> \in ran \/ (phase = "return" /\ call = [op |-> "run", path |-> <<p[1]>>])

\* No body above p strays.
Sound(p) == \A k \in 1..(Len(p) - 1) : ~ Straying(SubSeq(p, 1, k))

\* The durable node p is what the program says of it,
AsWritten(S, p) ==
  /\ S[p].code = p /\ p[Len(p)] \in DOMAIN Siblings(p)
  /\ S[p].kind = Written(p).kind /\ S[p].base = Written(p).mode /\ S[p].only = Written(p).only
  /\ ~ Body(p).hint => S[p].hinted = Written(p).handle
  /\ Body(p).mark = "normal" => S[p].mode = S[p].base

\* and has the children and hooks that its body made once, or none.
AsGrown(S, p) ==
  /\ ~ S[p].resolved => S[p].count = 0 /\ S[p].hooks = 0
  /\ S[p].resolved /\ p \notin wayward => S[p].count = Len(Body(p).decls)

Faithful(S, p) == AsWritten(S, p) /\ AsGrown(S, p)

TextInv == \A p \in DOMAIN slots : p # <<>> /\ ~ Apart(p) /\ Sound(p) => Faithful(slots, p)

RootInv ==
  /\ slots[<<>>].count = Len(Body(<<>>).decls) /\ slots[<<>>].hooks = Body(<<>>).hooks
  /\ \A i \in DOMAIN Body(<<>>).decls : <<i>> \in DOMAIN slots /\ AsWritten(slots, <<i>>)

Unexcused ==
  /\ ~ RanBefore(call.path)
  /\ \A q \in Prefixes(call.path) : ~ Straying(q)

\* The walk has replayed what is above it, and what it has come to is reachable.
WayInv ==
  phase = "walk" =>
    /\ DOMAIN replay = {SubSeq(call.path, 1, k) : k \in 1..(depth - 1)}
    /\ clean /\ Unexcused =>
         /\ Reachable(Here)
         /\ \A k \in 1..(depth - 1) :
              replay[SubSeq(call.path, 1, k)].hooks = Body(SubSeq(call.path, 1, k)).hooks

\* The program never changes, and what it says neither.
LEMMA TextSame ==
  ASSUME guest' = guest
  PROVE  /\ \A p : Body(p)' = Body(p) /\ Siblings(p)' = Siblings(p) /\ Written(p)' = Written(p)
         /\ \A p : Undeclared(p)' <=> Undeclared(p)
         /\ \A p : Reachable(p)' <=> Reachable(p)
<1>1. \A p : Body(p)' = Body(p)
  BY DEF Body
<1>2. \A p : Siblings(p)' = Siblings(p) /\ Written(p)' = Written(p)
  BY <1>1 DEF Siblings, Written
<1>3. \A p : Undeclared(p)' <=> Undeclared(p)
  BY <1>1 DEF Undeclared, SelfMarked
<1>4. \A p : Reachable(p)' <=> Reachable(p)
  BY <1>2 DEF Reachable
<1> QED BY <1>1, <1>2, <1>3, <1>4

\* Bodies stray, but never cease to.
LEMMA SoundBefore ==
  ASSUME guest' = guest, wayward \subseteq wayward'
  PROVE  /\ \A q : Straying(q) => Straying(q)'
         /\ \A p : Sound(p)' => Sound(p)
<1>1. \A q : Straying(q) => Straying(q)'
  BY TextSame DEF Straying
<1> QED BY <1>1 DEF Sound

\* A node stays faithful while only what the body sets by itself changes.
LEMMA FaithfulStays ==
  ASSUME guest' = guest, wayward \subseteq wayward', NEW p, Faithful(slots, p),
         slots'[p].code = slots[p].code, slots'[p].kind = slots[p].kind,
         slots'[p].base = slots[p].base, slots'[p].only = slots[p].only,
         slots'[p].resolved = slots[p].resolved, slots'[p].count = slots[p].count,
         ~ Body(p).hint => slots'[p].hinted = slots[p].hinted,
         slots'[p].mode = slots[p].mode, slots'[p].hooks = slots[p].hooks
  PROVE  Faithful(slots, p)'
<1>1. Body(p)' = Body(p) /\ Siblings(p)' = Siblings(p) /\ Written(p)' = Written(p)
  BY TextSame
<1> QED BY <1>1 DEF Faithful, AsWritten, AsGrown

\* It is enough to look at the nodes that changed.
LEMMA TextKept ==
  ASSUME TextInv, guest' = guest, wayward \subseteq wayward',
         \A p : ~ Apart(p)' => ~ Apart(p),
         \A p \in DOMAIN slots' : p # <<>> /\ ~ Apart(p)' /\ Sound(p)' =>
           (p \in DOMAIN slots /\ slots'[p] = slots[p]) \/ Faithful(slots, p)'
  PROVE  TextInv'
<1> SUFFICES ASSUME NEW p \in DOMAIN slots', p # <<>>, ~ Apart(p)', Sound(p)'
             PROVE  Faithful(slots, p)'
  BY DEF TextInv
<1>1. CASE p \in DOMAIN slots /\ slots'[p] = slots[p]
  <2>1. Sound(p)
    BY SoundBefore
  <2>2. Faithful(slots, p)
    BY <1>1, <2>1 DEF TextInv
  <2> QED BY <1>1, <2>2, FaithfulStays
<1> QED BY <1>1

\* What a body does when it behaves, and who sets hints by handles.
LEMMA Behaves ==
  ASSUME NEW p, NEW o, Perform(p, o), clean'
  PROVE  clean /\ o.decls = Body(slots[p].code).decls /\ ~ o.traps /\ wayward' = wayward
<1> DEFINE ds == Body(slots[p].code).decls
           proper == o = Performance(ds, FALSE)
<1>1. /\ clean' = (clean /\ proper)
      /\ wayward' = IF o.traps \/ proper THEN wayward ELSE wayward \cup {slots[p].code}
  BY DEF Perform
<1>2. clean /\ proper
  <2> HIDE DEF proper
  <2> QED BY <1>1
<1>3. wayward' = wayward
  <2> HIDE DEF proper
  <2> QED BY <1>1, <1>2
<1>4. o.decls = ds /\ ~ o.traps
  <2> HIDE DEF ds
  <2> QED BY <1>2 DEF Performance
<1> QED BY <1>2, <1>3, <1>4

\* A handle that a body sets hints by is one that it declares, or the body strays.
LEMMA HandlesAreDeclared ==
  ASSUME guest \in Guests, NEW p, NEW o \in Performances(slots[p].code), Perform(p, o),
         NEW i \in DOMAIN o.decls, o.decls[i].handle, slots[p].code = p
  PROVE  p \in wayward' \/ Undeclared(p)
<1> DEFINE d == Body(p).decls
<1>1. d \in Seq(Declaration)
  BY BodyIsBody DEF IsBody
<1>2. CASE o = Performance(d, FALSE)
  BY <1>2 DEF Performance, Undeclared
<1>3. CASE o.traps
  <2>1. PICK k \in 0..Len(d) : o = Performance(SubSeq(d, 1, k), TRUE)
    BY <1>3 DEF Performances, Performance
  <2>2. o.decls = SubSeq(d, 1, k)
    BY <2>1 DEF Performance
  <2> HIDE DEF d
  <2>3. i \in DOMAIN d /\ o.decls[i] = d[i]
    <3> DEFINE e == SubSeq(d, 1, k)
    <3>1. Len(d) \in Nat /\ DOMAIN d = 1..Len(d) /\ k \in Nat /\ k <= Len(d)
      BY <1>1
    <3>2. DOMAIN e = 1..k /\ \A j \in 1..k : e[j] = d[j]
      BY <1>1, <3>1
    <3> HIDE DEF e
    <3>3. o.decls = e
      BY <2>2 DEF e
    <3> QED BY <3>1, <3>2, <3>3
  <2> QED BY <2>3 DEF Undeclared, d
<1>4. CASE ~ o.traps /\ o # Performance(d, FALSE)
  BY <1>4 DEF Perform
<1> QED BY <1>2, <1>3, <1>4

\* A body that declares something else strays.
LEMMA PerformStrays ==
  ASSUME NEW p, NEW o, Perform(p, o)
  PROVE  /\ wayward \subseteq wayward' /\ (clean' => clean)
         /\ slots[p].code \notin wayward' /\ ~ o.traps => o.decls = Body(slots[p].code).decls
<1> DEFINE ds == Body(slots[p].code).decls
           proper == o = Performance(ds, FALSE)
<1>1. /\ clean' = (clean /\ proper)
      /\ wayward' = IF o.traps \/ proper THEN wayward ELSE wayward \cup {slots[p].code}
  BY DEF Perform
<1>2. proper => o.decls = ds
  BY DEF Performance
<1> HIDE DEF proper, ds
<1>3. wayward \subseteq wayward' /\ (clean' => clean)
  BY <1>1
<1>4. slots[p].code \notin wayward' /\ ~ o.traps => o.decls = ds
  BY <1>1, <1>2
<1> QED BY <1>3, <1>4 DEF ds

\* What the program says of a child.
LEMMA ChildText ==
  ASSUME NEW p \in Path, NEW i \in Nat
  PROVE  /\ Siblings(Append(p, i)) = Body(p).decls /\ Written(Append(p, i)) = Body(p).decls[i]
         /\ Append(p, i)[Len(Append(p, i))] = i /\ (p # <<>> => Append(p, i)[1] = p[1])
         /\ Sound(Append(p, i)) <=> Sound(p) /\ (p # <<>> => ~ Straying(p))
<1> DEFINE q == Append(p, i)
<1>1. /\ q \in Path /\ Len(q) = Len(p) + 1 /\ Len(p) \in Nat /\ q[Len(p) + 1] = i
      /\ \A k \in 1..Len(p) : q[k] = p[k]
  BY Appended
<1>2. /\ \A k \in 0..Len(p) : SubSeq(q, 1, k) = SubSeq(p, 1, k)
      /\ SubSeq(p, 1, Len(p)) = p
  <2>1. \A k \in 0..Len(p) : SubSeq(q, 1, k) = SubSeq(p, 1, k)
    BY PrefixOfAppended
  <2>2. SubSeq(p, 1, Len(p)) = p
    BY <1>1, PrefixOfAppended
  <2> QED BY <2>1, <2>2
<1>3. p # <<>> <=> 1 <= Len(p)
  BY DEF Path
<1> HIDE DEF q
<1>4. SubSeq(q, 1, Len(q) - 1) = p
  BY <1>1, <1>2
<1>5. Siblings(q) = Body(p).decls /\ Written(q) = Body(p).decls[i] /\ q[Len(q)] = i
  BY <1>1, <1>4 DEF Siblings, Written
<1>6. p # <<>> => q[1] = p[1]
  BY <1>1, <1>3
<1>7. Sound(q) <=> \A k \in 1..Len(p) : ~ Straying(SubSeq(p, 1, k))
  <2>1. \A k \in 1..Len(p) : SubSeq(q, 1, k) = SubSeq(p, 1, k)
    BY <1>1, <1>2
  <2>2. 1..(Len(q) - 1) = 1..Len(p)
    BY <1>1
  <2> QED BY <2>1, <2>2 DEF Sound
<1>8. (\A k \in 1..Len(p) : ~ Straying(SubSeq(p, 1, k)))
        <=> Sound(p) /\ (p # <<>> => ~ Straying(p))
  <2>1. ASSUME \A k \in 1..Len(p) : ~ Straying(SubSeq(p, 1, k))
        PROVE  Sound(p) /\ (p # <<>> => ~ Straying(p))
    <3>1. 1..(Len(p) - 1) \subseteq 1..Len(p)
      BY <1>1
    <3>2. p # <<>> => Len(p) \in 1..Len(p)
      BY <1>1, <1>3
    <3>3. p # <<>> => ~ Straying(p)
      BY <1>2, <2>1, <3>2
    <3> QED BY <2>1, <3>1, <3>3 DEF Sound
  <2>2. ASSUME Sound(p), p # <<>> => ~ Straying(p), NEW k \in 1..Len(p)
        PROVE  ~ Straying(SubSeq(p, 1, k))
    <3>1. CASE k = Len(p)
      <4>1. p # <<>>
        BY <1>1, <1>3, <3>1
      <4> QED BY <1>2, <2>2, <3>1, <4>1
    <3>2. CASE k # Len(p)
      <4>1. k \in 1..(Len(p) - 1)
        BY <1>1, <3>2
      <4> QED BY <2>2, <4>1 DEF Sound
    <3> QED BY <3>1, <3>2
  <2> QED BY <2>1, <2>2
<1> QED BY <1>5, <1>6, <1>7, <1>8 DEF q

\* Where the walk is.
LEMMA WhereItIs ==
  ASSUME TypeInv
  PROVE  /\ Here \in Path /\ Len(Here) = depth /\ depth \in Nat /\ (depth > 0 <=> Here # <<>>)
         /\ depth > 0 => Here[1] = call.path[1] /\ call.path # <<>>
         /\ depth = Len(call.path) => Here = call.path
<1>1. call.path \in Path /\ depth \in 0..Len(call.path) /\ depth \in Nat
  BY DEF TypeInv, Path
<1>2. Here \in Path /\ Len(Here) = depth /\ (depth = Len(call.path) => Here = call.path)
  BY <1>1 DEF Here, Path
<1>3. depth > 0 <=> Here # <<>>
  BY <1>1, <1>2 DEF Path
<1>4. depth > 0 => Here[1] = call.path[1] /\ call.path # <<>>
  BY <1>1 DEF Here, Path
<1> QED BY <1>1, <1>2, <1>3, <1>4

\* In the walk only the top-level nodes that were run lie apart.
LEMMA ApartInWalk ==
  ASSUME phase = "walk", ran' = ran
  PROVE  \A p : ~ Apart(p)' => ~ Apart(p)
BY DEF Apart

\* A step that changes no node.
LEMMA TextUnchanged ==
  ASSUME TextInv, guest' = guest, wayward' = wayward, slots' = slots,
         \A p : ~ Apart(p)' => ~ Apart(p)
  PROVE  TextInv'
BY TextKept

\* A new node is what was declared.
LEMMA NewIsFaithful ==
  ASSUME NEW S, NEW p \in Path, NEW i \in Nat, NEW id, i \in DOMAIN Body(p).decls,
         NEW q, q = Append(p, i),
         S[q] = NewSlot(q, id, Body(p).decls[i])
  PROVE  Faithful(S, q)
<1>1. Siblings(q) = Body(p).decls /\ Written(q) = Body(p).decls[i] /\ q[Len(q)] = i
  BY ChildText
<1> QED BY <1>1 DEF Faithful, AsWritten, AsGrown, NewSlot

\* The node when its children are discarded.
Discarded(s) == [s EXCEPT !.mode = s.base, !.hooks = 0, !.count = 0]

\* The node when it is resolved.
Taken(s) == [s EXCEPT !.resolved = TRUE]

\* A body leaves the node on which it runs as it is written,
LEMMA WrittenAfter ==
  ASSUME NEW p, AsWritten(slots, p), slots[p] \in Slot, guest' = guest, NEW n \in Nat,
         NEW s, s = AfterBody(slots[p], Body(p), n), slots'[p] \in {s, Taken(s), Discarded(s)}
  PROVE  AsWritten(slots, p)'
<1> DEFINE b == Body(p)
           t == slots'[p]
<1>1. Body(p)' = b /\ Siblings(p)' = Siblings(p) /\ Written(p)' = Written(p)
  BY TextSame
<1>2. /\ slots[p].code = p /\ p[Len(p)] \in DOMAIN Siblings(p)
      /\ slots[p].kind = Written(p).kind /\ slots[p].base = Written(p).mode
      /\ slots[p].only = Written(p).only
      /\ ~ b.hint => slots[p].hinted = Written(p).handle
      /\ b.mark = "normal" => slots[p].mode = slots[p].base
  BY DEF AsWritten
<1>3. /\ s.code = slots[p].code /\ s.kind = slots[p].kind /\ s.base = slots[p].base
      /\ s.only = slots[p].only /\ (b.mark = "normal" => s.mode = slots[p].mode)
      /\ s.hinted = (slots[p].hinted \/ b.hint) /\ DOMAIN s = DOMAIN slots[p]
  <2>1. s = [slots[p] EXCEPT
               !.count = slots[p].count + n,
               !.mode = IF b.mark = "normal" THEN slots[p].mode ELSE b.mark,
               !.hinted = slots[p].hinted \/ b.hint,
               !.hooks = slots[p].hooks + b.hooks]
    BY DEF AfterBody
  <2> HIDE DEF b
  <2> QED BY <2>1 DEF Slot
<1>4. ~ b.hint => s.hinted = slots[p].hinted
  BY <1>3 DEF Slot
<1>5. /\ t.code = s.code /\ t.kind = s.kind /\ t.base = s.base /\ t.only = s.only
      /\ t.hinted = s.hinted /\ t.mode \in {s.mode, s.base}
  BY <1>3 DEF Slot, Taken, Discarded
<1> HIDE DEF b, t
<1> QED BY <1>1, <1>2, <1>3, <1>4, <1>5 DEF AsWritten, t, b

\* and one that it resolves, or fails to, with what it makes.
LEMMA ResolvedIsFaithful ==
  ASSUME NEW p, Faithful(slots, p), slots[p] \in Slot, ~ slots[p].resolved,
         guest' = guest, wayward \subseteq wayward', NEW n \in Nat,
         NEW s, s = AfterBody(slots[p], Body(p), n),
         \/ slots'[p] = Taken(s) /\ (p \notin wayward' => n = Len(Body(p).decls))
         \/ slots'[p] = Discarded(s)
  PROVE  Faithful(slots, p)'
<1> DEFINE t == slots'[p]
<1>1. AsWritten(slots, p)'
  BY WrittenAfter DEF Faithful
<1>2. slots[p].count = 0 /\ DOMAIN s = DOMAIN slots[p] /\ s.count = 0 + n
      /\ s.resolved = slots[p].resolved
  BY DEF Faithful, AsGrown, AfterBody, Slot
<1>3. CASE t = Taken(s) /\ (p \notin wayward' => n = Len(Body(p).decls))
  <2>1. t.resolved /\ t.count = n
    BY <1>2, <1>3 DEF Taken, Slot
  <2>2. Body(p)' = Body(p)
    BY TextSame
  <2> QED BY <1>1, <1>3, <2>1, <2>2 DEF Faithful, AsGrown
<1>4. CASE t = Discarded(s)
  <2>1. ~ t.resolved /\ t.count = 0 /\ t.hooks = 0
    BY <1>2, <1>4 DEF Discarded, Slot
  <2> QED BY <1>1, <2>1 DEF Faithful, AsGrown
<1> QED BY <1>3, <1>4

\* What is above a node that is as written.
LEMMA ParentIsFaithful ==
  ASSUME ReplayInv, TextInv, guest' = guest, wayward \subseteq wayward',
         NEW p \in DOMAIN slots, p # <<>>, NEW i \in Nat, NEW q, q = Append(p, i),
         ~ Apart(q), Sound(q)'
  PROVE  Faithful(slots, p) /\ ~ Straying(p) /\ ~ Straying(p)' /\ p \notin wayward'
<1>1. p \in Path
  BY DEF ReplayInv, TypeInv, Tree
<1>2. Sound(q)
  BY SoundBefore
<1>3. q[1] = p[1] /\ Sound(p) /\ ~ Straying(p)
  BY <1>1, <1>2, ChildText
<1>4. ~ Straying(p)'
  <2>1. Len(p) \in Nat /\ Len(q) = Len(p) + 1
    BY <1>1, Appended
  <2>2. SubSeq(q, 1, Len(p)) = p
    BY <1>1, <2>1, PrefixOfAppended
  <2>3. Len(p) \in 1..(Len(q) - 1)
    <3>1. Len(p) # 0
      BY <1>1 DEF Path
    <3> QED BY <2>1, <3>1
  <2>4. \A k \in 1..(Len(q) - 1) : ~ Straying(SubSeq(q, 1, k))'
    BY DEF Sound
  <2> QED BY <2>2, <2>3, <2>4
<1>5. ~ Apart(p)
  BY <1>3 DEF Apart
<1>6. Faithful(slots, p)
  BY <1>3, <1>5 DEF TextInv
<1> QED BY <1>3, <1>4, <1>6 DEF Straying

\* ResolveFirst makes the children as they are written, or marks the body for one
\* that strays.
LEMMA TextFirst ==
  ASSUME ReplayInv, TextInv, phase = "walk", NEW o \in Performances(slots[Here].code),
         ResolveFirst(o)
  PROVE  TextInv'
<1>0. PICK p : p = Here
  OBVIOUS
<1> DEFINE S == OnDurable(p, o.decls)
           n == slots[p].count
           born(i) == Append(p, n + i)
           b == Body(slots[p].code)
           s == AfterBody(slots[p], Body(slots[p].code), Len(o.decls))
<1>1. /\ p \in DOMAIN slots /\ p \in Path /\ p # <<>> /\ slots[p] \in Slot
      /\ o.decls \in Seq(Declaration) /\ Len(o.decls) \in Nat
      /\ Tree(slots) /\ guest \in Guests /\ nextId \in Nat
  <2>1. depth > 0 /\ depth \in 0..Len(call.path) /\ call.path \in Path /\ Perform(Here, o)
    BY DEF ResolveFirst, ReplayInv, TypeInv
  <2>2. p # <<>>
    BY <1>0, <2>1, WhereItIs DEF ReplayInv
  <2> QED BY <1>0, <2>1, <2>2, BodySteps DEF Tree
<1>2. /\ guest' = guest /\ ran' = ran /\ ~ slots[p].resolved /\ Perform(p, o)
      /\ \/ o.traps /\ slots' = ResetUnresolved(S, p)
         \/ ~ o.traps /\ slots' = [S EXCEPT ![p].resolved = TRUE]
  BY <1>0 DEF ResolveFirst
<1>3. wayward \subseteq wayward'
  BY <1>2, PerformStrays
<1>4. Made(slots, S, p, o.decls) /\ S[p] = s
  <2> HIDE DEF S
  <2>1. S = OnDurable(p, o.decls)
    BY DEF S
  <2> QED BY <1>1, <2>1, DurableMade
<1>5. /\ DOMAIN S = DOMAIN slots \cup {born(i) : i \in DOMAIN o.decls}
      /\ \A i \in DOMAIN o.decls :
           S[born(i)] = NewSlot(Append(slots[p].code, i), nextId + i - 1, o.decls[i])
      /\ \A q \in DOMAIN slots : q # p => S[q] = slots[q]
  <2> HIDE DEF S
  <2> QED BY <1>4 DEF Made
<1> HIDE DEF S
<1> SUFFICES ASSUME NEW q \in DOMAIN slots', q # <<>>, ~ Apart(q)', Sound(q)'
             PROVE  (q \in DOMAIN slots /\ slots'[q] = slots[q]) \/ Faithful(slots, q)'
  BY <1>2, <1>3, TextKept, ApartInWalk
<1>6. ~ Apart(q) /\ Sound(q)
  BY <1>2, <1>3, ApartInWalk, SoundBefore
<1>7. CASE q \in DOMAIN slots /\ q # p
  <2>1. slots'[q] = S[q]
    <3> QED BY <1>2, <1>7 DEF ResetUnresolved
  <2> QED BY <1>5, <1>7, <2>1
<1>8. CASE q = p
  <2>1. Faithful(slots, p)
    BY <1>1, <1>6, <1>8 DEF TextInv
  <2>2. slots[p].code = p
    BY <2>1 DEF Faithful, AsWritten, AsGrown
  <2> DEFINE m == Len(o.decls)
  <2>9. /\ m \in Nat /\ slots[p] \in Slot /\ ~ slots[p].resolved /\ guest' = guest
        /\ guest \in Guests /\ wayward \subseteq wayward'
        /\ s = AfterBody(slots[p], Body(p), m)
    BY <1>1, <1>2, <1>3, <2>2
  <2>3. CASE o.traps
    <3>1. slots'[p] = Discarded(s)
      <4>1. p \in DOMAIN ResetUnresolved(S, p) => ResetUnresolved(S, p)[p] = Discarded(S[p])
        BY DEF ResetUnresolved, Discarded
      <4> HIDE DEF s
      <4> QED BY <1>2, <1>4, <1>8, <2>3, <4>1
    <3> HIDE DEF s, m
    <3> QED BY <1>8, <2>1, <2>9, <3>1, ResolvedIsFaithful
  <2>4. CASE ~ o.traps
    <3>1. slots'[p] = Taken(s)
      <4> HIDE DEF s
      <4>1. p \in DOMAIN S
        BY <1>1, <1>5
      <4> QED BY <1>2, <1>4, <2>4, <4>1 DEF Taken
    <3>2. p \notin wayward' => Len(o.decls) = Len(Body(p).decls)
      BY <1>2, <2>2, <2>4, PerformStrays
    <3>3. p \notin wayward' => m = Len(Body(p).decls)
      BY <3>2
    <3> HIDE DEF s, m
    <3> QED BY <1>8, <2>1, <2>9, <3>1, <3>3, ResolvedIsFaithful
  <2> QED BY <2>3, <2>4
<1>9. CASE q \notin DOMAIN slots
  <2>1. q \in DOMAIN S
    <3> QED BY <1>1, <1>2, <1>5 DEF ResetUnresolved
  <2>2. PICK i \in DOMAIN o.decls : q = born(i)
    BY <1>5, <1>9, <2>1
  <2>3. i \in Nat /\ n \in Nat /\ n + i \in Nat
    BY <1>1 DEF Slot
  <2>4. ~ o.traps
    <3>1. Under(p, q)
      <4> HIDE DEF n
      <4> QED BY <1>1, <2>2, <2>3, UnderAppended, Appended
    <3> QED BY <1>2, <3>1 DEF ResetUnresolved
  <2>5. Faithful(slots, p) /\ p \notin wayward'
    <3> HIDE DEF n
    <3> QED BY <1>1, <1>2, <1>3, <1>6, <2>2, <2>3, ParentIsFaithful
  <2>7. slots[p].code = p /\ n = 0 /\ o.decls = Body(p).decls
    <3>1. slots[p].code = p /\ n = 0
      BY <1>2, <2>5 DEF Faithful, AsWritten, AsGrown
    <3>3. o.decls = Body(slots[p].code).decls
      BY <1>2, <2>4, <2>5, <3>1, PerformStrays
    <3> QED BY <3>1, <3>3
  <2>8. q = Append(p, i) /\ slots'[q] = NewSlot(q, nextId + i - 1, Body(p).decls[i])
    <3>1. q = Append(p, i)
      <4> HIDE DEF n
      <4> QED BY <2>2, <2>3, <2>7
    <3>2. q # p
      BY <1>1, <1>9
    <3>3. slots'[q] = S[q]
      <4> HIDE DEF n
      <4> QED BY <1>2, <2>1, <2>4, <3>2
    <3>4. S[q] = NewSlot(Append(p, i), nextId + i - 1, Body(p).decls[i])
      <4> HIDE DEF n
      <4> QED BY <1>5, <2>2, <2>7
    <3> QED BY <3>1, <3>3, <3>4
  <2>10. Faithful(slots, q)'
    <3> DEFINE id == nextId + i - 1
    <3>1. i \in DOMAIN Body(p).decls
      BY <2>7
    <3> HIDE DEF id
    <3>2. Faithful(slots', q)
      BY <1>1, <2>3, <2>8, <3>1, NewIsFaithful DEF id
    <3>3. Siblings(q)' = Siblings(q) /\ Written(q)' = Written(q) /\ Body(q)' = Body(q)
      BY <1>2, TextSame
    <3>4. ~ slots'[q].resolved
      BY <2>8 DEF NewSlot
    <3> QED BY <3>2, <3>3, <3>4 DEF Faithful, AsWritten, AsGrown
  <2> QED BY <2>10
<1> QED BY <1>7, <1>8, <1>9

\* A replay sets hints only where the program hints by handles.
LEMMA TextReplay ==
  ASSUME ReplayInv, TextInv, phase = "walk", NEW o \in Performances(slots[Here].code), Replay(o)
  PROVE  TextInv'
<1>0. PICK p : p = Here
  OBVIOUS
<1>1. /\ p \in DOMAIN slots /\ p \in Path /\ p # <<>> /\ slots \in [DOMAIN slots -> Slot]
      /\ o.decls \in Seq(Declaration) /\ guest \in Guests
  <2>1. depth > 0 /\ Perform(Here, o) /\ TypeInv
    BY DEF Replay, ReplayInv
  <2> QED BY <1>0, <2>1, WhereItIs, BodySteps DEF Tree
<1>2. /\ guest' = guest /\ ran' = ran /\ Perform(p, o) /\ slots' = HandleHints(p, o.decls)
  BY <1>0 DEF Replay, GiveUp
<1>3. wayward \subseteq wayward'
  BY <1>2, PerformStrays
<1> SUFFICES ASSUME NEW q \in DOMAIN slots', q # <<>>, ~ Apart(q)', Sound(q)'
             PROVE  Faithful(slots, q)'
  BY <1>2, <1>3, TextKept, ApartInWalk
<1> DEFINE e == \E i \in DOMAIN o.decls : q = Append(p, i) /\ o.decls[i].handle
           f == q = p /\ depth = 1 /\ Body(slots[p].code).hint
<1>4. q \in DOMAIN slots /\ slots'[q] = [slots[q] EXCEPT !.hinted = slots[q].hinted \/ e \/ f]
  BY <1>2 DEF HandleHints
<1>5. ~ Apart(q) /\ Sound(q)
  BY <1>2, <1>3, ApartInWalk, SoundBefore
<1>6. Faithful(slots, q)
  BY <1>4, <1>5 DEF TextInv
<1>7. ~ e
  <2> SUFFICES ASSUME NEW i \in DOMAIN o.decls, q = Append(p, i), o.decls[i].handle
               PROVE  FALSE
    OBVIOUS
  <2>1. i \in Nat
    BY <1>1
  <2>2. Faithful(slots, p) /\ ~ Straying(p) /\ p \notin wayward'
    BY <1>1, <1>2, <1>3, <1>5, <2>1, ParentIsFaithful
  <2>3. slots[p].code = p
    BY <2>2 DEF Faithful, AsWritten
  <2>4. p \in wayward' \/ Undeclared(p)
    BY <1>0, <1>1, <1>2, <2>3, HandlesAreDeclared
  <2> QED BY <2>2, <2>4 DEF Straying
<1>8. ~ Body(q).hint => ~ f
  BY <1>6 DEF Faithful, AsWritten
<1> HIDE DEF e, f
<1>9. /\ slots'[q].code = slots[q].code /\ slots'[q].kind = slots[q].kind
      /\ slots'[q].base = slots[q].base /\ slots'[q].only = slots[q].only
      /\ slots'[q].resolved = slots[q].resolved /\ slots'[q].count = slots[q].count
      /\ slots'[q].mode = slots[q].mode /\ slots'[q].hooks = slots[q].hooks
      /\ slots'[q].hinted = (slots[q].hinted \/ e \/ f) /\ slots[q].hinted \in BOOLEAN
  BY <1>1, <1>4 DEF Slot
<1> QED BY <1>2, <1>3, <1>6, <1>7, <1>8, <1>9, FaithfulStays

\* A run of a top-level node sets what is below it apart; below, it leaves hints only.
LEMMA TextRun ==
  ASSUME ReplayInv, TextInv, phase = "walk", NEW o \in Performances(slots[Here].code), RunTarget(o)
  PROVE  TextInv'
<1>0. PICK p : p = Here
  OBVIOUS
<1>1. /\ p \in DOMAIN slots /\ p \in Path /\ p # <<>> /\ slots \in [DOMAIN slots -> Slot]
      /\ o.decls \in Seq(Declaration) /\ guest \in Guests /\ Tree(slots) /\ nextId \in Nat
      /\ p = call.path /\ Len(p) = depth
  <2>1. depth > 0 /\ Perform(Here, o) /\ TypeInv /\ depth = Len(call.path)
    BY DEF RunTarget, AtTarget, ReplayInv
  <2> QED BY <1>0, <2>1, WhereItIs, BodySteps DEF Tree
<1>2. /\ guest' = guest /\ ran' = ran /\ Perform(p, o) /\ call' = call /\ phase' = "return"
      /\ call = [op |-> "run", path |-> p]
      /\ slots' = IF depth = 1 THEN OnDurable(p, o.decls) ELSE OnCopy(p)
  <2>1. call = [op |-> call.op, path |-> call.path] /\ call.op = "run"
    BY DEF RunTarget, AtTarget, ReplayInv, TypeInv
  <2> QED BY <1>0, <1>1, <2>1 DEF RunTarget, Answer
<1>3. wayward \subseteq wayward'
  BY <1>2, PerformStrays
<1> SUFFICES ASSUME NEW q \in DOMAIN slots', q # <<>>, ~ Apart(q)', Sound(q)'
             PROVE  (q \in DOMAIN slots /\ slots'[q] = slots[q]) \/ Faithful(slots, q)'
  BY <1>2, <1>3, TextKept, ApartInWalk
<1>5. ~ Apart(q) /\ Sound(q)
  BY <1>2, <1>3, ApartInWalk, SoundBefore
<1>6. CASE depth = 1
  <2>1. p = <<p[1]>>
    BY <1>1, <1>6 DEF Path
  <2>2. q[1] # p[1]
    BY <1>2, <2>1 DEF Apart
  <2> DEFINE T == OnDurable(p, o.decls)
             n == slots[p].count
  <2>3. Made(slots, T, p, o.decls)
    <3> HIDE DEF T
    <3>1. T = OnDurable(p, o.decls)
      BY DEF T
    <3> QED BY <1>1, <3>1, DurableMade
  <2>4. slots' = T
    BY <1>2, <1>6
  <2> HIDE DEF T
  <2>5. \A i \in DOMAIN o.decls : Append(p, n + i) # q
    <3> TAKE i \in DOMAIN o.decls
    <3>1. n + i \in Nat
      BY <1>1 DEF Slot
    <3> HIDE DEF n
    <3>2. Append(p, n + i)[1] = p[1]
      BY <1>1, <3>1, ChildText
    <3> QED BY <2>2, <3>2
  <2> QED BY <2>2, <2>3, <2>4, <2>5 DEF Made
<1>7. CASE depth # 1
  <2>1. slots' = OnCopy(p)
    BY <1>2, <1>7
  <2>2. DOMAIN slots' = DOMAIN slots /\ (q # p => slots'[q] = slots[q])
    BY <2>1 DEF OnCopy
  <2>3. CASE q = p
    <3> DEFINE h == Body(slots[p].code).hint
    <3>1. Faithful(slots, p)
      BY <1>1, <1>5, <2>3 DEF TextInv
    <3>2. slots'[p] = [slots[p] EXCEPT !.hinted = slots[p].hinted \/ h]
      BY <1>1, <2>1 DEF OnCopy
    <3>3. ~ Body(p).hint => ~ h
      BY <3>1 DEF Faithful, AsWritten
    <3> HIDE DEF h
    <3>4. /\ slots'[p].code = slots[p].code /\ slots'[p].kind = slots[p].kind
          /\ slots'[p].base = slots[p].base /\ slots'[p].only = slots[p].only
          /\ slots'[p].resolved = slots[p].resolved /\ slots'[p].count = slots[p].count
          /\ slots'[p].mode = slots[p].mode /\ slots'[p].hooks = slots[p].hooks
          /\ slots'[p].hinted = (slots[p].hinted \/ h) /\ slots[p].hinted \in BOOLEAN
      BY <1>1, <3>2 DEF Slot
    <3> QED BY <1>2, <1>3, <2>3, <3>1, <3>3, <3>4, FaithfulStays
  <2> QED BY <2>2, <2>3
<1> QED BY <1>6, <1>7

\* The top-level nodes are as written, whatever ran.
LEMMA RootKept ==
  ASSUME RootInv, guest' = guest, <<>> \in DOMAIN slots', slots'[<<>>] = slots[<<>>],
         \A i \in DOMAIN Body(<<>>).decls :
           /\ <<i>> \in DOMAIN slots'
           /\ slots'[<<i>>] = slots[<<i>>] \/ AsWritten(slots, <<i>>)'
  PROVE  RootInv'
<1>1. Body(<<>>)' = Body(<<>>)
  BY TextSame
<1>2. ASSUME NEW p, slots'[p] = slots[p], AsWritten(slots, p)
      PROVE  AsWritten(slots, p)'
  <2>1. Body(p)' = Body(p) /\ Siblings(p)' = Siblings(p) /\ Written(p)' = Written(p)
    BY TextSame
  <2> QED BY <1>2, <2>1 DEF AsWritten
<1> QED BY <1>1, <1>2 DEF RootInv

\* An ordinal is a path of its own, and no longer than any other.
LEMMA TopPath ==
  ASSUME NEW p \in Path, p # <<>>, NEW i \in Nat
  PROVE  /\ <<i>> \in Path /\ <<i>> # <<>> /\ Len(<<i>>) = 1 /\ <<i>> = Append(<<>>, i)
         /\ ~ Under(p, <<i>>) /\ ~ Under(p, <<>>) /\ <<>> \in Path
         /\ \A j \in Nat : Append(p, j) # <<i>> /\ Append(p, j) # <<>>
<1>1. <<i>> \in Path /\ <<i>> # <<>> /\ Len(<<i>>) = 1 /\ <<i>> = Append(<<>>, i) /\ <<>> \in Path
  BY DEF Path
<1>2. Len(p) \in Nat /\ Len(p) # 0
  BY DEF Path
<1>3. ~ Under(p, <<i>>) /\ ~ Under(p, <<>>)
  BY <1>1, <1>2 DEF Under
<1>4. \A j \in Nat : Len(Append(p, j)) = Len(p) + 1 /\ Append(p, j) # <<>>
  BY Appended
<1> QED BY <1>1, <1>2, <1>3, <1>4

\* A body below the root changes of the top-level nodes only its own.
LEMMA RootAfter ==
  ASSUME ReplayInv, RootInv, guest' = guest, NEW p \in DOMAIN slots, p # <<>>,
         <<>> \in DOMAIN slots', slots'[<<>>] = slots[<<>>],
         \A i \in Nat : <<i>> \in DOMAIN slots =>
           /\ <<i>> \in DOMAIN slots'
           /\ <<i>> # p => slots'[<<i>>] = slots[<<i>>],
         AsWritten(slots, p) => AsWritten(slots, p)'
  PROVE  RootInv'
<1>1. \A i \in DOMAIN Body(<<>>).decls : i \in Nat
  BY BodyIsBody DEF IsBody, ReplayInv, TypeInv
<1> QED BY <1>1, RootKept DEF RootInv

\* What a body that runs on the durable node p does of the top-level nodes.
LEMMA RootDurable ==
  ASSUME ReplayInv, RootInv, guest' = guest, NEW p \in DOMAIN slots, p # <<>>,
         NEW ds \in Seq(Declaration), NEW T, T = OnDurable(p, ds),
         \/ slots' = T \/ slots' = [T EXCEPT ![p].resolved = TRUE]
         \/ slots' = ResetUnresolved(T, p)
  PROVE  RootInv'
<1> DEFINE m == Len(ds)
           s == AfterBody(slots[p], Body(p), m)
<1>1. Tree(slots) /\ guest \in Guests /\ nextId \in Nat /\ p \in Path /\ slots[p] \in Slot
      /\ m \in Nat
  BY DEF ReplayInv, TypeInv, Tree
<1>2. Made(slots, T, p, ds) /\ (slots[p].code = p => T[p] = AfterBody(slots[p], Body(p), Len(ds)))
  BY <1>1, DurableMade
<1>3. /\ DOMAIN slots \subseteq DOMAIN T
      /\ \A q \in DOMAIN slots : q # p => T[q] = slots[q]
  BY <1>2 DEF Made
<1>4. AsWritten(slots, p) => T[p] = s
  BY <1>2 DEF AsWritten
<1>5. /\ DOMAIN slots' \subseteq DOMAIN T
      /\ \A q \in DOMAIN slots : ~ Under(p, q) => q \in DOMAIN slots'
      /\ \A q \in DOMAIN slots' : q # p => slots'[q] = T[q]
      /\ p \in DOMAIN slots' => slots'[p] \in {T[p], Taken(T[p]), Discarded(T[p])}
  BY <1>3 DEF ResetUnresolved, Taken, Discarded
<1>6. ~ Under(p, p)
  BY <1>1 DEF Under, Path
<1>7. AsWritten(slots, p) => AsWritten(slots, p)'
  <2> SUFFICES ASSUME AsWritten(slots, p) PROVE AsWritten(slots, p)'
    OBVIOUS
  <2>1. slots'[p] \in {s, Taken(s), Discarded(s)}
    BY <1>4, <1>5, <1>6
  <2> HIDE DEF s, m
  <2>2. s = AfterBody(slots[p], Body(p), m)
    BY DEF s
  <2> QED BY <1>1, <2>1, <2>2, WrittenAfter
<1>8. <<>> \in DOMAIN slots' /\ slots'[<<>>] = slots[<<>>]
  <2>1. ~ Under(p, <<>>) /\ <<>> \in DOMAIN slots
    BY <1>1, TopPath DEF Tree
  <2> QED BY <1>3, <1>5, <2>1
<1>9. ASSUME NEW i \in Nat, <<i>> \in DOMAIN slots
      PROVE  <<i>> \in DOMAIN slots' /\ (<<i>> # p => slots'[<<i>>] = slots[<<i>>])
  <2>1. ~ Under(p, <<i>>)
    BY <1>1, TopPath
  <2> QED BY <1>3, <1>5, <1>9, <2>1
<1> QED BY <1>7, <1>8, <1>9, RootAfter

\* Neither a replay
LEMMA RootReplay ==
  ASSUME ReplayInv, RootInv, phase = "walk", NEW o \in Performances(slots[Here].code), Replay(o)
  PROVE  RootInv'
<1>0. PICK p : p = Here
  OBVIOUS
<1>1. /\ p \in DOMAIN slots /\ p \in Path /\ p # <<>> /\ slots \in [DOMAIN slots -> Slot]
      /\ o.decls \in Seq(Declaration) /\ <<>> \in DOMAIN slots
  <2>1. depth > 0 /\ Perform(Here, o) /\ TypeInv
    BY DEF Replay, ReplayInv
  <2> QED BY <1>0, <2>1, WhereItIs, BodySteps DEF Tree
<1>2. /\ guest' = guest /\ slots' = HandleHints(p, o.decls)
  BY <1>0 DEF Replay, GiveUp
<1> DEFINE e(q) == \E i \in DOMAIN o.decls : q = Append(p, i) /\ o.decls[i].handle
           f(q) == q = p /\ depth = 1 /\ Body(slots[p].code).hint
<1>3. /\ DOMAIN slots' = DOMAIN slots
      /\ \A q \in DOMAIN slots :
           slots'[q] = [slots[q] EXCEPT !.hinted = slots[q].hinted \/ e(q) \/ f(q)]
  BY <1>2 DEF HandleHints
<1>4. \A i \in DOMAIN o.decls : i \in Nat
  BY <1>1
<1>5. ~ e(<<>>) /\ ~ f(<<>>) /\ \A i \in Nat : ~ e(<<i>>)
  BY <1>1, <1>4, TopPath
<1>6. AsWritten(slots, p) /\ ~ Body(p).hint => ~ f(p)
  BY DEF AsWritten
<1>7. \A q : q # p => ~ f(q)
  OBVIOUS
<1> HIDE DEF e, f
<1>8. \A q \in DOMAIN slots :
        /\ slots'[q].code = slots[q].code /\ slots'[q].kind = slots[q].kind
        /\ slots'[q].base = slots[q].base /\ slots'[q].only = slots[q].only
        /\ slots'[q].mode = slots[q].mode
        /\ slots'[q].hinted = (slots[q].hinted \/ e(q) \/ f(q)) /\ slots[q].hinted \in BOOLEAN
  BY <1>1, <1>3, SMTT(30) DEF Slot
<1>9. ASSUME NEW q \in DOMAIN slots, ~ e(q), ~ Body(q).hint => ~ f(q), AsWritten(slots, q)
      PROVE  AsWritten(slots, q)'
  <2>1. Body(q)' = Body(q) /\ Siblings(q)' = Siblings(q) /\ Written(q)' = Written(q)
    BY <1>2, TextSame
  <2> QED BY <1>8, <1>9, <2>1 DEF AsWritten
<1>10. slots'[<<>>] = slots[<<>>]
  <2>1. slots'[<<>>] = [slots[<<>>] EXCEPT !.hinted = slots[<<>>].hinted] /\ slots[<<>>] \in Slot
    BY <1>1, <1>3, <1>5, <1>8
  <2> QED BY <2>1 DEF Slot
<1>11. \A i \in DOMAIN Body(<<>>).decls : i \in Nat
  BY BodyIsBody DEF IsBody, ReplayInv, TypeInv
<1>12. ASSUME NEW i \in DOMAIN Body(<<>>).decls
       PROVE  <<i>> \in DOMAIN slots' /\ AsWritten(slots, <<i>>)'
  <2>1. <<i>> \in DOMAIN slots /\ AsWritten(slots, <<i>>) /\ ~ e(<<i>>)
    BY <1>5, <1>11 DEF RootInv
  <2>2. ~ Body(<<i>>).hint => ~ f(<<i>>)
    BY <1>6, <1>7, <2>1
  <2> QED BY <1>3, <1>9, <2>1, <2>2
<1> QED BY <1>1, <1>2, <1>3, <1>10, <1>12, RootKept

\* nor a run
LEMMA RootRun ==
  ASSUME ReplayInv, RootInv, phase = "walk", NEW o \in Performances(slots[Here].code), RunTarget(o)
  PROVE  RootInv'
<1>0. PICK p : p = Here
  OBVIOUS
<1>1. /\ p \in DOMAIN slots /\ p \in Path /\ p # <<>> /\ slots \in [DOMAIN slots -> Slot]
      /\ o.decls \in Seq(Declaration) /\ <<>> \in DOMAIN slots /\ Len(p) = depth
  <2>1. depth > 0 /\ Perform(Here, o) /\ TypeInv
    BY DEF RunTarget, ReplayInv
  <2> QED BY <1>0, <2>1, WhereItIs, BodySteps DEF Tree
<1>2. /\ guest' = guest /\ slots' = IF depth = 1 THEN OnDurable(p, o.decls) ELSE OnCopy(p)
  BY <1>0 DEF RunTarget
<1>3. CASE depth = 1
  <2>1. slots' = OnDurable(p, o.decls)
    BY <1>2, <1>3
  <2> QED BY <1>1, <1>2, <2>1, RootDurable
<1>4. CASE depth # 1
  <2>1. DOMAIN slots' = DOMAIN slots /\ \A q \in DOMAIN slots : q # p => slots'[q] = slots[q]
    BY <1>2, <1>4 DEF OnCopy
  <2>2. \A i \in Nat : <<i>> # p
    BY <1>1, <1>4
  <2>3. \A i \in DOMAIN Body(<<>>).decls : i \in Nat
    BY BodyIsBody DEF IsBody, ReplayInv, TypeInv
  <2> QED BY <1>1, <1>2, <2>1, <2>2, <2>3, RootKept DEF RootInv
<1> QED BY <1>3, <1>4

\* nor a first resolution changes what is written of them.
LEMMA RootFirst ==
  ASSUME ReplayInv, RootInv, phase = "walk", NEW o \in Performances(slots[Here].code),
         ResolveFirst(o)
  PROVE  RootInv'
<1>0. PICK p : p = Here
  OBVIOUS
<1>1. p \in DOMAIN slots /\ p # <<>> /\ o.decls \in Seq(Declaration)
  <2>1. depth > 0 /\ Perform(Here, o) /\ TypeInv
    BY DEF ResolveFirst, ReplayInv
  <2> QED BY <1>0, <2>1, WhereItIs, BodySteps DEF Tree
<1> DEFINE T == OnDurable(p, o.decls)
<1>2. /\ guest' = guest
      /\ slots' = ResetUnresolved(T, p) \/ slots' = [T EXCEPT ![p].resolved = TRUE]
  BY <1>0 DEF ResolveFirst
<1>3. T = OnDurable(p, o.decls)
  OBVIOUS
<1> HIDE DEF T
<1> QED BY <1>1, <1>2, <1>3, RootDurable

\* A fresh instance is as written.
LEMMA InitText ==
  ASSUME Init
  PROVE  TextInv /\ RootInv
<1> DEFINE ds == guest[<<>>].decls
           suite == [kind |-> "suite", mode |-> "normal", only |-> FALSE, handle |-> FALSE]
           bare == NewSlot(<<>>, 0, suite)
           root == [bare EXCEPT !.resolved = TRUE, !.hooks = guest[<<>>].hooks, !.count = Len(ds)]
           nodes == {<<>>} \cup {<<i>> : i \in DOMAIN ds}
<1>1. /\ guest \in Guests /\ DOMAIN slots = nodes
      /\ slots = [p \in nodes |-> IF p = <<>> THEN root ELSE NewSlot(p, p[1], ds[p[1]])]
  BY DEF Init
<1>2. Body(<<>>) = guest[<<>>] /\ ds \in Seq(Declaration) /\ Len(ds) \in Nat
  BY <1>1, GuestAssumption DEF Body, IsBody
<1>3. slots[<<>>].count = Len(Body(<<>>).decls) /\ slots[<<>>].hooks = Body(<<>>).hooks
  <2>1. slots[<<>>] = root
    BY <1>1
  <2>2. root.count = Len(ds) /\ root.hooks = guest[<<>>].hooks
    <3> DEFINE n == Len(ds)
               k == guest[<<>>].hooks
    <3> HIDE DEF n, k
    <3> QED BY DEF NewSlot
  <2> QED BY <1>2, <2>1, <2>2
<1>4. ASSUME NEW i \in DOMAIN ds
      PROVE  <<i>> \in DOMAIN slots /\ Faithful(slots, <<i>>)
  <2>1. i \in Nat
    BY <1>2
  <2>2. <<i>> \in DOMAIN slots /\ <<i>> # <<>> /\ <<i>> = Append(<<>>, i) /\ <<>> \in Path
    BY <1>1, <2>1 DEF Path
  <2>3. slots[<<i>>] = NewSlot(<<i>>, i, ds[i])
    BY <1>1, <2>2
  <2> DEFINE q == <<i>>
  <2>4. slots[q] = NewSlot(q, i, Body(<<>>).decls[i]) /\ i \in DOMAIN Body(<<>>).decls
    BY <1>2, <2>3
  <2> HIDE DEF q, ds, nodes
  <2>5. q = Append(<<>>, i)
    BY <2>2 DEF q
  <2>6. Faithful(slots, q)
    BY <2>1, <2>2, <2>4, <2>5, NewIsFaithful
  <2> QED BY <2>2, <2>6 DEF q
<1>5. TextInv
  <2> SUFFICES ASSUME NEW p \in DOMAIN slots, p # <<>> PROVE Faithful(slots, p)
    BY DEF TextInv
  <2>1. PICK i \in DOMAIN ds : p = <<i>>
    BY <1>1
  <2> QED BY <1>4, <2>1
<1>6. RootInv
  BY <1>2, <1>3, <1>4 DEF RootInv, Faithful
<1> QED BY <1>5, <1>6

\* Steps that leave the durable nodes alone.
LEMMA TextOfSame ==
  ASSUME ReplayInv, TextInv, RootInv, UNCHANGED <<guest, slots, wayward>>,
         \A p : ~ Apart(p)' => ~ Apart(p)
  PROVE  TextInv' /\ RootInv'
<1>1. TextInv'
  BY TextUnchanged
<1>2. <<>> \in DOMAIN slots
  BY DEF ReplayInv, TypeInv, Tree
<1>3. RootInv'
  BY <1>2, RootKept DEF RootInv
<1> QED BY <1>1, <1>3

\* Every step keeps the durable nodes as they are written.
LEMMA TextStep ==
  ASSUME ReplayInv, TextInv, RootInv, [Next]_vars
  PROVE  TextInv' /\ RootInv'
<1>1. ASSUME NEW op \in {"discover", "run"}, NEW p \in CallPaths, HostCall(op, p)
      PROVE  TextInv' /\ RootInv'
  <2>1. /\ UNCHANGED <<guest, slots, wayward, ran>> /\ phase = "idle" /\ phase' = "walk"
    BY <1>1 DEF HostCall, history
  <2>2. \A q : ~ Apart(q)' => ~ Apart(q)
    BY <2>1 DEF Apart
  <2> QED BY <2>1, <2>2, TextOfSame
<1>2. CASE EnterRoot \/ StopAtSkipped \/ RunSuppressed \/ RunRoot
  <2>1. UNCHANGED <<guest, slots, wayward, ran>> /\ phase = "walk"
    BY <1>2 DEF EnterRoot, StopAtSkipped, RunSuppressed, RunRoot, NeedsChildren, AtTarget, history
  <2> QED BY <2>1, ApartInWalk, TextOfSame
<1>3. ASSUME phase = "walk", NEW o \in Performances(slots[Here].code), ResolveFirst(o)
      PROVE  TextInv' /\ RootInv'
  BY <1>3, TextFirst, RootFirst
<1>4. ASSUME phase = "walk", NEW o \in Performances(slots[Here].code), Replay(o)
      PROVE  TextInv' /\ RootInv'
  BY <1>4, TextReplay, RootReplay
<1>5. ASSUME phase = "walk", NEW o \in Performances(slots[Here].code), RunTarget(o)
      PROVE  TextInv' /\ RootInv'
  BY <1>5, TextRun, RootRun
<1>6. CASE Return
  <2>1. /\ UNCHANGED <<guest, slots, wayward>> /\ phase = "return" /\ phase' = "idle"
        /\ ran' = IF call.op = "run" /\ Len(call.path) = 1 THEN ran \cup {call.path} ELSE ran
    BY <1>6 DEF Return
  <2>2. ASSUME NEW q, ~ Apart(q)' PROVE ~ Apart(q)
    <3>1. <<q[1]>> \notin ran'
      BY <2>2 DEF Apart
    <3>2. call = [op |-> "run", path |-> <<q[1]>>] => call.path \in ran'
      BY <2>1
    <3> QED BY <2>1, <3>1, <3>2 DEF Apart
  <2> QED BY <2>1, <2>2, TextOfSame
<1>7. CASE UNCHANGED vars
  <2>1. UNCHANGED <<guest, slots, wayward, ran, phase, call>>
    BY <1>7 DEF vars, walkVars, history
  <2>2. \A q : ~ Apart(q)' => ~ Apart(q)
    BY <2>1 DEF Apart
  <2> QED BY <2>1, <2>2, TextOfSame
<1> QED BY <1>1, <1>2, <1>3, <1>4, <1>5, <1>6, <1>7 DEF Next

-----------------------------------------------------------------------------
(***************************************************************************)
(* The way of a call through them, and its answer.                         *)
(***************************************************************************)

\* The children of p are those that the program declares, and as visible.
Counts(S, p) ==
  /\ S[p].count = Len(Body(p).decls)
  /\ \A i \in DOMAIN Body(p).decls : S[Append(p, i)].only = Body(p).decls[i].only

\* What an answer tells of them is what the program declares.
Tells(S, p) ==
  \A i \in DOMAIN Body(p).decls :
    /\ S[Append(p, i)].base = Body(p).decls[i].mode
    /\ S[Append(p, i)].hinted = Body(p).decls[i].handle
    /\ p = <<>> => S[Append(p, i)].mode = Body(p).decls[i].mode

\* What is reachable is reached through what is.
LEMMA PrefixReachable ==
  ASSUME NEW p \in Path, Reachable(p), NEW k \in 0..Len(p)
  PROVE  /\ Reachable(SubSeq(p, 1, k))
         /\ k \in 1..(Len(p) - 1) => Written(SubSeq(p, 1, k)).mode # "skip"
<1> DEFINE q == SubSeq(p, 1, k)
<1>1. Len(p) \in Nat /\ k \in Nat /\ k <= Len(p) /\ Len(q) = k
  BY DEF Path
<1>2. \A j \in 1..k : SubSeq(q, 1, j) = SubSeq(p, 1, j) /\ j \in 1..Len(p)
  BY <1>1 DEF Path
<1>3. \A j \in 1..Len(p) :
        LET r == SubSeq(p, 1, j)
        IN  /\ r[j] \in DOMAIN Siblings(r)
            /\ Written(r).only \/ \A i \in DOMAIN Siblings(r) : ~ Siblings(r)[i].only
            /\ j < Len(p) => Written(r).mode # "skip"
  BY DEF Reachable
<1> HIDE DEF q
<1>4. Reachable(q)
  <2> SUFFICES ASSUME NEW j \in 1..Len(q)
               PROVE  LET r == SubSeq(q, 1, j)
                      IN  /\ r[j] \in DOMAIN Siblings(r)
                          /\ Written(r).only \/ \A i \in DOMAIN Siblings(r) : ~ Siblings(r)[i].only
                          /\ j < Len(q) => Written(r).mode # "skip"
    BY DEF Reachable
  <2>1. SubSeq(q, 1, j) = SubSeq(p, 1, j) /\ j \in 1..Len(p) /\ (j < Len(q) => j < Len(p))
    BY <1>1, <1>2
  <2> QED BY <1>3, <2>1
<1>5. k \in 1..(Len(p) - 1) => Written(q).mode # "skip"
  <2>1. k \in 1..(Len(p) - 1) => k \in 1..Len(p) /\ k < Len(p)
    BY <1>1
  <2> QED BY <1>3, <2>1 DEF q
<1> QED BY <1>4, <1>5 DEF q

\* A child is visible just when the program can reach it.
LEMMA VisibleIsReachable ==
  ASSUME NEW S, NEW p \in Path, NEW i \in Nat, guest \in Guests, Counts(S, p), Reachable(p),
         p # <<>> => Written(p).mode # "skip"
  PROVE  Visible(S, p, i) <=> Reachable(Append(p, i))
<1> DEFINE d == Body(p).decls
           q == Append(p, i)
<1>1. d \in Seq(Declaration) /\ DOMAIN d = 1..Len(d) /\ S[p].count = Len(d)
  BY BodyIsBody DEF IsBody, Counts
<1>2. /\ Len(q) = Len(p) + 1 /\ Len(p) \in Nat /\ q \in Path
      /\ Siblings(q) = d /\ Written(q) = d[i] /\ q[Len(q)] = i
  BY Appended, ChildText
<1>3. /\ \A k \in 0..Len(p) : SubSeq(q, 1, k) = SubSeq(p, 1, k)
      /\ SubSeq(q, 1, Len(q)) = q /\ SubSeq(p, 1, Len(p)) = p /\ (p = <<>> <=> Len(p) = 0)
  <2>1. \A k \in 0..Len(p) : SubSeq(q, 1, k) = SubSeq(p, 1, k)
    BY PrefixOfAppended
  <2>2. SubSeq(q, 1, Len(q)) = q /\ SubSeq(p, 1, Len(p)) = p /\ (p = <<>> <=> Len(p) = 0)
    BY <1>2 DEF Path
  <2> QED BY <2>1, <2>2
<1> DEFINE seen == i \in DOMAIN d /\ (d[i].only \/ \A j \in DOMAIN d : ~ d[j].only)
<1>4. Visible(S, p, i) <=> seen
  <2> HIDE DEF d
  <2> QED BY <1>1 DEF Visible, Children, Counts, d
<1>5. Reachable(q) => seen
  <2> SUFFICES ASSUME Reachable(q) PROVE seen
    OBVIOUS
  <2>1. Len(q) \in 1..Len(q)
    BY <1>2
  <2> HIDE DEF q, d
  <2> QED BY <1>2, <1>3, <2>1 DEF Reachable
<1>6. seen => Reachable(q)
  <2> SUFFICES ASSUME seen, NEW k \in 1..Len(q)
               PROVE  LET r == SubSeq(q, 1, k)
                      IN  /\ r[k] \in DOMAIN Siblings(r)
                          /\ Written(r).only \/ \A j \in DOMAIN Siblings(r) : ~ Siblings(r)[j].only
                          /\ k < Len(q) => Written(r).mode # "skip"
    BY DEF Reachable
  <2> HIDE DEF q, d
  <2>1. CASE k = Len(q)
    <3>1. SubSeq(q, 1, k) = q /\ q[k] = i /\ ~ (k < Len(q))
      BY <1>2, <1>3, <2>1
    <3> QED BY <1>2, <3>1
  <2>2. CASE k # Len(q)
    <3>1. k \in 1..Len(p) /\ k \in 0..Len(p) /\ (k # Len(p) => k < Len(p))
      BY <1>2, <2>2
    <3>2. SubSeq(q, 1, k) = SubSeq(p, 1, k)
      BY <1>3, <3>1
    <3>3. LET r == SubSeq(p, 1, k)
          IN  /\ r[k] \in DOMAIN Siblings(r)
              /\ Written(r).only \/ \A j \in DOMAIN Siblings(r) : ~ Siblings(r)[j].only
              /\ k < Len(p) => Written(r).mode # "skip"
      BY <3>1 DEF Reachable
    <3>4. k = Len(p) => Written(SubSeq(p, 1, k)).mode # "skip"
      <4>1. p # <<>>
        <5>1. Len(p) # 0
          BY <1>2, <3>1
        <5> QED BY <5>1
      <4> QED BY <1>3, <4>1
    <3> QED BY <3>1, <3>2, <3>3, <3>4
  <2> QED BY <2>1, <2>2
<1> QED BY <1>4, <1>5, <1>6

\* Reports without their ids.
Bare(F) == {[path |-> r.path, mode |-> r.mode, hinted |-> r.hinted] : r \in F}

\* An answer without its ids.
LEMMA BareAnswer ==
  ASSUME NEW ok, NEW F, NEW hooks
  PROVE  WithoutIds([ok |-> ok, found |-> F, hooks |-> hooks])
           = [ok |-> ok, found |-> Bare(F), hooks |-> hooks]
BY DEF WithoutIds, Bare

\* A path that the program cannot reach is refused from the first.
LEMMA RefusedIsFresh ==
  ASSUME ~ Reachable(call.path)
  PROVE  WithoutIds(Refused) = Fresh(call)
<1>1. Bare({}) = {}
  BY DEF Bare
<1>2. WithoutIds(Refused) = Refused
  <2> DEFINE none == {}
             empty == <<>>
  <2>1. Refused = [ok |-> FALSE, found |-> none, hooks |-> empty]
    BY DEF Refused
  <2> HIDE DEF none, empty
  <2>2. WithoutIds(Refused) = [ok |-> FALSE, found |-> Bare(none), hooks |-> empty]
    BY <2>1, BareAnswer
  <2> QED BY <1>1, <2>1, <2>2 DEF none
<1> QED BY <1>2 DEF Fresh

\* What discover tells of the children.
LEMMA BareChildren ==
  ASSUME NEW S, NEW p \in Path, guest \in Guests, Counts(S, p), Tells(S, p), Reachable(p),
         p # <<>> => Written(p).mode # "skip"
  PROVE  Bare(ReportChildren(S, p))
           = {Plain(q) : q \in {b \in {Append(p, i) : i \in DOMAIN Body(p).decls} : Reachable(b)}}
<1> DEFINE d == Body(p).decls
           told(i) == Plain(Append(p, i))
           m(c) == IF p = <<>> THEN S[c].mode ELSE S[c].base
           seen == {i \in DOMAIN d : Reachable(Append(p, i))}
<1>1. d \in Seq(Declaration) /\ DOMAIN d = 1..Len(d) /\ S[p].count = Len(d)
  BY BodyIsBody DEF IsBody, Counts
<1>2. \A i \in DOMAIN d : i \in Nat
  BY <1>1
<1>3. seen = {j \in 1..S[p].count : Visible(S, p, j)}
  <2>1. \A i \in DOMAIN d : Visible(S, p, i) <=> Reachable(Append(p, i))
    BY <1>2, VisibleIsReachable
  <2> HIDE DEF d
  <2> QED BY <1>1, <2>1
<1>4. {Plain(q) : q \in {b \in {Append(p, i) : i \in DOMAIN d} : Reachable(b)}}
        = {told(i) : i \in seen}
  <2> HIDE DEF d
  <2> QED OBVIOUS
<1>5. ReportChildren(S, p)
        = {Report(Append(p, i), S, m(Append(p, i)), S[Append(p, i)].hinted) : i \in seen}
  <2> HIDE DEF seen
  <2> QED BY <1>3 DEF ReportChildren
<1>6. ASSUME NEW i \in seen
      PROVE  LET c == Append(p, i)
                 r == Report(c, S, m(c), S[c].hinted)
             IN  [path |-> r.path, mode |-> r.mode, hinted |-> r.hinted] = told(i)
  <2> DEFINE c == Append(p, i)
             h == S[c].hinted
             x == m(c)
  <2>1. Written(c) = d[i] /\ i \in DOMAIN d
    BY <1>2, ChildText
  <2>2. x = d[i].mode /\ h = d[i].handle
    BY <2>1 DEF Tells
  <2> HIDE DEF x, h, c
  <2>3. Report(c, S, x, h).path = c /\ Report(c, S, x, h).mode = x /\ Report(c, S, x, h).hinted = h
    BY DEF Report
  <2>4. Plain(c) = [path |-> c, mode |-> x, hinted |-> h]
    BY <2>1, <2>2 DEF Plain
  <2> QED BY <2>3, <2>4 DEF x, h, c
<1>7. Bare(ReportChildren(S, p)) = {told(i) : i \in seen}
  <2> DEFINE r(i) == Report(Append(p, i), S, m(Append(p, i)), S[Append(p, i)].hinted)
             bare(z) == [path |-> z.path, mode |-> z.mode, hinted |-> z.hinted]
  <2>1. \A i \in seen : bare(r(i)) = told(i)
    BY <1>6
  <2>2. ReportChildren(S, p) = {r(i) : i \in seen}
    BY <1>5
  <2> HIDE DEF seen, r, told
  <2>3. Bare({r(i) : i \in seen}) = {bare(r(i)) : i \in seen}
    BY DEF Bare
  <2> HIDE DEF bare
  <2> QED BY <2>1, <2>2, <2>3
<1> QED BY <1>4, <1>7

\* From a node whose children are what the program declares, the walk goes on
\* to what is reachable, or the call is answered as if it were the first.
LEMMA ContinueAgrees ==
  ASSUME TypeInv, phase = "walk", call' = call, call.op = "discover" \/ depth < Len(call.path),
         NEW S, NEW self, Continue(S, self), NEW p, p = Here, Counts(S, p), Reachable(p),
         p # <<>> => Written(p).mode # "skip",
         depth = Len(call.path) => Tells(S, p) /\ Bare(self) = {Plain(q) : q \in {p} \ {<<>>}}
  PROVE  \/ phase' = "walk" /\ depth' = depth + 1 /\ \E q : q = Here' /\ Reachable(q)
         \/ phase' = "return" /\ WithoutIds(answer') = Fresh(call)
<1>1. /\ guest \in Guests /\ call.path \in Path /\ depth \in 0..Len(call.path) /\ depth \in Nat
      /\ Len(call.path) \in Nat /\ p \in Path /\ (depth = Len(call.path) => p = call.path)
  BY WhereItIs DEF TypeInv, Path
<1>2. CASE depth < Len(call.path)
  <2> DEFINE i == call.path[depth + 1]
             q == SubSeq(call.path, 1, depth + 1)
  <2>1. q = Append(p, i) /\ i \in Nat
    BY <1>1, <1>2, NextPrefix DEF Here
  <2>2. Visible(S, p, i) <=> Reachable(q)
    <3> HIDE DEF i, q
    <3> QED BY <1>1, <2>1, VisibleIsReachable
  <2>3. CASE Visible(S, p, i)
    <3>1. phase' = "walk" /\ depth' = depth + 1
      BY <1>2, <2>3 DEF Continue
    <3>2. Here' = q
      BY <3>1 DEF Here
    <3> QED BY <2>2, <2>3, <3>1, <3>2
  <2>4. CASE ~ Visible(S, p, i)
    <3>1. phase' = "return" /\ answer' = Refused
      BY <1>2, <2>4 DEF Continue, Answer
    <3>2. ~ Reachable(call.path)
      <4>1. depth + 1 \in 0..Len(call.path)
        BY <1>1, <1>2
      <4> QED BY <1>1, <2>2, <2>4, <4>1, PrefixReachable
    <3> QED BY <3>1, <3>2, RefusedIsFresh
  <2> QED BY <2>3, <2>4
<1>3. CASE ~ (depth < Len(call.path))
  <2>1. depth = Len(call.path) /\ p = call.path /\ call.op = "discover"
    BY <1>1, <1>3
  <2> DEFINE F == self \cup ReportChildren(S, p)
             empty == <<>>
             mine == {Plain(q) : q \in {p} \ {<<>>}}
             theirs == {Plain(q) : q \in {b \in {Append(p, i) : i \in DOMAIN Body(p).decls} :
                                            Reachable(b)}}
  <2>2. phase' = "return" /\ answer' = [ok |-> TRUE, found |-> F, hooks |-> empty]
    BY <1>3 DEF Continue, Answer
  <2>3. Bare(F) = Bare(self) \cup Bare(ReportChildren(S, p))
    BY DEF Bare
  <2>4. Bare(ReportChildren(S, p)) = theirs
    BY <1>1, <2>1, BareChildren
  <2>5. Fresh(call) = [ok |-> TRUE, found |-> mine \cup theirs, hooks |-> empty]
    <3>1. ~ (call.path # <<>> /\ Written(call.path).mode = "skip")
      BY <2>1
    <3> QED BY <2>1, <3>1 DEF Fresh
  <2>6. WithoutIds(answer') = [ok |-> TRUE, found |-> Bare(F), hooks |-> empty]
    <3> HIDE DEF F, empty
    <3> QED BY <2>2, BareAnswer
  <2> QED BY <2>1, <2>2, <2>3, <2>4, <2>5, <2>6
<1> QED BY <1>2, <1>3

\* What a call that nothing excuses comes through is as written.
LEMMA WayIsFaithful ==
  ASSUME ReplayInv, TextInv, WayInv, phase = "walk", Unexcused, depth > 0, NEW p, p = Here
  PROVE  /\ p \in DOMAIN slots /\ p \in Path /\ p # <<>> /\ slots[p] \in Slot
         /\ Faithful(slots, p) /\ slots[p].code = p /\ ~ Straying(p) /\ ~ Apart(p) /\ Sound(p)
         /\ ModeOf(p) = Written(p).mode
<1>1. /\ p \in DOMAIN slots /\ p \in Path /\ p # <<>> /\ slots[p] \in Slot /\ Len(p) = depth
      /\ p[1] = call.path[1] /\ call.path # <<>> /\ depth \in Nat /\ call.path \in Path
      /\ depth \in 1..Len(call.path)
  BY WhereItIs DEF ReplayInv, TypeInv, Tree, WalkInv
<1>2. ~ Apart(p)
  BY <1>1 DEF Unexcused, RanBefore, Apart
<1>3. \A k \in 1..depth : SubSeq(p, 1, k) \in Prefixes(call.path)
  <2> TAKE k \in 1..depth
  <2>1. SubSeq(p, 1, k) = SubSeq(call.path, 1, k) /\ k \in 1..Len(call.path)
    BY <1>1 DEF Here, Path
  <2> QED BY <2>1 DEF Prefixes
<1>4. Sound(p)
  BY <1>1, <1>3 DEF Sound, Unexcused
<1>5. ~ Straying(p)
  <2>1. SubSeq(p, 1, depth) = p /\ depth \in 1..depth
    BY <1>1 DEF Path
  <2> QED BY <1>3, <2>1 DEF Unexcused
<1>6. Faithful(slots, p)
  BY <1>1, <1>2, <1>4 DEF TextInv
<1>7. p \notin DOMAIN replay
  <2> SUFFICES ASSUME NEW k \in 1..(depth - 1), p = SubSeq(call.path, 1, k) PROVE FALSE
    BY DEF WayInv
  <2>1. Len(SubSeq(call.path, 1, k)) = k
    BY <1>1 DEF Path
  <2> QED BY <1>1, <2>1
<1>8. Body(p).mark = "normal"
  BY <1>5 DEF Straying, Undeclared, SelfMarked
<1>9. ModeOf(p) = Written(p).mode
  BY <1>6, <1>7, <1>8 DEF ModeOf, Faithful, AsWritten
<1> QED BY <1>1, <1>2, <1>4, <1>5, <1>6, <1>9 DEF Faithful, AsWritten

\* What is told of the children of a node that is resolved.
LEMMA ChildrenTell ==
  ASSUME ReplayInv, TextInv, NEW p \in DOMAIN slots, p # <<>>, Faithful(slots, p), ~ Straying(p),
         ~ Apart(p), Sound(p), slots[p].resolved
  PROVE  /\ Counts(slots, p) /\ Tells(slots, p)
         /\ \A i \in DOMAIN Body(p).decls :
              /\ i \in Nat /\ Append(p, i) \in DOMAIN slots /\ ~ Body(p).decls[i].handle
              /\ slots[Append(p, i)].kind = Body(p).decls[i].kind
<1>1. p \in Path /\ guest \in Guests /\ Tree(slots)
  BY DEF ReplayInv, TypeInv, Tree
<1>2. slots[p].count = Len(Body(p).decls)
  BY DEF Faithful, AsGrown, Straying
<1>3. Body(p).decls \in Seq(Declaration)
  BY <1>1, BodyIsBody DEF IsBody
<1>4. ASSUME NEW i \in DOMAIN Body(p).decls
      PROVE  /\ i \in Nat /\ Append(p, i) \in DOMAIN slots /\ ~ Body(p).decls[i].handle
             /\ slots[Append(p, i)].kind = Body(p).decls[i].kind
             /\ slots[Append(p, i)].only = Body(p).decls[i].only
             /\ slots[Append(p, i)].base = Body(p).decls[i].mode
             /\ slots[Append(p, i)].hinted = Body(p).decls[i].handle
  <2> DEFINE c == Append(p, i)
             d == Body(p).decls
  <2>1. i \in Nat /\ i \in 1..slots[p].count
    <3> HIDE DEF d
    <3> QED BY <1>2, <1>3, <1>4 DEF d
  <2>2. c \in DOMAIN slots /\ c # <<>>
    BY <1>1, <2>1, Appended DEF Tree
  <2>3. Written(c) = d[i] /\ c[1] = p[1] /\ Sound(c)
    BY <1>1, <2>1, ChildText
  <2> HIDE DEF c
  <2>4. ~ Apart(c)
    BY <2>3 DEF Apart
  <2>5. Faithful(slots, c)
    BY <2>2, <2>3, <2>4 DEF TextInv
  <2>6. ~ Body(c).hint /\ ~ d[i].handle
    BY <1>4 DEF Straying, Undeclared, c
  <2> QED BY <2>1, <2>2, <2>3, <2>5, <2>6 DEF Faithful, AsWritten, c
<1> QED BY <1>2, <1>4 DEF Counts, Tells

\* The root's next discovery tells what the body of one of its children marked.
RootMarked == call.path = <<>> /\ \E i \in DOMAIN Body(<<>>).decls : SelfMarked(<<i>>)

\* What is said of the program stays said.
LEMMA FreshSame ==
  ASSUME UNCHANGED <<guest, call>>
  PROVE  Fresh(call)' = Fresh(call) /\ (RootMarked' <=> RootMarked)
<1>1. /\ \A p : Body(p)' = Body(p) /\ Siblings(p)' = Siblings(p) /\ Written(p)' = Written(p)
      /\ \A p : Reachable(p)' <=> Reachable(p)
  BY TextSame
<1>2. \A p : Plain(p)' = Plain(p)
  BY <1>1 DEF Plain
<1>3. Fresh(call)' = Fresh(call)
  <2> SUFFICES ASSUME NEW c PROVE Fresh(c)' = Fresh(c)
    OBVIOUS
  <2> DEFINE below == {Append(c.path, i) : i \in DOMAIN Body(c.path).decls}
             mine == {Plain(q) : q \in {c.path} \ {<<>>}}
             theirs == {Plain(q) : q \in {b \in below : Reachable(b)}}
             hooks == [k \in 1..(Len(c.path) + 1) |-> Body(SubSeq(c.path, 1, k - 1)).hooks]
  <2>1. below' = below /\ mine' = mine /\ hooks' = hooks
    BY <1>1, <1>2
  <2>2. theirs' = theirs
    <3> HIDE DEF below
    <3> QED BY <1>1, <1>2, <2>1
  <2> HIDE DEF mine, theirs, hooks
  <2> QED BY <1>1, <2>1, <2>2 DEF Fresh, mine, theirs, hooks
<1>4. RootMarked' <=> RootMarked
  BY <1>1 DEF RootMarked, SelfMarked
<1> QED BY <1>3, <1>4

\* The top-level nodes are siblings of the first.
LEMMA RootSiblings == Siblings(<<1>>) = Body(<<>>).decls
<1>1. Len(<<1>>) - 1 = 0 /\ SubSeq(<<1>>, 1, 0) = <<>>
  OBVIOUS
<1> QED BY <1>1 DEF Siblings

\* What nothing excuses now was not excused before.
LEMMA UnexcusedBefore ==
  ASSUME UNCHANGED <<guest, call, ran>>, wayward \subseteq wayward', Unexcused'
  PROVE  Unexcused
<1>1. \A q : Straying(q) => Straying(q)'
  BY SoundBefore
<1>2. \A q : Prefixes(q)' = Prefixes(q)
  BY DEF Prefixes
<1> QED BY <1>1 DEF Unexcused, RanBefore, Prefixes

\* A step that answers,
LEMMA AgreeOnAnswer ==
  ASSUME UNCHANGED <<guest, call>>, phase' = "return",
         clean' /\ Unexcused' /\ ~ RunOfResolved' /\ ~ RootMarked =>
           WithoutIds(answer') = Fresh(call)
  PROVE  WayInv' /\ RepeatedCallsAgree'
<1>1. WayInv'
  BY DEF WayInv
<1>2. Fresh(call)' = Fresh(call) /\ (RootMarked' <=> RootMarked)
  BY FreshSame
<1>3. Siblings(<<1>>)' = Body(<<>>)'.decls
  BY TextSame, RootSiblings
<1>4. RepeatedCallsAgree'
  BY <1>2, <1>3 DEF RepeatedCallsAgree, Unexcused, Straying, RootMarked
<1> QED BY <1>1, <1>4

\* and one that goes on from a node that it has replayed.
LEMMA AgreeOnWay ==
  ASSUME ReplayInv, WayInv, UNCHANGED <<guest, call, ran>>, wayward \subseteq wayward',
         clean' => clean, phase = "walk", phase' = "walk", depth > 0, depth' = depth + 1,
         NEW p, p = Here, NEW state, Activate(p, state),
         clean' /\ Unexcused' => Reachable(Here)' /\ state.hooks = Body(p).hooks
  PROVE  WayInv' /\ RepeatedCallsAgree'
<1>1. /\ depth \in Nat /\ call.path \in Path /\ p = SubSeq(call.path, 1, depth)
      /\ DOMAIN replay = {SubSeq(call.path, 1, k) : k \in 1..(depth - 1)}
  BY WhereItIs DEF ReplayInv, TypeInv, WayInv, Here
<1>2. /\ DOMAIN replay' = DOMAIN replay \cup {p} /\ replay'[p] = state
      /\ \A q \in DOMAIN replay : q # p => replay'[q] = replay[q]
  <2> DEFINE w == With(replay, p, state)
  <2>1. replay' = w
    BY DEF Activate
  <2>2. /\ DOMAIN w = DOMAIN replay \cup {p} /\ w[p] = state
        /\ \A q \in DOMAIN replay : q # p => w[q] = replay[q]
    BY DEF With
  <2> HIDE DEF w
  <2> QED BY <2>1, <2>2
<1>3. \A k : k \in 1..depth <=> k \in 1..(depth - 1) \/ k = depth
  BY <1>1
<1>4. DOMAIN replay' = {SubSeq(call'.path, 1, k) : k \in 1..(depth' - 1)}
  <2>1. depth' - 1 = depth
    BY <1>1
  <2> QED BY <1>1, <1>2, <1>3, <2>1
<1>5. ASSUME clean', Unexcused', NEW k \in 1..(depth' - 1)
      PROVE  replay'[SubSeq(call'.path, 1, k)].hooks = Body(SubSeq(call.path, 1, k))'.hooks
  <2>1. Unexcused
    BY <1>5, UnexcusedBefore
  <2>2. Body(SubSeq(call.path, 1, k))' = Body(SubSeq(call.path, 1, k))
    BY TextSame
  <2>3. depth' - 1 = depth
    BY <1>1
  <2>4. CASE SubSeq(call.path, 1, k) = p
    BY <1>2, <1>5, <2>2, <2>4
  <2>5. CASE SubSeq(call.path, 1, k) # p
    <3>1. k \in 1..(depth - 1)
      BY <1>1, <1>3, <2>3, <2>5
    <3>2. replay'[SubSeq(call.path, 1, k)] = replay[SubSeq(call.path, 1, k)]
      BY <1>1, <1>2, <2>5, <3>1
    <3> QED BY <1>5, <2>1, <2>2, <3>1, <3>2 DEF WayInv
  <2> QED BY <2>4, <2>5
<1>6. WayInv'
  BY <1>4, <1>5 DEF WayInv
<1>7. RepeatedCallsAgree'
  BY DEF RepeatedCallsAgree
<1> QED BY <1>6, <1>7

\* A call begins at the root.
LEMMA AgreeCall ==
  ASSUME ReplayInv, NEW op \in {"discover", "run"}, NEW path \in CallPaths, HostCall(op, path)
  PROVE  WayInv' /\ RepeatedCallsAgree'
<1>1. phase' = "walk" /\ depth' = 0 /\ replay' = <<>>
  BY DEF HostCall, ReplayInv, NotedInv
<1>2. path \in Path
  <2>1. \A p \in DOMAIN guest : p \in Path
    BY GuestAssumption DEF ReplayInv, TypeInv, Path
  <2>2. <<9>> \in Path
    BY DEF Path
  <2> QED BY <2>1, <2>2 DEF CallPaths
<1>3. Here' = <<>>
  BY <1>1, <1>2 DEF HostCall, Here, Path
<1>4. Reachable(Here)'
  BY <1>3 DEF Reachable
<1>5. DOMAIN replay' = {} /\ 1..(depth' - 1) = {}
  BY <1>1
<1>6. WayInv'
  BY <1>1, <1>4, <1>5 DEF WayInv
<1>7. RepeatedCallsAgree'
  BY <1>1 DEF RepeatedCallsAgree
<1> QED BY <1>6, <1>7

\* The root has the children that the program declares.
LEMMA AgreeRoot ==
  ASSUME ReplayInv, RootInv, WayInv, EnterRoot
  PROVE  WayInv' /\ RepeatedCallsAgree'
<1> DEFINE none == {}
           root == <<>>
<1>1. /\ UNCHANGED <<guest, call, ran, wayward, clean, replay>> /\ phase = "walk" /\ depth = 0
      /\ (call.op = "discover" \/ depth < Len(call.path)) /\ TypeInv /\ guest \in Guests
      /\ root = Here /\ Continue(slots, none) /\ root \in Path
  <2>1. TypeInv /\ depth = 0
    BY DEF EnterRoot, ReplayInv
  <2>2. Here = <<>> /\ <<>> \in Path
    BY <2>1, WhereItIs DEF Path
  <2> QED BY <2>1, <2>2 DEF EnterRoot, NeedsChildren, history, TypeInv
<1>2. \A i \in DOMAIN Body(root).decls :
        /\ i \in Nat /\ Append(root, i) = <<i>> /\ AsWritten(slots, <<i>>)
        /\ Written(<<i>>) = Body(root).decls[i]
  <2> TAKE i \in DOMAIN Body(root).decls
  <2>1. i \in Nat
    BY <1>1, BodyIsBody DEF IsBody
  <2>2. Append(root, i) = <<i>>
    BY <2>1 DEF root
  <2>3. Written(Append(root, i)) = Body(root).decls[i]
    <3> HIDE DEF root
    <3> QED BY <1>1, <2>1, ChildText
  <2> QED BY <2>1, <2>2, <2>3 DEF RootInv, root
<1>3. Counts(slots, root)
  BY <1>2 DEF RootInv, Counts, AsWritten
<1>4. Reachable(root)
  BY DEF Reachable
<1>5. ~ RootMarked /\ depth = Len(call.path) => Tells(slots, root)
  <2> SUFFICES ASSUME ~ RootMarked, depth = Len(call.path), NEW i \in DOMAIN Body(root).decls
               PROVE  /\ slots[Append(root, i)].base = Body(root).decls[i].mode
                      /\ slots[Append(root, i)].hinted = Body(root).decls[i].handle
                      /\ slots[Append(root, i)].mode = Body(root).decls[i].mode
    BY DEF Tells
  <2>1. call.path = <<>>
    BY <1>1, WhereItIs
  <2>2. ~ SelfMarked(<<i>>)
    BY <2>1 DEF RootMarked
  <2> QED BY <1>2, <2>2 DEF AsWritten, SelfMarked
<1>6. Bare(none) = {Plain(q) : q \in {root} \ {<<>>}}
  BY DEF Bare
<1>7. CASE RootMarked /\ depth = Len(call.path)
  <2>1. phase' = "return"
    BY <1>1, <1>7 DEF Continue, Answer
  <2> QED BY <1>1, <1>7, <2>1, AgreeOnAnswer
<1>8. CASE ~ (RootMarked /\ depth = Len(call.path))
  <2>1. root # <<>> => Written(root).mode # "skip"
    OBVIOUS
  <2> HIDE DEF none, root
  <2>2. \/ phase' = "walk" /\ depth' = depth + 1 /\ \E q : q = Here' /\ Reachable(q)
        \/ phase' = "return" /\ WithoutIds(answer') = Fresh(call)
    BY <1>1, <1>3, <1>4, <1>5, <1>6, <1>8, <2>1, ContinueAgrees
  <2>3. CASE phase' = "return" /\ WithoutIds(answer') = Fresh(call)
    BY <1>1, <2>3, AgreeOnAnswer
  <2>4. CASE phase' = "walk" /\ depth' = depth + 1 /\ \E q : q = Here' /\ Reachable(q)
    <3>1. Reachable(Here)'
      BY <1>1, <2>4, TextSame
    <3>2. depth - 1 = -1 /\ depth' - 1 = 0 /\ 1..(-1) = {} /\ 1..0 = {}
      BY <1>1, <2>4
    <3>3. DOMAIN replay' = {}
      BY <1>1, <3>2 DEF WayInv
    <3>4. WayInv'
      BY <2>4, <3>1, <3>2, <3>3 DEF WayInv
    <3> QED BY <2>4, <3>4 DEF RepeatedCallsAgree
  <2> QED BY <2>2, <2>3, <2>4
<1> QED BY <1>7, <1>8

\* Nothing is found below a node that the program skips.
LEMMA AgreeSkipped ==
  ASSUME ReplayInv, TextInv, WayInv, StopAtSkipped
  PROVE  WayInv' /\ RepeatedCallsAgree'
<1>0. PICK p : p = Here
  OBVIOUS
<1>1. /\ UNCHANGED <<guest, call, ran, wayward, clean>> /\ phase = "walk" /\ phase' = "return"
      /\ call.op = "discover" \/ depth < Len(call.path)
      /\ answer' = IF depth < Len(call.path) THEN Refused
                   ELSE [ok |-> TRUE, hooks |-> <<>>,
                         found |-> {Report(p, slots, ModeOf(p), slots[p].hinted)}]
      /\ p # <<>> /\ ModeOf(p) = "skip" /\ TypeInv /\ depth > 0
  <2>1. TypeInv /\ p # <<>>
    BY <1>0 DEF StopAtSkipped, Pruned, ReplayInv
  <2> QED BY <1>0, <2>1, WhereItIs DEF StopAtSkipped, NeedsChildren, Pruned, Answer, history
<1> SUFFICES ASSUME clean, Unexcused
             PROVE  WithoutIds(answer') = Fresh(call)
  BY <1>1, UnexcusedBefore, AgreeOnAnswer
<1>2. /\ p \in Path /\ Faithful(slots, p) /\ ~ Straying(p) /\ Written(p).mode = "skip"
      /\ Reachable(p)
  BY <1>0, <1>1, WayIsFaithful DEF WayInv
<1>3. /\ depth \in 0..Len(call.path) /\ call.path \in Path /\ depth \in Nat
      /\ Len(call.path) \in Nat
      /\ (depth = Len(call.path) => p = call.path) /\ p = SubSeq(call.path, 1, depth)
  BY <1>0, <1>1, WhereItIs DEF TypeInv, Path, Here
<1>4. CASE depth < Len(call.path)
  <2>1. ~ Reachable(call.path)
    <3>1. depth \in 1..(Len(call.path) - 1)
      BY <1>1, <1>3, <1>4
    <3> QED BY <1>2, <1>3, <3>1, PrefixReachable
  <2> QED BY <1>1, <1>4, <2>1, RefusedIsFresh
<1>5. CASE ~ (depth < Len(call.path))
  <2> DEFINE F == {Report(p, slots, ModeOf(p), slots[p].hinted)}
             empty == <<>>
  <2>1. answer' = [ok |-> TRUE, found |-> F, hooks |-> empty] /\ p = call.path
        /\ call.op = "discover"
    BY <1>1, <1>3, <1>5
  <2>2. Bare(F) = {Plain(p)}
    <3> DEFINE h == slots[p].hinted
               m == ModeOf(p)
    <3>1. m = Written(p).mode /\ h = Written(p).handle
      BY <1>1, <1>2 DEF Faithful, AsWritten, Straying, Undeclared, SelfMarked
    <3> HIDE DEF h, m
    <3> QED BY <3>1 DEF Bare, Report, Plain, h, m
  <2>3. WithoutIds(answer') = [ok |-> TRUE, found |-> Bare(F), hooks |-> empty]
    <3> HIDE DEF F, empty
    <3> QED BY <2>1, BareAnswer
  <2>4. Fresh(call) = [ok |-> TRUE, found |-> {Plain(p)}, hooks |-> empty]
    <3> DEFINE mine == {Plain(q) : q \in {call.path} \ {<<>>}} \cup {}
    <3>1. call.path # <<>> /\ Written(call.path).mode = "skip" /\ Reachable(call.path)
      BY <1>1, <1>2, <2>1
    <3>2. mine = {Plain(p)}
      BY <2>1, <3>1
    <3>3. Fresh(call) = [ok |-> TRUE, found |-> mine, hooks |-> empty]
      BY <2>1, <3>1 DEF Fresh
    <3> HIDE DEF mine
    <3> QED BY <3>2, <3>3
  <2> QED BY <2>2, <2>3, <2>4
<1> QED BY <1>4, <1>5

\* The hooks of the bodies on the way to p, as the program registers them.
HooksTo(p) == [k \in 1..(Len(p) + 1) |-> Body(SubSeq(p, 1, k - 1)).hooks]

\* What the first run of a path answers.
LEMMA FreshRun ==
  ASSUME call.op # "discover", Reachable(call.path)
  PROVE  Fresh(call) = [ok |-> TRUE, found |-> {},
                        hooks |-> IF call.path # <<>> /\ Written(call.path).mode # "normal"
                                  THEN <<>> ELSE HooksTo(call.path)]
BY DEF Fresh, HooksTo

\* An answer to a run shows nothing.
LEMMA BareRun ==
  ASSUME NEW hooks
  PROVE  WithoutIds([ok |-> TRUE, found |-> {}, hooks |-> hooks])
           = [ok |-> TRUE, found |-> {}, hooks |-> hooks]
<1> DEFINE none == {}
<1>1. Bare(none) = none
  BY DEF Bare
<1> HIDE DEF none
<1>2. WithoutIds([ok |-> TRUE, found |-> none, hooks |-> hooks])
        = [ok |-> TRUE, found |-> none, hooks |-> hooks]
  BY <1>1, BareAnswer
<1> QED BY <1>2 DEF none

\* A node that is not normal is not run.
LEMMA AgreeSuppressed ==
  ASSUME ReplayInv, TextInv, WayInv, RunSuppressed
  PROVE  WayInv' /\ RepeatedCallsAgree'
<1>0. PICK p : p = Here
  OBVIOUS
<1>1. /\ UNCHANGED <<guest, call, ran, wayward, clean>> /\ phase = "walk" /\ phase' = "return"
      /\ call.op = "run" /\ depth = Len(call.path) /\ depth > 0 /\ ModeOf(p) # "normal"
      /\ answer' = [ok |-> TRUE, found |-> {}, hooks |-> <<>>] /\ TypeInv
  BY <1>0 DEF RunSuppressed, AtTarget, Answer, history, ReplayInv
<1> SUFFICES ASSUME clean, Unexcused
             PROVE  WithoutIds(answer') = Fresh(call)
  BY <1>1, UnexcusedBefore, AgreeOnAnswer
<1>2. Written(p).mode # "normal" /\ p # <<>> /\ p = call.path /\ Reachable(p)
  <2>1. p = call.path
    BY <1>0, <1>1, WhereItIs
  <2> QED BY <1>0, <1>1, <2>1, WayIsFaithful DEF WayInv
<1>3. Fresh(call) = [ok |-> TRUE, found |-> {}, hooks |-> <<>>]
  BY <1>1, <1>2, FreshRun
<1> QED BY <1>1, <1>3, BareRun

\* The root has its hooks from its own body.
LEMMA AgreeRunRoot ==
  ASSUME ReplayInv, RootInv, WayInv, RunRoot
  PROVE  WayInv' /\ RepeatedCallsAgree'
<1>1. /\ UNCHANGED <<guest, call>> /\ phase = "walk" /\ phase' = "return"
      /\ call.op = "run" /\ depth = Len(call.path) /\ depth = 0 /\ TypeInv
      /\ answer' = [ok |-> TRUE, found |-> {}, hooks |-> <<HooksOf(<<>>)>>]
  BY DEF RunRoot, AtTarget, Answer, ReplayInv
<1>2. call.path = <<>>
  BY <1>1, WhereItIs
<1>3. HooksOf(<<>>) = Body(<<>>).hooks
  <2>1. 1..(depth - 1) = {}
    BY <1>1
  <2>2. DOMAIN replay = {}
    BY <1>1, <2>1 DEF WayInv
  <2> QED BY <2>2 DEF HooksOf, RootInv
<1>4. HooksTo(call.path) = <<Body(<<>>).hooks>>
  <2>1. Len(call.path) + 1 = 1 /\ SubSeq(<<>>, 1, 0) = <<>> /\ 1..1 = {1} /\ 1 - 1 = 0
    BY <1>1
  <2>2. HooksTo(call.path) = [k \in 1..1 |-> Body(SubSeq(<<>>, 1, k - 1)).hooks]
    BY <1>2, <2>1 DEF HooksTo
  <2>3. \A k \in 1..1 : Body(SubSeq(<<>>, 1, k - 1)).hooks = Body(<<>>).hooks
    BY <2>1
  <2> DEFINE h == Body(<<>>).hooks
  <2>4. HooksTo(call.path) = [k \in 1..1 |-> h]
    BY <2>2, <2>3
  <2> HIDE DEF h
  <2>5. [k \in 1..1 |-> h] = <<h>>
    OBVIOUS
  <2> QED BY <2>4, <2>5 DEF h
<1>5. Reachable(call.path)
  BY <1>2 DEF Reachable
<1>6. Fresh(call) = [ok |-> TRUE, found |-> {}, hooks |-> HooksTo(call.path)]
  BY <1>1, <1>2, <1>5, FreshRun
<1>7. WithoutIds(answer') = [ok |-> TRUE, found |-> {}, hooks |-> <<HooksOf(<<>>)>>]
  BY <1>1, BareRun
<1> QED BY <1>1, <1>3, <1>4, <1>6, <1>7, AgreeOnAnswer

\* A sequence is what comes before its last element, and that.
LEMMA LastOf ==
  ASSUME NEW n \in Nat, NEW t \in Seq(Nat), Len(t) = n + 1
  PROVE  [k \in 1..n |-> t[k]] \o <<t[n + 1]>> = t
<1> DEFINE s == [k \in 1..n |-> t[k]]
           x == t[n + 1]
<1>1. s \in Seq(Nat) /\ Len(s) = n /\ x \in Nat /\ \A k \in 1..n : s[k] = t[k]
  OBVIOUS
<1> HIDE DEF s
<1>2. /\ s \o <<x>> \in Seq(Nat) /\ Len(s \o <<x>>) = n + 1
      /\ \A k \in 1..(n + 1) : (s \o <<x>>)[k] = t[k]
  BY <1>1
<1> DEFINE u == s \o <<x>>
<1>3. u \in Seq(Nat) /\ Len(u) = n + 1 /\ \A k \in 1..(n + 1) : u[k] = t[k]
  BY <1>2
<1> HIDE DEF u
<1>4. u = t
  BY <1>3
<1> QED BY <1>4 DEF s, u

\* A body that runs and behaves has the hooks of its whole chain run after it.
LEMMA AgreeRun ==
  ASSUME ReplayInv, TextInv, RootInv, WayInv, phase = "walk",
         NEW o \in Performances(slots[Here].code), RunTarget(o)
  PROVE  WayInv' /\ RepeatedCallsAgree'
<1>0. PICK p : p = Here
  OBVIOUS
<1> DEFINE own == IF depth = 1 THEN OnDurable(p, o.decls)[p].hooks ELSE Body(slots[p].code).hooks
           above == [k \in 1..depth |-> HooksOf(SubSeq(p, 1, k - 1))]
<1>1. /\ UNCHANGED <<guest, call, ran>> /\ phase' = "return" /\ Perform(p, o)
      /\ call.op = "run" /\ depth = Len(call.path) /\ depth > 0 /\ ModeOf(p) = "normal"
      /\ slots' = (IF depth = 1 THEN OnDurable(p, o.decls) ELSE OnCopy(p))
      /\ ~ o.traps => answer' = [ok |-> TRUE, found |-> {}, hooks |-> above \o <<own>>]
      /\ TypeInv
  BY <1>0 DEF RunTarget, AtTarget, Answer, ReplayInv
<1>2. wayward \subseteq wayward' /\ (clean' => clean)
  BY <1>1, PerformStrays
<1> HIDE DEF above, own
<1> SUFFICES ASSUME clean', Unexcused', ~ RunOfResolved'
             PROVE  WithoutIds(answer') = Fresh(call)
  BY <1>1, AgreeOnAnswer
<1>3. clean /\ Unexcused /\ ~ o.traps
  BY <1>1, <1>2, Behaves, UnexcusedBefore
<1>4. /\ p \in DOMAIN slots /\ p \in Path /\ p # <<>> /\ slots[p] \in Slot /\ Faithful(slots, p)
      /\ slots[p].code = p /\ Written(p).mode = "normal" /\ Reachable(p)
      /\ p = call.path /\ Len(p) = depth /\ depth \in Nat
  <2>1. p = call.path /\ Len(p) = depth /\ depth \in Nat
    BY <1>0, <1>1, WhereItIs
  <2> QED BY <1>0, <1>1, <1>3, <2>1, WayIsFaithful DEF WayInv
<1>5. own = Body(p).hooks
  <2>1. CASE depth # 1
    BY <1>4, <2>1 DEF own
  <2>2. CASE depth = 1
    <3> DEFINE T == OnDurable(p, o.decls)
    <3>1. T = OnDurable(p, o.decls) /\ own = T[p].hooks /\ slots' = T
      BY <1>1, <2>2 DEF own
    <3> HIDE DEF T
    <3>2. /\ Tree(slots) /\ guest \in Guests /\ nextId \in Nat /\ o.decls \in Seq(Declaration)
          /\ p \in DOMAIN slots
      BY <1>0, <1>1, <1>4, BodySteps
    <3>6. Made(slots, T, p, o.decls) /\ T[p] = AfterBody(slots[p], Body(p), Len(o.decls))
      BY <1>4, <3>1, <3>2, DurableMade
    <3>3. T[p].hooks = slots[p].hooks + Body(p).hooks /\ T[p].resolved = slots[p].resolved
          /\ p \in DOMAIN T
      <4>2. p \in DOMAIN T
        BY <1>4, <3>6 DEF Made
      <4> QED BY <1>4, <3>6, <4>2 DEF AfterBody, Slot
    <3>4. ~ slots[p].resolved
      <4>1. RunOfResolved' <=>
              /\ call'.op = "run"
              /\ call'.path \in {q \in DOMAIN slots' : Len(q) = 1 /\ slots'[q].resolved}
        BY DEF RunOfResolved
      <4> QED BY <1>1, <1>4, <2>2, <3>1, <3>3, <4>1
    <3>5. slots[p].hooks = 0 /\ Body(p).hooks \in Nat
      BY <1>1, <1>4, <3>4, BodyIsBody DEF Faithful, AsGrown, IsBody, TypeInv
    <3> QED BY <3>1, <3>3, <3>5
  <2> QED BY <2>1, <2>2
<1> DEFINE t == HooksTo(p)
<1>6. /\ t = [k \in 1..(depth + 1) |-> Body(SubSeq(p, 1, k - 1)).hooks]
      /\ t \in Seq(Nat) /\ Len(t) = depth + 1 /\ t[depth + 1] = Body(p).hooks
  <2>1. t = [k \in 1..(depth + 1) |-> Body(SubSeq(p, 1, k - 1)).hooks]
    BY <1>4 DEF HooksTo
  <2>2. \A k \in 1..(depth + 1) : Body(SubSeq(p, 1, k - 1)).hooks \in Nat
    BY <1>1, BodyIsBody DEF IsBody, TypeInv
  <2>3. SubSeq(p, 1, depth) = p
    BY <1>4 DEF Path
  <2>4. depth + 1 \in 1..(depth + 1) /\ (depth + 1) - 1 = depth /\ depth + 1 \in Nat
    BY <1>4
  <2>5. t[depth + 1] = Body(p).hooks
    BY <2>1, <2>3, <2>4
  <2> DEFINE n == depth + 1
  <2> HIDE DEF t
  <2>6. t \in [1..n -> Nat]
    BY <2>1, <2>2
  <2>7. n \in Nat
    BY <2>4
  <2> HIDE DEF n
  <2>8. t \in Seq(Nat) /\ Len(t) = n
    BY <2>6, <2>7
  <2> QED BY <2>1, <2>5, <2>8 DEF n
<1>7. \A k \in 1..depth : HooksOf(SubSeq(p, 1, k - 1)) = t[k]
  <2> TAKE k \in 1..depth
  <2>1. t[k] = Body(SubSeq(p, 1, k - 1)).hooks
    <3>1. k \in 1..(depth + 1)
      BY <1>4
    <3> HIDE DEF t
    <3> QED BY <1>6, <3>1
  <2>2. CASE k = 1
    <3>1. SubSeq(p, 1, k - 1) = <<>>
      BY <1>4, <2>2 DEF Path
    <3>2. <<>> \notin DOMAIN replay
      <4>1. \A j \in 1..(depth - 1) : Len(SubSeq(p, 1, j)) = j /\ SubSeq(p, 1, j) # <<>>
        <5> TAKE j \in 1..(depth - 1)
        <5>1. Len(SubSeq(p, 1, j)) = j /\ j # 0
          BY <1>4 DEF Path
        <5> QED BY <5>1
      <4> QED BY <1>4, <4>1 DEF WayInv
    <3>3. HooksOf(<<>>) = slots[<<>>].hooks
      BY <3>2 DEF HooksOf
    <3> QED BY <2>1, <3>1, <3>3 DEF RootInv
  <2>3. CASE k # 1
    <3>1. k - 1 \in 1..(depth - 1)
      BY <1>4, <2>3
    <3>2. SubSeq(p, 1, k - 1) \in DOMAIN replay
          /\ replay[SubSeq(p, 1, k - 1)].hooks = Body(SubSeq(p, 1, k - 1)).hooks
      BY <1>3, <1>4, <3>1 DEF WayInv
    <3> QED BY <2>1, <3>2 DEF HooksOf
  <2> QED BY <2>2, <2>3
<1>8. above \o <<own>> = t
  <2> HIDE DEF t
  <2>1. above = [k \in 1..depth |-> t[k]]
    BY <1>7 DEF above
  <2>2. [k \in 1..depth |-> t[k]] \o <<t[depth + 1]>> = t
    BY <1>4, <1>6, LastOf
  <2> QED BY <1>5, <1>6, <2>1, <2>2
<1>9. Fresh(call) = [ok |-> TRUE, found |-> {}, hooks |-> t]
  BY <1>1, <1>4, FreshRun
<1> HIDE DEF t
<1>10. WithoutIds(answer') = [ok |-> TRUE, found |-> {}, hooks |-> t]
  BY <1>1, <1>3, <1>8, BareRun
<1> QED BY <1>9, <1>10

\* What discover tells of the node itself.
LEMMA BareSelf ==
  ASSUME NEW S, NEW p, p # <<>>, NEW m, NEW h, m = Written(p).mode, h = Written(p).handle
  PROVE  Bare({Report(p, S, m, h)}) = {Plain(q) : q \in {p} \ {<<>>}}
<1>1. Bare({Report(p, S, m, h)}) = {Plain(p)}
  BY DEF Bare, Report, Plain
<1>2. {p} \ {<<>>} = {p}
  OBVIOUS
<1> QED BY <1>1, <1>2

\* The walk goes on, or the call is answered.
LEMMA ContinueEither ==
  ASSUME phase = "walk", NEW S, NEW self, Continue(S, self)
  PROVE  phase' = "return" \/ (phase' = "walk" /\ depth' = depth + 1)
BY DEF Continue, Answer

\* The first body of a node makes its children as they are written,
LEMMA AgreeFirst ==
  ASSUME ReplayInv, TextInv, WayInv, phase = "walk",
         NEW o \in Performances(slots[Here].code), ResolveFirst(o)
  PROVE  WayInv' /\ RepeatedCallsAgree'
<1>0. PICK p : p = Here
  OBVIOUS
<1> DEFINE S == OnDurable(p, o.decls)
           state == [mode |-> S[p].base, hooks |-> S[p].hooks]
           h == IF depth = 1 THEN S[p].hinted ELSE slots[p].hinted
           self == {Report(p, S, S[p].base, h)}
<1>1. /\ UNCHANGED <<guest, call, ran>> /\ Perform(p, o) /\ depth > 0 /\ ~ Pruned(p)
      /\ call.op = "discover" \/ depth < Len(call.path)
      /\ ~ slots[p].resolved /\ TypeInv
      /\ IF o.traps THEN phase' = "return" ELSE Activate(p, state) /\ Continue(S, self)
  BY <1>0 DEF ResolveFirst, NeedsChildren, Answer, ReplayInv
<1>2. wayward \subseteq wayward' /\ (clean' => clean)
  BY <1>1, PerformStrays
<1>3. S = OnDurable(p, o.decls)
  OBVIOUS
<1>4. state.hooks = S[p].hooks
  OBVIOUS
<1>5. ASSUME clean', Unexcused'
      PROVE  \/ phase' = "walk" /\ Reachable(Here)' /\ state.hooks = Body(p).hooks
             \/ phase' = "return" /\ WithoutIds(answer') = Fresh(call)
  <2> HIDE DEF S
  <2>1. clean /\ Unexcused /\ ~ o.traps /\ o.decls = Body(slots[p].code).decls
    BY <1>1, <1>2, <1>5, Behaves, UnexcusedBefore
  <2>2. /\ p \in DOMAIN slots /\ p \in Path /\ p # <<>> /\ slots[p] \in Slot /\ Faithful(slots, p)
        /\ slots[p].code = p /\ ~ Straying(p) /\ ModeOf(p) = Written(p).mode /\ Reachable(p)
    BY <1>0, <1>1, <2>1, WayIsFaithful DEF WayInv
  <2>3. Tree(slots) /\ guest \in Guests /\ nextId \in Nat /\ o.decls \in Seq(Declaration)
    BY <1>0, <1>1, BodySteps
  <2>4. Made(slots, S, p, o.decls) /\ S[p] = AfterBody(slots[p], Body(p), Len(o.decls))
    BY <1>3, <2>2, <2>3, DurableMade
  <2>7. /\ S[p].base = slots[p].base /\ S[p].count = slots[p].count + Len(o.decls)
        /\ S[p].hooks = slots[p].hooks + Body(p).hooks
        /\ S[p].hinted = (slots[p].hinted \/ Body(p).hint)
    BY <2>2, <2>4 DEF AfterBody, Slot
  <2>8. /\ slots[p].count = 0 /\ slots[p].hooks = 0 /\ slots[p].base = Written(p).mode
        /\ ~ Body(p).hint /\ slots[p].hinted = Written(p).handle
    BY <1>1, <2>2 DEF Faithful, AsWritten, AsGrown, Straying, Undeclared, SelfMarked
  <2>9. Body(p).hooks \in Nat /\ Len(o.decls) \in Nat /\ \A i \in DOMAIN o.decls : i \in Nat
    BY <2>3, BodyIsBody DEF IsBody
  <2>10. S[p].hooks = Body(p).hooks /\ S[p].count = Len(Body(p).decls)
    BY <2>1, <2>2, <2>7, <2>8, <2>9
  <2>11. \A i \in DOMAIN Body(p).decls :
           S[Append(p, i)] = NewSlot(Append(p, i), nextId + i - 1, Body(p).decls[i])
    <3> SUFFICES ASSUME NEW i \in DOMAIN o.decls
                 PROVE  S[Append(p, i)] = NewSlot(Append(p, i), nextId + i - 1, o.decls[i])
      BY <2>1, <2>2
    <3>1. slots[p].count + i = i
      BY <2>8, <2>9
    <3> QED BY <2>2, <2>4, <3>1 DEF Made
  <2>12. Counts(S, p) /\ Tells(S, p)
    <3>1. \A i \in DOMAIN Body(p).decls :
            /\ S[Append(p, i)].only = Body(p).decls[i].only
            /\ S[Append(p, i)].base = Body(p).decls[i].mode
            /\ S[Append(p, i)].hinted = Body(p).decls[i].handle
      <4> TAKE i \in DOMAIN Body(p).decls
      <4> DEFINE c == Append(p, i)
                 d == Body(p).decls[i]
                 id == nextId + i - 1
      <4>1. S[c] = NewSlot(c, id, d)
        BY <2>11
      <4> HIDE DEF c, d, id
      <4>2. S[c].only = d.only /\ S[c].base = d.mode /\ S[c].hinted = d.handle
        BY <4>1 DEF NewSlot
      <4> QED BY <4>2 DEF c, d
    <3> QED BY <2>2, <2>10, <3>1 DEF Counts, Tells
  <2>13. Bare(self) = {Plain(q) : q \in {p} \ {<<>>}}
    <3> DEFINE m == S[p].base
    <3>1. m = Written(p).mode /\ h = Written(p).handle
      <4>1. slots[p].hinted \in BOOLEAN
        BY <2>2 DEF Slot
      <4> QED BY <2>7, <2>8, <4>1
    <3> HIDE DEF m, h
    <3>2. Bare({Report(p, S, m, h)}) = {Plain(q) : q \in {p} \ {<<>>}}
      <4>1. p # <<>>
        BY <2>2
      <4> QED BY <3>1, <4>1, BareSelf
    <3> QED BY <3>2 DEF m
  <2>14. p # <<>> => Written(p).mode # "skip"
    BY <1>1, <2>2 DEF Pruned
  <2>15. Continue(S, self)
    BY <1>1, <2>1
  <2> HIDE DEF self
  <2>16. \/ phase' = "walk" /\ depth' = depth + 1 /\ \E q : q = Here' /\ Reachable(q)
         \/ phase' = "return" /\ WithoutIds(answer') = Fresh(call)
    BY <1>0, <1>1, <2>2, <2>12, <2>13, <2>14, <2>15, ContinueAgrees
  <2>17. (\E q : q = Here' /\ Reachable(q)) => Reachable(Here)'
    BY <1>1, TextSame
  <2> QED BY <1>4, <2>10, <2>16, <2>17
<1>6. phase' = "return" \/ (phase' = "walk" /\ depth' = depth + 1 /\ Activate(p, state))
  <2> HIDE DEF S, self, state
  <2> QED BY <1>1, ContinueEither
<1> HIDE DEF S, self, state
<1>7. CASE phase' = "return"
  BY <1>1, <1>5, <1>7, AgreeOnAnswer
<1>8. CASE phase' # "return"
  BY <1>0, <1>1, <1>2, <1>5, <1>6, <1>8, AgreeOnWay
<1> QED BY <1>7, <1>8

\* A replay in which the body behaves does not drift, and leaves the hints alone.
LEMMA ReplayAsWritten ==
  ASSUME ReplayInv, TextInv, NEW p \in DOMAIN slots, p # <<>>, Faithful(slots, p), ~ Straying(p),
         ~ Apart(p), Sound(p), slots[p].resolved, NEW ds, ds = Body(p).decls,
         NEW S, S = HandleHints(p, ds)
  PROVE  ~ Drifted(p, ds) /\ Counts(S, p) /\ Tells(S, p)
<1> DEFINE d == Body(p).decls
<1>1. /\ Counts(slots, p) /\ Tells(slots, p)
      /\ \A i \in DOMAIN d :
           /\ i \in Nat /\ Append(p, i) \in DOMAIN slots /\ ~ d[i].handle
           /\ slots[Append(p, i)].kind = d[i].kind
  BY ChildrenTell
<1>2. ~ Drifted(p, ds)
  BY <1>1 DEF Drifted, Counts, Tells
<1>3. ~ Body(slots[p].code).hint
  BY DEF Faithful, AsWritten, Straying, Undeclared, SelfMarked
<1>4. slots \in [DOMAIN slots -> Slot]
  BY DEF ReplayInv, TypeInv, Tree
<1>5. \A q \in DOMAIN slots :
        /\ S[q].only = slots[q].only /\ S[q].base = slots[q].base /\ S[q].count = slots[q].count
        /\ S[q].hinted = slots[q].hinted
  <2> TAKE q \in DOMAIN slots
  <2> DEFINE e == \/ \E i \in DOMAIN ds : q = Append(p, i) /\ ds[i].handle
                  \/ q = p /\ depth = 1 /\ Body(slots[p].code).hint
  <2>1. S[q] = [slots[q] EXCEPT !.hinted = slots[q].hinted \/ e]
    BY DEF HandleHints
  <2>2. ~ e
    BY <1>1, <1>3
  <2> HIDE DEF e
  <2> QED BY <1>4, <2>1, <2>2 DEF Slot
<1>6. Counts(S, p) /\ Tells(S, p)
  BY <1>1, <1>5 DEF Counts, Tells
<1> QED BY <1>2, <1>6

\* and each later one finds them again.
LEMMA AgreeReplay ==
  ASSUME ReplayInv, TextInv, WayInv, phase = "walk",
         NEW o \in Performances(slots[Here].code), Replay(o)
  PROVE  WayInv' /\ RepeatedCallsAgree'
<1>0. PICK p : p = Here
  OBVIOUS
<1> DEFINE b == Body(slots[p].code)
           S == HandleHints(p, o.decls)
           state == [mode |-> IF b.mark = "normal" THEN slots[p].base ELSE b.mark,
                     hooks |-> b.hooks]
           self == {Report(p, slots, state.mode, slots[p].hinted \/ b.hint)}
           drifts == o.traps \/ Drifted(p, o.decls)
<1>1. /\ UNCHANGED <<guest, call, ran>> /\ Perform(p, o) /\ depth > 0 /\ ~ Pruned(p)
      /\ call.op = "discover" \/ depth < Len(call.path)
      /\ slots[p].resolved /\ TypeInv
      /\ IF drifts THEN phase' = "return" ELSE Activate(p, state) /\ Continue(S, self)
  BY <1>0 DEF Replay, NeedsChildren, GiveUp, Answer, ReplayInv
<1>2. wayward \subseteq wayward' /\ (clean' => clean)
  BY <1>1, PerformStrays
<1>3. ASSUME clean', Unexcused'
      PROVE  \/ phase' = "walk" /\ Reachable(Here)' /\ state.hooks = Body(p).hooks
             \/ phase' = "return" /\ WithoutIds(answer') = Fresh(call)
  <2>1. clean /\ Unexcused /\ ~ o.traps /\ o.decls = Body(slots[p].code).decls
    BY <1>1, <1>2, <1>3, Behaves, UnexcusedBefore
  <2>2. /\ p \in DOMAIN slots /\ p \in Path /\ p # <<>> /\ slots[p] \in Slot /\ Faithful(slots, p)
        /\ slots[p].code = p /\ ~ Straying(p) /\ ~ Apart(p) /\ Sound(p)
        /\ ModeOf(p) = Written(p).mode /\ Reachable(p)
    BY <1>0, <1>1, <2>1, WayIsFaithful DEF WayInv
  <2>3. ~ Drifted(p, o.decls) /\ Counts(S, p) /\ Tells(S, p)
    <3>1. S = HandleHints(p, o.decls) /\ o.decls = Body(p).decls
      BY <2>1, <2>2
    <3> HIDE DEF S
    <3> QED BY <1>1, <2>2, <3>1, ReplayAsWritten
  <2>4. b = Body(p) /\ b.mark = "normal" /\ ~ b.hint
    BY <2>2 DEF Straying, Undeclared, SelfMarked
  <2>5. state.hooks = Body(p).hooks
    BY <2>4
  <2>6. Bare(self) = {Plain(q) : q \in {p} \ {<<>>}}
    <3> DEFINE m == state.mode
               h == slots[p].hinted \/ b.hint
    <3>1. slots[p].base = Written(p).mode /\ slots[p].hinted = Written(p).handle
          /\ slots[p].hinted \in BOOLEAN
      BY <2>2, <2>4 DEF Faithful, AsWritten, Slot
    <3>2. m = Written(p).mode
      BY <2>4, <3>1
    <3>3. h = Written(p).handle
      BY <2>4, <3>1
    <3> HIDE DEF m, h
    <3>4. Bare({Report(p, slots, m, h)}) = {Plain(q) : q \in {p} \ {<<>>}}
      <4>1. p # <<>>
        BY <2>2
      <4> QED BY <3>2, <3>3, <4>1, BareSelf
    <3> QED BY <3>4 DEF m, h
  <2>7. p # <<>> => Written(p).mode # "skip"
    BY <1>1, <2>2 DEF Pruned
  <2>8. Continue(S, self)
    BY <1>1, <2>1, <2>3
  <2> HIDE DEF self, S
  <2>9. \/ phase' = "walk" /\ depth' = depth + 1 /\ \E q : q = Here' /\ Reachable(q)
        \/ phase' = "return" /\ WithoutIds(answer') = Fresh(call)
    BY <1>0, <1>1, <2>2, <2>3, <2>6, <2>7, <2>8, ContinueAgrees
  <2>10. (\E q : q = Here' /\ Reachable(q)) => Reachable(Here)'
    BY <1>1, TextSame
  <2> QED BY <2>5, <2>9, <2>10
<1>4. phase' = "return" \/ (phase' = "walk" /\ depth' = depth + 1 /\ Activate(p, state))
  <2> HIDE DEF S, self, state, drifts
  <2> QED BY <1>1, ContinueEither
<1> HIDE DEF S, self, state
<1>5. CASE phase' = "return"
  BY <1>1, <1>3, <1>5, AgreeOnAnswer
<1>6. CASE phase' # "return"
  BY <1>0, <1>1, <1>2, <1>3, <1>4, <1>6, AgreeOnWay
<1> QED BY <1>5, <1>6

\* The inductive invariant: the registry, what it says of the program, and what
\* the walk has replayed.
AgreementInv == ReplayInv /\ TextInv /\ RootInv /\ WayInv /\ RepeatedCallsAgree

\* It holds of a fresh instance.
LEMMA InitAgreement ==
  ASSUME Init
  PROVE  AgreementInv
<1>1. phase = "idle"
  BY DEF Init
<1>2. WayInv /\ RepeatedCallsAgree
  BY <1>1 DEF WayInv, RepeatedCallsAgree
<1> QED BY <1>2, InitInv, InitText DEF AgreementInv

\* Every step keeps it.
LEMMA AgreementStep ==
  ASSUME AgreementInv, [Next]_vars
  PROVE  AgreementInv'
<1>1. ReplayInv' /\ TextInv' /\ RootInv'
  BY StepInv, TextStep DEF AgreementInv
<1>2. WayInv' /\ RepeatedCallsAgree'
  <2>1. ASSUME NEW op \in {"discover", "run"}, NEW p \in CallPaths, HostCall(op, p)
        PROVE  WayInv' /\ RepeatedCallsAgree'
    BY <2>1, AgreeCall DEF AgreementInv
  <2>2. CASE EnterRoot
    BY <2>2, AgreeRoot DEF AgreementInv
  <2>3. CASE StopAtSkipped
    BY <2>3, AgreeSkipped DEF AgreementInv
  <2>4. ASSUME phase = "walk", NEW o \in Performances(slots[Here].code), ResolveFirst(o)
        PROVE  WayInv' /\ RepeatedCallsAgree'
    BY <2>4, AgreeFirst DEF AgreementInv
  <2>5. ASSUME phase = "walk", NEW o \in Performances(slots[Here].code), Replay(o)
        PROVE  WayInv' /\ RepeatedCallsAgree'
    BY <2>5, AgreeReplay DEF AgreementInv
  <2>6. ASSUME phase = "walk", NEW o \in Performances(slots[Here].code), RunTarget(o)
        PROVE  WayInv' /\ RepeatedCallsAgree'
    BY <2>6, AgreeRun DEF AgreementInv
  <2>7. CASE RunSuppressed
    BY <2>7, AgreeSuppressed DEF AgreementInv
  <2>8. CASE RunRoot
    BY <2>8, AgreeRunRoot DEF AgreementInv
  <2>9. CASE Return
    <3>1. phase' = "idle"
      BY <2>9 DEF Return
    <3> QED BY <3>1 DEF WayInv, RepeatedCallsAgree
  <2>10. CASE UNCHANGED vars
    <3>1. /\ UNCHANGED <<guest, slots, replay, depth, phase, answer, call, clean, ran, wayward>>
          /\ wayward \subseteq wayward'
      BY <2>10 DEF vars, walkVars, history
    <3>2. CASE phase = "return"
      <4>1. RunOfResolved' <=> RunOfResolved
        BY <3>1 DEF RunOfResolved
      <4>2. clean' /\ Unexcused' /\ ~ RunOfResolved' /\ ~ RootMarked =>
              WithoutIds(answer') = Fresh(call)
        <5>1. Unexcused' => Unexcused
          BY <3>1, UnexcusedBefore
        <5>2. RepeatedCallsAgree
          BY DEF AgreementInv
        <5> QED BY <3>1, <3>2, <4>1, <5>1, <5>2, RootSiblings
              DEF RepeatedCallsAgree, Unexcused, Straying, RootMarked
      <4> QED BY <3>1, <3>2, <4>2, AgreeOnAnswer
    <3>3. CASE phase # "return"
      <4>1. Here' = Here
        BY <3>1 DEF Here
      <4>2. (Reachable(Here)' <=> Reachable(Here)) /\ \A q : Body(q)' = Body(q)
        BY <3>1, <4>1, TextSame
      <4>3. Unexcused' => Unexcused
        BY <3>1, UnexcusedBefore
      <4>4. WayInv /\ (phase = "walk" => WayInv')
        BY <3>1, <4>2, <4>3 DEF AgreementInv, WayInv
      <4>5. WayInv'
        BY <3>1, <4>4 DEF WayInv
      <4> QED BY <3>1, <3>3, <4>5 DEF RepeatedCallsAgree
    <3> QED BY <3>2, <3>3
  <2> QED BY <2>1, <2>2, <2>3, <2>4, <2>5, <2>6, <2>7, <2>8, <2>9, <2>10 DEF Next
<1> QED BY <1>1, <1>2 DEF AgreementInv

\* A call in which every body behaves is answered as if it were the first of its
\* instance, whatever trapped before and whatever declared something else off its
\* path, for all programs that mark and hint in declarations only, and unless a
\* top-level node's body declared again in a run what it had declared before
\* (resolveTraversalChildren, matchesDeclarationShape).
THEOREM CallsAgree == Spec => []RepeatedCallsAgree
<1>1. AgreementInv => RepeatedCallsAgree
  BY DEF AgreementInv
<1> QED BY <1>1, InitAgreement, AgreementStep, PTL DEF Spec

=============================================================================

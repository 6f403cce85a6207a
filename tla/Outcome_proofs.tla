-------------------------- MODULE Outcome_proofs --------------------------
(***************************************************************************)
(* What those outside the guest are left with.  A process leaves           *)
(* directories and an exit code (RunCommand, here as P): that it cleans up *)
(* after itself and tells the run by its code, for every argument list and *)
(* any number of steps that fail (the runs bound them by MaxFaults).  A    *)
(* session leaves the snapshot files (Snapshots): that what it writes is   *)
(* what the next one reads, for every program, every file that there may   *)
(* be at first and every sequence of characters.  A call leaves the        *)
(* callbacks with events (HostEvents, here as E): that they get what the   *)
(* guest has written, for every event, with any callbacks and in any       *)
(* number of calls.                                                        *)
(***************************************************************************)
EXTENDS Snapshots, ProcessOutcome, CallbackView, TLAPS, SequenceTheorems, FiniteSetTheorems,
        WellFoundedInduction

-----------------------------------------------------------------------------
(* Sequences. *)

\* A nonempty set of naturals has a least member.
LEMMA LeastNatural ==
  ASSUME NEW S \in SUBSET Nat, S # {}
  PROVE  \E m \in S : \A n \in S : m <= n
<1> DEFINE Less == {ss \in Nat \X Nat : ss[1] < ss[2]}
<1>1. IsWellFoundedOn(Less, Nat)
  BY NatLessThanWellFounded, Zenon DEF OpToRel
<1>2. PICK m \in S : \A n \in S : ~ (<<n, m>> \in Less)
  <2> HIDE DEF Less
  <2> QED BY <1>1, WFMin
<1>3. ASSUME NEW n \in S PROVE m <= n
  <2>1. ~ (n < m)
    BY <1>2
  <2> QED BY <2>1
<1> QED BY <1>3

\* Induction up to m, over a set.
LEMMA UpTo ==
  ASSUME NEW m \in Nat, NEW S, 0 \in S, \A n \in 0..m : n < m /\ n \in S => n + 1 \in S
  PROVE  \A n \in 0..m : n \in S
<1> SUFFICES ASSUME \E n \in 0..m : n \notin S PROVE FALSE
  OBVIOUS
<1> DEFINE Bad == {n \in 0..m : n \notin S}
<1>1. PICK b \in Bad : \A n \in Bad : b <= n
  <2>1. Bad \subseteq Nat /\ Bad # {}
    OBVIOUS
  <2> HIDE DEF Bad
  <2> QED BY <2>1, LeastNatural
<1>2. b # 0 /\ b \in 0..m
  OBVIOUS
<1>3. b - 1 \in 0..m /\ b - 1 < m /\ b - 1 + 1 = b
  BY <1>2
<1>4. b - 1 \in S
  BY <1>1, <1>3
<1>5. b \in S
  BY <1>3, <1>4
<1> QED BY <1>5

\* f is what m steps make of a, the n-th step being step[n, .].
Steps(f, m, a, step) == f[0] = a /\ \A n \in 1..m : f[n] = step[<<n, f[n - 1]>>]

LEMMA StepsExist ==
  ASSUME NEW m \in Nat, NEW S, NEW a \in S, NEW step \in [(1..m) \X S -> S]
  PROVE  \E f \in [0..m -> S] : Steps(f, m, a, step)
<1> DEFINE Good == {k \in 0..m : \E f \in [0..k -> S] : Steps(f, k, a, step)}
<1>1. 0 \in Good
  <2> DEFINE f == [n \in 0..0 |-> a]
  <2>1. f \in [0..0 -> S] /\ Steps(f, 0, a, step)
    BY DEF Steps
  <2>2. 0 \in 0..m
    OBVIOUS
  <2> HIDE DEF f
  <2> QED BY <2>1, <2>2
<1>2. ASSUME NEW k \in 0..m, k < m, k \in Good PROVE k + 1 \in Good
  <2>1. PICK f \in [0..k -> S] : Steps(f, k, a, step)
    BY <1>2
  <2> DEFINE z == step[<<k + 1, f[k]>>]
             g == [n \in 0..(k + 1) |-> IF n = k + 1 THEN z ELSE f[n]]
  <2>2. z \in S
    <3>1. k + 1 \in 1..m /\ f[k] \in S
      BY <1>2
    <3> QED BY <3>1
  <2> HIDE DEF z
  <2>3. g \in [0..(k + 1) -> S]
    BY <2>2
  <2>4. g[0] = a
    BY <2>1 DEF Steps
  <2>5. ASSUME NEW n \in 1..(k + 1) PROVE g[n] = step[<<n, g[n - 1]>>]
    <3>1. n - 1 \in 0..k /\ n - 1 \in 0..(k + 1) /\ n - 1 # k + 1 /\ n \in 0..(k + 1)
      OBVIOUS
    <3>2. g[n - 1] = f[n - 1]
      BY <3>1
    <3>3. CASE n = k + 1
      BY <3>1, <3>2, <3>3 DEF z
    <3>4. CASE n # k + 1
      <4>1. n \in 1..k /\ g[n] = f[n]
        BY <3>1, <3>4
      <4> QED BY <2>1, <3>2, <4>1 DEF Steps
    <3> QED BY <3>3, <3>4
  <2>6. Steps(g, k + 1, a, step)
    BY <2>4, <2>5 DEF Steps
  <2>7. k + 1 \in 0..m
    BY <1>2
  <2> HIDE DEF g
  <2> QED BY <2>3, <2>6, <2>7
<1> HIDE DEF Good
<1>3. \A k \in 0..m : k \in Good
  BY <1>1, <1>2, UpTo
<1>4. m \in Good
  BY <1>3
<1> QED BY <1>4 DEF Good

LEMMA SequencesAreThat ==
  ASSUME NEW S, NEW s \in Seq(S)
  PROVE  IsSequence(s)
<1>1. Len(s) \in Nat /\ DOMAIN s = 1..Len(s) /\ s \in [1..Len(s) -> S]
  BY LenProperties
<1>2. s \in [1..Len(s) -> ToSet(s)]
  BY <1>1 DEF ToSet
<1> QED BY <1>1, <1>2, SeqDef DEF IsSequence

LEMMA SequenceIs ==
  ASSUME NEW s, IsSequence(s)
  PROVE  /\ Len(s) \in Nat /\ DOMAIN s = 1..Len(s) /\ s \in Seq(ToSet(s))
         /\ \A i \in 1..Len(s) : s[i] \in ToSet(s)
BY LenProperties DEF IsSequence, ToSet

\* The sequences that FlattenSeq comes by.
LEMMA FlattenSteps ==
  ASSUME NEW S, NEW q \in Seq(Seq(S))
  PROVE  \E g \in [0..Len(q) -> Seq(S)] :
           /\ g[0] = <<>> /\ \A i \in 1..Len(q) : g[i] = g[i - 1] \o q[i]
           /\ FlattenSeq(q) = g[Len(q)]
<1> DEFINE n == Len(q)
           step == [x \in (1..n) \X Seq(S) |-> x[2] \o q[x[1]]]
<1>1. n \in Nat /\ DOMAIN q = 1..n /\ \A i \in 1..n : q[i] \in Seq(S)
  BY LenProperties, ElementOfSeq
<1>2. <<>> \in Seq(S)
  OBVIOUS
<1> HIDE DEF n
<1>3. step \in [(1..n) \X Seq(S) -> Seq(S)]
  <2>1. ASSUME NEW x \in (1..n) \X Seq(S) PROVE x[2] \o q[x[1]] \in Seq(S)
    BY <1>1, ConcatProperties
  <2> QED BY <2>1
<1>4. PICK g \in [0..n -> Seq(S)] : Steps(g, n, <<>>, step)
  <2> HIDE DEF step
  <2> QED BY <1>1, <1>2, <1>3, StepsExist
<1>5. g[0] = <<>> /\ \A i \in 1..n : g[i] = g[i - 1] \o q[i]
  <2>1. ASSUME NEW i \in 1..n PROVE g[i] = g[i - 1] \o q[i]
    <3>1. i - 1 \in 0..n /\ g[i - 1] \in Seq(S)
      BY <1>1
    <3>2. g[i] = step[<<i, g[i - 1]>>]
      BY <1>4 DEF Steps
    <3> QED BY <3>1, <3>2
  <2> QED BY <1>4, <2>1 DEF Steps
<1>6. FlattenSeq(q) = g[n]
  <2>1. CASE n = 0
    <3>1. q = <<>>
      BY <2>1, EmptySeq DEF n
    <3>2. FlattenSeq(q) = q
      BY <2>1 DEF FlattenSeq, n
    <3> QED BY <1>5, <2>1, <3>1, <3>2
  <2>2. CASE n # 0
    <3> DEFINE Is(f) == f = [i \in 1..n |-> IF i = 1 THEN q[i] ELSE f[i - 1] \o q[i]]
               flat == CHOOSE f : Is(f)
               h == [i \in 1..n |-> g[i]]
    <3>1. FlattenSeq(q) = flat[n]
      BY <2>2 DEF FlattenSeq, n
    <3>2. ASSUME NEW i \in 1..n PROVE h[i] = IF i = 1 THEN q[i] ELSE h[i - 1] \o q[i]
      <4>1. CASE i = 1
        <5>1. 1 \in 1..n /\ q[1] \in Seq(S)
          BY <1>1, <4>1
        <5>2. g[1] = g[0] \o q[1] /\ g[0] = <<>>
          <6>1. g[1] = g[1 - 1] \o q[1]
            BY <1>5, <5>1
          <6>2. 1 - 1 = 0
            OBVIOUS
          <6>3. g[1 - 1] = g[0]
            BY <6>2, Zenon
          <6> QED BY <1>5, <6>1, <6>3, Zenon
        <5>3. g[1] = q[1]
          BY <5>1, <5>2, ConcatEmptySeq
        <5> QED BY <4>1, <5>1, <5>3
      <4>2. CASE i # 1
        <5>1. i - 1 \in 1..n
          BY <1>1, <4>2
        <5> QED BY <1>5, <4>2, <5>1
      <4> QED BY <4>1, <4>2
    <3>3. Is(h)
      <4>1. h = [i \in 1..n |-> h[i]]
        OBVIOUS
      <4> HIDE DEF h
      <4>2. h = [i \in 1..n |-> IF i = 1 THEN q[i] ELSE h[i - 1] \o q[i]]
        BY <3>2, <4>1, Zenon
      <4> QED BY <4>2
    <3>4. Is(flat)
      <4> HIDE DEF Is, h
      <4> QED BY <3>3
    <3> HIDE DEF flat
    <3>5. ASSUME NEW i \in 1..n PROVE flat[i] = IF i = 1 THEN q[i] ELSE flat[i - 1] \o q[i]
      BY <3>4
    <3> DEFINE Same == {0} \cup {i \in 1..n : flat[i] = g[i]}
    <3>6. ASSUME NEW i \in 0..n, i < n, i \in Same PROVE i + 1 \in Same
      <4> DEFINE j == i + 1
      <4>1. j \in 1..n /\ j - 1 = i
        BY <1>1, <3>6
      <4> HIDE DEF j
      <4>2. CASE i = 0
        <5>1. j = 1 /\ flat[j] = q[j]
          BY <3>5, <4>1, <4>2
        <5>2. h[j] = q[j] /\ h[j] = g[j]
          BY <3>2, <4>1, <5>1
        <5> QED BY <4>1, <5>1, <5>2 DEF j
      <4>3. CASE i # 0
        <5>1. j # 1 /\ flat[i] = g[i]
          BY <1>1, <3>6, <4>1, <4>3
        <5>2. flat[j] = flat[i] \o q[j] /\ g[j] = g[i] \o q[j]
          BY <1>5, <3>5, <4>1, <5>1
        <5> QED BY <4>1, <5>1, <5>2 DEF j
      <4> QED BY <4>2, <4>3
    <3> HIDE DEF Same
    <3>7. \A i \in 0..n : i \in Same
      <4>1. 0 \in Same
        BY DEF Same
      <4> QED BY <1>1, <3>6, <4>1, UpTo
    <3>8. flat[n] = g[n]
      <4>1. n \in 0..n
        BY <1>1
      <4> QED BY <1>1, <2>2, <3>7, <4>1 DEF Same
    <3> QED BY <3>1, <3>8
  <2> QED BY <2>1, <2>2
<1> QED BY <1>5, <1>6 DEF n

-----------------------------------------------------------------------------
(* Reading a literal. *)

ReadStart == [value |-> <<>>, escape |-> FALSE, good |-> TRUE]

\* r is what readTemplateLiteral has read of t, character by character.
Reading(r, t) ==
  /\ r = [i \in 0..Len(t) |-> r[i]] /\ r[0] = ReadStart
  /\ \A i \in 1..Len(t) : r[i] = ReadCharacter(r[i - 1], t, i)

Readable(t) == ToSet(t) \cup {"newline", "return", "tab"}

\* A literal of characters is read to characters.
LEMMA ReadIs ==
  ASSUME NEW t, IsSequence(t)
  PROVE  \E r : Reading(r, t) /\ Read(t) = r[Len(t)] /\ Read(t).value \in Seq(Readable(t))
<1> DEFINE n == Len(t)
           C == Readable(t)
           S == [value : Seq(C), escape : BOOLEAN, good : BOOLEAN]
           step == [x \in (1..n) \X S |-> ReadCharacter(x[2], t, x[1])]
           Is(r) == r = [i \in 0..n |-> IF i = 0 THEN ReadStart ELSE ReadCharacter(r[i - 1], t, i)]
           read == CHOOSE r : Is(r)
<1>1. n \in Nat /\ \A i \in 1..n : t[i] \in C /\ Escaped(t[i]) \in C
  BY SequenceIs DEF Escaped, Readable
<1>2. Read(t) = read[n]
  BY DEF Read, ReadStart
<1> HIDE DEF n, C
<1>3. ReadStart \in S
  BY DEF ReadStart
<1>4. ASSUME NEW a \in S, NEW i \in 1..n PROVE ReadCharacter(a, t, i) \in S
  <2>1. Append(a.value, t[i]) \in Seq(C) /\ Append(a.value, Escaped(t[i])) \in Seq(C)
    BY <1>1, AppendProperties
  <2> QED BY <2>1 DEF ReadCharacter
<1>5. step \in [(1..n) \X S -> S]
  <2> HIDE DEF S
  <2> QED BY <1>4
<1>6. PICK r \in [0..n -> S] : Steps(r, n, ReadStart, step)
  <2> HIDE DEF step, S
  <2> QED BY <1>1, <1>3, <1>5, StepsExist
<1>7. r[0] = ReadStart /\ \A i \in 1..n : r[i] = ReadCharacter(r[i - 1], t, i)
  <2> HIDE DEF S
  <2>1. ASSUME NEW i \in 1..n PROVE r[i] = ReadCharacter(r[i - 1], t, i)
    <3>1. i - 1 \in 0..n /\ r[i - 1] \in S
      BY <1>1
    <3>2. r[i] = step[<<i, r[i - 1]>>]
      BY <1>6 DEF Steps
    <3> QED BY <3>1, <3>2
  <2> QED BY <1>6, <2>1 DEF Steps
<1>8. Is(r)
  <2>1. r = [i \in 0..n |-> r[i]]
    OBVIOUS
  <2>2. ASSUME NEW i \in 0..n
        PROVE  r[i] = IF i = 0 THEN ReadStart ELSE ReadCharacter(r[i - 1], t, i)
    <3>1. i # 0 => i \in 1..n
      BY <1>1
    <3> QED BY <1>7, <3>1
  <2>3. r = [i \in 0..n |-> IF i = 0 THEN ReadStart ELSE ReadCharacter(r[i - 1], t, i)]
    BY <2>1, <2>2, Zenon
  <2> QED BY <2>3
<1>9. Is(read)
  <2> HIDE DEF Is
  <2> QED BY <1>8
<1> HIDE DEF read
<1>10. Reading(read, t)
  <2>1. read = [i \in 0..n |-> read[i]]
    BY <1>9
  <2>2. read[0] = ReadStart
    <3>1. 0 \in 0..n
      BY <1>1
    <3> QED BY <1>9, <3>1
  <2>3. ASSUME NEW i \in 1..n PROVE read[i] = ReadCharacter(read[i - 1], t, i)
    <3>1. i \in 0..n /\ i # 0
      BY <1>1
    <3> QED BY <1>9, <3>1
  <2> QED BY <2>1, <2>2, <2>3 DEF Reading, n
<1>11. read[n].value \in Seq(C)
  <2> DEFINE Good == {i \in 0..n : read[i] \in S}
  <2>1. 0 \in Good
    BY <1>1, <1>3, <1>10 DEF Reading
  <2>2. ASSUME NEW i \in 0..n, i < n, i \in Good PROVE i + 1 \in Good
    <3> DEFINE j == i + 1
    <3>1. j \in 1..n /\ j \in 0..n /\ j - 1 = i
      BY <1>1, <2>2
    <3> HIDE DEF j, S
    <3>2. read[j] = ReadCharacter(read[i], t, j)
      <4>1. read[j] = ReadCharacter(read[j - 1], t, j)
        BY <1>10, <3>1 DEF Reading, n
      <4> QED BY <3>1, <4>1, Zenon
    <3>3. read[j] \in S
      BY <1>4, <2>2, <3>1, <3>2
    <3> QED BY <3>1, <3>3 DEF j
  <2> HIDE DEF Good
  <2>3. \A i \in 0..n : i \in Good
    BY <1>1, <2>1, <2>2, UpTo
  <2>4. n \in Good
    BY <1>1, <2>3
  <2> QED BY <2>4 DEF Good
<1> QED BY <1>2, <1>10, <1>11 DEF n, C

LEMMA ReadGivesSequence ==
  ASSUME NEW t, IsSequence(t)
  PROVE  IsSequence(Read(t).value)
BY ReadIs, SequencesAreThat

\* Steps that append keep what they began with.
LEMMA PrefixesStay ==
  ASSUME NEW S, NEW n \in Nat, NEW g \in [0..n -> Seq(S)], NEW q \in [1..n -> Seq(S)],
         \A i \in 1..n : g[i] = g[i - 1] \o q[i],
         NEW i \in 0..n
  PROVE  \A k \in 1..Len(g[i]) : Len(g[i]) <= Len(g[n]) /\ g[n][k] = g[i][k]
<1> DEFINE Good == {j \in 0..n : i <= j =>
               Len(g[i]) <= Len(g[j]) /\ \A k \in 1..Len(g[i]) : g[j][k] = g[i][k]}
<1>1. \A j \in 0..n : g[j] \in Seq(S) /\ Len(g[j]) \in Nat
  BY LenProperties
<1>2. 0 \in Good
  <2>1. 0 \in 0..n /\ (i <= 0 => i = 0)
    OBVIOUS
  <2> QED BY <1>1, <2>1
<1>3. ASSUME NEW j \in 0..n, j < n, j \in Good PROVE j + 1 \in Good
  <2> DEFINE m == j + 1
  <2>1. m \in 1..n /\ m \in 0..n /\ m - 1 = j
    BY <1>3
  <2> HIDE DEF m
  <2>2. g[m] = g[j] \o q[m] /\ q[m] \in Seq(S)
    <3>1. g[m] = g[m - 1] \o q[m]
      BY <2>1
    <3> QED BY <2>1, <3>1, Zenon
  <2>3. /\ Len(g[j]) <= Len(g[m]) /\ \A k \in 1..Len(g[j]) : g[m][k] = g[j][k]
    BY <1>1, <2>2, ConcatProperties, LenProperties
  <2>4. CASE i <= j
    <3>1. Len(g[i]) <= Len(g[j]) /\ \A k \in 1..Len(g[i]) : g[j][k] = g[i][k]
      BY <1>3, <2>4
    <3>2. Len(g[i]) \in Nat /\ Len(g[j]) \in Nat /\ Len(g[m]) \in Nat
      BY <1>1, <2>1
    <3> QED BY <2>1, <2>3, <3>1, <3>2 DEF m
  <2>5. CASE ~ (i <= j)
    <3>1. i <= m => i = m
      BY <2>1, <2>5
    <3>2. Len(g[i]) \in Nat
      BY <1>1
    <3>3. m \in Good
      BY <2>1, <3>1, <3>2
    <3> QED BY <3>3 DEF m
  <2> QED BY <2>4, <2>5
<1> HIDE DEF Good
<1>4. \A j \in 0..n : j \in Good
  BY <1>2, <1>3, UpTo
<1>5. n \in Good /\ i <= n
  BY <1>4
<1> QED BY <1>5 DEF Good

NeedsEscape(t, i) ==
  t[i] \in {"backslash", "quote"} \/ (t[i] = "dollar" /\ i < Len(t) /\ t[i + 1] = "brace")

Chunk(t, i) == IF NeedsEscape(t, i) THEN <<"backslash", t[i]>> ELSE <<t[i]>>

\* An escaped text, chunk by chunk: g tells how far it has come.
Escaping(g, t) ==
  /\ \A i \in 0..Len(t) : Len(g[i]) \in Nat /\ Len(g[i]) <= Len(Escape(t))
  /\ Len(g[0]) = 0 /\ Len(g[Len(t)]) = Len(Escape(t))
  /\ \A i \in 1..Len(t) :
       LET l == Len(g[i - 1])
       IN  IF NeedsEscape(t, i)
           THEN Len(g[i]) = l + 2 /\ Escape(t)[l + 1] = "backslash" /\ Escape(t)[l + 2] = t[i]
           ELSE Len(g[i]) = l + 1 /\ Escape(t)[l + 1] = t[i]

LEMMA EscapeIs ==
  ASSUME NEW t, IsSequence(t)
  PROVE  IsSequence(Escape(t)) /\ \E g : Escaping(g, t)
<1> DEFINE n == Len(t)
           S == ToSet(t) \cup {"backslash"}
           q == [i \in DOMAIN t |-> Chunk(t, i)]
           e == Escape(t)
<1>1. n \in Nat /\ DOMAIN t = 1..n /\ \A i \in 1..n : t[i] \in S
  BY SequenceIs
<1>2. e = FlattenSeq(q)
  BY DEF Escape, Chunk, NeedsEscape
<1>3. \A i \in 1..n : Chunk(t, i) \in Seq(S)
  <2> SUFFICES ASSUME NEW i \in 1..n PROVE Chunk(t, i) \in Seq(S)
    OBVIOUS
  <2>1. t[i] \in S /\ "backslash" \in S
    BY <1>1
  <2> HIDE DEF S
  <2>2. <<"backslash", t[i]>> \in Seq(S) /\ <<t[i]>> \in Seq(S)
    BY <2>1
  <2> QED BY <2>2 DEF Chunk
<1> HIDE DEF n, S
<1>4. q = [i \in 1..n |-> Chunk(t, i)]
  BY <1>1
<1> HIDE DEF q
<1>5. q \in [1..n -> Seq(S)] /\ q \in Seq(Seq(S)) /\ Len(q) = n
  <2>1. q \in [1..n -> Seq(S)]
    BY <1>3, <1>4
  <2> HIDE DEF S
  <2> QED BY <1>1, <2>1, SeqDef, LenProperties
<1>6. PICK g \in [0..n -> Seq(S)] :
           /\ g[0] = <<>> /\ \A i \in 1..n : g[i] = g[i - 1] \o q[i]
           /\ e = g[n]
  BY <1>2, <1>5, FlattenSteps
<1> HIDE DEF e
<1>7. /\ e \in Seq(S) /\ Len(e) \in Nat /\ n \in 0..n
      /\ \A i \in 0..n : g[i] \in Seq(S) /\ Len(g[i]) \in Nat
  BY <1>1, <1>6, LenProperties
<1>8. \A i \in 0..n : Len(g[i]) <= Len(e) /\ \A k \in 1..Len(g[i]) : e[k] = g[i][k]
  <2> SUFFICES ASSUME NEW i \in 0..n
               PROVE  Len(g[i]) <= Len(e) /\ \A k \in 1..Len(g[i]) : e[k] = g[i][k]
    OBVIOUS
  <2>1. \A k \in 1..Len(g[i]) : Len(g[i]) <= Len(g[n]) /\ g[n][k] = g[i][k]
    <3>1. g \in [0..n -> Seq(S)] /\ \A k \in 1..n : g[k] = g[k - 1] \o q[k]
      BY <1>6
    <3>2. n \in Nat /\ q \in [1..n -> Seq(S)]
      BY <1>1, <1>5
    <3> QED BY <3>1, <3>2, PrefixesStay
  <2>2. Len(g[i]) = 0 \/ Len(g[i]) \in 1..Len(g[i])
    BY <1>7
  <2> QED BY <1>6, <1>7, <2>1, <2>2
<1>9. ASSUME NEW i \in 1..n
      PROVE  IF NeedsEscape(t, i)
             THEN /\ Len(g[i]) = Len(g[i - 1]) + 2 /\ e[Len(g[i - 1]) + 1] = "backslash"
                  /\ e[Len(g[i - 1]) + 2] = t[i]
             ELSE Len(g[i]) = Len(g[i - 1]) + 1 /\ e[Len(g[i - 1]) + 1] = t[i]
  <2> DEFINE a == g[i - 1]
             c == q[i]
             l == Len(a)
  <2>1. i \in 0..n /\ i - 1 \in 0..n
    BY <1>1
  <2>2. a \in Seq(S) /\ l \in Nat /\ c \in Seq(S) /\ c = Chunk(t, i)
    BY <1>4, <1>5, <1>7, <2>1
  <2>3. g[i] = a \o c /\ Len(g[i]) = l + Len(c)
    <3>1. g[i] = a \o c
      BY <1>6
    <3> HIDE DEF a, c
    <3> QED BY <2>2, <3>1, ConcatProperties
  <2> HIDE DEF a, c
  <2>4. \A k \in 1..Len(c) : e[l + k] = c[k]
    <3> SUFFICES ASSUME NEW k \in 1..Len(c) PROVE e[l + k] = c[k]
      OBVIOUS
    <3>0. Len(c) \in Nat
      BY <2>2, LenProperties
    <3>1. l + k \in 1..Len(g[i]) /\ l + k > l /\ l + k - l = k
      BY <2>2, <2>3, <3>0
    <3>2. e[l + k] = g[i][l + k]
      BY <1>8, <2>1, <3>1
    <3>3. (a \o c)[l + k] = c[k]
      BY <2>2, <2>3, <3>1, ConcatProperties
    <3> QED BY <2>3, <3>2, <3>3
  <2>5. CASE NeedsEscape(t, i)
    <3>1. c = <<"backslash", t[i]>>
      BY <2>2, <2>5 DEF Chunk
    <3>2. Len(c) = 2 /\ c[1] = "backslash" /\ c[2] = t[i]
      BY <3>1
    <3> QED BY <2>3, <2>4, <2>5, <3>2 DEF a
  <2>6. CASE ~ NeedsEscape(t, i)
    <3>1. c = <<t[i]>>
      BY <2>2, <2>6 DEF Chunk
    <3>2. Len(c) = 1 /\ c[1] = t[i]
      BY <3>1
    <3> QED BY <2>3, <2>4, <2>6, <3>2 DEF a
  <2> QED BY <2>5, <2>6
<1>10. IsSequence(e)
  BY <1>7, SequencesAreThat
<1>11. Len(g[0]) = 0 /\ Len(g[n]) = Len(e)
  BY <1>6
<1>12. Escaping(g, t)
  BY <1>7, <1>8, <1>9, <1>11 DEF Escaping, e, n
<1> QED BY <1>10, <1>12 DEF e

LEMMA ReadsPlain ==
  ASSUME NEW a, NEW t, NEW i, a.escape = FALSE, a.good = TRUE, t[i] \notin {"backslash", "quote"}
  PROVE  ReadCharacter(a, t, i) = [value |-> Append(a.value, t[i]), escape |-> FALSE, good |-> TRUE]
<1>1. (a.good /\ t[i] # "quote") = TRUE
  OBVIOUS
<1>2. ReadCharacter(a, t, i) = [value |-> Append(a.value, t[i]), escape |-> FALSE,
                               good |-> (a.good /\ t[i] # "quote")]
  BY DEF ReadCharacter
<1> QED BY <1>1, <1>2, Zenon

LEMMA ReadsEscaped ==
  ASSUME NEW a, NEW t, NEW i, a.escape = TRUE, a.good = TRUE,
         t[i] \in {"backslash", "quote"} \/ (t[i] = "dollar" /\ i < Len(t) /\ t[i + 1] = "brace")
  PROVE  ReadCharacter(a, t, i) = [value |-> Append(a.value, t[i]), escape |-> FALSE, good |-> TRUE]
<1> DEFINE good == /\ a.good
                   /\ \/ t[i] \in {"backslash", "quote", "n", "r", "t"}
                      \/ t[i] = "dollar" /\ i < Len(t) /\ t[i + 1] = "brace"
<1>1. good = TRUE
  OBVIOUS
<1>2. ReadCharacter(a, t, i)
        = [value |-> Append(a.value, Escaped(t[i])), escape |-> FALSE, good |-> good]
  BY DEF ReadCharacter
<1>3. Escaped(t[i]) = t[i]
  BY DEF Escaped
<1> HIDE DEF good
<1> QED BY <1>1, <1>2, <1>3, Zenon

\* What is written is read back: escapeTemplateLiteral and readTemplateLiteral are
\* inverse to each other, whatever the characters.
THEOREM EscapeReadsBack ==
  ASSUME NEW t, IsSequence(t)
  PROVE  Read(Escape(t)) = [value |-> t, escape |-> FALSE, good |-> TRUE]
<1> DEFINE n == Len(t)
           S == ToSet(t)
           e == Escape(t)
           So(i) == [value |-> SubSeq(t, 1, i), escape |-> FALSE, good |-> TRUE]
<1>1. /\ n \in Nat /\ DOMAIN t = 1..n /\ t \in Seq(S) /\ \A i \in 1..n : t[i] \in S
      /\ IsSequence(e) /\ Len(e) \in Nat
  BY SequenceIs, EscapeIs
<1>2. PICK g : Escaping(g, t)
  BY EscapeIs
<1>3. PICK r : Reading(r, e) /\ Read(e) = r[Len(e)]
  BY <1>1, ReadIs
<1>4. \A l \in 0..Len(e) : l < Len(e) => r[l + 1] = ReadCharacter(r[l], e, l + 1)
  <2> SUFFICES ASSUME NEW l \in 0..Len(e), l < Len(e)
               PROVE  r[l + 1] = ReadCharacter(r[l], e, l + 1)
    OBVIOUS
  <2> DEFINE m == l + 1
  <2>1. m \in 1..Len(e) /\ m - 1 = l
    BY <1>1
  <2> HIDE DEF m
  <2>2. r[m] = ReadCharacter(r[m - 1], e, m)
    BY <1>3, <2>1 DEF Reading
  <2>3. r[m] = ReadCharacter(r[l], e, m)
    BY <2>1, <2>2, Zenon
  <2> QED BY <2>3 DEF m
<1>5. \A i \in 0..n : i < n => Append(SubSeq(t, 1, i), t[i + 1]) = SubSeq(t, 1, i + 1)
  <2> SUFFICES ASSUME NEW i \in 0..n, i < n
               PROVE  Append(SubSeq(t, 1, i), t[i + 1]) = SubSeq(t, 1, i + 1)
    OBVIOUS
  <2> QED BY <1>1, SubSeqRecursiveSecond, SMT
<1> HIDE DEF e, n, S
<1> DEFINE Good == {i \in 0..n : r[Len(g[i])] = So(i)}
<1>6. 0 \in Good
  <2>1. SubSeq(t, 1, 0) = <<>>
    BY <1>1, SubSeqEmpty
  <2>2. Len(g[0]) = 0 /\ r[0] = ReadStart /\ 0 \in 0..n
    BY <1>1, <1>2, <1>3 DEF Escaping, Reading, n
  <2> QED BY <2>1, <2>2 DEF ReadStart
<1>7. ASSUME NEW i \in 0..n, i < n, i \in Good PROVE i + 1 \in Good
  <2> DEFINE j == i + 1
             l == Len(g[i])
             c == t[j]
  <2>1. j \in 1..n /\ j \in 0..n /\ j - 1 = i
    BY <1>1, <1>7
  <2>2. l \in Nat /\ Len(g[j]) \in Nat /\ Len(g[j]) <= Len(e) /\ r[l] = So(i)
    BY <1>2, <1>7, <2>1 DEF Escaping, e, n
  <2>3. IF NeedsEscape(t, j)
        THEN Len(g[j]) = l + 2 /\ e[l + 1] = "backslash" /\ e[l + 2] = c
        ELSE Len(g[j]) = l + 1 /\ e[l + 1] = c
    <3>1. IF NeedsEscape(t, j)
          THEN /\ Len(g[j]) = Len(g[j - 1]) + 2 /\ e[Len(g[j - 1]) + 1] = "backslash"
               /\ e[Len(g[j - 1]) + 2] = c
          ELSE Len(g[j]) = Len(g[j - 1]) + 1 /\ e[Len(g[j - 1]) + 1] = c
      <4> HIDE DEF j
      <4> QED BY <1>2, <2>1 DEF Escaping, e, n
    <3>2. Len(g[j - 1]) = l
      BY <2>1, Zenon
    <3> HIDE DEF j, l, c
    <3> QED BY <3>1, <3>2
  <2>4. Append(SubSeq(t, 1, i), c) = SubSeq(t, 1, j)
    BY <1>5, <1>7
  <2> HIDE DEF l
  <2>5. CASE ~ NeedsEscape(t, j)
    <3>1. c # "backslash" /\ c # "quote" /\ e[l + 1] = c /\ Len(g[j]) = l + 1
      BY <2>3, <2>5 DEF NeedsEscape
    <3>2. r[l + 1] = ReadCharacter(r[l], e, l + 1)
      BY <1>1, <1>4, <2>2, <3>1
    <3> HIDE DEF c, j
    <3>3. r[l + 1] = [value |-> Append(SubSeq(t, 1, i), c), escape |-> FALSE, good |-> TRUE]
      <4>1. /\ r[l].escape = FALSE /\ r[l].good = TRUE /\ r[l].value = SubSeq(t, 1, i)
            /\ e[l + 1] \notin {"backslash", "quote"}
        BY <2>2, <3>1
      <4>2. r[l + 1] = [value |-> Append(r[l].value, e[l + 1]), escape |-> FALSE, good |-> TRUE]
        BY <3>2, <4>1, ReadsPlain
      <4> QED BY <3>1, <4>1, <4>2
    <3>4. r[Len(g[j])] = So(j)
      BY <2>4, <3>1, <3>3
    <3> QED BY <2>1, <3>4 DEF j
  <2>6. CASE NeedsEscape(t, j)
    <3>1. e[l + 1] = "backslash" /\ e[l + 2] = c /\ Len(g[j]) = l + 2
      BY <2>3, <2>6
    <3>2. /\ r[l + 1] = ReadCharacter(r[l], e, l + 1)
          /\ r[l + 2] = ReadCharacter(r[l + 1], e, l + 2)
      <4>1. /\ l \in 0..Len(e) /\ l < Len(e)
            /\ l + 1 \in 0..Len(e) /\ l + 1 < Len(e) /\ l + 1 + 1 = l + 2
        BY <1>1, <2>2, <3>1
      <4>2. r[l + 1 + 1] = ReadCharacter(r[l + 1], e, l + 1 + 1)
        BY <1>4, <4>1
      <4> QED BY <1>4, <4>1, <4>2
    <3>3. c \in {"backslash", "quote"} \/ (c = "dollar" /\ l + 2 < Len(e) /\ e[l + 2 + 1] = "brace")
      <4>1. CASE c \in {"backslash", "quote"}
        BY <4>1
      <4>2. CASE c = "dollar" /\ j < n /\ t[j + 1] = "brace"
        <5> DEFINE k == j + 1
        <5>1. k \in 1..n /\ k - 1 = j /\ k \in 0..n /\ t[k] = "brace"
          BY <1>1, <2>1, <4>2
        <5> HIDE DEF k, j
        <5>2. ~ NeedsEscape(t, k)
          BY <5>1 DEF NeedsEscape
        <5>3. Len(g[k]) = Len(g[k - 1]) + 1 /\ e[Len(g[k - 1]) + 1] = t[k] /\ Len(g[k]) <= Len(e)
          BY <1>2, <5>1, <5>2 DEF Escaping, e, n
        <5>4. Len(g[k - 1]) = l + 2
          BY <3>1, <5>1
        <5>5. Len(g[k]) = l + 3 /\ e[l + 2 + 1] = "brace"
          BY <2>2, <5>1, <5>3, <5>4
        <5> QED BY <1>1, <2>2, <4>2, <5>3, <5>5
      <4> QED BY <2>6, <4>1, <4>2 DEF NeedsEscape, n
    <3> HIDE DEF c, j
    <3>4. r[l + 1] = [value |-> SubSeq(t, 1, i), escape |-> TRUE, good |-> TRUE]
      BY <2>2, <3>1, <3>2 DEF ReadCharacter
    <3>5. r[l + 2] = [value |-> Append(SubSeq(t, 1, i), c), escape |-> FALSE, good |-> TRUE]
      <4>1. /\ r[l + 1].escape = TRUE /\ r[l + 1].good = TRUE /\ r[l + 1].value = SubSeq(t, 1, i)
            /\ \/ e[l + 2] \in {"backslash", "quote"}
               \/ e[l + 2] = "dollar" /\ l + 2 < Len(e) /\ e[l + 2 + 1] = "brace"
        BY <3>1, <3>3, <3>4
      <4>2. r[l + 2] = [value |-> Append(r[l + 1].value, e[l + 2]), escape |-> FALSE, good |-> TRUE]
        <5> DEFINE a == r[l + 1]
                   k == l + 2
        <5> HIDE DEF a, k
        <5>1. /\ a.escape = TRUE /\ a.good = TRUE
              /\ \/ e[k] \in {"backslash", "quote"}
                 \/ e[k] = "dollar" /\ k < Len(e) /\ e[k + 1] = "brace"
          BY <4>1 DEF a, k
        <5>2. ReadCharacter(a, e, k)
                = [value |-> Append(a.value, e[k]), escape |-> FALSE, good |-> TRUE]
          BY <5>1, ReadsEscaped
        <5> QED BY <3>2, <5>2 DEF a, k
      <4> QED BY <3>1, <4>1, <4>2
    <3>6. r[Len(g[j])] = So(j)
      BY <2>4, <3>1, <3>5
    <3> QED BY <2>1, <3>6 DEF j
  <2> QED BY <2>5, <2>6
<1> HIDE DEF Good
<1>8. \A i \in 0..n : i \in Good
  BY <1>1, <1>6, <1>7, UpTo
<1>9. r[Len(g[n])] = So(n)
  <2>1. n \in 0..n
    BY <1>1
  <2> QED BY <1>8, <2>1 DEF Good
<1>10. Len(g[n]) = Len(e)
  BY <1>2 DEF Escaping, e, n
<1>11. SubSeq(t, 1, n) = t
  BY <1>1, SubSeqFull DEF n
<1> QED BY <1>3, <1>9, <1>10, <1>11 DEF e

-----------------------------------------------------------------------------
(* Leaving entries out. *)

\* h counts K in its order.
Counts(h, m, K) ==
  /\ h \in [1..m -> K]
  /\ \A a, b \in 1..m : a < b => h[a] < h[b]
  /\ \A k \in K : \E a \in 1..m : h[a] = k

\* e is what keep leaves of s.
Leaves(e, s, keep) ==
  /\ IsSequence(e)
  /\ \E h : Counts(h, Len(e), keep \cap DOMAIN s) /\ \A a \in 1..Len(e) : e[a] = s[h[a]]

LEMMA FilteredIs ==
  ASSUME NEW s, IsSequence(s), NEW keep
  PROVE  Leaves(Filtered(s, keep), s, keep)
<1> DEFINE n == Len(s)
           S == ToSet(s)
           q == [i \in DOMAIN s |-> IF i \in keep THEN <<s[i]>> ELSE <<>>]
           e == Filtered(s, keep)
<1>1. n \in Nat /\ DOMAIN s = 1..n /\ \A i \in 1..n : s[i] \in S
  BY SequenceIs
<1>2. e = FlattenSeq(q)
  BY DEF Filtered
<1> HIDE DEF n, S
<1>3. \A i \in 1..n : <<s[i]>> \in Seq(S) /\ <<>> \in Seq(S)
  BY <1>1
<1>4. q = [i \in 1..n |-> IF i \in keep THEN <<s[i]>> ELSE <<>>]
  BY <1>1
<1> HIDE DEF q
<1>5. q \in [1..n -> Seq(S)] /\ q \in Seq(Seq(S)) /\ Len(q) = n
  <2>1. q \in [1..n -> Seq(S)]
    BY <1>3, <1>4
  <2> QED BY <1>1, <2>1, SeqDef, LenProperties
<1>6. PICK g \in [0..n -> Seq(S)] :
           /\ g[0] = <<>> /\ \A i \in 1..n : g[i] = g[i - 1] \o q[i]
           /\ e = g[n]
  BY <1>2, <1>5, FlattenSteps
<1> HIDE DEF e
<1>7. e \in Seq(S) /\ n \in 0..n /\ \A i \in 0..n : g[i] \in Seq(S) /\ Len(g[i]) \in Nat
  BY <1>1, <1>6, LenProperties
<1> DEFINE Found(h, i) == /\ Counts(h, Len(g[i]), keep \cap (1..i))
                          /\ \A a \in 1..Len(g[i]) : g[i][a] = s[h[a]]
           Good == {i \in 0..n : \E h : Found(h, i)}
<1>8. 0 \in Good
  <2> DEFINE h == [a \in 1..0 |-> 0]
  <2>1. Len(g[0]) = 0 /\ 0 \in 0..n
    BY <1>1, <1>6
  <2>2. Found(h, 0)
    BY <2>1 DEF Counts
  <2> HIDE DEF Found
  <2> QED BY <2>1, <2>2
<1>9. ASSUME NEW i \in 0..n, i < n, i \in Good PROVE i + 1 \in Good
  <2> DEFINE j == i + 1
             l == Len(g[i])
  <2>1. j \in 1..n /\ j \in 0..n /\ j - 1 = i /\ j \in Nat /\ l \in Nat
    BY <1>1, <1>7, <1>9
  <2>2. PICK h : Found(h, i)
    BY <1>9
  <2> HIDE DEF j
  <2>3. g[j] = g[i] \o q[j]
    <3>1. g[j] = g[j - 1] \o q[j]
      BY <1>6, <2>1
    <3> QED BY <2>1, <3>1, Zenon
  <2>4. CASE j \notin keep
    <3>1. q[j] = <<>>
      BY <1>4, <2>1, <2>4
    <3>2. g[j] = g[i]
      BY <1>7, <2>3, <3>1, ConcatEmptySeq
    <3>3. keep \cap (1..j) = keep \cap (1..i)
      BY <2>1, <2>4
    <3>4. Found(h, j)
      BY <2>2, <3>2, <3>3
    <3> HIDE DEF Found
    <3> QED BY <2>1, <3>4 DEF j
  <2>5. CASE j \in keep
    <3>1. q[j] = <<s[j]>> /\ s[j] \in S
      BY <1>1, <1>4, <2>1, <2>5
    <3>2. g[j] = Append(g[i], s[j])
      BY <1>7, <2>1, <2>3, <3>1, AppendIsConcat
    <3>3. /\ Len(g[j]) = l + 1 /\ g[j][l + 1] = s[j]
          /\ \A a \in 1..l : g[j][a] = g[i][a]
      <4>1. g[i] \in Seq(S)
        BY <1>7
      <4> QED BY <3>1, <3>2, <4>1, AppendProperties
    <3> DEFINE f == [a \in 1..(l + 1) |-> IF a = l + 1 THEN j ELSE h[a]]
    <3>4. /\ h \in [1..l -> keep \cap (1..i)] /\ \A a, b \in 1..l : a < b => h[a] < h[b]
          /\ \A k \in keep \cap (1..i) : \E a \in 1..l : h[a] = k
          /\ \A a \in 1..l : g[i][a] = s[h[a]]
      BY <2>2 DEF Counts
    <3> HIDE DEF l, Found
    <3>5. f[l + 1] = j /\ \A a \in 1..l : f[a] = h[a] /\ a # l + 1
      BY <2>1
    <3>6. Counts(f, l + 1, keep \cap (1..j))
      <4>1. f \in [1..(l + 1) -> keep \cap (1..j)]
        <5>1. j \in keep \cap (1..j)
          BY <2>1, <2>5
        <5>2. \A a \in 1..l : h[a] \in keep \cap (1..j)
          BY <2>1, <3>4
        <5>3. \A a \in 1..(l + 1) : a # l + 1 => a \in 1..l
          BY <2>1
        <5> QED BY <5>1, <5>2, <5>3
      <4>2. ASSUME NEW a \in 1..(l + 1), NEW b \in 1..(l + 1), a < b
            PROVE  f[a] < f[b]
        <5>1. a \in 1..l /\ (b # l + 1 => b \in 1..l)
          BY <2>1, <4>2
        <5>2. h[a] \in 1..i /\ h[a] < j
          BY <2>1, <3>4, <5>1
        <5>3. f[a] = h[a] /\ (b = l + 1 => f[b] = j) /\ (b # l + 1 => f[b] = h[b])
          BY <3>5, <5>1
        <5>4. b # l + 1 => h[a] < h[b]
          BY <3>4, <4>2, <5>1
        <5> QED BY <5>2, <5>3, <5>4
      <4>3. ASSUME NEW k \in keep \cap (1..j) PROVE \E a \in 1..(l + 1) : f[a] = k
        <5>1. k = j \/ k \in keep \cap (1..i)
          BY <2>1
        <5>2. l + 1 \in 1..(l + 1) /\ \A a \in 1..l : a \in 1..(l + 1)
          BY <2>1
        <5> HIDE DEF f
        <5> QED BY <3>4, <3>5, <5>1, <5>2
      <4> HIDE DEF f
      <4> QED BY <4>1, <4>2, <4>3 DEF Counts
    <3>7. \A a \in 1..(l + 1) : g[j][a] = s[f[a]]
      <4>1. \A a \in 1..(l + 1) : a # l + 1 => a \in 1..l
        BY <2>1
      <4> HIDE DEF f
      <4> QED BY <3>3, <3>4, <3>5, <4>1
    <3> HIDE DEF f
    <3>8. Found(f, j)
      BY <3>3, <3>6, <3>7 DEF Found
    <3> QED BY <2>1, <3>8 DEF j
  <2> QED BY <2>4, <2>5
<1> HIDE DEF Good
<1>10. \A i \in 0..n : i \in Good
  BY <1>1, <1>8, <1>9, UpTo
<1>11. \E h : Found(h, n)
  <2>1. n \in Good
    BY <1>7, <1>10
  <2> QED BY <2>1 DEF Good
<1>12. IsSequence(e)
  BY <1>7, SequencesAreThat
<1>13. \E h : Counts(h, Len(e), keep \cap DOMAIN s) /\ \A a \in 1..Len(e) : e[a] = s[h[a]]
  BY <1>1, <1>6, <1>11
<1>14. Leaves(e, s, keep)
  BY <1>12, <1>13, Zenon DEF Leaves
<1> QED BY <1>14 DEF e

\* There is one way to count a set.
LEMMA CountsAlike ==
  ASSUME NEW K \in SUBSET Nat, NEW m \in Nat, NEW n \in Nat, NEW h, NEW f,
         Counts(h, m, K), Counts(f, n, K)
  PROVE  m = n /\ \A a \in 1..m : h[a] = f[a]
<1> USE DEF Counts
<1>1. \A a \in 1..m : h[a] \in K /\ h[a] \in Nat
  OBVIOUS
<1>2. \A a \in 1..n : f[a] \in K /\ f[a] \in Nat
  OBVIOUS
<1> DEFINE Bad == {a \in Nat : a \in 1..m /\ a \in 1..n /\ h[a] # f[a]}
<1>3. Bad = {}
  <2> SUFFICES ASSUME Bad # {} PROVE FALSE
    OBVIOUS
  <2>1. PICK a \in Bad : \A x \in Bad : a <= x
    <3>1. Bad \in SUBSET Nat
      OBVIOUS
    <3> HIDE DEF Bad
    <3> QED BY <3>1, LeastNatural
  <2>2. a \in Nat /\ a \in 1..m /\ a \in 1..n /\ h[a] # f[a]
    OBVIOUS
  <2>3. \A x \in 1..m : x \in 1..n /\ x < a => h[x] = f[x]
    <3> SUFFICES ASSUME NEW x \in 1..m, x \in 1..n, x < a, h[x] # f[x] PROVE FALSE
      OBVIOUS
    <3>1. x \in Bad
      OBVIOUS
    <3> HIDE DEF Bad
    <3> QED BY <2>1, <2>2, <3>1
  <2>4. CASE h[a] < f[a]
    <3>1. PICK b \in 1..n : f[b] = h[a]
      BY <1>1, <2>2
    <3>2. CASE b < a
      <4>1. b \in 1..m /\ h[b] = f[b] /\ h[b] < h[a]
        BY <2>2, <2>3, <3>2
      <4> QED BY <1>1, <2>2, <3>1, <4>1
    <3>3. CASE a < b
      <4>1. f[a] < f[b]
        BY <2>2, <3>3
      <4> QED BY <1>1, <1>2, <2>2, <2>4, <3>1, <4>1
    <3>4. CASE a = b
      BY <2>2, <3>1, <3>4
    <3> QED BY <2>2, <3>2, <3>3, <3>4
  <2>5. CASE f[a] < h[a]
    <3>1. PICK b \in 1..m : h[b] = f[a]
      BY <1>2, <2>2
    <3>2. CASE b < a
      <4>1. b \in 1..n /\ h[b] = f[b] /\ f[b] < f[a]
        BY <2>2, <2>3, <3>2
      <4> QED BY <1>2, <2>2, <3>1, <4>1
    <3>3. CASE a < b
      <4>1. h[a] < h[b]
        BY <2>2, <3>3
      <4> QED BY <1>1, <1>2, <2>2, <2>5, <3>1, <4>1
    <3>4. CASE a = b
      BY <2>2, <3>1, <3>4
    <3> QED BY <2>2, <3>2, <3>3, <3>4
  <2> QED BY <1>1, <1>2, <2>2, <2>4, <2>5
<1>4. \A a \in 1..m : a \in 1..n => h[a] = f[a]
  BY <1>3
<1>5. ~ (m < n)
  <2> SUFFICES ASSUME m < n PROVE FALSE
    OBVIOUS
  <2> DEFINE z == m + 1
  <2>1. z \in 1..n /\ z \notin 1..m
    OBVIOUS
  <2>2. \A b \in 1..m : b \in 1..n /\ b < z
    OBVIOUS
  <2> HIDE DEF z
  <2>3. PICK b \in 1..m : h[b] = f[z]
    BY <1>2, <2>1
  <2>4. f[b] < f[z] /\ h[b] = f[b]
    BY <1>4, <2>1, <2>2
  <2> QED BY <1>1, <1>2, <2>1, <2>3, <2>4
<1>6. ~ (n < m)
  <2> SUFFICES ASSUME n < m PROVE FALSE
    OBVIOUS
  <2> DEFINE z == n + 1
  <2>1. z \in 1..m /\ z \notin 1..n
    OBVIOUS
  <2>2. \A b \in 1..n : b \in 1..m /\ b < z
    OBVIOUS
  <2> HIDE DEF z
  <2>3. PICK b \in 1..n : f[b] = h[z]
    BY <1>1, <2>1
  <2>4. h[b] < h[z] /\ h[b] = f[b]
    BY <1>4, <2>1, <2>2
  <2> QED BY <1>1, <1>2, <2>1, <2>3, <2>4
<1>7. m = n
  BY <1>5, <1>6
<1> QED BY <1>4, <1>7

-----------------------------------------------------------------------------
(* Files and the states they are loaded to. *)

IsFile(f) ==
  /\ f.exists \in BOOLEAN /\ IsSequence(f.entries)
  /\ ~ f.exists => f.entries = <<>>
  /\ \A i \in DOMAIN f.entries : IsSequence(f.entries[i].text)

\* No two entries have the same key.
Keyed(es) ==
  \A i, j \in DOMAIN es : es[i].name = es[j].name /\ es[i].n = es[j].n => i = j

IsEntry(e) ==
  /\ e = [name |-> e.name, n |-> e.n, value |-> e.value, matched |-> e.matched]
  /\ IsSequence(e.value)

IsState(s) ==
  /\ s = [exists |-> s.exists, touched |-> s.touched, entries |-> s.entries]
  /\ IsSequence(s.entries) /\ \A i \in DOMAIN s.entries : IsEntry(s.entries[i])

\* s is the state of a file that reads as f does.
Mirrors(s, f) ==
  /\ s.exists = f.exists /\ DOMAIN s.entries = DOMAIN f.entries
  /\ \A i \in DOMAIN s.entries :
       /\ s.entries[i].name = f.entries[i].name /\ s.entries[i].n = f.entries[i].n
       /\ s.entries[i].value = Read(f.entries[i].text).value

LEMMA ParsesIs ==
  ASSUME NEW es
  PROVE  Parses(es) <=>
           /\ \A i \in DOMAIN es : Read(es[i].text).good /\ ~ Read(es[i].text).escape
           /\ Keyed(es)
<1>1. \A i, j : <<es[i].name, es[i].n>> = <<es[j].name, es[j].n>>
                  <=> es[i].name = es[j].name /\ es[i].n = es[j].n
  OBVIOUS
<1> QED BY <1>1, Zenon DEF Parses, Keyed

LEMMA LoadedIs ==
  ASSUME NEW f, IsFile(f)
  PROVE  /\ IsState(Loaded(f)) /\ Mirrors(Loaded(f), f) /\ Loaded(f).touched = {}
         /\ \A i \in DOMAIN Loaded(f).entries : ~ Loaded(f).entries[i].matched
<1> DEFINE S == {[name |-> f.entries[i].name, n |-> f.entries[i].n,
                  value |-> Read(f.entries[i].text).value, matched |-> FALSE] : i \in DOMAIN f.entries}
           es == Loaded(f).entries
<1>1. /\ es = [i \in DOMAIN f.entries |->
                 [name |-> f.entries[i].name, n |-> f.entries[i].n,
                  value |-> Read(f.entries[i].text).value, matched |-> FALSE]]
      /\ Loaded(f) = [exists |-> f.exists, touched |-> {}, entries |-> es]
      /\ Loaded(f).touched = {} /\ Loaded(f).exists = f.exists
  BY DEF Loaded
<1>2. /\ es \in [1..Len(f.entries) -> S] /\ Len(f.entries) \in Nat
      /\ DOMAIN f.entries = 1..Len(f.entries)
  BY <1>1, SequenceIs DEF IsFile
<1>3. es \in Seq(S)
  BY <1>2
<1>4. IsSequence(es)
  BY <1>3, SequencesAreThat
<1>5. ASSUME NEW i \in DOMAIN es
      PROVE  /\ IsEntry(es[i]) /\ ~ es[i].matched
             /\ es[i].name = f.entries[i].name /\ es[i].n = f.entries[i].n
             /\ es[i].value = Read(f.entries[i].text).value
  <2>1. IsSequence(f.entries[i].text)
    BY <1>1, <1>5 DEF IsFile
  <2>2. IsSequence(Read(f.entries[i].text).value)
    BY <2>1, ReadGivesSequence
  <2>3. es[i] = [name |-> f.entries[i].name, n |-> f.entries[i].n,
                 value |-> Read(f.entries[i].text).value, matched |-> FALSE]
    BY <1>1, <1>5
  <2> QED BY <2>2, <2>3 DEF IsEntry
<1>6. IsState(Loaded(f))
  BY <1>1, <1>4, <1>5 DEF IsState
<1>7. Mirrors(Loaded(f), f)
  BY <1>1, <1>5 DEF Mirrors
<1> QED BY <1>1, <1>5, <1>6, <1>7

\* A file that is written reads as the state that it was written from.
LEMMA RenderedIs ==
  ASSUME NEW s, IsState(s), s.exists = TRUE
  PROVE  /\ IsFile(Rendered(s.entries)) /\ Mirrors(s, Rendered(s.entries))
         /\ Keyed(s.entries) => Parses(Rendered(s.entries).entries)
<1> DEFINE es == s.entries
           f == Rendered(es)
           S == {[name |-> es[i].name, n |-> es[i].n, text |-> Escape(es[i].value)] : i \in DOMAIN es}
<1>1. /\ f.exists = TRUE
      /\ f.entries = [i \in DOMAIN es |->
                       [name |-> es[i].name, n |-> es[i].n, text |-> Escape(es[i].value)]]
  BY DEF Rendered, Holding
<1>2. Len(es) \in Nat /\ DOMAIN es = 1..Len(es)
  BY SequenceIs DEF IsState
<1>3. f.entries \in [1..Len(es) -> S]
  BY <1>1, <1>2
<1>4. f.entries \in Seq(S)
  <2> HIDE DEF S, f
  <2> QED BY <1>2, <1>3
<1>5. IsSequence(f.entries) /\ DOMAIN f.entries = DOMAIN es
  BY <1>1, <1>4, SequencesAreThat
<1>6. ASSUME NEW i \in DOMAIN es
      PROVE  /\ IsSequence(f.entries[i].text)
             /\ Read(f.entries[i].text).good /\ ~ Read(f.entries[i].text).escape
             /\ Read(f.entries[i].text).value = es[i].value
             /\ f.entries[i].name = es[i].name /\ f.entries[i].n = es[i].n
  <2>1. IsSequence(es[i].value)
    BY <1>6 DEF IsState, IsEntry
  <2>2. IsSequence(Escape(es[i].value))
    BY <2>1, EscapeIs
  <2>3. Read(Escape(es[i].value)) = [value |-> es[i].value, escape |-> FALSE, good |-> TRUE]
    BY <2>1, EscapeReadsBack
  <2>4. f.entries[i] = [name |-> es[i].name, n |-> es[i].n, text |-> Escape(es[i].value)]
    BY <1>1, <1>6
  <2> QED BY <2>2, <2>3, <2>4
<1> HIDE DEF f
<1>7. IsFile(f)
  BY <1>1, <1>5, <1>6 DEF IsFile
<1>8. Mirrors(s, f)
  BY <1>1, <1>5, <1>6 DEF Mirrors
<1>9. Keyed(es) => Keyed(f.entries)
  BY <1>5, <1>6 DEF Keyed
<1>10. Keyed(es) => Parses(f.entries)
  BY <1>5, <1>6, <1>9, ParsesIs
<1> QED BY <1>7, <1>8, <1>10 DEF f

\* What upsertSnapshotEntry makes of a state: the entry at its key, and the others as they were.
Updated(u, s, name, n, value) ==
  LET at == Position(s, name, n)
      entry == [name |-> name, n |-> n, value |-> value, matched |-> TRUE]
  IN  /\ u.exists = TRUE /\ u.touched = s.touched \cup {name}
      /\ DOMAIN s.entries \subseteq DOMAIN u.entries
      /\ \A i \in DOMAIN u.entries :
           IF i \in DOMAIN s.entries \ at THEN u.entries[i] = s.entries[i] ELSE u.entries[i] = entry
      /\ \E i \in DOMAIN u.entries : u.entries[i] = entry
      /\ \A i, j \in DOMAIN u.entries \ DOMAIN s.entries : i = j
      /\ at = {} \/ DOMAIN u.entries = DOMAIN s.entries

LEMMA UpsertedIs ==
  ASSUME NEW s, IsState(s), NEW name, NEW n, NEW value, IsSequence(value)
  PROVE  LET u == Upserted(s, name, n, value)
         IN  IsState(u) /\ Updated(u, s, name, n, value) /\ (Keyed(s.entries) => Keyed(u.entries))
<1> DEFINE u == Upserted(s, name, n, value)
           at == Position(s, name, n)
           entry == [name |-> name, n |-> n, value |-> value, matched |-> TRUE]
           es == s.entries
           S == ToSet(es) \cup {entry}
<1>1. Len(es) \in Nat /\ DOMAIN es = 1..Len(es) /\ es \in [1..Len(es) -> S] /\ es \in Seq(S)
  <2>1. Len(es) \in Nat /\ DOMAIN es = 1..Len(es) /\ es \in Seq(ToSet(es))
    BY SequenceIs DEF IsState
  <2>2. Len(es) \in Nat /\ DOMAIN es = 1..Len(es) /\ es \in [1..Len(es) -> ToSet(es)]
    BY <2>1
  <2>3. es \in [1..Len(es) -> S]
    BY <2>2
  <2> QED BY <2>2, <2>3
<1>2. /\ u.exists = TRUE /\ u.touched = s.touched \cup {name}
      /\ u.entries = IF at = {} THEN Append(es, entry)
                     ELSE [i \in DOMAIN es |-> IF i \in at THEN entry ELSE es[i]]
      /\ u = [exists |-> u.exists, touched |-> u.touched, entries |-> u.entries]
  BY DEF Upserted
<1>3. IsEntry(entry) /\ \A i \in DOMAIN es : IsEntry(es[i])
  BY DEF IsEntry, IsState
<1>4. at \subseteq DOMAIN es /\ \A i \in DOMAIN es : i \in at <=> es[i].name = name /\ es[i].n = n
  BY DEF Position
<1>5. /\ u.entries \in Seq(S) /\ DOMAIN es \subseteq DOMAIN u.entries
      /\ \A i \in DOMAIN u.entries :
           IF i \in DOMAIN es \ at THEN u.entries[i] = es[i] ELSE u.entries[i] = entry
      /\ \E i \in DOMAIN u.entries : u.entries[i] = entry
      /\ \A i, j \in DOMAIN u.entries \ DOMAIN es : i = j
      /\ at = {} \/ DOMAIN u.entries = DOMAIN es
  <2> HIDE DEF u, at, entry, S
  <2>1. entry \in S
    BY DEF S
  <2>2. CASE at = {}
    <3>1. u.entries = Append(es, entry)
      BY <1>2, <2>2
    <3>2. /\ u.entries \in Seq(S) /\ DOMAIN u.entries = 1..(Len(es) + 1)
          /\ u.entries[Len(es) + 1] = entry /\ \A i \in 1..Len(es) : u.entries[i] = es[i]
      BY <1>1, <2>1, <3>1, AppendProperties
    <3> QED BY <1>1, <2>2, <3>2
  <2>3. CASE at # {}
    <3>1. u.entries = [i \in DOMAIN es |-> IF i \in at THEN entry ELSE es[i]]
      BY <1>2, <2>3
    <3>2. u.entries \in [1..Len(es) -> S]
      BY <1>1, <2>1, <3>1
    <3>3. u.entries \in Seq(S)
      BY <1>1, <3>2
    <3> QED BY <1>4, <2>3, <3>1, <3>3
  <2> QED BY <2>2, <2>3
<1>6. IsSequence(u.entries)
  BY <1>5, SequencesAreThat
<1>7. \A i \in DOMAIN u.entries : IsEntry(u.entries[i])
  BY <1>3, <1>5, Zenon
<1>8. IsState(u)
  BY <1>2, <1>6, <1>7 DEF IsState
<1>9. Updated(u, s, name, n, value)
  BY <1>2, <1>5 DEF Updated
<1>10. entry.name = name /\ entry.n = n
  OBVIOUS
<1>11. ASSUME Keyed(es)
       PROVE  Keyed(u.entries)
  <2> HIDE DEF u, at, entry
  <2>1. ASSUME NEW i \in DOMAIN u.entries, NEW j \in DOMAIN u.entries,
               u.entries[i].name = u.entries[j].name, u.entries[i].n = u.entries[j].n
        PROVE  i = j
    <3>0. \A k \in DOMAIN es \ at : u.entries[k] = es[k]
      BY <1>5
    <3>1. CASE i \in DOMAIN es \ at /\ j \in DOMAIN es \ at
      BY <1>11, <2>1, <3>0, <3>1 DEF Keyed
    <3>2. \A k \in DOMAIN u.entries \ (DOMAIN es \ at) :
            u.entries[k].name = name /\ u.entries[k].n = n
      BY <1>5, <1>10
    <3>3. \A k \in DOMAIN es \ at : ~ (u.entries[k].name = name /\ u.entries[k].n = n)
      BY <1>4, <3>0
    <3>4. CASE i \notin DOMAIN es \ at /\ j \notin DOMAIN es \ at
      <4>1. CASE i \in at /\ j \in at
        BY <1>4, <1>11, <4>1 DEF Keyed
      <4>2. CASE i \notin DOMAIN es /\ j \notin DOMAIN es
        BY <1>5, <2>1, <4>2
      <4> QED BY <1>5, <2>1, <3>4, <4>1, <4>2
    <3> QED BY <2>1, <3>1, <3>2, <3>3, <3>4
  <2> QED BY <2>1 DEF Keyed
<1> QED BY <1>8, <1>9, <1>11

\* What matchSnapshotEntry leaves of a state: the entries at some positions matched.
MarkedAs(m, s, name, at) ==
  /\ m.exists = TRUE /\ m.touched = s.touched \cup {name}
  /\ DOMAIN m.entries = DOMAIN s.entries
  /\ \A i \in DOMAIN s.entries :
       /\ m.entries[i].name = s.entries[i].name /\ m.entries[i].n = s.entries[i].n
       /\ m.entries[i].value = s.entries[i].value
       /\ m.entries[i].matched <=> s.entries[i].matched \/ i \in at

LEMMA MarkedIs ==
  ASSUME NEW s, IsState(s), NEW name, NEW at
  PROVE  IsState(Marked(s, name, at)) /\ MarkedAs(Marked(s, name, at), s, name, at)
<1> DEFINE es == s.entries
           m == Marked(s, name, at)
           new == [i \in DOMAIN es |-> [es[i] EXCEPT !.matched = es[i].matched \/ i \in at]]
           S == {new[i] : i \in DOMAIN es}
<1>1. /\ m.exists = TRUE /\ m.touched = s.touched \cup {name} /\ m.entries = new
      /\ m = [exists |-> m.exists, touched |-> m.touched, entries |-> m.entries]
  BY DEF Marked
<1>2. Len(es) \in Nat /\ DOMAIN es = 1..Len(es)
  BY SequenceIs DEF IsState
<1>3. new \in [1..Len(es) -> S]
  BY <1>2
<1>4. new \in Seq(S)
  <2> HIDE DEF S, new
  <2> QED BY <1>2, <1>3
<1>5. IsSequence(new)
  BY <1>4, SequencesAreThat
<1>6. ASSUME NEW i \in DOMAIN es
      PROVE  /\ IsEntry(new[i]) /\ new[i].name = es[i].name /\ new[i].n = es[i].n
             /\ new[i].value = es[i].value /\ (new[i].matched <=> es[i].matched \/ i \in at)
  <2>1. IsEntry(es[i])
    BY <1>6 DEF IsState
  <2>2. PICK b : b = (es[i].matched \/ i \in at)
    OBVIOUS
  <2>3. new[i] = [es[i] EXCEPT !.matched = b]
    BY <1>6, <2>2
  <2>4. PICK x : x = es[i]
    OBVIOUS
  <2>5. /\ x = [name |-> x.name, n |-> x.n, value |-> x.value, matched |-> x.matched]
        /\ IsSequence(x.value)
    BY <2>1, <2>4 DEF IsEntry
  <2>6. PICK y : y = [x EXCEPT !.matched = b]
    OBVIOUS
  <2>7. y = [name |-> x.name, n |-> x.n, value |-> x.value, matched |-> b]
    BY <2>5, <2>6
  <2>8. /\ y.name = x.name /\ y.n = x.n /\ y.value = x.value /\ y.matched = b
        /\ IsEntry(y)
    BY <2>5, <2>7 DEF IsEntry
  <2>9. new[i] = y
    BY <2>3, <2>4, <2>6, Zenon
  <2> HIDE DEF new
  <2>10. new[i].matched = (es[i].matched \/ i \in at)
    BY <2>2, <2>8, <2>9, Zenon
  <2> QED BY <2>4, <2>8, <2>9, <2>10, Zenon
<1>7. DOMAIN new = DOMAIN es
  OBVIOUS
<1> HIDE DEF new, m
<1>8. IsState(m)
  BY <1>1, <1>5, <1>6, <1>7 DEF IsState
<1>9. MarkedAs(m, s, name, at)
  BY <1>1, <1>6, <1>7 DEF MarkedAs, es
<1> QED BY <1>8, <1>9 DEF m

(* What a write does to a file. *)

\* The entry d of a file reads as the entry e of a state does.
Reads(e, d) == e.name = d.name /\ e.n = d.n /\ e.value = Read(d.text).value

Agree(e, d) == e.name = d.name /\ e.n = d.n /\ Read(e.text).value = Read(d.text).value

\* Two files hold the same under a name.
Alike(f, g, name) ==
  /\ \A e \in ToSet(f.entries) : e.name = name => \E d \in ToSet(g.entries) : Agree(e, d)
  /\ \A d \in ToSet(g.entries) : d.name = name => \E e \in ToSet(f.entries) : Agree(e, d)

LEMMA MirrorsReads ==
  ASSUME NEW s, NEW f, Mirrors(s, f)
  PROVE  \A i \in DOMAIN s.entries : Reads(s.entries[i], f.entries[i])
BY DEF Mirrors, Reads

\* The state u and the file g behind a check that is recorded: the other names of
\* the file are left alone.
Written(u, g, s, f, name, n, value) ==
  /\ IsState(u) /\ IsFile(g) /\ Mirrors(u, g) /\ Updated(u, s, name, n, value)
  /\ Keyed(s.entries) => Parses(g.entries)
  /\ \A x : x # name => Alike(f, g, x)

LEMMA WrittenIs ==
  ASSUME NEW s, NEW f, IsState(s), Mirrors(s, f), NEW name, NEW n, NEW value, IsSequence(value)
  PROVE  Written(Upserted(s, name, n, value), Rendered(Upserted(s, name, n, value).entries), s, f,
                 name, n, value)
<1> DEFINE u == Upserted(s, name, n, value)
           g == Rendered(u.entries)
           at == Position(s, name, n)
<1>1. IsState(u) /\ Updated(u, s, name, n, value) /\ (Keyed(s.entries) => Keyed(u.entries))
  BY UpsertedIs
<1> HIDE DEF u
<1>2. u.exists = TRUE
  BY <1>1 DEF Updated
<1>3. IsFile(g) /\ Mirrors(u, g) /\ (Keyed(u.entries) => Parses(g.entries))
  BY <1>1, <1>2, RenderedIs
<1> HIDE DEF g
<1>4. /\ DOMAIN s.entries = DOMAIN f.entries /\ DOMAIN u.entries = DOMAIN g.entries
      /\ \A i \in DOMAIN s.entries : Reads(s.entries[i], f.entries[i])
      /\ \A i \in DOMAIN u.entries : Reads(u.entries[i], g.entries[i])
  BY <1>3, MirrorsReads DEF Mirrors
<1>5. /\ DOMAIN s.entries \subseteq DOMAIN u.entries
      /\ \A i \in DOMAIN u.entries :
           (i \in DOMAIN s.entries /\ u.entries[i] = s.entries[i]) \/ u.entries[i].name = name
      /\ \A i \in DOMAIN s.entries : u.entries[i] = s.entries[i] \/ s.entries[i].name = name
  BY <1>1 DEF Updated, Position
<1>6. ASSUME NEW x, x # name
      PROVE  Alike(f, g, x)
  <2>1. ASSUME NEW i \in DOMAIN f.entries, f.entries[i].name = x
        PROVE  i \in DOMAIN g.entries /\ Agree(f.entries[i], g.entries[i])
    BY <1>4, <1>5, <1>6, <2>1 DEF Reads, Agree
  <2>2. ASSUME NEW i \in DOMAIN g.entries, g.entries[i].name = x
        PROVE  i \in DOMAIN f.entries /\ Agree(f.entries[i], g.entries[i])
    BY <1>4, <1>5, <1>6, <2>2 DEF Reads, Agree
  <2> QED BY <2>1, <2>2 DEF Alike, ToSet
<1>7. Written(u, g, s, f, name, n, value)
  BY <1>1, <1>3, <1>6 DEF Written
<1> QED BY <1>7 DEF u, g

\* The file g behind the finalization of one that s mirrors.
Cleaned(g, s, keep) ==
  /\ IsFile(g) /\ (Keyed(s.entries) => Parses(g.entries))
  /\ \A i \in keep : \E d \in ToSet(g.entries) : Reads(s.entries[i], d)
  /\ \A d \in ToSet(g.entries) : \E i \in keep : Reads(s.entries[i], d)
  /\ \E h : /\ Counts(h, Len(g.entries), keep)
            /\ \A a \in DOMAIN g.entries : Reads(s.entries[h[a]], g.entries[a])

LEMMA CleanedIs ==
  ASSUME NEW s, IsState(s), NEW keep, keep \subseteq DOMAIN s.entries
  PROVE  Cleaned(Rendered(Filtered(s.entries, keep)), s, keep)
<1> DEFINE es == s.entries
           fs == Filtered(es, keep)
           t == [exists |-> TRUE, touched |-> {}, entries |-> fs]
           g == Rendered(fs)
<1>1. IsSequence(es) /\ keep \cap DOMAIN es = keep
  BY DEF IsState
<1>2. Leaves(fs, es, keep)
  BY <1>1, FilteredIs
<1>3. PICK h : Counts(h, Len(fs), keep) /\ \A a \in 1..Len(fs) : fs[a] = es[h[a]]
  <2> HIDE DEF fs, es
  <2> QED BY <1>1, <1>2 DEF Leaves
<1>4. IsSequence(fs) /\ Len(fs) \in Nat /\ DOMAIN fs = 1..Len(fs)
  BY <1>2, SequenceIs DEF Leaves
<1> HIDE DEF fs
<1>5. \A a \in 1..Len(fs) : h[a] \in keep /\ fs[a] = es[h[a]]
  BY <1>3 DEF Counts
<1>6. \A a \in DOMAIN fs : IsEntry(fs[a])
  BY <1>4, <1>5 DEF IsState
<1>7. IsState(t)
  BY <1>4, <1>6 DEF IsState
<1>8. t.exists = TRUE /\ t.entries = fs
  OBVIOUS
<1>9. IsFile(g) /\ Mirrors(t, g) /\ (Keyed(fs) => Parses(g.entries))
  <2> HIDE DEF t
  <2> QED BY <1>7, <1>8, RenderedIs
<1> HIDE DEF t, g
<1>10. DOMAIN fs = DOMAIN g.entries /\ \A a \in DOMAIN fs : Reads(fs[a], g.entries[a])
  BY <1>8, <1>9, MirrorsReads DEF Mirrors
<1>11. ASSUME NEW i \in keep
       PROVE  \E d \in ToSet(g.entries) : Reads(es[i], d)
  <2>1. PICK a \in 1..Len(fs) : h[a] = i
    BY <1>3 DEF Counts
  <2>2. Reads(es[i], g.entries[a]) /\ g.entries[a] \in ToSet(g.entries)
    BY <1>4, <1>5, <1>10, <2>1 DEF ToSet
  <2> QED BY <2>2
<1>12. ASSUME NEW d \in ToSet(g.entries)
       PROVE  \E i \in keep : Reads(es[i], d)
  <2>1. PICK a \in DOMAIN fs : d = g.entries[a]
    BY <1>10 DEF ToSet
  <2> QED BY <1>4, <1>5, <1>10, <2>1
<1>13. Keyed(es) => Keyed(fs)
  <2> SUFFICES ASSUME Keyed(es), NEW a \in DOMAIN fs, NEW b \in DOMAIN fs,
                      fs[a].name = fs[b].name, fs[a].n = fs[b].n
               PROVE  a = b
    BY DEF Keyed
  <2>1. h[a] = h[b]
    BY <1>4, <1>5 DEF Keyed
  <2>2. h[a] \in Nat /\ \A x, y \in 1..Len(fs) : x < y => h[x] < h[y]
    <3>1. h[a] \in DOMAIN es /\ DOMAIN es = 1..Len(es)
      BY <1>1, <1>4, <1>5, SequenceIs
    <3> QED BY <1>3, <3>1 DEF Counts
  <2> QED BY <1>4, <2>1, <2>2
<1>14. Counts(h, Len(g.entries), keep) /\ \A a \in DOMAIN g.entries : Reads(es[h[a]], g.entries[a])
  <2>1. Len(g.entries) = Len(fs)
    BY <1>4, <1>9, <1>10, SequenceIs DEF IsFile
  <2> QED BY <1>3, <1>4, <1>10, <2>1
<1>15. Cleaned(g, s, keep)
  BY <1>9, <1>11, <1>12, <1>13, <1>14 DEF Cleaned
<1> QED BY <1>15 DEF g, fs

(* What the files hold of a call. *)

\* The k-th operation of call c, as the check that it is when all before it are.
SameKey(c, j, k) == PathOf(c.ops[j]) = PathOf(c.ops[k]) /\ NameOf(c.ops[j]) = NameOf(c.ops[k])

CheckAt(c, k) ==
  [path |-> PathOf(c.ops[k]), name |-> NameOf(c.ops[k]), value |-> c.ops[k].value,
   n |-> Cardinality({j \in 1..(k - 1) : SameKey(c, j, k)})]

\* A check that host h does not refuse.
Sound(h, op) ==
  /\ op.what = "snapshot" /\ ~ (h = "js" /\ op.source # "none")
  /\ PathOf(op) # "none" /\ NameOf(op) # ""

\* The file holds e for check x.
Holds(e, x) == e.name = x.name /\ e.n = x.n /\ Read(e.text).value = x.value

\* The files hold what call c checks and, under its names, nothing else if it is a run.
Recorded(fs, h, c) ==
  /\ \A k \in DOMAIN c.ops :
       /\ Sound(h, c.ops[k])
       /\ \E e \in ToSet(fs[PathOf(c.ops[k])].entries) : Holds(e, CheckAt(c, k))
  /\ c.export = "run" =>
       \A k \in DOMAIN c.ops : \A e \in ToSet(fs[PathOf(c.ops[k])].entries) :
         e.name = NameOf(c.ops[k]) =>
           \E j \in DOMAIN c.ops : PathOf(c.ops[j]) = PathOf(c.ops[k]) /\ Holds(e, CheckAt(c, j))

LEMMA CheckAtIs ==
  ASSUME NEW c, NEW k
  PROVE  /\ CheckAt(c, k).path = PathOf(c.ops[k]) /\ CheckAt(c, k).name = NameOf(c.ops[k])
         /\ CheckAt(c, k).value = c.ops[k].value
         /\ CheckAt(c, k).n = Cardinality({j \in 1..(k - 1) : SameKey(c, j, k)})
BY DEF CheckAt

\* What a call finds in the files stays when its names are left alone.
LEMMA RecordedStays ==
  ASSUME NEW fs, NEW gs, NEW h, NEW c, Recorded(fs, h, c),
         \A k \in DOMAIN c.ops :
           Alike(fs[PathOf(c.ops[k])], gs[PathOf(c.ops[k])], NameOf(c.ops[k]))
  PROVE  Recorded(gs, h, c)
<1>1. ASSUME NEW e, NEW d, Agree(e, d), NEW x
      PROVE  Holds(e, x) <=> Holds(d, x)
  BY <1>1 DEF Agree, Holds
<1>2. ASSUME NEW k \in DOMAIN c.ops
      PROVE  /\ Sound(h, c.ops[k])
             /\ \E e \in ToSet(gs[PathOf(c.ops[k])].entries) : Holds(e, CheckAt(c, k))
  <2>1. PICK e \in ToSet(fs[PathOf(c.ops[k])].entries) : Holds(e, CheckAt(c, k))
    BY DEF Recorded
  <2>2. e.name = NameOf(c.ops[k])
    BY <2>1, CheckAtIs DEF Holds
  <2>3. PICK d \in ToSet(gs[PathOf(c.ops[k])].entries) : Agree(e, d)
    BY <2>2 DEF Alike
  <2> QED BY <1>1, <2>1, <2>3 DEF Recorded
<1>3. ASSUME c.export = "run", NEW k \in DOMAIN c.ops,
             NEW d \in ToSet(gs[PathOf(c.ops[k])].entries),
             d.name = NameOf(c.ops[k])
      PROVE  \E j \in DOMAIN c.ops : PathOf(c.ops[j]) = PathOf(c.ops[k]) /\ Holds(d, CheckAt(c, j))
  <2>1. PICK e \in ToSet(fs[PathOf(c.ops[k])].entries) : Agree(e, d)
    BY <1>3 DEF Alike
  <2>2. e.name = NameOf(c.ops[k])
    BY <1>3, <2>1 DEF Agree
  <2>3. PICK j \in DOMAIN c.ops : PathOf(c.ops[j]) = PathOf(c.ops[k]) /\ Holds(e, CheckAt(c, j))
    BY <1>3, <2>2 DEF Recorded
  <2> QED BY <1>1, <2>1, <2>3
<1> QED BY <1>2, <1>3 DEF Recorded

\* A file that is the same holds the same.
LEMMA AlikeItself ==
  ASSUME NEW f, NEW name
  PROVE  Alike(f, f, name)
BY DEF Alike, Agree

\* The checks of a call and the manifest that they have gone through.
Matched(m, checked) ==
  /\ \A x \in checked :
       /\ x.path \in Paths /\ x.name \in m[x.path].touched
       /\ \E i \in DOMAIN m[x.path].entries :
            LET e == m[x.path].entries[i]
            IN  e.name = x.name /\ e.n = x.n /\ e.value = x.value
  /\ \A p \in Paths : \A i \in DOMAIN m[p].entries :
       LET e == m[p].entries[i]
       IN  e.matched <=> \E x \in checked : x.path = p /\ x.name = e.name /\ x.n = e.n

\* The files hold the entries that are matched and, if alone, no others of a touched name.
HoldsMatched(s, f, alone) ==
  /\ \A i \in DOMAIN s.entries :
       s.entries[i].matched => \E d \in ToSet(f.entries) : Reads(s.entries[i], d)
  /\ alone => \A d \in ToSet(f.entries) : d.name \in s.touched =>
       \E i \in DOMAIN s.entries : s.entries[i].matched /\ Reads(s.entries[i], d)

\* A call whose every check went well is recorded.
LEMMA CallIsRecorded ==
  ASSUME NEW fs, NEW h, NEW c, NEW m, NEW checked, Matched(m, checked),
         \A p \in Paths : Keyed(m[p].entries) /\ HoldsMatched(m[p], fs[p], c.export = "run"),
         checked = {CheckAt(c, k) : k \in DOMAIN c.ops}, \A k \in DOMAIN c.ops : Sound(h, c.ops[k])
  PROVE  Recorded(fs, h, c)
<1>1. ASSUME NEW x \in checked
      PROVE  /\ x.path \in Paths /\ x.name \in m[x.path].touched
             /\ \E i \in DOMAIN m[x.path].entries :
                  /\ m[x.path].entries[i].name = x.name /\ m[x.path].entries[i].n = x.n
                  /\ m[x.path].entries[i].value = x.value /\ m[x.path].entries[i].matched
  BY DEF Matched
<1>2. ASSUME NEW e, NEW d, NEW x, Reads(e, d), e.name = x.name, e.n = x.n, e.value = x.value
      PROVE  Holds(d, x)
  BY <1>2 DEF Reads, Holds
<1>3. ASSUME NEW k \in DOMAIN c.ops
      PROVE  /\ Sound(h, c.ops[k])
             /\ \E e \in ToSet(fs[PathOf(c.ops[k])].entries) : Holds(e, CheckAt(c, k))
  <2>1. PICK x \in checked : x = CheckAt(c, k)
    OBVIOUS
  <2>2. x.path = PathOf(c.ops[k])
    BY <2>1, CheckAtIs
  <2>3. PICK i \in DOMAIN m[x.path].entries :
          /\ m[x.path].entries[i].name = x.name /\ m[x.path].entries[i].n = x.n
          /\ m[x.path].entries[i].value = x.value /\ m[x.path].entries[i].matched
    BY <1>1
  <2>4. PICK d \in ToSet(fs[x.path].entries) : Reads(m[x.path].entries[i], d)
    BY <1>1, <2>3 DEF HoldsMatched
  <2>5. Holds(d, x)
    BY <1>2, <2>3, <2>4
  <2> QED BY <2>1, <2>2, <2>4, <2>5
<1>4. ASSUME c.export = "run", NEW k \in DOMAIN c.ops,
             NEW d \in ToSet(fs[PathOf(c.ops[k])].entries),
             d.name = NameOf(c.ops[k])
      PROVE  \E j \in DOMAIN c.ops : PathOf(c.ops[j]) = PathOf(c.ops[k]) /\ Holds(d, CheckAt(c, j))
  <2>1. PICK y \in checked : y = CheckAt(c, k)
    OBVIOUS
  <2>2. PICK p : p = PathOf(c.ops[k])
    OBVIOUS
  <2>3. y.path = p /\ y.name = d.name
    BY <1>4, <2>1, <2>2, CheckAtIs
  <2>4. p \in Paths /\ d.name \in m[p].touched
    BY <1>1, <2>3
  <2>5. PICK i \in DOMAIN m[p].entries : m[p].entries[i].matched /\ Reads(m[p].entries[i], d)
    BY <1>4, <2>2, <2>4 DEF HoldsMatched
  <2>6. PICK x \in checked : x.path = p /\ x.name = m[p].entries[i].name /\ x.n = m[p].entries[i].n
    BY <2>4, <2>5 DEF Matched
  <2>7. PICK a \in DOMAIN m[p].entries :
          /\ m[p].entries[a].name = x.name /\ m[p].entries[a].n = x.n
          /\ m[p].entries[a].value = x.value
    BY <1>1, <2>6
  <2>8. a = i
    BY <2>4, <2>6, <2>7 DEF Keyed
  <2>9. Holds(d, x)
    BY <1>2, <2>5, <2>7, <2>8
  <2>10. PICK j \in DOMAIN c.ops : x = CheckAt(c, j)
    OBVIOUS
  <2>11. PathOf(c.ops[j]) = p
    BY <2>6, <2>10, CheckAtIs
  <2> QED BY <2>2, <2>9, <2>10, <2>11
<1> QED BY <1>3, <1>4 DEF Recorded

-----------------------------------------------------------------------------
(* The occurrences of a name. *)

CountIn(cs, path, name) == IF <<path, name>> \in DOMAIN cs THEN cs[<<path, name>>] ELSE 0

\* Ahead of its n-th operation, the call has counted the checks before it.
Counted(cs, c, n) ==
  \A k \in DOMAIN c.ops :
    CountIn(cs, PathOf(c.ops[k]), NameOf(c.ops[k]))
      = Cardinality({j \in 1..(n - 1) : SameKey(c, j, k)})

\* One more check under a name.
Bumped(ds, cs, path, name) ==
  ds = [x \in DOMAIN cs \cup {<<path, name>>} |->
          IF x = <<path, name>> THEN CountIn(cs, path, name) + 1 ELSE cs[x]]

LEMMA EarlierChecks ==
  ASSUME NEW c, NEW k, NEW n \in Nat \ {0}
  PROVE  /\ IsFiniteSet({j \in 1..(n - 1) : SameKey(c, j, k)})
         /\ Cardinality({j \in 1..(n - 1) : SameKey(c, j, k)}) \in Nat
         /\ Cardinality({j \in 1..n : SameKey(c, j, k)})
              = Cardinality({j \in 1..(n - 1) : SameKey(c, j, k)})
                + (IF SameKey(c, n, k) THEN 1 ELSE 0)
<1> DEFINE E == {j \in 1..(n - 1) : SameKey(c, j, k)}
           F == {j \in 1..n : SameKey(c, j, k)}
<1>1. IsFiniteSet(1..(n - 1))
  BY FS_Interval
<1>2. IsFiniteSet(E)
  BY <1>1, FS_Subset
<1>3. Cardinality(E) \in Nat
  BY <1>2, FS_CardinalityType
<1>4. CASE SameKey(c, n, k)
  <2>1. F = E \cup {n} /\ n \notin E
    BY <1>4
  <2>2. Cardinality(F) = Cardinality(E) + 1
    <3> HIDE DEF E, F
    <3> QED BY <1>2, <2>1, FS_AddElement
  <2> QED BY <1>2, <1>3, <1>4, <2>2
<1>5. CASE ~ SameKey(c, n, k)
  <2>1. F = E
    BY <1>5
  <2>2. Cardinality(F) = Cardinality(E)
    <3> HIDE DEF E, F
    <3> QED BY <2>1
  <2> QED BY <1>2, <1>3, <1>5, <2>2
<1> QED BY <1>4, <1>5

LEMMA CountedStep ==
  ASSUME NEW cs, NEW c, NEW n \in Nat \ {0}, Counted(cs, c, n), NEW path, NEW name,
         n \in DOMAIN c.ops,
         path = PathOf(c.ops[n]), name = NameOf(c.ops[n]), NEW ds,
         Bumped(ds, cs, path, name)
  PROVE  CountIn(cs, path, name) = CheckAt(c, n).n /\ Counted(ds, c, n + 1)
<1> DEFINE key == <<path, name>>
           v == CountIn(cs, path, name)
           Before(k) == Cardinality({j \in 1..(n - 1) : SameKey(c, j, k)})
           Now(k) == Cardinality({j \in 1..n : SameKey(c, j, k)})
<1>1. \A k \in DOMAIN c.ops : CountIn(cs, PathOf(c.ops[k]), NameOf(c.ops[k])) = Before(k)
  BY DEF Counted
<1>2. v = Before(n) /\ v = CheckAt(c, n).n
  BY <1>1, CheckAtIs
<1>3. ASSUME NEW p, NEW x
      PROVE  CountIn(ds, p, x) = IF p = path /\ x = name THEN v + 1 ELSE CountIn(cs, p, x)
  <2>1. <<p, x>> = key <=> p = path /\ x = name
    OBVIOUS
  <2>0. /\ DOMAIN ds = DOMAIN cs \cup {key}
        /\ \A z \in DOMAIN ds : ds[z] = IF z = key THEN v + 1 ELSE cs[z]
    BY DEF Bumped
  <2> HIDE DEF key, v
  <2>2. CASE <<p, x>> = key
    <3>1. key \in DOMAIN ds /\ ds[key] = v + 1
      BY <2>0
    <3>2. CountIn(ds, p, x) = v + 1
      BY <2>2, <3>1, Zenon DEF CountIn
    <3> QED BY <2>1, <2>2, <3>2
  <2>3. CASE <<p, x>> # key
    <3>1. <<p, x>> \in DOMAIN ds <=> <<p, x>> \in DOMAIN cs
      BY <2>0, <2>3
    <3>2. <<p, x>> \in DOMAIN ds => ds[<<p, x>>] = cs[<<p, x>>]
      BY <2>0, <2>3
    <3>3. CountIn(ds, p, x) = CountIn(cs, p, x)
      BY <3>1, <3>2, Zenon DEF CountIn
    <3> QED BY <2>1, <2>3, <3>3
  <2> QED BY <2>2, <2>3
<1>4. ASSUME NEW k \in DOMAIN c.ops
      PROVE  CountIn(ds, PathOf(c.ops[k]), NameOf(c.ops[k])) = Now(k)
  <2>1. Now(k) = Before(k) + (IF SameKey(c, n, k) THEN 1 ELSE 0) /\ Before(k) \in Nat
    BY EarlierChecks
  <2>2. SameKey(c, n, k) <=> PathOf(c.ops[k]) = path /\ NameOf(c.ops[k]) = name
    BY DEF SameKey
  <2>3. CountIn(ds, PathOf(c.ops[k]), NameOf(c.ops[k]))
          = IF SameKey(c, n, k) THEN v + 1 ELSE CountIn(cs, PathOf(c.ops[k]), NameOf(c.ops[k]))
    BY <1>3, <2>2
  <2>4. CASE SameKey(c, n, k)
    <3>1. Before(k) = Before(n)
      <4>1. \A j : SameKey(c, j, k) <=> SameKey(c, j, n)
        BY <2>4 DEF SameKey
      <4>2. {j \in 1..(n - 1) : SameKey(c, j, k)} = {j \in 1..(n - 1) : SameKey(c, j, n)}
        BY <4>1
      <4> QED BY <4>2
    <3> HIDE DEF v, Before, Now
    <3> QED BY <1>2, <2>1, <2>3, <2>4, <3>1
  <2>5. CASE ~ SameKey(c, n, k)
    <3> HIDE DEF v, Before, Now
    <3> QED BY <1>1, <2>1, <2>3, <2>5
  <2> QED BY <2>4, <2>5
<1>5. (n + 1) - 1 = n
  OBVIOUS
<1>6. Counted(ds, c, n + 1)
  BY <1>4, <1>5 DEF Counted
<1> QED BY <1>2, <1>6

\* Two checks of a call differ in their key.
LEMMA ChecksDiffer ==
  ASSUME NEW c, NEW n \in Nat, NEW k \in 1..(n - 1), SameKey(c, k, n)
  PROVE  CheckAt(c, k).n # CheckAt(c, n).n
<1> DEFINE E == {j \in 1..(k - 1) : SameKey(c, j, k)}
           F == {j \in 1..(n - 1) : SameKey(c, j, n)}
<1>1. CheckAt(c, k).n = Cardinality(E) /\ CheckAt(c, n).n = Cardinality(F)
  BY CheckAtIs
<1>2. IsFiniteSet(1..(n - 1))
  BY FS_Interval
<1>3. IsFiniteSet(F)
  BY <1>2, FS_Subset
<1>4. \A j : SameKey(c, j, k) <=> SameKey(c, j, n)
  BY DEF SameKey
<1>5. E \subseteq F /\ k \in F /\ k \notin E
  BY <1>4 DEF SameKey
<1> HIDE DEF E, F
<1>7. IsFiniteSet(E) /\ Cardinality(E) \in Nat /\ Cardinality(F) \in Nat
  BY <1>3, <1>5, FS_Subset, FS_CardinalityType
<1>8. Cardinality(E \cup {k}) = Cardinality(E) + 1
  BY <1>5, <1>7, FS_AddElement
<1>9. E \cup {k} \subseteq F
  BY <1>5
<1>10. Cardinality(E \cup {k}) <= Cardinality(F)
  BY <1>3, <1>9, FS_Subset
<1> QED BY <1>1, <1>7, <1>8, <1>10

(* The manifest, check by check. *)

HasKey(e, x) == e.name = x.name /\ e.n = x.n

\* Behind check x, state s is t.
Took(t, s, x) ==
  /\ x.name \in t.touched /\ s.touched \subseteq t.touched
  /\ t.touched \subseteq s.touched \cup {x.name}
  /\ \E i \in DOMAIN t.entries : HasKey(t.entries[i], x) /\ t.entries[i].value = x.value
  /\ \A i \in DOMAIN s.entries :
       /\ i \in DOMAIN t.entries /\ HasKey(t.entries[i], s.entries[i])
       /\ ~ HasKey(s.entries[i], x) => t.entries[i].value = s.entries[i].value
  /\ \A i \in DOMAIN t.entries :
       /\ i \in DOMAIN s.entries \/ HasKey(t.entries[i], x)
       /\ t.entries[i].matched <=>
            HasKey(t.entries[i], x) \/ (i \in DOMAIN s.entries /\ s.entries[i].matched)

LEMMA MatchedStep ==
  ASSUME NEW m, m = [p \in Paths |-> m[p]], NEW checked, Matched(m, checked), NEW path \in Paths, NEW t,
         NEW x, x.path = path, Took(t, m[path], x),
         \A y \in checked : y.path = path /\ y.name = x.name => y.n # x.n
  PROVE  Matched([m EXCEPT ![path] = t], checked \cup {x})
<1> DEFINE new == [m EXCEPT ![path] = t]
<1>1. new[path] = t /\ \A p \in Paths \ {path} : new[p] = m[p]
  OBVIOUS
<1> HIDE DEF new
<1>2. ASSUME NEW y \in checked
      PROVE  /\ y.path \in Paths /\ y.name \in new[y.path].touched
             /\ \E i \in DOMAIN new[y.path].entries :
                  HasKey(new[y.path].entries[i], y) /\ new[y.path].entries[i].value = y.value
  <2>1. /\ y.path \in Paths /\ y.name \in m[y.path].touched
        /\ \E i \in DOMAIN m[y.path].entries :
             HasKey(m[y.path].entries[i], y) /\ m[y.path].entries[i].value = y.value
    BY DEF Matched, HasKey
  <2>2. CASE y.path # path
    BY <1>1, <2>1, <2>2
  <2>3. CASE y.path = path
    <3>1. PICK i \in DOMAIN m[path].entries :
            HasKey(m[path].entries[i], y) /\ m[path].entries[i].value = y.value
      BY <2>1, <2>3
    <3>2. ~ HasKey(m[path].entries[i], x)
      BY <2>3, <3>1 DEF HasKey
    <3>3. i \in DOMAIN t.entries /\ HasKey(t.entries[i], y) /\ t.entries[i].value = y.value
      BY <3>1, <3>2 DEF Took, HasKey
    <3>4. y.name \in t.touched
      BY <2>1, <2>3 DEF Took
    <3> QED BY <1>1, <2>3, <3>3, <3>4
  <2> QED BY <2>2, <2>3
<1>3. /\ x.path \in Paths /\ x.name \in new[x.path].touched
      /\ \E i \in DOMAIN new[x.path].entries :
           HasKey(new[x.path].entries[i], x) /\ new[x.path].entries[i].value = x.value
  BY <1>1 DEF Took
<1>4. ASSUME NEW p \in Paths, NEW i \in DOMAIN new[p].entries
      PROVE  new[p].entries[i].matched <=>
               \E y \in checked \cup {x} : y.path = p /\ HasKey(new[p].entries[i], y)
  <2>0. \A q \in Paths : \A j \in DOMAIN m[q].entries :
          m[q].entries[j].matched <=> \E y \in checked : y.path = q /\ HasKey(m[q].entries[j], y)
    BY DEF Matched, HasKey
  <2>1. CASE p # path
    BY <1>1, <1>4, <2>0, <2>1
  <2>2. CASE p = path
    <3>1. i \in DOMAIN t.entries /\ new[p] = t
      BY <1>1, <1>4, <2>2
    <3>2. t.entries[i].matched <=>
            HasKey(t.entries[i], x) \/ (i \in DOMAIN m[path].entries /\ m[path].entries[i].matched)
      BY <3>1 DEF Took
    <3>3. CASE i \in DOMAIN m[path].entries
      <4>1. HasKey(t.entries[i], m[path].entries[i])
        BY <3>3 DEF Took
      <4>2. \A y : HasKey(t.entries[i], y) <=> HasKey(m[path].entries[i], y)
        BY <4>1 DEF HasKey
      <4> QED BY <2>0, <2>2, <3>1, <3>2, <3>3, <4>2
    <3>4. CASE i \notin DOMAIN m[path].entries
      <4>1. HasKey(t.entries[i], x)
        BY <3>1, <3>4 DEF Took
      <4> QED BY <2>2, <3>1, <3>2, <4>1
    <3> QED BY <3>3, <3>4
  <2> QED BY <2>1, <2>2
<1>5. Matched(new, checked \cup {x})
  BY <1>2, <1>3, <1>4 DEF Matched, HasKey
<1> QED BY <1>5 DEF new

LEMMA UpsertTakes ==
  ASSUME NEW s, NEW t, NEW name, NEW n, NEW value, NEW x, IsState(s), Updated(t, s, name, n, value),
         x.name = name, x.n = n, x.value = value
  PROVE  Took(t, s, x)
<1> DEFINE at == Position(s, name, n)
           entry == [name |-> name, n |-> n, value |-> value, matched |-> TRUE]
<1>1. /\ entry.name = name /\ entry.n = n /\ entry.value = value /\ entry.matched = TRUE
      /\ HasKey(entry, x)
  BY DEF HasKey
<1>2. /\ t.touched = s.touched \cup {name}
      /\ DOMAIN s.entries \subseteq DOMAIN t.entries
      /\ \A i \in DOMAIN t.entries :
           IF i \in DOMAIN s.entries \ at THEN t.entries[i] = s.entries[i] ELSE t.entries[i] = entry
      /\ \E i \in DOMAIN t.entries : t.entries[i] = entry
  BY DEF Updated
<1>3. \A i \in DOMAIN s.entries : i \in at <=> HasKey(s.entries[i], x)
  BY DEF Position, HasKey
<1> HIDE DEF at, entry
<1>4. \E i \in DOMAIN t.entries : HasKey(t.entries[i], x) /\ t.entries[i].value = x.value
  BY <1>1, <1>2
<1>5. ASSUME NEW i \in DOMAIN s.entries
      PROVE  /\ i \in DOMAIN t.entries /\ HasKey(t.entries[i], s.entries[i])
             /\ ~ HasKey(s.entries[i], x) => t.entries[i].value = s.entries[i].value
  BY <1>1, <1>2, <1>3 DEF HasKey
<1>6. ASSUME NEW i \in DOMAIN t.entries
      PROVE  /\ i \in DOMAIN s.entries \/ HasKey(t.entries[i], x)
             /\ t.entries[i].matched <=>
                  HasKey(t.entries[i], x) \/ (i \in DOMAIN s.entries /\ s.entries[i].matched)
  <2>1. CASE i \in DOMAIN s.entries \ at
    BY <1>2, <1>3, <2>1
  <2>2. CASE i \notin DOMAIN s.entries \ at
    <3>1. t.entries[i] = entry
      BY <1>2, <2>2
    <3>2. t.entries[i].matched = TRUE /\ HasKey(t.entries[i], x)
      BY <1>1, <3>1
    <3> QED BY <3>2
  <2> QED BY <2>1, <2>2
<1> QED BY <1>2, <1>4, <1>5, <1>6 DEF Took

LEMMA MatchTakes ==
  ASSUME NEW s, NEW name, NEW n, NEW value, NEW x, IsState(s),
         NEW i \in Position(s, name, n), s.entries[i].value = value,
         x.name = name, x.n = n, x.value = value
  PROVE  Took(Marked(s, name, Position(s, name, n)), s, x)
<1> DEFINE at == Position(s, name, n)
           t == Marked(s, name, at)
<1>1. MarkedAs(t, s, name, at)
  <2> HIDE DEF at
  <2> QED BY MarkedIs
<1> HIDE DEF t
<1>2. \A j \in DOMAIN s.entries : j \in at <=> HasKey(s.entries[j], x)
  BY DEF Position, HasKey
<1>3. i \in DOMAIN s.entries /\ s.entries[i].name = name /\ s.entries[i].n = n
  BY DEF Position
<1> HIDE DEF at
<1>4. HasKey(t.entries[i], x) /\ t.entries[i].value = x.value
  BY <1>1, <1>3 DEF HasKey, MarkedAs
<1>5. ASSUME NEW j \in DOMAIN s.entries
      PROVE  /\ HasKey(t.entries[j], s.entries[j]) /\ t.entries[j].value = s.entries[j].value
             /\ t.entries[j].matched <=> HasKey(t.entries[j], x) \/ s.entries[j].matched
  BY <1>1, <1>2 DEF HasKey, MarkedAs
<1>6. Took(t, s, x)
  BY <1>1, <1>3, <1>4, <1>5 DEF Took, MarkedAs
<1> QED BY <1>6 DEF t, at

----------------------------------------------------------------------------
(* The invariant. *)

Names(checked, p) == {x.name : x \in {y \in checked : y.path = p}}

\* What a call has done ahead of its n-th operation, as long as nothing has failed.
SoFar(h, c, n, checked, m, cs) ==
  /\ n <= Len(c.ops) + 1
  /\ \A k \in 1..(n - 1) : Sound(h, c.ops[k])
  /\ checked = {CheckAt(c, k) : k \in 1..(n - 1)}
  /\ Counted(cs, c, n) /\ Matched(m, checked)

FilesInv == files = [p \in Paths |-> files[p]] /\ \A p \in Paths : IsFile(files[p])

Begun == phase \in {"calling", "returned"}

SessionInv ==
  /\ phase \in {"over", "idle", "calling", "returned"}
  /\ phase # "over" => program \in Programs /\ todo \subseteq DOMAIN program
  /\ update \in BOOLEAN /\ (update => settled = <<>> /\ phase # "over")
  /\ Begun => \E j \in DOMAIN program \ todo : call = program[j]
  /\ ok \in BOOLEAN /\ intact \in BOOLEAN
  /\ Begun /\ intact => ok /\ Loadable

\* Each state of the manifest is the one of its file.
ManifestInv ==
  /\ manifest = [p \in Paths |-> manifest[p]]
  /\ \A p \in Paths :
       /\ IsState(manifest[p]) /\ Mirrors(manifest[p], files[p])
       /\ manifest[p].touched \subseteq Names(captured, p)

CallInv ==
  phase = "calling" =>
    /\ pc \in Nat \ {0} /\ Loadable /\ ManifestInv
    /\ IF ok THEN SoFar(host, call, pc, captured, manifest, counts) ELSE pc = Len(call.ops) + 1

\* Behind a call that went well, the files hold what it has checked.
ReturnedInv ==
  phase = "returned" /\ ok =>
    /\ Recorded(files, host, call)
    /\ captured = {CheckAt(call, k) : k \in DOMAIN call.ops}

\* A session with updates: so do they for the calls before it.
UpdatedInv ==
  phase # "over" /\ update /\ intact /\ ~ Ambiguous(program) =>
    \A i \in DOMAIN program \ todo :
      (phase = "calling" /\ program[i] = call) \/ Recorded(files, host, program[i])

\* And behind the session for all of its calls.
SettledInv ==
  settled # <<>> /\ ~ Ambiguous(settled) =>
    Loadable /\ \A i \in DOMAIN settled : Recorded(files, host, settled[i])

GreenInv ==
  phase # "over" /\ ~ update /\ settled = program /\ ~ Ambiguous(program) => intact

SnapInv ==
  FilesInv /\ SessionInv /\ CallInv /\ ReturnedInv /\ UpdatedInv /\ SettledInv /\ GreenInv

LEMMA MirrorsKeyed ==
  ASSUME NEW s, NEW f, Mirrors(s, f)
  PROVE  Keyed(s.entries) <=> Keyed(f.entries)
BY DEF Mirrors, Keyed

LEMMA LoadableKeyed ==
  ASSUME Loadable, NEW p \in Paths
  PROVE  Keyed(files[p].entries)
BY ParsesIs DEF Loadable

LEMMA OperationsAre ==
  ASSUME NEW p \in Programs, NEW i \in DOMAIN p
  PROVE  /\ Len(p[i].ops) \in Nat /\ DOMAIN p[i].ops = 1..Len(p[i].ops)
         /\ p[i].export \in {"discover", "run"}
         /\ \A k \in DOMAIN p[i].ops :
              /\ p[i].ops[k].what \in {"snapshot", "trap"} /\ IsSequence(p[i].ops[k].value)
              /\ PathOf(p[i].ops[k]) \in Paths \cup {"none"}
<1>1. IsSequence(p[i].ops)
  BY ProgramsAssumption
<1>2. Len(p[i].ops) \in Nat /\ DOMAIN p[i].ops = 1..Len(p[i].ops)
  BY <1>1, SequenceIs
<1>3. ASSUME NEW k \in DOMAIN p[i].ops
      PROVE  /\ p[i].ops[k].what \in {"snapshot", "trap"} /\ IsSequence(p[i].ops[k].value)
             /\ PathOf(p[i].ops[k]) \in Paths \cup {"none"}
  BY ProgramsAssumption DEF PathOf
<1> QED BY <1>2, <1>3, ProgramsAssumption

LEMMA CallIs ==
  ASSUME SnapInv, Begun
  PROVE  /\ Len(call.ops) \in Nat /\ DOMAIN call.ops = 1..Len(call.ops)
         /\ call.export \in {"discover", "run"}
         /\ \A k \in DOMAIN call.ops :
              /\ call.ops[k].what \in {"snapshot", "trap"} /\ IsSequence(call.ops[k].value)
              /\ PathOf(call.ops[k]) \in Paths \cup {"none"}
<1>1. PICK j \in DOMAIN program \ todo : call = program[j]
  BY DEF SnapInv, SessionInv
<1>2. program \in Programs
  BY DEF SnapInv, SessionInv, Begun
<1>3. j \in DOMAIN program
  BY <1>1
<1> QED BY <1>1, <1>2, <1>3, OperationsAre

LEMMA RefusedIs ==
  ASSUME NEW op
  PROVE  op.what = "snapshot" /\ ~ Refused(op) <=> Sound(host, op)
BY DEF Refused, Raises, Sound

LEMMA SoFarStep ==
  ASSUME NEW h, NEW c, NEW n \in Nat \ {0}, NEW checked, NEW m, NEW cs, SoFar(h, c, n, checked, m, cs),
         Len(c.ops) \in Nat, DOMAIN c.ops = 1..Len(c.ops), n \in DOMAIN c.ops, Sound(h, c.ops[n]),
         m = [p \in Paths |-> m[p]], NEW path \in Paths, path = PathOf(c.ops[n]),
         NEW name, name = NameOf(c.ops[n]), NEW t, Took(t, m[path], CheckAt(c, n)), NEW ds,
         Bumped(ds, cs, path, name)
  PROVE  SoFar(h, c, n + 1, checked \cup {CheckAt(c, n)}, [m EXCEPT ![path] = t], ds)
<1>1. (n + 1) - 1 = n /\ n + 1 <= Len(c.ops) + 1 /\ 1..n = (1..(n - 1)) \cup {n}
  OBVIOUS
<1>2. Counted(ds, c, n + 1)
  <2>1. Counted(cs, c, n)
    BY DEF SoFar
  <2> QED BY <2>1, CountedStep
<1>3. \A k \in 1..n : Sound(h, c.ops[k])
  BY <1>1 DEF SoFar
<1>4. checked \cup {CheckAt(c, n)} = {CheckAt(c, k) : k \in 1..n}
  BY <1>1 DEF SoFar
<1>5. PICK x : x = CheckAt(c, n)
  OBVIOUS
<1>6. x.path = path /\ x.name = name
  BY <1>5, CheckAtIs
<1>7. ASSUME NEW y \in checked, y.path = path, y.name = x.name
      PROVE  y.n # x.n
  <2>1. PICK k \in 1..(n - 1) : y = CheckAt(c, k)
    BY DEF SoFar
  <2>2. PathOf(c.ops[k]) = path /\ NameOf(c.ops[k]) = name
    BY <1>6, <1>7, <2>1, CheckAtIs
  <2>3. SameKey(c, k, n)
    BY <2>2 DEF SameKey
  <2>4. CheckAt(c, k).n # CheckAt(c, n).n
    BY <2>3, ChecksDiffer
  <2> QED BY <1>5, <2>1, <2>4
<1>8. Matched([m EXCEPT ![path] = t], checked \cup {x})
  <2>1. Matched(m, checked) /\ Took(t, m[path], x)
    BY <1>5 DEF SoFar
  <2> QED BY <1>6, <1>7, <2>1, MatchedStep
<1> QED BY <1>1, <1>2, <1>3, <1>4, <1>5, <1>8 DEF SoFar

LEMMA InitHolds == Init => SnapInv
<1> SUFFICES ASSUME Init PROVE SnapInv
  OBVIOUS
<1>1. FilesInv
  BY DisksAssumption DEF Init, FilesInv, IsFile
<1>2. SessionInv
  BY DEF Init, SessionInv, Begun
<1> QED BY <1>1, <1>2 DEF Init, SnapInv, CallInv, ReturnedInv, UpdatedInv, SettledInv, GreenInv

LEMMA StutterKeeps == SnapInv /\ UNCHANGED vars => SnapInv'
<1> SUFFICES ASSUME SnapInv, UNCHANGED vars PROVE SnapInv'
  OBVIOUS
<1> USE DEF vars, session, callState
<1>1. FilesInv' /\ SessionInv'
  BY DEF SnapInv, FilesInv, SessionInv, Begun, Loadable
<1>2. CallInv'
  BY DEF SnapInv, CallInv, Loadable, ManifestInv
<1>3. ReturnedInv' /\ UpdatedInv' /\ SettledInv' /\ GreenInv'
  BY DEF SnapInv, ReturnedInv, UpdatedInv, SettledInv, GreenInv, Loadable
<1> QED BY <1>1, <1>2, <1>3 DEF SnapInv

LEMMA BeginSessionKeeps ==
  ASSUME SnapInv, NEW p \in Programs, NEW u \in BOOLEAN, BeginSession(p, u)
  PROVE  SnapInv'
<1> USE DEF BeginSession, callState
<1>1. FilesInv' /\ SessionInv'
  BY DEF SnapInv, FilesInv, SessionInv, Begun, Loadable
<1>2. CallInv' /\ ReturnedInv' /\ UpdatedInv' /\ GreenInv'
  BY DEF CallInv, ReturnedInv, UpdatedInv, GreenInv
<1>3. SettledInv'
  BY DEF SnapInv, SettledInv, Loadable
<1> QED BY <1>1, <1>2, <1>3 DEF SnapInv

LEMMA BeginKeeps ==
  ASSUME SnapInv, NEW i \in todo, Begin(i)
  PROVE  SnapInv'
<1> USE DEF session
<1>1. /\ phase \in {"idle", "returned"} /\ todo' = todo \ {i} /\ call' = program[i] /\ pc' = 1
      /\ counts' = <<>> /\ captured' = {} /\ phase' \in {"calling", "returned"}
      /\ UNCHANGED <<host, program, update, settled, files>> /\ (Loadable <=> Loadable')
  BY DEF Begin, Loadable
<1>2. /\ program \in Programs /\ todo \subseteq DOMAIN program /\ i \in DOMAIN program \ todo'
  BY <1>1 DEF SnapInv, SessionInv
<1>3. FilesInv' /\ SessionInv'
  <2>1. FilesInv'
    BY <1>1 DEF SnapInv, FilesInv
  <2>2. Begun' => \E j \in DOMAIN program' \ todo' : call' = program'[j]
    BY <1>1, <1>2
  <2>3. Begun' /\ intact' => ok' /\ Loadable'
    BY <1>1 DEF Begin
  <2>4. ok' \in BOOLEAN /\ intact' \in BOOLEAN
    BY DEF Begin, SnapInv, SessionInv
  <2> QED BY <1>1, <1>2, <2>1, <2>2, <2>3, <2>4 DEF SnapInv, SessionInv
<1>4. CallInv'
  <2> SUFFICES ASSUME phase' = "calling" PROVE CallInv'
    BY DEF CallInv
  <2>1. Loadable /\ manifest' = [p \in Paths |-> Loaded(files[p])] /\ ok' = TRUE
    BY DEF Begin
  <2>2. ASSUME NEW p \in Paths
        PROVE  /\ IsState(Loaded(files[p])) /\ Mirrors(Loaded(files[p]), files[p])
               /\ Loaded(files[p]).touched = {}
               /\ \A k \in DOMAIN Loaded(files[p]).entries : ~ Loaded(files[p]).entries[k].matched
    <3>1. IsFile(files[p])
      BY DEF SnapInv, FilesInv
    <3> QED BY <3>1, LoadedIs
  <2>3. \A p \in Paths : manifest'[p] = Loaded(files[p])
    BY <2>1
  <2>4. ManifestInv'
    BY <1>1, <2>1, <2>2, <2>3 DEF ManifestInv
  <2>5. Matched(manifest', captured')
    BY <1>1, <2>2, <2>3 DEF Matched
  <2>6. Counted(counts', call', 1)
    <3>1. ASSUME NEW x, NEW y
          PROVE  CountIn(<<>>, x, y) = 0
      BY DEF CountIn
    <3>2. ASSUME NEW k
          PROVE  Cardinality({j \in 1..(1 - 1) : SameKey(call', j, k)}) = 0
      <4>1. {j \in 1..(1 - 1) : SameKey(call', j, k)} = {}
        OBVIOUS
      <4> QED BY <4>1, FS_EmptySet
    <3> QED BY <1>1, <3>1, <3>2 DEF Counted
  <2>7. 1 <= Len(call'.ops) + 1
    BY <1>1, <1>2, OperationsAre
  <2>8. SoFar(host', call', pc', captured', manifest', counts')
    <3>1. 1..(1 - 1) = {}
      OBVIOUS
    <3> QED BY <1>1, <2>5, <2>6, <2>7, <3>1 DEF SoFar
  <2> QED BY <1>1, <2>1, <2>4, <2>8 DEF CallInv
<1>5. ReturnedInv'
  BY DEF Begin, ReturnedInv
<1>6. UpdatedInv'
  <2> SUFFICES ASSUME update', intact', ~ Ambiguous(program'), NEW j \in DOMAIN program' \ todo'
               PROVE  \/ phase' = "calling" /\ program'[j] = call'
                      \/ Recorded(files', host', program'[j])
    BY DEF UpdatedInv
  <2>1. Loadable /\ phase' = "calling" /\ intact
    BY DEF Begin
  <2>2. CASE j = i
    BY <1>1, <2>1, <2>2
  <2>3. CASE j # i
    <3>1. j \in DOMAIN program \ todo
      BY <1>1, <2>3
    <3>2. Recorded(files, host, program[j])
      BY <1>1, <2>1, <3>1 DEF SnapInv, UpdatedInv
    <3> QED BY <1>1, <3>2
  <2> QED BY <2>2, <2>3
<1>7. SettledInv'
  BY <1>1 DEF SnapInv, SettledInv
<1>8. GreenInv'
  <2> SUFFICES ASSUME ~ update', settled' = program', ~ Ambiguous(program') PROVE intact'
    BY DEF GreenInv
  <2>1. intact
    BY <1>1 DEF SnapInv, GreenInv
  <2>2. settled # <<>>
    BY <1>1, <1>2
  <2>3. Loadable
    BY <1>1, <2>2 DEF SnapInv, SettledInv
  <2> QED BY <2>1, <2>3 DEF Begin
<1> QED BY <1>3, <1>4, <1>5, <1>6, <1>7, <1>8 DEF SnapInv

LEMMA EndSessionKeeps == SnapInv /\ EndSession => SnapInv'
<1> SUFFICES ASSUME SnapInv, EndSession PROVE SnapInv'
  OBVIOUS
<1>1. phase # "over" /\ phase' = "over" /\ update' = FALSE /\ ok' = TRUE /\ intact' = TRUE
      /\ UNCHANGED <<host, files>> /\ (Loadable <=> Loadable')
  BY DEF EndSession, Loadable
<1>2. FilesInv' /\ SessionInv'
  BY <1>1 DEF SnapInv, FilesInv, SessionInv, Begun
<1>3. CallInv' /\ ReturnedInv' /\ UpdatedInv' /\ GreenInv'
  BY <1>1 DEF CallInv, ReturnedInv, UpdatedInv, GreenInv
<1>4. SettledInv'
  <2>1. CASE update /\ intact /\ todo = {} /\ phase = "returned"
    <3> SUFFICES ASSUME ~ Ambiguous(settled')
                 PROVE  Loadable' /\ \A i \in DOMAIN settled' : Recorded(files', host', settled'[i])
      BY DEF SettledInv
    <3>1. settled' = program
      BY <2>1 DEF EndSession
    <3>2. Loadable
      BY <2>1 DEF SnapInv, SessionInv, Begun
    <3>3. \A i \in DOMAIN program : Recorded(files, host, program[i])
      BY <2>1, <3>1 DEF SnapInv, UpdatedInv
    <3> QED BY <1>1, <3>1, <3>2, <3>3
  <2>2. CASE ~ (update /\ intact /\ todo = {} /\ phase = "returned")
    <3>1. settled' = settled
      BY <2>2 DEF EndSession
    <3> QED BY <1>1, <3>1 DEF SnapInv, SettledInv
  <2> QED BY <2>1, <2>2
<1> QED BY <1>2, <1>3, <1>4 DEF SnapInv

\* What is so ahead of an operation.
LEMMA OperationIs ==
  ASSUME SnapInv, phase = "calling", pc <= Len(call.ops)
  PROVE  /\ ok = TRUE /\ pc \in Nat \ {0} /\ pc \in DOMAIN call.ops
         /\ SoFar(host, call, pc, captured, manifest, counts)
         /\ Loadable /\ ManifestInv /\ FilesInv /\ Begun
<1>1. Begun
  BY DEF Begun
<1>2. Len(call.ops) \in Nat /\ DOMAIN call.ops = 1..Len(call.ops)
  BY <1>1, CallIs
<1>3. pc \in Nat \ {0} /\ Loadable /\ ManifestInv /\ pc # Len(call.ops) + 1 /\ FilesInv
  BY <1>2 DEF SnapInv, CallInv
<1>4. ok = TRUE
  BY <1>3 DEF SnapInv, CallInv, SessionInv
<1> QED BY <1>1, <1>2, <1>3, <1>4 DEF SnapInv, CallInv

\* A trap, or a check that the host refuses.
LEMMA TrapKeeps == SnapInv /\ Trap => SnapInv'
<1> SUFFICES ASSUME SnapInv, Trap PROVE SnapInv'
  OBVIOUS
<1>1. /\ phase = "calling" /\ pc <= Len(call.ops) /\ pc' = Len(call.ops) + 1
      /\ ok' = FALSE /\ intact' = FALSE
      /\ UNCHANGED <<session, files, todo, phase, call, manifest, counts, captured>>
      /\ UNCHANGED <<host, program, update, settled>> /\ (Loadable <=> Loadable')
  BY DEF Trap, Fail, session, Loadable
<1>2. /\ pc \in DOMAIN call.ops /\ SoFar(host, call, pc, captured, manifest, counts)
      /\ Loadable /\ ManifestInv /\ Begun
  BY <1>1, OperationIs
<1>3. FilesInv' /\ SessionInv'
  BY <1>1 DEF SnapInv, FilesInv, SessionInv, Begun
<1>4. CallInv'
  <2>1. Len(call.ops) + 1 \in Nat \ {0}
    BY <1>2, CallIs
  <2> QED BY <1>1, <1>2, <2>1 DEF CallInv, ManifestInv
<1>5. ReturnedInv' /\ UpdatedInv' /\ SettledInv'
  BY <1>1 DEF SnapInv, ReturnedInv, UpdatedInv, SettledInv
<1>6. GreenInv'
  <2> SUFFICES ASSUME ~ update, settled = program, ~ Ambiguous(program) PROVE FALSE
    BY <1>1 DEF GreenInv
  <2>1. PICK j \in DOMAIN program \ todo : call = program[j]
    BY <1>2 DEF SnapInv, SessionInv
  <2>2. Recorded(files, host, call)
    BY <2>1 DEF SnapInv, SettledInv
  <2>3. Sound(host, Op)
    BY <1>2, <2>2 DEF Recorded, Op
  <2>4. ~ Refused(Op) /\ Op.what = "snapshot"
    BY <2>3, RefusedIs
  <2> QED BY <2>4 DEF Trap
<1> QED BY <1>3, <1>4, <1>5, <1>6 DEF SnapInv

\* What is so ahead of a check.
Ahead(path, name, x) ==
  /\ path = PathOf(Op) /\ name = NameOf(Op) /\ path \in Paths
  /\ x = CheckAt(call, pc) /\ x.path = path /\ x.name = name
  /\ x.n = CountOf(path, name) /\ x.value = Op.value
  /\ Sound(host, Op) /\ IsSequence(Op.value)
  /\ IsState(manifest[path]) /\ Mirrors(manifest[path], files[path])
  /\ Keyed(manifest[path].entries)
  /\ Bumped(counts', counts, path, name) /\ captured' = captured \cup {x}
  /\ UNCHANGED <<host, program, update, sessions, settled, todo, phase, call>>

LEMMA CheckIs ==
  ASSUME SnapInv, Check
  PROVE  \E path, name, x : Ahead(path, name, x)
<1> DEFINE path == PathOf(Op)
           name == NameOf(Op)
           x == CheckAt(call, pc)
<1>1. /\ phase = "calling" /\ pc <= Len(call.ops) /\ Op.what = "snapshot" /\ ~ Refused(Op)
      /\ UNCHANGED <<host, program, update, sessions, settled, todo, phase, call>>
  BY DEF Check, session
<1>2. /\ pc \in Nat \ {0} /\ pc \in DOMAIN call.ops
      /\ SoFar(host, call, pc, captured, manifest, counts)
      /\ Loadable /\ ManifestInv /\ FilesInv /\ Begun
  BY <1>1, OperationIs
<1>3. Sound(host, Op) /\ Op = call.ops[pc]
  BY <1>1, RefusedIs DEF Op
<1>4. path \in Paths /\ IsSequence(Op.value)
  BY <1>2, <1>3, CallIs DEF Sound
<1>5. /\ IsState(manifest[path]) /\ Mirrors(manifest[path], files[path])
      /\ Keyed(manifest[path].entries)
  BY <1>2, <1>4, MirrorsKeyed, LoadableKeyed DEF ManifestInv
<1>6. CountOf(path, name) = CountIn(counts, path, name)
  BY DEF CountOf, CountIn
<1>7. Bumped(counts', counts, path, name)
  <2>1. counts' = [c \in DOMAIN counts \cup {<<path, name>>} |->
                    IF c = <<path, name>> THEN CountOf(path, name) + 1 ELSE counts[c]]
    BY DEF Check
  <2> QED BY <1>6, <2>1, Zenon DEF Bumped
<1>8. CountOf(path, name) = x.n
  <2>1. Counted(counts, call, pc)
    BY <1>2 DEF SoFar
  <2>2. path = PathOf(call.ops[pc]) /\ name = NameOf(call.ops[pc])
    BY <1>3
  <2> HIDE DEF path, name, x
  <2>3. CountIn(counts, path, name) = CheckAt(call, pc).n
    BY <1>2, <1>7, <2>1, <2>2, CountedStep
  <2> QED BY <1>6, <2>3 DEF x, path, name
<1>9. x.path = path /\ x.name = name /\ x.value = Op.value
  BY <1>3, CheckAtIs
<1>10. captured' = captured \cup {x}
  <2>1. captured' = captured
          \cup {[path |-> path, name |-> name, n |-> CountOf(path, name), value |-> Op.value]}
    BY DEF Check
  <2>2. x = [path |-> path, name |-> name, n |-> CountOf(path, name), value |-> Op.value]
    BY <1>3, <1>8, CheckAtIs DEF CheckAt
  <2> QED BY <2>1, <2>2
<1> HIDE DEF path, name, x
<1>11. Ahead(path, name, x)
  BY <1>1, <1>3, <1>4, <1>5, <1>7, <1>8, <1>9, <1>10 DEF Ahead, path, name, x
<1> QED BY <1>11

\* The manifest behind a check.
LEMMA ManifestStep ==
  ASSUME ManifestInv, NEW path \in Paths, NEW x, x.path = path,
         captured' = captured \cup {x}, NEW t, IsState(t), Mirrors(t, files'[path]),
         t.touched \subseteq manifest[path].touched \cup {x.name},
         manifest' = [manifest EXCEPT ![path] = t], \A p \in Paths \ {path} : files'[p] = files[p]
  PROVE  ManifestInv'
<1>1. manifest' = [p \in Paths |-> manifest'[p]] /\ manifest'[path] = t
      /\ \A p \in Paths \ {path} : manifest'[p] = manifest[p]
  BY DEF ManifestInv
<1>2. ASSUME NEW p \in Paths
      PROVE  /\ IsState(manifest'[p]) /\ Mirrors(manifest'[p], files'[p])
             /\ manifest'[p].touched \subseteq Names(captured', p)
  <2>1. Names(captured, p) \subseteq Names(captured', p)
    BY DEF Names
  <2>2. p = path => x.name \in Names(captured', p)
    BY DEF Names
  <2>3. CASE p = path
    BY <1>1, <2>1, <2>2, <2>3 DEF ManifestInv
  <2>4. CASE p # path
    BY <1>1, <2>1, <2>4 DEF ManifestInv
  <2> QED BY <2>3, <2>4
<1> QED BY <1>1, <1>2 DEF ManifestInv

\* A check that goes well leaves the call one further.
LEMMA CallStep ==
  ASSUME SnapInv, phase = "calling", pc <= Len(call.ops), NEW path, NEW name, NEW x,
         Ahead(path, name, x), NEW t,
         Took(t, manifest[path], x), manifest' = [manifest EXCEPT ![path] = t], pc' = pc + 1,
         UNCHANGED ok,
         ManifestInv', Loadable'
  PROVE  CallInv'
<1>1. /\ ok = TRUE /\ pc \in Nat \ {0} /\ pc \in DOMAIN call.ops
      /\ SoFar(host, call, pc, captured, manifest, counts) /\ ManifestInv /\ Begun
  BY OperationIs
<1>2. Len(call.ops) \in Nat /\ DOMAIN call.ops = 1..Len(call.ops)
  BY <1>1, CallIs
<1>3. /\ Sound(host, call.ops[pc]) /\ path \in Paths /\ path = PathOf(call.ops[pc])
      /\ name = NameOf(call.ops[pc]) /\ x = CheckAt(call, pc)
      /\ Bumped(counts', counts, path, name) /\ captured' = captured \cup {x}
      /\ UNCHANGED <<host, call, phase>>
  BY DEF Ahead, Op
<1>4. manifest = [p \in Paths |-> manifest[p]]
  BY <1>1 DEF ManifestInv
<1>5. Took(t, manifest[path], CheckAt(call, pc))
  BY <1>3
<1>6. SoFar(host, call, pc + 1, captured \cup {CheckAt(call, pc)},
            [manifest EXCEPT ![path] = t], counts')
  BY <1>1, <1>2, <1>3, <1>4, <1>5, SoFarStep
<1>7. SoFar(host, call, pc', captured', manifest', counts')
  BY <1>3, <1>6
<1>8. pc' \in Nat \ {0}
  BY <1>1
<1> QED BY <1>1, <1>3, <1>7, <1>8 DEF CallInv

\* With --update-snapshots the check is recorded.
LEMMA RecordKeeps ==
  ASSUME SnapInv, Check, update
  PROVE  SnapInv'
<1>1. PICK path, name, x : Ahead(path, name, x)
  BY CheckIs
<1>2. phase = "calling" /\ pc <= Len(call.ops) /\ path = PathOf(Op) /\ name = NameOf(Op)
  BY <1>1 DEF Check, Ahead
<1>3. /\ ok = TRUE /\ pc \in DOMAIN call.ops /\ Loadable /\ ManifestInv /\ FilesInv /\ Begun
  BY <1>2, OperationIs
<1>4. PICK s : s = manifest[path]
  OBVIOUS
<1>5. PICK f : f = files[path]
  OBVIOUS
<1>6. PICK u : u = Upserted(s, name, x.n, Op.value)
  OBVIOUS
<1>7. PICK g : g = Rendered(u.entries)
  OBVIOUS
<1>8. /\ manifest' = [manifest EXCEPT ![path] = u] /\ files' = [files EXCEPT ![path] = g]
      /\ pc' = pc + 1 /\ UNCHANGED <<ok, intact>>
  BY <1>1, <1>2, <1>4, <1>6, <1>7 DEF Check, Ahead
<1>9. /\ IsState(s) /\ Mirrors(s, f) /\ Keyed(s.entries) /\ IsSequence(Op.value) /\ path \in Paths
      /\ x.path = path /\ x.name = name /\ x.value = Op.value /\ captured' = captured \cup {x}
      /\ Sound(host, Op)
      /\ UNCHANGED <<host, program, update, sessions, settled, todo, phase, call>>
  BY <1>1, <1>4, <1>5 DEF Ahead
<1>10. Written(u, g, s, f, name, x.n, Op.value)
  BY <1>6, <1>7, <1>9, WrittenIs
<1>11. /\ files' = [p \in Paths |-> files'[p]] /\ files'[path] = g
       /\ \A p \in Paths \ {path} : files'[p] = files[p]
  BY <1>3, <1>8, <1>9 DEF FilesInv
<1>12. FilesInv'
  BY <1>3, <1>10, <1>11 DEF FilesInv, Written
<1>13. Loadable'
  BY <1>3, <1>9, <1>10, <1>11 DEF Loadable, Written
<1>14. SessionInv'
  BY <1>3, <1>8, <1>9, <1>13 DEF SnapInv, SessionInv, Begun
<1>15. ManifestInv'
  <2>1. IsState(u) /\ Mirrors(u, g) /\ u.touched \subseteq s.touched \cup {x.name}
    BY <1>9, <1>10 DEF Written, Updated
  <2> QED BY <1>3, <1>4, <1>8, <1>9, <1>11, <2>1, ManifestStep
<1>16. CallInv'
  <2>1. Updated(u, s, name, x.n, Op.value)
    BY <1>10 DEF Written
  <2>2. Took(u, s, x)
    BY <1>9, <2>1, UpsertTakes
  <2> QED BY <1>1, <1>2, <1>4, <1>8, <1>13, <1>15, <2>2, CallStep
<1>17. ReturnedInv' /\ GreenInv'
  BY <1>2, <1>9 DEF ReturnedInv, GreenInv
<1>18. UpdatedInv'
  <2> SUFFICES ASSUME intact, ~ Ambiguous(program), NEW i \in DOMAIN program \ todo,
                      program[i] # call
               PROVE  Recorded(files', host, program[i])
    BY <1>2, <1>8, <1>9 DEF UpdatedInv
  <2>1. Recorded(files, host, program[i])
    BY <1>2 DEF SnapInv, UpdatedInv
  <2>2. PICK j \in DOMAIN program \ todo : call = program[j]
    BY <1>3 DEF SnapInv, SessionInv
  <2>3. i \in DOMAIN program /\ j \in DOMAIN program /\ i # j
    BY <2>2
  <2>4. ASSUME NEW k \in DOMAIN program[i].ops
        PROVE  Alike(files[PathOf(program[i].ops[k])], files'[PathOf(program[i].ops[k])],
                     NameOf(program[i].ops[k]))
    <3>1. Sound(host, program[i].ops[k])
      BY <2>1 DEF Recorded
    <3>2. k \in Checks(program[i]) /\ pc \in Checks(program[j])
      BY <1>3, <1>9, <2>2, <3>1 DEF Checks, Sound, Op
    <3>3. PathOf(program[i].ops[k]) # path \/ NameOf(program[i].ops[k]) # name
      BY <1>2, <2>2, <2>3, <3>2 DEF Ambiguous, Op
    <3>4. PathOf(program[i].ops[k]) \in Paths
      <4>1. program \in Programs
        BY <1>2 DEF SnapInv, SessionInv
      <4> QED BY <2>3, <3>1, <4>1, OperationsAre DEF Sound
    <3>5. CASE PathOf(program[i].ops[k]) = path
      BY <1>5, <1>10, <1>11, <3>3, <3>5 DEF Written
    <3>6. CASE PathOf(program[i].ops[k]) # path
      <4>1. files'[PathOf(program[i].ops[k])] = files[PathOf(program[i].ops[k])]
        BY <1>11, <3>4, <3>6
      <4> QED BY <4>1, AlikeItself
    <3> QED BY <3>5, <3>6
  <2> QED BY <2>1, <2>4, RecordedStays
<1>19. SettledInv'
  BY <1>9 DEF SnapInv, SessionInv, SettledInv
<1> QED BY <1>12, <1>14, <1>16, <1>17, <1>18, <1>19 DEF SnapInv

\* Without it, the files stay as they are, and the check is compared to the entries
\* at the positions at: t is the state with these matched.
Compared(path, s, t, at) ==
  /\ UNCHANGED files
  /\ \/ /\ s.exists = TRUE /\ manifest' = [manifest EXCEPT ![path] = t]
        /\ \E i \in at : s.entries[i].value = Op.value
        /\ pc' = pc + 1 /\ UNCHANGED <<ok, intact>>
     \/ /\ \/ s.exists = FALSE /\ manifest' = [manifest EXCEPT ![path] = s]
           \/ /\ s.exists = TRUE /\ manifest' = [manifest EXCEPT ![path] = t]
              /\ ~ \E i \in at : s.entries[i].value = Op.value
        /\ pc' = Len(call.ops) + 1 /\ ok' = FALSE /\ intact' = FALSE

LEMMA ComparedIs ==
  ASSUME SnapInv, Check, ~ update, NEW path, NEW name, NEW x, Ahead(path, name, x),
         NEW s, s = manifest[path], NEW at, at = Position(s, name, x.n),
         NEW t, t = Marked(s, name, at)
  PROVE  Compared(path, s, t, at)
<1>1. path = PathOf(Op) /\ name = NameOf(Op) /\ x.n = CountOf(path, name) /\ Mirrors(s, files[path])
      /\ path \in Paths
  BY DEF Ahead
<1>2. PICK r : r = Match(s, name, x.n, Op.value)
  OBVIOUS
<1>3. /\ UNCHANGED files /\ manifest' = [manifest EXCEPT ![path] = r.state]
      /\ IF r.ok THEN pc' = pc + 1 /\ UNCHANGED <<ok, intact>> ELSE Fail
  BY <1>1, <1>2 DEF Check
<1>4. s.exists \in BOOLEAN
  <2>1. files[path].exists \in BOOLEAN
    BY <1>1 DEF SnapInv, FilesInv, IsFile
  <2> QED BY <1>1, <2>1 DEF Mirrors
<1>5. CASE ~ s.exists
  <2>1. r = [ok |-> FALSE, state |-> s]
    BY <1>2, <1>5 DEF Match
  <2>2. r.ok = FALSE /\ r.state = s
    BY <2>1
  <2>3. s.exists = FALSE
    BY <1>4, <1>5
  <2>4. Fail
    BY <1>3, <2>2, Zenon
  <2> QED BY <1>3, <2>2, <2>3, <2>4 DEF Fail, Compared
<1>6. CASE s.exists
  <2>1. PICK b : b = (\E i \in at : s.entries[i].value = Op.value)
    OBVIOUS
  <2>2. r = [ok |-> b, state |-> t]
    BY <1>2, <1>6, <2>1, Zenon DEF Match
  <2>3. r.ok = b /\ r.state = t
    BY <2>2
  <2>4. s.exists = TRUE
    BY <1>4, <1>6
  <2>5. CASE b
    <3>1. r.ok
      BY <2>3, <2>5, Zenon
    <3>2. \E i \in at : s.entries[i].value = Op.value
      BY <2>1, <2>5, Zenon
    <3>3. pc' = pc + 1 /\ UNCHANGED <<ok, intact>>
      BY <1>3, <3>1, Zenon
    <3> QED BY <1>3, <2>3, <2>4, <3>2, <3>3 DEF Compared
  <2>6. CASE ~ b
    <3>1. ~ r.ok
      BY <2>3, <2>6, Zenon
    <3>2. ~ \E i \in at : s.entries[i].value = Op.value
      BY <2>1, <2>6, Zenon
    <3>3. Fail
      BY <1>3, <3>1, Zenon
    <3> QED BY <1>3, <2>3, <2>4, <3>2, <3>3 DEF Compared, Fail
  <2> QED BY <2>5, <2>6
<1> QED BY <1>5, <1>6

LEMMA CompareKeeps ==
  ASSUME SnapInv, Check, ~ update
  PROVE  SnapInv'
<1>1. PICK path, name, x : Ahead(path, name, x)
  BY CheckIs
<1>2. phase = "calling" /\ pc <= Len(call.ops) /\ path = PathOf(Op) /\ name = NameOf(Op)
  BY <1>1 DEF Check, Ahead
<1>3. /\ ok = TRUE /\ pc \in DOMAIN call.ops /\ Loadable /\ ManifestInv /\ FilesInv /\ Begun
  BY <1>2, OperationIs
<1>4. PICK s : s = manifest[path]
  OBVIOUS
<1>5. PICK at : at = Position(s, name, x.n)
  OBVIOUS
<1>6. PICK t : t = Marked(s, name, at)
  OBVIOUS
<1>7. /\ IsState(s) /\ Mirrors(s, files[path]) /\ Keyed(s.entries) /\ path \in Paths
      /\ x = CheckAt(call, pc) /\ x.path = path /\ x.name = name /\ x.value = Op.value
      /\ captured' = captured \cup {x} /\ Sound(host, Op)
      /\ UNCHANGED <<host, program, update, sessions, settled, todo, phase, call>>
  BY <1>1, <1>4 DEF Ahead
<1>8. Compared(path, s, t, at)
  BY <1>1, <1>4, <1>5, <1>6, ComparedIs
<1>9. /\ UNCHANGED files /\ Loadable' /\ FilesInv'
      /\ \/ pc' = pc + 1 /\ UNCHANGED <<ok, intact>>
         \/ pc' = Len(call.ops) + 1 /\ ok' = FALSE /\ intact' = FALSE
  BY <1>3, <1>8 DEF Loadable, FilesInv, Compared
<1>10. SessionInv'
  BY <1>3, <1>7, <1>9 DEF SnapInv, SessionInv, Begun
<1>11. /\ IsState(t) /\ t.touched = s.touched \cup {name}
       /\ s.exists = TRUE => Mirrors(t, files[path])
  <2>1. IsState(t) /\ MarkedAs(t, s, name, at)
    BY <1>6, <1>7, MarkedIs
  <2> QED BY <1>7, <2>1 DEF MarkedAs, Mirrors
<1>12. ASSUME NEW q, IsState(q), Mirrors(q, files[path]), q.touched \subseteq s.touched \cup {name},
              manifest' = [manifest EXCEPT ![path] = q]
       PROVE  ManifestInv'
  BY <1>3, <1>4, <1>7, <1>9, <1>12, ManifestStep
<1>13. ManifestInv'
  <2>1. s.touched \subseteq s.touched \cup {name} /\ t.touched \subseteq s.touched \cup {name}
    BY <1>11
  <2> QED BY <1>7, <1>8, <1>11, <1>12, <2>1 DEF Compared
<1>14. CallInv'
  <2>1. CASE ok' = FALSE
    <3>1. Len(call.ops) + 1 \in Nat \ {0}
      BY <1>3, CallIs
    <3>2. pc' = Len(call'.ops) + 1
      BY <1>3, <1>7, <1>9, <2>1
    <3> QED BY <1>7, <1>9, <1>13, <2>1, <3>1, <3>2 DEF CallInv
  <2>2. CASE ok' # FALSE
    <3>1. /\ manifest' = [manifest EXCEPT ![path] = t] /\ pc' = pc + 1 /\ UNCHANGED ok
          /\ \E i \in at : s.entries[i].value = Op.value
      BY <1>8, <2>2 DEF Compared
    <3>2. PICK i \in at : s.entries[i].value = x.value
      BY <1>7, <3>1
    <3>3. Took(t, s, x)
      BY <1>5, <1>6, <1>7, <3>2, MatchTakes
    <3> QED BY <1>1, <1>2, <1>4, <1>9, <1>13, <3>1, <3>3, CallStep
  <2> QED BY <2>1, <2>2
<1>15. ReturnedInv' /\ UpdatedInv'
  BY <1>2, <1>7 DEF ReturnedInv, UpdatedInv
<1>16. SettledInv'
  BY <1>3, <1>7, <1>9 DEF SnapInv, SettledInv
<1>17. GreenInv'
  <2> SUFFICES ASSUME settled = program, ~ Ambiguous(program) PROVE intact'
    BY <1>7 DEF GreenInv
  <2>1. intact
    BY <1>2 DEF SnapInv, GreenInv
  <2>2. PICK j \in DOMAIN program \ todo : call = program[j]
    BY <1>3 DEF SnapInv, SessionInv
  <2>3. Recorded(files, host, call)
    BY <2>2 DEF SnapInv, SettledInv
  <2>4. PICK e \in ToSet(files[path].entries) : Holds(e, x)
    BY <1>2, <1>3, <1>7, <2>3 DEF Recorded, Op
  <2>5. PICK i \in DOMAIN files[path].entries : e = files[path].entries[i]
    BY <2>4 DEF ToSet
  <2>6. /\ i \in DOMAIN s.entries /\ s.entries[i].name = name /\ s.entries[i].n = x.n
        /\ s.entries[i].value = Op.value
    BY <1>7, <2>4, <2>5 DEF Mirrors, Holds
  <2>7. i \in at
    BY <1>5, <2>6 DEF Position
  <2>8. s.exists = TRUE
    <3>1. files[path].entries # <<>>
      BY <2>5
    <3>2. files[path].exists = TRUE
      BY <1>3, <1>7, <3>1 DEF FilesInv, IsFile
    <3> QED BY <1>7, <3>2 DEF Mirrors
  <2> QED BY <1>8, <2>1, <2>6, <2>7, <2>8 DEF Compared
<1> QED BY <1>9, <1>10, <1>14, <1>15, <1>16, <1>17 DEF SnapInv

LEMMA StaleIs ==
  ASSUME NEW s
  PROVE  /\ Stale(s) \subseteq DOMAIN s.entries
         /\ \A i \in DOMAIN s.entries :
              i \notin Stale(s) <=> s.entries[i].matched \/ s.entries[i].name \notin s.touched
BY DEF Stale, Kept

\* A file that stays as it is holds what is matched.
LEMMA SameFileIs ==
  ASSUME NEW s, NEW f, IsFile(f), Mirrors(s, f)
  PROVE  HoldsMatched(s, f, FALSE) /\ (~ HasStale(s) => HoldsMatched(s, f, TRUE))
<1>1. /\ DOMAIN s.entries = DOMAIN f.entries
      /\ \A i \in DOMAIN s.entries : Reads(s.entries[i], f.entries[i])
  BY MirrorsReads DEF Mirrors
<1>2. \A i \in DOMAIN s.entries : \E d \in ToSet(f.entries) : Reads(s.entries[i], d)
  BY <1>1 DEF ToSet
<1>3. ASSUME ~ HasStale(s), NEW d \in ToSet(f.entries), d.name \in s.touched
      PROVE  \E i \in DOMAIN s.entries : s.entries[i].matched /\ Reads(s.entries[i], d)
  <2>1. PICK i \in DOMAIN s.entries : d = f.entries[i] /\ Reads(s.entries[i], d)
    BY <1>1 DEF ToSet
  <2>2. s.entries[i].name \in s.touched /\ i \notin Stale(s)
    BY <1>3, <2>1 DEF Reads, HasStale
  <2> QED BY <2>1, <2>2, StaleIs
<1> QED BY <1>2, <1>3 DEF HoldsMatched

\* What finalizeSnapshotManifest leaves of a file: what is matched and, under the
\* names that it has touched, nothing else; the other names are left alone.
FinalFile(g, f, s) ==
  /\ IsFile(g) /\ Parses(g.entries) /\ HoldsMatched(s, g, TRUE)
  /\ \A name : name \notin s.touched => Alike(f, g, name)

LEMMA FinalFileIs ==
  ASSUME NEW s, NEW f, IsFile(f), Parses(f.entries), IsState(s), Mirrors(s, f), NEW g,
         g = IF HasStale(s) THEN Rendered(Filtered(s.entries, DOMAIN s.entries \ Stale(s))) ELSE f
  PROVE  FinalFile(g, f, s)
<1>1. CASE ~ HasStale(s)
  <2>1. g = f
    BY <1>1
  <2> QED BY <1>1, <2>1, SameFileIs, AlikeItself DEF FinalFile
<1>2. CASE HasStale(s)
  <2>1. PICK keep : keep = DOMAIN s.entries \ Stale(s)
    OBVIOUS
  <2>2. g = Rendered(Filtered(s.entries, keep))
    BY <1>2, <2>1
  <2>3. Cleaned(g, s, keep)
    BY <2>1, <2>2, CleanedIs
  <2>4. Keyed(s.entries)
    BY MirrorsKeyed, ParsesIs
  <2>5. \A i \in DOMAIN s.entries :
          i \in keep <=> s.entries[i].matched \/ s.entries[i].name \notin s.touched
    BY <2>1, StaleIs
  <2>6. keep \subseteq DOMAIN s.entries
    BY <2>1
  <2>7. HoldsMatched(s, g, TRUE)
    <3>1. ASSUME NEW d \in ToSet(g.entries), d.name \in s.touched
          PROVE  \E i \in DOMAIN s.entries : s.entries[i].matched /\ Reads(s.entries[i], d)
      <4>1. PICK i \in keep : Reads(s.entries[i], d)
        BY <2>3 DEF Cleaned
      <4> QED BY <2>5, <2>6, <3>1, <4>1 DEF Reads
    <3> QED BY <2>3, <2>5, <3>1 DEF HoldsMatched, Cleaned
  <2>8. ASSUME NEW name, name \notin s.touched
        PROVE  Alike(f, g, name)
    <3>1. /\ DOMAIN s.entries = DOMAIN f.entries
          /\ \A i \in DOMAIN s.entries : Reads(s.entries[i], f.entries[i])
      BY MirrorsReads DEF Mirrors
    <3>2. ASSUME NEW e \in ToSet(f.entries), e.name = name
          PROVE  \E d \in ToSet(g.entries) : Agree(e, d)
      <4>1. PICK i \in DOMAIN s.entries : e = f.entries[i] /\ Reads(s.entries[i], e)
        BY <3>1 DEF ToSet
      <4>2. i \in keep
        BY <2>5, <2>8, <3>2, <4>1 DEF Reads
      <4>3. PICK d \in ToSet(g.entries) : Reads(s.entries[i], d)
        BY <2>3, <4>2 DEF Cleaned
      <4> QED BY <4>1, <4>3 DEF Reads, Agree
    <3>3. ASSUME NEW d \in ToSet(g.entries), d.name = name
          PROVE  \E e \in ToSet(f.entries) : Agree(e, d)
      <4>1. PICK i \in keep : Reads(s.entries[i], d)
        BY <2>3 DEF Cleaned
      <4>2. i \in DOMAIN f.entries /\ f.entries[i] \in ToSet(f.entries) /\ Agree(f.entries[i], d)
        BY <2>6, <3>1, <4>1 DEF Reads, Agree, ToSet
      <4> QED BY <4>2
    <3> QED BY <3>2, <3>3 DEF Alike
  <2> QED BY <2>3, <2>4, <2>7, <2>8 DEF FinalFile, Cleaned
<1> QED BY <1>1, <1>2

\* A call that is over has gone through all of its operations, if it went well.
LEMMA CallIsOver ==
  ASSUME SnapInv, phase = "calling", pc > Len(call.ops), ok
  PROVE  /\ captured = {CheckAt(call, k) : k \in DOMAIN call.ops}
         /\ \A k \in DOMAIN call.ops : Sound(host, call.ops[k])
         /\ Matched(manifest, captured)
<1>1. Begun
  BY DEF Begun
<1>2. Len(call.ops) \in Nat /\ DOMAIN call.ops = 1..Len(call.ops)
  BY <1>1, CallIs
<1>3. SoFar(host, call, pc, captured, manifest, counts) /\ pc \in Nat
  BY DEF SnapInv, CallInv
<1>4. pc = Len(call.ops) + 1
  BY <1>2, <1>3 DEF SoFar
<1>5. 1..(pc - 1) = DOMAIN call.ops
  BY <1>2, <1>4
<1> QED BY <1>3, <1>5 DEF SoFar

LEMMA ReturnIs ==
  ASSUME SnapInv, Return
  PROVE  /\ phase = "calling" /\ pc > Len(call.ops) /\ phase' = "returned"
         /\ UNCHANGED <<host, program, update, sessions, settled, todo, call, pc, captured>>
         /\ Loadable /\ ManifestInv /\ FilesInv /\ Begun
BY DEF Return, session, SnapInv, CallInv, Begun

LEMMA FilesReturn ==
  ASSUME SnapInv, Return, call.export = "run", update
  PROVE  /\ files' = [p \in Paths |-> files'[p]]
         /\ \A p \in Paths : FinalFile(files'[p], files[p], manifest[p])
<1>1. Loadable /\ ManifestInv /\ FilesInv
  BY ReturnIs
<1>2. files' = Finalized(manifest)
  BY DEF Return
<1>3. files' = [p \in Paths |->
                 IF HasStale(manifest[p])
                 THEN Rendered(Filtered(manifest[p].entries,
                                        DOMAIN manifest[p].entries \ Stale(manifest[p])))
                 ELSE files[p]]
  BY <1>2 DEF Finalized
<1>4. ASSUME NEW p \in Paths
      PROVE  FinalFile(files'[p], files[p], manifest[p])
  <2>1. files'[p] = IF HasStale(manifest[p])
                    THEN Rendered(Filtered(manifest[p].entries,
                                           DOMAIN manifest[p].entries \ Stale(manifest[p])))
                    ELSE files[p]
    BY <1>3, Zenon
  <2>2. /\ IsFile(files[p]) /\ Parses(files[p].entries)
        /\ IsState(manifest[p]) /\ Mirrors(manifest[p], files[p])
    BY <1>1 DEF FilesInv, Loadable, ManifestInv
  <2> QED BY <2>1, <2>2, FinalFileIs
<1> QED BY <1>3, <1>4

\* A return that records: the files hold what the call has checked.
LEMMA RecordedAtReturn ==
  ASSUME SnapInv, Return, ok,
         \A p \in Paths : HoldsMatched(manifest[p], files'[p], call.export = "run")
  PROVE  Recorded(files', host, call) /\ captured = {CheckAt(call, k) : k \in DOMAIN call.ops}
<1>1. phase = "calling" /\ pc > Len(call.ops) /\ Loadable /\ ManifestInv
  BY ReturnIs
<1>2. /\ captured = {CheckAt(call, k) : k \in DOMAIN call.ops}
      /\ \A k \in DOMAIN call.ops : Sound(host, call.ops[k])
      /\ Matched(manifest, captured)
  BY <1>1, CallIsOver
<1>3. \A p \in Paths : Keyed(manifest[p].entries)
  BY <1>1, MirrorsKeyed, LoadableKeyed DEF ManifestInv
<1> QED BY <1>2, <1>3, CallIsRecorded

\* The finalization of an update leaves the other calls of the program alone.
LEMMA OthersAtReturn ==
  ASSUME SnapInv, Return, call.export = "run", update, ok, ~ Ambiguous(program),
         NEW i \in DOMAIN program \ todo, program[i] # call, Recorded(files, host, program[i])
  PROVE  Recorded(files', host, program[i])
<1>1. phase = "calling" /\ pc > Len(call.ops) /\ Begun /\ ManifestInv
  BY ReturnIs
<1>2. PICK j \in DOMAIN program \ todo : call = program[j]
  BY <1>1 DEF SnapInv, SessionInv
<1>3. i \in DOMAIN program /\ j \in DOMAIN program /\ i # j /\ program \in Programs
  BY <1>1, <1>2 DEF SnapInv, SessionInv
<1>4. ASSUME NEW k \in DOMAIN program[i].ops
      PROVE  Alike(files[PathOf(program[i].ops[k])], files'[PathOf(program[i].ops[k])],
                   NameOf(program[i].ops[k]))
  <2>1. PICK p : p = PathOf(program[i].ops[k])
    OBVIOUS
  <2>2. PICK name : name = NameOf(program[i].ops[k])
    OBVIOUS
  <2>3. Sound(host, program[i].ops[k])
    BY DEF Recorded
  <2>4. p \in Paths
    BY <1>3, <2>1, <2>3, OperationsAre DEF Sound
  <2>5. name \notin manifest[p].touched
    <3> SUFFICES ASSUME name \in manifest[p].touched PROVE FALSE
      OBVIOUS
    <3>1. PICK x \in captured : x.path = p /\ x.name = name
      BY <1>1, <2>4 DEF ManifestInv, Names
    <3>2. PICK l \in DOMAIN call.ops : x = CheckAt(call, l) /\ Sound(host, call.ops[l])
      BY <1>1, <3>1, CallIsOver
    <3>3. PathOf(program[j].ops[l]) = p /\ NameOf(program[j].ops[l]) = name
      BY <1>2, <3>1, <3>2, CheckAtIs
    <3>4. k \in Checks(program[i]) /\ l \in Checks(program[j])
      BY <1>2, <2>3, <3>2 DEF Checks, Sound
    <3> QED BY <1>3, <2>1, <2>2, <3>3, <3>4 DEF Ambiguous
  <2>6. FinalFile(files'[p], files[p], manifest[p])
    BY <2>4, FilesReturn
  <2> QED BY <2>1, <2>2, <2>5, <2>6 DEF FinalFile
<1> QED BY <1>4, RecordedStays

\* Behind an export that wrote no more: the discovery, or a run without the flag.
LEMMA UpdatedAtReturn ==
  ASSUME SnapInv, Return, UNCHANGED intact, ReturnedInv', intact => ok',
         \A i \in DOMAIN program \ todo :
           program[i] # call /\ update /\ intact /\ ~ Ambiguous(program) =>
             (Recorded(files, host, program[i]) => Recorded(files', host, program[i]))
  PROVE  UpdatedInv'
<1>1. /\ phase = "calling" /\ phase' = "returned"
      /\ UNCHANGED <<host, program, update, todo, call>>
  BY ReturnIs
<1> SUFFICES ASSUME update, intact, ~ Ambiguous(program), NEW i \in DOMAIN program \ todo
             PROVE  Recorded(files', host, program[i])
  BY <1>1 DEF UpdatedInv
<1>2. CASE program[i] = call
  BY <1>1, <1>2 DEF ReturnedInv
<1>3. CASE program[i] # call
  BY <1>1, <1>3 DEF SnapInv, UpdatedInv
<1> QED BY <1>2, <1>3

LEMMA DiscoveryReturns ==
  ASSUME SnapInv, Return, call.export # "run"
  PROVE  SnapInv'
<1>1. /\ phase = "calling" /\ pc > Len(call.ops) /\ phase' = "returned"
      /\ Loadable /\ ManifestInv /\ FilesInv /\ Begun
      /\ UNCHANGED <<host, program, update, sessions, settled, todo, call, pc, captured>>
  BY ReturnIs
<1>2. UNCHANGED <<files, ok, intact>>
  BY DEF Return
<1>3. FilesInv' /\ Loadable'
  BY <1>1, <1>2 DEF FilesInv, Loadable
<1>4. SessionInv'
  BY <1>1, <1>2, <1>3 DEF SnapInv, SessionInv, Begun
<1>5. CallInv' /\ SettledInv' /\ GreenInv'
  BY <1>1, <1>2, <1>3 DEF SnapInv, CallInv, SettledInv, GreenInv
<1>6. ReturnedInv'
  <2> SUFFICES ASSUME ok
               PROVE  /\ Recorded(files', host, call)
                      /\ captured = {CheckAt(call, k) : k \in DOMAIN call.ops}
    BY <1>1, <1>2 DEF ReturnedInv
  <2>1. \A p \in Paths : HoldsMatched(manifest[p], files'[p], FALSE)
    BY <1>1, <1>2, SameFileIs DEF FilesInv, ManifestInv
  <2>2. \A p \in Paths : HoldsMatched(manifest[p], files'[p], call.export = "run")
    BY <2>1 DEF HoldsMatched
  <2> QED BY <2>2, RecordedAtReturn
<1>7. intact => ok'
  BY <1>1, <1>2 DEF SnapInv, SessionInv
<1>8. UpdatedInv'
  BY <1>2, <1>6, <1>7, UpdatedAtReturn
<1> QED BY <1>3, <1>4, <1>5, <1>6, <1>8 DEF SnapInv

LEMMA UpdateReturns ==
  ASSUME SnapInv, Return, call.export = "run", update
  PROVE  SnapInv'
<1>1. /\ phase = "calling" /\ pc > Len(call.ops) /\ phase' = "returned"
      /\ Loadable /\ ManifestInv /\ FilesInv /\ Begun
      /\ UNCHANGED <<host, program, update, sessions, settled, todo, call, pc, captured>>
  BY ReturnIs
<1>2. UNCHANGED <<ok, intact>>
  BY DEF Return
<1>3. /\ files' = [p \in Paths |-> files'[p]]
      /\ \A p \in Paths : FinalFile(files'[p], files[p], manifest[p])
  BY FilesReturn
<1>4. FilesInv' /\ Loadable'
  BY <1>3 DEF FilesInv, Loadable, FinalFile
<1>5. SessionInv'
  BY <1>1, <1>2, <1>4 DEF SnapInv, SessionInv, Begun
<1>6. CallInv' /\ GreenInv'
  BY <1>1 DEF CallInv, GreenInv
<1>7. SettledInv'
  BY <1>1 DEF SnapInv, SessionInv, SettledInv
<1>8. ReturnedInv'
  <2> SUFFICES ASSUME ok
               PROVE  /\ Recorded(files', host, call)
                      /\ captured = {CheckAt(call, k) : k \in DOMAIN call.ops}
    BY <1>1, <1>2 DEF ReturnedInv
  <2>1. \A p \in Paths : HoldsMatched(manifest[p], files'[p], call.export = "run")
    BY <1>3 DEF FinalFile, HoldsMatched
  <2> QED BY <2>1, RecordedAtReturn
<1>9. intact => ok
  BY <1>1 DEF SnapInv, SessionInv
<1>10. UpdatedInv'
  <2>1. ASSUME NEW i \in DOMAIN program \ todo, program[i] # call, update, intact,
               ~ Ambiguous(program),
               Recorded(files, host, program[i])
        PROVE  Recorded(files', host, program[i])
    BY <1>9, <2>1, OthersAtReturn
  <2> QED BY <1>2, <1>8, <1>9, <2>1, UpdatedAtReturn
<1> QED BY <1>4, <1>5, <1>6, <1>7, <1>8, <1>10 DEF SnapInv

LEMMA RunReturns ==
  ASSUME SnapInv, Return, call.export = "run", ~ update
  PROVE  SnapInv'
<1>1. /\ phase = "calling" /\ pc > Len(call.ops) /\ phase' = "returned"
      /\ Loadable /\ ManifestInv /\ FilesInv /\ Begun
      /\ UNCHANGED <<host, program, update, sessions, settled, todo, call, pc, captured>>
  BY ReturnIs
<1>2. PICK b : b = (ok /\ \A p \in Paths : ~ HasStale(manifest[p]))
  OBVIOUS
<1>3. /\ UNCHANGED files /\ ok' = b /\ intact' = (intact /\ ok')
      /\ ok \in BOOLEAN /\ intact \in BOOLEAN
      /\ b \in BOOLEAN
  BY <1>2 DEF Return, SnapInv, SessionInv
<1>4. /\ ok' \in BOOLEAN /\ intact' \in BOOLEAN /\ (intact' => ok')
      /\ ok' => ok /\ \A p \in Paths : ~ HasStale(manifest[p])
      /\ intact /\ ok /\ (\A p \in Paths : ~ HasStale(manifest[p])) => intact'
  BY <1>2, <1>3
<1>5. FilesInv' /\ Loadable'
  BY <1>1, <1>3 DEF FilesInv, Loadable
<1>6. SessionInv'
  BY <1>1, <1>4, <1>5 DEF SnapInv, SessionInv, Begun
<1>7. CallInv' /\ UpdatedInv'
  BY <1>1 DEF CallInv, UpdatedInv
<1>8. SettledInv'
  BY <1>1, <1>3, <1>5 DEF SnapInv, SettledInv
<1>9. ReturnedInv'
  <2> SUFFICES ASSUME ok'
               PROVE  /\ Recorded(files', host, call)
                      /\ captured = {CheckAt(call, k) : k \in DOMAIN call.ops}
    BY <1>1 DEF ReturnedInv
  <2>1. \A p \in Paths : HoldsMatched(manifest[p], files'[p], TRUE)
    BY <1>1, <1>3, <1>4, SameFileIs DEF FilesInv, ManifestInv
  <2>2. \A p \in Paths : HoldsMatched(manifest[p], files'[p], call.export = "run")
    BY <2>1 DEF HoldsMatched
  <2> QED BY <1>4, <2>2, RecordedAtReturn
<1>10. GreenInv'
  <2> SUFFICES ASSUME settled = program, ~ Ambiguous(program) PROVE intact'
    BY <1>1 DEF GreenInv
  <2>1. intact /\ ok
    BY <1>1 DEF SnapInv, GreenInv, SessionInv
  <2>2. PICK j \in DOMAIN program \ todo : call = program[j]
    BY <1>1 DEF SnapInv, SessionInv
  <2>3. Recorded(files, host, call)
    BY <2>2 DEF SnapInv, SettledInv
  <2>4. captured = {CheckAt(call, k) : k \in DOMAIN call.ops} /\ Matched(manifest, captured)
    BY <1>1, <2>1, CallIsOver
  <2>5. ASSUME NEW p \in Paths, NEW i \in Stale(manifest[p])
        PROVE  FALSE
    <3>1. /\ i \in DOMAIN manifest[p].entries /\ ~ manifest[p].entries[i].matched
          /\ manifest[p].entries[i].name \in manifest[p].touched
      BY StaleIs
    <3>2. PICK e : e = files[p].entries[i]
      OBVIOUS
    <3>3. Reads(manifest[p].entries[i], e) /\ e \in ToSet(files[p].entries)
      BY <1>1, <3>1, <3>2, MirrorsReads DEF ManifestInv, Mirrors, ToSet
    <3>4. PICK x \in captured : x.path = p /\ x.name = manifest[p].entries[i].name
      BY <1>1, <3>1 DEF ManifestInv, Names
    <3>5. PICK k \in DOMAIN call.ops : x = CheckAt(call, k)
      BY <2>4
    <3>6. PathOf(call.ops[k]) = p /\ NameOf(call.ops[k]) = e.name
      BY <3>3, <3>4, <3>5, CheckAtIs DEF Reads
    <3>7. PICK l \in DOMAIN call.ops : PathOf(call.ops[l]) = p /\ Holds(e, CheckAt(call, l))
      BY <2>3, <3>3, <3>6 DEF Recorded
    <3>8. PICK y \in captured : y = CheckAt(call, l)
      BY <2>4
    <3>9. y.path = p /\ y.name = manifest[p].entries[i].name /\ y.n = manifest[p].entries[i].n
      BY <3>3, <3>7, <3>8, CheckAtIs DEF Holds, Reads
    <3> QED BY <2>4, <3>1, <3>9 DEF Matched
  <2>6. \A p \in Paths : ~ HasStale(manifest[p])
    BY <2>5 DEF HasStale
  <2> QED BY <1>4, <2>1, <2>6
<1> QED BY <1>5, <1>6, <1>7, <1>8, <1>9, <1>10 DEF SnapInv

LEMMA StepKeeps == SnapInv /\ [Next]_vars => SnapInv'
<1> SUFFICES ASSUME SnapInv, [Next]_vars PROVE SnapInv'
  OBVIOUS
<1>1. ASSUME NEW p \in Programs, NEW u \in BOOLEAN, BeginSession(p, u)
      PROVE  SnapInv'
  BY <1>1, BeginSessionKeeps
<1>2. ASSUME NEW i \in todo, Begin(i)
      PROVE  SnapInv'
  BY <1>2, BeginKeeps
<1>3. CASE Check
  BY <1>3, RecordKeeps, CompareKeeps
<1>4. CASE Trap
  BY <1>4, TrapKeeps
<1>5. CASE Return
  BY <1>5, DiscoveryReturns, UpdateReturns, RunReturns
<1>6. CASE EndSession
  BY <1>6, EndSessionKeeps
<1>7. CASE UNCHANGED vars
  BY <1>7, StutterKeeps
<1> QED BY <1>1, <1>2, <1>3, <1>4, <1>5, <1>6, <1>7 DEF Next

LEMMA SnapshotInvariant == Spec => []SnapInv
BY InitHolds, StepKeeps, PTL DEF Spec

----------------------------------------------------------------------------
(* The theorems. *)

\* After a session with --update-snapshots that nothing cut short, the same tests
\* pass without it, whatever the files held before and whatever the values are:
\* what is written is what the next session reads.
THEOREM UpdatesPass == Spec => []UpdatedSnapshotsPass
<1>1. SnapInv => UpdatedSnapshotsPass
  BY DEF SnapInv, GreenInv, UpdatedSnapshotsPass
<1> QED BY <1>1, SnapshotInvariant, PTL

\* A run that passes without the flag has made exactly the checks that the file
\* holds under the names it has checked.
THEOREM GreenRunsAreExact == Spec => []GreenRunIsExact
<1>1. ASSUME SnapInv, phase = "returned", ok, call.export = "run", NEW c \in captured
      PROVE  {[n |-> e.n, value |-> Read(e.text).value] :
                e \in {x \in ToSet(files[c.path].entries) : x.name = c.name}}
             = {[n |-> x.n, value |-> x.value] :
                  x \in {y \in captured : y.path = c.path /\ y.name = c.name}}
  <2>1. Recorded(files, host, call) /\ captured = {CheckAt(call, k) : k \in DOMAIN call.ops}
    BY <1>1 DEF SnapInv, ReturnedInv
  <2>2. PICK k \in DOMAIN call.ops : c = CheckAt(call, k)
    BY <2>1
  <2>3. c.path = PathOf(call.ops[k]) /\ c.name = NameOf(call.ops[k])
    BY <2>2, CheckAtIs
  <2>4. ASSUME NEW e \in ToSet(files[c.path].entries), e.name = c.name
        PROVE  \E x \in captured : x.path = c.path /\ x.name = c.name /\ Holds(e, x)
    <3>1. PICK j \in DOMAIN call.ops :
            PathOf(call.ops[j]) = PathOf(call.ops[k]) /\ Holds(e, CheckAt(call, j))
      BY <1>1, <2>1, <2>3, <2>4 DEF Recorded
    <3>2. PICK x \in captured : x = CheckAt(call, j)
      BY <2>1
    <3> QED BY <2>3, <2>4, <3>1, <3>2, CheckAtIs DEF Holds
  <2>5. ASSUME NEW x \in captured, x.path = c.path, x.name = c.name
        PROVE  \E e \in ToSet(files[c.path].entries) : e.name = c.name /\ Holds(e, x)
    <3>1. PICK j \in DOMAIN call.ops : x = CheckAt(call, j)
      BY <2>1
    <3>2. PICK e \in ToSet(files[PathOf(call.ops[j])].entries) : Holds(e, CheckAt(call, j))
      BY <2>1 DEF Recorded
    <3> QED BY <2>5, <3>1, <3>2, CheckAtIs DEF Holds
  <2> QED BY <2>4, <2>5 DEF Holds
<1>2. SnapInv => GreenRunIsExact
  BY <1>1 DEF GreenRunIsExact
<1> QED BY <1>2, SnapshotInvariant, PTL

----------------------------------------------------------------------------
(* The entries of other names. *)

\* Leaving out what corresponds leaves what corresponds, in the same order.
LEMMA LeavesAlike ==
  ASSUME NEW s, IsSequence(s), NEW t, IsSequence(t), NEW B, B \subseteq DOMAIN s,
         NEW A, A \subseteq DOMAIN t,
         NEW g, \A i \in A : g[i] \in B, \A i, j \in A : i < j => g[i] < g[j],
         \A b \in B : \E i \in A : g[i] = b
  PROVE  /\ Len(Filtered(s, B)) = Len(Filtered(t, A))
         /\ \A a \in 1..Len(Filtered(s, B)) :
              \E i \in A : Filtered(t, A)[a] = t[i] /\ Filtered(s, B)[a] = s[g[i]]
<1>1. PICK u : u = Filtered(s, B)
  OBVIOUS
<1>2. PICK v : v = Filtered(t, A)
  OBVIOUS
<1>3. Leaves(u, s, B) /\ Leaves(v, t, A)
  BY <1>1, <1>2, FilteredIs
<1>4. B \cap DOMAIN s = B /\ A \cap DOMAIN t = A
  OBVIOUS
<1>5. PICK h : Counts(h, Len(u), B) /\ \A a \in 1..Len(u) : u[a] = s[h[a]]
  BY <1>3, <1>4 DEF Leaves
<1>6. PICK f : Counts(f, Len(v), A) /\ \A a \in 1..Len(v) : v[a] = t[f[a]]
  BY <1>3, <1>4 DEF Leaves
<1>7. Len(u) \in Nat /\ Len(v) \in Nat /\ B \in SUBSET Nat
  BY <1>3, SequenceIs DEF Leaves
<1>8. PICK c : c = [a \in 1..Len(v) |-> g[f[a]]]
  OBVIOUS
<1>9. Counts(c, Len(v), B)
  <2>1. \A a \in 1..Len(v) : f[a] \in A /\ c[a] = g[f[a]]
    BY <1>6, <1>8 DEF Counts
  <2>2. c \in [1..Len(v) -> B]
    BY <1>8, <2>1
  <2>3. \A a, b \in 1..Len(v) : a < b => c[a] < c[b]
    BY <1>6, <2>1 DEF Counts
  <2>4. ASSUME NEW b \in B
        PROVE  \E a \in 1..Len(v) : c[a] = b
    <3>1. PICK i \in A : g[i] = b
      OBVIOUS
    <3>2. PICK a \in 1..Len(v) : f[a] = i
      BY <1>6 DEF Counts
    <3> QED BY <2>1, <3>1, <3>2
  <2> QED BY <2>2, <2>3, <2>4 DEF Counts
<1>10. Len(u) = Len(v) /\ \A a \in 1..Len(u) : h[a] = c[a]
  BY <1>5, <1>7, <1>9, CountsAlike
<1>11. ASSUME NEW a \in 1..Len(u)
       PROVE  \E i \in A : v[a] = t[i] /\ u[a] = s[g[i]]
  BY <1>5, <1>6, <1>8, <1>10 DEF Counts
<1> QED BY <1>1, <1>2, <1>10, <1>11

\* The entries of the other names are the same in f and in g.
OthersStay(f, g, names) ==
  LET old == Others(f, names)
      new == Others(g, names)
  IN  /\ Len(old) = Len(new)
      /\ \A i \in DOMAIN old :
           /\ old[i].name = new[i].name /\ old[i].n = new[i].n
           /\ Read(old[i].text).value = Read(new[i].text).value

LEMMA OthersStayIs ==
  ASSUME NEW f, IsFile(f), NEW g, IsFile(g), NEW names,
         NEW h,
         \A i \in DOMAIN g.entries : g.entries[i].name \notin names =>
           h[i] \in DOMAIN f.entries /\ Agree(f.entries[h[i]], g.entries[i]),
         \A i, j \in DOMAIN g.entries :
           g.entries[i].name \notin names /\ g.entries[j].name \notin names /\ i < j => h[i] < h[j],
         \A b \in DOMAIN f.entries : f.entries[b].name \notin names =>
           \E i \in DOMAIN g.entries : h[i] = b /\ Agree(f.entries[b], g.entries[i])
  PROVE  OthersStay(f, g, names)
<1>1. PICK B : B = {i \in DOMAIN f.entries : f.entries[i].name \notin names}
  OBVIOUS
<1>2. PICK A : A = {i \in DOMAIN g.entries : g.entries[i].name \notin names}
  OBVIOUS
<1>3. PICK s : s = f.entries
  OBVIOUS
<1>4. PICK t : t = g.entries
  OBVIOUS
<1>5. IsSequence(s) /\ IsSequence(t) /\ B \subseteq DOMAIN s /\ A \subseteq DOMAIN t
  BY <1>1, <1>2, <1>3, <1>4 DEF IsFile
<1>6. \A i \in A : h[i] \in B /\ Agree(s[h[i]], t[i])
  BY <1>1, <1>2, <1>3, <1>4 DEF Agree
<1>7. \A i, j \in A : i < j => h[i] < h[j]
  BY <1>2
<1>8. \A b \in B : \E i \in A : h[i] = b
  BY <1>1, <1>2 DEF Agree
<1>9. PICK u : u = Filtered(s, B)
  OBVIOUS
<1>10. PICK v : v = Filtered(t, A)
  OBVIOUS
<1>11. Len(u) = Len(v) /\ \A a \in 1..Len(u) : \E i \in A : v[a] = t[i] /\ u[a] = s[h[i]]
  BY <1>5, <1>6, <1>7, <1>8, <1>9, <1>10, LeavesAlike
<1>12. DOMAIN u = 1..Len(u)
  <2>1. Leaves(u, s, B)
    BY <1>5, <1>9, FilteredIs
  <2> QED BY <2>1, SequenceIs DEF Leaves
<1>13. Others(f, names) = u /\ Others(g, names) = v
  BY <1>1, <1>2, <1>3, <1>4, <1>9, <1>10 DEF Others
<1>14. \A a \in DOMAIN u : Agree(u[a], v[a])
  BY <1>6, <1>11, <1>12
<1> QED BY <1>11, <1>13, <1>14 DEF OthersStay, Agree

\* A check that is recorded leaves them.
LEMMA WrittenLeaves ==
  ASSUME NEW u, NEW g, NEW s, NEW f, NEW name, NEW n, NEW value, NEW names, name \in names,
         IsFile(f), Mirrors(s, f), IsState(s), Written(u, g, s, f, name, n, value)
  PROVE  OthersStay(f, g, names)
<1>1. PICK h : h = [i \in Nat |-> i]
  OBVIOUS
<1>2. IsFile(g) /\ Mirrors(u, g) /\ Updated(u, s, name, n, value)
  BY DEF Written
<1>3. /\ DOMAIN s.entries = DOMAIN f.entries /\ DOMAIN u.entries = DOMAIN g.entries
      /\ \A i \in DOMAIN s.entries : Reads(s.entries[i], f.entries[i])
      /\ \A i \in DOMAIN u.entries : Reads(u.entries[i], g.entries[i])
  BY <1>2, MirrorsReads DEF Mirrors
<1>4. DOMAIN s.entries \subseteq DOMAIN u.entries
  BY <1>2 DEF Updated
<1>5. \A i \in DOMAIN u.entries :
        (i \in DOMAIN s.entries /\ u.entries[i] = s.entries[i]) \/ u.entries[i].name = name
  BY <1>2 DEF Updated, Position
<1>6. \A i \in DOMAIN s.entries : u.entries[i] = s.entries[i] \/ s.entries[i].name = name
  BY <1>2 DEF Updated, Position
<1>7. \A i \in DOMAIN g.entries : i \in Nat /\ h[i] = i
  BY <1>1, <1>2, SequenceIs DEF IsFile
<1>8. ASSUME NEW i \in DOMAIN g.entries, g.entries[i].name \notin names
      PROVE  h[i] \in DOMAIN f.entries /\ Agree(f.entries[h[i]], g.entries[i])
  BY <1>3, <1>5, <1>7, <1>8 DEF Reads, Agree
<1>9. ASSUME NEW b \in DOMAIN f.entries, f.entries[b].name \notin names
      PROVE  \E i \in DOMAIN g.entries : h[i] = b /\ Agree(f.entries[b], g.entries[i])
  <2>1. b \in DOMAIN g.entries /\ u.entries[b] = s.entries[b]
    BY <1>3, <1>4, <1>6, <1>9 DEF Reads
  <2>2. h[b] = b /\ Agree(f.entries[b], g.entries[b])
    BY <1>3, <1>7, <2>1 DEF Reads, Agree
  <2> QED BY <2>1, <2>2
<1>10. \A i, j \in DOMAIN g.entries :
         g.entries[i].name \notin names /\ g.entries[j].name \notin names /\ i < j => h[i] < h[j]
  BY <1>7
<1> QED BY <1>2, <1>8, <1>9, <1>10, OthersStayIs

\* So does the finalization, whose names are among those that the call has touched.
LEMMA CleanedLeaves ==
  ASSUME NEW g, NEW s, NEW f, NEW names, s.touched \subseteq names, IsFile(f), Mirrors(s, f),
         IsState(s), NEW keep, keep = DOMAIN s.entries \ Stale(s), Cleaned(g, s, keep)
  PROVE  OthersStay(f, g, names)
<1>1. IsFile(g)
  BY DEF Cleaned
<1>2. PICK h : /\ Counts(h, Len(g.entries), keep)
               /\ \A a \in DOMAIN g.entries : Reads(s.entries[h[a]], g.entries[a])
  BY DEF Cleaned
<1>3. DOMAIN g.entries = 1..Len(g.entries)
  BY <1>1, SequenceIs DEF IsFile
<1>4. /\ DOMAIN s.entries = DOMAIN f.entries
      /\ \A i \in DOMAIN s.entries : Reads(s.entries[i], f.entries[i])
  BY MirrorsReads DEF Mirrors
<1>5. ASSUME NEW i \in DOMAIN g.entries
      PROVE  h[i] \in DOMAIN f.entries /\ Agree(f.entries[h[i]], g.entries[i])
  <2>1. h[i] \in keep
    BY <1>2, <1>3 DEF Counts
  <2> QED BY <1>2, <1>4, <2>1 DEF Reads, Agree
<1>6. \A i, j \in DOMAIN g.entries : i < j => h[i] < h[j]
  BY <1>2, <1>3 DEF Counts
<1>7. ASSUME NEW b \in DOMAIN f.entries, f.entries[b].name \notin names
      PROVE  \E i \in DOMAIN g.entries : h[i] = b /\ Agree(f.entries[b], g.entries[i])
  <2>1. b \in keep
    BY <1>4, <1>7, StaleIs DEF Reads
  <2>2. PICK i \in DOMAIN g.entries : h[i] = b
    BY <1>2, <1>3, <2>1 DEF Counts
  <2> QED BY <1>5, <2>2
<1> QED BY <1>1, <1>5, <1>6, <1>7, OthersStayIs

\* A step that changes a file is a check or the end of a run, with the flag, and
\* leaves the entries of the names that the call has not checked as they are, in
\* their order.
LEMMA StepLeaves ==
  ASSUME SnapInv, [Next]_vars, NEW p \in Paths, files'[p] # files[p]
  PROVE  update /\ OthersStay(files[p], files'[p], Names(captured', p))
<1>1. CASE Check
  <2>1. update
    BY <1>1 DEF Check
  <2>2. PICK path, name, x : Ahead(path, name, x)
    BY <1>1, CheckIs
  <2>3. PICK s : s = manifest[path]
    OBVIOUS
  <2>4. PICK u : u = Upserted(s, name, x.n, Op.value)
    OBVIOUS
  <2>5. PICK g : g = Rendered(u.entries)
    OBVIOUS
  <2>6. /\ files' = [files EXCEPT ![path] = g] /\ captured' = captured \cup {x}
        /\ IsState(s) /\ Mirrors(s, files[path]) /\ IsSequence(Op.value)
        /\ x.path = path /\ x.name = name
    BY <1>1, <2>1, <2>2, <2>3, <2>4, <2>5 DEF Check, Ahead
  <2>7. FilesInv
    BY DEF SnapInv
  <2>8. p = path /\ files'[p] = g
    BY <2>6, <2>7 DEF FilesInv
  <2>9. Written(u, g, s, files[path], name, x.n, Op.value)
    BY <2>4, <2>5, <2>6, WrittenIs
  <2>10. name \in Names(captured', p)
    BY <2>6, <2>8 DEF Names
  <2>11. IsFile(files[path])
    BY <2>7, <2>8 DEF FilesInv
  <2> QED BY <2>1, <2>6, <2>8, <2>9, <2>10, <2>11, WrittenLeaves
<1>2. CASE Return
  <2>1. /\ call.export = "run" /\ update /\ files' = Finalized(manifest)
    BY <1>2 DEF Return
  <2>2. ManifestInv /\ FilesInv /\ UNCHANGED captured
    BY <1>2, ReturnIs
  <2>3. files'[p] = IF HasStale(manifest[p])
                    THEN Rendered(Filtered(manifest[p].entries,
                                           DOMAIN manifest[p].entries \ Stale(manifest[p])))
                    ELSE files[p]
    BY <2>1, Zenon DEF Finalized
  <2>4. PICK s : s = manifest[p]
    OBVIOUS
  <2>5. PICK keep : keep = DOMAIN s.entries \ Stale(s)
    OBVIOUS
  <2>6. files'[p] = Rendered(Filtered(s.entries, keep))
    BY <2>3, <2>4, <2>5
  <2>7. /\ IsState(s) /\ Mirrors(s, files[p]) /\ IsFile(files[p])
        /\ s.touched \subseteq Names(captured', p)
        /\ keep \subseteq DOMAIN s.entries
    BY <2>2, <2>4, <2>5 DEF ManifestInv, FilesInv
  <2>8. Cleaned(files'[p], s, keep)
    BY <2>6, <2>7, CleanedIs
  <2> QED BY <2>1, <2>5, <2>7, <2>8, CleanedLeaves
<1>3. CASE \E i \in todo : Begin(i)
  BY <1>3 DEF Begin
<1>4. CASE \/ Trap \/ EndSession \/ UNCHANGED vars
           \/ \E q \in Programs, u \in BOOLEAN : BeginSession(q, u)
  BY <1>4 DEF Trap, EndSession, BeginSession, vars
<1> QED BY <1>1, <1>2, <1>3, <1>4 DEF Next

\* What a call does to the files concerns the names that it has checked, and nothing
\* is written without --update-snapshots.
THEOREM WritesAreOwn == Spec => CallsTouchTheirOwn
<1> DEFINE Own == \A p \in Paths : files'[p] # files[p] =>
             LET names == {c.name : c \in {x \in captured' : x.path = p}}
                 old == Others(files[p], names)
                 new == Others(files'[p], names)
             IN  /\ update
                 /\ Loadable =>
                      /\ Len(old) = Len(new)
                      /\ \A i \in DOMAIN old :
                           /\ old[i].name = new[i].name /\ old[i].n = new[i].n
                           /\ Read(old[i].text).value = Read(new[i].text).value
<1>1. SnapInv /\ [Next]_vars => [Own]_vars
  <2> SUFFICES ASSUME SnapInv, [Next]_vars, NEW p \in Paths, files'[p] # files[p]
               PROVE  /\ update
                      /\ OthersStay(files[p], files'[p], {c.name : c \in {x \in captured' : x.path = p}})
    BY DEF OthersStay
  <2> QED BY StepLeaves DEF Names
<1> QED BY <1>1, SnapshotInvariant, PTL DEF Spec, CallsTouchTheirOwn

-----------------------------------------------------------------------------
(* The process. *)

CONSTANTS ArgumentLists, MaxFaults
VARIABLES args, removing, hooked

P == INSTANCE RunCommand

LEMMA SameEntries == /\ P!Formats = Formats
                     /\ P!Entries(command) = Entries(command)
  BY DEF P!Formats, Formats, P!Entries, Entries, P!Matching, Matching, P!ToSet, ToSet

CompilerDirs == {"library", "transforms"}

\* A directory may stay if its own filling or removal has failed ...
Excused(d) == {<<"fill", d>>, <<"remove", d>>} \cap faults # {}

\* ... or, with the compiler's two, if that of the other one has.
Orphaned(d) ==
  \E other \in CompilerDirs \ {d} :
    {<<"make", other>>, <<"fill", other>>, <<"remove", other>>} \cap faults # {}

\* Each directory and the harness exist while there is a step ahead that
\* removes or closes them.
Guarded ==
  /\ dirs \subseteq {"entry", "addon"} \cup CompilerDirs
  /\ "entry" \in dirs =>
       stage \in {"custom", "prepare", "compile", "unprepare", "remove"} \/ Excused("entry")
  /\ \A d \in CompilerDirs :
       d \in dirs => stage \in {"compile", "unprepare"} \/ Excused(d) \/ Orphaned(d)
  /\ "addon" \in dirs =>
       /\ stage \in {"start", "close", "report", "exit", "exited"}
       /\ (hooked /\ stage # "exited") \/ Excused("addon")
  /\ harness = "open" => stage \in {"start", "close"}

\* What one step may do to the faults.
LEMMA FaultsGrow ==
  /\ P!Works => faults' = faults
  /\ \A s, o : P!Fails(s, o) => faults' = faults \cup {<<s, o>>}
BY DEF P!Works, P!Fails

LEMMA ExcusesStay ==
  ASSUME faults \subseteq faults'
  PROVE  /\ \A d : Excused(d) => Excused(d)'
         /\ \A d : Orphaned(d) => Orphaned(d)'
BY DEF Excused, Orphaned

\* Reading the arguments changes nothing else.
LEMMA ParseIsIdle ==
  ASSUME P!ParseStep
  PROVE  /\ UNCHANGED <<P!disk, P!outcome, faults>> /\ stage = "parse"
         /\ \/ stage' \in {"parse", "parsed"} /\ code' = code
            \/ stage' = "exit" /\ code' = 1 /\ UNCHANGED command
<1> USE DEF P!Parsing, P!Parse, P!Stop, P!Refuse, P!Goto, P!ExitWith
<1>1. CASE P!ReadCommand
  BY <1>1 DEF P!ReadCommand
<1>2. CASE P!AskHelp \/ P!EndOptions \/ P!ReadFlag \/ P!ReadWarning \/ P!ReadOrdinal \/ P!EndArguments
  BY <1>2 DEF P!AskHelp, P!EndOptions, P!ReadFlag, P!ReadWarning, P!ReadOrdinal, P!EndArguments
<1>3. CASE P!ReadValue \/ P!ReadInline \/ P!ReadUnknown
  BY <1>3 DEF P!ReadValue, P!ReadInline, P!ReadUnknown
<1> QED BY <1>1, <1>2, <1>3 DEF P!ParseStep

LEMMA GuardedStep == Guarded /\ [P!Next]_(P!vars) => Guarded'
<1> SUFFICES ASSUME Guarded, [P!Next]_(P!vars) PROVE Guarded'
  OBVIOUS
<1> USE DEF P!Running, P!Goto, P!ExitWith, P!disk, P!outcome, CompilerDirs
<1>1. CASE P!ParseStep
  <2>1. UNCHANGED <<dirs, hooked, harness, faults>> /\ stage = "parse"
    BY <1>1, ParseIsIdle
  <2> QED BY <2>1, ExcusesStay DEF Guarded
<1>2. CASE P!Dispatch
  BY <1>2, ExcusesStay DEF Guarded, P!Dispatch
<1>3. CASE P!CreateEntrypoint
  <2>1. /\ stage = "entrypoint" /\ dirs' \subseteq dirs \cup {"entry"} /\ "addon" \notin dirs
        /\ harness # "open" /\ faults \subseteq faults' /\ UNCHANGED <<hooked, harness>>
    BY <1>3, FaultsGrow DEF P!CreateEntrypoint, Guarded
  <2>2. stage' \in {"custom", "prepare"} \/ "entry" \notin dirs' \/ <<"fill", "entry">> \in faults'
              \/ UNCHANGED dirs
    BY <1>3 DEF P!CreateEntrypoint, P!Fails
  <2>3. "entry" \in dirs' => stage' \in {"custom", "prepare"} \/ Excused("entry")'
    BY <2>1, <2>2, ExcusesStay DEF Guarded, Excused
  <2> QED BY <2>1, <2>3, ExcusesStay DEF Guarded
<1>4. CASE P!ResolveCustom
  BY <1>4, FaultsGrow, ExcusesStay DEF Guarded, P!ResolveCustom
<1>5. CASE P!Prepare
  <2>1. /\ stage = "prepare" /\ stage' \in {"compile", "remove"} /\ "addon" \notin dirs
        /\ harness # "open" /\ faults \subseteq faults' /\ UNCHANGED <<hooked, harness>>
    BY <1>5, FaultsGrow DEF P!Prepare, Guarded
  <2>2. PICK some \in SUBSET CompilerDirs :
          \/ P!Works /\ dirs' = dirs \cup some /\ stage' = "compile"
          \/ /\ stage' = "remove"
             /\ \E d \in some :
                   LET before == IF d = "library" THEN some \ {d} ELSE {}
                   IN  \/ P!Fails("make", d) /\ dirs' = dirs \cup before
                       \/ P!Fails("fill", d) /\ dirs' = dirs \cup before \cup {d}
    BY <1>5 DEF P!Prepare
  <2>3. CASE P!Works /\ dirs' = dirs \cup some /\ stage' = "compile"
    BY <2>1, <2>3, ExcusesStay DEF Guarded
  <2>4. ASSUME stage' = "remove", NEW d \in some, NEW before \in SUBSET (some \ {d}),
               \/ P!Fails("make", d) /\ dirs' = dirs \cup before
               \/ P!Fails("fill", d) /\ dirs' = dirs \cup before \cup {d}
        PROVE  Guarded'
    <3>1. P!Fails("fill", d) => Excused(d)'
      <4>1. P!Fails("fill", d) => <<"fill", d>> \in faults'
        BY DEF P!Fails
      <4> QED BY <4>1 DEF Excused
    <3>2. \A x \in before : Orphaned(x)'
      <4>1. <<"make", d>> \in faults' \/ <<"fill", d>> \in faults'
        BY <2>4 DEF P!Fails
      <4> QED BY <4>1 DEF Orphaned
    <3>3. /\ dirs' \subseteq dirs \cup before \cup {d}
          /\ d \in dirs' => d \in dirs \/ Excused(d)'
      BY <2>4, <3>1
    <3> QED BY <2>1, <2>4, <3>2, <3>3, ExcusesStay DEF Guarded
  <2> QED BY <2>2, <2>3, <2>4
<1>6. CASE P!Compile
  BY <1>6, FaultsGrow, ExcusesStay DEF Guarded, P!Compile
<1>7. CASE P!Unprepare
  <2>1. /\ stage = "unprepare" /\ stage' = "remove" /\ "addon" \notin dirs /\ dirs' \subseteq dirs
        /\ harness # "open" /\ faults \subseteq faults' /\ UNCHANGED <<hooked, harness>>
    BY <1>7, FaultsGrow DEF P!Unprepare, Guarded
  <2>2. CASE dirs' = dirs \ P!Prepared
    BY <2>1, <2>2, ExcusesStay DEF Guarded, P!Prepared
  <2>3. ASSUME NEW d \in P!Prepared, P!Fails("remove", d)
        PROVE  Guarded'
    <3>1. <<"remove", d>> \in faults' /\ d \in CompilerDirs
      BY <2>3 DEF P!Fails, P!Prepared
    <3>2. Excused(d)'
      BY <3>1 DEF Excused
    <3>3. \A x \in CompilerDirs \ {d} : Orphaned(x)'
      BY <3>1 DEF Orphaned
    <3> QED BY <2>1, <3>2, <3>3, ExcusesStay DEF Guarded
  <2> QED BY <1>7, <2>2, <2>3 DEF P!Unprepare
<1>8. CASE P!FinishRemoval
  BY <1>8, ExcusesStay DEF Guarded, P!FinishRemoval
<1>9. CASE P!RemoveEntrypoint
  <2>1. /\ stage = "remove" /\ stage' \in {"exit", "resolve"} /\ "addon" \notin dirs
        /\ harness # "open" /\ faults \subseteq faults' /\ UNCHANGED <<hooked, harness>>
        /\ dirs' \subseteq dirs
    BY <1>9, FaultsGrow DEF P!RemoveEntrypoint, Guarded
  <2>2. "entry" \in dirs' => Excused("entry")'
    BY <1>9, FaultsGrow DEF P!RemoveEntrypoint, Excused
  <2> QED BY <2>1, <2>2, ExcusesStay DEF Guarded
<1>10. CASE P!ResolveBuiltin
  BY <1>10, FaultsGrow, ExcusesStay DEF Guarded, P!ResolveBuiltin
<1>11. CASE P!CreateHarness
  <2>1. /\ stage = "create" /\ stage' \in {"start", "exit"}
        /\ dirs' \subseteq dirs \cup {"addon"} /\ faults \subseteq faults'
        /\ harness' = "open" => stage' = "start"
    BY <1>11, FaultsGrow DEF P!CreateHarness, Guarded
  <2>2. "addon" \in dirs' => hooked' \/ <<"fill", "addon">> \in faults'
    BY <1>11 DEF P!CreateHarness, Guarded, P!Fails
  <2>3. "addon" \in dirs' => hooked' \/ Excused("addon")'
    BY <2>2 DEF Excused
  <2> QED BY <2>1, <2>3, ExcusesStay DEF Guarded
<1>12. CASE P!Start
  BY <1>12, FaultsGrow, ExcusesStay DEF Guarded, P!Start
<1>13. CASE P!CloseHarness
  BY <1>13, FaultsGrow, ExcusesStay DEF Guarded, P!CloseHarness
<1>14. CASE P!Report
  BY <1>14, ExcusesStay DEF Guarded, P!Report
<1>15. CASE P!Exit
  BY <1>15, FaultsGrow, ExcusesStay DEF Guarded, P!Exit, Excused
<1>16. CASE UNCHANGED P!vars
  BY <1>16, ExcusesStay DEF Guarded, P!vars
<1> QED BY <1>1, <1>2, <1>3, <1>4, <1>5, <1>6, <1>7, <1>8, <1>9, <1>10, <1>11, <1>12, <1>13,
           <1>14, <1>15, <1>16 DEF P!Next

LEMMA GuardedInit == P!Init => Guarded
BY DEF P!Init, Guarded

\* However many steps fail, and wherever: no directory outlives the process but
\* one whose own filling or removal failed or, of the compiler's two, whose
\* sibling's did, and no harness stays open.
THEOREM CleansUp == P!Spec => []NothingLeftBehind
<1>1. Guarded => NothingLeftBehind
  BY DEF Guarded, NothingLeftBehind, Excused, Orphaned, CompilerDirs
<1> QED BY <1>1, GuardedInit, GuardedStep, PTL DEF P!Spec

-----------------------------------------------------------------------------
(* The exit code *)

BeforeHarness == {"parse", "parsed", "entrypoint", "custom", "prepare", "compile", "unprepare",
                  "remove", "resolve", "create"}
Ending == {"exit", "exited"}

\* ExitCodeTellsTheRun, from the moment the code is decided.
Telling ==
  stage \in Ending /\ command.kind = "run" =>
    /\ code = 0 =>
         /\ faults \subseteq {<<"remove", "addon">>}
         /\ P!Entries(command) # {} /\ result.discovery = "ok" /\ ~result.failed /\ ~result.blocked
         /\ "PASS" \in printed
         /\ command.coverage /\ result.coverage => "coverage" \in printed
    /\ code = 2 => harness = "none"
    /\ result.failed \/ result.blocked => code = 1
    /\ code = 3 => result.discovery \in {"none", "top", "branch"}
    /\ "PASS" \in printed /\ code # 0 =>
         result.discovery = "top" \/ (command.coverage /\ command.format \notin P!Formats)

\* How far the process has got, by its phase.
Reached ==
  /\ stage \in BeforeHarness => harness = "none"
  /\ stage \in BeforeHarness \cup {"start"} => result = P!NoResult
  /\ stage \in BeforeHarness \cup {"start", "close", "report"} => printed = {}
  /\ stage = "report" => result \in P!Results
  /\ stage = "close" =>
       \/ code = P!Undecided /\ result \in P!Results
       \/ code = 3 /\ result = P!NoResult
  /\ stage \notin {"parse", "parsed"} \cup Ending => command.kind = "run" /\ P!Entries(command) # {}

\* The code is decided where a step has failed, or at the end.
Decided ==
  /\ stage \in {"unprepare", "remove"} => code \in {P!Undecided, 2, 3}
  /\ stage \notin {"unprepare", "remove", "close"} \cup Ending => code = P!Undecided
  /\ stage \notin Ending /\ code = P!Undecided => faults = {}
  /\ stage = "exit" /\ code = 0 => faults = {}

Accounted == Reached /\ Decided /\ Telling

LEMMA AccountedInit == P!Init => Accounted
BY DEF P!Init, Accounted, Reached, Decided, Telling, P!Undecided, Ending

\* The report's code is the verdict of a result that was reported without a fault.
LEMMA ReportTells == Accounted /\ P!Report => Telling'
<1> SUFFICES ASSUME Accounted, P!Report PROVE Telling'
  OBVIOUS
<1> DEFINE shows == result.discovery = "ok" /\ command.coverage /\ result.coverage
<1>1. /\ result \in P!Results /\ faults = {} /\ P!Entries(command) # {}
      /\ UNCHANGED <<args, command, harness, result, faults>>
  BY DEF P!Report, P!Running, Accounted, Reached, Decided, Ending
<1>2. /\ printed' = {P!Line(result)} \cup (IF shows /\ command.format \in P!Formats THEN {"coverage"} ELSE {})
      /\ code' = IF shows /\ command.format \notin P!Formats THEN 1 ELSE P!Verdict(result)
  BY DEF P!Report, P!ExitWith
<1>3. /\ result.discovery \in {"ok", "top", "branch"} /\ result.failed \in BOOLEAN
      /\ result.blocked \in BOOLEAN
      /\ result.discovery # "ok" => ~result.failed /\ ~result.blocked
  BY <1>1 DEF P!Results
<1>4. /\ P!Verdict(result) \in {0, 1, 3}
      /\ P!Verdict(result) = 0 <=> result.discovery = "ok" /\ ~result.failed /\ ~result.blocked
      /\ P!Verdict(result) = 3 <=> result.discovery # "ok"
  BY <1>3 DEF P!Verdict
<1>5. /\ P!Line(result) \in {"PASS", "FAIL", "discovery failed"}
      /\ P!Line(result) = "PASS" <=> result.discovery # "branch" /\ ~result.failed /\ ~result.blocked
  BY <1>3 DEF P!Line
<1>6. P!Entries(command') = P!Entries(command)
  BY <1>1
<1>7. SUFFICES
        /\ code' = 0 =>
             /\ result.discovery = "ok" /\ ~result.failed /\ ~result.blocked
             /\ "PASS" \in printed'
             /\ command.coverage /\ result.coverage => "coverage" \in printed'
        /\ code' # 2
        /\ result.failed \/ result.blocked => code' = 1
        /\ code' = 3 => result.discovery \in {"top", "branch"}
        /\ "PASS" \in printed' /\ code' # 0 =>
             result.discovery = "top" \/ (command.coverage /\ command.format \notin P!Formats)
  BY <1>1, <1>6 DEF Telling
<1>8. CASE shows /\ command.format \notin P!Formats
  <2>1. code' = 1 /\ command.coverage /\ command.format \notin P!Formats
    BY <1>2, <1>8
  <2> QED BY <2>1
<1>9. CASE ~(shows /\ command.format \notin P!Formats)
  <2>1. code' = P!Verdict(result)
    BY <1>2, <1>9
  <2>2. "PASS" \in printed' => P!Line(result) = "PASS"
    BY <1>2
  <2>3. P!Line(result) = "PASS" => "PASS" \in printed'
    BY <1>2
  <2>4. result.discovery = "ok" /\ command.coverage /\ result.coverage => "coverage" \in printed'
    BY <1>2, <1>9
  <2> HIDE DEF shows
  <2>5. P!Verdict(result) = 0 => result.discovery = "ok" /\ ~result.failed /\ ~result.blocked
    BY <1>4
  <2>6. result.failed \/ result.blocked => P!Verdict(result) = 1
    BY <1>3, <1>4
  <2>7. P!Verdict(result) # 2 /\ (P!Verdict(result) = 3 => result.discovery \in {"top", "branch"})
    BY <1>3, <1>4
  <2>8. P!Line(result) = "PASS" /\ P!Verdict(result) # 0 => result.discovery = "top"
    BY <1>3, <1>4, <1>5
  <2>9. P!Verdict(result) = 0 => P!Line(result) = "PASS"
    BY <1>3, <1>4, <1>5
  <2> QED BY <2>1, <2>2, <2>3, <2>4, <2>5, <2>6, <2>7, <2>8, <2>9
<1> QED BY <1>8, <1>9

LEMMA AccountedStep == Accounted /\ [P!Next]_(P!vars) => Accounted'
<1> SUFFICES ASSUME Accounted, [P!Next]_(P!vars) PROVE Accounted'
  OBVIOUS
<1> USE DEF P!Running, P!Goto, P!ExitWith, P!disk, P!outcome, BeforeHarness, Ending, P!Undecided
<1>1. CASE P!ParseStep
  <2>1. /\ UNCHANGED <<harness, result, printed, faults>> /\ stage = "parse"
        /\ \/ stage' \in {"parse", "parsed"} /\ code' = code
           \/ stage' = "exit" /\ code' = 1
    BY <1>1, ParseIsIdle
  <2> QED BY <2>1 DEF Accounted, Reached, Decided, Telling, P!NoResult
<1>2. CASE P!Dispatch
  <2>1. P!Entries(command') = P!Entries(command)
    BY <1>2 DEF P!Dispatch
  <2> QED BY <1>2, <2>1 DEF Accounted, Reached, Decided, Telling, P!Dispatch, P!NoResult
<1>3. ASSUME stage \in {"entrypoint", "custom", "prepare", "compile", "unprepare", "remove",
                       "resolve", "create"},
             UNCHANGED <<args, command, result, printed>>, faults \subseteq faults',
             \/ stage' \in {"custom", "prepare", "compile", "resolve", "create", "unprepare", "remove"}
                /\ UNCHANGED harness
             \/ stage' = "start"
             \/ stage' = "exit" /\ UNCHANGED harness /\ code' \in {1, 2, 3},
             stage' \in {"unprepare", "remove"} => code' \in {P!Undecided, 2, 3},
             stage' \notin {"unprepare", "remove", "exit"} => code' = P!Undecided,
             code' = P!Undecided => code = P!Undecided /\ faults' = faults
      PROVE  Accounted'
  <2>1. P!Entries(command') = P!Entries(command)
    BY <1>3
  <2> QED BY <1>3, <2>1 DEF Accounted, Reached, Decided, Telling, P!NoResult
<1>4. CASE P!CreateEntrypoint
  BY <1>3, <1>4, FaultsGrow DEF Accounted, Decided, P!CreateEntrypoint
<1>5. CASE P!ResolveCustom
  BY <1>3, <1>5, FaultsGrow DEF Accounted, Decided, P!ResolveCustom
<1>6. CASE P!Prepare
  BY <1>3, <1>6, FaultsGrow DEF Accounted, Decided, P!Prepare
<1>7. CASE P!Compile
  BY <1>3, <1>7, FaultsGrow DEF Accounted, Decided, P!Compile
<1>8. CASE P!Unprepare
  BY <1>3, <1>8, FaultsGrow DEF Accounted, Decided, P!Unprepare
<1>9. CASE P!RemoveEntrypoint
  BY <1>3, <1>9, FaultsGrow DEF Accounted, Decided, P!RemoveEntrypoint
<1>10. CASE P!ResolveBuiltin
  BY <1>3, <1>10, FaultsGrow DEF Accounted, Decided, P!ResolveBuiltin
<1>11. CASE P!CreateHarness
  BY <1>3, <1>11, FaultsGrow DEF Accounted, Decided, P!CreateHarness
<1>12. CASE P!FinishRemoval
  <2>1. P!Entries(command') = P!Entries(command)
    BY <1>12 DEF P!FinishRemoval
  <2> QED BY <1>12, <2>1 DEF Accounted, Reached, Decided, Telling, P!FinishRemoval
<1>13. CASE P!Start
  <2>1. P!Entries(command') = P!Entries(command)
    BY <1>13 DEF P!Start
  <2> QED BY <1>13, <2>1, FaultsGrow DEF Accounted, Reached, Decided, Telling, P!Start
<1>14. CASE P!CloseHarness
  <2>1. P!Entries(command') = P!Entries(command)
    BY <1>14 DEF P!CloseHarness
  <2> QED BY <1>14, <2>1, FaultsGrow DEF Accounted, Reached, Decided, Telling, P!CloseHarness, P!NoResult
<1>15. CASE P!Report
  <2>1. stage' = "exit" /\ UNCHANGED faults
    BY <1>15 DEF P!Report
  <2>2. faults = {}
    BY <1>15 DEF P!Report, Accounted, Decided
  <2> QED BY <1>15, <2>1, <2>2, ReportTells DEF Accounted, Reached, Decided
<1>16. CASE P!Exit
  <2>1. P!Entries(command') = P!Entries(command)
    BY <1>16 DEF P!Exit
  <2>2. faults' \subseteq faults \cup {<<"remove", "addon">>}
    BY <1>16, FaultsGrow DEF P!Exit
  <2> QED BY <1>16, <2>1, <2>2 DEF Accounted, Reached, Decided, Telling, P!Exit
<1>17. CASE UNCHANGED P!vars
  <2>1. P!Entries(command') = P!Entries(command)
    BY <1>17 DEF P!vars
  <2> QED BY <1>17, <2>1 DEF Accounted, Reached, Decided, Telling, P!vars
<1> QED BY <1>1, <1>2, <1>4, <1>5, <1>6, <1>7, <1>8, <1>9, <1>10, <1>11, <1>12, <1>13, <1>14,
           <1>15, <1>16, <1>17 DEF P!Next

\* However many steps fail, and for every argument list: what the exit code says of the
\* run holds of it.
THEOREM ExitCodeIsHonest == P!Spec => []ExitCodeTellsTheRun
<1>1. Accounted => ExitCodeTellsTheRun
  BY SameEntries DEF Accounted, Telling, ExitCodeTellsTheRun, Ending
<1> QED BY <1>1, AccountedInit, AccountedStep, PTL DEF P!Spec
-----------------------------------------------------------------------------
(* The wire: events are written and read. *)

CONSTANTS GuestEvents, Traces, Observed, MaxEvents, MaxCalls
VARIABLES binding, held, calls

E == INSTANCE HostEvents WITH host <- binding

\* The payload b holds the bytes s from the offset o on.
Carries(b, o, s) == o + Len(s) <= Len(b) /\ \A i \in 1..Len(s) : b[o + i] = s[i]

LEMMA CarriesItself ==
  ASSUME NEW b \in Seq(Nat)
  PROVE  Carries(b, 0, b)
BY LenProperties DEF Carries

LEMMA CarriesBoth ==
  ASSUME NEW b \in Seq(Nat), NEW o \in Nat, NEW s \in Seq(Nat), NEW t \in Seq(Nat),
         Carries(b, o, s \o t)
  PROVE  Carries(b, o, s) /\ o + Len(s) \in Nat /\ Carries(b, o + Len(s), t)
<1>1. PICK m \in Nat, n \in Nat, l \in Nat : m = Len(s) /\ n = Len(t) /\ l = Len(b)
  BY LenProperties
<1>2. PICK u \in Seq(Nat) : /\ u = s \o t /\ Len(u) = m + n
                            /\ \A i \in 1..m : u[i] = s[i]
                            /\ \A i \in 1..n : u[m + i] = t[i]
  <2>1. \A i \in 1..n : (s \o t)[m + i] = t[i]
    <3> TAKE i \in 1..n
    <3>1. m + i \in 1..(m + n) /\ ~ (m + i <= m) /\ (m + i) - m = i
      OBVIOUS
    <3> QED BY <1>1, <3>1, ConcatProperties
  <2>2. s \o t \in Seq(Nat) /\ Len(s \o t) = m + n /\ \A i \in 1..m : (s \o t)[i] = s[i]
    BY <1>1, ConcatProperties
  <2> QED BY <2>1, <2>2, Zenon
<1>3. o + (m + n) <= l /\ \A i \in 1..(m + n) : b[o + i] = u[i]
  <2>1. o + Len(u) <= Len(b) /\ \A i \in 1..Len(u) : b[o + i] = u[i]
    BY <1>2, Zenon DEF Carries
  <2> QED BY <1>1, <1>2, <2>1, Zenon
<1>4. Carries(b, o, s)
  <2>1. o + m <= l /\ \A i \in 1..m : i \in 1..(m + n)
    BY <1>3
  <2>2. \A i \in 1..m : b[o + i] = s[i]
    BY <1>2, <1>3, <2>1, Zenon
  <2> QED BY <1>1, <2>1, <2>2, Zenon DEF Carries
<1>5. ASSUME NEW i \in 1..n PROVE b[o + m + i] = t[i]
  <2>1. m + i \in 1..(m + n) /\ o + (m + i) = o + m + i
    OBVIOUS
  <2>2. b[o + (m + i)] = u[m + i] /\ u[m + i] = t[i]
    <3>1. PICK k \in 1..(m + n) : k = m + i
      BY <2>1
    <3>2. b[o + k] = u[k]
      BY <1>3
    <3>3. u[m + i] = t[i]
      BY <1>2
    <3> QED BY <3>1, <3>2, <3>3, Zenon
  <2> QED BY <2>1, <2>2, Zenon
<1>6. o + m + n <= l /\ o + m \in Nat
  BY <1>3
<1>7. Carries(b, o + m, t)
  BY <1>1, <1>5, <1>6, Zenon DEF Carries
<1> QED BY <1>1, <1>4, <1>6, <1>7, Zenon

LEMMA Joined ==
  ASSUME NEW s \in Seq(Nat), NEW t \in Seq(Nat)
  PROVE  s \o t \in Seq(Nat) /\ Len(s \o t) = Len(s) + Len(t) /\ Len(s) \in Nat /\ Len(t) \in Nat
BY ConcatProperties, LenProperties

LEMMA NumIs ==
  ASSUME NEW v \in Nat
  PROVE  E!Num(v) \in Seq(Nat) /\ Len(E!Num(v)) = 4
BY DEF E!Num

LEMMA CarriesNum ==
  ASSUME NEW b \in Seq(Nat), NEW o \in Nat, NEW v \in Nat, Carries(b, o, E!Num(v))
  PROVE  o + 4 \in Nat /\ o + 4 <= Len(b) /\ E!HasNum(b, o) /\ E!NumAt(b, o) = v
<1>1. PICK s : /\ s = E!Num(v) /\ Len(s) = 4
               /\ s[1] = v % 256 /\ s[2] = (v \div 256) % 256
               /\ s[3] = (v \div 65536) % 256 /\ s[4] = v \div 16777216
  BY DEF E!Num
<1>2. s = E!Num(v) /\ Len(s) = 4
  BY <1>1
<1>3. o + 4 <= Len(b) /\ b[o + 1] = s[1] /\ b[o + 2] = s[2] /\ b[o + 3] = s[3] /\ b[o + 4] = s[4]
  <2>1. Carries(b, o, s)
    BY <1>2
  <2>2. o + Len(s) <= Len(b) /\ \A i \in 1..Len(s) : b[o + i] = s[i]
    BY <2>1, Zenon DEF Carries
  <2>3. 1 \in 1..Len(s) /\ 2 \in 1..Len(s) /\ 3 \in 1..Len(s) /\ 4 \in 1..Len(s)
    BY <1>2
  <2>4. b[o + 1] = s[1] /\ b[o + 2] = s[2] /\ b[o + 3] = s[3] /\ b[o + 4] = s[4]
    BY <2>2, <2>3, Zenon
  <2>5. o + 4 <= Len(b)
    BY <1>2, <2>2, Zenon
  <2> QED BY <2>4, <2>5
<1>4. (v % 256) + 256 * ((v \div 256) % 256) + 65536 * ((v \div 65536) % 256)
        + 16777216 * (v \div 16777216) = v
  OBVIOUS
<1> QED BY <1>1, <1>3, <1>4 DEF E!HasNum, E!NumAt

\* Chunks one behind the other, each where the one before it ends.
Chunked(q, g) ==
  /\ g \in [0..Len(q) -> Seq(Nat)] /\ g[0] = <<>>
  /\ \A i \in 1..Len(q) : g[i] = g[i - 1] \o q[i]
  /\ FlattenSeq(q) = g[Len(q)]

LEMMA FlattenIsSame == ASSUME NEW q PROVE E!FlattenSeq(q) = FlattenSeq(q)
  BY DEF E!FlattenSeq, FlattenSeq

LEMMA CarriesChunks ==
  ASSUME NEW b \in Seq(Nat), NEW o \in Nat, NEW q \in Seq(Seq(Nat)), NEW g, Chunked(q, g),
         Carries(b, o, FlattenSeq(q))
  PROVE  \A i \in 1..Len(q) : /\ Carries(b, o, g[i - 1]) /\ Carries(b, o + Len(g[i - 1]), q[i])
                              /\ o + Len(g[i - 1]) \in Nat
<1> DEFINE n == Len(q)
           Good == {i \in 0..n : Carries(b, o, g[n - i])}
<1>1. n \in Nat /\ \A i \in 1..n : q[i] \in Seq(Nat)
  BY LenProperties, ElementOfSeq
<1>2. ASSUME NEW i \in 1..n, Carries(b, o, g[i])
      PROVE  Carries(b, o, g[i - 1]) /\ Carries(b, o + Len(g[i - 1]), q[i]) /\ o + Len(g[i - 1]) \in Nat
  <2>0. i - 1 \in 0..n
    BY <1>1
  <2>1. g[i - 1] \in Seq(Nat) /\ q[i] \in Seq(Nat) /\ g[i] = g[i - 1] \o q[i]
    BY <1>1, <2>0 DEF Chunked
  <2>2. Carries(b, o, g[i - 1] \o q[i])
    BY <1>2, <2>1
  <2> QED BY <2>1, <2>2, CarriesBoth
<1>3. 0 \in Good
  <2>1. n - 0 = n /\ 0 \in 0..n
    BY <1>1
  <2>2. Carries(b, o, g[n])
    BY DEF Chunked
  <2>3. Carries(b, o, g[n - 0])
    BY <2>1, <2>2
  <2> QED BY <2>1, <2>3
<1>4. ASSUME NEW i \in 0..n, i < n, i \in Good PROVE i + 1 \in Good
  <2>1. n - i \in 1..n /\ (n - i) - 1 = n - (i + 1) /\ i + 1 \in 0..n
    BY <1>1, <1>4
  <2>2. Carries(b, o, g[n - i])
    BY <1>4
  <2>3. Carries(b, o, g[(n - i) - 1])
    BY <1>2, <2>1, <2>2
  <2>4. Carries(b, o, g[n - (i + 1)])
    BY <2>1, <2>3
  <2> QED BY <2>1, <2>4
<1>5. \A i \in 0..n : i \in Good
  <2> HIDE DEF Good, n
  <2> QED BY <1>1, <1>3, <1>4, UpTo
<1>6. ASSUME NEW i \in 1..n PROVE Carries(b, o, g[i])
  <2>1. n - i \in 0..n /\ n - (n - i) = i
    BY <1>1
  <2>2. Carries(b, o, g[n - (n - i)])
    BY <1>5, <2>1
  <2> QED BY <2>1, <2>2
<1> QED BY <1>2, <1>6

\* Chunks of four bytes, or of eight.
LEMMA EvenChunks ==
  ASSUME NEW q \in Seq(Seq(Nat)), NEW k \in {4, 8}, \A i \in 1..Len(q) : Len(q[i]) = k
  PROVE  /\ FlattenSeq(q) \in Seq(Nat) /\ Len(FlattenSeq(q)) = k * Len(q)
         /\ \A b \in Seq(Nat), o \in Nat : Carries(b, o, FlattenSeq(q)) =>
              \A i \in 1..Len(q) : o + k * (i - 1) \in Nat /\ Carries(b, o + k * (i - 1), q[i])
<1> DEFINE n == Len(q)
<1>1. n \in Nat /\ \A i \in 1..n : q[i] \in Seq(Nat)
  BY LenProperties, ElementOfSeq
<1>2. PICK g : Chunked(q, g)
  <2>1. \E g \in [0..Len(q) -> Seq(Nat)] :
          /\ g[0] = <<>> /\ \A i \in 1..Len(q) : g[i] = g[i - 1] \o q[i]
          /\ FlattenSeq(q) = g[Len(q)]
    BY FlattenSteps
  <2> QED BY <2>1 DEF Chunked
<1> DEFINE Good == {i \in 0..n : Len(g[i]) = k * i}
<1>3. 0 \in Good
  <2>1. k * 0 = 0 /\ 0 \in 0..n
    BY <1>1
  <2> QED BY <1>2, <2>1 DEF Chunked
<1>4. ASSUME NEW i \in 0..n, i < n, i \in Good PROVE i + 1 \in Good
  <2> DEFINE j == i + 1
  <2>1. j \in 1..n /\ j \in 0..n /\ j - 1 = i
    BY <1>1, <1>4
  <2>2. g[j] = g[i] \o q[j] /\ g[i] \in Seq(Nat) /\ q[j] \in Seq(Nat)
    <3>1. g[j] = g[j - 1] \o q[j]
      BY <1>2, <2>1 DEF Chunked
    <3> QED BY <1>1, <1>2, <2>1, <3>1 DEF Chunked
  <2>3. Len(g[j]) = Len(g[i]) + Len(q[j]) /\ Len(q[j]) = k /\ Len(g[i]) = k * i
    <3> HIDE DEF j
    <3> QED BY <1>4, <2>1, <2>2, ConcatProperties
  <2>4. k * i + k = k * (i + 1)
    OBVIOUS
  <2> QED BY <2>1, <2>3, <2>4
<1>5. \A i \in 0..n : i \in Good
  <2> HIDE DEF Good, n
  <2> QED BY <1>1, <1>3, <1>4, UpTo
<1>6. FlattenSeq(q) = g[n] /\ n \in 0..n /\ g[n] \in Seq(Nat)
  BY <1>1, <1>2 DEF Chunked
<1>7. FlattenSeq(q) \in Seq(Nat) /\ Len(FlattenSeq(q)) = k * Len(q)
  BY <1>5, <1>6
<1>8. ASSUME NEW b \in Seq(Nat), NEW o \in Nat, Carries(b, o, FlattenSeq(q)), NEW i \in 1..Len(q)
      PROVE  o + k * (i - 1) \in Nat /\ Carries(b, o + k * (i - 1), q[i])
  <2>1. i - 1 \in 0..n
    BY <1>1
  <2>2. Len(g[i - 1]) = k * (i - 1)
    <3> DEFINE h == i - 1
    <3>1. h \in Good
      BY <1>5, <2>1
    <3> QED BY <3>1
  <2>3. Carries(b, o + Len(g[i - 1]), q[i]) /\ o + Len(g[i - 1]) \in Nat
    BY <1>2, <1>8, CarriesChunks
  <2> QED BY <2>2, <2>3
<1> QED BY <1>7, <1>8

\* A list of numbers, and a list behind its length.
LEMMA NumsIs ==
  ASSUME NEW vs \in Seq(Nat)
  PROVE  /\ E!Nums(vs) \in Seq(Nat) /\ Len(E!Nums(vs)) = 4 * Len(vs)
         /\ \A b \in Seq(Nat), o \in Nat : Carries(b, o, E!Nums(vs)) =>
              \A i \in 1..Len(vs) : E!NumAt(b, o + 4 * (i - 1)) = vs[i] /\ o + 4 * i <= Len(b)
<1> DEFINE q == [i \in DOMAIN vs |-> E!Num(vs[i])]
<1>1. Len(vs) \in Nat /\ DOMAIN vs = 1..Len(vs) /\ \A i \in 1..Len(vs) : vs[i] \in Nat
  BY LenProperties, ElementOfSeq
<1>2. q \in Seq(Seq(Nat)) /\ Len(q) = Len(vs)
  <2>1. \A i \in 1..Len(vs) : E!Num(vs[i]) \in Seq(Nat)
    BY <1>1, NumIs
  <2> QED BY <1>1, <2>1
<1>3. \A i \in 1..Len(q) : q[i] = E!Num(vs[i]) /\ Len(q[i]) = 4
  <2>1. ASSUME NEW i \in 1..Len(q) PROVE q[i] = E!Num(vs[i]) /\ Len(q[i]) = 4
    <3>1. i \in DOMAIN vs /\ vs[i] \in Nat
      BY <1>1, <1>2
    <3>2. q[i] = E!Num(vs[i])
      BY <3>1
    <3> QED BY <3>1, <3>2, NumIs
  <2> QED BY <2>1
<1>4. E!Nums(vs) = FlattenSeq(q)
  BY FlattenIsSame DEF E!Nums
<1> HIDE DEF q
<1>5. /\ FlattenSeq(q) \in Seq(Nat) /\ Len(FlattenSeq(q)) = 4 * Len(q)
      /\ \A b \in Seq(Nat), o \in Nat : Carries(b, o, FlattenSeq(q)) =>
           \A i \in 1..Len(q) : o + 4 * (i - 1) \in Nat /\ Carries(b, o + 4 * (i - 1), q[i])
  BY <1>2, <1>3, EvenChunks
<1>6. ASSUME NEW b \in Seq(Nat), NEW o \in Nat, Carries(b, o, E!Nums(vs)), NEW i \in 1..Len(vs)
      PROVE  E!NumAt(b, o + 4 * (i - 1)) = vs[i] /\ o + 4 * i <= Len(b)
  <2>1. o + 4 * (i - 1) \in Nat /\ Carries(b, o + 4 * (i - 1), E!Num(vs[i])) /\ vs[i] \in Nat
    BY <1>1, <1>2, <1>3, <1>4, <1>5, <1>6
  <2>2. E!NumAt(b, o + 4 * (i - 1)) = vs[i] /\ o + 4 * (i - 1) + 4 <= Len(b)
    BY <2>1, CarriesNum
  <2>3. o + 4 * (i - 1) + 4 = o + 4 * i
    BY <1>1
  <2> QED BY <2>2, <2>3
<1> QED BY <1>2, <1>4, <1>5, <1>6

LEMMA CountedIs ==
  ASSUME NEW vs \in Seq(Nat)
  PROVE  E!Counted(vs) \in Seq(Nat) /\ Len(E!Counted(vs)) = 4 + 4 * Len(vs)
<1>1. /\ E!Num(Len(vs)) \in Seq(Nat) /\ Len(E!Num(Len(vs))) = 4
      /\ E!Nums(vs) \in Seq(Nat) /\ Len(E!Nums(vs)) = 4 * Len(vs)
  BY NumIs, NumsIs, LenProperties
<1> QED BY <1>1, Joined DEF E!Counted

\* The reader of a list finds the list where it is.
LEMMA CarriesNums ==
  ASSUME NEW b \in Seq(Nat), NEW o \in Nat, NEW vs \in Seq(Nat),
         Carries(b, o + 4, E!Nums(vs)), E!HasNum(b, o), E!NumAt(b, o) = Len(vs)
  PROVE  /\ E!HasNums(b, o) /\ E!NumsAt(b, o) = vs
         /\ E!AfterNums(b, o) = o + 4 + 4 * Len(vs) /\ E!AfterNums(b, o) \in Nat
<1>1. Len(vs) \in Nat /\ o + 4 \in Nat /\ vs = [i \in 1..Len(vs) |-> vs[i]]
  BY LenProperties
<1>2. o + 4 + 4 * Len(vs) <= Len(b)
  <2>1. Len(E!Nums(vs)) = 4 * Len(vs)
    BY NumsIs
  <2> QED BY <2>1 DEF Carries
<1>3. \A i \in 1..Len(vs) : E!NumAt(b, o + 4 + 4 * (i - 1)) = vs[i]
  BY <1>1, NumsIs
<1>4. ASSUME NEW i \in 1..Len(vs) PROVE E!NumAt(b, o + 4 * i) = vs[i]
  <2>1. o + 4 + 4 * (i - 1) = o + 4 * i
    BY <1>1
  <2>2. E!NumAt(b, o + 4 + 4 * (i - 1)) = vs[i]
    BY <1>3
  <2> QED BY <2>1, <2>2
<1>5. E!NumsAt(b, o) = vs
  BY <1>1, <1>4 DEF E!NumsAt
<1> QED BY <1>1, <1>2, <1>5 DEF E!HasNums, E!AfterNums

LEMMA CarriesCounted ==
  ASSUME NEW b \in Seq(Nat), NEW o \in Nat, NEW vs \in Seq(Nat), Carries(b, o, E!Counted(vs))
  PROVE  /\ E!HasNums(b, o) /\ E!NumsAt(b, o) = vs
         /\ E!AfterNums(b, o) = o + Len(E!Counted(vs)) /\ E!AfterNums(b, o) \in Nat
<1>1. /\ E!Num(Len(vs)) \in Seq(Nat) /\ Len(E!Num(Len(vs))) = 4 /\ Len(vs) \in Nat
      /\ E!Nums(vs) \in Seq(Nat)
  BY NumIs, NumsIs, LenProperties
<1>2. Carries(b, o, E!Num(Len(vs))) /\ Carries(b, o + 4, E!Nums(vs))
  <2>1. Carries(b, o, E!Num(Len(vs)) \o E!Nums(vs))
    BY DEF E!Counted
  <2>2. Carries(b, o, E!Num(Len(vs))) /\ Carries(b, o + Len(E!Num(Len(vs))), E!Nums(vs))
    BY <1>1, <2>1, CarriesBoth
  <2> QED BY <1>1, <2>2
<1>3. E!HasNum(b, o) /\ E!NumAt(b, o) = Len(vs)
  BY <1>1, <1>2, CarriesNum
<1>4. o + Len(E!Counted(vs)) = o + 4 + 4 * Len(vs)
  <2>1. Len(E!Counted(vs)) = 4 + 4 * Len(vs)
    BY CountedIs
  <2> QED BY <1>1, <2>1
<1> QED BY <1>2, <1>3, <1>4, CarriesNums

LEMMA TextIs ==
  ASSUME NEW t \in Seq(Nat)
  PROVE  E!Text(t) \in Seq(Nat) /\ Len(E!Text(t)) = 4 + Len(t)
<1>1. E!Num(Len(t)) \in Seq(Nat) /\ Len(E!Num(Len(t))) = 4
  BY NumIs, LenProperties
<1> QED BY <1>1, Joined DEF E!Text

\* The reader of a text finds the text where it is.
LEMMA CarriesText ==
  ASSUME NEW b \in Seq(Nat), NEW o \in Nat, NEW t \in Seq(Nat), Carries(b, o, E!Text(t))
  PROVE  /\ E!HasText(b, o) /\ E!TextAt(b, o) = t
         /\ E!AfterText(b, o) = o + Len(E!Text(t)) /\ E!AfterText(b, o) \in Nat
<1>1. E!Num(Len(t)) \in Seq(Nat) /\ Len(E!Num(Len(t))) = 4 /\ Len(t) \in Nat
  BY NumIs, LenProperties
<1>2. Carries(b, o, E!Num(Len(t))) /\ Carries(b, o + 4, t)
  <2>1. Carries(b, o, E!Num(Len(t)) \o t)
    BY DEF E!Text
  <2>2. Carries(b, o, E!Num(Len(t))) /\ Carries(b, o + Len(E!Num(Len(t))), t)
    BY <1>1, <2>1, CarriesBoth
  <2> QED BY <1>1, <2>2
<1>3. E!HasNum(b, o) /\ E!NumAt(b, o) = Len(t)
  BY <1>1, <1>2, CarriesNum
<1>4. o + 4 + Len(t) <= Len(b) /\ \A i \in 1..Len(t) : b[o + 4 + i] = t[i]
  BY <1>2 DEF Carries
<1>5. SubSeq(b, o + 5, o + 4 + Len(t)) = t
  <2> DEFINE s == SubSeq(b, o + 5, o + 4 + Len(t))
  <2>1. s = [i \in 1..Len(t) |-> b[o + 4 + i]]
    <3>1. /\ 1 + (o + 4 + Len(t)) - (o + 5) = Len(t)
          /\ \A i \in 1..Len(t) : i + (o + 5) - 1 = o + 4 + i
      BY <1>1
    <3> QED BY <3>1
  <2>2. t = [i \in 1..Len(t) |-> t[i]]
    BY LenProperties
  <2> QED BY <1>4, <2>1, <2>2
<1>6. E!TextAt(b, o) = t
  BY <1>3, <1>5 DEF E!TextAt
<1>7. E!HasText(b, o)
  BY <1>3, <1>4 DEF E!HasText
<1>8. E!AfterText(b, o) = o + Len(E!Text(t)) /\ E!AfterText(b, o) \in Nat
  <2>1. Len(E!Text(t)) = 4 + Len(t)
    BY TextIs
  <2> QED BY <1>1, <1>3, <2>1 DEF E!AfterText
<1> QED BY <1>6, <1>7, <1>8

\* A list of floats, each of which is its last byte.
LEMMA FloatsIs ==
  ASSUME NEW vs \in Seq(Nat)
  PROVE  \E f \in Seq(Nat) :
           /\ f = E!FlattenSeq([i \in DOMAIN vs |-> E!Float(vs[i])]) /\ Len(f) = 8 * Len(vs)
           /\ \A b \in Seq(Nat), o \in Nat : Carries(b, o, f) => \A i \in 1..Len(vs) : b[o + 8 * i] = vs[i]
<1> DEFINE q == [i \in DOMAIN vs |-> E!Float(vs[i])]
<1>1. Len(vs) \in Nat /\ DOMAIN vs = 1..Len(vs) /\ \A i \in 1..Len(vs) : vs[i] \in Nat
  BY LenProperties, ElementOfSeq
<1>2. ASSUME NEW v \in Nat
      PROVE  E!Float(v) \in Seq(Nat) /\ Len(E!Float(v)) = 8 /\ E!Float(v)[8] = v
  BY DEF E!Float
<1>3. q \in Seq(Seq(Nat)) /\ Len(q) = Len(vs)
  <2>1. \A i \in 1..Len(vs) : E!Float(vs[i]) \in Seq(Nat)
    BY <1>1, <1>2
  <2> QED BY <1>1, <2>1
<1>4. \A i \in 1..Len(q) : q[i] = E!Float(vs[i]) /\ Len(q[i]) = 8 /\ q[i][8] = vs[i]
  <2>1. ASSUME NEW i \in 1..Len(q) PROVE q[i] = E!Float(vs[i]) /\ Len(q[i]) = 8 /\ q[i][8] = vs[i]
    <3>1. i \in DOMAIN vs /\ vs[i] \in Nat
      BY <1>1, <1>3
    <3>2. q[i] = E!Float(vs[i])
      BY <3>1
    <3> QED BY <1>2, <3>1, <3>2
  <2> QED BY <2>1
<1>5. E!FlattenSeq([i \in DOMAIN vs |-> E!Float(vs[i])]) = FlattenSeq(q)
  BY FlattenIsSame
<1> HIDE DEF q
<1>6. /\ FlattenSeq(q) \in Seq(Nat) /\ Len(FlattenSeq(q)) = 8 * Len(q)
      /\ \A b \in Seq(Nat), o \in Nat : Carries(b, o, FlattenSeq(q)) =>
           \A i \in 1..Len(q) : o + 8 * (i - 1) \in Nat /\ Carries(b, o + 8 * (i - 1), q[i])
  BY <1>3, <1>4, EvenChunks
<1>7. ASSUME NEW b \in Seq(Nat), NEW o \in Nat, Carries(b, o, FlattenSeq(q)), NEW i \in 1..Len(vs)
      PROVE  b[o + 8 * i] = vs[i]
  <2>1. Carries(b, o + 8 * (i - 1), q[i]) /\ Len(q[i]) = 8 /\ q[i][8] = vs[i]
    BY <1>3, <1>4, <1>6, <1>7
  <2>2. b[o + 8 * (i - 1) + 8] = q[i][8]
    BY <2>1 DEF Carries
  <2>3. o + 8 * (i - 1) + 8 = o + 8 * i
    BY <1>1
  <2> QED BY <2>1, <2>2, <2>3
<1> QED BY <1>3, <1>5, <1>6, <1>7

LEMMA ThreeParts ==
  ASSUME NEW b \in Seq(Nat), NEW o \in Nat, NEW s \in Seq(Nat), NEW t \in Seq(Nat), NEW u \in Seq(Nat),
         Carries(b, o, s \o t \o u)
  PROVE  /\ Carries(b, o, s) /\ o + Len(s) \in Nat
         /\ Carries(b, o + Len(s), t) /\ o + Len(s) + Len(t) \in Nat
         /\ Carries(b, o + Len(s) + Len(t), u)
<1>1. s \o t \in Seq(Nat) /\ Len(s \o t) = Len(s) + Len(t) /\ Len(s) \in Nat /\ Len(t) \in Nat
  BY Joined
<1>2. Carries(b, o, s \o t) /\ Carries(b, o + Len(s \o t), u)
  BY <1>1, CarriesBoth
<1>3. o + Len(s \o t) = o + Len(s) + Len(t)
  BY <1>1
<1>4. Carries(b, o, s) /\ o + Len(s) \in Nat /\ Carries(b, o + Len(s), t)
  BY <1>2, CarriesBoth
<1> QED BY <1>1, <1>2, <1>3, <1>4

LEMMA ThreeJoined ==
  ASSUME NEW s \in Seq(Nat), NEW t \in Seq(Nat), NEW u \in Seq(Nat)
  PROVE  s \o t \o u \in Seq(Nat) /\ Len(s \o t \o u) = Len(s) + Len(t) + Len(u)
BY Joined

LEMMA BitReads == ASSUME NEW x \in BOOLEAN PROVE E!Bit(x) \in Nat /\ (E!Bit(x) # 0) = x
  BY DEF E!Bit

LEMMA NodeFoundReads ==
  ASSUME NEW e \in E!NodeFoundEvents
  PROVE  /\ E!SerializeNodeFound(e) \in Seq(Nat)
         /\ E!DecodeNodeFoundEvent(E!SerializeNodeFound(e)) = e
<1> DEFINE flags == <<e.nodeKind, e.declarationMode, e.sequenceMode, E!Bit(e.only), E!Bit(e.expectFailure),
                      e.preferredRunnerMode, e.preferredFailurePolicy, 0>>
<1>1. /\ e.nodeIndex \in Seq(Nat) /\ e.dependencyNodeIds \in Seq(Nat) /\ e.name \in Seq(Nat)
      /\ e.nodeId \in Nat /\ e.parentNodeId \in Nat /\ e.declarationOrder \in Nat
      /\ e.nodeKind \in Nat /\ e.declarationMode \in Nat /\ e.sequenceMode \in Nat
      /\ e.only \in BOOLEAN /\ e.expectFailure \in BOOLEAN
      /\ e.preferredRunnerMode \in Nat /\ e.preferredFailurePolicy \in Nat
  BY DEF E!NodeFoundEvents
<1>2. PICK s1 \in Seq(Nat) : s1 = E!Counted(e.nodeIndex)
  BY <1>1, CountedIs
<1>3. PICK s2 \in Seq(Nat), s3 \in Seq(Nat), s4 \in Seq(Nat) :
        /\ s2 = E!Num(e.nodeId) /\ s3 = E!Num(e.parentNodeId) /\ s4 = E!Num(e.declarationOrder)
        /\ Len(s2) = 4 /\ Len(s3) = 4 /\ Len(s4) = 4
  BY <1>1, NumIs
<1>4. PICK s5 \in Seq(Nat) : s5 = flags /\ Len(s5) = 8
  <2>1. flags \in Seq(Nat) /\ Len(flags) = 8
    BY <1>1, BitReads
  <2> QED BY <2>1
<1>5. PICK s6 \in Seq(Nat), s7 \in Seq(Nat) : s6 = E!Counted(e.dependencyNodeIds) /\ s7 = E!Text(e.name)
  BY <1>1, CountedIs, TextIs
<1>6. PICK b \in Seq(Nat) : /\ b = E!SerializeNodeFound(e)
                            /\ b = s1 \o s2 \o s3 \o s4 \o s5 \o s6 \o s7
  <2>1. E!SerializeNodeFound(e) = s1 \o s2 \o s3 \o s4 \o s5 \o s6 \o s7
    BY <1>2, <1>3, <1>4, <1>5 DEF E!SerializeNodeFound
  <2>2. s1 \o s2 \o s3 \o s4 \o s5 \o s6 \o s7 \in Seq(Nat)
    BY Joined
  <2> QED BY <2>1, <2>2
<1> HIDE DEF flags
<1>7. PICK x \in Seq(Nat), y \in Seq(Nat) :
        /\ x = s1 \o s2 \o s3 /\ Len(x) = Len(s1) + 8 /\ y = x \o s4 \o s5 /\ Len(y) = Len(s1) + 20
  <2>1. s1 \o s2 \o s3 \in Seq(Nat) /\ Len(s1 \o s2 \o s3) = Len(s1) + Len(s2) + Len(s3)
    BY ThreeJoined
  <2>2. PICK x \in Seq(Nat) : x = s1 \o s2 \o s3 /\ Len(x) = Len(s1) + Len(s2) + Len(s3)
    BY <2>1
  <2>3. x \o s4 \o s5 \in Seq(Nat) /\ Len(x \o s4 \o s5) = Len(x) + Len(s4) + Len(s5)
    BY ThreeJoined
  <2>4. PICK y \in Seq(Nat) : y = x \o s4 \o s5 /\ Len(y) = Len(x) + Len(s4) + Len(s5)
    BY <2>3
  <2>5. Len(s1) \in Nat
    BY LenProperties
  <2>6. Len(x) = Len(s1) + 8 /\ Len(y) = Len(s1) + 20
    BY <1>3, <1>4, <2>2, <2>4, <2>5
  <2> QED BY <2>2, <2>4, <2>6
<1>8. /\ Carries(b, 0, y) /\ Carries(b, Len(y), s6) /\ Len(y) \in Nat /\ Len(s6) \in Nat
      /\ Carries(b, Len(y) + Len(s6), s7)
  <2>1. Carries(b, 0, y \o s6 \o s7)
    BY <1>6, <1>7, CarriesItself
  <2>2. /\ Carries(b, 0, y) /\ Carries(b, 0 + Len(y), s6) /\ Carries(b, 0 + Len(y) + Len(s6), s7)
    BY <2>1, ThreeParts
  <2>3. Len(y) \in Nat /\ Len(s6) \in Nat
    BY LenProperties
  <2>4. 0 + Len(y) = Len(y) /\ 0 + Len(y) + Len(s6) = Len(y) + Len(s6)
    BY <2>3
  <2> QED BY <2>2, <2>3, <2>4
<1>9. /\ Carries(b, 0, x) /\ Carries(b, Len(x), s4) /\ Carries(b, Len(x) + 4, s5) /\ Len(x) \in Nat
  <2>1. Carries(b, 0, x \o s4 \o s5)
    BY <1>7, <1>8
  <2>2. /\ Carries(b, 0, x) /\ Carries(b, 0 + Len(x), s4) /\ Carries(b, 0 + Len(x) + Len(s4), s5)
    BY <2>1, ThreeParts
  <2>3. Len(x) \in Nat
    BY LenProperties
  <2>4. 0 + Len(x) = Len(x) /\ 0 + Len(x) + Len(s4) = Len(x) + 4
    BY <1>3, <2>3
  <2> QED BY <2>2, <2>3, <2>4
<1>10. /\ Carries(b, 0, s1) /\ Carries(b, Len(s1), s2) /\ Carries(b, Len(s1) + 4, s3) /\ Len(s1) \in Nat
  <2>1. Carries(b, 0, s1 \o s2 \o s3)
    BY <1>7, <1>9
  <2>2. /\ Carries(b, 0, s1) /\ Carries(b, 0 + Len(s1), s2) /\ Carries(b, 0 + Len(s1) + Len(s2), s3)
    BY <2>1, ThreeParts
  <2>3. Len(s1) \in Nat
    BY LenProperties
  <2>4. 0 + Len(s1) = Len(s1) /\ 0 + Len(s1) + Len(s2) = Len(s1) + 4
    BY <1>3, <2>3
  <2> QED BY <2>2, <2>3, <2>4
<1>11. PICK id \in Nat : id = Len(s1) /\ Len(x) = id + 8 /\ Len(y) = id + 20
  BY <1>7, <1>10
<1>12. E!HasNums(b, 0) /\ E!NumsAt(b, 0) = e.nodeIndex /\ E!AfterNums(b, 0) = id
  <2>1. /\ E!HasNums(b, 0) /\ E!NumsAt(b, 0) = e.nodeIndex
        /\ E!AfterNums(b, 0) = 0 + Len(E!Counted(e.nodeIndex))
    BY <1>1, <1>2, <1>10, CarriesCounted
  <2> QED BY <1>2, <1>11, <2>1
<1>13. E!NumAt(b, id) = e.nodeId /\ E!NumAt(b, id + 4) = e.parentNodeId /\ E!NumAt(b, id + 8) = e.declarationOrder
  <2>1. Carries(b, id, s2) /\ Carries(b, id + 4, s3) /\ Carries(b, id + 8, s4)
    BY <1>9, <1>10, <1>11
  <2>2. id + 4 \in Nat /\ id + 8 \in Nat
    OBVIOUS
  <2> QED BY <1>1, <1>3, <2>1, <2>2, CarriesNum
<1>14. /\ b[id + 12 + 1] = e.nodeKind /\ b[id + 12 + 2] = e.declarationMode
       /\ b[id + 12 + 3] = e.sequenceMode
       /\ b[id + 12 + 4] = E!Bit(e.only) /\ b[id + 12 + 5] = E!Bit(e.expectFailure)
       /\ b[id + 12 + 6] = e.preferredRunnerMode /\ b[id + 12 + 7] = e.preferredFailurePolicy
  <2>1. Len(x) + 4 = id + 12
    BY <1>11
  <2>2. \A i \in 1..8 : b[id + 12 + i] = s5[i]
    BY <1>4, <1>9, <2>1 DEF Carries
  <2>3. /\ s5[1] = e.nodeKind /\ s5[2] = e.declarationMode /\ s5[3] = e.sequenceMode
        /\ s5[4] = E!Bit(e.only) /\ s5[5] = E!Bit(e.expectFailure)
        /\ s5[6] = e.preferredRunnerMode /\ s5[7] = e.preferredFailurePolicy
    BY <1>4 DEF flags
  <2> QED BY <2>2, <2>3
<1>15. PICK name \in Nat : /\ name = id + 20 + Len(s6)
                           /\ E!HasNums(b, id + 20) /\ E!NumsAt(b, id + 20) = e.dependencyNodeIds
                           /\ E!AfterNums(b, id + 20) = name
  <2>1. id + 20 \in Nat /\ Carries(b, id + 20, s6)
    BY <1>8, <1>11
  <2>2. /\ E!HasNums(b, id + 20) /\ E!NumsAt(b, id + 20) = e.dependencyNodeIds
        /\ E!AfterNums(b, id + 20) = id + 20 + Len(s6)
    BY <1>1, <1>5, <2>1, CarriesCounted
  <2> QED BY <1>8, <2>2
<1>16. E!HasText(b, name) /\ E!TextAt(b, name) = e.name /\ name + 4 <= Len(b) /\ id + 24 <= Len(b)
  <2>1. Carries(b, name, E!Text(e.name))
    BY <1>5, <1>8, <1>11, <1>15
  <2>2. E!HasText(b, name) /\ E!TextAt(b, name) = e.name
    BY <1>1, <2>1, CarriesText
  <2>3. name + 4 <= Len(b)
    BY <2>2 DEF E!HasText, E!HasNum
  <2>4. id + 20 + 4 <= Len(b)
    BY <1>15 DEF E!HasNums, E!HasNum
  <2> QED BY <2>2, <2>3, <2>4
<1>17. id + 12 + 8 = id + 20
  OBVIOUS
<1>18. (b[id + 12 + 4] # 0) = e.only /\ (b[id + 12 + 5] # 0) = e.expectFailure
  BY <1>1, <1>14, BitReads
<1> DEFINE d == [kind |-> "nodeFound", nodeIndex |-> E!NumsAt(b, 0), nodeId |-> E!NumAt(b, id),
                 parentNodeId |-> E!NumAt(b, id + 4), declarationOrder |-> E!NumAt(b, id + 8),
                 nodeKind |-> b[id + 12 + 1], declarationMode |-> b[id + 12 + 2],
                 sequenceMode |-> b[id + 12 + 3], only |-> b[id + 12 + 4] # 0,
                 expectFailure |-> b[id + 12 + 5] # 0, preferredRunnerMode |-> b[id + 12 + 6],
                 preferredFailurePolicy |-> b[id + 12 + 7],
                 dependencyNodeIds |-> E!NumsAt(b, id + 20), name |-> E!TextAt(b, name)]
<1>19. E!DecodeNodeFoundEvent(b) = d
  <2>1. ~ (id + 24 > Len(b)) /\ ~ (name + 4 > Len(b))
    BY <1>16, LenProperties
  <2> HIDE DEF d
  <2> QED BY <1>12, <1>15, <1>16, <1>17, <2>1, Zenon DEF E!DecodeNodeFoundEvent, d
<1>20. d = e
  <2>1. d = [kind |-> "nodeFound", nodeIndex |-> e.nodeIndex, nodeId |-> e.nodeId,
                 parentNodeId |-> e.parentNodeId, declarationOrder |-> e.declarationOrder,
                 nodeKind |-> e.nodeKind, declarationMode |-> e.declarationMode,
                 sequenceMode |-> e.sequenceMode, only |-> e.only,
                 expectFailure |-> e.expectFailure, preferredRunnerMode |-> e.preferredRunnerMode,
                 preferredFailurePolicy |-> e.preferredFailurePolicy,
                 dependencyNodeIds |-> e.dependencyNodeIds, name |-> e.name]
    BY <1>12, <1>13, <1>14, <1>15, <1>16, <1>18, Zenon
  <2> HIDE DEF d
  <2> QED BY <2>1 DEF E!NodeFoundEvents
<1> QED BY <1>6, <1>19, <1>20

LEMMA NodeReads ==
  ASSUME NEW e \in E!NodeEvents
  PROVE  /\ E!SerializeNode(e) \in Seq(Nat)
         /\ E!DecodeNodeEvent(e.kind, E!SerializeNode(e)) = e
         /\ E!HasNum(E!SerializeNode(e), E!AfterNums(E!SerializeNode(e), 0))
<1>1. e.nodeIndex \in Seq(Nat) /\ e.nodeId \in Nat
  BY DEF E!NodeEvents
<1>2. PICK s1 \in Seq(Nat), s2 \in Seq(Nat) : s1 = E!Counted(e.nodeIndex) /\ s2 = E!Num(e.nodeId)
  BY <1>1, CountedIs, NumIs
<1>3. PICK b \in Seq(Nat) : b = E!SerializeNode(e) /\ b = s1 \o s2
  <2>1. s1 \o s2 \in Seq(Nat) /\ E!SerializeNode(e) = s1 \o s2
    BY <1>2, Joined DEF E!SerializeNode
  <2> QED BY <2>1
<1>4. PICK id \in Nat : id = Len(s1) /\ Carries(b, 0, s1) /\ Carries(b, id, s2)
  <2>1. Carries(b, 0, s1) /\ Carries(b, 0 + Len(s1), s2)
    BY <1>3, CarriesItself, CarriesBoth
  <2>2. Len(s1) \in Nat /\ 0 + Len(s1) = Len(s1)
    BY LenProperties
  <2> QED BY <2>1, <2>2
<1>5. E!HasNums(b, 0) /\ E!NumsAt(b, 0) = e.nodeIndex /\ E!AfterNums(b, 0) = id
  <2>1. /\ E!HasNums(b, 0) /\ E!NumsAt(b, 0) = e.nodeIndex
        /\ E!AfterNums(b, 0) = 0 + Len(E!Counted(e.nodeIndex))
    BY <1>1, <1>2, <1>4, CarriesCounted
  <2> QED BY <1>2, <1>4, <2>1
<1>6. E!HasNum(b, id) /\ E!NumAt(b, id) = e.nodeId
  BY <1>1, <1>2, <1>4, CarriesNum
<1>7. E!DecodeNodeEvent(e.kind, b) = [kind |-> e.kind, nodeIndex |-> e.nodeIndex, nodeId |-> e.nodeId]
  BY <1>5, <1>6, Zenon DEF E!DecodeNodeEvent, E!IdAt
<1>8. e = [kind |-> e.kind, nodeIndex |-> e.nodeIndex, nodeId |-> e.nodeId]
  BY DEF E!NodeEvents
<1> QED BY <1>3, <1>5, <1>6, <1>7, <1>8

LEMMA DiagnosticReads ==
  ASSUME NEW e \in E!Diagnostics
  PROVE  /\ E!SerializeDiagnostic(e) \in Seq(Nat)
         /\ E!DecodeDiagnosticEvent(E!SerializeDiagnostic(e)) = e
<1>1. e.nodeIndex \in Seq(Nat) /\ e.message \in Seq(Nat)
  BY DEF E!Diagnostics
<1>2. PICK s1 \in Seq(Nat), s2 \in Seq(Nat) : s1 = E!Counted(e.nodeIndex) /\ s2 = E!Text(e.message)
  BY <1>1, CountedIs, TextIs
<1>3. PICK b \in Seq(Nat) : b = E!SerializeDiagnostic(e) /\ b = s1 \o s2
  <2>1. s1 \o s2 \in Seq(Nat) /\ E!SerializeDiagnostic(e) = s1 \o s2
    BY <1>2, Joined DEF E!SerializeDiagnostic
  <2> QED BY <2>1
<1>4. PICK at \in Nat : at = Len(s1) /\ Carries(b, 0, s1) /\ Carries(b, at, s2)
  <2>1. Carries(b, 0, s1) /\ Carries(b, 0 + Len(s1), s2)
    BY <1>3, CarriesItself, CarriesBoth
  <2>2. Len(s1) \in Nat /\ 0 + Len(s1) = Len(s1)
    BY LenProperties
  <2> QED BY <2>1, <2>2
<1>5. E!HasNums(b, 0) /\ E!NumsAt(b, 0) = e.nodeIndex /\ E!AfterNums(b, 0) = at
  <2>1. /\ E!HasNums(b, 0) /\ E!NumsAt(b, 0) = e.nodeIndex
        /\ E!AfterNums(b, 0) = 0 + Len(E!Counted(e.nodeIndex))
    BY <1>1, <1>2, <1>4, CarriesCounted
  <2> QED BY <1>2, <1>4, <2>1
<1>6. E!HasText(b, at) /\ E!TextAt(b, at) = e.message
  BY <1>1, <1>2, <1>4, CarriesText
<1>7. E!DecodeDiagnosticEvent(b) = [kind |-> "diagnostic", nodeIndex |-> e.nodeIndex, message |-> e.message]
  BY <1>5, <1>6, Zenon DEF E!DecodeDiagnosticEvent
<1>8. e = [kind |-> "diagnostic", nodeIndex |-> e.nodeIndex, message |-> e.message]
  BY DEF E!Diagnostics
<1> QED BY <1>3, <1>7, <1>8

\* The event a trace becomes.
LogEvents == [kind : {"log"}, source : {"trace"}, message : Seq(Nat), values : Seq(Nat)]

LEMMA LogReads ==
  ASSUME NEW e \in LogEvents
  PROVE  E!EncodeLog(e) \in Seq(Nat) /\ E!DecodeLogEvent(E!EncodeLog(e)) = e
<1>1. e.message \in Seq(Nat) /\ e.values \in Seq(Nat) /\ Len(e.values) \in Nat
  BY LenProperties DEF LogEvents
<1>2. PICK s1 \in Seq(Nat), s3 \in Seq(Nat) :
        /\ s1 = E!Num(Len(e.values)) /\ Len(s1) = 4 /\ s3 = E!Text(e.message)
  BY <1>1, NumIs, TextIs
<1>3. PICK s2 \in Seq(Nat) :
        /\ s2 = E!FlattenSeq([i \in DOMAIN e.values |-> E!Float(e.values[i])])
        /\ Len(s2) = 8 * Len(e.values)
        /\ \A b \in Seq(Nat), o \in Nat : Carries(b, o, s2) =>
             \A i \in 1..Len(e.values) : b[o + 8 * i] = e.values[i]
  BY <1>1, FloatsIs
<1>4. PICK b \in Seq(Nat) : b = E!EncodeLog(e) /\ b = s1 \o s2 \o s3
  <2>1. s1 \o s2 \o s3 \in Seq(Nat) /\ E!EncodeLog(e) = s1 \o s2 \o s3
    BY <1>2, <1>3, ThreeJoined DEF E!EncodeLog
  <2> QED BY <2>1
<1>5. PICK n \in Nat : n = Len(e.values)
  BY <1>1
<1>6. Carries(b, 0, s1) /\ Carries(b, 4, s2) /\ Carries(b, 4 + 8 * n, s3)
  <2>1. Carries(b, 0, s1) /\ Carries(b, 0 + Len(s1), s2) /\ Carries(b, 0 + Len(s1) + Len(s2), s3)
    BY <1>4, CarriesItself, ThreeParts
  <2>2. Len(s1) = 4 /\ Len(s2) = 8 * n
    BY <1>2, <1>3, <1>5
  <2>3. 0 + Len(s1) = 4 /\ 0 + Len(s1) + Len(s2) = 4 + 8 * n
    BY <2>2
  <2> QED BY <2>1, <2>3
<1>7. E!HasNum(b, 0) /\ E!NumAt(b, 0) = n
  BY <1>1, <1>2, <1>5, <1>6, CarriesNum
<1>8. E!HasText(b, 4 + 8 * n) /\ E!TextAt(b, 4 + 8 * n) = e.message
  BY <1>1, <1>2, <1>6, CarriesText
<1>9. ~ (4 + 8 * n > Len(b))
  BY <1>8, LenProperties DEF E!HasText, E!HasNum
<1>10. [i \in 1..n |-> b[4 + 8 * i]] = e.values
  <2>1. e.values = [i \in 1..n |-> e.values[i]]
    BY <1>1, <1>5, LenProperties
  <2>2. \A i \in 1..n : b[4 + 8 * i] = e.values[i]
    <3>1. 4 \in Nat
      OBVIOUS
    <3>2. \A i \in 1..Len(e.values) : b[4 + 8 * i] = e.values[i]
      BY <1>3, <1>6, <3>1, Zenon
    <3> QED BY <1>5, <3>2
  <2> QED BY <2>1, <2>2, Zenon
<1>11. E!DecodeLogEvent(b) = [kind |-> "log", source |-> "trace", values |-> e.values, message |-> e.message]
  <2>1. E!DecodeLogEvent(b) = [kind |-> "log", source |-> "trace",
                               values |-> [i \in 1..n |-> b[4 + 8 * i]],
                               message |-> E!TextAt(b, 4 + 8 * n)]
    BY <1>7, <1>8, <1>9, Zenon DEF E!DecodeLogEvent
  <2> QED BY <1>8, <1>10, <2>1, Zenon
<1>12. e = [kind |-> "log", source |-> "trace", values |-> e.values, message |-> e.message]
  BY DEF LogEvents
<1> QED BY <1>4, <1>11, <1>12

\* What a reader of a hook or failure event finds behind the first four bytes: the
\* length and the identifier are swapped, and only where they are the same does
\* the payload fit.
LEMMA HeadedReads ==
  ASSUME NEW head \in Seq(Nat), Len(head) = 4, NEW e, e.nodeIndex \in Seq(Nat), e.nodeId \in Nat,
         Len(e.nodeIndex) <= e.nodeId
  PROVE  LET b == E!WithHead(head, e)
         IN  /\ b \in Seq(Nat) /\ b[1] = head[1] /\ b[2] = head[2]
             /\ E!HeadedFits(b) => E!NumAt(b, 4) = e.nodeId /\ E!NumsAt(b, 8) = e.nodeIndex
<1>1. PICK n \in Nat : n = Len(e.nodeIndex)
  BY LenProperties
<1>2. PICK s2 \in Seq(Nat), s3 \in Seq(Nat), s4 \in Seq(Nat) :
        /\ s2 = E!Num(n) /\ s3 = E!Num(e.nodeId) /\ s4 = E!Nums(e.nodeIndex)
        /\ Len(s2) = 4 /\ Len(s3) = 4 /\ Len(s4) = 4 * n
  <2>1. E!Num(n) \in Seq(Nat) /\ Len(E!Num(n)) = 4 /\ E!Num(e.nodeId) \in Seq(Nat) /\ Len(E!Num(e.nodeId)) = 4
    BY NumIs
  <2>2. E!Nums(e.nodeIndex) \in Seq(Nat) /\ Len(E!Nums(e.nodeIndex)) = 4 * n
    BY <1>1, NumsIs
  <2> QED BY <2>1, <2>2, Zenon
<1>3. PICK x \in Seq(Nat) : x = head \o s2 \o s3 /\ Len(x) = 12
  <2>1. head \o s2 \o s3 \in Seq(Nat) /\ Len(head \o s2 \o s3) = Len(head) + Len(s2) + Len(s3)
    BY ThreeJoined
  <2>2. Len(head) + Len(s2) + Len(s3) = 12
    BY <1>2
  <2> QED BY <2>1, <2>2
<1>4. PICK b \in Seq(Nat) : b = E!WithHead(head, e) /\ b = x \o s4 /\ Len(b) = 12 + 4 * n
  <2>1. x \o s4 \in Seq(Nat) /\ Len(x \o s4) = Len(x) + Len(s4)
    BY Joined
  <2>2. E!WithHead(head, e) = x \o s4
    BY <1>1, <1>2, <1>3 DEF E!WithHead
  <2>3. Len(x) + Len(s4) = 12 + 4 * n
    BY <1>2, <1>3
  <2> QED BY <2>1, <2>2, <2>3
<1>5. Carries(b, 0, x) /\ Carries(b, 12, s4)
  <2>1. Carries(b, 0, x) /\ Carries(b, 0 + Len(x), s4)
    BY <1>4, CarriesItself, CarriesBoth
  <2> QED BY <1>3, <2>1
<1>6. Carries(b, 0, head) /\ Carries(b, 4, s2) /\ Carries(b, 8, s3)
  <2>1. Carries(b, 0, head) /\ Carries(b, 0 + Len(head), s2) /\ Carries(b, 0 + Len(head) + Len(s2), s3)
    BY <1>3, <1>5, ThreeParts
  <2>2. 0 + Len(head) = 4 /\ 0 + Len(head) + Len(s2) = 8
    BY <1>2
  <2> QED BY <2>1, <2>2
<1>7. b[1] = head[1] /\ b[2] = head[2]
  <2>1. b[0 + 1] = head[1] /\ b[0 + 2] = head[2]
    BY <1>6 DEF Carries
  <2> QED BY <2>1
<1>8. E!NumAt(b, 4) = n
  BY <1>2, <1>6, CarriesNum
<1>9. E!HasNum(b, 8) /\ E!NumAt(b, 8) = e.nodeId
  BY <1>2, <1>6, CarriesNum
<1>10. ASSUME E!HeadedFits(b) PROVE E!NumAt(b, 4) = e.nodeId /\ E!NumsAt(b, 8) = e.nodeIndex
  <2>1. 8 + 4 + 4 * e.nodeId <= 12 + 4 * n
    BY <1>4, <1>9, <1>10 DEF E!HeadedFits, E!HasNums
  <2>2. e.nodeId = n
    <3>1. PICK id \in Nat : id = e.nodeId
      OBVIOUS
    <3>2. 8 + 4 + 4 * id <= 12 + 4 * n /\ n <= id
      BY <1>1, <2>1, <3>1
    <3>3. id = n
      BY <3>2
    <3> QED BY <3>1, <3>3
  <2>3. Carries(b, 8 + 4, E!Nums(e.nodeIndex))
    BY <1>2, <1>5
  <2>4. E!NumsAt(b, 8) = e.nodeIndex
    BY <1>1, <1>9, <2>2, <2>3, CarriesNums
  <2> QED BY <1>8, <2>2, <2>4
<1> QED BY <1>4, <1>7, <1>10

LEMMA CallbackReads ==
  ASSUME NEW e \in E!CallbackEvents, Len(e.nodeIndex) <= e.nodeId
  PROVE  /\ E!SerializeCallback(e) \in Seq(Nat)
         /\ E!DecodeCallbackEvent(e.kind, E!SerializeCallback(e)) \in {e, E!Null}
<1>1. e.nodeIndex \in Seq(Nat) /\ e.nodeId \in Nat /\ e.hook \in Nat
  BY DEF E!CallbackEvents
<1>2. PICK head \in Seq(Nat) : head = <<e.hook, 0, 0, 0>> /\ Len(head) = 4 /\ head[1] = e.hook
  <2>1. /\ <<e.hook, 0, 0, 0>> \in Seq(Nat) /\ Len(<<e.hook, 0, 0, 0>>) = 4
        /\ <<e.hook, 0, 0, 0>>[1] = e.hook
    BY <1>1
  <2> QED BY <2>1, Zenon
<1>3. PICK b \in Seq(Nat) :
        /\ b = E!SerializeCallback(e) /\ b[1] = e.hook
        /\ E!HeadedFits(b) => E!NumAt(b, 4) = e.nodeId /\ E!NumsAt(b, 8) = e.nodeIndex
  BY <1>1, <1>2, HeadedReads DEF E!SerializeCallback
<1>4. CASE E!HeadedFits(b)
  <2>1. E!DecodeCallbackEvent(e.kind, b)
          = [kind |-> e.kind, hook |-> e.hook, nodeId |-> e.nodeId, nodeIndex |-> e.nodeIndex]
    BY <1>3, <1>4, Zenon DEF E!DecodeCallbackEvent
  <2>2. e = [kind |-> e.kind, hook |-> e.hook, nodeId |-> e.nodeId, nodeIndex |-> e.nodeIndex]
    BY DEF E!CallbackEvents
  <2> QED BY <1>3, <2>1, <2>2
<1>5. CASE ~ E!HeadedFits(b)
  BY <1>3, <1>5 DEF E!DecodeCallbackEvent
<1> QED BY <1>4, <1>5

LEMMA NodeFailureReads ==
  ASSUME NEW e \in E!NodeFailures, Len(e.nodeIndex) <= e.nodeId
  PROVE  /\ E!SerializeNodeFail(e) \in Seq(Nat)
         /\ E!DecodeNodeFailureEvent(E!SerializeNodeFail(e)) \in {e, E!Null}
<1>1. e.nodeIndex \in Seq(Nat) /\ e.nodeId \in Nat /\ e.failureKind \in Nat
  BY DEF E!NodeFailures
<1>2. PICK head \in Seq(Nat) : head = <<e.failureKind, 0, 0, 0>> /\ Len(head) = 4 /\ head[1] = e.failureKind
  <2>1. /\ <<e.failureKind, 0, 0, 0>> \in Seq(Nat) /\ Len(<<e.failureKind, 0, 0, 0>>) = 4
        /\ <<e.failureKind, 0, 0, 0>>[1] = e.failureKind
    BY <1>1
  <2> QED BY <2>1, Zenon
<1>3. PICK b \in Seq(Nat) :
        /\ b = E!SerializeNodeFail(e) /\ b[1] = e.failureKind
        /\ E!HeadedFits(b) => E!NumAt(b, 4) = e.nodeId /\ E!NumsAt(b, 8) = e.nodeIndex
  BY <1>1, <1>2, HeadedReads DEF E!SerializeNodeFail
<1>4. CASE E!HeadedFits(b)
  <2>1. E!DecodeNodeFailureEvent(b)
          = [kind |-> "nodeFail", failureKind |-> e.failureKind, nodeId |-> e.nodeId, nodeIndex |-> e.nodeIndex]
    BY <1>3, <1>4, Zenon DEF E!DecodeNodeFailureEvent
  <2>2. e = [kind |-> "nodeFail", failureKind |-> e.failureKind, nodeId |-> e.nodeId, nodeIndex |-> e.nodeIndex]
    BY DEF E!NodeFailures
  <2> QED BY <1>3, <2>1, <2>2
<1>5. CASE ~ E!HeadedFits(b)
  BY <1>3, <1>5 DEF E!DecodeNodeFailureEvent
<1> QED BY <1>4, <1>5

LEMMA CallbackFailureReads ==
  ASSUME NEW e \in E!CallbackFailures, Len(e.nodeIndex) <= e.nodeId
  PROVE  /\ E!SerializeCallbackFail(e) \in Seq(Nat)
         /\ E!DecodeCallbackFailureEvent(E!SerializeCallbackFail(e)) \in {e, E!Null}
<1>1. e.nodeIndex \in Seq(Nat) /\ e.nodeId \in Nat /\ e.hook \in Nat /\ e.failureKind \in Nat
  BY DEF E!CallbackFailures
<1>2. PICK head \in Seq(Nat) :
        head = <<e.hook, e.failureKind, 0, 0>> /\ Len(head) = 4 /\ head[1] = e.hook /\ head[2] = e.failureKind
  <2>1. /\ <<e.hook, e.failureKind, 0, 0>> \in Seq(Nat) /\ Len(<<e.hook, e.failureKind, 0, 0>>) = 4
        /\ <<e.hook, e.failureKind, 0, 0>>[1] = e.hook /\ <<e.hook, e.failureKind, 0, 0>>[2] = e.failureKind
    BY <1>1
  <2> QED BY <2>1, Zenon
<1>3. PICK b \in Seq(Nat) :
        /\ b = E!SerializeCallbackFail(e) /\ b[1] = e.hook /\ b[2] = e.failureKind
        /\ E!HeadedFits(b) => E!NumAt(b, 4) = e.nodeId /\ E!NumsAt(b, 8) = e.nodeIndex
  BY <1>1, <1>2, HeadedReads DEF E!SerializeCallbackFail
<1>4. CASE E!HeadedFits(b)
  <2>1. E!DecodeCallbackFailureEvent(b)
          = [kind |-> "callbackFail", hook |-> e.hook, failureKind |-> e.failureKind,
             nodeId |-> e.nodeId, nodeIndex |-> e.nodeIndex]
    BY <1>3, <1>4, Zenon DEF E!DecodeCallbackFailureEvent
  <2>2. e = [kind |-> "callbackFail", hook |-> e.hook, failureKind |-> e.failureKind,
             nodeId |-> e.nodeId, nodeIndex |-> e.nodeIndex]
    BY DEF E!CallbackFailures
  <2> QED BY <1>3, <2>1, <2>2
<1>5. CASE ~ E!HeadedFits(b)
  BY <1>3, <1>5 DEF E!DecodeCallbackFailureEvent
<1> QED BY <1>4, <1>5

LEMMA ClampedIs == ASSUME NEW v \in Nat PROVE E!Clamped(v) = E!Num(v)
  BY DEF E!Clamped

LEMMA CrumbReads ==
  ASSUME NEW c \in E!Crumbs
  PROVE  /\ E!FrameCrumb(c) \in Seq(Nat)
         /\ \A b \in Seq(Nat), o \in Nat : Carries(b, o, E!FrameCrumb(c)) =>
              E!DecodeDebugCrumb(b, o) = [after |-> o + Len(E!FrameCrumb(c)), crumb |-> c]
<1>1. /\ c.kind \in Nat /\ c.nodeKind \in Nat /\ c.hookKind \in Nat /\ c.nodeIndex \in Seq(Nat)
      /\ c.name \in Seq(Nat) /\ c.sourceFile \in Seq(Nat) /\ c.sourceLine \in Nat /\ c.sourceColumn \in Nat
  BY DEF E!Crumbs
<1>2. PICK s1 \in Seq(Nat) :
        /\ s1 = <<c.kind, c.nodeKind, c.hookKind, 0>> /\ Len(s1) = 4
        /\ s1[1] = c.kind /\ s1[2] = c.nodeKind /\ s1[3] = c.hookKind
  <2> DEFINE s == <<c.kind, c.nodeKind, c.hookKind, 0>>
  <2>1. s \in Seq(Nat) /\ Len(s) = 4 /\ s[1] = c.kind /\ s[2] = c.nodeKind /\ s[3] = c.hookKind
    BY <1>1
  <2> QED BY <2>1, Zenon
<1>3. PICK s2 \in Seq(Nat), s3 \in Seq(Nat), s4 \in Seq(Nat) :
        s2 = E!Counted(c.nodeIndex) /\ s3 = E!Text(c.name) /\ s4 = E!Text(c.sourceFile)
  BY <1>1, CountedIs, TextIs
<1>4. PICK s5 \in Seq(Nat), s6 \in Seq(Nat) :
        s5 = E!Num(c.sourceLine) /\ s6 = E!Num(c.sourceColumn) /\ Len(s5) = 4 /\ Len(s6) = 4
  <2>1. /\ E!Num(c.sourceLine) \in Seq(Nat) /\ Len(E!Num(c.sourceLine)) = 4
        /\ E!Num(c.sourceColumn) \in Seq(Nat) /\ Len(E!Num(c.sourceColumn)) = 4
    BY <1>1, NumIs
  <2> QED BY <2>1, Zenon
<1>5. PICK x \in Seq(Nat), y \in Seq(Nat) : x = s1 \o s2 /\ y = x \o s3 \o s4
  <2>1. PICK x \in Seq(Nat) : x = s1 \o s2
    BY Joined
  <2>2. x \o s3 \o s4 \in Seq(Nat)
    BY ThreeJoined
  <2> QED BY <2>1, <2>2, Zenon
<1>6. PICK s \in Seq(Nat) : s = E!FrameCrumb(c) /\ s = y \o s5 \o s6
  <2>1. y \o s5 \o s6 \in Seq(Nat)
    BY ThreeJoined
  <2>2. E!FrameCrumb(c) = y \o s5 \o s6
    BY <1>1, <1>2, <1>3, <1>4, <1>5, ClampedIs DEF E!FrameCrumb
  <2> QED BY <2>1, <2>2, Zenon
<1>7. ASSUME NEW b \in Seq(Nat), NEW o \in Nat, Carries(b, o, s)
      PROVE  E!DecodeDebugCrumb(b, o) = [after |-> o + Len(s), crumb |-> c]
  <2>1. PICK n2 \in Nat, n3 \in Nat, n4 \in Nat : n2 = Len(s2) /\ n3 = Len(s3) /\ n4 = Len(s4)
    BY LenProperties
  <2>2. Len(x) = 4 + n2 /\ Len(y) = 4 + n2 + n3 + n4 /\ Len(s) = 4 + n2 + n3 + n4 + 8
    <3>1. Len(x) = Len(s1) + Len(s2)
      BY <1>5, Joined
    <3>2. Len(y) = Len(x) + Len(s3) + Len(s4)
      BY <1>5, ThreeJoined
    <3>3. Len(s) = Len(y) + Len(s5) + Len(s6)
      BY <1>6, ThreeJoined
    <3> QED BY <1>2, <1>4, <2>1, <3>1, <3>2, <3>3
  <2>3. Carries(b, o, y) /\ Carries(b, o + Len(y), s5) /\ Carries(b, o + Len(y) + Len(s5), s6)
    BY <1>6, <1>7, ThreeParts
  <2>4. Carries(b, o, x) /\ Carries(b, o + Len(x), s3) /\ Carries(b, o + Len(x) + Len(s3), s4)
    BY <1>5, <2>3, ThreeParts
  <2>5. Carries(b, o, s1) /\ Carries(b, o + Len(s1), s2)
    BY <1>5, <2>4, CarriesBoth
  <2>6. PICK name \in Nat, file \in Nat, line \in Nat :
          /\ name = o + 4 + n2 /\ file = name + n3 /\ line = file + n4
          /\ name = o + Len(x) /\ file = o + Len(x) + Len(s3) /\ line = o + Len(y)
          /\ line + 4 = o + Len(y) + Len(s5) /\ line + 8 = o + Len(s) /\ o + 4 = o + Len(s1)
    <3> DEFINE m1 == o + 4 + n2
               m2 == m1 + n3
               m3 == m2 + n4
    <3>1. m1 \in Nat /\ m2 \in Nat /\ m3 \in Nat
      OBVIOUS
    <3>2. PICK lx \in Nat, ly \in Nat, ls \in Nat :
            /\ lx = Len(x) /\ ly = Len(y) /\ ls = Len(s)
            /\ lx = 4 + n2 /\ ly = 4 + n2 + n3 + n4 /\ ls = 4 + n2 + n3 + n4 + 8
      <4>1. Len(x) \in Nat /\ Len(y) \in Nat /\ Len(s) \in Nat
        BY LenProperties
      <4> QED BY <2>2, <4>1, Zenon
    <3>3. /\ m1 = o + lx /\ m2 = o + lx + n3 /\ m3 = o + ly
          /\ m3 + 4 = o + ly + 4 /\ m3 + 8 = o + ls
      BY <3>2
    <3>4. /\ m1 = o + Len(x) /\ m2 = o + Len(x) + Len(s3) /\ m3 = o + Len(y)
          /\ m3 + 4 = o + Len(y) + Len(s5) /\ m3 + 8 = o + Len(s) /\ o + 4 = o + Len(s1)
      <4> HIDE DEF m1, m2, m3
      <4> QED BY <1>2, <1>4, <2>1, <3>2, <3>3, Zenon
    <3>5. m1 = o + 4 + n2 /\ m2 = m1 + n3 /\ m3 = m2 + n4
      OBVIOUS
    <3> HIDE DEF m1, m2, m3
    <3> QED BY <3>1, <3>4, <3>5, Zenon
  <2>7. b[o + 1] = c.kind /\ b[o + 2] = c.nodeKind /\ b[o + 3] = c.hookKind
    <3>1. \A i \in 1..Len(s1) : b[o + i] = s1[i]
      BY <2>5 DEF Carries
    <3>2. 1 \in 1..Len(s1) /\ 2 \in 1..Len(s1) /\ 3 \in 1..Len(s1)
      BY <1>2
    <3> QED BY <1>2, <3>1, <3>2, Zenon
  <2>8. E!HasNums(b, o + 4) /\ E!NumsAt(b, o + 4) = c.nodeIndex /\ E!AfterNums(b, o + 4) = name
    <3>1. o + 4 \in Nat /\ Carries(b, o + 4, E!Counted(c.nodeIndex))
      <4>1. Carries(b, o + 4, E!Counted(c.nodeIndex))
        BY <1>3, <2>5, <2>6, Zenon
      <4> QED BY <4>1
    <3>2. /\ E!HasNums(b, o + 4) /\ E!NumsAt(b, o + 4) = c.nodeIndex
          /\ E!AfterNums(b, o + 4) = o + 4 + Len(E!Counted(c.nodeIndex))
      BY <1>1, <3>1, CarriesCounted
    <3>3. Len(E!Counted(c.nodeIndex)) = n2
      BY <1>3, <2>1
    <3> QED BY <2>6, <3>2, <3>3
  <2>9. E!HasText(b, name) /\ E!TextAt(b, name) = c.name /\ E!AfterText(b, name) = file
    <3>1. Carries(b, name, E!Text(c.name))
      BY <1>3, <2>4, <2>6, Zenon
    <3>2. /\ E!HasText(b, name) /\ E!TextAt(b, name) = c.name
          /\ E!AfterText(b, name) = name + Len(E!Text(c.name))
      BY <1>1, <3>1, CarriesText
    <3>3. Len(E!Text(c.name)) = n3
      BY <1>3, <2>1
    <3> QED BY <2>6, <3>2, <3>3
  <2>10. E!HasText(b, file) /\ E!TextAt(b, file) = c.sourceFile /\ E!AfterText(b, file) = line
    <3>1. Carries(b, file, E!Text(c.sourceFile))
      BY <1>3, <2>4, <2>6, Zenon
    <3>2. /\ E!HasText(b, file) /\ E!TextAt(b, file) = c.sourceFile
          /\ E!AfterText(b, file) = file + Len(E!Text(c.sourceFile))
      BY <1>1, <3>1, CarriesText
    <3>3. Len(E!Text(c.sourceFile)) = n4
      BY <1>3, <2>1
    <3> QED BY <2>6, <3>2, <3>3
  <2>11. /\ E!NumAt(b, line) = c.sourceLine /\ E!NumAt(b, line + 4) = c.sourceColumn
         /\ line + 4 + 4 <= Len(b)
    <3>1. Carries(b, line, E!Num(c.sourceLine)) /\ Carries(b, line + 4, E!Num(c.sourceColumn)) /\ line + 4 \in Nat
      <4>1. Carries(b, line, E!Num(c.sourceLine)) /\ Carries(b, line + 4, E!Num(c.sourceColumn))
        BY <1>4, <2>3, <2>6, Zenon
      <4> QED BY <4>1
    <3> QED BY <1>1, <3>1, CarriesNum
  <2>12. ~ (line + 8 > Len(b)) /\ ~ (o + 8 > Len(b))
    <3>1. o + 4 + 4 <= Len(b)
      BY <2>8 DEF E!HasNums, E!HasNum
    <3> QED BY <2>11, <3>1, LenProperties
  <2>13. E!DecodeDebugCrumb(b, o)
           = [after |-> line + 8,
              crumb |-> [kind |-> c.kind, nodeKind |-> c.nodeKind, hookKind |-> c.hookKind,
                         nodeIndex |-> c.nodeIndex, name |-> c.name, sourceFile |-> c.sourceFile,
                         sourceLine |-> c.sourceLine, sourceColumn |-> c.sourceColumn]]
    BY <2>7, <2>8, <2>9, <2>10, <2>11, <2>12, Zenon DEF E!DecodeDebugCrumb
  <2>14. c = [kind |-> c.kind, nodeKind |-> c.nodeKind, hookKind |-> c.hookKind,
              nodeIndex |-> c.nodeIndex, name |-> c.name, sourceFile |-> c.sourceFile,
              sourceLine |-> c.sourceLine, sourceColumn |-> c.sourceColumn]
    BY DEF E!Crumbs
  <2>15. line + 8 = o + Len(s)
    BY <2>6
  <2> QED BY <2>13, <2>14, <2>15, Zenon
<1> QED BY <1>6, <1>7

\* The first i elements.
FirstOf(cs, i) == [k \in 1..i |-> cs[k]]

LEMMA FirstOfNext ==
  ASSUME NEW S, NEW s \in Seq(S), NEW i \in 1..Len(s)
  PROVE  FirstOf(s, i - 1) \in Seq(S) /\ Append(FirstOf(s, i - 1), s[i]) = FirstOf(s, i)
<1>1. PICK j \in 0..Len(s) : j = i - 1 /\ i = j + 1
  BY LenProperties
<1>2. FirstOf(s, j) \in Seq(S) /\ Len(FirstOf(s, j)) = j /\ s[i] \in S
  <2>1. \A k \in 1..j : s[k] \in S
    BY <1>1, LenProperties, ElementOfSeq
  <2>2. s[i] \in S
    BY ElementOfSeq
  <2> QED BY <1>1, <2>1, <2>2 DEF FirstOf
<1>3. PICK u \in Seq(S) : u = FirstOf(s, j) /\ Len(u) = j
  BY <1>2
<1>4. /\ Append(u, s[i]) = [k \in 1..(j + 1) |-> Append(u, s[i])[k]]
      /\ \A k \in 1..j : Append(u, s[i])[k] = u[k]
      /\ Append(u, s[i])[j + 1] = s[i]
  <2>1. Append(u, s[i]) \in Seq(S) /\ Len(Append(u, s[i])) = j + 1
    BY <1>2, <1>3, AppendProperties
  <2> QED BY <1>2, <1>3, <2>1, AppendProperties, LenProperties
<1>5. ASSUME NEW k \in 1..(j + 1) PROVE Append(u, s[i])[k] = s[k]
  <2>1. CASE k = j + 1
    BY <1>1, <1>4, <2>1
  <2>2. CASE k # j + 1
    <3>1. k \in 1..j
      BY <2>2
    <3>2. u[k] = s[k]
      BY <1>3, <3>1 DEF FirstOf
    <3> QED BY <1>4, <3>1, <3>2
  <2> QED BY <2>1, <2>2
<1>6. Append(u, s[i]) = [k \in 1..(j + 1) |-> s[k]]
  BY <1>4, <1>5
<1> QED BY <1>1, <1>2, <1>3, <1>6 DEF FirstOf

LEMMA CrumbsRead ==
  ASSUME NEW cs \in Seq(E!Crumbs)
  PROVE  \E f \in Seq(Nat) :
           /\ f = E!FlattenSeq([i \in DOMAIN cs |-> E!FrameCrumb(cs[i])])
           /\ \A b \in Seq(Nat), o \in Nat :
                Carries(b, o, E!Num(Len(cs))) /\ Carries(b, o + 4, f) =>
                  E!DecodeCrumbs(b, o) = [after |-> o + 4 + Len(f), crumbs |-> cs]
<1> DEFINE q == [i \in DOMAIN cs |-> E!FrameCrumb(cs[i])]
<1>1. Len(cs) \in Nat /\ DOMAIN cs = 1..Len(cs) /\ \A i \in 1..Len(cs) : cs[i] \in E!Crumbs
  BY LenProperties, ElementOfSeq
<1>2. q \in Seq(Seq(Nat)) /\ Len(q) = Len(cs) /\ \A i \in 1..Len(cs) : q[i] = E!FrameCrumb(cs[i])
  <2>1. \A i \in 1..Len(cs) : E!FrameCrumb(cs[i]) \in Seq(Nat)
    BY <1>1, CrumbReads
  <2> QED BY <1>1, <2>1
<1>3. E!FlattenSeq([i \in DOMAIN cs |-> E!FrameCrumb(cs[i])]) = FlattenSeq(q)
  BY FlattenIsSame
<1> HIDE DEF q
<1>4. PICK g : Chunked(q, g)
  <2>1. \E g \in [0..Len(q) -> Seq(Nat)] :
          /\ g[0] = <<>> /\ \A i \in 1..Len(q) : g[i] = g[i - 1] \o q[i]
          /\ FlattenSeq(q) = g[Len(q)]
    BY <1>2, FlattenSteps
  <2> QED BY <2>1 DEF Chunked
<1>5. PICK n \in Nat : n = Len(cs)
  BY <1>1
<1>6. PICK f \in Seq(Nat) : f = FlattenSeq(q) /\ f = g[n]
  <2>1. g[n] \in Seq(Nat) /\ FlattenSeq(q) = g[n]
    BY <1>2, <1>4, <1>5 DEF Chunked
  <2> QED BY <2>1
<1>7. ASSUME NEW b \in Seq(Nat), NEW o \in Nat, Carries(b, o, E!Num(n)), Carries(b, o + 4, f)
      PROVE  E!DecodeCrumbs(b, o) = [after |-> o + 4 + Len(f), crumbs |-> cs]
  <2> DEFINE Follows(r, i) == IF i = 0 THEN [after |-> o + 4, crumbs |-> <<>>]
                           ELSE IF r[i - 1].after < 0 THEN r[i - 1]
                           ELSE LET d == E!DecodeDebugCrumb(b, r[i - 1].after)
                                IN  [after |-> d.after, crumbs |-> Append(r[i - 1].crumbs, d.crumb)]
             Is(r) == r = [i \in 0..n |-> Follows(r, i)]
             read == CHOOSE r : Is(r)
             h == [i \in 0..n |-> [after |-> o + 4 + Len(g[i]), crumbs |-> FirstOf(cs, i)]]
  <2>1. E!NumAt(b, o) = n
    BY <1>7, CarriesNum
  <2>2. E!DecodeCrumbs(b, o) = read[n]
    BY <2>1 DEF E!DecodeCrumbs
  <2> HIDE DEF read
  <2>3. ASSUME NEW i \in 1..n
        PROVE  /\ i - 1 \in 0..n
               /\ o + 4 + Len(g[i - 1]) \in Nat /\ ~ (o + 4 + Len(g[i - 1]) < 0)
               /\ E!DecodeDebugCrumb(b, o + 4 + Len(g[i - 1]))
                    = [after |-> o + 4 + Len(g[i]), crumb |-> cs[i]]
    <3>1. i - 1 \in 0..n /\ i \in 1..Len(q) /\ i \in 1..Len(cs) /\ o + 4 \in Nat
      BY <1>2, <1>5
    <3>2. Carries(b, o + 4 + Len(g[i - 1]), q[i]) /\ o + 4 + Len(g[i - 1]) \in Nat
      <4>1. Carries(b, o + 4, FlattenSeq(q))
        BY <1>6, <1>7
      <4> QED BY <1>2, <1>4, <3>1, <4>1, CarriesChunks
    <3>3. PICK p \in Nat : p = o + 4 + Len(g[i - 1])
      BY <3>2
    <3>4. E!DecodeDebugCrumb(b, p) = [after |-> p + Len(q[i]), crumb |-> cs[i]]
      <4>1. q[i] = E!FrameCrumb(cs[i]) /\ cs[i] \in E!Crumbs
        BY <1>1, <1>2, <3>1
      <4>2. Carries(b, p, E!FrameCrumb(cs[i]))
        BY <3>2, <3>3, <4>1, Zenon
      <4>3. E!DecodeDebugCrumb(b, p) = [after |-> p + Len(E!FrameCrumb(cs[i])), crumb |-> cs[i]]
        BY <4>1, <4>2, CrumbReads
      <4> QED BY <4>1, <4>3, Zenon
    <3>5. p + Len(q[i]) = o + 4 + Len(g[i])
      <4>1. g[i - 1] \in Seq(Nat) /\ q[i] \in Seq(Nat) /\ g[i] = g[i - 1] \o q[i]
        <5>1. q[i] = E!FrameCrumb(cs[i]) /\ cs[i] \in E!Crumbs
          BY <1>1, <1>2, <3>1
        <5> QED BY <1>2, <1>4, <1>5, <3>1, <5>1, CrumbReads DEF Chunked
      <4>2. /\ Len(g[i]) = Len(g[i - 1]) + Len(q[i])
            /\ Len(g[i - 1]) \in Nat /\ Len(q[i]) \in Nat /\ Len(g[i]) \in Nat
        BY <4>1, Joined
      <4>3. PICK l1 \in Nat, l2 \in Nat, l3 \in Nat : l1 = Len(g[i - 1]) /\ l2 = Len(q[i]) /\ l3 = Len(g[i])
        BY <4>2, Zenon
      <4>4. p = o + 4 + l1 /\ l3 = l1 + l2
        BY <3>3, <4>2, <4>3, Zenon
      <4>5. p + l2 = o + 4 + l3
        BY <4>4
      <4> QED BY <4>3, <4>5, Zenon
    <3>6. ~ (p < 0)
      OBVIOUS
    <3> QED BY <3>1, <3>3, <3>4, <3>5, <3>6
  <2>4. ASSUME NEW i \in 1..n PROVE Append(FirstOf(cs, i - 1), cs[i]) = FirstOf(cs, i)
    BY <1>5, FirstOfNext
  <2>5. ASSUME NEW i \in 0..n PROVE h[i] = Follows(h, i)
    <3>1. CASE i = 0
      <4>1. g[0] = <<>> /\ FirstOf(cs, 0) = <<>> /\ Len(<<>>) = 0
        BY <1>4 DEF Chunked, FirstOf
      <4>2. 0 \in 0..n /\ o + 4 + 0 = o + 4
        OBVIOUS
      <4>3. h[0] = [after |-> o + 4 + Len(g[0]), crumbs |-> FirstOf(cs, 0)]
        BY <4>2
      <4>4. h[0] = [after |-> o + 4, crumbs |-> <<>>]
        <5> HIDE DEF h
        <5>1. o + 4 + Len(g[0]) = o + 4
          BY <4>1, <4>2, Zenon
        <5> QED BY <4>1, <4>3, <5>1, Zenon
      <4>5. Follows(h, 0) = [after |-> o + 4, crumbs |-> <<>>]
        <5> HIDE DEF h
        <5> QED OBVIOUS
      <4> HIDE DEF h, Follows
      <4> QED BY <3>1, <4>4, <4>5, Zenon
    <3>2. CASE i # 0
      <4>1. i \in 1..n /\ i - 1 \in 0..n
        BY <3>2
      <4>2. PICK a : a = h[i - 1]
        OBVIOUS
      <4>3. a.after = o + 4 + Len(g[i - 1]) /\ a.crumbs = FirstOf(cs, i - 1)
        BY <4>1, <4>2
      <4>4. PICK d : /\ d = E!DecodeDebugCrumb(b, a.after) /\ d.after = o + 4 + Len(g[i]) /\ d.crumb = cs[i]
        <5>1. PICK d : d = E!DecodeDebugCrumb(b, a.after)
          OBVIOUS
        <5>2. d = E!DecodeDebugCrumb(b, o + 4 + Len(g[i - 1]))
          <6> HIDE DEF h
          <6> QED BY <4>3, <5>1, Zenon
        <5>3. d = [after |-> o + 4 + Len(g[i]), crumb |-> cs[i]]
          BY <2>3, <4>1, <5>2
        <5>4. d.after = o + 4 + Len(g[i]) /\ d.crumb = cs[i]
          BY <5>3
        <5> HIDE DEF h
        <5> QED BY <5>1, <5>4, Zenon
      <4>5. ~ (a.after < 0)
        <5> HIDE DEF h
        <5>1. ~ (o + 4 + Len(g[i - 1]) < 0)
          BY <2>3, <4>1
        <5> QED BY <4>3, <5>1, Zenon
      <4>6. h[i] = [after |-> d.after, crumbs |-> Append(a.crumbs, d.crumb)]
        <5>1. h[i] = [after |-> o + 4 + Len(g[i]), crumbs |-> FirstOf(cs, i)]
          OBVIOUS
        <5>2. Append(a.crumbs, d.crumb) = FirstOf(cs, i)
          BY <2>4, <4>1, <4>3, <4>4
        <5> HIDE DEF h
        <5> QED BY <4>4, <5>1, <5>2, Zenon
      <4> HIDE DEF h
      <4> QED BY <3>2, <4>2, <4>4, <4>5, <4>6, Zenon
    <3> QED BY <3>1, <3>2
  <2>6. Is(h)
    <3>1. h = [i \in 0..n |-> h[i]]
      OBVIOUS
    <3> HIDE DEF h, Follows
    <3>2. h = [i \in 0..n |-> Follows(h, i)]
      BY <2>5, <3>1, Zenon
    <3> QED BY <3>2
  <2>7. Is(read)
    <3> HIDE DEF Is, h
    <3> QED BY <2>6 DEF read
  <2>8. ASSUME NEW i \in 0..n PROVE read[i] = Follows(read, i)
    <3> HIDE DEF Follows
    <3> QED BY <2>7
  <2> DEFINE Good == {i \in 0..n : read[i] = h[i]}
  <2>9. 0 \in Good
    <3>0. 0 \in 0..n
      OBVIOUS
    <3>1. read[0] = Follows(read, 0) /\ h[0] = Follows(h, 0)
      <4> HIDE DEF Follows, h
      <4> QED BY <2>5, <2>8, <3>0
    <3>2. Follows(read, 0) = Follows(h, 0)
      OBVIOUS
    <3> HIDE DEF Follows, h
    <3> QED BY <3>0, <3>1, <3>2
  <2>10. ASSUME NEW i \in 0..n, i < n, i \in Good PROVE i + 1 \in Good
    <3>1. PICK j \in 0..n : j = i + 1 /\ j - 1 = i /\ j # 0
      BY <2>10
    <3>2. read[j - 1] = h[j - 1]
      BY <2>10, <3>1
    <3>3. Follows(read, j) = Follows(h, j)
      <4> HIDE DEF h
      <4> QED BY <3>2, Zenon
    <3>4. read[j] = h[j]
      <4> HIDE DEF Follows, h
      <4> QED BY <2>5, <2>8, <3>3
    <3> HIDE DEF h
    <3> QED BY <3>1, <3>4
  <2>11. \A i \in 0..n : i \in Good
    <3> HIDE DEF Good
    <3> QED BY <2>9, <2>10, UpTo
  <2>12. read[n] = h[n]
    <3>1. n \in 0..n
      OBVIOUS
    <3>2. n \in Good
      BY <2>11, <3>1
    <3> HIDE DEF h
    <3> QED BY <3>2
  <2>13. FirstOf(cs, n) = cs
    BY <1>1, <1>5, LenProperties DEF FirstOf
  <2>14. h[n] = [after |-> o + 4 + Len(f), crumbs |-> cs]
    <3>1. n \in 0..n
      OBVIOUS
    <3>2. h[n] = [after |-> o + 4 + Len(g[n]), crumbs |-> FirstOf(cs, n)]
      BY <3>1
    <3> HIDE DEF h
    <3> QED BY <1>6, <2>13, <3>2, Zenon
  <2> QED BY <2>2, <2>12, <2>14
<1> QED BY <1>3, <1>5, <1>6, <1>7

LEMMA DebugReads ==
  ASSUME NEW e \in E!DebugEvents
  PROVE  E!SerializeDebug(e) \in Seq(Nat) /\ E!DecodeDebugEvent(E!SerializeDebug(e)) = e
<1>1. /\ e.source \in {1, 2} /\ e.source \in Nat /\ e.values \in Seq(Nat) /\ e.crumbs \in Seq(E!Crumbs)
      /\ e.message \in Seq(Nat) /\ e.locationFile \in Seq(Nat)
      /\ e.locationLine \in Nat /\ e.locationColumn \in Nat
  BY DEF E!DebugEvents
<1>2. PICK n \in Nat, k \in Nat : n = Len(e.values) /\ k = Len(e.crumbs)
  BY <1>1, LenProperties
<1>3. PICK p1 \in Seq(Nat) : p1 = <<e.source, 0, 0, 0>> /\ Len(p1) = 4 /\ p1[1] = e.source
  <2>1. /\ <<e.source, 0, 0, 0>> \in Seq(Nat) /\ Len(<<e.source, 0, 0, 0>>) = 4
        /\ <<e.source, 0, 0, 0>>[1] = e.source
    BY <1>1
  <2> QED BY <2>1, Zenon
<1>4. PICK p2 \in Seq(Nat), p4 \in Seq(Nat), p8 \in Seq(Nat), p9 \in Seq(Nat) :
        /\ p2 = E!Num(n) /\ p4 = E!Num(k) /\ p8 = E!Num(e.locationLine) /\ p9 = E!Num(e.locationColumn)
        /\ Len(p2) = 4 /\ Len(p4) = 4 /\ Len(p8) = 4 /\ Len(p9) = 4
  <2>1. /\ E!Num(n) \in Seq(Nat) /\ Len(E!Num(n)) = 4 /\ E!Num(k) \in Seq(Nat) /\ Len(E!Num(k)) = 4
    BY NumIs
  <2>2. /\ E!Num(e.locationLine) \in Seq(Nat) /\ Len(E!Num(e.locationLine)) = 4
        /\ E!Num(e.locationColumn) \in Seq(Nat) /\ Len(E!Num(e.locationColumn)) = 4
    BY <1>1, NumIs
  <2> QED BY <2>1, <2>2, Zenon
<1>5. PICK p3 \in Seq(Nat) :
        /\ p3 = E!FlattenSeq([i \in DOMAIN e.values |-> E!Float(e.values[i])]) /\ Len(p3) = 8 * Len(e.values)
        /\ \A b \in Seq(Nat), o \in Nat : Carries(b, o, p3) =>
             \A i \in 1..Len(e.values) : b[o + 8 * i] = e.values[i]
  BY <1>1, FloatsIs
<1>6. PICK p5 \in Seq(Nat) :
        /\ p5 = E!FlattenSeq([i \in DOMAIN e.crumbs |-> E!FrameCrumb(e.crumbs[i])])
        /\ \A b \in Seq(Nat), o \in Nat : Carries(b, o, p4) /\ Carries(b, o + 4, p5) =>
             E!DecodeCrumbs(b, o) = [after |-> o + 4 + Len(p5), crumbs |-> e.crumbs]
  <2>1. \E f \in Seq(Nat) :
          /\ f = E!FlattenSeq([i \in DOMAIN e.crumbs |-> E!FrameCrumb(e.crumbs[i])])
          /\ \A b \in Seq(Nat), o \in Nat :
               Carries(b, o, E!Num(Len(e.crumbs))) /\ Carries(b, o + 4, f) =>
                 E!DecodeCrumbs(b, o) = [after |-> o + 4 + Len(f), crumbs |-> e.crumbs]
    BY <1>1, CrumbsRead
  <2> QED BY <1>2, <1>4, <2>1, Zenon
<1>7. PICK p6 \in Seq(Nat), p7 \in Seq(Nat) : p6 = E!Text(e.message) /\ p7 = E!Text(e.locationFile)
  BY <1>1, TextIs
<1>8. PICK x \in Seq(Nat) : x = p1 \o p2 \o p3 /\ Len(x) = 8 + 8 * n
  <2>1. p1 \o p2 \o p3 \in Seq(Nat) /\ Len(p1 \o p2 \o p3) = Len(p1) + Len(p2) + Len(p3)
    BY ThreeJoined
  <2>2. Len(p1) + Len(p2) + Len(p3) = 8 + 8 * n
    <3>1. Len(p1) = 4 /\ Len(p2) = 4 /\ Len(p3) = 8 * n
      BY <1>2, <1>3, <1>4, <1>5
    <3>2. 4 + 4 + 8 * n = 8 + 8 * n
      OBVIOUS
    <3> QED BY <3>1, <3>2
  <2> QED BY <2>1, <2>2
<1>9. PICK y \in Seq(Nat) : y = x \o p4 \o p5 /\ Len(y) = 8 + 8 * n + 4 + Len(p5)
  <2>1. x \o p4 \o p5 \in Seq(Nat) /\ Len(x \o p4 \o p5) = Len(x) + Len(p4) + Len(p5)
    BY ThreeJoined
  <2>2. Len(x) + Len(p4) + Len(p5) = 8 + 8 * n + 4 + Len(p5)
    BY <1>4, <1>8
  <2> QED BY <2>1, <2>2
<1>10. PICK z \in Seq(Nat) : z = y \o p6 \o p7 /\ Len(z) = Len(y) + Len(p6) + Len(p7)
  <2>1. y \o p6 \o p7 \in Seq(Nat) /\ Len(y \o p6 \o p7) = Len(y) + Len(p6) + Len(p7)
    BY ThreeJoined
  <2> QED BY <2>1
<1>11. PICK b \in Seq(Nat) : b = E!SerializeDebug(e) /\ b = z \o p8 \o p9
  <2>1. z \o p8 \o p9 \in Seq(Nat)
    BY ThreeJoined
  <2>2. E!Clamped(e.locationLine) = p8 /\ E!Clamped(e.locationColumn) = p9
    BY <1>1, <1>4, ClampedIs
  <2>3. E!SerializeDebug(e) = z \o p8 \o p9
    BY <1>2, <1>3, <1>4, <1>5, <1>6, <1>7, <1>8, <1>9, <1>10, <2>2, Zenon DEF E!SerializeDebug
  <2> QED BY <2>1, <2>3, Zenon
<1>12. PICK message \in Nat, file \in Nat, line \in Nat :
         /\ message = 8 + 8 * n + 4 + Len(p5) /\ message = Len(y)
         /\ file = message + Len(p6) /\ line = file + Len(p7) /\ line = Len(z)
  <2>1. PICK l5 \in Nat, l6 \in Nat, l7 \in Nat : l5 = Len(p5) /\ l6 = Len(p6) /\ l7 = Len(p7)
    BY LenProperties
  <2>2. 8 + 8 * n + 4 + l5 \in Nat /\ 8 + 8 * n + 4 + l5 + l6 \in Nat /\ 8 + 8 * n + 4 + l5 + l6 + l7 \in Nat
    OBVIOUS
  <2> QED BY <1>9, <1>10, <2>1, <2>2, Zenon
<1>13. /\ Carries(b, 0, z) /\ Carries(b, line, p8) /\ Carries(b, line + 4, p9)
  <2>1. Carries(b, 0, z) /\ Carries(b, 0 + Len(z), p8) /\ Carries(b, 0 + Len(z) + Len(p8), p9)
    <3>1. Carries(b, 0, z \o p8 \o p9)
      BY <1>11, CarriesItself
    <3>2. 0 \in Nat
      OBVIOUS
    <3> HIDE DEF Carries
    <3> QED BY <3>1, <3>2, ThreeParts
  <2>2. 0 + line = line
    OBVIOUS
  <2> QED BY <1>4, <1>12, <2>1, <2>2
<1>14. Carries(b, 0, y) /\ Carries(b, message, p6) /\ Carries(b, file, p7)
  <2>1. Carries(b, 0, y) /\ Carries(b, 0 + Len(y), p6) /\ Carries(b, 0 + Len(y) + Len(p6), p7)
    BY <1>10, <1>13, ThreeParts
  <2>2. 0 + message = message
    OBVIOUS
  <2> QED BY <1>12, <2>1, <2>2
<1>15. PICK at \in Nat : /\ at = 8 + 8 * n /\ Carries(b, 0, x) /\ Carries(b, at, p4) /\ Carries(b, at + 4, p5)
  <2>1. Carries(b, 0, x) /\ Carries(b, 0 + Len(x), p4) /\ Carries(b, 0 + Len(x) + Len(p4), p5)
    BY <1>9, <1>14, ThreeParts
  <2>2. PICK at \in Nat : at = 8 + 8 * n
    OBVIOUS
  <2>3. 0 + at = at
    OBVIOUS
  <2> QED BY <1>4, <1>8, <2>1, <2>2, <2>3
<1>16. Carries(b, 0, p1) /\ Carries(b, 4, p2) /\ Carries(b, 8, p3)
  <2>1. Carries(b, 0, p1) /\ Carries(b, 0 + Len(p1), p2) /\ Carries(b, 0 + Len(p1) + Len(p2), p3)
    BY <1>8, <1>15, ThreeParts
  <2>2. 0 + Len(p1) = 4 /\ 0 + Len(p1) + Len(p2) = 8
    BY <1>3, <1>4
  <2> QED BY <2>1, <2>2
<1>17. b[1] = e.source
  <2>1. b[0 + 1] = p1[1]
    <3>1. \A i \in 1..Len(p1) : b[0 + i] = p1[i]
      BY <1>16 DEF Carries
    <3>2. 1 \in 1..Len(p1)
      BY <1>3
    <3> QED BY <3>1, <3>2, Zenon
  <2> QED BY <1>3, <2>1
<1>18. E!NumAt(b, 4) = n /\ 4 + 4 <= Len(b)
  BY <1>4, <1>16, CarriesNum
<1>19. [i \in 1..n |-> b[8 + 8 * i]] = e.values
  <2>1. e.values = [i \in 1..n |-> e.values[i]]
    BY <1>1, <1>2, LenProperties
  <2>2. \A i \in 1..n : b[8 + 8 * i] = e.values[i]
    <3>1. 8 \in Nat
      OBVIOUS
    <3>2. \A i \in 1..Len(e.values) : b[8 + 8 * i] = e.values[i]
      BY <1>5, <1>16, <3>1, Zenon
    <3> QED BY <1>2, <3>2
  <2> QED BY <2>1, <2>2, Zenon
<1>20. E!HasNum(b, at) /\ at + 4 <= Len(b)
  BY <1>4, <1>15, CarriesNum
<1>21. PICK read : /\ read = E!DecodeCrumbs(b, at) /\ read.after = message /\ read.crumbs = e.crumbs
  <2>1. PICK read : read = E!DecodeCrumbs(b, at)
    OBVIOUS
  <2>2. read = [after |-> at + 4 + Len(p5), crumbs |-> e.crumbs]
    BY <1>6, <1>15, <2>1, Zenon
  <2>3. read.after = at + 4 + Len(p5) /\ read.crumbs = e.crumbs
    BY <2>2
  <2> QED BY <1>12, <1>15, <2>1, <2>3, Zenon
<1>22. E!HasText(b, message) /\ E!TextAt(b, message) = e.message /\ E!AfterText(b, message) = file
  <2>1. /\ E!HasText(b, message) /\ E!TextAt(b, message) = e.message
        /\ E!AfterText(b, message) = message + Len(E!Text(e.message))
    BY <1>1, <1>7, <1>14, CarriesText
  <2> QED BY <1>7, <1>12, <2>1
<1>23. E!HasText(b, file) /\ E!TextAt(b, file) = e.locationFile /\ E!AfterText(b, file) = line
  <2>1. /\ E!HasText(b, file) /\ E!TextAt(b, file) = e.locationFile
        /\ E!AfterText(b, file) = file + Len(E!Text(e.locationFile))
    BY <1>1, <1>7, <1>14, CarriesText
  <2> QED BY <1>7, <1>12, <2>1
<1>24. E!NumAt(b, line) = e.locationLine /\ E!NumAt(b, line + 4) = e.locationColumn /\ line + 4 + 4 <= Len(b)
  <2>1. line + 4 \in Nat
    OBVIOUS
  <2> QED BY <1>1, <1>4, <1>13, <2>1, CarriesNum
<1>25. ~ (Len(b) < 8) /\ ~ (at > Len(b)) /\ ~ (message < 0) /\ ~ (line + 8 > Len(b))
  <2>1. PICK l \in Nat : l = Len(b)
    BY LenProperties
  <2>2. 4 + 4 <= l /\ at + 4 <= l /\ line + 4 + 4 <= l
    BY <1>18, <1>20, <1>24, <2>1
  <2>3. ~ (l < 8) /\ ~ (at > l) /\ ~ (message < 0) /\ ~ (line + 8 > l)
    BY <2>2
  <2> QED BY <2>1, <2>3
<1>26. E!DecodeDebugEvent(b)
         = [kind |-> "debug", source |-> b[1],
            values |-> [i \in 1..n |-> b[8 + 8 * i]], crumbs |-> e.crumbs,
            message |-> e.message, locationFile |-> e.locationFile,
            locationLine |-> e.locationLine, locationColumn |-> e.locationColumn]
  <2>1. b[1] \in {1, 2}
    BY <1>1, <1>17
  <2> QED BY <1>15, <1>18, <1>20, <1>21, <1>22, <1>23, <1>24, <1>25, <2>1, Zenon DEF E!DecodeDebugEvent
<1>27. e = [kind |-> "debug", source |-> e.source, values |-> e.values, crumbs |-> e.crumbs,
            message |-> e.message, locationFile |-> e.locationFile,
            locationLine |-> e.locationLine, locationColumn |-> e.locationColumn]
  BY DEF E!DebugEvents
<1> QED BY <1>11, <1>17, <1>19, <1>26, <1>27, Zenon

\* How the writers and the readers are chosen by the kind.
LEMMA ByKind ==
  ASSUME NEW e, NEW b
  PROVE  /\ e.kind = "nodeFound" =>
              E!Serialize(e) = E!SerializeNodeFound(e) /\ E!Decode("nodeFound", b) = E!DecodeNodeFoundEvent(b)
         /\ e.kind \in E!NodeKinds =>
              E!Serialize(e) = E!SerializeNode(e) /\ E!Decode(e.kind, b) = E!DecodeNodeEvent(e.kind, b)
         /\ e.kind \in E!HookKinds =>
              E!Serialize(e) = E!SerializeCallback(e) /\ E!Decode(e.kind, b) = E!DecodeCallbackEvent(e.kind, b)
         /\ e.kind = "nodeFail" =>
              E!Serialize(e) = E!SerializeNodeFail(e) /\ E!Decode("nodeFail", b) = E!DecodeNodeFailureEvent(b)
         /\ e.kind = "callbackFail" =>
              E!Serialize(e) = E!SerializeCallbackFail(e) /\ E!Decode("callbackFail", b) = E!DecodeCallbackFailureEvent(b)
         /\ e.kind = "failMessage" =>
              E!Serialize(e) = e.message /\ E!Decode("failMessage", b) = [kind |-> "failMessage", message |-> b]
         /\ e.kind = "diagnostic" =>
              E!Serialize(e) = E!SerializeDiagnostic(e) /\ E!Decode("diagnostic", b) = E!DecodeDiagnosticEvent(b)
         /\ e.kind = "log" =>
              E!Serialize(e) = E!EncodeLog(e) /\ E!Decode("log", b) = E!DecodeLogEvent(b)
         /\ e.kind = "debug" =>
              E!Serialize(e) = E!SerializeDebug(e) /\ E!Decode("debug", b) = E!DecodeDebugEvent(b)
<1>1. ASSUME e.kind = "nodeFound"
      PROVE  E!Serialize(e) = E!SerializeNodeFound(e) /\ E!Decode("nodeFound", b) = E!DecodeNodeFoundEvent(b)
  BY <1>1 DEF E!Serialize, E!Decode, E!NodeKinds, E!HookKinds
<1>2. ASSUME e.kind \in E!NodeKinds
      PROVE  E!Serialize(e) = E!SerializeNode(e) /\ E!Decode(e.kind, b) = E!DecodeNodeEvent(e.kind, b)
  BY <1>2 DEF E!Serialize, E!Decode, E!NodeKinds, E!HookKinds
<1>3. ASSUME e.kind \in E!HookKinds
      PROVE  E!Serialize(e) = E!SerializeCallback(e) /\ E!Decode(e.kind, b) = E!DecodeCallbackEvent(e.kind, b)
  BY <1>3 DEF E!Serialize, E!Decode, E!NodeKinds, E!HookKinds
<1>4. ASSUME e.kind = "nodeFail"
      PROVE  E!Serialize(e) = E!SerializeNodeFail(e) /\ E!Decode("nodeFail", b) = E!DecodeNodeFailureEvent(b)
  BY <1>4 DEF E!Serialize, E!Decode, E!NodeKinds, E!HookKinds
<1>5. ASSUME e.kind = "callbackFail"
      PROVE  E!Serialize(e) = E!SerializeCallbackFail(e) /\ E!Decode("callbackFail", b) = E!DecodeCallbackFailureEvent(b)
  BY <1>5 DEF E!Serialize, E!Decode, E!NodeKinds, E!HookKinds
<1>6. ASSUME e.kind = "failMessage"
      PROVE  E!Serialize(e) = e.message /\ E!Decode("failMessage", b) = [kind |-> "failMessage", message |-> b]
  BY <1>6 DEF E!Serialize, E!Decode, E!NodeKinds, E!HookKinds
<1>7. ASSUME e.kind = "diagnostic"
      PROVE  E!Serialize(e) = E!SerializeDiagnostic(e) /\ E!Decode("diagnostic", b) = E!DecodeDiagnosticEvent(b)
  BY <1>7 DEF E!Serialize, E!Decode, E!NodeKinds, E!HookKinds
<1>8. ASSUME e.kind = "log"
      PROVE  E!Serialize(e) = E!EncodeLog(e) /\ E!Decode("log", b) = E!DecodeLogEvent(b)
  BY <1>8 DEF E!Serialize, E!Decode, E!NodeKinds, E!HookKinds
<1>9. ASSUME e.kind = "debug"
      PROVE  E!Serialize(e) = E!SerializeDebug(e) /\ E!Decode("debug", b) = E!DecodeDebugEvent(b)
  BY <1>9 DEF E!Serialize, E!Decode, E!NodeKinds, E!HookKinds
<1> QED BY <1>1, <1>2, <1>3, <1>4, <1>5, <1>6, <1>7, <1>8, <1>9, Zenon

\* What a guest writes of an event without a hook or a failure, and what the
\* native hosts write of a trace, is what the readers of all three hosts give
\* back: the event, with every field.  Of a hook or a failure they give back the
\* event or nothing.  (events.ts; decodeEvent; docs/003)
THEOREM EventsReadBack ==
  /\ \A e \in E!PlainEvents \cup LogEvents :
       E!Decode(e.kind, E!Serialize(e)) = e /\ E!WazeroDecode(e.kind, E!Serialize(e)) = e
  /\ \A e \in E!HeadedEvents :
       /\ E!Decode(e.kind, E!Serialize(e)) \in {e, E!Null}
       /\ E!WazeroDecode(e.kind, E!Serialize(e)) \in {e, E!Null}
<1>1. ASSUME NEW e, e.kind \notin E!NodeKinds
      PROVE  E!WazeroDecode(e.kind, E!Serialize(e)) = E!Decode(e.kind, E!Serialize(e))
  BY <1>1, Zenon DEF E!WazeroDecode
<1>2. ASSUME NEW e \in E!NodeEvents
      PROVE  E!Decode(e.kind, E!Serialize(e)) = e /\ E!WazeroDecode(e.kind, E!Serialize(e)) = e
  <2>1. e.kind \in E!NodeKinds
    BY DEF E!NodeEvents
  <2>2. E!Serialize(e) = E!SerializeNode(e) /\ E!HasNum(E!Serialize(e), E!AfterNums(E!Serialize(e), 0))
    BY <2>1, ByKind, NodeReads
  <2>3. E!Decode(e.kind, E!Serialize(e)) = e
    BY <2>1, <2>2, ByKind, NodeReads
  <2> QED BY <2>2, <2>3, Zenon DEF E!WazeroDecode
<1>3. ASSUME NEW e \in E!NodeFoundEvents
      PROVE  e.kind \notin E!NodeKinds /\ E!Decode(e.kind, E!Serialize(e)) = e
  <2>1. e.kind = "nodeFound" /\ e.kind \notin E!NodeKinds
    BY DEF E!NodeFoundEvents, E!NodeKinds
  <2> QED BY <2>1, ByKind, NodeFoundReads
<1>4. ASSUME NEW e \in E!FailMessages
      PROVE  e.kind \notin E!NodeKinds /\ E!Decode(e.kind, E!Serialize(e)) = e
  <2>1. e.kind = "failMessage" /\ e.kind \notin E!NodeKinds /\ e = [kind |-> "failMessage", message |-> e.message]
    BY DEF E!FailMessages, E!NodeKinds
  <2> QED BY <2>1, ByKind
<1>5. ASSUME NEW e \in E!Diagnostics
      PROVE  e.kind \notin E!NodeKinds /\ E!Decode(e.kind, E!Serialize(e)) = e
  <2>1. e.kind = "diagnostic" /\ e.kind \notin E!NodeKinds
    BY DEF E!Diagnostics, E!NodeKinds
  <2> QED BY <2>1, ByKind, DiagnosticReads
<1>6. ASSUME NEW e \in E!DebugEvents
      PROVE  e.kind \notin E!NodeKinds /\ E!Decode(e.kind, E!Serialize(e)) = e
  <2>1. e.kind = "debug" /\ e.kind \notin E!NodeKinds
    BY DEF E!DebugEvents, E!NodeKinds
  <2> QED BY <2>1, ByKind, DebugReads
<1>7. ASSUME NEW e \in LogEvents
      PROVE  e.kind \notin E!NodeKinds /\ E!Decode(e.kind, E!Serialize(e)) = e
  <2>1. e.kind = "log" /\ e.kind \notin E!NodeKinds
    BY DEF LogEvents, E!NodeKinds
  <2> QED BY <2>1, ByKind, LogReads
<1>8. ASSUME NEW e \in E!HeadedEvents
      PROVE  e.kind \notin E!NodeKinds /\ E!Decode(e.kind, E!Serialize(e)) \in {e, E!Null}
  <2>1. Len(e.nodeIndex) <= e.nodeId
    BY DEF E!HeadedEvents
  <2>2. CASE e \in E!CallbackEvents
    <3>1. e.kind \in E!HookKinds /\ e.kind \notin E!NodeKinds
      BY <2>2 DEF E!CallbackEvents, E!HookKinds, E!NodeKinds
    <3> QED BY <2>1, <2>2, <3>1, ByKind, CallbackReads
  <2>3. CASE e \in E!NodeFailures
    <3>1. e.kind = "nodeFail" /\ e.kind \notin E!NodeKinds
      BY <2>3 DEF E!NodeFailures, E!NodeKinds
    <3> QED BY <2>1, <2>3, <3>1, ByKind, NodeFailureReads
  <2>4. CASE e \in E!CallbackFailures
    <3>1. e.kind = "callbackFail" /\ e.kind \notin E!NodeKinds
      BY <2>4 DEF E!CallbackFailures, E!NodeKinds
    <3> QED BY <2>1, <2>4, <3>1, ByKind, CallbackFailureReads
  <2> QED BY <2>2, <2>3, <2>4 DEF E!HeadedEvents
<1>9. ASSUME NEW e \in E!PlainEvents \cup LogEvents
      PROVE  E!Decode(e.kind, E!Serialize(e)) = e /\ E!WazeroDecode(e.kind, E!Serialize(e)) = e
  <2>1. \/ e \in E!NodeEvents \/ e \in E!NodeFoundEvents \/ e \in E!FailMessages
        \/ e \in E!Diagnostics \/ e \in E!DebugEvents \/ e \in LogEvents
    BY DEF E!PlainEvents
  <2> QED BY <1>1, <1>2, <1>3, <1>4, <1>5, <1>6, <1>7, <2>1, Zenon
<1>10. ASSUME NEW e \in E!HeadedEvents
       PROVE  /\ E!Decode(e.kind, E!Serialize(e)) \in {e, E!Null}
              /\ E!WazeroDecode(e.kind, E!Serialize(e)) \in {e, E!Null}
  BY <1>1, <1>8, <1>10, Zenon
<1> QED BY <1>9, <1>10

\* Everything a guest or a native host writes in a call.
WrittenEvents == E!PlainEvents \cup LogEvents \cup E!HeadedEvents

LEMMA KindsOfWritten ==
  ASSUME NEW e \in WrittenEvents
  PROVE  /\ e.kind \in PlainKinds <=> e \in E!PlainEvents \cup LogEvents
         /\ e.kind \in PlainKinds \/ e \in E!HeadedEvents
         /\ e # E!Null
<1>1. ASSUME e \in E!PlainEvents \cup LogEvents PROVE e.kind \in PlainKinds /\ e # E!Null
  BY <1>1 DEF E!PlainEvents, E!NodeFoundEvents, E!NodeEvents, E!NodeKinds, E!FailMessages, E!Diagnostics,
              E!DebugEvents, LogEvents, PlainKinds, E!Null
<1>2. ASSUME e \in E!HeadedEvents PROVE e.kind \notin PlainKinds /\ e # E!Null
  BY <1>2 DEF E!HeadedEvents, E!CallbackEvents, E!HookKinds, E!NodeFailures, E!CallbackFailures,
              PlainKinds, E!Null
<1> QED BY <1>1, <1>2 DEF WrittenEvents

\* What a payload does to what the callbacks were given.
LEMMA DispatchIs ==
  ASSUME NEW given \in Seq(WrittenEvents), NEW e \in WrittenEvents
  PROVE  LET d == E!Dispatched(given, e.kind, E!Serialize(e))
         IN  /\ d = given \/ d = Append(given, e)
             /\ e.kind \in PlainKinds => d = IF e.kind \in callbacks THEN Append(given, e) ELSE given
             /\ e.kind \notin callbacks => d = given
<1>1. PICK r : r = IF binding = "wazero" THEN E!WazeroDecode(e.kind, E!Serialize(e))
                   ELSE E!Decode(e.kind, E!Serialize(e))
  OBVIOUS
<1>2. r \in {e, E!Null} /\ (e.kind \in PlainKinds => r = e) /\ e # E!Null
  BY <1>1, KindsOfWritten, EventsReadBack
<1>3. E!Dispatched(given, e.kind, E!Serialize(e))
        = IF e.kind \in callbacks /\ r # E!Null THEN Append(given, r) ELSE given
  BY <1>1, Zenon DEF E!Dispatched
<1> QED BY <1>2, <1>3

LEMMA FlattenAppend ==
  ASSUME NEW S, NEW q \in Seq(Seq(S)), NEW c \in Seq(S)
  PROVE  /\ FlattenSeq(q) \in Seq(S)
         /\ FlattenSeq(Append(q, c)) = FlattenSeq(q) \o c
<1>1. PICK p \in Seq(Seq(S)) :
        /\ p = Append(q, c) /\ Len(p) = Len(q) + 1 /\ p[Len(q) + 1] = c
        /\ \A i \in 1..Len(q) : p[i] = q[i]
  <2>1. Append(q, c) \in Seq(Seq(S)) /\ Len(Append(q, c)) = Len(q) + 1 /\ Append(q, c)[Len(q) + 1] = c
    BY AppendProperties
  <2>2. \A i \in 1..Len(q) : Append(q, c)[i] = q[i]
    BY AppendProperties
  <2> QED BY <2>1, <2>2, Zenon
<1>2. PICK n \in Nat : n = Len(q)
  BY LenProperties
<1>3. PICK g \in [0..n -> Seq(S)] :
        g[0] = <<>> /\ (\A i \in 1..n : g[i] = g[i - 1] \o q[i]) /\ FlattenSeq(q) = g[n]
  BY <1>2, FlattenSteps
<1>4. PICK h \in [0..(n + 1) -> Seq(S)] :
        h[0] = <<>> /\ (\A i \in 1..(n + 1) : h[i] = h[i - 1] \o p[i]) /\ FlattenSeq(p) = h[n + 1]
  <2>1. \E h \in [0..Len(p) -> Seq(S)] :
          h[0] = <<>> /\ (\A i \in 1..Len(p) : h[i] = h[i - 1] \o p[i]) /\ FlattenSeq(p) = h[Len(p)]
    BY FlattenSteps
  <2>2. Len(p) = n + 1
    BY <1>1, <1>2
  <2> QED BY <2>1, <2>2
<1> DEFINE Good == {i \in 0..n : g[i] = h[i]}
<1>5. 0 \in Good
  BY <1>3, <1>4
<1>6. ASSUME NEW i \in 0..n, i < n, i \in Good PROVE i + 1 \in Good
  <2>1. PICK j \in 1..n : j = i + 1 /\ j - 1 = i /\ j \in 0..n /\ j \in 1..(n + 1)
    BY <1>6
  <2>2. g[j] = g[i] \o q[j] /\ h[j] = h[i] \o p[j] /\ p[j] = q[j]
    BY <1>1, <1>2, <1>3, <1>4, <2>1
  <2> QED BY <1>6, <2>1, <2>2
<1>7. \A i \in 0..n : i \in Good
  <2> HIDE DEF Good
  <2> QED BY <1>5, <1>6, UpTo
<1>8. h[n] = g[n] /\ g[n] \in Seq(S)
  <2>1. n \in 0..n
    OBVIOUS
  <2> QED BY <1>7, <2>1
<1>9. h[n + 1] = h[n] \o p[n + 1]
  <2>1. n + 1 \in 1..(n + 1) /\ (n + 1) - 1 = n
    OBVIOUS
  <2>2. h[n + 1] = h[(n + 1) - 1] \o p[n + 1]
    BY <1>4, <2>1
  <2> QED BY <2>1, <2>2
<1> QED BY <1>1, <1>2, <1>3, <1>4, <1>8, <1>9

LEMMA ThoseOfNone == ASSUME NEW K PROVE Those(<<>>, K) = <<>>
<1>1. [i \in DOMAIN <<>> |-> IF <<>>[i].kind \in K THEN << <<>>[i] >> ELSE <<>>] = <<>>
  OBVIOUS
<1>2. FlattenSeq(<<>>) = <<>>
  BY DEF FlattenSeq
<1> QED BY <1>1, <1>2 DEF Those

LEMMA ThoseOfAppend ==
  ASSUME NEW S, NEW s \in Seq(S), NEW e \in S, NEW K
  PROVE  /\ Those(s, K) \in Seq(S)
         /\ Those(Append(s, e), K) = IF e.kind \in K THEN Append(Those(s, K), e) ELSE Those(s, K)
<1> DEFINE One(x) == IF x.kind \in K THEN <<x>> ELSE <<>>
           Q(t) == [i \in DOMAIN t |-> One(t[i])]
<1>1. Those(s, K) = FlattenSeq(Q(s)) /\ Those(Append(s, e), K) = FlattenSeq(Q(Append(s, e)))
  BY DEF Those
<1>2. \A x \in S : One(x) \in Seq(S)
  OBVIOUS
<1>3. PICK c \in Seq(S) : c = One(e)
  BY <1>2
<1>4. PICK n \in Nat : n = Len(s) /\ DOMAIN s = 1..n
  BY LenProperties
<1>5. PICK q \in Seq(Seq(S)) : q = Q(s) /\ Len(q) = n /\ \A i \in 1..n : q[i] = One(s[i])
  <2>1. \A i \in 1..n : One(s[i]) \in Seq(S)
    <3> HIDE DEF One
    <3>1. \A i \in 1..n : s[i] \in S
      BY <1>4, ElementOfSeq
    <3> QED BY <1>2, <3>1
  <2>2. Q(s) = [i \in 1..n |-> One(s[i])]
    BY <1>4
  <2>3. PICK q : q = [i \in 1..n |-> One(s[i])]
    OBVIOUS
  <2>4. q \in Seq(Seq(S)) /\ Len(q) = n /\ \A i \in 1..n : q[i] = One(s[i])
    <3> HIDE DEF One
    <3> QED BY <2>1, <2>3
  <2> HIDE DEF One, Q
  <2> QED BY <2>2, <2>3, <2>4
<1>6. PICK t \in Seq(S) : /\ t = Append(s, e) /\ DOMAIN t = 1..(n + 1) /\ t[n + 1] = e
                          /\ \A i \in 1..n : t[i] = s[i]
  <2>1. PICK t \in Seq(S) : /\ t = Append(s, e) /\ Len(t) = Len(s) + 1 /\ t[Len(s) + 1] = e
                            /\ \A i \in 1..Len(s) : t[i] = s[i]
    <3>1. Append(s, e) \in Seq(S) /\ Len(Append(s, e)) = Len(s) + 1 /\ Append(s, e)[Len(s) + 1] = e
      BY AppendProperties
    <3>2. \A i \in 1..Len(s) : Append(s, e)[i] = s[i]
      BY AppendProperties
    <3> QED BY <3>1, <3>2, Zenon
  <2>2. DOMAIN t = 1..(n + 1)
    BY <1>4, <2>1, LenProperties
  <2> QED BY <1>4, <2>1, <2>2
<1>7. Q(t) = Append(q, c)
  <2>1. PICK p \in Seq(Seq(S)) : /\ p = Append(q, c) /\ Len(p) = n + 1 /\ p[n + 1] = c
                                 /\ \A i \in 1..n : p[i] = q[i]
    <3>1. PICK p \in Seq(Seq(S)) : /\ p = Append(q, c) /\ Len(p) = Len(q) + 1 /\ p[Len(q) + 1] = c
                                   /\ \A i \in 1..Len(q) : p[i] = q[i]
      <4>1. Append(q, c) \in Seq(Seq(S)) /\ Len(Append(q, c)) = Len(q) + 1 /\ Append(q, c)[Len(q) + 1] = c
        BY AppendProperties
      <4>2. \A i \in 1..Len(q) : Append(q, c)[i] = q[i]
        BY AppendProperties
      <4> QED BY <4>1, <4>2, Zenon
    <3> HIDE DEF Q
    <3> QED BY <1>5, <3>1
  <2>2. p = [i \in 1..(n + 1) |-> p[i]]
    BY <2>1, LenProperties
  <2>3. ASSUME NEW i \in 1..(n + 1) PROVE p[i] = One(t[i])
    <3> HIDE DEF One
    <3>1. CASE i = n + 1
      BY <1>3, <1>6, <2>1, <3>1
    <3>2. CASE i # n + 1
      <4>1. i \in 1..n
        BY <3>2
      <4> QED BY <1>5, <1>6, <2>1, <4>1
    <3> QED BY <3>1, <3>2
  <2> HIDE DEF One
  <2>4. Q(t) = p
    BY <1>6, <2>2, <2>3
  <2> QED BY <2>1, <2>4
<1>8. FlattenSeq(q) \in Seq(S) /\ FlattenSeq(Append(q, c)) = FlattenSeq(q) \o c
  BY FlattenAppend
<1>9. PICK f \in Seq(S) : f = FlattenSeq(q) /\ f = Those(s, K) /\ Those(Append(s, e), K) = f \o c
  <2> HIDE DEF Q
  <2> QED BY <1>1, <1>5, <1>6, <1>7, <1>8
<1>10. f \o <<e>> = Append(f, e) /\ f \o <<>> = f
  BY AppendIsConcat, ConcatEmptySeq
<1> QED BY <1>3, <1>9, <1>10

\* Of what was written to the callbacks, all of the plain kinds they listen to and
\* nothing else has come through: s is seen and w emitted.
Contained(s, w) == \A i \in DOMAIN s : \E k \in DOMAIN w : w[k] = s[i]
Agreed(s, w) ==
  /\ Those(s, PlainKinds) = Those(Those(w, callbacks), PlainKinds)
  /\ Contained(s, w)

LEMMA ContainedIs ==
  ASSUME NEW s \in Seq(WrittenEvents), NEW w \in Seq(WrittenEvents), NEW e \in WrittenEvents, Contained(s, w)
  PROVE  Contained(s, Append(w, e)) /\ Contained(Append(s, e), Append(w, e))
<1>1. PICK t \in Seq(WrittenEvents) : /\ t = Append(s, e) /\ Len(t) = Len(s) + 1 /\ t[Len(s) + 1] = e
                                /\ \A i \in 1..Len(s) : t[i] = s[i]
  <2>1. Append(s, e) \in Seq(WrittenEvents) /\ Len(Append(s, e)) = Len(s) + 1 /\ Append(s, e)[Len(s) + 1] = e
    BY AppendProperties
  <2>2. \A i \in 1..Len(s) : Append(s, e)[i] = s[i]
    BY AppendProperties
  <2> QED BY <2>1, <2>2, Zenon
<1>2. PICK v \in Seq(WrittenEvents) : /\ v = Append(w, e) /\ Len(v) = Len(w) + 1 /\ v[Len(w) + 1] = e
                                /\ \A i \in 1..Len(w) : v[i] = w[i]
  <2>1. Append(w, e) \in Seq(WrittenEvents) /\ Len(Append(w, e)) = Len(w) + 1 /\ Append(w, e)[Len(w) + 1] = e
    BY AppendProperties
  <2>2. \A i \in 1..Len(w) : Append(w, e)[i] = w[i]
    BY AppendProperties
  <2> QED BY <2>1, <2>2, Zenon
<1>3. PICK m \in Nat, n \in Nat : m = Len(s) /\ n = Len(w)
  BY LenProperties
<1>4. DOMAIN s = 1..m /\ DOMAIN w = 1..n /\ DOMAIN t = 1..(m + 1) /\ DOMAIN v = 1..(n + 1)
  BY <1>1, <1>2, <1>3, LenProperties
<1>5. ASSUME NEW i \in 1..m PROVE \E k \in 1..(n + 1) : v[k] = s[i]
  <2>1. PICK k \in 1..n : w[k] = s[i]
    BY <1>4 DEF Contained
  <2>2. k \in 1..(n + 1) /\ v[k] = w[k]
    BY <1>2, <1>3
  <2> QED BY <2>1, <2>2
<1>6. ASSUME NEW i \in 1..(m + 1) PROVE \E k \in 1..(n + 1) : v[k] = t[i]
  <2>1. CASE i = m + 1
    <3>1. n + 1 \in 1..(n + 1) /\ v[n + 1] = t[i]
      BY <1>1, <1>2, <1>3, <2>1
    <3> QED BY <3>1
  <2>2. CASE i # m + 1
    <3>1. i \in 1..m /\ t[i] = s[i]
      BY <1>1, <1>3, <2>2
    <3> QED BY <1>5, <3>1
  <2> QED BY <2>1, <2>2
<1> QED BY <1>1, <1>2, <1>4, <1>5, <1>6, Zenon DEF Contained

LEMMA ThoseOfWritten ==
  \A s \in Seq(WrittenEvents), e \in WrittenEvents : \A K :
    Those(Append(s, e), K) = IF e.kind \in K THEN Append(Those(s, K), e) ELSE Those(s, K)
<1> TAKE s \in Seq(WrittenEvents), e \in WrittenEvents
<1> TAKE K
<1> QED BY ThoseOfAppend

LEMMA AgreedNext ==
  ASSUME NEW s \in Seq(WrittenEvents), NEW w \in Seq(WrittenEvents), NEW e \in WrittenEvents, Agreed(s, w),
         NEW d, d = s \/ d = Append(s, e), e.kind \notin callbacks => d = s,
         e.kind \in PlainKinds => d = IF e.kind \in callbacks THEN Append(s, e) ELSE s
  PROVE  d \in Seq(WrittenEvents) /\ Agreed(d, Append(w, e))
<1>1. d \in Seq(WrittenEvents) /\ Contained(d, Append(w, e))
  <2>1. Append(s, e) \in Seq(WrittenEvents)
    BY AppendProperties
  <2> QED BY <2>1, ContainedIs DEF Agreed
<1>2. PICK l \in Seq(WrittenEvents), m \in Seq(WrittenEvents) : l = Those(w, callbacks) /\ m = Those(l, PlainKinds) /\ m = Those(s, PlainKinds)
  BY ThoseOfAppend DEF Agreed
<1>3. PICK l2 \in Seq(WrittenEvents) : /\ l2 = Those(Append(w, e), callbacks)
                                 /\ l2 = IF e.kind \in callbacks THEN Append(l, e) ELSE l
  <2>1. Those(Append(w, e), callbacks) = IF e.kind \in callbacks THEN Append(l, e) ELSE l
    <3>1. Those(Append(w, e), callbacks) = IF e.kind \in callbacks THEN Append(Those(w, callbacks), e) ELSE Those(w, callbacks)
      BY ThoseOfWritten, Zenon
    <3> QED BY <1>2, <3>1, Zenon
  <2>2. Append(l, e) \in Seq(WrittenEvents)
    BY AppendProperties
  <2> QED BY <2>1, <2>2
<1>4. Those(Append(l, e), PlainKinds) = IF e.kind \in PlainKinds THEN Append(m, e) ELSE m
  <2>1. Those(Append(l, e), PlainKinds)
          = IF e.kind \in PlainKinds THEN Append(Those(l, PlainKinds), e) ELSE Those(l, PlainKinds)
    BY ThoseOfWritten, Zenon
  <2> QED BY <1>2, <2>1, Zenon
<1>5. Those(Append(s, e), PlainKinds) = IF e.kind \in PlainKinds THEN Append(m, e) ELSE m
  <2>1. Those(Append(s, e), PlainKinds)
          = IF e.kind \in PlainKinds THEN Append(Those(s, PlainKinds), e) ELSE Those(s, PlainKinds)
    BY ThoseOfWritten, Zenon
  <2> QED BY <1>2, <2>1, Zenon
<1>6. Those(d, PlainKinds) = Those(l2, PlainKinds)
  <2>1. CASE e.kind \in PlainKinds
    BY <1>2, <1>3, <1>4, <1>5, <2>1, Zenon
  <2>2. CASE e.kind \notin PlainKinds
    <3>1. Those(d, PlainKinds) = m
      BY <1>2, <1>5, <2>2, Zenon
    <3>2. Those(l2, PlainKinds) = m
      BY <1>2, <1>3, <1>4, <2>2, Zenon
    <3> QED BY <3>1, <3>2
  <2> QED BY <2>1, <2>2
<1> QED BY <1>1, <1>3, <1>6 DEF Agreed

LEMMA AgreedDispatch ==
  ASSUME NEW s \in Seq(WrittenEvents), NEW w \in Seq(WrittenEvents), NEW e \in WrittenEvents, Agreed(s, w)
  PROVE  LET d == E!Dispatched(s, e.kind, E!Serialize(e))
         IN  d \in Seq(WrittenEvents) /\ Agreed(d, Append(w, e))
<1>1. PICK d : d = E!Dispatched(s, e.kind, E!Serialize(e))
  OBVIOUS
<1>2. /\ d = s \/ d = Append(s, e)
      /\ e.kind \in PlainKinds => d = IF e.kind \in callbacks THEN Append(s, e) ELSE s
      /\ e.kind \notin callbacks => d = s
  BY <1>1, DispatchIs
<1>3. d \in Seq(WrittenEvents) /\ Agreed(d, Append(w, e))
  BY <1>2, AgreedNext
<1> QED BY <1>1, <1>3

LEMMA AgreedAtFirst == Agreed(<<>>, <<>>)
<1>1. DOMAIN <<>> = {}
  OBVIOUS
<1> QED BY <1>1, ThoseOfNone DEF Agreed, Contained

\* What the native host holds of a call that has written w.
HeldOf(w) == [i \in 1..Len(w) |-> [kind |-> w[i].kind, payload |-> E!Serialize(w[i])]]

\* All that is held is dispatched in its order.
LEMMA DeliveredIs ==
  ASSUME NEW w \in Seq(WrittenEvents), held = HeldOf(w), seen = <<>>
  PROVE  E!Delivered \in Seq(WrittenEvents) /\ Agreed(E!Delivered, w)
<1>1. PICK n \in Nat : n = Len(w) /\ n = Len(held) /\ \A i \in 1..n : w[i] \in WrittenEvents
  BY LenProperties, ElementOfSeq DEF HeldOf
<1>2. ASSUME NEW i \in 1..n PROVE held[i].kind = w[i].kind /\ held[i].payload = E!Serialize(w[i])
  BY <1>1 DEF HeldOf
<1> DEFINE Follows(r, i) == IF i = 0 THEN seen ELSE E!Dispatched(r[i - 1], held[i].kind, held[i].payload)
           Is(r) == r = [i \in 0..n |-> Follows(r, i)]
           given == CHOOSE r : Is(r)
           step == [x \in (1..n) \X Seq(WrittenEvents) |-> E!Dispatched(x[2], w[x[1]].kind, E!Serialize(w[x[1]]))]
<1>3. E!Delivered = given[n]
  BY <1>1 DEF E!Delivered
<1>4. step \in [(1..n) \X Seq(WrittenEvents) -> Seq(WrittenEvents)]
  <2>1. ASSUME NEW s \in Seq(WrittenEvents), NEW e \in WrittenEvents
        PROVE  E!Dispatched(s, e.kind, E!Serialize(e)) \in Seq(WrittenEvents)
    <3>1. Append(s, e) \in Seq(WrittenEvents)
      BY AppendProperties
    <3> QED BY <3>1, DispatchIs
  <2> QED BY <1>1, <2>1
<1>5. PICK h \in [0..n -> Seq(WrittenEvents)] : Steps(h, n, <<>>, step)
  <2>1. <<>> \in Seq(WrittenEvents)
    OBVIOUS
  <2> HIDE DEF step
  <2> QED BY <1>4, <2>1, StepsExist
<1>6. ASSUME NEW i \in 1..n
      PROVE  /\ i - 1 \in 0..n /\ h[i - 1] \in Seq(WrittenEvents) /\ w[i] \in WrittenEvents
             /\ h[i] = E!Dispatched(h[i - 1], w[i].kind, E!Serialize(w[i]))
  <2>1. i - 1 \in 0..n
    OBVIOUS
  <2>2. h[i - 1] \in Seq(WrittenEvents)
    BY <2>1
  <2>3. h[i] = step[<<i, h[i - 1]>>]
    <3> HIDE DEF step
    <3> QED BY <1>5 DEF Steps
  <2> QED BY <1>1, <2>1, <2>2, <2>3
<1>7. ASSUME NEW i \in 0..n PROVE h[i] = Follows(h, i)
  <2>1. CASE i = 0
    BY <1>5, <2>1 DEF Steps
  <2>2. CASE i # 0
    <3>1. i \in 1..n
      BY <2>2
    <3>2. h[i] = E!Dispatched(h[i - 1], w[i].kind, E!Serialize(w[i]))
      BY <1>6, <3>1
    <3>3. held[i].kind = w[i].kind /\ held[i].payload = E!Serialize(w[i])
      BY <1>2, <3>1
    <3> QED BY <2>2, <3>2, <3>3, Zenon
  <2> QED BY <2>1, <2>2
<1>8. Is(h)
  <2>1. h = [i \in 0..n |-> h[i]]
    OBVIOUS
  <2> HIDE DEF Follows
  <2>2. h = [i \in 0..n |-> Follows(h, i)]
    BY <1>7, <2>1, Zenon
  <2> QED BY <2>2
<1>9. Is(given)
  <2> HIDE DEF Is
  <2> QED BY <1>8
<1> HIDE DEF given, step
<1>10. ASSUME NEW i \in 0..n PROVE given[i] = Follows(given, i)
  <2> HIDE DEF Follows
  <2> QED BY <1>9
<1> DEFINE Good == {i \in 0..n : given[i] \in Seq(WrittenEvents) /\ Agreed(given[i], FirstOf(w, i))}
<1>11. 0 \in Good
  <2>1. 0 \in 0..n
    OBVIOUS
  <2>2. given[0] = <<>>
    BY <1>10, <2>1
  <2>3. FirstOf(w, 0) = <<>>
    BY DEF FirstOf
  <2>4. <<>> \in Seq(WrittenEvents)
    OBVIOUS
  <2>5. given[0] \in Seq(WrittenEvents) /\ Agreed(given[0], FirstOf(w, 0))
    BY <2>2, <2>3, <2>4, AgreedAtFirst, Zenon
  <2> QED BY <2>1, <2>5
<1>12. ASSUME NEW j \in 0..n, j < n, j \in Good PROVE j + 1 \in Good
  <2>1. PICK i \in 1..n : i = j + 1 /\ i - 1 = j /\ i \in 0..n /\ i # 0
    BY <1>12
  <2>2. PICK s \in Seq(WrittenEvents) : s = given[j] /\ Agreed(s, FirstOf(w, j))
    BY <1>12
  <2>3. PICK p \in Seq(WrittenEvents) : p = FirstOf(w, j) /\ Append(p, w[i]) = FirstOf(w, i)
    <3>1. FirstOf(w, i - 1) \in Seq(WrittenEvents) /\ Append(FirstOf(w, i - 1), w[i]) = FirstOf(w, i)
      BY <1>1, <2>1, FirstOfNext
    <3> QED BY <2>1, <3>1
  <2>4. given[i] = E!Dispatched(s, w[i].kind, E!Serialize(w[i]))
    <3>1. given[i] = E!Dispatched(given[i - 1], held[i].kind, held[i].payload)
      BY <1>10, <2>1, Zenon
    <3> QED BY <1>2, <2>1, <2>2, <3>1, Zenon
  <2>5. w[i] \in WrittenEvents
    BY <1>1
  <2>6. given[i] \in Seq(WrittenEvents) /\ Agreed(given[i], Append(p, w[i]))
    BY <2>2, <2>3, <2>4, <2>5, AgreedDispatch
  <2>7. i \in Good
    BY <2>1, <2>3, <2>6
  <2> QED BY <2>1, <2>7
<1>13. \A i \in 0..n : i \in Good
  <2> HIDE DEF Good
  <2> QED BY <1>11, <1>12, UpTo
<1>14. given[n] \in Seq(WrittenEvents) /\ Agreed(given[n], FirstOf(w, n))
  <2>1. n \in 0..n
    OBVIOUS
  <2> QED BY <1>13, <2>1
<1>15. FirstOf(w, n) = w
  BY <1>1, LenProperties DEF FirstOf
<1> QED BY <1>3, <1>14, <1>15

LEMMA NothingHeld ==
  ASSUME held = <<>>
  PROVE  E!Delivered = seen
<1> DEFINE Follows(r, i) == IF i = 0 THEN seen ELSE E!Dispatched(r[i - 1], held[i].kind, held[i].payload)
           Is(r) == r = [i \in 0..0 |-> Follows(r, i)]
           given == CHOOSE r : Is(r)
           h == [i \in 0..0 |-> seen]
<1>1. E!Delivered = given[0]
  <2>1. Len(held) = 0
    OBVIOUS
  <2> QED BY <2>1 DEF E!Delivered
<1>2. Is(h)
  <2>1. \A i \in 0..0 : Follows(h, i) = seen
    OBVIOUS
  <2> HIDE DEF Follows
  <2> QED BY <2>1
<1>3. Is(given)
  <2> HIDE DEF Is
  <2> QED BY <1>2
<1> HIDE DEF given
<1>4. given[0] = Follows(given, 0)
  <2>1. 0 \in 0..0
    OBVIOUS
  <2> HIDE DEF Follows
  <2> QED BY <1>3, <2>1
<1> QED BY <1>1, <1>4

-----------------------------------------------------------------------------
(* What the callbacks see. *)

\* The inductive invariant.
EventsInv ==
  /\ seen \in Seq(WrittenEvents) /\ emitted \in Seq(WrittenEvents)
  /\ Contained(seen, emitted)
  /\ turn \in {"idle", "running", "returned"}
  /\ turn = "running" /\ binding = "wasmtime" => seen = <<>> /\ held = HeldOf(emitted)
  /\ turn = "running" /\ binding # "wasmtime" => held = <<>> /\ Agreed(seen, emitted)
  /\ turn = "returned" => Agreed(seen, emitted)

LEMMA TraceIsWritten ==
  ASSUME E!EventsAssumption, NEW t \in Traces
  PROVE  /\ E!LogOf(t) \in WrittenEvents /\ E!LogOf(t).kind = "log"
         /\ E!EncodeLog(E!LogOf(t)) = E!Serialize(E!LogOf(t))
<1>1. t.message \in Seq(Nat) /\ t.args \in Seq(Nat) /\ Len(t.args) = 5 /\ t.n \in Int
  BY DEF E!EventsAssumption
<1>2. E!ValueCount(t.n) \in 0..5
  <2>1. PICK n \in Int : n = t.n
    BY <1>1
  <2>2. E!ValueCount(n) \in 0..5
    BY DEF E!ValueCount
  <2> QED BY <2>1, <2>2
<1>3. SubSeq(t.args, 1, E!ValueCount(t.n)) \in Seq(Nat)
  <2>1. PICK k \in 0..5, a \in Seq(Nat) : k = E!ValueCount(t.n) /\ a = t.args /\ Len(a) = 5
    BY <1>1, <1>2
  <2>2. \A i \in 1..k : a[i] \in Nat
    BY <2>1, ElementOfSeq
  <2>3. SubSeq(a, 1, k) \in Seq(Nat)
    BY <2>1, <2>2
  <2> QED BY <2>1, <2>3
<1>4. E!LogOf(t) \in LogEvents /\ E!LogOf(t).kind = "log"
  BY <1>1, <1>3 DEF E!LogOf, LogEvents
<1>5. E!EncodeLog(E!LogOf(t)) = E!Serialize(E!LogOf(t))
  BY <1>4, ByKind
<1> QED BY <1>4, <1>5 DEF WrittenEvents

LEMMA HeldNext ==
  ASSUME NEW w \in Seq(WrittenEvents), NEW e \in WrittenEvents
  PROVE  Append(HeldOf(w), [kind |-> e.kind, payload |-> E!Serialize(e)]) = HeldOf(Append(w, e))
<1>1. PICK v \in Seq(WrittenEvents) : /\ v = Append(w, e) /\ Len(v) = Len(w) + 1 /\ v[Len(w) + 1] = e
                                /\ \A i \in 1..Len(w) : v[i] = w[i]
  <2>1. Append(w, e) \in Seq(WrittenEvents) /\ Len(Append(w, e)) = Len(w) + 1 /\ Append(w, e)[Len(w) + 1] = e
    BY AppendProperties
  <2>2. \A i \in 1..Len(w) : Append(w, e)[i] = w[i]
    BY AppendProperties
  <2> QED BY <2>1, <2>2, Zenon
<1>2. PICK n \in Nat : n = Len(w) /\ Len(v) = n + 1
  BY <1>1, LenProperties
<1> DEFINE Item(x) == [kind |-> x.kind, payload |-> E!Serialize(x)]
<1>3. HeldOf(w) = [i \in 1..n |-> Item(w[i])] /\ HeldOf(v) = [i \in 1..(n + 1) |-> Item(v[i])]
  BY <1>2 DEF HeldOf
<1> DEFINE T == {Item(v[i]) : i \in 1..(n + 1)}
<1> HIDE DEF Item
<1>4. PICK u \in Seq(T) : u = [i \in 1..n |-> Item(w[i])] /\ Len(u) = n /\ \A i \in 1..n : u[i] = Item(v[i])
  <2>1. \A i \in 1..n : Item(w[i]) = Item(v[i]) /\ Item(v[i]) \in T
    <3>1. \A i \in 1..n : w[i] = v[i] /\ i \in 1..(n + 1)
      BY <1>1, <1>2
    <3> QED BY <3>1, Zenon
  <2> DEFINE u == [i \in 1..n |-> Item(w[i])]
  <2> HIDE DEF T
  <2>2. u \in Seq(T) /\ Len(u) = n /\ \A i \in 1..n : u[i] = Item(v[i])
    BY <2>1
  <2> QED BY <2>2, Zenon
<1>5. Item(e) \in T /\ Item(e) = Item(v[n + 1])
  <2>1. n + 1 \in 1..(n + 1) /\ v[n + 1] = e
    BY <1>1, <1>2
  <2> QED BY <2>1, Zenon
<1> HIDE DEF T
<1>6. PICK z \in Seq(T) : /\ z = Append(u, Item(e)) /\ Len(z) = n + 1 /\ z[n + 1] = Item(e)
                          /\ \A i \in 1..n : z[i] = u[i]
  <2>1. Append(u, Item(e)) \in Seq(T) /\ Len(Append(u, Item(e))) = n + 1 /\ Append(u, Item(e))[n + 1] = Item(e)
    BY <1>4, <1>5, AppendProperties
  <2>2. \A i \in 1..n : Append(u, Item(e))[i] = u[i]
    BY <1>4, <1>5, AppendProperties
  <2> QED BY <2>1, <2>2, Zenon
<1>7. \A i \in 1..(n + 1) : z[i] = Item(v[i])
  <2>1. ASSUME NEW i \in 1..(n + 1) PROVE z[i] = Item(v[i])
    <3>1. CASE i = n + 1
      BY <1>5, <1>6, <3>1
    <3>2. CASE i # n + 1
      <4>1. i \in 1..n
        BY <3>2
      <4> QED BY <1>4, <1>6, <4>1
    <3> QED BY <3>1, <3>2
  <2> QED BY <2>1
<1>8. z = [i \in 1..(n + 1) |-> z[i]]
  BY <1>6, LenProperties
<1>9. z = HeldOf(v)
  BY <1>3, <1>7, <1>8, Zenon
<1>10. z = Append(HeldOf(w), Item(e))
  BY <1>3, <1>4, <1>6, Zenon
<1> QED BY <1>1, <1>9, <1>10 DEF Item

\* An event of the guest on any host, or a trace on the native ones.
LEMMA ReceivedIs ==
  ASSUME EventsInv, turn = "running", NEW e \in WrittenEvents, emitted' = Append(emitted, e),
         E!Receive(e.kind, E!Serialize(e)), UNCHANGED <<binding, callbacks, turn, calls>>
  PROVE  EventsInv'
<1>1. seen \in Seq(WrittenEvents) /\ emitted \in Seq(WrittenEvents) /\ emitted' \in Seq(WrittenEvents)
  BY AppendProperties DEF EventsInv
<1>2. CASE binding = "wasmtime"
  <2>1. seen = <<>> /\ seen' = <<>> /\ held = HeldOf(emitted)
        /\ held' = Append(held, [kind |-> e.kind, payload |-> E!Serialize(e)])
    BY <1>2 DEF EventsInv, E!Receive
  <2>2. held' = HeldOf(emitted')
    BY <1>1, <2>1, HeldNext
  <2>3. Contained(seen, emitted)'
    BY <2>1 DEF Contained
  <2>4. HeldOf(emitted)' = HeldOf(emitted')
    BY DEF HeldOf
  <2> QED BY <1>1, <1>2, <2>1, <2>2, <2>3, <2>4 DEF EventsInv
<1>3. CASE binding # "wasmtime"
  <2>1. /\ Agreed(seen, emitted) /\ held = <<>> /\ held' = <<>>
        /\ seen' = E!Dispatched(seen, e.kind, E!Serialize(e))
    BY <1>3 DEF EventsInv, E!Receive
  <2>2. seen' \in Seq(WrittenEvents) /\ Agreed(seen', emitted')
    BY <1>1, <2>1, AgreedDispatch
  <2>3. Agreed(seen, emitted)' /\ Contained(seen, emitted)'
    BY <2>2 DEF Agreed, Contained, Those
  <2> QED BY <1>1, <1>3, <2>1, <2>2, <2>3 DEF EventsInv
<1> QED BY <1>2, <1>3

LEMMA EventsInvStep ==
  ASSUME E!EventsAssumption, EventsInv, [E!Next]_(E!vars)
  PROVE  EventsInv'
<1>1. ASSUME NEW kinds \in Observed, E!Register(kinds) PROVE EventsInv'
  <2>1. turn' = "idle" /\ UNCHANGED <<binding, held, seen, emitted>>
    BY <1>1 DEF E!Register
  <2>2. Contained(seen, emitted)'
    BY <2>1 DEF EventsInv, Contained
  <2> QED BY <2>1, <2>2 DEF EventsInv
<1>2. ASSUME E!Begin PROVE EventsInv'
  <2>1. /\ turn' = "running" /\ held' = <<>> /\ seen' = <<>> /\ emitted' = <<>>
        /\ UNCHANGED <<binding, callbacks>>
    BY <1>2 DEF E!Begin
  <2>2. Agreed(seen, emitted)' /\ Contained(seen, emitted)'
    <3>1. Agreed(seen', emitted')
      BY <2>1, AgreedAtFirst
    <3> QED BY <2>1, <3>1 DEF Agreed, Contained, Those
  <2>3. HeldOf(emitted)' = <<>>
    BY <2>1 DEF HeldOf
  <2>4. <<>> \in Seq(WrittenEvents)
    OBVIOUS
  <2> QED BY <2>1, <2>2, <2>3, <2>4 DEF EventsInv
<1>3. ASSUME NEW e \in GuestEvents, E!WriteEvent(e) PROVE EventsInv'
  <2>1. e \in WrittenEvents
    BY DEF E!EventsAssumption, E!Events, WrittenEvents
  <2> QED BY <1>3, <2>1, ReceivedIs DEF E!WriteEvent, E!Running
<1>4. ASSUME NEW t \in Traces, E!Trace(t) PROVE EventsInv'
  <2>1. PICK e \in WrittenEvents : e = E!LogOf(t) /\ e.kind = "log" /\ E!EncodeLog(e) = E!Serialize(e)
    BY TraceIsWritten
  <2>2. /\ turn = "running" /\ emitted' = Append(emitted, e)
        /\ UNCHANGED <<binding, callbacks, turn, calls>>
    BY <1>4, <2>1 DEF E!Trace, E!Running
  <2>3. CASE binding = "js"
    <3>1. /\ Agreed(seen, emitted) /\ held = <<>> /\ UNCHANGED held
          /\ seen' = IF e.kind \in callbacks THEN Append(seen, e) ELSE seen
      BY <1>4, <2>1, <2>2, <2>3 DEF E!Trace, EventsInv
    <3>2. seen \in Seq(WrittenEvents) /\ emitted \in Seq(WrittenEvents)
      BY DEF EventsInv
    <3>3. seen' \in Seq(WrittenEvents) /\ Agreed(seen', Append(emitted, e))
      BY <3>1, <3>2, AgreedNext
    <3>4. Agreed(seen, emitted)' /\ Contained(seen, emitted)'
      BY <2>2, <3>3 DEF Agreed, Contained, Those
    <3>5. emitted' \in Seq(WrittenEvents)
      BY <2>2, <3>2, AppendProperties
    <3> QED BY <2>2, <2>3, <3>1, <3>3, <3>4, <3>5 DEF EventsInv
  <2>4. CASE binding # "js"
    <3>1. E!Receive("log", E!EncodeLog(e))
      BY <1>4, <2>1, <2>4 DEF E!Trace
    <3>2. E!Receive(e.kind, E!Serialize(e))
      BY <2>1, <3>1
    <3> QED BY <2>2, <3>2, ReceivedIs
  <2> QED BY <2>3, <2>4
<1>5. ASSUME NEW went \in BOOLEAN, E!Return(went) PROVE EventsInv'
  <2>1. /\ turn = "running" /\ turn' = "returned" /\ seen' = E!Delivered /\ held' = <<>>
        /\ UNCHANGED <<binding, callbacks, emitted>>
    BY <1>5 DEF E!Return
  <2>2. E!Delivered \in Seq(WrittenEvents) /\ Agreed(E!Delivered, emitted)
    <3>1. CASE binding = "wasmtime"
      BY <2>1, <3>1, DeliveredIs DEF EventsInv
    <3>2. CASE binding # "wasmtime"
      BY <2>1, <3>2, NothingHeld DEF EventsInv
    <3> QED BY <3>1, <3>2
  <2>3. Agreed(seen, emitted)' /\ Contained(seen, emitted)'
    BY <2>1, <2>2 DEF Agreed, Contained, Those
  <2> QED BY <2>1, <2>2, <2>3 DEF EventsInv
<1>6. ASSUME UNCHANGED E!vars PROVE EventsInv'
  BY <1>6 DEF E!vars, EventsInv, Contained, Agreed, Those, HeldOf
<1> QED BY <1>1, <1>2, <1>3, <1>4, <1>5, <1>6 DEF E!Next

LEMMA EventsInvHolds == ASSUME E!EventsAssumption PROVE E!Spec => []EventsInv
<1>1. E!Init => EventsInv
  <2> SUFFICES ASSUME E!Init PROVE EventsInv
    OBVIOUS
  <2>1. turn = "idle" /\ seen = <<>> /\ emitted = <<>>
    BY DEF E!Init
  <2>2. Contained(seen, emitted)
    BY <2>1 DEF Contained
  <2>3. <<>> \in Seq(WrittenEvents)
    OBVIOUS
  <2> QED BY <2>1, <2>2, <2>3 DEF EventsInv
<1>2. EventsInv /\ [E!Next]_(E!vars) => EventsInv'
  BY EventsInvStep
<1> QED BY <1>1, <1>2, PTL DEF E!Spec

\* When a call of the guest is over, on every host, with any callbacks and after
\* any calls before it, the callbacks have seen every event of a plain kind they
\* listen to, in the order and with the fields the guest wrote (events.ts,
\* index.cjs of the hosts).
THEOREM CallbacksSeeAll == ASSUME E!EventsAssumption PROVE E!Spec => []CallbacksSeeTheCall
<1>1. EventsInv => CallbacksSeeTheCall
  BY DEF EventsInv, Agreed, CallbacksSeeTheCall, Listened
<1> QED BY <1>1, EventsInvHolds, PTL

\* No callback is ever given an event of a hook or a failure that the guest has
\* not written like that in the same call.
THEOREM HeadedAreIntact == ASSUME E!EventsAssumption PROVE E!Spec => []HeadedEventsIntactOrLost
<1>1. EventsInv => HeadedEventsIntactOrLost
  BY DEF EventsInv, Contained, HeadedEventsIntactOrLost
<1> QED BY <1>1, EventsInvHolds, PTL
=============================================================================

----------------------------- MODULE SequenceLemmas ----------------------------
(***************************************************************************)
(* What the proofs about tables and lists need: induction on sets, by the  *)
(* least element of what is not in them, and with it FlattenSeq of the     *)
(* community modules, a recursive function with which the models state     *)
(* list comprehensions.                                                    *)
(***************************************************************************)
EXTENDS SequencesExt, FiniteSetTheorems, SequenceTheorems, NaturalsInduction,
        WellFoundedInduction, TLAPS

-----------------------------------------------------------------------------
(* Induction, and the greatest of a set *)

Less == {p \in Nat \X Nat : p[1] < p[2]}

\* A set of numbers has a least one.
LEMMA LeastOf ==
  ASSUME NEW T \in SUBSET Nat, T # {}
  PROVE  \E x \in T : \A y \in T : x <= y
<1>1. IsWellFoundedOn(Less, Nat)
  <2>1. Less = OpToRel(<, Nat)
    BY DEF Less, OpToRel
  <2>. QED  BY <2>1, NatLessThanWellFounded
<1>2. PICK x \in T : \A y \in T : <<y, x>> \notin Less
  BY <1>1, WFMin
<1>3. ASSUME NEW y \in T
      PROVE  x <= y
  <2>1. <<y, x>> \in Nat \X Nat /\ <<y, x>>[1] = y /\ <<y, x>>[2] = x
    OBVIOUS
  <2>2. ~(y < x)
    BY <1>2, <2>1 DEF Less
  <2>. QED  BY <2>1, <2>2
<1>. QED  BY <1>3

\* Induction.
LEMMA FromZero ==
  ASSUME NEW S, 0 \in S, \A n \in Nat : n \in S => n + 1 \in S
  PROVE  Nat \subseteq S
<1>. SUFFICES ASSUME Nat \ S # {}
              PROVE  FALSE
  OBVIOUS
<1>1. PICK x \in Nat \ S : \A y \in Nat \ S : x <= y
  BY LeastOf
<1>2. x - 1 \in Nat /\ x - 1 \in S
  BY <1>1
<1>. QED  BY <1>1, <1>2

\* A set of numbers that has a bound has a greatest one.
LEMMA GreatestOf ==
  ASSUME NEW N \in Nat, NEW T \in SUBSET (0..N), T # {}
  PROVE  \E n \in T : \A m \in T : m <= n
<1>. DEFINE U == {N - n : n \in T}
<1>1. U \subseteq Nat /\ U # {}
  <2>1. \A n \in T : n \in 0..N /\ N - n \in Nat
    OBVIOUS
  <2>. QED  BY <2>1
<1>2. PICK x \in U : \A y \in U : x <= y
  BY <1>1, LeastOf
<1>3. PICK n \in T : x = N - n
  BY <1>2
<1>4. ASSUME NEW m \in T PROVE m <= n
  <2>1. x <= N - m
    BY <1>2
  <2>. QED  BY <1>3, <2>1
<1>. QED  BY <1>4

-----------------------------------------------------------------------------
(* FlattenSeq *)

\* f[n] is what the first n sequences make together.
Steps(f, seqs, n) ==
  /\ f[0] = <<>>
  /\ \A i \in 1..n : f[i] = f[i - 1] \o seqs[i]

LEMMA StepsExist ==
  ASSUME NEW S, NEW seqs \in Seq(Seq(S))
  PROVE  \E f \in [0..Len(seqs) -> Seq(S)] : Steps(f, seqs, Len(seqs))
<1>. DEFINE T == {n \in Nat : n <= Len(seqs) =>
                    \E f \in [0..n -> Seq(S)] : Steps(f, seqs, n)}
<1>1. 0 \in T
  <2>. DEFINE f == [n \in 0..0 |-> <<>>]
  <2>1. f \in [0..0 -> Seq(S)] /\ Steps(f, seqs, 0)
    BY DEF Steps
  <2>. QED  BY <2>1
<1>2. ASSUME NEW n \in Nat, n \in T
      PROVE  n + 1 \in T
  <2>. SUFFICES ASSUME n + 1 <= Len(seqs)
                PROVE  \E f \in [0..(n + 1) -> Seq(S)] : Steps(f, seqs, n + 1)
    OBVIOUS
  <2>1. PICK f \in [0..n -> Seq(S)] : Steps(f, seqs, n)
    <3>1. n <= Len(seqs)
      OBVIOUS
    <3>. QED  BY <1>2, <3>1
  <2>. DEFINE g == [i \in 0..(n + 1) |-> IF i <= n THEN f[i] ELSE f[n] \o seqs[n + 1]]
  <2>2. f[n] \o seqs[n + 1] \in Seq(S)
    <3>1. seqs[n + 1] \in Seq(S) /\ f[n] \in Seq(S)
      OBVIOUS
    <3>. QED  BY <3>1
  <2>3. g \in [0..(n + 1) -> Seq(S)]
    BY <2>2
  <2>4. g[0] = <<>>
    BY <2>1 DEF Steps
  <2>5. ASSUME NEW i \in 1..(n + 1)
        PROVE  g[i] = g[i - 1] \o seqs[i]
    <3>1. g[i - 1] = f[i - 1] /\ i - 1 \in 0..n
      OBVIOUS
    <3>2. CASE i <= n
      <4>1. g[i] = f[i] /\ i \in 1..n
        BY <3>2
      <4>2. f[i] = f[i - 1] \o seqs[i]
        BY <2>1, <4>1, Zenon DEF Steps
      <4>. HIDE DEF g
      <4>. QED  BY <3>1, <4>1, <4>2
    <3>3. CASE i = n + 1
      <4>1. g[i] = f[n] \o seqs[n + 1] /\ i - 1 = n
        BY <3>3
      <4>2. g[i - 1] = f[n]
        BY <3>1, <4>1
      <4>. HIDE DEF g
      <4>. QED  BY <3>3, <4>1, <4>2
    <3>4. i <= n \/ i = n + 1
      OBVIOUS
    <3>. HIDE DEF g
    <3>. QED  BY <3>2, <3>3, <3>4
  <2>. QED  BY <2>3, <2>4, <2>5 DEF Steps
<1>3. Len(seqs) \in T
  <2>. HIDE DEF T
  <2>. QED  BY <1>1, <1>2, FromZero
<1>. QED  BY <1>3

\* The function that FlattenSeq defines.
IsFlatten(g, seqs) ==
  g = [i \in 1..Len(seqs) |-> IF i = 1 THEN seqs[i] ELSE g[i - 1] \o seqs[i]]

\* FlattenSeq is what all of them make together.
LEMMA FlattenSteps ==
  ASSUME NEW S, NEW seqs \in Seq(Seq(S))
  PROVE  \E f \in [0..Len(seqs) -> Seq(S)] :
           Steps(f, seqs, Len(seqs)) /\ FlattenSeq(seqs) = f[Len(seqs)]
<1>1. PICK f \in [0..Len(seqs) -> Seq(S)] : Steps(f, seqs, Len(seqs))
  BY StepsExist
<1>2. CASE Len(seqs) = 0
  <2>1. seqs = <<>>
    BY <1>2
  <2>. QED  BY <1>1, <1>2, <2>1 DEF FlattenSeq, Steps
<1>3. CASE Len(seqs) # 0
  <2>. DEFINE g == CHOOSE g : IsFlatten(g, seqs)
  <2>1. \E h : IsFlatten(h, seqs)
    <3>. DEFINE h == [i \in 1..Len(seqs) |-> f[i]]
    <3>1. ASSUME NEW i \in 1..Len(seqs)
          PROVE  f[i] = IF i = 1 THEN seqs[i] ELSE h[i - 1] \o seqs[i]
      <4>1. f[i] = f[i - 1] \o seqs[i] /\ f[0] = <<>>
        BY <1>1, Zenon DEF Steps
      <4>2. seqs[i] \in Seq(S)
        OBVIOUS
      <4>3. CASE i = 1
        <5>1. i - 1 = 0
          BY <4>3
        <5>2. f[i] = <<>> \o seqs[i]
          BY <4>1, <5>1
        <5>. QED  BY <4>2, <4>3, <5>2, ConcatEmptySeq
      <4>4. CASE i # 1
        <5>1. h[i - 1] = f[i - 1]
          BY <4>4
        <5>. HIDE DEF h
        <5>. QED  BY <4>1, <4>4, <5>1
      <4>. QED  BY <4>3, <4>4
    <3>2. h = [i \in 1..Len(seqs) |-> IF i = 1 THEN seqs[i] ELSE h[i - 1] \o seqs[i]]
      BY <3>1
    <3>. QED  BY <3>2 DEF IsFlatten
  <2>2. IsFlatten(g, seqs)
    BY <2>1
  <2>3. FlattenSeq(seqs) = g[Len(seqs)]
    BY <1>3 DEF FlattenSeq, IsFlatten
  <2>. HIDE DEF g
  <2>4. \A i \in 1..Len(seqs) : g[i] = IF i = 1 THEN seqs[i] ELSE g[i - 1] \o seqs[i]
    BY <2>2 DEF IsFlatten
  <2>. DEFINE T == {n \in Nat : n + 1 <= Len(seqs) => g[n + 1] = f[n + 1]}
  <2>5. 0 \in T
    <3>. SUFFICES ASSUME 1 <= Len(seqs)
                  PROVE  g[1] = f[1]
      OBVIOUS
    <3>1. 1 \in 1..Len(seqs) /\ 1 - 1 = 0 /\ seqs[1] \in Seq(S)
      OBVIOUS
    <3>2. f[1] = f[1 - 1] \o seqs[1] /\ f[0] = <<>>
      BY <1>1, <3>1, Zenon DEF Steps
    <3>3. f[1] = <<>> \o seqs[1]
      BY <3>1, <3>2
    <3>4. g[1] = seqs[1]
      BY <2>4, <3>1, Zenon
    <3>. QED  BY <3>1, <3>3, <3>4, ConcatEmptySeq
  <2>6. ASSUME NEW n \in Nat, n \in T
        PROVE  n + 1 \in T
    <3>. SUFFICES ASSUME n + 1 + 1 <= Len(seqs)
                  PROVE  g[n + 1 + 1] = f[n + 1 + 1]
      OBVIOUS
    <3>1. g[n + 1] = f[n + 1]
      BY <2>6
    <3>2. PICK i : i = n + 1 + 1
      OBVIOUS
    <3>3. i \in 1..Len(seqs) /\ i # 1 /\ i - 1 = n + 1
      BY <3>2
    <3>4. g[i] = g[i - 1] \o seqs[i]
      BY <2>4, <3>3, Zenon
    <3>5. f[i] = f[i - 1] \o seqs[i]
      BY <1>1, <3>3, Zenon DEF Steps
    <3>. QED  BY <3>1, <3>2, <3>3, <3>4, <3>5
  <2>7. Len(seqs) - 1 \in T
    <3>1. Len(seqs) - 1 \in Nat
      BY <1>3
    <3>. HIDE DEF T
    <3>. QED  BY <2>5, <2>6, <3>1, FromZero
  <2>. QED  BY <1>1, <1>3, <2>3, <2>7
<1>. QED  BY <1>2, <1>3

LEMMA FlattenTypes ==
  ASSUME NEW S, NEW seqs \in Seq(Seq(S))
  PROVE  FlattenSeq(seqs) \in Seq(S)
<1>1. PICK f \in [0..Len(seqs) -> Seq(S)] : FlattenSeq(seqs) = f[Len(seqs)]
  BY FlattenSteps
<1>. QED  BY <1>1

-----------------------------------------------------------------------------
(* How often an element is in a sequence *)

Positions(q, x) == {i \in DOMAIN q : q[i] = x}

Count(q, x) == Cardinality(Positions(q, x))

LEMMA CountTypes ==
  ASSUME NEW S, NEW q \in Seq(S), NEW x
  PROVE  /\ IsFiniteSet(Positions(q, x)) /\ Positions(q, x) \subseteq 1..Len(q)
         /\ Count(q, x) \in Nat
<1>1. Positions(q, x) \subseteq 1..Len(q) /\ Len(q) \in Nat
  BY DEF Positions
<1>2. IsFiniteSet(1..Len(q))
  BY <1>1, FS_Interval
<1>. QED  BY <1>1, <1>2, FS_Subset, FS_CardinalityType DEF Count

LEMMA CountNone ==
  ASSUME NEW q, NEW x, \A i \in DOMAIN q : q[i] # x
  PROVE  Count(q, x) = 0
<1>1. Positions(q, x) = {}
  BY DEF Positions
<1>. QED  BY <1>1, FS_EmptySet DEF Count

LEMMA CountOne ==
  ASSUME NEW x
  PROVE  Count(<<x>>, x) = 1
<1>1. Positions(<<x>>, x) = {1}
  BY DEF Positions
<1>. QED  BY <1>1, FS_Singleton DEF Count

LEMMA CountConcat ==
  ASSUME NEW S, NEW p \in Seq(S), NEW q \in Seq(S), NEW x
  PROVE  Count(p \o q, x) = Count(p, x) + Count(q, x)
<1>. DEFINE B == {Len(p) + i : i \in Positions(q, x)}
            f == [i \in Positions(q, x) |-> Len(p) + i]
<1>1. /\ p \o q \in Seq(S) /\ Len(p \o q) = Len(p) + Len(q)
      /\ \A i \in 1..(Len(p) + Len(q)) :
           (p \o q)[i] = IF i <= Len(p) THEN p[i] ELSE q[i - Len(p)]
  BY ConcatProperties
<1>2. /\ IsFiniteSet(Positions(p, x)) /\ Positions(p, x) \subseteq 1..Len(p)
      /\ IsFiniteSet(Positions(q, x)) /\ Positions(q, x) \subseteq 1..Len(q)
      /\ Count(p, x) \in Nat /\ Count(q, x) \in Nat
      /\ Len(p) \in Nat /\ Len(q) \in Nat
  BY CountTypes
<1>3. IsFiniteSet(B) /\ Cardinality(B) = Count(q, x)
  <2>1. f \in [Positions(q, x) -> B]
    OBVIOUS
  <2>2. \A i, j \in Positions(q, x) : f[i] = f[j] => i = j
    BY <1>2
  <2>3. \A b \in B : \E i \in Positions(q, x) : f[i] = b
    OBVIOUS
  <2>4. f \in Bijection(Positions(q, x), B)
    <3>. HIDE DEF f, B
    <3>. QED  BY <2>1, <2>2, <2>3 DEF Bijection, Injection, Surjection, IsInjective
  <2>5. ExistsBijection(Positions(q, x), B)
    BY <2>4 DEF ExistsBijection
  <2>. HIDE DEF f, B
  <2>. QED  BY <1>2, <2>5, FS_Bijection DEF Count
<1>4. Positions(p \o q, x) = Positions(p, x) \cup B
  <2>1. DOMAIN (p \o q) = 1..(Len(p) + Len(q)) /\ DOMAIN p = 1..Len(p) /\ DOMAIN q = 1..Len(q)
    BY <1>1, <1>2
  <2>2. ASSUME NEW i \in Positions(p \o q, x)
        PROVE  i \in Positions(p, x) \cup B
    <3>1. i \in 1..(Len(p) + Len(q)) /\ (p \o q)[i] = x
      BY <2>1 DEF Positions
    <3>2. CASE i <= Len(p)
      BY <1>1, <1>2, <2>1, <3>1, <3>2 DEF Positions
    <3>3. CASE i > Len(p)
      <4>1. q[i - Len(p)] = x /\ i - Len(p) \in 1..Len(q)
        BY <1>1, <1>2, <3>1, <3>3
      <4>2. i - Len(p) \in Positions(q, x) /\ i = Len(p) + (i - Len(p))
        BY <1>2, <2>1, <3>1, <4>1 DEF Positions
      <4>. QED  BY <4>2
    <3>. QED  BY <1>2, <3>1, <3>2, <3>3
  <2>3. ASSUME NEW i \in Positions(p, x)
        PROVE  i \in Positions(p \o q, x)
    <3>1. i \in 1..Len(p) /\ p[i] = x
      BY <2>1 DEF Positions
    <3>. QED  BY <1>1, <1>2, <2>1, <3>1 DEF Positions
  <2>4. ASSUME NEW j \in Positions(q, x)
        PROVE  Len(p) + j \in Positions(p \o q, x)
    <3>1. j \in 1..Len(q) /\ q[j] = x
      BY <2>1 DEF Positions
    <3>2. Len(p) + j \in 1..(Len(p) + Len(q)) /\ ~(Len(p) + j <= Len(p)) /\ Len(p) + j - Len(p) = j
      BY <1>2, <3>1
    <3>3. (p \o q)[Len(p) + j] = x
      BY <1>1, <3>1, <3>2
    <3>. QED  BY <2>1, <3>2, <3>3 DEF Positions
  <2>. QED  BY <2>2, <2>3, <2>4
<1>5. Positions(p, x) \cap B = {}
  BY <1>2
<1>6. Cardinality(Positions(p, x) \cup B) = Cardinality(Positions(p, x)) + Cardinality(B) - 0
  <2>. HIDE DEF B
  <2>. QED  BY <1>2, <1>3, <1>5, FS_Union, FS_EmptySet
<1>. HIDE DEF B
<1>. QED  BY <1>2, <1>3, <1>4, <1>6 DEF Count

\* If just one of some sequences has an element, they have it together as often.
LEMMA FlattenCounts ==
  ASSUME NEW S, NEW seqs \in Seq(Seq(S)), NEW x, NEW m \in 1..Len(seqs),
         \A i \in 1..Len(seqs) : i # m => Count(seqs[i], x) = 0
  PROVE  Count(FlattenSeq(seqs), x) = Count(seqs[m], x)
<1>1. PICK f \in [0..Len(seqs) -> Seq(S)] :
        Steps(f, seqs, Len(seqs)) /\ FlattenSeq(seqs) = f[Len(seqs)]
  BY FlattenSteps
<1>. DEFINE T == {n \in Nat : n <= Len(seqs) =>
                    Count(f[n], x) = IF n < m THEN 0 ELSE Count(seqs[m], x)}
<1>2. 0 \in T
  <2>1. f[0] = <<>> /\ 0 < m
    BY <1>1 DEF Steps
  <2>2. Count(f[0], x) = 0
    BY <2>1, CountNone
  <2>. QED  BY <2>1, <2>2
<1>3. ASSUME NEW n \in Nat, n \in T
      PROVE  n + 1 \in T
  <2>. SUFFICES ASSUME n + 1 <= Len(seqs)
                PROVE  Count(f[n + 1], x) = IF n + 1 < m THEN 0 ELSE Count(seqs[m], x)
    OBVIOUS
  <2>1. PICK i : i = n + 1
    OBVIOUS
  <2>2. i \in 1..Len(seqs) /\ i - 1 = n /\ n \in 0..Len(seqs)
    BY <2>1
  <2>3. f[i] = f[i - 1] \o seqs[i]
    BY <1>1, <2>2, Zenon DEF Steps
  <2>4. f[n] \in Seq(S) /\ seqs[i] \in Seq(S)
    <3>1. f[n] \in Seq(S)
      BY <2>2
    <3>2. seqs[i] \in Seq(S)
      BY <2>2, ElementOfSeq
    <3>. QED  BY <3>1, <3>2
  <2>5. Count(f[i], x) = Count(f[n], x) + Count(seqs[i], x)
    <3>1. f[i] = f[n] \o seqs[i]
      BY <2>2, <2>3
    <3>. QED  BY <2>4, <3>1, CountConcat
  <2>6. Count(f[n], x) = IF n < m THEN 0 ELSE Count(seqs[m], x)
    BY <1>3, <2>2
  <2>7. Count(f[n], x) \in Nat /\ Count(seqs[i], x) \in Nat /\ seqs[m] \in Seq(S)
        /\ Count(seqs[m], x) \in Nat
    BY <2>4, CountTypes
  <2>8. CASE i = m
    BY <2>1, <2>5, <2>6, <2>7, <2>8
  <2>9. CASE i # m
    <3>1. Count(seqs[i], x) = 0
      BY <2>2, <2>9
    <3>. QED  BY <2>1, <2>2, <2>5, <2>6, <2>7, <2>9, <3>1
  <2>. QED  BY <2>8, <2>9
<1>4. Len(seqs) \in T
  <2>1. Len(seqs) \in Nat
    BY LenProperties
  <2>. HIDE DEF T
  <2>. QED  BY <1>2, <1>3, <2>1, FromZero
<1>5. Count(f[Len(seqs)], x) = IF Len(seqs) < m THEN 0 ELSE Count(seqs[m], x)
  BY <1>4
<1>. QED  BY <1>1, <1>5

\* [e for e in q if e in P], as it is stated with FlattenSeq.
Those(q, P) == [i \in DOMAIN q |-> IF q[i] \in P THEN <<q[i]>> ELSE <<>>]

LEMMA ThoseTypes ==
  ASSUME NEW S, NEW q \in Seq(S), NEW P
  PROVE  Those(q, P) \in Seq(Seq(S \cap P)) /\ Len(Those(q, P)) = Len(q)
<1>1. DOMAIN q = 1..Len(q) /\ Len(q) \in Nat
  OBVIOUS
<1>2. \A i \in 1..Len(q) :
        (IF q[i] \in P THEN <<q[i]>> ELSE <<>>) \in Seq(S \cap P)
  <2>. SUFFICES ASSUME NEW i \in 1..Len(q)
                PROVE  (IF q[i] \in P THEN <<q[i]>> ELSE <<>>) \in Seq(S \cap P)
    OBVIOUS
  <2>1. CASE q[i] \in P
    <3>1. q[i] \in S \cap P
      BY <2>1
    <3>. QED  BY <2>1, <3>1
  <2>2. CASE q[i] \notin P
    BY <2>2
  <2>. QED  BY <2>1, <2>2
<1>3. Those(q, P) \in [1..Len(q) -> Seq(S \cap P)]
  BY <1>1, <1>2 DEF Those
<1>. QED  BY <1>1, <1>3

\* They are in the list as often as in q.
LEMMA ThoseCounts ==
  ASSUME NEW S, NEW q \in Seq(S), NEW P, NEW x \in P
  PROVE  Count(FlattenSeq(Those(q, P)), x) = Count(q, x)
<1>. DEFINE seqs == Those(q, P)
            Upto(n) == {i \in 1..n : q[i] = x}
<1>1. seqs \in Seq(Seq(S)) /\ Len(seqs) = Len(q) /\ Len(q) \in Nat
  <2>1. seqs \in Seq(Seq(S \cap P)) /\ Len(seqs) = Len(q)
    BY ThoseTypes
  <2>. HIDE DEF seqs
  <2>2. Seq(Seq(S \cap P)) \subseteq Seq(Seq(S))
    <3>1. Seq(S \cap P) \subseteq Seq(S)
      BY SeqMonotonic
    <3>. QED  BY <3>1, SeqMonotonic
  <2>. QED  BY <2>1, <2>2
<1>2. \A i \in 1..Len(q) : seqs[i] = IF q[i] \in P THEN <<q[i]>> ELSE <<>>
  BY DEF Those
<1>. HIDE DEF seqs
<1>3. PICK f \in [0..Len(q) -> Seq(S)] :
        Steps(f, seqs, Len(q)) /\ FlattenSeq(seqs) = f[Len(q)]
  BY <1>1, FlattenSteps
<1>4. \A n \in Nat : IsFiniteSet(Upto(n)) /\ Cardinality(Upto(n)) \in Nat
  <2>. SUFFICES ASSUME NEW n \in Nat
                PROVE  IsFiniteSet(Upto(n)) /\ Cardinality(Upto(n)) \in Nat
    OBVIOUS
  <2>1. IsFiniteSet(1..n) /\ Upto(n) \in SUBSET (1..n)
    BY FS_Interval
  <2>. HIDE DEF Upto
  <2>. QED  BY <2>1, FS_Subset, FS_CardinalityType
<1>. DEFINE T == {n \in Nat : n <= Len(q) => Count(f[n], x) = Cardinality(Upto(n))}
<1>5. 0 \in T
  <2>1. f[0] = <<>>
    BY <1>3 DEF Steps
  <2>2. Count(f[0], x) = 0
    BY <2>1, CountNone
  <2>3. Upto(0) = {}
    OBVIOUS
  <2>. QED  BY <2>2, <2>3, FS_EmptySet
<1>6. ASSUME NEW n \in Nat, n \in T
      PROVE  n + 1 \in T
  <2>. SUFFICES ASSUME n + 1 <= Len(q)
                PROVE  Count(f[n + 1], x) = Cardinality(Upto(n + 1))
    OBVIOUS
  <2>1. PICK i : i = n + 1
    OBVIOUS
  <2>2. i \in 1..Len(q) /\ i - 1 = n /\ n \in 0..Len(q)
    BY <2>1
  <2>3. f[i] = f[i - 1] \o seqs[i]
    BY <1>3, <2>2, Zenon DEF Steps
  <2>4. f[n] \in Seq(S) /\ seqs[i] \in Seq(S)
    <3>1. f[n] \in Seq(S)
      BY <2>2
    <3>2. seqs[i] \in Seq(S)
      BY <1>1, <2>2, ElementOfSeq
    <3>. QED  BY <3>1, <3>2
  <2>5. Count(f[i], x) = Count(f[n], x) + Count(seqs[i], x)
    <3>1. f[i] = f[n] \o seqs[i]
      BY <2>2, <2>3
    <3>. QED  BY <2>4, <3>1, CountConcat
  <2>6. Count(f[n], x) = Cardinality(Upto(n))
    BY <1>6, <2>2
  <2>7. CASE q[i] = x
    <3>1. seqs[i] = <<x>>
      BY <1>2, <2>2, <2>7
    <3>2. Count(seqs[i], x) = 1
      BY <3>1, CountOne
    <3>3. Upto(n + 1) = Upto(n) \cup {i} /\ i \notin Upto(n)
      BY <2>1, <2>7
    <3>4. Cardinality(Upto(n + 1)) = Cardinality(Upto(n)) + 1
      <4>. HIDE DEF Upto
      <4>. QED  BY <1>4, <3>3, FS_AddElement
    <3>. HIDE DEF Upto
    <3>. QED  BY <2>1, <2>5, <2>6, <3>2, <3>4
  <2>8. CASE q[i] # x
    <3>1. seqs[i] = <<q[i]>> \/ seqs[i] = <<>>
      BY <1>2, <2>2
    <3>a. \A j \in DOMAIN seqs[i] : seqs[i][j] # x
      <4>1. CASE seqs[i] = <<q[i]>>
        <5>1. PICK t : t = seqs[i]
          OBVIOUS
        <5>2. t = <<q[i]>>
          BY <4>1, <5>1
        <5>3. \A j \in DOMAIN t : t[j] # x
          BY <2>8, <5>2
        <5>. QED  BY <5>1, <5>3
      <4>2. CASE seqs[i] = <<>>
        BY <4>2
      <4>. QED  BY <3>1, <4>1, <4>2
    <3>2. Count(seqs[i], x) = 0
      BY <3>a, CountNone
    <3>3. Upto(n + 1) = Upto(n)
      BY <2>1, <2>8
    <3>. HIDE DEF Upto
    <3>. QED  BY <1>4, <2>1, <2>5, <2>6, <3>2, <3>3
  <2>. QED  BY <2>7, <2>8
<1>7. Len(q) \in T
  <2>. HIDE DEF T
  <2>. QED  BY <1>1, <1>5, <1>6, FromZero
<1>8. Count(f[Len(q)], x) = Cardinality(Upto(Len(q)))
  BY <1>1, <1>7
<1>9. Upto(Len(q)) = Positions(q, x)
  BY DEF Positions
<1>. QED  BY <1>3, <1>8, <1>9 DEF Count
==============================================================================

--------------------------- MODULE SequenceLemmas ---------------------------
(***************************************************************************)
(* What FlattenSeq, FoldLeft and SubSeq compute, for every sequence.       *)
(* Induction is by a smallest counterexample.                              *)
(***************************************************************************)
EXTENDS Integers, Sequences, SequencesExt, WellFoundedInduction, TLAPS

(* A set of naturals has a smallest element.                               *)
LEMMA SmallestOf ==
  ASSUME NEW S, S \subseteq Nat, S # {}
  PROVE  \E k \in S : \A j \in S : k <= j
<1>1. PICK k \in S : \A j \in S : ~(<<j, k>> \in OpToRel(<, Nat))
  BY NatLessThanWellFounded, WFMin
<1>2. \A j \in S : ~(j < k)
  BY <1>1 DEF OpToRel
<1>3. QED
  BY <1>2

(* A set that holds 0 and with each number the next one holds all.         *)
LEMMA AllNaturals ==
  ASSUME NEW S, 0 \in S, \A n \in Nat : n \in S => n + 1 \in S
  PROVE  \A n \in Nat : n \in S
<1> DEFINE Bad == {n \in Nat : n \notin S}
<1> SUFFICES ASSUME Bad # {} PROVE FALSE
  OBVIOUS
<1>1. PICK k \in Bad : \A j \in Bad : k <= j
  BY SmallestOf
<1>2. k \in Nat /\ k # 0
  BY <1>1
<1>3. k - 1 \in Nat /\ k - 1 \in S
  BY <1>1, <1>2
<1>4. (k - 1) + 1 \in S
  BY <1>3
<1>5. QED
  BY <1>1, <1>2, <1>4

-----------------------------------------------------------------------------
(* Flattening up to the k-th sequence.                                     *)
Flattens(f, seqs, n) ==
  f = [i \in 1 .. n |-> IF i = 1 THEN seqs[i] ELSE f[i - 1] \o seqs[i]]

LEMMA FlattensExists ==
  ASSUME NEW seqs
  PROVE  \A n \in Nat : \E f : Flattens(f, seqs, n)
<1> DEFINE S == {n \in Nat : \E f : Flattens(f, seqs, n)}
<1>1. 0 \in S
  <2> DEFINE f == [i \in 1 .. 0 |-> << >>]
  <2>1. Flattens(f, seqs, 0)
    BY DEF Flattens
  <2>2. QED
    BY <2>1
<1>2. ASSUME NEW n \in Nat, n \in S
      PROVE  n + 1 \in S
  <2>1. PICK f : Flattens(f, seqs, n)
    BY <1>2
  <2> DEFINE x == IF n = 0 THEN seqs[1] ELSE f[n] \o seqs[n + 1]
  <2> DEFINE h == [i \in 1 .. n + 1 |-> IF i = n + 1 THEN x ELSE f[i]]
  <2>2. \A i \in 1 .. n : f[i] = IF i = 1 THEN seqs[i] ELSE f[i - 1] \o seqs[i]
    BY <2>1 DEF Flattens
  <2>3. \A i \in 1 .. n + 1 : h[i] = IF i = 1 THEN seqs[i] ELSE h[i - 1] \o seqs[i]
    <3> SUFFICES ASSUME NEW i \in 1 .. n + 1
                 PROVE  h[i] = IF i = 1 THEN seqs[i] ELSE h[i - 1] \o seqs[i]
      OBVIOUS
    <3>1. CASE i = n + 1
      <4>1. h[i] = x
        BY <3>1
      <4>2. CASE n = 0
        BY <4>1, <4>2, <3>1
      <4>3. CASE n # 0
        <5>1. i - 1 = n /\ i - 1 \in 1 .. n + 1 /\ i # 1 /\ h[i - 1] = f[n]
          BY <3>1, <4>3
        <5>2. QED
          BY <4>1, <4>3, <5>1, <3>1
      <4>4. QED
        BY <4>2, <4>3
    <3>2. CASE i # n + 1
      <4>1. i \in 1 .. n /\ h[i] = f[i]
        BY <3>2
      <4>2. i # 1 => i - 1 \in 1 .. n + 1 /\ i - 1 # n + 1 /\ h[i - 1] = f[i - 1]
        BY <3>2
      <4>3. QED
        BY <4>1, <4>2, <2>2
    <3>3. QED
      BY <3>1, <3>2
  <2>4. Flattens(h, seqs, n + 1)
    <3> DEFINE r == [i \in 1 .. n + 1 |-> IF i = 1 THEN seqs[i] ELSE h[i - 1] \o seqs[i]]
    <3>1. h = [i \in 1 .. n + 1 |-> h[i]]
      OBVIOUS
    <3> HIDE DEF h
    <3>2. h = r
      BY <2>3, <3>1
    <3>3. QED
      BY <3>2 DEF Flattens
  <2>5. QED
    BY <2>4
<1> HIDE DEF S
<1>3. \A n \in Nat : n \in S
  BY <1>1, <1>2, AllNaturals
<1>4. QED
  BY <1>3 DEF S

LEMMA FlattenIs ==
  ASSUME NEW seqs, Len(seqs) \in Nat, Len(seqs) # 0
  PROVE  \E f : Flattens(f, seqs, Len(seqs)) /\ FlattenSeq(seqs) = f[Len(seqs)]
<1> DEFINE f == CHOOSE g : Flattens(g, seqs, Len(seqs))
<1>1. Flattens(f, seqs, Len(seqs))
  BY FlattensExists
<1>2. FlattenSeq(seqs) = f[Len(seqs)]
  BY DEF FlattenSeq, Flattens
<1>3. QED
  BY <1>1, <1>2

(* The parts of a flattening: each is a sequence, and what follows only    *)
(* adds to it.                                                             *)
LEMMA FlattensStep ==
  ASSUME NEW seqs, NEW n \in Nat, NEW f, Flattens(f, seqs, n)
  PROVE  /\ n # 0 => f[1] = seqs[1]
         /\ \A i \in 1 .. n - 1 : f[i + 1] = f[i] \o seqs[i + 1]
<1>1. \A i \in 1 .. n : f[i] = IF i = 1 THEN seqs[i] ELSE f[i - 1] \o seqs[i]
  BY DEF Flattens
<1>2. n # 0 => f[1] = seqs[1]
  BY <1>1
<1>3. ASSUME NEW i \in 1 .. n - 1
      PROVE  f[i + 1] = f[i] \o seqs[i + 1]
  <2>1. i + 1 \in 1 .. n /\ i + 1 # 1 /\ (i + 1) - 1 = i
    OBVIOUS
  <2>2. f[i + 1] = f[(i + 1) - 1] \o seqs[i + 1]
    BY <1>1, <2>1
  <2>3. QED
    BY <2>1, <2>2
<1>4. QED
  BY <1>2, <1>3

(* Concatenation: where the elements come from.                            *)
LEMMA Concat ==
  ASSUME NEW T, NEW a \in Seq(T), NEW b \in Seq(T)
  PROVE  /\ a \o b \in Seq(T)
         /\ Len(a \o b) = Len(a) + Len(b)
         /\ Len(a) \in Nat /\ Len(b) \in Nat
         /\ \A x \in 1 .. Len(a) : (a \o b)[x] = a[x]
         /\ \A x \in 1 .. Len(b) : (a \o b)[Len(a) + x] = b[x]
  OBVIOUS

LEMMA FlattensType ==
  ASSUME NEW T, NEW seqs \in Seq(Seq(T)), NEW n \in Nat, n <= Len(seqs), NEW f, Flattens(f, seqs, n)
  PROVE  \A i \in 1 .. n : f[i] \in Seq(T)
<1> DEFINE S == {i \in Nat : i \in 1 .. n => f[i] \in Seq(T)}
<1>1. 0 \in S
  OBVIOUS
<1>2. ASSUME NEW i \in Nat, i \in S
      PROVE  i + 1 \in S
  <2>1. CASE i + 1 \notin 1 .. n
    BY <2>1
  <2>2. CASE i + 1 \in 1 .. n
    <3>1. seqs[i + 1] \in Seq(T)
      BY <2>2
    <3>2. CASE i = 0
      <4>1. i + 1 = 1 /\ n # 0
        BY <2>2, <3>2
      <4>2. f[1] = seqs[1]
        BY <4>1, FlattensStep, ZenonT(40)
      <4>3. f[i + 1] \in Seq(T)
        BY <3>1, <4>1, <4>2
      <4>4. QED
        BY <4>3
    <3>3. CASE i # 0
      <4>1. i \in 1 .. n - 1 /\ i \in 1 .. n
        BY <2>2, <3>3
      <4>2. f[i + 1] = f[i] \o seqs[i + 1] /\ f[i] \in Seq(T)
        BY <4>1, <1>2, FlattensStep
      <4>3. f[i + 1] \in Seq(T)
        BY <3>1, <4>2, Concat
      <4>4. QED
        BY <4>3
    <3>4. QED
      BY <3>2, <3>3
  <2>3. QED
    BY <2>1, <2>2
<1> HIDE DEF S
<1>3. \A i \in Nat : i \in S
  BY <1>1, <1>2, AllNaturals
<1>4. QED
  BY <1>3 DEF S

LEMMA FlattensGrows ==
  ASSUME NEW T, NEW seqs \in Seq(Seq(T)), NEW n \in Nat, n <= Len(seqs), NEW f, Flattens(f, seqs, n),
         NEW i \in 1 .. n
  PROVE  \A k \in i .. n : /\ Len(f[i]) <= Len(f[k])
                           /\ \A x \in 1 .. Len(f[i]) : f[k][x] = f[i][x]
<1> DEFINE P(k) == k \in i .. n => /\ Len(f[i]) <= Len(f[k])
                                   /\ \A x \in 1 .. Len(f[i]) : f[k][x] = f[i][x]
<1> DEFINE S == {k \in Nat : P(k)}
<1>0. \A k \in 1 .. n : f[k] \in Seq(T) /\ Len(f[k]) \in Nat
  BY FlattensType
<1>1. 0 \in S
  OBVIOUS
<1>2. ASSUME NEW k \in Nat, k \in S
      PROVE  k + 1 \in S
  <2>1. CASE k + 1 \notin i .. n
    BY <2>1
  <2>2. CASE k + 1 = i
    BY <2>2, <1>0
  <2>3. CASE k + 1 \in i .. n /\ k + 1 # i
    <3>1. k \in i .. n /\ k \in 1 .. n - 1 /\ k \in 1 .. n /\ k + 1 \in 1 .. n
      BY <2>3
    <3>2. f[k + 1] = f[k] \o seqs[k + 1]
      BY <3>1, FlattensStep
    <3>3. seqs[k + 1] \in Seq(T) /\ f[k] \in Seq(T) /\ f[i] \in Seq(T)
      BY <3>1, <1>0
    <3>4. Len(f[i]) <= Len(f[k]) /\ \A x \in 1 .. Len(f[i]) : f[k][x] = f[i][x]
      BY <3>1, <1>2
    <3>5. Len(f[k]) <= Len(f[k + 1]) /\ \A x \in 1 .. Len(f[k]) : f[k + 1][x] = f[k][x]
      <4> DEFINE a == f[k]
                 b == seqs[k + 1]
      <4>1. a \in Seq(T) /\ b \in Seq(T) /\ f[k + 1] = a \o b
        BY <3>2, <3>3
      <4> HIDE DEF a, b
      <4>2. Len(a) <= Len(a \o b) /\ \A x \in 1 .. Len(a) : (a \o b)[x] = a[x]
        BY <4>1, Concat
      <4>3. QED
        BY <4>1, <4>2 DEF a
    <3>6. Len(f[i]) \in Nat /\ Len(f[k]) \in Nat /\ Len(f[k + 1]) \in Nat
      BY <1>0, <3>1
    <3>7. Len(f[i]) <= Len(f[k + 1]) /\ \A x \in 1 .. Len(f[i]) : f[k + 1][x] = f[i][x]
      BY <3>4, <3>5, <3>6, SMTT(40)
    <3>8. QED
      BY <3>7
  <2>4. QED
    BY <2>1, <2>2, <2>3
<1> HIDE DEF S
<1>3. \A k \in Nat : k \in S
  BY <1>1, <1>2, AllNaturals
<1>4. QED
  BY <1>3 DEF S

(* FlattenSeq of none, and of one sequence more.                           *)
LEMMA FlattenEmpty == FlattenSeq(<< >>) = << >>
  BY DEF FlattenSeq

LEMMA FlattenType ==
  ASSUME NEW T, NEW seqs \in Seq(Seq(T))
  PROVE  FlattenSeq(seqs) \in Seq(T)
<1>1. CASE seqs = << >>
  <2>1. << >> \in Seq(T)
    OBVIOUS
  <2>2. QED
    BY <1>1, <2>1, FlattenEmpty
<1>2. CASE seqs # << >>
  <2>1. Len(seqs) \in Nat /\ Len(seqs) # 0
    BY <1>2
  <2>2. PICK f : Flattens(f, seqs, Len(seqs)) /\ FlattenSeq(seqs) = f[Len(seqs)]
    BY <2>1, FlattenIs
  <2>3. QED
    BY <2>1, <2>2, FlattensType
<1>3. QED
  BY <1>1, <1>2

(* Where a flattening puts the k-th sequence: after the ones before it.    *)
Before(f, k) == IF k = 1 THEN 0 ELSE Len(f[k - 1])

LEMMA FlattensPlace ==
  ASSUME NEW T, NEW seqs \in Seq(Seq(T)), NEW f, Flattens(f, seqs, Len(seqs)),
         NEW k \in 1 .. Len(seqs)
  PROVE  /\ seqs[k] \in Seq(T) /\ f[k] \in Seq(T) /\ Before(f, k) \in Nat
         /\ Len(f[k]) = Before(f, k) + Len(seqs[k])
         /\ \A x \in 1 .. Len(seqs[k]) : f[k][Before(f, k) + x] = seqs[k][x]
<1> DEFINE n == Len(seqs)
<1>1. n \in Nat /\ n # 0 /\ n <= Len(seqs) /\ seqs[k] \in Seq(T)
  OBVIOUS
<1>2. \A i \in 1 .. n : f[i] \in Seq(T)
  BY <1>1, FlattensType
<1>3. CASE k = 1
  <2>1. f[k] = seqs[k]
    BY <1>1, <1>3, FlattensStep
  <2>2. Before(f, k) = 0
    BY <1>3 DEF Before
  <2> DEFINE b == seqs[k]
  <2>3. b \in Seq(T)
    BY <1>1
  <2> HIDE DEF b
  <2>4. Len(b) \in Nat /\ Len(b) = 0 + Len(b) /\ \A x \in 1 .. Len(b) : b[0 + x] = b[x]
    BY <2>3
  <2>5. QED
    BY <2>1, <2>2, <2>3, <2>4 DEF b
<1>4. CASE k # 1
  <2>1. k - 1 \in 1 .. n - 1 /\ k - 1 \in 1 .. n /\ (k - 1) + 1 = k
    BY <1>4
  <2> DEFINE a == f[k - 1]
             b == seqs[k]
  <2>2. f[k] = a \o b
    BY <1>1, <2>1, FlattensStep, ZenonT(40)
  <2>3. a \in Seq(T) /\ b \in Seq(T)
    BY <1>1, <1>2, <2>1
  <2>4. Before(f, k) = Len(a)
    BY <1>4 DEF Before
  <2> HIDE DEF a
  <2> HIDE DEF b
  <2>5. /\ a \o b \in Seq(T) /\ Len(a) \in Nat
        /\ Len(a \o b) = Len(a) + Len(b)
        /\ \A x \in 1 .. Len(b) : (a \o b)[Len(a) + x] = b[x]
    BY <2>3, Concat
  <2>6. QED
    BY <2>2, <2>3, <2>4, <2>5 DEF b
<1>5. QED
  BY <1>3, <1>4

LEMMA FlattenPlace ==
  ASSUME NEW T, NEW seqs \in Seq(Seq(T)), NEW f, Flattens(f, seqs, Len(seqs)),
         NEW k \in 1 .. Len(seqs)
  PROVE  LET flat == f[Len(seqs)]
         IN /\ Before(f, k) + Len(seqs[k]) <= Len(flat)
            /\ \A x \in 1 .. Len(seqs[k]) : flat[Before(f, k) + x] = seqs[k][x]
<1> DEFINE n == Len(seqs)
           flat == f[n]
<1>1. n \in Nat /\ n \in k .. n /\ n <= Len(seqs)
  OBVIOUS
<1>2. /\ Len(f[k]) <= Len(flat)
      /\ \A x \in 1 .. Len(f[k]) : flat[x] = f[k][x]
  BY <1>1, FlattensGrows, SMTT(40)
<1>3. /\ seqs[k] \in Seq(T) /\ Before(f, k) \in Nat
      /\ Len(f[k]) = Before(f, k) + Len(seqs[k])
      /\ \A x \in 1 .. Len(seqs[k]) : f[k][Before(f, k) + x] = seqs[k][x]
  BY FlattensPlace
<1>4. Len(seqs[k]) \in Nat
  BY <1>3
<1> HIDE DEF flat
<1>5. ASSUME NEW x \in 1 .. Len(seqs[k])
      PROVE  flat[Before(f, k) + x] = seqs[k][x]
  <2>1. Before(f, k) + x \in 1 .. Len(f[k])
    BY <1>3, <1>4
  <2>2. QED
    BY <1>2, <1>3, <2>1
<1>6. Before(f, k) + Len(seqs[k]) <= Len(flat)
  BY <1>2, <1>3
<1>7. QED
  BY <1>5, <1>6 DEF flat

(* A bounded set of naturals that is not empty has a largest element.      *)
LEMMA LargestOf ==
  ASSUME NEW n \in Nat, NEW S, S \subseteq 1 .. n, S # {}
  PROVE  \E k \in S : \A j \in S : k >= j
<1> DEFINE D == {x \in 0 .. n : n - x \in S}
<1>1. PICK s \in S : TRUE
  OBVIOUS
<1>2. n - s \in 0 .. n /\ n - (n - s) = s
  BY <1>1
<1>3. D # {} /\ D \subseteq Nat
  <2>1. n - s \in D
    BY <1>1, <1>2
  <2>2. D \subseteq 0 .. n
    OBVIOUS
  <2> HIDE DEF D
  <2>3. QED
    BY <2>1, <2>2
<1>4. PICK d \in D : \A e \in D : d <= e
  BY <1>3, SmallestOf
<1>5. \A j \in S : n - j \in D
  <2> SUFFICES ASSUME NEW j \in S PROVE n - j \in D
    OBVIOUS
  <2>1. n - j \in 0 .. n /\ n - (n - j) = j
    OBVIOUS
  <2>2. QED
    BY <2>1
<1>6. n - d \in S /\ d \in 0 .. n
  BY <1>4
<1>7. \A j \in S : d <= n - j /\ j \in 1 .. n
  BY <1>4, <1>5
<1>8. \A j \in S : n - d >= j
  BY <1>6, <1>7
<1>9. QED
  BY <1>6, <1>8

(* A sequence more is flattened onto the end.                              *)
LEMMA FlattenAppend ==
  ASSUME NEW T, NEW seqs \in Seq(Seq(T)), NEW x \in Seq(T)
  PROVE  FlattenSeq(Append(seqs, x)) = FlattenSeq(seqs) \o x
<1> DEFINE n == Len(seqs)
           more == Append(seqs, x)
<1>1. /\ n \in Nat /\ more \in Seq(Seq(T)) /\ Len(more) = n + 1
      /\ more[n + 1] = x /\ \A i \in 1 .. n : more[i] = seqs[i]
  OBVIOUS
<1> HIDE DEF more
<1>2. PICK h : Flattens(h, more, n + 1) /\ FlattenSeq(more) = h[n + 1]
  <2>1. Len(more) \in Nat /\ Len(more) # 0 /\ Len(more) = n + 1
    BY <1>1
  <2>2. QED
    BY <2>1, FlattenIs
<1>3. h[1] = more[1] /\ \A i \in 1 .. n : h[i + 1] = h[i] \o more[i + 1]
  <2> DEFINE m == n + 1
  <2>1. m \in Nat /\ m # 0 /\ 1 .. m - 1 = 1 .. n /\ Flattens(h, more, m)
    BY <1>1, <1>2
  <2> HIDE DEF m
  <2>2. h[1] = more[1]
    <3>1. 1 \in 1 .. m
      BY <2>1
    <3>2. QED
      BY <2>1, <3>1 DEF Flattens
  <2>3. \A i \in 1 .. m - 1 : h[i + 1] = h[i] \o more[i + 1]
    BY <2>1, FlattensStep
  <2>4. QED
    BY <2>1, <2>2, <2>3
<1>4. CASE seqs = << >>
  <2>1. n = 0 /\ FlattenSeq(seqs) = << >>
    BY <1>4, FlattenEmpty
  <2>2. h[n + 1] = x
    BY <1>1, <1>3, <2>1
  <2>3. << >> \o x = x
    OBVIOUS
  <2>4. QED
    BY <1>2, <2>1, <2>2, <2>3 DEF more
<1>5. CASE seqs # << >>
  <2>1. n # 0
    BY <1>5
  <2>2. PICK f : Flattens(f, seqs, n) /\ FlattenSeq(seqs) = f[n]
    BY <1>1, <2>1, FlattenIs
  <2> HIDE DEF n
  <2>3. f[1] = seqs[1] /\ \A i \in 1 .. n - 1 : f[i + 1] = f[i] \o seqs[i + 1]
    <3>1. n \in Nat /\ Flattens(f, seqs, n)
      BY <1>1, <2>2
    <3>2. f[1] = seqs[1]
      <4>1. 1 \in 1 .. n
        BY <2>1, <3>1
      <4>2. QED
        BY <3>1, <4>1 DEF Flattens
    <3>3. \A i \in 1 .. n - 1 : f[i + 1] = f[i] \o seqs[i + 1]
      BY <3>1, FlattensStep
    <3>4. QED
      BY <3>2, <3>3
  <2> DEFINE S == {i \in Nat : i + 1 \in 1 .. n => f[i + 1] = h[i + 1]}
  <2>4. 0 \in S
    BY <1>1, <1>3, <2>1, <2>3
  <2>5. ASSUME NEW i \in Nat, i \in S
        PROVE  i + 1 \in S
    <3>1. CASE (i + 1) + 1 \notin 1 .. n
      BY <3>1
    <3>2. CASE (i + 1) + 1 \in 1 .. n
      <4>1. i + 1 \in 1 .. n /\ i + 1 \in 1 .. n - 1
        BY <1>1, <3>2
      <4>2. f[i + 1] = h[i + 1]
        BY <2>5, <4>1
      <4>3. f[(i + 1) + 1] = f[i + 1] \o seqs[(i + 1) + 1]
        BY <2>3, <4>1
      <4>4. h[(i + 1) + 1] = h[i + 1] \o seqs[(i + 1) + 1]
        BY <1>1, <1>3, <3>2, <4>1
      <4>5. f[(i + 1) + 1] = h[(i + 1) + 1]
        BY <4>2, <4>3, <4>4
      <4>6. QED
        BY <4>5
    <3>3. QED
      BY <3>1, <3>2
  <2> HIDE DEF S
  <2>6. \A i \in Nat : i \in S
    BY <2>4, <2>5, AllNaturals
  <2>7. n - 1 \in Nat /\ (n - 1) + 1 = n /\ n \in 1 .. n
    BY <1>1, <2>1
  <2>8. n - 1 \in S
    BY <2>6, <2>7
  <2>9. f[n] = h[n]
    BY <2>7, <2>8 DEF S
  <2>10. h[n + 1] = h[n] \o x
    BY <1>1, <1>3, <2>7
  <2>11. QED
    BY <1>2, <2>2, <2>9, <2>10 DEF more
<1>6. QED
  BY <1>4, <1>5

-----------------------------------------------------------------------------
(***************************************************************************)
(* Folds.  FoldLeft(op, base, seq) is g[DOMAIN seq] of a recursive         *)
(* function g on sets of positions, which takes the largest one last.      *)
(***************************************************************************)
LEMMA MaxOf ==
  ASSUME NEW n \in Nat, NEW s \in SUBSET (1 .. n), s # {}
  PROVE  Max(s) \in s /\ Max(s) \in 1 .. n /\ \A j \in s : Max(s) >= j
<1>1. \E k \in s : \A j \in s : k >= j
  BY LargestOf
<1>2. QED
  BY <1>1 DEF Max

(* The positions up to k.                                                  *)
LEMMA MaxPrefix ==
  ASSUME NEW k \in Nat, k # 0
  PROVE  1 .. k # {} /\ Max(1 .. k) = k /\ (1 .. k) \ {k} = 1 .. k - 1
<1>1. 1 .. k # {} /\ k \in 1 .. k /\ 1 .. k \in SUBSET (1 .. k)
  OBVIOUS
<1>2. Max(1 .. k) \in 1 .. k /\ Max(1 .. k) >= k
  BY <1>1, MaxOf
<1>3. QED
  BY <1>1, <1>2

(* The recursion of a fold whose step is the function F.                   *)
Iterates(g, F, base, seq, n) ==
  g = [s \in SUBSET (1 .. n) |->
         IF s = {} THEN base ELSE F[<<g[s \ {Max(s)}], seq[Max(s)]>>]]

LEMMA IterateExists ==
  ASSUME NEW F, NEW base, NEW seq
  PROVE  \A n \in Nat : \E g : Iterates(g, F, base, seq, n)
<1> DEFINE S == {n \in Nat : \E g : Iterates(g, F, base, seq, n)}
<1>1. 0 \in S
  <2> DEFINE g == [s \in SUBSET (1 .. 0) |-> base]
  <2>1. \A s \in SUBSET (1 .. 0) : s = {}
    OBVIOUS
  <2>2. Iterates(g, F, base, seq, 0)
    BY <2>1 DEF Iterates
  <2>3. QED
    BY <2>2
<1>2. ASSUME NEW n \in Nat, n \in S
      PROVE  n + 1 \in S
  <2>1. PICK g : Iterates(g, F, base, seq, n)
    BY <1>2
  <2> DEFINE h == [s \in SUBSET (1 .. n + 1) |->
                     IF n + 1 \in s THEN F[<<g[s \ {n + 1}], seq[n + 1]>>] ELSE g[s]]
  <2>2. ASSUME NEW s \in SUBSET (1 .. n + 1)
        PROVE  h[s] = IF s = {} THEN base ELSE F[<<h[s \ {Max(s)}], seq[Max(s)]>>]
    <3>1. CASE n + 1 \in s
      <4>1. s # {} /\ n + 1 \in Nat
        BY <3>1
      <4>2. Max(s) = n + 1
        <5>1. Max(s) \in 1 .. n + 1 /\ Max(s) >= n + 1
          BY <3>1, <4>1, MaxOf
        <5>2. QED
          BY <5>1
      <4>3. s \ {n + 1} \in SUBSET (1 .. n + 1) /\ n + 1 \notin s \ {n + 1}
        OBVIOUS
      <4>4. h[s \ {n + 1}] = g[s \ {n + 1}]
        BY <4>3
      <4>5. h[s] = F[<<g[s \ {n + 1}], seq[n + 1]>>]
        BY <3>1
      <4>6. QED
        BY <4>1, <4>2, <4>4, <4>5
    <3>2. CASE n + 1 \notin s
      <4>1. s \in SUBSET (1 .. n)
        BY <3>2
      <4>2. h[s] = g[s]
        BY <3>2
      <4>3. g[s] = IF s = {} THEN base ELSE F[<<g[s \ {Max(s)}], seq[Max(s)]>>]
        BY <2>1, <4>1 DEF Iterates
      <4>4. s \ {Max(s)} \in SUBSET (1 .. n + 1) /\ n + 1 \notin s \ {Max(s)}
        BY <3>2
      <4>5. h[s \ {Max(s)}] = g[s \ {Max(s)}]
        BY <4>4
      <4>6. QED
        BY <4>2, <4>3, <4>5
    <3>3. QED
      BY <3>1, <3>2
  <2>3. h = [s \in SUBSET (1 .. n + 1) |-> h[s]]
    OBVIOUS
  <2> HIDE DEF h
  <2>4. Iterates(h, F, base, seq, n + 1)
    <3> DEFINE r == [s \in SUBSET (1 .. n + 1) |->
                       IF s = {} THEN base ELSE F[<<h[s \ {Max(s)}], seq[Max(s)]>>]]
    <3>1. h = r
      BY <2>2, <2>3
    <3>2. QED
      BY <3>1 DEF Iterates
  <2>5. QED
    BY <2>4
<1> HIDE DEF S
<1>3. \A n \in Nat : n \in S
  BY <1>1, <1>2, AllNaturals
<1>4. QED
  BY <1>3 DEF S

LEMMA IterateType ==
  ASSUME NEW D, NEW X, NEW F \in [D \X X -> D], NEW base \in D, NEW n \in Nat, NEW seq,
         \A i \in 1 .. n : seq[i] \in X, NEW g, Iterates(g, F, base, seq, n)
  PROVE  \A s \in SUBSET (1 .. n) : g[s] \in D
<1>0. \A s \in SUBSET (1 .. n) :
        g[s] = IF s = {} THEN base ELSE F[<<g[s \ {Max(s)}], seq[Max(s)]>>]
  BY DEF Iterates
<1> DEFINE S == {k \in Nat : \A s \in SUBSET (1 .. n) : s \subseteq 1 .. k => g[s] \in D}
<1>1. 0 \in S
  <2> SUFFICES ASSUME NEW s \in SUBSET (1 .. n), s \subseteq 1 .. 0 PROVE g[s] \in D
    OBVIOUS
  <2>1. s = {}
    OBVIOUS
  <2>2. QED
    BY <1>0, <2>1
<1>2. ASSUME NEW k \in Nat, k \in S
      PROVE  k + 1 \in S
  <2> SUFFICES ASSUME NEW s \in SUBSET (1 .. n), s \subseteq 1 .. k + 1 PROVE g[s] \in D
    OBVIOUS
  <2>1. CASE s = {}
    BY <1>0, <2>1
  <2>2. CASE s # {}
    <3>1. Max(s) \in s /\ Max(s) \in 1 .. n /\ \A j \in s : Max(s) >= j
      BY <2>2, MaxOf
    <3>2. s \ {Max(s)} \subseteq 1 .. k
      <4> SUFFICES ASSUME NEW j \in s, j # Max(s) PROVE j \in 1 .. k
        OBVIOUS
      <4>1. j <= Max(s) /\ Max(s) \in 1 .. k + 1 /\ j \in 1 .. k + 1
        BY <3>1
      <4>2. QED
        BY <4>1
    <3>3. s \ {Max(s)} \in SUBSET (1 .. n)
      OBVIOUS
    <3>4. g[s \ {Max(s)}] \in D
      BY <1>2, <3>2, <3>3
    <3>5. seq[Max(s)] \in X
      BY <3>1
    <3>6. <<g[s \ {Max(s)}], seq[Max(s)]>> \in D \X X
      BY <3>4, <3>5
    <3>7. F[<<g[s \ {Max(s)}], seq[Max(s)]>>] \in D
      BY <3>6
    <3>8. QED
      BY <1>0, <2>2, <3>7
  <2>3. QED
    BY <2>1, <2>2
<1> HIDE DEF S
<1>3. n \in S
  BY <1>1, <1>2, AllNaturals
<1>4. QED
  BY <1>3 DEF S

-----------------------------------------------------------------------------
(* A sequence is its last element behind the others.                       *)
LEMMA SplitLast ==
  ASSUME NEW T, NEW n \in Nat, NEW s \in Seq(T), Len(s) = n + 1
  PROVE  LET front == [k \in 1 .. n |-> s[k]]
         IN /\ front \in Seq(T) /\ Len(front) = n /\ s[n + 1] \in T
            /\ s = Append(front, s[n + 1])
<1> DEFINE front == [k \in 1 .. n |-> s[k]]
<1>1. \A k \in 1 .. n + 1 : s[k] \in T
  OBVIOUS
<1>2. n + 1 \in 1 .. n + 1 /\ \A k \in 1 .. n : k \in 1 .. n + 1
  OBVIOUS
<1>3. front \in [1 .. n -> T]
  BY <1>1, <1>2
<1>4. \A k \in 1 .. n : front[k] = s[k]
  OBVIOUS
<1> HIDE DEF front
<1>5. front \in Seq(T) /\ Len(front) = n
  BY <1>3
<1> DEFINE a == Append(front, s[n + 1])
<1>6. /\ a \in Seq(T) /\ Len(a) = n + 1 /\ a[n + 1] = s[n + 1]
      /\ \A k \in 1 .. n : a[k] = front[k]
  BY <1>1, <1>2, <1>5
<1>7. \A k \in 1 .. n + 1 : a[k] = s[k]
  <2>1. \A k \in 1 .. n + 1 : k = n + 1 \/ k \in 1 .. n
    OBVIOUS
  <2> HIDE DEF a
  <2>2. QED
    BY <1>4, <1>6, <2>1
<1> HIDE DEF a
<1>8. a = s
  BY <1>6, <1>7
<1>9. QED
  BY <1>1, <1>2, <1>5, <1>8 DEF a, front

(* Two sequences that agree everywhere are one.                            *)
LEMMA SameSeq ==
  ASSUME NEW A, NEW B, NEW s \in Seq(A), NEW t \in Seq(B), Len(s) = Len(t),
         \A k \in 1 .. Len(s) : s[k] = t[k]
  PROVE  s = t
<1>1. DOMAIN s = 1 .. Len(s) /\ DOMAIN t = 1 .. Len(s)
  OBVIOUS
<1>2. s = [k \in DOMAIN s |-> s[k]] /\ t = [k \in DOMAIN t |-> t[k]]
  OBVIOUS
<1>3. QED
  BY <1>1, <1>2

LEMMA ConcatAppend ==
  ASSUME NEW T, NEW a \in Seq(T), NEW b \in Seq(T), NEW x \in T
  PROVE  a \o Append(b, x) = Append(a \o b, x)
<1> DEFINE l == a \o Append(b, x)
           r == Append(a \o b, x)
<1>1. Append(b, x) \in Seq(T) /\ Len(Append(b, x)) = Len(b) + 1 /\ a \o b \in Seq(T)
  OBVIOUS
<1>2. l \in Seq(T) /\ r \in Seq(T) /\ Len(l) = Len(a) + (Len(b) + 1) /\ Len(r) = Len(a) + Len(b) + 1
  BY <1>1
<1>3. \A k \in 1 .. Len(l) : l[k] = r[k]
  BY <1>1, <1>2
<1> HIDE DEF l, r
<1>4. Len(l) = Len(r)
  BY <1>2
<1>5. l = r
  BY <1>2, <1>3, <1>4, SameSeq
<1>6. QED
  BY <1>5 DEF l, r

LEMMA ConcatAssoc ==
  ASSUME NEW T, NEW a \in Seq(T), NEW b \in Seq(T), NEW d \in Seq(T)
  PROVE  a \o (b \o d) = (a \o b) \o d
<1> DEFINE l == a \o (b \o d)
           r == (a \o b) \o d
<1>1. /\ b \o d \in Seq(T) /\ Len(b \o d) = Len(b) + Len(d)
      /\ a \o b \in Seq(T) /\ Len(a \o b) = Len(a) + Len(b)
  OBVIOUS
<1>2. /\ l \in Seq(T) /\ r \in Seq(T) /\ Len(l) = Len(a) + (Len(b) + Len(d))
      /\ Len(r) = Len(a) + Len(b) + Len(d)
  BY <1>1
<1>3. \A k \in 1 .. Len(l) : l[k] = r[k]
  BY <1>1, <1>2
<1> HIDE DEF l, r
<1>4. Len(l) = Len(r)
  BY <1>2
<1>5. l = r
  BY <1>2, <1>3, <1>4, SameSeq
<1>6. QED
  BY <1>5 DEF l, r

LEMMA FlattenConcat ==
  ASSUME NEW T, NEW a \in Seq(Seq(T)), NEW b \in Seq(Seq(T))
  PROVE  FlattenSeq(a \o b) = FlattenSeq(a) \o FlattenSeq(b)
<1> DEFINE S == {n \in Nat : \A x \in Seq(Seq(T)) :
                   Len(x) = n => FlattenSeq(a \o x) = FlattenSeq(a) \o FlattenSeq(x)}
<1>0. FlattenSeq(a) \in Seq(T)
  BY FlattenType
<1>1. 0 \in S
  <2> SUFFICES ASSUME NEW x \in Seq(Seq(T)), Len(x) = 0
               PROVE  FlattenSeq(a \o x) = FlattenSeq(a) \o FlattenSeq(x)
    OBVIOUS
  <2>1. x = << >> /\ a \o << >> = a
    OBVIOUS
  <2>2. FlattenSeq(a) \o << >> = FlattenSeq(a)
    BY <1>0
  <2>3. QED
    BY <2>1, <2>2, FlattenEmpty
<1>2. ASSUME NEW n \in Nat, n \in S
      PROVE  n + 1 \in S
  <2> SUFFICES ASSUME NEW x \in Seq(Seq(T)), Len(x) = n + 1
               PROVE  FlattenSeq(a \o x) = FlattenSeq(a) \o FlattenSeq(x)
    OBVIOUS
  <2> DEFINE f == [k \in 1 .. n |-> x[k]]
             y == x[n + 1]
  <2>1. f \in Seq(Seq(T)) /\ Len(f) = n /\ y \in Seq(T) /\ x = Append(f, y)
    BY SplitLast
  <2> HIDE DEF f, y
  <2>2. FlattenSeq(a \o f) = FlattenSeq(a) \o FlattenSeq(f)
    BY <1>2, <2>1
  <2>3. a \o x = Append(a \o f, y)
    BY <2>1, ConcatAppend
  <2>4. a \o f \in Seq(Seq(T))
    BY <2>1
  <2>5. FlattenSeq(a \o x) = FlattenSeq(a \o f) \o y
    BY <2>1, <2>3, <2>4, FlattenAppend
  <2>6. FlattenSeq(x) = FlattenSeq(f) \o y
    BY <2>1, FlattenAppend
  <2>7. FlattenSeq(f) \in Seq(T)
    BY <2>1, FlattenType
  <2>8. FlattenSeq(a) \o (FlattenSeq(f) \o y) = (FlattenSeq(a) \o FlattenSeq(f)) \o y
    BY <1>0, <2>1, <2>7, ConcatAssoc, SMTT(40)
  <2>9. QED
    BY <2>2, <2>5, <2>6, <2>8
<1> HIDE DEF S
<1>3. \A n \in Nat : n \in S
  BY <1>1, <1>2, AllNaturals
<1>4. QED
  BY <1>3 DEF S

LEMMA FlattenOne ==
  ASSUME NEW T, NEW x \in Seq(T)
  PROVE  FlattenSeq(<<x>>) = x
<1>1. << >> \in Seq(Seq(T)) /\ Append(<< >>, x) = <<x>> /\ << >> \o x = x
  OBVIOUS
<1>2. QED
  BY <1>1, FlattenAppend, FlattenEmpty

LEMMA FlattenSingletons ==
  ASSUME NEW T, NEW s \in Seq(T)
  PROVE  LET each == [k \in 1 .. Len(s) |-> <<s[k]>>]
         IN each \in Seq(Seq(T)) /\ Len(each) = Len(s) /\ FlattenSeq(each) = s
<1> DEFINE Each(x) == [k \in 1 .. Len(x) |-> <<x[k]>>]
           S == {n \in Nat : \A x \in Seq(T) : Len(x) = n => FlattenSeq(Each(x)) = x}
<1>1. \A x \in Seq(T) : Each(x) \in Seq(Seq(T)) /\ Len(Each(x)) = Len(x)
  <2> SUFFICES ASSUME NEW x \in Seq(T) PROVE Each(x) \in Seq(Seq(T)) /\ Len(Each(x)) = Len(x)
    OBVIOUS
  <2>1. Each(x) \in [1 .. Len(x) -> Seq(T)] /\ Len(x) \in Nat
    OBVIOUS
  <2> HIDE DEF Each
  <2>2. QED
    BY <2>1
<1>2. 0 \in S
  <2> SUFFICES ASSUME NEW x \in Seq(T), Len(x) = 0 PROVE FlattenSeq(Each(x)) = x
    OBVIOUS
  <2>1. Each(x) \in Seq(Seq(T)) /\ Len(Each(x)) = 0
    BY <1>1
  <2> HIDE DEF Each
  <2>2. Each(x) = << >> /\ x = << >>
    BY <2>1
  <2>3. QED
    BY <2>2, FlattenEmpty
<1>3. ASSUME NEW n \in Nat, n \in S
      PROVE  n + 1 \in S
  <2> SUFFICES ASSUME NEW x \in Seq(T), Len(x) = n + 1 PROVE FlattenSeq(Each(x)) = x
    OBVIOUS
  <2> DEFINE f == [k \in 1 .. n |-> x[k]]
             y == x[n + 1]
  <2>1. f \in Seq(T) /\ Len(f) = n /\ y \in T /\ x = Append(f, y)
    BY SplitLast
  <2>2. \A k \in 1 .. n : f[k] = x[k]
    OBVIOUS
  <2> HIDE DEF f, y
  <2>3. /\ Each(f) \in Seq(Seq(T)) /\ Len(Each(f)) = n
        /\ Each(x) \in Seq(Seq(T)) /\ Len(Each(x)) = n + 1
    BY <1>1, <2>1
  <2>4. \A k \in 1 .. n : Each(f)[k] = Each(x)[k]
    BY <2>1, <2>2
  <2>5. Each(x)[n + 1] = <<y>> /\ <<y>> \in Seq(T)
    BY <2>1 DEF y
  <2>6. FlattenSeq(Each(f)) = f
    BY <1>3, <2>1
  <2> HIDE DEF Each
  <2> DEFINE a == Append(Each(f), <<y>>)
  <2>7. /\ a \in Seq(Seq(T)) /\ Len(a) = n + 1 /\ a[n + 1] = <<y>>
        /\ \A k \in 1 .. n : a[k] = Each(f)[k]
    BY <2>3, <2>5
  <2>8. \A k \in 1 .. n + 1 : k = n + 1 \/ k \in 1 .. n
    OBVIOUS
  <2> HIDE DEF a
  <2>9. \A k \in 1 .. n + 1 : a[k] = Each(x)[k]
    BY <2>4, <2>5, <2>7, <2>8
  <2>10. a = Each(x)
    BY <2>3, <2>7, <2>9, SameSeq
  <2>11. FlattenSeq(Append(Each(f), <<y>>)) = FlattenSeq(Each(f)) \o <<y>>
    BY <2>3, <2>5, FlattenAppend
  <2>12. f \o <<y>> = Append(f, y)
    BY <2>1
  <2>13. QED
    BY <2>1, <2>6, <2>10, <2>11, <2>12 DEF a
<1> HIDE DEF S
<1>4. \A n \in Nat : n \in S
  BY <1>2, <1>3, AllNaturals
<1>5. FlattenSeq(Each(s)) = s
  BY <1>4 DEF S
<1>6. QED
  BY <1>1, <1>5

-----------------------------------------------------------------------------
(* Sequences of one length whose elements are pairwise in R.               *)
Paired(a, b, R) == Len(a) = Len(b) /\ \A k \in 1 .. Len(a) : <<a[k], b[k]>> \in R

LEMMA PairedConcat ==
  ASSUME NEW A, NEW B, NEW R, NEW a \in Seq(A), NEW b \in Seq(B), NEW x \in Seq(A), NEW y \in Seq(B),
         Paired(a, b, R), Paired(x, y, R)
  PROVE  Paired(a \o x, b \o y, R)
<1> DEFINE n == Len(a)
           m == Len(x)
<1>1. /\ n = Len(b) /\ m = Len(y) /\ n \in Nat /\ m \in Nat
      /\ \A k \in 1 .. n : <<a[k], b[k]>> \in R
      /\ \A k \in 1 .. m : <<x[k], y[k]>> \in R
  BY DEF Paired
<1>2. /\ Len(a \o x) = n + m
      /\ \A k \in 1 .. n : (a \o x)[k] = a[k]
      /\ \A k \in 1 .. m : (a \o x)[n + k] = x[k]
  BY Concat
<1>3. /\ Len(b \o y) = Len(b) + Len(y)
      /\ \A k \in 1 .. Len(b) : (b \o y)[k] = b[k]
      /\ \A k \in 1 .. Len(y) : (b \o y)[Len(b) + k] = y[k]
  BY Concat
<1> HIDE DEF n, m
<1>4. ASSUME NEW k \in 1 .. n + m
      PROVE  <<(a \o x)[k], (b \o y)[k]>> \in R
  <2>1. CASE k \in 1 .. n
    BY <1>1, <1>2, <1>3, <2>1
  <2>2. CASE k > n
    <3>1. k - n \in 1 .. m /\ k = n + (k - n)
      BY <1>1, <2>2
    <3>2. PICK j \in 1 .. m : k = n + j
      BY <3>1
    <3>3. (a \o x)[k] = x[j] /\ (b \o y)[k] = y[j]
      BY <1>1, <1>2, <1>3, <3>2
    <3>4. QED
      BY <1>1, <3>3
  <2>3. k \in 1 .. n \/ k > n
    BY <1>1
  <2>4. QED
    BY <2>1, <2>2, <2>3
<1>5. QED
  BY <1>1, <1>2, <1>3, <1>4 DEF Paired

(* What is paired stays paired in a larger relation.                       *)
LEMMA PairedWidens ==
  ASSUME NEW R, NEW Q, R \subseteq Q, NEW a, NEW b, Paired(a, b, R)
  PROVE  Paired(a, b, Q)
  BY DEF Paired

LEMMA PairedOne ==
  ASSUME NEW R, NEW x, NEW y, <<x, y>> \in R
  PROVE  Paired(<<x>>, <<y>>, R)
<1>1. Len(<<x>>) = 1 /\ Len(<<y>>) = 1 /\ <<x>>[1] = x /\ <<y>>[1] = y /\ \A k \in 1 .. 1 : k = 1
  OBVIOUS
<1>2. QED
  BY <1>1 DEF Paired

(* Sequences of sequences that are paired twice over flatten to paired     *)
(* sequences.                                                              *)
PairedSeqs(A, B, R) == {p \in Seq(A) \X Seq(B) : Paired(p[1], p[2], R)}

LEMMA PairedFlatten ==
  ASSUME NEW A, NEW B, NEW R, NEW a \in Seq(Seq(A)), NEW b \in Seq(Seq(B)),
         Paired(a, b, PairedSeqs(A, B, R))
  PROVE  Paired(FlattenSeq(a), FlattenSeq(b), R)
<1> DEFINE Q == PairedSeqs(A, B, R)
           SA == Seq(A)
           SB == Seq(B)
           S == {n \in Nat : \A x \in Seq(SA), y \in Seq(SB) :
                   Len(x) = n /\ Paired(x, y, Q) => Paired(FlattenSeq(x), FlattenSeq(y), R)}
<1>0. \A s, t : <<s, t>> \in Q => s \in SA /\ t \in SB /\ Paired(s, t, R)
  BY DEF PairedSeqs
<1> HIDE DEF Q
<1>1. 0 \in S
  <2> SUFFICES ASSUME NEW x \in Seq(SA), NEW y \in Seq(SB), Len(x) = 0, Paired(x, y, Q)
               PROVE  Paired(FlattenSeq(x), FlattenSeq(y), R)
    OBVIOUS
  <2>1. Len(y) = 0
    BY DEF Paired
  <2> HIDE DEF SA, SB
  <2>2. x = << >> /\ y = << >>
    BY <2>1
  <2>3. Paired(<< >>, << >>, R)
    BY DEF Paired
  <2>4. QED
    BY <2>2, <2>3, FlattenEmpty
<1>2. ASSUME NEW n \in Nat, n \in S
      PROVE  n + 1 \in S
  <2> SUFFICES ASSUME NEW x \in Seq(SA), NEW y \in Seq(SB), Len(x) = n + 1, Paired(x, y, Q)
               PROVE  Paired(FlattenSeq(x), FlattenSeq(y), R)
    OBVIOUS
  <2> DEFINE f == [k \in 1 .. n |-> x[k]]
             g == [k \in 1 .. n |-> y[k]]
  <2> HIDE DEF SA, SB
  <2>1. Len(y) = n + 1 /\ \A k \in 1 .. n + 1 : <<x[k], y[k]>> \in Q
    BY DEF Paired
  <2>2. f \in Seq(SA) /\ Len(f) = n /\ x[n + 1] \in SA /\ x = Append(f, x[n + 1])
    BY SplitLast
  <2>3. g \in Seq(SB) /\ Len(g) = n /\ y[n + 1] \in SB /\ y = Append(g, y[n + 1])
    BY <2>1, SplitLast
  <2>4. \A k \in 1 .. n : f[k] = x[k] /\ g[k] = y[k]
    OBVIOUS
  <2> HIDE DEF f, g
  <2>5. Paired(f, g, Q)
    BY <2>1, <2>2, <2>3, <2>4 DEF Paired
  <2>6. Paired(FlattenSeq(f), FlattenSeq(g), R)
    BY <1>2, <2>2, <2>3, <2>5
  <2>7. Paired(x[n + 1], y[n + 1], R)
    <3>1. n + 1 \in 1 .. n + 1
      OBVIOUS
    <3>2. <<x[n + 1], y[n + 1]>> \in Q
      BY <2>1, <3>1
    <3>3. QED
      BY <1>0, <3>2
  <2>8. FlattenSeq(f) \in Seq(A) /\ FlattenSeq(x) = FlattenSeq(f) \o x[n + 1] /\ x[n + 1] \in Seq(A)
    <3>1. f \in Seq(Seq(A)) /\ x[n + 1] \in Seq(A)
      BY <2>2 DEF SA
    <3>2. FlattenSeq(Append(f, x[n + 1])) = FlattenSeq(f) \o x[n + 1]
      BY <3>1, FlattenAppend
    <3>3. FlattenSeq(f) \in Seq(A)
      BY <3>1, FlattenType
    <3>4. QED
      BY <2>2, <3>1, <3>2, <3>3
  <2>9. FlattenSeq(g) \in Seq(B) /\ FlattenSeq(y) = FlattenSeq(g) \o y[n + 1] /\ y[n + 1] \in Seq(B)
    <3>1. g \in Seq(Seq(B)) /\ y[n + 1] \in Seq(B)
      BY <2>3 DEF SB
    <3>2. FlattenSeq(Append(g, y[n + 1])) = FlattenSeq(g) \o y[n + 1]
      BY <3>1, FlattenAppend
    <3>3. FlattenSeq(g) \in Seq(B)
      BY <3>1, FlattenType
    <3>4. QED
      BY <2>3, <3>1, <3>2, <3>3
  <2>10. Paired(FlattenSeq(f) \o x[n + 1], FlattenSeq(g) \o y[n + 1], R)
    BY <2>6, <2>7, <2>8, <2>9, PairedConcat
  <2>11. QED
    BY <2>8, <2>9, <2>10
<1> HIDE DEF S
<1>3. \A n \in Nat : n \in S
  BY <1>1, <1>2, AllNaturals
<1>4. QED
  BY <1>3 DEF S, Q

-----------------------------------------------------------------------------
(***************************************************************************)
(* Slices, short sequences, and sequences that never fall.                 *)
(***************************************************************************)
(* A slice of a sequence.                                                  *)
IsSlice(z, T, x, a, n) ==
  z \in Seq(T) /\ Len(z) = n /\ \A k \in 1 .. n : z[k] = x[a + k]

LEMMA Slice ==
  ASSUME NEW T, NEW x \in Seq(T), NEW a \in Nat, NEW b \in Nat, NEW n \in Nat, n = b - a, b <= Len(x)
  PROVE  IsSlice(SubSeq(x, a + 1, b), T, x, a, n)
<1> DEFINE s == SubSeq(x, a + 1, b)
<1>1. \A k \in 1 .. n : a + k \in 1 .. Len(x)
  OBVIOUS
<1>2. \A k \in 1 .. n : s[k] = x[a + 1 + k - 1] /\ x[a + k] \in T
  BY <1>1
<1>3. Len(s) = n
  OBVIOUS
<1>4. s \in Seq(T)
  BY <1>2
<1>5. \A k \in 1 .. n : a + 1 + k - 1 = a + k
  OBVIOUS
<1> HIDE DEF s
<1>6. QED
  BY <1>2, <1>3, <1>4, <1>5 DEF s, IsSlice

(* Sequences of at most two elements.                                      *)
LEMMA Tuples ==
  ASSUME NEW a, NEW b
  PROVE  /\ Len(<<a>>) = 1 /\ DOMAIN <<a>> = 1 .. 1 /\ <<a>>[1] = a
         /\ Len(<<a, b>>) = 2 /\ DOMAIN <<a, b>> = 1 .. 2 /\ <<a, b>>[1] = a /\ <<a, b>>[2] = b
         /\ << >> \o <<a>> = <<a>> /\ <<a>> \o << >> = <<a>>
         /\ <<a>> \o <<b>> = <<a, b>>
         /\ << >> \o << >> = << >> /\ Len(<< >>) = 0 /\ DOMAIN << >> = {}
<1>1. Len(<<a>>) = 1 /\ DOMAIN <<a>> = 1 .. 1 /\ <<a>>[1] = a
  OBVIOUS
<1>2. Len(<<a, b>>) = 2 /\ DOMAIN <<a, b>> = 1 .. 2
  OBVIOUS
<1>3. <<a, b>>[1] = a /\ <<a, b>>[2] = b
  OBVIOUS
<1>4. << >> \o <<a>> = <<a>> /\ <<a>> \o << >> = <<a>>
  OBVIOUS
<1>5. <<a>> \o <<b>> = <<a, b>>
  <2> DEFINE T == {a, b}
             s == <<a>> \o <<b>>
             t == <<a, b>>
  <2>1. <<a>> \in Seq(T) /\ <<b>> \in Seq(T) /\ t \in Seq(T)
    OBVIOUS
  <2>2. s \in Seq(T)
    BY <2>1
  <2>3. Len(s) = 2 /\ s[1] = a
    OBVIOUS
  <2>4. s[2] = b
    OBVIOUS
  <2>5. 1 .. 2 = {1, 2}
    OBVIOUS
  <2> HIDE DEF s, T
  <2>6. t[1] = a /\ t[2] = b /\ Len(t) = 2
    OBVIOUS
  <2> HIDE DEF t
  <2>7. \A k \in 1 .. 2 : s[k] = t[k]
    BY <2>3, <2>4, <2>5, <2>6
  <2>8. s = t
    BY <2>1, <2>2, <2>3, <2>6, <2>7, SameSeq
  <2>9. QED
    BY <2>8 DEF s, t
<1>6. << >> \o << >> = << >> /\ Len(<< >>) = 0 /\ DOMAIN << >> = {}
  OBVIOUS
<1>7. QED
  BY <1>1, <1>2, <1>3, <1>4, <1>5, <1>6, Zenon

LEMMA Upwards ==
  ASSUME NEW x \in Nat
  PROVE  /\ [k \in 1 .. 1 |-> x + k - 1] = << x >>
         /\ [k \in 1 .. 2 |-> x + k - 1] = << x, x + 1 >>
         /\ [k \in {} |-> x + k - 1] = << >>
<1>1. [k \in 1 .. 1 |-> x + k - 1] = << x >>
  OBVIOUS
<1>2. [k \in 1 .. 2 |-> x + k - 1] = << x, x + 1 >>
  OBVIOUS
<1>3. [k \in {} |-> x + k - 1] = << >>
  OBVIOUS
<1>4. QED
  BY <1>1, <1>2, <1>3

LEMMA JoinSlices ==
  ASSUME NEW T, NEW x \in Seq(T), NEW l \in Nat, l <= Len(x)
  PROVE  SubSeq(x, 1, l) \o SubSeq(x, l + 1, Len(x)) = x
<1> DEFINE n == Len(x)
           a == SubSeq(x, 1, l)
           b == SubSeq(x, l + 1, n)
           m == n - l
<1>1. n \in Nat /\ m \in Nat /\ l + m = n /\ l = l - 0 /\ 0 + 1 = 1 /\ 0 \in Nat
  OBVIOUS
<1>2. IsSlice(SubSeq(x, 0 + 1, l), T, x, 0, l)
  <2>1. 0 \in Nat /\ l = l - 0
    OBVIOUS
  <2>2. QED
    BY <2>1, Slice, Zenon
<1>3. a \in Seq(T) /\ Len(a) = l /\ \A k \in 1 .. l : a[k] = x[0 + k]
  BY <1>1, <1>2, Zenon DEF IsSlice
<1>4. n \in Nat /\ m \in Nat /\ m = n - l /\ n <= Len(x)
  BY <1>1
<1>5. b \in Seq(T) /\ Len(b) = m /\ \A k \in 1 .. m : b[k] = x[l + k]
  <2>1. n \in Nat /\ m \in Nat /\ m = n - l /\ n <= Len(x)
    BY <1>4
  <2> HIDE DEF n, m, a
  <2>2. IsSlice(SubSeq(x, l + 1, n), T, x, l, m)
    BY <2>1, Slice, Zenon
  <2>3. QED
    BY <2>2, Zenon DEF IsSlice
<1>6. Len(x) = n
  OBVIOUS
<1> HIDE DEF a, b, m, n
<1>7. a \o b \in Seq(T) /\ Len(a \o b) = l + m
  BY <1>3, <1>5, SMTT(40)
<1>8. ASSUME NEW k \in 1 .. Len(a \o b)
      PROVE  (a \o b)[k] = x[k]
  <2>1. CASE k <= l
    <3>1. k \in 1 .. l /\ (a \o b)[k] = a[k] /\ 0 + k = k
      BY <1>1, <1>3, <1>5, <1>7, <2>1
    <3>2. QED
      BY <1>3, <3>1
  <2>2. CASE ~ (k <= l)
    <3>1. k - l \in 1 .. m /\ l + (k - l) = k
      BY <1>1, <1>7, <2>2
    <3>2. (a \o b)[k] = b[k - l]
      BY <1>1, <1>3, <1>5, <1>7, <2>2
    <3>3. QED
      BY <1>5, <3>1, <3>2
  <2>3. QED
    BY <2>1, <2>2
<1>9. Len(a \o b) = Len(x)
  BY <1>1, <1>6, <1>7
<1>10. a \o b = x
  BY <1>7, <1>8, <1>9, SameSeq
<1>11. QED
  BY <1>10 DEF a, b, n

LEMMA Ascending ==
  ASSUME NEW n \in Nat, NEW s \in [1 .. n + 1 -> Nat], \A i \in 1 .. n : s[i] <= s[i + 1]
  PROVE  \A i, j \in 1 .. n + 1 : i <= j => s[i] <= s[j]
<1> DEFINE S == {k \in Nat : \A i \in 1 .. n + 1 : i + k <= n + 1 => s[i] <= s[i + k]}
<1>1. 0 \in S
  OBVIOUS
<1>2. ASSUME NEW k \in Nat, k \in S PROVE k + 1 \in S
  <2> SUFFICES ASSUME NEW i \in 1 .. n + 1, i + (k + 1) <= n + 1 PROVE s[i] <= s[i + (k + 1)]
    OBVIOUS
  <2>1. i + k \in 1 .. n /\ i + k <= n + 1 /\ i + k + 1 = i + (k + 1) /\ i + k \in 1 .. n + 1
        /\ i + (k + 1) \in 1 .. n + 1
    OBVIOUS
  <2>2. s[i] <= s[i + k] /\ s[i + k] <= s[i + (k + 1)]
    BY <1>2, <2>1
  <2>3. s[i] \in Nat /\ s[i + k] \in Nat /\ s[i + (k + 1)] \in Nat
    BY <2>1
  <2>4. QED
    BY <2>2, <2>3
<1> HIDE DEF S
<1>3. \A k \in Nat : k \in S
  BY <1>1, <1>2, AllNaturals
<1>4. QED
  <2> SUFFICES ASSUME NEW i \in 1 .. n + 1, NEW j \in 1 .. n + 1, i <= j PROVE s[i] <= s[j]
    OBVIOUS
  <2>1. j - i \in Nat /\ i + (j - i) = j /\ i + (j - i) <= n + 1
    OBVIOUS
  <2>2. s[i] <= s[i + (j - i)]
    BY <1>3, <2>1 DEF S
  <2>3. QED
    BY <2>1, <2>2

=============================================================================

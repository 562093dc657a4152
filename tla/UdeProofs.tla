----------------------------- MODULE UdeProofs ------------------------------
(***************************************************************************)
(* The stateful interface of WASM libraries, for any number of clients,    *)
(* calls, units and arguments: what a client gets is what it asked for,    *)
(* the guest touches only memory it owns, and decode fails only for the    *)
(* reasons named.                                                          *)
(***************************************************************************)
EXTENDS Ude, SequenceLemmas

-----------------------------------------------------------------------------
(* Arguments: what goes over as bytes comes back as the map of last words. *)
KeyBytes(kwargs, k) == {kwargs[k].key[i] : i \in DOMAIN kwargs[k].key}
WordBytes(kwargs, k) == {kwargs[k].word[i] : i \in DOMAIN kwargs[k].word}
ArgumentBytes(kwargs) ==
  Nat \cup (UNION {KeyBytes(kwargs, k) : k \in DOMAIN kwargs})
      \cup (UNION {WordBytes(kwargs, k) : k \in DOMAIN kwargs})

Pairs(kwargs) == [k \in DOMAIN kwargs |-> kwargs[k].key \o kwargs[k].word]

LEMMA TupleSeq ==
  ASSUME NEW s, IsTuple(s), NEW T, \A k \in DOMAIN s : s[k] \in T
  PROVE  s \in Seq(T) /\ Len(s) \in Nat /\ DOMAIN s = 1 .. Len(s)
<1> DEFINE n == Len(s)
<1>1. n \in Nat /\ s = [k \in 1 .. n |-> s[k]]
  BY DEF IsTuple
<1> HIDE DEF n
<1>2. DOMAIN s = 1 .. n
  BY <1>1
<1>3. s \in [1 .. n -> T]
  BY <1>1, <1>2
<1>4. s \in Seq(T)
  BY <1>1, <1>3
<1>5. QED
  BY <1>1, <1>2, <1>4 DEF n

LEMMA ArgumentsType ==
  ASSUME NEW kwargs \in Arguments, kwargs # NoArguments
  PROVE  /\ Len(kwargs) \in Nat /\ DOMAIN kwargs = 1 .. Len(kwargs)
         /\ \A k \in DOMAIN kwargs : /\ kwargs[k].key \in Seq(ArgumentBytes(kwargs))
                                     /\ kwargs[k].word \in Seq(ArgumentBytes(kwargs))
                                     /\ kwargs[k].key \o kwargs[k].word \in Seq(ArgumentBytes(kwargs))
         /\ Pairs(kwargs) \in Seq(Seq(ArgumentBytes(kwargs))) /\ Len(Pairs(kwargs)) = Len(kwargs)
         /\ Nat \subseteq ArgumentBytes(kwargs)
<1> DEFINE T == ArgumentBytes(kwargs)
<1>1. /\ IsTuple(kwargs)
      /\ \A k \in DOMAIN kwargs : IsTuple(kwargs[k].key) /\ IsTuple(kwargs[k].word)
  BY ArgumentsAssumption
<1>2. Len(kwargs) \in Nat /\ DOMAIN kwargs = 1 .. Len(kwargs)
  <2> DEFINE A == {kwargs[k] : k \in DOMAIN kwargs}
  <2>1. \A k \in DOMAIN kwargs : kwargs[k] \in A
    OBVIOUS
  <2> HIDE DEF A
  <2>2. QED
    BY <1>1, <2>1, TupleSeq
<1>3. ASSUME NEW k \in DOMAIN kwargs
      PROVE  kwargs[k].key \in Seq(T) /\ kwargs[k].word \in Seq(T)
  <2>1. \A i \in DOMAIN kwargs[k].key : kwargs[k].key[i] \in T
    <3>0. KeyBytes(kwargs, k) \in {KeyBytes(kwargs, j) : j \in DOMAIN kwargs}
      OBVIOUS
    <3>1. KeyBytes(kwargs, k) \subseteq T
      BY <3>0 DEF ArgumentBytes
    <3> HIDE DEF T
    <3>2. QED
      BY <3>1, Zenon DEF KeyBytes
  <2>2. \A i \in DOMAIN kwargs[k].word : kwargs[k].word[i] \in T
    <3>0. WordBytes(kwargs, k) \in {WordBytes(kwargs, j) : j \in DOMAIN kwargs}
      OBVIOUS
    <3>1. WordBytes(kwargs, k) \subseteq T
      BY <3>0 DEF ArgumentBytes
    <3> HIDE DEF T
    <3>2. QED
      BY <3>1, Zenon DEF WordBytes
  <2> HIDE DEF T
  <2>3. QED
    BY <1>1, <2>1, <2>2, TupleSeq
<1>4. Nat \subseteq T
  BY DEF ArgumentBytes
<1> HIDE DEF T
<1>5. \A k \in DOMAIN kwargs : kwargs[k].key \o kwargs[k].word \in Seq(T)
  BY <1>3, Concat
<1>6. Pairs(kwargs) \in Seq(Seq(T)) /\ Len(Pairs(kwargs)) = Len(kwargs)
  BY <1>2, <1>5 DEF Pairs
<1>7. QED
  BY <1>2, <1>3, <1>4, <1>5, <1>6 DEF T

(* The parts of serialized arguments.                                      *)
LEMMA SerializedParts ==
  ASSUME NEW kwargs \in Arguments, kwargs # NoArguments
  PROVE  LET n == Len(kwargs)
             bytes == KwargsSerialize(kwargs)
             flat == FlattenSeq(Pairs(kwargs))
         IN /\ bytes \in Seq(ArgumentBytes(kwargs)) /\ flat \in Seq(ArgumentBytes(kwargs))
            /\ Len(bytes) = 1 + 2 * n + Len(flat)
            /\ bytes[1] = n
            /\ \A k \in 1 .. n : bytes[1 + k] = Len(kwargs[k].key)
            /\ \A k \in 1 .. n : bytes[1 + n + k] = Len(kwargs[k].word)
            /\ \A x \in 1 .. Len(flat) : bytes[1 + 2 * n + x] = flat[x]
<1> DEFINE n == Len(kwargs)
           T == ArgumentBytes(kwargs)
           flat == FlattenSeq(Pairs(kwargs))
           a == <<n>>
           b == [k \in DOMAIN kwargs |-> Len(kwargs[k].key)]
           c == [k \in DOMAIN kwargs |-> Len(kwargs[k].word)]
<1>1. /\ n \in Nat /\ DOMAIN kwargs = 1 .. n /\ Nat \subseteq T
      /\ \A k \in 1 .. n : kwargs[k].key \in Seq(T) /\ kwargs[k].word \in Seq(T)
  BY ArgumentsType
<1>2. flat \in Seq(T)
  BY ArgumentsType, FlattenType
<1>3. KwargsSerialize(kwargs) = ((a \o b) \o c) \o flat
  BY DEF KwargsSerialize, Pairs
<1>4. \A k \in 1 .. n : Len(kwargs[k].key) \in Nat /\ Len(kwargs[k].word) \in Nat
  BY <1>1
<1>5. a \in Seq(T) /\ Len(a) = 1 /\ a[1] = n
  BY <1>1
<1>6. b \in Seq(T) /\ Len(b) = n /\ \A k \in 1 .. n : b[k] = Len(kwargs[k].key)
  BY <1>1, <1>4
<1>7. c \in Seq(T) /\ Len(c) = n /\ \A k \in 1 .. n : c[k] = Len(kwargs[k].word)
  BY <1>1, <1>4
<1> HIDE DEF n, T, flat, a, b, c
<1> DEFINE ab == a \o b
           abc == ab \o c
           bytes == abc \o flat
<1>8. /\ ab \in Seq(T) /\ Len(ab) = 1 + n
      /\ ab[1] = n /\ \A k \in 1 .. n : ab[1 + k] = Len(kwargs[k].key)
  <2>0. a \in Seq(T) /\ b \in Seq(T)
    BY <1>5, <1>6
  <2>1. ab \in Seq(T) /\ Len(ab) = 1 + n /\ Len(a) = 1
    <3>1. ab \in Seq(T) /\ Len(ab) = Len(a) + Len(b)
      BY <2>0, Zenon, Concat
    <3>2. QED
      BY <1>5, <1>6, <3>1, Zenon
  <2>2. ab[1] = a[1]
    <3>1. \A x \in 1 .. Len(a) : ab[x] = a[x]
      BY <2>0, Zenon, Concat
    <3>2. 1 \in 1 .. Len(a)
      BY <1>5
    <3>3. QED
      BY <3>1, <3>2, Zenon
  <2>3. \A x \in 1 .. Len(b) : ab[Len(a) + x] = b[x]
    <3>1. a \in Seq(T) /\ b \in Seq(T)
      BY <1>5, <1>6
    <3>2. QED
      BY <3>1
  <2> HIDE DEF ab
  <2>4. \A k \in 1 .. n : ab[1 + k] = b[k]
    BY <2>1, <2>3, <1>6
  <2>5. QED
    BY <2>1, <2>2, <2>4, <1>5, <1>6
<1> HIDE DEF ab
<1>9. /\ abc \in Seq(T) /\ Len(abc) = 1 + n + n
      /\ \A x \in 1 .. 1 + n : abc[x] = ab[x]
      /\ \A k \in 1 .. n : abc[1 + n + k] = Len(kwargs[k].word)
  <2>1. abc \in Seq(T) /\ Len(abc) = Len(ab) + Len(c)
    BY <1>7, <1>8, Concat
  <2>2. \A x \in 1 .. Len(ab) : abc[x] = ab[x]
    BY <1>7, <1>8, Concat
  <2>3. \A x \in 1 .. Len(c) : abc[Len(ab) + x] = c[x]
    <3>1. ab \in Seq(T) /\ c \in Seq(T)
      BY <1>7, <1>8
    <3>2. QED
      BY <3>1
  <2> HIDE DEF abc
  <2>4. \A k \in 1 .. n : abc[1 + n + k] = c[k]
    BY <2>3, <1>7, <1>8
  <2>5. QED
    BY <2>1, <2>2, <2>4, <1>1, <1>7, <1>8
<1> HIDE DEF abc
<1>10. /\ bytes \in Seq(T) /\ Len(bytes) = 1 + n + n + Len(flat)
       /\ \A x \in 1 .. 1 + n + n : bytes[x] = abc[x]
       /\ \A x \in 1 .. Len(flat) : bytes[1 + n + n + x] = flat[x]
  <2>1. bytes \in Seq(T) /\ Len(bytes) = Len(abc) + Len(flat)
    BY <1>2, <1>9, Concat
  <2>2. \A x \in 1 .. Len(abc) : bytes[x] = abc[x]
    BY <1>2, <1>9, Concat
  <2>3. \A x \in 1 .. Len(flat) : bytes[Len(abc) + x] = flat[x]
    <3>1. abc \in Seq(T) /\ flat \in Seq(T)
      BY <1>2, <1>9
    <3>2. QED
      BY <3>1
  <2> HIDE DEF bytes
  <2>4. \A x \in 1 .. Len(flat) : bytes[1 + n + n + x] = flat[x]
    BY <2>3, <1>9
  <2>5. \A x \in 1 .. 1 + n + n : bytes[x] = abc[x]
    BY <2>2, <1>9
  <2>6. QED
    BY <2>1, <2>4, <2>5, <1>9
<1>11. KwargsSerialize(kwargs) = bytes
  BY <1>3 DEF ab, abc
<1> HIDE DEF bytes
<1>12. bytes[1] = n /\ \A k \in 1 .. n : bytes[1 + k] = Len(kwargs[k].key)
  BY <1>1, <1>8, <1>9, <1>10
<1>13. \A k \in 1 .. n : bytes[1 + n + k] = Len(kwargs[k].word)
  BY <1>1, <1>9, <1>10
<1>14. 1 + n + n = 1 + 2 * n
  BY <1>1
<1>15. QED
  BY <1>2, <1>10, <1>11, <1>12, <1>13, <1>14 DEF n, T, flat

(* start of kwargs_deserialize: where the k-th key begins.                 *)
Places(s, bytes, n) ==
  s = [k \in 1 .. n |->
         IF k = 1 THEN 1 + 2 * n ELSE s[k - 1] + bytes[1 + (k - 1)] + bytes[1 + n + (k - 1)]]

LEMMA PlacesRight ==
  ASSUME NEW kwargs \in Arguments, kwargs # NoArguments,
         NEW f, Flattens(f, Pairs(kwargs), Len(kwargs)),
         NEW s, s = CHOOSE t : Places(t, KwargsSerialize(kwargs), Len(kwargs)),
         NEW k \in 1 .. Len(kwargs)
  PROVE  s[k] = 1 + 2 * Len(kwargs) + Before(f, k)
<1> DEFINE n == Len(kwargs)
           bytes == KwargsSerialize(kwargs)
           w == [j \in 1 .. n |-> 1 + 2 * n + Before(f, j)]
           G(j) == bytes[1 + j] + bytes[1 + n + j]
<1>1. n \in Nat
  BY ArgumentsType
<1>2. ASSUME NEW j \in 1 .. n
      PROVE  /\ G(j) \in Nat /\ G(j) = Len(Pairs(kwargs)[j])
             /\ bytes[1 + j] \in Nat /\ bytes[1 + n + j] \in Nat
  <2> DEFINE a == kwargs[j].key
             b == kwargs[j].word
             T == ArgumentBytes(kwargs)
  <2>1. bytes[1 + j] = Len(a) /\ bytes[1 + n + j] = Len(b)
    BY SerializedParts
  <2>2. a \in Seq(T) /\ b \in Seq(T) /\ Pairs(kwargs)[j] = a \o b
    BY ArgumentsType DEF Pairs
  <2> HIDE DEF a, b, T
  <2>3. Len(a \o b) = Len(a) + Len(b) /\ Len(a) \in Nat /\ Len(b) \in Nat
    BY <2>2, Concat
  <2>4. QED
    BY <2>1, <2>2, <2>3
<1>3. ASSUME NEW j \in 1 .. n
      PROVE  Before(f, j) \in Nat /\ (j # 1 => Before(f, j) = Before(f, j - 1) + G(j - 1))
  <2> DEFINE T == ArgumentBytes(kwargs)
             seqs == Pairs(kwargs)
  <2>1. seqs \in Seq(Seq(T)) /\ Len(seqs) = n
    BY ArgumentsType
  <2>2. Flattens(f, seqs, Len(seqs)) /\ j \in 1 .. Len(seqs)
    BY <2>1
  <2> HIDE DEF T, seqs
  <2>3. Before(f, j) \in Nat
    BY <2>1, <2>2, FlattensPlace
  <2>4. CASE j # 1
    <3>1. j - 1 \in 1 .. Len(seqs) /\ j - 1 \in 1 .. n
      BY <2>2, <2>4, <1>1
    <3>2. Len(f[j - 1]) = Before(f, j - 1) + Len(seqs[j - 1])
      <4>1. PICK i \in 1 .. Len(seqs) : i = j - 1
        BY <3>1
      <4>2. Len(f[i]) = Before(f, i) + Len(seqs[i])
        BY <2>1, <2>2, FlattensPlace
      <4>3. QED
        BY <4>1, <4>2
    <3>3. Before(f, j) = Len(f[j - 1])
      BY <2>4 DEF Before
    <3>4. G(j - 1) = Len(seqs[j - 1])
      BY <1>2, <3>1 DEF seqs
    <3> HIDE DEF G
    <3>5. QED
      BY <2>3, <3>2, <3>3, <3>4
  <2>5. QED
    BY <2>3, <2>4
<1>4. Places(w, bytes, n)
  <2> DEFINE r == [j \in 1 .. n |->
       IF j = 1 THEN 1 + 2 * n ELSE w[j - 1] + bytes[1 + (j - 1)] + bytes[1 + n + (j - 1)]]
  <2>1. ASSUME NEW j \in 1 .. n
        PROVE  w[j] = IF j = 1 THEN 1 + 2 * n
                      ELSE w[j - 1] + bytes[1 + (j - 1)] + bytes[1 + n + (j - 1)]
    <3>1. CASE j = 1
      <4>1. Before(f, j) = 0
        BY <3>1 DEF Before
      <4>2. QED
        BY <3>1, <4>1, <1>1
    <3>2. CASE j # 1
      <4>1. j - 1 \in 1 .. n
        BY <3>2, <1>1
      <4>2. /\ Before(f, j) \in Nat /\ Before(f, j - 1) \in Nat
            /\ Before(f, j) = Before(f, j - 1) + (bytes[1 + (j - 1)] + bytes[1 + n + (j - 1)])
            /\ bytes[1 + (j - 1)] \in Nat /\ bytes[1 + n + (j - 1)] \in Nat
        BY <1>2, <1>3, <3>2, <4>1
      <4>3. w[j - 1] = 1 + 2 * n + Before(f, j - 1) /\ w[j] = 1 + 2 * n + Before(f, j)
        BY <4>1
      <4> HIDE DEF bytes, w
      <4>4. QED
        BY <3>2, <4>2, <4>3, <1>1, SMTT(40)
    <3>3. QED
      BY <3>1, <3>2
  <2>2. w = [j \in 1 .. n |-> w[j]]
    OBVIOUS
  <2> HIDE DEF w, bytes
  <2>3. w = r
    BY <2>1, <2>2
  <2>4. QED
    BY <2>3 DEF Places
<1>5. Places(s, bytes, n)
  BY <1>4
<1>6. \A j \in 1 .. n : s[j] = IF j = 1 THEN 1 + 2 * n
                               ELSE s[j - 1] + bytes[1 + (j - 1)] + bytes[1 + n + (j - 1)]
  BY <1>5 DEF Places
<1>7. \A j \in 1 .. n : w[j] = IF j = 1 THEN 1 + 2 * n
                               ELSE w[j - 1] + bytes[1 + (j - 1)] + bytes[1 + n + (j - 1)]
  BY <1>4 DEF Places
<1>8. w[k] = 1 + 2 * n + Before(f, k)
  OBVIOUS
<1> DEFINE S == {j \in Nat : j \in 1 .. n => s[j] = w[j]}
<1> HIDE DEF w, bytes
<1>9. 0 \in S
  OBVIOUS
<1>10. ASSUME NEW j \in Nat, j \in S
       PROVE  j + 1 \in S
  <2>1. CASE j + 1 \in 1 .. n
    <3>1. (j + 1) - 1 = j /\ (j + 1 # 1 => j \in 1 .. n)
      BY <2>1
    <3>2. s[j + 1] = w[j + 1]
      <4>1. CASE j + 1 = 1
        BY <1>6, <1>7, <2>1, <4>1
      <4>2. CASE j + 1 # 1
        <5>1. s[j] = w[j]
          BY <1>10, <3>1, <4>2
        <5>2. s[j + 1] = s[(j + 1) - 1] + bytes[1 + ((j + 1) - 1)] + bytes[1 + n + ((j + 1) - 1)]
          BY <1>6, <2>1, <4>2
        <5>3. w[j + 1] = w[(j + 1) - 1] + bytes[1 + ((j + 1) - 1)] + bytes[1 + n + ((j + 1) - 1)]
          BY <1>7, <2>1, <4>2
        <5>4. QED
          BY <3>1, <5>1, <5>2, <5>3
      <4>3. QED
        BY <4>1, <4>2
    <3>3. QED
      BY <3>2
  <2>2. CASE j + 1 \notin 1 .. n
    BY <2>2
  <2>3. QED
    BY <2>1, <2>2
<1> HIDE DEF S
<1>11. \A j \in Nat : j \in S
  BY <1>9, <1>10, AllNaturals
<1>12. s[k] = w[k]
  BY <1>11, <1>1 DEF S
<1>13. QED
  BY <1>8, <1>12

LEMMA SliceIs ==
  ASSUME NEW T, NEW b \in Seq(T), NEW a \in Seq(T), NEW p \in Nat, p + Len(a) <= Len(b),
         \A x \in 1 .. Len(a) : b[p + x] = a[x]
  PROVE  SubSeq(b, p + 1, p + Len(a)) = a
<1> DEFINE c == SubSeq(b, p + 1, p + Len(a))
<1>1. Len(a) \in Nat /\ Len(b) \in Nat
  OBVIOUS
<1>2. c \in Seq(T) /\ Len(c) = Len(a)
  BY <1>1
<1>3. ASSUME NEW x \in 1 .. Len(a)
      PROVE  c[x] = a[x]
  <2>1. c[x] = b[(p + 1) + x - 1]
    BY <1>1
  <2>2. (p + 1) + x - 1 = p + x
    BY <1>1
  <2>3. QED
    BY <2>1, <2>2
<1> HIDE DEF c
<1>4. c = a
  BY <1>1, <1>2, <1>3
<1>5. QED
  BY <1>4 DEF c

(* What kwargs_deserialize makes of the bytes, with its local definitions  *)
(* as parameters.                                                          *)
KeyAt(bytes, s, k) == SubSeq(bytes, s[k] + 1, s[k] + bytes[1 + k])
WordAt(bytes, s, k) ==
  SubSeq(bytes, s[k] + bytes[1 + k] + 1, s[k] + bytes[1 + k] + bytes[1 + bytes[1] + k])
MapOf(bytes, s) ==
  [key \in {KeyAt(bytes, s, k) : k \in 1 .. bytes[1]} |->
     WordAt(bytes, s, Inserted({k \in 1 .. bytes[1] : KeyAt(bytes, s, k) = key}))]

LEMMA DeserializeIs ==
  ASSUME NEW bytes
  PROVE  KwargsDeserialize(bytes) = MapOf(bytes, CHOOSE t : Places(t, bytes, bytes[1]))
BY DEF KwargsDeserialize, MapOf, KeyAt, WordAt, Places

LEMMA KeyAndWord ==
  ASSUME NEW kwargs \in Arguments, kwargs # NoArguments,
         NEW k \in 1 .. Len(kwargs)
  PROVE  LET bytes == KwargsSerialize(kwargs)
             s == CHOOSE t : Places(t, bytes, Len(kwargs))
         IN KeyAt(bytes, s, k) = kwargs[k].key /\ WordAt(bytes, s, k) = kwargs[k].word
<1> DEFINE n == Len(kwargs)
           T == ArgumentBytes(kwargs)
           bytes == KwargsSerialize(kwargs)
           s == CHOOSE t : Places(t, bytes, n)
           seqs == Pairs(kwargs)
           flat == FlattenSeq(seqs)
           a == kwargs[k].key
           b == kwargs[k].word
<1>1. n \in Nat /\ n # 0 /\ k \in 1 .. n
  BY ArgumentsType
<1>2. seqs \in Seq(Seq(T)) /\ Len(seqs) = n /\ Len(seqs) \in Nat /\ Len(seqs) # 0
  BY <1>1, ArgumentsType
<1>3. PICK f : Flattens(f, seqs, Len(seqs)) /\ flat = f[Len(seqs)]
  BY <1>2, FlattenIs
<1>4. s[k] = 1 + 2 * n + Before(f, k)
  BY <1>2, <1>3, PlacesRight
<1>5. a \in Seq(T) /\ b \in Seq(T) /\ seqs[k] = a \o b
  BY <1>1, ArgumentsType DEF Pairs
<1>6. /\ bytes \in Seq(T) /\ flat \in Seq(T)
      /\ Len(bytes) = 1 + 2 * n + Len(flat)
      /\ bytes[1] = n /\ bytes[1 + k] = Len(a) /\ bytes[1 + n + k] = Len(b)
      /\ \A x \in 1 .. Len(flat) : bytes[1 + 2 * n + x] = flat[x]
  BY SerializedParts
<1> DEFINE q == Before(f, k)
<1> HIDE DEF seqs, T
<1>7. q \in Nat /\ seqs[k] \in Seq(T)
  <2>1. k \in 1 .. Len(seqs)
    BY <1>1, <1>2
  <2>2. QED
    BY <1>2, <1>3, <2>1, FlattensPlace
<1>8. /\ q + Len(seqs[k]) <= Len(flat)
      /\ \A x \in 1 .. Len(seqs[k]) : flat[q + x] = seqs[k][x]
  <2>1. k \in 1 .. Len(seqs)
    BY <1>1, <1>2
  <2>2. QED
    BY <1>2, <1>3, <2>1, FlattenPlace
<1> HIDE DEF n, bytes, s, flat, a, b, q
<1>9. /\ Len(a \o b) = Len(a) + Len(b) /\ Len(a) \in Nat /\ Len(b) \in Nat
      /\ \A x \in 1 .. Len(a) : (a \o b)[x] = a[x]
      /\ \A x \in 1 .. Len(b) : (a \o b)[Len(a) + x] = b[x]
  BY <1>5
<1>10. Len(flat) \in Nat /\ Len(bytes) \in Nat
  BY <1>6
<1> DEFINE p == s[k]
<1>11. p = 1 + 2 * n + q
  BY <1>4 DEF q
<1> HIDE DEF p
<1>12. p \in Nat /\ p + (Len(a) + Len(b)) <= Len(bytes)
  <2>1. q + (Len(a) + Len(b)) <= Len(flat)
    BY <1>5, <1>8, <1>9
  <2>2. Len(bytes) = 1 + 2 * n + Len(flat)
    BY <1>6
  <2>3. QED
    BY <2>1, <2>2, <1>1, <1>7, <1>9, <1>10, <1>11
<1>13. ASSUME NEW x \in 1 .. Len(a) + Len(b)
       PROVE  bytes[p + x] = (a \o b)[x]
  <2>1. q + x \in 1 .. Len(flat)
    BY <1>5, <1>7, <1>8, <1>9, <1>10
  <2>2. bytes[1 + 2 * n + (q + x)] = flat[q + x]
    BY <1>6, <2>1
  <2>3. flat[q + x] = (a \o b)[x]
    BY <1>5, <1>8, <1>9
  <2>4. p + x = 1 + 2 * n + (q + x)
    BY <1>1, <1>7, <1>9, <1>11
  <2>5. QED
    BY <2>2, <2>3, <2>4
<1>14. \A x \in 1 .. Len(a) : bytes[p + x] = a[x]
  BY <1>9, <1>13
<1>15. \A x \in 1 .. Len(b) : bytes[(p + Len(a)) + x] = b[x]
  <2> SUFFICES ASSUME NEW x \in 1 .. Len(b)
               PROVE  bytes[(p + Len(a)) + x] = b[x]
    OBVIOUS
  <2>1. Len(a) + x \in 1 .. Len(a) + Len(b)
    BY <1>9
  <2>2. bytes[p + (Len(a) + x)] = (a \o b)[Len(a) + x]
    BY <1>13, <2>1
  <2>3. p + (Len(a) + x) = (p + Len(a)) + x
    BY <1>9, <1>12
  <2>4. QED
    BY <1>9, <2>2, <2>3
<1>16. SubSeq(bytes, p + 1, p + Len(a)) = a
  <2>1. p + Len(a) <= Len(bytes)
    BY <1>9, <1>10, <1>12
  <2>2. QED
    BY <1>5, <1>6, <1>12, <1>14, <2>1, SliceIs
<1>17. SubSeq(bytes, p + Len(a) + 1, p + Len(a) + Len(b)) = b
  <2>1. p + Len(a) \in Nat /\ (p + Len(a)) + Len(b) <= Len(bytes)
    BY <1>9, <1>10, <1>12
  <2>2. QED
    BY <1>5, <1>6, <1>15, <2>1, SliceIs
<1>18. KeyAt(bytes, s, k) = a
  BY <1>6, <1>16 DEF KeyAt, p
<1>19. WordAt(bytes, s, k) = b
  BY <1>6, <1>17 DEF WordAt, p
<1>20. QED
  BY <1>18, <1>19 DEF bytes, s, a, b, n

LEMMA MaxIn ==
  ASSUME NEW n \in Nat, NEW S, S \subseteq 1 .. n, S # {}
  PROVE  Max(S) \in S
<1>1. \E k \in S : \A j \in S : k >= j
  BY LargestOf
<1>2. QED
  BY <1>1 DEF Max

(* The arguments a library sees are the ones the caller passed: of a key   *)
(* given twice, the last word.                                             *)
LEMMA Deserialized ==
  ASSUME NEW kwargs \in Arguments, kwargs # NoArguments
  PROVE  LET map == KwargsDeserialize(KwargsSerialize(kwargs))
         IN /\ DOMAIN map = {kwargs[k].key : k \in DOMAIN kwargs}
            /\ \A key \in DOMAIN map : map[key] = LastWord(kwargs, key)
<1> DEFINE n == Len(kwargs)
           bytes == KwargsSerialize(kwargs)
           s == CHOOSE t : Places(t, bytes, n)
<1>1. n \in Nat /\ DOMAIN kwargs = 1 .. n
  BY ArgumentsType
<1>2. bytes[1] = n
  BY SerializedParts
<1>3. KwargsDeserialize(bytes) = MapOf(bytes, s)
  BY <1>2, DeserializeIs
<1>4. \A k \in 1 .. n : KeyAt(bytes, s, k) = kwargs[k].key /\ WordAt(bytes, s, k) = kwargs[k].word
  BY KeyAndWord
<1> HIDE DEF n, bytes, s
<1>5. {KeyAt(bytes, s, k) : k \in 1 .. n} = {kwargs[k].key : k \in 1 .. n}
  BY <1>4
<1>6. DOMAIN MapOf(bytes, s) = {kwargs[k].key : k \in 1 .. n}
  BY <1>2, <1>5 DEF MapOf
<1>7. ASSUME NEW key \in {kwargs[k].key : k \in 1 .. n}
      PROVE  MapOf(bytes, s)[key] = LastWord(kwargs, key)
  <2> DEFINE ks == {k \in 1 .. n : kwargs[k].key = key}
  <2>1. {k \in 1 .. n : KeyAt(bytes, s, k) = key} = ks
    BY <1>4
  <2>2. ks \subseteq 1 .. n /\ ks # {}
    OBVIOUS
  <2>3. MapOf(bytes, s)[key] = WordAt(bytes, s, Max(ks))
    BY <1>2, <1>5, <2>1 DEF MapOf, Inserted
  <2>4. LastWord(kwargs, key) = kwargs[Max(ks)].word
    BY <1>1, <2>2 DEF LastWord
  <2> HIDE DEF ks
  <2>5. Max(ks) \in 1 .. n
    BY <1>1, <2>2, MaxIn
  <2>6. QED
    BY <1>4, <2>3, <2>4, <2>5
<1>8. QED
  BY <1>1, <1>3, <1>6, <1>7 DEF n, bytes

-----------------------------------------------------------------------------
(* Units: what vortex_deser takes off the front of a unit is all of it.    *)
LEMMA PaddingNat ==
  ASSUME NEW size \in Nat
  PROVE  PaddingSize(size, Alignment) \in Nat
<1>1. Alignment \in Nat /\ Alignment > 0
  BY AlignmentAssumption
<1>2. size % Alignment \in 0 .. Alignment - 1
  BY <1>1
<1> DEFINE r == Alignment - (size % Alignment)
<1>3. r \in Nat
  BY <1>1, <1>2
<1> HIDE DEF r
<1>4. r % Alignment \in 0 .. Alignment - 1
  BY <1>1, <1>3
<1>5. QED
  BY <1>1, <1>4 DEF PaddingSize, r

LEMMA EncodeArrParts ==
  ASSUME NEW id \in NonNest, NEW rows
  PROVE  LET whole == EncodeArr(FlatArray(id, rows))
             size == DtypeSize(id)
         IN /\ size \in Nat /\ whole[1] = [kind |-> "size", v |-> size]
            /\ Len(whole) \in Nat
            /\ Len(whole) = size + 2 + PaddingSize(size + 1, Alignment)
            /\ \E T : whole \in Seq(T)
<1> DEFINE size == DtypeSize(id)
           pad == PaddingSize(size + 1, Alignment)
           t0 == [kind |-> "size", v |-> size]
           t1 == [kind |-> "dtype", v |-> Flat(id)]
           t2 == [kind |-> "zero", v |-> 0]
           t3 == [kind |-> "array", v |-> rows]
           T == {t0, t1, t2, t3}
           a == Tokens("size", size, 1)
           b == Tokens("dtype", Flat(id), size)
           c == Tokens("zero", 0, pad)
           d == Tokens("array", rows, 1)
<1>1. size \in Nat
  BY DEF DtypeSize
<1>2. pad \in Nat
  BY <1>1, PaddingNat
<1>3. EncodeArr(FlatArray(id, rows)) = ((a \o b) \o c) \o d
  BY DEF EncodeArr, FlatArray, Flat
<1> HIDE DEF size, pad, t0, t1, t2, t3
<1>4. a \in Seq(T) /\ Len(a) = 1 /\ a[1] = t0
  BY DEF Tokens, t0
<1>5. b \in Seq(T) /\ Len(b) = size
  BY <1>1 DEF Tokens, t1
<1>6. c \in Seq(T) /\ Len(c) = pad
  BY <1>2 DEF Tokens, t2
<1>7. d \in Seq(T) /\ Len(d) = 1
  BY DEF Tokens, t3
<1> HIDE DEF a, b, c, d, T
<1> DEFINE ab == a \o b
           abc == ab \o c
           whole == abc \o d
<1>8. ab \in Seq(T) /\ Len(ab) = 1 + size /\ ab[1] = t0
  <2>0. a \in Seq(T) /\ b \in Seq(T)
    BY <1>4, <1>5
  <2>1. ab \in Seq(T) /\ Len(ab) = Len(a) + Len(b) /\ \A x \in 1 .. Len(a) : ab[x] = a[x]
    BY <2>0
  <2> HIDE DEF ab
  <2>2. QED
    BY <2>1, <1>1, <1>4, <1>5
<1> HIDE DEF ab
<1>9. abc \in Seq(T) /\ Len(abc) = 1 + size + pad /\ abc[1] = t0
  <2>0. ab \in Seq(T) /\ c \in Seq(T)
    BY <1>6, <1>8
  <2>1. abc \in Seq(T) /\ Len(abc) = Len(ab) + Len(c) /\ \A x \in 1 .. Len(ab) : abc[x] = ab[x]
    BY <2>0
  <2> HIDE DEF abc
  <2>2. QED
    BY <2>1, <1>1, <1>2, <1>6, <1>8
<1> HIDE DEF abc
<1>10. whole \in Seq(T) /\ Len(whole) = 1 + size + pad + 1 /\ whole[1] = t0
  <2>0. abc \in Seq(T) /\ d \in Seq(T)
    BY <1>7, <1>9
  <2>1. whole \in Seq(T) /\ Len(whole) = Len(abc) + Len(d) /\ \A x \in 1 .. Len(abc) : whole[x] = abc[x]
    BY <2>0
  <2> HIDE DEF whole
  <2>2. QED
    BY <2>1, <1>1, <1>2, <1>7, <1>9
<1> HIDE DEF whole
<1>11. Len(whole) = size + 2 + pad /\ Len(whole) \in Nat
  BY <1>1, <1>2, <1>10
<1>12. EncodeArr(FlatArray(id, rows)) = whole
  BY <1>3 DEF whole, abc, ab
<1>13. QED
  BY <1>1, <1>10, <1>11, <1>12 DEF size, pad, t0

LEMMA UnitBytes ==
  ASSUME NEW unit \in Units
  PROVE  /\ Len(unit.bytes) \in Nat
         /\ VortexDeser(unit.bytes).st = "ok" =>
              VortexDeser(unit.bytes).v.array =
                [type |-> unit.bytes[2].v, rows |-> unit.bytes[Len(unit.bytes)].v]
<1> DEFINE bytes == unit.bytes
           rows == IF bytes = << >> THEN << >> ELSE bytes[Len(bytes)].v
           m == Len(bytes)
<1>1. PICK id \in NonNest : LET whole == EncodeArr(FlatArray(id, rows))
                            IN m \in 0 .. Len(whole) /\ bytes = SubSeq(whole, 1, m)
  BY UnitsAssumption
<1> DEFINE whole == EncodeArr(FlatArray(id, rows))
           size == DtypeSize(id)
           at == size + 2 + PaddingSize(size + 1, Alignment)
<1>2. /\ size \in Nat /\ whole[1] = [kind |-> "size", v |-> size]
      /\ Len(whole) \in Nat /\ Len(whole) = at /\ \E T : whole \in Seq(T)
  BY EncodeArrParts
<1>3. m \in 0 .. Len(whole) /\ bytes = SubSeq(whole, 1, m)
  BY <1>1
<1>4. m \in Nat
  BY <1>2, <1>3
<1> HIDE DEF whole, size
<1>5. bytes # << >> => bytes[1] = whole[1]
  <2>1. PICK T : whole \in Seq(T)
    BY <1>2
  <2> HIDE DEF bytes, m
  <2>2. CASE m = 0
    <3>1. bytes = << >>
      BY <1>3, <2>1, <2>2
    <3>2. QED
      BY <3>1
  <2>3. CASE m # 0
    BY <1>2, <1>3, <2>1, <2>3
  <2>4. QED
    BY <2>2, <2>3
<1>6. ASSUME VortexDeser(bytes).st = "ok"
      PROVE  VortexDeser(bytes).v.array = [type |-> bytes[2].v, rows |-> bytes[m].v]
  <2>1. bytes # << >>
    BY <1>6 DEF VortexDeser, Panic
  <2>2. bytes[1].v = size
    BY <1>2, <1>5, <2>1
  <2> HIDE DEF at
  <2>3. /\ ~(at > Len(bytes))
        /\ VortexDeser(bytes).v.array = [type |-> bytes[2].v, rows |-> bytes[at].v]
    BY <1>6, <2>1, <2>2 DEF VortexDeser, Error, Panic, Ok, at
  <2>4. at = m
    BY <1>2, <1>3, <1>4, <2>3
  <2>5. QED
    BY <2>3, <2>4
<1>7. QED
  BY <1>4, <1>6

-----------------------------------------------------------------------------
(* A decoder's job is what its client asked for.                           *)
Bytes(kwargs) == IF kwargs = NoArguments THEN << >> ELSE KwargsSerialize(kwargs)
UnitArray(unit) == [type |-> unit.bytes[2].v, rows |-> unit.bytes[Len(unit.bytes)].v]

LEMMA TryBuildIs ==
  ASSUME NEW unit \in Units, NEW mode, NEW right, NEW job, TryBuild(unit, mode, right) = Ok(job)
  PROVE  job = [array |-> IF mode = "ppd" THEN Compare(UnitArray(unit), right) ELSE UnitArray(unit),
                partial |-> mode = "partial", dict |-> unit.dict]
<1> DEFINE d == VortexDeser(unit.bytes)
<1>1. TryBuild(unit, mode, right) =
        IF d.st = "ok"
        THEN IF mode = "ppd" /\ d.v.array.type.id # "Int32" THEN Error
             ELSE Ok([array |-> IF mode = "ppd" THEN Compare(d.v.array, right) ELSE d.v.array,
                      partial |-> mode = "partial", dict |-> unit.dict])
        ELSE d
  BY DEF TryBuild, Then
<1> HIDE DEF d
<1>2. d.st = "ok" /\ ~ (mode = "ppd" /\ d.v.array.type.id # "Int32")
  BY <1>1 DEF Ok, Error
<1>3. d.v.array = UnitArray(unit)
  BY <1>2, UnitBytes DEF UnitArray, d
<1>4. QED
  BY <1>1, <1>2, <1>3 DEF Ok

(* Initialisation, with the arguments the caller passed.                   *)
LEMMA InitFffIs ==
  ASSUME NEW unit \in Units, NEW kwargs \in Arguments, NEW job,
         InitFff(unit, Bytes(kwargs)) = Ok(job)
  PROVE  LET words == LastWord(kwargs, Ppd)
         IN /\ kwargs # NoArguments
            /\ words # << >> => TryBuild(unit, "ppd", words[2]) = Ok(job)
            /\ words = << >> =>
                 TryBuild(unit, IF LastWord(kwargs, PartialDecode) = <<1>> THEN "partial" ELSE "all",
                          Null) = Ok(job)
<1> DEFINE map == KwargsDeserialize(Bytes(kwargs))
           words == LastWord(kwargs, Ppd)
           part == LastWord(kwargs, PartialDecode)
<1>1. Bytes(kwargs) # << >> /\ kwargs # NoArguments
  BY DEF InitFff, Panic, Ok, Bytes
<1>2. /\ DOMAIN map = {kwargs[k].key : k \in DOMAIN kwargs}
      /\ \A key \in DOMAIN map : map[key] = LastWord(kwargs, key)
  BY <1>1, Deserialized DEF Bytes
<1>3. \/ /\ Ppd \in DOMAIN map /\ TryBuild(unit, "ppd", map[Ppd][2]) = Ok(job)
      \/ /\ Ppd \notin DOMAIN map
         /\ PartialDecode \in DOMAIN map /\ map[PartialDecode] \notin {<< >>, <<0>>}
         /\ TryBuild(unit, "partial", Null) = Ok(job)
      \/ /\ Ppd \notin DOMAIN map
         /\ ~(PartialDecode \in DOMAIN map /\ map[PartialDecode] \notin {<< >>, <<0>>})
         /\ TryBuild(unit, "all", Null) = Ok(job)
  <2>1. InitFff(unit, Bytes(kwargs)) =
          IF Ppd \in DOMAIN map
          THEN IF map[Ppd][1] # "Eq" \/ map[Ppd][2] = Null THEN Panic
               ELSE TryBuild(unit, "ppd", map[Ppd][2])
          ELSE IF PartialDecode \in DOMAIN map /\ map[PartialDecode] \notin {<< >>, <<0>>}
               THEN TryBuild(unit, "partial", Null)
               ELSE TryBuild(unit, "all", Null)
    BY <1>1 DEF InitFff
  <2>2. Panic # Ok(job)
    BY DEF Panic, Ok
  <2> HIDE DEF map
  <2>3. QED
    BY <2>1, <2>2
<1> HIDE DEF map
<1>4. ASSUME NEW key
      PROVE  /\ key \notin DOMAIN map => LastWord(kwargs, key) = << >>
             /\ key \in DOMAIN map =>
                  \E k \in DOMAIN kwargs : kwargs[k].key = key /\ LastWord(kwargs, key) = kwargs[k].word
  <2> DEFINE ks == {k \in DOMAIN kwargs : kwargs[k].key = key}
  <2>1. key \notin DOMAIN map => ks = {}
    BY <1>2
  <2>2. LastWord(kwargs, key) = IF ks = {} THEN << >> ELSE kwargs[Max(ks)].word
    BY DEF LastWord
  <2>3. Len(kwargs) \in Nat /\ ks \subseteq 1 .. Len(kwargs)
    BY <1>1, ArgumentsType
  <2>4. key \in DOMAIN map => ks # {}
    BY <1>2
  <2>5. ks # {} => Max(ks) \in ks
    <3> HIDE DEF ks
    <3>1. QED
      BY <2>3, MaxIn
  <2>6. QED
    BY <2>1, <2>2, <2>4, <2>5
<1>5. Ppd \in DOMAIN map => words # << >>
  <2> SUFFICES ASSUME Ppd \in DOMAIN map PROVE words # << >>
    OBVIOUS
  <2>1. PICK k \in DOMAIN kwargs : kwargs[k].key = Ppd /\ words = kwargs[k].word
    BY <1>4
  <2>2. Len(words) = 2
    BY <1>1, <2>1, WordsAssumption
  <2> HIDE DEF words
  <2>3. QED
    BY <2>2
<1>6. PartialDecode \in DOMAIN map => part \in {<< >>, <<0>>, <<1>>}
  <2> SUFFICES ASSUME PartialDecode \in DOMAIN map PROVE part \in {<< >>, <<0>>, <<1>>}
    OBVIOUS
  <2>1. PICK k \in DOMAIN kwargs : kwargs[k].key = PartialDecode /\ part = kwargs[k].word
    BY <1>4
  <2>2. QED
    BY <1>1, <2>1, WordsAssumption
<1>7. /\ Ppd \in DOMAIN map => map[Ppd] = words
      /\ PartialDecode \in DOMAIN map => map[PartialDecode] = part
      /\ Ppd \notin DOMAIN map => words = << >>
      /\ PartialDecode \notin DOMAIN map => part = << >>
  BY <1>2, <1>4
<1>8. << >> # <<1>> /\ <<0>> # <<1>>
  OBVIOUS
<1> HIDE DEF words, part
<1>9. CASE Ppd \in DOMAIN map
  <2>1. words # << >> /\ TryBuild(unit, "ppd", words[2]) = Ok(job)
    BY <1>3, <1>5, <1>7, <1>9
  <2>2. QED
    BY <1>1, <2>1 DEF words
<1>10. CASE Ppd \notin DOMAIN map
  <2>1. words = << >>
    BY <1>7, <1>10
  <2>2. CASE part = <<1>>
    <3>1. PartialDecode \in DOMAIN map /\ map[PartialDecode] \notin {<< >>, <<0>>}
      BY <1>7, <1>8, <2>2
    <3>2. TryBuild(unit, "partial", Null) = Ok(job)
      BY <1>3, <1>10, <3>1
    <3>3. QED
      BY <1>1, <2>1, <2>2, <3>2 DEF words, part
  <2>3. CASE part # <<1>>
    <3>1. ~(PartialDecode \in DOMAIN map /\ map[PartialDecode] \notin {<< >>, <<0>>})
      BY <1>6, <1>7, <2>3
    <3>2. TryBuild(unit, "all", Null) = Ok(job)
      BY <1>3, <1>10, <3>1
    <3>3. QED
      BY <1>1, <2>1, <2>3, <3>2 DEF words, part
  <2>4. QED
    BY <2>2, <2>3
<1>11. QED
  BY <1>9, <1>10

LEMMA JobRight ==
  ASSUME NEW dec, dec.unit \in Units, dec.kwargs \in Arguments,
         InitFff(dec.unit, Bytes(dec.kwargs)) = Ok(dec.job), DecodeAll(dec.job).st = "ok"
  PROVE  DecodeAll(dec.job).v = Asked(dec)
<1> DEFINE a == UnitArray(dec.unit)
           words == LastWord(dec.kwargs, Ppd)
           part == LastWord(dec.kwargs, PartialDecode)
           job == dec.job
           unit == dec.unit
<1>1. Asked(dec) = IF words # << >> THEN ArrayToBuffers(Compare(a, words[2]))
                   ELSE IF part = <<1>> THEN DictionaryBuffers(a)
                   ELSE ArrayToBuffers(ToArrow(a))
  BY DEF Asked, UnitArray
<1>2. /\ words # << >> => TryBuild(unit, "ppd", words[2]) = Ok(job)
      /\ words = << >> => TryBuild(unit, IF part = <<1>> THEN "partial" ELSE "all", Null) = Ok(job)
  BY InitFffIs
<1>3. DecodeAll(job) = IF ~job.partial THEN Ok(ArrayToBuffers(ToArrow(job.array)))
                       ELSE IF job.dict THEN Ok(DictionaryBuffers(job.array)) ELSE Panic
  BY DEF DecodeAll
<1>4. CASE words # << >>
  <2>1. job = [array |-> Compare(a, words[2]), partial |-> FALSE, dict |-> unit.dict]
    <3>1. job = [array |-> IF "ppd" = "ppd" THEN Compare(UnitArray(unit), words[2]) ELSE UnitArray(unit),
                 partial |-> "ppd" = "partial", dict |-> unit.dict]
      BY <1>2, <1>4, TryBuildIs
    <3>2. ("ppd" = "partial") = FALSE
      OBVIOUS
    <3>3. QED
      BY <3>1, <3>2
  <2>2. ToArrow(Compare(a, words[2])) = Compare(a, words[2])
    BY DEF ToArrow, Compare, FlatArray, Flat, ViewId
  <2>3. DecodeAll(job).v = ArrayToBuffers(ToArrow(Compare(a, words[2])))
    BY <1>3, <2>1 DEF Ok
  <2>4. QED
    BY <1>1, <1>4, <2>2, <2>3
<1>5. CASE words = << >> /\ part = <<1>>
  <2>1. TryBuild(unit, "partial", Null) = Ok(job)
    BY <1>2, <1>5
  <2>2. job = [array |-> a, partial |-> TRUE, dict |-> unit.dict]
    <3>1. job = [array |-> IF "partial" = "ppd" THEN Compare(UnitArray(unit), Null) ELSE UnitArray(unit),
                 partial |-> "partial" = "partial", dict |-> unit.dict]
      BY <2>1, TryBuildIs
    <3>2. ("partial" = "partial") = TRUE
      OBVIOUS
    <3>3. QED
      BY <3>1, <3>2
  <2>3. job.partial
    BY <2>2
  <2>4. job.dict
    BY <1>3, <2>3 DEF Panic
  <2>5. DecodeAll(job).v = DictionaryBuffers(a)
    BY <1>3, <2>2, <2>3, <2>4 DEF Ok
  <2>6. QED
    BY <1>1, <1>5, <2>5
<1>6. CASE words = << >> /\ part # <<1>>
  <2>1. TryBuild(unit, "all", Null) = Ok(job)
    BY <1>2, <1>6
  <2>2. job = [array |-> a, partial |-> FALSE, dict |-> unit.dict]
    <3>1. job = [array |-> IF "all" = "ppd" THEN Compare(UnitArray(unit), Null) ELSE UnitArray(unit),
                 partial |-> "all" = "partial", dict |-> unit.dict]
      BY <2>1, TryBuildIs
    <3>2. ("all" = "partial") = FALSE
      OBVIOUS
    <3>3. QED
      BY <3>1, <3>2
  <2>3. ~job.partial
    BY <2>2
  <2>4. DecodeAll(job).v = ArrayToBuffers(ToArrow(a))
    BY <1>3, <2>2, <2>3 DEF Ok
  <2>5. QED
    BY <1>1, <1>6, <2>4
<1>7. QED
  BY <1>4, <1>5, <1>6

(* Decoding gives buffers, or panics where a dictionary is missing.        *)
LEMMA DecodeAllIs ==
  ASSUME NEW job
  PROVE  /\ DecodeAll(job).st \in {"ok", "panic"}
         /\ DecodeAll(job).st = "panic" => job.partial /\ ~job.dict
         /\ DecodeAll(job).st = "ok" => DecodeAll(job).v \in Seq(ToSet(DecodeAll(job).v))
<1> DEFINE v == DecodeAll(job).v
<1>1. \/ DecodeAll(job) = Ok(ArrayToBuffers(ToArrow(job.array)))
      \/ DecodeAll(job) = Ok(DictionaryBuffers(job.array))
      \/ DecodeAll(job) = Panic /\ job.partial /\ ~job.dict
  BY DEF DecodeAll
<1>2. ASSUME NEW x, NEW y, NEW s \in {<< << >> >>, << >>}
      PROVE  <<x, y>> \o s \in Seq(ToSet(<<x, y>> \o s))
  <2> DEFINE u == <<x, y>>
             w == u \o s
             T == {x, y, << >>}
  <2>1. u \in Seq(T) /\ s \in Seq(T)
    <3> DEFINE e == << >>
    <3>1. x \in T /\ y \in T /\ e \in T
      OBVIOUS
    <3> HIDE DEF T, e
    <3>2. u \in Seq(T) /\ <<e>> \in Seq(T) /\ << >> \in Seq(T)
      BY <3>1
    <3>3. s = <<e>> \/ s = << >>
      BY DEF e
    <3>4. QED
      BY <3>2, <3>3
  <2> HIDE DEF u, T
  <2>2. w \in Seq(T)
    BY <2>1
  <2> HIDE DEF w
  <2>3. w \in Seq(ToSet(w))
    BY <2>2 DEF ToSet
  <2>4. QED
    BY <2>3 DEF w, u
<1>3. ASSUME NEW b
      PROVE  ArrayToBuffers(b) \in Seq(ToSet(ArrayToBuffers(b)))
  BY <1>2 DEF ArrayToBuffers
<1>4. ASSUME NEW b
      PROVE  DictionaryBuffers(b) \in Seq(ToSet(DictionaryBuffers(b)))
  BY DEF DictionaryBuffers, ToSet
<1>5. QED
  BY <1>1, <1>3, <1>4 DEF Ok, Panic

-----------------------------------------------------------------------------
(* The invariant.                                                          *)
Jobs == {InitFff(u, Bytes(k)).v : u \in Units, k \in Arguments}
Buffers == UNION {ToSet(DecodeAll(j).v) : j \in Jobs}
Answers == {"some", "none", "err"}

AreaType == [size : Nat, live : BOOLEAN, written : BOOLEAN]
DecoderType ==
  [job : Jobs, unit : Units, kwargs : Arguments, live : BOOLEAN, done : BOOLEAN,
   taken : BOOLEAN, answers : Seq(Answers)]
IterType == [of : Nat, area : Nat, left : Seq(Buffers), got : Seq(Buffers), live : BOOLEAN]

TypeOK ==
  /\ exports \in BOOLEAN /\ phase \in {"up", "dead", "dropped"} /\ undefined \in BOOLEAN
  /\ cached \in [ptr : Nat, len : Nat]
  /\ areas \in Seq(AreaType)
  /\ decoders \in Seq(DecoderType)
  /\ iters \in Seq(IterType)

(* The cached area exists, is live and holds at least the recorded length; *)
(* its header is written unless an init has panicked; without an area, an  *)
(* allocation has failed.                                                  *)
CachedOK ==
  /\ cached.ptr # 0 =>
       /\ cached.ptr \in 1 .. Len(areas)
       /\ cached.len # 0 /\ cached.len <= areas[cached.ptr].size
       /\ phase = "up" => areas[cached.ptr].live
       /\ ~areas[cached.ptr].written => "unwritten" \in misuse
  /\ cached.ptr = 0 /\ cached.len # 0 => "null" \in misuse
  /\ Len(decoders) # 0 => cached.len # 0

NoneAfterSome(s) ==
  \A k \in 1 .. Len(s) : s[k] = "none" => "some" \in ToSet(SubSeq(s, 1, k))

(* A decoder does its client's job; it is gone only after an answer that   *)
(* says so; it is done only after it has answered with buffers.            *)
DecoderOK(dec) ==
  /\ InitFff(dec.unit, Bytes(dec.kwargs)) = Ok(dec.job)
  /\ dec.live \/ "none" \in ToSet(dec.answers) \/ "err" \in ToSet(dec.answers)
  /\ dec.done => "some" \in ToSet(dec.answers)
  /\ dec.taken => dec.job.partial /\ ~dec.job.dict
  /\ NoneAfterSome(dec.answers)
DecodersOK == \A d \in 1 .. Len(decoders) : DecoderOK(decoders[d])

FailsFor(dec) ==
  "err" \in ToSet(dec.answers) =>
    (dec.job.partial /\ ~dec.job.dict) \/ misuse \cap {"unwritten", "null"} # {}
FailsOK == \A d \in 1 .. Len(decoders) : FailsFor(decoders[d])

(* An iterator belongs to a decoder that is done, no two to the same; its  *)
(* area is live unless it moved; got and left are what was asked for.      *)
ItersOK ==
  /\ \A i \in 1 .. Len(iters) :
       /\ iters[i].of \in 1 .. Len(decoders) /\ decoders[iters[i].of].done
       /\ iters[i].area \in 1 .. Len(areas)
       /\ iters[i].live /\ phase = "up" => areas[iters[i].area].live \/ "moved" \in misuse
  /\ \A i, j \in 1 .. Len(iters) : iters[i].of = iters[j].of => i = j
GotOK ==
  \A i \in 1 .. Len(iters) : iters[i].got \o iters[i].left = Asked(decoders[iters[i].of])

Inv ==
  TypeOK /\ CachedOK /\ DecodersOK /\ FailsOK /\ ItersOK /\ GotOK /\ SafeUnlessMisused

-----------------------------------------------------------------------------
(* Updates of sequences.                                                   *)
LEMMA SeqUpdate ==
  ASSUME NEW T, NEW s \in Seq(T), NEW i \in 1 .. Len(s), NEW e \in T
  PROVE  LET t == [s EXCEPT ![i] = e]
         IN /\ t \in Seq(T) /\ Len(t) = Len(s) /\ t[i] = e
            /\ \A j \in 1 .. Len(s) : j # i => t[j] = s[j]
  OBVIOUS

LEMMA SeqAppend ==
  ASSUME NEW T, NEW s \in Seq(T), NEW e \in T
  PROVE  /\ Append(s, e) \in Seq(T) /\ Len(Append(s, e)) = Len(s) + 1
         /\ Append(s, e)[Len(s) + 1] = e /\ Len(s) \in Nat
         /\ \A j \in 1 .. Len(s) : Append(s, e)[j] = s[j]
  OBVIOUS

LEMMA ToSetAppend ==
  ASSUME NEW T, NEW s \in Seq(T), NEW e \in T
  PROVE  ToSet(Append(s, e)) = ToSet(s) \cup {e}
<1> DEFINE t == Append(s, e)
<1>1. /\ t \in Seq(T) /\ Len(t) = Len(s) + 1 /\ t[Len(s) + 1] = e /\ Len(s) \in Nat
      /\ \A j \in 1 .. Len(s) : t[j] = s[j]
  BY SeqAppend
<1> HIDE DEF t
<1>2. DOMAIN t = 1 .. Len(s) + 1 /\ DOMAIN s = 1 .. Len(s)
  BY <1>1
<1>3. \A x \in ToSet(t) : x \in ToSet(s) \cup {e}
  BY <1>1, <1>2 DEF ToSet
<1>4. \A x \in ToSet(s) : x \in ToSet(t)
  BY <1>1, <1>2 DEF ToSet
<1>5. e \in ToSet(t)
  BY <1>1, <1>2 DEF ToSet
<1>6. QED
  BY <1>3, <1>4, <1>5 DEF t

LEMMA NoneAfterSomeAppend ==
  ASSUME NEW s \in Seq(Answers), NoneAfterSome(s), NEW e \in Answers,
         e = "none" => "some" \in ToSet(s)
  PROVE  NoneAfterSome(Append(s, e))
<1> DEFINE t == Append(s, e)
<1>1. /\ t \in Seq(Answers) /\ Len(t) = Len(s) + 1 /\ t[Len(s) + 1] = e /\ Len(s) \in Nat
      /\ \A j \in 1 .. Len(s) : t[j] = s[j]
  BY SeqAppend
<1>2. ToSet(t) = ToSet(s) \cup {e}
  BY ToSetAppend
<1> HIDE DEF t
<1>3. ASSUME NEW k \in 1 .. Len(t), t[k] = "none"
      PROVE  "some" \in ToSet(SubSeq(t, 1, k))
  <2>1. CASE k = Len(s) + 1
    <3>1. SubSeq(t, 1, k) = t
      BY <1>1, <2>1
    <3>2. QED
      BY <1>1, <1>2, <1>3, <2>1, <3>1
  <2>2. CASE k # Len(s) + 1
    <3>1. k \in 1 .. Len(s) /\ s[k] = "none"
      BY <1>1, <1>3, <2>2
    <3>2. SubSeq(t, 1, k) = SubSeq(s, 1, k)
      <4> DEFINE u == SubSeq(t, 1, k)
                 v == SubSeq(s, 1, k)
      <4>1. u \in Seq(Answers) /\ Len(u) = k /\ \A x \in 1 .. k : u[x] = t[x]
        BY <1>1, <3>1
      <4>2. v \in Seq(Answers) /\ Len(v) = k /\ \A x \in 1 .. k : v[x] = s[x]
        BY <3>1
      <4> HIDE DEF u, v
      <4>3. u = v
        <5>1. \A x \in 1 .. k : u[x] = v[x]
          BY <4>1, <4>2, <3>1, <1>1
        <5>2. QED
          BY <4>1, <4>2, <5>1
      <4>4. QED
        BY <4>3 DEF u, v
    <3>3. QED
      BY <3>1, <3>2 DEF NoneAfterSome
  <2>3. QED
    BY <2>1, <2>2
<1>4. QED
  BY <1>3 DEF NoneAfterSome, t

-----------------------------------------------------------------------------
(* Each action keeps the invariant.                                        *)
LEMMA InitInv == Init => Inv
<1> SUFFICES ASSUME Init PROVE Inv
  OBVIOUS
<1>1. /\ exports \in BOOLEAN /\ phase = "up" /\ undefined = FALSE
      /\ cached = [ptr |-> 0, len |-> 0]
      /\ areas = << >> /\ decoders = << >> /\ iters = << >>
  BY DEF Init
<1>2. Len(areas) = 0 /\ Len(decoders) = 0 /\ Len(iters) = 0
  BY <1>1
<1>3. TypeOK
  <2>1. cached \in [ptr : Nat, len : Nat]
    BY <1>1
  <2>2. areas \in Seq(AreaType) /\ decoders \in Seq(DecoderType) /\ iters \in Seq(IterType)
    BY <1>1
  <2>3. QED
    BY <1>1, <2>1, <2>2 DEF TypeOK
<1>4. CachedOK
  BY <1>1, <1>2 DEF CachedOK
<1>5. DecodersOK /\ FailsOK /\ ItersOK /\ GotOK
  BY <1>2 DEF DecodersOK, FailsOK, ItersOK, GotOK
<1>6. SafeUnlessMisused
  BY <1>1 DEF SafeUnlessMisused
<1>7. QED
  BY <1>3, <1>4, <1>5, <1>6 DEF Inv

(* Preparing the area.                                                     *)
LEMMA PrepareIs ==
  ASSUME TypeOK, CachedOK, phase = "up", NEW len \in Nat, len # 0, NEW null \in BOOLEAN,
         null => Prepare(len, null).allocates
  PROVE  LET p == Prepare(len, null)
         IN /\ p.cached \in [ptr : Nat, len : Nat] /\ p.cached.len # 0
            /\ p.areas \in Seq(AreaType) /\ Len(areas) <= Len(p.areas)
            /\ p.cached.ptr # 0 =>
                 /\ p.cached.ptr \in 1 .. Len(p.areas)
                 /\ p.areas[p.cached.ptr].live
                 /\ len <= p.areas[p.cached.ptr].size
                 /\ p.cached.len <= p.areas[p.cached.ptr].size
                 /\ ~p.allocates => p.cached.ptr = cached.ptr /\ p.areas = areas
            /\ p.cached.ptr = 0 => null \/ (cached.ptr = 0 /\ cached.len # 0)
            /\ 0 \in p.frees => cached.ptr = 0 /\ cached.len # 0
            /\ \A a \in 1 .. Len(areas) : areas[a].live => p.areas[a].live \/ a \in p.frees
<1> DEFINE p == Prepare(len, null)
           fresh == cached.len = 0
           grows == cached.len # 0 /\ cached.len < len
           new == [size |-> len, live |-> TRUE, written |-> FALSE]
           kept == IF grows /\ cached.ptr # 0 THEN [areas EXCEPT ![cached.ptr].live = FALSE] ELSE areas
<1>1. /\ cached \in [ptr : Nat, len : Nat] /\ areas \in Seq(AreaType)
      /\ cached.ptr \in Nat /\ cached.len \in Nat /\ Len(areas) \in Nat
  BY DEF TypeOK
<1>2. cached.ptr # 0 => /\ cached.ptr \in 1 .. Len(areas)
                        /\ cached.len # 0 /\ cached.len <= areas[cached.ptr].size
                        /\ areas[cached.ptr].live /\ areas[cached.ptr] \in AreaType
  <2>1. cached.ptr # 0 => /\ cached.ptr \in 1 .. Len(areas)
                          /\ cached.len # 0 /\ cached.len <= areas[cached.ptr].size
                          /\ areas[cached.ptr].live
    BY Zenon DEF CachedOK
  <2>2. \A a \in 1 .. Len(areas) : areas[a] \in AreaType
    BY <1>1
  <2>3. QED
    BY <2>1, <2>2
<1>3. CASE ~fresh /\ ~grows
  <2>1. p = [cached |-> cached, areas |-> areas, frees |-> {}, allocates |-> FALSE]
    BY <1>3 DEF Prepare, MustGrow
  <2>2. len <= cached.len
    BY <1>1, <1>3
  <2>3. cached.ptr # 0 => len <= areas[cached.ptr].size
    BY <1>1, <1>2, <2>2 DEF AreaType
  <2>4. ~null
    BY <2>1
  <2> HIDE DEF p
  <2>5. QED
    BY <1>1, <1>2, <1>3, <2>1, <2>3, <2>4 DEF p
<1>4. CASE fresh \/ grows
  <2>1. p = [cached |-> [ptr |-> IF null THEN 0 ELSE Len(areas) + 1,
                         len |-> IF fresh THEN len ELSE cached.len],
             areas |-> IF null THEN kept ELSE Append(kept, new),
             frees |-> IF fresh THEN {} ELSE {cached.ptr}, allocates |-> TRUE]
    BY <1>4 DEF Prepare, MustGrow, NewArea
  <2>2. /\ kept \in Seq(AreaType) /\ Len(kept) = Len(areas)
        /\ \A a \in 1 .. Len(areas) : areas[a].live => kept[a].live \/ (~fresh /\ a = cached.ptr)
    <3>1. CASE grows /\ cached.ptr # 0
      <4> DEFINE e == [areas[cached.ptr] EXCEPT !.live = FALSE]
      <4>1. e \in AreaType
        BY <1>2, <3>1 DEF AreaType
      <4>2. kept = [areas EXCEPT ![cached.ptr] = e]
        BY <3>1
      <4> HIDE DEF e
      <4> DEFINE t == [areas EXCEPT ![cached.ptr] = e]
      <4>3. t \in Seq(AreaType) /\ Len(t) = Len(areas) /\ \A j \in 1 .. Len(areas) : j # cached.ptr => t[j] = areas[j]
        BY <1>1, <1>2, <3>1, <4>1, SeqUpdate
      <4> HIDE DEF t, kept
      <4>4. kept = t
        BY <4>2 DEF t
      <4>5. QED
        BY <3>1, <4>3, <4>4
    <3>2. CASE ~(grows /\ cached.ptr # 0)
      <4>1. kept = areas
        BY <3>2
      <4>2. QED
        BY <1>1, <4>1
    <3>3. QED
      BY <3>1, <3>2
  <2>3. new \in AreaType
    BY DEF AreaType
  <2> DEFINE q == Append(kept, new)
  <2>4. /\ q \in Seq(AreaType) /\ Len(q) = Len(areas) + 1 /\ q[Len(areas) + 1] = new
        /\ \A a \in 1 .. Len(areas) : q[a] = kept[a]
    <3> HIDE DEF kept, new
    <3>1. QED
      BY <2>2, <2>3, SeqAppend
  <2>5. /\ p.cached.ptr = (IF null THEN 0 ELSE Len(areas) + 1)
        /\ p.cached.len = (IF fresh THEN len ELSE cached.len)
        /\ p.cached \in [ptr : Nat, len : Nat]
        /\ p.areas = (IF null THEN kept ELSE q)
        /\ p.frees = (IF fresh THEN {} ELSE {cached.ptr}) /\ p.allocates
    <3> HIDE DEF kept, q, new
    <3>1. p = [cached |-> [ptr |-> IF null THEN 0 ELSE Len(areas) + 1,
                           len |-> IF fresh THEN len ELSE cached.len],
               areas |-> IF null THEN kept ELSE q,
               frees |-> IF fresh THEN {} ELSE {cached.ptr}, allocates |-> TRUE]
      BY <2>1 DEF q
    <3> HIDE DEF p
    <3>2. QED
      BY <3>1, <1>1
  <2>6. p.cached.len # 0 /\ p.cached.len <= len
    BY <1>1, <1>4, <2>5
  <2>7. new.size = len /\ new.live
    OBVIOUS
  <2> HIDE DEF p, q, kept, new
  <2>8. p.areas \in Seq(AreaType) /\ Len(areas) <= Len(p.areas)
    BY <1>1, <2>2, <2>4, <2>5
  <2>9. p.cached.ptr # 0 =>
          /\ p.cached.ptr \in 1 .. Len(p.areas)
          /\ p.areas[p.cached.ptr].live
          /\ len <= p.areas[p.cached.ptr].size
          /\ p.cached.len <= p.areas[p.cached.ptr].size
    BY <1>1, <2>4, <2>5, <2>6, <2>7
  <2>10. \A a \in 1 .. Len(areas) : areas[a].live => p.areas[a].live \/ a \in p.frees
    BY <2>2, <2>4, <2>5
  <2>11. 0 \in p.frees => cached.ptr = 0 /\ cached.len # 0
    BY <2>5
  <2>12. p.cached.ptr = 0 => null
    BY <1>1, <2>5
  <2>13. QED
    BY <2>5, <2>6, <2>8, <2>9, <2>10, <2>11, <2>12 DEF p
<1>5. QED
  BY <1>3, <1>4

LEMMA InitFffOk ==
  ASSUME NEW unit, NEW bytes, InitFff(unit, bytes).st = "ok"
  PROVE  InitFff(unit, bytes) = Ok(InitFff(unit, bytes).v)
<1>1. ASSUME NEW mode, NEW right, TryBuild(unit, mode, right).st = "ok"
      PROVE  TryBuild(unit, mode, right) = Ok(TryBuild(unit, mode, right).v)
  <2> DEFINE d == VortexDeser(unit.bytes)
             job == [array |-> IF mode = "ppd" THEN Compare(d.v.array, right) ELSE d.v.array,
                     partial |-> mode = "partial", dict |-> unit.dict]
             other == mode = "ppd" /\ d.v.array.type.id # "Int32"
  <2>1. TryBuild(unit, mode, right) = IF d.st = "ok" THEN IF other THEN Error ELSE Ok(job) ELSE d
    BY DEF TryBuild, Then
  <2> HIDE DEF d, job, other
  <2>2. TryBuild(unit, mode, right) = Ok(job)
    BY <1>1, <2>1 DEF Error
  <2>3. QED
    BY <2>2 DEF Ok
<1> DEFINE map == KwargsDeserialize(bytes)
<1>2. \/ InitFff(unit, bytes) = Panic
      \/ InitFff(unit, bytes) = TryBuild(unit, "ppd", map[Ppd][2])
      \/ InitFff(unit, bytes) = TryBuild(unit, "partial", Null)
      \/ InitFff(unit, bytes) = TryBuild(unit, "all", Null)
  BY DEF InitFff
<1>3. Panic.st # "ok"
  BY DEF Panic
<1> HIDE DEF map
<1>4. QED
  BY <1>1, <1>2, <1>3

LEMMA BytesLen ==
  ASSUME NEW kwargs \in Arguments
  PROVE  Len(Bytes(kwargs)) \in Nat
<1>1. CASE kwargs = NoArguments
  BY <1>1 DEF Bytes
<1>2. CASE kwargs # NoArguments
  <2>1. KwargsSerialize(kwargs) \in Seq(ArgumentBytes(kwargs))
    BY <1>2, SerializedParts
  <2>2. Bytes(kwargs) = KwargsSerialize(kwargs)
    BY <1>2 DEF Bytes
  <2>3. QED
    BY <2>1, <2>2
<1>3. QED
  BY <1>1, <1>2

LEMMA EmptyAnswers ==
  ToSet(<< >>) = {} /\ NoneAfterSome(<< >>) /\ << >> \in Seq(Answers)
BY DEF ToSet, NoneAfterSome

(* What call_init does to the decoders: nothing, or one more that is ready *)
(* to do what it was asked for.                                            *)
LEMMA CallInitDecoders ==
  ASSUME Inv, NEW unit \in Units, NEW kwargs \in Arguments, NEW null \in BOOLEAN,
         CallInit(unit, kwargs, null)
  PROVE  \/ decoders' = decoders
         \/ \E nd \in DecoderType :
              /\ decoders' = Append(decoders, nd) /\ DecoderOK(nd) /\ nd.answers = << >>
<1> DEFINE bytes == Bytes(kwargs)
           r == InitFff(unit, bytes)
           nd == [job |-> r.v, unit |-> unit, kwargs |-> kwargs, live |-> TRUE,
                  done |-> FALSE, taken |-> FALSE, answers |-> << >>]
<1>1. decoders' = decoders \/ decoders' = decoders \o InitWrapper(r, unit, kwargs)
  BY DEF CallInit, Bytes
<1>2. decoders \in Seq(DecoderType)
  BY DEF Inv, TypeOK
<1>3. CASE r.st # "ok"
  <2>1. InitWrapper(r, unit, kwargs) = << >>
    BY <1>3 DEF InitWrapper
  <2>2. decoders \o << >> = decoders
    BY <1>2
  <2>3. QED
    BY <1>1, <2>1, <2>2
<1>4. CASE r.st = "ok"
  <2>1. InitWrapper(r, unit, kwargs) = <<nd>>
    BY <1>4 DEF InitWrapper
  <2>2. r.v \in Jobs
    BY DEF Jobs
  <2>3. r = Ok(r.v)
    BY <1>4, InitFffOk
  <2>4. << >> \in Seq(Answers)
    BY EmptyAnswers
  <2> HIDE DEF r
  <2>5. nd \in DecoderType
    BY <2>2, <2>4 DEF DecoderType
  <2>6. /\ nd.unit = unit /\ nd.kwargs = kwargs /\ nd.job = r.v /\ nd.live
        /\ ~nd.done /\ ~nd.taken /\ nd.answers = << >>
    OBVIOUS
  <2> HIDE DEF nd
  <2>7. DecoderOK(nd)
    <3>1. InitFff(nd.unit, Bytes(nd.kwargs)) = Ok(nd.job)
      BY <2>3, <2>6 DEF r
    <3>2. NoneAfterSome(nd.answers)
      BY <2>6, EmptyAnswers
    <3>3. QED
      BY <2>6, <3>1, <3>2 DEF DecoderOK
  <2>8. decoders \o <<nd>> = Append(decoders, nd)
    BY <1>2, <2>5
  <2>9. QED
    BY <1>1, <2>1, <2>5, <2>6, <2>7, <2>8
<1>5. QED
  BY <1>3, <1>4, SMTT(40)

LEMMA CallInitInv ==
  ASSUME Inv, NEW unit \in Units, NEW kwargs \in Arguments, NEW null \in BOOLEAN,
         CallInit(unit, kwargs, null)
  PROVE  Inv'
<1> DEFINE bytes == Bytes(kwargs)
           len == InitLen(unit.bytes, bytes)
           p == Prepare(len, null)
           r == InitFff(unit, bytes)
           ptr == p.cached.ptr
<1>1. /\ phase = "up" /\ ~undefined
      /\ null => p.allocates
      /\ cached' = p.cached
      /\ undefined' = (0 \in p.frees
                       \/ (p.cached.ptr # 0 /\ p.areas[p.cached.ptr].size
                                               < Header + Len(unit.bytes) + Len(bytes)))
      /\ ptr = 0 => areas' = p.areas /\ decoders' = decoders
      /\ ptr # 0 => areas' = [p.areas EXCEPT ![ptr].written = @ \/ r.st # "panic"]
      /\ misuse' = misuse \cup (IF null THEN {"null"} ELSE {})
                          \cup (IF MovedUnder(p.frees) THEN {"moved"} ELSE {})
                          \cup (IF r.st = "panic" /\ p.allocates THEN {"unwritten"} ELSE {})
      /\ exports' = exports /\ phase' = phase /\ iters' = iters
  BY DEF CallInit, Bytes
<1>2. len \in Nat /\ len # 0 /\ len = Header + Len(unit.bytes) + Len(bytes)
  BY UnitBytes, BytesLen, SMTT(40) DEF InitLen, Header
<1>3. /\ p.cached \in [ptr : Nat, len : Nat] /\ p.cached.len # 0
      /\ p.areas \in Seq(AreaType) /\ Len(areas) <= Len(p.areas)
      /\ p.cached.ptr # 0 =>
           /\ p.cached.ptr \in 1 .. Len(p.areas)
           /\ p.areas[p.cached.ptr].live
           /\ len <= p.areas[p.cached.ptr].size
           /\ p.cached.len <= p.areas[p.cached.ptr].size
           /\ ~p.allocates => p.cached.ptr = cached.ptr /\ p.areas = areas
      /\ p.cached.ptr = 0 => null \/ (cached.ptr = 0 /\ cached.len # 0)
      /\ 0 \in p.frees => cached.ptr = 0 /\ cached.len # 0
      /\ \A a \in 1 .. Len(areas) : areas[a].live => p.areas[a].live \/ a \in p.frees
  <2>1. TypeOK /\ CachedOK
    BY DEF Inv
  <2> HIDE DEF len
  <2>2. QED
    BY <1>1, <1>2, <2>1, PrepareIs, ZenonT(40)
<1> HIDE DEF bytes, len, p, r
<1>4. misuse \subseteq misuse'
  BY <1>1
<1>5. /\ areas' \in Seq(AreaType) /\ Len(areas') = Len(p.areas)
      /\ \A a \in 1 .. Len(p.areas) : /\ areas'[a].live = p.areas[a].live
                                      /\ areas'[a].size = p.areas[a].size
      /\ ptr # 0 => areas'[ptr].written = (p.areas[ptr].written \/ r.st # "panic")
  <2>1. CASE ptr = 0
    BY <1>1, <1>3, <2>1
  <2>2. CASE ptr # 0
    <3> DEFINE e == [p.areas[ptr] EXCEPT !.written = @ \/ r.st # "panic"]
               t == [p.areas EXCEPT ![ptr] = e]
    <3>1. p.areas[ptr] \in AreaType
      BY <1>3, <2>2
    <3>2. /\ e \in AreaType /\ e.live = p.areas[ptr].live /\ e.size = p.areas[ptr].size
          /\ e.written = (p.areas[ptr].written \/ r.st # "panic")
      BY <3>1 DEF AreaType
    <3>3. areas' = t
      BY <1>1, <2>2
    <3> HIDE DEF e
    <3>4. t \in Seq(AreaType) /\ Len(t) = Len(p.areas) /\ t[ptr] = e
          /\ \A j \in 1 .. Len(p.areas) : j # ptr => t[j] = p.areas[j]
      BY <1>3, <2>2, <3>2, SeqUpdate
    <3> HIDE DEF t
    <3>5. QED
      BY <2>2, <3>2, <3>3, <3>4
  <2>3. QED
    BY <2>1, <2>2
<1>6. /\ decoders' \in Seq(DecoderType) /\ Len(decoders) <= Len(decoders') /\ Len(decoders) \in Nat
      /\ \A d \in 1 .. Len(decoders) : decoders'[d] = decoders[d]
      /\ \A d \in 1 .. Len(decoders') : d \notin 1 .. Len(decoders) =>
           DecoderOK(decoders'[d]) /\ decoders'[d].answers = << >>
  <2>1. decoders \in Seq(DecoderType) /\ Len(decoders) \in Nat
    BY DEF Inv, TypeOK
  <2>2. CASE decoders' = decoders
    BY <2>1, <2>2
  <2>3. CASE decoders' # decoders
    <3>1. PICK nd \in DecoderType :
            /\ decoders' = Append(decoders, nd) /\ DecoderOK(nd) /\ nd.answers = << >>
      BY <2>3, CallInitDecoders
    <3>2. /\ decoders' \in Seq(DecoderType) /\ Len(decoders') = Len(decoders) + 1
          /\ decoders'[Len(decoders) + 1] = nd
          /\ \A j \in 1 .. Len(decoders) : decoders'[j] = decoders[j]
      BY <2>1, <3>1, SeqAppend
    <3>3. \A d \in 1 .. Len(decoders') : d \notin 1 .. Len(decoders) => d = Len(decoders) + 1
      BY <2>1, <3>2
    <3>4. QED
      BY <2>1, <3>1, <3>2, <3>3
  <2>4. QED
    BY <2>2, <2>3
<1>7. TypeOK'
  <2>1. exports \in BOOLEAN /\ phase \in {"up", "dead", "dropped"} /\ iters \in Seq(IterType)
    BY DEF Inv, TypeOK
  <2>2. undefined' \in BOOLEAN
    BY <1>1
  <2>3. QED
    BY <1>1, <1>3, <1>5, <1>6, <2>1, <2>2 DEF TypeOK
<1>8. CachedOK'
  <2>1. ptr # 0 => /\ ptr \in 1 .. Len(areas')
                   /\ p.cached.len # 0 /\ p.cached.len <= areas'[ptr].size
                   /\ areas'[ptr].live
    BY <1>3, <1>5
  <2>2. ptr # 0 /\ ~areas'[ptr].written => "unwritten" \in misuse'
    <3> SUFFICES ASSUME ptr # 0, ~areas'[ptr].written PROVE "unwritten" \in misuse'
      OBVIOUS
    <3>1. r.st = "panic" /\ ~p.areas[ptr].written
      BY <1>5
    <3>2. CASE p.allocates
      BY <1>1, <3>1, <3>2
    <3>3. CASE ~p.allocates
      <4>1. cached.ptr # 0 /\ ~areas[cached.ptr].written
        BY <1>3, <3>1, <3>3
      <4>2. "unwritten" \in misuse
        BY <4>1 DEF Inv, CachedOK
      <4>3. QED
        BY <1>4, <4>2
    <3>4. QED
      BY <3>2, <3>3
  <2>3. ptr = 0 => "null" \in misuse'
    <3> SUFFICES ASSUME ptr = 0 PROVE "null" \in misuse'
      OBVIOUS
    <3>1. null \/ (cached.ptr = 0 /\ cached.len # 0)
      BY <1>3
    <3>2. cached.ptr = 0 /\ cached.len # 0 => "null" \in misuse
      BY DEF Inv, CachedOK
    <3>3. QED
      BY <1>1, <1>4, <3>1, <3>2
  <2>4. QED
    BY <1>1, <1>3, <2>1, <2>2, <2>3 DEF CachedOK
<1>9. DecodersOK'
  <2>1. ASSUME NEW d \in 1 .. Len(decoders')
        PROVE  DecoderOK(decoders'[d])
    BY <1>6 DEF Inv, DecodersOK
  <2>2. QED
    BY <2>1 DEF DecodersOK, DecoderOK
<1>10. FailsOK'
  <2>1. ASSUME NEW d \in 1 .. Len(decoders')
        PROVE  "err" \in ToSet(decoders'[d].answers) =>
                 \/ decoders'[d].job.partial /\ ~decoders'[d].job.dict
                 \/ misuse' \cap {"unwritten", "null"} # {}
    <3>1. CASE d \in 1 .. Len(decoders)
      <4>1. decoders'[d] = decoders[d]
        BY <1>6, <3>1
      <4>2. FailsFor(decoders[d])
        BY <3>1 DEF Inv, FailsOK
      <4>3. QED
        BY <1>4, <4>1, <4>2 DEF FailsFor
    <3>2. CASE d \notin 1 .. Len(decoders)
      BY <1>6, <3>2, EmptyAnswers
    <3>3. QED
      BY <3>1, <3>2
  <2>2. QED
    BY <2>1 DEF FailsOK, FailsFor
<1>11. ItersOK'
  <2>1. ItersOK
    BY DEF Inv
  <2>2. ASSUME NEW i \in 1 .. Len(iters)
        PROVE  /\ iters[i].of \in 1 .. Len(decoders') /\ decoders'[iters[i].of].done
               /\ iters[i].area \in 1 .. Len(areas')
               /\ iters[i].live => areas'[iters[i].area].live \/ "moved" \in misuse'
    <3>1. /\ iters[i].of \in 1 .. Len(decoders) /\ decoders[iters[i].of].done
          /\ iters[i].area \in 1 .. Len(areas)
          /\ iters[i].live => areas[iters[i].area].live \/ "moved" \in misuse
      BY <1>1, <2>1 DEF ItersOK
    <3>2. Len(areas) \in Nat /\ Len(p.areas) \in Nat /\ Len(decoders') \in Nat
      BY <1>3, <1>6 DEF Inv, TypeOK
    <3>3. iters[i].of \in 1 .. Len(decoders') /\ decoders'[iters[i].of].done
      <4>1. PICK d \in 1 .. Len(decoders) : d = iters[i].of
        BY <3>1
      <4>2. d \in 1 .. Len(decoders') /\ decoders'[d] = decoders[d]
        BY <1>6, <3>2
      <4>3. QED
        BY <3>1, <4>1, <4>2
    <3>4. iters[i].area \in 1 .. Len(p.areas)
      <4>1. PICK a \in 1 .. Len(areas) : a = iters[i].area
        BY <3>1
      <4>2. Len(areas) <= Len(p.areas)
        BY <1>3
      <4>3. a \in 1 .. Len(p.areas)
        BY <3>2, <4>2
      <4>4. QED
        BY <4>1, <4>3
    <3>5. ASSUME iters[i].live, ~areas'[iters[i].area].live
          PROVE  "moved" \in misuse'
      <4>1. CASE "moved" \in misuse
        BY <1>4, <4>1
      <4>2. CASE "moved" \notin misuse
        <5>1. iters[i].area \in p.frees
          BY <1>3, <1>5, <3>1, <3>4, <3>5, <4>2, SMTT(40)
        <5>2. i \in DOMAIN iters
          BY DEF Inv, TypeOK
        <5>3. MovedUnder(p.frees)
          BY <3>5, <5>1, <5>2 DEF MovedUnder
        <5>4. QED
          BY <1>1, <5>3
      <4>3. QED
        BY <4>1, <4>2
    <3>6. QED
      BY <1>5, <3>3, <3>4, <3>5
  <2>3. QED
    BY <1>1, <2>1, <2>2 DEF ItersOK
<1>12. GotOK'
  <2>1. \A i \in 1 .. Len(iters) : decoders'[iters[i].of] = decoders[iters[i].of]
    BY <1>6 DEF Inv, ItersOK
  <2>2. QED
    BY <1>1, <2>1, ZenonT(40) DEF Inv, GotOK, Asked
<1>13. SafeUnlessMisused'
  <2>1. undefined' => cached.ptr = 0 /\ cached.len # 0
    <3>1. ~(ptr # 0 /\ p.areas[ptr].size < Header + Len(unit.bytes) + Len(bytes))
      <4>1. ptr # 0 => p.areas[ptr].size \in Nat /\ len <= p.areas[ptr].size
        <5> SUFFICES ASSUME ptr # 0 PROVE p.areas[ptr].size \in Nat /\ len <= p.areas[ptr].size
          OBVIOUS
        <5>1. p.areas[ptr] \in AreaType /\ len <= p.areas[ptr].size
          BY <1>3
        <5>2. QED
          BY <5>1 DEF AreaType
      <4>2. QED
        BY <1>2, <4>1
    <3>2. QED
      BY <1>1, <1>3, <3>1
  <2>2. undefined' => "null" \in misuse
    BY <2>1 DEF Inv, CachedOK
  <2>3. QED
    BY <1>4, <2>2 DEF SafeUnlessMisused
<1>14. QED
  BY <1>7, <1>8, <1>9, <1>10, <1>11, <1>12, <1>13, SMTT(40) DEF Inv

(* A decoder that has answered once more and still does the same job.      *)
LEMMA AnsweredDecoder ==
  ASSUME NEW dec \in DecoderType, DecoderOK(dec), NEW nd \in DecoderType, NEW answer \in Answers,
         nd.job = dec.job, nd.unit = dec.unit, nd.kwargs = dec.kwargs,
         nd.answers = Append(dec.answers, answer),
         answer = "none" => dec.done,
         nd.live \/ answer \in {"none", "err"} \/ ~dec.live,
         nd.done => dec.done \/ answer = "some",
         nd.taken => dec.job.partial /\ ~dec.job.dict
  PROVE  DecoderOK(nd) /\ ToSet(nd.answers) = ToSet(dec.answers) \cup {answer}
<1> DEFINE s == dec.answers
<1>1. s \in Seq(Answers)
  BY DEF DecoderType
<1> HIDE DEF s
<1>2. ToSet(nd.answers) = ToSet(s) \cup {answer}
  <2>1. ToSet(Append(s, answer)) = ToSet(s) \cup {answer}
    BY <1>1, ToSetAppend
  <2>2. QED
    BY <2>1, Zenon DEF s
<1>3. /\ InitFff(dec.unit, Bytes(dec.kwargs)) = Ok(dec.job)
      /\ dec.live \/ "none" \in ToSet(s) \/ "err" \in ToSet(s)
      /\ dec.done => "some" \in ToSet(s)
      /\ NoneAfterSome(s)
  BY DEF DecoderOK, s
<1>4. NoneAfterSome(nd.answers)
  <2>1. NoneAfterSome(Append(s, answer))
    BY <1>1, <1>3, NoneAfterSomeAppend
  <2>2. QED
    BY <2>1, Zenon DEF s
<1>5. nd.live \/ "none" \in ToSet(nd.answers) \/ "err" \in ToSet(nd.answers)
  BY <1>2, <1>3
<1>6. nd.done => "some" \in ToSet(nd.answers)
  BY <1>2, <1>3
<1>7. DecoderOK(nd)
  BY <1>3, <1>4, <1>5, <1>6 DEF DecoderOK
<1>8. QED
  BY <1>2, <1>7 DEF s

(* The record call_decode leaves, field by field.                          *)
LEMMA AnswerFields ==
  ASSUME NEW dec \in DecoderType, NEW answer \in Answers
  PROVE  LET t == Append(dec.answers, answer)
             nd == [dec EXCEPT !.answers = t]
         IN /\ nd \in DecoderType /\ nd.answers = t
            /\ nd.job = dec.job /\ nd.unit = dec.unit /\ nd.kwargs = dec.kwargs
            /\ nd.live = dec.live /\ nd.done = dec.done /\ nd.taken = dec.taken
<1> DEFINE t == Append(dec.answers, answer)
<1>1. t \in Seq(Answers)
  <2>1. dec.answers \in Seq(Answers)
    BY DEF DecoderType
  <2>2. QED
    BY <2>1, SeqAppend
<1> HIDE DEF t
<1>2. LET nd == [dec EXCEPT !.answers = t]
      IN /\ nd \in DecoderType /\ nd.answers = t
         /\ nd.job = dec.job /\ nd.unit = dec.unit /\ nd.kwargs = dec.kwargs
         /\ nd.live = dec.live /\ nd.done = dec.done /\ nd.taken = dec.taken
  BY <1>1 DEF DecoderType
<1>3. QED
  BY <1>2 DEF t

(* One decoder changes, to one that does the same job.                     *)
LEMMA DecodersChange ==
  ASSUME Inv, NEW d \in 1 .. Len(decoders), NEW nd \in DecoderType, DecoderOK(nd),
         nd.unit = decoders[d].unit, nd.kwargs = decoders[d].kwargs,
         decoders[d].done => nd.done, FailsFor(nd),
         decoders' = [decoders EXCEPT ![d] = nd], misuse' = misuse
  PROVE  /\ decoders' \in Seq(DecoderType) /\ Len(decoders') = Len(decoders)
         /\ decoders'[d] = nd
         /\ DecodersOK' /\ FailsOK'
         /\ \A e \in 1 .. Len(decoders) : /\ decoders[e].done => decoders'[e].done
                                          /\ Asked(decoders'[e]) = Asked(decoders[e])
                                          /\ e # d => decoders'[e] = decoders[e]
<1>1. decoders \in Seq(DecoderType)
  BY DEF Inv, TypeOK
<1>2. /\ decoders' \in Seq(DecoderType) /\ Len(decoders') = Len(decoders) /\ decoders'[d] = nd
      /\ \A j \in 1 .. Len(decoders) : j # d => decoders'[j] = decoders[j]
  BY <1>1, SeqUpdate
<1>3. ASSUME NEW e \in 1 .. Len(decoders)
      PROVE  DecoderOK(decoders'[e]) /\ FailsFor(decoders'[e])
  <2>1. DecoderOK(decoders[e]) /\ FailsFor(decoders[e])
    BY DEF Inv, DecodersOK, FailsOK
  <2>2. QED
    BY <1>2, <2>1
<1>4. DecodersOK'
  BY <1>2, <1>3 DEF DecodersOK, DecoderOK
<1>5. FailsOK'
  BY <1>2, <1>3 DEF FailsOK, FailsFor
<1>6. ASSUME NEW e \in 1 .. Len(decoders)
      PROVE  /\ decoders[e].done => decoders'[e].done
             /\ Asked(decoders'[e]) = Asked(decoders[e])
  <2>1. CASE e = d
    BY <1>2, <2>1 DEF Asked
  <2>2. CASE e # d
    BY <1>2, <2>2
  <2>3. QED
    BY <2>1, <2>2
<1>7. QED
  BY <1>2, <1>4, <1>5, <1>6

LEMMA OnlyDecoderInv ==
  ASSUME Inv, NEW d \in 1 .. Len(decoders), NEW nd \in DecoderType, DecoderOK(nd),
         nd.unit = decoders[d].unit, nd.kwargs = decoders[d].kwargs,
         decoders[d].done => nd.done, FailsFor(nd),
         decoders' = [decoders EXCEPT ![d] = nd],
         UNCHANGED <<exports, phase, cached, areas, iters, misuse, undefined>>
  PROVE  Inv'
<1>1. /\ decoders' \in Seq(DecoderType) /\ Len(decoders') = Len(decoders)
      /\ DecodersOK' /\ FailsOK'
      /\ \A e \in 1 .. Len(decoders) : /\ decoders[e].done => decoders'[e].done
                                       /\ Asked(decoders'[e]) = Asked(decoders[e])
  BY DecodersChange
<1>2. TypeOK'
  BY <1>1 DEF Inv, TypeOK
<1>3. CachedOK'
  BY <1>1 DEF Inv, CachedOK
<1>4. ItersOK'
  BY <1>1, SMTT(40) DEF Inv, ItersOK
<1>5. GotOK'
  <2>1. ASSUME NEW i \in 1 .. Len(iters)
        PROVE  iters[i].got \o iters[i].left = Asked(decoders'[iters[i].of])
    <3>1. iters[i].of \in 1 .. Len(decoders)
      BY DEF Inv, ItersOK
    <3>2. iters[i].got \o iters[i].left = Asked(decoders[iters[i].of])
      BY DEF Inv, GotOK
    <3>3. QED
      BY <1>1, <3>1, <3>2
  <2>2. QED
    BY <2>1, ZenonT(40) DEF GotOK, Asked
<1>6. SafeUnlessMisused'
  BY DEF Inv, SafeUnlessMisused
<1>7. QED
  BY <1>1, <1>2, <1>3, <1>4, <1>5, <1>6 DEF Inv

(* call_decode that gives nothing, that panics, or without an area.        *)
LEMMA DecodeNoneInv ==
  ASSUME Inv, NEW d \in 1 .. Len(decoders), DecodeNone(d)
  PROVE  Inv'
<1> DEFINE dec == decoders[d]
<1>1. /\ cached.ptr # 0 /\ dec.live /\ dec.done
      /\ UNCHANGED <<exports, phase, cached, areas, iters, misuse, undefined>>
  BY DEF DecodeNone, CanDecode
<1>2. PICK answer \in NoneAnswers(areas[cached.ptr].written) :
        decoders' = [Answered(d, answer) EXCEPT ![d].live = Kept(dec, FALSE)]
  BY DEF DecodeNone
<1>3. /\ answer \in {"none", "err"} /\ answer \in Answers
      /\ answer = "err" => ~areas[cached.ptr].written
  BY <1>2 DEF NoneAnswers, Answers
<1>4. decoders \in Seq(DecoderType) /\ dec \in DecoderType /\ DecoderOK(dec) /\ FailsFor(dec)
  BY DEF Inv, TypeOK, DecodersOK, FailsOK
<1> DEFINE nb == [dec EXCEPT !.answers = Append(dec.answers, answer)]
           nd == [nb EXCEPT !.live = FALSE]
<1>5. decoders' = [decoders EXCEPT ![d] = nd]
  BY <1>2, <1>4 DEF Answered, Kept, DecoderType
<1>6. /\ nb \in DecoderType /\ nb.answers = Append(dec.answers, answer)
      /\ nb.job = dec.job /\ nb.unit = dec.unit /\ nb.kwargs = dec.kwargs
      /\ nb.done = dec.done /\ nb.taken = dec.taken
  BY <1>3, <1>4, AnswerFields
<1> HIDE DEF nb
<1>7. /\ nd \in DecoderType /\ nd.answers = nb.answers
      /\ nd.job = nb.job /\ nd.unit = nb.unit /\ nd.kwargs = nb.kwargs
      /\ nd.done = nb.done /\ nd.taken = nb.taken
  BY <1>6 DEF DecoderType
<1> HIDE DEF dec, nd
<1>8. dec.taken => dec.job.partial /\ ~dec.job.dict
  BY <1>4 DEF DecoderOK
<1>9. DecoderOK(nd) /\ ToSet(nd.answers) = ToSet(dec.answers) \cup {answer}
  <2>1. /\ nd.job = dec.job /\ nd.unit = dec.unit /\ nd.kwargs = dec.kwargs
        /\ nd.answers = Append(dec.answers, answer)
        /\ nd.done = dec.done /\ nd.taken = dec.taken
    BY <1>6, <1>7
  <2>2. /\ nd.taken => dec.job.partial /\ ~dec.job.dict
        /\ nd.done => dec.done \/ answer = "some"
    BY <1>8, <2>1
  <2>3. QED
    BY <1>1, <1>3, <1>4, <1>7, <2>1, <2>2, AnsweredDecoder
<1>10. FailsFor(nd)
  <2>1. answer = "err" => "unwritten" \in misuse
    BY <1>1, <1>3 DEF Inv, CachedOK
  <2>2. QED
    BY <1>4, <1>6, <1>7, <1>9, <2>1 DEF FailsFor
<1>11. QED
  BY <1>1, <1>5, <1>6, <1>7, <1>9, <1>10, OnlyDecoderInv DEF dec

LEMMA DecodePanicsInv ==
  ASSUME Inv, NEW d \in 1 .. Len(decoders), DecodePanics(d)
  PROVE  Inv'
<1> DEFINE dec == decoders[d]
<1>1. /\ dec.live /\ (dec.taken \/ DecodeAll(dec.job).st = "panic")
      /\ decoders' = [Answered(d, "err") EXCEPT ![d].taken = TRUE]
      /\ UNCHANGED <<exports, phase, cached, areas, iters, misuse, undefined>>
  BY DEF DecodePanics
<1>2. decoders \in Seq(DecoderType) /\ dec \in DecoderType /\ DecoderOK(dec) /\ FailsFor(dec)
  BY DEF Inv, TypeOK, DecodersOK, FailsOK
<1> DEFINE nb == [dec EXCEPT !.answers = Append(dec.answers, "err")]
           nd == [nb EXCEPT !.taken = TRUE]
<1>3. decoders' = [decoders EXCEPT ![d] = nd]
  BY <1>1, <1>2 DEF Answered, DecoderType
<1>4. "err" \in Answers
  BY DEF Answers
<1>5. dec.job.partial /\ ~dec.job.dict
  BY <1>1, <1>2, DecodeAllIs DEF DecoderOK
<1>6. /\ nb \in DecoderType /\ nb.answers = Append(dec.answers, "err")
      /\ nb.job = dec.job /\ nb.unit = dec.unit /\ nb.kwargs = dec.kwargs
      /\ nb.live = dec.live /\ nb.done = dec.done
  BY <1>2, <1>4, AnswerFields
<1> HIDE DEF nb
<1>7. /\ nd \in DecoderType /\ nd.answers = nb.answers
      /\ nd.job = nb.job /\ nd.unit = nb.unit /\ nd.kwargs = nb.kwargs
      /\ nd.live = nb.live /\ nd.done = nb.done
  BY <1>6 DEF DecoderType
<1> HIDE DEF dec, nd
<1>8. DecoderOK(nd)
  BY <1>2, <1>4, <1>5, <1>6, <1>7, AnsweredDecoder
<1>9. FailsFor(nd)
  BY <1>5, <1>6, <1>7 DEF FailsFor
<1>10. QED
  BY <1>1, <1>3, <1>6, <1>7, <1>8, <1>9, OnlyDecoderInv DEF dec

LEMMA DecodeRefusedInv ==
  ASSUME Inv, NEW d \in 1 .. Len(decoders), DecodeRefused(d)
  PROVE  Inv'
<1> DEFINE dec == decoders[d]
<1>1. /\ cached.ptr = 0
      /\ decoders' = Answered(d, "err")
      /\ UNCHANGED <<exports, phase, cached, areas, iters, misuse, undefined>>
  BY DEF DecodeRefused
<1>2. decoders \in Seq(DecoderType) /\ dec \in DecoderType /\ DecoderOK(dec)
  BY DEF Inv, TypeOK, DecodersOK
<1> DEFINE nd == [dec EXCEPT !.answers = Append(dec.answers, "err")]
<1>3. decoders' = [decoders EXCEPT ![d] = nd]
  BY <1>1, <1>2 DEF Answered, DecoderType
<1>4. "err" \in Answers /\ (dec.taken => dec.job.partial /\ ~dec.job.dict)
  BY <1>2 DEF Answers, DecoderOK
<1>5. "null" \in misuse
  <2>1. Len(decoders) # 0
    BY <1>2
  <2>2. QED
    BY <1>1, <2>1 DEF Inv, CachedOK
<1>6. /\ nd \in DecoderType /\ nd.answers = Append(dec.answers, "err")
      /\ nd.job = dec.job /\ nd.unit = dec.unit /\ nd.kwargs = dec.kwargs
      /\ nd.live = dec.live /\ nd.done = dec.done /\ nd.taken = dec.taken
  BY <1>2, <1>4, AnswerFields
<1> HIDE DEF dec, nd
<1>7. DecoderOK(nd)
  BY <1>2, <1>4, <1>6, AnsweredDecoder
<1>8. FailsFor(nd)
  BY <1>5 DEF FailsFor
<1>9. QED
  BY <1>1, <1>3, <1>6, <1>7, <1>8, OnlyDecoderInv DEF dec

(* call_decode that gives buffers: the decoder is done and its iterator    *)
(* holds all of them.                                                      *)
LEMMA DecodeSomeInv ==
  ASSUME Inv, NEW d \in 1 .. Len(decoders), DecodeSome(d)
  PROVE  Inv'
<1> DEFINE dec == decoders[d]
           r == DecodeAll(dec.job)
           ptr == cached.ptr
           it == [of |-> d, area |-> ptr, left |-> r.v, got |-> << >>, live |-> TRUE]
<1>1. /\ phase = "up" /\ ptr # 0 /\ dec.live /\ ~dec.done /\ ~dec.taken /\ r.st = "ok"
      /\ decoders' = [Answered(d, "some") EXCEPT ![d].done = TRUE, ![d].live = Kept(dec, TRUE)]
      /\ areas' = [areas EXCEPT ![ptr].written = TRUE]
      /\ iters' = Append(iters, it)
      /\ UNCHANGED <<exports, phase, cached, misuse, undefined>>
  BY DEF DecodeSome, CanDecode
<1>2. /\ decoders \in Seq(DecoderType) /\ dec \in DecoderType /\ DecoderOK(dec) /\ FailsFor(dec)
      /\ areas \in Seq(AreaType) /\ iters \in Seq(IterType) /\ Len(iters) \in Nat
  BY DEF Inv, TypeOK, DecodersOK, FailsOK
<1>3. ptr \in 1 .. Len(areas) /\ areas[ptr].live /\ ptr \in Nat /\ d \in Nat
  <2>1. ptr \in 1 .. Len(areas) /\ areas[ptr].live
    BY <1>1 DEF Inv, CachedOK
  <2>2. ptr \in Nat
    BY DEF Inv, TypeOK
  <2>3. QED
    BY <2>1, <2>2
<1>4. r.v = Asked(dec) /\ r.v \in Seq(Buffers)
  <2>1. /\ dec.unit \in Units /\ dec.kwargs \in Arguments /\ dec.job \in Jobs
        /\ InitFff(dec.unit, Bytes(dec.kwargs)) = Ok(dec.job)
    BY <1>2 DEF DecoderType, DecoderOK
  <2>2. r.v = Asked(dec)
    <3> HIDE DEF dec
    <3>1. QED
      BY <1>1, <2>1, JobRight
  <2>3. r.v \in Seq(ToSet(r.v))
    BY <1>1, DecodeAllIs
  <2>4. ToSet(r.v) \in {ToSet(DecodeAll(j).v) : j \in Jobs}
    BY <2>1
  <2>5. ToSet(r.v) \subseteq Buffers
    BY <2>4 DEF Buffers
  <2> HIDE DEF r
  <2>6. QED
    BY <2>2, <2>3, <2>5
<1>5. areas' \in Seq(AreaType) /\ Len(areas') = Len(areas)
      /\ areas'[ptr].written
      /\ \A a \in 1 .. Len(areas) : areas'[a].live = areas[a].live /\ areas'[a].size = areas[a].size
  <2> DEFINE e == [areas[ptr] EXCEPT !.written = TRUE]
  <2>1. areas[ptr] \in AreaType
    BY <1>2, <1>3
  <2>2. e \in AreaType /\ e.written /\ e.live = areas[ptr].live /\ e.size = areas[ptr].size
    BY <2>1 DEF AreaType
  <2>3. areas' = [areas EXCEPT ![ptr] = e]
    BY <1>1
  <2> HIDE DEF e
  <2>4. areas' \in Seq(AreaType) /\ Len(areas') = Len(areas) /\ areas'[ptr] = e
        /\ \A j \in 1 .. Len(areas) : j # ptr => areas'[j] = areas[j]
    BY <1>2, <1>3, <2>2, <2>3, SeqUpdate
  <2>5. QED
    BY <1>3, <2>2, <2>4
<1> DEFINE nb == [dec EXCEPT !.answers = Append(dec.answers, "some")]
           nd == [nb EXCEPT !.done = TRUE, !.live = TRUE]
<1>6. decoders' = [decoders EXCEPT ![d] = nd]
  BY <1>1, <1>2 DEF Answered, Kept, DecoderType
<1>7. "some" \in Answers
  BY DEF Answers
<1>8. /\ nb \in DecoderType /\ nb.answers = Append(dec.answers, "some")
      /\ nb.job = dec.job /\ nb.unit = dec.unit /\ nb.kwargs = dec.kwargs /\ nb.taken = dec.taken
  BY <1>2, <1>7, AnswerFields
<1> HIDE DEF nb
<1>9. /\ nd \in DecoderType /\ nd.answers = nb.answers
      /\ nd.job = nb.job /\ nd.unit = nb.unit /\ nd.kwargs = nb.kwargs /\ nd.taken = nb.taken
      /\ nd.done /\ nd.live
  BY <1>8 DEF DecoderType
<1>10. DecoderOK(nd) /\ ToSet(nd.answers) = ToSet(dec.answers) \cup {"some"}
  <2> HIDE DEF nd, dec
  <2>1. /\ nd.job = dec.job /\ nd.unit = dec.unit /\ nd.kwargs = dec.kwargs
        /\ nd.answers = Append(dec.answers, "some") /\ nd.live
    BY <1>8, <1>9
  <2>2. /\ nd.taken => dec.job.partial /\ ~dec.job.dict
        /\ "some" # "none"
    BY <1>1, <1>8, <1>9
  <2>3. QED
    BY <1>2, <1>7, <1>9, <2>1, <2>2, AnsweredDecoder
<1> HIDE DEF nd
<1>11. FailsFor(nd)
  BY <1>2, <1>8, <1>9, <1>10 DEF FailsFor
<1>12. /\ decoders' \in Seq(DecoderType) /\ Len(decoders') = Len(decoders)
       /\ decoders'[d] = nd
       /\ DecodersOK' /\ FailsOK'
       /\ \A e \in 1 .. Len(decoders) : /\ decoders[e].done => decoders'[e].done
                                        /\ Asked(decoders'[e]) = Asked(decoders[e])
  BY <1>1, <1>6, <1>8, <1>9, <1>10, <1>11, DecodersChange, ZenonT(40)
<1>13. it \in IterType
  <2>1. << >> \in Seq(Buffers)
    OBVIOUS
  <2> HIDE DEF r
  <2>2. QED
    BY <1>3, <1>4, <2>1 DEF IterType
<1>14. /\ it.of = d /\ it.area = ptr /\ it.left = r.v /\ it.got = << >> /\ it.live
  OBVIOUS
<1> HIDE DEF it, r, dec
<1>15. /\ iters' \in Seq(IterType) /\ Len(iters') = Len(iters) + 1 /\ iters'[Len(iters) + 1] = it
       /\ \A i \in 1 .. Len(iters) : iters'[i] = iters[i]
  BY <1>1, <1>2, <1>13, SeqAppend
<1>16. \A i \in 1 .. Len(iters') : i \in 1 .. Len(iters) \/ i = Len(iters) + 1
  BY <1>2, <1>15
<1>17. TypeOK'
  BY <1>1, <1>5, <1>12, <1>15 DEF Inv, TypeOK
<1>18. CachedOK'
  BY <1>1, <1>3, <1>5, <1>12 DEF Inv, CachedOK
<1>19. \A i \in 1 .. Len(iters) : iters[i].of # d
  BY <1>1 DEF Inv, ItersOK, dec
<1>20. ItersOK'
  <2>1. ItersOK
    BY DEF Inv
  <2>2. ASSUME NEW i \in 1 .. Len(iters')
        PROVE  /\ iters'[i].of \in 1 .. Len(decoders') /\ decoders'[iters'[i].of].done
               /\ iters'[i].area \in 1 .. Len(areas')
               /\ iters'[i].live /\ phase = "up" =>
                    areas'[iters'[i].area].live \/ "moved" \in misuse
    <3>1. CASE i \in 1 .. Len(iters)
      <4>1. iters'[i] = iters[i]
        BY <1>15, <3>1
      <4>2. /\ iters[i].of \in 1 .. Len(decoders) /\ decoders[iters[i].of].done
            /\ iters[i].area \in 1 .. Len(areas)
            /\ iters[i].live /\ phase = "up" => areas[iters[i].area].live \/ "moved" \in misuse
        BY <2>1, <3>1 DEF ItersOK
      <4>3. QED
        BY <1>5, <1>12, <4>1, <4>2
    <3>2. CASE i = Len(iters) + 1
      <4>1. iters'[i] = it
        BY <1>15, <3>2
      <4>2. QED
        BY <1>3, <1>5, <1>9, <1>12, <1>14, <4>1
    <3>3. QED
      BY <1>16, <3>1, <3>2
  <2>3. ASSUME NEW i \in 1 .. Len(iters'), NEW j \in 1 .. Len(iters'), iters'[i].of = iters'[j].of
        PROVE  i = j
    <3>1. \A k \in 1 .. Len(iters) : iters'[k].of = iters[k].of
      BY <1>15
    <3>2. iters'[Len(iters) + 1].of = d
      BY <1>14, <1>15
    <3>3. QED
      BY <1>16, <1>19, <2>1, <2>3, <3>1, <3>2 DEF ItersOK
  <2>4. QED
    BY <1>1, <2>2, <2>3 DEF ItersOK
<1>21. GotOK'
  <2>1. ASSUME NEW i \in 1 .. Len(iters')
        PROVE  iters'[i].got \o iters'[i].left = Asked(decoders'[iters'[i].of])
    <3>1. CASE i \in 1 .. Len(iters)
      <4>1. iters'[i] = iters[i]
        BY <1>15, <3>1
      <4>2. /\ iters[i].of \in 1 .. Len(decoders)
            /\ iters[i].got \o iters[i].left = Asked(decoders[iters[i].of])
        BY <3>1 DEF Inv, ItersOK, GotOK
      <4>3. QED
        BY <1>12, <4>1, <4>2
    <3>2. CASE i = Len(iters) + 1
      <4>1. iters'[i] = it
        BY <1>15, <3>2
      <4>2. << >> \o r.v = r.v
        BY <1>4
      <4>3. Asked(decoders'[d]) = Asked(dec)
        BY <1>12 DEF dec
      <4>4. QED
        BY <1>4, <1>14, <4>1, <4>2, <4>3
    <3>3. QED
      BY <1>16, <3>1, <3>2
  <2>2. QED
    BY <2>1, ZenonT(40) DEF GotOK, Asked
<1>22. SafeUnlessMisused'
  BY <1>1 DEF Inv, SafeUnlessMisused
<1>23. QED
  BY <1>12, <1>17, <1>18, <1>20, <1>21, <1>22 DEF Inv

LEMMA DecodeFreedInv ==
  ASSUME Inv, NEW d \in 1 .. Len(decoders), DecodeFreed(d)
  PROVE  Inv'
<1> DEFINE ended == "none" \in ToSet(decoders[d].answers) \/ "err" \in ToSet(decoders[d].answers)
<1>1. /\ ~decoders[d].live /\ undefined' = TRUE
      /\ misuse' = misuse \cup (IF ended THEN {"ended"} ELSE {})
      /\ UNCHANGED <<exports, phase, cached, areas, decoders, iters>>
  BY DEF DecodeFreed, guest
<1>2. ended
  BY <1>1 DEF Inv, DecodersOK, DecoderOK
<1> HIDE DEF ended
<1>3. misuse \subseteq misuse' /\ "ended" \in misuse'
  BY <1>1, <1>2
<1>4. TypeOK'
  BY <1>1 DEF Inv, TypeOK
<1>5. CachedOK'
  BY <1>1, <1>3, SMTT(40) DEF Inv, CachedOK
<1>6. DecodersOK' /\ GotOK'
  BY <1>1, ZenonT(40) DEF Inv, DecodersOK, DecoderOK, GotOK, Asked
<1>7. FailsOK'
  <2>1. \A e \in 1 .. Len(decoders) :
          "err" \in ToSet(decoders[e].answers) =>
            \/ decoders[e].job.partial /\ ~decoders[e].job.dict
            \/ misuse' \cap {"unwritten", "null"} # {}
    BY <1>3 DEF Inv, FailsOK, FailsFor
  <2>2. QED
    BY <1>1, <2>1 DEF FailsOK, FailsFor
<1>8. ItersOK'
  BY <1>1, <1>3 DEF Inv, ItersOK
<1>9. SafeUnlessMisused'
  BY <1>3 DEF SafeUnlessMisused
<1>10. QED
  BY <1>4, <1>5, <1>6, <1>7, <1>8, <1>9 DEF Inv

(* The iterators.                                                          *)
LEMMA NextBufferInv ==
  ASSUME Inv, NEW i \in 1 .. Len(iters), NextBuffer(i)
  PROVE  Inv'
<1> DEFINE it == iters[i]
           a == it.area
<1>1. /\ phase = "up" /\ it.live /\ undefined' = ~areas[a].live
      /\ iters' = IF it.left = << >> THEN iters
                  ELSE [iters EXCEPT ![i].left = Tail(@), ![i].got = Append(@, Head(it.left))]
      /\ areas' = [areas EXCEPT ![a].written = TRUE]
      /\ UNCHANGED <<exports, phase, cached, decoders, misuse>>
  BY DEF NextBuffer
<1>2. /\ areas \in Seq(AreaType) /\ iters \in Seq(IterType) /\ it \in IterType
      /\ a \in 1 .. Len(areas) /\ (areas[a].live \/ "moved" \in misuse)
  <2>1. areas \in Seq(AreaType) /\ iters \in Seq(IterType) /\ it \in IterType
    BY DEF Inv, TypeOK
  <2>2. a \in 1 .. Len(areas) /\ (areas[a].live \/ "moved" \in misuse)
    BY <1>1, Zenon DEF Inv, ItersOK
  <2>3. QED
    BY <2>1, <2>2
<1>3. areas' \in Seq(AreaType) /\ Len(areas') = Len(areas)
      /\ \A b \in 1 .. Len(areas) : /\ areas'[b].live = areas[b].live /\ areas'[b].size = areas[b].size
                                    /\ areas[b].written => areas'[b].written
  <2> HIDE DEF a
  <2> DEFINE e == [areas[a] EXCEPT !.written = TRUE]
  <2>1. areas[a] \in AreaType
    BY <1>2
  <2>2. e \in AreaType /\ e.written /\ e.live = areas[a].live /\ e.size = areas[a].size
    BY <2>1 DEF AreaType
  <2>3. areas' = [areas EXCEPT ![a] = e]
    BY <1>1
  <2> HIDE DEF e
  <2>4. areas' \in Seq(AreaType) /\ Len(areas') = Len(areas) /\ areas'[a] = e
        /\ \A j \in 1 .. Len(areas) : j # a => areas'[j] = areas[j]
    BY <1>2, <2>2, <2>3, SeqUpdate
  <2>5. QED
    BY <1>2, <2>2, <2>4
<1>4. /\ iters' \in Seq(IterType) /\ Len(iters') = Len(iters)
      /\ \A j \in 1 .. Len(iters) : /\ iters'[j].of = iters[j].of /\ iters'[j].area = iters[j].area
                                    /\ iters'[j].live = iters[j].live
                                    /\ iters'[j].got \o iters'[j].left = iters[j].got \o iters[j].left
  <2>1. CASE it.left = << >>
    BY <1>1, <1>2, <2>1
  <2>2. CASE it.left # << >>
    <3> DEFINE l == it.left
               g == it.got
               n == [it EXCEPT !.left = Tail(l), !.got = Append(g, Head(l))]
    <3>1. l \in Seq(Buffers) /\ g \in Seq(Buffers) /\ l # << >>
      BY <1>2, <2>2 DEF IterType
    <3>2. iters' = [iters EXCEPT ![i] = n]
      BY <1>1, <1>2, <2>2 DEF IterType
    <3> HIDE DEF l, g
    <3> DEFINE tl == Tail(l)
               gh == Append(g, Head(l))
    <3>3. tl \in Seq(Buffers) /\ gh \in Seq(Buffers)
      BY <3>1
    <3>4. gh \o tl = g \o l
      <4> DEFINE x == Head(l)
      <4>1. l = <<x>> \o tl /\ x \in Buffers
        BY <3>1
      <4>2. Append(g, x) = g \o <<x>>
        BY <3>1, <4>1
      <4> HIDE DEF tl, x
      <4>3. (g \o <<x>>) \o tl = g \o (<<x>> \o tl)
        BY <3>1, <3>3, <4>1
      <4>4. QED
        BY <4>1, <4>2, <4>3 DEF x
    <3> HIDE DEF tl, gh
    <3>5. /\ n = [it EXCEPT !.left = tl, !.got = gh]
      BY DEF tl, gh
    <3>6. n \in IterType /\ n.of = it.of /\ n.area = it.area /\ n.live = it.live
          /\ n.got = gh /\ n.left = tl
      <4> DEFINE m == [it EXCEPT !.left = tl, !.got = gh]
      <4>1. m \in IterType /\ m.of = it.of /\ m.area = it.area /\ m.live = it.live
            /\ m.got = gh /\ m.left = tl
        BY <1>2, <3>3 DEF IterType
      <4> HIDE DEF m, n
      <4>2. n = m
        BY <3>5 DEF m
      <4>3. QED
        BY <4>1, <4>2
    <3> HIDE DEF n
    <3>7. iters' \in Seq(IterType) /\ Len(iters') = Len(iters) /\ iters'[i] = n
          /\ \A j \in 1 .. Len(iters) : j # i => iters'[j] = iters[j]
      BY <1>2, <3>2, <3>6, SeqUpdate
    <3>8. n.got \o n.left = it.got \o it.left
      BY <3>4, <3>6 DEF l, g
    <3>9. ASSUME NEW j \in 1 .. Len(iters)
          PROVE  /\ iters'[j].of = iters[j].of /\ iters'[j].area = iters[j].area
                 /\ iters'[j].live = iters[j].live
                 /\ iters'[j].got \o iters'[j].left = iters[j].got \o iters[j].left
      <4>1. CASE j = i
        BY <3>6, <3>7, <3>8, <4>1
      <4>2. CASE j # i
        BY <3>7, <4>2, ZenonT(40)
      <4>3. QED
        BY <4>1, <4>2
    <3>10. QED
      BY <3>7, <3>9
  <2>3. QED
    BY <2>1, <2>2
<1>5. TypeOK'
  BY <1>1, <1>3, <1>4, ZenonT(40) DEF Inv, TypeOK
<1>6. CachedOK'
  BY <1>1, <1>3 DEF Inv, CachedOK
<1>7. DecodersOK' /\ FailsOK'
  BY <1>1, SMTT(40) DEF Inv, DecodersOK, DecoderOK, FailsOK, FailsFor
<1>8. ItersOK'
  <2>1. ItersOK
    BY DEF Inv
  <2>2. ASSUME NEW j \in 1 .. Len(iters)
        PROVE  /\ iters'[j].of \in 1 .. Len(decoders) /\ decoders[iters'[j].of].done
               /\ iters'[j].area \in 1 .. Len(areas')
               /\ iters'[j].live /\ phase = "up" =>
                    areas'[iters'[j].area].live \/ "moved" \in misuse
    <3>1. /\ iters[j].of \in 1 .. Len(decoders) /\ decoders[iters[j].of].done
          /\ iters[j].area \in 1 .. Len(areas)
          /\ iters[j].live /\ phase = "up" => areas[iters[j].area].live \/ "moved" \in misuse
      BY <2>1 DEF ItersOK
    <3>2. QED
      BY <1>3, <1>4, <3>1
  <2>3. \A j, k \in 1 .. Len(iters) : iters'[j].of = iters'[k].of => j = k
    BY <1>4, <2>1 DEF ItersOK
  <2>4. QED
    BY <1>1, <1>4, <2>2, <2>3, ZenonT(40) DEF ItersOK
<1>9. GotOK'
  <2>1. ASSUME NEW j \in 1 .. Len(iters)
        PROVE  iters'[j].got \o iters'[j].left = Asked(decoders[iters'[j].of])
    <3>1. iters[j].got \o iters[j].left = Asked(decoders[iters[j].of])
      BY ZenonT(40) DEF Inv, GotOK
    <3>2. QED
      BY <1>4, <3>1
  <2>2. \A j \in 1 .. Len(iters') :
          iters'[j].got \o iters'[j].left = Asked(decoders'[iters'[j].of])
    BY <1>1, <1>4, <2>1, ZenonT(40)
  <2>3. QED
    BY <2>2, Zenon DEF GotOK, Asked
<1>10. SafeUnlessMisused'
  BY <1>1, <1>2 DEF SafeUnlessMisused
<1>11. QED
  BY <1>5, <1>6, <1>7, <1>8, <1>9, <1>10 DEF Inv

LEMMA DropIterInv ==
  ASSUME Inv, NEW i \in 1 .. Len(iters), DropIter(i)
  PROVE  Inv'
<1> DEFINE n == [iters[i] EXCEPT !.live = FALSE]
<1>1. /\ iters' = [iters EXCEPT ![i].live = FALSE]
      /\ UNCHANGED <<exports, phase, cached, areas, decoders, misuse, undefined>>
  BY DEF DropIter
<1>2. iters \in Seq(IterType) /\ iters[i] \in IterType
  BY DEF Inv, TypeOK
<1>3. n \in IterType /\ n.of = iters[i].of /\ n.area = iters[i].area /\ ~n.live
      /\ n.got = iters[i].got /\ n.left = iters[i].left
  BY <1>2 DEF IterType
<1>4. iters' = [iters EXCEPT ![i] = n]
  BY <1>1
<1> HIDE DEF n
<1>5. iters' \in Seq(IterType) /\ Len(iters') = Len(iters) /\ iters'[i] = n
      /\ \A j \in 1 .. Len(iters) : j # i => iters'[j] = iters[j]
  BY <1>2, <1>3, <1>4, SeqUpdate
<1>6. \A j \in 1 .. Len(iters) :
        /\ iters'[j].of = iters[j].of /\ iters'[j].area = iters[j].area
        /\ iters'[j].live => iters[j].live
        /\ iters'[j].got = iters[j].got /\ iters'[j].left = iters[j].left
  BY <1>3, <1>5
<1>7. TypeOK'
  BY <1>1, <1>5 DEF Inv, TypeOK
<1>8. CachedOK' /\ DecodersOK' /\ FailsOK' /\ SafeUnlessMisused'
  BY <1>1 DEF Inv, CachedOK, DecodersOK, DecoderOK, FailsOK, FailsFor, SafeUnlessMisused
<1>9. ItersOK'
  <2>1. ItersOK
    BY DEF Inv
  <2>2. ASSUME NEW j \in 1 .. Len(iters)
        PROVE  /\ iters'[j].of \in 1 .. Len(decoders) /\ decoders[iters'[j].of].done
               /\ iters'[j].area \in 1 .. Len(areas)
               /\ iters'[j].live /\ phase = "up" =>
                    areas[iters'[j].area].live \/ "moved" \in misuse
    BY <1>6, <2>1 DEF ItersOK
  <2>3. \A j, k \in 1 .. Len(iters) : iters'[j].of = iters'[k].of => j = k
    BY <1>6, <2>1 DEF ItersOK
  <2>4. QED
    BY <1>1, <1>5, <2>2, <2>3 DEF ItersOK
<1>10. GotOK'
  <2>1. ASSUME NEW j \in 1 .. Len(iters)
        PROVE  iters'[j].got \o iters'[j].left = Asked(decoders[iters'[j].of])
    <3>1. iters[j].got \o iters[j].left = Asked(decoders[iters[j].of])
      BY DEF Inv, GotOK
    <3>2. QED
      BY <1>6, <3>1
  <2>2. \A j \in 1 .. Len(iters') :
          iters'[j].got \o iters'[j].left = Asked(decoders'[iters'[j].of])
    BY <1>1, <1>5, <2>1
  <2>3. QED
    BY <2>2, Zenon DEF GotOK, Asked
<1>11. QED
  BY <1>7, <1>8, <1>9, <1>10 DEF Inv

LEMMA DropInstanceInv ==
  ASSUME Inv, DropInstance
  PROVE  Inv'
<1> DEFINE ptr == cached.ptr
<1>1. /\ phase' = "dropped" /\ undefined' = (cached.len # 0 /\ ptr = 0)
      /\ areas' = IF ptr = 0 THEN areas ELSE [areas EXCEPT ![ptr].live = FALSE]
      /\ \A i \in DOMAIN iters : ~iters[i].live
      /\ UNCHANGED <<exports, cached, decoders, iters, misuse>>
  BY DEF DropInstance
<1>2. areas \in Seq(AreaType) /\ (ptr # 0 => ptr \in 1 .. Len(areas))
  BY DEF Inv, TypeOK, CachedOK
<1>3. areas' \in Seq(AreaType) /\ Len(areas') = Len(areas)
      /\ \A a \in 1 .. Len(areas) : areas'[a].size = areas[a].size /\ areas'[a].written = areas[a].written
  <2>1. CASE ptr = 0
    BY <1>1, <1>2, <2>1
  <2>2. CASE ptr # 0
    <3> HIDE DEF ptr
    <3> DEFINE e == [areas[ptr] EXCEPT !.live = FALSE]
    <3>1. areas[ptr] \in AreaType
      BY <1>2, <2>2
    <3>2. e \in AreaType /\ e.size = areas[ptr].size /\ e.written = areas[ptr].written
      BY <3>1 DEF AreaType
    <3>3. areas' = [areas EXCEPT ![ptr] = e]
      BY <1>1, <2>2
    <3> HIDE DEF e
    <3>4. areas' \in Seq(AreaType) /\ Len(areas') = Len(areas) /\ areas'[ptr] = e
          /\ \A j \in 1 .. Len(areas) : j # ptr => areas'[j] = areas[j]
      BY <1>2, <2>2, <3>2, <3>3, SeqUpdate
    <3>5. QED
      BY <3>2, <3>4
  <2>3. QED
    BY <2>1, <2>2
<1>4. TypeOK'
  BY <1>1, <1>3 DEF Inv, TypeOK
<1>5. CachedOK'
  BY <1>1, <1>3 DEF Inv, CachedOK
<1>6. DecodersOK' /\ FailsOK'
  BY <1>1 DEF Inv, DecodersOK, DecoderOK, FailsOK, FailsFor
<1>7. ItersOK'
  <2>1. ItersOK
    BY DEF Inv
  <2>2. phase' # "up"
    BY <1>1, SMTT(40)
  <2>3. QED
    BY <1>1, <1>3, <2>1, <2>2 DEF ItersOK
<1>8. GotOK'
  BY <1>1, ZenonT(40) DEF Inv, GotOK, Asked
<1>9. SafeUnlessMisused'
  <2>1. undefined' => "null" \in misuse
    BY <1>1 DEF Inv, CachedOK
  <2>2. QED
    BY <1>1, <2>1 DEF SafeUnlessMisused
<1>10. QED
  BY <1>4, <1>5, <1>6, <1>7, <1>8, <1>9 DEF Inv

(* A step that changes at most the phase, to dead.                         *)
LEMMA RestInv ==
  ASSUME Inv, phase' \in {phase, "dead"},
         UNCHANGED <<exports, cached, areas, decoders, iters, misuse, undefined>>
  PROVE  Inv'
<1>1. TypeOK'
  BY DEF Inv, TypeOK
<1>2. CachedOK'
  BY DEF Inv, CachedOK
<1>3. DecodersOK' /\ FailsOK'
  BY DEF Inv, DecodersOK, DecoderOK, FailsOK, FailsFor
<1>4. ItersOK'
  BY SMTT(40) DEF Inv, ItersOK
<1>5. GotOK' /\ SafeUnlessMisused'
  BY ZenonT(40) DEF Inv, GotOK, Asked, SafeUnlessMisused
<1>6. QED
  BY <1>1, <1>2, <1>3, <1>4, <1>5 DEF Inv

LEMMA NextInv ==
  ASSUME Inv, [Next]_vars
  PROVE  Inv'
<1>1. DOMAIN decoders = 1 .. Len(decoders) /\ DOMAIN iters = 1 .. Len(iters)
  BY DEF Inv, TypeOK
<1>2. CASE \E unit \in Units, kwargs \in Arguments, null \in BOOLEAN : CallInit(unit, kwargs, null)
  BY <1>2, CallInitInv
<1>3. CASE CallMissing
  BY <1>3, RestInv DEF CallMissing, guest
<1>4. ASSUME NEW d \in DOMAIN decoders,
             \/ DecodeSome(d) \/ DecodeNone(d) \/ DecodePanics(d)
             \/ DecodeFreed(d) \/ DecodeRefused(d)
      PROVE  Inv'
  BY <1>1, <1>4, DecodeSomeInv, DecodeNoneInv, DecodePanicsInv, DecodeFreedInv, DecodeRefusedInv
<1>5. ASSUME NEW i \in DOMAIN iters, NextBuffer(i) \/ DropIter(i)
      PROVE  Inv'
  BY <1>1, <1>5, NextBufferInv, DropIterInv
<1>6. CASE DropInstance
  BY <1>6, DropInstanceInv
<1>7. CASE UNCHANGED vars
  BY <1>7, RestInv DEF vars, guest
<1>8. QED
  BY <1>2, <1>3, <1>4, <1>5, <1>6, <1>7 DEF Next

LEMMA Invariant == Spec => []Inv
<1>1. Init => Inv
  BY InitInv
<1>2. Inv /\ [Next]_vars => Inv'
  BY NextInv
<1>3. QED
  BY <1>1, <1>2, PTL DEF Spec

-----------------------------------------------------------------------------
(* For any units and arguments and any number of decoders and clients, the *)
(* guest touches only memory it owns, unless a client decodes on after the *)
(* end, an area moves under a live iterator, or an allocation has failed   *)
(* (call_init, call_decode and the drops of lib.rs).                       *)
THEOREM MemorySafe == Spec => []SafeUnlessMisused
<1>1. Inv => SafeUnlessMisused
  BY DEF Inv
<1>2. QED
  BY <1>1, Invariant, PTL

(* call_decode fails only for partial decoding of what is no dictionary,   *)
(* or after an init that panicked or got no memory, whatever the other     *)
(* clients of the instance do.                                             *)
THEOREM DecodeFailsOnlyAfter == Spec => []FailsOnlyAfter
<1>1. Inv => FailsOnlyAfter
  <2> SUFFICES ASSUME Inv PROVE FailsOnlyAfter
    OBVIOUS
  <2>1. DOMAIN decoders = 1 .. Len(decoders)
    BY DEF Inv, TypeOK
  <2>2. \A d \in 1 .. Len(decoders) : FailsFor(decoders[d])
    BY DEF Inv, FailsOK
  <2>3. QED
    BY <2>1, <2>2 DEF FailsOnlyAfter, FailsFor
<1>2. QED
  BY <1>1, Invariant, PTL

(* Every client gets the buffers of its own unit under its own arguments,  *)
(* in order and once, and the end is reported only after them: what        *)
(* init_fff makes of the serialized arguments and the unit is what the     *)
(* client asked for, and no interleaving of calls mixes two decoders.      *)
THEOREM ClientsGetTheirs == Spec => []ResultRight
<1>1. Inv => ResultRight
  <2> SUFFICES ASSUME Inv PROVE ResultRight
    OBVIOUS
  <2>1. DOMAIN decoders = 1 .. Len(decoders) /\ DOMAIN iters = 1 .. Len(iters)
    BY DEF Inv, TypeOK
  <2>2. \A i \in DOMAIN iters : iters[i].got \o iters[i].left = Asked(decoders[iters[i].of])
    BY <2>1 DEF Inv, GotOK
  <2>3. \A i, j \in DOMAIN iters : iters[i].of = iters[j].of => i = j
    BY <2>1 DEF Inv, ItersOK
  <2>4. ASSUME NEW d \in DOMAIN decoders, NEW k \in DOMAIN decoders[d].answers,
               decoders[d].answers[k] = "none"
        PROVE  "some" \in ToSet(SubSeq(decoders[d].answers, 1, k))
    <3> DEFINE s == decoders[d].answers
    <3>1a. decoders[d] \in DecoderType
      BY <2>1 DEF Inv, TypeOK
    <3>1b. DecoderOK(decoders[d])
      BY <2>1 DEF Inv, DecodersOK
    <3>1. s \in Seq(Answers) /\ NoneAfterSome(s)
      BY <3>1a, <3>1b DEF DecoderType, DecoderOK
    <3> HIDE DEF s
    <3>2. DOMAIN s = 1 .. Len(s)
      BY <3>1
    <3>3. QED
      BY <2>4, <3>1, <3>2 DEF s, NoneAfterSome
  <2>5. QED
    BY <2>2, <2>3, <2>4 DEF ResultRight
<1>2. QED
  BY <1>1, Invariant, PTL
====
